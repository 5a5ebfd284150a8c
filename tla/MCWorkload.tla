------------------------------- MODULE MCWorkload -------------------------------
(* Values for the constants of Workload that a cfg cannot express.           *)
EXTENDS Workload

Word(k, v) == [key |-> k, value |-> v]

(* s0.5 f0.1 sequential s0.3 f0.9 zipf0.9 shuffle                            *)
MCZoneWords == <<Word("s", 5), Word("f", 1), Word("sequential", 0),
                 Word("s", 3), Word("f", 9), Word("zipf", 0), Word("shuffle", 0)>>

(* Two pages; a read; a page and its neighbour's half; two and a half pages. *)
MCRecords == <<[op |-> "WS", start |-> 0, len |-> 16], [op |-> "R", start |-> 0, len |-> 4],
               [op |-> "WS", start |-> 12, len |-> 8], [op |-> "WS", start |-> 24, len |-> 20]>>

Setup(strings, counts, ids) ==
  {[string |-> s, threads |-> n, depth |-> ids, writes |-> 5] : s \in strings, n \in counts}

MCSetups ==
  Setup({{"sequential"}, {"uniform"}, {"beta", "-noshuffle"}, {"zones", "-noshuffle"},
         {"seqzones", "zones", "-shuffle"}, {"fiozipf", "zipf"}, {"zipf"}, {"mockdb"},
         {"trace", "RocksDBYCSB", "-noshuffle"}, {"trace", "FIU"}, {"trace", "Alibaba"}}, {1}, 1)
    \cup {[setup EXCEPT !.writes = 6] : setup \in Setup({{"fiozipf", "zipf"}}, {1}, 1)}
    \cup Setup({{"zns"}}, {1}, 2)
    \cup Setup({{"sequential", "-shuffle"}}, {2}, 1)

ZNSRead == Setup({{"zns"}}, {1}, 1)

MCLeftovers == {<<>>, <<1, 0, 2>>}
=============================================================================
