------------------------------ MODULE TraceReader ------------------------------
(***************************************************************************)
(* Recorded traces (traces/src): the records of a trace are cut into pages *)
(* and written to a file, which a generator reads in chunks, starting over *)
(* at its end.  The stream is static: every generator of the program reads *)
(* on where the last one stopped.                                          *)
(*                                                                         *)
(* A chunk holds the positions of its entries in the file.                 *)
(***************************************************************************)
EXTENDS PatternGen, SequencesExt

CONSTANTS
  Records,          (* the trace: records [op, start, len]                 *)
  SectorSize, PageSize,
  Leftovers         (* parsed files earlier runs may have left             *)

ASSUME TraceAssumption ==
  /\ SectorSize \in Nat \ {0} /\ PageSize \in Nat \ {0}
  /\ Records \in Seq([op : {"WS", "R"}, start : Nat, len : Nat])
  /\ Leftovers \subseteq Seq(Nat)

VARIABLES
  file,             (* the parsed trace                                    *)
  filePos,          (* entries before the position of the stream           *)
  replayed          (* how often each entry was drawn, less the least of   *)
                    (* these numbers (to state a property)                 *)

traceVars == <<file, filePos, replayed>>

-----------------------------------------------------------------------------
(* Parsing.  Steps of a page from where a request starts: one that does    *)
(* not start with a page may miss the last page it touches.                *)

PagesOf(start, size) ==
  [i \in 1 .. (size + PageSize - 1) \div PageSize |-> (start + (i - 1) * PageSize) \div PageSize]

parseBlktraceLine(r) ==
  IF r.op = "WS" THEN PagesOf(r.start * SectorSize, r.len * SectorSize) ELSE <<>>

parseFIUTraceLine(r) ==
  IF r.len >= 8 THEN PagesOf(r.start * SectorSize, r.len * SectorSize) ELSE <<>>

parseAlibabaTraceLine(r) == PagesOf(r.start, r.len)

parseAndWriteBlktraceFile == FlattenSeq([i \in DOMAIN Records |-> parseBlktraceLine(Records[i])])

parseAndWriteFIUTraceFile == FlattenSeq([i \in DOMAIN Records |-> parseFIUTraceLine(Records[i])])

parseAndWriteAlibabaTraceFile ==
  FlattenSeq([i \in DOMAIN Records |-> parseAlibabaTraceLine(Records[i])])

Parsed(string) ==
  CASE "RocksDBYCSB" \in string -> parseAndWriteBlktraceFile
    [] "Alibaba" \in string     -> parseAndWriteAlibabaTraceFile
    [] "FIU" \in string         -> parseAndWriteFIUTraceFile

(* A parsed file that is there is used, whatever options it was made with. *)
TraceFiles(string) ==
  IF stringToPattern(string) = "trace" THEN {Parsed(string)} \cup Leftovers ELSE {<<>>}

NotReplayed == [i \in DOMAIN file |-> 0]

-----------------------------------------------------------------------------
(* Reading.                                                                *)

(* Faulty: each fetch opens the file anew.                                 *)
NextChunkFirst == [i \in 0 .. ChunkSize - 1 |-> (i % Len(file)) + 1]

NextChunk == [i \in 0 .. ChunkSize - 1 |-> ((filePos + i) % Len(file)) + 1]

Counted(pos) ==
  LET more  == [replayed EXCEPT ![pos] = @ + 1]
      least == CHOOSE n \in {more[i] : i \in DOMAIN more} : \A i \in DOMAIN more : n <= more[i]
  IN [i \in DOMAIN more |-> more[i] - least]

Fetches(g) == g.traceIndex = 0

(* The index is advanced before it is used: of each chunk the second entry *)
(* comes first and the first one last.                                     *)
getPageFromParsedTrace(g) ==
  LET chunk == IF Fetches(g) THEN NextChunk ELSE g.inputTraces
      index == (g.traceIndex + 1) % ChunkSize
  IN Drawn(file[chunk[index]], [g EXCEPT !.inputTraces = chunk, !.traceIndex = index])

(* The stream and the count after g has drawn d.                           *)
StreamAfter(g, d) ==
  IF g.pattern = "trace"
  THEN /\ filePos' = IF Fetches(g) THEN (filePos + ChunkSize) % Len(file) ELSE filePos
       /\ replayed' = Counted(d.gen.inputTraces[d.gen.traceIndex])
       /\ UNCHANGED file
  ELSE UNCHANGED traceVars

(* Of a file without an entry the fetch reads for ever.                    *)
FetchHangs(g) == g.pattern = "trace" /\ file = <<>>

(* What any generator may draw, before it is shuffled.                     *)
Draws(g) == IF g.pattern = "trace" /\ file # <<>> THEN {getPageFromParsedTrace(g)}
            ELSE PatternDraws(g)

(* Each entry of the trace is drawn as often as any other, but for the     *)
(* chunk that is being read.                                               *)
EveryEntryReplayed == \A i, j \in DOMAIN replayed : replayed[i] - replayed[j] <= 2
=============================================================================
