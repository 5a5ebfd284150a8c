------------------------------- MODULE PatternGen -------------------------------
(***************************************************************************)
(* The access patterns (shared/PatternGen.hpp).  A generator is a record,  *)
(* the object of the code; each pattern is an operator that gives the      *)
(* pages it may draw, each with the generator that is left.                *)
(*                                                                         *)
(* A random choice is a set.  A pattern string is the set of the keywords  *)
(* it contains; a zones string is the sequence of its words, with sizes in *)
(* tenths.  seq and traceIndex are kept modulo what they are divided by.   *)
(* Of the n! shuffles only rotations are drawn: a pattern's own pages are  *)
(* mapped one to one, whatever the order.                                  *)
(***************************************************************************)
EXTENDS Integers, Sequences, FiniteSets

CONSTANTS
  ShuffleBy,       (* the rotations that stand for the shuffles            *)
  ZoneWords,       (* --zones, as words [key, value]                       *)
  SeqZoneCount,    (* --zones of a seqzones pattern                        *)
  ChunkSize        (* entries of a trace that are read at a time           *)

(* The words a zones string may hold; another one is refused.              *)
ZoneKeys == {"s", "f", "uniform", "zipf", "sequential", "shuffle", "noshuffle"}

ASSUME PatternAssumption ==
  /\ ShuffleBy \subseteq Nat /\ ShuffleBy # {}
  /\ SeqZoneCount \in Nat \ {0} /\ ChunkSize \in Nat \ {0, 1}
  /\ ZoneWords \in Seq([key : ZoneKeys, value : Nat])

-----------------------------------------------------------------------------
(* The options.                                                            *)

Keywords == <<"sequential", "uniform", "beta", "seqzones", "zones", "fiozipf",
              "zipf", "trace", "mockdb", "zns">>

(* The order decides between keywords that contain one another.            *)
stringToPattern(string) ==
  Keywords[CHOOSE k \in DOMAIN Keywords :
             Keywords[k] \in string /\ \A j \in 1 .. k - 1 : Keywords[j] \notin string]

IsShuffled(string) ==
  IF stringToPattern(string) \in {"sequential", "seqzones", "zns", "uniform"}
  THEN "-shuffle" \in string
  ELSE "-noshuffle" \notin string

ShuffleVectors(n, shuffle) ==
  {[i \in 0 .. n - 1 |-> (i + k) % n] : k \in IF shuffle THEN ShuffleBy ELSE {0}}

-----------------------------------------------------------------------------
(* Zones: a share of the pages each, with a generator of its own.          *)

NewZone == [size |-> 0, freq |-> 0, pattern |-> "uniform", shuffle |-> FALSE]

AddZone(s) == IF s.zone.size > 0
              THEN [zones |-> Append(s.zones, s.zone), zone |-> NewZone]
              ELSE s

ReadWord(s, word) ==
  CASE word.key = "s" -> [AddZone(s) EXCEPT !.zone.size = word.value]
    [] word.key = "f" -> [s EXCEPT !.zone.freq = word.value]
    [] word.key \in {"uniform", "zipf", "sequential"} -> [s EXCEPT !.zone.pattern = word.key]
    [] word.key \in {"shuffle", "noshuffle"} -> [s EXCEPT !.zone.shuffle = (word.key = "shuffle")]

parseZoneSizes(words) ==
  LET read[i \in 0 .. Len(words)] ==
        IF i = 0 THEN [zones |-> <<>>, zone |-> NewZone] ELSE ReadWord(read[i - 1], words[i])
  IN AddZone(read[Len(words)]).zones

SeqZones == [i \in 1 .. SeqZoneCount |->
               [size |-> 1, freq |-> i, pattern |-> "sequential", shuffle |-> FALSE]]

Total(s) ==
  LET sum[i \in 0 .. Len(s)] == IF i = 0 THEN 0 ELSE sum[i - 1] + s[i]
  IN sum[Len(s)]

(* Faulty: what the rounding leaves over is given to nobody.               *)
CountsRoundedDown(specs, n) ==
  LET sizes == [i \in DOMAIN specs |-> specs[i].size]
  IN [i \in DOMAIN specs |-> (sizes[i] * n) \div Total(sizes)]

(* Shares are rounded down, the remainder goes round the zones.            *)
PageCounts(specs, n) ==
  LET sizes  == [i \in DOMAIN specs |-> specs[i].size]
      shares == [i \in DOMAIN specs |-> (sizes[i] * n) \div Total(sizes)]
      rest   == n - Total(shares)
      k      == Len(specs)
  IN [i \in DOMAIN specs |-> shares[i] + rest \div k + (IF i <= rest % k THEN 1 ELSE 0)]

SubGens(spec, n) ==
  {[pattern |-> spec.pattern, logicalPages |-> n, seq |-> 0, shuffleVector |-> v] :
     v \in ShuffleVectors(n, spec.shuffle)}

(* The zones follow one another.  A zone without a page has no generator:  *)
(* its sampler throws.                                                     *)
ZoneLists(specs, n) ==
  LET counts == PageCounts(specs, n)
      offset(i) == Total(SubSeq(counts, 1, i - 1))
      zone(i, sub) == [offset |-> offset(i), freq |-> specs[i].freq, sub |-> sub]
      options(i) == {zone(i, sub) : sub \in SubGens(specs[i], counts[i])}
      lists == [DOMAIN specs -> UNION {options(i) : i \in DOMAIN specs}]
  IN IF \E i \in DOMAIN specs : counts[i] = 0 THEN {}
     ELSE {l \in lists : \A i \in DOMAIN specs : l[i] \in options(i)}

-----------------------------------------------------------------------------
(* The constructor: every generator the options can lead to.               *)

(* Faulty: the rest of the device counts as a zone.                       *)
ZoneCountUp(o) == (o.logicalPages + o.pagesPerZone - 1) \div o.pagesPerZone

ZoneCount(o) == o.logicalPages \div o.pagesPerZone

Zones(pattern, o) ==
  CASE pattern = "zones"    -> ZoneLists(parseZoneSizes(ZoneWords), o.logicalPages)
    [] pattern = "seqzones" -> ZoneLists(SeqZones, o.logicalPages)
    [] OTHER                -> {<<>>}

CanConstruct(pattern, o) ==
  pattern = "zns" => o.logicalPages > o.pagesPerZone /\ o.activeZones < ZoneCount(o)

Generators(string, o) ==
  LET pattern == stringToPattern(string)
  IN IF ~ CanConstruct(pattern, o) THEN {}
     ELSE {[pattern |-> pattern, logicalPages |-> o.logicalPages, options |-> o,
            seq |-> 0, shuffleVector |-> v, zones |-> zones,
            zoneIds |-> [i \in 1 .. o.activeZones |-> -1],
            zoneOffsets |-> [i \in 1 .. o.activeZones |-> o.pagesPerZone],
            inputTraces |-> <<>>, traceIndex |-> 0, lastPos |-> 0] :
              v \in ShuffleVectors(o.logicalPages, IsShuffled(string)),
              zones \in Zones(pattern, o)}

-----------------------------------------------------------------------------
(* The patterns: the pages a generator may draw before it is shuffled.     *)

Drawn(page, gen) == [page |-> page, gen |-> gen]

Sequential(g) == {Drawn(g.seq, [g EXCEPT !.seq = (@ + 1) % g.logicalPages])}

Random(g) == {Drawn(page, g) : page \in 0 .. g.logicalPages - 1}

Shuffled(g, draws) == {[d EXCEPT !.page = g.shuffleVector[@]] : d \in draws}

SubDraws(g) == Shuffled(g, IF g.pattern = "sequential" THEN Sequential(g) ELSE Random(g))

accessZonesGenerator(g) ==
  UNION {{Drawn(g.zones[i].offset + d.page, [g EXCEPT !.zones[i].sub = d.gen]) :
            d \in SubDraws(g.zones[i].sub)} :
         i \in {j \in DOMAIN g.zones : g.zones[j].freq > 0}}

(* Faulty: the new zone may be one another cursor is writing to.           *)
FreeZonesAny(g) == 0 .. ZoneCount(g.options) - 1

FreeZones(g) == {z \in 0 .. ZoneCount(g.options) - 1 : \A i \in DOMAIN g.zoneIds : g.zoneIds[i] # z}

(* Under a mutex: the threads share the cursors.                           *)
accessZNS(g) ==
  LET size == g.options.pagesPerZone
      next(i) == {Drawn(g.zoneIds[i] * size + g.zoneOffsets[i], [g EXCEPT !.zoneOffsets[i] = @ + 1])}
      open(i) == {Drawn(z * size, [g EXCEPT !.zoneIds[i] = z, !.zoneOffsets[i] = 1]) : z \in FreeZones(g)}
  IN UNION {IF g.zoneOffsets[i] < size THEN next(i) ELSE open(i) : i \in DOMAIN g.zoneIds}

(* The file that genzipf writes has totalWrites entries; what they are is  *)
(* open.  The file is read before the end of the trace is looked at.       *)
FioFetches(g) == g.traceIndex % ChunkSize = 0

getPageFromFIOTrace(g) ==
  LET left == g.options.totalWrites - g.lastPos
      read == IF left < ChunkSize THEN left ELSE ChunkSize
      h    == IF FioFetches(g) THEN [g EXCEPT !.lastPos = @ + read] ELSE g
  IN CASE FioFetches(g) /\ left = 0 -> {}
       [] ~ (FioFetches(g) /\ left = 0) /\ g.traceIndex >= g.options.totalWrites -> {Drawn(0, h)}
       [] ~ (FioFetches(g) /\ left = 0) /\ g.traceIndex < g.options.totalWrites ->
            {Drawn(page, [h EXCEPT !.traceIndex = @ + 1]) : page \in 0 .. g.logicalPages - 1}

(* mockdb has no zones to choose from: vector::at throws.                  *)
accessDBGenerator(g) == {}

PatternDraws(g) ==
  CASE g.pattern = "sequential"             -> Sequential(g)
    [] g.pattern \in {"uniform", "beta", "zipf"} -> Random(g)
    [] g.pattern \in {"zones", "seqzones"}  -> accessZonesGenerator(g)
    [] g.pattern = "fiozipf"                -> getPageFromFIOTrace(g)
    [] g.pattern = "mockdb"                 -> accessDBGenerator(g)
    [] g.pattern = "zns"                    -> accessZNS(g)
    [] g.pattern = "trace"                  -> {}
=============================================================================
