-------------------------------- MODULE Workload --------------------------------
(***************************************************************************)
(* The threads of the benchmark and the pattern they share (iob.cpp main,  *)
(* RequestGenerator::runIo): first a generator for 100 pages is drawn from *)
(* for a histogram, then one is made for the device and every thread draws *)
(* its requests from it.  Before the first page of a zone is accessed the  *)
(* zone is discarded, by a system call of its own; then the request is     *)
(* pushed, and submitted with the others of its thread.                    *)
(*                                                                         *)
(* All pages hold their data at first.  One device is modelled, requests   *)
(* are a page long, and the 10e6 draws of the histogram are any number.    *)
(* With the trace pattern a single thread runs: the reader is not          *)
(* synchronized.                                                           *)
(***************************************************************************)
EXTENDS TraceReader

CONSTANTS
  Setups,                  (* --pattern with --threads, --iodepth and      *)
                           (* --writes (times the pages of the device):    *)
                           (* [string, threads, depth, writes]             *)
  LogicalPages, PagesPerZone, ActiveZones,
  HistPages, HistPagesPerZone, HistActiveZones,   (* of the histogram      *)
  Types,                   (* --rw: the types of the requests              *)
  none

(* What the constructors refuse, and the first draw: an unknown pattern or *)
(* trace, zones none of which is accessed, a zone without a page, zns      *)
(* without a cursor, a device without a page.                              *)
ASSUME WorkloadAssumption ==
  /\ LogicalPages \in Nat \ {0} /\ PagesPerZone \in Nat \ {0} /\ ActiveZones \in Nat \ {0}
  /\ HistPages \in Nat \ {0} /\ HistPagesPerZone \in Nat \ {0}
  /\ HistActiveZones \in Nat \ {0}
  /\ \A setup \in Setups :
       /\ setup.writes \in Nat
       /\ \E k \in DOMAIN Keywords : Keywords[k] \in setup.string
       /\ stringToPattern(setup.string) = "trace" =>
            \E trace \in {"RocksDBYCSB", "Alibaba", "FIU"} : trace \in setup.string
       /\ stringToPattern(setup.string) = "zones" =>
            \E i \in DOMAIN parseZoneSizes(ZoneWords) : parseZoneSizes(ZoneWords)[i].freq > 0

VARIABLES
  string,        (* patternString                                          *)
  threads, depth,
  stage,         (* histogram, run, stopped, hangs, check failed           *)
  gen,           (* the pattern generator                                  *)
  request,       (* the request of each thread under each id, or none      *)
  discarded,     (* pages that hold no data                                *)
  fresh          (* pages written since their zone was begun (to state a   *)
                 (* property)                                              *)

workloadVars == <<traceVars, string, threads, depth, stage, gen, request, discarded, fresh>>

Workers == 0 .. threads - 1
Slot    == Workers \X (0 .. depth - 1)
RunPage == 0 .. LogicalPages - 1

In(state) == {s \in Slot : request[s] # none /\ request[s].state = state}

RunOptions(writes) ==
  [logicalPages |-> LogicalPages, pagesPerZone |-> PagesPerZone,
   activeZones |-> ActiveZones, totalWrites |-> writes]

HistOptions(writes) ==
  [logicalPages |-> HistPages, pagesPerZone |-> HistPagesPerZone,
   activeZones |-> HistActiveZones, totalWrites |-> writes]

WorkloadInit ==
  /\ \E setup \in Setups :
       /\ string = setup.string /\ threads = setup.threads /\ depth = setup.depth
       /\ gen \in Generators(string, HistOptions(setup.writes))
  /\ file \in TraceFiles(string) /\ filePos = 0 /\ replayed = NotReplayed
  /\ stage = "histogram"
  /\ request = [s \in Slot |-> none]
  /\ discarded = {} /\ fresh = {}

-----------------------------------------------------------------------------
(* accessPatternGenerator.                                                 *)

InRange(d) == d.page \in DOMAIN gen.shuffleVector

Draw(d) ==
  /\ d \in Draws(gen) /\ InRange(d)
  /\ gen' = d.gen
  /\ StreamAfter(gen, d)

(* A page that does not exist, or no page at all.                          *)
DrawStops ==
  /\ stage \in {"histogram", "run"}
  /\ (\E d \in Draws(gen) : ~ InRange(d)) \/ Draws(gen) = {}
  /\ stage' = IF FetchHangs(gen) THEN "hangs" ELSE "stopped"
  /\ UNCHANGED <<traceVars, string, threads, depth, gen, request, discarded, fresh>>

HistogramDraw ==
  /\ stage = "histogram"
  /\ \E d \in Draws(gen) : Draw(d)
  /\ UNCHANGED <<string, threads, depth, stage, request, discarded, fresh>>

StartRun ==
  /\ stage = "histogram"
  /\ gen' \in Generators(string, RunOptions(gen.options.totalWrites))
  /\ stage' = "run"
  /\ replayed' = NotReplayed
  /\ UNCHANGED <<file, filePos, string, threads, depth, request, discarded, fresh>>

-----------------------------------------------------------------------------
(* runIo of one thread.                                                    *)

ZonePages(page) ==
  {p \in RunPage : p \div PagesPerZone = page \div PagesPerZone}

StartsZone(page) == gen.pattern = "zns" /\ page % PagesPerZone = 0

(* A thread prepares its next request when the last one is pushed.         *)
Preparing(t) == \E s \in In("drawn") \cup In("ready") : s[1] = t

FreeId(t) == CHOOSE s \in Slot \ {x \in Slot : request[x] # none} : s[1] = t

(* Drawing the first page of a zone begins it anew: what was drawn of it   *)
(* before is of its last round.                                            *)
Aged(page) ==
  [s \in Slot |-> IF request[s] # none /\ StartsZone(page) /\ request[s].page \in ZonePages(page)
                  THEN [request[s] EXCEPT !.current = FALSE] ELSE request[s]]

Prepared(t, page, type) ==
  /\ request' = [Aged(page) EXCEPT ![FreeId(t)] =
                   [page |-> page, type |-> type, current |-> TRUE,
                    state |-> IF StartsZone(page) THEN "drawn" ELSE "ready"]]
  /\ fresh' = IF StartsZone(page) THEN fresh \ ZonePages(page) ELSE fresh

(* ensure: the block lies in the file.                                     *)
patternGenerator(d) == gen.shuffleVector[d.page]

PrepareRequest(t) ==
  /\ stage = "run" /\ ~ Preparing(t)
  /\ \E s \in Slot : s[1] = t /\ request[s] = none
  /\ \E d \in Draws(gen), type \in Types :
       Draw(d) /\ patternGenerator(d) \in RunPage /\ Prepared(t, patternGenerator(d), type)
  /\ UNCHANGED <<string, threads, depth, stage, discarded>>

(* Faulty: the range is given in another unit than it is taken in.         *)
DiscardRangeTwice(page) == ZonePages(page) \cup ZonePages(page + PagesPerZone)

DiscardRange(page) == ZonePages(page)

(* ioctl(BLKDISCARD).  That it failed is printed, and the request goes on. *)
Discard(s) ==
  /\ stage = "run" /\ s \in In("drawn")
  /\ discarded' \in {discarded, discarded \cup DiscardRange(request[s].page)}
  /\ request' = [request EXCEPT ![s].state = "ready"]
  /\ UNCHANGED <<traceVars, string, threads, depth, stage, gen, fresh>>

Push(s) ==
  /\ stage = "run" /\ s \in In("ready")
  /\ request' = [request EXCEPT ![s].state = "pushed"]
  /\ UNCHANGED <<traceVars, string, threads, depth, stage, gen, discarded, fresh>>

Submit(t) ==
  /\ stage = "run" /\ ~ Preparing(t)
  /\ \E s \in In("pushed") : s[1] = t
  /\ request' = [s \in Slot |-> IF s \in In("pushed") /\ s[1] = t
                                THEN [request[s] EXCEPT !.state = "submitted"]
                                ELSE request[s]]
  /\ UNCHANGED <<traceVars, string, threads, depth, stage, gen, discarded, fresh>>

(* The device is done with a request: a write leaves its data; a read has  *)
(* the data checked, and the program stops if there is none.               *)
Complete(s) ==
  LET r == request[s]
  IN /\ stage = "run" /\ s \in In("submitted")
     /\ request' = [request EXCEPT ![s] = none]
     /\ IF r.type = "write"
        THEN /\ discarded' = discarded \ {r.page}
             /\ fresh' = IF gen.pattern = "zns" /\ r.current THEN fresh \cup {r.page} ELSE fresh
             /\ UNCHANGED stage
        ELSE /\ stage' = IF r.page \in discarded THEN "check failed" ELSE stage
             /\ UNCHANGED <<discarded, fresh>>
     /\ UNCHANGED <<traceVars, string, threads, depth, gen>>

WorkloadNext ==
  \/ HistogramDraw \/ StartRun \/ DrawStops
  \/ \E t \in Workers : PrepareRequest(t) \/ Submit(t)
  \/ \E s \in Slot : Discard(s) \/ Push(s) \/ Complete(s)

WorkloadSpec == WorkloadInit /\ [][WorkloadNext]_workloadVars
-----------------------------------------------------------------------------
(* A draw fails only for the pattern without a generator, for a trace made *)
(* for a larger device, and for a fio trace that ends with a chunk: the    *)
(* next chunk is asked for before the end is noticed.  Every other pattern *)
(* stays within the pages of the device, shuffled or not, zones included.  *)
DrawsInRange ==
  stage = "stopped" =>
    \/ gen.pattern = "mockdb"
    \/ gen.pattern = "trace" /\ \E i \in DOMAIN file : file[i] >= gen.logicalPages
    \/ gen.pattern = "fiozipf" /\ gen.options.totalWrites % ChunkSize = 0

(* Every page of the device belongs to one zone, whatever the rounding.    *)
ZonesCoverPages ==
  gen.zones # <<>> =>
    \A page \in 0 .. gen.logicalPages - 1 :
      Cardinality({i \in DOMAIN gen.zones :
        page \in gen.zones[i].offset .. gen.zones[i].offset + gen.zones[i].sub.logicalPages - 1}) = 1

(* While a single thread draws, a discard hits nothing that was written    *)
(* since its zone was begun, although older writes are still in flight.    *)
(* With two threads it does.                                               *)
SoleThreadLosesNothing == threads = 1 => discarded \cap fresh = {}

(* A read finds the data that initialization or a write has left: the      *)
(* check of checkBuffer.                                                   *)
ReadChecksPass == stage # "check failed"

(* The pages of a zone are drawn in order, in a bounded number of zones.   *)
ZonesWritten ==
  [z \in 0 .. ZoneCount(RunOptions(0)) - 1 |->
     IF gen.pattern = "zns" /\ stage # "histogram" /\ \E i \in DOMAIN gen.zoneIds : gen.zoneIds[i] = z
     THEN gen.zoneOffsets[CHOOSE i \in DOMAIN gen.zoneIds : gen.zoneIds[i] = z]
     ELSE PagesPerZone]

Zoned == INSTANCE ZonedDevice WITH Zone <- 0 .. ZoneCount(RunOptions(0)) - 1, written <- ZonesWritten

ImplementsZonedDevice == Zoned!Spec
=============================================================================
