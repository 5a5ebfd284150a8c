# A verification of ssdiq in TLA+

ssdiq is two programs that share a few headers:

* `sim/` is a simulator of SSD garbage collection. It replays page writes on a
  model of a flash device under a choice of collection policies and reports the
  write amplification.
* `iob/` is an I/O benchmark. It drives real block devices through several
  kernel and user space interfaces, with access patterns it shares with the
  simulator (`shared/`) or with traces (`traces/`).

This directory holds TLA+ modules for both programs, the TLC configurations that
check them on small instances, and proofs (TLAPS) of what matters most for every
instance. Every definition is translated from the source; `PROJECT.json` names
the lines of each one.

## 1. Inventory

| Component | State | Operations | What makes it correct |
|---|---|---|---|
| Flash device, `sim/SSD.hpp` | per block: slots (`_ptl`), write position, cached valid counter, erase count, generation; mapping `_ltpMapping`; write counters | `writePage`, `compactBlock`, `moveValidPagesTo`, `compactUntilFreeBlock` (three overloads), `Block::write/erase/setUnused` | both directions of the mapping agree; the counter equals the slots in use; no slot is programmed twice between two erases |
| Greedy collectors, `sim/Greedy.hpp` | free list, current block, GC block | `writePage`, `performGC` under `greedy`, `greedy-k`, `greedy-s2r` | no block lost or given out twice; a collection makes room for the waiting write; the call returns |
| 2R collectors, `sim/TwoR.hpp` | free list, current block, normal and cold region, FIFO list with a scan iterator into it, utilization threshold | `writePage`, `performGC` (selection, cascade, distribution) | each block in one list; victims chosen hold a block's worth of invalid pages; the cascade empties its first victim; the iterator stays valid; the call returns |
| Simulator driver, `sim/sim.cpp` | counters of the stage and of the totals | fill, initial load, repetitions | the device is full before it is measured; counters cover the repetitions and nothing else |
| Access patterns, `shared/PatternGen.hpp` | zone cursors shared by the threads, trace cursor, permutation | constructor, zone strings, `accessPatternGenerator` | zones cover the device; draws stay on it; the zones of zns are written in order, a bounded number at a time |
| Request generator, `iob/RequestGenerator.hpp`, `PageState.hpp` | stack of available ids, a read and a write buffer per id, counters submitted, polled, completed, run flag, statistics; the data checks keep no state: each page carries its number | `runIo`: fill, submit, poll, drain; `stopIo`; the callback | no two requests share an id or a buffer; the counters agree with the channel; every read finds the pages of its offset; the drain ends, and only when nothing is in flight |
| Request stack, `iob/io/RequestStack.hpp` | stacks of free and of pushed objects | pop, push, submit, return | each object is in one place |
| RAID 0, `iob/io/Raid.hpp`, `Raid0Channel.hpp` | request pool, outstanding counter, the device channel | address arithmetic, push, submit, completion, poll | the striping is a bijection; every page of a request is transferred at its own place |
| Device channels, `iob/io/impl/*`, `IoInterface.hpp` | outstanding counter, submission and completion queues of the kernel or the driver | `initInstance`, `_push`, `_submit`, `_poll` | every pushed request completes once; the counter is exact |
| Start, threads and monitor, `iob/iob.cpp`, `ThreadBase.hpp` | options, what init has written, thread states, run flags, counters read across threads | `loadOptions`, `initializeSSDIfNecessary`, start, monitor loop, stop, join, summary | a device that passes for initialized is; the figures printed fit together; the summary counts every request; the program ends |
| Trace parsers, `traces/src/*` | the parsed file, the position in it, the chunk | cut a record into pages, fetch a chunk, next page | each entry is drawn as often as any other |
| Histograms, units, `shared/*` | buckets | record, percentile | each sample counted once (not modelled) |

How they interact. The driver of the simulator calls `writePage` of a collector,
a collector calls the device and asks it about its blocks; all of it is one
thread. The benchmark turns its options into sizes, initializes the file if its
first and last page say so, draws a histogram of the access pattern and starts
its threads. Each owns a request generator and a RAID channel, and all share one
pattern generator; the RAID channel owns the pool of request objects and passes
them to one channel of the chosen interface, which serves all devices; that
channel completes a request by a callback through the RAID channel into the
generator, during `_poll`. The main thread reads the generators' counters once
per second, ends the run through their flags, joins the threads and adds up.

Hard behaviours. In the simulator: long sequences of writes and collections (one
stale mapping entry or counter corrupts a run much later), collections at the
limit of the device's spare space, loops without a bound (`compactUntilFreeBlock`
and the FIFO scan), an iterator kept while its list changes. In the benchmark: an
initialization that is killed half way, callbacks inside the loop that prepares
requests, queue limits of three layers that must fit together, partial
submission, draining at the end, counters read by another thread, a discard that
overtakes writes, cursors that threads share. `PROJECT.json` lists them under
"hazards", each at its line, with the properties aimed at it.

## 2. Modules

```
FlashMap   what a flash translation layer promises
   ^ implemented by
GreedyGC    TwoRGreedy   TwoRFifo        GreedyGC_proofs (with SimBench),
   ^     \        |      /                TwoRGreedy_proofs, TwoRFifo_proofs
SimBench  \      TwoR --                      |
           \     /                        TwoR_proofs
             SSD                             |
                                         SSD_proofs

AsyncIo, GeneratorLife   what a channel promises the request generator,
   ^ implemented by      and the generator the program
RequestGenerator                         RequestGenerator_proofs
   |                                     (and all below it)
Raid0Channel
   |
IoEngine
   |        \
RequestStack  Raid

ZonedDevice   what the zns pattern promises a device
   ^ implemented by
Workload
   |
TraceReader
   |                                     Iob_proofs
PatternGen                               (Workload, TraceReader, PatternGen,
                                          IobMain, InitDevice)
GeneratorLife
   ^ implemented by each thread of
IobMain
   |
InitDevice
```

A line goes from a module to one it extends; the `MC` modules add symmetry sets
and the values a cfg cannot express. `Lemmas`, which the proof modules extend,
holds what they share about numbers, sums, lists and induction over a set.

**SSD** is the device. `ptl`, `writePos`, `validCnt` and `ltp` are `_ptl`,
`_writePos`, `_validCnt` and `_ltpMapping`. Its four operations (`SSDWrite`,
`CompactBlock`, `MoveValidPagesTo`, `EraseBlock`) are whole function bodies: the
loops over slots are given in closed form, where the position of a relocated page
is the number of live slots before it. The ensures of the code are guards when no
state can break them and lead to phase "failed" when one can.

**GreedyGC** is class GreedyGC; the policy is chosen at the start. A `writePage` call that
finds room is one action. A call that collects is several: `StartGC` keeps the
page in `request`, one action per loop iteration of `performGC` follows, and
`ResumeWrite` finishes the call. The steps are visible so that the invariants of
the device are checked between any two moves, and so that a loop which never ends
is a behaviour and not a gap. greedy-k's random draws are a nondeterministic
choice of the best of at most `K` blocks.

**TwoR, TwoRGreedy, TwoRFifo** are class TwoR. TwoR is what both victim policies
share: `writePage`, the cascade of `compactUntilFreeBlock(victims)` and the
distribution of the victims. TwoRGreedy adds the two regions and the choice
between them, TwoRFifo the FIFO list, its iterator (a position, 0 for `end()`)
and the second chance policy. What a policy writes and never reads is left out:
the FIFO list in 2r-greedy, the two regions in 2r-fifo, and `curColdBlkPtr`, which
is always `end()`. Two results of floating point are part of the model, as a block
of the list is passed over or not by them: `BLK_UTIL` is a percentage together
with whether the double, a sum of steps of 0.05, has come out a little above it
(from 1.0 on every block is then eligible, and larger values are one,
`UtilCap`); and the part of the list that is scanned is 70% of its length rounded
down, less one for the lengths in `RoundedDown`, at which the product of the code
is a little below an integer (90, 170, 180, 330, ...; none in the runs, any
multiples of ten in the proofs).

**SimBench** adds `runBench` to GreedyGC: the stages, the number of calls each
makes, and the physical and logical write counters with their resets.

**FlashMap** is the promise: each page the host has written is in exactly one
place, a host write moves only its page and never onto valid data, and a
collection moves pages but neither drops nor invents one. `Placed` maps a
collector to it: a page is where the *slots* say it is, not where the mapping
says, so a page with two copies, or none, breaks the refinement.

**Raid** is the address arithmetic, in 4 KiB pages. **RequestStack** is the pool
of request objects: two stacks, in their order. **IoEngine** is `LibaioChannel`,
`LiburingChannel`, `SpdkChannel` and `XnvmeChannel`, with the kernel or the driver
they talk to: the submission ring, the requests in the kernel, the completions not
yet reaped; SPDK and xNVMe have a queue per device, polled in turn. A batch
reaches the engine in one action, as `_push` only collects it; a poll is several
actions (`FetchEvents` or `EnterKernel`, one `Reap` per callback, `EndPoll`), so
devices complete requests between any two callbacks. **Raid0Channel** adds what a
slot of the pool holds, the outstanding counter, the buffers and the devices'
contents: a device transfers the pages of a request between its buffer and
*consecutive* places from the place of its first page on, which is what the code
asks of it. **RequestGenerator** is `runIo`: the main loop with its breaks, the
callback with the data check, the drain, and `stopIo` by another thread at any
moment. A page's content is the number stamped on it; a block is addressed and
its direction chosen freely, which covers every access pattern but ZNS. Where the
code throws (no free object, a full ring, a short `io_submit`, a failed data
check) the guard of the action is false, and an invariant says that this never
happens.

**AsyncIo** is the promise: a request issued under an id stays as issued until it
completes, which it does once, and the id is not issued again before. The mapping
takes the request under an id from the *object* that carries the id, so a wrong
object returned or a lost id breaks it.

**GeneratorLife** is the promise of a generator to its program: it issues at most
a queue at a time until enough have finished or it is told to stop, and returns
when nothing is in flight.

**PatternGen** is `PatternGen.hpp`: a generator is a record, the object of the
code, and each pattern an operator that gives the pages it may draw, each with the
generator that is left. A random distribution is the set of pages it can give; of
the permutations only rotations are drawn. The loops of the code over zones and
words are recursive functions, so that they can be proved about. **TraceReader** cuts the records of
the three formats into pages and reads the parsed file in chunks; the stream is
static in the code, so all generators read on from one position. **Workload** puts
both under the requests of the threads: the histogram drawn first, then requests
drawn, discarded for, pushed, submitted and completed, one step each, so that a
discard can overtake writes of other requests and of other threads. A discard may
fail, which the code prints and otherwise ignores. `stage` is
where the program is, and how it stopped if a draw threw or never ended.
**ZonedDevice** is the promise of the zns pattern: the pages of a zone are drawn
in order and a bounded number of zones is open.

**InitDevice** is the start of `iob.cpp`: the options turned into sizes, the look at
the first and the last page, the writing of the file by large sequential
requests, the second look. Sizes are in pages of 4 KiB, the unit of the data
checks (section 6). `Restart` kills the program anywhere in it and starts
it with another `--init`; of what was in flight any part has reached the device.
**IobMain** adds the rest of `main`: starting the threads, the monitor's loop
(one action per shared variable it reads), stop, join and the summary; a thread
is `runIo` seen from its counters, with storing and publishing a second as two
actions. A thread leaves ids unused in a break (`breaks`) and when its rate is
limited (`rate`) and the time of its next request has not come; when that is the
case is left open. A failed data check ends the program from any poll, those of
the drain included. `Life(t)` maps each thread to GeneratorLife.

Left out of the simulator's modules: the write buffer (its size is the constant 0), gc
generations, erase ages and group numbers (nothing that is modelled reads them),
printing, `singleGreedyLimited` and the `compactUntilFreeBlock` overload with a
destination function (nothing calls them), timing and CSV output. Section 6 says
what is left out of the benchmark.

## 3. What TLC checks

Each row is a run; states are distinct states. Deadlock is checked unless noted.

| Run | Instance | Shows |
|---|---|---|
| `greedy` | greedy, greedy-k (`K = 2`) and greedy-s2r, 3 blocks of 2 slots, 4 pages, fair; no deadlock check, as greedy-k may stop at its ensure; 136 000 states | between any two moves of a collection the mapping, the counters and the lists of blocks are exact; greedy and s2r make room; greedy moves at most the average number of valid pages; every write returns; FlashMap is implemented |
| `greedy_k_room` | greedy-k, `K = 1`, 4 x 2, 6 pages, violation | the ensure of `writePage` can fail under greedy-k (section 5) |
| `twor_greedy` | 3 x 2, 3 pages, fair; 19 000 | with the spare slots its selection needs, 2r-greedy keeps each block in one list, always finds victims, and every write returns |
| `twor_greedy_stop` | 3 x 3, 6 pages; 78 000 | with fewer it stops at the selection's ensure (deadlock is not checked for that reason), and until then cascades over up to three victims empty the first, win every invalid page and lose none: FlashMap is implemented |
| `twor_fifo` | 4 x 2, 4 pages; 82 000 | list and iterator stay sound through insertion and removal, the victims found make an empty block, FlashMap is implemented |
| `twor_fifo_livelock` | 4 x 2, 4 pages, fair, violation | the FIFO scan can start over for ever (section 5) |
| `bench` | greedy and greedy-s2r, 3 x 2, 4 pages, initial load, two repetitions of 3 writes, fair; 243 000 | complete fill, counters that cover exactly the repetitions, bounded write amplification; the benchmark ends |
| `iob` | depth 2, the four engines, 2 devices, chunks of 2 pages, 3 blocks of 2 pages, 3 operations, pauses, fair; 37 000 | objects, ids, buffers and counters of the three layers agree; no limit is exceeded; data checks pass; a stopped generator returns; AsyncIo and GeneratorLife are implemented |
| `iob_unaligned` | libaio, chunks of 3 pages, blocks of 2, violation | a block size that does not divide the chunk corrupts data (section 5) |
| `patterns` | every pattern; 7 pages, zones of 2 (one page is in none), 2 open zones; traces of the three formats with chunks of 2; zns with two ids, a shuffled pattern with two threads; 1 122 000 | draws fail only in three named cases; zones cover the device; a trace is replayed evenly; one thread on zns discards nothing it wrote; ZonedDevice is implemented |
| `zns_read` | zns, one thread, one id, violation | a read discards the zone it begins (section 5) |
| `iob_main` | four jobs for the start (two blocks, large requests, three blocks and a rest, too small a file), seven for the run (two threads, a limited rate, a time limit, no limit, breaks, nothing to do), fair; 247 000 | init killed and restarted leaves at most a queue missing; the monitor's figures fit together; the summary is exact; a program with a limit ends; each thread implements GeneratorLife |

Deadlock is also not checked where the program ends: `iob`, `patterns`, `iob_main`
and the violations of the benchmark.

Why these bounds. Two slots per block are the least for which a block can be
partly valid, so that compaction moves a page, a victim can fit or not fit into
the GC block, and the last victim can fill it exactly. Three blocks are the least
with a current block, a GC block and a victim that differ, and three slots per
block give a cascade a victim that is filled by two others. The numbers of pages
are chosen at the limits: `PagesPerBlock` spare slots for s2r and
`2 * PagesPerBlock - 1` for 2r-greedy (the least at which its selection cannot
fail). Pages are interchangeable, so they are a symmetry set in the runs without a
liveness property. In SimBench the pages are numbers because the fill is
sequential; its counters are bounded by the stages.

In `iob` a depth of 2 lets requests overtake each other and share every stack;
three operations make ids and objects be reused and leave a request in flight
when the loop ends; three blocks over two devices make one device hold two
chunks. `submitted` is bounded by the loop itself. `Depth`, `Ops`, `Blocks` and
`DeviceCnt` are options of the program; the chunk is 1 MiB in the code. In
`patterns` the numbers of pages are small and odd so that every rounding has a
remainder; of the trace's records one is not taken, one starts within a page and
one is no multiple of a page; parsed files of an earlier run are an empty one and
one with a page too many for the device. In `iob_main` an init request has four
units, so requests smaller than, equal to and larger than half of it occur; `TimeBound`
and `MaxSeconds` let a thread miss a second and the statistics overflow;
`IssueBound` caps what a thread without a limit issues.

Fairness. The simulator is one thread that is never suspended inside a call, so
the rest of a call that is in progress is weakly fair (`FairSpec`). Nothing is
assumed of the host: it need not write again. In SimBench the driver's loop is
code as well, and its steps are weakly fair. In RequestGenerator the thread is
weakly fair (it never blocks: both polls return at once) and so is each device's
completion of a request the kernel has accepted. Nothing is assumed of `stopIo`,
and pauses may last for ever: liveness is claimed for a generator that was told
to stop. In IobMain the main thread and every thread are weakly fair, as the
operating system schedules them, and polls that take a completion are strongly
fair: a thread that keeps polling is answered at last, because the devices
complete what they accepted. `Issue` is strongly fair as well: a thread whose rate
is limited keeps coming back to its clock, and the start time of the next request is a
finite time ahead (`1 / rateLimit` seconds or a random draw around it), so it is issued in
the end, unless the thread is stopped first; likewise a break is over after `breakFor`
seconds. Nothing is assumed of Initialize, so `ProgramEnds`
speaks of a program whose initialization is over. Of the kernel it is assumed that an
AIO context made for `Depth` requests takes `Depth`, and that entering io_uring
takes at least one entry of a ring that is not empty; of the devices, that they
complete each request once and without an error.

Each property is paired in `PROJECT.json` with a faulty form of a definition
(commented "Faulty" in the modules), under which TLC finds the property violated:
a mapping left stale, a counter not reset, a block not removed from a list, a
threshold dropped.

## 4. What is proved

Every invariant, action property and refinement that a passing run checks is
also a theorem, for every value of the constants. Only liveness is left to TLC.

The assumptions are on constants alone and named where the constants are
declared: `SSDAssumption` (there is a block and a slot, pages are finite and not
more than slots), `GreedyAssumption`, `BenchAssumption`, `RaidAssumption`
(there is a device, a chunk holds a page), `DepthAssumption`,
`BlocksAssumption`, `EnginesAssumption` (the four engines), `OpsAssumption`,
`NoneAssumption` (the value for "no request" is not a request),
`InitAssumption` (sizes are positive, a request is not larger than an init
request), `MainAssumption`, and for the access patterns `PatternAssumption`,
`TraceAssumption` and `WorkloadAssumption`: what the constructors refuse or
what the first draw divides by does not occur, that is, the pattern string
holds a known keyword, a trace a known name, some zone is accessed, zns has a
cursor, and a device and a zone have a page; `ScanAssumption` (rounding changes 70% of a
length only where that is an integer). TLC evaluates them in every run.
Three theorems have a hypothesis of their own, a choice of options under which
the code is right and without which it is not; each is said below.

**The device and the collectors.**

* The address arithmetic (`AddressOfSlot`, `SlotOfAddress`): composing a block and
  a slot and taking them apart are inverse.
* `WriteConsistent`, `CompactConsistent`, `EraseConsistent`, `MoveConsistent`: each
  operation of the device preserves `SSDInv`. The hard part is the renumbering:
  that the ranks of the live slots of a block are exactly `0 .. n - 1`, each once,
  which is an induction over the slots (`LiveNextSize`).
  `MoveEmptiesOrFills`: a move leaves the source empty or the destination full.
* Greedy, every policy: `Types`, `Mapping`, `Counters`, `Blocks`, `Refinement`
  (FlashMap is implemented). `GreedyIsBelowAverage`: the victim of a greedy
  collection has at most the average number of valid pages.
  `RoomAfterCollection`: under greedy and greedy-s2r a collection makes room *when
  the pages leave one slot free*; for greedy-k it does not hold, and a run shows it.
* The benchmark of the simulator: `FillGuarantee` (from the end of the fill on every
  page is stored once) and `Amplification` (a repetition's relocations under greedy
  are bounded by its host writes and the fill).
* 2r-greedy: `Partition`, `FullOrFree`, `DeviceConsistent`, `FirstVictimEmpty`,
  `NoGarbageLeft`, `Refinement`, and `SelectionNeverFails` *with
  `2 * PagesPerBlock - 1` spare slots*; the run `twor_greedy_stop` shows the ensure
  that fails with fewer.
* 2r-fifo: `Partition`, `Scan`, `Place`, `Enough`, `DeviceConsistent`,
  `FirstVictimEmpty`, `NoGarbageLeft`, `Refinement`, on every device: the loop may
  run for ever (section 5), but what it does is right.

*Greedy.* `IInv` is `TypeOK`, `SSDInv`, `BlocksAccounted`, `PhaseInv` and
`ListInv`. The last two are what the properties lack to be inductive: that during
a collection the free list is empty and every block is full except the GC block (so
a victim exists and is not a block being written), what is known of the victim in
each phase, and that after it the list is the one block collected. Room after a
collection needs counting: if the fullest choice of victim had no invalid page,
every block would be full of valid pages and the device would hold as many pages
as slots (`AllValidNeedsAllPages`). That the minimum is not above the average is a
count of the stored pages, block by block. *The benchmark.* `FillInv` adds that the
pages below the fill's counter are mapped and that a call which waits for a
collection is the write of the next page; that a mapped page stays mapped is a fact
of each operation. `CreditInv` is the amplification bound with the room that
the last collection won and the host has not used yet as credit: a collection
spends at most `Most` relocations and comes only when that room is used up.

*2R.* What both variants share is `LoopInv` of TwoR_proofs. `CascadeInv` says of
the victims, while the cascade runs: together they hold a block's worth of invalid
pages, those behind the one it has reached hold none, and either all of those
are full of valid pages or the one it has reached has been empty since some move
found room for all pages of its source. At the first victim the former is
impossible unless that victim holds every invalid page, so it is empty.
(`Invalid` counts the invalid pages as a set, so the sum over a list is the size
of a union.) On top of it each variant says
which list a block is in (`Apart`, `Covered`: lists are injective and disjoint, and
between calls the current block is in none). 2r-greedy's selection fails only
with an empty region and less than a block of invalid pages; `SpaceInv` says the
region chosen still has enough together with the victims, and that one of the two
does in the beginning is the pigeonhole behind `2 * PagesPerBlock - 1`. For
2r-fifo, `ScanInv` bounds the iterator by the blocks counted since the scan
started, which is why `end()` is reached by a removal only, and
`ErasedFacts` follows each entry of the list through the insertion of a refilled
victim and the removal of its old entry.

**The request generator and its channel**, for every depth, every engine, every
array and every number of requests.

* `PlacesDistinct`, `PlacesCovered`: the striping is a bijection between logical
  offsets and places. `TransfersInChunk`, `AlignedBlocksTransfer`: a request within
  one chunk transfers each page at its place, which every request does when the
  block size divides the chunk.
* `ObjectsAreNeverLost`, `IdsAreNeverLost`, `LayersCountAlike`, `NothingIsRefused`:
  the four invariants of the run `iob`.
* `ReadsReturnTheirPages`: every data check passes, *when the block size divides the
  chunk* (`Aligned`); the run `iob_unaligned` shows that it must.
* `Channel`: the stack of layers implements AsyncIo (the safety part of
  `ImplementsAsyncIo`, which the run checks with the fairness of AsyncIo).
  `Lifetime`: it implements GeneratorLife; so `AtMostAQueueMore` (less than a
  queue of requests beyond what was asked for) and `ReturnsWithNothingInFlight`.

`IInv` has five parts. `SlotInv`: the six places an object can be in (`Holders`)
are a partition, which every step preserves because it moves a set of objects
from one place to another (`Moved`), and an object holds a request exactly when
it is not free. `IdInv`: ids of requests are distinct and are the ones not
available. `EngineInv`: which lists an engine uses, and when. `CountInv`: the
counters against the sizes of these sets; that no layer refuses follows from the
counts, as everything that is not free fits the depth. `LoopInv`: why the loop
ended. The data checks need `DataInv` as well, the contents of the devices and of
the buffers of writes.

**The start, the threads and the monitor** (`Iob_proofs`), for every job and every
number of threads and of restarts.

* `InitMisses`, `StartMisses`: what a device that passes for initialized can miss.
* `Monitor`: the figures the monitor reads of a thread fit together.
* `GeneratorsBehave`: every thread implements GeneratorLife, so `ThreadsOvershoot`.
* `Summary`: the total that is printed counts every request of every thread.

*Initialization.* The property speaks of what the second look finds; what makes it
true is said of every state by `LastSeen`: once anything of the last block is on the
device, at most a queue of blocks is missing. It holds when the last block first
lands, because the blocks are issued in order, so what is missing then is in
flight (`MissingInFlight`), and in flight is at most a queue; later steps only
add to the device. `ChecksSeeLast` says that the last page lies partly in the
last block, `CompleteChecksPass` that a complete device passes: the pages end
within the blocks if a page is at most half an init request (`BlocksCoverFile`).
*Monitor.* `PublishedInv`: the entries below a thread's index of seconds are never
changed again and at most its present total, and while it is about to publish an
entry that one is stored. *Generators.* `GeneratorInv`: a thread that drains has
no more to issue, and a thread that was not started is still waiting. *Summary.*
`JoinInv`: a thread that has returned has counted what it submitted, the main
thread has joined every thread below its index, and a thread that is not of the job
never began.

**The access patterns** (`Iob_proofs`), for every device, list of zones, trace,
chunk and number of threads and ids.

* `DrawsStayOnDevice`: under every pattern a draw is a page of the device and
  fails in the three named cases only.
* `ZonesShareDevice`: each page belongs to exactly one zone, however the shares of
  the zones are rounded.
* `TraceIsReplayed`: entries of a trace are drawn equally often, but for the chunk
  being read.
* `ZonedDraws`: ZonedDevice is implemented. `SoleThread`: a single thread on zns
  discards nothing that it wrote since the zone was begun.

`PatternInv` joins three invariants. `CursorInv`: the cursors of zns, no two of which
are in one zone, within the bounds of their zone. `OwnPages`: the state of every other
pattern lies on the device; for zones (`Dealt`) the offsets are the sums of the counts
before, and the counts, after the remainder is dealt out, add up to the device
(`CountsAddUp`); for the fio trace (`FioPlace`) what has been read is the chunk
that the index is in. `ReaderInv`: the entries of the file are drawn round and
round, so those between the place where a generator began and the next one are
counted once more than the others (`EvenBut`). Within a chunk its first entry,
which is drawn last, is counted in advance; without that the counts are uneven
in the middle of a chunk, which is why the bound is two. `DiscardInv`: while a
request waits for its discard, nothing of its zone counts as written, and no
other request in flight will.

Recursive functions need an induction over a list or a number. It is stated for
sets (`NatSetInduction` and `IntervalInduction` in Lemmas: a set of numbers that
has 0 and with each number the next has all), which follows from the
well-foundedness of the naturals and needs no operator as a parameter.

Each invariant was checked with TLC before it was proved, or follows from ones
that were.

Only model-checked: the liveness properties (`WriteReturns`, `BenchTerminates`,
`StopEnds`, `ProgramEnds`) and the fairness part of `ImplementsAsyncIo`. They rest
on fairness, and the prover knows neither ENABLED nor induction on a temporal
formula.

## 5. Where the code differs from what it says

Each of these four has a run that shows it.

* `greedy_k_room`: `ensure(ssd.blocks()[currentBlock].canWrite())` (Greedy.hpp:51)
  fails under greedy-k when every draw hits a block without an invalid page,
  with a quarter of the device free.
* `twor_fifo_livelock`: the scan starts over after 70% of the list and so
  never reaches its end; if that part has less than a block of invalid pages the
  message for too few victims (TwoR.hpp:228) is not reached and the loop does not
  end.
* `iob_unaligned`: "this functions assumes the request is smaller than CHUNK_SIZE"
  (Raid.hpp:71, the assert at :84), but the device is computed from the first byte
  only. With a 12 KiB block size and two devices a request crosses the end of a
  1 MiB chunk and transfers pages of another chunk. What the code needs is that
  the block size divides the chunk; `AlignedBlocksTransfer` proves that to be
  enough.
* `zns_read`: the pattern is to "write requests as if it is using ZNS"
  (PatternGen.hpp:47), but the discard before the first page of a zone
  (RequestGenerator.hpp:441) does not ask whether the request is a write. With the
  default `--rw 0` the benchmark discards what initialization wrote, reads it, and
  ends with "data check failed" (PageState.hpp:92).

With two threads on zns a discard can also hit pages that were written since the
zone was begun: one thread draws the first page, the other the second and writes
it, and then the first one's discard arrives. `SoleThreadLosesNothing` is stated
for one thread for that reason.

Some smaller ones were seen and have no run of their own: at a fill ratio of 1,
which the option admits, no collection can make room; with less than a block of
spare slots greedy-s2r can exchange full blocks for ever; and
`compactUntilFreeBlock`, whose comment promises a "not-full" GC block, can return
one that the last victim filled exactly (the caller copes: it opens a new one
when all its pages are valid); an `io_size` of less than a block per thread means
no limit; a parsed trace without an entry is rewound for ever (stage "hangs" of
Workload); the numbers of outstanding reads and writes in IoChannel.hpp are
decremented but never incremented.

## 6. Not modelled, and what could follow

* Random distributions (floating point numerics), histograms and percentiles,
  parsing of sizes, clocks, CSV and log output, scripts.
* Of the request generator: the latency histograms, the dump of the I/O trace, and
  how long a rate limit or a break waits.
* Block sizes that are no multiple of 4 KiB. The program only warns of them
  (iob.cpp:172) and the data checks assert that they do not occur (PageState.hpp:69);
  a build without assertions checks as many whole pages as fit in the block, at an
  offset that need not be a page's. What `InitMisses` and `StartMisses` say does not
  hold of such sizes.
* Of `iob.cpp`: the write amplification numbers parsed from log pages, the latency
  thread, CPU affinity.
* Of the channels: I/O errors, for which the code throws, set-up, NVMe passthrough
  and shared work queues, SPDK's device discovery and its multi-controller queues,
  which nothing calls, and the counters `SpdkImpl` keeps per device, on which nothing
  depends (the test of them starts with `true ||`). Part of the wiring of SPDK and xNVMe is not in this tree.
* Of the traces: the SPC and Tectonic parsers, which nothing includes, the limit
  on the pages of a trace, the access frequency histogram.

What could follow: the write buffer of the device should its size become an
option, the model of I/O errors on the channels, and measures for the liveness
properties (the number of live pages of the victims for a collection, the requests
in flight for the drain), stated as action properties that the prover can check.
