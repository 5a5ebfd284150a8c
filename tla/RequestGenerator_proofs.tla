------------------------ MODULE RequestGenerator_proofs ------------------------
(***************************************************************************)
(* The request generator and its channel for every queue depth, every      *)
(* engine, every array and every number of requests: objects, ids and      *)
(* counters stay consistent however completions are delayed and reordered, *)
(* the data checks pass when blocks are aligned to chunks, and both        *)
(* abstract specifications are implemented (as far as safety goes).        *)
(***************************************************************************)
EXTENDS RequestGenerator, Lemmas

-----------------------------------------------------------------------------
(* Raid0::calc is onto: row o \div ChunkSize of device d is the chunk that *)
(* was dealt to it in that round, so no part of a device is unused.        *)
THEOREM PlacesCovered ==
  ASSUME NEW d \in 0 .. DeviceCnt - 1, NEW o \in Nat
  PROVE  \E a \in Nat : PlaceOf(a) = <<d, o>>
<1> DEFINE row   == o \div ChunkSize
           r     == o % ChunkSize
           chunk == row * DeviceCnt + d
           a     == chunk * ChunkSize + r
<1>1. DeviceCnt \in Nat \ {0} /\ ChunkSize \in Nat \ {0}
  BY RaidAssumption
<1>2. row \in Nat /\ r \in 0 .. ChunkSize - 1 /\ o = row * ChunkSize + r
  BY <1>1, Decomposition
<1>3. chunk \in Nat /\ chunk \div DeviceCnt = row /\ chunk % DeviceCnt = d
  <2> HIDE DEF row
  <2>1. row * DeviceCnt \in Nat /\ row \in Nat /\ d \in Nat
    BY <1>1, <1>2
  <2>2. /\ (row * DeviceCnt + d) \div DeviceCnt = row
        /\ (row * DeviceCnt + d) % DeviceCnt = d
    BY <1>1, <2>1, Division
  <2> QED
    BY <2>1, <2>2
<1>4. a \in Nat /\ a \div ChunkSize = chunk /\ a % ChunkSize = r
  <2> HIDE DEF chunk, r
  <2>1. chunk * ChunkSize \in Nat
    BY <1>1, <1>3
  <2> QED
    BY <1>1, <1>2, <1>3, <2>1, Division
<1>5. DeviceOf(a) = d /\ OffsetOf(a) = o
  <2> HIDE DEF a, chunk, row, r
  <2> QED
    BY <1>2, <1>3, <1>4 DEF DeviceOf, OffsetOf
<1> QED
  BY <1>4, <1>5 DEF PlaceOf

(* Raid0::calc is one to one: two offsets never share a place, so a write  *)
(* cannot overwrite another offset's data.                                 *)
THEOREM PlacesDistinct ==
  ASSUME NEW a \in Nat, NEW b \in Nat, PlaceOf(a) = PlaceOf(b)
  PROVE  a = b
<1> DEFINE ca == a \div ChunkSize
           cb == b \div ChunkSize
           ra == a % ChunkSize
           rb == b % ChunkSize
           wa == ca \div DeviceCnt
           wb == cb \div DeviceCnt
<1>1. DeviceCnt \in Nat \ {0} /\ ChunkSize \in Nat \ {0}
  BY RaidAssumption
<1>2. /\ ca \in Nat /\ ra \in 0 .. ChunkSize - 1 /\ a = ca * ChunkSize + ra
      /\ cb \in Nat /\ rb \in 0 .. ChunkSize - 1 /\ b = cb * ChunkSize + rb
  BY <1>1, Decomposition
<1>3. /\ wa \in Nat /\ ca = wa * DeviceCnt + (ca % DeviceCnt)
      /\ wb \in Nat /\ cb = wb * DeviceCnt + (cb % DeviceCnt)
  <2> HIDE DEF ca, cb
  <2> QED
    BY <1>1, <1>2, Decomposition
<1>4. /\ ca % DeviceCnt = cb % DeviceCnt
      /\ wa * ChunkSize + ra = wb * ChunkSize + rb
  BY DEF PlaceOf, DeviceOf, OffsetOf
<1>5. wa = wb /\ ra = rb
  <2> HIDE DEF wa, wb, ra, rb
  <2>1. /\ (wa * ChunkSize + ra) \div ChunkSize = wa
        /\ (wa * ChunkSize + ra) % ChunkSize = ra
        /\ (wb * ChunkSize + rb) \div ChunkSize = wb
        /\ (wb * ChunkSize + rb) % ChunkSize = rb
    BY <1>1, <1>2, <1>3, Division
  <2> QED
    BY <1>4, <2>1
<1>6. ca = cb
  BY <1>3, <1>4, <1>5
<1> QED
  BY <1>2, <1>5, <1>6

(* A request that does not leave its chunk is transferred page by page to  *)
(* the places of its pages.                                                *)
THEOREM TransfersInChunk ==
  ASSUME NEW a \in Nat, NEW i \in Nat, (a % ChunkSize) + i < ChunkSize
  PROVE  TransferPlace(a, i) = PlaceOf(a + i)
<1> DEFINE c == a \div ChunkSize
           r == a % ChunkSize
<1>1. ChunkSize \in Nat \ {0}
  BY RaidAssumption
<1>2. c \in Nat /\ r \in 0 .. ChunkSize - 1 /\ a = c * ChunkSize + r
  BY <1>1, Decomposition
<1>3. (a + i) \div ChunkSize = c /\ (a + i) % ChunkSize = r + i
  <2>1. r + i \in 0 .. ChunkSize - 1
    BY <1>1, <1>2
  <2> HIDE DEF c, r
  <2>2. a + i = c * ChunkSize + (r + i)
    <3>1. c * ChunkSize \in Nat
      BY <1>1, <1>2
    <3> QED
      BY <1>2, <3>1
  <2>3. /\ (c * ChunkSize + (r + i)) \div ChunkSize = c
        /\ (c * ChunkSize + (r + i)) % ChunkSize = r + i
    BY <1>1, <1>2, <2>1, Division
  <2> QED
    BY <2>2, <2>3
<1>4. OffsetOf(a) + i = OffsetOf(a + i)
  <2> DEFINE w == c \div DeviceCnt
  <2>1. w * ChunkSize \in Nat
    BY <1>1, <1>2, Decomposition, RaidAssumption
  <2>2. OffsetOf(a) = w * ChunkSize + r /\ OffsetOf(a + i) = w * ChunkSize + (r + i)
    BY <1>3 DEF OffsetOf
  <2> HIDE DEF w, r
  <2> QED
    BY <1>2, <2>1, <2>2
<1> QED
  BY <1>3, <1>4 DEF TransferPlace, PlaceOf, DeviceOf

(* When the block size divides the chunk size no block crosses a chunk, so *)
(* the condition the callers of calc are asked for (the request is smaller *)
(* than a chunk) is enough.                                                *)
THEOREM AlignedBlocksTransfer ==
  ASSUME NEW len \in Nat \ {0}, NEW k \in Nat, ChunkSize = k * len,
         NEW block \in Nat, NEW i \in 0 .. len - 1
  PROVE  TransferPlace(block * len, i) = PlaceOf(block * len + i)
<1> DEFINE a == block * len
           c == a \div ChunkSize
           r == a % ChunkSize
<1>1. ChunkSize \in Nat \ {0} /\ a \in Nat
  BY RaidAssumption
<1>2. c \in Nat /\ r \in 0 .. ChunkSize - 1 /\ a = c * ChunkSize + r
  BY <1>1, Decomposition
<1>3. r = (block - c * k) * len
  <2> HIDE DEF c, r
  <2>1. c * ChunkSize = (c * k) * len
    BY <1>2
  <2> QED
    BY <1>2, <2>1
<1>4. block - c * k <= k - 1
  <2> DEFINE m == block - c * k
  <2>1. m \in Int
    BY <1>2
  <2>2. SUFFICES ASSUME k <= m PROVE FALSE
    BY <2>1
  <2> HIDE DEF m
  <2>3. k * len <= m * len
    BY <2>1, <2>2
  <2> QED
    BY <1>2, <1>3, <2>1, <2>3 DEF m
<1>5. r <= ChunkSize - len
  <2> DEFINE m == block - c * k
  <2>1. m \in Int /\ m <= k - 1
    BY <1>2, <1>4
  <2> HIDE DEF m
  <2>2. m * len <= (k - 1) * len
    BY <2>1
  <2> QED
    BY <1>3, <2>1, <2>2 DEF m
<1>6. r + i < ChunkSize
  <2> HIDE DEF r
  <2> QED
    BY <1>1, <1>2, <1>5
<1> HIDE DEF a
<1> QED
  BY <1>1, <1>6, TransfersInChunk DEF a

-----------------------------------------------------------------------------
(* A block lies in one chunk.                                              *)
Aligned == \E k \in Nat : ChunkSize = k * BlockPages

-----------------------------------------------------------------------------
(* The invariant.                                                          *)

Where == 1 .. 6

(* Every object is in one of the places, and in no other.                  *)
Parted(h) ==
  /\ h \in [Where -> SUBSET Slot]
  /\ \A s \in Slot : \E k \in Where : s \in h[k]
  /\ \A j, k \in Where : j # k => h[j] \cap h[k] = {}

ListTypes ==
  /\ freeStack \in Seq(Slot) /\ submitStack \in Seq(Slot)
  /\ sq \in Seq(Slot) /\ cq \in Seq(Slot) /\ events \in Seq(Slot)
  /\ inKernel \subseteq Slot
  /\ IsInjective(freeStack) /\ IsInjective(submitStack)
  /\ IsInjective(sq) /\ IsInjective(cq) /\ IsInjective(events)

SlotInv ==
  /\ ListTypes /\ Parted(Holders)
  /\ request \in [Slot -> Request \cup {none}]
  /\ Busy = Slot \ Range(freeStack)

IdInv ==
  /\ avail \in Seq(Id) /\ IsInjective(avail)
  /\ \A s, t \in Busy : request[s].id = request[t].id => s = t
  /\ \A s \in Busy : request[s].id \notin Range(avail)
  /\ \A i \in Id : i \in Range(avail) \/ \E s \in Busy : request[s].id = i
  /\ Len(avail) + Cardinality(Busy) = Depth

(* Which lists an engine uses, and when.                                   *)
EngineInv ==
  /\ engine = "libaio" => sq = <<>> /\ aioOutstanding = Cardinality(inKernel) + Len(cq)
  /\ engine = "io_uring" \/ sq = <<>>
  /\ aioOutstanding \in Int
  /\ engine # "libaio" => events = <<>>
  /\ events # <<>> => pollState = "events"
  /\ pollState = "idle" <=> ~ Polling

CountInv ==
  /\ submitted \in Nat /\ polled \in Nat /\ completed \in Nat
  /\ outstanding \in Int /\ got \in Nat
  /\ submitted - polled = Cardinality(Busy) + got
  /\ outstanding = submitted - polled - Len(submitStack)
  /\ submitStack # <<>> => pc = "fill"
  /\ got # 0 => Polling
  /\ pc \in {"head", "fill", "poll", "drain", "drain poll", "done"}
  /\ keepRunning \in BOOLEAN

(* The loop ends for a reason, and runIo returns with nothing in flight.   *)
LoopInv ==
  /\ pc \in {"head", "fill", "poll"} => completed = polled
  /\ pc \in {"drain", "drain poll", "done"} =>
       ~ keepRunning \/ (Ops > 0 /\ completed >= Ops /\ polled >= completed)
  /\ pc = "done" => Busy = {}

(* Every page is at its place; a buffer holds what its request writes, or  *)
(* has read.                                                               *)
DataInv ==
  /\ \A x \in Page : disk[PlaceOf(x)] = x
  /\ DOMAIN disk = Place /\ DOMAIN buffer = Id
  /\ \A s \in Busy : request[s].type = "write" => checkBuffer(request[s])
  /\ DataChecksPass

IInv == SlotInv /\ IdInv /\ EngineInv /\ CountInv /\ LoopInv

-----------------------------------------------------------------------------
(* The places of the objects.                                              *)

LEMMA SlotFinite == IsFiniteSet(Slot) /\ Cardinality(Slot) = Depth /\ Depth \in Nat /\ Depth > 0
  BY DepthAssumption, FS_Interval DEF Slot

LEMMA HoldersAre ==
  /\ Holders[1] = Range(freeStack) /\ Holders[2] = Range(submitStack)
  /\ Holders[3] = Range(sq) /\ Holders[4] = inKernel
  /\ Holders[5] = Range(cq) /\ Holders[6] = Range(events)
  /\ DOMAIN Holders = Where
BY DEF Holders, Where

(* Objects that move from a place to another.                              *)
LEMMA Moved ==
  ASSUME NEW h, NEW g, Parted(h), g \in [Where -> SUBSET Slot],
         NEW a \in Where, NEW b \in Where, a # b, NEW X \in SUBSET h[a],
         g[a] = h[a] \ X, g[b] = h[b] \cup X,
         \A k \in Where \ {a, b} : g[k] = h[k]
  PROVE  Parted(g)
<1>1. /\ \A s \in Slot : \E k \in Where : s \in h[k]
      /\ \A j, k \in Where : j # k => h[j] \cap h[k] = {}
  BY DEF Parted
<1>2. ASSUME NEW s \in Slot PROVE \E k \in Where : s \in g[k]
  <2>1. PICK k \in Where : s \in h[k]
    BY <1>1
  <2>2. CASE s \in X
    BY <2>2
  <2>3. CASE s \notin X
    BY <2>1, <2>3
  <2> QED
    BY <2>2, <2>3
<1>3. ASSUME NEW j \in Where, NEW k \in Where, j # k, NEW s \in g[j], s \in g[k] PROVE FALSE
  <2>1. \A i \in Where : s \in g[i] => s \in h[i] \/ (i = b /\ s \in X)
    OBVIOUS
  <2>2. s \in X => \A i \in Where : s \in g[i] => i = b
    BY <1>1
  <2> QED
    BY <1>1, <1>3, <2>1, <2>2
<1> QED
  BY <1>2, <1>3 DEF Parted

LEMMA HoldersTyped == ListTypes => Holders \in [Where -> SUBSET Slot]
<1> SUFFICES ASSUME ListTypes PROVE Holders \in [Where -> SUBSET Slot]
  OBVIOUS
<1>1. /\ Range(freeStack) \subseteq Slot /\ Range(submitStack) \subseteq Slot
      /\ Range(sq) \subseteq Slot /\ inKernel \subseteq Slot
      /\ Range(cq) \subseteq Slot /\ Range(events) \subseteq Slot
  BY ListFacts DEF ListTypes
<1> QED
  BY <1>1 DEF Holders, Where

LEMMA Disjoint ==
  Parted(Holders) =>
    /\ Range(freeStack) \cap Range(submitStack) = {} /\ Range(freeStack) \cap Range(sq) = {}
    /\ Range(freeStack) \cap inKernel = {} /\ Range(freeStack) \cap Range(cq) = {}
    /\ Range(freeStack) \cap Range(events) = {} /\ Range(submitStack) \cap Range(sq) = {}
    /\ Range(submitStack) \cap inKernel = {} /\ Range(submitStack) \cap Range(cq) = {}
    /\ Range(submitStack) \cap Range(events) = {} /\ Range(sq) \cap inKernel = {}
    /\ Range(sq) \cap Range(cq) = {} /\ Range(sq) \cap Range(events) = {}
    /\ inKernel \cap Range(cq) = {} /\ inKernel \cap Range(events) = {}
    /\ Range(cq) \cap Range(events) = {}
    /\ Slot \subseteq Range(freeStack) \cup Range(submitStack) \cup Range(sq) \cup inKernel
                       \cup Range(cq) \cup Range(events)
<1> SUFFICES ASSUME Parted(Holders) PROVE Disjoint!2
  OBVIOUS
<1>1. /\ \A s \in Slot : \E k \in Where : s \in Holders[k]
      /\ \A j, k \in Where : j # k => Holders[j] \cap Holders[k] = {}
  BY DEF Parted
<1>2. /\ 1 \in Where /\ 2 \in Where /\ 3 \in Where /\ 4 \in Where /\ 5 \in Where /\ 6 \in Where
      /\ \A k \in Where : k = 1 \/ k = 2 \/ k = 3 \/ k = 4 \/ k = 5 \/ k = 6
  BY DEF Where
<1> QED
  BY <1>1, <1>2, HoldersAre

LEMMA DisjointSum ==
  ASSUME NEW A, NEW B, IsFiniteSet(A), IsFiniteSet(B), A \cap B = {}
  PROVE  IsFiniteSet(A \cup B) /\ Cardinality(A \cup B) = Cardinality(A) + Cardinality(B)
<1>1. Cardinality(A \cap B) = 0
  BY FS_EmptySet
<1>2. Cardinality(A) \in Nat /\ Cardinality(B) \in Nat
  BY FS_CardinalityType
<1>3. /\ IsFiniteSet(A \cup B)
      /\ Cardinality(A \cup B) = Cardinality(A) + Cardinality(B) - Cardinality(A \cap B)
  BY FS_Union
<1> QED
  BY <1>1, <1>2, <1>3

LEMMA PlaceSizes ==
  ASSUME ListTypes, Parted(Holders)
  PROVE  /\ Len(freeStack) + Len(submitStack) + Len(sq) + Cardinality(inKernel)
              + Len(cq) + Len(events) = Depth
         /\ Cardinality(Slot \ Range(freeStack)) = Depth - Len(freeStack)
         /\ IsFiniteSet(inKernel) /\ Cardinality(inKernel) \in Nat
<1> DEFINE F == Range(freeStack)
           U == Range(submitStack)
           Q == Range(sq)
           C == Range(cq)
           E == Range(events)
<1>1. /\ IsFiniteSet(F) /\ Cardinality(F) = Len(freeStack) /\ Len(freeStack) \in Nat
      /\ IsFiniteSet(U) /\ Cardinality(U) = Len(submitStack) /\ Len(submitStack) \in Nat
      /\ IsFiniteSet(Q) /\ Cardinality(Q) = Len(sq) /\ Len(sq) \in Nat
      /\ IsFiniteSet(C) /\ Cardinality(C) = Len(cq) /\ Len(cq) \in Nat
      /\ IsFiniteSet(E) /\ Cardinality(E) = Len(events) /\ Len(events) \in Nat
  BY InjectiveLength, ListFacts DEF ListTypes
<1>2. IsFiniteSet(inKernel) /\ Cardinality(inKernel) \in Nat
  BY SlotFinite, FS_Subset, FS_CardinalityType DEF ListTypes
<1> DEFINE A2 == F \cup U
           A3 == A2 \cup Q
           A4 == A3 \cup inKernel
           A5 == A4 \cup C
<1>3. /\ A5 \cup E = Slot /\ F \cap U = {} /\ A2 \cap Q = {}
      /\ A3 \cap inKernel = {} /\ A4 \cap C = {} /\ A5 \cap E = {}
      /\ Slot \cap F = F
  BY Disjoint, ListFacts DEF ListTypes
<1> HIDE DEF F, U, Q, C, E
<1>4. IsFiniteSet(A2) /\ Cardinality(A2) = Len(freeStack) + Len(submitStack)
  <2>1. F \cap U = {}
    BY <1>3
  <2>2. IsFiniteSet(F \cup U) /\ Cardinality(F \cup U) = Cardinality(F) + Cardinality(U)
    BY <1>1, <2>1, DisjointSum
  <2> QED
    BY <1>1, <2>2
<1> HIDE DEF A2
<1>5. IsFiniteSet(A3) /\ Cardinality(A3) = Cardinality(A2) + Len(sq)
  BY <1>1, <1>3, <1>4, DisjointSum
<1> HIDE DEF A3
<1>6. IsFiniteSet(A4) /\ Cardinality(A4) = Cardinality(A3) + Cardinality(inKernel)
  BY <1>2, <1>3, <1>5, DisjointSum
<1> HIDE DEF A4
<1>7. IsFiniteSet(A5) /\ Cardinality(A5) = Cardinality(A4) + Len(cq)
  BY <1>1, <1>3, <1>6, DisjointSum
<1> HIDE DEF A5
<1>8. Cardinality(A5 \cup E) = Cardinality(A5) + Len(events)
  BY <1>1, <1>3, <1>7, DisjointSum
<1>9. Cardinality(Slot \ F) = Depth - Len(freeStack)
  <2>1. Cardinality(Slot \ F) = Cardinality(Slot) - Cardinality(Slot \cap F)
    BY SlotFinite, FS_Difference
  <2> QED
    BY <1>1, <1>3, <2>1, SlotFinite
<1> QED
  BY <1>1, <1>2, <1>3, <1>4, <1>5, <1>6, <1>7, <1>8, <1>9, SlotFinite DEF F

-----------------------------------------------------------------------------
(* Every step keeps the objects apart.                                     *)

LEMMA PushKeepsSlots ==
  ASSUME SlotInv, NEW r \in Request, FreeToSubmit,
         request' = [request EXCEPT ![Top(freeStack)] = r],
         UNCHANGED <<sq, inKernel, cq, events>>
  PROVE  /\ SlotInv'
         /\ Top(freeStack) \in Slot /\ Top(freeStack) \notin Busy
         /\ Busy' = Busy \cup {Top(freeStack)}
         /\ Len(submitStack') = Len(submitStack) + 1
<1> DEFINE f == Top(freeStack)
<1>1. freeStack \in Seq(Slot) /\ freeStack # <<>> /\ IsInjective(freeStack)
  BY DEF SlotInv, ListTypes, FreeToSubmit
<1>2. /\ freeStack' \in Seq(Slot) /\ IsInjective(freeStack')
      /\ f \in Slot /\ f \in Range(freeStack)
      /\ Range(freeStack') = Range(freeStack) \ {f}
  BY <1>1, PopList DEF FreeToSubmit, Popped, Top
<1>3. submitStack \in Seq(Slot) /\ IsInjective(submitStack) /\ f \notin Range(submitStack)
  BY <1>2, Disjoint DEF SlotInv, ListTypes
<1>4. /\ submitStack' \in Seq(Slot) /\ IsInjective(submitStack')
      /\ Range(submitStack') = Range(submitStack) \cup {f}
      /\ Len(submitStack') = Len(submitStack) + 1
  BY <1>2, <1>3, AppendList DEF FreeToSubmit
<1> HIDE DEF f
<1>5. ListTypes'
  BY <1>2, <1>4 DEF SlotInv, ListTypes
<1>6. Parted(Holders')
  <2>1. (Holders \in [Where -> SUBSET Slot])'
    BY <1>5, HoldersTyped, PTL
  <2>2. /\ Holders'[1] = Holders[1] \ {f} /\ Holders'[2] = Holders[2] \cup {f}
        /\ Holders'[3] = Holders[3] /\ Holders'[4] = Holders[4]
        /\ Holders'[5] = Holders[5] /\ Holders'[6] = Holders[6]
    BY <1>2, <1>4 DEF Holders
  <2>3. /\ 1 \in Where /\ 2 \in Where /\ {f} \in SUBSET Holders[1]
        /\ \A k \in Where \ {1, 2} : Holders'[k] = Holders[k]
    BY <1>2, <2>2, HoldersAre DEF Where
  <2>4. Parted(Holders)
    BY DEF SlotInv
  <2> QED
    BY <2>1, <2>2, <2>3, <2>4, Moved
<1>7. request' \in [Slot -> Request \cup {none}] /\ request'[f] = r
      /\ \A s \in Slot \ {f} : request'[s] = request[s]
  BY <1>2 DEF SlotInv, f
<1>8. f \notin Busy
  BY <1>2 DEF SlotInv
<1>9. Busy' = Busy \cup {f}
  BY <1>2, <1>7, NoneAssumption DEF Busy
<1>10. Busy' = Slot \ Range(freeStack')
  BY <1>2, <1>9 DEF SlotInv
<1> QED
  BY <1>2, <1>4, <1>5, <1>6, <1>7, <1>8, <1>9, <1>10 DEF SlotInv, f

(* io_uring_submit takes the front of the ring.                            *)
LEMMA EnterRingFacts ==
  ASSUME NEW ring \in Seq(Slot), IsInjective(ring), EnterRing(ring)
  PROVE  /\ sq' \in Seq(Slot) /\ IsInjective(sq') /\ Range(sq') \subseteq Range(ring)
         /\ inKernel' = inKernel \cup (Range(ring) \ Range(sq'))
<1>1. PICK n \in 0 .. Len(ring) :
        /\ inKernel' = inKernel \cup Range(SubSeq(ring, 1, n))
        /\ sq' = SubSeq(ring, n + 1, Len(ring))
  BY DEF EnterRing
<1> DEFINE a == SubSeq(ring, 1, n)
           b == SubSeq(ring, n + 1, Len(ring))
<1>2. /\ b \in Seq(Slot) /\ IsInjective(b) /\ Range(a) \cup Range(b) = Range(ring)
      /\ Range(a) \cap Range(b) = {}
  BY CutList
<1>3. Range(a) = Range(ring) \ Range(b)
  BY <1>2
<1> QED
  BY <1>1, <1>2, <1>3

(* Only the places of the objects matter when the requests stay.           *)
LEMMA SlotsStay ==
  ASSUME SlotInv, ListTypes', Parted(Holders'), UNCHANGED <<freeStack, request>>
  PROVE  SlotInv' /\ Busy' = Busy
<1>1. Busy' = Busy
  BY DEF Busy
<1> QED
  BY <1>1 DEF SlotInv

(* What was pushed is handed to the engine.                                *)
LEMMA SubmitKeepsSlots ==
  ASSUME SlotInv, SubmitToOutstanding, UNCHANGED request,
         NEW d, EngineSubmit(PopOrder(submitStack), d)
  PROVE  /\ SlotInv' /\ Busy' = Busy /\ submitStack' = <<>>
         /\ Len(PopOrder(submitStack)) = Len(submitStack)
         /\ engine' = engine /\ UNCHANGED <<cq, events>>
         /\ engine = "libaio" =>
              /\ UNCHANGED sq /\ aioOutstanding' = aioOutstanding + Len(submitStack)
              /\ Cardinality(inKernel') = Cardinality(inKernel) + Len(submitStack)
         /\ engine # "libaio" => UNCHANGED aioOutstanding
         /\ engine # "io_uring" => UNCHANGED sq
<1> DEFINE batch == PopOrder(submitStack)
<1>1. /\ submitStack \in Seq(Slot) /\ IsInjective(submitStack)
      /\ sq \in Seq(Slot) /\ IsInjective(sq) /\ inKernel \subseteq Slot
      /\ Parted(Holders)
  BY DEF SlotInv, ListTypes
<1>2. /\ batch \in Seq(Slot) /\ Len(batch) = Len(submitStack) /\ IsInjective(batch)
      /\ Range(batch) = Range(submitStack) /\ Range(batch) \subseteq Slot
  <2>1. /\ batch \in Seq(Slot) /\ Len(batch) = Len(submitStack) /\ IsInjective(batch)
        /\ Range(batch) = Range(submitStack)
    BY <1>1, ReverseList DEF PopOrder
  <2> HIDE DEF batch
  <2> QED
    BY <2>1, ListFacts
<1> HIDE DEF batch
<1>3. /\ submitStack' = <<>> /\ submitStack' \in Seq(Slot) /\ IsInjective(submitStack')
      /\ Range(submitStack') = {} /\ UNCHANGED freeStack
  BY DEF SubmitToOutstanding, IsInjective, Range
<1>4. UNCHANGED <<cq, events, engine>>
  BY DEF EngineSubmit, AioSubmit, UringSubmit, SpdkSubmit, XnvmeSubmit
<1>5. CASE engine # "io_uring"
  <2>1. inKernel' = inKernel \cup Range(batch) /\ UNCHANGED sq
    BY <1>5 DEF EngineSubmit, AioSubmit, UringSubmit, SpdkSubmit, XnvmeSubmit, batch
  <2>2. ListTypes'
    BY <1>1, <1>2, <1>3, <1>4, <2>1 DEF SlotInv, ListTypes
  <2>3. Parted(Holders')
    <3>1. (Holders \in [Where -> SUBSET Slot])'
      BY <2>2, HoldersTyped, PTL
    <3>2. /\ Holders'[1] = Holders[1] /\ Holders'[2] = Holders[2] \ Range(batch)
          /\ Holders'[3] = Holders[3] /\ Holders'[4] = Holders[4] \cup Range(batch)
          /\ Holders'[5] = Holders[5] /\ Holders'[6] = Holders[6]
      BY <1>2, <1>3, <1>4, <2>1 DEF Holders
    <3>3. /\ 2 \in Where /\ 4 \in Where /\ Range(batch) \in SUBSET Holders[2]
          /\ \A k \in Where \ {2, 4} : Holders'[k] = Holders[k]
      BY <1>2, <3>2, HoldersAre DEF Where
    <3>4. Parted(Holders) /\ Holders' \in [Where -> SUBSET Slot]
      BY <1>1, <3>1
    <3> QED
      BY ONLY <3>2, <3>3, <3>4, Moved
  <2>4. SlotInv' /\ Busy' = Busy
    BY <1>3, <2>2, <2>3, SlotsStay
  <2>5. engine = "libaio" => aioOutstanding' = aioOutstanding + Len(submitStack)
    BY <1>2 DEF EngineSubmit, AioSubmit, UringSubmit, SpdkSubmit, XnvmeSubmit, batch
  <2>6. engine # "libaio" => UNCHANGED aioOutstanding
    BY DEF EngineSubmit, AioSubmit, UringSubmit, SpdkSubmit, XnvmeSubmit
  <2>7. Cardinality(inKernel') = Cardinality(inKernel) + Len(submitStack)
    <3>1. IsFiniteSet(Range(batch)) /\ Cardinality(Range(batch)) = Len(submitStack)
      BY <1>2, InjectiveLength
    <3>2. inKernel \cap Range(batch) = {}
      BY <1>1, <1>2, Disjoint
    <3>3. IsFiniteSet(inKernel)
      BY <1>1, SlotFinite, FS_Subset
    <3> QED
      BY <2>1, <3>1, <3>2, <3>3, DisjointSum
  <2> QED
    BY <1>2, <1>3, <1>4, <2>1, <2>4, <2>5, <2>6, <2>7 DEF batch
<1>6. CASE engine = "io_uring"
  <2>1. EnterRing(sq \o batch) /\ UNCHANGED aioOutstanding
    BY <1>6 DEF EngineSubmit, AioSubmit, UringSubmit, SpdkSubmit, XnvmeSubmit, batch
  <2>2. Range(sq) \cap Range(batch) = {}
    BY <1>1, <1>2, Disjoint
  <2>3. /\ sq \o batch \in Seq(Slot) /\ IsInjective(sq \o batch)
        /\ Range(sq \o batch) = Range(sq) \cup Range(batch)
    BY <1>1, <1>2, <2>2, JoinLists
  <2> DEFINE X == Range(sq \o batch) \ Range(sq')
  <2>4. /\ sq' \in Seq(Slot) /\ IsInjective(sq')
        /\ Range(sq') \subseteq Range(sq) \cup Range(batch)
        /\ inKernel' = inKernel \cup X
    BY <2>1, <2>3, EnterRingFacts
  <2>5. X = (Range(sq) \cup Range(batch)) \ Range(sq')
    BY <2>3
  <2> HIDE DEF X
  <2>6. ListTypes'
    <3>1. inKernel' \subseteq Slot
      BY <1>1, <1>2, <2>4, <2>5, ListFacts
    <3> QED
      BY <1>3, <1>4, <2>4, <3>1 DEF SlotInv, ListTypes
  <2>7. Parted(Holders')
    <3> DEFINE h == [Holders EXCEPT ![2] = {}, ![3] = Range(sq) \cup Range(batch)]
    <3>1. Holders \in [Where -> SUBSET Slot]
      BY <1>1 DEF Parted
    <3>2. /\ h \in [Where -> SUBSET Slot] /\ 2 \in Where /\ 3 \in Where /\ 4 \in Where
          /\ h[2] = Holders[2] \ Range(batch) /\ h[3] = Holders[3] \cup Range(batch)
          /\ \A k \in Where \ {2, 3} : h[k] = Holders[k]
          /\ Range(batch) \in SUBSET Holders[2]
      <4>1. Range(sq) \cup Range(batch) \subseteq Slot
        BY <1>1, <1>2, ListFacts
      <4>2. 2 \in Where /\ 3 \in Where /\ 4 \in Where
        BY DEF Where
      <4> QED
        BY <1>2, <3>1, <4>1, <4>2, HoldersAre
    <3> HIDE DEF h
    <3>3. Parted(h)
      <4>1. Parted(Holders)
        BY <1>1
      <4> QED
        BY ONLY <3>2, <4>1, Moved
    <3>4. (Holders \in [Where -> SUBSET Slot])'
      BY <2>6, HoldersTyped, PTL
    <3>5. /\ Holders'[1] = Holders[1] /\ Holders'[2] = {}
          /\ Holders'[3] = Range(sq') /\ Holders'[4] = inKernel \cup X
          /\ Holders'[5] = Holders[5] /\ Holders'[6] = Holders[6]
      BY <1>3, <1>4, <2>4 DEF Holders
    <3>6. /\ h[1] = Holders[1] /\ h[2] = {} /\ h[3] = Range(sq) \cup Range(batch)
          /\ h[4] = inKernel /\ h[5] = Holders[5] /\ h[6] = Holders[6]
      <4>1. 1 \in Where \ {2, 3} /\ 4 \in Where \ {2, 3} /\ 5 \in Where \ {2, 3} /\ 6 \in Where \ {2, 3}
        BY DEF Where
      <4> QED
        BY <1>2, <3>2, <4>1, HoldersAre
    <3>7. X \in SUBSET h[3] /\ Holders'[3] = h[3] \ X /\ Holders'[4] = h[4] \cup X
      BY <2>4, <2>5, <3>5, <3>6
    <3>8. \A k \in Where \ {3, 4} : Holders'[k] = h[k]
      BY <3>5, <3>6 DEF Where
    <3> QED
      BY <3>2, <3>3, <3>4, <3>7, <3>8, Moved
  <2>8. SlotInv' /\ Busy' = Busy
    BY <1>3, <2>6, <2>7, SlotsStay
  <2> QED
    BY <1>2, <1>3, <1>4, <1>6, <2>1, <2>8 DEF batch
<1> QED
  BY <1>5, <1>6

(* A second look into the kernel hands it more of the ring.                *)
LEMMA EnterKeepsSlots ==
  ASSUME SlotInv, EnterKernel, UNCHANGED <<stackVars, channelVars>>
  PROVE  SlotInv' /\ Busy' = Busy
<1>1. sq \in Seq(Slot) /\ IsInjective(sq) /\ Parted(Holders)
  BY DEF SlotInv, ListTypes
<1> DEFINE X == Range(sq) \ Range(sq')
<1>2. /\ sq' \in Seq(Slot) /\ IsInjective(sq') /\ Range(sq') \subseteq Range(sq)
      /\ inKernel' = inKernel \cup X
  BY <1>1, EnterRingFacts DEF EnterKernel
<1>3. UNCHANGED <<freeStack, submitStack, cq, events, request>>
  BY DEF EnterKernel, stackVars, channelVars
<1>4. ListTypes'
  <2>1. inKernel' \subseteq Slot
    BY <1>1, <1>2, ListFacts DEF SlotInv, ListTypes
  <2> QED
    BY <1>2, <1>3, <2>1 DEF SlotInv, ListTypes
<1>5. Parted(Holders')
  <2>1. (Holders \in [Where -> SUBSET Slot])'
    BY <1>4, HoldersTyped, PTL
  <2>2. /\ Holders'[1] = Holders[1] /\ Holders'[2] = Holders[2]
        /\ Holders'[3] = Holders[3] \ X /\ Holders'[4] = Holders[4] \cup X
        /\ Holders'[5] = Holders[5] /\ Holders'[6] = Holders[6]
    BY <1>2, <1>3 DEF Holders
  <2>3. /\ 3 \in Where /\ 4 \in Where /\ X \in SUBSET Holders[3]
        /\ \A k \in Where \ {3, 4} : Holders'[k] = Holders[k]
    BY <1>2, <2>2, HoldersAre DEF Where
  <2>4. Parted(Holders) /\ Holders' \in [Where -> SUBSET Slot]
    BY <1>1, <2>1
  <2>5. Holders'[3] = Holders[3] \ X /\ Holders'[4] = Holders[4] \cup X
    BY <2>2
  <2> HIDE DEF X
  <2> QED
    BY ONLY <2>3, <2>4, <2>5, Moved
<1> QED
  BY <1>3, <1>4, <1>5, SlotsStay

(* A device is done.                                                       *)
LEMMA CompletionKeepsSlots ==
  ASSUME SlotInv, NEW s \in Slot, KernelCompletes(s), UNCHANGED <<stackVars, request>>
  PROVE  /\ SlotInv' /\ Busy' = Busy /\ s \in Busy
         /\ Cardinality(inKernel') + Len(cq') = Cardinality(inKernel) + Len(cq)
         /\ Range(cq') = Range(cq) \cup {s}
<1>1. cq \in Seq(Slot) /\ IsInjective(cq) /\ Parted(Holders) /\ inKernel \subseteq Slot
  BY DEF SlotInv, ListTypes
<1>2. s \in inKernel /\ inKernel' = inKernel \ {s} /\ cq' = Append(cq, s)
  BY DEF KernelCompletes
<1>3. UNCHANGED <<freeStack, submitStack, sq, events, request>>
  BY DEF KernelCompletes, stackVars
<1>4. s \notin Range(cq) /\ s \notin Range(freeStack)
  BY <1>1, <1>2, Disjoint
<1>5. /\ cq' \in Seq(Slot) /\ IsInjective(cq') /\ Range(cq') = Range(cq) \cup {s}
      /\ Len(cq') = Len(cq) + 1
  BY <1>1, <1>2, <1>4, AppendList
<1>6. ListTypes'
  BY <1>2, <1>3, <1>5 DEF SlotInv, ListTypes
<1>7. Parted(Holders')
  <2> DEFINE X == {s}
  <2>1. (Holders \in [Where -> SUBSET Slot])'
    BY <1>6, HoldersTyped, PTL
  <2>2. /\ Holders'[1] = Holders[1] /\ Holders'[2] = Holders[2] /\ Holders'[3] = Holders[3]
        /\ Holders'[4] = Holders[4] \ X /\ Holders'[5] = Holders[5] \cup X
        /\ Holders'[6] = Holders[6]
    BY <1>2, <1>3, <1>5 DEF Holders
  <2>3. /\ 4 \in Where /\ 5 \in Where /\ X \in SUBSET Holders[4]
        /\ \A k \in Where \ {4, 5} : Holders'[k] = Holders[k]
    BY <1>2, <2>2, HoldersAre DEF Where
  <2>4. Parted(Holders) /\ Holders' \in [Where -> SUBSET Slot]
    BY <1>1, <2>1
  <2>5. Holders'[4] = Holders[4] \ X /\ Holders'[5] = Holders[5] \cup X
    BY <2>2
  <2> HIDE DEF X
  <2> QED
    BY ONLY <2>3, <2>4, <2>5, Moved
<1>8. SlotInv' /\ Busy' = Busy
  BY <1>3, <1>6, <1>7, SlotsStay
<1>9. s \in Busy
  BY <1>4 DEF SlotInv
<1>10. Cardinality(inKernel') = Cardinality(inKernel) - 1 /\ Cardinality(inKernel) \in Nat
  BY <1>1, <1>2, SlotFinite, FS_Subset, FS_RemoveElement, FS_CardinalityType
<1> QED
  BY <1>1, <1>5, <1>8, <1>9, <1>10, ListFacts

(* io_getevents moves the front of the queue to the events.                *)
LEMMA FetchKeepsSlots ==
  ASSUME SlotInv, EngineInv, FetchEvents, UNCHANGED <<stackVars, channelVars>>
  PROVE  /\ SlotInv' /\ Busy' = Busy /\ cq' = <<>>
         /\ aioOutstanding' = Cardinality(inKernel)
         /\ Range(cq') \cup Range(events') = Range(cq) \cup Range(events)
<1>1. /\ cq \in Seq(Slot) /\ IsInjective(cq) /\ Parted(Holders) /\ inKernel \subseteq Slot
      /\ Len(cq) \in Nat
  BY ListFacts DEF SlotInv, ListTypes
<1>2. IsFiniteSet(inKernel) /\ Cardinality(inKernel) \in Nat
  BY <1>1, PlaceSizes DEF SlotInv
<1>3. engine = "libaio" /\ pollState = "peek"
  BY DEF FetchEvents
<1>4. events = <<>> /\ aioOutstanding = Cardinality(inKernel) + Len(cq)
  BY <1>3 DEF EngineInv
<1>5. /\ events' = SubSeq(cq, 1, Len(cq)) /\ cq' = SubSeq(cq, Len(cq) + 1, Len(cq))
      /\ aioOutstanding' = aioOutstanding - Len(cq)
  <2>1. Len(cq) <= aioOutstanding
    BY <1>1, <1>2, <1>4
  <2> QED
    BY <2>1 DEF FetchEvents
<1>6. events' = cq /\ cq' = <<>>
  BY <1>1, <1>5, SubSeqFull, SubSeqEmpty
<1>7. UNCHANGED <<freeStack, submitStack, sq, inKernel, request>>
  BY DEF FetchEvents, stackVars, channelVars
<1>8. /\ Range(events) = {} /\ Range(cq') = {} /\ Range(events') = Range(cq)
      /\ cq' \in Seq(Slot) /\ IsInjective(cq')
  BY <1>4, <1>6 DEF Range, IsInjective
<1>9. ListTypes'
  BY <1>1, <1>6, <1>7, <1>8 DEF SlotInv, ListTypes
<1>10. Parted(Holders')
  <2> DEFINE X == Range(cq)
  <2>1. (Holders \in [Where -> SUBSET Slot])'
    BY <1>9, HoldersTyped, PTL
  <2>2. /\ Holders'[1] = Holders[1] /\ Holders'[2] = Holders[2] /\ Holders'[3] = Holders[3]
        /\ Holders'[4] = Holders[4] /\ Holders'[5] = Holders[5] \ X
        /\ Holders'[6] = Holders[6] \cup X
    BY <1>7, <1>8 DEF Holders
  <2>3. /\ 5 \in Where /\ 6 \in Where /\ X \in SUBSET Holders[5]
        /\ \A k \in Where \ {5, 6} : Holders'[k] = Holders[k]
    BY <2>2, HoldersAre DEF Where
  <2>4. Parted(Holders) /\ Holders' \in [Where -> SUBSET Slot]
    BY <1>1, <2>1
  <2> HIDE DEF X
  <2> QED
    BY ONLY <2>2, <2>3, <2>4, Moved, SMTT(30)
<1>11. SlotInv' /\ Busy' = Busy
  BY <1>7, <1>9, <1>10, SlotsStay
<1> QED
  BY <1>1, <1>2, <1>4, <1>5, <1>6, <1>8, <1>11

(* A completed object is taken from the events or from the queue.          *)
TakenFromEvents(s) ==
  /\ s \in Range(events) /\ UNCHANGED cq
  /\ events' \in Seq(Slot) /\ IsInjective(events') /\ Range(events') = Range(events) \ {s}
  /\ pollState = "events" /\ pollState' = "events"

TakenFromQueue(s) ==
  /\ s \in Range(cq) /\ UNCHANGED events
  /\ cq' \in Seq(Slot) /\ IsInjective(cq') /\ Range(cq') = Range(cq) \ {s}
  /\ engine # "libaio" /\ pollState # "idle" /\ pollState' = "peek"

LEMMA Reaped ==
  ASSUME ListTypes, NEW s, NEW d, ReapNext(s, d)
  PROVE  /\ TakenFromEvents(s) \/ TakenFromQueue(s)
         /\ UNCHANGED <<engine, sq, inKernel, aioOutstanding>>
<1>1. /\ cq \in Seq(Slot) /\ IsInjective(cq)
      /\ events \in Seq(Slot) /\ IsInjective(events)
  BY DEF ListTypes
<1>2. UNCHANGED <<engine, sq, inKernel, aioOutstanding>>
  BY DEF ReapNext, ReapEvent, ReapEntry, ReapHere
<1>3. CASE ReapEvent(s)
  <2>1. /\ events # <<>> /\ s = Head(events) /\ events' = Tail(events) /\ UNCHANGED cq
        /\ pollState = "events" /\ pollState' = "events"
    BY <1>3 DEF ReapEvent
  <2>2. /\ s \in Range(events) /\ events' \in Seq(Slot) /\ IsInjective(events')
        /\ Range(events') = Range(events) \ {s}
    BY <1>1, <2>1, TailList
  <2> QED
    BY <1>2, <2>1, <2>2 DEF TakenFromEvents
<1>4. CASE ReapEntry(s)
  <2>1. /\ cq # <<>> /\ s = Head(cq) /\ cq' = Tail(cq) /\ UNCHANGED events
        /\ engine # "libaio" /\ pollState # "idle" /\ pollState' = "peek"
    BY <1>4 DEF ReapEntry
  <2>2. /\ s \in Range(cq) /\ cq' \in Seq(Slot) /\ IsInjective(cq')
        /\ Range(cq') = Range(cq) \ {s}
    BY <1>1, <2>1, TailList
  <2> QED
    BY <1>2, <2>1, <2>2 DEF TakenFromQueue
<1>5. CASE ReapHere(s, d)
  <2>1. PICK i \in DOMAIN cq : s = cq[i] /\ cq' = RemoveAt(cq, i)
    BY <1>5 DEF ReapHere
  <2>2. i \in 1 .. Len(cq)
    BY <1>1, ListFacts
  <2>3. /\ s \in Range(cq) /\ cq' \in Seq(Slot) /\ IsInjective(cq')
        /\ Range(cq') = Range(cq) \ {s}
    <3>1. cq[i] \in Range(cq)
      BY <1>1, <2>2, ListFacts
    <3>2. /\ RemoveAt(cq, i) \in Seq(Slot) /\ IsInjective(RemoveAt(cq, i))
          /\ Range(RemoveAt(cq, i)) = Range(cq) \ {cq[i]}
      BY <1>1, <2>2, RemoveFromList DEF RemoveAt
    <3> QED
      BY <2>1, <3>1, <3>2
  <2>4. /\ UNCHANGED events /\ engine # "libaio" /\ pollState # "idle" /\ pollState' = "peek"
    BY <1>5 DEF ReapHere, PerDevice
  <2> QED
    BY <1>2, <2>3, <2>4 DEF TakenFromQueue
<1> QED
  BY <1>3, <1>4, <1>5 DEF ReapNext

LEMMA ReapKeepsSlots ==
  ASSUME SlotInv, NEW s \in Slot, NEW d, ReapNext(s, d), ReturnToFreeList(s),
         request' = [request EXCEPT ![s] = none]
  PROVE  /\ SlotInv' /\ s \in Busy /\ Busy' = Busy \ {s} /\ UNCHANGED submitStack
<1>1. /\ freeStack \in Seq(Slot) /\ IsInjective(freeStack) /\ Parted(Holders) /\ ListTypes
      /\ request \in [Slot -> Request \cup {none}]
  BY DEF SlotInv, ListTypes
<1>2. /\ TakenFromEvents(s) \/ TakenFromQueue(s)
      /\ UNCHANGED <<engine, sq, inKernel, aioOutstanding>>
  BY <1>1, Reaped
<1>3. s \notin Range(freeStack)
  BY <1>1, <1>2, Disjoint DEF TakenFromEvents, TakenFromQueue
<1>4. /\ freeStack' \in Seq(Slot) /\ IsInjective(freeStack')
      /\ Range(freeStack') = Range(freeStack) \cup {s}
      /\ UNCHANGED submitStack
  BY <1>1, <1>3, AppendList DEF ReturnToFreeList
<1>5. ListTypes'
  BY <1>1, <1>2, <1>4 DEF ListTypes, TakenFromEvents, TakenFromQueue
<1>6. Parted(Holders')
  <2> DEFINE X == {s}
  <2>1. Parted(Holders) /\ (Holders \in [Where -> SUBSET Slot])'
    BY <1>1, <1>5, HoldersTyped, PTL
  <2>2. Holders'[1] = Holders[1] \cup X
    BY <1>4 DEF Holders
  <2>3. /\ Holders'[2] = Holders[2] /\ Holders'[3] = Holders[3] /\ Holders'[4] = Holders[4]
    BY <1>2, <1>4 DEF Holders
  <2>4. 1 \in Where /\ 5 \in Where /\ 6 \in Where
    BY DEF Where
  <2>5. CASE TakenFromEvents(s)
    <3>1. Holders'[6] = Holders[6] \ X /\ Holders'[5] = Holders[5] /\ X \in SUBSET Holders[6]
      BY <2>5, HoldersAre DEF Holders, TakenFromEvents
    <3>2. \A k \in Where \ {6, 1} : Holders'[k] = Holders[k]
      BY <2>3, <3>1 DEF Where
    <3> HIDE DEF X
    <3> QED
      BY ONLY <2>1, <2>2, <2>4, <3>1, <3>2, Moved
  <2>6. CASE TakenFromQueue(s)
    <3>1. Holders'[5] = Holders[5] \ X /\ Holders'[6] = Holders[6] /\ X \in SUBSET Holders[5]
      BY <2>6, HoldersAre DEF Holders, TakenFromQueue
    <3>2. \A k \in Where \ {5, 1} : Holders'[k] = Holders[k]
      BY <2>3, <3>1 DEF Where
    <3> HIDE DEF X
    <3> QED
      BY ONLY <2>1, <2>2, <2>4, <3>1, <3>2, Moved
  <2> QED
    BY <1>2, <2>5, <2>6
<1>7. request' \in [Slot -> Request \cup {none}] /\ request'[s] = none
      /\ \A t \in Slot \ {s} : request'[t] = request[t]
  BY <1>1
<1>8. s \in Busy /\ Busy' = Busy \ {s}
  BY <1>3, <1>7 DEF SlotInv, Busy
<1>9. Busy' = Slot \ Range(freeStack')
  BY <1>4, <1>8 DEF SlotInv
<1> QED
  BY <1>4, <1>5, <1>6, <1>7, <1>8, <1>9 DEF SlotInv

-----------------------------------------------------------------------------
(* The invariant is kept by every action.                                  *)

LEMMA BusyFinite ==
  ASSUME SlotInv
  PROVE  /\ Busy \subseteq Slot /\ IsFiniteSet(Busy) /\ Cardinality(Busy) \in Nat
         /\ Cardinality(Busy) = Depth - Len(freeStack)
         /\ \A s \in Busy : request[s] \in Request
         /\ \A s \in Range(cq) \cup Range(events) : s \in Busy
<1>1. Busy \subseteq Slot
  BY DEF Busy
<1>2. IsFiniteSet(Busy) /\ Cardinality(Busy) \in Nat
  BY <1>1, SlotFinite, FS_Subset, FS_CardinalityType
<1>3. Cardinality(Busy) = Depth - Len(freeStack)
  BY PlaceSizes DEF SlotInv
<1>4. \A s \in Busy : request[s] \in Request
  BY DEF SlotInv, Busy
<1>5. \A s \in Range(cq) \cup Range(events) : s \in Busy
  <2>1. Range(cq) \subseteq Slot /\ Range(events) \subseteq Slot
    BY ListFacts DEF SlotInv, ListTypes
  <2> QED
    BY <2>1, Disjoint DEF SlotInv
<1> QED
  BY <1>1, <1>2, <1>3, <1>4, <1>5

(* Nothing but the places of the loop changes.                             *)
LEMMA UnchangedLower ==
  ASSUME UNCHANGED <<stackVars, engineVars, channelVars>>
  PROVE  /\ SlotInv => SlotInv'
         /\ Busy' = Busy
BY DEF stackVars, engineVars, channelVars, SlotInv, ListTypes, Holders, Busy

LEMMA FillStep ==
  ASSUME IInv, NEW r \in Request, Fill(r)
  PROVE  IInv'
<1> DEFINE f == Top(freeStack)
<1>1. /\ SlotInv /\ IdInv /\ EngineInv /\ CountInv /\ LoopInv
  BY DEF IInv
<1>2. /\ FreeToSubmit /\ request' = [request EXCEPT ![f] = r]
      /\ UNCHANGED <<engineVars, outstanding, got, pc, polled, completed, keepRunning>>
      /\ submitted' = submitted + 1
      /\ avail # <<>> /\ avail' = Popped(avail) /\ r.id = Top(avail) /\ pc = "fill"
  BY DEF Fill, Push, Prepare
<1>3. UNCHANGED <<engine, sq, inKernel, cq, events, aioOutstanding, pollState, pollDevice>>
  BY <1>2 DEF engineVars
<1>4. /\ SlotInv' /\ f \in Slot /\ f \notin Busy /\ Busy' = Busy \cup {f}
      /\ Len(submitStack') = Len(submitStack) + 1
  BY <1>1, <1>2, <1>3, PushKeepsSlots
<1>5. request'[f] = r /\ \A s \in Slot \ {f} : request'[s] = request[s]
  BY <1>1, <1>2, <1>4 DEF SlotInv
<1>6. /\ IsFiniteSet(Busy) /\ Cardinality(Busy) \in Nat /\ Busy \subseteq Slot
      /\ Cardinality(Busy') = Cardinality(Busy) + 1
  BY <1>1, <1>4, BusyFinite, FS_AddElement
<1> HIDE DEF f
<1>7. IdInv'
  <2>1. /\ avail \in Seq(Id) /\ IsInjective(avail)
        /\ \A s, t \in Busy : request[s].id = request[t].id => s = t
        /\ \A s \in Busy : request[s].id \notin Range(avail)
        /\ \A i \in Id : i \in Range(avail) \/ \E s \in Busy : request[s].id = i
        /\ Len(avail) + Cardinality(Busy) = Depth
    BY <1>1 DEF IdInv
  <2>2. /\ avail' \in Seq(Id) /\ IsInjective(avail') /\ Len(avail') = Len(avail) - 1
        /\ r.id \in Range(avail) /\ Range(avail') = Range(avail) \ {r.id}
    BY <1>2, <2>1, PopList DEF Popped, Top
  <2>3. \A s, t \in Busy' : request'[s].id = request'[t].id => s = t
    BY <1>4, <1>5, <1>6, <2>1, <2>2
  <2>4. \A s \in Busy' : request'[s].id \notin Range(avail')
    BY <1>4, <1>5, <1>6, <2>1, <2>2
  <2>5. \A i \in Id : i \in Range(avail') \/ \E s \in Busy' : request'[s].id = i
    BY <1>4, <1>5, <1>6, <2>1, <2>2
  <2>6. Len(avail') + Cardinality(Busy') = Depth
    BY <1>6, <2>1, <2>2, ListFacts
  <2> QED
    BY <2>2, <2>3, <2>4, <2>5, <2>6 DEF IdInv
<1>8. EngineInv'
  BY <1>1, <1>2, <1>3 DEF EngineInv, Polling
<1>9. CountInv'
  <2>1. submitStack \in Seq(Slot) /\ Len(submitStack) \in Nat
    BY <1>1, ListFacts DEF SlotInv, ListTypes
  <2> QED
    BY <1>1, <1>2, <1>4, <1>6, <2>1 DEF CountInv, Polling
<1>10. LoopInv'
  BY <1>1, <1>2 DEF LoopInv
<1> QED
  BY <1>4, <1>7, <1>8, <1>9, <1>10 DEF IInv

(* What submitting leaves of the invariant, wherever the loop goes.        *)
LEMMA SubmitFacts ==
  ASSUME IInv, ~ Polling, SubmitAndPoll, UNCHANGED avail
  PROVE  /\ SlotInv' /\ IdInv' /\ Busy' = Busy /\ submitStack' = <<>>
         /\ outstanding' = outstanding + Len(submitStack) /\ got' = got
         /\ Len(submitStack) \in Nat
         /\ (pc' \in {"poll", "drain poll"} => EngineInv')
<1>1. SlotInv /\ IdInv /\ EngineInv
  BY DEF IInv
<1>2. /\ SubmitToOutstanding /\ outstanding' = outstanding + Len(PopOrder(submitStack))
      /\ EngineSubmit(PopOrder(submitStack), Device)
      /\ pollState' = "peek" /\ UNCHANGED <<request, got>>
  BY DEF SubmitAndPoll
<1>3. /\ SlotInv' /\ Busy' = Busy /\ submitStack' = <<>>
      /\ Len(PopOrder(submitStack)) = Len(submitStack)
      /\ engine' = engine /\ UNCHANGED <<cq, events>>
      /\ engine = "libaio" =>
           /\ UNCHANGED sq /\ aioOutstanding' = aioOutstanding + Len(submitStack)
           /\ Cardinality(inKernel') = Cardinality(inKernel) + Len(submitStack)
      /\ engine # "libaio" => UNCHANGED aioOutstanding
      /\ engine # "io_uring" => UNCHANGED sq
  BY <1>1, <1>2, SubmitKeepsSlots
<1>4. IdInv'
  BY <1>1, <1>2, <1>3 DEF IdInv
<1>5. submitStack \in Seq(Slot) /\ Len(submitStack) \in Nat /\ Len(cq) \in Nat
  BY <1>1, ListFacts DEF SlotInv, ListTypes
<1>6. IsFiniteSet(inKernel) /\ Cardinality(inKernel) \in Nat
  BY <1>1, PlaceSizes DEF SlotInv
<1>7. ASSUME pc' \in {"poll", "drain poll"} PROVE EngineInv'
  <2>1. events = <<>>
    BY <1>1 DEF EngineInv
  <2>2. engine' = "libaio" => sq' = <<>> /\ aioOutstanding' = Cardinality(inKernel') + Len(cq')
    <3>1. SUFFICES ASSUME engine = "libaio"
                   PROVE  sq' = <<>> /\ aioOutstanding' = Cardinality(inKernel') + Len(cq')
      BY <1>3
    <3>2. sq = <<>> /\ aioOutstanding = Cardinality(inKernel) + Len(cq)
      BY <1>1, <3>1 DEF EngineInv
    <3>3. /\ sq' = sq /\ aioOutstanding' = aioOutstanding + Len(submitStack) /\ cq' = cq
          /\ Cardinality(inKernel') = Cardinality(inKernel) + Len(submitStack)
      BY <1>3, <3>1
    <3> QED
      BY <1>5, <1>6, <3>2, <3>3
  <2>3. engine' = "io_uring" \/ sq' = <<>>
    BY <1>1, <1>3 DEF EngineInv
  <2>4. aioOutstanding' \in Int
    BY <1>1, <1>3, <1>5 DEF EngineInv
  <2>5. events' = <<>> /\ pollState' = "peek" /\ Polling'
    BY <1>2, <1>3, <1>7, <2>1 DEF Polling
  <2> QED
    BY <2>2, <2>3, <2>4, <2>5 DEF EngineInv
<1> QED
  BY <1>2, <1>3, <1>4, <1>5, <1>7

LEMMA SubmittedCounts ==
  ASSUME CountInv, submitStack' = <<>>, Len(submitStack) \in Nat, Busy' = Busy,
         outstanding' = outstanding + Len(submitStack), got' = got, ~ Polling,
         UNCHANGED <<submitted, polled, completed, keepRunning>>,
         pc' \in {"poll", "drain poll"}
  PROVE  CountInv'
<1>1. /\ submitted \in Nat /\ polled \in Nat /\ completed \in Nat
      /\ outstanding \in Int /\ got \in Nat
      /\ submitted - polled = Cardinality(Busy) + got
      /\ outstanding = submitted - polled - Len(submitStack)
      /\ got = 0 /\ keepRunning \in BOOLEAN
  BY DEF CountInv
<1>2. Len(submitStack') = 0
  OBVIOUS
<1>3. /\ outstanding' \in Int
      /\ outstanding' = submitted' - polled' - Len(submitStack')
      /\ submitted' - polled' = Cardinality(Busy') + got'
  <2>1. Cardinality(Busy') = Cardinality(Busy) /\ Len(submitStack') = 0
    BY <1>2
  <2>2. /\ submitted' = submitted /\ polled' = polled /\ got' = got
        /\ outstanding' = outstanding + Len(submitStack) /\ Len(submitStack) \in Nat
    OBVIOUS
  <2>3. submitted' - polled' = Cardinality(Busy') + got'
    BY <1>1, <2>1, <2>2
  <2>4. outstanding' \in Int
    <3>1. outstanding \in Int
      BY <1>1
    <3> QED
      BY ONLY <2>2, <3>1
  <2>5. outstanding' = submitted' - polled' - Len(submitStack')
    BY ONLY <1>1, <2>1, <2>2
  <2> QED
    BY <2>3, <2>4, <2>5
<1>4. pc' \in {"head", "fill", "poll", "drain", "drain poll", "done"} /\ got' = 0
  BY <1>1
<1> QED
  BY <1>1, <1>3, <1>4 DEF CountInv

LEMMA EndFillStep ==
  ASSUME IInv, EndFill
  PROVE  IInv'
<1>1. /\ CountInv /\ LoopInv
  BY DEF IInv
<1>2. /\ pc = "fill" /\ SubmitAndPoll /\ pc' = "poll"
      /\ UNCHANGED <<avail, submitted, polled, completed, keepRunning>>
  BY DEF EndFill
<1>3. /\ SlotInv' /\ IdInv' /\ Busy' = Busy /\ submitStack' = <<>> /\ Len(submitStack) \in Nat
      /\ outstanding' = outstanding + Len(submitStack) /\ got' = got /\ EngineInv'
  BY <1>2, SubmitFacts DEF Polling
<1>4. CountInv'
  BY <1>1, <1>2, <1>3, SubmittedCounts DEF Polling
<1>5. LoopInv'
  BY <1>1, <1>2 DEF LoopInv
<1> QED
  BY <1>3, <1>4, <1>5 DEF IInv

LEMMA DrainStep ==
  ASSUME IInv, Drain
  PROVE  IInv'
<1>1. /\ CountInv /\ LoopInv
  BY DEF IInv
<1>2. /\ pc = "drain" /\ SubmitAndPoll /\ pc' = "drain poll"
      /\ UNCHANGED <<avail, submitted, polled, completed, keepRunning>>
  BY DEF Drain
<1>3. /\ SlotInv' /\ IdInv' /\ Busy' = Busy /\ submitStack' = <<>> /\ Len(submitStack) \in Nat
      /\ outstanding' = outstanding + Len(submitStack) /\ got' = got /\ EngineInv'
  BY <1>2, SubmitFacts DEF Polling
<1>4. CountInv'
  BY <1>1, <1>2, <1>3, SubmittedCounts DEF Polling
<1>5. LoopInv'
  BY <1>1, <1>2 DEF LoopInv
<1> QED
  BY <1>3, <1>4, <1>5 DEF IInv

(* The steps of the loop that touch no request.                            *)
LEMMA LoopStep ==
  ASSUME IInv, LoopHead \/ Break \/ Done \/ StopIo
  PROVE  IInv'
<1>1. /\ SlotInv /\ IdInv /\ EngineInv /\ CountInv /\ LoopInv
  BY DEF IInv
<1>2. /\ UNCHANGED <<stackVars, channelVars, avail, submitted, polled, completed>>
      /\ UNCHANGED <<engine, sq, inKernel, cq, events, aioOutstanding>>
  BY DEF LoopHead, Break, Done, StopIo, engineVars
<1>3. SlotInv' /\ Busy' = Busy
  BY <1>1, <1>2 DEF stackVars, channelVars, SlotInv, ListTypes, Holders, Busy
<1>4. IdInv'
  BY <1>1, <1>2, <1>3 DEF IdInv, channelVars
<1>5. UNCHANGED <<submitStack, outstanding, got>>
  BY <1>2 DEF stackVars, channelVars
<1>6. CASE LoopHead
  <2>1. /\ pc = "head" /\ pc' = (IF More THEN "fill" ELSE "drain")
        /\ UNCHANGED <<pollState, keepRunning>>
    BY <1>6 DEF LoopHead, engineVars
  <2>2. EngineInv'
    BY <1>1, <1>2, <2>1 DEF EngineInv, Polling
  <2>3. CountInv'
    BY <1>1, <1>2, <1>3, <1>5, <2>1 DEF CountInv, Polling
  <2>4. LoopInv'
    BY <1>1, <1>2, <2>1, OpsAssumption DEF LoopInv, CountInv, More
  <2> QED
    BY <1>3, <1>4, <2>2, <2>3, <2>4 DEF IInv
<1>7. CASE Break
  <2>1. pc = "head" /\ pc' = "poll" /\ pollState' = "peek" /\ UNCHANGED keepRunning
    BY <1>7 DEF Break
  <2>2. EngineInv'
    <3>1. events = <<>>
      BY <1>1, <2>1 DEF EngineInv, Polling
    <3> QED
      BY <1>1, <1>2, <2>1, <3>1 DEF EngineInv, Polling
  <2>3. CountInv'
    BY <1>1, <1>2, <1>3, <1>5, <2>1 DEF CountInv, Polling
  <2>4. LoopInv'
    BY <1>1, <1>2, <2>1 DEF LoopInv
  <2> QED
    BY <1>3, <1>4, <2>2, <2>3, <2>4 DEF IInv
<1>8. CASE Done
  <2>1. pc = "drain" /\ pc' = "done" /\ polled >= submitted /\ UNCHANGED <<pollState, keepRunning>>
    BY <1>8 DEF Done, engineVars
  <2>2. EngineInv'
    BY <1>1, <1>2, <2>1 DEF EngineInv, Polling
  <2>3. CountInv'
    BY <1>1, <1>2, <1>3, <1>5, <2>1 DEF CountInv, Polling
  <2>4. LoopInv'
    <3>1. Cardinality(Busy) = 0 /\ IsFiniteSet(Busy)
      BY <1>1, <2>1, BusyFinite DEF CountInv
    <3>2. Busy' = {}
      BY <1>3, <3>1, FS_EmptySet
    <3> QED
      BY <1>1, <1>2, <2>1, <3>2 DEF LoopInv
  <2> QED
    BY <1>3, <1>4, <2>2, <2>3, <2>4 DEF IInv
<1>9. CASE StopIo
  <2>1. keepRunning' = FALSE /\ UNCHANGED <<pc, pollState>>
    BY <1>9 DEF StopIo, engineVars
  <2>2. EngineInv'
    BY <1>1, <1>2, <2>1 DEF EngineInv, Polling
  <2>3. CountInv'
    BY <1>1, <1>2, <1>3, <1>5, <2>1 DEF CountInv, Polling
  <2>4. LoopInv'
    BY <1>1, <1>2, <1>3, <2>1 DEF LoopInv
  <2> QED
    BY <1>3, <1>4, <2>2, <2>3, <2>4 DEF IInv
<1> QED
  BY <1>6, <1>7, <1>8, <1>9

LEMMA EndPollStep ==
  ASSUME IInv, EndPoll
  PROVE  IInv'
<1>1. /\ SlotInv /\ IdInv /\ EngineInv /\ CountInv /\ LoopInv
  BY DEF IInv
<1>2. /\ Polling /\ PollOver(Device) /\ pollState' = "idle"
      /\ outstanding' = outstanding - got /\ got' = 0
      /\ UNCHANGED <<stackVars, request, buffer, disk>>
      /\ UNCHANGED <<engine, sq, inKernel, cq, events, aioOutstanding>>
  BY DEF EndPoll, PollReturns
<1>3. /\ polled' = polled + got /\ UNCHANGED <<avail, submitted, keepRunning>>
      /\ pc = "poll" => pc' = "head" /\ completed' = completed + got
      /\ pc # "poll" => pc' = "drain" /\ completed' = completed
  BY DEF EndPoll
<1>4. SlotInv' /\ Busy' = Busy
  BY <1>1, <1>2 DEF stackVars, SlotInv, ListTypes, Holders, Busy
<1>5. IdInv'
  BY <1>1, <1>2, <1>3, <1>4 DEF IdInv
<1>6. EngineInv'
  <2>1. events = <<>>
    BY <1>1, <1>2 DEF EngineInv, PollOver, PerDevice
  <2> QED
    BY <1>1, <1>2, <1>3, <2>1 DEF EngineInv, Polling
<1>7. CountInv'
  <2>1. submitStack' = submitStack /\ (submitStack = <<>>) /\ Len(submitStack) \in Nat
    BY <1>1, <1>2, ListFacts DEF CountInv, Polling, stackVars, SlotInv, ListTypes
  <2>2. /\ submitted \in Nat /\ polled \in Nat /\ completed \in Nat
        /\ outstanding \in Int /\ got \in Nat
        /\ submitted - polled = Cardinality(Busy) + got
        /\ outstanding = submitted - polled - Len(submitStack)
        /\ keepRunning \in BOOLEAN
    BY <1>1 DEF CountInv
  <2>3. Cardinality(Busy) \in Nat
    BY <1>1, BusyFinite
  <2>4. /\ submitted' \in Nat /\ polled' \in Nat /\ completed' \in Nat
        /\ outstanding' \in Int /\ got' = 0
        /\ submitted' - polled' = Cardinality(Busy') + got'
        /\ outstanding' = submitted' - polled' - Len(submitStack')
    BY <1>2, <1>3, <1>4, <2>1, <2>2, <2>3
  <2>5. pc' \in {"head", "drain"} /\ submitStack' = <<>> /\ keepRunning' \in BOOLEAN
    BY <1>3, <2>1, <2>2
  <2> QED
    BY <2>4, <2>5 DEF CountInv
<1>8. LoopInv'
  <2>1. pc = "poll" => completed = polled
    BY <1>1 DEF LoopInv
  <2>2. pc # "poll" => ~ keepRunning \/ (Ops > 0 /\ completed >= Ops /\ polled >= completed)
    BY <1>1, <1>2 DEF LoopInv, Polling
  <2>3. polled \in Nat /\ completed \in Nat /\ got \in Nat
    BY <1>1 DEF CountInv
  <2>4. pc = "poll" => pc' = "head" /\ completed' = polled'
    BY <1>3, <2>1
  <2>5. pc # "poll" =>
          /\ pc' = "drain"
          /\ ~ keepRunning' \/ (Ops > 0 /\ completed' >= Ops /\ polled' >= completed')
    BY <1>3, <2>2, <2>3
  <2> QED
    BY <2>4, <2>5 DEF LoopInv
<1> QED
  BY <1>4, <1>5, <1>6, <1>7, <1>8 DEF IInv

LEMMA PollStep ==
  ASSUME IInv, PollEngine
  PROVE  IInv'
<1>1. /\ SlotInv /\ IdInv /\ EngineInv /\ CountInv /\ LoopInv
  BY DEF IInv
<1>2. /\ Polling /\ UNCHANGED <<stackVars, channelVars>>
      /\ UNCHANGED <<pc, avail, submitted, polled, completed, keepRunning>>
  BY DEF PollEngine, loopVars
<1>3. UNCHANGED <<submitStack, request, outstanding, got>>
  BY <1>2 DEF stackVars, channelVars
<1>4. SlotInv' /\ Busy' = Busy /\ EngineInv'
  <2>1. CASE FetchEvents
    <3>1. /\ SlotInv' /\ Busy' = Busy /\ cq' = <<>> /\ aioOutstanding' = Cardinality(inKernel)
      BY <1>1, <1>2, <2>1, FetchKeepsSlots
    <3>2. /\ pollState' = "events" /\ engine = "libaio" /\ UNCHANGED <<engine, sq, inKernel>>
      BY <2>1 DEF FetchEvents
    <3>3. Cardinality(inKernel) \in Nat
      BY <1>1, PlaceSizes DEF SlotInv
    <3>4. sq' = <<>> /\ aioOutstanding' = Cardinality(inKernel') + Len(cq') /\ aioOutstanding' \in Int
      BY <1>1, <3>1, <3>2, <3>3 DEF EngineInv
    <3>5. engine' = "libaio" /\ pollState' = "events" /\ Polling'
      BY <1>2, <3>2 DEF Polling
    <3> QED
      BY <3>1, <3>4, <3>5 DEF EngineInv
  <2>2. CASE EnterKernel
    <3>1. SlotInv' /\ Busy' = Busy
      BY <1>1, <1>2, <2>2, EnterKeepsSlots
    <3>2. /\ engine = "io_uring" /\ pollState' = "again" /\ UNCHANGED <<engine, cq, events, aioOutstanding>>
      BY <2>2 DEF EnterKernel
    <3> QED
      BY <1>1, <1>2, <3>1, <3>2 DEF EngineInv, Polling
  <2>3. CASE NextDevice(Device)
    <3>1. UNCHANGED <<engine, sq, inKernel, cq, events, aioOutstanding, pollState>>
      BY <2>3 DEF NextDevice
    <3>2. SlotInv' /\ Busy' = Busy
      BY <1>1, <1>2, <3>1 DEF stackVars, channelVars, SlotInv, ListTypes, Holders, Busy
    <3> QED
      BY <1>1, <1>2, <3>1, <3>2 DEF EngineInv, Polling
  <2>4. FetchEvents \/ EnterKernel \/ NextDevice(Device)
    BY DEF PollEngine
  <2> QED
    BY <2>1, <2>2, <2>3, <2>4
<1>5. IdInv'
  BY <1>1, <1>2, <1>3, <1>4 DEF IdInv
<1>6. CountInv'
  BY <1>1, <1>2, <1>3, <1>4 DEF CountInv, Polling
<1>7. LoopInv'
  BY <1>1, <1>2, <1>4 DEF LoopInv
<1> QED
  BY <1>4, <1>5, <1>6, <1>7 DEF IInv

(* A completed request leaves its object and gives its id back.            *)
LEMMA ReapStep ==
  ASSUME IInv, NEW s \in Slot, Reap(s)
  PROVE  IInv' /\ s \in Busy /\ Busy' = Busy \ {s}
<1>1. /\ SlotInv /\ IdInv /\ EngineInv /\ CountInv /\ LoopInv
  BY DEF IInv
<1>2. /\ Polling /\ ReapNext(s, Device) /\ ReturnToFreeList(s)
      /\ request' = [request EXCEPT ![s] = none] /\ got' = got + 1
      /\ avail' = Append(avail, request[s].id)
      /\ UNCHANGED <<outstanding, pc, submitted, polled, completed, keepRunning>>
  BY DEF Reap, Complete, MakeAvailable
<1>3. SlotInv' /\ s \in Busy /\ Busy' = Busy \ {s} /\ UNCHANGED submitStack
  BY <1>1, <1>2, ReapKeepsSlots
<1>4. /\ TakenFromEvents(s) \/ TakenFromQueue(s)
      /\ UNCHANGED <<engine, sq, inKernel, aioOutstanding>>
  <2>1. ListTypes
    BY <1>1 DEF SlotInv
  <2> QED
    BY <1>2, <2>1, Reaped
<1>5. /\ Busy \subseteq Slot /\ IsFiniteSet(Busy) /\ Cardinality(Busy) \in Nat
      /\ request[s] \in Request /\ request[s].id \in Id
      /\ Cardinality(Busy') = Cardinality(Busy) - 1
  BY <1>1, <1>3, BusyFinite, FS_RemoveElement DEF Request
<1>6. \A t \in Busy' : t \in Busy /\ t # s /\ request'[t] = request[t]
  BY <1>1, <1>2, <1>3, <1>5 DEF SlotInv
<1>7. IdInv'
  <2>1. /\ avail \in Seq(Id) /\ IsInjective(avail)
        /\ \A t, u \in Busy : request[t].id = request[u].id => t = u
        /\ \A t \in Busy : request[t].id \notin Range(avail)
        /\ \A i \in Id : i \in Range(avail) \/ \E t \in Busy : request[t].id = i
        /\ Len(avail) + Cardinality(Busy) = Depth
    BY <1>1 DEF IdInv
  <2>2. request[s].id \notin Range(avail)
    BY <1>3, <2>1
  <2>3. /\ avail' \in Seq(Id) /\ IsInjective(avail') /\ Len(avail') = Len(avail) + 1
        /\ Range(avail') = Range(avail) \cup {request[s].id} /\ Len(avail) \in Nat
    BY <1>2, <1>5, <2>1, <2>2, AppendList, ListFacts
  <2>4. \A t, u \in Busy' : request'[t].id = request'[u].id => t = u
    BY <1>6, <2>1
  <2>5. \A t \in Busy' : request'[t].id \notin Range(avail')
    BY <1>3, <1>6, <2>1, <2>3
  <2>6. ASSUME NEW i \in Id PROVE i \in Range(avail') \/ \E t \in Busy' : request'[t].id = i
    <3>1. CASE i \in Range(avail)
      BY <2>3, <3>1
    <3>2. CASE i \notin Range(avail)
      <4>1. PICK t \in Busy : request[t].id = i
        BY <2>1, <3>2
      <4>2. CASE t = s
        BY <2>3, <4>1, <4>2
      <4>3. CASE t # s
        <5>1. t \in Busy'
          BY <1>3, <4>3
        <5> QED
          BY <1>6, <4>1, <5>1
      <4> QED
        BY <4>2, <4>3
    <3> QED
      BY <3>1, <3>2
  <2>7. Len(avail') + Cardinality(Busy') = Depth
    BY <1>5, <2>1, <2>3, DepthAssumption
  <2> QED
    BY <2>3, <2>4, <2>5, <2>6, <2>7 DEF IdInv
<1>8. EngineInv'
  <2>1. Polling' /\ engine' = engine /\ sq' = sq
    BY <1>2, <1>4 DEF Polling
  <2>2. CASE TakenFromEvents(s)
    <3>1. pollState = "events" /\ pollState' = "events" /\ cq' = cq /\ events # <<>>
      BY <2>2 DEF TakenFromEvents, Range
    <3> QED
      BY <1>1, <1>4, <2>1, <3>1 DEF EngineInv
  <2>3. CASE TakenFromQueue(s)
    <3>1. engine # "libaio" /\ pollState' = "peek" /\ events' = events
      BY <2>3 DEF TakenFromQueue
    <3> QED
      BY <1>1, <1>4, <2>1, <3>1 DEF EngineInv
  <2> QED
    BY <1>4, <2>2, <2>3
<1>9. CountInv'
  <2>1. /\ submitted \in Nat /\ polled \in Nat /\ completed \in Nat
        /\ outstanding \in Int /\ got \in Nat
        /\ submitted - polled = Cardinality(Busy) + got
        /\ submitStack # <<>> => pc = "fill"
    BY <1>1 DEF CountInv
  <2>2. submitted' - polled' = Cardinality(Busy') + got' /\ got' \in Nat
    BY <1>2, <1>5, <2>1
  <2> QED
    BY <1>1, <1>2, <1>3, <2>2 DEF CountInv, Polling
<1>10. LoopInv'
  BY <1>1, <1>2 DEF LoopInv, Polling
<1> QED
  BY <1>3, <1>7, <1>8, <1>9, <1>10 DEF IInv

LEMMA TransferStep ==
  ASSUME IInv, NEW s \in Slot, Transfers(s)
  PROVE  IInv' /\ Busy' = Busy /\ s \in Busy
<1>1. /\ SlotInv /\ IdInv /\ EngineInv /\ CountInv /\ LoopInv
  BY DEF IInv
<1>2. /\ KernelCompletes(s) /\ UNCHANGED <<stackVars, request, outstanding, got>>
      /\ UNCHANGED <<pc, avail, submitted, polled, completed, keepRunning>>
  BY DEF Transfers, DeviceCompletes, loopVars
<1>3. /\ SlotInv' /\ Busy' = Busy /\ s \in Busy
      /\ Cardinality(inKernel') + Len(cq') = Cardinality(inKernel) + Len(cq)
  BY <1>1, <1>2, CompletionKeepsSlots
<1>4. UNCHANGED <<engine, sq, events, aioOutstanding, pollState, submitStack>>
  BY <1>2 DEF KernelCompletes, stackVars
<1>5. IdInv'
  BY <1>1, <1>2, <1>3 DEF IdInv
<1>6. EngineInv'
  BY <1>1, <1>2, <1>3, <1>4 DEF EngineInv, Polling
<1>7. CountInv'
  BY <1>1, <1>2, <1>3, <1>4 DEF CountInv, Polling
<1>8. LoopInv'
  BY <1>1, <1>2, <1>3 DEF LoopInv
<1> QED
  BY <1>3, <1>5, <1>6, <1>7, <1>8 DEF IInv

LEMMA StepPreserves == IInv /\ [Next]_vars => IInv'
<1> SUFFICES ASSUME IInv, [Next]_vars PROVE IInv'
  OBVIOUS
<1>1. CASE UNCHANGED vars
  <2>1. /\ UNCHANGED <<stackVars, engineVars, channelVars>>
        /\ UNCHANGED <<pc, avail, submitted, polled, completed, keepRunning>>
    BY <1>1 DEF vars, loopVars
  <2> QED
    BY <2>1 DEF stackVars, engineVars, channelVars, IInv, SlotInv, ListTypes, Holders, Busy,
                IdInv, EngineInv, CountInv, LoopInv, Polling
<1>2. CASE Generator
  BY <1>2, LoopStep, FillStep, EndFillStep, DrainStep, ReapStep, PollStep, EndPollStep
     DEF Generator
<1>3. CASE \E s \in Slot : Transfers(s)
  BY <1>3, TransferStep
<1>4. CASE StopIo
  BY <1>4, LoopStep
<1> QED
  BY <1>1, <1>2, <1>3, <1>4 DEF Next

LEMMA InitialState == Init => IInv
<1> SUFFICES ASSUME Init PROVE IInv
  OBVIOUS
<1>1. /\ freeStack = [i \in Slot |-> i] /\ submitStack = <<>>
      /\ sq = <<>> /\ cq = <<>> /\ events = <<>> /\ inKernel = {}
      /\ aioOutstanding = 0 /\ pollState = "idle"
      /\ request = [s \in Slot |-> none] /\ outstanding = 0 /\ got = 0
      /\ avail = [i \in 1 .. Depth |-> i - 1] /\ keepRunning = TRUE /\ pc = "head"
      /\ submitted = 0 /\ polled = 0 /\ completed = 0
  BY DEF Init, ChannelInit, GeneratorInit, StackInit, EngineInit, AioInit, UringInit
<1>2. /\ freeStack \in Seq(Slot) /\ Len(freeStack) = Depth /\ IsInjective(freeStack)
      /\ Range(freeStack) = Slot
  <2>1. freeStack \in Seq(Slot) /\ Len(freeStack) = Depth
    BY <1>1, DepthAssumption DEF Slot
  <2> QED
    BY <1>1, <2>1 DEF IsInjective, Range
<1>3. /\ <<>> \in Seq(Slot) /\ IsInjective(<<>>) /\ Range(<<>>) = {} /\ Len(<<>>) = 0
  BY DEF IsInjective, Range
<1>4. ListTypes
  BY <1>1, <1>2, <1>3 DEF ListTypes
<1>5. Parted(Holders)
  <2>1. Holders \in [Where -> SUBSET Slot]
    BY <1>4, HoldersTyped
  <2>2. /\ Holders[1] = Slot /\ 1 \in Where /\ \A k \in Where \ {1} : Holders[k] = {}
    BY <1>1, <1>2, <1>3, HoldersAre DEF Where
  <2> QED
    BY <2>1, <2>2 DEF Parted
<1>6. Busy = {}
  BY <1>1 DEF Busy
<1>7. SlotInv
  BY <1>1, <1>2, <1>4, <1>5, <1>6 DEF SlotInv
<1>8. Cardinality(Busy) = 0 /\ Cardinality(inKernel) = 0
  BY <1>1, <1>6, FS_EmptySet
<1>9. IdInv
  <2>1. avail \in Seq(Id) /\ Len(avail) = Depth
    BY <1>1, DepthAssumption DEF Id
  <2>2. IsInjective(avail)
    <3>1. \A i, j \in 1 .. Len(avail) : avail[i] = avail[j] => i = j
      BY <1>1, <2>1, DepthAssumption
    <3> QED
      BY <2>1, <3>1, ListIsInjective
  <2>3. ASSUME NEW i \in Id PROVE i \in Range(avail)
    <3>1. i + 1 \in 1 .. Len(avail) /\ avail[i + 1] = i
      BY <1>1, <2>1, DepthAssumption DEF Id
    <3> QED
      BY <2>1, <3>1, ListFacts
  <2> QED
    BY <1>6, <1>8, <2>1, <2>2, <2>3, DepthAssumption DEF IdInv
<1>10. EngineInv
  BY <1>1, <1>3, <1>8 DEF EngineInv, Polling
<1>11. CountInv
  <2>1. submitted - polled = Cardinality(Busy) + got /\ outstanding = submitted - polled - Len(submitStack)
    <3>1. /\ submitted = 0 /\ polled = 0 /\ got = 0 /\ outstanding = 0
          /\ Cardinality(Busy) = 0 /\ Len(submitStack) = 0
      BY <1>1, <1>3, <1>8
    <3> QED
      BY ONLY <3>1
  <2>2. /\ submitted \in Nat /\ polled \in Nat /\ completed \in Nat
        /\ outstanding \in Int /\ got \in Nat
    BY <1>1
  <2>3. /\ submitStack = <<>> /\ got = 0 /\ keepRunning \in BOOLEAN
        /\ pc \in {"head", "fill", "poll", "drain", "drain poll", "done"}
    BY <1>1
  <2> QED
    BY ONLY <2>1, <2>2, <2>3 DEF CountInv
<1>12. LoopInv
  BY <1>1 DEF LoopInv
<1> QED
  BY <1>7, <1>9, <1>10, <1>11, <1>12 DEF IInv

(* The invariant of the generator and its channel.                         *)
THEOREM Inductive == Spec => []IInv
<1>1. Init => IInv
  BY InitialState
<1>2. IInv /\ [Next]_vars => IInv'
  BY StepPreserves
<1> QED
  BY <1>1, <1>2, PTL DEF Spec

-----------------------------------------------------------------------------
(* The safety invariants.                                                  *)

(* Every object is in exactly one place, so none is lost and none is       *)
(* handed to the engine twice (popFromFreeStack, returnToFreeList).        *)
THEOREM ObjectsAreNeverLost == Spec => []SlotsInOnePlace
<1>1. IInv => SlotsInOnePlace
  <2> SUFFICES ASSUME IInv PROVE SlotsInOnePlace
    OBVIOUS
  <2>1. SlotInv /\ ListTypes /\ Parted(Holders)
    BY DEF IInv, SlotInv
  <2>2. UNION Range(Holders) = Slot
    <3>1. /\ DOMAIN Holders = Where /\ \A k \in Where : Holders[k] \subseteq Slot
          /\ \A s \in Slot : \E k \in Where : s \in Holders[k]
      BY <2>1 DEF Parted
    <3> QED
      BY <3>1 DEF Range
  <2>3. Len(freeStack) + Len(submitStack) + Len(sq) + Cardinality(inKernel)
          + Len(cq) + Len(events) = Depth
    BY <2>1, PlaceSizes
  <2> QED
    BY <2>1, <2>2, <2>3 DEF SlotInv, SlotsInOnePlace
<1> QED
  BY <1>1, Inductive, PTL

(* No id is lost and no two requests in the channel have the same one, so  *)
(* no two of them share a buffer (availableReqStack and the callback).     *)
THEOREM IdsAreNeverLost == Spec => []IdsInOnePlace
<1>1. IInv => IdsInOnePlace
  <2> SUFFICES ASSUME IInv PROVE IdsInOnePlace
    OBVIOUS
  <2>1. SlotInv /\ IdInv
    BY DEF IInv
  <2>2. Range(avail) \subseteq Id
    BY <2>1, ListFacts DEF IdInv
  <2>3. \A s \in Busy : request[s].id \in Id
    BY <2>1, BusyFinite DEF Request
  <2>4. Range(avail) \cup {request[s].id : s \in Busy} = Id
    BY <2>1, <2>2, <2>3 DEF IdInv
  <2> QED
    BY <2>1, <2>4 DEF IdInv, IdsInOnePlace
<1> QED
  BY <1>1, Inductive, PTL

(* The generator, the channel and the engine count the same requests       *)
(* (reqSubmitted and polled, Raid0Channel::outstanding and                 *)
(* LibaioChannel::outstanding).                                            *)
THEOREM LayersCountAlike == Spec => []CountersAgree
<1>1. IInv => CountersAgree
  BY DEF IInv, CountInv, EngineInv, CountersAgree
<1> QED
  BY <1>1, Inductive, PTL

(* A push finds a free object and a batch finds room in the engine         *)
(* ("Cannot push more" and the ensures of the engines are unreachable).    *)
THEOREM NothingIsRefused == Spec => []QueuesSuffice
<1>1. IInv => QueuesSuffice
  <2> SUFFICES ASSUME IInv PROVE QueuesSuffice
    OBVIOUS
  <2>1. SlotInv /\ IdInv /\ ListTypes /\ Parted(Holders)
    BY DEF IInv, SlotInv
  <2>2. avail # <<>> => freeStack # <<>>
    <3>1. /\ Len(avail) \in Nat /\ avail = <<>> <=> Len(avail) = 0
          /\ Len(avail) + Cardinality(Busy) = Depth
      BY <2>1, ListFacts DEF IdInv
    <3>2. Cardinality(Busy) = Depth - Len(freeStack)
      BY <2>1, BusyFinite
    <3>3. Len(freeStack) \in Nat /\ freeStack = <<>> <=> Len(freeStack) = 0
      BY <2>1, ListFacts DEF ListTypes
    <3> QED
      BY <3>1, <3>2, <3>3, DepthAssumption
  <2> DEFINE batch == PopOrder(submitStack)
  <2>3. /\ batch \in Seq(Slot) /\ Len(batch) = Len(submitStack)
        /\ submitStack \in Seq(Slot) /\ cq \in Seq(Slot) /\ inKernel \subseteq Slot
    BY <2>1, ReverseList DEF ListTypes, PopOrder
  <2> HIDE DEF batch
  <2>4. /\ Len(freeStack) \in Nat /\ Len(submitStack) \in Nat /\ Len(sq) \in Nat
        /\ Len(cq) \in Nat /\ Len(events) \in Nat /\ Cardinality(inKernel) \in Nat
        /\ Len(freeStack) + Len(submitStack) + Len(sq) + Cardinality(inKernel)
             + Len(cq) + Len(events) = Depth
    BY <2>1, PlaceSizes, ListFacts DEF ListTypes
  <2>5. AioRoom(batch) /\ UringRoom(batch)
    BY <2>3, <2>4, DepthAssumption DEF AioRoom, UringRoom
  <2>6. XnvmeRoom(batch, Device)
    <3> SUFFICES ASSUME NEW d \in 0 .. DeviceCnt - 1
                 PROVE  Cardinality({s \in inKernel \cup Range(cq \o batch) : Device[s] = d}) <= Depth
      BY DEF XnvmeRoom
    <3>1. cq \o batch \in Seq(Slot)
      BY <2>3
    <3>2. Range(cq \o batch) \subseteq Slot
      BY <3>1, ListFacts
    <3>3. {s \in inKernel \cup Range(cq \o batch) : Device[s] = d} \subseteq Slot
      BY <2>3, <3>2
    <3> QED
      BY <3>3, SlotFinite, FS_Subset
  <2> QED
    BY <2>2, <2>5, <2>6 DEF QueuesSuffice, CannotPush, SubmitRefused, EngineRefuses, batch
<1> QED
  BY <1>1, Inductive, PTL

-----------------------------------------------------------------------------
(* The data.                                                               *)

(* The pages of a block are pages of the file, at consecutive numbers.     *)
LEMMA BlockInFile ==
  ASSUME NEW r \in Request
  PROVE  /\ r.addr \in Nat /\ r.id \in Id
         /\ \E b \in 0 .. Blocks - 1 : r.addr = b * BlockPages
         /\ \A i \in PageNo : r.addr + i \in Page
<1>1. /\ r.id \in Id /\ r.addr \in {b * BlockPages : b \in 0 .. Blocks - 1}
  BY DEF Request
<1>2. PICK b \in 0 .. Blocks - 1 : r.addr = b * BlockPages
  BY <1>1
<1>3. Blocks \in Nat /\ BlockPages \in Nat /\ b \in Nat /\ b + 1 <= Blocks
  BY BlocksAssumption
<1>4. /\ b * BlockPages \in Nat /\ (b + 1) * BlockPages <= Blocks * BlockPages
      /\ (b + 1) * BlockPages = b * BlockPages + BlockPages /\ Blocks * BlockPages \in Nat
  BY <1>3, ProductGrows
<1> DEFINE m == b * BlockPages
           n == Blocks * BlockPages
<1>5. \A i \in 0 .. BlockPages - 1 : m + i \in 0 .. n - 1
  <2>1. m \in Nat /\ n \in Nat /\ m + BlockPages <= n
    BY <1>4
  <2> HIDE DEF m, n
  <2> QED
    BY <1>3, <2>1
<1> QED
  BY <1>1, <1>2, <1>4, <1>5 DEF PageNo, Page

(* Every page of the file has a place.                                     *)
LEMMA PageHasPlace ==
  ASSUME NEW x \in Page
  PROVE  x \in Nat /\ PlaceOf(x) \in Place
<1> DEFINE n == Blocks * BlockPages
           c == x \div ChunkSize
           r == x % ChunkSize
           w == c \div DeviceCnt
<1>1. DeviceCnt \in Nat \ {0} /\ ChunkSize \in Nat \ {0} /\ n \in Nat
  BY RaidAssumption, BlocksAssumption
<1>2. x \in Nat /\ x <= n
  BY <1>1 DEF Page
<1>3. c \in Nat /\ r \in 0 .. ChunkSize - 1 /\ x = c * ChunkSize + r
  BY <1>1, <1>2, Decomposition
<1> HIDE DEF n, c, r
<1>4. w \in Nat /\ w * DeviceCnt <= c /\ c % DeviceCnt \in 0 .. DeviceCnt - 1
  <2>1. c \div DeviceCnt \in Nat /\ (c \div DeviceCnt) * DeviceCnt <= c
    BY <1>1, <1>3, QuotientBounds
  <2>2. c % DeviceCnt \in 0 .. DeviceCnt - 1
    BY <1>1, <1>3, Decomposition
  <2> QED
    BY <2>1, <2>2
<1> HIDE DEF w
<1>5. w <= c
  <2>1. w * 1 <= w * DeviceCnt
    BY <1>1, <1>4
  <2>2. w * DeviceCnt \in Nat
    BY <1>1, <1>4
  <2> QED
    BY <1>3, <1>4, <2>1, <2>2
<1>6. w * ChunkSize \in Nat /\ w * ChunkSize <= c * ChunkSize /\ c * ChunkSize \in Nat
  BY <1>1, <1>3, <1>4, <1>5, ProductGrows
<1>7. w * ChunkSize + r \in 0 .. n + ChunkSize
  <2> DEFINE u == w * ChunkSize
             v == c * ChunkSize
  <2>1. u \in Nat /\ v \in Nat /\ u <= v /\ x = v + r
    BY <1>3, <1>6
  <2> HIDE DEF u, v
  <2>2. u + r \in 0 .. n + ChunkSize
    BY <1>1, <1>2, <1>3, <2>1
  <2> QED
    BY <2>2 DEF u
<1> QED
  BY <1>2, <1>4, <1>7 DEF PlaceOf, DeviceOf, OffsetOf, Place, c, r, w, n

(* The pages of a block are transferred to and from their places.          *)
LEMMA BlockTransfers ==
  ASSUME Aligned, NEW r \in Request, NEW i \in PageNo
  PROVE  /\ TransferPlace(r.addr, i) = PlaceOf(r.addr + i)
         /\ r.addr + i \in Page
<1>1. PICK k \in Nat : ChunkSize = k * BlockPages
  BY DEF Aligned
<1>2. PICK b \in 0 .. Blocks - 1 : r.addr = b * BlockPages
  BY BlockInFile
<1>3. BlockPages \in Nat \ {0} /\ b \in Nat /\ i \in 0 .. BlockPages - 1
  BY BlocksAssumption DEF PageNo
<1>4. TransferPlace(b * BlockPages, i) = PlaceOf(b * BlockPages + i)
  BY <1>1, <1>3, AlignedBlocksTransfer
<1> QED
  BY <1>2, <1>4, BlockInFile

LEMMA InitialData == Init => DataInv
<1> SUFFICES ASSUME Init PROVE DataInv
  OBVIOUS
<1>1. /\ cq = <<>> /\ events = <<>> /\ request = [s \in Slot |-> none]
      /\ buffer = [i \in Id |-> NoData]
      /\ disk = [p \in Place |-> IF \E x \in Page : PlaceOf(x) = p
                                 THEN CHOOSE x \in Page : PlaceOf(x) = p ELSE none]
  BY DEF Init, ChannelInit, EngineInit, AioInit, UringInit
<1>2. ASSUME NEW x \in Page PROVE disk[PlaceOf(x)] = x
  <2>1. x \in Nat /\ PlaceOf(x) \in Place
    BY PageHasPlace
  <2>2. \A y \in Page : PlaceOf(y) = PlaceOf(x) => y = x
    BY <2>1, PageHasPlace, PlacesDistinct
  <2>3. (CHOOSE y \in Page : PlaceOf(y) = PlaceOf(x)) = x
    BY <2>2
  <2> QED
    BY <1>1, <2>1, <2>3
<1>3. Busy = {} /\ Range(cq) = {} /\ Range(events) = {}
  BY <1>1 DEF Busy, Range
<1> QED
  BY <1>1, <1>2, <1>3 DEF DataInv, DataChecksPass

(* The data stay right when no buffer and no page is touched.              *)
LEMMA DataStays ==
  ASSUME DataInv, UNCHANGED <<request, buffer, disk>>,
         Range(cq') \cup Range(events') = Range(cq) \cup Range(events)
  PROVE  DataInv'
BY DEF DataInv, DataChecksPass, Busy, checkBuffer, Stamped

LEMMA FillKeepsData ==
  ASSUME IInv, DataInv, NEW r \in Request, Fill(r)
  PROVE  DataInv'
<1>1. SlotInv /\ IdInv
  BY DEF IInv
<1>2. /\ r.id = Top(avail) /\ avail # <<>>
      /\ buffer' = IF r.type = "write" THEN [buffer EXCEPT ![r.id] = Stamped(r)] ELSE buffer
      /\ FreeToSubmit /\ request' = [request EXCEPT ![Top(freeStack)] = r]
      /\ UNCHANGED <<engineVars, disk>>
  BY DEF Fill, Prepare, Push
<1>3. UNCHANGED <<sq, inKernel, cq, events>>
  BY <1>2 DEF engineVars
<1>4. /\ Top(freeStack) \in Slot /\ Top(freeStack) \notin Busy
      /\ Busy' = Busy \cup {Top(freeStack)}
  BY <1>1, <1>2, <1>3, PushKeepsSlots
<1>5. request'[Top(freeStack)] = r /\ \A s \in Busy : request'[s] = request[s]
  BY <1>1, <1>2, <1>4, BusyFinite DEF SlotInv
<1>6. r.id \in Range(avail)
  BY <1>1, <1>2, PopList DEF IdInv, Top
<1>7. DOMAIN buffer' = Id /\ DOMAIN disk' = Place /\ \A x \in Page : disk'[PlaceOf(x)] = x
  BY <1>2 DEF DataInv
<1>8. \A s \in Busy : buffer'[request'[s].id] = buffer[request[s].id]
  BY <1>1, <1>2, <1>5, <1>6 DEF IdInv
<1>9. \A s \in Busy : checkBuffer(request[s]) => (buffer'[request'[s].id] = Stamped(request'[s]))
  BY <1>5, <1>8 DEF checkBuffer
<1>10. r.type = "write" => buffer'[r.id] = Stamped(r)
  BY <1>2, BlockInFile DEF DataInv
<1>11. \A s \in Busy' : request'[s].type = "write" => buffer'[request'[s].id] = Stamped(request'[s])
  BY <1>4, <1>5, <1>9, <1>10 DEF DataInv
<1>12. \A s \in Range(cq') \cup Range(events') : buffer'[request'[s].id] = Stamped(request'[s])
  BY <1>1, <1>3, <1>9, BusyFinite DEF DataInv, DataChecksPass
<1> QED
  BY <1>7, <1>11, <1>12 DEF DataInv, DataChecksPass, checkBuffer, Stamped

LEMMA ReapKeepsData ==
  ASSUME IInv, DataInv, NEW s \in Slot, Reap(s)
  PROVE  DataInv'
<1>1. SlotInv /\ IdInv /\ ListTypes
  BY DEF IInv, SlotInv
<1>2. /\ ReapNext(s, Device) /\ request' = [request EXCEPT ![s] = none]
      /\ buffer' = [buffer EXCEPT ![request[s].id] = NoData] /\ UNCHANGED disk
  BY DEF Reap, Complete
<1>3. s \in Busy /\ Busy' = Busy \ {s}
  BY ReapStep
<1>4. \A t \in Busy' : t \in Busy /\ request'[t] = request[t]
  BY <1>1, <1>2, <1>3, BusyFinite DEF SlotInv
<1>5. \A t \in Busy' : buffer'[request'[t].id] = buffer[request[t].id]
  BY <1>1, <1>2, <1>3, <1>4 DEF IdInv
<1>6. /\ \A t \in Range(cq') \cup Range(events') : t \in Range(cq) \cup Range(events) /\ t # s
  <2>1. TakenFromEvents(s) \/ TakenFromQueue(s)
    BY <1>1, <1>2, Reaped
  <2>2. Range(cq) \cap Range(events) = {}
    BY <1>1, Disjoint DEF SlotInv
  <2> QED
    BY <2>1, <2>2 DEF TakenFromEvents, TakenFromQueue
<1>7. DOMAIN buffer' = Id /\ DOMAIN disk' = Place /\ \A x \in Page : disk'[PlaceOf(x)] = x
  BY <1>2 DEF DataInv
<1>8. \A t \in Busy' : request'[t].type = "write" => buffer'[request'[t].id] = Stamped(request'[t])
  BY <1>4, <1>5 DEF DataInv, checkBuffer
<1>9. \A t \in Range(cq') \cup Range(events') : buffer'[request'[t].id] = Stamped(request'[t])
  <2>1. \A t \in Range(cq') \cup Range(events') : t \in Busy' /\ checkBuffer(request[t])
    BY <1>1, <1>3, <1>6, BusyFinite DEF DataInv, DataChecksPass
  <2> QED
    BY <1>4, <1>5, <2>1 DEF checkBuffer
<1> QED
  BY <1>7, <1>8, <1>9 DEF DataInv, DataChecksPass, checkBuffer, Stamped

(* A write puts the pages of its block at their places.                    *)
LEMMA WriteKeepsPages ==
  ASSUME Aligned, DataInv, NEW r \in Request, checkBuffer(r), disk' = Written(r)
  PROVE  DOMAIN disk' = Place /\ \A x \in Page : disk'[PlaceOf(x)] = x
<1>1. DOMAIN disk' = Place
  BY DEF Written
<1>2. ASSUME NEW x \in Page PROVE disk'[PlaceOf(x)] = x
  <2> DEFINE p == PlaceOf(x)
             i == p[2] - OffsetOf(r.addr)
  <2>1. p \in Place /\ x \in Nat /\ p = <<DeviceOf(x), OffsetOf(x)>>
    BY PageHasPlace DEF PlaceOf
  <2>2. OffsetOf(r.addr) \in Int /\ p[2] \in Int
    <3>1. r.addr + 0 \in Page /\ r.addr \in Nat
      BY BlockInFile, BlocksAssumption DEF PageNo
    <3>2. PlaceOf(r.addr) \in Place
      BY <3>1, PageHasPlace
    <3>3. RaidAssumption!1 /\ Blocks * BlockPages + ChunkSize \in Int
      BY RaidAssumption, BlocksAssumption
    <3> QED
      BY <2>1, <3>2, <3>3 DEF Place, PlaceOf
  <2>3. CASE p[1] = DeviceOf(r.addr) /\ i \in PageNo
    <3>1. disk'[p] = buffer[r.id][i]
      BY <2>1, <2>3 DEF Written
    <3>2. disk'[p] = r.addr + i
      BY <2>3, <3>1 DEF checkBuffer, Stamped
    <3>3. TransferPlace(r.addr, i) = p
      BY <2>1, <2>2, <2>3 DEF TransferPlace
    <3>4. PlaceOf(r.addr + i) = PlaceOf(x) /\ r.addr + i \in Page
      BY <2>3, <3>3, BlockTransfers
    <3>5. r.addr + i = x
      BY <2>1, <3>4, PageHasPlace, PlacesDistinct
    <3> QED
      BY <3>2, <3>5
  <2>4. CASE ~ (p[1] = DeviceOf(r.addr) /\ i \in PageNo)
    <3>1. disk'[p] = disk[p]
      BY <2>1, <2>4 DEF Written
    <3> QED
      BY <3>1 DEF DataInv
  <2> QED
    BY <2>3, <2>4
<1> QED
  BY <1>1, <1>2

LEMMA TransferKeepsData ==
  ASSUME Aligned, IInv, DataInv, NEW s \in Slot, Transfers(s)
  PROVE  DataInv'
<1> DEFINE r == request[s]
<1>1. SlotInv /\ IdInv
  BY DEF IInv
<1>2. /\ KernelCompletes(s) /\ UNCHANGED <<stackVars, request, events>>
      /\ r.type = "write" => disk' = Written(r) /\ UNCHANGED buffer
      /\ r.type # "write" =>
           /\ buffer' = [buffer EXCEPT ![r.id] = [i \in PageNo |-> disk[TransferPlace(r.addr, i)]]]
           /\ UNCHANGED disk
  BY DEF Transfers, DeviceCompletes, KernelCompletes
<1>3. s \in Busy /\ Busy' = Busy /\ Range(cq') = Range(cq) \cup {s}
  BY <1>1, <1>2, CompletionKeepsSlots
<1>4. r \in Request /\ r.id \in Id
  BY <1>1, <1>3, BusyFinite, BlockInFile
<1>5. CASE r.type = "write"
  <2>1. checkBuffer(r)
    BY <1>3, <1>5 DEF DataInv
  <2>2. DOMAIN disk' = Place /\ \A x \in Page : disk'[PlaceOf(x)] = x
    BY <1>2, <1>4, <1>5, <2>1, WriteKeepsPages
  <2>3. UNCHANGED <<buffer, request, events>>
    BY <1>2, <1>5
  <2> QED
    BY <1>3, <2>1, <2>2, <2>3 DEF DataInv, DataChecksPass, checkBuffer, Stamped
<1>6. CASE r.type # "write"
  <2>1. /\ buffer' = [buffer EXCEPT ![r.id] = [i \in PageNo |-> disk[TransferPlace(r.addr, i)]]]
        /\ UNCHANGED <<disk, request, events>>
    BY <1>2, <1>6
  <2>2. \A i \in PageNo : disk[TransferPlace(r.addr, i)] = r.addr + i
    BY <1>4, BlockTransfers DEF DataInv
  <2>3. buffer'[r.id] = Stamped(r) /\ DOMAIN buffer' = Id
    <3>1. buffer'[r.id] = [i \in PageNo |-> disk[TransferPlace(r.addr, i)]] /\ DOMAIN buffer' = Id
      BY <1>4, <2>1 DEF DataInv
    <3> QED
      BY <2>2, <3>1 DEF Stamped
  <2>4. \A t \in Busy : t # s => buffer'[request[t].id] = buffer[request[t].id]
    BY <1>1, <1>3, <2>1 DEF IdInv
  <2>5. \A t \in Busy' : request'[t].type = "write" => buffer'[request'[t].id] = Stamped(request'[t])
    BY <1>3, <1>6, <2>1, <2>4 DEF DataInv, checkBuffer
  <2>6. ASSUME NEW t \in Range(cq') \cup Range(events')
        PROVE  buffer'[request'[t].id] = Stamped(request'[t])
    <3>1. CASE t = s
      BY <2>1, <2>3, <3>1
    <3>2. CASE t # s
      <4>1. t \in Range(cq) \cup Range(events)
        BY <1>3, <2>1, <3>2
      <4>2. t \in Busy /\ checkBuffer(request[t])
        BY <1>1, <4>1, BusyFinite DEF DataInv, DataChecksPass
      <4> QED
        BY <2>1, <2>4, <3>2, <4>2 DEF checkBuffer
    <3> QED
      BY <3>1, <3>2
  <2>7. DOMAIN disk' = Place /\ \A x \in Page : disk'[PlaceOf(x)] = x
    BY <2>1 DEF DataInv
  <2> QED
    BY <2>3, <2>5, <2>6, <2>7 DEF DataInv, DataChecksPass, checkBuffer, Stamped
<1> QED
  BY <1>5, <1>6

LEMMA DataStep ==
  ASSUME Aligned, IInv, DataInv, [Next]_vars
  PROVE  DataInv'
<1>1. CASE UNCHANGED <<request, buffer, disk, cq, events>>
  BY <1>1, DataStays
<1>2. CASE UNCHANGED vars
  BY <1>1, <1>2 DEF vars, channelVars, engineVars
<1>3. CASE LoopHead \/ Break \/ Done \/ StopIo
  BY <1>1, <1>3 DEF LoopHead, Break, Done, StopIo, channelVars, engineVars
<1>4. CASE \E r \in Request : Fill(r)
  BY <1>4, FillKeepsData
<1>5. CASE EndFill \/ Drain
  <2>1. SlotInv
    BY DEF IInv
  <2>2. /\ SubmitToOutstanding /\ EngineSubmit(PopOrder(submitStack), Device)
        /\ UNCHANGED <<request, buffer, disk>>
    BY <1>5 DEF EndFill, Drain, SubmitAndPoll
  <2>3. UNCHANGED <<cq, events>>
    BY <2>1, <2>2, SubmitKeepsSlots
  <2> QED
    BY <1>1, <2>2, <2>3
<1>6. CASE \E s \in Slot : Reap(s)
  BY <1>6, ReapKeepsData
<1>7. CASE PollEngine
  <2>1. UNCHANGED <<stackVars, channelVars>> /\ (FetchEvents \/ EnterKernel \/ NextDevice(Device))
    BY <1>7 DEF PollEngine
  <2>2. CASE FetchEvents
    <3>1. Range(cq') \cup Range(events') = Range(cq) \cup Range(events)
      BY <2>1, <2>2, FetchKeepsSlots DEF IInv
    <3> QED
      BY <2>1, <3>1, DataStays DEF channelVars
  <2>3. CASE EnterKernel \/ NextDevice(Device)
    BY <1>1, <2>1, <2>3 DEF EnterKernel, NextDevice, channelVars
  <2> QED
    BY <2>1, <2>2, <2>3
<1>8. CASE EndPoll
  BY <1>1, <1>8 DEF EndPoll, PollReturns
<1>9. CASE \E s \in Slot : Transfers(s)
  BY <1>9, TransferKeepsData
<1> QED
  BY <1>2, <1>3, <1>4, <1>5, <1>6, <1>7, <1>8, <1>9 DEF Next, Generator

(* When a block lies in one chunk, checkBuffer never fails: a read returns *)
(* the pages of its own offset, in whatever order requests to the same and *)
(* to other blocks complete.  (iob_unaligned shows that the hypothesis is  *)
(* needed: the code accepts block sizes that do not divide the chunk.)     *)
THEOREM ReadsReturnTheirPages == Aligned /\ Spec => []DataChecksPass
<1>1. Init => IInv /\ DataInv
  BY InitialState, InitialData
<1>2. Aligned /\ IInv /\ DataInv /\ [Next]_vars => IInv' /\ DataInv'
  BY StepPreserves, DataStep
<1>3. DataInv => DataChecksPass
  BY DEF DataInv
<1>4. Aligned => Aligned'
  BY DEF Aligned
<1> QED
  BY <1>1, <1>2, <1>3, <1>4, PTL DEF Spec

-----------------------------------------------------------------------------
(* The generator and its channel implement asynchronous I/O.               *)

(* What is in flight: the requests in busy objects, under their ids.       *)
InFlightIs(f) ==
  /\ f = [i \in Id |-> f[i]]
  /\ \A s \in Busy : f[request[s].id] = request[s]
  /\ \A i \in Id : (\A s \in Busy : request[s].id # i) => f[i] = none

LEMMA InFlightAre == IInv => InFlightIs(InFlight)
<1> SUFFICES ASSUME IInv PROVE InFlightIs(InFlight)
  OBVIOUS
<1>1. SlotInv /\ IdInv
  BY DEF IInv
<1>2. InFlight = [i \in Id |-> InFlight[i]]
  BY DEF InFlight
<1>3. ASSUME NEW s \in Busy PROVE InFlight[request[s].id] = request[s]
  <2> DEFINE i == request[s].id
             t == CHOOSE u \in Busy : request[u].id = i
  <2>1. request[s].id \in Id
    BY <1>1, BusyFinite, BlockInFile
  <2>2. \E u \in Busy : request[u].id = i
    OBVIOUS
  <2>3. t \in Busy /\ request[t].id = i
    BY <2>2
  <2>4. t = s
    BY <1>1, <2>3 DEF IdInv
  <2>5. InFlight[i] = request[t]
    BY <2>1, <2>2 DEF InFlight
  <2> QED
    BY <2>4, <2>5
<1>4. ASSUME NEW i \in Id, \A s \in Busy : request[s].id # i PROVE InFlight[i] = none
  BY <1>4 DEF InFlight
<1> QED
  BY <1>2, <1>3, <1>4 DEF InFlightIs

LEMMA FillIssues ==
  ASSUME IInv, NEW r \in Request, Fill(r)
  PROVE  Async!Issue(r)
<1>1. SlotInv /\ IdInv /\ IInv'
  BY FillStep DEF IInv
<1>2. /\ r.id = Top(avail) /\ avail # <<>>
      /\ FreeToSubmit /\ request' = [request EXCEPT ![Top(freeStack)] = r]
      /\ UNCHANGED engineVars
  BY DEF Fill, Prepare, Push
<1>3. UNCHANGED <<sq, inKernel, cq, events>>
  BY <1>2 DEF engineVars
<1>4. /\ Top(freeStack) \in Slot /\ Top(freeStack) \notin Busy
      /\ Busy' = Busy \cup {Top(freeStack)}
  BY <1>1, <1>2, <1>3, PushKeepsSlots
<1>5. request'[Top(freeStack)] = r /\ \A s \in Busy : request'[s] = request[s]
  BY <1>1, <1>2, <1>4, BusyFinite DEF SlotInv
<1>6. r.id \in Id /\ \A s \in Busy : request[s].id # r.id
  <2>1. r.id \in Range(avail)
    BY <1>1, <1>2, PopList DEF IdInv, Top
  <2> QED
    BY <1>1, <2>1, BlockInFile DEF IdInv
<1> DEFINE f == InFlight
           g == InFlight'
<1>7. /\ f = [i \in Id |-> f[i]]
      /\ \A s \in Busy : f[request[s].id] = request[s]
      /\ \A i \in Id : (\A s \in Busy : request[s].id # i) => f[i] = none
  BY InFlightAre DEF InFlightIs
<1>8. /\ g = [i \in Id |-> g[i]]
      /\ \A s \in Busy' : g[request'[s].id] = request'[s]
      /\ \A i \in Id : (\A s \in Busy' : request'[s].id # i) => g[i] = none
  <2>1. InFlightIs(InFlight)'
    BY <1>1, InFlightAre, PTL
  <2> QED
    BY <2>1 DEF InFlightIs
<1> HIDE DEF f, g
<1>9. f[r.id] = none
  BY <1>6, <1>7
<1>10. g[r.id] = r
  BY <1>4, <1>5, <1>8
<1>11. ASSUME NEW i \in Id, i # r.id PROVE g[i] = f[i]
  <2>1. CASE \E s \in Busy : request[s].id = i
    <3>1. PICK s \in Busy : request[s].id = i
      BY <2>1
    <3>2. s \in Busy' /\ request'[s] = request[s]
      BY <1>4, <1>5, <3>1
    <3>3. f[i] = request[s] /\ g[i] = request[s]
      BY <1>7, <1>8, <3>1, <3>2
    <3> QED
      BY <3>3
  <2>2. CASE \A s \in Busy : request[s].id # i
    <3>1. \A s \in Busy' : request'[s].id # i
      BY <1>4, <1>5, <1>11, <2>2
    <3> QED
      BY <1>7, <1>8, <2>2, <3>1
  <2> QED
    BY <2>1, <2>2
<1>12. g = [f EXCEPT ![r.id] = r]
  BY <1>6, <1>7, <1>8, <1>10, <1>11
<1> QED
  BY <1>9, <1>12 DEF Async!Issue, f, g

LEMMA ReapCompletes ==
  ASSUME IInv, NEW s \in Slot, Reap(s)
  PROVE  \E i \in Id : Async!Complete(i)
<1> DEFINE i == request[s].id
<1>1. SlotInv /\ IdInv /\ IInv' /\ s \in Busy /\ Busy' = Busy \ {s}
  BY ReapStep DEF IInv
<1>2. request' = [request EXCEPT ![s] = none]
  BY DEF Reap, Complete
<1>3. \A t \in Busy' : t \in Busy /\ request'[t] = request[t]
  BY <1>1, <1>2, BusyFinite DEF SlotInv
<1>4. request[s] \in Request /\ i \in Id /\ \A t \in Busy : request[t].id = i => t = s
  BY <1>1, BusyFinite, BlockInFile DEF IdInv
<1> DEFINE f == InFlight
           g == InFlight'
<1>5. /\ f = [j \in Id |-> f[j]]
      /\ \A t \in Busy : f[request[t].id] = request[t]
      /\ \A j \in Id : (\A t \in Busy : request[t].id # j) => f[j] = none
  BY InFlightAre DEF InFlightIs
<1>6. /\ g = [j \in Id |-> g[j]]
      /\ \A t \in Busy' : g[request'[t].id] = request'[t]
      /\ \A j \in Id : (\A t \in Busy' : request'[t].id # j) => g[j] = none
  <2>1. InFlightIs(InFlight)'
    BY <1>1, InFlightAre, PTL
  <2> QED
    BY <2>1 DEF InFlightIs
<1> HIDE DEF f, g
<1>7. f[i] # none
  BY <1>1, <1>4, <1>5, NoneAssumption
<1>8. g[i] = none
  <2>1. \A t \in Busy' : request'[t].id # i
    BY <1>1, <1>3, <1>4
  <2> QED
    BY <1>4, <1>6, <2>1
<1>9. ASSUME NEW j \in Id, j # i PROVE g[j] = f[j]
  <2>1. CASE \E t \in Busy : request[t].id = j
    <3>1. PICK t \in Busy : request[t].id = j
      BY <2>1
    <3>2. t \in Busy'
      BY <1>1, <1>9, <3>1
    <3>3. f[j] = request[t]
      BY <1>5, <3>1
    <3>4. request'[t] = request[t] /\ request'[t].id = j
      BY <1>3, <3>1, <3>2
    <3>5. g[j] = request'[t]
      BY <1>6, <3>2, <3>4
    <3> QED
      BY <3>3, <3>4, <3>5
  <2>2. CASE \A t \in Busy : request[t].id # j
    <3>1. \A t \in Busy' : request'[t].id # j
      BY <1>3, <2>2
    <3> QED
      BY <1>5, <1>6, <2>2, <3>1
  <2> QED
    BY <2>1, <2>2
<1>10. g = [f EXCEPT ![i] = none]
  BY <1>4, <1>5, <1>6, <1>8, <1>9
<1>11. Async!Complete(i)
  BY <1>7, <1>10 DEF Async!Complete, f, g
<1> QED
  BY <1>4, <1>11

(* Every other step leaves the requests alone.                             *)
LEMMA OtherSteps ==
  ASSUME [Next]_vars
  PROVE  \/ \E r \in Request : Fill(r)
         \/ \E s \in Slot : Reap(s)
         \/ UNCHANGED request
<1>1. LoopHead \/ Break \/ Done \/ StopIo \/ PollEngine \/ UNCHANGED vars => UNCHANGED request
  BY DEF LoopHead, Break, Done, StopIo, PollEngine, vars, channelVars
<1>2. EndFill \/ Drain \/ EndPoll => UNCHANGED request
  BY DEF EndFill, Drain, EndPoll, SubmitAndPoll, PollReturns
<1>3. (\E s \in Slot : Transfers(s)) => UNCHANGED request
  BY DEF Transfers, DeviceCompletes
<1> QED
  BY <1>1, <1>2, <1>3 DEF Next, Generator

(* A request is issued once under an id that is free, stays as it was      *)
(* issued, and completes once, whichever engine carries it and however     *)
(* the loops of submit and poll interleave with the devices.               *)
THEOREM Channel == Spec => Async!Spec
<1>1. Init => Async!Init
  <2> SUFFICES ASSUME Init PROVE Async!Init
    OBVIOUS
  <2>1. Busy = {}
    BY DEF Init, ChannelInit, Busy
  <2> QED
    BY <2>1 DEF Async!Init, InFlight
<1>2. IInv /\ [Next]_vars => [Async!Next]_InFlight
  <2> SUFFICES ASSUME IInv, [Next]_vars PROVE [Async!Next]_InFlight
    OBVIOUS
  <2>1. CASE \E r \in Request : Fill(r)
    BY <2>1, FillIssues DEF Async!Next
  <2>2. CASE \E s \in Slot : Reap(s)
    BY <2>2, ReapCompletes DEF Async!Next
  <2>3. CASE UNCHANGED request
    BY <2>3 DEF InFlight, Busy
  <2> QED
    BY <2>1, <2>2, <2>3, OtherSteps
<1> QED
  BY <1>1, <1>2, Inductive, PTL DEF Spec, Async!Spec

-----------------------------------------------------------------------------
(* The generator lives as it promises.                                     *)

LEMMA FinishedIs ==
  ASSUME IInv
  PROVE  /\ submitted \in Nat /\ Cardinality(Busy) \in Nat /\ polled \in Nat /\ got \in Nat
         /\ completed \in Nat
         /\ submitted - Cardinality(Busy) = polled + got
         /\ ~ Polling => got = 0
<1>1. Cardinality(Busy) \in Nat
  BY BusyFinite DEF IInv
<1>2. /\ submitted \in Nat /\ polled \in Nat /\ got \in Nat /\ completed \in Nat
      /\ submitted - polled = Cardinality(Busy) + got
      /\ ~ Polling => got = 0
  BY DEF IInv, CountInv
<1> DEFINE n == Cardinality(Busy)
<1>3. n \in Nat /\ submitted - polled = n + got
  BY <1>1, <1>2
<1> HIDE DEF n
<1>4. submitted - n = polled + got
  BY <1>2, <1>3
<1> QED
  BY <1>1, <1>2, <1>4 DEF n

LEMMA FillIsIssue ==
  ASSUME IInv, NEW r \in Request, Fill(r)
  PROVE  Life!Issue
<1>1. SlotInv /\ IdInv /\ LoopInv
  BY DEF IInv
<1>2. /\ pc = "fill" /\ More /\ avail # <<>> /\ submitted' = submitted + 1
      /\ FreeToSubmit /\ request' = [request EXCEPT ![Top(freeStack)] = r]
      /\ UNCHANGED <<engineVars, pc, keepRunning>>
  BY DEF Fill, Push
<1>3. UNCHANGED <<sq, inKernel, cq, events>>
  BY <1>2 DEF engineVars
<1>4. Top(freeStack) \notin Busy /\ Busy' = Busy \cup {Top(freeStack)}
  BY <1>1, <1>2, <1>3, PushKeepsSlots
<1>5. /\ IsFiniteSet(Busy) /\ Cardinality(Busy) \in Nat
      /\ Cardinality(Busy') = Cardinality(Busy) + 1
  BY <1>1, <1>4, BusyFinite, FS_AddElement
<1>6. submitted - Cardinality(Busy) = completed /\ submitted \in Nat /\ completed \in Nat
  BY <1>1, <1>2, FinishedIs DEF LoopInv, Polling
<1>7. submitted - (submitted - Cardinality(Busy)) < Depth
  <2>1. Len(avail) \in Nat /\ Len(avail) # 0 /\ Len(avail) + Cardinality(Busy) = Depth
    BY <1>1, <1>2, ListFacts DEF IdInv
  <2> QED
    BY <1>5, <1>6, <2>1, DepthAssumption
<1>8. ~ Life!Enough
  BY <1>2, <1>6, OpsAssumption DEF Life!Enough, More
<1>9. submitted' - Cardinality(Busy') = submitted - Cardinality(Busy)
  BY <1>2, <1>5, <1>6
<1>10. (pc' = "done") = (pc = "done") /\ (~ keepRunning') = (~ keepRunning) /\ pc # "done"
  BY <1>2
<1> QED
  BY <1>2, <1>7, <1>8, <1>9, <1>10 DEF Life!Issue

LEMMA ReapIsFinish ==
  ASSUME IInv, NEW s \in Slot, Reap(s)
  PROVE  Life!Finish
<1>1. s \in Busy /\ Busy' = Busy \ {s} /\ SlotInv
  BY ReapStep DEF IInv
<1>2. UNCHANGED <<submitted, pc, keepRunning>>
  BY DEF Reap
<1>3. /\ Cardinality(Busy') = Cardinality(Busy) - 1 /\ Cardinality(Busy) \in Nat
      /\ Cardinality(Busy') \in Nat
  <2>1. IsFiniteSet(Busy) /\ IsFiniteSet(Busy')
    BY <1>1, BusyFinite, FS_Subset
  <2> QED
    BY <1>1, <2>1, FS_RemoveElement, FS_CardinalityType
<1>4. submitted \in Nat
  BY FinishedIs
<1>5. submitted' - Cardinality(Busy') \in (submitted - Cardinality(Busy)) + 1 .. submitted
  BY <1>2, <1>3, <1>4
<1>6. (pc' = "done") = (pc = "done") /\ (~ keepRunning') = (~ keepRunning)
  BY <1>2
<1> QED
  BY <1>2, <1>5, <1>6 DEF Life!Finish

LEMMA DoneIsReturn ==
  ASSUME IInv, Done
  PROVE  Life!Return
<1>1. SlotInv /\ LoopInv
  BY DEF IInv
<1>2. /\ pc = "drain" /\ pc' = "done" /\ polled >= submitted
      /\ UNCHANGED <<request, submitted, keepRunning>>
  BY DEF Done, channelVars
<1>3. Busy' = Busy
  BY <1>2 DEF Busy
<1>4. /\ submitted - Cardinality(Busy) = polled /\ Cardinality(Busy) \in Nat
      /\ submitted \in Nat /\ polled \in Nat /\ completed \in Nat
  BY <1>2, FinishedIs DEF Polling
<1>5. submitted - Cardinality(Busy) = submitted
  BY <1>2, <1>4
<1>6. Life!Enough
  BY <1>1, <1>2, <1>4, OpsAssumption DEF Life!Enough, LoopInv
<1>7. (~ keepRunning') = (~ keepRunning) /\ (pc' = "done") = TRUE
  BY <1>2
<1> QED
  BY <1>2, <1>3, <1>5, <1>6, <1>7 DEF Life!Return

(* The other steps neither issue nor finish a request, and do not return.  *)
LEMMA LifeStutters ==
  ASSUME IInv, \/ UNCHANGED vars \/ LoopHead \/ Break \/ EndFill \/ Drain \/ PollEngine
               \/ EndPoll \/ \E s \in Slot : Transfers(s)
  PROVE  UNCHANGED Life!vars
<1>1. UNCHANGED <<request, submitted, keepRunning>>
  <2>1. CASE UNCHANGED vars
    BY <2>1 DEF vars, channelVars, loopVars
  <2>2. CASE LoopHead \/ Break \/ PollEngine
    BY <2>2 DEF LoopHead, Break, PollEngine, channelVars, loopVars
  <2>3. CASE EndFill \/ Drain \/ EndPoll
    BY <2>3 DEF EndFill, Drain, EndPoll, SubmitAndPoll, PollReturns
  <2>4. CASE \E s \in Slot : Transfers(s)
    BY <2>4 DEF Transfers, DeviceCompletes, loopVars
  <2> QED
    BY <2>1, <2>2, <2>3, <2>4
<1>2. (pc' = "done") = (pc = "done")
  <2>1. CASE UNCHANGED vars \/ PollEngine \/ \E s \in Slot : Transfers(s)
    BY <2>1 DEF vars, loopVars, PollEngine, Transfers
  <2>2. CASE LoopHead \/ Break
    BY <2>2 DEF LoopHead, Break
  <2>3. CASE EndFill \/ Drain
    BY <2>3 DEF EndFill, Drain
  <2>4. CASE EndPoll
    BY <2>4 DEF EndPoll, Polling
  <2> QED
    BY <2>1, <2>2, <2>3, <2>4
<1>3. Busy' = Busy
  BY <1>1 DEF Busy
<1> QED
  BY <1>1, <1>2, <1>3 DEF Life!vars

LEMMA LifeStep == IInv /\ [Next]_vars => [Life!Next]_(Life!vars)
<1> SUFFICES ASSUME IInv, [Next]_vars PROVE [Life!Next]_(Life!vars)
  OBVIOUS
<1>1. CASE \E r \in Request : Fill(r)
  BY <1>1, FillIsIssue DEF Life!Next
<1>2. CASE \E s \in Slot : Reap(s)
  BY <1>2, ReapIsFinish DEF Life!Next
<1>3. CASE Done
  BY <1>3, DoneIsReturn DEF Life!Next
<1>4. CASE StopIo
  <2>1. keepRunning' = FALSE /\ UNCHANGED <<request, submitted, pc>>
    BY <1>4 DEF StopIo, channelVars
  <2>2. Busy' = Busy /\ (~ keepRunning') = TRUE /\ (pc' = "done") = (pc = "done")
    BY <2>1 DEF Busy
  <2> QED
    BY <2>1, <2>2 DEF Life!Stop, Life!Next
<1>5. CASE \/ UNCHANGED vars \/ LoopHead \/ Break \/ EndFill \/ Drain \/ PollEngine
           \/ EndPoll \/ \E s \in Slot : Transfers(s)
  BY <1>5, LifeStutters
<1> QED
  BY <1>1, <1>2, <1>3, <1>4, <1>5 DEF Next, Generator

(* runIo issues no request after enough have finished or it was told to    *)
(* stop, has at most Depth in flight, and returns when all have finished.  *)
THEOREM Lifetime == Spec => ImplementsGeneratorLife
<1>1. Init => Life!Init
  <2> SUFFICES ASSUME Init PROVE Life!Init
    OBVIOUS
  <2>1. submitted = 0 /\ keepRunning = TRUE /\ pc = "head"
    BY DEF Init, GeneratorInit
  <2>2. Busy = {}
    BY DEF Init, ChannelInit, Busy
  <2>3. submitted - Cardinality(Busy) = 0
    BY <2>1, <2>2, FS_EmptySet
  <2>4. (~ keepRunning) = FALSE /\ (pc = "done") = FALSE
    BY <2>1
  <2> QED
    BY <2>1, <2>3, <2>4, OpsAssumption, DepthAssumption DEF Life!Init
<1> QED
  BY <1>1, LifeStep, Inductive, PTL DEF Spec, ImplementsGeneratorLife, Life!Spec

(* Fewer than a queue of requests more than asked for are ever submitted:  *)
(* the loop of runIo compares with what has completed, and what is not     *)
(* completed fits into the queue.                                          *)
THEOREM AtMostAQueueMore == Spec => []Life!OvershootBounded
<1> DEFINE Bound == Ops > 0 => submitted < Ops + Depth
<1>1. Init => Bound
  BY OpsAssumption, DepthAssumption DEF Init, GeneratorInit
<1>2. IInv /\ Bound /\ [Next]_vars => Bound'
  <2> SUFFICES ASSUME IInv, Bound, [Next]_vars PROVE Bound'
    OBVIOUS
  <2>1. CASE Life!Issue
    <3>1. /\ Ops > 0 => submitted - Cardinality(Busy) < Ops
          /\ submitted - (submitted - Cardinality(Busy)) < Depth
          /\ submitted' = submitted + 1
      <4>1. submitted \in Nat /\ Cardinality(Busy) \in Nat
        BY FinishedIs
      <4> QED
        BY <2>1, <4>1, OpsAssumption DEF Life!Issue, Life!Enough
    <3>2. submitted \in Nat /\ Cardinality(Busy) \in Nat
      BY FinishedIs
    <3> QED
      BY ONLY <3>1, <3>2, OpsAssumption, DepthAssumption
  <2>2. CASE UNCHANGED Life!vars
    BY <2>2 DEF Life!vars
  <2>3. CASE Life!Finish \/ Life!Stop \/ Life!Return
    BY <2>3 DEF Life!Finish, Life!Stop, Life!Return
  <2> QED
    BY <2>1, <2>2, <2>3, LifeStep DEF Life!Next
<1>3. Bound => Life!OvershootBounded
  BY DEF Life!OvershootBounded
<1> QED
  BY <1>1, <1>2, <1>3, Inductive, PTL DEF Spec

(* When runIo has returned no object holds a request: nothing refers to    *)
(* the buffers any more, and the counters are final.                       *)
THEOREM ReturnsWithNothingInFlight == Spec => [](pc = "done" => Busy = {})
<1>1. IInv => (pc = "done" => Busy = {})
  BY DEF IInv, LoopInv
<1> QED
  BY <1>1, Inductive, PTL
=============================================================================
