--------------------------- MODULE TwoRFifo_proofs ---------------------------
(***************************************************************************)
(* Proofs about 2R with FIFO victims, for every size of the device: the    *)
(* free list and the list that is scanned partition the blocks, the scan's *)
(* iterator survives every removal, the cascade is never started without   *)
(* enough victims, and the device behaves like FlashMap.                   *)
(***************************************************************************)
EXTENDS TwoRFifo, TwoR_proofs

FreeSet   == Range(freeBlocks)
FifoSet   == Range(fifoList)
VictimSet == Range(victimIds)
Waiting   == FreeSet \cup FifoSet

(* No list names a block twice, a victim keeps its place in the list until *)
(* it is handed out.                                                       *)
Apart ==
  /\ fifoList \in Seq(Block) /\ IsInjective(freeBlocks) /\ IsInjective(fifoList)
  /\ FreeSet \cap FifoSet = {}
  /\ VictimSet \subseteq FifoSet

(* Between calls the current block is in no list; a call that collects has *)
(* already put it into the list.                                           *)
Covered ==
  IF phase = "idle" THEN currentBlock \notin Waiting /\ Waiting \cup {currentBlock} = Block
                    ELSE Waiting = Block

(* The scan has not come further than the blocks it counted: so it starts  *)
(* over long before it reaches the end, and only a removal takes it there. *)
ScanInv ==
  /\ curScan \in 0 .. Len(fifoList)
  /\ stepsSinceReset \in 0 .. BlockCount
  /\ util \in Utilization
  /\ curScan # End => curScan <= stepsSinceReset + 1
  /\ phase = "select" => curScan # End
  /\ phase \in {"gc", "select"} => freeBlocks = <<>>
  /\ phase # "failed"

FullInv == \A b \in FifoSet \ VictimSet : fullyWritten(b)

IInv == LoopInv /\ Apart /\ Covered /\ ScanInv /\ FullInv
-----------------------------------------------------------------------------
(* The entry that is erased is the one the victim had in the list: the one *)
(* that was appended for a refilled victim comes after it.                 *)
LEMMA FirstEntryIs ==
  ASSUME NEW q \in Seq(Block), NEW v, NEW i \in 1 .. Len(q), q[i] = v,
         \A j \in 1 .. i - 1 : q[j] # v
  PROVE  FirstEntry(q, v) = i
<1>1. DOMAIN q = 1 .. Len(q) /\ Len(q) \in Nat
  OBVIOUS
<1>2. \A k \in DOMAIN q : q[k] = v /\ (\A j \in 1 .. k - 1 : q[j] # v) => k = i
  BY <1>1
<1> QED
  BY <1>1, <1>2 DEF FirstEntry

LEMMA ErasedFacts ==
  ASSUME fifoList \in Seq(Block), IsInjective(fifoList), NEW v \in FifoSet
  PROVE  LET n == Len(fifoList)
             e == Erased(v)
         IN  \E i \in 1 .. n :
               /\ n \in Nat /\ fifoList[i] = v /\ FirstEntry(Refilled(v), v) = i
               /\ Len(Refilled(v)) = IF canWrite(v) THEN n ELSE n + 1
               /\ e \in Seq(Block) /\ IsInjective(e)
               /\ Len(e) = IF canWrite(v) THEN n - 1 ELSE n
               /\ \A j \in 1 .. n - 1 : e[j] = IF j < i THEN fifoList[j] ELSE fifoList[j + 1]
               /\ Range(e) = IF canWrite(v) THEN FifoSet \ {v} ELSE FifoSet
<1> DEFINE n == Len(fifoList)
           e == Erased(v)
           r == Refilled(v)
<1>1. /\ n \in Nat
      /\ \A i \in 1 .. n : fifoList[i] \in Block /\ fifoList[i] \in FifoSet
      /\ \A x \in FifoSet : \E i \in 1 .. n : x = fifoList[i]
      /\ v \in Block
  BY ListFacts DEF FifoSet
<1>2. \A i, j \in 1 .. n : fifoList[i] = fifoList[j] => i = j
  BY ListIsInjective
<1>3. PICK i \in 1 .. n : v = fifoList[i]
  BY <1>1
<1>4. /\ r \in Seq(Block) /\ Len(r) = IF canWrite(v) THEN n ELSE n + 1
      /\ \A j \in 1 .. n : r[j] = fifoList[j]
      /\ ~canWrite(v) => r[n + 1] = v
  BY <1>1 DEF Refilled
<1>5. i \in 1 .. Len(r) /\ r[i] = v /\ \A j \in 1 .. i - 1 : r[j] # v
  <2>1. \A j \in 1 .. i - 1 : j \in 1 .. n /\ j # i
    BY <1>1
  <2> QED
    BY <1>1, <1>2, <1>3, <1>4, <2>1
<1> HIDE DEF n, r
<1>6. FirstEntry(r, v) = i
  BY <1>4, <1>5, FirstEntryIs
<1>7. e = SubSeq(r, 1, i - 1) \o SubSeq(r, i + 1, Len(r))
  BY <1>6 DEF Erased, RemoveAt, r
<1>8. e \in Seq(Block) /\ Len(e) = Len(r) - 1
      /\ \A j \in 1 .. Len(r) - 1 : e[j] = IF j < i THEN r[j] ELSE r[j + 1]
  <2> HIDE DEF e
  <2>1. r \in Seq(Block) /\ i \in 1 .. Len(r)
    BY <1>4, <1>5
  <2>2. LET p == SubSeq(r, 1, i - 1) \o SubSeq(r, i + 1, Len(r))
        IN  /\ p \in Seq(Block) /\ Len(p) = Len(r) - 1
            /\ \A j \in 1 .. Len(r) - 1 : p[j] = IF j < i THEN r[j] ELSE r[j + 1]
    BY <2>1, RemovedEntries
  <2> QED
    BY <1>7, <2>2
<1> HIDE DEF e
<1>9. \A j \in 1 .. n - 1 : e[j] = IF j < i THEN fifoList[j] ELSE fifoList[j + 1]
  BY <1>1, <1>4, <1>8, SMTT(30)
<1>10. CASE canWrite(v)
  <2>1. r = fifoList
    BY <1>10 DEF Refilled, r
  <2>2. IsInjective(e) /\ Range(e) = FifoSet \ {v}
    BY <1>3, <1>5, <1>7, <2>1, RemoveFromList DEF FifoSet
  <2> QED
    BY <1>1, <1>3, <1>4, <1>6, <1>8, <1>9, <1>10, <2>2 DEF n, e, r
<1>11. CASE ~canWrite(v)
  <2>1. Len(e) = n /\ e[n] = v
    BY <1>1, <1>4, <1>8, <1>11
  <2>2. \A j, k \in 1 .. n : e[j] = e[k] => j = k
    BY <1>1, <1>2, <1>3, <1>9, <2>1
  <2>3. IsInjective(e)
    BY <1>8, <2>1, <2>2, ListIsInjective
  <2>4. Range(e) \subseteq FifoSet
    <3>1. \A j \in 1 .. n : e[j] \in FifoSet
      <4>1. SUFFICES ASSUME NEW j \in 1 .. n PROVE e[j] \in FifoSet
        OBVIOUS
      <4>2. CASE j = n
        BY <2>1, <4>2
      <4>3. CASE j # n
        BY <1>1, <1>9, <4>3
      <4> QED
        BY <4>2, <4>3
    <3> QED
      BY <1>8, <2>1, <3>1, ListFacts
  <2>5. FifoSet \subseteq Range(e)
    <3>1. SUFFICES ASSUME NEW k \in 1 .. n PROVE fifoList[k] \in Range(e)
      BY <1>1
    <3>2. CASE k = i
      BY <1>1, <1>3, <1>8, <2>1, <3>2, ListFacts, SMTT(30)
    <3>3. CASE k < i
      <4>1. k \in 1 .. n - 1 /\ e[k] = fifoList[k] /\ k \in 1 .. Len(e)
        BY <1>1, <1>9, <2>1, <3>3
      <4> QED
        BY <1>8, <4>1, ListFacts
    <3>4. CASE k > i
      <4>1. k - 1 \in 1 .. n - 1 /\ e[k - 1] = fifoList[k] /\ k - 1 \in 1 .. Len(e)
        BY <1>1, <1>9, <2>1, <3>4
      <4> QED
        BY <1>8, <4>1, ListFacts
    <3> QED
      BY <1>1, <3>2, <3>3, <3>4
  <2> QED
    BY <1>1, <1>3, <1>4, <1>6, <1>8, <1>9, <1>11, <2>1, <2>3, <2>4, <2>5 DEF n, e, r
<1> QED
  BY <1>10, <1>11

(* The values BLK_UTIL starts from and is raised to.                       *)
LEMMA StartUtilization ==
  \A p \in {50, 70} : [percent |-> p, above |-> FALSE] \in Utilization
BY DEF Utilization, UtilCap

LEMMA RaisedUtilization ==
  ASSUME NEW u \in Utilization
  PROVE  Raised(u) \in Utilization
<1>1. u.percent \in 50 .. 100 /\ u.above \in BOOLEAN
  BY DEF Utilization, UtilCap
<1>2. (IF u.percent + 5 > 100 THEN 100 ELSE u.percent + 5) \in 50 .. 100
  BY <1>1
<1> QED
  BY <1>1, <1>2 DEF Raised, Utilization, UtilCap

-----------------------------------------------------------------------------
LEMMA InitInv == Init => IInv
<1> SUFFICES ASSUME Init PROVE IInv
  OBVIOUS
<1>1. LoopInv
  BY InitLoop DEF Init
<1>2. /\ freeBlocks \in Seq(Block) /\ IsInjective(freeBlocks) /\ FreeSet = Block \ {0}
      /\ 0 \in Block
  BY InitialFreeList, SSDAssumption DEF Init, TwoRInit, FreeSet, Block
<1>3. /\ fifoList = <<>> /\ victimIds = <<>> /\ phase = "idle" /\ currentBlock = 0
      /\ curScan = 0 /\ stepsSinceReset = 0
      /\ util = [percent |-> 50, above |-> FALSE]
  BY DEF Init, TwoRInit, End
<1>4. IsInjective(fifoList) /\ FifoSet = {} /\ VictimSet = {}
  BY <1>3 DEF IsInjective, FifoSet, VictimSet, Range
<1>5. Apart
  BY <1>2, <1>3, <1>4 DEF Apart
<1>6. Covered
  BY <1>2, <1>3, <1>4 DEF Covered, Waiting
<1>7. ScanInv
  BY <1>3, SizeFacts, StartUtilization DEF ScanInv, End
<1>8. FullInv
  BY <1>4 DEF FullInv
<1> QED
  BY <1>1, <1>5, <1>6, <1>7, <1>8 DEF IInv

(* The sets of the lists, and what the invariant says of them.             *)
LEMMA ListTypes ==
  ASSUME IInv
  PROVE  /\ LoopInv /\ SSDInv /\ SSDTypeOK
         /\ freeBlocks \in Seq(Block) /\ fifoList \in Seq(Block) /\ victimIds \in Seq(Block)
         /\ IsInjective(freeBlocks) /\ IsInjective(fifoList) /\ IsInjective(victimIds)
         /\ currentBlock \in Block /\ cascade \in 0 .. BlockCount
         /\ request \in Page \cup {unused} /\ (request \in Page \/ phase = "idle")
         /\ FreeSet \subseteq Block /\ FifoSet \subseteq Block /\ VictimSet \subseteq Block
         /\ Len(fifoList) \in Nat /\ Len(fifoList) <= BlockCount
<1>1. /\ freeBlocks \in Seq(Block) /\ fifoList \in Seq(Block) /\ victimIds \in Seq(Block)
      /\ IsInjective(freeBlocks) /\ IsInjective(fifoList) /\ IsInjective(victimIds)
      /\ currentBlock \in Block /\ cascade \in 0 .. BlockCount
      /\ request \in Page \cup {unused} /\ (request \in Page \/ phase = "idle")
      /\ LoopInv /\ SSDInv /\ SSDTypeOK
  BY DEF IInv, LoopInv, SSDInv, TwoRTypeOK, CallInv, Apart
<1>2. FreeSet \subseteq Block /\ FifoSet \subseteq Block /\ VictimSet \subseteq Block
  BY <1>1, ListFacts DEF FreeSet, FifoSet, VictimSet
<1>3. IsFiniteSet(FifoSet) /\ Cardinality(FifoSet) = Len(fifoList)
  BY <1>1, InjectiveLength DEF FifoSet
<1>4. Cardinality(FifoSet) <= BlockCount
  BY <1>2, SizeFacts, FS_Subset
<1> QED
  BY <1>1, <1>2, <1>3, <1>4, ListFacts
(* A step of a call that changes no list, and no block that is scanned.    *)
LEMMA ListsStay ==
  ASSUME IInv, LoopInv', phase # "idle", phase' # "idle", UNCHANGED <<freeBlocks, fifoList>>,
         VictimSet \subseteq VictimSet', VictimSet' \subseteq FifoSet, ScanInv',
         \A b \in FifoSet \ VictimSet : writePos'[b] = writePos[b]
  PROVE  IInv'
<1>1. FreeSet' = FreeSet /\ FifoSet' = FifoSet
  BY DEF FreeSet, FifoSet
<1>2. Apart'
  BY <1>1 DEF IInv, Apart
<1>3. Covered'
  BY <1>1 DEF IInv, Covered, Waiting
<1>4. FullInv'
  BY <1>1 DEF IInv, FullInv, fullyWritten
<1> QED
  BY <1>2, <1>3, <1>4 DEF IInv

(* The two ways in which a page goes to the first free block.              *)
LEMMA TakePreserves ==
  ASSUME IInv, NEW x \in Page, TakeFreeBlock(x), phase \in {"idle", "collected"}, phase' = "idle",
         request' \in Page \cup {unused}, UNCHANGED <<curScan, stepsSinceReset, util>>,
         phase = "idle" => ~canWrite(currentBlock) /\ fifoList' = Append(fifoList, currentBlock),
         phase = "collected" => UNCHANGED fifoList
  PROVE  IInv'
<1> DEFINE h == Head(freeBlocks)
<1>1. /\ freeBlocks # <<>> /\ currentBlock' = h /\ freeBlocks' = Tail(freeBlocks) /\ SSDWrite(x, h)
      /\ UNCHANGED <<victimIds, cascade>>
  BY DEF TakeFreeBlock
<1>2. /\ SSDInv /\ SSDTypeOK /\ LoopInv
      /\ freeBlocks \in Seq(Block) /\ fifoList \in Seq(Block) /\ currentBlock \in Block
      /\ IsInjective(freeBlocks) /\ IsInjective(fifoList)
      /\ FreeSet \subseteq Block /\ FifoSet \subseteq Block /\ Len(fifoList) \in Nat
  BY ListTypes
<1>3. /\ h \in Block /\ h \in FreeSet /\ Tail(freeBlocks) \in Seq(Block)
      /\ IsInjective(Tail(freeBlocks)) /\ FreeSet' = FreeSet \ {h}
  BY <1>1, <1>2, TailList DEF FreeSet
<1>4. LoopInv'
  BY <1>1, <1>2, <1>3, WriteStep
<1>5. phase = "idle" => currentBlock \notin Waiting
  BY DEF IInv, Covered
<1>6. /\ fifoList' \in Seq(Block) /\ IsInjective(fifoList') /\ Len(fifoList') >= Len(fifoList)
      /\ Len(fifoList') \in Nat
      /\ FifoSet' = IF phase = "idle" THEN FifoSet \cup {currentBlock} ELSE FifoSet
  <2>1. /\ currentBlock \notin FifoSet => IsInjective(Append(fifoList, currentBlock))
        /\ Append(fifoList, currentBlock) \in Seq(Block)
        /\ Len(Append(fifoList, currentBlock)) = Len(fifoList) + 1
        /\ Range(Append(fifoList, currentBlock)) = FifoSet \cup {currentBlock}
    BY <1>2, AppendList DEF FifoSet
  <2>2. CASE phase = "idle"
    <3>1. currentBlock \notin FifoSet /\ fifoList' = Append(fifoList, currentBlock)
      BY <1>5, <2>2 DEF Waiting
    <3> QED
      BY <1>2, <2>1, <2>2, <3>1 DEF FifoSet
  <2>3. CASE phase = "collected"
    BY <1>2, <2>3 DEF FifoSet
  <2> QED
    BY <2>2, <2>3
<1>7. VictimSet' = VictimSet /\ VictimSet = {}
  <2>1. victimIds = <<>>
    BY <1>2 DEF LoopInv, CallInv
  <2> QED
    BY <1>1, <2>1 DEF VictimSet, Range
<1> HIDE DEF h
<1>8. Apart'
  BY <1>1, <1>3, <1>5, <1>6, <1>7 DEF IInv, Apart, Waiting
<1>9. Covered'
  <2>1. Waiting \cup {currentBlock} = Block /\ (phase # "idle" => Waiting = Block)
    BY <1>2 DEF IInv, Covered
  <2>2. h \notin FifoSet'
    BY <1>3, <1>5, <1>6 DEF IInv, Apart, Waiting
  <2>3. Waiting' \cup {h} = IF phase = "idle" THEN Waiting \cup {currentBlock} ELSE Waiting
    BY <1>3, <1>6 DEF Waiting
  <2> QED
    BY <1>1, <1>3, <2>1, <2>2, <2>3 DEF Covered, Waiting
<1>10. ScanInv'
  BY <1>2, <1>6 DEF IInv, ScanInv
<1>11. FullInv'
  <2>1. \A b \in Block \ {h} : writePos'[b] = writePos[b]
    BY <1>1, <1>2, <1>3 DEF SSDWrite, SSDTypeOK
  <2>2. \A b \in FifoSet : fullyWritten(b) /\ b \in Block \ {h}
    BY <1>2, <1>3, <1>7 DEF IInv, Apart, FullInv
  <2>3. phase = "idle" => fullyWritten(currentBlock) /\ currentBlock \in Block \ {h}
    BY <1>2, <1>3, <1>5, WritableOrFull DEF Waiting
  <2> QED
    BY <1>6, <2>1, <2>2, <2>3 DEF FullInv, fullyWritten
<1> QED
  BY <1>4, <1>8, <1>9, <1>10, <1>11 DEF IInv

LEMMA StartGCPreserves ==
  ASSUME IInv, NEW x \in Page, StartGC(x), fifoList' = Append(fifoList, currentBlock),
         UNCHANGED <<curScan, stepsSinceReset, util>>
  PROVE  IInv'
<1>1. /\ SSDInv /\ SSDTypeOK /\ LoopInv
      /\ freeBlocks \in Seq(Block) /\ fifoList \in Seq(Block) /\ currentBlock \in Block
      /\ victimIds \in Seq(Block) /\ IsInjective(victimIds) /\ cascade \in 0 .. BlockCount
      /\ IsInjective(freeBlocks) /\ IsInjective(fifoList) /\ Len(fifoList) \in Nat
  BY ListTypes
<1>2. /\ phase = "idle" /\ phase' = "gc" /\ ~canWrite(currentBlock) /\ freeBlocks = <<>>
      /\ request' = x /\ victimIds = <<>>
      /\ UNCHANGED <<ptl, writePos, validCnt, ltp>> /\ UNCHANGED ssdVars
      /\ UNCHANGED <<freeBlocks, currentBlock, victimIds, cascade>>
  BY <1>1 DEF StartGC, ssdVars, LoopInv, CallInv
<1>3. LoopInv'
  BY <1>1, <1>2, CallStep
<1>4. currentBlock \notin FreeSet /\ currentBlock \notin FifoSet /\ Waiting \cup {currentBlock} = Block
  BY <1>2 DEF IInv, Covered, Waiting
<1>5. /\ fifoList' \in Seq(Block) /\ IsInjective(fifoList') /\ Len(fifoList') = Len(fifoList) + 1
      /\ FifoSet' = FifoSet \cup {currentBlock}
  BY <1>1, <1>4, AppendList DEF FifoSet
<1>6. FreeSet' = FreeSet /\ VictimSet' = VictimSet /\ VictimSet = {}
  BY <1>2 DEF FreeSet, VictimSet, Range
<1>7. Apart'
  BY <1>2, <1>4, <1>5, <1>6 DEF IInv, Apart
<1>8. Covered'
  BY <1>2, <1>4, <1>5, <1>6 DEF Covered, Waiting
<1>9. ScanInv'
  BY <1>1, <1>2, <1>5 DEF IInv, ScanInv
<1>10. FullInv'
  <2>1. fullyWritten(currentBlock)
    BY <1>1, <1>2, WritableOrFull
  <2> QED
    BY <1>2, <1>5, <1>6, <2>1 DEF IInv, FullInv, fullyWritten
<1> QED
  BY <1>3, <1>7, <1>8, <1>9, <1>10 DEF IInv

LEMMA WriteCurrentPreserves ==
  ASSUME IInv, NEW x \in Page, WriteCurrent(x), UNCHANGED <<fifoList, curScan, stepsSinceReset, util>>
  PROVE  IInv'
<1>1. /\ SSDInv /\ SSDTypeOK /\ LoopInv /\ freeBlocks \in Seq(Block) /\ currentBlock \in Block
      /\ request \in Page \cup {unused} /\ FifoSet \subseteq Block
  BY ListTypes
<1>2. /\ phase = "idle" /\ SSDWrite(x, currentBlock)
      /\ UNCHANGED <<freeBlocks, currentBlock, victimIds, cascade, phase, request>>
  BY DEF WriteCurrent, twoRVars
<1>3. LoopInv'
  BY <1>1, <1>2, WriteStep
<1>4. FreeSet' = FreeSet /\ FifoSet' = FifoSet /\ VictimSet' = VictimSet
  BY <1>2 DEF FreeSet, FifoSet, VictimSet
<1>5. Apart'
  BY <1>2, <1>4 DEF IInv, Apart
<1>6. Covered'
  BY <1>2, <1>4 DEF IInv, Covered, Waiting
<1>7. ScanInv'
  BY <1>2 DEF IInv, ScanInv
<1>8. FullInv'
  <2>1. currentBlock \notin FifoSet
    BY <1>2 DEF IInv, Covered, Waiting
  <2>2. \A b \in Block \ {currentBlock} : writePos'[b] = writePos[b]
    BY <1>1, <1>2 DEF SSDWrite, SSDTypeOK
  <2> QED
    BY <1>1, <1>4, <2>1, <2>2 DEF IInv, FullInv, fullyWritten
<1> QED
  BY <1>3, <1>5, <1>6, <1>7, <1>8 DEF IInv

(* The list is not empty when a scan starts: no block is free then.        *)
LEMMA StartScanPreserves ==
  ASSUME IInv, StartScan
  PROVE  IInv'
<1>1. /\ LoopInv /\ freeBlocks \in Seq(Block) /\ fifoList \in Seq(Block) /\ currentBlock \in Block
      /\ victimIds \in Seq(Block) /\ IsInjective(victimIds) /\ cascade \in 0 .. BlockCount
      /\ (request \in Page \/ phase = "idle") /\ Len(fifoList) \in Nat
  BY ListTypes
<1>2. /\ phase = "gc" /\ phase' = "select"
      /\ IF curScan = End THEN curScan' = 1 /\ stepsSinceReset' = 0
                          ELSE UNCHANGED <<curScan, stepsSinceReset>>
      /\ UNCHANGED ssdVars /\ UNCHANGED <<ptl, writePos, validCnt, ltp>>
      /\ UNCHANGED <<freeBlocks, currentBlock, victimIds, cascade, request, fifoList, util>>
  BY DEF StartScan, ssdVars
<1>3. LoopInv'
  BY <1>1, <1>2, CallStep
<1>4. Len(fifoList) >= 1
  <2>1. FreeSet = {}
    BY <1>2 DEF IInv, ScanInv, FreeSet, Range
  <2>2. currentBlock \in FifoSet
    BY <1>1, <1>2, <2>1 DEF IInv, Covered, Waiting
  <2> QED
    BY <1>1, <2>2, ListFacts DEF FifoSet
<1>5. ScanInv'
  BY <1>1, <1>2, <1>4, SizeFacts DEF IInv, ScanInv, End
<1>6. VictimSet' = VictimSet /\ VictimSet \subseteq FifoSet
  BY <1>2 DEF VictimSet, IInv, Apart
<1> QED
  BY <1>2, <1>3, <1>5, <1>6, ListsStay

(* FIFO_SCAN_DEPTH is a part of the list.                                  *)
LEMMA ThresholdInList ==
  ASSUME Len(fifoList) \in Nat
  PROVE  Threshold \in Int /\ Threshold <= Len(fifoList)
<1> DEFINE l == Len(fifoList)
           q == (7 * l) \div 10
<1>1. 7 * l \in Nat /\ 10 \in Nat \ {0} /\ l \in Nat
  OBVIOUS
<1> HIDE DEF l
<1>2. q \in Nat /\ q * 10 <= 7 * l
  BY <1>1, QuotientBounds
<1> HIDE DEF q
<1>3. q <= l
  BY <1>1, <1>2
<1> QED
  BY <1>2, <1>3 DEF Threshold, q, l

(* The scan starts over before it comes to the end of the list.            *)
LEMMA ScanBlockPreserves ==
  ASSUME IInv, ScanBlock
  PROVE  IInv'
<1> DEFINE b == fifoList[curScan]
<1>1. /\ LoopInv /\ freeBlocks \in Seq(Block) /\ fifoList \in Seq(Block) /\ currentBlock \in Block
      /\ victimIds \in Seq(Block) /\ IsInjective(victimIds) /\ cascade \in 0 .. BlockCount
      /\ (request \in Page \/ phase = "idle") /\ Len(fifoList) \in Nat /\ Len(fifoList) <= BlockCount
  BY ListTypes
<1>2. /\ phase = "select" /\ phase' = "select" /\ curScan # End
      /\ victimIds' = WithVictim(b)
      /\ IF stepsSinceReset + 1 >= Threshold
         THEN /\ curScan' = 1 /\ stepsSinceReset' = 0
              /\ util' = Raised(util)
         ELSE /\ curScan' = NextPosition(curScan)
              /\ stepsSinceReset' = stepsSinceReset + 1
              /\ UNCHANGED util
      /\ UNCHANGED ssdVars /\ UNCHANGED <<ptl, writePos, validCnt, ltp>>
      /\ UNCHANGED <<freeBlocks, currentBlock, cascade, request, fifoList>>
  BY DEF ScanBlock, ScanDone, ssdVars
<1>3. curScan \in 1 .. Len(fifoList) /\ b \in Block /\ b \in FifoSet
  <2>1. curScan \in 1 .. Len(fifoList)
    BY <1>1, <1>2 DEF IInv, ScanInv, End
  <2> QED
    BY <1>1, <2>1, ListFacts DEF FifoSet
<1> HIDE DEF b
<1>4. /\ victimIds' \in Seq(Block) /\ IsInjective(victimIds')
      /\ VictimSet \subseteq VictimSet' /\ VictimSet' \subseteq FifoSet
  <2>1. VictimSet \subseteq FifoSet
    BY DEF IInv, Apart
  <2>2. CASE b \notin Range(victimIds) /\ Eligible(b)
    <3>1. victimIds' = Append(victimIds, b)
      BY <1>2, <2>2 DEF WithVictim
    <3>2. /\ victimIds' \in Seq(Block) /\ IsInjective(victimIds')
          /\ VictimSet' = VictimSet \cup {b}
      BY <1>1, <1>3, <2>2, <3>1, AppendList DEF VictimSet
    <3> QED
      BY <1>3, <2>1, <3>2
  <2>3. CASE ~(b \notin Range(victimIds) /\ Eligible(b))
    <3>1. victimIds' = victimIds
      BY <1>2, <2>3 DEF WithVictim
    <3> QED
      BY <1>1, <2>1, <3>1 DEF VictimSet
  <2> QED
    BY <2>2, <2>3
<1>5. LoopInv'
  BY <1>1, <1>2, <1>4, CallStep
<1>6. ScanInv'
  <2> DEFINE l == Len(fifoList)
             t == Threshold
  <2>1. t \in Int /\ t <= l /\ l \in Nat /\ l <= BlockCount /\ BlockCount \in Nat
    BY <1>1, ThresholdInList, SizeFacts
  <2>2. /\ curScan \in 1 .. l /\ curScan <= stepsSinceReset + 1
        /\ stepsSinceReset \in 0 .. BlockCount /\ util \in Utilization /\ freeBlocks = <<>>
    BY <1>2, <1>3 DEF IInv, ScanInv
  <2>3. Len(fifoList') = l
    BY <1>2
  <2> HIDE DEF l, t
  <2>4. CASE stepsSinceReset + 1 >= t
    <3>1. /\ curScan' = 1 /\ stepsSinceReset' = 0
          /\ util' = Raised(util)
      BY <1>2, <2>4 DEF t
    <3>2. util' \in Utilization
      BY <2>2, <3>1, RaisedUtilization
    <3> QED
      BY <1>2, <2>1, <2>2, <2>3, <3>1, <3>2 DEF ScanInv, End
  <2>5. CASE stepsSinceReset + 1 < t
    <3>1. stepsSinceReset' = stepsSinceReset + 1 /\ util' = util /\ curScan' = NextPosition(curScan)
      BY <1>2, <2>1, <2>2, <2>5 DEF t
    <3>2. curScan < l /\ curScan' = curScan + 1
      BY <2>1, <2>2, <2>5, <3>1 DEF NextPosition, l
    <3> QED
      BY <1>2, <2>1, <2>2, <2>3, <2>5, <3>1, <3>2 DEF ScanInv, End
  <2> QED
    BY <2>1, <2>2, <2>4, <2>5
<1> QED
  BY <1>2, <1>4, <1>5, <1>6, ListsStay

(* The scan has not come to the end, so it ended for having found enough.  *)
LEMMA ScanEndsPreserves ==
  ASSUME IInv, ScanEnds
  PROVE  IInv'
<1>1. /\ phase = "select" /\ TotalInvalid(victimIds) >= PagesPerBlock /\ StartCascade
      /\ util' = [percent |-> 70, above |-> FALSE]
      /\ UNCHANGED <<ssdVars, freeBlocks, currentBlock, victimIds, request>>
      /\ UNCHANGED <<fifoList, curScan, stepsSinceReset>>
      /\ UNCHANGED <<ptl, writePos, validCnt, ltp>>
  BY DEF ScanEnds, ScanDone, IInv, ScanInv, ssdVars
<1>2. LoopInv' /\ phase' # "failed"
  BY <1>1, StartStep DEF IInv
<1>3. phase' \in {"erase", "compact"}
  BY <1>1, <1>2 DEF StartCascade
<1>4. ScanInv'
  BY <1>1, <1>3, StartUtilization DEF IInv, ScanInv
<1>5. VictimSet' = VictimSet /\ VictimSet \subseteq FifoSet
  BY <1>1 DEF VictimSet, IInv, Apart
<1> QED
  BY <1>1, <1>2, <1>3, <1>4, <1>5, ListsStay

(* The cascade touches the victims only.                                   *)
LEMMA CascadePreserves ==
  ASSUME IInv, Cascade, UNCHANGED <<fifoList, curScan, stepsSinceReset, util>>
  PROVE  IInv'
<1>1. /\ LoopInv' /\ phase # "idle" /\ phase' \in {"compact", "move", "erase", "distribute"}
      /\ UNCHANGED <<freeBlocks, victimIds>>
      /\ \A b \in Block \ VictimSet : writePos'[b] = writePos[b]
  BY CascadeStep DEF IInv, VictimSet
<1>2. VictimSet' = VictimSet /\ VictimSet \subseteq FifoSet
  BY <1>1 DEF VictimSet, IInv, Apart
<1>3. \A b \in FifoSet \ VictimSet : writePos'[b] = writePos[b]
  BY <1>1, ListTypes
<1>4. ScanInv'
  BY <1>1 DEF IInv, ScanInv
<1> QED
  BY <1>1, <1>2, <1>3, <1>4, ListsStay
(* A victim that is handed out leaves the list or moves to its tail, and   *)
(* the iterator follows: to the end only from the last entry.              *)
LEMMA DistributePreserves ==
  ASSUME IInv, DistributeToList
  PROVE  IInv'
<1> DEFINE h == Head(victimIds)
           n == Len(fifoList)
<1>1. /\ LoopInv /\ SSDTypeOK /\ freeBlocks \in Seq(Block) /\ fifoList \in Seq(Block)
      /\ victimIds \in Seq(Block) /\ IsInjective(victimIds)
      /\ IsInjective(freeBlocks) /\ IsInjective(fifoList) /\ n \in Nat /\ FifoSet \subseteq Block
  BY ListTypes
<1>2. /\ phase = "distribute" /\ phase' = "distribute" /\ victimIds # <<>> /\ victimIds' = Tail(victimIds)
      /\ freeBlocks' = (IF canWrite(h) THEN Append(freeBlocks, h) ELSE freeBlocks)
      /\ fifoList' = Erased(h) /\ curScan' = ScanAfterErase(h)
      /\ UNCHANGED <<stepsSinceReset, util>>
      /\ UNCHANGED <<ptl, writePos, validCnt, ltp>>
  BY DEF DistributeToList, DistributeVictim, Freed, ssdVars
<1>3. LoopInv'
  BY <1>1, DistributeStep DEF DistributeToList
<1>4. h \in Block /\ h \in VictimSet /\ VictimSet' = VictimSet \ {h}
  BY <1>1, <1>2, TailList DEF VictimSet
<1>5. h \in FifoSet /\ h \notin FreeSet /\ VictimSet \subseteq FifoSet
  BY <1>4 DEF IInv, Apart
<1> HIDE DEF h
<1>6. PICK i \in 1 .. n :
        /\ fifoList[i] = h /\ FirstEntry(Refilled(h), h) = i
        /\ Len(Refilled(h)) = IF canWrite(h) THEN n ELSE n + 1
        /\ fifoList' \in Seq(Block) /\ IsInjective(fifoList')
        /\ Len(fifoList') = IF canWrite(h) THEN n - 1 ELSE n
        /\ FifoSet' = IF canWrite(h) THEN FifoSet \ {h} ELSE FifoSet
  BY <1>1, <1>2, <1>5, ErasedFacts DEF FifoSet
<1>7. /\ freeBlocks' \in Seq(Block) /\ IsInjective(freeBlocks')
      /\ FreeSet' = IF canWrite(h) THEN FreeSet \cup {h} ELSE FreeSet
  <2>1. /\ Append(freeBlocks, h) \in Seq(Block) /\ IsInjective(Append(freeBlocks, h))
        /\ Range(Append(freeBlocks, h)) = FreeSet \cup {h}
    BY <1>1, <1>4, <1>5, AppendList DEF FreeSet
  <2> QED
    BY <1>1, <1>2, <2>1 DEF FreeSet
<1>8. Apart'
  BY <1>4, <1>5, <1>6, <1>7 DEF IInv, Apart
<1>9. Covered'
  BY <1>2, <1>5, <1>6, <1>7 DEF IInv, Covered, Waiting
<1>10. ScanInv'
  <2> DEFINE s == curScan
             l == Len(Refilled(h))
  <2>1. /\ s \in 0 .. n /\ stepsSinceReset \in 0 .. BlockCount /\ util \in Utilization
        /\ (s # 0 => s <= stepsSinceReset + 1)
    BY DEF IInv, ScanInv, End
  <2>2. curScan' = IF s = i /\ i = l THEN 0 ELSE IF s > i THEN s - 1 ELSE s
    BY <1>2, <1>6 DEF ScanAfterErase, End
  <2>3. n \in Nat /\ BlockCount \in Nat /\ i \in 1 .. n
    BY <1>1, SizeFacts
  <2> HIDE DEF n, s, l
  <2>4. curScan' \in 0 .. Len(fifoList') /\ (curScan' # 0 => curScan' <= stepsSinceReset + 1)
    <3>1. CASE canWrite(h)
      <4>1. l = n /\ Len(fifoList') = n - 1
        BY <1>6, <3>1 DEF l
      <4> QED
        BY <2>1, <2>2, <2>3, <4>1
    <3>2. CASE ~canWrite(h)
      <4>1. Len(fifoList') = n
        BY <1>6, <3>2
      <4> QED
        BY <2>1, <2>2, <2>3, <4>1
    <3> QED
      BY <3>1, <3>2
  <2> QED
    BY <1>2, <2>1, <2>4 DEF ScanInv, End
<1>11. FullInv'
  <2>1. ~canWrite(h) => fullyWritten(h)
    BY <1>1, <1>4, WritableOrFull
  <2>2. \A b \in FifoSet' \ VictimSet' : fullyWritten(b)
    BY <1>4, <1>6, <2>1 DEF IInv, FullInv
  <2> QED
    BY <1>2, <2>2 DEF FullInv, fullyWritten
<1> QED
  BY <1>3, <1>8, <1>9, <1>10, <1>11 DEF IInv

LEMMA CollectedPreserves ==
  ASSUME IInv, Collected, UNCHANGED <<fifoList, curScan, stepsSinceReset, util>>
  PROVE  IInv'
<1>1. /\ LoopInv /\ freeBlocks \in Seq(Block) /\ currentBlock \in Block
      /\ victimIds \in Seq(Block) /\ IsInjective(victimIds) /\ (request \in Page \/ phase = "idle")
  BY ListTypes
<1>2. /\ phase = "distribute" /\ phase' = "collected" /\ victimIds = <<>> /\ cascade' = 0
      /\ UNCHANGED <<freeBlocks, currentBlock, victimIds, request>>
      /\ UNCHANGED ssdVars /\ UNCHANGED <<ptl, writePos, validCnt, ltp>>
  BY DEF Collected, ssdVars
<1>3. LoopInv'
  <2>1. 0 \in 0 .. BlockCount
    BY SizeFacts
  <2> QED
    BY <1>1, <1>2, <2>1, CallStep
<1>4. VictimSet' = VictimSet /\ VictimSet \subseteq FifoSet
  BY <1>2 DEF VictimSet, IInv, Apart
<1>5. ScanInv'
  BY <1>2 DEF IInv, ScanInv
<1> QED
  BY <1>2, <1>3, <1>4, <1>5, ListsStay

LEMMA StutterPreserves ==
  ASSUME IInv, UNCHANGED vars
  PROVE  IInv'
<1>1. UNCHANGED <<ssdVars, twoRVars>> /\ UNCHANGED <<fifoList, curScan, stepsSinceReset, util>>
      /\ UNCHANGED <<ptl, writePos, validCnt, ltp>>
      /\ UNCHANGED <<freeBlocks, currentBlock, victimIds, cascade, phase, request>>
  BY DEF vars, ssdVars, twoRVars, fifoVars
<1>2. LoopInv'
  BY <1>1, StutterStep DEF IInv
<1>3. FreeSet' = FreeSet /\ FifoSet' = FifoSet /\ VictimSet' = VictimSet
  BY <1>1 DEF FreeSet, FifoSet, VictimSet
<1>4. Apart'
  BY <1>1, <1>3 DEF IInv, Apart
<1>5. Covered'
  BY <1>1, <1>3 DEF IInv, Covered, Waiting
<1>6. ScanInv'
  BY <1>1 DEF IInv, ScanInv
<1>7. FullInv'
  BY <1>1, <1>3 DEF IInv, FullInv, fullyWritten
<1> QED
  BY <1>2, <1>4, <1>5, <1>6, <1>7 DEF IInv

(* Every step of the collector preserves the invariant.                    *)
LEMMA StepPreserves == IInv /\ [Next]_vars => IInv'
<1> SUFFICES ASSUME IInv, [Next]_vars PROVE IInv'
  OBVIOUS
<1>1. ASSUME NEW x \in Page, HostWrite(x) PROVE IInv'
  <2>1. CASE WriteCurrent(x) /\ UNCHANGED fifoVars
    BY <2>1, WriteCurrentPreserves DEF fifoVars
  <2>2. CASE WriteNext(x) /\ fifoList' = Append(fifoList, currentBlock)
             /\ UNCHANGED <<curScan, stepsSinceReset, util>>
    <3>1. /\ phase = "idle" /\ phase' = "idle" /\ ~canWrite(currentBlock) /\ TakeFreeBlock(x)
          /\ request' \in Page \cup {unused}
      BY <2>2, ListTypes DEF WriteNext
    <3> QED
      BY <2>2, <3>1, TakePreserves
  <2>3. CASE StartGC(x) /\ fifoList' = Append(fifoList, currentBlock)
             /\ UNCHANGED <<curScan, stepsSinceReset, util>>
    BY <2>3, StartGCPreserves
  <2> QED
    BY <1>1, <2>1, <2>2, <2>3 DEF HostWrite
<1>2. CASE StartScan
  BY <1>2, StartScanPreserves
<1>3. CASE ScanBlock
  BY <1>3, ScanBlockPreserves
<1>4. CASE ScanEnds
  BY <1>4, ScanEndsPreserves
<1>5. CASE Cascade /\ UNCHANGED fifoVars
  BY <1>5, CascadePreserves DEF fifoVars
<1>6. CASE Collected /\ UNCHANGED fifoVars
  BY <1>6, CollectedPreserves DEF fifoVars
<1>7. CASE ResumeWrite /\ UNCHANGED fifoVars
  <2>1. /\ phase = "collected" /\ phase' = "idle" /\ request' = unused /\ TakeFreeBlock(request)
        /\ request \in Page /\ UNCHANGED <<fifoList, curScan, stepsSinceReset, util>>
    BY <1>7, ListTypes DEF ResumeWrite, fifoVars
  <2> QED
    BY <2>1, TakePreserves
<1>8. CASE DistributeToList
  BY <1>8, DistributePreserves
<1>9. CASE UNCHANGED vars
  BY <1>9, StutterPreserves
<1> QED
  BY <1>1, <1>2, <1>3, <1>4, <1>5, <1>6, <1>7, <1>8, <1>9 DEF Next, Step

(* The invariant of 2r-fifo.                                               *)
THEOREM Inductive == Spec => []IInv
BY InitInv, StepPreserves, PTL DEF Spec

(* The device stays consistent: the two directions of the mapping agree,   *)
(* the counters victims are selected by are exact, no slot is programmed   *)
(* twice.                                                                  *)
THEOREM DeviceConsistent == Spec => []SSDInv
<1>1. IInv => SSDInv
  BY DEF IInv, LoopInv
<1> QED
  BY Inductive, <1>1, PTL

(* Every block is free, listed or being filled, and in only one place: the *)
(* entry that is erased for a refilled victim is its old one.              *)
THEOREM Partition == Spec => []ListsPartitionBlocks
<1>1. IInv => ListsPartitionBlocks
  <2> SUFFICES ASSUME IInv PROVE ListsPartitionBlocks
    OBVIOUS
  <2>1. /\ freeBlocks \in Seq(Block) /\ fifoList \in Seq(Block)
        /\ IsInjective(freeBlocks) /\ IsInjective(fifoList) /\ FreeSet \cap FifoSet = {}
        /\ currentBlock \in Block /\ Len(fifoList) \in Nat /\ Len(fifoList) <= BlockCount
    BY ListTypes DEF IInv, Apart
  <2>2. Listed \in Seq(Block) /\ IsInjective(Listed) /\ Range(Listed) = Waiting
    BY <2>1, JoinLists DEF Listed, FreeSet, FifoSet, Waiting
  <2>3. \A i, j \in DOMAIN Listed : Listed[i] = Listed[j] => i = j
    BY <2>2 DEF IsInjective
  <2>4. /\ Range(Listed) \cup {currentBlock} = Block
        /\ phase = "idle" => currentBlock \notin Range(Listed)
    BY <2>1, <2>2 DEF IInv, Covered
  <2>5. curScan \in 0 .. BlockCount
    BY <2>1, SizeFacts DEF IInv, ScanInv
  <2>6. TypeOK
    BY <2>1, <2>5 DEF IInv, LoopInv, ScanInv, TypeOK
  <2> QED
    BY <2>3, <2>4, <2>6 DEF ListsPartitionBlocks
<1> QED
  BY Inductive, <1>1, PTL

(* Whatever is removed, the scan's position is one of the list's; only     *)
(* full blocks are scanned, and a victim is collected once.                *)
THEOREM Scan == Spec => []ScanIsSound
<1>1. IInv => ScanIsSound
  <2> SUFFICES ASSUME IInv PROVE ScanIsSound
    OBVIOUS
  <2>1. curScan \in 0 .. Len(fifoList)
    BY DEF IInv, ScanInv
  <2>2. \A b \in Range(fifoList) \ Range(victimIds) : fullyWritten(b)
    BY DEF IInv, FullInv, FifoSet, VictimSet
  <2>3. \A i, j \in DOMAIN victimIds : victimIds[i] = victimIds[j] => i = j
    BY DEF IInv, LoopInv, CallInv, IsInjective
  <2> QED
    BY <2>1, <2>2, <2>3 DEF ScanIsSound
<1> QED
  BY Inductive, <1>1, PTL

(* The scan ends only when it has found a block's worth of invalid pages:  *)
(* compactUntilFreeBlock is never called with too few victims.             *)
THEOREM Enough == Spec => []EnoughVictims
<1>1. IInv => EnoughVictims
  BY DEF IInv, ScanInv, LoopInv, CascadeInv, Cascading, EnoughVictims
<1> QED
  BY Inductive, <1>1, PTL

(* The ensure of compactUntilFreeBlock never fails: the first victim is    *)
(* empty when it is erased.                                                *)
THEOREM FirstVictimEmpty == Spec => []CascadeEmptiesFirst
<1>1. IInv => CascadeEmptiesFirst
  BY FirstIsEmpty DEF IInv, CascadeEmptiesFirst
<1> QED
  BY Inductive, <1>1, PTL

(* The cascade wins every invalid page of every victim.                    *)
THEOREM NoGarbageLeft == Spec => []CascadeLeavesNoGarbage
<1>1. IInv => CascadeLeavesNoGarbage
  BY DEF IInv, LoopInv, CascadeInv
<1> QED
  BY Inductive, <1>1, PTL

-----------------------------------------------------------------------------
(* Whatever the scan selects, the device behaves like the ideal map: a     *)
(* page the host wrote is in exactly one place until it is written again.  *)
THEOREM Refinement == Spec => ImplementsFlashMap
<1>1. Init => Promise!Init
  <2> SUFFICES ASSUME Init PROVE Promise!Init
    OBVIOUS
  <2>1. SSDInv
    BY InitInv DEF IInv, LoopInv
  <2>2. Placed = ltp
    BY <2>1, PlacedIsMapping DEF SSDInv
  <2> QED
    BY <2>2 DEF Promise!Init, Init, TwoRInit, SSDInit
<1>2. IInv /\ IInv' /\ [Next]_vars => [Promise!Next]_Placed
  <2> SUFFICES ASSUME IInv, IInv', [Next]_vars PROVE [Promise!Next]_Placed
    OBVIOUS
  <2>1. LoopInv /\ LoopInv'
    BY DEF IInv
  <2>2. CASE \E x \in Page : HostWrite(x)
    <3>1. PICK x \in Page : WriteCurrent(x) \/ WriteNext(x) \/ StartGC(x)
      BY <2>2 DEF HostWrite
    <3> QED
      BY <2>1, <3>1, HostWriteRefines
  <2>3. CASE Cascade \/ Collected \/ ResumeWrite \/ DistributeVictim
    BY <2>1, <2>3, StepRefines
  <2>4. CASE StartScan \/ ScanBlock \/ ScanEnds
    <3>1. UNCHANGED ssdVars
      BY <2>4 DEF StartScan, ScanBlock, ScanEnds
    <3> QED
      BY <3>1, PlacedStays
  <2>5. CASE UNCHANGED vars
    BY <2>5, PlacedStays DEF vars
  <2> QED
    BY <2>2, <2>3, <2>4, <2>5 DEF Next, Step, DistributeToList
<1> QED
  BY <1>1, <1>2, Inductive, PTL DEF Spec, ImplementsFlashMap, Promise!Spec
-----------------------------------------------------------------------------
(* The iterator.  The block the next scan goes on at is the first one from *)
(* the scan's position on that is no victim.                               *)
FirstNotPassed(m) ==
  /\ m \in NotPassed
  /\ \A k \in curScan .. m - 1 : fifoList[k] \in VictimSet

LEMMA MinIsFirst ==
  ASSUME NEW S \in SUBSET Nat, NEW m \in S, \A k \in S : m <= k
  PROVE  Min(S) = m
<1>1. \A x \in S : (\A y \in S : x <= y) => x = m
  OBVIOUS
<1> QED
  BY <1>1 DEF Min

LEMMA NotPassedFirst ==
  ASSUME curScan \in Nat, Len(fifoList) \in Nat
  PROVE  /\ NotPassed # {} => \E m \in NotPassed : FirstNotPassed(m)
         /\ \A m : FirstNotPassed(m) => m \in NotPassed /\ Min(NotPassed) = m
<1>1. NotPassed \in SUBSET Nat
  BY DEF NotPassed
<1>2. ASSUME NotPassed # {} PROVE \E m \in NotPassed : FirstNotPassed(m)
  <2>1. PICK m \in NotPassed : \A k \in NotPassed : m <= k
    BY <1>1, <1>2, LeastNatural
  <2>2. m \in curScan .. Len(fifoList)
    BY DEF NotPassed
  <2>3. \A k \in curScan .. m - 1 : fifoList[k] \in VictimSet
    <3>1. SUFFICES ASSUME NEW k \in curScan .. m - 1 PROVE fifoList[k] \in VictimSet
      OBVIOUS
    <3>2. k \in curScan .. Len(fifoList) /\ ~(m <= k)
      BY <2>2
    <3>3. k \notin NotPassed
      BY <2>1, <3>2
    <3> QED
      BY <3>2, <3>3 DEF NotPassed, VictimSet
  <2> QED
    BY <2>3 DEF FirstNotPassed
<1>3. ASSUME NEW m, FirstNotPassed(m) PROVE m \in NotPassed /\ Min(NotPassed) = m
  <2>1. m \in NotPassed /\ m \in curScan .. Len(fifoList)
    BY <1>3 DEF FirstNotPassed, NotPassed
  <2>2. \A k \in NotPassed : m <= k
    <3>1. SUFFICES ASSUME NEW k \in NotPassed PROVE m <= k
      OBVIOUS
    <3>2. k \in curScan .. Len(fifoList) /\ fifoList[k] \notin VictimSet
      BY DEF NotPassed, VictimSet
    <3>3. k \notin curScan .. m - 1
      BY <1>3, <3>2 DEF FirstNotPassed
    <3> QED
      BY <2>1, <3>2, <3>3
  <2> QED
    BY <1>1, <2>1, <2>2, MinIsFirst
<1> QED
  BY <1>2, <1>3

(* The entries behind the victim move up by one, and the iterator with     *)
(* them.                                                                   *)
LEMMA PlaceKept ==
  ASSUME IInv, DistributeToList, curScan # End, NEW m, FirstNotPassed(m)
  PROVE  /\ curScan' # End
         /\ \E k : FirstNotPassed(k)' /\ fifoList'[k] = fifoList[m]
<1> DEFINE h == Head(victimIds)
           n == Len(fifoList)
           s == curScan
<1>1. /\ fifoList \in Seq(Block) /\ IsInjective(fifoList) /\ n \in Nat
      /\ victimIds \in Seq(Block) /\ IsInjective(victimIds)
  BY ListTypes
<1>2. /\ victimIds # <<>> /\ victimIds' = Tail(victimIds)
      /\ fifoList' = Erased(h) /\ curScan' = ScanAfterErase(h)
  BY DEF DistributeToList, DistributeVictim
<1>3. h \in VictimSet /\ VictimSet' = VictimSet \ {h} /\ h \in FifoSet
  BY <1>1, <1>2, TailList DEF VictimSet, IInv, Apart
<1> HIDE DEF h
<1>4. PICK i \in 1 .. n :
        /\ fifoList[i] = h /\ FirstEntry(Refilled(h), h) = i
        /\ Len(Refilled(h)) = IF canWrite(h) THEN n ELSE n + 1
        /\ Len(fifoList') = IF canWrite(h) THEN n - 1 ELSE n
        /\ \A j \in 1 .. n - 1 : fifoList'[j] = IF j < i THEN fifoList[j] ELSE fifoList[j + 1]
  BY <1>1, <1>2, <1>3, ErasedFacts
<1>5. /\ s \in 1 .. n /\ m \in s .. n /\ fifoList[m] \notin VictimSet
      /\ \A k \in s .. m - 1 : fifoList[k] \in VictimSet
  BY DEF IInv, ScanInv, End, FirstNotPassed, NotPassed, VictimSet
<1>6. \A k \in 1 .. n : k # i => fifoList[k] # h
  BY <1>1, <1>4, ListIsInjective
<1>7. m # i /\ Len(fifoList') \in Nat /\ Len(fifoList') >= n - 1
  BY <1>1, <1>3, <1>4, <1>5
<1>8. curScan' = IF s > i THEN s - 1 ELSE s
  <2>1. ~(s = i /\ i = Len(Refilled(h)))
    BY <1>1, <1>4, <1>5, <1>7
  <2> QED
    BY <1>2, <1>4, <2>1 DEF ScanAfterErase
<1> HIDE DEF n, s
<1>9. curScan' \in 1 .. n
  BY <1>1, <1>4, <1>5, <1>8
(* What is left to show of a position k.                                   *)
<1>10. ASSUME NEW k \in curScan' .. n - 1, fifoList'[k] = fifoList[m],
              \A j \in curScan' .. k - 1 : fifoList'[j] \in VictimSet \ {h}
       PROVE  FirstNotPassed(k)'
  <2>1. k \in curScan' .. Len(fifoList')
    BY <1>1, <1>7, <1>9
  <2>2. fifoList'[k] \notin Range(victimIds')
    BY <1>3, <1>5, <1>10 DEF VictimSet
  <2> QED
    BY <1>3, <1>10, <2>1, <2>2 DEF FirstNotPassed, NotPassed
<1>11. CASE m < i
  <2>1. m \in curScan' .. n - 1 /\ curScan' = s
    BY <1>1, <1>4, <1>5, <1>8, <1>11
  <2>2. fifoList'[m] = fifoList[m]
    BY <1>4, <1>5, <1>11, <2>1
  <2>3. ASSUME NEW j \in s .. m - 1 PROVE fifoList'[j] \in VictimSet \ {h}
    <3>1. j \in 1 .. n - 1 /\ j < i /\ j # i /\ j \in 1 .. n
      BY <1>1, <1>4, <1>5, <1>11, <2>3
    <3> QED
      BY <1>4, <1>5, <1>6, <2>3, <3>1
  <2> QED
    BY <1>9, <1>10, <2>1, <2>2, <2>3 DEF End
<1>12. CASE m > i
  <2>1. m - 1 \in curScan' .. n - 1 /\ m - 1 \in 1 .. n - 1
    BY <1>1, <1>4, <1>5, <1>8, <1>12
  <2>2. fifoList'[m - 1] = fifoList[m]
    <3>1. ~(m - 1 < i) /\ (m - 1) + 1 = m
      BY <1>4, <1>5, <1>12
    <3> QED
      BY <1>4, <2>1, <3>1
  <2>3. ASSUME NEW j \in curScan' .. m - 1 - 1 PROVE fifoList'[j] \in VictimSet \ {h}
    <3>1. j \in 1 .. n - 1 /\ j \in 1 .. n /\ j + 1 \in 1 .. n
      BY <1>1, <1>5, <1>9, <2>3
    <3>2. CASE j < i
      <4>1. j \in s .. m - 1 /\ j # i
        BY <1>4, <1>5, <1>8, <1>12, <2>3, <3>2
      <4> QED
        BY <1>4, <1>5, <1>6, <3>1, <3>2, <4>1
    <3>3. CASE ~(j < i)
      <4>1. j + 1 \in s .. m - 1 /\ j + 1 # i
        BY <1>4, <1>5, <1>8, <1>12, <2>3, <3>3
      <4> QED
        BY <1>4, <1>5, <1>6, <3>1, <3>3, <4>1
    <3> QED
      BY <3>1, <1>4, <3>2, <3>3
  <2> QED
    BY <1>9, <1>10, <2>1, <2>2, <2>3 DEF End
<1> QED
  BY <1>4, <1>5, <1>7, <1>11, <1>12

LEMMA FirstIsMin ==
  IInv' => \A m : FirstNotPassed(m)' => m \in NotPassed' /\ Min(NotPassed') = m
<1>1. IInv => \A m : FirstNotPassed(m) => m \in NotPassed /\ Min(NotPassed) = m
  BY NotPassedFirst, ListTypes DEF IInv, ScanInv
<1>2. (IInv => \A m : FirstNotPassed(m) => m \in NotPassed /\ Min(NotPassed) = m)'
  BY <1>1, PTL
<1> QED
  BY <1>2

(* The erase never invalidates the iterator: while victims are handed out  *)
(* the next scan keeps the block it goes on at.                            *)
THEOREM Place == Spec => ScanKeepsItsPlace
<1> DEFINE Kept ==
      phase = "distribute" /\ curScan # End /\ NotPassed # {} =>
        /\ curScan' # End /\ NotPassed' # {}
        /\ fifoList'[Min(NotPassed')] = fifoList[Min(NotPassed)]
<1>1. ASSUME IInv, IInv', Next PROVE Kept
  <2> SUFFICES ASSUME phase = "distribute", curScan # End, NotPassed # {}
               PROVE  /\ curScan' # End /\ NotPassed' # {}
                      /\ fifoList'[Min(NotPassed')] = fifoList[Min(NotPassed)]
    OBVIOUS
  <2>1. curScan \in Nat /\ Len(fifoList) \in Nat
    BY <1>1, ListTypes DEF IInv, ScanInv
  <2>2. DistributeToList \/ (Collected /\ UNCHANGED fifoVars)
    BY <1>1 DEF Next, Step, HostWrite, WriteCurrent, WriteNext, StartGC, StartScan, ScanBlock, ScanEnds,
                Cascade, CompactDestination, MoveToDestination, EraseFirst, ResumeWrite
  <2>3. CASE Collected /\ UNCHANGED fifoVars
    <3>1. UNCHANGED <<curScan, fifoList, victimIds>>
      BY <2>3 DEF Collected, fifoVars
    <3>2. NotPassed' = NotPassed
      BY <3>1 DEF NotPassed
    <3> QED
      BY <3>1, <3>2
  <2>4. CASE DistributeToList
    <3>1. PICK m \in NotPassed : FirstNotPassed(m)
      BY <2>1, NotPassedFirst
    <3>2. Min(NotPassed) = m
      BY <2>1, <3>1, NotPassedFirst
    <3>3. PICK k : curScan' # End /\ FirstNotPassed(k)' /\ fifoList'[k] = fifoList[m]
      BY <1>1, <2>4, <3>1, PlaceKept
    <3>4. \A j : FirstNotPassed(j)' => j \in NotPassed' /\ Min(NotPassed') = j
      BY <1>1, FirstIsMin
    <3>5. k \in NotPassed' /\ Min(NotPassed') = k
      BY <3>3, <3>4
    <3> QED
      BY <3>2, <3>3, <3>5
  <2> QED
    BY <2>2, <2>3, <2>4
<1>2. IInv /\ IInv' /\ [Next]_vars => [Kept]_vars
  BY <1>1
<1> HIDE DEF Kept
<1>3. Spec => [][Kept]_vars
  BY <1>2, Inductive, PTL DEF Spec
<1> QED
  BY <1>3 DEF ScanKeepsItsPlace, Kept
=============================================================================
