--------------------------- MODULE GreedyGC_proofs ---------------------------
(***************************************************************************)
(* Proofs about the greedy collectors, for every policy and every size of  *)
(* the device: the mapping stays consistent, blocks stay accounted for,    *)
(* the collectors implement FlashMap, and (all but greedy-k, on a device   *)
(* that is not completely full) a collection always makes room.            *)
(***************************************************************************)
EXTENDS SimBench, SSD_proofs, SequenceTheorems, Lemmas

(* What the calls of performGC know about the blocks they work on; only    *)
(* s2r has a GC block and the loops that fill it.                          *)
PhaseInv ==
  /\ request \in Page \/ phase = "idle"
  /\ policy # "greedy-s2r" => /\ currentGCBlock = NoBlock
                              /\ phase \notin {"move", "compact", "erase"}
  /\ phase \in {"move", "compact", "erase"} => currentGCBlock \in Block
  /\ phase \in {"compact", "erase"} => victim \in Block
  /\ phase = "compact" => fullyWritten(currentGCBlock)
  /\ phase = "erase" => allInvalid(victim)

(* The free list during a call: empty until the victim is in it.  From the *)
(* start of performGC on, every block that is neither listed nor the GC    *)
(* block is full, the current block included.                              *)
ListInv ==
  /\ phase \in {"gc", "move", "compact", "erase"} => freeBlocks = <<>>
  /\ phase = "collected" => Len(freeBlocks) = 1
  /\ phase \notin {"idle", "failed"} =>
       \A b \in Block \ (Range(freeBlocks) \cup {currentGCBlock}) : fullyWritten(b)

IInv ==
  /\ TypeOK /\ MappingAgrees /\ CountsExact /\ TailEmpty
  /\ BlocksAccounted
  /\ PhaseInv
  /\ ListInv

-----------------------------------------------------------------------------
(* Selection finds a full block with the fewest valid pages whenever any   *)
(* block is full.                                                          *)
LEMMA SingleGreedy ==
  ASSUME SSDTypeOK, FullBlocks # {}
  PROVE  /\ singleGreedy \in FullBlocks
         /\ singleGreedy \in Block
         /\ \A b \in FullBlocks : validCnt[singleGreedy] <= validCnt[b]
<1> DEFINE counts == {validCnt[b] : b \in FullBlocks}
<1>1. \A b \in FullBlocks : b \in Block /\ b \in Nat /\ validCnt[b] \in Nat
  BY DEF FullBlocks, SSDTypeOK, Block
<1>2. counts \in SUBSET Nat /\ counts # {}
  BY <1>1
<1>3. PICK n \in counts : \A m \in counts : n <= m
  BY <1>2, LeastNatural
<1> DEFINE best == {b \in FullBlocks : validCnt[b] = n}
<1>4. best \in SUBSET Nat /\ best # {}
  BY <1>1, <1>3
<1>5. PICK v \in best : \A b \in best : v <= b
  BY <1>4, LeastNatural
<1>6. v \in FullBlocks /\ \A b \in FullBlocks :
        validCnt[v] < validCnt[b] \/ (validCnt[v] = validCnt[b] /\ v <= b)
  <2>1. v \in FullBlocks /\ validCnt[v] = n /\ n \in Nat
    BY <1>2, <1>5
  <2>2. SUFFICES ASSUME NEW b \in FullBlocks
                 PROVE  validCnt[v] < validCnt[b] \/ (validCnt[v] = validCnt[b] /\ v <= b)
    BY <2>1
  <2>3. n <= validCnt[b] /\ validCnt[b] \in Nat
    BY <1>1, <1>3
  <2>4. validCnt[b] = n => v <= b
    BY <1>5
  <2> QED
    BY <2>1, <2>3, <2>4
<1>7. /\ singleGreedy \in FullBlocks
      /\ \A b \in FullBlocks : validCnt[singleGreedy] < validCnt[b]
              \/ (validCnt[singleGreedy] = validCnt[b] /\ singleGreedy <= b)
  BY <1>6 DEF singleGreedy
<1> QED
  BY <1>1, <1>7

(* A device whose blocks are all full of valid pages holds a page per slot.*)
LEMMA AllValidNeedsAllPages ==
  ASSUME SSDInv, \A b \in Block : allValid(b)
  PROVE  BlockCount * PagesPerBlock <= Cardinality(Page)
<1> USE DEF SSDInv
<1> DEFINE f == [a \in Block \X Slot |-> ptl[a[1]][a[2]]]
<1>1. \A b \in Block, p \in Slot : ptl[b][p] \in Page /\ ptl[b][p] # unused
  <2>1. \A b \in Block : Live(b) = Slot
    BY AllValidIsFull
  <2> QED
    BY <2>1 DEF Live, SSDTypeOK
<1>2. f \in [Block \X Slot -> Page]
  BY <1>1
<1>3. \A a, c \in Block \X Slot : f[a] = f[c] => a = c
  <2>1. SUFFICES ASSUME NEW a \in Block \X Slot, NEW c \in Block \X Slot, f[a] = f[c]
                 PROVE  a = c
    OBVIOUS
  <2>2. ptl[a[1]][a[2]] = ptl[c[1]][c[2]] /\ a[1] \in Block /\ c[1] \in Block
        /\ a[2] \in Slot /\ c[2] \in Slot
    BY <2>1
  <2>3. a[1] = c[1] /\ a[2] = c[2]
    BY <1>1, <2>2, OneSlotPerPage
  <2> QED
    BY <2>1, <2>3
<1> HIDE DEF f
<1>4. f \in Injection(Block \X Slot, Page)
  BY <1>2, <1>3 DEF Injection, IsInjective
<1>5. Cardinality(Block \X Slot) <= Cardinality(Page)
  BY <1>4, SSDAssumption, FS_Injection
<1>6. IsFiniteSet(Block) /\ Cardinality(Block) = BlockCount
  BY FS_Interval, SSDAssumption DEF Block
<1>7. Cardinality(Block \X Slot) = BlockCount * PagesPerBlock
  BY <1>6, SlotFinite, FS_Product
<1> QED
  BY <1>5, <1>7

-----------------------------------------------------------------------------
(* The list operations of the code, on the elements of the list.           *)
LEMMA TakenHead ==
  ASSUME NEW s \in Seq(Block), s # <<>>
  PROVE  /\ Head(s) \in Block /\ Tail(s) \in Seq(Block)
         /\ Range(s) = {Head(s)} \cup Range(Tail(s))
         /\ Head(s) = s[1] /\ 1 \in DOMAIN s
         /\ \A i \in DOMAIN Tail(s) : Tail(s)[i] = s[i + 1] /\ i + 1 \in DOMAIN s
                                      /\ i \in Nat /\ i # 0
         /\ Len(s) = 1 => Tail(s) = <<>> /\ Range(s) = {Head(s)}
<1>1. /\ Head(s) = s[1] /\ Len(s) \in Nat /\ Len(s) > 0 /\ DOMAIN s = 1 .. Len(s)
      /\ Tail(s) \in Seq(Block) /\ Len(Tail(s)) = Len(s) - 1
      /\ DOMAIN Tail(s) = 1 .. Len(s) - 1
      /\ \A i \in 1 .. Len(s) - 1 : Tail(s)[i] = s[i + 1]
  OBVIOUS
<1>2. Range(s) = {s[i] : i \in DOMAIN s} /\ Range(Tail(s)) = {Tail(s)[i] : i \in DOMAIN Tail(s)}
  BY DEF Range
<1>3. Range(s) = {Head(s)} \cup Range(Tail(s))
  <2>1. \A i \in DOMAIN s : i = 1 \/ (i - 1 \in DOMAIN Tail(s) /\ s[i] = Tail(s)[i - 1])
    BY <1>1
  <2>2. \A i \in DOMAIN Tail(s) : i + 1 \in DOMAIN s /\ s[i + 1] = Tail(s)[i]
    BY <1>1
  <2>3. 1 \in DOMAIN s
    BY <1>1
  <2>4. \A y \in Range(s) : y = Head(s) \/ y \in Range(Tail(s))
    BY <1>1, <1>2, <2>1
  <2>5. Head(s) \in Range(s) /\ \A y \in Range(Tail(s)) : y \in Range(s)
    BY <1>1, <1>2, <2>2, <2>3
  <2> QED
    BY <2>4, <2>5
<1>4. ASSUME Len(s) = 1 PROVE Tail(s) = <<>> /\ Range(s) = {Head(s)}
  <2>1. \A i \in DOMAIN s : i = 1
    BY <1>1, <1>4
  <2> QED
    BY <1>1, <1>2, <1>4, <2>1
<1> QED
  BY <1>1, <1>3, <1>4

LEMMA EmptyListRange == Range(<<>>) = {}
  BY DEF Range

LEMMA OneElementList ==
  ASSUME NEW v \in Block
  PROVE  /\ Append(<<>>, v) \in Seq(Block) /\ Append(<<>>, v) # <<>>
         /\ Len(Append(<<>>, v)) = 1 /\ Head(Append(<<>>, v)) = v
         /\ Range(Append(<<>>, v)) = {v}
         /\ \A i, j \in DOMAIN Append(<<>>, v) : i = j
<1>1. Append(<<>>, v) = <<v>>
  OBVIOUS
<1>2. DOMAIN <<v>> = {1} /\ <<v>>[1] = v
  OBVIOUS
<1>3. Range(<<v>>) = {v}
  BY <1>2 DEF Range
<1> QED
  BY <1>1, <1>2, <1>3

(* The two ways in which a page goes to the first free block.              *)
LEMMA TakePreserves ==
  ASSUME IInv, NEW x \in Page, TakeFreeBlock(x),
         phase \in {"idle", "collected"}, phase' = "idle",
         phase = "idle" => ~canWrite(currentBlock),
         request' \in Page \cup {unused}
  PROVE  IInv'
<1> USE DEF IInv
<1> DEFINE h == Head(freeBlocks)
<1>1. /\ h \in Block /\ Tail(freeBlocks) \in Seq(Block)
      /\ Range(freeBlocks) = {h} \cup Range(Tail(freeBlocks))
      /\ h = freeBlocks[1] /\ 1 \in DOMAIN freeBlocks
      /\ \A i \in DOMAIN Tail(freeBlocks) :
            Tail(freeBlocks)[i] = freeBlocks[i + 1] /\ i + 1 \in DOMAIN freeBlocks
            /\ i \in Nat /\ i # 0
  BY TakenHead DEF TakeFreeBlock, TypeOK
<1>2. SSDWrite(x, h) /\ currentBlock' = h /\ freeBlocks' = Tail(freeBlocks)
      /\ UNCHANGED <<policy, currentGCBlock, victim>>
  BY DEF TakeFreeBlock
<1>3. SSDInv
  BY DEF SSDInv, TypeOK
<1>4. SSDInv'
  BY <1>1, <1>2, <1>3, WriteConsistent
<1>5. \A b \in Block \ {h} : writePos'[b] = writePos[b]
  BY <1>1, <1>2 DEF SSDWrite, TypeOK, SSDTypeOK
<1>6. TypeOK'
  BY <1>1, <1>2, <1>4 DEF SSDInv, TypeOK, Phases
<1>7. \A i, j \in DOMAIN freeBlocks : freeBlocks[i] = freeBlocks[j] => i = j
  BY DEF BlocksAccounted
<1>8. h \notin Range(Tail(freeBlocks))
  BY <1>1, <1>7 DEF Range
<1>9. \A i, j \in DOMAIN Tail(freeBlocks) :
         Tail(freeBlocks)[i] = Tail(freeBlocks)[j] => i = j
  <2>1. SUFFICES ASSUME NEW i \in DOMAIN Tail(freeBlocks), NEW j \in DOMAIN Tail(freeBlocks),
                        Tail(freeBlocks)[i] = Tail(freeBlocks)[j]
                 PROVE  i = j
    OBVIOUS
  <2>2. i + 1 = j + 1 /\ i \in Nat /\ j \in Nat
    BY <1>1, <1>7, <2>1
  <2> QED
    BY <2>2
<1>10. ASSUME NEW b \in Block \ (Range(Tail(freeBlocks)) \cup {h, currentGCBlock})
       PROVE  writePos'[b] = PagesPerBlock
  <2>1. b \in Block \ (Range(freeBlocks) \cup {currentGCBlock})
    BY <1>1
  <2>2. fullyWritten(b)
    <3>1. CASE phase = "idle"
      BY <2>1, <3>1, WritableOrFull DEF BlocksAccounted, TypeOK
    <3>2. CASE phase = "collected"
      BY <2>1, <3>2 DEF ListInv
    <3> QED
      BY <3>1, <3>2
  <2> QED
    BY <1>5, <2>2 DEF fullyWritten
<1>11. BlocksAccounted'
  BY <1>2, <1>8, <1>9, <1>10 DEF BlocksAccounted, fullyWritten
<1>12. PhaseInv' /\ ListInv'
  BY <1>2 DEF PhaseInv, ListInv
<1> QED
  BY <1>4, <1>6, <1>11, <1>12 DEF SSDInv

(* Compacting any block and listing it.                                    *)
LEMMA CollectPreserves ==
  ASSUME IInv, NEW v \in Block, CollectInPlace(v)
  PROVE  IInv'
<1> USE DEF IInv
<1>1. /\ CompactBlock(v) /\ freeBlocks' = Append(<<>>, v) /\ phase = "gc"
      /\ phase' = "collected" /\ UNCHANGED <<policy, currentBlock, currentGCBlock, victim, request>>
  BY DEF CollectInPlace, ListInv
<1>2. SSDInv'
  BY <1>1, CompactConsistent DEF SSDInv, TypeOK
<1>3. \A b \in Block \ {v} : writePos'[b] = writePos[b]
  BY <1>1 DEF CompactBlock, TypeOK, SSDTypeOK
<1>4. TypeOK'
  BY <1>1, <1>2, OneElementList DEF SSDInv, TypeOK, Phases
<1>5. \A b \in Block \ {v, currentGCBlock} : writePos'[b] = PagesPerBlock
  <2>1. \A b \in Block \ {currentGCBlock} : fullyWritten(b)
    BY <1>1, EmptyListRange DEF ListInv
  <2> QED
    BY <1>3, <2>1 DEF fullyWritten
<1>6. BlocksAccounted'
  BY <1>1, <1>5, OneElementList DEF BlocksAccounted, fullyWritten
<1>7. PhaseInv'
  BY <1>1 DEF PhaseInv
<1>8. ListInv'
  BY <1>1, <1>5, OneElementList DEF ListInv, fullyWritten
<1> QED
  BY <1>2, <1>4, <1>6, <1>7, <1>8 DEF SSDInv

(* Opening a GC block: the previous one, if any, is full of valid pages.   *)
LEMMA OpenPreserves ==
  ASSUME IInv, OpenGCBlock
  PROVE  IInv'
<1> USE DEF IInv
<1> DEFINE v == singleGreedy
<1>1. /\ phase = "gc" /\ NeedsGCBlock /\ FullBlocks # {} /\ CompactBlock(v)
      /\ currentGCBlock' = v /\ phase' \in {"move", "failed"}
      /\ UNCHANGED <<policy, freeBlocks, currentBlock, victim, request>>
      /\ freeBlocks = <<>>
  BY DEF OpenGCBlock, ListInv
<1>2. v \in Block
  BY <1>1, SingleGreedy DEF TypeOK
<1>3. SSDInv /\ SSDInv'
  BY <1>1, <1>2, CompactConsistent DEF SSDInv, TypeOK
<1>4. TypeOK'
  BY <1>1, <1>2, <1>3 DEF SSDInv, TypeOK, Phases
<1>5. \A b \in Block : fullyWritten(b)
  <2>1. \A b \in Block \ {currentGCBlock} : fullyWritten(b)
    BY <1>1, EmptyListRange DEF ListInv
  <2>2. currentGCBlock \in Block => allValid(currentGCBlock)
    BY <1>1 DEF NeedsGCBlock, NoBlock, Block
  <2>3. currentGCBlock \in Block => fullyWritten(currentGCBlock)
    BY <1>3, <2>2, AllValidIsFull
  <2> QED
    BY <2>1, <2>3
<1>6. \A b \in Block \ {v} : writePos'[b] = PagesPerBlock
  BY <1>1, <1>5 DEF CompactBlock, TypeOK, SSDTypeOK, fullyWritten
<1>7. BlocksAccounted'
  BY <1>1, <1>6, EmptyListRange DEF BlocksAccounted, fullyWritten
<1>8. PhaseInv'
  BY <1>1, <1>2 DEF PhaseInv, OpenGCBlock
<1>9. ListInv'
  BY <1>1, <1>6, EmptyListRange DEF ListInv, fullyWritten
<1> QED
  BY <1>3, <1>4, <1>7, <1>8, <1>9 DEF SSDInv

(* Moving a victim's pages: the victim stays full of written slots, and it *)
(* is empty of valid ones or the GC block is full.                         *)
LEMMA MovePreserves ==
  ASSUME IInv, MoveVictim
  PROVE  IInv'
<1> USE DEF IInv
<1> DEFINE v == singleGreedy
           d == currentGCBlock
<1>1. /\ phase = "move" /\ FullBlocks # {} /\ victim' = v
      /\ MoveValidPagesTo(v, d)
      /\ phase' = IF LeavesPages(v, d) THEN "compact" ELSE "erase"
      /\ UNCHANGED <<policy, freeBlocks, currentBlock, currentGCBlock, request>>
      /\ freeBlocks = <<>> /\ d \in Block
  BY DEF MoveVictim, ListInv, PhaseInv
<1>2. v \in Block /\ fullyWritten(v)
  <2>1. v \in FullBlocks
    BY <1>1, SingleGreedy DEF TypeOK
  <2> QED
    BY <2>1 DEF FullBlocks
<1>3. SSDInv /\ SSDInv'
  BY <1>1, <1>2, MoveConsistent DEF SSDInv, TypeOK
<1>4. /\ ~LeavesPages(v, d) => validCnt'[v] = 0
      /\ LeavesPages(v, d) => writePos'[d] = PagesPerBlock
      /\ \A c \in Block \ {d} : writePos'[c] = writePos[c]
  BY <1>1, <1>2, <1>3, MoveEmptiesOrFills
<1>5. TypeOK'
  BY <1>1, <1>2, <1>3 DEF SSDInv, TypeOK, Phases
<1>6. \A b \in Block \ {d} : writePos'[b] = PagesPerBlock
  <2>1. \A b \in Block \ {d} : fullyWritten(b)
    BY <1>1, EmptyListRange DEF ListInv
  <2> QED
    BY <1>4, <2>1 DEF fullyWritten
<1>7. BlocksAccounted'
  BY <1>1, <1>6, EmptyListRange DEF BlocksAccounted, fullyWritten
<1>8. PhaseInv'
  <2>1. (request' \in Page \/ phase' = "idle") /\ policy' = "greedy-s2r"
    BY <1>1 DEF PhaseInv
  <2>2. currentGCBlock' \in Block /\ victim' \in Block
    BY <1>1, <1>2
  <2>3. CASE LeavesPages(v, d)
    <3>1. phase' = "compact" /\ writePos'[currentGCBlock'] = PagesPerBlock
      BY <1>1, <1>4, <2>3
    <3> QED
      BY <2>1, <2>2, <3>1 DEF PhaseInv, fullyWritten
  <2>4. CASE ~LeavesPages(v, d)
    <3>1. phase' = "erase" /\ validCnt'[victim'] = 0
      BY <1>1, <1>4, <2>4
    <3> QED
      BY <2>1, <2>2, <3>1 DEF PhaseInv, allInvalid
  <2> QED
    BY <2>3, <2>4
<1>9. ListInv'
  BY <1>1, <1>6, EmptyListRange DEF ListInv, fullyWritten
<1> QED
  BY <1>3, <1>5, <1>7, <1>8, <1>9 DEF SSDInv

(* The victim that did not fit becomes the GC block; the old one is full.  *)
LEMMA BecomesPreserves ==
  ASSUME IInv, VictimBecomesGCBlock
  PROVE  IInv'
<1> USE DEF IInv
<1>1. /\ phase = "compact" /\ CompactBlock(victim) /\ currentGCBlock' = victim
      /\ victim' = NoBlock /\ phase' = "move"
      /\ UNCHANGED <<policy, freeBlocks, currentBlock, request>>
      /\ freeBlocks = <<>> /\ victim \in Block /\ fullyWritten(currentGCBlock)
  BY DEF VictimBecomesGCBlock, ListInv, PhaseInv
<1>2. SSDInv'
  BY <1>1, CompactConsistent DEF SSDInv, TypeOK
<1>3. TypeOK'
  BY <1>1, <1>2 DEF SSDInv, TypeOK, Phases
<1>4. \A b \in Block \ {victim} : writePos'[b] = PagesPerBlock
  <2>1. \A b \in Block : fullyWritten(b)
    BY <1>1, EmptyListRange DEF ListInv
  <2> QED
    BY <1>1, <2>1 DEF CompactBlock, TypeOK, SSDTypeOK, fullyWritten
<1>5. BlocksAccounted'
  BY <1>1, <1>4, EmptyListRange DEF BlocksAccounted, fullyWritten
<1>6. PhaseInv'
  BY <1>1 DEF PhaseInv
<1>7. ListInv'
  BY <1>1, <1>4, EmptyListRange DEF ListInv, fullyWritten
<1> QED
  BY <1>2, <1>3, <1>5, <1>6, <1>7 DEF SSDInv

(* The victim without valid pages is erased and listed.                    *)
LEMMA ErasePreserves ==
  ASSUME IInv, EraseVictim
  PROVE  IInv'
<1> USE DEF IInv
<1>1. /\ phase = "erase" /\ EraseBlock(victim) /\ freeBlocks' = Append(<<>>, victim)
      /\ victim' = NoBlock /\ phase' = "collected"
      /\ UNCHANGED <<policy, currentBlock, currentGCBlock, request>>
      /\ victim \in Block /\ allInvalid(victim)
  BY DEF EraseVictim, ListInv, PhaseInv
<1>2. SSDInv'
  BY <1>1, EraseConsistent DEF SSDInv, TypeOK
<1>3. TypeOK'
  BY <1>1, <1>2, OneElementList DEF SSDInv, TypeOK, Phases
<1>4. \A b \in Block \ {victim, currentGCBlock} : writePos'[b] = PagesPerBlock
  <2>1. \A b \in Block \ {currentGCBlock} : fullyWritten(b)
    BY <1>1, EmptyListRange DEF ListInv
  <2> QED
    BY <1>1, <2>1 DEF EraseBlock, TypeOK, SSDTypeOK, fullyWritten
<1>5. BlocksAccounted'
  BY <1>1, <1>4, OneElementList DEF BlocksAccounted, fullyWritten
<1>6. PhaseInv'
  BY <1>1 DEF PhaseInv
<1>7. ListInv'
  BY <1>1, <1>4, OneElementList DEF ListInv, fullyWritten
<1> QED
  BY <1>2, <1>3, <1>5, <1>6, <1>7 DEF SSDInv

-----------------------------------------------------------------------------
LEMMA InitInv == Init => IInv
<1> SUFFICES ASSUME Init PROVE IInv
  OBVIOUS
<1>1. SSDInv
  BY InitConsistent DEF Init
<1> DEFINE list == [i \in 1 .. BlockCount - 1 |-> i]
<1>2. BlockCount \in Nat /\ BlockCount > 0
  BY SSDAssumption
<1>3. freeBlocks = list /\ list \in Seq(Block) /\ DOMAIN list = 1 .. BlockCount - 1
  BY <1>2 DEF Init, Block
<1>4. TypeOK
  BY <1>1, <1>2, <1>3 DEF SSDInv, TypeOK, Init, gcAlgorithm, Phases, Block
<1>5. \A b \in Block : b = 0 \/ b \in Range(list)
  <2>1. \A b \in Block : b # 0 => b \in DOMAIN list /\ list[b] = b
    BY <1>2 DEF Block
  <2> QED
    BY <2>1 DEF Range
<1>6. 0 \notin Range(list)
  BY <1>2, <1>3 DEF Range
<1>7. BlocksAccounted
  BY <1>2, <1>3, <1>5, <1>6 DEF BlocksAccounted, Init
<1>8. PhaseInv /\ ListInv
  BY DEF PhaseInv, ListInv, Init
<1> QED
  BY <1>1, <1>4, <1>7, <1>8 DEF SSDInv, IInv

LEMMA StepPreserves == IInv /\ [Next]_vars => IInv'
<1> SUFFICES ASSUME IInv, [Next]_vars PROVE IInv'
  OBVIOUS
<1> USE DEF IInv
<1>1. ASSUME NEW x \in Page, WriteCurrent(x) PROVE IInv'
  <2>1. SSDWrite(x, currentBlock) /\ phase = "idle" /\ UNCHANGED gcVars
    BY <1>1 DEF WriteCurrent
  <2>2. currentBlock \in Block /\ SSDInv
    BY DEF TypeOK, SSDInv
  <2>3. SSDInv'
    BY <2>1, <2>2, WriteConsistent
  <2>4. \A b \in Block \ {currentBlock} : writePos'[b] = writePos[b]
    BY <2>1, <2>2 DEF SSDWrite, TypeOK, SSDTypeOK
  <2>5. TypeOK'
    BY <2>1, <2>3 DEF SSDInv, TypeOK, gcVars
  <2>6. BlocksAccounted' /\ PhaseInv' /\ ListInv'
    BY <2>1, <2>4 DEF BlocksAccounted, PhaseInv, ListInv, gcVars, fullyWritten
  <2> QED
    BY <2>3, <2>5, <2>6 DEF SSDInv
<1>2. ASSUME NEW x \in Page, WriteNext(x) PROVE IInv'
  <2>1. /\ TakeFreeBlock(x) /\ phase = "idle" /\ phase' = "idle"
        /\ ~canWrite(currentBlock) /\ request' \in Page \cup {unused}
    BY <1>2 DEF WriteNext, TypeOK
  <2> QED
    BY <2>1, TakePreserves
<1>3. ASSUME NEW x \in Page, StartGC(x) PROVE IInv'
  <2>1. /\ freeBlocks = <<>> /\ ~canWrite(currentBlock) /\ phase = "idle"
        /\ phase' = "gc" /\ request' = x
        /\ UNCHANGED <<ssdVars, policy, freeBlocks, currentBlock, currentGCBlock, victim>>
    BY <1>3 DEF StartGC
  <2>2. UNCHANGED <<ptl, writePos, validCnt, ltp>>
    BY <2>1 DEF ssdVars
  <2>3. SSDTypeOK' /\ MappingAgrees' /\ CountsExact' /\ TailEmpty'
    BY <2>2 DEF TypeOK, SSDTypeOK, MappingAgrees, CountsExact, TailEmpty, Live
  <2>4. fullyWritten(currentBlock)
    BY <2>1, WritableOrFull DEF TypeOK
  <2>5. \A b \in Block \ {currentGCBlock} : writePos[b] = PagesPerBlock
    BY <2>1, <2>4, EmptyListRange DEF BlocksAccounted, fullyWritten
  <2>6. TypeOK' /\ PhaseInv'
    BY <2>1, <2>3 DEF TypeOK, PhaseInv, Phases
  <2>7. BlocksAccounted' /\ ListInv'
    BY <2>1, <2>2, <2>5, EmptyListRange DEF BlocksAccounted, ListInv, fullyWritten
  <2> QED
    BY <2>3, <2>6, <2>7
<1>4. ASSUME ResumeWrite PROVE IInv'
  <2>1. /\ TakeFreeBlock(request) /\ phase = "collected" /\ phase' = "idle"
        /\ request' = unused /\ request \in Page
    BY <1>4 DEF ResumeWrite, PhaseInv
  <2> QED
    BY <2>1, TakePreserves
<1>5. ASSUME ResumeFails PROVE IInv'
  <2>1. /\ phase = "collected" /\ phase' = "failed" /\ currentBlock' = Head(freeBlocks)
        /\ freeBlocks' = Tail(freeBlocks)
        /\ UNCHANGED <<ssdVars, policy, currentGCBlock, victim, request>>
    BY <1>5 DEF ResumeFails
  <2>2. UNCHANGED <<ptl, writePos, validCnt, ltp>>
    BY <2>1 DEF ssdVars
  <2>3. SSDTypeOK' /\ MappingAgrees' /\ CountsExact' /\ TailEmpty'
    BY <2>2 DEF TypeOK, SSDTypeOK, MappingAgrees, CountsExact, TailEmpty, Live
  <2>4. Len(freeBlocks) = 1 /\ freeBlocks \in Seq(Block) /\ freeBlocks # <<>>
    <3>1. Len(freeBlocks) = 1 /\ freeBlocks \in Seq(Block)
      BY <2>1 DEF ListInv, TypeOK
    <3> QED
      BY <3>1, EmptySeq
  <2>5. freeBlocks' = <<>> /\ Range(freeBlocks) = {currentBlock'} /\ currentBlock' \in Block
    BY <2>1, <2>4, TakenHead
  <2>6. TypeOK' /\ PhaseInv' /\ ListInv'
    BY <2>1, <2>3, <2>5 DEF TypeOK, PhaseInv, ListInv, Phases
  <2>7. \A b \in Block \ {currentBlock', currentGCBlock} : writePos[b] = PagesPerBlock
    BY <2>1, <2>5 DEF ListInv, fullyWritten
  <2>8. /\ \A i, j \in DOMAIN freeBlocks' : i = j
        /\ Range(freeBlocks') = {}
    BY <2>5, EmptyListRange
  <2>9. BlocksAccounted'
    BY <2>1, <2>2, <2>7, <2>8 DEF BlocksAccounted, fullyWritten
  <2> QED
    BY <2>3, <2>6, <2>9
<1>6. ASSUME CollectGreedy PROVE IInv'
  BY <1>6, SingleGreedy, CollectPreserves DEF CollectGreedy, TypeOK
<1>7. ASSUME CollectBestOfK PROVE IInv'
  BY <1>7, CollectPreserves DEF CollectBestOfK, BestOfK
<1>8. ASSUME KeepGCBlock PROVE IInv'
  <2>1. /\ phase = "gc" /\ phase' = "move" /\ ~NeedsGCBlock
        /\ UNCHANGED <<ssdVars, policy, freeBlocks, currentBlock, currentGCBlock, victim, request>>
    BY <1>8 DEF KeepGCBlock
  <2>2. UNCHANGED <<ptl, writePos, validCnt, ltp>>
    BY <2>1 DEF ssdVars
  <2>3. SSDTypeOK' /\ MappingAgrees' /\ CountsExact' /\ TailEmpty'
    BY <2>2 DEF TypeOK, SSDTypeOK, MappingAgrees, CountsExact, TailEmpty, Live
  <2>4. currentGCBlock \in Block
    BY <2>1 DEF NeedsGCBlock, TypeOK
  <2>5. TypeOK' /\ PhaseInv' /\ ListInv'
    BY <1>8, <2>1, <2>2, <2>3, <2>4 DEF TypeOK, PhaseInv, ListInv, Phases, fullyWritten, KeepGCBlock
  <2>6. BlocksAccounted'
    BY <2>1, <2>2 DEF BlocksAccounted, fullyWritten
  <2> QED
    BY <2>3, <2>5, <2>6
<1>9. ASSUME UNCHANGED vars PROVE IInv'
  <2>1. UNCHANGED <<ptl, writePos, validCnt, ltp>> /\ UNCHANGED gcVars
    BY <1>9 DEF vars, ssdVars
  <2>2. SSDTypeOK' /\ MappingAgrees' /\ CountsExact' /\ TailEmpty'
    BY <2>1 DEF TypeOK, SSDTypeOK, MappingAgrees, CountsExact, TailEmpty, Live
  <2>3. TypeOK' /\ BlocksAccounted' /\ PhaseInv' /\ ListInv'
    BY <2>1, <2>2 DEF TypeOK, BlocksAccounted, PhaseInv, ListInv, gcVars, fullyWritten,
                      allInvalid
  <2> QED
    BY <2>2, <2>3
<1> QED
  BY <1>1, <1>2, <1>3, <1>4, <1>5, <1>6, <1>7, <1>8, <1>9, OpenPreserves, MovePreserves,
     BecomesPreserves, ErasePreserves
  DEF Next, HostWrite, Step, Collect

LEMMA Inductive == Spec => []IInv
BY InitInv, StepPreserves, PTL DEF Spec

(* Under every policy: every variable has its type, and no slot at or      *)
(* after a block's write position holds a page.                            *)
THEOREM Types == Spec => [](TypeOK /\ TailEmpty)
<1>1. IInv => TypeOK /\ TailEmpty
  BY DEF IInv
<1> QED
  BY Inductive, <1>1, PTL

(* The two directions of the mapping agree between any two moves of a      *)
(* collection.                                                             *)
THEOREM Mapping == Spec => []MappingAgrees
<1>1. IInv => MappingAgrees
  BY DEF IInv
<1> QED
  BY Inductive, <1>1, PTL

(* The cached counters victims are selected by count what the slots hold.  *)
THEOREM Counters == Spec => []CountsExact
<1>1. IInv => CountsExact
  BY DEF IInv
<1> QED
  BY Inductive, <1>1, PTL

(* No block is lost, and none is free and in use.                          *)
THEOREM Blocks == Spec => []BlocksAccounted
<1>1. IInv => BlocksAccounted
  BY DEF IInv
<1> QED
  BY Inductive, <1>1, PTL

-----------------------------------------------------------------------------
(* When every block is full, the best victim has an invalid page, unless   *)
(* every slot of the device holds a page.                                  *)
LEMMA VictimHasGarbage ==
  ASSUME SSDInv, Cardinality(Page) < BlockCount * PagesPerBlock,
         \A b \in Block : fullyWritten(b)
  PROVE  singleGreedy \in Block /\ validCnt[singleGreedy] < PagesPerBlock
<1> USE DEF SSDInv
<1>1. FullBlocks = Block /\ 0 \in Block
  BY SSDAssumption DEF FullBlocks, Block
<1>2. singleGreedy \in Block /\ \A b \in Block : validCnt[singleGreedy] <= validCnt[b]
  BY <1>1, SingleGreedy
<1>3. \A b \in Block : validCnt[b] \in Nat /\ validCnt[b] <= PagesPerBlock
  BY SSDAssumption DEF SSDTypeOK
<1>4. ~ (validCnt[singleGreedy] = PagesPerBlock)
  <2>1. SUFFICES ASSUME validCnt[singleGreedy] = PagesPerBlock PROVE FALSE
    OBVIOUS
  <2>2. \A b \in Block : allValid(b)
    BY <1>2, <1>3, <2>1, SSDAssumption DEF allValid
  <2>3. BlockCount * PagesPerBlock <= Cardinality(Page)
    BY <2>2, AllValidNeedsAllPages
  <2>4. BlockCount * PagesPerBlock \in Nat /\ Cardinality(Page) \in Nat
    BY SSDAssumption, FS_CardinalityType
  <2> QED
    BY <2>3, <2>4
<1> QED
  BY <1>2, <1>3, <1>4, SSDAssumption

(* The policy is an option of the command line.                            *)
LEMMA PolicyIsFixed == [Next]_vars => policy' = policy
BY DEF Next, HostWrite, Step, Collect, WriteCurrent, WriteNext, StartGC, TakeFreeBlock, ResumeWrite,
       ResumeFails, CollectGreedy, CollectBestOfK, CollectInPlace, OpenGCBlock, KeepGCBlock,
       MoveVictim, VictimBecomesGCBlock, EraseVictim, vars, gcVars

(* Greedy and s2r never run into the ensures of writePage and always find  *)
(* room, as soon as the host's pages leave one slot of the device free.    *)
THEOREM RoomAfterCollection ==
  ASSUME Cardinality(Page) < BlockCount * PagesPerBlock
  PROVE  Spec => []CollectionMakesRoom
<1>1. Init => CollectionMakesRoom
  BY DEF Init, CollectionMakesRoom, EnsureHolds
<1>2. IInv /\ CollectionMakesRoom /\ [Next]_vars => CollectionMakesRoom'
  <2> DEFINE Room == phase # "failed" /\ EnsureHolds
  <2>0. [Next]_vars => policy' = policy
    BY PolicyIsFixed
  <2> SUFFICES ASSUME IInv, [Next]_vars, policy # "greedy-k", Room PROVE Room'
    BY <2>0 DEF CollectionMakesRoom
  <2> USE DEF IInv
  <2>1. SSDInv
    BY DEF SSDInv, TypeOK
  <2>2. ASSUME NEW x \in Page, HostWrite(x) PROVE Room'
    BY <2>2 DEF HostWrite, WriteCurrent, WriteNext, StartGC, gcVars, EnsureHolds
  <2>3. ASSUME ResumeWrite PROVE Room'
    BY <2>3 DEF ResumeWrite, EnsureHolds
  <2>4. ASSUME ResumeFails PROVE FALSE
    BY <2>4 DEF ResumeFails, EnsureHolds
  <2>5. ASSUME CollectGreedy PROVE Room'
    <3> DEFINE v == singleGreedy
    <3>1. /\ CompactBlock(v) /\ freeBlocks' = Append(<<>>, v) /\ phase = "gc"
          /\ phase' = "collected" /\ UNCHANGED currentGCBlock
      BY <2>5 DEF CollectGreedy, CollectInPlace, ListInv
    <3>2. currentGCBlock \notin Block
      BY <2>5 DEF CollectGreedy, PhaseInv, NoBlock, Block
    <3>3. \A b \in Block : fullyWritten(b)
      BY <3>1, <3>2, EmptyListRange DEF CollectGreedy, CollectInPlace, ListInv
    <3>4. v \in Block /\ validCnt[v] < PagesPerBlock
      BY <2>1, <3>3, VictimHasGarbage
    <3>5. writePos'[v] = validCnt[v]
      BY <2>1, <3>1, <3>4, CompactConsistent
    <3>6. Head(freeBlocks') = v
      BY <3>1, <3>4, OneElementList
    <3> QED
      BY <3>1, <3>4, <3>5, <3>6 DEF EnsureHolds, canWrite
  <2>6. ASSUME CollectBestOfK PROVE FALSE
    BY <2>6 DEF CollectBestOfK
  <2>7. ASSUME OpenGCBlock PROVE Room'
    <3>1. /\ phase = "gc" /\ NeedsGCBlock
          /\ phase' = IF allValid(singleGreedy) THEN "failed" ELSE "move"
      BY <2>7 DEF OpenGCBlock
    <3>2. currentGCBlock \in Block => fullyWritten(currentGCBlock)
      <4>1. currentGCBlock \in Block => allValid(currentGCBlock)
        BY <3>1 DEF NeedsGCBlock, NoBlock, Block
      <4> QED
        BY <2>1, <4>1, AllValidIsFull
    <3>3. \A b \in Block : fullyWritten(b)
      BY <3>1, <3>2, EmptyListRange DEF ListInv
    <3>4. singleGreedy \in Block /\ validCnt[singleGreedy] < PagesPerBlock
      BY <2>1, <3>3, VictimHasGarbage
    <3>5. ~allValid(singleGreedy)
      <4>1. validCnt[singleGreedy] \in Nat /\ PagesPerBlock \in Nat
        BY <3>4, SSDAssumption DEF TypeOK, SSDTypeOK
      <4> QED
        BY <3>4, <4>1 DEF allValid
    <3> QED
      BY <3>1, <3>5 DEF EnsureHolds
  <2>8. ASSUME KeepGCBlock \/ MoveVictim \/ VictimBecomesGCBlock
        PROVE  Room'
    BY <2>8 DEF KeepGCBlock, MoveVictim, VictimBecomesGCBlock, EnsureHolds
  <2>9. ASSUME EraseVictim PROVE Room'
    <3>1. /\ freeBlocks' = Append(<<>>, victim) /\ phase' = "collected"
          /\ EraseBlock(victim) /\ victim \in Block
      BY <2>9 DEF EraseVictim, ListInv, PhaseInv
    <3>2. Head(freeBlocks') = victim /\ writePos'[victim] = 0
      BY <3>1, OneElementList DEF EraseBlock, TypeOK, SSDTypeOK
    <3> QED
      BY <3>1, <3>2, SSDAssumption DEF EnsureHolds, canWrite
  <2>10. ASSUME UNCHANGED vars PROVE Room'
    BY <2>10 DEF vars, ssdVars, gcVars, EnsureHolds, canWrite
  <2> QED
    BY <2>2, <2>3, <2>4, <2>5, <2>6, <2>7, <2>8, <2>9, <2>10 DEF Next, Step, Collect
<1> QED
  BY <1>1, <1>2, InitInv, StepPreserves, PTL DEF Spec

-----------------------------------------------------------------------------
(* Under every policy the device behaves like the ideal map: a page the    *)
(* host wrote is in exactly one place until it is written again.           *)
THEOREM Refinement == Spec => ImplementsFlashMap
<1>1. Init => Promise!Init
  <2> SUFFICES ASSUME Init PROVE Promise!Init
    OBVIOUS
  <2>1. SSDInv
    BY InitConsistent DEF Init
  <2>2. Placed = ltp
    BY <2>1, PlacedIsMapping DEF SSDInv
  <2> QED
    BY <2>2 DEF Promise!Init, Init, SSDInit
<1>2. IInv /\ IInv' /\ [Next]_vars => [Promise!Next]_Placed
  <2> SUFFICES ASSUME IInv, IInv', [Next]_vars PROVE [Promise!Next]_Placed
    OBVIOUS
  <2>1. SSDInv /\ SSDInv'
    BY DEF IInv, SSDInv, TypeOK
  <2>2. ASSUME UNCHANGED ssdVars PROVE UNCHANGED Placed
    BY <2>2 DEF ssdVars, Placed, Copies
  <2>3. ASSUME NEW x \in Page, NEW b \in Block, SSDWrite(x, b) PROVE Promise!Next
    BY <2>1, <2>3, WriteRefines DEF Promise!Next
  <2>4. ASSUME NEW b \in Block, CompactBlock(b) PROVE Promise!Next
    BY <2>1, <2>4, CompactKeepsPages, RelocationRefines DEF Promise!Next
  <2>5. ASSUME NEW s \in Block, NEW d \in Block, MoveValidPagesTo(s, d) PROVE Promise!Next
    BY <2>1, <2>5, MoveKeepsPages, RelocationRefines DEF Promise!Next
  <2>6. ASSUME NEW b \in Block, EraseBlock(b) PROVE Promise!Next
    BY <2>1, <2>6, RelocationRefines DEF Promise!Next, EraseBlock
  <2>7. ASSUME NEW x \in Page, HostWrite(x) PROVE [Promise!Next]_Placed
    <3>1. CASE WriteCurrent(x)
      BY <2>3, <3>1 DEF WriteCurrent, IInv, TypeOK
    <3>2. CASE WriteNext(x)
      BY <2>3, <3>2, TakenHead DEF WriteNext, TakeFreeBlock, IInv, TypeOK
    <3>3. CASE StartGC(x)
      BY <2>2, <3>3 DEF StartGC
    <3> QED
      BY <2>7, <3>1, <3>2, <3>3 DEF HostWrite
  <2>8. ASSUME ResumeWrite PROVE Promise!Next
    <3>1. request \in Page /\ freeBlocks # <<>> /\ SSDWrite(request, Head(freeBlocks))
      BY <2>8 DEF ResumeWrite, TakeFreeBlock, IInv, PhaseInv
    <3>2. Head(freeBlocks) \in Block
      BY <3>1, TakenHead DEF IInv, TypeOK
    <3> QED
      BY <2>3, <3>1, <3>2
  <2>9. ASSUME ResumeFails \/ KeepGCBlock PROVE UNCHANGED Placed
    BY <2>2, <2>9 DEF ResumeFails, KeepGCBlock
  <2>10. ASSUME CollectGreedy \/ OpenGCBlock PROVE Promise!Next
    <3>1. singleGreedy \in Block /\ CompactBlock(singleGreedy)
      BY <2>10, SingleGreedy DEF CollectGreedy, CollectInPlace, OpenGCBlock, IInv, TypeOK
    <3> QED
      BY <2>4, <3>1
  <2>11. ASSUME CollectBestOfK PROVE Promise!Next
    BY <2>4, <2>11 DEF CollectBestOfK, CollectInPlace, BestOfK
  <2>12. ASSUME MoveVictim PROVE Promise!Next
    <3>1. singleGreedy \in Block /\ currentGCBlock \in Block
          /\ MoveValidPagesTo(singleGreedy, currentGCBlock)
      BY <2>12, SingleGreedy DEF MoveVictim, IInv, TypeOK, PhaseInv
    <3> QED
      BY <2>5, <3>1
  <2>13. ASSUME VictimBecomesGCBlock PROVE Promise!Next
    BY <2>4, <2>13 DEF VictimBecomesGCBlock, IInv, PhaseInv
  <2>14. ASSUME EraseVictim PROVE Promise!Next
    BY <2>6, <2>14 DEF EraseVictim, IInv, PhaseInv
  <2>15. ASSUME UNCHANGED vars PROVE UNCHANGED Placed
    BY <2>2, <2>15 DEF vars
  <2> QED
    BY <2>7, <2>8, <2>9, <2>10, <2>11, <2>12, <2>13, <2>14, <2>15 DEF Next, Step, Collect
<1>3. Spec => []IInv
  BY InitInv, StepPreserves, PTL DEF Spec
<1> QED
  BY <1>1, <1>2, <1>3, PTL DEF Spec, ImplementsFlashMap, Promise!Spec
-----------------------------------------------------------------------------
(* If every block holds at least m pages, m times the number of blocks are *)
(* stored: the pages of a block are numbered, and no page is in two slots. *)
LEMMA AverageOfBlocks ==
  ASSUME SSDInv, NEW m \in Nat, \A b \in Block : m <= validCnt[b]
  PROVE  m * BlockCount <= Cardinality(Page)
<1> USE DEF SSDInv
<1> DEFINE slots  == {a \in Block \X Slot : ptl[a[1]][a[2]] # unused}
           places == Block \X (1 .. m)
<1>1. \A b \in Block : \E g : g \in Bijection(1 .. validCnt[b], Live(b))
  <2>1. SUFFICES ASSUME NEW b \in Block PROVE \E g : g \in Bijection(1 .. validCnt[b], Live(b))
    OBVIOUS
  <2>2. IsFiniteSet(Live(b)) /\ validCnt[b] = Cardinality(Live(b))
    BY LiveFacts DEF CountsExact
  <2>3. ExistsBijection(1 .. Cardinality(Live(b)), Live(b))
    BY <2>2, FS_CardinalityType
  <2> QED
    BY <2>2, <2>3 DEF ExistsBijection
<1> DEFINE number(b) == CHOOSE g : g \in Bijection(1 .. validCnt[b], Live(b))
           f == [a \in places |-> ptl[a[1]][number(a[1])[a[2]]]]
<1>2. \A b \in Block :
        /\ \A i \in 1 .. m : number(b)[i] \in Live(b)
        /\ \A i, j \in 1 .. m : number(b)[i] = number(b)[j] => i = j
  <2>1. SUFFICES ASSUME NEW b \in Block
                 PROVE  /\ \A i \in 1 .. m : number(b)[i] \in Live(b)
                        /\ \A i, j \in 1 .. m : number(b)[i] = number(b)[j] => i = j
    OBVIOUS
  <2>2. number(b) \in Bijection(1 .. validCnt[b], Live(b))
    BY <1>1
  <2>3. validCnt[b] \in Nat /\ m <= validCnt[b]
    BY SSDAssumption DEF SSDTypeOK
  <2>4. 1 .. m \subseteq 1 .. validCnt[b]
    BY <2>3
  <2> HIDE DEF number
  <2> QED
    BY <2>2, <2>4 DEF Bijection, Injection, IsInjective
<1> HIDE DEF number
<1>3. ASSUME NEW b \in Block, NEW p \in Live(b) PROVE p \in Slot /\ ptl[b][p] \in Page
  BY <1>3 DEF Live, SSDTypeOK
<1>4. f \in [places -> Page]
  BY <1>2, <1>3
<1>5. \A a, c \in places : f[a] = f[c] => a = c
  <2>1. SUFFICES ASSUME NEW a \in places, NEW c \in places, f[a] = f[c] PROVE a = c
    OBVIOUS
  <2> DEFINE p == number(a[1])[a[2]]
             q == number(c[1])[c[2]]
  <2>2. a[1] \in Block /\ c[1] \in Block /\ a[2] \in 1 .. m /\ c[2] \in 1 .. m
        /\ a = <<a[1], a[2]>> /\ c = <<c[1], c[2]>>
    OBVIOUS
  <2>3. p \in Live(a[1]) /\ q \in Live(c[1]) /\ ptl[a[1]][p] = ptl[c[1]][q]
    BY <1>2, <2>1, <2>2
  <2>4. a[1] = c[1] /\ p = q
    BY <1>3, <2>2, <2>3, OneSlotPerPage DEF Live
  <2>5. a[2] = c[2]
    BY <1>2, <2>2, <2>4
  <2> QED
    BY <2>2, <2>4, <2>5
<1> HIDE DEF f
<1>6. f \in Injection(places, Page)
  BY <1>4, <1>5 DEF Injection, IsInjective
<1>7. Cardinality(places) <= Cardinality(Page)
  BY <1>6, SSDAssumption, FS_Injection
<1>8. IsFiniteSet(Block) /\ Cardinality(Block) = BlockCount
  BY FS_Interval, SSDAssumption DEF Block
<1>9. IsFiniteSet(1 .. m) /\ Cardinality(1 .. m) = m
  BY FS_Interval
<1>10. Cardinality(places) = BlockCount * m
  BY <1>8, <1>9, FS_Product
<1> QED
  BY <1>7, <1>10, SSDAssumption

(* When a collection begins every block but the GC block of s2r is full,   *)
(* so the victim of greedy has no more pages than any other block.         *)
LEMMA GreedyVictimIsBelowAverage ==
  ASSUME IInv, CollectGreedy
  PROVE  /\ singleGreedy \in Block
         /\ validCnt[singleGreedy] \in Nat
         /\ validCnt[singleGreedy] * BlockCount <= Cardinality(Page)
<1> USE DEF IInv
<1>1. SSDInv
  BY DEF SSDInv, TypeOK
<1>2. phase = "gc" /\ FullBlocks # {} /\ policy = "greedy"
  BY DEF CollectGreedy, CollectInPlace
<1>3. currentGCBlock \notin Block
  BY <1>2 DEF PhaseInv, NoBlock, Block
<1>4. \A b \in Block : fullyWritten(b)
  BY <1>2, <1>3, EmptyListRange DEF ListInv
<1>5. singleGreedy \in Block /\ \A b \in Block : validCnt[singleGreedy] <= validCnt[b]
  BY <1>2, <1>4, SingleGreedy DEF FullBlocks, TypeOK
<1>6. validCnt[singleGreedy] \in Nat
  BY <1>5, SSDAssumption DEF TypeOK, SSDTypeOK
<1> QED
  BY <1>1, <1>5, <1>6, AverageOfBlocks

(* Greedy never moves more than the average number of pages of a block.    *)
THEOREM GreedyIsBelowAverage == Spec => GreedyMovesAtMostAverage
<1>1. ASSUME IInv, Next, NEW v \in Block, policy = "greedy", CollectInPlace(v)
      PROVE  validCnt[v] * BlockCount <= Cardinality(Page)
  <2>1. phase = "gc" /\ phase' = "collected" /\ freeBlocks = <<>>
        /\ freeBlocks' = Append(<<>>, v)
    BY <1>1 DEF CollectInPlace, IInv, ListInv
  <2>2. CollectGreedy
    BY <1>1, <2>1 DEF Next, HostWrite, Step, Collect, WriteCurrent, WriteNext, StartGC, gcVars,
         ResumeWrite, ResumeFails, CollectBestOfK, OpenGCBlock, KeepGCBlock, MoveVictim,
         VictimBecomesGCBlock, EraseVictim
  <2>3. singleGreedy \in Block /\ freeBlocks' = Append(<<>>, singleGreedy)
    BY <2>1, <2>2, GreedyVictimIsBelowAverage, <1>1 DEF CollectGreedy, CollectInPlace
  <2>4. v = singleGreedy
    BY <2>1, <2>3, OneElementList
  <2> QED
    BY <1>1, <2>2, <2>4, GreedyVictimIsBelowAverage
<1>2. IInv /\ [Next]_vars =>
        [\A v \in Block : policy = "greedy" /\ CollectInPlace(v) =>
           validCnt[v] * BlockCount <= Cardinality(Page)]_vars
  BY <1>1
<1> QED
  BY Inductive, <1>2, PTL DEF Spec, GreedyMovesAtMostAverage
-----------------------------------------------------------------------------
(* The benchmark (SimBench) drives a greedy collector.  During the fill,   *)
(* the pages below the counter are stored, and a call that waits for a     *)
(* collection is the write of the next one; afterwards all are stored.     *)
FillInv ==
  /\ stage \in {"fill", "load", "bench", "done"}
  /\ written \in Nat
  /\ physWrites \in Nat
  /\ stage = "fill" => /\ written <= LogicalPages
                       /\ \A x \in Page : x < written => ltp[x] # unused
                       /\ phase # "idle" => request = written
  /\ stage # "fill" => \A x \in Page : ltp[x] # unused

(* A write maps its page, and no page loses its place.                     *)
LEMMA WriteMaps ==
  ASSUME SSDInv, NEW x \in Page, NEW b \in Block, SSDWrite(x, b)
  PROVE  ltp'[x] # unused /\ \A y \in Page : ltp[y] # unused => ltp'[y] # unused
<1> USE DEF SSDInv
<1>1. writePos[b] \in Slot
  BY SSDAssumption DEF SSDWrite, canWrite, SSDTypeOK, Slot
<1>2. getPhyAddr(b, writePos[b]) # unused
  BY <1>1, AddressOfSlot, SSDAssumption DEF Phy
<1> QED
  BY <1>2 DEF SSDWrite, SSDTypeOK

(* A collection maps no page that was not mapped, and loses none.          *)
LEMMA CollectKeepsPages ==
  ASSUME IInv, Collect
  PROVE  \A x \in Page : ltp'[x] # unused <=> ltp[x] # unused
<1> USE DEF IInv
<1>1. SSDInv
  BY DEF SSDInv, TypeOK
<1>2. FullBlocks # {} => singleGreedy \in Block
  BY SingleGreedy DEF TypeOK
<1>3. ASSUME NEW v \in Block, CompactBlock(v)
      PROVE  \A x \in Page : ltp'[x] # unused <=> ltp[x] # unused
  BY <1>1, <1>3, CompactKeepsPages
<1>4. CASE CollectGreedy
  BY <1>2, <1>3, <1>4 DEF CollectGreedy, CollectInPlace
<1>5. CASE CollectBestOfK
  BY <1>3, <1>5 DEF CollectBestOfK, BestOfK, CollectInPlace
<1>6. CASE OpenGCBlock
  BY <1>2, <1>3, <1>6 DEF OpenGCBlock
<1>7. CASE KeepGCBlock
  BY <1>7 DEF KeepGCBlock, ssdVars
<1>8. CASE MoveVictim
  <2>1. currentGCBlock \in Block /\ FullBlocks # {} /\ MoveValidPagesTo(singleGreedy, currentGCBlock)
    BY <1>8 DEF MoveVictim, PhaseInv
  <2> QED
    BY <1>1, <1>2, <2>1, MoveKeepsPages
<1>9. CASE VictimBecomesGCBlock
  BY <1>3, <1>9 DEF VictimBecomesGCBlock, PhaseInv
<1>10. CASE EraseVictim
  BY <1>10 DEF EraseVictim, EraseBlock
<1> QED
  BY <1>4, <1>5, <1>6, <1>7, <1>8, <1>9, <1>10 DEF Collect

(* The pages are the numbers the fill counts through.                      *)
LEMMA PagesAreNumbers ==
  /\ LogicalPages \in Nat
  /\ \A x \in Page : x \in Nat /\ x < LogicalPages
  /\ \A n \in Nat : n < LogicalPages => n \in Page
<1>1. LogicalPages \in Nat
  BY SSDAssumption, FS_CardinalityType DEF LogicalPages
<1> QED
  BY <1>1, BenchAssumption

(* Every step of the benchmark is a step of its collector or none.         *)
LEMMA BenchDrivesCollector ==
  ASSUME FillInv, [BenchNext]_allVars
  PROVE  [Next]_vars
<1>1. ASSUME BenchWrite PROVE Next
  <2>1. PICK x \in NextPage : WriteCurrent(x) \/ WriteNext(x) \/ StartGC(x)
    BY <1>1 DEF BenchWrite
  <2>2. x \in Page
    <3>1. CASE stage = "fill"
      BY <1>1, <2>1, <3>1, PagesAreNumbers DEF BenchWrite, NextPage, Target, FillInv
    <3>2. CASE stage # "fill"
      BY <2>1, <3>2 DEF NextPage
    <3> QED
      BY <3>1, <3>2
  <2> QED
    BY <2>1, <2>2 DEF Next, HostWrite
<1>2. ASSUME BenchResume \/ BenchCollect PROVE Next
  BY <1>2 DEF BenchResume, BenchCollect, Next, Step, Collect
<1>3. ASSUME EndFill \/ EndLoad \/ EndRep \/ Finished \/ UNCHANGED allVars PROVE UNCHANGED vars
  BY <1>3 DEF EndFill, EndLoad, EndRep, Finished, allVars
<1> QED
  BY <1>1, <1>2, <1>3 DEF BenchNext, BenchStep

LEMMA InitFill == BenchInit => IInv /\ FillInv
<1> SUFFICES ASSUME BenchInit PROVE IInv /\ FillInv
  OBVIOUS
<1>1. IInv
  BY InitInv DEF BenchInit
<1>2. FillInv
  BY PagesAreNumbers DEF BenchInit, FillInv, Init
<1> QED
  BY <1>1, <1>2

(* What a call that completes does to the pages.                           *)
LEMMA CompletedFill ==
  ASSUME FillInv, NEW x \in Page, Completed, phase' = "idle",
         stage = "fill" => x = written /\ written < LogicalPages,
         ltp'[x] # unused, \A y \in Page : ltp[y] # unused => ltp'[y] # unused
  PROVE  FillInv'
<1>1. /\ written' = written + 1 /\ physWrites' = physWrites + 1 /\ stage' = stage
      /\ written \in Nat /\ physWrites \in Nat
  BY DEF Completed, FillInv
<1>2. CASE stage = "fill"
  <2>1. written' <= LogicalPages
    BY <1>1, <1>2, PagesAreNumbers
  <2>2. \A y \in Page : y < written' => ltp'[y] # unused
    <3>1. \A y \in Page : y < written' => y = written \/ y < written
      BY <1>1, PagesAreNumbers
    <3> QED
      BY <1>2, <3>1 DEF FillInv
  <2> QED
    BY <1>1, <1>2, <2>1, <2>2 DEF FillInv
<1>3. CASE stage # "fill"
  BY <1>1, <1>3 DEF FillInv
<1> QED
  BY <1>2, <1>3

LEMMA FillStep == IInv /\ FillInv /\ [BenchNext]_allVars => IInv' /\ FillInv'
<1> SUFFICES ASSUME IInv, FillInv, [BenchNext]_allVars PROVE IInv' /\ FillInv'
  OBVIOUS
<1>1. IInv'
  BY BenchDrivesCollector, StepPreserves
<1>2. SSDInv
  BY DEF IInv, SSDInv, TypeOK
<1>3. \A x \in Page : TakeFreeBlock(x) => \E b \in Block : SSDWrite(x, b)
  BY TakenHead DEF TakeFreeBlock, IInv, TypeOK
<1>4. ASSUME BenchWrite PROVE FillInv'
  <2>1. PICK x \in NextPage :
          \/ (WriteCurrent(x) \/ WriteNext(x)) /\ Completed
          \/ StartGC(x) /\ UNCHANGED benchVars
    BY <1>4 DEF BenchWrite
  <2>2. x \in Page /\ (stage = "fill" => x = written /\ written < LogicalPages)
    <3>1. CASE stage = "fill"
      BY <1>4, <2>1, <3>1, PagesAreNumbers DEF BenchWrite, NextPage, Target, FillInv
    <3>2. CASE stage # "fill"
      BY <2>1, <3>2 DEF NextPage
    <3> QED
      BY <3>1, <3>2
  <2>3. CASE (WriteCurrent(x) \/ WriteNext(x)) /\ Completed
    <3>1. phase' = "idle"
      BY <2>3 DEF WriteCurrent, WriteNext, gcVars
    <3>2. \E b \in Block : SSDWrite(x, b)
      BY <1>3, <2>2, <2>3 DEF WriteCurrent, WriteNext, IInv, TypeOK
    <3> QED
      BY <1>2, <2>2, <2>3, <3>1, <3>2, WriteMaps, CompletedFill
  <2>4. CASE StartGC(x) /\ UNCHANGED benchVars
    BY <2>2, <2>4 DEF StartGC, FillInv, benchVars, ssdVars
  <2> QED
    BY <2>1, <2>3, <2>4
<1>5. ASSUME BenchResume PROVE FillInv'
  <2>1. /\ phase = "collected" /\ phase' = "idle" /\ TakeFreeBlock(request) /\ Completed
        /\ request \in Page
    BY <1>5 DEF BenchResume, ResumeWrite, IInv, PhaseInv
  <2>2. \E b \in Block : SSDWrite(request, b)
    BY <1>3, <2>1
  <2>3. stage = "fill" => request = written /\ written < LogicalPages
    BY <2>1, PagesAreNumbers DEF FillInv
  <2> QED
    BY <1>2, <2>1, <2>2, <2>3, WriteMaps, CompletedFill
<1>6. ASSUME BenchCollect PROVE FillInv'
  <2>1. Collect
    BY <1>6 DEF BenchCollect, Collect
  <2>2. UNCHANGED <<stage, written, request>> /\ phase # "idle" /\ phase' # "idle"
    BY <1>6 DEF BenchCollect, Relocated, benchVars, CollectGreedy, CollectInPlace, OpenGCBlock,
                KeepGCBlock, MoveVictim, VictimBecomesGCBlock, EraseVictim
  <2>3. physWrites' \in Nat
    <3>1. CASE UNCHANGED benchVars
      BY <3>1 DEF benchVars, FillInv
    <3>2. CASE \E n \in Nat : Relocated(n)
      BY <3>2 DEF Relocated, FillInv
    <3>3. FullBlocks # {} => singleGreedy \in Block
      BY SingleGreedy DEF IInv, TypeOK
    <3>4. \A b \in Block : Cardinality(Live(b)) \in Nat
      BY LiveFacts
    <3>5. \A s, d \in Block : Cardinality(Moved(s, d)) \in Nat
      <4>1. SUFFICES ASSUME NEW s \in Block, NEW d \in Block PROVE Cardinality(Moved(s, d)) \in Nat
        OBVIOUS
      <4>2. Moved(s, d) \in SUBSET Live(s) /\ IsFiniteSet(Live(s))
        BY LiveFacts DEF Moved
      <4> QED
        BY <4>2, FS_Subset, FS_CardinalityType
    <3>6. CASE CollectGreedy /\ Relocated(Cardinality(Live(singleGreedy)))
      BY <3>2, <3>3, <3>4, <3>6 DEF CollectGreedy
    <3>7. CASE OpenGCBlock /\ Relocated(Cardinality(Live(singleGreedy)))
      BY <3>2, <3>3, <3>4, <3>7 DEF OpenGCBlock
    <3>8. CASE MoveVictim /\ Relocated(Cardinality(Moved(singleGreedy, currentGCBlock)))
      <4>1. currentGCBlock \in Block /\ FullBlocks # {}
        BY <3>8 DEF MoveVictim, IInv, PhaseInv
      <4> QED
        BY <3>2, <3>3, <3>5, <3>8, <4>1
    <3>9. CASE VictimBecomesGCBlock /\ Relocated(Cardinality(Live(victim)))
      <4>1. victim \in Block
        BY <3>9 DEF VictimBecomesGCBlock, IInv, PhaseInv
      <4> QED
        BY <3>2, <3>4, <3>9, <4>1
    <3> QED
      BY <1>6, <3>1, <3>6, <3>7, <3>8, <3>9 DEF BenchCollect
  <2>4. \A x \in Page : ltp'[x] # unused <=> ltp[x] # unused
    BY <2>1, CollectKeepsPages
  <2> QED
    BY <2>2, <2>3, <2>4 DEF FillInv
<1>7. ASSUME EndFill PROVE FillInv'
  <2>1. /\ stage = "fill" /\ phase = "idle" /\ written = LogicalPages /\ written' = 0
        /\ UNCHANGED vars /\ stage' \in {"load", "bench", "done"}
        /\ physWrites' \in {physWrites, 0}
    BY <1>7 DEF EndFill, StageOver, StartBench, Target
  <2>2. \A x \in Page : ltp[x] # unused
    BY <2>1, PagesAreNumbers DEF FillInv
  <2>3. ltp' = ltp
    BY <2>1 DEF vars, ssdVars
  <2> QED
    BY <2>1, <2>2, <2>3 DEF FillInv
<1>8. ASSUME EndLoad \/ EndRep PROVE FillInv'
  <2>1. /\ stage \in {"load", "bench"} /\ written' = 0 /\ physWrites' = 0
        /\ UNCHANGED vars /\ stage' \in {"bench", "done"}
    BY <1>8 DEF EndLoad, EndRep, StartBench
  <2>2. ltp' = ltp
    BY <2>1 DEF vars, ssdVars
  <2> QED
    BY <2>1, <2>2 DEF FillInv
<1>9. ASSUME Finished \/ UNCHANGED allVars PROVE FillInv'
  <2>1. UNCHANGED <<stage, written, physWrites, ltp, phase, request>>
    BY <1>9 DEF Finished, allVars, vars, ssdVars, gcVars, benchVars
  <2> QED
    BY <2>1 DEF FillInv
<1> QED
  BY <1>1, <1>4, <1>5, <1>6, <1>7, <1>8, <1>9 DEF BenchNext, BenchStep

(* A mapped page of a consistent device is in one slot.                    *)
LEMMA OneCopy ==
  ASSUME SSDInv, NEW x \in Page, ltp[x] # unused
  PROVE  Cardinality(Copies(x)) = 1
<1> USE DEF SSDInv
<1>1. ltp[x] \in Phy /\ x # unused
  BY SSDAssumption DEF SSDTypeOK
<1>2. ltp[x] \in Copies(x)
  BY <1>1 DEF Copies, MappingAgrees
<1>3. \A a \in Copies(x) : a = ltp[x]
  BY <1>1, SlotOfAddress DEF Copies, MappingAgrees
<1>4. Copies(x) = {ltp[x]}
  BY <1>2, <1>3
<1> QED
  BY <1>4, FS_Singleton

(* The comment on the fill holds: from its end on, every logical page is   *)
(* stored once, in the middle of any collection too.                       *)
THEOREM FillGuarantee == BenchSpec => []FillIsComplete
<1>1. IInv /\ FillInv => FillIsComplete
  BY OneCopy DEF FillIsComplete, FillInv, IInv, SSDInv, TypeOK
<1> QED
  BY InitFill, FillStep, <1>1, PTL DEF BenchSpec
-----------------------------------------------------------------------------
(* The write amplification of a repetition under greedy.                   *)

(* What a collection moves at most, and the room it wins at least.         *)
Most == LogicalPages \div BlockCount
Gain == PagesPerBlock - Most

(* The slots the host can still fill before the next list element or       *)
(* collection: in the current block, or in the block just collected.       *)
Room == IF phase = "collected" THEN PagesPerBlock - writePos[Head(freeBlocks)]
        ELSE PagesPerBlock - writePos[currentBlock]

Least(a, b) == IF a < b THEN a ELSE b

(* Every collection after the first is paid for by the host's writes to    *)
(* the room the one before it won; what is left of that room is credit.    *)
CreditInv ==
  policy = "greedy" /\ stage = "bench" =>
    (physWrites - written) * Gain <= Most * (written + Least(Gain, Room))

LEMMA MostAndGain ==
  /\ Most \in Nat /\ Gain \in Nat
  /\ \A c \in Nat : c * BlockCount <= LogicalPages => c <= Most
<1>1. /\ LogicalPages \in Nat /\ BlockCount \in Nat \ {0} /\ PagesPerBlock \in Nat
      /\ LogicalPages <= BlockCount * PagesPerBlock
  BY SSDAssumption, PagesAreNumbers DEF LogicalPages
<1>2. /\ Most \in Nat /\ Most * BlockCount <= LogicalPages
      /\ LogicalPages < (Most + 1) * BlockCount
  BY <1>1, QuotientBounds DEF Most
<1> HIDE DEF Most
<1>3. ASSUME NEW c \in Nat, NEW d \in Nat, c * BlockCount < (d + 1) * BlockCount
      PROVE  c <= d
  <2>1. SUFFICES ASSUME d + 1 <= c PROVE FALSE
    BY <1>3
  <2>2. (d + 1) * BlockCount <= c * BlockCount
    BY <1>1, <2>1, ProductGrows
  <2>3. (d + 1) * BlockCount \in Nat /\ c * BlockCount \in Nat
    BY <1>1
  <2> QED
    BY <1>3, <2>2, <2>3
<1>4. \A c \in Nat : c * BlockCount <= LogicalPages => c <= Most
  <2>1. SUFFICES ASSUME NEW c \in Nat, c * BlockCount <= LogicalPages PROVE c <= Most
    OBVIOUS
  <2>2. c * BlockCount \in Nat /\ (Most + 1) * BlockCount \in Nat
    BY <1>1, <1>2
  <2>3. c * BlockCount < (Most + 1) * BlockCount
    BY <1>1, <1>2, <2>1, <2>2
  <2> QED
    BY <1>2, <1>3, <2>3
<1>5. Most <= PagesPerBlock
  <2>1. /\ Most * BlockCount \in Nat /\ (PagesPerBlock + 1) * BlockCount \in Nat
        /\ PagesPerBlock * BlockCount \in Nat
        /\ (PagesPerBlock + 1) * BlockCount = PagesPerBlock * BlockCount + BlockCount
        /\ BlockCount * PagesPerBlock = PagesPerBlock * BlockCount
    BY <1>1, <1>2
  <2>2. Most * BlockCount < (PagesPerBlock + 1) * BlockCount
    BY <1>1, <1>2, <2>1
  <2> QED
    BY <1>1, <1>2, <1>3, <2>2
<1> QED
  BY <1>1, <1>2, <1>4, <1>5 DEF Gain

(* The bound grows with the writes and the credit, ...                     *)
LEMMA CreditGrows ==
  ASSUME NEW r \in Int, NEW g \in Nat, NEW m \in Nat, NEW i \in Int, NEW j \in Int,
         r * g <= m * i, i <= j
  PROVE  r * g <= m * j
<1>1. i * m <= j * m
  BY ProductGrows
<1> QED
  BY <1>1

(* ... and a collection pays for what it moves with the room it wins.      *)
LEMMA CreditPays ==
  ASSUME NEW r \in Int, NEW g \in Nat, NEW m \in Nat, NEW w \in Int, NEW c \in Nat,
         r * g <= m * w, c <= m
  PROVE  (r + c) * g <= m * (w + g)
<1>1. c * g <= m * g
  BY ProductGrows
<1>2. (r + c) * g = r * g + c * g /\ m * (w + g) = m * w + m * g
  OBVIOUS
<1>3. r * g \in Int /\ c * g \in Int /\ m * w \in Int /\ m * g \in Int
  OBVIOUS
<1> QED
  BY <1>1, <1>2, <1>3

LEMMA SumsGrow ==
  ASSUME NEW i \in Nat, NEW j \in Nat, NEW v \in Nat, NEW w \in Nat, v <= w, i <= j
  PROVE  v + i <= w + j
OBVIOUS

(* The smaller of two numbers falls no faster than either.                 *)
LEMMA LeastKeepsUp ==
  ASSUME NEW g \in Nat, NEW i \in Nat, NEW j \in Nat, NEW v \in Nat, NEW w \in Nat,
         v + i <= w + j, v <= w
  PROVE  /\ v + Least(g, i) <= w + Least(g, j)
         /\ v + Least(g, i) \in Int /\ w + Least(g, j) \in Int
<1>1. CASE g < j
  BY <1>1 DEF Least
<1>2. CASE ~ (g < j)
  BY <1>2 DEF Least
<1> QED
  BY <1>1, <1>2

(* The room is a number of slots, except after the end of the program.     *)
LEMMA RoomIsNat ==
  ASSUME IInv
  PROVE  Room \in Nat
<1>1. \A b \in Block : PagesPerBlock - writePos[b] \in Nat
  BY SSDAssumption DEF IInv, TypeOK, SSDTypeOK
<1>2. CASE phase = "collected"
  <2>1. freeBlocks # <<>>
    BY <1>2 DEF IInv, ListInv
  <2> QED
    BY <1>1, <1>2, <2>1, TakenHead DEF Room, IInv, TypeOK
<1>3. CASE phase # "collected"
  BY <1>1, <1>3 DEF Room, IInv, TypeOK
<1> QED
  BY <1>2, <1>3

LEMMA RoomIsNatNext == IInv' => Room' \in Nat
<1>1. (IInv => Room \in Nat)'
  BY RoomIsNat, PTL
<1> QED
  BY <1>1
LEMMA CreditStep ==
  IInv /\ IInv' /\ FillInv /\ FillInv' /\ CreditInv /\ [BenchNext]_allVars => CreditInv'
<1> SUFFICES ASSUME IInv, IInv', FillInv, FillInv', CreditInv, [BenchNext]_allVars,
                    policy' = "greedy", stage' = "bench"
             PROVE  (physWrites' - written') * Gain <= Most * (written' + Least(Gain, Room'))
  BY DEF CreditInv, Gain, Most, Least, LogicalPages
<1>1. /\ Room \in Nat /\ Room' \in Nat /\ Most \in Nat /\ Gain \in Nat
      /\ written \in Nat /\ physWrites \in Nat /\ written' \in Nat /\ physWrites' \in Nat
  BY RoomIsNat, RoomIsNatNext, MostAndGain DEF FillInv
<1>2. policy = "greedy"
  BY BenchDrivesCollector, PolicyIsFixed
<1>3. SSDInv
  BY DEF IInv, SSDInv, TypeOK
<1>4. ~ canWrite(currentBlock) /\ phase \in {"idle", "gc"} => Room = 0
  BY WritableOrFull, SSDAssumption DEF Room, fullyWritten, IInv, TypeOK
<1>5. phase = "gc" => Room = 0
  <2>1. phase = "gc" => currentBlock \in Block /\ currentGCBlock \notin Block /\ freeBlocks = <<>>
    BY <1>2 DEF IInv, TypeOK, PhaseInv, ListInv, NoBlock, Block
  <2>2. phase = "gc" => fullyWritten(currentBlock)
    BY <2>1, EmptyListRange DEF IInv, ListInv
  <2> QED
    BY <2>2, SSDAssumption DEF Room, fullyWritten
(* Nothing was relocated or written: a repetition begins.                  *)
<1>6. ASSUME physWrites' = 0, written' = 0
      PROVE  (physWrites' - written') * Gain <= Most * (written' + Least(Gain, Room'))
  <2>1. 0 * Gain <= Most * 0 /\ 0 <= Least(Gain, Room') /\ Least(Gain, Room') \in Int
    BY <1>1 DEF Least
  <2>2. 0 * Gain <= Most * Least(Gain, Room')
    BY <1>1, <2>1, CreditGrows
  <2> QED
    BY <1>6, <2>1, <2>2
(* No page was relocated, and each write used at most one slot of credit.  *)
<1>7. ASSUME stage = "bench", physWrites' - written' = physWrites - written,
             written + Room <= written' + Room', written <= written'
      PROVE  (physWrites' - written') * Gain <= Most * (written' + Least(Gain, Room'))
  <2>1. /\ written + Least(Gain, Room) <= written' + Least(Gain, Room')
        /\ written + Least(Gain, Room) \in Int /\ written' + Least(Gain, Room') \in Int
    BY <1>1, <1>7, LeastKeepsUp
  <2>2. (physWrites - written) * Gain <= Most * (written + Least(Gain, Room))
    BY <1>2, <1>7 DEF CreditInv
  <2>3. physWrites - written \in Int
    BY <1>1
  <2> QED
    BY <1>1, <1>7, <2>1, <2>2, <2>3, CreditGrows
<1>8. ASSUME BenchWrite
      PROVE  (physWrites' - written') * Gain <= Most * (written' + Least(Gain, Room'))
  <2>1. PICK x \in NextPage :
          \/ (WriteCurrent(x) \/ WriteNext(x)) /\ Completed
          \/ StartGC(x) /\ UNCHANGED benchVars
    BY <1>8 DEF BenchWrite
  <2>2. CASE WriteCurrent(x) /\ Completed
    <3>1. Room' = Room - 1
      BY <2>2, SSDAssumption DEF WriteCurrent, gcVars, SSDWrite, Room, IInv, TypeOK, SSDTypeOK
    <3>2. written' = written + 1 /\ physWrites' = physWrites + 1 /\ stage = "bench"
      BY <2>2 DEF Completed
    <3>3. /\ physWrites' - written' = physWrites - written
          /\ written + Room <= written' + Room' /\ written <= written'
      BY ONLY <1>1, <3>1, <3>2
    <3> QED
      BY <1>7, <3>2, <3>3
  <2>3. CASE WriteNext(x) /\ Completed
    <3>1. Room <= Room'
      BY <1>1, <1>4, <2>3 DEF WriteNext
    <3>2. written' = written + 1 /\ physWrites' = physWrites + 1 /\ stage = "bench"
      BY <2>3 DEF Completed
    <3>3. physWrites' - written' = physWrites - written
      BY <1>1, <3>2
    <3>4. written <= written'
      BY <1>1, <3>2
    <3>5. written + Room <= written' + Room'
      BY <1>1, <3>1, <3>4, SumsGrow
    <3> QED
      BY <1>7, <3>2, <3>3, <3>4, <3>5
  <2>4. CASE StartGC(x) /\ UNCHANGED benchVars
    <3>1. Room <= Room'
      BY <1>1, <1>4, <2>4 DEF StartGC
    <3>2. UNCHANGED <<written, physWrites, stage>>
      BY <2>4 DEF benchVars
    <3>3. physWrites' - written' = physWrites - written /\ written <= written'
      BY <1>1, <3>2
    <3>4. written + Room <= written' + Room'
      BY <1>1, <3>1, <3>3, SumsGrow
    <3> QED
      BY <1>7, <3>2, <3>3, <3>4
  <2> QED
    BY <2>1, <2>2, <2>3, <2>4
<1>9. ASSUME BenchResume
      PROVE  (physWrites' - written') * Gain <= Most * (written' + Least(Gain, Room'))
  <2>1. /\ phase = "collected" /\ phase' = "idle" /\ freeBlocks # <<>>
        /\ currentBlock' = Head(freeBlocks) /\ SSDWrite(request, Head(freeBlocks))
        /\ written' = written + 1 /\ physWrites' = physWrites + 1 /\ stage = "bench"
    BY <1>9 DEF BenchResume, ResumeWrite, TakeFreeBlock, Completed
  <2>2. Head(freeBlocks) \in Block
    BY <2>1, TakenHead DEF IInv, TypeOK
  <2>3. Room' = Room - 1
    BY <2>1, <2>2, SSDAssumption, SMTT(30) DEF SSDWrite, Room, IInv, TypeOK, SSDTypeOK
  <2> QED
    BY <1>1, <1>7, <2>1, <2>3
<1>10. ASSUME BenchCollect
       PROVE  (physWrites' - written') * Gain <= Most * (written' + Least(Gain, Room'))
  <2> DEFINE v == singleGreedy
             c == Cardinality(Live(v))
  <2>1. CollectGreedy /\ Relocated(c)
    BY <1>2, <1>10 DEF BenchCollect, OpenGCBlock, KeepGCBlock, MoveVictim, VictimBecomesGCBlock,
                       EraseVictim, IInv, PhaseInv
  <2>2. /\ physWrites' = physWrites + c /\ written' = written /\ stage = "bench"
    BY <2>1 DEF Relocated
  <2>3. /\ v \in Block /\ validCnt[v] \in Nat
        /\ validCnt[v] * BlockCount <= Cardinality(Page)
    BY <2>1, GreedyVictimIsBelowAverage
  <2>4. validCnt[v] = c /\ c \in Nat
    BY <1>3, <2>3 DEF SSDInv, CountsExact
  <2>5. c <= Most
    BY <2>3, <2>4, MostAndGain DEF LogicalPages
  <2>6. /\ phase = "gc" /\ phase' = "collected" /\ CompactBlock(v)
        /\ freeBlocks' = Append(<<>>, v)
    BY <2>1 DEF CollectGreedy, CollectInPlace, IInv, ListInv
  <2>7. writePos'[v] = c /\ Head(freeBlocks') = v
    BY <1>3, <2>3, <2>4, <2>6, CompactConsistent, OneElementList
  <2>8. Room' = PagesPerBlock - c
    BY <2>6, <2>7 DEF Room
  <2>9. Least(Gain, Room') = Gain /\ Least(Gain, Room) = 0
    <3>1. Gain <= Room'
      BY <1>1, <2>4, <2>5, <2>8, SSDAssumption DEF Gain
    <3>2. Room = 0
      BY <1>5, <2>6
    <3> QED
      BY <1>1, <3>1, <3>2 DEF Least
  <2> HIDE DEF c, v
  <2>10. (physWrites - written) * Gain <= Most * (written + 0)
    BY <1>2, <2>2, <2>9 DEF CreditInv
  <2>11. physWrites - written \in Int /\ written + 0 \in Int /\ written + 0 = written
    BY <1>1
  <2>12. (physWrites - written + c) * Gain <= Most * (written + Gain)
    BY <1>1, <2>4, <2>5, <2>10, <2>11, CreditPays
  <2>13. physWrites' - written' = physWrites - written + c
    BY <1>1, <2>2, <2>4
  <2> QED
    BY <2>2, <2>9, <2>12, <2>13
<1>11. ASSUME EndFill \/ EndLoad \/ EndRep
       PROVE  (physWrites' - written') * Gain <= Most * (written' + Least(Gain, Room'))
  <2>1. physWrites' = 0 /\ written' = 0
    BY <1>11 DEF EndFill, EndLoad, EndRep, StartBench
  <2> QED
    BY <1>6, <2>1
<1>12. ASSUME Finished \/ UNCHANGED allVars
       PROVE  (physWrites' - written') * Gain <= Most * (written' + Least(Gain, Room'))
  <2>1. UNCHANGED <<written, physWrites, stage>> /\ UNCHANGED vars
    BY <1>12 DEF Finished, allVars, benchVars
  <2>2. Room' = Room
    BY <2>1 DEF Room, vars, ssdVars, gcVars
  <2> QED
    BY <1>1, <1>7, <2>1, <2>2
<1> QED
  BY <1>8, <1>9, <1>10, <1>11, <1>12 DEF BenchNext, BenchStep

(* The write amplification a repetition under greedy reports is bounded by *)
(* the fill of the device, however the writes are drawn.                   *)
THEOREM Amplification == BenchSpec => []AmplificationBounded
<1>1. BenchInit => CreditInv
  BY DEF BenchInit, CreditInv
<1>2. IInv /\ FillInv /\ CreditInv => AmplificationBounded
  <2> SUFFICES ASSUME IInv, FillInv, CreditInv, policy = "greedy", stage = "bench"
               PROVE  (physWrites - written) * Gain <= Most * (written + Gain)
    BY DEF AmplificationBounded, Gain, Most
  <2>1. /\ Room \in Nat /\ Most \in Nat /\ Gain \in Nat
        /\ physWrites - written \in Int /\ written \in Nat
    BY RoomIsNat, MostAndGain DEF FillInv
  <2>2. written + Least(Gain, Room) <= written + Gain /\ written + Least(Gain, Room) \in Int
        /\ written + Gain \in Int
    BY <2>1 DEF Least
  <2>3. (physWrites - written) * Gain <= Most * (written + Least(Gain, Room))
    BY DEF CreditInv
  <2> QED
    BY <2>1, <2>2, <2>3, CreditGrows
<1> QED
  BY InitFill, FillStep, CreditStep, <1>1, <1>2, PTL DEF BenchSpec
=============================================================================
