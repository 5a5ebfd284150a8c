-------------------------- MODULE TwoRGreedy_proofs --------------------------
(***************************************************************************)
(* Proofs about 2R with greedy victims, for every size of the device: the  *)
(* lists partition the blocks, the cascade does what selection counted on, *)
(* the device behaves like FlashMap, and with enough spare space selection *)
(* never runs out of victims.                                              *)
(***************************************************************************)
EXTENDS TwoRGreedy, TwoR_proofs

FreeSet   == Range(freeBlocks)
NormalSet == Range(normalBlocks)
ColdSet   == Range(coldBlocks)
VictimSet == Range(victimIds)
AllListed == FreeSet \cup NormalSet \cup ColdSet \cup VictimSet

RegionTypes ==
  /\ normalBlocks \in Seq(Block)
  /\ coldBlocks \in Seq(Block)
  /\ region \in {"none", "cold", "normal"}

(* No list names a block twice, and no two lists name the same block.      *)
Apart ==
  /\ IsInjective(freeBlocks) /\ IsInjective(normalBlocks) /\ IsInjective(coldBlocks)
  /\ FreeSet \cap NormalSet = {} /\ FreeSet \cap ColdSet = {} /\ FreeSet \cap VictimSet = {}
  /\ NormalSet \cap ColdSet = {} /\ NormalSet \cap VictimSet = {} /\ ColdSet \cap VictimSet = {}

(* Between calls the current block is in no list; a call that collects has *)
(* already put it into the normal region.                                  *)
Covered ==
  IF phase = "idle" THEN currentBlock \notin AllListed /\ AllListed \cup {currentBlock} = Block
                    ELSE AllListed = Block

(* A call collects when no free block is left; the region is chosen for    *)
(* the selection that follows.                                             *)
RegionInv ==
  /\ phase \in {"gc", "select"} => freeBlocks = <<>>
  /\ phase = "select" => region # "none"
  /\ phase \notin {"select", "failed"} => region = "none"

IInv ==
  /\ LoopInv
  /\ RegionTypes
  /\ Apart
  /\ Covered
  /\ RegionInv
  /\ RegionsFullFreeWritable

-----------------------------------------------------------------------------
(* min_element finds a block of the list with the fewest valid pages.      *)
LEMMA MinElementFacts ==
  ASSUME SSDTypeOK, NEW q \in Seq(Block), q # <<>>
  PROVE  /\ MinElement(q) \in 1 .. Len(q)
         /\ Emptiest(q) = q[MinElement(q)] /\ Emptiest(q) \in Block /\ Emptiest(q) \in Range(q)
         /\ \A i \in 1 .. Len(q) : validCnt[Emptiest(q)] <= validCnt[q[i]]
<1> DEFINE I == 1 .. Len(q)
           counts == {validCnt[q[i]] : i \in I}
<1>1. /\ DOMAIN q = I /\ Len(q) \in Nat /\ Len(q) # 0
      /\ \A i \in I : q[i] \in Block /\ q[i] \in Range(q) /\ i \in Nat
  BY ListFacts
<1>2. \A i \in I : validCnt[q[i]] \in Nat
  BY <1>1 DEF SSDTypeOK
<1>3. counts \in SUBSET Nat /\ counts # {}
  <2>1. 1 \in I
    BY <1>1
  <2> QED
    BY <1>2, <2>1
<1>4. PICK n \in counts : \A m \in counts : n <= m
  BY <1>3, LeastNatural
<1> DEFINE best == {i \in I : validCnt[q[i]] = n}
<1>5. best \in SUBSET Nat /\ best # {}
  BY <1>1, <1>4
<1>6. PICK k \in best : \A i \in best : k <= i
  BY <1>5, LeastNatural
<1>7. k \in I /\ \A j \in I :
        \/ validCnt[q[k]] < validCnt[q[j]]
        \/ validCnt[q[k]] = validCnt[q[j]] /\ k <= j
  <2>1. k \in I /\ validCnt[q[k]] = n /\ n \in Nat
    BY <1>3, <1>6
  <2>2. SUFFICES ASSUME NEW j \in I
                 PROVE  \/ validCnt[q[k]] < validCnt[q[j]]
                        \/ validCnt[q[k]] = validCnt[q[j]] /\ k <= j
    BY <2>1
  <2>3. n <= validCnt[q[j]] /\ validCnt[q[j]] \in Nat
    BY <1>2, <1>4
  <2>4. validCnt[q[j]] = n => k <= j
    BY <1>6
  <2> QED
    BY <2>1, <2>3, <2>4
<1>8. MinElement(q) \in I /\ \A j \in I :
        \/ validCnt[q[MinElement(q)]] < validCnt[q[j]]
        \/ validCnt[q[MinElement(q)]] = validCnt[q[j]] /\ MinElement(q) <= j
  BY <1>1, <1>7 DEF MinElement
<1> QED
  BY <1>1, <1>2, <1>8 DEF Emptiest

(* Selecting a victim takes it, and only it, out of its region.            *)
LEMMA TakenFromRegion ==
  ASSUME SSDTypeOK, NEW q \in Seq(Block), q # <<>>, IsInjective(q)
  PROVE  /\ WithoutEmptiest(q) \in Seq(Block) /\ IsInjective(WithoutEmptiest(q))
         /\ Range(WithoutEmptiest(q)) = Range(q) \ {Emptiest(q)}
         /\ Emptiest(q) \in Range(q) /\ Emptiest(q) \in Block
<1> DEFINE i == MinElement(q)
<1>1. i \in 1 .. Len(q) /\ Emptiest(q) = q[i] /\ Emptiest(q) \in Block /\ Emptiest(q) \in Range(q)
  BY MinElementFacts
<1>2. WithoutEmptiest(q) = SubSeq(q, 1, i - 1) \o SubSeq(q, i + 1, Len(q))
  BY DEF WithoutEmptiest, RemoveAt
<1> HIDE DEF i
<1>3. LET p == SubSeq(q, 1, i - 1) \o SubSeq(q, i + 1, Len(q))
      IN  /\ p \in Seq(Block) /\ Len(p) = Len(q) - 1 /\ IsInjective(p)
          /\ Range(p) = Range(q) \ {q[i]}
  BY <1>1, RemoveFromList
<1> QED
  BY <1>1, <1>2, <1>3

-----------------------------------------------------------------------------
LEMMA InitInv == Init => IInv
<1> SUFFICES ASSUME Init PROVE IInv
  OBVIOUS
<1>1. LoopInv
  BY InitLoop DEF Init
<1>2. /\ freeBlocks \in Seq(Block) /\ IsInjective(freeBlocks) /\ FreeSet = Block \ {0}
      /\ 0 \in Block
  BY InitialFreeList, SSDAssumption DEF Init, TwoRInit, FreeSet, Block
<1>3. normalBlocks = <<>> /\ coldBlocks = <<>> /\ victimIds = <<>> /\ region = "none"
      /\ phase = "idle" /\ currentBlock = 0
  BY DEF Init, TwoRInit
<1>4. /\ IsInjective(normalBlocks) /\ IsInjective(coldBlocks)
      /\ NormalSet = {} /\ ColdSet = {} /\ VictimSet = {}
  BY <1>3 DEF IsInjective, NormalSet, ColdSet, VictimSet, Range
<1>5. RegionTypes /\ RegionInv
  BY <1>3 DEF RegionTypes, RegionInv
<1>6. Apart
  BY <1>2, <1>4 DEF Apart
<1>7. Covered
  BY <1>2, <1>3, <1>4 DEF Covered, AllListed
<1>8. RegionsFullFreeWritable
  <2>1. \A b \in Block : writePos[b] = 0
    BY DEF Init, TwoRInit, SSDInit
  <2> QED
    BY <1>2, <1>4, <2>1, SizeFacts
    DEF RegionsFullFreeWritable, canWrite, FreeSet, NormalSet, ColdSet
<1> QED
  BY <1>1, <1>5, <1>6, <1>7, <1>8 DEF IInv

(* The sets of the lists, and what the invariant says of them.             *)
LEMMA ListTypes ==
  ASSUME IInv
  PROVE  /\ SSDInv /\ SSDTypeOK
         /\ freeBlocks \in Seq(Block) /\ normalBlocks \in Seq(Block) /\ coldBlocks \in Seq(Block)
         /\ victimIds \in Seq(Block) /\ IsInjective(victimIds) /\ currentBlock \in Block
         /\ FreeSet \subseteq Block /\ NormalSet \subseteq Block /\ ColdSet \subseteq Block
         /\ VictimSet \subseteq Block
<1>1. /\ freeBlocks \in Seq(Block) /\ normalBlocks \in Seq(Block) /\ coldBlocks \in Seq(Block)
      /\ victimIds \in Seq(Block) /\ IsInjective(victimIds) /\ currentBlock \in Block
      /\ SSDInv /\ SSDTypeOK
  BY DEF IInv, LoopInv, SSDInv, TwoRTypeOK, CallInv, RegionTypes
<1> QED
  BY <1>1, ListFacts DEF FreeSet, NormalSet, ColdSet, VictimSet

(* The two ways in which a page goes to the first free block; the old      *)
(* current block is in the normal region then, or joins it.                *)
LEMMA TakePreserves ==
  ASSUME IInv, NEW x \in Page, TakeFreeBlock(x), phase \in {"idle", "collected"}, phase' = "idle",
         request' \in Page \cup {unused}, UNCHANGED <<coldBlocks, region>>,
         phase = "idle" => ~canWrite(currentBlock) /\ normalBlocks' = Append(normalBlocks, currentBlock),
         phase = "collected" => UNCHANGED normalBlocks
  PROVE  IInv'
<1> DEFINE h == Head(freeBlocks)
<1>1. /\ freeBlocks # <<>> /\ currentBlock' = h /\ freeBlocks' = Tail(freeBlocks) /\ SSDWrite(x, h)
      /\ UNCHANGED <<victimIds, cascade>>
  BY DEF TakeFreeBlock
<1>2. /\ SSDInv /\ SSDTypeOK
      /\ freeBlocks \in Seq(Block) /\ normalBlocks \in Seq(Block) /\ coldBlocks \in Seq(Block)
      /\ currentBlock \in Block
      /\ FreeSet \subseteq Block /\ NormalSet \subseteq Block /\ ColdSet \subseteq Block
  BY ListTypes
<1>3. /\ h \in Block /\ h \in FreeSet /\ Tail(freeBlocks) \in Seq(Block)
      /\ IsInjective(Tail(freeBlocks)) /\ FreeSet' = FreeSet \ {h}
  BY <1>1, <1>2, TailList DEF IInv, Apart, FreeSet
<1>4. LoopInv'
  BY <1>1, <1>3, WriteStep DEF IInv
<1>5. /\ normalBlocks' \in Seq(Block) /\ IsInjective(normalBlocks')
      /\ NormalSet' = IF phase = "idle" THEN NormalSet \cup {currentBlock} ELSE NormalSet
  <2>1. CASE phase = "idle"
    <3>1. currentBlock \notin Range(normalBlocks)
      BY <2>1 DEF IInv, Covered, AllListed, NormalSet
    <3>2. normalBlocks \in Seq(Block) /\ IsInjective(normalBlocks) /\ currentBlock \in Block
      BY <1>2 DEF IInv, Apart
    <3>3. /\ Append(normalBlocks, currentBlock) \in Seq(Block)
          /\ IsInjective(Append(normalBlocks, currentBlock))
          /\ Range(Append(normalBlocks, currentBlock)) = Range(normalBlocks) \cup {currentBlock}
      BY <3>1, <3>2, AppendList
    <3>4. normalBlocks' = Append(normalBlocks, currentBlock)
      BY <2>1
    <3> QED
      BY <2>1, <3>3, <3>4 DEF NormalSet
  <2>2. CASE phase = "collected"
    BY <1>2, <2>2 DEF IInv, Apart, NormalSet
  <2> QED
    BY <2>1, <2>2
<1>6. ColdSet' = ColdSet /\ VictimSet' = VictimSet
  BY <1>1 DEF ColdSet, VictimSet
<1>7. RegionTypes' /\ RegionInv'
  BY <1>5 DEF IInv, RegionTypes, RegionInv
<1>8. Apart'
  <2>1. phase = "idle" => currentBlock \notin AllListed
    BY DEF IInv, Covered
  <2> QED
    BY <1>1, <1>3, <1>5, <1>6, <2>1 DEF IInv, Apart, AllListed
<1>9. Covered'
  <2>1. h \notin NormalSet' /\ h \notin ColdSet' /\ h \notin VictimSet'
    <3>1. phase = "idle" => h # currentBlock
      BY <1>3 DEF IInv, Covered, AllListed
    <3> QED
      BY <1>3, <1>5, <1>6, <3>1 DEF IInv, Apart
  <2>2. AllListed' \cup {h} = Block
    <3>1. AllListed \cup {currentBlock} = Block /\ (phase # "idle" => AllListed = Block)
      BY <1>2 DEF IInv, Covered
    <3>2. AllListed' \cup {h} = IF phase = "idle" THEN AllListed \cup {currentBlock} ELSE AllListed
      BY <1>3, <1>5, <1>6 DEF AllListed
    <3> QED
      BY <3>1, <3>2
  <2> QED
    BY <1>1, <1>3, <2>1, <2>2 DEF Covered, AllListed
<1>10. RegionsFullFreeWritable'
  <2>1. \A b \in Block \ {h} : writePos'[b] = writePos[b]
    BY <1>1, <1>2, <1>3 DEF SSDWrite, SSDTypeOK
  <2>2. \A b \in NormalSet \cup ColdSet : fullyWritten(b) /\ b \in Block \ {h}
    BY <1>2, <1>3 DEF IInv, Apart, RegionsFullFreeWritable, NormalSet, ColdSet
  <2>3. phase = "idle" => fullyWritten(currentBlock) /\ currentBlock \in Block \ {h}
    BY <1>2, <1>3, WritableOrFull DEF IInv, Covered, AllListed
  <2>4. \A b \in FreeSet' : canWrite(b) /\ b \in Block \ {h}
    BY <1>2, <1>3 DEF IInv, RegionsFullFreeWritable, FreeSet
  <2>5. \A b \in NormalSet' \cup ColdSet' : fullyWritten(b)'
    BY <1>5, <1>6, <2>1, <2>2, <2>3 DEF fullyWritten
  <2>6. \A b \in FreeSet' : canWrite(b)'
    BY <2>1, <2>4 DEF canWrite
  <2> QED
    BY <2>5, <2>6 DEF RegionsFullFreeWritable, NormalSet, ColdSet, FreeSet
<1> QED
  BY <1>4, <1>7, <1>8, <1>9, <1>10 DEF IInv

(* The calls of a collection that leave the four lists' blocks apart: what *)
(* remains to be shown of a step whose lists are known.                    *)
LEMMA ListsMove ==
  ASSUME IInv, LoopInv', RegionTypes',
         phase # "idle", phase' # "idle",
         IsInjective(freeBlocks'), IsInjective(normalBlocks'), IsInjective(coldBlocks'),
         FreeSet' \cap NormalSet' = {}, FreeSet' \cap ColdSet' = {}, FreeSet' \cap VictimSet' = {},
         NormalSet' \cap ColdSet' = {}, NormalSet' \cap VictimSet' = {}, ColdSet' \cap VictimSet' = {},
         AllListed' = AllListed, RegionInv', RegionsFullFreeWritable'
  PROVE  IInv'
<1>1. Apart'
  BY DEF Apart
<1>2. Covered'
  BY DEF IInv, Covered
<1> QED
  BY <1>1, <1>2 DEF IInv

(* A step that changes no list, and no block that waits in a region or in  *)
(* the free list.                                                          *)
LEMMA ListsStay ==
  ASSUME IInv, LoopInv', phase # "idle", phase' # "idle",
         UNCHANGED <<freeBlocks, normalBlocks, coldBlocks, victimIds>>,
         region' \in {"none", "cold", "normal"}, RegionInv',
         \A b \in FreeSet \cup NormalSet \cup ColdSet : writePos'[b] = writePos[b]
  PROVE  IInv'
<1>1. FreeSet' = FreeSet /\ NormalSet' = NormalSet /\ ColdSet' = ColdSet /\ VictimSet' = VictimSet
  BY DEF FreeSet, NormalSet, ColdSet, VictimSet
<1>2. RegionTypes'
  BY DEF IInv, RegionTypes
<1>3. RegionsFullFreeWritable'
  BY <1>1 DEF IInv, RegionsFullFreeWritable, fullyWritten, canWrite, FreeSet, NormalSet, ColdSet
<1>4. AllListed' = AllListed
  BY <1>1 DEF AllListed
<1>5. Apart'
  BY <1>1 DEF IInv, Apart
<1>6. Covered'
  BY <1>4 DEF IInv, Covered
<1> QED
  BY <1>2, <1>3, <1>5, <1>6 DEF IInv

(* A victim that is selected moves from its region to the victims.         *)
LEMMA SelectPreserves ==
  ASSUME IInv, SelectCold \/ SelectNormal
  PROVE  IInv'
<1>1. /\ phase = "select" /\ phase' = "select" /\ TotalInvalid(victimIds) < PagesPerBlock
      /\ UNCHANGED <<freeBlocks, currentBlock, cascade, request, region>>
      /\ UNCHANGED ssdVars /\ UNCHANGED <<ptl, writePos, validCnt, ltp>>
  BY DEF SelectCold, SelectNormal, SelectVictimFrom, ssdVars
<1>2. /\ SSDInv /\ SSDTypeOK
      /\ freeBlocks \in Seq(Block) /\ normalBlocks \in Seq(Block) /\ coldBlocks \in Seq(Block)
      /\ victimIds \in Seq(Block) /\ IsInjective(victimIds)
      /\ IsInjective(normalBlocks) /\ IsInjective(coldBlocks)
  BY ListTypes DEF IInv, Apart
<1>3. PICK b \in Block :
        /\ victimIds' = Append(victimIds, b)
        /\ normalBlocks' \in Seq(Block) /\ IsInjective(normalBlocks')
        /\ coldBlocks' \in Seq(Block) /\ IsInjective(coldBlocks')
        /\ b \in NormalSet \cup ColdSet
        /\ NormalSet' = NormalSet \ {b} /\ ColdSet' = ColdSet \ {b}
  <2>1. CASE SelectCold
    <3> DEFINE b == Emptiest(coldBlocks)
    <3>1. /\ coldBlocks # <<>> /\ victimIds' = Append(victimIds, b) /\ UNCHANGED normalBlocks
          /\ coldBlocks' = WithoutEmptiest(coldBlocks)
      BY <2>1 DEF SelectCold, SelectVictimFrom
    <3>2. /\ coldBlocks' \in Seq(Block) /\ IsInjective(coldBlocks') /\ ColdSet' = ColdSet \ {b}
          /\ b \in ColdSet /\ b \in Block
      BY <1>2, <3>1, TakenFromRegion DEF ColdSet
    <3>3. NormalSet' = NormalSet \ {b}
      BY <3>1, <3>2 DEF NormalSet, IInv, Apart
    <3> HIDE DEF b
    <3> QED
      BY <1>2, <3>1, <3>2, <3>3
  <2>2. CASE SelectNormal
    <3> DEFINE b == Emptiest(normalBlocks)
    <3>1. /\ normalBlocks # <<>> /\ victimIds' = Append(victimIds, b) /\ UNCHANGED coldBlocks
          /\ normalBlocks' = WithoutEmptiest(normalBlocks)
      BY <2>2 DEF SelectNormal, SelectVictimFrom
    <3>2. /\ normalBlocks' \in Seq(Block) /\ IsInjective(normalBlocks') /\ NormalSet' = NormalSet \ {b}
          /\ b \in NormalSet /\ b \in Block
      BY <1>2, <3>1, TakenFromRegion DEF NormalSet
    <3>3. ColdSet' = ColdSet \ {b}
      BY <3>1, <3>2 DEF ColdSet, IInv, Apart
    <3> HIDE DEF b
    <3> QED
      BY <1>2, <3>1, <3>2, <3>3
  <2> QED
    BY <2>1, <2>2
<1>4. b \notin VictimSet /\ b \notin FreeSet
  BY <1>3 DEF IInv, Apart
<1>5. victimIds' \in Seq(Block) /\ IsInjective(victimIds') /\ VictimSet' = VictimSet \cup {b}
  BY <1>2, <1>3, <1>4, AppendList DEF VictimSet
<1>6. FreeSet' = FreeSet
  BY <1>1 DEF FreeSet
<1>7. LoopInv'
  <2>1. /\ request' \in Page /\ freeBlocks' \in Seq(Block) /\ currentBlock' \in Block
        /\ cascade' \in 0 .. BlockCount
    BY <1>1 DEF IInv, LoopInv, CallInv, TwoRTypeOK
  <2> QED
    BY <1>1, <1>5, <2>1, CallStep DEF IInv
<1>8. RegionTypes' /\ RegionInv'
  BY <1>1, <1>3 DEF IInv, RegionTypes, RegionInv
<1>9. AllListed' = AllListed
  BY <1>3, <1>5, <1>6 DEF AllListed
<1>10. RegionsFullFreeWritable'
  <2>1. NormalSet' \cup ColdSet' \subseteq NormalSet \cup ColdSet
    BY <1>3
  <2> QED
    BY <1>1, <1>6, <2>1
    DEF IInv, RegionsFullFreeWritable, fullyWritten, canWrite, FreeSet, NormalSet, ColdSet
<1>11. IsInjective(freeBlocks')
  BY <1>1 DEF IInv, Apart
<1>12. /\ FreeSet' \cap NormalSet' = {} /\ FreeSet' \cap ColdSet' = {} /\ FreeSet' \cap VictimSet' = {}
       /\ NormalSet' \cap ColdSet' = {} /\ NormalSet' \cap VictimSet' = {}
       /\ ColdSet' \cap VictimSet' = {}
  BY <1>3, <1>4, <1>5, <1>6 DEF IInv, Apart
<1> QED
  BY <1>1, <1>3, <1>7, <1>8, <1>9, <1>10, <1>11, <1>12, ListsMove

(* A victim that is handed out goes to the free list or the cold region.   *)
LEMMA DistributePreserves ==
  ASSUME IInv, DistributeToRegions
  PROVE  IInv'
<1> DEFINE h == Head(victimIds)
<1>1. /\ phase = "distribute" /\ phase' = "distribute" /\ victimIds # <<>> /\ victimIds' = Tail(victimIds)
      /\ freeBlocks' = (IF canWrite(h) THEN Append(freeBlocks, h) ELSE freeBlocks)
      /\ coldBlocks' = (IF canWrite(h) THEN coldBlocks ELSE Append(coldBlocks, h))
      /\ UNCHANGED <<normalBlocks, region>>
      /\ UNCHANGED <<ptl, writePos, validCnt, ltp>>
  BY DEF DistributeToRegions, DistributeVictim, Freed, ssdVars
<1>2. /\ SSDTypeOK /\ freeBlocks \in Seq(Block) /\ coldBlocks \in Seq(Block)
      /\ victimIds \in Seq(Block) /\ IsInjective(victimIds)
      /\ IsInjective(freeBlocks) /\ IsInjective(coldBlocks)
  BY ListTypes DEF IInv, Apart
<1>3. LoopInv'
  BY DistributeStep DEF IInv, DistributeToRegions
<1>4. h \in Block /\ h \in VictimSet /\ VictimSet' = VictimSet \ {h}
  BY <1>1, <1>2, TailList DEF VictimSet
<1>5. h \notin FreeSet /\ h \notin ColdSet /\ h \notin NormalSet
  BY <1>4 DEF IInv, Apart
<1>6. NormalSet' = NormalSet /\ IsInjective(normalBlocks')
  BY <1>1 DEF NormalSet, IInv, Apart
<1>7. /\ freeBlocks' \in Seq(Block) /\ IsInjective(freeBlocks')
      /\ FreeSet' = IF canWrite(h) THEN FreeSet \cup {h} ELSE FreeSet
  <2>1. /\ Append(freeBlocks, h) \in Seq(Block) /\ IsInjective(Append(freeBlocks, h))
        /\ Range(Append(freeBlocks, h)) = FreeSet \cup {h}
    BY <1>2, <1>4, <1>5, AppendList DEF FreeSet
  <2> QED
    BY <1>1, <1>2, <2>1 DEF FreeSet
<1>8. /\ coldBlocks' \in Seq(Block) /\ IsInjective(coldBlocks')
      /\ ColdSet' = IF canWrite(h) THEN ColdSet ELSE ColdSet \cup {h}
  <2>1. /\ Append(coldBlocks, h) \in Seq(Block) /\ IsInjective(Append(coldBlocks, h))
        /\ Range(Append(coldBlocks, h)) = ColdSet \cup {h}
    BY <1>2, <1>4, <1>5, AppendList DEF ColdSet
  <2> QED
    BY <1>1, <1>2, <2>1 DEF ColdSet
<1> HIDE DEF h
<1>9. RegionTypes' /\ RegionInv'
  BY <1>1, <1>8 DEF IInv, RegionTypes, RegionInv
<1>10. AllListed' = AllListed
  BY <1>4, <1>6, <1>7, <1>8 DEF AllListed
<1>11. RegionsFullFreeWritable'
  <2>1. ~canWrite(h) => fullyWritten(h)
    BY <1>2, <1>4, WritableOrFull
  <2>2. \A b \in NormalSet' \cup ColdSet' : fullyWritten(b)
    BY <1>6, <1>8, <2>1 DEF IInv, RegionsFullFreeWritable, NormalSet, ColdSet
  <2>3. \A b \in FreeSet' : canWrite(b)
    BY <1>7 DEF IInv, RegionsFullFreeWritable, FreeSet
  <2> QED
    BY <1>1, <2>2, <2>3
    DEF RegionsFullFreeWritable, fullyWritten, canWrite, FreeSet, NormalSet, ColdSet
<1>12. /\ FreeSet' \cap NormalSet' = {} /\ FreeSet' \cap ColdSet' = {} /\ FreeSet' \cap VictimSet' = {}
       /\ NormalSet' \cap ColdSet' = {} /\ NormalSet' \cap VictimSet' = {}
       /\ ColdSet' \cap VictimSet' = {}
  BY <1>4, <1>5, <1>6, <1>7, <1>8 DEF IInv, Apart
<1> QED
  BY <1>1, <1>3, <1>6, <1>7, <1>8, <1>9, <1>10, <1>11, <1>12, ListsMove

(* The cascade touches no block that waits in a region or in the free list.*)
LEMMA CascadePreserves ==
  ASSUME IInv, Cascade, UNCHANGED <<normalBlocks, coldBlocks, region>>
  PROVE  IInv'
<1>1. /\ LoopInv' /\ phase # "idle" /\ phase' # "idle" /\ phase' \notin {"gc", "select", "failed"}
      /\ phase \notin {"select", "failed"}
      /\ UNCHANGED <<freeBlocks, victimIds>>
      /\ \A b \in Block \ VictimSet : writePos'[b] = writePos[b]
  BY CascadeStep DEF IInv, VictimSet
<1>2. \A b \in FreeSet \cup NormalSet \cup ColdSet : b \in Block \ VictimSet
  BY ListTypes DEF IInv, Apart
<1>3. RegionInv' /\ region' \in {"none", "cold", "normal"}
  BY <1>1 DEF IInv, RegionInv, RegionTypes
<1> QED
  BY <1>1, <1>2, <1>3, ListsStay

(* Every step of the collector preserves the invariant.                    *)
LEMMA StepPreserves == IInv /\ [Next]_vars => IInv'
<1> SUFFICES ASSUME IInv, [Next]_vars PROVE IInv'
  OBVIOUS
<1>1. /\ LoopInv /\ SSDInv /\ SSDTypeOK
      /\ freeBlocks \in Seq(Block) /\ normalBlocks \in Seq(Block) /\ coldBlocks \in Seq(Block)
      /\ victimIds \in Seq(Block) /\ IsInjective(victimIds) /\ currentBlock \in Block
      /\ FreeSet \subseteq Block /\ NormalSet \subseteq Block /\ ColdSet \subseteq Block
      /\ cascade \in 0 .. BlockCount /\ (request \in Page \/ phase = "idle")
      /\ request \in Page \cup {unused} /\ region \in {"none", "cold", "normal"}
  BY ListTypes DEF IInv, LoopInv, TwoRTypeOK, CallInv, RegionTypes
<1>2. ASSUME NEW x \in Page, WriteCurrent(x), UNCHANGED <<normalBlocks, coldBlocks, region>>
      PROVE  IInv'
  <2>1. /\ phase = "idle" /\ SSDWrite(x, currentBlock)
        /\ UNCHANGED <<freeBlocks, currentBlock, victimIds, cascade, phase, request>>
    BY <1>2 DEF WriteCurrent, twoRVars
  <2>2. LoopInv'
    BY <1>1, <2>1, WriteStep
  <2>3. FreeSet' = FreeSet /\ NormalSet' = NormalSet /\ ColdSet' = ColdSet /\ VictimSet' = VictimSet
    BY <1>2, <2>1 DEF FreeSet, NormalSet, ColdSet, VictimSet
  <2>4. RegionTypes' /\ RegionInv' /\ Apart'
    BY <1>2, <2>1, <2>3 DEF IInv, RegionTypes, RegionInv, Apart
  <2>5. Covered'
    BY <2>1, <2>3 DEF IInv, Covered, AllListed
  <2>6. \A b \in FreeSet \cup NormalSet \cup ColdSet : writePos'[b] = writePos[b]
    <3>1. currentBlock \notin FreeSet \cup NormalSet \cup ColdSet
      BY <2>1 DEF IInv, Covered, AllListed
    <3>2. \A b \in Block \ {currentBlock} : writePos'[b] = writePos[b]
      BY <1>1, <2>1 DEF SSDWrite, SSDTypeOK
    <3> QED
      BY <1>1, <3>1, <3>2
  <2>7. RegionsFullFreeWritable'
    BY <2>3, <2>6 DEF IInv, RegionsFullFreeWritable, fullyWritten, canWrite, FreeSet, NormalSet, ColdSet
  <2> QED
    BY <2>2, <2>4, <2>5, <2>7 DEF IInv
<1>3. ASSUME NEW x \in Page, WriteNext(x), normalBlocks' = Append(normalBlocks, currentBlock),
             UNCHANGED <<coldBlocks, region>>
      PROVE  IInv'
  <2>1. /\ phase = "idle" /\ phase' = "idle" /\ ~canWrite(currentBlock) /\ TakeFreeBlock(x)
        /\ request' \in Page \cup {unused}
    BY <1>1, <1>3 DEF WriteNext
  <2> QED
    BY <1>3, <2>1, TakePreserves
<1>4. ASSUME NEW x \in Page, StartGC(x), normalBlocks' = Append(normalBlocks, currentBlock),
             UNCHANGED <<coldBlocks, region>>
      PROVE  IInv'
  <2>1. /\ phase = "idle" /\ phase' = "gc" /\ ~canWrite(currentBlock) /\ freeBlocks = <<>>
        /\ request' = x /\ victimIds = <<>>
        /\ UNCHANGED <<ptl, writePos, validCnt, ltp>> /\ UNCHANGED ssdVars
        /\ UNCHANGED <<freeBlocks, currentBlock, victimIds, cascade>>
    BY <1>1, <1>4 DEF StartGC, ssdVars, LoopInv, CallInv
  <2>2. LoopInv'
    BY <1>1, <2>1, CallStep
  <2>3. currentBlock \notin FreeSet \cup NormalSet \cup ColdSet \cup VictimSet /\ AllListed \cup {currentBlock} = Block
    BY <2>1 DEF IInv, Covered, AllListed
  <2>4. /\ normalBlocks' \in Seq(Block) /\ IsInjective(normalBlocks')
        /\ NormalSet' = NormalSet \cup {currentBlock}
    <3>1. currentBlock \notin Range(normalBlocks)
      BY <2>3 DEF NormalSet
    <3>2. /\ Append(normalBlocks, currentBlock) \in Seq(Block)
          /\ IsInjective(Append(normalBlocks, currentBlock))
          /\ Range(Append(normalBlocks, currentBlock)) = Range(normalBlocks) \cup {currentBlock}
      BY <1>1, <3>1, AppendList DEF IInv, Apart
    <3> QED
      BY <1>4, <3>2 DEF NormalSet
  <2>5. FreeSet' = FreeSet /\ ColdSet' = ColdSet /\ VictimSet' = VictimSet
    BY <1>4, <2>1 DEF FreeSet, ColdSet, VictimSet
  <2>6. RegionTypes' /\ RegionInv'
    BY <1>4, <2>1, <2>4 DEF IInv, RegionTypes, RegionInv
  <2>7. Apart'
    BY <1>4, <2>1, <2>3, <2>4, <2>5 DEF IInv, Apart
  <2>8. Covered'
    BY <2>1, <2>3, <2>4, <2>5 DEF Covered, AllListed
  <2>9. RegionsFullFreeWritable'
    <3>1. fullyWritten(currentBlock)
      BY <1>1, <2>1, WritableOrFull
    <3>2. \A b \in NormalSet' \cup ColdSet' : fullyWritten(b)
      BY <2>4, <2>5, <3>1 DEF IInv, RegionsFullFreeWritable, NormalSet, ColdSet
    <3>3. \A b \in FreeSet' : canWrite(b)
      BY <2>5 DEF IInv, RegionsFullFreeWritable, FreeSet
    <3> QED
      BY <2>1, <3>2, <3>3
      DEF RegionsFullFreeWritable, fullyWritten, canWrite, FreeSet, NormalSet, ColdSet
  <2> QED
    BY <2>2, <2>6, <2>7, <2>8, <2>9 DEF IInv
<1>5. ASSUME NEW x \in Page, HostWrite(x) PROVE IInv'
  BY <1>2, <1>3, <1>4, <1>5 DEF HostWrite
<1>6. ASSUME ChooseRegion PROVE IInv'
  <2>1. /\ phase = "gc" /\ phase' = "select" /\ region' \in {"cold", "normal"}
        /\ UNCHANGED <<freeBlocks, currentBlock, victimIds, cascade, request, normalBlocks, coldBlocks>>
        /\ UNCHANGED ssdVars /\ UNCHANGED <<ptl, writePos, validCnt, ltp>>
    BY <1>6 DEF ChooseRegion, ssdVars
  <2>2. LoopInv'
    BY <1>1, <2>1, CallStep
  <2>3. RegionInv'
    BY <2>1 DEF IInv, RegionInv
  <2> QED
    BY <2>1, <2>2, <2>3, ListsStay
<1>7. ASSUME Selected PROVE IInv'
  <2>1. /\ phase = "select" /\ TotalInvalid(victimIds) >= PagesPerBlock /\ StartCascade /\ region' = "none"
        /\ UNCHANGED <<ssdVars, freeBlocks, currentBlock, victimIds, request>>
        /\ UNCHANGED <<freeBlocks, victimIds, normalBlocks, coldBlocks>>
        /\ UNCHANGED <<ptl, writePos, validCnt, ltp>>
    BY <1>7 DEF Selected, ssdVars
  <2>2. LoopInv'
    BY <1>1, <2>1, StartStep
  <2>3. phase' \in {"failed", "erase", "compact"}
    BY <2>1 DEF StartCascade
  <2>4. RegionInv' /\ phase' # "idle"
    BY <2>1, <2>3 DEF RegionInv
  <2> QED
    BY <2>1, <2>2, <2>4, ListsStay
<1>8. ASSUME SelectionFails PROVE IInv'
  <2>1. /\ phase = "select" /\ phase' = "failed"
        /\ UNCHANGED <<freeBlocks, currentBlock, victimIds, cascade, request, normalBlocks, coldBlocks, region>>
        /\ UNCHANGED ssdVars /\ UNCHANGED <<ptl, writePos, validCnt, ltp>>
    BY <1>8 DEF SelectionFails, ssdVars
  <2>2. LoopInv'
    BY <1>1, <2>1, CallStep
  <2>3. RegionInv'
    BY <2>1 DEF IInv, RegionInv
  <2> QED
    BY <1>1, <2>1, <2>2, <2>3, ListsStay
<1>9. ASSUME Collected, UNCHANGED <<normalBlocks, coldBlocks, region>> PROVE IInv'
  <2>1. /\ phase = "distribute" /\ phase' = "collected" /\ victimIds = <<>> /\ cascade' = 0
        /\ UNCHANGED <<freeBlocks, currentBlock, victimIds, request, normalBlocks, coldBlocks, region>>
        /\ UNCHANGED ssdVars /\ UNCHANGED <<ptl, writePos, validCnt, ltp>>
    BY <1>9 DEF Collected, ssdVars
  <2>2. LoopInv'
    <3>1. 0 \in 0 .. BlockCount
      BY SizeFacts
    <3> QED
      BY <1>1, <2>1, <3>1, CallStep
  <2>3. RegionInv'
    BY <2>1 DEF IInv, RegionInv
  <2> QED
    BY <1>1, <2>1, <2>2, <2>3, ListsStay
<1>10. ASSUME ResumeWrite, UNCHANGED <<normalBlocks, coldBlocks, region>> PROVE IInv'
  <2>1. /\ phase = "collected" /\ phase' = "idle" /\ request' = unused /\ TakeFreeBlock(request)
        /\ request \in Page
    BY <1>1, <1>10 DEF ResumeWrite
  <2> QED
    BY <1>10, <2>1, TakePreserves
<1>11. ASSUME UNCHANGED vars PROVE IInv'
  <2>1. UNCHANGED <<ssdVars, twoRVars>> /\ UNCHANGED <<normalBlocks, coldBlocks, region>>
        /\ UNCHANGED <<ptl, writePos, validCnt, ltp>>
        /\ UNCHANGED <<freeBlocks, currentBlock, victimIds, cascade, phase, request>>
    BY <1>11 DEF vars, ssdVars, twoRVars
  <2>2. LoopInv'
    BY <1>1, <2>1, StutterStep
  <2>3. FreeSet' = FreeSet /\ NormalSet' = NormalSet /\ ColdSet' = ColdSet /\ VictimSet' = VictimSet
    BY <2>1 DEF FreeSet, NormalSet, ColdSet, VictimSet
  <2>4. RegionTypes' /\ RegionInv' /\ Apart'
    BY <2>1, <2>3 DEF IInv, RegionTypes, RegionInv, Apart
  <2>5. Covered'
    BY <2>1, <2>3 DEF IInv, Covered, AllListed
  <2>6. RegionsFullFreeWritable'
    BY <2>1 DEF IInv, RegionsFullFreeWritable, fullyWritten, canWrite
  <2> QED
    BY <2>2, <2>4, <2>5, <2>6 DEF IInv
<1> QED
  BY <1>5, <1>6, <1>7, <1>8, <1>9, <1>10, <1>11, SelectPreserves, CascadePreserves, DistributePreserves
  DEF Next, Step

(* The invariant of 2r-greedy.                                             *)
THEOREM Inductive == Spec => []IInv
BY InitInv, StepPreserves, PTL DEF Spec

(* The device stays consistent: the two directions of the mapping agree,   *)
(* the counters victims are selected by are exact, no slot is programmed   *)
(* twice.                                                                  *)
THEOREM DeviceConsistent == Spec => []SSDInv
<1>1. IInv => SSDInv
  BY DEF IInv, LoopInv
<1> QED
  BY Inductive, <1>1, PTL

(* Every block is the current block or in exactly one place of exactly one *)
(* list, whatever was collected and whatever failed.                       *)
THEOREM Partition == Spec => []RegionsPartitionBlocks
<1>1. IInv => RegionsPartitionBlocks
  <2> SUFFICES ASSUME IInv PROVE RegionsPartitionBlocks
    OBVIOUS
  <2> DEFINE fn  == freeBlocks \o normalBlocks
             fnc == (freeBlocks \o normalBlocks) \o coldBlocks
  <2>1. /\ freeBlocks \in Seq(Block) /\ normalBlocks \in Seq(Block) /\ coldBlocks \in Seq(Block)
        /\ victimIds \in Seq(Block) /\ IsInjective(victimIds)
        /\ IsInjective(freeBlocks) /\ IsInjective(normalBlocks) /\ IsInjective(coldBlocks)
        /\ currentBlock \in Block
    BY ListTypes DEF IInv, Apart
  <2>2. fn \in Seq(Block) /\ IsInjective(fn) /\ Range(fn) = FreeSet \cup NormalSet
    BY <2>1, JoinLists DEF IInv, Apart, FreeSet, NormalSet
  <2>3. fnc \in Seq(Block) /\ IsInjective(fnc) /\ Range(fnc) = FreeSet \cup NormalSet \cup ColdSet
    <3>1. Range(fn) \cap Range(coldBlocks) = {}
      BY <2>2 DEF IInv, Apart, ColdSet
    <3> HIDE DEF fn
    <3>2. /\ fn \o coldBlocks \in Seq(Block) /\ IsInjective(fn \o coldBlocks)
          /\ Range(fn \o coldBlocks) = Range(fn) \cup Range(coldBlocks)
      BY <2>1, <2>2, <3>1, JoinLists
    <3> QED
      BY <2>2, <3>2 DEF fn, ColdSet
  <2>4. Listed \in Seq(Block) /\ IsInjective(Listed) /\ Range(Listed) = AllListed
    <3>1. Range(fnc) \cap Range(victimIds) = {}
      BY <2>3 DEF IInv, Apart, VictimSet
    <3>2. Listed = fnc \o victimIds
      BY DEF Listed
    <3> HIDE DEF fnc
    <3>3. /\ fnc \o victimIds \in Seq(Block) /\ IsInjective(fnc \o victimIds)
          /\ Range(fnc \o victimIds) = Range(fnc) \cup Range(victimIds)
      BY <2>1, <2>3, <3>1, JoinLists
    <3> QED
      BY <2>3, <3>2, <3>3 DEF AllListed, VictimSet
  <2>5. TypeOK
    BY DEF IInv, LoopInv, RegionTypes, TypeOK
  <2>6. \A i, j \in DOMAIN Listed : Listed[i] = Listed[j] => i = j
    BY <2>4 DEF IsInjective
  <2>7. /\ Range(Listed) \cup {currentBlock} = Block
        /\ phase = "idle" => currentBlock \notin Range(Listed)
    BY <2>1, <2>4 DEF IInv, Covered
  <2> QED
    BY <2>5, <2>6, <2>7 DEF RegionsPartitionBlocks
<1> QED
  BY Inductive, <1>1, PTL

(* Only full blocks wait for collection, and only blocks with room are     *)
(* free: what the cascade refilled completely is not handed to the host.   *)
THEOREM FullOrFree == Spec => []RegionsFullFreeWritable
<1>1. IInv => RegionsFullFreeWritable
  BY DEF IInv
<1> QED
  BY Inductive, <1>1, PTL

(* The ensure of compactUntilFreeBlock never fails: the first victim is    *)
(* empty when it is erased.                                                *)
THEOREM FirstVictimEmpty == Spec => []CascadeEmptiesFirst
<1>1. IInv => CascadeEmptiesFirst
  BY FirstIsEmpty DEF IInv, CascadeEmptiesFirst
<1> QED
  BY Inductive, <1>1, PTL

(* The cascade wins every invalid page of every victim.                    *)
THEOREM NoGarbageLeft == Spec => []CascadeLeavesNoGarbage
<1>1. IInv => CascadeLeavesNoGarbage
  BY DEF IInv, LoopInv, CascadeInv
<1> QED
  BY Inductive, <1>1, PTL

-----------------------------------------------------------------------------
(* Whichever region is collected, the device behaves like the ideal map: a *)
(* page the host wrote is in exactly one place until it is written again.  *)
THEOREM Refinement == Spec => ImplementsFlashMap
<1>1. Init => Promise!Init
  <2> SUFFICES ASSUME Init PROVE Promise!Init
    OBVIOUS
  <2>1. SSDInv
    BY InitInv DEF IInv, LoopInv
  <2>2. Placed = ltp
    BY <2>1, PlacedIsMapping DEF SSDInv
  <2> QED
    BY <2>2 DEF Promise!Init, Init, TwoRInit, SSDInit
<1>2. IInv /\ IInv' /\ [Next]_vars => [Promise!Next]_Placed
  <2> SUFFICES ASSUME IInv, IInv', [Next]_vars PROVE [Promise!Next]_Placed
    OBVIOUS
  <2>1. LoopInv /\ LoopInv'
    BY DEF IInv
  <2>2. CASE \E x \in Page : HostWrite(x)
    <3>1. PICK x \in Page : WriteCurrent(x) \/ WriteNext(x) \/ StartGC(x)
      BY <2>2 DEF HostWrite
    <3> QED
      BY <2>1, <3>1, HostWriteRefines
  <2>3. CASE Cascade \/ Collected \/ ResumeWrite \/ DistributeVictim
    BY <2>1, <2>3, StepRefines
  <2>4. CASE ChooseRegion \/ SelectCold \/ SelectNormal \/ Selected \/ SelectionFails
    <3>1. UNCHANGED ssdVars
      BY <2>4 DEF ChooseRegion, SelectCold, SelectNormal, SelectVictimFrom, Selected, SelectionFails
    <3> QED
      BY <3>1, PlacedStays
  <2>5. CASE UNCHANGED vars
    BY <2>5, PlacedStays DEF vars
  <2> QED
    BY <2>2, <2>3, <2>4, <2>5 DEF Next, Step, DistributeToRegions
<1> QED
  BY <1>1, <1>2, Inductive, PTL DEF Spec, ImplementsFlashMap, Promise!Spec

-----------------------------------------------------------------------------
(* Selection never runs out of victims.  The victims taken so far and the  *)
(* region they are taken from keep holding what made the region worth      *)
(* choosing: a block's worth of invalid pages.                             *)
Pool == IF region = "cold" THEN ColdSet ELSE NormalSet

SpaceInv ==
  /\ phase = "select" => Cardinality(Invalid(validCnt, Pool \cup VictimSet)) >= PagesPerBlock
  /\ SelectionSucceeds

(* A selected victim is counted with the victims instead of its region.    *)
LEMMA SelectedStayCounted ==
  ASSUME IInv, SelectCold \/ SelectNormal
  PROVE  (Pool \cup VictimSet)' = Pool \cup VictimSet
<1>1. /\ normalBlocks \in Seq(Block) /\ coldBlocks \in Seq(Block) /\ victimIds \in Seq(Block)
      /\ IsInjective(normalBlocks) /\ IsInjective(coldBlocks) /\ IsInjective(victimIds) /\ SSDTypeOK
      /\ NormalSet \cap VictimSet = {} /\ ColdSet \cap VictimSet = {}
  BY ListTypes DEF IInv, Apart
<1>2. CASE SelectCold
  <2> DEFINE b == Emptiest(coldBlocks)
  <2>1. /\ coldBlocks # <<>> /\ victimIds' = Append(victimIds, b) /\ region = "cold" /\ region' = region
        /\ coldBlocks' = WithoutEmptiest(coldBlocks)
    BY <1>2 DEF SelectCold, SelectVictimFrom
  <2>2. ColdSet' = ColdSet \ {b} /\ b \in ColdSet /\ b \in Block
    BY <1>1, <2>1, TakenFromRegion DEF ColdSet
  <2> HIDE DEF b
  <2>3. VictimSet' = VictimSet \cup {b}
    BY <1>1, <2>1, <2>2, AppendList DEF VictimSet
  <2> QED
    BY <2>1, <2>2, <2>3 DEF Pool
<1>3. CASE SelectNormal
  <2> DEFINE b == Emptiest(normalBlocks)
  <2>1. /\ normalBlocks # <<>> /\ victimIds' = Append(victimIds, b) /\ region = "normal" /\ region' = region
        /\ normalBlocks' = WithoutEmptiest(normalBlocks)
    BY <1>3 DEF SelectNormal, SelectVictimFrom
  <2>2. NormalSet' = NormalSet \ {b} /\ b \in NormalSet /\ b \in Block
    BY <1>1, <2>1, TakenFromRegion DEF NormalSet
  <2> HIDE DEF b
  <2>3. VictimSet' = VictimSet \cup {b}
    BY <1>1, <2>1, <2>2, AppendList DEF VictimSet
  <2> QED
    BY <2>1, <2>2, <2>3 DEF Pool
<1> QED
  BY <1>2, <1>3

(* No block is free when a region is chosen, so the two regions hold every *)
(* invalid page of the device, and one of them at least half.              *)
LEMMA RegionWorthIt ==
  ASSUME BlockCount * PagesPerBlock - Cardinality(Page) >= 2 * PagesPerBlock - 1,
         IInv, ChooseRegion
  PROVE  Cardinality(Invalid(validCnt, (Pool \cup VictimSet)')) >= PagesPerBlock
<1> DEFINE n == Cardinality(Invalid(validCnt, NormalSet))
           c == Cardinality(Invalid(validCnt, ColdSet))
           P == PagesPerBlock
           spare == BlockCount * PagesPerBlock - Cardinality(Page)
<1>1. /\ phase = "gc" /\ UNCHANGED <<normalBlocks, coldBlocks, victimIds>>
      /\ region' = IF CollectCold THEN "cold" ELSE "normal"
  BY DEF ChooseRegion
<1>2. freeBlocks = <<>> /\ victimIds = <<>>
  BY <1>1 DEF IInv, RegionInv, LoopInv, CallInv
<1>3. FreeSet = {} /\ VictimSet = {} /\ VictimSet' = {}
  BY <1>1, <1>2 DEF FreeSet, VictimSet, Range
<1>4. /\ NormalSet \cup ColdSet = Block /\ NormalSet \cap ColdSet = {}
      /\ NormalSet \in SUBSET Block /\ ColdSet \in SUBSET Block
  BY <1>1, <1>3, ListTypes DEF IInv, Covered, AllListed, Apart
<1>5. n \in Nat /\ c \in Nat /\ n + c = Cardinality(Invalid(validCnt, Block))
  BY <1>4, InvalidFinite, InvalidOfUnion
<1>6. spare <= Cardinality(Invalid(validCnt, Block))
  BY ListTypes, InvalidOfDevice
<1>7. P \in Nat /\ spare \in Int /\ spare >= 2 * P - 1
  BY SSDAssumption, FS_CardinalityType
<1> HIDE DEF n, c, P, spare
<1>8. n + c >= 2 * P - 1
  BY ONLY <1>5, <1>6, <1>7
<1>9. TotalInvalid(normalBlocks) = n /\ TotalInvalid(coldBlocks) = c
  BY ListTypes, TotalOfList DEF IInv, Apart, NormalSet, ColdSet, n, c
<1>10. IF CollectCold THEN c >= P ELSE n >= P
  <2>1. CollectCold => c >= P
    BY <1>9 DEF CollectCold, P
  <2>2. ~CollectCold => c < P \/ n >= P
    BY <1>5, <1>7, <1>9 DEF CollectCold, P
  <2> QED
    BY <1>5, <1>7, <1>8, <2>1, <2>2
<1>11. (Pool \cup VictimSet)' = IF CollectCold THEN ColdSet ELSE NormalSet
  BY <1>1, <1>3 DEF Pool, NormalSet, ColdSet
<1> QED
  BY <1>10, <1>11 DEF n, c, P

LEMMA SpacePreserves ==
  ASSUME BlockCount * PagesPerBlock - Cardinality(Page) >= 2 * PagesPerBlock - 1,
         IInv, SpaceInv, [Next]_vars
  PROVE  SpaceInv'
<1>1. phase # "failed"
  BY DEF SpaceInv, SelectionSucceeds
<1>2. ASSUME NEW x \in Page, HostWrite(x) PROVE SpaceInv'
  <2>1. phase' \in {"idle", "gc"}
    BY <1>2 DEF HostWrite, WriteCurrent, WriteNext, StartGC, twoRVars
  <2> QED
    BY <2>1 DEF SpaceInv, SelectionSucceeds
<1>3. ASSUME ChooseRegion PROVE SpaceInv'
  <2>1. phase' = "select" /\ UNCHANGED validCnt
    BY <1>3 DEF ChooseRegion, ssdVars
  <2> QED
    BY <1>3, <2>1, RegionWorthIt DEF SpaceInv, SelectionSucceeds
<1>4. ASSUME SelectCold \/ SelectNormal PROVE SpaceInv'
  <2>1. phase = "select" /\ phase' = "select" /\ UNCHANGED <<validCnt, region>>
    BY <1>4 DEF SelectCold, SelectNormal, SelectVictimFrom, ssdVars
  <2>2. (Pool \cup VictimSet)' = Pool \cup VictimSet
    BY <1>4, SelectedStayCounted
  <2> QED
    BY <2>1, <2>2 DEF SpaceInv, SelectionSucceeds
<1>5. ASSUME Selected PROVE SpaceInv'
  <2>1. phase' # "failed"
    BY <1>5, StartStep DEF Selected, IInv
  <2>2. phase' # "select"
    BY <1>5 DEF Selected, StartCascade
  <2> QED
    BY <2>1, <2>2 DEF SpaceInv, SelectionSucceeds
<1>6. ASSUME SelectionFails PROVE FALSE
  <2>1. Pool = {}
    BY <1>6 DEF SelectionFails, Pool, NormalSet, ColdSet, Range
  <2>2. Cardinality(Invalid(validCnt, VictimSet)) >= PagesPerBlock
    BY <1>6, <2>1 DEF SelectionFails, SpaceInv
  <2>3. TotalInvalid(victimIds) = Cardinality(Invalid(validCnt, VictimSet)) /\ TotalInvalid(victimIds) \in Nat
    BY ListTypes, TotalOfList DEF VictimSet
  <2>4. TotalInvalid(victimIds) < PagesPerBlock
    BY <1>6 DEF SelectionFails
  <2> QED
    BY <2>2, <2>3, <2>4, SizeFacts
<1>7. ASSUME Cascade \/ Collected \/ ResumeWrite \/ DistributeToRegions PROVE SpaceInv'
  <2>1. phase' \in {"compact", "move", "erase", "distribute", "collected", "idle"}
    BY <1>7 DEF Cascade, CompactDestination, MoveToDestination, EraseFirst, Collected, ResumeWrite,
                DistributeToRegions, DistributeVictim
  <2> QED
    BY <2>1 DEF SpaceInv, SelectionSucceeds
<1>8. ASSUME UNCHANGED vars PROVE SpaceInv'
  <2>1. UNCHANGED <<validCnt, victimIds, phase, normalBlocks, coldBlocks, region>>
    BY <1>8 DEF vars, ssdVars, twoRVars
  <2> QED
    BY <2>1 DEF SpaceInv, SelectionSucceeds, Pool, NormalSet, ColdSet, VictimSet
<1> QED
  BY <1>2, <1>3, <1>4, <1>5, <1>6, <1>7, <1>8 DEF Next, Step

(* A device with 2 * PagesPerBlock - 1 spare pages: the ensure that a      *)
(* region holds a block's worth of invalid pages never fails.              *)
THEOREM SelectionNeverFails ==
  ASSUME BlockCount * PagesPerBlock - Cardinality(Page) >= 2 * PagesPerBlock - 1
  PROVE  Spec => []SelectionSucceeds
<1>1. Init => SpaceInv
  BY DEF Init, TwoRInit, SpaceInv, SelectionSucceeds
<1>2. IInv /\ SpaceInv /\ [Next]_vars => SpaceInv'
  BY SpacePreserves
<1>3. SpaceInv => SelectionSucceeds
  BY DEF SpaceInv
<1> QED
  BY <1>1, <1>2, <1>3, Inductive, PTL DEF Spec
=============================================================================
