----------------------------- MODULE TwoR_proofs -----------------------------
(***************************************************************************)
(* Proofs about what the variants of the 2R collector share: how many      *)
(* invalid pages a list of blocks holds, and that the cascade over the     *)
(* victims empties the first of them, whatever selected them.              *)
(***************************************************************************)
EXTENDS TwoR, SSD_proofs, Lemmas, FunctionTheorems

(* The invalid pages of a set of blocks with the given valid counts.       *)
Invalid(count, blocks) ==
  {e \in blocks \X (1 .. PagesPerBlock) : e[2] <= PagesPerBlock - count[e[1]]}

LEMMA SizeFacts ==
  /\ PagesPerBlock \in Nat /\ PagesPerBlock > 0 /\ BlockCount \in Nat
  /\ IsFiniteSet(Block) /\ Cardinality(Block) = BlockCount
  BY FS_Interval, SSDAssumption DEF Block

LEMMA InvalidFinite ==
  ASSUME NEW count, NEW S \in SUBSET Block
  PROVE  IsFiniteSet(Invalid(count, S)) /\ Cardinality(Invalid(count, S)) \in Nat
<1>1. IsFiniteSet(S) /\ IsFiniteSet(1 .. PagesPerBlock)
  BY SizeFacts, FS_Subset, FS_Interval
<1>2. IsFiniteSet(S \X (1 .. PagesPerBlock))
  BY <1>1, FS_Product
<1>3. Invalid(count, S) \in SUBSET (S \X (1 .. PagesPerBlock))
  BY DEF Invalid
<1> QED
  BY <1>2, <1>3, FS_Subset, FS_CardinalityType

(* One block holds what is left of its slots.                              *)
LEMMA InvalidOfBlock ==
  ASSUME NEW count \in [Block -> 0 .. PagesPerBlock], NEW b \in Block
  PROVE  Cardinality(Invalid(count, {b})) = PagesPerBlock - count[b]
<1> DEFINE n == PagesPerBlock - count[b]
           f == [k \in 1 .. n |-> <<b, k>>]
<1>1. n \in 0 .. PagesPerBlock /\ PagesPerBlock \in Nat
  BY SizeFacts
<1> HIDE DEF n
<1>2. IsFiniteSet(1 .. n) /\ Cardinality(1 .. n) = n
  <2>1. n \in Int /\ 1 \in Int /\ n >= 0
    BY <1>1
  <2>2. /\ IsFiniteSet(1 .. n)
        /\ Cardinality(1 .. n) = IF 1 > n THEN 0 ELSE n - 1 + 1
    BY ONLY <2>1, FS_Interval
  <2> QED
    BY <2>1, <2>2
<1>3. \A k : k \in 1 .. n <=> k \in 1 .. PagesPerBlock /\ k <= n
  BY <1>1
<1>4. f \in [1 .. n -> Invalid(count, {b})]
  BY <1>3 DEF Invalid, n
<1>5. \A e \in Invalid(count, {b}) : \E k \in 1 .. n : f[k] = e
  <2>1. SUFFICES ASSUME NEW e \in Invalid(count, {b})
                 PROVE  \E k \in 1 .. n : f[k] = e
    OBVIOUS
  <2>2. e = <<b, e[2]>> /\ e[2] \in 1 .. n
    BY <1>3 DEF Invalid, n
  <2> QED
    BY <2>2
<1>6. \A j, k \in 1 .. n : f[j] = f[k] => j = k
  OBVIOUS
<1> HIDE DEF f
<1>7. Cardinality(Invalid(count, {b})) = Cardinality(1 .. n)
  BY <1>2, <1>4, <1>5, <1>6, SameSize
<1> QED
  BY <1>2, <1>7 DEF n

(* The invalid pages of different blocks are different pages.              *)
LEMMA InvalidOfUnion ==
  ASSUME NEW count, NEW S \in SUBSET Block, NEW T \in SUBSET Block, S \cap T = {}
  PROVE  Cardinality(Invalid(count, S \cup T)) =
           Cardinality(Invalid(count, S)) + Cardinality(Invalid(count, T))
<1>1. Invalid(count, S \cup T) = Invalid(count, S) \cup Invalid(count, T)
  BY DEF Invalid
<1>2. Invalid(count, S) \cap Invalid(count, T) = {}
  BY DEF Invalid
<1>3. Cardinality(Invalid(count, S) \cap Invalid(count, T)) = 0
  BY <1>2, FS_EmptySet
<1>4. /\ IsFiniteSet(Invalid(count, S)) /\ Cardinality(Invalid(count, S)) \in Nat
      /\ IsFiniteSet(Invalid(count, T)) /\ Cardinality(Invalid(count, T)) \in Nat
  BY InvalidFinite
<1>5. Cardinality(Invalid(count, S) \cup Invalid(count, T)) =
        Cardinality(Invalid(count, S)) + Cardinality(Invalid(count, T))
          - Cardinality(Invalid(count, S) \cap Invalid(count, T))
  BY <1>4, FS_Union
<1> DEFINE m == Cardinality(Invalid(count, S))
           n == Cardinality(Invalid(count, T))
<1>6. m \in Nat /\ n \in Nat /\ Cardinality(Invalid(count, S \cup T)) = m + n - 0
  BY <1>1, <1>3, <1>4, <1>5
<1> HIDE DEF m, n
<1>7. Cardinality(Invalid(count, S \cup T)) = m + n
  BY <1>6
<1> QED
  BY <1>7 DEF m, n

LEMMA InvalidOfNone ==
  ASSUME NEW count
  PROVE  Cardinality(Invalid(count, {})) = 0
<1>1. Invalid(count, {}) = {}
  BY DEF Invalid
<1> QED
  BY <1>1, FS_EmptySet

(* A list that names a block once counts what the set of its blocks holds. *)
LEMMA InvalidOfList ==
  ASSUME NEW count, NEW q \in Seq(Block), IsInjective(q)
  PROVE  Cardinality({e \in (1 .. Len(q)) \X (1 .. PagesPerBlock) :
                        e[2] <= PagesPerBlock - count[q[e[1]]]})
           = Cardinality(Invalid(count, Range(q)))
<1> DEFINE A == {e \in (1 .. Len(q)) \X (1 .. PagesPerBlock) :
                   e[2] <= PagesPerBlock - count[q[e[1]]]}
           B == Invalid(count, Range(q))
           f == [e \in A |-> <<q[e[1]], e[2]>>]
<1>1. /\ Len(q) \in Nat /\ Range(q) \subseteq Block
      /\ \A i \in 1 .. Len(q) : q[i] \in Range(q)
      /\ \A x \in Range(q) : \E i \in 1 .. Len(q) : x = q[i]
      /\ \A i, j \in 1 .. Len(q) : q[i] = q[j] => i = j
  BY ListFacts, ListIsInjective
<1>2. IsFiniteSet(A)
  <2>1. IsFiniteSet(1 .. Len(q)) /\ IsFiniteSet(1 .. PagesPerBlock)
    BY <1>1, SizeFacts, FS_Interval
  <2>2. IsFiniteSet((1 .. Len(q)) \X (1 .. PagesPerBlock))
    BY <2>1, FS_Product
  <2>3. A \in SUBSET ((1 .. Len(q)) \X (1 .. PagesPerBlock))
    OBVIOUS
  <2> HIDE DEF A
  <2> QED
    BY <2>2, <2>3, FS_Subset
<1>3. f \in [A -> B]
  BY <1>1 DEF Invalid
<1>4. \A d, e \in A : f[d] = f[e] => d = e
  <2>1. SUFFICES ASSUME NEW d \in A, NEW e \in A, f[d] = f[e] PROVE d = e
    OBVIOUS
  <2>2. q[d[1]] = q[e[1]] /\ d[2] = e[2] /\ d[1] \in 1 .. Len(q) /\ e[1] \in 1 .. Len(q)
        /\ d = <<d[1], d[2]>> /\ e = <<e[1], e[2]>>
    BY <2>1
  <2> QED
    BY <1>1, <2>2
<1>5. \A t \in B : \E e \in A : f[e] = t
  <2>1. SUFFICES ASSUME NEW t \in B PROVE \E e \in A : f[e] = t
    OBVIOUS
  <2>2. t = <<t[1], t[2]>> /\ t[1] \in Range(q) /\ t[2] \in 1 .. PagesPerBlock
        /\ t[2] <= PagesPerBlock - count[t[1]]
    BY DEF Invalid
  <2>3. PICK i \in 1 .. Len(q) : t[1] = q[i]
    BY <1>1, <2>2
  <2>4. <<i, t[2]>> \in A
    BY <2>2, <2>3
  <2>5. f[<<i, t[2]>>] = t
    BY <2>2, <2>3, <2>4
  <2> QED
    BY <2>4, <2>5
<1> HIDE DEF A, B, f
<1>6. Cardinality(B) = Cardinality(A)
  BY <1>2, <1>3, <1>4, <1>5, SameSize
<1> QED
  BY <1>6 DEF A, B

(* Counts that agree on a set of blocks find the same invalid pages there. *)
LEMMA InvalidUnchanged ==
  ASSUME NEW count, NEW next, NEW S, \A b \in S : next[b] = count[b]
  PROVE  Invalid(next, S) = Invalid(count, S)
BY DEF Invalid

(* Moving pages between two blocks of a set leaves its total as it was.    *)
LEMMA InvalidMoved ==
  ASSUME NEW count \in [Block -> 0 .. PagesPerBlock],
         NEW next \in [Block -> 0 .. PagesPerBlock],
         NEW S \in SUBSET Block, NEW s \in S, NEW d \in S, s # d,
         next[s] + next[d] = count[s] + count[d],
         \A b \in S \ {s, d} : next[b] = count[b]
  PROVE  Cardinality(Invalid(next, S)) = Cardinality(Invalid(count, S))
<1> DEFINE R == S \ {s, d}
           total(c) == Cardinality(Invalid(c, S))
           rest(c)  == Cardinality(Invalid(c, R))
<1>1. R \in SUBSET Block /\ {s} \in SUBSET Block /\ {d} \in SUBSET Block /\ s \in Block /\ d \in Block
      /\ (R \cup {s}) \in SUBSET Block
  OBVIOUS
<1>2. R \cap {s} = {} /\ (R \cup {s}) \cap {d} = {} /\ (R \cup {s}) \cup {d} = S
  OBVIOUS
<1> HIDE DEF R
<1>3. \A c \in {count, next} : total(c) = Cardinality(Invalid(c, R \cup {s})) + Cardinality(Invalid(c, {d}))
  BY <1>1, <1>2, InvalidOfUnion
<1>4. \A c \in {count, next} : Cardinality(Invalid(c, R \cup {s})) = rest(c) + Cardinality(Invalid(c, {s}))
  BY <1>1, <1>2, InvalidOfUnion
<1>5. \A c \in {count, next} :
        /\ Cardinality(Invalid(c, {s})) = PagesPerBlock - c[s]
        /\ Cardinality(Invalid(c, {d})) = PagesPerBlock - c[d]
  BY <1>1, InvalidOfBlock
<1>6. rest(next) = rest(count) /\ rest(count) \in Nat
  <2>1. \A b \in R : next[b] = count[b]
    BY DEF R
  <2> QED
    BY <1>1, <2>1, InvalidUnchanged, InvalidFinite
<1>7. /\ PagesPerBlock \in Nat /\ count[s] \in Nat /\ count[d] \in Nat
      /\ next[s] \in Nat /\ next[d] \in Nat
  BY <1>1, SizeFacts
<1>8. /\ total(count) = rest(count) + (PagesPerBlock - count[s]) + (PagesPerBlock - count[d])
      /\ total(next) = rest(count) + (PagesPerBlock - next[s]) + (PagesPerBlock - next[d])
  BY <1>3, <1>4, <1>5, <1>6
<1> HIDE DEF total, rest
<1>9. total(next) = total(count)
  BY <1>6, <1>7, <1>8
<1> QED
  BY <1>9 DEF total

-----------------------------------------------------------------------------
(* The device: every slot not in use is an invalid page, and there is at   *)
(* most one slot in use per page.                                          *)
LEMMA UsedSlots ==
  ASSUME SSDInv
  PROVE  LET used == {a \in Block \X Slot : ptl[a[1]][a[2]] # unused}
         IN  IsFiniteSet(used) /\ Cardinality(used) <= Cardinality(Page)
<1> DEFINE used == {a \in Block \X Slot : ptl[a[1]][a[2]] # unused}
           f == [a \in used |-> ptl[a[1]][a[2]]]
<1>1. f \in [used -> Page]
  BY DEF SSDInv, SSDTypeOK
<1>2. \A a, c \in used : f[a] = f[c] => a = c
  <2>1. SUFFICES ASSUME NEW a \in used, NEW c \in used, f[a] = f[c]
                 PROVE  a = c
    OBVIOUS
  <2>2. /\ ptl[a[1]][a[2]] = ptl[c[1]][c[2]] /\ a[1] \in Block /\ c[1] \in Block
        /\ a[2] \in Slot /\ c[2] \in Slot /\ ptl[a[1]][a[2]] # unused
        /\ a = <<a[1], a[2]>> /\ c = <<c[1], c[2]>>
    BY <2>1
  <2>3. a[1] = c[1] /\ a[2] = c[2]
    BY <2>2, OneSlotPerPage DEF SSDInv
  <2> QED
    BY <2>2, <2>3
<1> HIDE DEF f, used
<1>3. f \in Injection(used, Page)
  BY <1>1, <1>2 DEF Injection, IsInjective
<1>4. IsFiniteSet(used) /\ Cardinality(used) <= Cardinality(Page)
  BY <1>3, SSDAssumption, FS_Injection
<1> QED
  BY <1>4 DEF used

LEMMA InvalidOfDevice ==
  ASSUME SSDInv
  PROVE  BlockCount * PagesPerBlock - Cardinality(Page) <= Cardinality(Invalid(validCnt, Block))
<1> USE DEF SSDInv
<1> DEFINE slots == Block \X Slot
           used  == {a \in slots : ptl[a[1]][a[2]] # unused}
           free  == slots \ used
           pages == Invalid(validCnt, Block)
           spare(b) == Slot \ Live(b)
<1>1. IsFiniteSet(used) /\ Cardinality(used) <= Cardinality(Page)
  BY UsedSlots
<1>2. IsFiniteSet(slots) /\ Cardinality(slots) = BlockCount * PagesPerBlock
  BY SizeFacts, SlotFinite, FS_Product
<1>3. IsFiniteSet(free) /\ Cardinality(free) = BlockCount * PagesPerBlock - Cardinality(used)
  <2>1. used \subseteq slots /\ slots \cap used = used
    OBVIOUS
  <2> HIDE DEF used, slots
  <2>2. Cardinality(slots \ used) = Cardinality(slots) - Cardinality(slots \cap used)
        /\ IsFiniteSet(slots \ used)
    BY <1>1, <1>2, FS_Difference
  <2> QED
    BY <1>2, <2>1, <2>2
(* Each block's unused slots are numbered.                                 *)
<1>4. \A b \in Block : \E g : g \in Bijection(spare(b), 1 .. PagesPerBlock - validCnt[b])
  <2>1. SUFFICES ASSUME NEW b \in Block
                 PROVE  \E g : g \in Bijection(spare(b), 1 .. PagesPerBlock - validCnt[b])
    OBVIOUS
  <2>2. Live(b) \subseteq Slot /\ IsFiniteSet(Live(b)) /\ validCnt[b] = Cardinality(Live(b))
    BY LiveFacts DEF CountsExact
  <2>3. Slot \cap Live(b) = Live(b)
    BY <2>2
  <2>4. IsFiniteSet(spare(b)) /\ Cardinality(spare(b)) = PagesPerBlock - validCnt[b]
    <3>1. IsFiniteSet(Slot \ Live(b))
          /\ Cardinality(Slot \ Live(b)) = Cardinality(Slot) - Cardinality(Slot \cap Live(b))
      BY <2>2, SlotFinite, FS_Difference
    <3> QED
      BY <2>2, <2>3, <3>1, SlotFinite
  <2> HIDE DEF spare
  <2>5. PagesPerBlock - validCnt[b] \in Nat
    BY <2>4, FS_CardinalityType
  <2>6. ExistsBijection(1 .. PagesPerBlock - validCnt[b], spare(b))
    BY <2>4, FS_CardinalityType
  <2> QED
    BY <2>6, Fun_ExistsBijSymmetric DEF ExistsBijection
<1> DEFINE number(b) == CHOOSE g : g \in Bijection(spare(b), 1 .. PagesPerBlock - validCnt[b])
           f == [a \in free |-> <<a[1], number(a[1])[a[2]]>>]
<1>5. \A b \in Block :
        /\ \A p \in spare(b) : number(b)[p] \in 1 .. PagesPerBlock - validCnt[b]
        /\ \A p, q \in spare(b) : number(b)[p] = number(b)[q] => p = q
  <2>1. SUFFICES ASSUME NEW b \in Block
                 PROVE  /\ \A p \in spare(b) : number(b)[p] \in 1 .. PagesPerBlock - validCnt[b]
                        /\ \A p, q \in spare(b) : number(b)[p] = number(b)[q] => p = q
    OBVIOUS
  <2>2. number(b) \in Bijection(spare(b), 1 .. PagesPerBlock - validCnt[b])
    BY <1>4
  <2> HIDE DEF number, spare
  <2> QED
    BY <2>2 DEF Bijection, Injection, IsInjective
<1>6. \A a \in free : a[1] \in Block /\ a[2] \in spare(a[1]) /\ a = <<a[1], a[2]>>
  BY DEF Live
<1>7. f \in [free -> pages]
  <2>1. SUFFICES ASSUME NEW a \in free PROVE <<a[1], number(a[1])[a[2]]>> \in pages
    OBVIOUS
  <2>2. a[1] \in Block /\ number(a[1])[a[2]] \in 1 .. PagesPerBlock - validCnt[a[1]]
    BY <1>5, <1>6
  <2>3. validCnt[a[1]] \in 0 .. PagesPerBlock
    BY <2>2 DEF SSDTypeOK
  <2> HIDE DEF number, free
  <2>4. number(a[1])[a[2]] \in 1 .. PagesPerBlock /\ number(a[1])[a[2]] <= PagesPerBlock - validCnt[a[1]]
    BY <2>2, <2>3, SizeFacts
  <2> QED
    BY <2>2, <2>4 DEF Invalid
<1>8. \A a, c \in free : f[a] = f[c] => a = c
  <2>1. SUFFICES ASSUME NEW a \in free, NEW c \in free, f[a] = f[c] PROVE a = c
    OBVIOUS
  <2>2. a[1] = c[1] /\ number(a[1])[a[2]] = number(a[1])[c[2]]
    <3> HIDE DEF free, number
    <3>1. <<a[1], number(a[1])[a[2]]>> = <<c[1], number(c[1])[c[2]]>>
      BY <2>1
    <3> QED
      BY <3>1
  <2> HIDE DEF number, spare, free, f
  <2>3. a[2] = c[2]
    BY <1>5, <1>6, <2>2
  <2> QED
    BY <1>6, <2>2, <2>3
<1> HIDE DEF used, free, slots, pages, f
<1>9. f \in Injection(free, pages)
  BY <1>7, <1>8 DEF Injection, IsInjective
<1>10. IsFiniteSet(pages) /\ Cardinality(pages) \in Nat
  BY InvalidFinite DEF pages
<1>11. Cardinality(free) <= Cardinality(pages)
  BY <1>9, <1>10, FS_Injection
<1>12. BlockCount * PagesPerBlock \in Nat /\ Cardinality(Page) \in Nat /\ Cardinality(used) \in Nat
       /\ Cardinality(free) \in Nat
  BY <1>1, <1>2, <1>3, SSDAssumption, FS_CardinalityType
<1>13. BlockCount * PagesPerBlock - Cardinality(Page) <= Cardinality(pages)
  BY <1>1, <1>3, <1>10, <1>11, <1>12
<1> QED
  BY <1>13 DEF pages

-----------------------------------------------------------------------------
(* The cascade.                                                            *)

Cascading == phase \in {"compact", "move", "erase"}

(* The call in progress: the page it writes, and the victims it works on.  *)
CallInv ==
  /\ request \in Page \/ phase = "idle"
  /\ IsInjective(victimIds)
  /\ phase \in {"idle", "gc", "collected"} => victimIds = <<>>
  /\ phase \in {"compact", "move"} => cascade \in 2 .. Len(victimIds)
  /\ phase = "erase" => cascade = 1 /\ victimIds # <<>>

(* While the cascade runs the victims keep a block's worth of invalid      *)
(* pages.  Behind the victim it has reached no block holds one; so either  *)
(* they are all full of valid pages, or some move found room for all pages *)
(* of its source, and the reached victim has been empty since.             *)
CascadeInv ==
  /\ Cascading =>
       /\ TotalInvalid(victimIds) >= PagesPerBlock
       /\ \A i \in cascade + 1 .. Len(victimIds) :
            validCnt[victimIds[i]] = writePos[victimIds[i]]
       /\ \/ \A i \in cascade + 1 .. Len(victimIds) : allValid(victimIds[i])
          \/ allInvalid(victimIds[cascade])
  /\ phase = "move" => validCnt[victimIds[cascade]] = writePos[victimIds[cascade]]
  /\ CascadeLeavesNoGarbage

LoopInv == TwoRTypeOK /\ SSDInv /\ CallInv /\ CascadeInv

LEMMA TotalOfList ==
  ASSUME NEW q \in Seq(Block), IsInjective(q)
  PROVE  /\ TotalInvalid(q) = Cardinality(Invalid(validCnt, Range(q)))
         /\ TotalInvalid(q)' = Cardinality(Invalid(validCnt', Range(q)))
         /\ TotalInvalid(q) \in Nat
<1>1. TotalInvalid(q) = Cardinality(Invalid(validCnt, Range(q)))
  BY InvalidOfList DEF TotalInvalid, InvalidPages, invalidCnt
<1>2. TotalInvalid(q)' = Cardinality(Invalid(validCnt', Range(q)))
  BY InvalidOfList DEF TotalInvalid, InvalidPages, invalidCnt
<1>3. Range(q) \in SUBSET Block
  BY ListFacts
<1> QED
  BY <1>1, <1>2, <1>3, InvalidFinite

LEMMA TotalOfEmptyList == TotalInvalid(<<>>) = 0
<1>1. Len(<<>>) = 0
  OBVIOUS
<1>2. InvalidPages(<<>>) = {}
  BY <1>1 DEF InvalidPages
<1> QED
  BY <1>2, FS_EmptySet DEF TotalInvalid

(* The victims are different blocks.                                       *)
LEMMA VictimFacts ==
  ASSUME LoopInv
  PROVE  /\ victimIds \in Seq(Block) /\ IsInjective(victimIds) /\ Len(victimIds) \in Nat
         /\ \A i \in 1 .. Len(victimIds) : victimIds[i] \in Block /\ victimIds[i] \in Range(victimIds)
         /\ \A i, j \in 1 .. Len(victimIds) : victimIds[i] = victimIds[j] => i = j
         /\ Range(victimIds) \in SUBSET Block
         /\ Len(victimIds) <= BlockCount
<1>1. victimIds \in Seq(Block) /\ IsInjective(victimIds)
  BY DEF LoopInv, CallInv, TwoRTypeOK
<1>2. /\ Len(victimIds) \in Nat
      /\ \A i \in 1 .. Len(victimIds) : victimIds[i] \in Block /\ victimIds[i] \in Range(victimIds)
      /\ \A i, j \in 1 .. Len(victimIds) : victimIds[i] = victimIds[j] => i = j
      /\ Range(victimIds) \in SUBSET Block
  BY <1>1, ListFacts, ListIsInjective
<1>3. IsFiniteSet(Range(victimIds)) /\ Cardinality(Range(victimIds)) = Len(victimIds)
  BY <1>1, InjectiveLength
<1>4. Cardinality(Range(victimIds)) <= Cardinality(Block)
  BY <1>2, SizeFacts, FS_Subset
<1> QED
  BY <1>1, <1>2, <1>3, <1>4, SizeFacts

(* Compacting a block moves no counter but its write position.             *)
LEMMA CompactCounts ==
  ASSUME SSDInv, NEW d \in Block, CompactBlock(d)
  PROVE  /\ validCnt' = validCnt
         /\ writePos'[d] = validCnt[d]
         /\ \A b \in Block \ {d} : writePos'[b] = writePos[b]
<1>1. Cardinality(Live(d)) = validCnt[d]
  BY DEF SSDInv, CountsExact
<1>2. /\ validCnt' = [validCnt EXCEPT ![d] = validCnt[d]]
      /\ writePos' = [writePos EXCEPT ![d] = validCnt[d]]
  BY <1>1 DEF CompactBlock
<1> QED
  BY <1>2 DEF SSDInv, SSDTypeOK

(* Moving pages takes from one counter what it adds to the other.          *)
LEMMA MoveCounts ==
  ASSUME SSDInv, NEW s \in Block, NEW d \in Block, s # d, MoveValidPagesTo(s, d)
  PROVE  \E n \in Nat : /\ validCnt'[s] = validCnt[s] - n
                        /\ validCnt'[d] = validCnt[d] + n
                        /\ writePos'[d] = writePos[d] + n
                        /\ \A b \in Block \ {s, d} : validCnt'[b] = validCnt[b]
                        /\ \A b \in Block \ {d} : writePos'[b] = writePos[b]
<1> DEFINE n == Cardinality(Moved(s, d))
<1>1. n \in Nat
  <2>1. IsFiniteSet(Moved(s, d))
    BY MovedFacts DEF SSDInv
  <2> QED
    BY <2>1, FS_CardinalityType
<1>2. /\ validCnt \in [Block -> 0 .. PagesPerBlock] /\ writePos \in [Block -> 0 .. PagesPerBlock]
      /\ PagesPerBlock \in Nat
  BY SizeFacts DEF SSDInv, SSDTypeOK
<1>3. CASE Moved(s, d) = {}
  <2>1. n = 0 /\ validCnt' = validCnt /\ writePos' = writePos
    BY <1>3, FS_EmptySet DEF MoveValidPagesTo, ssdVars
  <2>2. /\ validCnt'[s] = validCnt[s] - 0 /\ validCnt'[d] = validCnt[d] + 0
        /\ writePos'[d] = writePos[d] + 0
    BY <1>2, <2>1
  <2> QED
    BY <2>1, <2>2
<1>4. CASE Moved(s, d) # {}
  <2>1. /\ validCnt' = [validCnt EXCEPT ![s] = @ - n, ![d] = @ + n]
        /\ writePos' = [writePos EXCEPT ![d] = @ + n]
    BY <1>4 DEF MoveValidPagesTo
  <2> HIDE DEF n
  <2> QED
    BY <1>1, <1>2, <2>1
<1> QED
  BY <1>3, <1>4

(* A move writes the block it moves pages to, and no other.                *)
LEMMA MoveWritesDestination ==
  ASSUME SSDInv, NEW s \in Block, NEW d \in Block, s # d, MoveValidPagesTo(s, d)
  PROVE  \A b \in Block \ {d} : writePos'[b] = writePos[b]
<1>1. writePos \in [Block -> 0 .. PagesPerBlock]
  BY DEF SSDInv, SSDTypeOK
<1>2. CASE Moved(s, d) = {}
  BY <1>2 DEF MoveValidPagesTo, ssdVars
<1>3. CASE Moved(s, d) # {}
  <2>1. writePos' = [writePos EXCEPT ![d] = @ + Cardinality(Moved(s, d))]
    BY <1>3 DEF MoveValidPagesTo
  <2> QED
    BY <1>1, <2>1
<1> QED
  BY <1>2, <1>3

LEMMA CompactStep ==
  ASSUME LoopInv, CompactDestination
  PROVE  LoopInv'
<1> DEFINE v == victimIds
           c == cascade
           n == Len(victimIds)
           d == victimIds[cascade]
<1>1. /\ phase = "compact" /\ phase' = "move" /\ CompactBlock(d)
      /\ UNCHANGED <<freeBlocks, currentBlock, victimIds, cascade, request>>
      /\ c \in 2 .. n
  BY DEF CompactDestination, LoopInv, CallInv
<1>2. /\ v \in Seq(Block) /\ IsInjective(v) /\ n \in Nat /\ d \in Block
      /\ \A i \in c .. n : v[i] \in Block
      /\ \A i \in c + 1 .. n : i \in c .. n /\ v[i] \in Block \ {d}
  <2>1. \A i \in c .. n : i \in 1 .. n
    BY <1>1
  <2>2. \A i \in c + 1 .. n : i \in c .. n /\ i # c
    BY <1>1
  <2>3. c \in c .. n
    BY <1>1
  <2> QED
    BY <2>1, <2>2, <2>3, VictimFacts
<1>3. /\ SSDInv /\ SSDInv' /\ validCnt' = validCnt /\ writePos'[d] = validCnt[d]
      /\ \A b \in Block \ {d} : writePos'[b] = writePos[b]
  BY <1>1, <1>2, CompactConsistent, CompactCounts DEF LoopInv
<1>4. /\ TotalInvalid(v) >= PagesPerBlock
      /\ \A i \in c + 1 .. n : validCnt[v[i]] = writePos[v[i]]
      /\ (\A i \in c + 1 .. n : allValid(v[i])) \/ allInvalid(d)
  BY <1>1 DEF LoopInv, CascadeInv, Cascading
<1>5. TotalInvalid(victimIds)' = TotalInvalid(victimIds)
  BY <1>1, <1>3 DEF TotalInvalid, InvalidPages, invalidCnt
<1>6. CascadeInv'
  <2>1. \A i \in c + 1 .. n : validCnt'[v[i]] = writePos'[v[i]]
    BY <1>2, <1>3, <1>4
  <2>2. (\A i \in c + 1 .. n : validCnt'[v[i]] = PagesPerBlock) \/ validCnt'[d] = 0
    BY <1>3, <1>4 DEF allValid, allInvalid
  <2>3. validCnt'[d] = writePos'[d]
    BY <1>3
  <2>4. victimIds' = v /\ cascade' = c
    BY <1>1
  <2> QED
    BY <1>1, <1>4, <1>5, <2>1, <2>2, <2>3, <2>4
    DEF CascadeInv, CascadeLeavesNoGarbage, allValid, allInvalid
<1>7. CallInv' /\ TwoRTypeOK'
  BY <1>1, <1>3 DEF LoopInv, CallInv, TwoRTypeOK, Phases, SSDInv
<1> QED
  BY <1>3, <1>6, <1>7 DEF LoopInv

LEMMA MoveStep ==
  ASSUME LoopInv, MoveToDestination
  PROVE  LoopInv'
<1> DEFINE v == victimIds
           c == cascade
           n == Len(victimIds)
           d == victimIds[cascade]
           s == victimIds[cascade - 1]
           P == PagesPerBlock
<1>1. /\ phase = "move" /\ phase' = (IF c = 2 THEN "erase" ELSE "compact")
      /\ MoveValidPagesTo(s, d) /\ cascade' = c - 1
      /\ UNCHANGED <<freeBlocks, currentBlock, victimIds, request>>
      /\ c \in 2 .. n
  BY DEF MoveToDestination, LoopInv, CallInv
<1>2. /\ v \in Seq(Block) /\ IsInjective(v) /\ n \in Nat /\ d \in Block /\ s \in Block /\ s # d
      /\ s \in Range(v) /\ d \in Range(v) /\ Range(v) \in SUBSET Block
      /\ \A i \in c + 1 .. n : v[i] \in Block \ {s, d}
  <2>1. \A i \in c + 1 .. n : i \in 1 .. n /\ i # c /\ i # c - 1
    BY <1>1
  <2>2. c \in 1 .. n /\ c - 1 \in 1 .. n /\ c # c - 1
    BY <1>1
  <2> QED
    BY <2>1, <2>2, VictimFacts
<1>3. SSDInv /\ SSDInv'
  BY <1>1, <1>2, MoveConsistent DEF LoopInv
<1>4. PICK m \in Nat : /\ validCnt'[s] = validCnt[s] - m
                       /\ validCnt'[d] = validCnt[d] + m
                       /\ writePos'[d] = writePos[d] + m
                       /\ \A b \in Block \ {s, d} : validCnt'[b] = validCnt[b]
                       /\ \A b \in Block \ {d} : writePos'[b] = writePos[b]
  BY <1>1, <1>2, <1>3, MoveCounts
<1>5. validCnt'[s] = 0 \/ writePos'[d] = P
  BY <1>1, <1>2, <1>3, MoveEmptiesOrFills
<1>6. /\ TotalInvalid(v) >= P
      /\ \A i \in c + 1 .. n : validCnt[v[i]] = writePos[v[i]]
      /\ (\A i \in c + 1 .. n : validCnt[v[i]] = P) \/ validCnt[d] = 0
      /\ validCnt[d] = writePos[d]
  BY <1>1 DEF LoopInv, CascadeInv, Cascading, allValid, allInvalid
<1>7. /\ validCnt \in [Block -> 0 .. P] /\ validCnt' \in [Block -> 0 .. P]
      /\ writePos[d] \in 0 .. P /\ P \in Nat
  BY <1>2, <1>3, SizeFacts DEF SSDInv, SSDTypeOK
<1>8. TotalInvalid(victimIds)' >= P
  <2>1. validCnt'[s] + validCnt'[d] = validCnt[s] + validCnt[d]
    <3>1. validCnt[s] \in 0 .. P /\ validCnt[d] \in 0 .. P
      BY <1>2, <1>7
    <3> HIDE DEF s, d
    <3> QED
      BY <1>4, <1>7, <3>1
  <2>2. Cardinality(Invalid(validCnt', Range(v))) = Cardinality(Invalid(validCnt, Range(v)))
    <3>1. /\ validCnt \in [Block -> 0 .. PagesPerBlock]
          /\ validCnt' \in [Block -> 0 .. PagesPerBlock]
      BY <1>7
    <3>2. \A b \in Range(v) \ {s, d} : validCnt'[b] = validCnt[b]
      BY <1>2, <1>4
    <3>3. Range(v) \in SUBSET Block /\ s \in Range(v) /\ d \in Range(v) /\ s # d
      BY <1>2
    <3> HIDE DEF s, d, v
    <3> QED
      BY <2>1, <3>1, <3>2, <3>3, InvalidMoved
  <2>3. TotalInvalid(v)' = TotalInvalid(v)
    <3>1. /\ TotalInvalid(v) = Cardinality(Invalid(validCnt, Range(v)))
          /\ TotalInvalid(victimIds)' = Cardinality(Invalid(validCnt', Range(v)))
      BY <1>1, <1>2, InvalidOfList DEF TotalInvalid, InvalidPages, invalidCnt
    <3> QED
      BY <2>2, <3>1
  <2> QED
    BY <1>6, <2>3
<1>9. \A i \in (c - 1) + 1 .. n : i = c \/ i \in c + 1 .. n
  BY <1>1
<1>10. \A i \in (c - 1) + 1 .. n : validCnt'[v[i]] = writePos'[v[i]]
  <2>1. validCnt'[d] = writePos'[d]
    BY <1>4, <1>6
  <2>2. \A i \in c + 1 .. n : validCnt'[v[i]] = writePos'[v[i]]
    BY <1>2, <1>4, <1>6
  <2> QED
    BY <1>9, <2>1, <2>2
<1>11. (\A i \in (c - 1) + 1 .. n : validCnt'[v[i]] = P) \/ validCnt'[s] = 0
  <2>1. CASE validCnt[d] = 0
    <3>1. writePos'[d] = P => m = P
      BY <1>4, <1>6, <1>7, <2>1
    <3>2. validCnt[s] \in 0 .. P /\ validCnt'[s] \in 0 .. P
      BY <1>2, <1>7
    <3>3. m = P => validCnt'[s] = 0
      <4>1. validCnt'[s] = validCnt[s] - m /\ P \in Nat
        BY <1>4, <1>7
      <4> HIDE DEF s, P
      <4> QED
        BY <3>2, <4>1
    <3> QED
      BY <1>5, <3>1, <3>3
  <2>2. CASE \A i \in c + 1 .. n : validCnt[v[i]] = P
    <3>1. \A i \in c + 1 .. n : validCnt'[v[i]] = P
      BY <1>2, <1>4, <2>2
    <3>2. writePos'[d] = P => validCnt'[d] = P
      BY <1>4, <1>6
    <3> QED
      BY <1>5, <1>9, <3>1, <3>2
  <2> QED
    BY <1>6, <2>1, <2>2
<1>12. CascadeInv'
  <2>1. victimIds' = v /\ cascade' = c - 1 /\ phase' \in {"erase", "compact"}
    BY <1>1
  <2> QED
    BY <1>8, <1>10, <1>11, <2>1 DEF CascadeInv, CascadeLeavesNoGarbage, allValid, allInvalid
<1>13. CallInv'
  <2>1. c = 2 => c - 1 = 1
    OBVIOUS
  <2>2. c # 2 => c - 1 \in 2 .. n
    BY <1>1
  <2>3. v # <<>>
    BY <1>1, <1>2, ListFacts
  <2> QED
    BY <1>1, <1>2, <2>1, <2>2, <2>3 DEF LoopInv, CallInv
<1>14. TwoRTypeOK'
  <2>1. c - 1 \in 0 .. BlockCount
    BY <1>1, VictimFacts, SizeFacts
  <2> QED
    BY <1>1, <1>3, <2>1 DEF LoopInv, TwoRTypeOK, Phases, SSDInv
<1> QED
  BY <1>3, <1>12, <1>13, <1>14 DEF LoopInv

(* At the end of the cascade the first victim is empty: if it held a page, *)
(* every other victim would be full of valid pages and the victims would   *)
(* lack a page of the block's worth they were selected for.                *)
LEMMA FirstIsEmpty ==
  ASSUME LoopInv, phase = "erase"
  PROVE  allInvalid(Head(victimIds))
<1> DEFINE v == victimIds
           n == Len(victimIds)
           P == PagesPerBlock
           R == Range(victimIds) \ {v[1]}
<1>1. /\ TotalInvalid(v) >= P
      /\ (\A i \in 1 + 1 .. n : validCnt[v[i]] = P) \/ validCnt[v[1]] = 0
      /\ v # <<>>
  BY DEF LoopInv, CallInv, CascadeInv, Cascading, allValid, allInvalid
<1>2. /\ v \in Seq(Block) /\ IsInjective(v) /\ n \in Nat /\ Range(v) \in SUBSET Block
      /\ \A x \in Range(v) : \E i \in 1 .. n : x = v[i]
  BY VictimFacts, ListFacts
<1>3. Head(v) = v[1] /\ 1 \in 1 .. n /\ v[1] \in Block /\ v[1] \in Range(v)
  <2>1. n # 0
    BY <1>1, <1>2, ListFacts
  <2> QED
    BY <1>1, <1>2, <2>1, VictimFacts
<1>4. SUFFICES ASSUME \A i \in 1 + 1 .. n : validCnt[v[i]] = P
               PROVE  validCnt[v[1]] = 0
  BY <1>1, <1>3 DEF allInvalid
<1>5. \A b \in R : validCnt[b] = P
  <2>1. SUFFICES ASSUME NEW b \in R PROVE validCnt[b] = P
    OBVIOUS
  <2>2. PICK i \in 1 .. n : b = v[i]
    BY <1>2
  <2>3. i \in 1 + 1 .. n
    BY <1>2, <2>2
  <2> QED
    BY <1>4, <2>2, <2>3
<1>6. Invalid(validCnt, R) = {}
  BY <1>5, SizeFacts DEF Invalid
<1>7. R \in SUBSET Block /\ {v[1]} \in SUBSET Block /\ {v[1]} \cap R = {} /\ {v[1]} \cup R = Range(v)
  BY <1>2, <1>3
<1> HIDE DEF R
<1>8. Cardinality(Invalid(validCnt, Range(v))) =
        Cardinality(Invalid(validCnt, {v[1]})) + Cardinality(Invalid(validCnt, R))
  BY <1>7, InvalidOfUnion
<1>9. validCnt \in [Block -> 0 .. P] /\ P \in Nat
  BY SizeFacts DEF LoopInv, SSDInv, SSDTypeOK
<1>10. Cardinality(Invalid(validCnt, {v[1]})) = P - validCnt[v[1]]
  BY <1>3, <1>9, InvalidOfBlock
<1>11. Cardinality(Invalid(validCnt, R)) = 0
  BY <1>6, FS_EmptySet
<1>12. TotalInvalid(v) = P - validCnt[v[1]] + 0
  BY <1>2, <1>8, <1>10, <1>11, TotalOfList
<1>13. validCnt[v[1]] \in 0 .. P
  BY <1>3, <1>9
<1> QED
  BY <1>1, <1>9, <1>12, <1>13

LEMMA EraseStep ==
  ASSUME LoopInv, EraseFirst
  PROVE  LoopInv'
<1> DEFINE v == victimIds
           n == Len(victimIds)
<1>1. /\ phase = "erase" /\ phase' = "distribute" /\ EraseBlock(Head(v)) /\ allInvalid(Head(v))
      /\ UNCHANGED <<freeBlocks, currentBlock, victimIds, cascade, request>>
      /\ cascade = 1 /\ v # <<>>
  BY DEF EraseFirst, LoopInv, CallInv
<1>2. /\ v \in Seq(Block) /\ n \in Nat /\ DOMAIN v = 1 .. n
      /\ \A i \in 1 .. n : v[i] \in Block
      /\ \A i, j \in 1 .. n : v[i] = v[j] => i = j
      /\ Head(v) = v[1] /\ Head(v) \in Block /\ 1 \in 1 .. n
  <2>1. n # 0 /\ Head(v) = v[1] /\ n \in Nat /\ DOMAIN v = 1 .. n
    BY <1>1, VictimFacts, ListFacts, TailList
  <2> QED
    BY <2>1, VictimFacts
<1>3. SSDInv /\ SSDInv'
  BY <1>1, <1>2, EraseConsistent DEF LoopInv
<1>4. /\ validCnt' = [validCnt EXCEPT ![v[1]] = 0]
      /\ writePos' = [writePos EXCEPT ![v[1]] = 0]
  BY <1>1, <1>2 DEF EraseBlock
<1>5. \A i \in 1 .. n : validCnt'[v[i]] = writePos'[v[i]]
  <2>1. \A i \in 1 + 1 .. n : validCnt[v[i]] = writePos[v[i]]
    BY <1>1 DEF LoopInv, CascadeInv, Cascading
  <2>2. \A i \in 1 .. n : i = 1 \/ (i \in 1 + 1 .. n /\ v[i] # v[1])
    BY <1>2
  <2> QED
    BY <1>2, <1>3, <1>4, <2>1, <2>2 DEF SSDInv, SSDTypeOK
<1>6. CascadeInv'
  BY <1>1, <1>2, <1>5 DEF CascadeInv, CascadeLeavesNoGarbage, Cascading
<1>7. CallInv' /\ TwoRTypeOK'
  BY <1>1, <1>3 DEF LoopInv, CallInv, TwoRTypeOK, Phases, SSDInv
<1> QED
  BY <1>3, <1>6, <1>7 DEF LoopInv

(* The cascade writes and erases victims only.                             *)
LEMMA CascadeStep ==
  ASSUME LoopInv, Cascade
  PROVE  /\ LoopInv'
         /\ phase \in {"compact", "move", "erase"}
         /\ phase' \in {"compact", "move", "erase", "distribute"}
         /\ UNCHANGED <<freeBlocks, currentBlock, victimIds, request>>
         /\ \A b \in Block \ Range(victimIds) : writePos'[b] = writePos[b]
<1>1. SSDInv /\ SSDTypeOK
  BY DEF LoopInv, SSDInv
<1>2. \A i \in 1 .. Len(victimIds) : victimIds[i] \in Block /\ victimIds[i] \in Range(victimIds)
  BY VictimFacts
<1>3. ASSUME CompactDestination
      PROVE  \A b \in Block \ Range(victimIds) : writePos'[b] = writePos[b]
  <2> DEFINE d == victimIds[cascade]
  <2>1. CompactBlock(d) /\ cascade \in 1 .. Len(victimIds)
    BY <1>3, VictimFacts DEF CompactDestination, LoopInv, CallInv
  <2>2. d \in Block /\ d \in Range(victimIds)
    BY <1>2, <2>1
  <2>3. \A c \in Block \ {d} : writePos'[c] = writePos[c]
    BY <1>1, <2>1, <2>2, CompactCounts
  <2> QED
    BY <2>2, <2>3
<1>4. ASSUME MoveToDestination
      PROVE  \A b \in Block \ Range(victimIds) : writePos'[b] = writePos[b]
  <2> DEFINE d == victimIds[cascade]
             s == victimIds[cascade - 1]
  <2>1. /\ MoveValidPagesTo(s, d)
        /\ cascade \in 1 .. Len(victimIds) /\ cascade - 1 \in 1 .. Len(victimIds) /\ cascade # cascade - 1
    BY <1>4, VictimFacts DEF MoveToDestination, LoopInv, CallInv
  <2>2. d \in Block /\ d \in Range(victimIds) /\ s \in Block /\ s # d
    BY <1>2, <2>1, VictimFacts
  <2>3. \A c \in Block \ {d} : writePos'[c] = writePos[c]
    BY <1>1, <2>1, <2>2, MoveWritesDestination
  <2> QED
    BY <2>2, <2>3
<1>5. ASSUME EraseFirst
      PROVE  \A b \in Block \ Range(victimIds) : writePos'[b] = writePos[b]
  <2> DEFINE h == Head(victimIds)
  <2>1. EraseBlock(h) /\ victimIds # <<>> /\ victimIds \in Seq(Block)
    BY <1>5, VictimFacts DEF EraseFirst, LoopInv, CallInv
  <2>2. h \in Block /\ h \in Range(victimIds)
    BY <2>1, TailList
  <2>3. \A c \in Block \ {h} : writePos'[c] = writePos[c]
    BY <1>1, <2>1, <2>2 DEF EraseBlock, SSDTypeOK
  <2> QED
    BY <2>2, <2>3
<1>6. LoopInv'
  BY CompactStep, MoveStep, EraseStep DEF Cascade
<1>7. /\ phase \in {"compact", "move", "erase"}
      /\ phase' \in {"compact", "move", "erase", "distribute"}
      /\ UNCHANGED <<freeBlocks, currentBlock, victimIds, request>>
  BY DEF Cascade, CompactDestination, MoveToDestination, EraseFirst
<1> QED
  BY <1>3, <1>4, <1>5, <1>6, <1>7 DEF Cascade

(* Selection found a block's worth of invalid pages.                       *)
LEMMA StartStep ==
  ASSUME LoopInv, phase = "select", TotalInvalid(victimIds) >= PagesPerBlock, StartCascade,
         UNCHANGED <<ssdVars, freeBlocks, currentBlock, victimIds, request>>
  PROVE  LoopInv' /\ phase' # "failed"
<1> DEFINE v == victimIds
           n == Len(victimIds)
<1>1. /\ v \in Seq(Block) /\ n \in Nat /\ n <= BlockCount /\ v' = v
  BY VictimFacts
<1>2. UNCHANGED <<ptl, writePos, validCnt, ltp>>
  BY DEF ssdVars
<1>3. SSDInv /\ SSDInv'
  BY <1>2 DEF LoopInv, SSDInv, SSDTypeOK, MappingAgrees, CountsExact, TailEmpty, Live
<1>4. v # <<>> /\ n >= 1
  <2>1. v # <<>>
    BY TotalOfEmptyList, SizeFacts
  <2> QED
    BY <1>1, <2>1, ListFacts
<1>5. cascade' = n /\ phase' = IF n = 1 THEN "erase" ELSE "compact"
  BY <1>4 DEF StartCascade
<1>6. TotalInvalid(victimIds)' = TotalInvalid(v)
  BY <1>1, <1>2 DEF TotalInvalid, InvalidPages, invalidCnt
<1>7. CascadeInv'
  <2>1. \A i \in n + 1 .. n : FALSE
    BY <1>1
  <2> QED
    BY <1>1, <1>5, <1>6, <2>1 DEF CascadeInv, CascadeLeavesNoGarbage
<1>8. CallInv'
  <2>1. n = 1 \/ n \in 2 .. n
    BY <1>1, <1>4
  <2> QED
    BY <1>1, <1>4, <1>5, <2>1 DEF LoopInv, CallInv
<1>9. TwoRTypeOK'
  <2>1. n \in 0 .. BlockCount
    BY <1>1, SizeFacts
  <2> QED
    BY <1>1, <1>3, <1>5, <2>1 DEF LoopInv, TwoRTypeOK, Phases, SSDInv
<1> QED
  BY <1>3, <1>5, <1>7, <1>8, <1>9 DEF LoopInv

(* Handing out a victim: it is free if it has room, and full otherwise.    *)
LEMMA DistributeStep ==
  ASSUME LoopInv, DistributeVictim
  PROVE  LoopInv'
<1> DEFINE v == victimIds
           h == Head(victimIds)
<1>1. /\ phase = "distribute" /\ phase' = "distribute" /\ v # <<>> /\ v' = Tail(v)
      /\ freeBlocks' = (IF canWrite(h) THEN Append(freeBlocks, h) ELSE freeBlocks)
      /\ UNCHANGED <<currentBlock, cascade, request>>
      /\ UNCHANGED <<ptl, writePos, validCnt, ltp>>
  BY DEF DistributeVictim, Freed, ssdVars
<1>2. /\ v \in Seq(Block) /\ IsInjective(v) /\ freeBlocks \in Seq(Block)
  BY DEF LoopInv, CallInv, TwoRTypeOK
<1>3. /\ h \in Block /\ Tail(v) \in Seq(Block) /\ IsInjective(Tail(v))
      /\ \A i \in 1 .. Len(v) - 1 : Tail(v)[i] = v[i + 1]
      /\ Len(Tail(v)) = Len(v) - 1 /\ Len(v) \in Nat
  BY <1>1, <1>2, TailList, ListFacts
<1>4. SSDInv'
  BY <1>1 DEF LoopInv, SSDInv, SSDTypeOK, MappingAgrees, CountsExact, TailEmpty, Live
<1>5. TwoRTypeOK'
  <2>1. freeBlocks' \in Seq(Block)
    BY <1>1, <1>2, <1>3, AppendList
  <2> QED
    BY <1>1, <1>3, <1>4, <2>1 DEF LoopInv, TwoRTypeOK, SSDInv
<1>6. CallInv'
  BY <1>1, <1>3 DEF LoopInv, CallInv
<1>7. CascadeInv'
  <2>1. \A i \in 1 .. Len(v) : validCnt[v[i]] = writePos[v[i]]
    BY <1>1, <1>2, ListFacts DEF LoopInv, CascadeInv, CascadeLeavesNoGarbage
  <2>2. \A i \in 1 .. Len(Tail(v)) : i + 1 \in 1 .. Len(v) /\ Tail(v)[i] = v[i + 1]
    BY <1>3
  <2>3. \A i \in 1 .. Len(Tail(v)) : validCnt[Tail(v)[i]] = writePos[Tail(v)[i]]
    BY <2>1, <2>2
  <2>4. DOMAIN Tail(v) = 1 .. Len(Tail(v))
    BY <1>3, ListFacts
  <2> QED
    BY <1>1, <2>3, <2>4 DEF CascadeInv, CascadeLeavesNoGarbage, Cascading
<1> QED
  BY <1>4, <1>5, <1>6, <1>7 DEF LoopInv

(* The steps of a call outside the cascade.                                *)
LEMMA CallStep ==
  ASSUME LoopInv, UNCHANGED ssdVars,
         freeBlocks' \in Seq(Block), currentBlock' \in Block,
         victimIds' \in Seq(Block), IsInjective(victimIds'), cascade' \in 0 .. BlockCount,
         phase' \in {"gc", "select", "collected", "failed"}, request' \in Page,
         phase' \in {"gc", "collected"} => victimIds' = <<>>
  PROVE  LoopInv'
<1>1. UNCHANGED <<ptl, writePos, validCnt, ltp>>
  BY DEF ssdVars
<1>2. SSDInv'
  BY <1>1 DEF LoopInv, SSDInv, SSDTypeOK, MappingAgrees, CountsExact, TailEmpty, Live
<1>3. TwoRTypeOK'
  BY <1>2 DEF TwoRTypeOK, Phases, SSDInv
<1>4. CallInv' /\ CascadeInv'
  BY DEF CallInv, CascadeInv, Cascading, CascadeLeavesNoGarbage
<1> QED
  BY <1>2, <1>3, <1>4 DEF LoopInv

(* The steps that write the page of a call.                                *)
LEMMA WriteStep ==
  ASSUME LoopInv, NEW x \in Page, NEW b \in Block, SSDWrite(x, b),
         freeBlocks' \in Seq(Block), currentBlock' \in Block, phase' = "idle",
         phase \in {"idle", "collected"},
         request' \in Page \cup {unused}, UNCHANGED <<victimIds, cascade>>
  PROVE  LoopInv'
<1>1. SSDInv'
  BY WriteConsistent DEF LoopInv
<1>2. TwoRTypeOK' /\ CallInv' /\ CascadeInv'
  BY <1>1 DEF LoopInv, SSDInv, TwoRTypeOK, Phases, CallInv, CascadeInv, Cascading,
              CascadeLeavesNoGarbage
<1> QED
  BY <1>1, <1>2 DEF LoopInv

LEMMA StutterStep == ASSUME LoopInv, UNCHANGED <<ssdVars, twoRVars>> PROVE LoopInv'
<1>1. UNCHANGED <<ptl, writePos, validCnt, ltp>> /\ UNCHANGED twoRVars
  BY DEF ssdVars
<1>2. SSDInv'
  BY <1>1 DEF LoopInv, SSDInv, SSDTypeOK, MappingAgrees, CountsExact, TailEmpty, Live
<1>3. TwoRTypeOK' /\ CallInv'
  BY <1>1, <1>2 DEF LoopInv, SSDInv, TwoRTypeOK, CallInv, twoRVars
<1>4. TotalInvalid(victimIds)' = TotalInvalid(victimIds)
  BY <1>1 DEF TotalInvalid, InvalidPages, invalidCnt, twoRVars
<1>5. CascadeInv'
  BY <1>1, <1>4 DEF LoopInv, CascadeInv, Cascading, CascadeLeavesNoGarbage, twoRVars,
                    allValid, allInvalid
<1> QED
  BY <1>2, <1>3, <1>5 DEF LoopInv

(* The free list starts with every block but the first.                    *)
LEMMA InitialFreeList ==
  LET q == [i \in 1 .. BlockCount - 1 |-> i]
  IN  q \in Seq(Block) /\ IsInjective(q) /\ Range(q) = Block \ {0}
<1> DEFINE q == [i \in 1 .. BlockCount - 1 |-> i]
<1>1. BlockCount - 1 \in Nat /\ \A i : i \in 1 .. BlockCount - 1 <=> i \in Block /\ i # 0
  BY SSDAssumption DEF Block
<1>2. q \in [1 .. BlockCount - 1 -> Block]
  BY <1>1
<1>3. q \in Seq(Block)
  BY <1>1, <1>2
<1>4. IsInjective(q)
  BY DEF IsInjective
<1>5. Range(q) = 1 .. BlockCount - 1
  BY DEF Range
<1>6. Range(q) = Block \ {0}
  BY <1>1, <1>5
<1> QED
  BY <1>3, <1>4, <1>6

LEMMA InitLoop == TwoRInit => LoopInv
<1> SUFFICES ASSUME TwoRInit PROVE LoopInv
  OBVIOUS
<1>1. SSDInv
  BY InitConsistent DEF TwoRInit
<1>2. freeBlocks \in Seq(Block) /\ 0 \in Block /\ 0 \in 0 .. BlockCount
  BY InitialFreeList, SSDAssumption DEF TwoRInit, Block
<1>3. victimIds \in Seq(Block) /\ IsInjective(victimIds)
  BY DEF TwoRInit, IsInjective
<1>4. TwoRTypeOK
  BY <1>1, <1>2, <1>3 DEF TwoRInit, TwoRTypeOK, SSDInv, Phases
<1>5. CallInv /\ CascadeInv
  BY <1>3 DEF TwoRInit, CallInv, CascadeInv, Cascading, CascadeLeavesNoGarbage
<1> QED
  BY <1>1, <1>4, <1>5 DEF LoopInv

-----------------------------------------------------------------------------
(* What the steps do to the ideal map (FlashMap): a page that is written   *)
(* goes to a free place, the cascade relocates pages and loses none.       *)
LEMMA PlacedStays == ASSUME UNCHANGED ssdVars PROVE UNCHANGED Placed
  BY DEF ssdVars, Placed, Copies

LEMMA TakeRefines ==
  ASSUME LoopInv, LoopInv', NEW x \in Page, TakeFreeBlock(x)
  PROVE  Promise!Next
<1>1. Head(freeBlocks) \in Block /\ SSDWrite(x, Head(freeBlocks))
  BY TailList DEF TakeFreeBlock, LoopInv, TwoRTypeOK
<1> QED
  BY <1>1, WriteRefines DEF LoopInv, Promise!Next

LEMMA HostWriteRefines ==
  ASSUME LoopInv, LoopInv', NEW x \in Page, WriteCurrent(x) \/ WriteNext(x) \/ StartGC(x)
  PROVE  [Promise!Next]_Placed
<1>1. CASE WriteCurrent(x)
  <2>1. currentBlock \in Block /\ SSDWrite(x, currentBlock)
    BY <1>1 DEF WriteCurrent, LoopInv, TwoRTypeOK
  <2> QED
    BY <2>1, WriteRefines DEF LoopInv, Promise!Next
<1>2. CASE WriteNext(x)
  BY <1>2, TakeRefines DEF WriteNext
<1>3. CASE StartGC(x)
  BY <1>3, PlacedStays DEF StartGC
<1> QED
  BY <1>1, <1>2, <1>3

LEMMA StepRefines ==
  ASSUME LoopInv, LoopInv', Cascade \/ Collected \/ ResumeWrite \/ DistributeVictim
  PROVE  [Promise!Next]_Placed
<1>1. /\ SSDInv /\ SSDInv' /\ victimIds \in Seq(Block)
      /\ \A i \in 1 .. Len(victimIds) : victimIds[i] \in Block
      /\ \A i, j \in 1 .. Len(victimIds) : victimIds[i] = victimIds[j] => i = j
  BY VictimFacts DEF LoopInv
<1>2. CASE CompactDestination
  <2>1. CompactBlock(victimIds[cascade]) /\ victimIds[cascade] \in Block
    BY <1>1, <1>2 DEF CompactDestination, LoopInv, CallInv
  <2> QED
    BY <1>1, <2>1, CompactKeepsPages, RelocationRefines DEF Promise!Next
<1>3. CASE MoveToDestination
  <2>1. cascade \in 1 .. Len(victimIds) /\ cascade - 1 \in 1 .. Len(victimIds)
    BY <1>3 DEF MoveToDestination, LoopInv, CallInv
  <2>2. /\ MoveValidPagesTo(victimIds[cascade - 1], victimIds[cascade])
        /\ victimIds[cascade] \in Block /\ victimIds[cascade - 1] \in Block
    BY <1>1, <1>3, <2>1 DEF MoveToDestination
  <2> QED
    BY <1>1, <2>2, MoveKeepsPages, RelocationRefines DEF Promise!Next
<1>4. CASE EraseFirst
  <2>1. UNCHANGED ltp
    BY <1>4 DEF EraseFirst, EraseBlock
  <2> QED
    BY <1>1, <2>1, RelocationRefines DEF Promise!Next
<1>5. CASE Collected \/ DistributeVictim
  BY <1>5, PlacedStays DEF Collected, DistributeVictim
<1>6. CASE ResumeWrite
  <2>1. request \in Page /\ TakeFreeBlock(request)
    BY <1>6 DEF ResumeWrite, LoopInv, CallInv
  <2> QED
    BY <2>1, TakeRefines
<1> QED
  BY <1>2, <1>3, <1>4, <1>5, <1>6 DEF Cascade
=============================================================================
