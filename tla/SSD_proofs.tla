----------------------------- MODULE SSD_proofs -----------------------------
(***************************************************************************)
(* Proofs about the device: each of its four operations preserves SSDInv   *)
(* when it is used as the collectors use it.  The collectors' own proofs   *)
(* rest on these lemmas.                                                   *)
(***************************************************************************)
EXTENDS SSD, FiniteSetTheorems, WellFoundedInduction, TLAPS

(* A set of natural numbers has a least element.                           *)
LEMMA LeastNatural ==
  ASSUME NEW T \in SUBSET Nat, T # {}
  PROVE  \E x \in T : \A y \in T : x <= y
<1> DEFINE R == {ss \in Nat \X Nat : ss[1] < ss[2]}
<1>1. IsWellFoundedOn(R, Nat)
  BY NatLessThanWellFounded DEF OpToRel
<1>2. \A x, y \in Nat : <<y, x>> \in R <=> y < x
  OBVIOUS
<1> HIDE DEF R
<1>3. PICK x \in T : \A y \in T : ~ (<<y, x>> \in R)
  BY <1>1, WFMin
<1>4. \A y \in T : x <= y
  <2>1. SUFFICES ASSUME NEW y \in T PROVE x <= y
    OBVIOUS
  <2>2. x \in Nat /\ y \in Nat /\ ~ (y < x)
    BY <1>2, <1>3
  <2> QED
    BY <2>2
<1> QED
  BY <1>3, <1>4

(* Dividing an address by the block size gives its block and its slot.     *)
LEMMA AddressOfSlot ==
  ASSUME NEW b \in Block, NEW p \in Slot
  PROVE  /\ getPhyAddr(b, p) \in Phy
         /\ getBlockId(getPhyAddr(b, p)) = b
         /\ getPagePos(getPhyAddr(b, p)) = p
<1> DEFINE P == PagesPerBlock
           a == b * P + p
<1>1. P \in Nat /\ P > 0 /\ BlockCount \in Nat /\ b \in Nat /\ p \in Nat /\ p < P
  BY SSDAssumption DEF Block, Slot
<1>2. b * P \in Nat /\ a \in Nat
  BY <1>1
<1>3. b + 1 <= BlockCount
  BY <1>1 DEF Block
<1>4. (b + 1) * P <= BlockCount * P
  BY <1>1, <1>3
<1>5. a < BlockCount * P
  BY <1>1, <1>2, <1>4
<1>6. a \div P = b /\ a % P = p
  <2> DEFINE q == a \div P
             r == a % P
  <2>1. a = P * q + r /\ q \in Int /\ r \in 0 .. P - 1
    BY <1>1, <1>2
  <2>2. ~ (q < b)
    <3>1. SUFFICES ASSUME q + 1 <= b PROVE FALSE
      BY <1>1, <2>1
    <3>2. P * (q + 1) <= P * b
      BY <1>1, <2>1, <3>1
    <3> QED
      BY <1>1, <2>1, <3>2
  <2>3. ~ (b < q)
    <3>1. SUFFICES ASSUME b + 1 <= q PROVE FALSE
      BY <1>1, <2>1
    <3>2. P * (b + 1) <= P * q
      BY <1>1, <2>1, <3>1
    <3> QED
      BY <1>1, <2>1, <3>2
  <2>4. q = b
    BY <1>1, <2>1, <2>2, <2>3
  <2> QED
    BY <1>1, <2>1, <2>4
<1> QED
  BY <1>1, <1>2, <1>5, <1>6 DEF getPhyAddr, getBlockId, getPagePos, Phy

(* Every address belongs to a slot.                                        *)
LEMMA SlotOfAddress ==
  ASSUME NEW a \in Phy
  PROVE  /\ getBlockId(a) \in Block
         /\ getPagePos(a) \in Slot
         /\ getPhyAddr(getBlockId(a), getPagePos(a)) = a
<1> DEFINE P == PagesPerBlock
           q == a \div P
           r == a % P
<1>1. P \in Nat /\ P > 0 /\ BlockCount \in Nat /\ a \in Nat /\ BlockCount * P \in Nat
      /\ a < BlockCount * P
  BY SSDAssumption DEF Phy
<1>2. a = P * q + r /\ q \in Int /\ r \in 0 .. P - 1
  BY <1>1
<1>3. ~ (q < 0)
  <2>1. SUFFICES ASSUME q + 1 <= 0 PROVE FALSE
    BY <1>1, <1>2
  <2>2. P * (q + 1) <= P * 0
    BY <1>1, <1>2, <2>1
  <2> QED
    BY <1>1, <1>2, <2>2
<1>4. ~ (BlockCount <= q)
  <2>1. SUFFICES ASSUME BlockCount <= q PROVE FALSE
    BY <1>1, <1>2
  <2>2. P * BlockCount <= P * q
    BY <1>1, <1>2, <2>1
  <2> QED
    BY <1>1, <1>2, <2>2
<1>5. q \in Block /\ r \in Slot
  BY <1>1, <1>2, <1>3, <1>4 DEF Block, Slot
<1>6. q * P + r = a
  BY <1>1, <1>2
<1> QED
  BY <1>5, <1>6 DEF getPhyAddr, getBlockId, getPagePos

(* Sets that correspond one to one have the same size.                     *)
LEMMA SameSize ==
  ASSUME NEW S, NEW T, NEW f \in [S -> T], IsFiniteSet(S),
         \A x, y \in S : f[x] = f[y] => x = y,
         \A t \in T : \E x \in S : f[x] = t
  PROVE  IsFiniteSet(T) /\ Cardinality(T) = Cardinality(S)
<1>1. f \in Bijection(S, T)
  BY DEF Bijection, Injection, Surjection, IsInjective
<1>2. ExistsBijection(S, T)
  BY <1>1 DEF ExistsBijection
<1> QED
  BY <1>2, FS_Bijection

LEMMA SlotFinite == IsFiniteSet(Slot) /\ Cardinality(Slot) = PagesPerBlock
  BY FS_Interval, SSDAssumption DEF Slot

(* The slots in use are finitely many, and the rank of one of them is      *)
(* below their number.                                                     *)
LEMMA LiveFacts ==
  ASSUME NEW b \in Block
  PROVE  /\ Live(b) \subseteq Slot
         /\ IsFiniteSet(Live(b))
         /\ Cardinality(Live(b)) \in 0 .. PagesPerBlock
         /\ \A p \in Slot : Rank(b, p) \in Nat
         /\ \A p \in Live(b) : Rank(b, p) < Cardinality(Live(b))
         /\ \A p, q \in Live(b) : p < q => Rank(b, p) < Rank(b, q)
         /\ \A p, q \in Live(b) : Rank(b, p) = Rank(b, q) => p = q
<1> DEFINE Before(p) == {q \in Live(b) : q < p}
<1>1. Live(b) \subseteq Slot
  BY DEF Live
<1>2. IsFiniteSet(Live(b)) /\ Cardinality(Live(b)) \in Nat
      /\ Cardinality(Live(b)) <= PagesPerBlock
  BY <1>1, SlotFinite, FS_Subset, FS_CardinalityType
<1>3. ASSUME NEW p \in Slot
      PROVE  /\ IsFiniteSet(Before(p)) /\ Rank(b, p) = Cardinality(Before(p))
             /\ Rank(b, p) \in Nat
  <2>1. Before(p) \in SUBSET Live(b)
    OBVIOUS
  <2> QED
    BY <1>2, <2>1, FS_Subset, FS_CardinalityType DEF Rank
<1>4. ASSUME NEW p \in Live(b), NEW T, Before(p) \subseteq T, IsFiniteSet(T), p \in T
      PROVE  Rank(b, p) < Cardinality(T)
  <2>1. p \in Slot /\ p \in Int
    BY <1>1 DEF Slot
  <2>2. p \notin Before(p)
    BY <2>1
  <2>3. Before(p) \in SUBSET T /\ Before(p) # T
    BY <1>4, <2>2
  <2>4. Cardinality(Before(p)) <= Cardinality(T) /\ Cardinality(Before(p)) # Cardinality(T)
    BY <1>4, <2>3, FS_Subset
  <2> QED
    BY <1>3, <1>4, <2>1, <2>4, FS_CardinalityType
<1>5. /\ \A p \in Slot : Rank(b, p) \in Nat
      /\ \A p \in Live(b) : Rank(b, p) < Cardinality(Live(b))
  BY <1>2, <1>3, <1>4
<1>6. \A p, q \in Live(b) : p < q => Rank(b, p) < Rank(b, q)
  <2>1. SUFFICES ASSUME NEW p \in Live(b), NEW q \in Live(b), p < q
                 PROVE  Rank(b, p) < Rank(b, q)
    OBVIOUS
  <2>2. p \in Int /\ q \in Int /\ q \in Slot
    BY <1>1 DEF Slot
  <2>3. Before(p) \subseteq Before(q) /\ p \in Before(q)
    BY <1>1, <2>1, <2>2 DEF Slot
  <2> QED
    BY <1>3, <1>4, <2>2, <2>3
<1>7. \A p, q \in Live(b) : Rank(b, p) = Rank(b, q) => p = q
  <2>1. SUFFICES ASSUME NEW p \in Live(b), NEW q \in Live(b), p # q
                 PROVE  Rank(b, p) # Rank(b, q)
    OBVIOUS
  <2>2. p \in Int /\ q \in Int /\ p \in Slot /\ q \in Slot
    BY <1>1 DEF Slot
  <2>3. p < q \/ q < p
    BY <2>1, <2>2
  <2>4. Rank(b, p) < Rank(b, q) \/ Rank(b, q) < Rank(b, p)
    BY <1>6, <2>3
  <2>5. Rank(b, p) \in Nat /\ Rank(b, q) \in Nat
    BY <1>5, <2>2
  <2> QED
    BY <2>4, <2>5
<1>8. Cardinality(Live(b)) \in 0 .. PagesPerBlock
  BY <1>2, SSDAssumption
<1> QED
  BY <1>1, <1>2, <1>5, <1>6, <1>7, <1>8

(* A page is in at most one slot, so SlotOf finds the slot of a page.      *)
LEMMA OneSlotPerPage ==
  ASSUME SSDTypeOK, MappingAgrees
  PROVE  /\ \A b, c \in Block, p, q \in Slot :
              ptl[b][p] # unused /\ ptl[b][p] = ptl[c][q] => b = c /\ p = q
         /\ \A b \in Block : \A p \in Live(b) : SlotOf(b, ptl[b][p]) = p
<1>1. ASSUME NEW b \in Block, NEW c \in Block, NEW p \in Slot, NEW q \in Slot,
             ptl[b][p] # unused, ptl[b][p] = ptl[c][q]
      PROVE  b = c /\ p = q
  <2>1. getPhyAddr(b, p) = getPhyAddr(c, q)
    BY <1>1 DEF MappingAgrees
  <2> QED
    BY <2>1, AddressOfSlot
<1>2. ASSUME NEW b \in Block, NEW p \in Live(b)
      PROVE  SlotOf(b, ptl[b][p]) = p
  <2>1. \A q \in Live(b) : ptl[b][q] = ptl[b][p] => q = p
    BY <1>1 DEF Live
  <2> QED
    BY <2>1 DEF SlotOf
<1> QED
  BY <1>1, <1>2

-----------------------------------------------------------------------------
(* A device nothing was written to is consistent.                          *)
LEMMA InitConsistent == SSDInit => SSDInv
<1> SUFFICES ASSUME SSDInit PROVE SSDInv
  OBVIOUS
<1> USE DEF SSDInit
<1>1. SSDTypeOK
  BY SSDAssumption DEF SSDTypeOK
<1>2. MappingAgrees
  BY DEF MappingAgrees
<1>3. CountsExact
  <2>1. \A b \in Block : Live(b) = {}
    BY DEF Live
  <2> QED
    BY <2>1, FS_EmptySet DEF CountsExact
<1>4. TailEmpty
  BY DEF TailEmpty
<1> QED
  BY <1>1, <1>2, <1>3, <1>4 DEF SSDInv

(* An erased block holds nothing; it may be erased when nothing is in it.  *)
LEMMA EraseConsistent ==
  ASSUME SSDInv, NEW b \in Block, allInvalid(b), EraseBlock(b)
  PROVE  SSDInv'
<1> USE DEF SSDInv
<1>1. Live(b) = {}
  BY LiveFacts, FS_EmptySet DEF CountsExact, allInvalid
<1>2. \A p \in Slot : ptl[b][p] = unused
  BY <1>1 DEF Live
<1>3. \A c \in Block, p \in Slot : ptl'[c][p] = ptl[c][p]
  BY <1>2 DEF EraseBlock, SSDTypeOK
<1>4. SSDTypeOK'
  BY SSDAssumption DEF SSDTypeOK, EraseBlock
<1>5. MappingAgrees'
  <2>1. \A x \in Page : ltp[x] # unused => ltp[x] \in Phy
    BY DEF SSDTypeOK
  <2> QED
    BY <1>3, <2>1, SlotOfAddress DEF MappingAgrees, EraseBlock, SSDTypeOK
<1>6. CountsExact'
  <2>1. \A c \in Block : Live(c)' = Live(c)
    BY <1>3 DEF Live
  <2> QED
    BY <1>1, <2>1, FS_EmptySet DEF CountsExact, EraseBlock, SSDTypeOK
<1>7. TailEmpty'
  BY <1>2, <1>3 DEF TailEmpty, EraseBlock, SSDTypeOK
<1> QED
  BY <1>4, <1>5, <1>6, <1>7

(* The next two facts read the counters and positions of the next state    *)
(* off the sets of slots in use there.                                     *)
LEMMA LiveNextSize ==
  ASSUME NEW b \in Block
  PROVE  /\ Live(b)' \subseteq Slot
         /\ IsFiniteSet(Live(b)')
         /\ Cardinality(Live(b)') \in 0 .. PagesPerBlock
<1>1. Live(b)' \in SUBSET Slot
  BY DEF Live
<1> QED
  BY <1>1, SlotFinite, FS_Subset, FS_CardinalityType, SSDAssumption

(* A host write or a move invalidates the old copy of a page and programs  *)
(* the page into the next slot of a block: the device stays consistent.    *)
LEMMA WriteConsistent ==
  ASSUME SSDInv, NEW x \in Page, NEW b \in Block, SSDWrite(x, b)
  PROVE  SSDInv'
<1> USE DEF SSDInv
<1> DEFINE w == writePos[b]
           oldB == getBlockId(ltp[x])
           oldP == getPagePos(ltp[x])
           Rest(c) == {p \in Live(c) : ptl[c][p] # x}
<1>1. w \in Slot /\ w \in Nat /\ ptl[b][w] = unused
  BY SSDAssumption DEF SSDWrite, canWrite, SSDTypeOK, Slot
<1>2. x # unused
  BY SSDAssumption
<1>3. /\ Invalidated(x) \in [Block -> [Slot -> Page \cup {unused}]]
      /\ CountsWithout(x) \in [Block -> Nat]
      /\ \A c \in Block, p \in Slot :
           Invalidated(x)[c][p] = IF ptl[c][p] = x THEN unused ELSE ptl[c][p]
      /\ \A c \in Block : CountsWithout(x)[c] = Cardinality(Rest(c))
  <2>1. CASE ltp[x] = unused
    <3>1. \A c \in Block, p \in Slot : ptl[c][p] # x
      <4>1. \A c \in Block, p \in Slot : getPhyAddr(c, p) # unused
        BY AddressOfSlot, SSDAssumption DEF Phy
      <4> QED
        BY <1>2, <2>1, <4>1 DEF MappingAgrees
    <3>2. Invalidated(x) = ptl /\ CountsWithout(x) = validCnt
      BY <2>1 DEF Invalidated, CountsWithout
    <3>3. \A c \in Block : Rest(c) = Live(c)
      BY <3>1 DEF Live
    <3>4. \A c \in Block, p \in Slot :
            Invalidated(x)[c][p] = IF ptl[c][p] = x THEN unused ELSE ptl[c][p]
      BY <3>1, <3>2
    <3>5. \A c \in Block : CountsWithout(x)[c] = Cardinality(Rest(c))
      BY <3>2, <3>3 DEF CountsExact
    <3>6. /\ Invalidated(x) \in [Block -> [Slot -> Page \cup {unused}]]
          /\ CountsWithout(x) \in [Block -> Nat]
      BY <3>2 DEF SSDTypeOK
    <3> QED
      BY <3>4, <3>5, <3>6
  <2>2. CASE ltp[x] # unused
    <3>1. oldB \in Block /\ oldP \in Slot /\ ptl[oldB][oldP] = x
      BY <2>2, SlotOfAddress DEF SSDTypeOK, MappingAgrees
    <3>2. \A c \in Block, p \in Slot : ptl[c][p] = x => c = oldB /\ p = oldP
      BY <1>2, <3>1, OneSlotPerPage
    <3>3. \A c \in Block, p \in Slot :
            Invalidated(x)[c][p] = IF ptl[c][p] = x THEN unused ELSE ptl[c][p]
      BY <2>2, <3>1, <3>2 DEF Invalidated, SSDTypeOK
    <3>4. Invalidated(x) \in [Block -> [Slot -> Page \cup {unused}]]
      BY <2>2, <3>1 DEF Invalidated, SSDTypeOK
    <3>5. ASSUME NEW c \in Block
          PROVE  CountsWithout(x)[c] = Cardinality(Rest(c)) /\ CountsWithout(x)[c] \in Nat
      <4>1. CASE c # oldB
        <5>1. Rest(c) = Live(c)
          BY <3>2, <4>1 DEF Live
        <5>2. CountsWithout(x)[c] = validCnt[c]
          BY <2>2, <3>1, <4>1 DEF CountsWithout, SSDTypeOK
        <5>3. validCnt[c] \in Nat /\ validCnt[c] = Cardinality(Live(c))
          BY DEF SSDTypeOK, CountsExact
        <5> QED
          BY <5>1, <5>2, <5>3
      <4>2. CASE c = oldB
        <5>1. Rest(c) = Live(c) \ {oldP} /\ oldP \in Live(c)
          BY <1>2, <3>1, <3>2, <4>2 DEF Live
        <5>2. Cardinality(Rest(c)) = Cardinality(Live(c)) - 1
              /\ Cardinality(Rest(c)) \in Nat
          <6>1. IsFiniteSet(Live(c))
            BY LiveFacts
          <6>2. IsFiniteSet(Live(c) \ {oldP})
                /\ Cardinality(Live(c) \ {oldP}) = Cardinality(Live(c)) - 1
            BY <5>1, <6>1, FS_RemoveElement
          <6> QED
            BY <5>1, <6>2, FS_CardinalityType
        <5>3. CountsWithout(x)[c] = validCnt[c] - 1
          BY <2>2, <3>1, <4>2 DEF CountsWithout, SSDTypeOK
        <5> QED
          BY <5>2, <5>3 DEF CountsExact
      <4> QED
        BY <4>1, <4>2
    <3>6. CountsWithout(x) \in [Block -> Nat]
      <4>1. CountsWithout(x) = [validCnt EXCEPT ![oldB] = @ - 1]
        BY <2>2 DEF CountsWithout
      <4>2. DOMAIN CountsWithout(x) = Block /\ CountsWithout(x) = [c \in Block |-> CountsWithout(x)[c]]
        BY <4>1 DEF SSDTypeOK
      <4> QED
        BY <3>5, <4>2
    <3> QED
      BY <3>3, <3>4, <3>5, <3>6
  <2> QED
    BY <2>1, <2>2
<1>4. /\ ptl' \in [Block -> [Slot -> Page \cup {unused}]]
      /\ \A c \in Block, p \in Slot :
           ptl'[c][p] = IF c = b /\ p = w THEN x
                        ELSE IF ptl[c][p] = x THEN unused ELSE ptl[c][p]
  BY <1>1, <1>3 DEF SSDWrite
<1>5. /\ ltp' = [ltp EXCEPT ![x] = getPhyAddr(b, w)]
      /\ writePos' = [writePos EXCEPT ![b] = @ + 1]
      /\ validCnt' = [CountsWithout(x) EXCEPT ![b] = @ + 1]
  BY DEF SSDWrite
<1>6. MappingAgrees'
  <2>1. ASSUME NEW y \in Page, ltp'[y] # unused
        PROVE  ptl'[getBlockId(ltp'[y])][getPagePos(ltp'[y])] = y
    <3>1. CASE y = x
      BY <1>1, <1>4, <1>5, <3>1, AddressOfSlot DEF SSDTypeOK
    <3>2. CASE y # x
      <4>1. ltp'[y] = ltp[y] /\ ltp[y] \in Phy
        BY <1>5, <2>1, <3>2 DEF SSDTypeOK
      <4>2. getBlockId(ltp[y]) \in Block /\ getPagePos(ltp[y]) \in Slot
            /\ ptl[getBlockId(ltp[y])][getPagePos(ltp[y])] = y
        BY <2>1, <4>1, SlotOfAddress DEF MappingAgrees
      <4>3. y # unused
        BY SSDAssumption
      <4> QED
        BY <1>1, <1>4, <3>2, <4>1, <4>2, <4>3
    <3> QED
      BY <3>1, <3>2
  <2>2. ASSUME NEW c \in Block, NEW p \in Slot, ptl'[c][p] # unused
        PROVE  ltp'[ptl'[c][p]] = getPhyAddr(c, p)
    <3>1. CASE c = b /\ p = w
      BY <1>4, <1>5, <3>1 DEF SSDTypeOK
    <3>2. CASE ~ (c = b /\ p = w)
      <4>1. ptl'[c][p] = ptl[c][p] /\ ptl[c][p] # x /\ ptl[c][p] \in Page
        BY <1>4, <2>2, <3>2 DEF SSDTypeOK
      <4> QED
        BY <1>5, <2>2, <4>1 DEF MappingAgrees, SSDTypeOK
    <3> QED
      BY <3>1, <3>2
  <2> QED
    BY <2>1, <2>2 DEF MappingAgrees
<1>7. CountsExact'
  <2>1. ASSUME NEW c \in Block PROVE validCnt'[c] = Cardinality(Live(c)')
    <3>1. IsFiniteSet(Rest(c))
      <4>1. Rest(c) \in SUBSET Live(c) /\ IsFiniteSet(Live(c))
        BY LiveFacts
      <4> QED
        BY <4>1, FS_Subset
    <3>2. CASE c # b
      <4>1. Live(c)' = Rest(c)
        BY <1>4, <3>2 DEF Live
      <4> QED
        BY <1>3, <1>5, <3>2, <4>1
    <3>3. CASE c = b
      <4>1. Live(c)' = Rest(c) \cup {w} /\ w \notin Rest(c)
        BY <1>1, <1>2, <1>4, <3>3 DEF Live
      <4>2. Cardinality(Rest(c) \cup {w}) = Cardinality(Rest(c)) + 1
        BY <3>1, <4>1, FS_AddElement
      <4> QED
        BY <1>3, <1>5, <3>3, <4>1, <4>2
    <3> QED
      BY <3>2, <3>3
  <2> QED
    BY <2>1 DEF CountsExact
<1>8. SSDTypeOK'
  <2>1. ltp' \in [Page -> Phy \cup {unused}]
    BY <1>1, <1>5, AddressOfSlot DEF SSDTypeOK
  <2>2. writePos' \in [Block -> 0 .. PagesPerBlock]
    BY <1>1, <1>5, SSDAssumption DEF SSDTypeOK, Slot
  <2>3. validCnt' \in [Block -> 0 .. PagesPerBlock]
    <3>1. validCnt' \in [Block -> Nat]
      BY <1>3, <1>5
    <3> QED
      BY <1>7, <3>1, LiveNextSize DEF CountsExact
  <2> QED
    BY <1>4, <2>1, <2>2, <2>3 DEF SSDTypeOK
<1>9. TailEmpty'
  <2>1. SUFFICES ASSUME NEW c \in Block, NEW p \in Slot, p >= writePos'[c]
                 PROVE  ptl'[c][p] = unused
    BY DEF TailEmpty
  <2>2. p >= writePos[c] /\ ~ (c = b /\ p = w)
    BY <1>1, <1>5, <2>1, SSDAssumption DEF SSDTypeOK, Slot
  <2> QED
    BY <1>4, <2>2 DEF TailEmpty
<1> QED
  BY <1>6, <1>7, <1>8, <1>9

(* Compaction: the pages in use keep their order, the mapping follows      *)
(* them, and the rest of the block is empty.                               *)
LEMMA CompactConsistent ==
  ASSUME SSDInv, NEW b \in Block, CompactBlock(b)
  PROVE  SSDInv' /\ writePos'[b] = validCnt[b]
<1> USE DEF SSDInv
<1> DEFINE n == Cardinality(Live(b))
<1>1. /\ \A p \in Live(b) : p \in Slot /\ Rank(b, p) \in Slot /\ Rank(b, p) < n
      /\ \A p, q \in Live(b) : Rank(b, p) = Rank(b, q) => p = q
      /\ IsFiniteSet(Live(b)) /\ n \in 0 .. PagesPerBlock
  BY LiveFacts, SSDAssumption DEF Slot
<1>2. \A p \in Live(b) : ptl[b][p] \in Page /\ ptl[b][p] # unused
  BY <1>1 DEF Live, SSDTypeOK
<1>3. \A p \in Live(b) : CompactedBlock(b)[Rank(b, p)] = ptl[b][p]
  <2>1. SUFFICES ASSUME NEW p \in Live(b)
                 PROVE  CompactedBlock(b)[Rank(b, p)] = ptl[b][p]
    OBVIOUS
  <2>2. (CHOOSE q \in Live(b) : Rank(b, q) = Rank(b, p)) = p
    BY <1>1
  <2> QED
    BY <1>1, <2>2 DEF CompactedBlock
<1>4. \A i \in Slot : CompactedBlock(b)[i] # unused =>
                        \E p \in Live(b) : Rank(b, p) = i
  BY DEF CompactedBlock
<1>5. CompactedBlock(b) \in [Slot -> Page \cup {unused}]
  <2>1. \A i \in Slot : CompactedBlock(b)[i] \in Page \cup {unused}
    BY <1>2, <1>3, <1>4
  <2> QED
    BY <2>1 DEF CompactedBlock
<1>6. /\ ptl' = [ptl EXCEPT ![b] = CompactedBlock(b)]
      /\ writePos' = [writePos EXCEPT ![b] = n]
      /\ validCnt' = [validCnt EXCEPT ![b] = n]
      /\ ltp' = CompactedMap(b)
  BY DEF CompactBlock
<1>7. /\ \A p \in Live(b) : ltp'[ptl[b][p]] = getPhyAddr(b, Rank(b, p))
      /\ \A x \in Page : (\A p \in Live(b) : ptl[b][p] # x) => ltp'[x] = ltp[x]
      /\ DOMAIN ltp' = Page
  BY <1>2, <1>6, OneSlotPerPage DEF CompactedMap
<1>8. SSDTypeOK'
  <2>1. \A x \in Page : ltp'[x] \in Phy \cup {unused}
    <3>1. SUFFICES ASSUME NEW x \in Page PROVE ltp'[x] \in Phy \cup {unused}
      OBVIOUS
    <3>2. CASE \E p \in Live(b) : ptl[b][p] = x
      BY <1>1, <1>7, <3>2, AddressOfSlot
    <3>3. CASE \A p \in Live(b) : ptl[b][p] # x
      BY <1>7, <3>3 DEF SSDTypeOK
    <3> QED
      BY <3>2, <3>3
  <2>2. ltp' \in [Page -> Phy \cup {unused}]
    BY <1>6, <2>1 DEF CompactedMap
  <2> QED
    BY <1>1, <1>5, <1>6, <2>2 DEF SSDTypeOK
<1>9. MappingAgrees'
  <2>1. ASSUME NEW x \in Page, ltp'[x] # unused
        PROVE  ptl'[getBlockId(ltp'[x])][getPagePos(ltp'[x])] = x
    <3>1. CASE \E p \in Live(b) : ptl[b][p] = x
      <4>1. PICK p \in Live(b) : ptl[b][p] = x
        BY <3>1
      <4>2. ltp'[x] = getPhyAddr(b, Rank(b, p))
        BY <1>7, <4>1
      <4>3. getBlockId(ltp'[x]) = b /\ getPagePos(ltp'[x]) = Rank(b, p)
        BY <1>1, <4>2, AddressOfSlot
      <4> QED
        BY <1>3, <1>6, <4>1, <4>3 DEF SSDTypeOK
    <3>2. CASE \A p \in Live(b) : ptl[b][p] # x
      <4>1. ltp'[x] = ltp[x] /\ ltp[x] \in Phy
        BY <1>7, <2>1, <3>2 DEF SSDTypeOK
      <4>2. getBlockId(ltp[x]) \in Block /\ getPagePos(ltp[x]) \in Slot
            /\ ptl[getBlockId(ltp[x])][getPagePos(ltp[x])] = x /\ x # unused
        BY <2>1, <4>1, SlotOfAddress, SSDAssumption DEF MappingAgrees
      <4>3. getBlockId(ltp[x]) # b
        BY <3>2, <4>2 DEF Live
      <4> QED
        BY <1>6, <4>1, <4>2, <4>3 DEF SSDTypeOK
    <3> QED
      BY <3>1, <3>2
  <2>2. ASSUME NEW c \in Block, NEW i \in Slot, ptl'[c][i] # unused
        PROVE  ltp'[ptl'[c][i]] = getPhyAddr(c, i)
    <3>1. CASE c = b
      <4>1. ptl'[b][i] = CompactedBlock(b)[i]
        BY <1>6 DEF SSDTypeOK
      <4>2. PICK p \in Live(b) : Rank(b, p) = i
        BY <1>4, <2>2, <3>1, <4>1
      <4> QED
        BY <1>3, <1>7, <3>1, <4>1, <4>2
    <3>2. CASE c # b
      <4>1. ptl'[c][i] = ptl[c][i] /\ ptl[c][i] \in Page
        BY <1>6, <2>2, <3>2 DEF SSDTypeOK
      <4>2. \A p \in Live(b) : ptl[b][p] # ptl[c][i]
        BY <1>1, <1>2, <3>2, OneSlotPerPage
      <4> QED
        BY <1>7, <2>2, <4>1, <4>2 DEF MappingAgrees
    <3> QED
      BY <3>1, <3>2
  <2> QED
    BY <2>1, <2>2 DEF MappingAgrees
<1>10. CountsExact'
  <2>1. ASSUME NEW c \in Block PROVE validCnt'[c] = Cardinality(Live(c)')
    <3>1. CASE c = b
      <4> DEFINE to == [p \in Live(b) |-> Rank(b, p)]
      <4>1. Live(b)' = {i \in Slot : CompactedBlock(b)[i] # unused}
        BY <1>6 DEF Live, SSDTypeOK
      <4>2. to \in [Live(b) -> Live(b)']
        BY <1>1, <1>2, <1>3, <4>1
      <4>3. \A i \in Live(b)' : \E p \in Live(b) : to[p] = i
        BY <1>4, <4>1
      <4>4. \A p, q \in Live(b) : to[p] = to[q] => p = q
        BY <1>1
      <4> HIDE DEF to
      <4>5. Cardinality(Live(b)') = n
        BY <1>1, <4>2, <4>3, <4>4, SameSize
      <4> QED
        BY <1>6, <3>1, <4>5 DEF SSDTypeOK
    <3>2. CASE c # b
      <4>1. Live(c)' = Live(c)
        BY <1>6, <3>2 DEF Live, SSDTypeOK
      <4> QED
        BY <1>6, <3>2, <4>1 DEF CountsExact, SSDTypeOK
    <3> QED
      BY <3>1, <3>2
  <2> QED
    BY <2>1 DEF CountsExact
<1>11. TailEmpty'
  <2>1. SUFFICES ASSUME NEW c \in Block, NEW i \in Slot, i >= writePos'[c]
                 PROVE  ptl'[c][i] = unused
    BY DEF TailEmpty
  <2>2. CASE c = b
    <3>1. ~ \E p \in Live(b) : Rank(b, p) = i
      BY <1>1, <1>6, <2>1, <2>2 DEF SSDTypeOK, Slot
    <3> QED
      BY <1>4, <1>6, <2>2, <3>1 DEF SSDTypeOK
  <2>3. CASE c # b
    BY <1>6, <2>1, <2>3 DEF TailEmpty, SSDTypeOK
  <2> QED
    BY <2>2, <2>3
<1>12. writePos'[b] = validCnt[b]
  BY <1>6 DEF SSDTypeOK, CountsExact
<1> QED
  BY <1>8, <1>9, <1>10, <1>11, <1>12

(* moveValidPagesTo moves the pages of lowest rank, and they fit.          *)
LEMMA MovedFacts ==
  ASSUME SSDTypeOK, NEW s \in Block, NEW d \in Block
  PROVE  /\ Moved(s, d) \subseteq Live(s)
         /\ IsFiniteSet(Moved(s, d))
         /\ \A p \in Moved(s, d) : /\ writePos[d] + Rank(s, p) \in Slot
                                   /\ Rank(s, p) \in Nat
                                   /\ Rank(s, p) < Cardinality(Moved(s, d))
         /\ writePos[d] + Cardinality(Moved(s, d)) \in writePos[d] .. PagesPerBlock
<1> DEFINE M == Moved(s, d)
           w == writePos[d]
<1>1. M \subseteq Live(s) /\ M \in SUBSET Live(s)
  BY DEF Moved
<1>2. IsFiniteSet(M) /\ Cardinality(M) \in Nat
  BY <1>1, LiveFacts, FS_Subset, FS_CardinalityType
<1>3. w \in Nat /\ w <= PagesPerBlock /\ PagesPerBlock \in Nat
  BY SSDAssumption DEF SSDTypeOK
<1>4. \A p \in M : p \in Slot /\ w + Rank(s, p) \in Slot /\ Rank(s, p) \in Nat
  BY <1>1, <1>3, LiveFacts DEF Moved, Slot
<1>5. ASSUME NEW p \in M PROVE Rank(s, p) < Cardinality(M)
  <2> DEFINE Before == {q \in Live(s) : q < p}
  <2>1. \A q \in Before : q \in M
    <3>1. SUFFICES ASSUME NEW q \in Before PROVE q \in M
      OBVIOUS
    <3>2. Rank(s, q) < Rank(s, p) /\ Rank(s, q) \in Nat
      BY <1>1, <3>1, LiveFacts
    <3> QED
      BY <1>3, <1>4, <3>2 DEF Moved
  <2>2. p \in M \ Before
    BY <1>4 DEF Slot
  <2>3. Before \in SUBSET M /\ Before # M
    BY <2>1, <2>2
  <2>4. Cardinality(Before) <= Cardinality(M) /\ Cardinality(Before) # Cardinality(M)
    BY <1>2, <2>3, FS_Subset
  <2> QED
    BY <1>2, <1>4, <2>4 DEF Rank
<1>6. w + Cardinality(M) <= PagesPerBlock
  <2> DEFINE to == [p \in M |-> w + Rank(s, p)]
             To == {w + Rank(s, p) : p \in M}
  <2>1. to \in [M -> To] /\ \A i \in To : \E p \in M : to[p] = i
    OBVIOUS
  <2>2. \A p, q \in M : to[p] = to[q] => p = q
    <3>1. \A p, q \in M : to[p] = to[q] => Rank(s, p) = Rank(s, q)
      BY <1>3, <1>4
    <3> QED
      BY <1>1, <3>1, LiveFacts
  <2>3. To \in SUBSET (w .. PagesPerBlock - 1)
    BY <1>3, <1>4 DEF Slot
  <2> HIDE DEF to, To
  <2>4. Cardinality(To) = Cardinality(M)
    BY <1>2, <2>1, <2>2, SameSize
  <2>5. IsFiniteSet(w .. PagesPerBlock - 1)
        /\ Cardinality(w .. PagesPerBlock - 1) = PagesPerBlock - w
    <3>1. w \in Int /\ PagesPerBlock - 1 \in Int
      BY <1>3
    <3>2. IsFiniteSet(w .. PagesPerBlock - 1)
          /\ Cardinality(w .. PagesPerBlock - 1)
                = IF w > PagesPerBlock - 1 THEN 0 ELSE PagesPerBlock - 1 - w + 1
      BY <3>1, FS_Interval
    <3> QED
      BY <1>3, <3>2
  <2>6. Cardinality(To) <= Cardinality(w .. PagesPerBlock - 1)
    BY <2>3, <2>5, FS_Subset
  <2> QED
    BY <1>2, <1>3, <2>4, <2>5, <2>6
<1> QED
  BY <1>1, <1>2, <1>3, <1>4, <1>5, <1>6

(* Moving pages to another block keeps the device consistent: every moved  *)
(* page has its one copy at its new address, and both counters follow.     *)
LEMMA MoveConsistent ==
  ASSUME SSDInv, NEW s \in Block, NEW d \in Block,
         s # d \/ fullyWritten(s), MoveValidPagesTo(s, d)
  PROVE  SSDInv'
<1> USE DEF SSDInv
<1> DEFINE M == Moved(s, d)
           w == writePos[d]
           n == Cardinality(M)
           dst(p) == w + Rank(s, p)
<1>1. CASE M = {}
  <2>1. UNCHANGED ssdVars
    BY <1>1 DEF MoveValidPagesTo
  <2> QED
    BY <2>1 DEF ssdVars, SSDTypeOK, MappingAgrees, CountsExact, TailEmpty, Live
<1>2. CASE M # {}
  <2>1. /\ M \subseteq Live(s) /\ IsFiniteSet(M) /\ n \in Nat
        /\ \A p \in M : p \in Slot /\ dst(p) \in Slot /\ Rank(s, p) \in Nat
                        /\ Rank(s, p) < n /\ dst(p) >= w
        /\ w \in Nat /\ w + n <= PagesPerBlock
    <3>1. /\ M \subseteq Live(s) /\ IsFiniteSet(M) /\ M \subseteq Slot
          /\ \A p \in M : dst(p) \in Slot /\ Rank(s, p) \in Nat /\ Rank(s, p) < n
          /\ w + n \in w .. PagesPerBlock
      BY MovedFacts, LiveFacts
    <3>2. n \in Nat /\ w \in Nat /\ PagesPerBlock \in Nat
      BY <3>1, FS_CardinalityType, SSDAssumption DEF SSDTypeOK
    <3> QED
      BY <3>1, <3>2
  <2>2. s # d
    <3>1. PICK p \in M : TRUE
      BY <1>2
    <3> QED
      BY <2>1, <3>1, SSDAssumption DEF fullyWritten, Slot
  <2>3. \A p, q \in M : dst(p) = dst(q) => p = q
    <3>1. \A p, q \in M : dst(p) = dst(q) => Rank(s, p) = Rank(s, q)
      BY <2>1
    <3> QED
      BY <2>1, <3>1, LiveFacts
  <2>4. \A p \in M : ptl[s][p] \in Page /\ ptl[s][p] # unused
    BY <2>1 DEF Live, SSDTypeOK
  <2>5. \A i \in Slot : i >= w => ptl[d][i] = unused
    BY DEF TailEmpty
  <2>6. /\ \A p \in M : Destination(s, d)[dst(p)] = ptl[s][p]
        /\ \A i \in Slot : (\A p \in M : dst(p) # i) =>
                              Destination(s, d)[i] = ptl[d][i]
        /\ Destination(s, d) \in [Slot -> Page \cup {unused}]
    <3>1. \A p \in M : (CHOOSE q \in M : dst(q) = dst(p)) = p
      BY <2>3
    <3>2. \A p \in M : Destination(s, d)[dst(p)] = ptl[s][p]
      BY <2>1, <3>1 DEF Destination
    <3>3. \A i \in Slot : (\A p \in M : dst(p) # i) =>
                              Destination(s, d)[i] = ptl[d][i]
      BY DEF Destination
    <3>4. \A i \in Slot : Destination(s, d)[i] \in Page \cup {unused}
      BY <2>4, <3>2, <3>3 DEF SSDTypeOK
    <3> QED
      BY <3>2, <3>3, <3>4 DEF Destination
  <2>7. /\ ptl' = [ptl EXCEPT ![s] = Vacated(s, d), ![d] = Destination(s, d)]
        /\ writePos' = [writePos EXCEPT ![d] = @ + n]
        /\ validCnt' = [validCnt EXCEPT ![s] = @ - n, ![d] = @ + n]
        /\ ltp' = MovedMap(s, d)
    BY <1>2 DEF MoveValidPagesTo
  <2>8. /\ ptl' \in [Block -> [Slot -> Page \cup {unused}]]
        /\ \A p \in M : ptl'[s][p] = unused /\ ptl'[d][dst(p)] = ptl[s][p]
        /\ \A p \in Slot \ M : ptl'[s][p] = ptl[s][p]
        /\ \A i \in Slot : (\A p \in M : dst(p) # i) => ptl'[d][i] = ptl[d][i]
        /\ \A c \in Block \ {s, d} : ptl'[c] = ptl[c]
    <3>1. ptl'[s] = Vacated(s, d) /\ ptl'[d] = Destination(s, d)
          /\ \A c \in Block \ {s, d} : ptl'[c] = ptl[c]
      BY <2>2, <2>7 DEF SSDTypeOK
    <3>2. Vacated(s, d) \in [Slot -> Page \cup {unused}]
      BY DEF Vacated, SSDTypeOK
    <3>3. ptl' \in [Block -> [Slot -> Page \cup {unused}]]
      BY <2>6, <2>7, <3>2 DEF SSDTypeOK
    <3> QED
      BY <2>1, <2>6, <3>1, <3>3 DEF Vacated
  <2>9. /\ \A p \in M : ltp'[ptl[s][p]] = getPhyAddr(d, dst(p))
        /\ \A x \in Page : (\A p \in M : ptl[s][p] # x) => ltp'[x] = ltp[x]
        /\ ltp' \in [Page -> Phy \cup {unused}]
    <3>1. \A p \in M : SlotOf(s, ptl[s][p]) = p
      BY <2>1, OneSlotPerPage
    <3>2. \A p \in M : ltp'[ptl[s][p]] = getPhyAddr(d, dst(p))
      BY <2>4, <2>7, <3>1 DEF MovedMap
    <3>3. \A x \in Page : (\A p \in M : ptl[s][p] # x) => ltp'[x] = ltp[x]
      BY <2>7 DEF MovedMap
    <3>4. \A x \in Page : ltp'[x] \in Phy \cup {unused}
      BY <2>1, <3>2, <3>3, AddressOfSlot DEF SSDTypeOK
    <3> QED
      BY <2>7, <3>2, <3>3, <3>4 DEF MovedMap
  <2>10. MappingAgrees'
    <3>1. ASSUME NEW x \in Page, ltp'[x] # unused
          PROVE  ptl'[getBlockId(ltp'[x])][getPagePos(ltp'[x])] = x
      <4>1. CASE \E p \in M : ptl[s][p] = x
        BY <2>1, <2>8, <2>9, <4>1, AddressOfSlot
      <4>2. CASE \A p \in M : ptl[s][p] # x
        <5> DEFINE b == getBlockId(ltp[x])
                   q == getPagePos(ltp[x])
        <5>1. ltp'[x] = ltp[x] /\ ltp[x] \in Phy
          BY <2>9, <3>1, <4>2 DEF SSDTypeOK
        <5>2. b \in Block /\ q \in Slot /\ ptl[b][q] = x /\ x # unused
          BY <3>1, <5>1, SlotOfAddress, SSDAssumption DEF MappingAgrees
        <5>3. b = s => q \notin M
          BY <4>2, <5>2
        <5>4. b = d => \A p \in M : dst(p) # q
          BY <2>1, <2>5, <5>2
        <5>5. ptl'[b][q] = ptl[b][q]
          BY <2>8, <5>2, <5>3, <5>4
        <5> QED
          BY <5>1, <5>2, <5>5
      <4> QED
        BY <4>1, <4>2
    <3>2. ASSUME NEW c \in Block, NEW i \in Slot, ptl'[c][i] # unused
          PROVE  ltp'[ptl'[c][i]] = getPhyAddr(c, i)
      <4>1. CASE c = d /\ \E p \in M : dst(p) = i
        BY <2>8, <2>9, <4>1
      <4>2. CASE ~ (c = d /\ \E p \in M : dst(p) = i)
        <5>1. ~ (c = s /\ i \in M)
          BY <2>8, <3>2
        <5>2. ptl'[c][i] = ptl[c][i] /\ ptl[c][i] \in Page
          BY <2>8, <3>2, <4>2, <5>1 DEF SSDTypeOK
        <5>3. \A p \in M : ptl[s][p] # ptl[c][i]
          BY <2>1, <2>4, <5>1, OneSlotPerPage
        <5> QED
          BY <2>9, <3>2, <5>2, <5>3 DEF MappingAgrees
      <4> QED
        BY <4>1, <4>2
    <3> QED
      BY <3>1, <3>2 DEF MappingAgrees
  <2>11. CountsExact'
    <3>1. /\ \A c \in Block : IsFiniteSet(Live(c)) /\ Cardinality(Live(c)) \in Nat
          /\ \A c \in Block : validCnt[c] \in Nat /\ validCnt[c] = Cardinality(Live(c))
      BY LiveFacts, FS_CardinalityType DEF SSDTypeOK, CountsExact
    <3>2. ASSUME NEW c \in Block PROVE validCnt'[c] = Cardinality(Live(c)')
      <4>1. CASE c = s
        <5>1. Live(s)' = Live(s) \ M
          BY <2>1, <2>8 DEF Live
        <5>2. Live(s) \cap M = M
          BY <2>1
        <5>3. Cardinality(Live(s) \ M) = Cardinality(Live(s)) - n
          <6>1. IsFiniteSet(Live(s)) /\ IsFiniteSet(M)
            BY <2>1, <3>1
          <6>2. Cardinality(Live(s) \ M) =
                  Cardinality(Live(s)) - Cardinality(Live(s) \cap M)
            BY <6>1, FS_Difference
          <6> QED
            BY <5>2, <6>2
        <5>4. validCnt'[s] = validCnt[s] - n
          BY <2>2, <2>7 DEF SSDTypeOK
        <5> QED
          BY <3>1, <4>1, <5>1, <5>3, <5>4
      <4>2. CASE c = d
        <5> DEFINE to == [p \in M |-> dst(p)]
                   To == {dst(p) : p \in M}
        <5>1. to \in [M -> To] /\ \A i \in To : \E p \in M : to[p] = i
          OBVIOUS
        <5>2. \A p, q \in M : to[p] = to[q] => p = q
          BY <2>3
        <5>3. Live(d)' = Live(d) \cup To /\ Live(d) \cap To = {}
          <6>1. \A i \in Slot : i \in Live(d)' <=> i \in Live(d) \/ i \in To
            BY <2>1, <2>4, <2>8 DEF Live
          <6>2. To \subseteq Slot /\ \A i \in To : i \notin Live(d)
            BY <2>1, <2>5 DEF Live
          <6> QED
            BY <6>1, <6>2 DEF Live
        <5> HIDE DEF to, To
        <5>4. IsFiniteSet(To) /\ Cardinality(To) = n
          BY <2>1, <5>1, <5>2, SameSize
        <5>5. Cardinality(Live(d) \cup To) =
                Cardinality(Live(d)) + Cardinality(To) - Cardinality(Live(d) \cap To)
          BY <3>1, <5>4, FS_Union
        <5>6. Cardinality(Live(d) \cap To) = 0
          BY <5>3, FS_EmptySet
        <5>7. validCnt'[d] = validCnt[d] + n
          BY <2>2, <2>7 DEF SSDTypeOK
        <5> QED
          BY <2>1, <3>1, <4>2, <5>3, <5>4, <5>5, <5>6, <5>7
      <4>3. CASE c # s /\ c # d
        <5>1. Live(c)' = Live(c)
          BY <2>8, <4>3 DEF Live
        <5> QED
          BY <2>7, <3>1, <4>3, <5>1 DEF SSDTypeOK
      <4> QED
        BY <4>1, <4>2, <4>3
    <3> QED
      BY <3>2 DEF CountsExact
  <2>12. SSDTypeOK'
    <3>1. writePos' \in [Block -> 0 .. PagesPerBlock]
      BY <2>1, <2>7, SSDAssumption DEF SSDTypeOK
    <3>2. DOMAIN validCnt' = Block /\ validCnt' = [c \in Block |-> validCnt'[c]]
      BY <2>7 DEF SSDTypeOK
    <3>3. \A c \in Block : validCnt'[c] \in 0 .. PagesPerBlock
      BY <2>11, LiveNextSize DEF CountsExact
    <3> QED
      BY <2>8, <2>9, <3>1, <3>2, <3>3 DEF SSDTypeOK
  <2>13. TailEmpty'
    <3>1. SUFFICES ASSUME NEW c \in Block, NEW i \in Slot, i >= writePos'[c]
                   PROVE  ptl'[c][i] = unused
      BY DEF TailEmpty
    <3>2. CASE c = d
      <4>1. i >= w + n /\ i \in Nat
        BY <2>7, <3>1, <3>2 DEF SSDTypeOK, Slot
      <4>2. \A p \in M : dst(p) # i
        BY <2>1, <4>1
      <4> QED
        BY <2>1, <2>5, <2>8, <3>2, <4>1, <4>2
    <3>3. CASE c # d
      <4>1. i >= writePos[c]
        BY <2>7, <3>1, <3>3 DEF SSDTypeOK
      <4>2. ptl[c][i] = unused
        BY <4>1 DEF TailEmpty
      <4> QED
        BY <2>8, <3>3, <4>2
    <3> QED
      BY <3>2, <3>3
  <2> QED
    BY <2>10, <2>11, <2>12, <2>13
<1> QED
  BY <1>1, <1>2

(* After a move either nothing is left behind and the source may be        *)
(* erased, or the destination is full.                                     *)
LEMMA MoveEmptiesOrFills ==
  ASSUME SSDInv, NEW s \in Block, NEW d \in Block,
         s # d \/ fullyWritten(s), MoveValidPagesTo(s, d)
  PROVE  /\ ~LeavesPages(s, d) => validCnt'[s] = 0
         /\ LeavesPages(s, d) => writePos'[d] = PagesPerBlock
         /\ \A c \in Block \ {d} : writePos'[c] = writePos[c]
<1> USE DEF SSDInv
<1> DEFINE M == Moved(s, d)
           w == writePos[d]
           n == Cardinality(M)
<1>1. /\ M \subseteq Live(s) /\ IsFiniteSet(M) /\ n \in Nat
      /\ w \in Nat /\ w + n <= PagesPerBlock /\ PagesPerBlock \in Nat
  <2>1. M \subseteq Live(s) /\ IsFiniteSet(M) /\ w + n \in w .. PagesPerBlock
    BY MovedFacts
  <2> QED
    BY <2>1, FS_CardinalityType, SSDAssumption DEF SSDTypeOK
<1>2. /\ writePos'[d] = w + n
      /\ \A c \in Block \ {d} : writePos'[c] = writePos[c]
  <2>1. CASE M = {}
    <3>1. n = 0 /\ writePos' = writePos
      BY <2>1, FS_EmptySet DEF MoveValidPagesTo, ssdVars
    <3> QED
      BY <1>1, <3>1
  <2>2. CASE M # {}
    BY <2>2 DEF MoveValidPagesTo, SSDTypeOK
  <2> QED
    BY <2>1, <2>2
<1>3. ASSUME ~LeavesPages(s, d) PROVE validCnt'[s] = 0
  <2>1. \A p \in Slot : ptl'[s][p] = unused
    <3>1. M = Live(s)
      BY <1>3 DEF LeavesPages
    <3>2. CASE M = {}
      <4>1. ptl' = ptl
        BY <3>2 DEF MoveValidPagesTo, ssdVars
      <4> QED
        BY <3>1, <3>2, <4>1 DEF Live
    <3>3. CASE M # {}
      <4>1. s # d
        <5>1. PICK p \in M : TRUE
          BY <3>3
        <5>2. w + Rank(s, p) \in Slot /\ Rank(s, p) \in Nat
          BY <5>1, MovedFacts
        <5> QED
          BY <1>1, <5>2 DEF fullyWritten, Slot
      <4>2. ptl'[s] = Vacated(s, d)
        BY <3>3, <4>1 DEF MoveValidPagesTo, SSDTypeOK
      <4>3. \A p \in Slot : p \notin M => ptl[s][p] = unused
        BY <3>1 DEF Live
      <4> QED
        BY <4>2, <4>3 DEF Vacated
    <3> QED
      BY <3>2, <3>3
  <2>2. Live(s)' = {}
    BY <2>1 DEF Live
  <2>3. SSDInv'
    BY MoveConsistent
  <2> QED
    BY <2>2, <2>3, FS_EmptySet DEF CountsExact
<1>4. ASSUME LeavesPages(s, d) PROVE writePos'[d] = PagesPerBlock
  <2> DEFINE Left == Live(s) \ M
  <2>1. Left \in SUBSET Nat /\ Left # {}
    <3>1. Live(s) \subseteq Nat
      BY LiveFacts DEF Slot
    <3>2. M # Live(s) /\ M \subseteq Live(s)
      BY <1>1, <1>4 DEF LeavesPages
    <3> QED
      BY <3>1, <3>2
  <2>2. PICK p \in Left : \A q \in Left : p <= q
    BY <2>1, LeastNatural
  <2>3. p \in Live(s) /\ p \in Nat /\ Rank(s, p) \in Nat /\ PagesPerBlock - w <= Rank(s, p)
    <3>1. p \in Live(s) /\ p \in Slot /\ ~ (w + Rank(s, p) < PagesPerBlock)
      BY <2>2, LiveFacts DEF Moved
    <3>2. Rank(s, p) \in Nat /\ p \in Nat
      BY <3>1, LiveFacts DEF Slot
    <3> QED
      BY <1>1, <3>1, <3>2
  <2>4. {q \in Live(s) : q < p} = M
    <3>1. ASSUME NEW q \in Live(s), q < p PROVE q \in M
      BY <2>1, <2>2, <3>1
    <3>2. ASSUME NEW q \in M PROVE q < p
      <4>1. q \in Live(s) /\ q \in Nat /\ Rank(s, q) \in Nat /\ w + Rank(s, q) < PagesPerBlock
        BY <1>1, LiveFacts DEF Moved, Slot
      <4>2. Rank(s, q) < Rank(s, p)
        BY <1>1, <2>3, <4>1
      <4>3. ~ (p < q)
        <5>1. p < q => Rank(s, p) < Rank(s, q)
          BY <2>3, <4>1, LiveFacts
        <5> QED
          BY <2>3, <4>1, <4>2, <5>1
      <4>4. q # p
        BY <2>2
      <4> QED
        BY <2>3, <4>1, <4>3, <4>4
    <3> QED
      BY <1>1, <3>1, <3>2
  <2>5. n = Rank(s, p)
    BY <2>4 DEF Rank
  <2> QED
    BY <1>1, <1>2, <2>3, <2>5
<1> QED
  BY <1>2, <1>3, <1>4

(* Neither compaction nor a move drops or invents a page.                  *)
LEMMA CompactKeepsPages ==
  ASSUME SSDInv, NEW b \in Block, CompactBlock(b)
  PROVE  \A x \in Page : ltp'[x] = unused <=> ltp[x] = unused
<1> USE DEF SSDInv
<1>1. SUFFICES ASSUME NEW x \in Page
               PROVE  ltp'[x] = unused <=> ltp[x] = unused
  OBVIOUS
<1>2. CASE \E p \in Live(b) : ptl[b][p] = x
  <2>1. PICK p \in Live(b) : ptl[b][p] = x
    BY <1>2
  <2>2. p \in Slot /\ Rank(b, p) \in Slot /\ x # unused
    BY LiveFacts, SSDAssumption DEF Slot
  <2>3. ltp[x] = getPhyAddr(b, p)
    BY <2>1, <2>2 DEF MappingAgrees
  <2>4. ltp'[x] = getPhyAddr(b, Rank(b, p))
    BY <2>1, OneSlotPerPage DEF CompactBlock, CompactedMap
  <2> QED
    BY <2>2, <2>3, <2>4, AddressOfSlot, SSDAssumption DEF Phy
<1>3. CASE ~ \E p \in Live(b) : ptl[b][p] = x
  BY <1>3 DEF CompactBlock, CompactedMap
<1> QED
  BY <1>2, <1>3

LEMMA MoveKeepsPages ==
  ASSUME SSDInv, NEW s \in Block, NEW d \in Block, MoveValidPagesTo(s, d)
  PROVE  \A x \in Page : ltp'[x] = unused <=> ltp[x] = unused
<1> USE DEF SSDInv
<1>1. SUFFICES ASSUME NEW x \in Page
               PROVE  ltp'[x] = unused <=> ltp[x] = unused
  OBVIOUS
<1>2. CASE Moved(s, d) = {}
  BY <1>2 DEF MoveValidPagesTo, ssdVars
<1>3. CASE Moved(s, d) # {} /\ \E p \in Moved(s, d) : ptl[s][p] = x
  <2>1. PICK p \in Moved(s, d) : ptl[s][p] = x
    BY <1>3
  <2>2. p \in Live(s) /\ p \in Slot /\ writePos[d] + Rank(s, p) \in Slot /\ x # unused
    BY MovedFacts, LiveFacts, SSDAssumption
  <2>3. ltp[x] = getPhyAddr(s, p)
    BY <2>1, <2>2 DEF MappingAgrees
  <2>4. ltp'[x] = getPhyAddr(d, writePos[d] + Rank(s, p))
    BY <1>3, <2>1, <2>2, OneSlotPerPage DEF MoveValidPagesTo, MovedMap
  <2> QED
    BY <2>2, <2>3, <2>4, AddressOfSlot, SSDAssumption DEF Phy
<1>4. CASE Moved(s, d) # {} /\ ~ \E p \in Moved(s, d) : ptl[s][p] = x
  BY <1>4 DEF MoveValidPagesTo, MovedMap
<1> QED
  BY <1>2, <1>3, <1>4

(* A block is either writable or full.                                     *)
LEMMA WritableOrFull ==
  ASSUME SSDTypeOK, NEW b \in Block
  PROVE  canWrite(b) <=> ~fullyWritten(b)
<1>1. writePos[b] \in Nat /\ writePos[b] <= PagesPerBlock /\ PagesPerBlock \in Nat
  BY SSDAssumption DEF SSDTypeOK
<1> QED
  BY <1>1 DEF canWrite, fullyWritten

(* A block full of valid pages is fully written.                           *)
LEMMA AllValidIsFull ==
  ASSUME SSDInv, NEW b \in Block, allValid(b)
  PROVE  fullyWritten(b) /\ Live(b) = Slot
<1> USE DEF SSDInv
<1>1. Cardinality(Live(b)) = Cardinality(Slot)
  BY SlotFinite DEF CountsExact, allValid
<1>2. Live(b) \in SUBSET Slot
  BY LiveFacts
<1>3. Live(b) = Slot
  BY <1>1, <1>2, SlotFinite, FS_Subset
<1>4. writePos[b] \in Nat /\ writePos[b] <= PagesPerBlock /\ PagesPerBlock \in Nat
  BY SSDAssumption DEF SSDTypeOK
<1>5. ~ (writePos[b] < PagesPerBlock)
  <2>1. SUFFICES ASSUME writePos[b] < PagesPerBlock PROVE FALSE
    OBVIOUS
  <2>2. writePos[b] \in Slot
    BY <1>4, <2>1 DEF Slot
  <2>3. ptl[b][writePos[b]] = unused
    BY <1>4, <2>2 DEF TailEmpty
  <2> QED
    BY <1>3, <2>2, <2>3 DEF Live
<1> QED
  BY <1>3, <1>4, <1>5 DEF fullyWritten

-----------------------------------------------------------------------------
(* Refinement.  On a consistent device the place of a page, read off the   *)
(* slots, is its mapping entry.                                            *)
LEMMA PlacedIsMapping == SSDTypeOK /\ MappingAgrees => Placed = ltp
<1> SUFFICES ASSUME SSDTypeOK, MappingAgrees PROVE Placed = ltp
  OBVIOUS
<1>1. ASSUME NEW x \in Page
      PROVE  ltp[x] = IF Cardinality(Copies(x)) = 1
                      THEN CHOOSE a \in Copies(x) : TRUE ELSE unused
  <2>1. \A a \in Copies(x) : ltp[x] = a
    <3>1. SUFFICES ASSUME NEW a \in Copies(x) PROVE ltp[x] = a
      OBVIOUS
    <3>2. a \in Phy /\ ptl[getBlockId(a)][getPagePos(a)] = x
      BY DEF Copies
    <3> QED
      BY <3>2, SlotOfAddress, SSDAssumption DEF MappingAgrees
  <2>2. CASE ltp[x] = unused
    <3>1. Copies(x) = {}
      <4>1. \A a \in Copies(x) : a \in Phy /\ a \in Nat
        BY SSDAssumption DEF Copies, Phy
      <4> QED
        BY <2>1, <2>2, <4>1, SSDAssumption
    <3>2. Cardinality(Copies(x)) = 0
      BY <3>1, FS_EmptySet
    <3> QED
      BY <2>2, <3>2
  <2>3. CASE ltp[x] # unused
    <3>1. ltp[x] \in Copies(x)
      BY <2>3 DEF Copies, MappingAgrees, SSDTypeOK
    <3>2. Copies(x) = {ltp[x]}
      BY <2>1, <3>1
    <3>3. Cardinality(Copies(x)) = 1
      BY <3>2, FS_Singleton
    <3> QED
      BY <3>2, <3>3
  <2> QED
    BY <2>2, <2>3
<1> QED
  BY <1>1 DEF Placed, SSDTypeOK

LEMMA PlacedIsMappingNext == SSDInv /\ SSDInv' => Placed = ltp /\ Placed' = ltp'
<1>1. (SSDTypeOK /\ MappingAgrees => Placed = ltp)'
  BY PlacedIsMapping, PTL
<1> QED
  BY <1>1, PlacedIsMapping DEF SSDInv

LEMMA WriteRefines ==
  ASSUME SSDInv, SSDInv', NEW x \in Page, NEW b \in Block, SSDWrite(x, b)
  PROVE  Promise!Write(x)
<1>1. Placed = ltp /\ Placed' = ltp'
  BY PlacedIsMappingNext
<1> DEFINE a == getPhyAddr(b, writePos[b])
<1>2. writePos[b] \in Slot /\ ptl[b][writePos[b]] = unused
  BY SSDAssumption DEF SSDInv, SSDWrite, canWrite, SSDTypeOK, Slot
<1>3. a \in Phy /\ getBlockId(a) = b /\ getPagePos(a) = writePos[b]
  BY <1>2, AddressOfSlot
<1>4. \A y \in Page : ltp[y] # unused => ltp[y] # a
  BY <1>2, <1>3, SSDAssumption DEF SSDInv, MappingAgrees
<1>5. ltp' = [ltp EXCEPT ![x] = a]
  BY DEF SSDWrite
<1>6. ltp'[x] = a
  BY <1>5 DEF SSDInv, SSDTypeOK
<1> HIDE DEF a
<1> QED
  BY <1>1, <1>3, <1>4, <1>5, <1>6 DEF Promise!Write, Promise!Occupied, Promise!Stored

LEMMA RelocationRefines ==
  ASSUME SSDInv, SSDInv', \A x \in Page : ltp'[x] = unused <=> ltp[x] = unused
  PROVE  Promise!Relocate
<1>1. Placed = ltp /\ Placed' = ltp'
  BY PlacedIsMappingNext
<1>2. \A x, y \in Page : x # y /\ ltp'[x] # unused => ltp'[x] # ltp'[y]
  BY DEF SSDInv, MappingAgrees
<1> QED
  BY <1>1, <1>2 DEF Promise!Relocate, Promise!Injective, SSDInv, SSDTypeOK
=============================================================================
