--------------------------------- MODULE SSD ---------------------------------
(***************************************************************************)
(* The flash device of the garbage collection simulator (class SSD in      *)
(* sim/SSD.hpp): erase blocks that are programmed slot by slot, and the    *)
(* page mapping of the flash translation layer.  The device does not       *)
(* choose anything: a garbage collector (GreedyGC, TwoR) EXTENDS this      *)
(* module and drives it with the four operations below.                    *)
(*                                                                         *)
(* The write buffer is switched off in the code (writeBufferSizePct = 0),  *)
(* so writePage is writePageWithoutCaching.  Statistics (write counters,   *)
(* erase ages, gc generations, the group that only unused policies set)    *)
(* are left to the module SimBench.                                        *)
(***************************************************************************)
EXTENDS Integers, FiniteSets

CONSTANTS
  Page,          (* logical pages, PIDs 0 .. logicalPages - 1              *)
  BlockCount,    (* erase blocks of the device                             *)
  PagesPerBlock, (* slots of one erase block                               *)
  unused         (* an empty slot, and the address of an unwritten page    *)

(* The fill ratio is at most 1, so the device has a slot for every page.   *)
ASSUME SSDAssumption ==
  /\ BlockCount \in Nat \ {0}
  /\ PagesPerBlock \in Nat \ {0}
  /\ IsFiniteSet(Page)
  /\ Cardinality(Page) <= BlockCount * PagesPerBlock
  /\ unused \notin Page
  /\ unused \notin Nat

VARIABLES
  ptl,       (* ptl[b][p]: the page a slot holds, or unused (Block::_ptl)  *)
  writePos,  (* the next slot of a block to program                        *)
  validCnt,  (* the cached number of slots in use                          *)
  ltp        (* the physical address of a page (_ltpMapping)               *)

ssdVars == <<ptl, writePos, validCnt, ltp>>

Block == 0 .. BlockCount - 1
Slot  == 0 .. PagesPerBlock - 1
Phy   == 0 .. BlockCount * PagesPerBlock - 1

(***************************************************************************)
(* Addresses are single numbers; block and slot are recovered by division. *)
(***************************************************************************)
getBlockId(a)    == a \div PagesPerBlock
getPagePos(a)    == a % PagesPerBlock
getPhyAddr(b, p) == b * PagesPerBlock + p

-----------------------------------------------------------------------------
(* What a garbage collector can ask of a block.                            *)

canWrite(b)     == writePos[b] < PagesPerBlock
fullyWritten(b) == writePos[b] = PagesPerBlock
allValid(b)     == validCnt[b] = PagesPerBlock
allInvalid(b)   == validCnt[b] = 0
isErased(b)     == writePos[b] = 0
invalidCnt(b)   == PagesPerBlock - validCnt[b]

(* The slots in use, and how many of them precede a slot: the loops that   *)
(* relocate pages visit the slots in order, so the rank of a slot is the   *)
(* number of pages already relocated when the loop reaches it.             *)
Live(b)      == {p \in Slot : ptl[b][p] # unused}
Rank(b, p)   == Cardinality({q \in Live(b) : q < p})
SlotOf(b, x) == CHOOSE p \in Live(b) : ptl[b][p] = x

-----------------------------------------------------------------------------
SSDInit ==
  /\ ptl      = [b \in Block |-> [p \in Slot |-> unused]]
  /\ writePos = [b \in Block |-> 0]
  /\ validCnt = [b \in Block |-> 0]
  /\ ltp      = [x \in Page |-> unused]

(***************************************************************************)
(* writePageWithoutCaching: the old copy of page x, if any, is marked      *)
(* unused, then x is programmed into the next slot of block b.  The code's *)
(* ensures are the guard: the block has room and the slot is empty.  ptl   *)
(* and validCnt after the invalidation are what Block::write starts from.  *)
(***************************************************************************)
(* Faulty forms, each used in place of the definition that follows it to   *)
(* see that a property notices: here, the old copy is forgotten.           *)
InvalidatedNever(x) == ptl

Invalidated(x) ==
  IF ltp[x] = unused THEN ptl
  ELSE [ptl EXCEPT ![getBlockId(ltp[x])][getPagePos(ltp[x])] = unused]

(* Faulty: the counter of the old copy's block is not decremented.         *)
CountsWithoutStale(x) == validCnt

CountsWithout(x) ==
  IF ltp[x] = unused THEN validCnt
  ELSE [validCnt EXCEPT ![getBlockId(ltp[x])] = @ - 1]

SSDWrite(x, b) ==
  /\ canWrite(b)
  /\ ptl[b][writePos[b]] = unused
  /\ ptl'      = [Invalidated(x) EXCEPT ![b][writePos[b]] = x]
  /\ validCnt' = [CountsWithout(x) EXCEPT ![b] = @ + 1]
  /\ writePos' = [writePos EXCEPT ![b] = @ + 1]
  /\ ltp'      = [ltp EXCEPT ![x] = getPhyAddr(b, writePos[b])]

(***************************************************************************)
(* compactBlock: the pages in use slide to the front of the block in slot  *)
(* order (an erase and a rewrite in one), and their mapping follows.       *)
(***************************************************************************)
CompactedBlock(b) ==
  [i \in Slot |-> IF \E p \in Live(b) : Rank(b, p) = i
                  THEN ptl[b][CHOOSE p \in Live(b) : Rank(b, p) = i]
                  ELSE unused]

CompactedMap(b) ==
  [x \in Page |-> IF \E p \in Live(b) : ptl[b][p] = x
                  THEN getPhyAddr(b, Rank(b, SlotOf(b, x)))
                  ELSE ltp[x]]

CompactBlock(b) ==
  /\ ptl'      = [ptl EXCEPT ![b] = CompactedBlock(b)]
  /\ writePos' = [writePos EXCEPT ![b] = Cardinality(Live(b))]
  /\ validCnt' = [validCnt EXCEPT ![b] = Cardinality(Live(b))]
  /\ ltp'      = CompactedMap(b)

(***************************************************************************)
(* moveValidPagesTo: pages of block s are rewritten into block d in slot   *)
(* order until d is full; each move is a writePage, so the old slot of a   *)
(* moved page becomes unused.  Block s is not erased.                      *)
(***************************************************************************)
Moved(s, d) == {p \in Live(s) : writePos[d] + Rank(s, p) < PagesPerBlock}

Destination(s, d) ==
  [i \in Slot |-> IF \E p \in Moved(s, d) : writePos[d] + Rank(s, p) = i
                  THEN ptl[s][CHOOSE p \in Moved(s, d) :
                                writePos[d] + Rank(s, p) = i]
                  ELSE ptl[d][i]]

Vacated(s, d) ==
  [p \in Slot |-> IF p \in Moved(s, d) THEN unused ELSE ptl[s][p]]

(* Faulty: moved pages stay mapped to their old slots.                     *)
MovedMapStale(s, d) == ltp

MovedMap(s, d) ==
  [x \in Page |-> IF \E p \in Moved(s, d) : ptl[s][p] = x
                  THEN getPhyAddr(d, writePos[d] + Rank(s, SlotOf(s, x)))
                  ELSE ltp[x]]

MoveValidPagesTo(s, d) ==
  LET n == Cardinality(Moved(s, d))
  IN  IF Moved(s, d) = {}
      THEN UNCHANGED ssdVars
      ELSE /\ ptl'      = [ptl EXCEPT ![s] = Vacated(s, d),
                                      ![d] = Destination(s, d)]
           /\ writePos' = [writePos EXCEPT ![d] = @ + n]
           /\ validCnt' = [validCnt EXCEPT ![s] = @ - n, ![d] = @ + n]
           /\ ltp'      = MovedMap(s, d)

(* Faulty: the victim always counts as empty.                              *)
LeavesPagesNever(s, d) == FALSE

(* moveValidPagesTo returns whether pages are left behind in s.            *)
LeavesPages(s, d) == Moved(s, d) # Live(s)

(* Faulty: an erase leaves the write position at the end of the block.     *)
EraseBlockKeepsPos(b) ==
  /\ ptl'      = [ptl EXCEPT ![b] = [p \in Slot |-> unused]]
  /\ validCnt' = [validCnt EXCEPT ![b] = 0]
  /\ UNCHANGED <<writePos, ltp>>

EraseBlock(b) ==
  /\ ptl'      = [ptl EXCEPT ![b] = [p \in Slot |-> unused]]
  /\ writePos' = [writePos EXCEPT ![b] = 0]
  /\ validCnt' = [validCnt EXCEPT ![b] = 0]
  /\ UNCHANGED ltp

-----------------------------------------------------------------------------
SSDTypeOK ==
  /\ ptl      \in [Block -> [Slot -> Page \cup {unused}]]
  /\ writePos \in [Block -> 0 .. PagesPerBlock]
  /\ validCnt \in [Block -> 0 .. PagesPerBlock]
  /\ ltp      \in [Page -> Phy \cup {unused}]

(* The two directions of the mapping agree: a mapped page is in the slot   *)
(* it is mapped to, and a slot in use holds a page mapped to that slot.    *)
(* No page has two copies and no lookup finds another page's data.         *)
MappingAgrees ==
  /\ \A x \in Page :
        ltp[x] # unused => ptl[getBlockId(ltp[x])][getPagePos(ltp[x])] = x
  /\ \A b \in Block, p \in Slot :
        ptl[b][p] # unused => ltp[ptl[b][p]] = getPhyAddr(b, p)

(* The cached valid count, on which victim selection and every allValid or *)
(* allInvalid test rely, is the number of slots in use.                    *)
CountsExact == \A b \in Block : validCnt[b] = Cardinality(Live(b))

(* Slots at and after the write position are empty: Block::write never     *)
(* programs a slot twice between two erases.                               *)
TailEmpty ==
  \A b \in Block, p \in Slot : p >= writePos[b] => ptl[b][p] = unused

SSDInv == SSDTypeOK /\ MappingAgrees /\ CountsExact /\ TailEmpty

(***************************************************************************)
(* What a device promises under any collector (refinement): the place of a *)
(* page is where the slots, not the mapping, say it is.  A page with two   *)
(* copies would be nowhere.                                                *)
(***************************************************************************)
Copies(x) == {a \in Phy : ptl[getBlockId(a)][getPagePos(a)] = x}

Placed == [x \in Page |-> IF Cardinality(Copies(x)) = 1
                          THEN CHOOSE a \in Copies(x) : TRUE
                          ELSE unused]

Promise == INSTANCE FlashMap WITH Place <- Phy, nowhere <- unused,
                                  place <- Placed

ImplementsFlashMap == Promise!Spec
=============================================================================
