------------------------------- MODULE GreedyGC -------------------------------
(***************************************************************************)
(* The greedy garbage collectors of the simulator (class GreedyGC in       *)
(* sim/Greedy.hpp): "greedy", "greedy-k" (the best of k random blocks) and *)
(* "greedy-s2r" (greedy victims whose pages are appended to a separate GC  *)
(* block until a victim is empty).                                         *)
(*                                                                         *)
(* writePage is sequential code.  Without garbage collection it is one     *)
(* action; with it, the call is kept in request while performGC runs, one  *)
(* action per iteration of its loops, and ResumeWrite completes it.  An    *)
(* ensure that can fail ends in phase "failed" (EnsureFailed ends the      *)
(* program); one that cannot is a guard.                                   *)
(***************************************************************************)
EXTENDS SSD, Sequences, SequencesExt

CONSTANTS
  Policies,      (* the collectors a run may use: "greedy", "greedy-k",    *)
                 (* "greedy-s2r"                                           *)
  K              (* the number of random candidates of greedy-k            *)

ASSUME GreedyAssumption ==
  /\ Policies \subseteq {"greedy", "greedy-k", "greedy-s2r"}
  /\ K \in Nat \ {0}

VARIABLES
  policy,         (* --gc                                                  *)
  freeBlocks,     (* FIFO list of blocks to fill next                      *)
  currentBlock,   (* the block host writes go to                           *)
  currentGCBlock, (* s2r: the block relocated pages go to, or NoBlock      *)
  victim,         (* s2r: the block being emptied, or NoBlock              *)
  phase,          (* where the writePage call in progress is               *)
  request         (* the page of that call, unused when there is none      *)

gcVars == <<policy, freeBlocks, currentBlock, currentGCBlock, victim, phase, request>>
vars == <<ssdVars, gcVars>>

NoBlock == -1
Phases == {"idle", "gc", "move", "compact", "erase", "collected", "failed"}

(* --gc selects the constructor: greedy, with a k, or with two regions.    *)
gcAlgorithm == policy \in Policies

Init ==
  /\ SSDInit
  /\ gcAlgorithm
  /\ freeBlocks = [i \in 1 .. BlockCount - 1 |-> i]
  /\ currentBlock = 0
  /\ currentGCBlock = NoBlock
  /\ victim = NoBlock
  /\ phase = "idle"
  /\ request = unused

-----------------------------------------------------------------------------
(* Victim selection.                                                       *)

FullBlocks == {b \in Block : fullyWritten(b)}

(* Faulty: the first full block, and the full block with the most pages.   *)
singleGreedyFirst == CHOOSE v \in FullBlocks : \A b \in FullBlocks : v <= b
singleGreedyMost ==
  CHOOSE v \in FullBlocks : \A b \in FullBlocks : validCnt[v] >= validCnt[b]

(* singleGreedy: the first full block with the fewest valid pages.         *)
singleGreedy ==
  CHOOSE v \in FullBlocks : \A b \in FullBlocks :
    validCnt[v] < validCnt[b] \/ (validCnt[v] = validCnt[b] /\ v <= b)

(* Every block greedy-k can end up with: the best of at most K draws with  *)
(* replacement, the first of them on a tie.  Fullness is not tested.       *)
BestOfK ==
  {v \in Block : \E draws \in SUBSET Block :
    /\ v \in draws
    /\ Cardinality(draws) <= K
    /\ \A b \in draws : validCnt[v] <= validCnt[b]}

-----------------------------------------------------------------------------
(* writePage                                                               *)

(* There is room in the current block.                                     *)
WriteCurrent(x) ==
  /\ phase = "idle"
  /\ canWrite(currentBlock)
  /\ SSDWrite(x, currentBlock)
  /\ UNCHANGED gcVars

(* The next free block becomes the current one; it has room.               *)
TakeFreeBlock(x) ==
  /\ freeBlocks # <<>>
  /\ canWrite(Head(freeBlocks))
  /\ currentBlock' = Head(freeBlocks)
  /\ freeBlocks' = Tail(freeBlocks)
  /\ SSDWrite(x, Head(freeBlocks))
  /\ UNCHANGED <<policy, currentGCBlock, victim>>

WriteNext(x) ==
  /\ phase = "idle"
  /\ ~canWrite(currentBlock)
  /\ TakeFreeBlock(x)
  /\ UNCHANGED <<phase, request>>

(* No free block is left: performGC runs before the page is written.       *)
StartGC(x) ==
  /\ phase = "idle"
  /\ ~canWrite(currentBlock)
  /\ freeBlocks = <<>>
  /\ phase' = "gc"
  /\ request' = x
  /\ UNCHANGED <<ssdVars, policy, freeBlocks, currentBlock, currentGCBlock, victim>>

ResumeWrite ==
  /\ phase = "collected"
  /\ TakeFreeBlock(request)
  /\ phase' = "idle"
  /\ request' = unused

(* ensure(canWrite) of the block taken after garbage collection fails.     *)
ResumeFails ==
  /\ phase = "collected"
  /\ ~canWrite(Head(freeBlocks))
  /\ currentBlock' = Head(freeBlocks)
  /\ freeBlocks' = Tail(freeBlocks)
  /\ phase' = "failed"
  /\ UNCHANGED <<ssdVars, policy, currentGCBlock, victim, request>>

-----------------------------------------------------------------------------
(* performGC: greedy and greedy-k compact one victim in place.             *)

CollectInPlace(v) ==
  /\ phase = "gc"
  /\ CompactBlock(v)
  /\ freeBlocks' = Append(freeBlocks, v)
  /\ phase' = "collected"
  /\ UNCHANGED <<policy, currentBlock, currentGCBlock, victim, request>>

CollectGreedy ==
  /\ policy = "greedy"
  /\ FullBlocks # {}
  /\ CollectInPlace(singleGreedy)

CollectBestOfK ==
  /\ policy = "greedy-k"
  /\ \E v \in BestOfK : CollectInPlace(v)

-----------------------------------------------------------------------------
(* performGC: s2r runs compactUntilFreeBlock(currentGCBlock, singleGreedy) *)

(* A GC block is needed (none yet, or it is full of valid pages): the best *)
(* victim is compacted and becomes the GC block.                           *)
NeedsGCBlock ==
  IF currentGCBlock = NoBlock THEN TRUE ELSE allValid(currentGCBlock)

OpenGCBlock ==
  /\ policy = "greedy-s2r"
  /\ phase = "gc"
  /\ NeedsGCBlock
  /\ FullBlocks # {}
  /\ CompactBlock(singleGreedy)
  /\ currentGCBlock' = singleGreedy
  /\ phase' = IF allValid(singleGreedy) THEN "failed" ELSE "move"
  /\ UNCHANGED <<policy, freeBlocks, currentBlock, victim, request>>

KeepGCBlock ==
  /\ policy = "greedy-s2r"
  /\ phase = "gc"
  /\ ~NeedsGCBlock
  /\ phase' = "move"
  /\ UNCHANGED <<ssdVars, policy, freeBlocks, currentBlock, currentGCBlock, victim,
                 request>>

(* The next victim's pages go to the GC block as far as they fit.          *)
MoveVictim ==
  /\ phase = "move"
  /\ FullBlocks # {}
  /\ victim' = singleGreedy
  /\ MoveValidPagesTo(singleGreedy, currentGCBlock)
  /\ phase' = IF LeavesPages(singleGreedy, currentGCBlock)
              THEN "compact" ELSE "erase"
  /\ UNCHANGED <<policy, freeBlocks, currentBlock, currentGCBlock, request>>

(* Faulty: the compacted victim is not made the GC block.                  *)
VictimBecomesNothing ==
  /\ phase = "compact"
  /\ CompactBlock(victim)
  /\ victim' = NoBlock
  /\ phase' = "move"
  /\ UNCHANGED <<policy, freeBlocks, currentBlock, currentGCBlock, request>>

(* They did not fit: the victim is compacted and becomes the GC block.     *)
VictimBecomesGCBlock ==
  /\ phase = "compact"
  /\ CompactBlock(victim)
  /\ currentGCBlock' = victim
  /\ victim' = NoBlock
  /\ phase' = "move"
  /\ UNCHANGED <<policy, freeBlocks, currentBlock, request>>

(* The victim is empty: it is erased and handed to the free list.          *)
EraseVictim ==
  /\ phase = "erase"
  /\ EraseBlock(victim)
  /\ freeBlocks' = Append(freeBlocks, victim)
  /\ victim' = NoBlock
  /\ phase' = "collected"
  /\ UNCHANGED <<policy, currentBlock, currentGCBlock, request>>

-----------------------------------------------------------------------------
HostWrite(x) == WriteCurrent(x) \/ WriteNext(x) \/ StartGC(x)

(* The rest of a call that is in progress.                                 *)
Collect ==
  \/ CollectGreedy \/ CollectBestOfK
  \/ OpenGCBlock \/ KeepGCBlock
  \/ MoveVictim \/ VictimBecomesGCBlock \/ EraseVictim

Step == Collect \/ ResumeWrite \/ ResumeFails

Next == (\E x \in Page : HostWrite(x)) \/ Step

Spec == Init /\ [][Next]_vars

(* The simulator is one thread that is never suspended inside a call.      *)
FairSpec == Spec /\ WF_vars(Step)

-----------------------------------------------------------------------------
TypeOK ==
  /\ SSDTypeOK
  /\ policy \in Policies
  /\ freeBlocks \in Seq(Block)
  /\ currentBlock \in Block
  /\ currentGCBlock \in Block \cup {NoBlock}
  /\ victim \in Block \cup {NoBlock}
  /\ phase \in Phases
  /\ request \in Page \cup {unused}

(* No block is lost or handed out twice: the free list has no duplicates   *)
(* and does not hold the block being filled, and a block that is neither   *)
(* listed, nor being filled, nor the GC block is full, hence a candidate   *)
(* for a later collection.                                                 *)
BlocksAccounted ==
  /\ \A i, j \in DOMAIN freeBlocks : freeBlocks[i] = freeBlocks[j] => i = j
  /\ phase # "collected" => currentBlock \notin Range(freeBlocks)
  /\ \A b \in Block \ (Range(freeBlocks) \cup {currentBlock, currentGCBlock}) :
        fullyWritten(b)

(* ensure(canWrite) of the block taken after garbage collection.           *)
EnsureHolds == phase = "collected" => canWrite(Head(freeBlocks))

(* Garbage collection runs only on a device without a writable host block, *)
(* and, except with greedy-k, it always leaves a block that the waiting    *)
(* write can go to: the ensures of writePage never fail.                   *)
CollectionMakesRoom == policy # "greedy-k" => phase # "failed" /\ EnsureHolds

(* A greedy collection moves at most the average number of valid pages of  *)
(* a block, so the write amplification stays below the device's fill.      *)
GreedyMovesAtMostAverage ==
  [][\A v \in Block :
        policy = "greedy" /\ CollectInPlace(v) =>
          validCnt[v] * BlockCount <= Cardinality(Page)]_vars

(* Every writePage call returns.                                           *)
WriteReturns == (phase # "idle" /\ policy # "greedy-k") ~> (phase = "idle")
=============================================================================
