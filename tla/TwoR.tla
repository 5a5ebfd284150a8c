--------------------------------- MODULE TwoR ---------------------------------
(***************************************************************************)
(* What the two variants of the 2R collector (class TwoR in sim/TwoR.hpp)  *)
(* have in common: writePage, and compactUntilFreeBlock(victimBlockList),  *)
(* which empties the first victim by compacting the victims from the last  *)
(* to the second, each into room its predecessor's pages are moved to.     *)
(* TwoRGreedy and TwoRFifo EXTEND this module with the selection of the    *)
(* victims and with the lists the blocks are kept in.                      *)
(*                                                                         *)
(* Loops run one iteration per action; a failed ensure ends in "failed".   *)
(***************************************************************************)
EXTENDS SSD, Sequences, SequencesExt

VARIABLES
  freeBlocks,   (* FIFO list of blocks to fill next                        *)
  currentBlock, (* the block host writes go to                             *)
  victimIds,    (* the victims of the collection in progress               *)
  cascade,      (* the index of the victim the cascade has reached         *)
  phase,        (* where the writePage call in progress is                 *)
  request       (* the page of that call, unused when there is none        *)

twoRVars == <<freeBlocks, currentBlock, victimIds, cascade, phase, request>>

Phases == {"idle", "gc", "select", "compact", "move", "erase", "distribute",
           "collected", "failed"}

TwoRInit ==
  /\ SSDInit
  /\ freeBlocks = [i \in 1 .. BlockCount - 1 |-> i]
  /\ currentBlock = 0
  /\ victimIds = <<>>
  /\ cascade = 0
  /\ phase = "idle"
  /\ request = unused

-----------------------------------------------------------------------------
(* writePage.  A full current block is first recorded in the lists of the  *)
(* variant (the conjunct the variant adds), then replaced.                 *)

WriteCurrent(x) ==
  /\ phase = "idle"
  /\ canWrite(currentBlock)
  /\ SSDWrite(x, currentBlock)
  /\ UNCHANGED twoRVars

TakeFreeBlock(x) ==
  /\ freeBlocks # <<>>
  /\ currentBlock' = Head(freeBlocks)
  /\ freeBlocks' = Tail(freeBlocks)
  /\ SSDWrite(x, Head(freeBlocks))
  /\ UNCHANGED <<victimIds, cascade>>

WriteNext(x) ==
  /\ phase = "idle"
  /\ ~canWrite(currentBlock)
  /\ TakeFreeBlock(x)
  /\ UNCHANGED <<phase, request>>

StartGC(x) ==
  /\ phase = "idle"
  /\ ~canWrite(currentBlock)
  /\ freeBlocks = <<>>
  /\ phase' = "gc"
  /\ request' = x
  /\ UNCHANGED <<ssdVars, freeBlocks, currentBlock, victimIds, cascade>>

ResumeWrite ==
  /\ phase = "collected"
  /\ TakeFreeBlock(request)
  /\ phase' = "idle"
  /\ request' = unused

-----------------------------------------------------------------------------
(* compactUntilFreeBlock(victimIds).                                       *)

(* The invalid pages of a list of blocks, counted block by block: page e   *)
(* is the e[2]-th invalid page of the e[1]-th block.                       *)
InvalidPages(blocks) ==
  {e \in (1 .. Len(blocks)) \X (1 .. PagesPerBlock) : e[2] <= invalidCnt(blocks[e[1]])}

TotalInvalid(blocks) == Cardinality(InvalidPages(blocks))

(* Selection is over.  An empty victim list throws invalid_argument.       *)
StartCascade ==
  /\ cascade' = Len(victimIds)
  /\ phase' = CASE victimIds = <<>>    -> "failed"
                [] Len(victimIds) = 1  -> "erase"
                [] OTHER               -> "compact"

(* Faulty: the destination is not compacted before pages are moved to it.  *)
CompactNothing ==
  /\ phase = "compact"
  /\ phase' = "move"
  /\ UNCHANGED <<ssdVars, freeBlocks, currentBlock, victimIds, cascade, request>>

CompactDestination ==
  /\ phase = "compact"
  /\ CompactBlock(victimIds[cascade])
  /\ phase' = "move"
  /\ UNCHANGED <<freeBlocks, currentBlock, victimIds, cascade, request>>

MoveToDestination ==
  /\ phase = "move"
  /\ MoveValidPagesTo(victimIds[cascade - 1], victimIds[cascade])
  /\ cascade' = cascade - 1
  /\ phase' = IF cascade = 2 THEN "erase" ELSE "compact"
  /\ UNCHANGED <<freeBlocks, currentBlock, victimIds, request>>

(* ensure(allInvalid) guards the erase of the first victim.                *)
EraseFirst ==
  /\ phase = "erase"
  /\ allInvalid(Head(victimIds))
  /\ EraseBlock(Head(victimIds))
  /\ phase' = "distribute"
  /\ UNCHANGED <<freeBlocks, currentBlock, victimIds, cascade, request>>

(* Faulty: every victim is handed to the free list.                        *)
FreedUnchecked(v) == Append(freeBlocks, v)

(* A collected victim with room goes to the free list, a full one holds    *)
(* relocated pages only and goes to the lists of the variant.              *)
Freed(v) == IF canWrite(v) THEN Append(freeBlocks, v) ELSE freeBlocks

DistributeVictim ==
  /\ phase = "distribute"
  /\ victimIds # <<>>
  /\ freeBlocks' = Freed(Head(victimIds))
  /\ victimIds' = Tail(victimIds)
  /\ UNCHANGED <<ssdVars, currentBlock, cascade, phase, request>>

Collected ==
  /\ phase = "distribute"
  /\ victimIds = <<>>
  /\ cascade' = 0
  /\ phase' = "collected"
  /\ UNCHANGED <<ssdVars, freeBlocks, currentBlock, victimIds, request>>

Cascade == CompactDestination \/ MoveToDestination \/ EraseFirst

-----------------------------------------------------------------------------
TwoRTypeOK ==
  /\ SSDTypeOK
  /\ freeBlocks \in Seq(Block)
  /\ currentBlock \in Block
  /\ victimIds \in Seq(Block)
  /\ cascade \in 0 .. BlockCount
  /\ phase \in Phases
  /\ request \in Page \cup {unused}

(* The cascade does what selection counted on: when it reaches the first   *)
(* victim, that block is empty (the ensure in compactUntilFreeBlock), and  *)
(* no victim holds an invalid page any more, so the space won is every     *)
(* invalid page of every victim.                                           *)
CascadeEmptiesFirst ==
  phase = "erase" => allInvalid(Head(victimIds))

CascadeLeavesNoGarbage ==
  phase = "distribute" =>
    \A i \in DOMAIN victimIds : validCnt[victimIds[i]] = writePos[victimIds[i]]

(* Every writePage call returns.                                           *)
WriteReturns == (phase # "idle") ~> (phase = "idle")
=============================================================================
