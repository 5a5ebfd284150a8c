------------------------------ MODULE TwoRGreedy ------------------------------
(***************************************************************************)
(* 2R with greedy victims ("2r-greedy"): full blocks written by the host   *)
(* form the normal region, full blocks of relocated pages the cold region; *)
(* a collection takes the emptiest blocks of one region until they hold a  *)
(* block's worth of invalid pages.  The FIFO list, which this variant      *)
(* appends to and never reads, is left out.                                *)
(***************************************************************************)
EXTENDS TwoR

VARIABLES
  normalBlocks, (* full blocks the host has filled                         *)
  coldBlocks,   (* full blocks of relocated pages                          *)
  region        (* the region the current selection takes victims from     *)

vars == <<ssdVars, twoRVars, normalBlocks, coldBlocks, region>>

Init ==
  /\ TwoRInit
  /\ normalBlocks = <<>>
  /\ coldBlocks = <<>>
  /\ region = "none"

(* greedyNormal and greedyCold: min_element, the first on a tie.           *)
MinElement(blocks) ==
  CHOOSE i \in DOMAIN blocks : \A j \in DOMAIN blocks :
    \/ validCnt[blocks[i]] < validCnt[blocks[j]]
    \/ validCnt[blocks[i]] = validCnt[blocks[j]] /\ i <= j

Emptiest(blocks) == blocks[MinElement(blocks)]

(* Faulty: the cold region is collected whatever it has to offer.          *)
CollectColdUnchecked ==
  TotalInvalid(normalBlocks) < PagesPerBlock \/ coldBlocks # <<>>

(* garbageCollectColdRegion                                                *)
CollectCold ==
  /\ TotalInvalid(coldBlocks) >= PagesPerBlock
  /\ \/ TotalInvalid(normalBlocks) < PagesPerBlock
     \/ validCnt[Emptiest(normalBlocks)] >= validCnt[Emptiest(coldBlocks)]

-----------------------------------------------------------------------------
(* A full current block joins the normal region in the writePage call that *)
(* replaces it, before performGC runs.                                     *)
HostWrite(x) ==
  \/ WriteCurrent(x) /\ UNCHANGED <<normalBlocks, coldBlocks, region>>
  \/ /\ WriteNext(x) \/ StartGC(x)
     /\ normalBlocks' = Append(normalBlocks, currentBlock)
     /\ UNCHANGED <<coldBlocks, region>>

ChooseRegion ==
  /\ phase = "gc"
  /\ region' = IF CollectCold THEN "cold" ELSE "normal"
  /\ phase' = "select"
  /\ UNCHANGED <<ssdVars, freeBlocks, currentBlock, victimIds, cascade,
                 request, normalBlocks, coldBlocks>>

(* Faulty: the victim is not removed from its region.                      *)
WithoutRemoval(blocks) == blocks

(* A region lists a block once, so the victim leaves it with its entry.    *)
WithoutEmptiest(blocks) == RemoveAt(blocks, MinElement(blocks))

SelectVictimFrom(blocks) ==
  /\ phase = "select"
  /\ TotalInvalid(victimIds) < PagesPerBlock
  /\ blocks # <<>>
  /\ victimIds' = Append(victimIds, Emptiest(blocks))
  /\ UNCHANGED <<ssdVars, freeBlocks, currentBlock, cascade, phase, request,
                 region>>

SelectCold ==
  /\ region = "cold"
  /\ SelectVictimFrom(coldBlocks)
  /\ coldBlocks' = WithoutEmptiest(coldBlocks)
  /\ UNCHANGED normalBlocks

SelectNormal ==
  /\ region = "normal"
  /\ SelectVictimFrom(normalBlocks)
  /\ normalBlocks' = WithoutEmptiest(normalBlocks)
  /\ UNCHANGED coldBlocks

Selected ==
  /\ phase = "select"
  /\ TotalInvalid(victimIds) >= PagesPerBlock
  /\ StartCascade
  /\ region' = "none"
  /\ UNCHANGED <<ssdVars, freeBlocks, currentBlock, victimIds, request,
                 normalBlocks, coldBlocks>>

(* ensure(totalInvalidPages >= pagesPerBlock) fails: the region is used up.*)
SelectionFails ==
  /\ phase = "select"
  /\ TotalInvalid(victimIds) < PagesPerBlock
  /\ (IF region = "cold" THEN coldBlocks ELSE normalBlocks) = <<>>
  /\ phase' = "failed"
  /\ UNCHANGED <<ssdVars, freeBlocks, currentBlock, victimIds, cascade,
                 request, normalBlocks, coldBlocks, region>>

DistributeToRegions ==
  /\ DistributeVictim
  /\ coldBlocks' = IF canWrite(Head(victimIds)) THEN coldBlocks
                   ELSE Append(coldBlocks, Head(victimIds))
  /\ UNCHANGED <<normalBlocks, region>>

Step ==
  \/ ChooseRegion \/ SelectCold \/ SelectNormal \/ Selected \/ SelectionFails
  \/ /\ Cascade \/ Collected \/ ResumeWrite
     /\ UNCHANGED <<normalBlocks, coldBlocks, region>>
  \/ DistributeToRegions

Next == (\E x \in Page : HostWrite(x)) \/ Step

Spec == Init /\ [][Next]_vars

(* The simulator is one thread that is never suspended inside a call.      *)
FairSpec == Spec /\ WF_vars(Step)

-----------------------------------------------------------------------------
TypeOK ==
  /\ TwoRTypeOK
  /\ normalBlocks \in Seq(Block)
  /\ coldBlocks \in Seq(Block)
  /\ region \in {"none", "cold", "normal"}

(* The regions are kept apart: every block is the current block or in      *)
(* exactly one place of exactly one of the four lists.  A lost block would *)
(* never be collected again, a block listed twice would be given out       *)
(* twice.                                                                  *)
Listed == freeBlocks \o normalBlocks \o coldBlocks \o victimIds

RegionsPartitionBlocks ==
  /\ TypeOK
  /\ \A i, j \in DOMAIN Listed : Listed[i] = Listed[j] => i = j
  /\ Range(Listed) \cup {currentBlock} = Block
  /\ phase = "idle" => currentBlock \notin Range(Listed)

(* Only full blocks wait for collection, only blocks with room are free:   *)
(* a block is never collected while it can still be written.               *)
RegionsFullFreeWritable ==
  /\ \A b \in Range(normalBlocks) \cup Range(coldBlocks) : fullyWritten(b)
  /\ \A b \in Range(freeBlocks) : canWrite(b)

(* A device with at least 2 * PagesPerBlock - 1 spare pages: one region    *)
(* always holds a block's worth of invalid pages, the selection's ensure   *)
(* never fails.                                                            *)
SelectionSucceeds == phase # "failed"
=============================================================================
