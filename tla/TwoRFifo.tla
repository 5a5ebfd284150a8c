------------------------------- MODULE TwoRFifo -------------------------------
(***************************************************************************)
(* 2R with FIFO victims ("2r-fifo"): one list holds all full blocks in the *)
(* order they were filled.  A scan walks the front part of the list        *)
(* (FIFO_SCAN_DEPTH) and selects blocks whose utilization is below         *)
(* BLK_UTIL until they hold a block's worth of invalid pages; at the end   *)
(* of that part it starts over with a higher BLK_UTIL.                     *)
(*                                                                         *)
(* normalBlocks and coldBlocks, which this variant appends to and never    *)
(* reads, are left out.  curColdBlkPtr starts as end(), is set to the      *)
(* element inserted there and advanced back to end(), so a cold block is   *)
(* always inserted at the tail.                                            *)
(***************************************************************************)
EXTENDS TwoR

CONSTANT
  RoundedDown      (* lengths of the list whose product with 0.7, a double,*)
                   (* is a little below the integer it stands for: 90 is   *)
                   (* the first of them                                    *)

ASSUME ScanAssumption ==
  RoundedDown \subseteq Nat \ {0} /\ \A n \in RoundedDown : n % 10 = 0

VARIABLES
  fifoList,        (* full blocks, oldest first                            *)
  curScan,         (* the position of the scan, or End                     *)
  stepsSinceReset, (* blocks scanned since the scan last started over      *)
  util             (* BLK_UTIL: in percent, and whether the double is a    *)
                   (* little above that                                    *)

fifoVars == <<fifoList, curScan, stepsSinceReset, util>>
vars == <<ssdVars, twoRVars, fifoVars>>

(* fifoList.end(): stays the end when the list grows.                      *)
End == 0

(* Bound: above 100 every block is eligible, so larger values of BLK_UTIL  *)
(* are not told apart.                                                     *)
UtilCap == 100

Utilization == [percent : 50 .. UtilCap, above : BOOLEAN]

(* BLK_UTIL += 0.05: added up from 0.5 the double is above 0.6 there, and  *)
(* from 0.7 it is above 0.85 there; what is above once remains so.         *)
Raised(u) ==
  LET percent == IF u.percent + 5 > UtilCap THEN UtilCap ELSE u.percent + 5
  IN  [percent |-> percent, above |-> u.above \/ percent \in {60, 85}]

Init ==
  /\ TwoRInit
  /\ fifoList = <<>>
  /\ curScan = End
  /\ stepsSinceReset = 0
  /\ util = [percent |-> 50, above |-> FALSE]

-----------------------------------------------------------------------------
(* A full current block joins the list in the writePage call that replaces *)
(* it, before performGC runs.                                              *)
HostWrite(x) ==
  \/ WriteCurrent(x) /\ UNCHANGED fifoVars
  \/ /\ WriteNext(x) \/ StartGC(x)
     /\ fifoList' = Append(fifoList, currentBlock)
     /\ UNCHANGED <<curScan, stepsSinceReset, util>>

(* A scan that reached the end starts at the front.                        *)
StartScan ==
  /\ phase = "gc"
  /\ phase' = "select"
  /\ IF curScan = End THEN curScan' = 1 /\ stepsSinceReset' = 0
                      ELSE UNCHANGED <<curScan, stepsSinceReset>>
  /\ UNCHANGED <<ssdVars, freeBlocks, currentBlock, victimIds, cascade,
                 request, fifoList, util>>

Threshold ==
  LET exact == (7 * Len(fifoList)) \div 10
  IN  IF Len(fifoList) \in RoundedDown THEN exact - 1 ELSE exact

(* Past 1.0 blocks without an invalid page become eligible too.            *)
Eligible(b) ==
  LET used == 100 * validCnt[b]
      most == util.percent * PagesPerBlock
  IN  used < most \/ (util.above /\ used = most)

(* Faulty: the scan stops at its first victim.                             *)
ScanDoneEarly == victimIds # <<>> \/ curScan = End

ScanDone == TotalInvalid(victimIds) >= PagesPerBlock \/ curScan = End

NextPosition(i) == IF i = Len(fifoList) THEN End ELSE i + 1

(* Faulty: a block is selected again when the scan comes back to it.       *)
WithVictimAgain(b) == IF Eligible(b) THEN Append(victimIds, b) ELSE victimIds

WithVictim(b) == IF b \notin Range(victimIds) /\ Eligible(b)
                 THEN Append(victimIds, b) ELSE victimIds

(* One block of the scan; the second chance policy starts over with a      *)
(* higher threshold after FIFO_SCAN_DEPTH of the list.                     *)
ScanBlock ==
  /\ phase = "select"
  /\ ~ScanDone
  /\ victimIds' = WithVictim(fifoList[curScan])
  /\ IF stepsSinceReset + 1 >= Threshold
     THEN /\ curScan' = 1
          /\ stepsSinceReset' = 0
          /\ util' = Raised(util)
     ELSE /\ curScan' = NextPosition(curScan)
          /\ stepsSinceReset' = stepsSinceReset + 1
          /\ UNCHANGED util
  /\ UNCHANGED <<ssdVars, freeBlocks, currentBlock, cascade, phase, request,
                 fifoList>>

ScanEnds ==
  /\ phase = "select"
  /\ ScanDone
  /\ util' = [percent |-> 70, above |-> FALSE]
  /\ StartCascade
  /\ UNCHANGED <<ssdVars, freeBlocks, currentBlock, victimIds, request,
                 fifoList, curScan, stepsSinceReset>>

-----------------------------------------------------------------------------
(* A victim that was refilled is appended at the tail first, then the      *)
(* first entry with the victim's id is erased.                             *)
Refilled(v) == IF canWrite(v) THEN fifoList ELSE Append(fifoList, v)

FirstEntry(list, v) ==
  CHOOSE i \in DOMAIN list : list[i] = v /\ \A j \in 1 .. i - 1 : list[j] # v

(* Faulty: the old entry of a refilled victim stays in the list.           *)
KeepsRefilled(v) == IF canWrite(v) THEN RemoveAt(fifoList, FirstEntry(fifoList, v))
                    ELSE Append(fifoList, v)

Erased(v) == RemoveAt(Refilled(v), FirstEntry(Refilled(v), v))

(* Faulty: the scan is left on the position it had before the removal.     *)
ScanStays(v) == curScan

(* The scan stays on its block or moves to the one behind the victim.      *)
ScanAfterErase(v) ==
  LET i == FirstEntry(Refilled(v), v)
  IN  CASE curScan = i /\ i = Len(Refilled(v)) -> End
        [] curScan > i                         -> curScan - 1
        [] OTHER                               -> curScan

DistributeToList ==
  /\ DistributeVictim
  /\ fifoList' = Erased(Head(victimIds))
  /\ curScan' = ScanAfterErase(Head(victimIds))
  /\ UNCHANGED <<stepsSinceReset, util>>

Step ==
  \/ StartScan \/ ScanBlock \/ ScanEnds
  \/ (Cascade \/ Collected \/ ResumeWrite) /\ UNCHANGED fifoVars
  \/ DistributeToList

Next == (\E x \in Page : HostWrite(x)) \/ Step

Spec == Init /\ [][Next]_vars

(* The simulator is one thread that is never suspended inside a call.      *)
FairSpec == Spec /\ WF_vars(Step)

-----------------------------------------------------------------------------
TypeOK ==
  /\ TwoRTypeOK
  /\ fifoList \in Seq(Block)
  /\ curScan \in 0 .. BlockCount
  /\ stepsSinceReset \in 0 .. BlockCount
  /\ util \in Utilization

(* Every block is in the list, free or being filled, and in only one place:*)
(* the removal of a refilled victim takes its old entry, not the new one.  *)
Listed == freeBlocks \o fifoList

ListsPartitionBlocks ==
  /\ TypeOK
  /\ \A i, j \in DOMAIN Listed : Listed[i] = Listed[j] => i = j
  /\ Range(Listed) \cup {currentBlock} = Block
  /\ phase = "idle" => currentBlock \notin Range(Listed)

(* Only full blocks are scanned; the scan's position is one of the list's, *)
(* and a victim is collected once.                                         *)
ScanIsSound ==
  /\ curScan \in 0 .. Len(fifoList)
  /\ \A b \in Range(fifoList) \ Range(victimIds) : fullyWritten(b)
  /\ \A i, j \in DOMAIN victimIds : victimIds[i] = victimIds[j] => i = j

(* The iterator survives the removal of list entries: the next scan goes   *)
(* on at the first block it has not passed yet that is not a victim.       *)
NotPassed == {i \in curScan .. Len(fifoList) : fifoList[i] \notin Range(victimIds)}

ScanKeepsItsPlace ==
  [][phase = "distribute" /\ curScan # End /\ NotPassed # {} =>
       /\ curScan' # End /\ NotPassed' # {}
       /\ fifoList'[Min(NotPassed')] = fifoList[Min(NotPassed)]]_vars

(* The victims found are enough: neither the empty list error of           *)
(* compactUntilFreeBlock nor the message for too few victims is reached.   *)
EnoughVictims ==
  /\ phase # "failed"
  /\ phase \in {"compact", "erase"} /\ cascade = Len(victimIds) =>
       TotalInvalid(victimIds) >= PagesPerBlock
=============================================================================
