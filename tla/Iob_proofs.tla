------------------------------ MODULE Iob_proofs ------------------------------
(***************************************************************************)
(* The benchmark program for every job, every number of threads and every  *)
(* size of the statistics: initialization, the generators and the monitor; *)
(* and for every setup of the shared pattern, every device and every depth *)
(* of the queues: what is drawn, discarded and replayed.                   *)
(***************************************************************************)
EXTENDS IobMain, Workload, FiniteSetTheorems, Lemmas

-----------------------------------------------------------------------------
(* Sizes.                                                                  *)

LEMMA JobFacts ==
  ASSUME job \in Jobs
  PROVE  /\ InitBufSize \in Nat \ {0}
         /\ job.bs \in Nat \ {0} /\ job.bs <= InitBufSize
         /\ job.iodepth \in Nat \ {0}
         /\ job.total \in Nat /\ job.filled \in Nat /\ job.of \in Nat \ {0}
BY InitAssumption

LEMMA SizeFacts ==
  ASSUME job \in Jobs
  PROVE  /\ filesize \in Nat
         /\ \E m \in Nat : filesize = m * InitBufSize
         /\ maxPage + 1 \in Nat
         /\ (maxPage + 1) * job.bs <= filesize
         /\ filesize < (maxPage + 1 + 1) * job.bs
<1> DEFINE product == job.total * job.filled
           m == Used \div InitBufSize
           pages == filesize \div job.bs
<1>1. Used \in Nat
  <2>1. product \in Nat
    BY JobFacts
  <2> HIDE DEF product
  <2>2. product \div job.of \in Nat
    BY <2>1, JobFacts, QuotientBounds
  <2> QED
    BY <2>2 DEF Used, product
<1>2. m \in Nat /\ filesize = m * InitBufSize
  <2> DEFINE rest == Used % InitBufSize
  <2>1. m \in Nat /\ rest \in 0 .. InitBufSize - 1 /\ Used = m * InitBufSize + rest
    BY <1>1, JobFacts, Decomposition
  <2>3. filesize = Used - rest
    BY DEF filesize
  <2> HIDE DEF m, rest
  <2>2. m * InitBufSize \in Nat
    BY <2>1, JobFacts
  <2> QED
    BY <2>1, <2>2, <2>3, JobFacts
<1>3. filesize \in Nat
  <2> HIDE DEF m
  <2> QED
    BY <1>2, JobFacts
<1>4. /\ pages \in Nat /\ pages * job.bs <= filesize
      /\ filesize < (pages + 1) * job.bs
  BY <1>3, JobFacts, QuotientBounds
<1>5. maxPage = pages - 1
  BY DEF maxPage
<1> HIDE DEF pages, m
<1>6. maxPage + 1 = pages
  BY <1>4, <1>5
<1> QED
  BY <1>2, <1>3, <1>4, <1>6

(* Where the last page begins the last block has not ended.                *)
LEMMA BlockFacts ==
  ASSUME job \in Jobs, maxPage >= 0
  PROVE  /\ maxPage \in Nat /\ iniOps \in Nat \ {0} /\ iniOps - 1 \in Nat
         /\ (iniOps - 1) * InitBufSize <= maxPage * job.bs
         /\ maxPage * job.bs < iniOps * InitBufSize
<1> DEFINE first == maxPage * job.bs
           b == first \div InitBufSize
<1>1. maxPage \in Nat
  <2>1. maxPage + 1 \in Nat
    BY SizeFacts
  <2>2. maxPage = (filesize \div job.bs) - 1 /\ filesize \div job.bs \in Nat
    BY SizeFacts, JobFacts, QuotientBounds DEF maxPage
  <2> QED
    BY <2>1, <2>2
<1>2. first \in Nat
  BY <1>1, JobFacts
<1>3. b \in Nat /\ b * InitBufSize <= first /\ first < (b + 1) * InitBufSize
  <2> HIDE DEF first
  <2> QED
    BY <1>2, JobFacts, QuotientBounds
<1>4. iniOps = b + 1
  BY DEF iniOps
<1> HIDE DEF b
<1>5. iniOps - 1 = b /\ iniOps \in Nat \ {0}
  BY <1>3, <1>4
<1> QED
  BY <1>1, <1>3, <1>4, <1>5 DEF first

(* If a page is at most half an init request the blocks cover the file.    *)
LEMMA BlocksCoverFile ==
  ASSUME job \in Jobs, maxPage >= 0, 2 * job.bs <= InitBufSize
  PROVE  (maxPage + 1) * job.bs <= iniOps * InitBufSize
<1>1. PICK m \in Nat : filesize = m * InitBufSize
  BY SizeFacts
<1>2. /\ maxPage \in Nat /\ iniOps \in Nat \ {0} /\ job.bs \in Nat \ {0}
      /\ InitBufSize \in Nat \ {0} /\ filesize \in Nat
  BY BlockFacts, JobFacts, SizeFacts
<1>3. /\ (maxPage + 1) * job.bs <= filesize /\ filesize < (maxPage + 1 + 1) * job.bs
      /\ maxPage * job.bs < iniOps * InitBufSize
  BY SizeFacts, BlockFacts
<1>4. ~ (iniOps + 1 <= m)
  <2>1. SUFFICES ASSUME iniOps + 1 <= m PROVE FALSE
    OBVIOUS
  <2>2. (iniOps + 1) * InitBufSize <= m * InitBufSize
    BY <1>2, <2>1, ProductGrows
  <2>3. /\ (iniOps + 1) * InitBufSize = iniOps * InitBufSize + InitBufSize
        /\ (maxPage + 1 + 1) * job.bs = maxPage * job.bs + 2 * job.bs
        /\ iniOps * InitBufSize \in Nat /\ maxPage * job.bs \in Nat
    BY <1>2
  <2> QED
    BY <1>1, <1>2, <1>3, <2>2, <2>3
<1>5. m * InitBufSize <= iniOps * InitBufSize
  BY <1>2, <1>4, ProductGrows
<1>6. iniOps * InitBufSize \in Nat /\ (maxPage + 1) * job.bs \in Nat
  BY <1>2
<1> QED
  BY <1>1, <1>2, <1>3, <1>5, <1>6

-----------------------------------------------------------------------------
(* The invariant.                                                          *)

Begun == phase \notin {"load", "exit", "no pages"}
Ended == phase \in {"recheck", "start", "check failed"}
LastBlock  == iniOps - 1

InitTypes ==
  /\ job \in Jobs
  /\ issued \in Nat /\ completed \in Nat
  /\ flight \subseteq 0 .. issued - 1

FlightInv ==
  /\ Cardinality(flight) <= job.iodepth
  /\ completed + Cardinality(flight) = issued

(* What has been issued has landed or is in flight.                        *)
Landed == \A i \in 0 .. issued - 1 : i \in flight \/ Units(BlockOf(i)) \subseteq written

(* Once anything of the last block is there, a queue at most is missing.   *)
LastSeen == Units(LastBlock) \cap written # {} => Cardinality(Missing) <= job.iodepth

Stages ==
  /\ Begun => maxPage >= 0
  /\ phase \in {"load", "check"} => issued = 0
  /\ phase = "drain init" => completed >= iniOps
  /\ Ended /\ issued > 0 => Missing = {}
  /\ phase = "recheck" /\ issued = 0 => ChecksPass

InitInv ==
  /\ InitTypes /\ FlightInv /\ Landed
  /\ maxPage >= 0 => LastSeen
  /\ Stages /\ InitMissesAtMostWindow

-----------------------------------------------------------------------------
(* Sets of blocks and of requests.                                         *)

LEMMA FlightFinite ==
  ASSUME InitTypes
  PROVE  IsFiniteSet(flight) /\ Cardinality(flight) \in Nat
<1>1. IsFiniteSet(0 .. issued - 1)
  BY FS_Interval DEF InitTypes
<1>2. IsFiniteSet(flight)
  BY <1>1, FS_Subset DEF InitTypes
<1> QED
  BY <1>2, FS_CardinalityType

LEMMA MissingFinite ==
  ASSUME job \in Jobs, maxPage >= 0
  PROVE  IsFiniteSet(Missing) /\ Cardinality(Missing) \in Nat
<1>1. IsFiniteSet(Blocks)
  BY BlockFacts, FS_Interval DEF Blocks
<1>2. IsFiniteSet(Missing)
  BY <1>1, FS_Subset DEF Missing
<1> QED
  BY <1>2, FS_CardinalityType

(* The first pass over the file issues the blocks in order.                *)
LEMMA BlockNumbers ==
  ASSUME job \in Jobs, maxPage >= 0
  PROVE  /\ \A i \in Nat : BlockOf(i) \in Blocks
         /\ \A i \in Nat : i < iniOps => BlockOf(i) = i
<1>1. iniOps \in Nat \ {0}
  BY BlockFacts
<1>2. ASSUME NEW i \in Nat PROVE i % iniOps \in 0 .. iniOps - 1
  BY <1>1, Decomposition
<1>3. ASSUME NEW i \in Nat, i < iniOps PROVE i % iniOps = i
  <2>1. i \in 0 .. iniOps - 1 /\ 0 * iniOps + i = i
    BY <1>1, <1>3
  <2>2. (0 * iniOps + i) % iniOps = i
    BY <1>1, <2>1, Division
  <2> QED
    BY <2>1, <2>2
<1> QED
  BY <1>2, <1>3 DEF BlockOf, Blocks

(* When the last block is in flight, so is all that is missing.            *)
LEMMA MissingInFlight ==
  ASSUME InitTypes, Landed, maxPage >= 0, NEW i \in flight, BlockOf(i) = LastBlock
  PROVE  Missing \subseteq flight
<1>1. iniOps \in Nat \ {0} /\ i \in Nat /\ i < issued /\ issued \in Nat
  BY BlockFacts DEF InitTypes
<1>2. ~ (i < LastBlock)
  <2>1. SUFFICES ASSUME i < LastBlock PROVE FALSE
    OBVIOUS
  <2>2. LastBlock < iniOps /\ LastBlock \in Int
    BY <1>1 DEF LastBlock
  <2>3. BlockOf(i) = i
    BY <1>1, <2>1, <2>2, BlockNumbers DEF InitTypes
  <2> QED
    BY <1>1, <2>1, <2>3
<1>3. iniOps <= issued
  BY <1>1, <1>2 DEF LastBlock
<1>4. ASSUME NEW b \in Missing PROVE b \in flight
  <2>1. b \in Nat /\ b < iniOps /\ ~ (Units(b) \subseteq written)
    BY <1>1 DEF Missing, Blocks
  <2>2. BlockOf(b) = b
    BY <2>1, BlockNumbers DEF InitTypes
  <2>3. b \in 0 .. issued - 1
    BY <1>1, <1>3, <2>1
  <2> QED
    BY <2>1, <2>2, <2>3 DEF Landed
<1> QED
  BY <1>4

(* More that lands, whole blocks or parts, keeps what LastSeen says.       *)
LEMMA LandingKeepsLastSeen ==
  ASSUME InitTypes, FlightInv, Landed, maxPage >= 0, LastSeen, job' = job,
         written \subseteq written',
         written' \subseteq written \cup UNION {Units(BlockOf(i)) : i \in flight}
  PROVE  LastSeen'
<1>1. /\ maxPage' = maxPage /\ iniOps' = iniOps /\ LastBlock' = LastBlock
      /\ Units(LastBlock)' = Units(LastBlock) /\ job.iodepth' = job.iodepth
  BY DEF maxPage, iniOps, LastBlock, Units, filesize, Used
<1>2. Missing' \subseteq Missing
  BY <1>1 DEF Missing, Blocks, Units
<1>3. IsFiniteSet(Missing) /\ Cardinality(Missing) \in Nat
  BY MissingFinite DEF InitTypes
<1>4. Cardinality(Missing') <= Cardinality(Missing) /\ Cardinality(Missing') \in Nat
  BY <1>2, <1>3, FS_Subset, FS_CardinalityType
<1>5. job.iodepth \in Nat
  BY JobFacts DEF InitTypes
<1>6. SUFFICES ASSUME Units(LastBlock) \cap written' # {} PROVE Cardinality(Missing) <= job.iodepth
  BY <1>1, <1>3, <1>4, <1>5 DEF LastSeen
<1>7. CASE Units(LastBlock) \cap written # {}
  BY <1>7 DEF LastSeen
<1>8. CASE Units(LastBlock) \cap written = {}
  <2>1. PICK u \in Units(LastBlock), i \in flight : u \in Units(BlockOf(i))
    BY <1>6, <1>8
  <2>2. /\ LastBlock \in Nat /\ InitBufSize \in Nat \ {0}
        /\ i \in Nat
    BY BlockFacts, JobFacts DEF LastBlock, InitTypes
  <2>3. BlockOf(i) \in Nat
    <3>1. BlockOf(i) \in Blocks /\ iniOps \in Nat
      BY <2>2, BlockNumbers, BlockFacts DEF InitTypes
    <3> QED
      BY <3>1 DEF Blocks
  <2>4. BlockOf(i) = LastBlock
    <3>1. u \in LastBlock * InitBufSize .. (LastBlock + 1) * InitBufSize - 1
      BY <2>1 DEF Units
    <3>2. u \in BlockOf(i) * InitBufSize .. (BlockOf(i) + 1) * InitBufSize - 1
      BY <2>1 DEF Units
    <3>3. u \in Int
      BY <3>1
    <3> QED
      BY ONLY <2>2, <2>3, <3>1, <3>2, <3>3, IntervalsDisjoint
  <2>5. Missing \subseteq flight
    BY <2>4, MissingInFlight
  <2>6. Cardinality(Missing) <= Cardinality(flight)
    BY <2>5, FlightFinite, FS_Subset
  <2> QED
    BY <1>3, <1>5, <2>6, FlightFinite DEF FlightInv
<1> QED
  BY <1>7, <1>8

-----------------------------------------------------------------------------
(* The looks at the first and the last page.                               *)

LEMMA ChecksSeeLast ==
  ASSUME job \in Jobs, maxPage >= 0, ChecksPass
  PROVE  Units(LastBlock) \cap written # {}
<1> DEFINE u == maxPage * job.bs
<1>1. /\ maxPage \in Nat /\ iniOps \in Nat \ {0} /\ job.bs \in Nat \ {0}
      /\ InitBufSize \in Nat \ {0}
      /\ (iniOps - 1) * InitBufSize <= u /\ u < iniOps * InitBufSize
  BY BlockFacts, JobFacts
<1>2. u \in Int /\ (maxPage + 1) * job.bs = u + job.bs
  BY <1>1
<1>3. u \in u .. (u + job.bs) - 1
  <2> HIDE DEF u
  <2> QED
    BY <1>1, <1>2
<1>4. u \in written
  BY <1>2, <1>3 DEF ChecksPass, checkBuffer
<1>5. LastBlock + 1 = iniOps /\ LastBlock \in Nat
  BY <1>1 DEF LastBlock
<1>6. LastBlock * InitBufSize \in Int /\ iniOps * InitBufSize \in Int /\ LastBlock * InitBufSize <= u
  BY <1>1, <1>5 DEF LastBlock
<1>7. u \in LastBlock * InitBufSize .. iniOps * InitBufSize - 1
  <2> HIDE DEF u
  <2> QED
    BY <1>1, <1>2, <1>6
<1>8. u \in Units(LastBlock)
  BY <1>5, <1>7 DEF Units
<1> QED
  BY <1>4, <1>8

LEMMA CompleteChecksPass ==
  ASSUME job \in Jobs, maxPage >= 0, 2 * job.bs <= InitBufSize, Missing = {}
  PROVE  ChecksPass
<1>1. /\ maxPage \in Nat /\ iniOps \in Nat \ {0} /\ job.bs \in Nat \ {0}
      /\ InitBufSize \in Nat \ {0}
  BY BlockFacts, JobFacts
<1>2. (maxPage + 1) * job.bs <= iniOps * InitBufSize
  BY BlocksCoverFile
<1>3. ASSUME NEW u \in Nat, u < iniOps * InitBufSize PROVE u \in written
  <2> DEFINE b == u \div InitBufSize
  <2>1. b \in Nat /\ b * InitBufSize <= u /\ u < (b + 1) * InitBufSize
    BY <1>1, QuotientBounds
  <2> HIDE DEF b
  <2>2. b * InitBufSize \in Int /\ (b + 1) * InitBufSize \in Int
    BY <1>1, <2>1
  <2>3. u \in Units(b)
    BY <2>1, <2>2 DEF Units
  <2>4. ~ (iniOps <= b)
    <3>1. SUFFICES ASSUME iniOps <= b PROVE FALSE
      OBVIOUS
    <3>2. iniOps * InitBufSize <= b * InitBufSize
      BY <1>1, <2>1, <3>1, ProductGrows
    <3>3. iniOps * InitBufSize \in Int
      BY <1>1
    <3> QED
      BY <1>3, <2>1, <2>2, <3>2, <3>3
  <2>5. b \in Blocks
    BY <1>1, <2>1, <2>4 DEF Blocks
  <2>6. Units(b) \subseteq written
    BY <2>5 DEF Missing
  <2> QED
    BY <2>3, <2>6
<1>4. ASSUME NEW page \in 0 .. maxPage PROVE checkBuffer(page)
  <2>1. page \in Int /\ page + 1 <= maxPage + 1 /\ job.bs \in Nat
    BY <1>1
  <2>2. (page + 1) * job.bs <= (maxPage + 1) * job.bs
    BY <1>1, <2>1, ProductGrows
  <2>3. /\ page * job.bs \in Nat /\ (page + 1) * job.bs \in Nat
        /\ (maxPage + 1) * job.bs \in Nat /\ iniOps * InitBufSize \in Nat
    BY <1>1
  <2>4. ASSUME NEW u \in page * job.bs .. (page + 1) * job.bs - 1 PROVE u \in written
    <3>1. u \in Nat /\ u < iniOps * InitBufSize
      BY <1>2, <2>2, <2>3
    <3> QED
      BY <1>3, <3>1
  <2> QED
    BY <2>4 DEF checkBuffer
<1> QED
  BY <1>1, <1>4 DEF ChecksPass

-----------------------------------------------------------------------------
(* The steps.                                                              *)

LEMMA SameLayout ==
  ASSUME job' = job
  PROVE  /\ maxPage' = maxPage /\ iniOps' = iniOps /\ LastBlock' = LastBlock /\ Blocks' = Blocks
         /\ \A i : BlockOf(i)' = BlockOf(i)
         /\ \A b : Units(b)' = Units(b)
BY DEF maxPage, iniOps, LastBlock, Blocks, BlockOf, Units, filesize, Used

(* A request enters the window, one leaves it.                             *)
LEMMA WindowMoves ==
  ASSUME NEW c \in Int, NEW k \in Int, NEW n \in Int, NEW d \in Int, c + k = n, k <= d
  PROVE  /\ k < d => c + (k + 1) = n + 1 /\ k + 1 <= d
         /\ (c + 1) + (k - 1) = n /\ k - 1 <= d
OBVIOUS

LEMMA InitInitInv == InitInit => InitInv
<1> SUFFICES ASSUME InitInit PROVE InitInv
  OBVIOUS
<1>1. InitTypes
  BY DEF InitInit, InitTypes
<1>2. FlightInv
  <2>1. Cardinality(flight) = 0 /\ issued = 0 /\ completed = 0
    BY FS_EmptySet DEF InitInit
  <2> QED
    BY <1>1, <2>1, JobFacts DEF FlightInv, InitTypes
<1>3. Landed
  BY DEF InitInit, Landed
<1>4. LastSeen
  BY DEF InitInit, LastSeen
<1>5. Stages /\ InitMissesAtMostWindow
  BY DEF InitInit, Stages, InitMissesAtMostWindow, Begun, Ended
<1> QED
  BY <1>1, <1>2, <1>3, <1>4, <1>5 DEF InitInv

(* A step that changes nothing but the phase.                              *)
LEMMA GoesKeeps ==
  ASSUME InitInv, UNCHANGED <<job, init, written, issued, flight, completed>>
  PROVE  /\ InitTypes' /\ FlightInv' /\ Landed' /\ (maxPage >= 0 => LastSeen)'
         /\ Missing' = Missing /\ (ChecksPass' <=> ChecksPass)
<1>1. /\ maxPage' = maxPage /\ iniOps' = iniOps /\ LastBlock' = LastBlock /\ Blocks' = Blocks
      /\ \A i : BlockOf(i)' = BlockOf(i)
      /\ \A b : Units(b)' = Units(b)
  BY SameLayout
<1>2. InitTypes' /\ FlightInv'
  BY DEF InitInv, InitTypes, FlightInv
<1>3. Landed'
  BY <1>1 DEF InitInv, Landed
<1>4. Missing' = Missing
  BY <1>1 DEF Missing
<1>5. (maxPage >= 0 => LastSeen)'
  BY <1>1, <1>4 DEF InitInv, LastSeen
<1>6. (ChecksPass' <=> ChecksPass)
  BY <1>1 DEF ChecksPass, checkBuffer
<1> QED
  BY <1>2, <1>3, <1>4, <1>5, <1>6

LEMMA StepGoes ==
  ASSUME InitInv, loadOptions \/ CheckIfNecessary \/ EndInitLoop \/ Recheck
  PROVE  InitInv'
<1>1. UNCHANGED <<job, init, written, issued, flight, completed>>
  BY DEF loadOptions, CheckIfNecessary, EndInitLoop, Recheck, Goes
<1>2. /\ InitTypes' /\ FlightInv' /\ Landed' /\ (maxPage >= 0 => LastSeen)'
      /\ Missing' = Missing /\ (ChecksPass' <=> ChecksPass)
  BY <1>1, GoesKeeps
<1>3. maxPage' = maxPage /\ iniOps' = iniOps
  BY <1>1, SameLayout
<1>4. job \in Jobs
  BY DEF InitInv, InitTypes
<1>5. issued \in Nat /\ completed \in Nat /\ Stages
  BY DEF InitInv, InitTypes
<1> SUFFICES Stages' /\ InitMissesAtMostWindow'
  BY <1>2 DEF InitInv
<1>6. CASE loadOptions
  <2>2. phase = "load" /\ phase' \in {"exit", "no pages", "check"}
    BY <1>6 DEF loadOptions, Goes
  <2>3. phase' = "check" => maxPage >= 0
    BY <1>6 DEF loadOptions, Goes
  <2> QED
    BY <1>1, <1>2, <1>3, <1>5, <2>2, <2>3 DEF Stages, InitMissesAtMostWindow, Begun, Ended
<1>7. CASE CheckIfNecessary
  <2>1. phase = "check" /\ maxPage >= 0 /\ issued = 0
    BY <1>5, <1>7 DEF CheckIfNecessary, Stages, Begun
  <2>2. CASE init \in {"disable", "no"}
    <3>1. phase' = "start"
      BY <1>7, <2>2 DEF CheckIfNecessary, Goes
    <3> QED
      BY <1>1, <1>3, <2>1, <2>2, <3>1 DEF Stages, InitMissesAtMostWindow, Begun, Ended
  <2>3. CASE init \notin {"disable", "no"}
    <3>1. phase' \in {"init", "recheck", "init missing"} /\ (phase' = "recheck" => ChecksPass)
      BY <1>7, <2>3 DEF CheckIfNecessary, Goes
    <3>2. maxPage' >= 0 /\ issued' = 0
      BY <1>1, <1>3, <2>1
    <3>3. phase' = "recheck" => ChecksPass'
      BY <1>2, <3>1
    <3>4. ~ (issued' > 0)
      BY ONLY <3>2
    <3>5. Stages'
      BY ONLY <3>1, <3>2, <3>3, <3>4 DEF Stages, Begun, Ended
    <3>6. InitMissesAtMostWindow'
      BY ONLY <3>1 DEF InitMissesAtMostWindow
    <3> QED
      BY <3>5, <3>6
  <2> QED
    BY <2>2, <2>3
<1>8. CASE EndInitLoop
  <2>1. phase = "init" /\ phase' = "drain init" /\ completed >= iniOps
    BY <1>8 DEF EndInitLoop, Goes
  <2> QED
    BY <1>1, <1>3, <1>5, <2>1 DEF Stages, InitMissesAtMostWindow, Begun, Ended
<1>9. CASE Recheck
  <2>1. /\ phase = "recheck" /\ maxPage >= 0
        /\ issued > 0 => Missing = {}
        /\ issued = 0 => ChecksPass
    BY <1>5, <1>9 DEF Recheck, Stages, Begun, Ended
  <2>2. CASE ChecksPass
    <3>1. phase' = "start"
      BY <1>9, <2>2 DEF Recheck, Goes
    <3>2. LastSeen
      BY <2>1 DEF InitInv
    <3>3. Cardinality(Missing) <= job.iodepth
      BY <1>4, <2>1, <2>2, <3>2, ChecksSeeLast DEF LastSeen
    <3> QED
      BY <1>1, <1>2, <1>3, <2>1, <3>1, <3>3 DEF Stages, InitMissesAtMostWindow, Begun, Ended
  <2>3. CASE ~ ChecksPass
    <3>1. phase' = "check failed"
      BY <1>9, <2>3 DEF Recheck, Goes
    <3>2. issued > 0 /\ Missing = {}
      BY <1>5, <2>1, <2>3
    <3>3. ~ (2 * job.bs <= InitBufSize)
      BY <1>4, <2>1, <2>3, <3>2, CompleteChecksPass
    <3>4. 2 * job.bs > InitBufSize
      BY <1>4, <3>3, JobFacts
    <3> QED
      BY <1>1, <1>2, <1>3, <2>1, <3>1, <3>2, <3>4 DEF Stages, InitMissesAtMostWindow, Begun, Ended
  <2> QED
    BY <2>2, <2>3
<1> QED
  BY <1>6, <1>7, <1>8, <1>9

LEMMA StepInitReturns == ASSUME InitInv, InitReturns PROVE InitInv'
<1>1. UNCHANGED <<job, init, written, issued, flight, completed>>
  BY DEF InitReturns, Goes
<1>2. /\ InitTypes' /\ FlightInv' /\ Landed' /\ (maxPage >= 0 => LastSeen)'
      /\ Missing' = Missing
  BY <1>1, GoesKeeps
<1>3. /\ job \in Jobs /\ maxPage >= 0 /\ maxPage' = maxPage /\ flight = {}
      /\ phase = "drain init" /\ phase' = "recheck" /\ completed >= iniOps
  BY <1>1, SameLayout DEF InitReturns, Goes, InitInv, InitTypes, Stages, Begun
<1>4. iniOps \in Nat \ {0} /\ issued >= iniOps /\ issued \in Nat
  <2>1. Cardinality(flight) = 0
    BY <1>3, FS_EmptySet
  <2>2. /\ completed + Cardinality(flight) = issued
        /\ issued \in Nat /\ completed \in Nat /\ iniOps \in Nat \ {0}
    BY <1>3, BlockFacts DEF InitInv, FlightInv, InitTypes
  <2>3. completed = issued
    BY ONLY <2>1, <2>2
  <2> QED
    BY <1>3, <2>2, <2>3
<1>5. Missing = {}
  <2>1. SUFFICES ASSUME NEW b \in Missing PROVE FALSE
    OBVIOUS
  <2>2. b \in Nat /\ b < iniOps /\ ~ (Units(b) \subseteq written)
    BY <1>4 DEF Missing, Blocks
  <2>3. BlockOf(b) = b
    BY <1>3, <2>2, BlockNumbers
  <2>4. b \in 0 .. issued - 1
    BY ONLY <1>4, <2>2
  <2> QED
    BY <1>3, <2>2, <2>3, <2>4 DEF InitInv, Landed
<1>6. Missing' = {} /\ issued' \in Nat /\ ~ (issued' = 0) /\ maxPage' >= 0
  <2>1. issued' = issued /\ Missing' = {} /\ maxPage' = maxPage /\ maxPage >= 0
    BY <1>1, <1>2, <1>3, <1>5
  <2>2. issued \in Nat /\ ~ (issued = 0)
    BY ONLY <1>4
  <2> QED
    BY ONLY <2>1, <2>2
<1>7. Stages'
  BY ONLY <1>3, <1>6 DEF Stages, Begun, Ended
<1>8. InitMissesAtMostWindow'
  BY ONLY <1>3 DEF InitMissesAtMostWindow
<1> QED
  BY <1>2, <1>7, <1>8 DEF InitInv

LEMMA StepIssue == ASSUME InitInv, IssueBlock PROVE InitInv'
<1>1. /\ phase = "init" /\ phase' = "init"
      /\ issued' = issued + 1 /\ flight' = flight \cup {issued}
      /\ UNCHANGED <<job, init, phase, written, completed>>
      /\ Cardinality(flight) < job.iodepth
  BY DEF IssueBlock
<1>2. /\ job \in Jobs /\ issued \in Nat /\ completed \in Nat /\ flight \subseteq 0 .. issued - 1
      /\ completed + Cardinality(flight) = issued /\ Cardinality(flight) <= job.iodepth
  BY DEF InitInv, InitTypes, FlightInv
<1>3. InitTypes'
  BY <1>1, <1>2 DEF InitTypes
<1>4. FlightInv'
  <2>1. IsFiniteSet(flight) /\ Cardinality(flight) \in Nat /\ issued \notin flight
    BY <1>2, FlightFinite DEF InitInv
  <2>2. Cardinality(flight') = Cardinality(flight) + 1
    BY <1>1, <2>1, FS_AddElement
  <2>3. job.iodepth \in Nat /\ Cardinality(flight) <= job.iodepth
    BY <1>2, JobFacts
  <2> DEFINE k == Cardinality(flight)
             d == job.iodepth
  <2>8. k \in Int /\ d \in Int /\ k <= d /\ k < d /\ completed + k = issued
    BY <1>1, <1>2, <2>1, <2>3
  <2> HIDE DEF k, d
  <2>9. completed \in Int /\ issued \in Int
    BY <1>2
  <2>10. completed + (k + 1) = issued + 1 /\ k + 1 <= d
    BY ONLY <2>8, <2>9, WindowMoves
  <2>4. /\ completed + (Cardinality(flight) + 1) = issued + 1
        /\ Cardinality(flight) + 1 <= job.iodepth
    BY <2>10 DEF k, d
  <2>5. job' = job /\ completed' = completed /\ issued' = issued + 1
    BY <1>1
  <2>6. completed' + Cardinality(flight') = issued'
    BY ONLY <2>2, <2>4, <2>5
  <2>7. Cardinality(flight') <= job'.iodepth
    BY ONLY <2>2, <2>4, <2>5
  <2> QED
    BY <2>6, <2>7 DEF FlightInv
<1>5. /\ maxPage' = maxPage /\ iniOps' = iniOps /\ LastBlock' = LastBlock /\ Blocks' = Blocks
      /\ \A i : BlockOf(i)' = BlockOf(i)
      /\ \A b : Units(b)' = Units(b)
  BY <1>1, SameLayout
<1>6. Landed'
  <2>1. ASSUME NEW i \in 0 .. issued, i \notin flight' PROVE Units(BlockOf(i)) \subseteq written
    BY <1>1, <1>2, <2>1 DEF InitInv, Landed
  <2>2. (issued + 1) - 1 = issued
    BY <1>2
  <2>3. \A i \in 0 .. issued' - 1 : i \in flight' \/ Units(BlockOf(i)) \subseteq written'
    BY <1>1, <2>1, <2>2
  <2> QED
    BY <1>5, <2>3 DEF Landed
<1>7. Missing' = Missing
  BY <1>1, <1>5 DEF Missing
<1>8. (maxPage >= 0 => LastSeen)'
  BY <1>1, <1>5, <1>7 DEF InitInv, LastSeen
<1>9. Stages' /\ InitMissesAtMostWindow'
  BY <1>1, <1>5 DEF InitInv, Stages, InitMissesAtMostWindow, Begun, Ended
<1> QED
  BY <1>3, <1>4, <1>6, <1>8, <1>9 DEF InitInv

LEMMA StepCompletes == ASSUME InitInv, NEW i \in flight, BlockCompletes(i) PROVE InitInv'
<1>1. /\ phase \in {"init", "drain init"}
      /\ written' = written \cup Units(BlockOf(i))
      /\ flight' = flight \ {i} /\ completed' = completed + 1
      /\ UNCHANGED <<job, init, phase, issued>>
  BY DEF BlockCompletes
<1>2. /\ job \in Jobs /\ issued \in Nat /\ completed \in Nat /\ flight \subseteq 0 .. issued - 1
      /\ completed + Cardinality(flight) = issued /\ Cardinality(flight) <= job.iodepth
  BY DEF InitInv, InitTypes, FlightInv
<1>3. InitTypes'
  <2>1. completed' \in Nat
    <3>1. completed' = completed + 1
      BY <1>1
    <3>2. completed \in Nat
      BY <1>2
    <3> QED
      BY ONLY <3>1, <3>2
  <2>2. flight' \subseteq flight /\ issued' = issued /\ job' = job
    BY <1>1
  <2> QED
    BY ONLY <1>2, <2>1, <2>2 DEF InitTypes
<1>4. FlightInv'
  <2>1. IsFiniteSet(flight) /\ Cardinality(flight) \in Nat
    BY FlightFinite DEF InitInv
  <2>2. Cardinality(flight') = Cardinality(flight) - 1
    BY <1>1, <2>1, FS_RemoveElement
  <2>3. job.iodepth \in Nat
    BY <1>2, JobFacts
  <2>4. /\ (completed + 1) + (Cardinality(flight) - 1) = issued
        /\ Cardinality(flight) - 1 <= job.iodepth
    BY <1>2, <2>1, <2>3, WindowMoves
  <2>5. job' = job /\ completed' = completed + 1 /\ issued' = issued
    BY <1>1
  <2>6. completed' + Cardinality(flight') = issued'
    BY ONLY <2>2, <2>4, <2>5
  <2>7. Cardinality(flight') <= job'.iodepth
    BY ONLY <2>2, <2>4, <2>5
  <2> QED
    BY <2>6, <2>7 DEF FlightInv
<1>5. /\ maxPage' = maxPage /\ iniOps' = iniOps /\ LastBlock' = LastBlock /\ Blocks' = Blocks
      /\ \A n : BlockOf(n)' = BlockOf(n)
      /\ \A b : Units(b)' = Units(b)
  BY <1>1, SameLayout
<1>6. Landed'
  BY <1>1, <1>5 DEF InitInv, Landed
<1>7. (maxPage >= 0 => LastSeen)'
  <2>1. SUFFICES ASSUME maxPage >= 0 PROVE LastSeen'
    BY <1>5
  <2> QED
    BY <1>1, <2>1, LandingKeepsLastSeen DEF InitInv
<1>8. Stages' /\ InitMissesAtMostWindow'
  <2>1. phase = "drain init" => completed' >= iniOps
    <3>1. maxPage >= 0
      BY <1>1 DEF InitInv, Stages, Begun
    <3>2. iniOps \in Int
      BY <1>2, <3>1, BlockFacts
    <3>3. phase = "drain init" => completed >= iniOps
      BY DEF InitInv, Stages
    <3>4. completed >= iniOps => completed + 1 >= iniOps
      BY <1>2, <3>2
    <3>5. completed' = completed + 1
      BY <1>1
    <3> QED
      BY ONLY <3>3, <3>4, <3>5
  <2> QED
    BY <1>1, <1>5, <2>1 DEF InitInv, Stages, InitMissesAtMostWindow, Begun, Ended
<1> QED
  BY <1>3, <1>4, <1>6, <1>7, <1>8 DEF InitInv

LEMMA StepRestart == ASSUME InitInv, Restart PROVE InitInv'
<1>1. PICK landed \in SUBSET UNION {Units(BlockOf(i)) : i \in flight} :
        written' = written \cup landed
  BY DEF Restart
<1>2. /\ phase \in {"check", "init", "drain init", "recheck"} /\ phase' = "load"
      /\ issued' = 0 /\ flight' = {} /\ completed' = 0 /\ job' = job
  BY DEF Restart
<1>3. job \in Jobs /\ maxPage >= 0
  BY <1>2 DEF InitInv, InitTypes, Stages, Begun
<1>4. InitTypes'
  BY <1>2, <1>3 DEF InitTypes
<1>5. FlightInv'
  <2>1. Cardinality(flight') = 0
    BY <1>2, FS_EmptySet
  <2>2. job.iodepth \in Nat /\ job'.iodepth = job.iodepth
    BY <1>2, <1>3, JobFacts
  <2>3. 0 + 0 = 0
    OBVIOUS
  <2>4. Cardinality(flight') <= job'.iodepth
    BY <2>1, <2>2
  <2>5. completed' + Cardinality(flight') = issued'
    BY <1>2, <2>1, <2>3
  <2> QED
    BY <2>4, <2>5 DEF FlightInv
<1>6. Landed'
  <2>1. issued' = 0
    BY <1>2
  <2>2. 0 .. issued' - 1 = {}
    BY ONLY <2>1
  <2> QED
    BY ONLY <2>2 DEF Landed
<1>7. LastSeen'
  <2>1. /\ written \subseteq written'
        /\ written' \subseteq written \cup UNION {Units(BlockOf(i)) : i \in flight}
    BY <1>1
  <2> QED
    BY <1>2, <1>3, <2>1, LandingKeepsLastSeen DEF InitInv
<1>8. Stages' /\ InitMissesAtMostWindow'
  BY <1>2 DEF Stages, InitMissesAtMostWindow, Begun, Ended
<1> QED
  BY <1>4, <1>5, <1>6, <1>7, <1>8 DEF InitInv

LEMMA InitStutters == ASSUME InitInv, UNCHANGED initVars PROVE InitInv'
<1>1. UNCHANGED <<job, init, written, issued, flight, completed>> /\ phase' = phase
  BY DEF initVars
<1>2. /\ InitTypes' /\ FlightInv' /\ Landed' /\ (maxPage >= 0 => LastSeen)'
      /\ Missing' = Missing /\ (ChecksPass' <=> ChecksPass)
  BY <1>1, GoesKeeps
<1>3. maxPage' = maxPage /\ iniOps' = iniOps
  BY <1>1, SameLayout
<1> QED
  BY <1>1, <1>2, <1>3 DEF InitInv, Stages, InitMissesAtMostWindow, Begun, Ended

LEMMA InitStep == InitInv /\ [InitNext]_initVars => InitInv'
BY StepGoes, StepInitReturns, StepIssue, StepCompletes, StepRestart, InitStutters DEF InitNext

(* However often initialization was killed and started again: the look at  *)
(* two pages overlooks no more than a queue of blocks, an init that ran to *)
(* its end none, and it is not found to have failed unless requests are    *)
(* larger than half of an init request.                                    *)
THEOREM InitMisses == InitSpec => []InitMissesAtMostWindow
<1>1. InitInv => InitMissesAtMostWindow
  BY DEF InitInv
<1> QED
  BY <1>1, InitInitInv, InitStep, PTL DEF InitSpec

-----------------------------------------------------------------------------
(* Initialization is not disturbed by the rest of the program.             *)

LEMMA ThreadLeavesInit ==
  ASSUME NEW t \in Threads, Thread(t)
  PROVE  UNCHANGED initVars
BY DEF Thread, _process, LoopHead, Issue, Polls, Poll, DrainPoll, DataCheckFails,
       SameSecond, StoreSecond, PublishSecond, Return, SetDone

LEMMA MainLeavesInit ==
  ASSUME Main
  PROVE  UNCHANGED initVars
BY DEF Main, StartThread, PassThread, ReadSeconds, ReadTotal, ReadEntry, NextThread,
       Break, Sleep, stopIo, Join, Report

LEMMA StepsOfInit == [Next]_vars => [InitNext]_initVars
<1>1. CASE Initialize
  BY <1>1 DEF Initialize
<1>2. CASE \E t \in Threads : Thread(t)
  BY <1>2, ThreadLeavesInit
<1>3. CASE Main
  BY <1>3, MainLeavesInit
<1>4. CASE UNCHANGED vars
  BY <1>4 DEF vars
<1> QED
  BY <1>1, <1>2, <1>3, <1>4 DEF Next

(* The program that runs a benchmark has an initialization as specified,   *)
(* so no more than a queue of blocks is missing when the threads start.    *)
THEOREM StartMisses == Spec => []InitMissesAtMostWindow
<1>1. Init => InitInit
  BY DEF Init
<1>2. Spec => InitSpec
  BY <1>1, StepsOfInit, PTL DEF Spec, InitSpec
<1> QED
  BY <1>2, InitMisses, PTL

-----------------------------------------------------------------------------
(* The monitor.                                                            *)

Places == {"wait", "started", "head", "fill", "tick", "publish", "drain", "returned", "done"}

StatTypes ==
  /\ submitted \in [Threads -> Nat] /\ counted \in [Threads -> Nat]
  /\ seconds \in [Threads -> Nat] /\ lastCounted \in [Threads -> Nat]
  /\ perSecond \in [Threads -> [1 .. MaxSeconds -> Int]]
  /\ pc \in [Threads -> Places]

(* The seconds a thread has finished with are not changed again, and the   *)
(* one it is about to publish is stored.                                   *)
PublishedInv ==
  \A t \in Threads :
    /\ seconds[t] <= MaxSeconds
    /\ crashed \/ seconds[t] < MaxSeconds
    /\ \A s \in 1 .. seconds[t] : perSecond[t][s] <= counted[t]
    /\ pc[t] = "publish" /\ ~ crashed => perSecond[t][seconds[t] + 1] <= counted[t]

ViewTypes ==
  /\ job \in Jobs
  /\ at \in Nat /\ at < job.threads
  /\ view \in [s : Nat, total : Nat, second : Int]

ViewInv ==
  /\ mainPc \in {"total", "entry", "next"} => view.s \in 1 .. seconds[at]
  /\ mainPc = "entry" => perSecond[at][view.s] <= view.total
  /\ MonitorReadsPublished

MonitorInv == StatTypes /\ PublishedInv /\ ViewTypes /\ ViewInv

LEMMA ThreadsOfJob ==
  ASSUME ViewTypes
  PROVE  at \in Threads /\ job.threads \in Nat \ {0}
<1>1. /\ MaxThreads \in Nat /\ job.threads <= MaxThreads
      /\ job.threads \in Nat \ {0}
  BY MainAssumption, InitAssumption DEF ViewTypes
<1> QED
  BY <1>1 DEF ViewTypes, Threads

LEMMA LessStays ==
  ASSUME NEW x \in Int, NEW m \in Int, NEW n \in Int, x <= m, m <= n
  PROVE  x <= n
OBVIOUS

(* Requests of a thread finish, or nothing happens that the monitor reads. *)
LEMMA CountsGrow ==
  ASSUME MonitorInv,
         counted' \in [Threads -> Nat], submitted' \in [Threads -> Nat],
         \A u \in Threads : counted[u] <= counted'[u],
         pc' \in [Threads -> Places],
         \A u \in Threads : pc'[u] = "publish" => pc[u] = "publish",
         crashed => crashed',
         UNCHANGED <<initVars, statsVars, mainVars>>
  PROVE  MonitorInv'
<1>1. UNCHANGED <<seconds, perSecond, lastCounted, localTime>>
  BY DEF statsVars
<1>2. UNCHANGED <<mainPc, at, time, view, report>> /\ UNCHANGED job
  BY DEF mainVars, initVars
<1>3. StatTypes'
  BY <1>1 DEF MonitorInv, StatTypes
<1>4. ViewTypes' /\ ViewInv'
  BY <1>1, <1>2 DEF MonitorInv, ViewTypes, ViewInv, MonitorReadsPublished
<1>5. PublishedInv'
  <2>1. SUFFICES ASSUME NEW u \in Threads
                 PROVE  /\ seconds[u] <= MaxSeconds
                        /\ crashed' \/ seconds[u] < MaxSeconds
                        /\ \A s \in 1 .. seconds[u] : perSecond[u][s] <= counted'[u]
                        /\ pc'[u] = "publish" /\ ~ crashed' => perSecond[u][seconds[u] + 1] <= counted'[u]
    BY <1>1 DEF PublishedInv
  <2>2. /\ seconds[u] <= MaxSeconds
        /\ crashed \/ seconds[u] < MaxSeconds
        /\ \A s \in 1 .. seconds[u] : perSecond[u][s] <= counted[u]
        /\ pc[u] = "publish" /\ ~ crashed => perSecond[u][seconds[u] + 1] <= counted[u]
    BY DEF MonitorInv, PublishedInv
  <2>3. /\ counted[u] \in Nat /\ counted'[u] \in Nat /\ counted[u] <= counted'[u]
        /\ perSecond[u] \in [1 .. MaxSeconds -> Int]
        /\ seconds[u] \in Nat /\ MaxSeconds \in Nat
    BY MainAssumption DEF MonitorInv, StatTypes
  <2>4. ASSUME NEW s \in 1 .. seconds[u] PROVE perSecond[u][s] <= counted'[u]
    <3>1. s \in 1 .. MaxSeconds
      BY <2>2, <2>3
    <3>2. perSecond[u][s] \in Int
      BY <2>3, <3>1
    <3> QED
      BY <2>2, <2>3, <3>2, LessStays
  <2>5. ASSUME pc'[u] = "publish", ~ crashed' PROVE perSecond[u][seconds[u] + 1] <= counted'[u]
    <3>1. pc[u] = "publish" /\ ~ crashed
      BY <2>5
    <3>2. seconds[u] + 1 \in 1 .. MaxSeconds
      BY <2>2, <2>3, <3>1
    <3>3. perSecond[u][seconds[u] + 1] \in Int
      BY <2>3, <3>2
    <3> QED
      BY <2>2, <2>3, <3>1, <3>3, LessStays, SMTT(30)
  <2> QED
    BY <2>2, <2>4, <2>5
<1> QED
  BY <1>3, <1>4, <1>5 DEF MonitorInv

LEMMA SecondOfCounts ==
  ASSUME NEW c \in Nat, NEW l \in Nat, NEW s \in Nat, NEW m \in Nat, s < m
  PROVE  c - l \in Int /\ c - l <= c /\ s + 1 \in 1 .. m /\ s + 1 \notin 1 .. s
OBVIOUS

LEMMA StepStore ==
  ASSUME MonitorInv, NEW t \in Threads, StoreSecond(t)
  PROVE  MonitorInv'
<1>1. /\ pc[t] = "tick" /\ pc' = [pc EXCEPT ![t] = "publish"] /\ ~ crashed
      /\ perSecond' = [perSecond EXCEPT ![t][seconds[t] + 1] = counted[t] - lastCounted[t]]
      /\ UNCHANGED <<counted, submitted, seconds, lastCounted, crashed>>
      /\ UNCHANGED <<mainPc, at, view, report>> /\ UNCHANGED job
  BY DEF StoreSecond, At, Running, mainVars, initVars
<1> DEFINE n == counted[t] - lastCounted[t]
           next == seconds[t] + 1
<1>2. /\ counted[t] \in Nat /\ lastCounted[t] \in Nat /\ seconds[t] \in Nat
      /\ perSecond \in [Threads -> [1 .. MaxSeconds -> Int]]
      /\ MaxSeconds \in Nat /\ seconds[t] < MaxSeconds
  BY <1>1, MainAssumption DEF MonitorInv, StatTypes, PublishedInv
<1>3. n \in Int /\ n <= counted[t] /\ next \in 1 .. MaxSeconds /\ next \notin 1 .. seconds[t]
  BY <1>2, SecondOfCounts
<1> HIDE DEF n
<1>4. perSecond' = [perSecond EXCEPT ![t] = [perSecond[t] EXCEPT ![next] = n]]
  BY <1>1 DEF n
<1> HIDE DEF next
<1>5. /\ perSecond' \in [Threads -> [1 .. MaxSeconds -> Int]]
      /\ perSecond'[t][next] = n
      /\ \A s \in 1 .. seconds[t] : perSecond'[t][s] = perSecond[t][s]
      /\ \A u \in Threads \ {t} : perSecond'[u] = perSecond[u]
  <2>1. \A s \in 1 .. seconds[t] : s \in 1 .. MaxSeconds /\ s # next
    BY <1>2, <1>3
  <2> QED
    BY <1>2, <1>3, <1>4, <2>1
<1>6. StatTypes'
  BY <1>1, <1>5 DEF MonitorInv, StatTypes, Places
<1>7. PublishedInv'
  <2>1. SUFFICES ASSUME NEW u \in Threads
                 PROVE  /\ seconds[u] <= MaxSeconds
                        /\ crashed \/ seconds[u] < MaxSeconds
                        /\ \A s \in 1 .. seconds[u] : perSecond'[u][s] <= counted[u]
                        /\ pc'[u] = "publish" /\ ~ crashed => perSecond'[u][seconds[u] + 1] <= counted[u]
    BY <1>1 DEF PublishedInv
  <2>2. /\ seconds[u] <= MaxSeconds
        /\ crashed \/ seconds[u] < MaxSeconds
        /\ \A s \in 1 .. seconds[u] : perSecond[u][s] <= counted[u]
        /\ pc[u] = "publish" /\ ~ crashed => perSecond[u][seconds[u] + 1] <= counted[u]
    BY DEF MonitorInv, PublishedInv
  <2>3. CASE u = t
    BY <1>3, <1>5, <2>2, <2>3 DEF next
  <2>4. CASE u # t
    <3>1. pc'[u] = pc[u]
      BY <1>1, <2>4 DEF MonitorInv, StatTypes
    <3> QED
      BY <1>5, <2>2, <2>4, <3>1
  <2> QED
    BY <2>3, <2>4
<1>8. ViewTypes'
  BY <1>1 DEF MonitorInv, ViewTypes
<1>9. ViewInv'
  <2>1. at \in Threads
    BY ThreadsOfJob DEF MonitorInv
  <2>2. \A s \in 1 .. seconds[at] : perSecond'[at][s] = perSecond[at][s]
    BY <1>5, <2>1
  <2> QED
    BY <1>1, <2>2 DEF MonitorInv, ViewInv, MonitorReadsPublished
<1> QED
  BY <1>6, <1>7, <1>8, <1>9 DEF MonitorInv

LEMMA StepPublish ==
  ASSUME MonitorInv, NEW t \in Threads, PublishSecond(t)
  PROVE  MonitorInv'
<1>1. /\ pc[t] = "publish" /\ pc' = [pc EXCEPT ![t] = "head"] /\ ~ crashed
      /\ seconds' = [seconds EXCEPT ![t] = @ + 1]
      /\ lastCounted' = [lastCounted EXCEPT ![t] = counted[t]]
      /\ crashed' = (seconds[t] + 1 >= MaxSeconds)
      /\ UNCHANGED <<counted, submitted, perSecond>>
      /\ UNCHANGED <<mainPc, at, view, report>> /\ UNCHANGED job
  BY DEF PublishSecond, At, Running, mainVars, initVars
<1> DEFINE next == seconds[t] + 1
<1>2. /\ counted \in [Threads -> Nat] /\ lastCounted \in [Threads -> Nat]
      /\ seconds \in [Threads -> Nat] /\ pc \in [Threads -> Places]
      /\ perSecond \in [Threads -> [1 .. MaxSeconds -> Int]]
      /\ MaxSeconds \in Nat /\ seconds[t] < MaxSeconds
      /\ perSecond[t][next] <= counted[t]
      /\ \A s \in 1 .. seconds[t] : perSecond[t][s] <= counted[t]
  BY <1>1, MainAssumption DEF MonitorInv, StatTypes, PublishedInv
<1>3. /\ seconds[t] \in Nat /\ next \in Nat /\ next <= MaxSeconds
      /\ next < MaxSeconds \/ next >= MaxSeconds
      /\ 1 .. next = 1 .. seconds[t] \cup {next}
      /\ seconds[t] <= next
  BY <1>2
<1>4. seconds'[t] = next /\ \A u \in Threads \ {t} : seconds'[u] = seconds[u] /\ pc'[u] = pc[u]
  BY <1>1, <1>2
<1>5. StatTypes'
  <2>1. seconds' \in [Threads -> Nat]
    BY <1>1, <1>2, <1>3
  <2>2. lastCounted' \in [Threads -> Nat] /\ pc' \in [Threads -> Places]
    BY <1>1, <1>2 DEF Places
  <2> QED
    BY <1>1, <2>1, <2>2 DEF MonitorInv, StatTypes
<1>6. PublishedInv'
  <2>1. SUFFICES ASSUME NEW u \in Threads
                 PROVE  /\ seconds'[u] <= MaxSeconds
                        /\ crashed' \/ seconds'[u] < MaxSeconds
                        /\ \A s \in 1 .. seconds'[u] : perSecond[u][s] <= counted[u]
                        /\ pc'[u] = "publish" /\ ~ crashed' => perSecond[u][seconds'[u] + 1] <= counted[u]
    BY <1>1 DEF PublishedInv
  <2>2. CASE u = t
    <3>1. pc'[u] = "head"
      BY <1>1, <1>2, <2>2
    <3>2. crashed' \/ next < MaxSeconds
      BY <1>1, <1>3
    <3>3. ASSUME NEW s \in 1 .. next PROVE perSecond[t][s] <= counted[t]
      BY <1>2, <1>3
    <3> HIDE DEF next
    <3> QED
      BY <1>3, <1>4, <2>2, <3>1, <3>2, <3>3
  <2>3. CASE u # t
    <3>1. /\ seconds[u] <= MaxSeconds
          /\ crashed \/ seconds[u] < MaxSeconds
          /\ \A s \in 1 .. seconds[u] : perSecond[u][s] <= counted[u]
          /\ pc[u] = "publish" /\ ~ crashed => perSecond[u][seconds[u] + 1] <= counted[u]
      BY DEF MonitorInv, PublishedInv
    <3>2. seconds'[u] = seconds[u] /\ pc'[u] = pc[u]
      BY <1>4, <2>3
    <3>3. seconds[u] < MaxSeconds /\ ~ crashed
      BY <1>1, <3>1
    <3> QED
      BY <3>1, <3>2, <3>3
  <2> QED
    BY <2>2, <2>3
<1>7. ViewTypes'
  BY <1>1 DEF MonitorInv, ViewTypes
<1>8. ViewInv'
  <2>1. at \in Threads
    BY ThreadsOfJob DEF MonitorInv
  <2>2. view.s \in 1 .. seconds[at] => view.s \in 1 .. seconds'[at]
    <3>1. CASE at = t
      BY <1>3, <1>4, <3>1
    <3>2. CASE at # t
      BY <1>4, <2>1, <3>2
    <3> QED
      BY <3>1, <3>2
  <2>3. /\ mainPc \in {"total", "entry", "next"} => view.s \in 1 .. seconds[at]
        /\ mainPc = "entry" => perSecond[at][view.s] <= view.total
        /\ MonitorReadsPublished
    BY DEF MonitorInv, ViewInv
  <2> QED
    BY <1>1, <2>2, <2>3 DEF ViewInv, MonitorReadsPublished
<1> QED
  BY <1>5, <1>6, <1>7, <1>8 DEF MonitorInv

LEMMA StepThread ==
  ASSUME MonitorInv, NEW t \in Threads, Thread(t)
  PROVE  MonitorInv'
<1>1. /\ counted \in [Threads -> Nat] /\ submitted \in [Threads -> Nat]
      /\ pc \in [Threads -> Places]
  BY DEF MonitorInv, StatTypes
<1>2. ASSUME _process(t) \/ LoopHead(t) \/ DataCheckFails(t) \/ SameSecond(t) \/ Return(t) \/ SetDone(t)
      PROVE MonitorInv'
  <2>1. /\ counted' = counted /\ submitted' = submitted
        /\ crashed => crashed'
        /\ UNCHANGED <<initVars, statsVars, mainVars>>
    BY <1>2 DEF _process, LoopHead, DataCheckFails, SameSecond, Return, SetDone, At, Running
  <2>2. \E to \in {"head", "fill", "drain", "returned", "done"} : pc' = [pc EXCEPT ![t] = to]
    BY <1>2 DEF _process, LoopHead, DataCheckFails, SameSecond, Return, SetDone, At
  <2>3. pc' \in [Threads -> Places] /\ \A u \in Threads : pc'[u] = "publish" => pc[u] = "publish"
    BY <1>1, <2>2 DEF Places
  <2>4. \A u \in Threads : counted[u] <= counted'[u]
    BY <1>1, <2>1
  <2> QED
    BY <1>1, <2>1, <2>3, <2>4, CountsGrow
<1>3. CASE Issue(t)
  <2>1. /\ counted' = counted /\ submitted' = [submitted EXCEPT ![t] = @ + 1]
        /\ pc' = [pc EXCEPT ![t] = "fill"] /\ crashed' = crashed
        /\ UNCHANGED <<initVars, statsVars, mainVars>>
    BY <1>3 DEF Issue, At
  <2>2. submitted' \in [Threads -> Nat]
    <3>1. submitted[t] + 1 \in Nat
      BY <1>1
    <3> QED
      BY <1>1, <2>1, <3>1
  <2>3. pc' \in [Threads -> Places] /\ \A u \in Threads : pc'[u] = "publish" => pc[u] = "publish"
    BY <1>1, <2>1 DEF Places
  <2>4. \A u \in Threads : counted[u] <= counted'[u]
    BY <1>1, <2>1
  <2> QED
    BY <1>1, <2>1, <2>2, <2>3, <2>4, CountsGrow
<1>4. ASSUME NEW k \in 0 .. InFlight(t), Polls(t, k) PROVE MonitorInv'
  <2>1. /\ counted' = [counted EXCEPT ![t] = @ + k] /\ submitted' = submitted
        /\ crashed' = crashed
        /\ UNCHANGED <<initVars, statsVars, mainVars>>
    BY <1>4 DEF Polls, Poll, DrainPoll, Counts
  <2>2. \E to \in {"tick", "drain"} : pc' = [pc EXCEPT ![t] = to]
    BY <1>4 DEF Polls, Poll, DrainPoll, At
  <2>3. pc' \in [Threads -> Places] /\ \A u \in Threads : pc'[u] = "publish" => pc[u] = "publish"
    BY <1>1, <2>2 DEF Places
  <2>4. k \in Nat
    BY <1>1 DEF InFlight
  <2>5. counted[t] + k \in Nat /\ counted[t] <= counted[t] + k
    BY <1>1, <2>4
  <2>6. counted' \in [Threads -> Nat] /\ \A u \in Threads : counted[u] <= counted'[u]
    BY <1>1, <2>1, <2>5
  <2> QED
    BY <1>1, <2>1, <2>3, <2>6, CountsGrow
<1> QED
  BY <1>2, <1>3, <1>4, StepStore, StepPublish DEF Thread

LEMMA MainKeepsStats ==
  ASSUME MonitorInv, Main
  PROVE  StatTypes' /\ PublishedInv' /\ UNCHANGED <<job, seconds, perSecond, counted>>
<1>1. UNCHANGED <<counted, submitted, seconds, perSecond, lastCounted, crashed, job>>
  BY DEF Main, StartThread, PassThread, ReadSeconds, ReadTotal, ReadEntry, NextThread,
         Break, Sleep, stopIo, Join, Report, threadVars, statsVars, initVars
<1>2. pc' = pc \/ pc' = [pc EXCEPT ![at] = "started"]
  BY DEF Main, StartThread, PassThread, ReadSeconds, ReadTotal, ReadEntry, NextThread,
         Break, Sleep, stopIo, Join, Report, threadVars, start
<1>3. pc \in [Threads -> Places]
  BY DEF MonitorInv, StatTypes
<1>4. pc' \in [Threads -> Places] /\ \A u \in Threads : pc'[u] = "publish" => pc[u] = "publish"
  BY <1>2, <1>3 DEF Places
<1>5. StatTypes'
  BY <1>1, <1>4 DEF MonitorInv, StatTypes, Places
<1>6. PublishedInv'
  BY <1>1, <1>4 DEF MonitorInv, PublishedInv
<1> QED
  BY <1>1, <1>5, <1>6

LEMMA NextInLoop ==
  ASSUME ViewTypes, at' = IF LastThread THEN 0 ELSE at + 1
  PROVE  at' \in Nat /\ at' < job.threads
<1>1. at \in Nat /\ at < job.threads /\ job.threads \in Nat \ {0}
  BY ThreadsOfJob DEF ViewTypes
<1>2. CASE LastThread
  <2>1. at' = 0
    BY <1>2
  <2> QED
    BY ONLY <1>1, <2>1
<1>3. CASE ~ LastThread
  <2>1. at' = at + 1 /\ at # job.threads - 1
    BY <1>3 DEF LastThread
  <2>2. at + 1 \in Nat /\ at + 1 < job.threads
    BY ONLY <1>1, <2>1
  <2> QED
    BY ONLY <2>1, <2>2
<1> QED
  BY <1>2, <1>3

LEMMA StepMain ==
  ASSUME MonitorInv, Main
  PROVE  MonitorInv'
<1>1. StatTypes' /\ PublishedInv' /\ UNCHANGED <<job, seconds, perSecond, counted>>
  BY MainKeepsStats
<1>2. /\ job \in Jobs /\ at \in Nat /\ at < job.threads /\ at \in Threads
      /\ view \in [s : Nat, total : Nat, second : Int]
  BY ThreadsOfJob DEF MonitorInv, ViewTypes
<1>3. /\ seconds[at] \in Nat /\ seconds[at] <= MaxSeconds /\ counted[at] \in Nat
      /\ perSecond[at] \in [1 .. MaxSeconds -> Int] /\ MaxSeconds \in Nat
      /\ \A s \in 1 .. seconds[at] : perSecond[at][s] <= counted[at]
  BY <1>2, MainAssumption DEF MonitorInv, StatTypes, PublishedInv
<1> SUFFICES ViewTypes' /\ ViewInv'
  BY <1>1 DEF MonitorInv
<1>4. CASE StartThread \/ stopIo \/ Join
  <2>1. /\ at' = (IF LastThread THEN 0 ELSE at + 1) /\ view' = view
        /\ mainPc' \in {"start", "seconds", "stop", "join", "report"}
    BY <1>4 DEF StartThread, stopIo, Join, Each, MainAt
  <2>2. at' \in Nat /\ at' < job.threads
    BY <2>1, NextInLoop DEF MonitorInv
  <2>3. ViewTypes'
    BY <1>1, <1>2, <2>1, <2>2 DEF ViewTypes
  <2> QED
    BY <2>1, <2>3 DEF ViewInv, MonitorReadsPublished
<1>5. CASE PassThread \/ NextThread
  <2>1. /\ at' = (IF LastThread THEN 0 ELSE at + 1) /\ view' = NoView
        /\ mainPc' \in {"seconds", "check"}
    BY <1>5 DEF PassThread, NextThread, Each, MainAt
  <2>2. at' \in Nat /\ at' < job.threads
    BY <2>1, NextInLoop DEF MonitorInv
  <2>3. ViewTypes'
    BY <1>1, <1>2, <2>1, <2>2 DEF ViewTypes, NoView
  <2> QED
    BY <2>1, <2>3 DEF ViewInv, MonitorReadsPublished
<1>6. CASE ReadSeconds
  <2>1. /\ view' = [s |-> seconds[at], total |-> 0, second |-> 0] /\ at' = at
        /\ mainPc' = "total" /\ seconds[at] > 0
    BY <1>6 DEF ReadSeconds, MainAt, NoView
  <2>2. ViewTypes'
    BY <1>1, <1>2, <1>3, <2>1 DEF ViewTypes
  <2>3. view'.s \in 1 .. seconds'[at']
    BY <1>1, <1>3, <2>1
  <2> QED
    BY <2>1, <2>2, <2>3 DEF ViewInv, MonitorReadsPublished
<1>7. CASE ReadTotal
  <2>1. /\ view' = [view EXCEPT !.total = counted[at]] /\ at' = at
        /\ mainPc = "total" /\ mainPc' = "entry"
    BY <1>7 DEF ReadTotal, MainAt
  <2>2. view.s \in 1 .. seconds[at] /\ view'.s = view.s /\ view'.total = counted[at]
    BY <1>2, <2>1 DEF MonitorInv, ViewInv
  <2>3. ViewTypes'
    BY <1>1, <1>2, <1>3, <2>1 DEF ViewTypes
  <2> QED
    BY <1>1, <1>3, <2>1, <2>2, <2>3 DEF ViewInv, MonitorReadsPublished
<1>8. CASE ReadEntry
  <2>1. /\ view' = [view EXCEPT !.second = perSecond[at][view.s]] /\ at' = at
        /\ mainPc = "entry" /\ mainPc' = "next"
    BY <1>8 DEF ReadEntry, MainAt
  <2>2. /\ view.s \in 1 .. seconds[at] /\ perSecond[at][view.s] <= view.total
        /\ view'.s = view.s /\ view'.total = view.total /\ view'.second = perSecond[at][view.s]
    BY <1>2, <2>1 DEF MonitorInv, ViewInv
  <2>3. perSecond[at][view.s] \in Int
    <3>1. view.s \in 1 .. MaxSeconds
      BY <1>3, <2>2
    <3> QED
      BY <1>3, <3>1
  <2>4. ViewTypes'
    BY <1>1, <1>2, <2>1, <2>3 DEF ViewTypes
  <2> QED
    BY <1>1, <2>1, <2>2, <2>4 DEF ViewInv, MonitorReadsPublished
<1>9. CASE Break \/ Sleep \/ Report
  <2>1. at' = at /\ view' = view /\ mainPc' \in {"stop", "seconds", "fin"}
    BY <1>9 DEF Break, Sleep, Report, MainAt
  <2>2. ViewTypes'
    BY <1>1, <1>2, <2>1 DEF ViewTypes
  <2> QED
    BY <2>1, <2>2 DEF ViewInv, MonitorReadsPublished
<1> QED
  BY <1>4, <1>5, <1>6, <1>7, <1>8, <1>9 DEF Main

LEMMA MonitorInitInv == Init => MonitorInv
<1> SUFFICES ASSUME Init PROVE MonitorInv
  OBVIOUS
<1>1. MaxSeconds \in Nat \ {0} /\ \A t \in Threads : 1 .. 0 = {}
  BY MainAssumption
<1>2. StatTypes
  BY <1>1 DEF Init, StatTypes, Places
<1>3. PublishedInv
  BY <1>1 DEF Init, PublishedInv
<1>4. ViewTypes
  <2>1. job \in Jobs /\ job.threads \in Nat /\ job.threads > 0
    BY InitAssumption DEF Init, InitInit
  <2> QED
    BY <2>1 DEF Init, ViewTypes, NoView
<1>5. ViewInv
  BY DEF Init, ViewInv, MonitorReadsPublished
<1> QED
  BY <1>2, <1>3, <1>4, <1>5 DEF MonitorInv

LEMMA MonitorStep == MonitorInv /\ [Next]_vars => MonitorInv'
<1> SUFFICES ASSUME MonitorInv, [Next]_vars PROVE MonitorInv'
  OBVIOUS
<1>1. ASSUME job' = job, UNCHANGED <<threadVars, mainVars, crashed>> PROVE MonitorInv'
  <2>1. UNCHANGED <<pc, submitted, counted, seconds, perSecond, lastCounted, mainPc, at, view, crashed, job>>
    BY <1>1 DEF threadVars, statsVars, mainVars
  <2>2. StatTypes' /\ PublishedInv'
    BY <2>1 DEF MonitorInv, StatTypes, PublishedInv, Places
  <2>3. ViewTypes' /\ ViewInv'
    BY <2>1 DEF MonitorInv, ViewTypes, ViewInv, MonitorReadsPublished
  <2> QED
    BY <2>2, <2>3 DEF MonitorInv
<1>2. CASE Initialize
  <2>1. job' = job
    BY <1>2 DEF Initialize, InitNext, loadOptions, CheckIfNecessary, IssueBlock, BlockCompletes,
                EndInitLoop, InitReturns, Recheck, Restart, Goes
  <2>2. UNCHANGED <<threadVars, mainVars, crashed>>
    BY <1>2 DEF Initialize
  <2> QED
    BY <1>1, <2>1, <2>2
<1>3. CASE \E t \in Threads : Thread(t)
  BY <1>3, StepThread
<1>4. CASE Main
  BY <1>4, StepMain
<1>5. CASE UNCHANGED vars
  <2>1. job' = job /\ UNCHANGED <<threadVars, mainVars, crashed>>
    BY <1>5 DEF vars, initVars
  <2> QED
    BY <1>1, <2>1
<1> QED
  BY <1>2, <1>3, <1>4, <1>5 DEF Next

(* The figures of the monitor fit together for every number of threads and *)
(* however the threads go on while it reads.                               *)
THEOREM Monitor == Spec => []MonitorReadsPublished
<1>1. MonitorInv => MonitorReadsPublished
  BY DEF MonitorInv, ViewInv
<1> QED
  BY <1>1, MonitorInitInv, MonitorStep, PTL DEF Spec

-----------------------------------------------------------------------------
(* The threads as request generators.                                      *)

Ready == job \in Jobs /\ keepRunning \in [Threads -> BOOLEAN]

(* A thread that drains has no more to issue, and no thread is started     *)
(* twice.                                                                  *)
GeneratorInv ==
  /\ Ready
  /\ \A t \in Threads :
       /\ counted[t] <= submitted[t]
       /\ pc[t] = "drain" => ~ More(t)
       /\ mainPc = "start" /\ at <= t => pc[t] = "wait"

ThreadsInv == MonitorInv /\ GeneratorInv

LEMMA OperationsOfJob ==
  ASSUME job \in Jobs
  PROVE  io_operations \in Nat /\ job.iodepth \in Nat \ {0}
<1>1. job.ioSize \in Nat /\ job.threads \in Nat \ {0} /\ job.bs \in Nat \ {0}
  BY InitAssumption
<1>2. job.ioSize \div job.threads \in Nat
  BY <1>1, QuotientBounds
<1>3. (job.ioSize \div job.threads) \div job.bs \in Nat
  BY <1>1, <1>2, QuotientBounds
<1> QED
  BY <1>3, JobFacts DEF io_operations

LEMMA GeneratorsInit == Init => GeneratorInv /\ \A t \in Threads : Life(t)!Init
<1> SUFFICES ASSUME Init PROVE GeneratorInv /\ \A t \in Threads : Life(t)!Init
  OBVIOUS
<1>1. job \in Jobs
  BY DEF Init, InitInit
<1>2. GeneratorInv
  BY <1>1 DEF Init, GeneratorInv, Ready
<1>3. ASSUME NEW t \in Threads PROVE Life(t)!Init
  <2>1. io_operations \in Nat /\ job.iodepth \in Nat \ {0}
    BY <1>1, OperationsOfJob
  <2>2. submitted[t] = 0 /\ counted[t] = 0
    BY DEF Init
  <2>3. (~ keepRunning[t]) = FALSE
    BY DEF Init
  <2>4. (pc[t] \in {"returned", "done"}) = FALSE
    BY DEF Init
  <2> QED
    BY <2>1, <2>2, <2>3, <2>4 DEF Life!Init
<1> QED
  BY <1>2, <1>3

LEMMA SameOperations ==
  ASSUME job' = job
  PROVE  io_operations' = io_operations
BY DEF io_operations

(* What a thread does, as the step of a generator.                         *)
LEMMA ThreadLives ==
  ASSUME ThreadsInv, NEW t \in Threads, Thread(t)
  PROVE  /\ Life(t)!Next \/ UNCHANGED Life(t)!vars
         /\ (counted[t] <= submitted[t])' /\ (pc[t] = "drain" => ~ More(t))'
<1>1. /\ counted[t] \in Nat /\ submitted[t] \in Nat /\ pc \in [Threads -> Places]
      /\ counted \in [Threads -> Nat] /\ submitted \in [Threads -> Nat]
  BY DEF ThreadsInv, MonitorInv, StatTypes
<1>2. /\ counted[t] <= submitted[t]
      /\ pc[t] = "drain" => ~ More(t)
      /\ job \in Jobs
  BY DEF ThreadsInv, GeneratorInv, Ready
<1>3. job' = job /\ keepRunning' = keepRunning
  <2>1. keepRunning' = keepRunning
    BY DEF Thread, _process, LoopHead, Issue, Polls, Poll, DrainPoll, DataCheckFails,
           SameSecond, StoreSecond, PublishSecond, Return, SetDone
  <2> QED
    BY <2>1, ThreadLeavesInit DEF initVars
<1>4. /\ io_operations' = io_operations /\ io_operations \in Nat
      /\ job.iodepth \in Nat \ {0}
  BY <1>2, <1>3, SameOperations, OperationsOfJob
<1> DEFINE idle(p) == p \in {"returned", "done"}
<1>5. ASSUME NEW from \in Places, NEW to \in Places, At(t, from, to)
      PROVE  pc[t] = from /\ pc'[t] = to
  BY <1>1, <1>5 DEF At
<1>6. ASSUME counted' = counted, submitted' = submitted,
             NEW from \in Places, NEW to \in Places, At(t, from, to),
             idle(from) <=> idle(to), to = "drain" => ~ More(t)
      PROVE  /\ UNCHANGED Life(t)!vars
             /\ (counted[t] <= submitted[t])' /\ (pc[t] = "drain" => ~ More(t))'
  <2>1. pc[t] = from /\ pc'[t] = to
    BY <1>5, <1>6
  <2>2. (pc'[t] \in {"returned", "done"}) = (pc[t] \in {"returned", "done"})
    BY <1>6, <2>1
  <2>3. UNCHANGED Life(t)!vars
    BY <1>3, <1>4, <1>6, <2>2 DEF Life!vars
  <2>4. More(t)' <=> More(t)
    BY <1>3, <1>4, <1>6 DEF More
  <2> QED
    BY <1>2, <1>6, <2>1, <2>3, <2>4
<1>7. CASE LoopHead(t)
  <2> DEFINE to == IF More(t) THEN "fill" ELSE "drain"
  <2>1. At(t, "head", to) /\ counted' = counted /\ submitted' = submitted
    BY <1>7 DEF LoopHead
  <2>2. to \in Places /\ ~ idle(to) /\ (to = "drain" => ~ More(t))
    BY DEF Places
  <2> HIDE DEF to
  <2> QED
    BY <1>6, <2>1, <2>2 DEF Places
<1>8. CASE _process(t) \/ SameSecond(t) \/ StoreSecond(t) \/ PublishSecond(t) \/ SetDone(t)
  <2>1. counted' = counted /\ submitted' = submitted
    BY <1>8 DEF _process, SameSecond, StoreSecond, PublishSecond, SetDone
  <2>2. \/ At(t, "started", "head") \/ At(t, "tick", "head") \/ At(t, "tick", "publish")
        \/ At(t, "publish", "head") \/ At(t, "returned", "done")
    BY <1>8 DEF _process, SameSecond, StoreSecond, PublishSecond, SetDone
  <2>3. /\ {"started", "head", "tick", "publish", "returned", "done"} \subseteq Places
        /\ idle("returned") /\ idle("done")
        /\ ~ idle("started") /\ ~ idle("head") /\ ~ idle("tick") /\ ~ idle("publish")
    BY DEF Places
  <2> HIDE DEF idle
  <2> QED
    BY <1>6, <2>1, <2>2, <2>3
<1>9. CASE DataCheckFails(t)
  <2>1. /\ counted' = counted /\ submitted' = submitted
        /\ At(t, "fill", "fill") \/ At(t, "drain", "drain")
    BY <1>9 DEF DataCheckFails
  <2>2. CASE At(t, "fill", "fill")
    BY <1>6, <2>1, <2>2 DEF Places
  <2>3. CASE At(t, "drain", "drain")
    <3>1. pc[t] = "drain"
      BY <1>5, <2>3 DEF Places
    <3>2. ~ More(t)
      BY <1>2, <3>1
    <3> QED
      BY <1>6, <2>1, <2>3, <3>2 DEF Places
  <2> QED
    BY <2>1, <2>2, <2>3
<1>10. CASE Issue(t)
  <2>1. /\ At(t, "fill", "fill") /\ More(t) /\ submitted[t] - counted[t] < job.iodepth
        /\ submitted' = [submitted EXCEPT ![t] = @ + 1] /\ counted' = counted
    BY <1>10 DEF Issue, MayIssue, InFlight
  <2>2. pc[t] = "fill" /\ pc'[t] = "fill"
    BY <1>5, <2>1 DEF Places
  <2>3. submitted'[t] = submitted[t] + 1 /\ counted'[t] = counted[t]
    BY <1>1, <2>1
  <2>4. keepRunning[t] /\ (io_operations = 0 \/ counted[t] < io_operations)
    BY <2>1 DEF More
  <2>5. ~ (~ keepRunning[t] \/ (io_operations > 0 /\ counted[t] >= io_operations))
    BY <1>1, <1>4, <2>4
  <2>6. (pc'[t] \in {"returned", "done"}) = (pc[t] \in {"returned", "done"})
    BY <2>2
  <2>7. Life(t)!Issue
    BY <1>3, <1>4, <2>1, <2>2, <2>3, <2>5, <2>6 DEF Life!Issue, Life!Enough
  <2>8. counted[t] <= submitted[t] + 1
    BY <1>1, <1>2
  <2> QED
    BY <2>2, <2>3, <2>7, <2>8 DEF Life!Next
<1>11. ASSUME NEW k \in 0 .. InFlight(t), Polls(t, k)
       PROVE  /\ Life(t)!Next \/ UNCHANGED Life(t)!vars
              /\ (counted[t] <= submitted[t])' /\ (pc[t] = "drain" => ~ More(t))'
  <2>1. /\ counted' = [counted EXCEPT ![t] = @ + k] /\ submitted' = submitted
        /\ At(t, "fill", "tick") \/ At(t, "drain", "drain")
    BY <1>11 DEF Polls, Poll, DrainPoll, Counts
  <2>2. counted'[t] = counted[t] + k /\ submitted'[t] = submitted[t]
    BY <1>1, <2>1
  <2>3. (pc[t] = "fill" /\ pc'[t] = "tick") \/ (pc[t] = "drain" /\ pc'[t] = "drain")
    BY <1>5, <2>1 DEF Places
  <2>4. k \in 0 .. (submitted[t] - counted[t])
    BY DEF InFlight
  <2>5. counted[t] + k <= submitted[t] /\ k \in Nat /\ (k > 0 => counted[t] + k \in counted[t] + 1 .. submitted[t])
    BY <1>1, <2>4
  <2>6. (pc'[t] \in {"returned", "done"}) = (pc[t] \in {"returned", "done"})
    BY <2>3
  <2>7. Life(t)!Next \/ UNCHANGED Life(t)!vars
    <3>1. CASE k = 0
      <4>1. counted'[t] = counted[t]
        BY <1>1, <2>2, <3>1
      <4> QED
        BY <1>3, <1>4, <2>2, <2>6, <4>1 DEF Life!vars
    <3>2. CASE k > 0
      <4>1. Life(t)!Finish
        BY <1>3, <1>4, <2>2, <2>5, <2>6, <3>2 DEF Life!Finish
      <4> QED
        BY <4>1 DEF Life!Next
    <3> QED
      BY <2>5, <3>1, <3>2
  <2>8. (counted[t] <= submitted[t])'
    BY <2>2, <2>5
  <2>9. pc'[t] = "drain" => ~ More(t)'
    <3>1. SUFFICES ASSUME pc'[t] = "drain" PROVE ~ More(t)'
      OBVIOUS
    <3>2. ~ More(t)
      BY <1>2, <2>3, <3>1
    <3>3. counted[t] >= io_operations => counted[t] + k >= io_operations
      BY <1>1, <1>4, <2>5
    <3>4. ~ keepRunning[t] \/ (io_operations # 0 /\ ~ (counted[t] < io_operations))
      BY <3>2 DEF More
    <3>5. ~ keepRunning[t] \/ (io_operations # 0 /\ ~ (counted[t] + k < io_operations))
      BY <1>1, <1>4, <2>5, <3>3, <3>4
    <3>6. ~ keepRunning'[t] \/ (io_operations' # 0 /\ ~ (counted'[t] < io_operations'))
      BY <1>3, <1>4, <2>2, <3>5
    <3> QED
      BY <3>6 DEF More
  <2> QED
    BY <2>7, <2>8, <2>9
<1>12. CASE Return(t)
  <2>1. /\ At(t, "drain", "returned") /\ submitted[t] - counted[t] = 0
        /\ counted' = counted /\ submitted' = submitted
    BY <1>12 DEF Return, InFlight
  <2>2. pc[t] = "drain" /\ pc'[t] = "returned"
    BY <1>5, <2>1 DEF Places
  <2>3. ~ keepRunning[t] \/ (io_operations # 0 /\ ~ (counted[t] < io_operations))
    BY <1>2, <2>2 DEF More
  <2>4. ~ keepRunning[t] \/ (io_operations > 0 /\ counted[t] >= io_operations)
    BY <1>1, <1>4, <2>3
  <2>5. counted[t] = submitted[t]
    BY <1>1, <2>1
  <2>6. (pc'[t] \in {"returned", "done"}) = TRUE
    BY <2>2
  <2>7. Life(t)!Return
    BY <1>3, <1>4, <2>1, <2>4, <2>5, <2>6 DEF Life!Return, Life!Enough
  <2> QED
    BY <1>2, <2>1, <2>2, <2>7 DEF Life!Next
<1> QED
  BY <1>7, <1>8, <1>9, <1>10, <1>11, <1>12 DEF Thread

(* A thread does nothing to another one.                                   *)
LEMMA OthersStutter ==
  ASSUME ThreadsInv, NEW t \in Threads, NEW u \in Threads, u # t, Thread(u)
  PROVE  UNCHANGED Life(t)!vars /\ pc'[t] = pc[t] /\ UNCHANGED <<submitted[t], counted[t], keepRunning, job>>
<1>1. pc \in [Threads -> Places] /\ counted \in [Threads -> Nat] /\ submitted \in [Threads -> Nat]
  BY DEF ThreadsInv, MonitorInv, StatTypes
<1>2. keepRunning' = keepRunning /\ job' = job
  <2>1. keepRunning' = keepRunning
    BY DEF Thread, _process, LoopHead, Issue, Polls, Poll, DrainPoll, DataCheckFails,
           SameSecond, StoreSecond, PublishSecond, Return, SetDone
  <2> QED
    BY <2>1, ThreadLeavesInit DEF initVars
<1>3. \E to : pc' = [pc EXCEPT ![u] = to]
  BY DEF Thread, _process, LoopHead, Issue, Polls, Poll, DrainPoll, DataCheckFails,
         SameSecond, StoreSecond, PublishSecond, Return, SetDone, At
<1>4. counted' = counted \/ \E k : counted' = [counted EXCEPT ![u] = k]
  BY DEF Thread, _process, LoopHead, Issue, Polls, Poll, DrainPoll, DataCheckFails,
         SameSecond, StoreSecond, PublishSecond, Return, SetDone, Counts
<1>5. submitted' = submitted \/ \E k : submitted' = [submitted EXCEPT ![u] = k]
  BY DEF Thread, _process, LoopHead, Issue, Polls, Poll, DrainPoll, DataCheckFails,
         SameSecond, StoreSecond, PublishSecond, Return, SetDone
<1>6. pc'[t] = pc[t] /\ counted'[t] = counted[t] /\ submitted'[t] = submitted[t]
  BY <1>1, <1>3, <1>4, <1>5
<1>7. io_operations' = io_operations
  BY <1>2, SameOperations
<1> QED
  BY <1>2, <1>6, <1>7 DEF Life!vars

LEMMA GeneratorsThread ==
  ASSUME ThreadsInv, NEW u \in Threads, Thread(u)
  PROVE  GeneratorInv' /\ \A t \in Threads : [Life(t)!Next]_(Life(t)!vars)
<1>1. UNCHANGED <<mainPc, at>>
  BY DEF Thread, _process, LoopHead, Issue, Polls, Poll, DrainPoll, DataCheckFails,
         SameSecond, StoreSecond, PublishSecond, Return, SetDone, mainVars
<1>2. keepRunning' = keepRunning /\ job' = job
  <2>1. keepRunning' = keepRunning
    BY DEF Thread, _process, LoopHead, Issue, Polls, Poll, DrainPoll, DataCheckFails,
           SameSecond, StoreSecond, PublishSecond, Return, SetDone
  <2> QED
    BY <2>1, ThreadLeavesInit DEF initVars
<1>3. Ready'
  BY <1>2 DEF ThreadsInv, GeneratorInv, Ready
<1>4. pc[u] # "wait"
  BY DEF Thread, _process, LoopHead, Issue, Polls, Poll, DrainPoll, DataCheckFails,
         SameSecond, StoreSecond, PublishSecond, Return, SetDone, At
<1>5. ASSUME NEW t \in Threads
      PROVE  /\ [Life(t)!Next]_(Life(t)!vars)
             /\ (counted[t] <= submitted[t])' /\ (pc[t] = "drain" => ~ More(t))'
             /\ mainPc' = "start" /\ at' <= t => pc'[t] = "wait"
  <2>1. /\ counted[t] <= submitted[t] /\ (pc[t] = "drain" => ~ More(t))
        /\ mainPc = "start" /\ at <= t => pc[t] = "wait"
    BY DEF ThreadsInv, GeneratorInv
  <2>2. CASE t = u
    <3>1. ~ (mainPc' = "start" /\ at' <= t)
      BY <1>1, <1>4, <2>1, <2>2
    <3> QED
      BY <2>2, <3>1, ThreadLives
  <2>3. CASE t # u
    <3>1. UNCHANGED Life(t)!vars /\ pc'[t] = pc[t] /\ UNCHANGED <<submitted[t], counted[t], keepRunning, job>>
      BY <2>3, OthersStutter
    <3>2. More(t)' <=> More(t)
      BY <3>1, SameOperations DEF More
    <3> QED
      BY <1>1, <2>1, <3>1, <3>2
  <2> QED
    BY <2>2, <2>3
<1> QED
  BY <1>3, <1>5 DEF GeneratorInv

(* Starting a thread is no step of the generator; stopping it is Stop.     *)
LEMMA GeneratorsMain ==
  ASSUME ThreadsInv, Main
  PROVE  GeneratorInv' /\ \A t \in Threads : [Life(t)!Next]_(Life(t)!vars)
<1>1. UNCHANGED <<counted, submitted, job>>
  BY DEF Main, StartThread, PassThread, ReadSeconds, ReadTotal, ReadEntry, NextThread,
         Break, Sleep, stopIo, Join, Report, threadVars, statsVars, initVars
<1>2. io_operations' = io_operations
  BY <1>1, SameOperations
<1>3. /\ pc \in [Threads -> Places] /\ keepRunning \in [Threads -> BOOLEAN]
      /\ job \in Jobs /\ at \in Threads /\ at \in Nat
      /\ \A t \in Threads : t \in Int
  BY ThreadsOfJob DEF ThreadsInv, MonitorInv, StatTypes, GeneratorInv, Ready, Threads
<1>4. ASSUME NEW t \in Threads
      PROVE  /\ counted[t] <= submitted[t] /\ (pc[t] = "drain" => ~ More(t))
             /\ mainPc = "start" /\ at <= t => pc[t] = "wait"
  BY DEF ThreadsInv, GeneratorInv
<1>5. CASE StartThread
  <2>1. /\ mainPc = "start" /\ pc' = [pc EXCEPT ![at] = "started"] /\ keepRunning' = keepRunning
        /\ mainPc' = "start" => at' = at + 1
    BY <1>5 DEF StartThread, Each, MainAt, start
  <2>2. ASSUME NEW t \in Threads
        PROVE  /\ UNCHANGED Life(t)!vars
               /\ (counted[t] <= submitted[t])' /\ (pc[t] = "drain" => ~ More(t))'
               /\ mainPc' = "start" /\ at' <= t => pc'[t] = "wait"
    <3>1. (pc'[t] \in {"returned", "done"}) = (pc[t] \in {"returned", "done"})
      <4>1. CASE t = at
        <5>1. pc[t] = "wait" /\ pc'[t] = "started"
          BY <1>3, <1>4, <2>1, <4>1
        <5> QED
          BY <5>1
      <4>2. CASE t # at
        BY <1>3, <2>1, <4>2
      <4> QED
        BY <4>1, <4>2
    <3>2. UNCHANGED Life(t)!vars
      BY <1>1, <1>2, <2>1, <3>1 DEF Life!vars
    <3>3. (More(t)' <=> More(t)) /\ (pc'[t] = "drain" => pc[t] = "drain")
      BY <1>1, <1>2, <1>3, <2>1 DEF More
    <3>4. ASSUME mainPc' = "start", at' <= t PROVE pc'[t] = "wait"
      <4>1. at <= t /\ t # at
        BY <1>3, <2>1, <3>4
      <4> QED
        BY <1>3, <1>4, <2>1, <4>1
    <3> QED
      BY <1>1, <1>4, <3>2, <3>3, <3>4
  <2> QED
    BY <1>1, <1>3, <2>1, <2>2 DEF GeneratorInv, Ready
<1>6. CASE stopIo
  <2>1. /\ mainPc' \in {"stop", "join"} /\ pc' = pc
        /\ keepRunning' = [keepRunning EXCEPT ![at] = FALSE]
    BY <1>6 DEF stopIo, Each, MainAt
  <2>2. ASSUME NEW t \in Threads
        PROVE  /\ [Life(t)!Next]_(Life(t)!vars)
               /\ (counted[t] <= submitted[t])' /\ (pc[t] = "drain" => ~ More(t))'
    <3>1. (pc'[t] \in {"returned", "done"}) = (pc[t] \in {"returned", "done"})
      BY <2>1
    <3>2. CASE t = at
      <4>1. (~ keepRunning'[t]) = TRUE
        BY <1>3, <2>1, <3>2
      <4>2. Life(t)!Stop
        BY <1>1, <1>2, <3>1, <4>1 DEF Life!Stop
      <4> QED
        BY <1>1, <1>4, <4>1, <4>2 DEF Life!Next, More
    <3>3. CASE t # at
      <4>1. keepRunning'[t] = keepRunning[t]
        BY <1>3, <2>1, <3>3
      <4>2. UNCHANGED Life(t)!vars
        BY <1>1, <1>2, <3>1, <4>1 DEF Life!vars
      <4>3. (More(t)' <=> More(t)) /\ pc'[t] = pc[t]
        BY <1>1, <1>2, <2>1, <4>1 DEF More
      <4> QED
        BY <1>1, <1>4, <4>2, <4>3
    <3> QED
      BY <3>2, <3>3
  <2>3. keepRunning' \in [Threads -> BOOLEAN]
    BY <1>3, <2>1
  <2> QED
    BY <1>1, <1>3, <2>1, <2>2, <2>3 DEF GeneratorInv, Ready
<1>7. CASE PassThread \/ ReadSeconds \/ ReadTotal \/ ReadEntry \/ NextThread \/ Break \/ Sleep \/ Join \/ Report
  <2>1. pc' = pc /\ keepRunning' = keepRunning
    BY <1>7 DEF PassThread, ReadSeconds, ReadTotal, ReadEntry, NextThread, Break, Sleep, Join, Report, threadVars
  <2>2. mainPc' # "start"
    BY <1>7 DEF PassThread, ReadSeconds, ReadTotal, ReadEntry, NextThread, Break, Sleep, Join, Report,
                Each, MainAt
  <2>3. ASSUME NEW t \in Threads
        PROVE  UNCHANGED Life(t)!vars /\ (More(t)' <=> More(t))
    BY <1>1, <1>2, <2>1 DEF Life!vars, More
  <2> QED
    BY <1>1, <1>3, <1>4, <2>1, <2>2, <2>3 DEF GeneratorInv, Ready
<1> QED
  BY <1>5, <1>6, <1>7 DEF Main

LEMMA GeneratorsStep ==
  ThreadsInv /\ [Next]_vars => GeneratorInv' /\ \A t \in Threads : [Life(t)!Next]_(Life(t)!vars)
<1> SUFFICES ASSUME ThreadsInv, [Next]_vars
             PROVE  GeneratorInv' /\ \A t \in Threads : [Life(t)!Next]_(Life(t)!vars)
  OBVIOUS
<1>1. ASSUME job' = job, UNCHANGED <<threadVars, mainVars>>
      PROVE  GeneratorInv' /\ \A t \in Threads : [Life(t)!Next]_(Life(t)!vars)
  <2>1. UNCHANGED <<pc, submitted, counted, keepRunning, mainPc, at, job>> /\ io_operations' = io_operations
    BY <1>1, SameOperations DEF threadVars, mainVars
  <2>2. ASSUME NEW t \in Threads
        PROVE  UNCHANGED Life(t)!vars /\ (More(t)' <=> More(t))
    BY <2>1 DEF Life!vars, More
  <2> QED
    BY <2>1, <2>2 DEF ThreadsInv, GeneratorInv, Ready
<1>2. CASE Initialize
  <2>1. job' = job
    BY <1>2 DEF Initialize, InitNext, loadOptions, CheckIfNecessary, IssueBlock, BlockCompletes,
                EndInitLoop, InitReturns, Recheck, Restart, Goes
  <2>2. UNCHANGED <<threadVars, mainVars>>
    BY <1>2 DEF Initialize
  <2> QED
    BY <1>1, <2>1, <2>2
<1>3. CASE \E t \in Threads : Thread(t)
  BY <1>3, GeneratorsThread
<1>4. CASE Main
  BY <1>4, GeneratorsMain
<1>5. CASE UNCHANGED vars
  <2>1. job' = job /\ UNCHANGED <<threadVars, mainVars>>
    BY <1>5 DEF vars, initVars
  <2> QED
    BY <1>1, <2>1
<1> QED
  BY <1>2, <1>3, <1>4, <1>5 DEF Next

(* Every thread of the program is a request generator as GeneratorLife     *)
(* specifies it, whatever the others and the main thread do.               *)
THEOREM GeneratorsBehave == Spec => GeneratorsLive
<1> DEFINE StepsLive == \A t \in Threads : [Life(t)!Next]_(Life(t)!vars)
           BeginLive == \A t \in Threads : Life(t)!Init
<1>1. Init => ThreadsInv /\ BeginLive
  BY MonitorInitInv, GeneratorsInit DEF ThreadsInv
<1>2. ThreadsInv /\ [Next]_vars => ThreadsInv' /\ StepsLive
  BY MonitorStep, GeneratorsStep DEF ThreadsInv
<1>3. GeneratorsLive <=> BeginLive /\ [][StepsLive]_vars
  BY DEF GeneratorsLive
<1> HIDE DEF StepsLive, BeginLive
<1> QED
  BY <1>1, <1>2, <1>3, PTL DEF Spec

(* Hence no thread submits a queue of requests more than it was asked for, *)
(* however late it is that their completions are noticed.                  *)
THEOREM ThreadsOvershoot == Spec => [](\A t \in Threads : Life(t)!OvershootBounded)
<1> DEFINE Bound == \A t \in Threads :
                      io_operations > 0 => submitted[t] < io_operations + job.iodepth
<1>1. Init => Bound
  <2> SUFFICES ASSUME Init, NEW t \in Threads
               PROVE  io_operations > 0 => submitted[t] < io_operations + job.iodepth
    OBVIOUS
  <2>1. job \in Jobs /\ submitted[t] = 0
    BY DEF Init, InitInit
  <2> QED
    BY <2>1, OperationsOfJob
<1>2. ThreadsInv /\ Bound /\ [Next]_vars => Bound'
  <2> SUFFICES ASSUME ThreadsInv, Bound, [Next]_vars, NEW t \in Threads
               PROVE  (io_operations > 0 => submitted[t] < io_operations + job.iodepth)'
    OBVIOUS
  <2>1. [Life(t)!Next]_(Life(t)!vars)
    BY GeneratorsStep
  <2>2. io_operations > 0 => submitted[t] < io_operations + job.iodepth
    OBVIOUS
  <2>3. submitted[t] \in Nat /\ counted[t] \in Nat /\ io_operations \in Nat /\ job.iodepth \in Nat
    BY OperationsOfJob DEF ThreadsInv, MonitorInv, StatTypes, GeneratorInv, Ready
  <2>4. CASE Life(t)!Issue
    <3>1. /\ io_operations > 0 => counted[t] < io_operations
          /\ submitted[t] - counted[t] < job.iodepth
          /\ submitted'[t] = submitted[t] + 1
          /\ io_operations' = io_operations /\ job'.iodepth = job.iodepth
      BY <2>3, <2>4 DEF Life!Issue, Life!Enough
    <3> QED
      BY <2>3, <3>1
  <2>5. CASE Life(t)!Finish \/ Life(t)!Stop \/ Life(t)!Return \/ UNCHANGED Life(t)!vars
    BY <2>2, <2>5 DEF Life!Finish, Life!Stop, Life!Return, Life!vars
  <2> QED
    BY <2>1, <2>4, <2>5 DEF Life!Next
<1>3. Init => ThreadsInv
  BY MonitorInitInv, GeneratorsInit DEF ThreadsInv
<1>4. ThreadsInv /\ [Next]_vars => ThreadsInv'
  BY MonitorStep, GeneratorsStep DEF ThreadsInv
<1>5. Bound => \A t \in Threads : Life(t)!OvershootBounded
  BY DEF Life!OvershootBounded
<1> QED
  BY <1>1, <1>2, <1>3, <1>4, <1>5, PTL DEF Spec
-----------------------------------------------------------------------------
(* The summary.  Main stops and joins every thread before it adds up their *)
(* counters: what is joined has nothing in flight and stays as it is, and  *)
(* a thread that is not of the job never began.                            *)
JoinInv ==
  /\ \A t \in Threads :
       /\ pc[t] = "wait" => submitted[t] = counted[t]
       /\ pc[t] \in {"returned", "done"} => submitted[t] = counted[t]
       /\ t >= job.threads => pc[t] = "wait" /\ counted[t] = 0
       /\ mainPc = "join" /\ t < at => pc[t] = "done"
       /\ mainPc \in {"report", "fin"} /\ t < job.threads => pc[t] = "done"
  /\ mainPc = "fin" => report = Cardinality(Requests(counted, 0 .. job.threads - 1))

LEMMA SameRequests ==
  ASSUME NEW c, NEW d, NEW S, NEW T, S \subseteq T,
         \A t \in S : c[t] = d[t], \A t \in T \ S : d[t] = 0
  PROVE  Requests(c, S) = Requests(d, T)
<1>1. \A t \in T \ S : {t} \X (1 .. d[t]) = {}
  <2>1. 1 .. 0 = {}
    OBVIOUS
  <2> QED
    BY <2>1
<1>2. Requests(c, S) \subseteq Requests(d, T)
  BY DEF Requests
<1>3. Requests(d, T) \subseteq Requests(c, S)
  <2>1. SUFFICES ASSUME NEW t \in T, NEW e \in {t} \X (1 .. d[t]) PROVE e \in Requests(c, S)
    BY DEF Requests
  <2>2. t \in S
    BY <1>1
  <2> QED
    BY <2>2 DEF Requests
<1> QED
  BY <1>2, <1>3

LEMMA JoinInit == Init => JoinInv
<1> SUFFICES ASSUME Init PROVE JoinInv
  OBVIOUS
<1>1. \A t \in Threads : submitted[t] = 0 /\ counted[t] = 0 /\ pc[t] = "wait"
  BY DEF Init
<1>2. mainPc = "start"
  BY DEF Init
<1> QED
  BY <1>1, <1>2 DEF JoinInv

(* A thread that takes a step is neither waiting nor done.                 *)
LEMMA JoinThread ==
  ASSUME ThreadsInv, JoinInv, NEW u \in Threads, Thread(u)
  PROVE  JoinInv'
<1>1. UNCHANGED <<mainPc, at, report, job>>
  BY ThreadLeavesInit
  DEF Thread, _process, LoopHead, Issue, Polls, Poll, DrainPoll, DataCheckFails,
      SameSecond, StoreSecond, PublishSecond, Return, SetDone, mainVars, initVars
<1>2. pc \in [Threads -> Places] /\ counted \in [Threads -> Nat] /\ submitted \in [Threads -> Nat]
      /\ job.threads \in Nat \ {0} /\ job.threads <= MaxThreads
  BY ThreadsOfJob, MainAssumption DEF ThreadsInv, MonitorInv, StatTypes, ViewTypes
<1>3. /\ pc[u] \notin {"wait", "done"} /\ pc'[u] # "wait"
      /\ pc'[u] \in {"returned", "done"} => submitted'[u] = counted'[u]
  <2>1. CASE _process(u) \/ LoopHead(u) \/ Issue(u) \/ (\E k \in 0 .. InFlight(u) : Polls(u, k))
             \/ DataCheckFails(u) \/ SameSecond(u) \/ StoreSecond(u) \/ PublishSecond(u)
    BY <1>2, <2>1 DEF _process, LoopHead, Issue, Polls, Poll, DrainPoll, DataCheckFails,
                      SameSecond, StoreSecond, PublishSecond, At
  <2>2. CASE Return(u)
    BY <1>2, <2>2 DEF Return, At, InFlight
  <2>3. CASE SetDone(u)
    BY <1>2, <2>3 DEF SetDone, At, JoinInv
  <2> QED
    BY <2>1, <2>2, <2>3 DEF Thread
<1>4. \A t \in Threads : t # u => pc'[t] = pc[t] /\ submitted'[t] = submitted[t] /\ counted'[t] = counted[t]
  BY OthersStutter
<1>5. ASSUME NEW t \in Threads
      PROVE  /\ pc'[t] = "wait" => submitted'[t] = counted'[t]
             /\ pc'[t] \in {"returned", "done"} => submitted'[t] = counted'[t]
             /\ t >= job'.threads => pc'[t] = "wait" /\ counted'[t] = 0
             /\ mainPc' = "join" /\ t < at' => pc'[t] = "done"
             /\ mainPc' \in {"report", "fin"} /\ t < job'.threads => pc'[t] = "done"
  <2>1. CASE t = u
    BY <1>1, <1>3, <2>1 DEF JoinInv
  <2>2. CASE t # u
    BY <1>1, <1>4, <2>2 DEF JoinInv
  <2> QED
    BY <2>1, <2>2
<1>6. mainPc' = "fin" => report' = Cardinality(Requests(counted', 0 .. job'.threads - 1))
  <2>1. ASSUME mainPc = "fin"
        PROVE  Requests(counted', 0 .. job.threads - 1) = Requests(counted, 0 .. job.threads - 1)
    <3>1. \A t \in 0 .. job.threads - 1 : t \in Threads /\ t < job.threads
      BY <1>2, MainAssumption DEF Threads
    <3>2. \A t \in 0 .. job.threads - 1 : counted'[t] = counted[t]
      BY <1>3, <1>4, <2>1, <3>1 DEF JoinInv
    <3> DEFINE S == 0 .. job.threads - 1
    <3>3. S \subseteq S /\ (\A t \in S : counted'[t] = counted[t]) /\ \A t \in S \ S : counted[t] = 0
      BY <3>2
    <3> HIDE DEF S
    <3>4. Requests(counted', S) = Requests(counted, S)
      BY <3>3, SameRequests
    <3> QED
      BY <3>4 DEF S
  <2> QED
    BY <1>1, <2>1 DEF JoinInv
<1> QED
  BY <1>5, <1>6 DEF JoinInv

LEMMA JoinMain ==
  ASSUME ThreadsInv, JoinInv, Main
  PROVE  JoinInv'
<1>1. UNCHANGED <<counted, submitted, job>>
  BY DEF Main, StartThread, PassThread, ReadSeconds, ReadTotal, ReadEntry, NextThread,
         Break, Sleep, stopIo, Join, Report, threadVars, statsVars, initVars
<1>2. /\ pc \in [Threads -> Places] /\ counted \in [Threads -> Nat]
      /\ at \in Threads /\ at \in Nat /\ at < job.threads /\ job.threads \in Nat \ {0}
      /\ \A t \in Threads : t \in Nat
  BY ThreadsOfJob DEF ThreadsInv, MonitorInv, StatTypes, ViewTypes, Threads
<1>3. CASE StartThread
  <2>1. /\ mainPc = "start" /\ pc' = [pc EXCEPT ![at] = "started"]
        /\ mainPc' \in {"start", "seconds"}
    BY <1>3 DEF StartThread, Each, MainAt, start
  <2>2. ASSUME NEW t \in Threads
        PROVE  /\ pc'[t] = "wait" => submitted'[t] = counted'[t]
               /\ pc'[t] \in {"returned", "done"} => submitted'[t] = counted'[t]
               /\ t >= job'.threads => pc'[t] = "wait" /\ counted'[t] = 0
    <3>1. CASE t = at
      <4>1. pc'[t] = "started" /\ ~ (t >= job.threads)
        BY <1>2, <2>1, <3>1
      <4> QED
        BY <1>1, <4>1
    <3>2. CASE t # at
      BY <1>1, <1>2, <2>1, <3>2 DEF JoinInv
    <3> QED
      BY <3>1, <3>2
  <2> QED
    BY <2>1, <2>2 DEF JoinInv
<1>4. CASE PassThread \/ ReadSeconds \/ ReadTotal \/ ReadEntry \/ NextThread \/ Break \/ Sleep \/ stopIo
  <2>1. pc' = pc /\ mainPc' \notin {"report", "fin"} /\ (mainPc' = "join" => at' = 0)
    BY <1>4 DEF PassThread, ReadSeconds, ReadTotal, ReadEntry, NextThread, Break, Sleep, stopIo,
                threadVars, Each, MainAt
  <2>2. ~ (mainPc' = "join" /\ \E t \in Threads : t < at')
    BY <1>2, <2>1
  <2> QED
    BY <1>1, <2>1, <2>2 DEF JoinInv
<1>5. CASE Join
  <2>1. /\ pc' = pc /\ mainPc = "join" /\ pc[at] = "done" /\ mainPc' \in {"join", "report"}
        /\ mainPc' = "join" => at' = at + 1
        /\ mainPc' = "report" => at = job.threads - 1
    BY <1>5 DEF Join, Each, MainAt, LastThread, isDone, threadVars
  <2>2. ASSUME NEW t \in Threads
        PROVE  /\ mainPc' = "join" /\ t < at' => pc[t] = "done"
               /\ mainPc' = "report" /\ t < job.threads => pc[t] = "done"
    <3>1. t < at \/ t = at => pc[t] = "done"
      BY <2>1 DEF JoinInv
    <3>2. t \in Nat
      BY <1>2
    <3> QED
      BY <1>2, <2>1, <3>1, <3>2
  <2> QED
    BY <1>1, <2>1, <2>2 DEF JoinInv
<1>6. CASE Report
  <2>1. /\ pc' = pc /\ mainPc = "report" /\ mainPc' = "fin"
        /\ report' = Cardinality(Requests(counted, 0 .. job.threads - 1))
    BY <1>6 DEF Report, MainAt, threadVars
  <2> QED
    BY <1>1, <2>1 DEF JoinInv
<1> QED
  BY <1>3, <1>4, <1>5, <1>6 DEF Main

LEMMA JoinStep == ThreadsInv /\ JoinInv /\ [Next]_vars => JoinInv'
<1> SUFFICES ASSUME ThreadsInv, JoinInv, [Next]_vars PROVE JoinInv'
  OBVIOUS
<1>1. ASSUME job' = job, UNCHANGED <<threadVars, mainVars>> PROVE JoinInv'
  <2>1. UNCHANGED <<pc, submitted, counted, mainPc, at, report, job>>
    BY <1>1 DEF threadVars, mainVars
  <2> QED
    BY <2>1 DEF JoinInv
<1>2. CASE Initialize
  <2>1. job' = job
    BY <1>2 DEF Initialize, InitNext, loadOptions, CheckIfNecessary, IssueBlock, BlockCompletes,
                EndInitLoop, InitReturns, Recheck, Restart, Goes
  <2>2. UNCHANGED <<threadVars, mainVars>>
    BY <1>2 DEF Initialize
  <2> QED
    BY <1>1, <2>1, <2>2
<1>3. CASE \E t \in Threads : Thread(t)
  BY <1>3, JoinThread
<1>4. CASE Main
  BY <1>4, JoinMain
<1>5. CASE UNCHANGED vars
  <2>1. job' = job /\ UNCHANGED <<threadVars, mainVars>>
    BY <1>5 DEF vars, initVars
  <2> QED
    BY <1>1, <2>1
<1> QED
  BY <1>2, <1>3, <1>4, <1>5 DEF Next

(* The summary counts every request that was ever submitted, for every     *)
(* number of threads and whatever they did while they were being stopped.  *)
THEOREM Summary == Spec => []TotalsExact
<1>1. ThreadsInv /\ JoinInv => TotalsExact
  <2> SUFFICES ASSUME ThreadsInv, JoinInv, mainPc = "fin"
               PROVE  report = Cardinality(Requests(submitted, Threads))
    BY DEF TotalsExact
  <2> DEFINE S == 0 .. job.threads - 1
  <2>1. job.threads \in Nat /\ job.threads <= MaxThreads /\ MaxThreads \in Nat
    BY MainAssumption, ThreadsOfJob DEF ThreadsInv, MonitorInv, ViewTypes
  <2>2. S \subseteq Threads /\ \A t \in Threads : (t \in S <=> t < job.threads) /\ (t \notin S => t >= job.threads)
    BY <2>1 DEF Threads
  <2>3. \A t \in S : counted[t] = submitted[t]
    BY <2>2 DEF JoinInv
  <2>4. \A t \in Threads \ S : submitted[t] = 0
    BY <2>2 DEF JoinInv
  <2> HIDE DEF S
  <2>5. Requests(counted, S) = Requests(submitted, Threads)
    BY <2>2, <2>3, <2>4, SameRequests
  <2> QED
    BY <2>5 DEF JoinInv, S
<1>2. Init => ThreadsInv /\ JoinInv
  BY MonitorInitInv, GeneratorsInit, JoinInit DEF ThreadsInv
<1>3. ThreadsInv /\ JoinInv /\ [Next]_vars => ThreadsInv' /\ JoinInv'
  BY MonitorStep, GeneratorsStep, JoinStep DEF ThreadsInv
<1> QED
  BY <1>1, <1>2, <1>3, PTL DEF Spec

-----------------------------------------------------------------------------
(* Discards.                                                               *)

Requested == [page : RunPage, type : Types, current : BOOLEAN,
              state : {"drawn", "ready", "pushed", "submitted"}]

RequestTypes == request \in [Slot -> Requested \cup {none}]

(* The zone of a request that waits for its discard: nothing of it was     *)
(* written since it was begun, and no other request in flight counts.      *)
ZoneIsOld(s) ==
  /\ fresh \cap ZonePages(request[s].page) = {}
  /\ \A u \in Slot \ {s} :
       request[u] # none /\ request[u].page \in ZonePages(request[s].page) => ~ request[u].current

DiscardInv ==
  /\ RequestTypes
  /\ threads = 1 => /\ discarded \cap fresh = {}
                    /\ \A s \in In("drawn") : ZoneIsOld(s)

LEMMA SameSlots ==
  ASSUME threads' = threads, depth' = depth
  PROVE  Slot' = Slot /\ Workers' = Workers
BY DEF Slot, Workers

LEMMA DiscardInit == WorkloadInit => DiscardInv
BY DEF WorkloadInit, DiscardInv, RequestTypes, In

(* What is left alone by the steps that neither draw nor move a request.   *)
LEMMA DiscardKept ==
  ASSUME DiscardInv, UNCHANGED <<threads, depth, request, discarded, fresh>>
  PROVE  DiscardInv'
BY SameSlots DEF DiscardInv, RequestTypes, In, ZoneIsOld, ZonePages, RunPage, Requested

LEMMA FreeIdIsFree ==
  ASSUME NEW t, \E s \in Slot : s[1] = t /\ request[s] = none
  PROVE  FreeId(t) \in Slot /\ FreeId(t)[1] = t /\ request[FreeId(t)] = none
BY DEF FreeId

LEMMA AgedTypes ==
  ASSUME RequestTypes, NEW page
  PROVE  /\ Aged(page) \in [Slot -> Requested \cup {none}]
         /\ \A s \in Slot : request[s] = none => Aged(page)[s] = none
         /\ \A s \in Slot : request[s] # none =>
              Aged(page)[s].page = request[s].page /\ Aged(page)[s].state = request[s].state
BY DEF RequestTypes, Aged, Requested

(* One thread: while it prepares a request no other waits for its discard. *)
LEMMA DiscardPrepare ==
  ASSUME DiscardInv, NEW t \in Workers, PrepareRequest(t)
  PROVE  DiscardInv'
<1>1. PICK d \in Draws(gen), type \in Types :
        Draw(d) /\ patternGenerator(d) \in RunPage /\ Prepared(t, patternGenerator(d), type)
  BY DEF PrepareRequest
<1> DEFINE page == patternGenerator(d)
           new == [page |-> page, type |-> type, current |-> TRUE,
                   state |-> IF StartsZone(page) THEN "drawn" ELSE "ready"]
           id == FreeId(t)
<1>2. /\ threads' = threads /\ depth' = depth /\ discarded' = discarded
      /\ ~ Preparing(t) /\ page \in RunPage /\ RequestTypes
      /\ request' = [Aged(page) EXCEPT ![id] = new]
      /\ fresh' = IF StartsZone(page) THEN fresh \ ZonePages(page) ELSE fresh
  BY <1>1 DEF PrepareRequest, Prepared, DiscardInv
<1>3. id \in Slot /\ request[id] = none
  BY FreeIdIsFree DEF PrepareRequest
<1>4. new \in Requested /\ new.page = page
  BY <1>2 DEF Requested
<1> HIDE DEF page, new, id
<1>5. Slot' = Slot /\ Workers' = Workers /\ Requested' = Requested
  BY <1>2, SameSlots DEF Requested, RunPage
<1>6. RequestTypes'
  BY <1>2, <1>3, <1>4, <1>5, AgedTypes DEF RequestTypes
<1>7. ASSUME threads = 1
      PROVE  /\ discarded' \cap fresh' = {}
             /\ \A s \in In("drawn")' : ZoneIsOld(s)'
  <2>1. t = 0 /\ \A s \in Slot : s[1] = t
    BY <1>7 DEF Slot, Workers
  <2>2. In("drawn") = {}
    BY <1>2, <2>1 DEF Preparing, In
  <2>3. discarded' \cap fresh' = {}
    BY <1>2, <1>7 DEF DiscardInv
  <2>4. ASSUME NEW s \in In("drawn")' PROVE ZoneIsOld(s)'
    <3>1. s \in Slot /\ request'[s] # none /\ request'[s].state = "drawn"
      BY <1>5 DEF In
    <3>2. s = id
      <4>1. SUFFICES ASSUME s # id PROVE FALSE
        OBVIOUS
      <4>2. request'[s] = Aged(page)[s]
        BY <1>2, <1>3, <3>1, <4>1, AgedTypes
      <4>3. request[s] # none /\ request[s].state = "drawn"
        BY <1>2, <3>1, <4>2, AgedTypes
      <4> QED
        BY <2>2, <3>1, <4>3 DEF In
    <3>3. request'[s] = new
      BY <1>2, <1>3, <3>2, AgedTypes
    <3>4. StartsZone(page)
      BY <3>1, <3>3 DEF new
    <3>5. ZonePages(request[s].page)' = ZonePages(page)
      BY <1>4, <3>3 DEF ZonePages, RunPage
    <3>6. fresh' \cap ZonePages(page) = {}
      BY <1>2, <3>4
    <3>7. ASSUME NEW u \in Slot \ {s}, request'[u] # none, request'[u].page \in ZonePages(page)
          PROVE  ~ request'[u].current
      <4>1. request'[u] = Aged(page)[u]
        BY <1>2, <1>3, <3>2, <3>7, AgedTypes
      <4>2. request[u] # none /\ request[u].page \in ZonePages(page) /\ request[u] \in Requested
        BY <1>2, <3>7, <4>1, AgedTypes DEF RequestTypes
      <4>3. Aged(page)[u] = [request[u] EXCEPT !.current = FALSE]
        BY <3>4, <4>2 DEF Aged
      <4> QED
        BY <4>1, <4>2, <4>3 DEF Requested
    <3> QED
      BY <1>5, <3>5, <3>6, <3>7 DEF ZoneIsOld
  <2> QED
    BY <2>3, <2>4
<1> QED
  BY <1>2, <1>6, <1>7 DEF DiscardInv

LEMMA DiscardDiscard ==
  ASSUME DiscardInv, NEW s \in Slot, Discard(s)
  PROVE  DiscardInv'
<1>1. /\ threads' = threads /\ depth' = depth /\ fresh' = fresh
      /\ s \in In("drawn") /\ request[s] \in Requested /\ RequestTypes
      /\ discarded' \in {discarded, discarded \cup ZonePages(request[s].page)}
      /\ request' = [request EXCEPT ![s].state = "ready"]
  BY DEF Discard, DiscardRange, DiscardInv, RequestTypes, In
<1>2. Slot' = Slot /\ Requested' = Requested
  BY <1>1, SameSlots DEF Requested, RunPage
<1>3. /\ request' \in [Slot -> Requested \cup {none}]
      /\ request'[s].state = "ready"
      /\ \A u \in Slot \ {s} : request'[u] = request[u]
      /\ request'[s].page = request[s].page /\ request'[s].current = request[s].current
  BY <1>1 DEF RequestTypes, Requested
<1>4. ASSUME threads = 1
      PROVE  /\ discarded' \cap fresh' = {}
             /\ \A u \in In("drawn")' : ZoneIsOld(u)'
  <2>1. discarded' \cap fresh' = {}
    BY <1>1, <1>4 DEF DiscardInv, ZoneIsOld
  <2>2. ASSUME NEW u \in In("drawn")' PROVE ZoneIsOld(u)'
    <3>1. u \in Slot \ {s} /\ request'[u] = request[u] /\ u \in In("drawn")
      BY <1>2, <1>3 DEF In
    <3>2. ZoneIsOld(u) /\ s \in Slot \ {u} /\ request[s] # none
      BY <1>1, <1>4, <3>1 DEF DiscardInv, In
    <3>3. ZonePages(request[u].page)' = ZonePages(request[u].page)
      BY <3>1 DEF ZonePages, RunPage
    <3>4. ASSUME NEW v \in Slot \ {u}, request'[v] # none,
                 request'[v].page \in ZonePages(request[u].page)
          PROVE  ~ request'[v].current
      BY <1>3, <3>2, <3>4 DEF ZoneIsOld
    <3> QED
      BY <1>1, <1>2, <3>2, <3>3, <3>4 DEF ZoneIsOld
  <2> QED
    BY <2>1, <2>2
<1> QED
  BY <1>1, <1>2, <1>3, <1>4 DEF DiscardInv, RequestTypes

(* Requests that go on without being drawn or discarded.                   *)
LEMMA DiscardMove ==
  ASSUME DiscardInv, threads' = threads, depth' = depth, discarded' = discarded, fresh' = fresh,
         request' \in [Slot -> Requested \cup {none}],
         \A u \in Slot : \/ request'[u] = request[u]
                         \/ /\ request[u] # none
                            /\ request'[u].state # "drawn"
                            /\ request'[u].page = request[u].page
                            /\ request'[u].current = request[u].current
  PROVE  DiscardInv'
<1>1. Slot' = Slot /\ Requested' = Requested
  BY SameSlots DEF Requested, RunPage
<1>2. ASSUME threads = 1, NEW u \in In("drawn")' PROVE ZoneIsOld(u)'
  <2>1. u \in Slot /\ request'[u] = request[u] /\ u \in In("drawn")
    BY <1>1, <1>2 DEF In
  <2>2. ZoneIsOld(u)
    BY <1>2, <2>1 DEF DiscardInv
  <2>3. ZonePages(request[u].page)' = ZonePages(request[u].page)
    BY <2>1 DEF ZonePages, RunPage
  <2> QED
    BY <1>1, <2>2, <2>3 DEF ZoneIsOld
<1> QED
  BY <1>1, <1>2 DEF DiscardInv, RequestTypes

LEMMA DiscardPush ==
  ASSUME DiscardInv, NEW s \in Slot, Push(s)
  PROVE  DiscardInv'
<1>1. /\ request[s] \in Requested /\ request[s] # none
      /\ request' = [request EXCEPT ![s].state = "pushed"]
  BY DEF Push, In, DiscardInv, RequestTypes
<1>2. request' \in [Slot -> Requested \cup {none}]
  BY <1>1 DEF DiscardInv, RequestTypes, Requested
<1>3. \A u \in Slot : \/ request'[u] = request[u]
                      \/ /\ request[u] # none
                         /\ request'[u].state # "drawn"
                         /\ request'[u].page = request[u].page
                         /\ request'[u].current = request[u].current
  BY <1>1 DEF DiscardInv, RequestTypes, Requested
<1> QED
  BY <1>2, <1>3, DiscardMove DEF Push

LEMMA DiscardSubmit ==
  ASSUME DiscardInv, NEW t \in Workers, Submit(t)
  PROVE  DiscardInv'
<1>1. request' = [s \in Slot |-> IF s \in In("pushed") /\ s[1] = t
                                 THEN [request[s] EXCEPT !.state = "submitted"]
                                 ELSE request[s]]
  BY DEF Submit
<1>2. request' \in [Slot -> Requested \cup {none}]
  BY <1>1 DEF DiscardInv, RequestTypes, Requested, In
<1>3. \A u \in Slot : \/ request'[u] = request[u]
                      \/ /\ request[u] # none
                         /\ request'[u].state # "drawn"
                         /\ request'[u].page = request[u].page
                         /\ request'[u].current = request[u].current
  BY <1>1 DEF DiscardInv, RequestTypes, Requested, In
<1> QED
  BY <1>2, <1>3, DiscardMove DEF Submit

(* A write that another round of its zone has overtaken does not count.    *)
LEMMA DiscardComplete ==
  ASSUME DiscardInv, NEW s \in Slot, Complete(s)
  PROVE  DiscardInv'
<1> DEFINE r == request[s]
<1>1. /\ threads' = threads /\ depth' = depth /\ RequestTypes
      /\ r # none /\ r.state = "submitted"
      /\ request' = [request EXCEPT ![s] = none]
      /\ \/ discarded' = discarded /\ fresh' = fresh
         \/ /\ discarded' = discarded \ {r.page}
            /\ fresh' = fresh \/ (r.current /\ fresh' = fresh \cup {r.page})
  BY DEF Complete, In, DiscardInv
<1> HIDE DEF r
<1>2. Slot' = Slot /\ Requested' = Requested
  BY <1>1, SameSlots DEF Requested, RunPage
<1>3. /\ request' \in [Slot -> Requested \cup {none}]
      /\ request'[s] = none
      /\ \A u \in Slot \ {s} : request'[u] = request[u]
  BY <1>1 DEF RequestTypes
<1>4. ASSUME threads = 1
      PROVE  /\ discarded' \cap fresh' = {}
             /\ \A u \in In("drawn")' : ZoneIsOld(u)'
  <2>1. discarded' \cap fresh' = {}
    BY <1>1, <1>4 DEF DiscardInv
  <2>2. ASSUME NEW u \in In("drawn")' PROVE ZoneIsOld(u)'
    <3>1. u \in Slot \ {s} /\ request'[u] = request[u] /\ u \in In("drawn")
      BY <1>2, <1>3 DEF In
    <3>2. ZoneIsOld(u) /\ s \in Slot \ {u}
      BY <1>4, <3>1 DEF DiscardInv
    <3>3. ZonePages(request[u].page)' = ZonePages(request[u].page)
      BY <3>1 DEF ZonePages, RunPage
    <3>4. fresh' \cap ZonePages(request[u].page) = {}
      BY <1>1, <3>2 DEF ZoneIsOld, r
    <3>5. ASSUME NEW v \in Slot \ {u}, request'[v] # none,
                 request'[v].page \in ZonePages(request[u].page)
          PROVE  ~ request'[v].current
      BY <1>3, <3>2, <3>5 DEF ZoneIsOld
    <3> QED
      BY <1>2, <3>3, <3>4, <3>5 DEF ZoneIsOld
  <2> QED
    BY <2>1, <2>2
<1> QED
  BY <1>1, <1>2, <1>3, <1>4 DEF DiscardInv, RequestTypes

LEMMA DiscardStep == DiscardInv /\ [WorkloadNext]_workloadVars => DiscardInv'
<1> SUFFICES ASSUME DiscardInv, [WorkloadNext]_workloadVars PROVE DiscardInv'
  OBVIOUS
<1>1. CASE HistogramDraw
  BY <1>1, DiscardKept DEF HistogramDraw
<1>2. CASE StartRun
  BY <1>2, DiscardKept DEF StartRun
<1>3. CASE DrawStops
  BY <1>3, DiscardKept DEF DrawStops
<1>4. CASE \E t \in Workers : PrepareRequest(t) \/ Submit(t)
  BY <1>4, DiscardPrepare, DiscardSubmit
<1>5. CASE \E s \in Slot : Discard(s) \/ Push(s) \/ Complete(s)
  BY <1>5, DiscardDiscard, DiscardPush, DiscardComplete
<1>6. CASE UNCHANGED workloadVars
  BY <1>6, DiscardKept DEF workloadVars
<1> QED
  BY <1>1, <1>2, <1>3, <1>4, <1>5, <1>6 DEF WorkloadNext

(* Whatever the pattern, the number of requests in flight and the order in *)
(* which they complete: with one thread a discard never hits data written  *)
(* since its zone was begun.                                               *)
THEOREM SoleThread == WorkloadSpec => []SoleThreadLosesNothing
<1>1. DiscardInv => SoleThreadLosesNothing
  BY DEF DiscardInv, SoleThreadLosesNothing
<1> QED
  BY <1>1, DiscardInit, DiscardStep, PTL DEF WorkloadSpec

-----------------------------------------------------------------------------
(* The zns pattern.                                                        *)

GenFields == {"pattern", "logicalPages", "options", "seq", "shuffleVector", "zones",
              "zoneIds", "zoneOffsets", "inputTraces", "traceIndex", "lastPos"}

(* The fields a draw of no pattern changes.                                *)
SameObject(h, g) ==
  /\ DOMAIN h = DOMAIN g
  /\ h.pattern = g.pattern /\ h.options = g.options
  /\ h.logicalPages = g.logicalPages /\ h.shuffleVector = g.shuffleVector

IsGenerator(g) ==
  /\ DOMAIN g = GenFields
  /\ \E k \in DOMAIN Keywords : g.pattern = Keywords[k]
  /\ g.traceIndex \in Nat /\ g.options.totalWrites \in Nat

(* The cursors write to zones of their own; one that has no zone yet looks *)
(* as if it had filled it.                                                 *)
Cursors(g) ==
  LET size   == g.options.pagesPerZone
      active == g.options.activeZones
      zones  == ZoneCount(g.options)
  IN /\ size \in Nat \ {0} /\ active \in Nat \ {0} /\ zones \in Nat /\ active < zones
     /\ g.options.logicalPages \in Nat /\ zones * size <= g.options.logicalPages
     /\ DOMAIN g.shuffleVector = 0 .. g.options.logicalPages - 1
     /\ g.zoneIds \in [1 .. active -> -1 .. zones - 1]
     /\ g.zoneOffsets \in [1 .. active -> 1 .. size]
     /\ \A i \in 1 .. active : g.zoneIds[i] = -1 => g.zoneOffsets[i] = size
     /\ \A i, j \in 1 .. active : i # j /\ g.zoneIds[i] = g.zoneIds[j] => g.zoneIds[i] = -1

ForRun(g) ==
  /\ g.options.logicalPages = LogicalPages /\ g.options.pagesPerZone = PagesPerZone
  /\ g.options.activeZones = ActiveZones

CursorInv ==
  /\ \E k \in DOMAIN Keywords : Keywords[k] \in string
  /\ IsGenerator(gen)
  /\ gen.pattern = "zns" => Cursors(gen) /\ (stage # "histogram" => ForRun(gen))

LEMMA KnownKeyword ==
  ASSUME NEW s, \E k \in DOMAIN Keywords : Keywords[k] \in s
  PROVE  \E k \in DOMAIN Keywords : stringToPattern(s) = Keywords[k]
<1> DEFINE First(k) == Keywords[k] \in s /\ \A j \in 1 .. k - 1 : Keywords[j] \notin s
<1>1. DOMAIN Keywords = 1 .. 10
  BY DEF Keywords
<1>2. \E k \in DOMAIN Keywords : First(k)
  <2> DEFINE In1(k) == Keywords[k] \in s
  <2>1. \E k \in 1 .. 10 : In1(k)
    BY <1>1
  <2> HIDE DEF In1
  <2>2. \E k \in 1 .. 10 : In1(k) /\ \A j \in 1 .. k - 1 : ~ In1(j)
    <3>1. CASE In1(1)
      BY <3>1
    <3>2. CASE ~ In1(1) /\ In1(2)
      BY <3>2
    <3>3. CASE ~ In1(1) /\ ~ In1(2) /\ In1(3)
      BY <3>3
    <3>4. CASE ~ In1(1) /\ ~ In1(2) /\ ~ In1(3) /\ In1(4)
      BY <3>4
    <3>5. CASE ~ In1(1) /\ ~ In1(2) /\ ~ In1(3) /\ ~ In1(4) /\ In1(5)
      BY <3>5
    <3>6. CASE ~ In1(1) /\ ~ In1(2) /\ ~ In1(3) /\ ~ In1(4) /\ ~ In1(5) /\ In1(6)
      BY <3>6
    <3>7. CASE ~ In1(1) /\ ~ In1(2) /\ ~ In1(3) /\ ~ In1(4) /\ ~ In1(5) /\ ~ In1(6) /\ In1(7)
      BY <3>7
    <3>8. CASE \A j \in 1 .. 7 : ~ In1(j)
      BY <2>1, <3>8
    <3> QED
      BY <3>1, <3>2, <3>3, <3>4, <3>5, <3>6, <3>7, <3>8
  <2> QED
    BY <1>1, <2>2 DEF In1
<1> QED
  BY <1>2 DEF stringToPattern

LEMMA NewGenerator ==
  ASSUME NEW s, NEW o, \E k \in DOMAIN Keywords : Keywords[k] \in s,
         o.logicalPages \in Nat, o.pagesPerZone \in Nat \ {0}, o.activeZones \in Nat \ {0},
         o.totalWrites \in Nat, NEW g \in Generators(s, o)
  PROVE  /\ IsGenerator(g)
         /\ g.options = o /\ g.pattern = stringToPattern(s)
         /\ g.pattern = "zns" => Cursors(g) /\ \A i \in DOMAIN g.zoneIds : g.zoneIds[i] = -1
<1>1. PICK v \in ShuffleVectors(o.logicalPages, IsShuffled(s)), zones \in Zones(stringToPattern(s), o) :
        g = [pattern |-> stringToPattern(s), logicalPages |-> o.logicalPages, options |-> o,
             seq |-> 0, shuffleVector |-> v, zones |-> zones,
             zoneIds |-> [i \in 1 .. o.activeZones |-> -1],
             zoneOffsets |-> [i \in 1 .. o.activeZones |-> o.pagesPerZone],
             inputTraces |-> <<>>, traceIndex |-> 0, lastPos |-> 0]
  BY DEF Generators
<1>2. CanConstruct(stringToPattern(s), o)
  BY DEF Generators
<1>3. /\ DOMAIN g = GenFields /\ g.options = o /\ g.pattern = stringToPattern(s)
      /\ g.shuffleVector = v /\ g.traceIndex = 0
      /\ g.zoneIds = [i \in 1 .. o.activeZones |-> -1]
      /\ g.zoneOffsets = [i \in 1 .. o.activeZones |-> o.pagesPerZone]
  BY <1>1 DEF GenFields
<1>4. DOMAIN v = 0 .. o.logicalPages - 1
  BY DEF ShuffleVectors
<1>5. IsGenerator(g)
  BY <1>3, KnownKeyword DEF IsGenerator
<1>6. ASSUME g.pattern = "zns" PROVE Cursors(g)
  <2> DEFINE zc == ZoneCount(o)
  <2>1. zc \in Nat /\ zc * o.pagesPerZone <= o.logicalPages
    BY QuotientBounds DEF ZoneCount
  <2>2. o.activeZones < zc
    BY <1>2, <1>3, <1>6 DEF CanConstruct
  <2> HIDE DEF zc
  <2>3. /\ g.zoneIds \in [1 .. o.activeZones -> -1 .. zc - 1]
        /\ g.zoneOffsets \in [1 .. o.activeZones -> 1 .. o.pagesPerZone]
        /\ \A i \in 1 .. o.activeZones : g.zoneOffsets[i] = o.pagesPerZone /\ g.zoneIds[i] = -1
    BY <1>3, <2>1
  <2> QED
    BY <1>3, <1>4, <2>1, <2>2, <2>3 DEF Cursors, zc
<1> QED
  BY <1>3, <1>5, <1>6

(* A draw takes the next page of a zone or the first one of a free zone.   *)
IsNext(g, i, d) ==
  /\ g.zoneOffsets[i] < g.options.pagesPerZone
  /\ d.page = g.zoneIds[i] * g.options.pagesPerZone + g.zoneOffsets[i]
  /\ d.gen = [g EXCEPT !.zoneOffsets[i] = g.zoneOffsets[i] + 1]

IsOpen(g, i, z, d) ==
  /\ ~ (g.zoneOffsets[i] < g.options.pagesPerZone)
  /\ d.page = z * g.options.pagesPerZone
  /\ d.gen = [g EXCEPT !.zoneIds[i] = z, !.zoneOffsets[i] = 1]

LEMMA CursorDraws ==
  ASSUME NEW g, NEW d \in accessZNS(g)
  PROVE  \E i \in DOMAIN g.zoneIds :
           IsNext(g, i, d) \/ \E z \in FreeZones(g) : IsOpen(g, i, z, d)
<1>1. PICK i \in DOMAIN g.zoneIds :
        d \in IF g.zoneOffsets[i] < g.options.pagesPerZone
              THEN {Drawn(g.zoneIds[i] * g.options.pagesPerZone + g.zoneOffsets[i],
                          [g EXCEPT !.zoneOffsets[i] = @ + 1])}
              ELSE {Drawn(z * g.options.pagesPerZone,
                          [g EXCEPT !.zoneIds[i] = z, !.zoneOffsets[i] = 1]) : z \in FreeZones(g)}
  BY DEF accessZNS
<1>2. CASE g.zoneOffsets[i] < g.options.pagesPerZone
  BY <1>1, <1>2 DEF IsNext, Drawn
<1>3. CASE ~ (g.zoneOffsets[i] < g.options.pagesPerZone)
  <2>1. PICK z \in FreeZones(g) :
          d = Drawn(z * g.options.pagesPerZone, [g EXCEPT !.zoneIds[i] = z, !.zoneOffsets[i] = 1])
    BY <1>1, <1>3
  <2>2. IsOpen(g, i, z, d)
    BY <1>3, <2>1 DEF IsOpen, Drawn
  <2> QED
    BY <2>2
<1> QED
  BY <1>2, <1>3

LEMMA DrawKeeps ==
  ASSUME NEW g, IsGenerator(g), NEW d \in Draws(g)
  PROVE  SameObject(d.gen, g) /\ IsGenerator(d.gen)
<1>0. DOMAIN g = GenFields /\ g.traceIndex \in Nat /\ g.options.totalWrites \in Nat
  BY DEF IsGenerator
<1>1. ASSUME NEW x \in Sequential(g) PROVE SameObject(x.gen, g) /\ x.gen.traceIndex \in Nat
  BY <1>0, <1>1 DEF Sequential, Drawn, SameObject, GenFields
<1>2. ASSUME NEW x \in Random(g) PROVE SameObject(x.gen, g) /\ x.gen.traceIndex \in Nat
  BY <1>0, <1>2 DEF Random, Drawn, SameObject, GenFields
<1>3. ASSUME NEW x \in accessZonesGenerator(g) PROVE SameObject(x.gen, g) /\ x.gen.traceIndex \in Nat
  <2>1. PICK i \in DOMAIN g.zones :
          \E e \in SubDraws(g.zones[i].sub) :
            x = Drawn(g.zones[i].offset + e.page, [g EXCEPT !.zones[i].sub = e.gen])
    BY <1>3 DEF accessZonesGenerator
  <2>2. PICK e \in SubDraws(g.zones[i].sub) :
          x = Drawn(g.zones[i].offset + e.page, [g EXCEPT !.zones[i].sub = e.gen])
    BY <2>1
  <2>3. x.gen = [g EXCEPT !.zones[i].sub = e.gen]
    BY <2>2 DEF Drawn
  <2> QED
    BY <1>0, <2>3 DEF SameObject, GenFields
<1>4. ASSUME NEW x \in getPageFromFIOTrace(g) PROVE SameObject(x.gen, g) /\ x.gen.traceIndex \in Nat
  <2> DEFINE left == g.options.totalWrites - g.lastPos
             read == IF left < ChunkSize THEN left ELSE ChunkSize
             h == IF FioFetches(g) THEN [g EXCEPT !.lastPos = @ + read] ELSE g
  <2>1. DOMAIN h = DOMAIN g /\ SameObject(h, g) /\ h.traceIndex = g.traceIndex
    BY <1>0 DEF SameObject, GenFields
  <2>2. x.gen = h \/ x.gen = [h EXCEPT !.traceIndex = @ + 1]
    <3> HIDE DEF h, left
    <3>1. CASE FioFetches(g) /\ left = 0
      BY <1>4, <3>1 DEF getPageFromFIOTrace, left
    <3>2. CASE ~ (FioFetches(g) /\ left = 0) /\ g.traceIndex >= g.options.totalWrites
      BY <1>4, <3>2 DEF getPageFromFIOTrace, left, h, Drawn
    <3>3. CASE ~ (FioFetches(g) /\ left = 0) /\ g.traceIndex < g.options.totalWrites
      BY <1>4, <3>3 DEF getPageFromFIOTrace, left, h, Drawn
    <3> QED
      BY <1>0, <3>1, <3>2, <3>3
  <2> HIDE DEF h
  <2> QED
    BY <1>0, <2>1, <2>2 DEF SameObject, GenFields
<1>5. ASSUME NEW x \in accessZNS(g) PROVE SameObject(x.gen, g) /\ x.gen.traceIndex \in Nat
  <2>1. PICK i \in DOMAIN g.zoneIds : IsNext(g, i, x) \/ \E z \in FreeZones(g) : IsOpen(g, i, z, x)
    BY <1>5, CursorDraws
  <2> QED
    BY <1>0, <2>1 DEF SameObject, GenFields, IsNext, IsOpen
<1>6. ASSUME g.pattern = "trace", file # <<>> PROVE SameObject(d.gen, g) /\ d.gen.traceIndex \in Nat
  <2>1. d = getPageFromParsedTrace(g)
    BY <1>6 DEF Draws
  <2> DEFINE index == (g.traceIndex + 1) % ChunkSize
  <2>2. PICK chunk : d.gen = [g EXCEPT !.inputTraces = chunk, !.traceIndex = index]
    BY <2>1 DEF getPageFromParsedTrace, Drawn
  <2>3. index \in Nat
    BY <1>0, PatternAssumption
  <2> HIDE DEF index
  <2> QED
    BY <1>0, <2>2, <2>3 DEF SameObject, GenFields
<1>7. ASSUME ~ (g.pattern = "trace" /\ file # <<>>) PROVE SameObject(d.gen, g) /\ d.gen.traceIndex \in Nat
  <2>1. d \in PatternDraws(g)
    BY <1>7 DEF Draws
  <2>2. g.pattern \in {"sequential", "uniform", "beta", "seqzones", "zones", "fiozipf",
                       "zipf", "trace", "mockdb", "zns"}
    BY DEF IsGenerator, Keywords
  <2>3. \/ d \in Sequential(g) \/ d \in Random(g) \/ d \in accessZonesGenerator(g)
        \/ d \in getPageFromFIOTrace(g) \/ d \in accessZNS(g)
    BY <2>1, <2>2 DEF PatternDraws, accessDBGenerator
  <2> QED
    BY <2>3, <1>1, <1>2, <1>3, <1>4, <1>5
<1> QED
  BY <1>6, <1>7 DEF IsGenerator, SameObject

LEMMA ImageIsNoLarger ==
  ASSUME NEW S, IsFiniteSet(S), NEW f
  PROVE  IsFiniteSet({f[x] : x \in S}) /\ Cardinality({f[x] : x \in S}) <= Cardinality(S)
<1> DEFINE T == {f[x] : x \in S}
           h == [x \in S |-> f[x]]
<1>1. h \in Surjection(S, T)
  BY DEF Surjection
<1> QED
  BY <1>1, FS_Surjection

(* Zones lie within the pages of the device.                               *)
LEMMA ZonePagesExist ==
  ASSUME NEW zones \in Nat, NEW size \in Nat \ {0}, NEW pages \in Nat, zones * size <= pages,
         NEW z \in 0 .. zones - 1, NEW k \in 0 .. size - 1
  PROVE  z * size + k \in 0 .. pages - 1
<1>1. (z + 1) * size <= zones * size
  <2>1. z + 1 \in Nat /\ z + 1 <= zones
    OBVIOUS
  <2> QED
    BY ONLY <2>1, zones \in Nat, size \in Nat \ {0}, z \in 0 .. zones - 1
<1>2. (z + 1) * size = z * size + size /\ z * size \in Nat
  OBVIOUS
<1> QED
  BY <1>1, <1>2

LEMMA ContinueZone ==
  ASSUME NEW g, DOMAIN g = GenFields, Cursors(g),
         NEW d, NEW i \in DOMAIN g.zoneIds, IsNext(g, i, d)
  PROVE  /\ Cursors(d.gen) /\ d.page \in DOMAIN g.shuffleVector
         /\ g.zoneIds[i] \in 0 .. ZoneCount(g.options) - 1
         /\ d.gen.zoneIds = g.zoneIds
         /\ d.gen.zoneOffsets = [g.zoneOffsets EXCEPT ![i] = g.zoneOffsets[i] + 1]
<1> DEFINE size == g.options.pagesPerZone
           active == g.options.activeZones
           zones == ZoneCount(g.options)
           h == d.gen
<1>1. /\ h = [g EXCEPT !.zoneOffsets[i] = g.zoneOffsets[i] + 1]
      /\ h.options = g.options /\ h.shuffleVector = g.shuffleVector
      /\ h.zoneIds = g.zoneIds
      /\ h.zoneOffsets = [g.zoneOffsets EXCEPT ![i] = g.zoneOffsets[i] + 1]
  BY DEF IsNext, GenFields
<1>2. /\ size \in Nat \ {0} /\ active \in Nat \ {0} /\ zones \in Nat /\ active < zones
      /\ g.options.logicalPages \in Nat /\ zones * size <= g.options.logicalPages
      /\ DOMAIN g.shuffleVector = 0 .. g.options.logicalPages - 1
  BY DEF Cursors
<1>a. /\ size \in Nat \ {0} /\ active \in Nat \ {0} /\ zones \in Nat
      /\ g.zoneIds \in [1 .. active -> -1 .. zones - 1]
      /\ g.zoneOffsets \in [1 .. active -> 1 .. size]
  BY DEF Cursors
<1>b. \A k \in 1 .. active : g.zoneIds[k] = -1 => g.zoneOffsets[k] = size
  BY DEF Cursors
<1>c. \A k, j \in 1 .. active : k # j /\ g.zoneIds[k] = g.zoneIds[j] => g.zoneIds[k] = -1
  BY DEF Cursors
<1>3. g.zoneOffsets[i] < size /\ d.page = g.zoneIds[i] * size + g.zoneOffsets[i]
  BY DEF IsNext
<1> HIDE DEF size, active, zones, h
<1>4. i \in 1 .. active /\ g.zoneIds[i] \in 0 .. zones - 1 /\ g.zoneOffsets[i] \in 0 .. size - 1
  <2>1. i \in 1 .. active
    BY <1>a
  <2>2. g.zoneOffsets[i] \in 1 .. size /\ g.zoneIds[i] \in -1 .. zones - 1
    BY <2>1, <1>a
  <2>3. g.zoneIds[i] # -1
    BY <2>1, <2>2, <1>3, <1>a, <1>b
  <2> QED
    BY ONLY <2>1, <2>2, <2>3, <1>3, <1>a, SMTT(30)
<1>5. d.page \in DOMAIN g.shuffleVector
  BY <1>2, <1>3, <1>4, ZonePagesExist
<1>6. /\ h.zoneOffsets \in [1 .. active -> 1 .. size]
      /\ \A k \in 1 .. active : h.zoneIds[k] = -1 => h.zoneOffsets[k] = size
  <2>1. g.zoneOffsets[i] + 1 \in 1 .. size
    BY ONLY <1>4, <1>a, SMTT(30)
  <2>2. g.zoneIds[i] # -1
    BY <1>4, <1>a
  <2> QED
    BY ONLY <2>1, <2>2, <1>1, <1>4, <1>a, <1>b, SMTT(30)
<1>7. /\ h.zoneIds \in [1 .. active -> -1 .. zones - 1]
      /\ \A k, j \in 1 .. active : k # j /\ h.zoneIds[k] = h.zoneIds[j] => h.zoneIds[k] = -1
  BY <1>1, <1>a, <1>c
<1>8. Cursors(h)
  BY <1>1, <1>2, <1>6, <1>7, SMTT(30) DEF Cursors, size, active, zones
<1> QED
  BY <1>1, <1>4, <1>5, <1>8 DEF h, zones

LEMMA BeginZone ==
  ASSUME NEW g, DOMAIN g = GenFields, Cursors(g),
         NEW d, NEW i \in DOMAIN g.zoneIds, NEW z \in FreeZones(g), IsOpen(g, i, z, d)
  PROVE  /\ Cursors(d.gen) /\ d.page \in DOMAIN g.shuffleVector
         /\ z \in 0 .. ZoneCount(g.options) - 1
         /\ d.gen.zoneIds = [g.zoneIds EXCEPT ![i] = z]
         /\ d.gen.zoneOffsets = [g.zoneOffsets EXCEPT ![i] = 1]
         /\ g.zoneOffsets[i] = g.options.pagesPerZone
<1> DEFINE size == g.options.pagesPerZone
           active == g.options.activeZones
           zones == ZoneCount(g.options)
           h == d.gen
<1>1. /\ h.options = g.options /\ h.shuffleVector = g.shuffleVector
      /\ h.zoneIds = [g.zoneIds EXCEPT ![i] = z]
      /\ h.zoneOffsets = [g.zoneOffsets EXCEPT ![i] = 1]
  BY DEF IsOpen, GenFields
<1>2. /\ size \in Nat \ {0} /\ active \in Nat \ {0} /\ zones \in Nat /\ active < zones
      /\ g.options.logicalPages \in Nat /\ zones * size <= g.options.logicalPages
      /\ DOMAIN g.shuffleVector = 0 .. g.options.logicalPages - 1
  BY DEF Cursors
<1>a. /\ size \in Nat \ {0} /\ active \in Nat \ {0} /\ zones \in Nat
      /\ g.zoneIds \in [1 .. active -> -1 .. zones - 1]
      /\ g.zoneOffsets \in [1 .. active -> 1 .. size]
  BY DEF Cursors
<1>b. \A k \in 1 .. active : g.zoneIds[k] = -1 => g.zoneOffsets[k] = size
  BY DEF Cursors
<1>c. \A k, j \in 1 .. active : k # j /\ g.zoneIds[k] = g.zoneIds[j] => g.zoneIds[k] = -1
  BY DEF Cursors
<1>3. ~ (g.zoneOffsets[i] < size) /\ d.page = z * size
  BY DEF IsOpen
<1>4. z \in 0 .. zones - 1 /\ \A k \in DOMAIN g.zoneIds : g.zoneIds[k] # z
  BY DEF FreeZones
<1> HIDE DEF size, active, zones, h
<1>5. i \in 1 .. active /\ g.zoneOffsets[i] = size
  BY <1>3, <1>a
<1>6. d.page \in DOMAIN g.shuffleVector
  <2>1. 0 \in 0 .. size - 1
    BY <1>2
  <2>2. z * size + 0 \in 0 .. g.options.logicalPages - 1
    BY <1>2, <1>4, <2>1, ZonePagesExist
  <2>3. z * size \in Int
    BY <1>2, <1>4
  <2> QED
    BY <1>2, <1>3, <2>2, <2>3
<1>7. /\ h.zoneIds \in [1 .. active -> -1 .. zones - 1]
      /\ h.zoneOffsets \in [1 .. active -> 1 .. size]
      /\ \A k \in 1 .. active : h.zoneIds[k] = -1 => h.zoneOffsets[k] = size
  <2>1. z \in -1 .. zones - 1 /\ z # -1 /\ 1 \in 1 .. size
    BY <1>4, <1>a
  <2>2. h.zoneIds \in [1 .. active -> -1 .. zones - 1]
    BY ONLY <2>1, <1>1, <1>5, <1>a, SMTT(30)
  <2>3. h.zoneOffsets \in [1 .. active -> 1 .. size]
    BY ONLY <2>1, <1>1, <1>5, <1>a
  <2>4. ASSUME NEW k \in 1 .. active, h.zoneIds[k] = -1 PROVE h.zoneOffsets[k] = size
    <3>1. k # i
      BY <1>1, <1>5, <1>a, <2>1, <2>4
    <3> QED
      BY <1>1, <1>5, <1>a, <1>b, <2>4, <3>1
  <2> QED
    BY <2>2, <2>3, <2>4
<1>8. ASSUME NEW k \in 1 .. active, NEW j \in 1 .. active, k # j, h.zoneIds[k] = h.zoneIds[j]
      PROVE  h.zoneIds[k] = -1
  BY <1>1, <1>4, <1>5, <1>8, <1>a, <1>c, SMTT(30)
<1>9. Cursors(h)
  BY <1>1, <1>2, <1>7, <1>8 DEF Cursors, size, active, zones
<1> QED
  BY <1>1, <1>4, <1>5, <1>6, <1>9 DEF h, zones, size

(* There are more zones than cursors: one is always free.                  *)
LEMMA ZoneIsFree ==
  ASSUME NEW g, Cursors(g)
  PROVE  FreeZones(g) # {}
<1> DEFINE active == g.options.activeZones
           zones == ZoneCount(g.options)
           used == {g.zoneIds[k] : k \in 1 .. active}
<1>1. /\ active \in Nat \ {0} /\ zones \in Nat /\ active < zones
      /\ DOMAIN g.zoneIds = 1 .. active
  BY DEF Cursors
<1> HIDE DEF active, zones
<1>2. IsFiniteSet(1 .. active) /\ Cardinality(1 .. active) = active
  BY <1>1, FS_Interval
<1>3. IsFiniteSet(used) /\ Cardinality(used) <= active
  BY ONLY <1>2, ImageIsNoLarger DEF used
<1>4. IsFiniteSet(0 .. zones - 1) /\ Cardinality(0 .. zones - 1) = zones
  BY <1>1, FS_Interval
<1>5. ~ (0 .. zones - 1 \subseteq used)
  <2>1. SUFFICES ASSUME 0 .. zones - 1 \subseteq used PROVE FALSE
    OBVIOUS
  <2>2. Cardinality(0 .. zones - 1) <= Cardinality(used)
    BY <1>3, <2>1, FS_Subset
  <2> HIDE DEF used
  <2> QED
    BY <1>1, <1>3, <1>4, <2>2, FS_CardinalityType
<1>6. PICK z \in 0 .. zones - 1 : \A k \in 1 .. active : g.zoneIds[k] # z
  BY <1>5
<1> QED
  BY <1>1, <1>6 DEF FreeZones, zones

LEMMA CursorCanDraw ==
  ASSUME NEW g, g.pattern = "zns", Cursors(g)
  PROVE  Draws(g) # {}
<1>1. 1 \in DOMAIN g.zoneIds
  BY DEF Cursors
<1>2. PICK z : z \in FreeZones(g)
  BY ZoneIsFree
<1>3. ASSUME g.zoneOffsets[1] < g.options.pagesPerZone PROVE accessZNS(g) # {}
  <2>1. Drawn(g.zoneIds[1] * g.options.pagesPerZone + g.zoneOffsets[1],
              [g EXCEPT !.zoneOffsets[1] = @ + 1]) \in accessZNS(g)
    BY <1>1, <1>3 DEF accessZNS
  <2> QED
    BY <2>1
<1>4. ASSUME ~ (g.zoneOffsets[1] < g.options.pagesPerZone) PROVE accessZNS(g) # {}
  <2> DEFINE opened == {Drawn(y * g.options.pagesPerZone,
                              [g EXCEPT !.zoneIds[1] = y, !.zoneOffsets[1] = 1]) : y \in FreeZones(g)}
  <2>1. opened # {}
    BY <1>2
  <2>2. opened \subseteq accessZNS(g)
    BY <1>1, <1>4 DEF accessZNS
  <2> QED
    BY <2>1, <2>2
<1>5. accessZNS(g) # {}
  BY <1>3, <1>4
<1> QED
  BY <1>5 DEF Draws, PatternDraws

LEMMA CursorDraw ==
  ASSUME NEW g, IsGenerator(g), g.pattern = "zns", Cursors(g), NEW d \in Draws(g)
  PROVE  /\ Cursors(d.gen) /\ d.page \in DOMAIN g.shuffleVector
         /\ \E i \in DOMAIN g.zoneIds :
              IsNext(g, i, d) \/ \E z \in FreeZones(g) : IsOpen(g, i, z, d)
<1>1. d \in accessZNS(g)
  BY DEF Draws, PatternDraws
<1>2. PICK i \in DOMAIN g.zoneIds :
        IsNext(g, i, d) \/ \E z \in FreeZones(g) : IsOpen(g, i, z, d)
  BY <1>1, CursorDraws
<1> QED
  BY <1>2, ContinueZone, BeginZone DEF IsGenerator

(* What the abstract device sees of a generator.                           *)
RunZones == 0 .. ZoneCount(RunOptions(0)) - 1

WrittenBy(g) ==
  [z \in RunZones |->
     IF \E i \in DOMAIN g.zoneIds : g.zoneIds[i] = z
     THEN g.zoneOffsets[CHOOSE i \in DOMAIN g.zoneIds : g.zoneIds[i] = z]
     ELSE PagesPerZone]

LEMMA WrittenOfZones ==
  ZonesWritten = IF gen.pattern = "zns" /\ stage # "histogram" THEN WrittenBy(gen)
                 ELSE [z \in RunZones |-> PagesPerZone]
BY DEF ZonesWritten, WrittenBy, RunZones

LEMMA RunCursors ==
  ASSUME NEW g, Cursors(g), ForRun(g)
  PROVE  /\ g.options.pagesPerZone = PagesPerZone /\ g.options.activeZones = ActiveZones
         /\ ZoneCount(g.options) - 1 \in Int /\ 0 .. ZoneCount(g.options) - 1 = RunZones
         /\ DOMAIN g.zoneIds = 1 .. ActiveZones /\ DOMAIN g.zoneOffsets = 1 .. ActiveZones
         /\ \A i \in 1 .. ActiveZones : g.zoneOffsets[i] \in 1 .. PagesPerZone
         /\ \A i, j \in 1 .. ActiveZones : g.zoneIds[i] \in RunZones /\ g.zoneIds[i] = g.zoneIds[j] => i = j
<1>1. ZoneCount(g.options) = ZoneCount(RunOptions(0))
  BY DEF ZoneCount, ForRun, RunOptions
<1>2. -1 \notin RunZones
  BY DEF RunZones
<1> QED
  BY <1>1, <1>2 DEF Cursors, ForRun, RunZones

LEMMA WrittenIn ==
  ASSUME NEW g, Cursors(g), ForRun(g)
  PROVE  /\ \A i \in 1 .. ActiveZones : g.zoneIds[i] \in RunZones =>
              WrittenBy(g)[g.zoneIds[i]] = g.zoneOffsets[i]
         /\ \A z \in RunZones : (\A i \in 1 .. ActiveZones : g.zoneIds[i] # z) =>
              WrittenBy(g)[z] = PagesPerZone
<1>1. ASSUME NEW i \in 1 .. ActiveZones, g.zoneIds[i] \in RunZones
      PROVE  WrittenBy(g)[g.zoneIds[i]] = g.zoneOffsets[i]
  <2> DEFINE c == CHOOSE k \in DOMAIN g.zoneIds : g.zoneIds[k] = g.zoneIds[i]
  <2>1. i \in DOMAIN g.zoneIds
    BY <1>1, RunCursors
  <2>2. c \in DOMAIN g.zoneIds /\ g.zoneIds[c] = g.zoneIds[i]
    BY <2>1
  <2>3. WrittenBy(g)[g.zoneIds[i]] = g.zoneOffsets[c]
    BY <1>1, <2>1 DEF WrittenBy
  <2> HIDE DEF c
  <2>4. c = i
    BY <1>1, <2>2, RunCursors
  <2> QED
    BY <2>3, <2>4
<1>2. ASSUME NEW z \in RunZones, \A i \in 1 .. ActiveZones : g.zoneIds[i] # z
      PROVE  WrittenBy(g)[z] = PagesPerZone
  BY <1>2, RunCursors DEF WrittenBy
<1> QED
  BY <1>1, <1>2

(* The next page of a zone.                                                *)
LEMMA ContinuesZone ==
  ASSUME NEW g, DOMAIN g = GenFields, Cursors(g), ForRun(g),
         NEW d, NEW i \in DOMAIN g.zoneIds, IsNext(g, i, d)
  PROVE  /\ g.zoneIds[i] \in RunZones
         /\ WrittenBy(g)[g.zoneIds[i]] < PagesPerZone
         /\ WrittenBy(d.gen) = [WrittenBy(g) EXCEPT ![g.zoneIds[i]] = WrittenBy(g)[g.zoneIds[i]] + 1]
<1> DEFINE h == d.gen
           z == g.zoneIds[i]
<1>1. /\ Cursors(h) /\ z \in RunZones /\ h.zoneIds = g.zoneIds
      /\ h.zoneOffsets = [g.zoneOffsets EXCEPT ![i] = g.zoneOffsets[i] + 1]
  BY ContinueZone, RunCursors
<1>2. ForRun(h)
  BY DEF IsNext, ForRun, GenFields
<1>3. i \in 1 .. ActiveZones /\ g.zoneOffsets[i] < PagesPerZone
  BY RunCursors DEF IsNext
<1>4. WrittenBy(g)[z] = g.zoneOffsets[i]
  BY <1>1, <1>3, WrittenIn
<1> HIDE DEF h
<1>5. WrittenBy(h)[z] = g.zoneOffsets[i] + 1
  BY <1>1, <1>2, <1>3, WrittenIn, RunCursors
<1>6. ASSUME NEW y \in RunZones, y # z PROVE WrittenBy(h)[y] = WrittenBy(g)[y]
  <2>1. CASE \E j \in 1 .. ActiveZones : g.zoneIds[j] = y
    <3>1. PICK j \in 1 .. ActiveZones : g.zoneIds[j] = y
      BY <2>1
    <3>2. j # i /\ h.zoneOffsets[j] = g.zoneOffsets[j]
      BY <1>1, <1>6, <3>1, RunCursors
    <3>3. WrittenBy(g)[g.zoneIds[j]] = g.zoneOffsets[j]
      BY <1>6, <3>1, WrittenIn
    <3>4. WrittenBy(h)[h.zoneIds[j]] = h.zoneOffsets[j]
      BY <1>1, <1>2, <1>6, <3>1, WrittenIn
    <3> QED
      BY <1>1, <3>1, <3>2, <3>3, <3>4
  <2>2. CASE \A j \in 1 .. ActiveZones : g.zoneIds[j] # y
    BY <1>1, <1>2, <1>6, <2>2, WrittenIn
  <2> QED
    BY <2>1, <2>2
<1> HIDE DEF z
<1>7. WrittenBy(h) = [WrittenBy(g) EXCEPT ![z] = WrittenBy(g)[z] + 1]
  <2>1. DOMAIN WrittenBy(h) = RunZones /\ DOMAIN WrittenBy(g) = RunZones
        /\ WrittenBy(h) = [x \in RunZones |-> WrittenBy(h)[x]]
    BY DEF WrittenBy
  <2> QED
    BY <1>1, <1>4, <1>5, <1>6, <2>1
<1> QED
  BY <1>1, <1>3, <1>4, <1>7 DEF h, z

(* The first page of a free zone: the zone the cursor leaves is full, and  *)
(* only the zones of the other cursors are not.                            *)
LEMMA BeginsZone ==
  ASSUME NEW g, DOMAIN g = GenFields, Cursors(g), ForRun(g),
         NEW d, NEW i \in DOMAIN g.zoneIds, NEW z \in FreeZones(g), IsOpen(g, i, z, d)
  PROVE  /\ z \in RunZones
         /\ WrittenBy(g)[z] = PagesPerZone
         /\ Cardinality({y \in RunZones : WrittenBy(g)[y] < PagesPerZone}) < ActiveZones
         /\ WrittenBy(d.gen) = [WrittenBy(g) EXCEPT ![z] = 1]
<1> DEFINE h == d.gen
           begun == {y \in RunZones : WrittenBy(g)[y] < PagesPerZone}
           others == (1 .. ActiveZones) \ {i}
           ids == {g.zoneIds[k] : k \in others}
<1>1. /\ Cursors(h) /\ z \in RunZones
      /\ h.zoneIds = [g.zoneIds EXCEPT ![i] = z]
      /\ h.zoneOffsets = [g.zoneOffsets EXCEPT ![i] = 1]
      /\ g.zoneOffsets[i] = PagesPerZone
  <2>1. /\ Cursors(h) /\ z \in 0 .. ZoneCount(g.options) - 1
        /\ h.zoneIds = [g.zoneIds EXCEPT ![i] = z]
        /\ h.zoneOffsets = [g.zoneOffsets EXCEPT ![i] = 1]
        /\ g.zoneOffsets[i] = g.options.pagesPerZone
    <3>1. Cursors(h)
      BY BeginZone
    <3>2. z \in 0 .. ZoneCount(g.options) - 1
      BY BeginZone
    <3>3. h.zoneIds = [g.zoneIds EXCEPT ![i] = z]
      BY DEF IsOpen, GenFields
    <3>4. h.zoneOffsets = [g.zoneOffsets EXCEPT ![i] = 1]
      BY DEF IsOpen, GenFields
    <3>5. g.zoneOffsets[i] = g.options.pagesPerZone
      BY BeginZone
    <3> QED
      BY <3>1, <3>2, <3>3, <3>4, <3>5
  <2>2. 0 .. ZoneCount(g.options) - 1 = RunZones /\ g.options.pagesPerZone = PagesPerZone
    BY RunCursors
  <2> QED
    BY <2>1, <2>2
<1>2. ForRun(h)
  BY DEF IsOpen, ForRun, GenFields
<1>3. i \in 1 .. ActiveZones /\ \A k \in 1 .. ActiveZones : g.zoneIds[k] # z
  BY RunCursors DEF FreeZones
<1>4. WrittenBy(g)[z] = PagesPerZone
  BY <1>1, <1>3, WrittenIn
<1>5. Cardinality(begun) < ActiveZones
  <2>1. begun \subseteq ids
    <3>1. SUFFICES ASSUME NEW y \in RunZones, WrittenBy(g)[y] < PagesPerZone PROVE y \in ids
      OBVIOUS
    <3>2. PICK k \in 1 .. ActiveZones : g.zoneIds[k] = y
      <4>1. CASE \A k \in 1 .. ActiveZones : g.zoneIds[k] # y
        BY <3>1, <4>1, WrittenIn, WorkloadAssumption
      <4> QED
        BY <4>1
    <3>3. k # i
      BY <1>1, <1>3, <3>1, <3>2, WrittenIn, WorkloadAssumption
    <3> QED
      BY <3>2, <3>3
  <2>2. IsFiniteSet(1 .. ActiveZones) /\ Cardinality(1 .. ActiveZones) = ActiveZones
    BY WorkloadAssumption, FS_Interval
  <2>3. IsFiniteSet(others) /\ Cardinality(others) = ActiveZones - 1
    BY <1>3, <2>2, FS_RemoveElement
  <2>4. IsFiniteSet(ids) /\ Cardinality(ids) <= Cardinality(others)
    BY ONLY <2>3, ImageIsNoLarger DEF ids
  <2>5. IsFiniteSet(begun) /\ Cardinality(begun) <= Cardinality(ids)
    BY ONLY <2>1, <2>4, FS_Subset
  <2> HIDE DEF begun, ids, others
  <2> QED
    BY <2>3, <2>4, <2>5, FS_CardinalityType, WorkloadAssumption
<1> HIDE DEF h
<1>6. WrittenBy(h)[z] = 1
  BY <1>1, <1>2, <1>3, WrittenIn, RunCursors
<1>7. ASSUME NEW y \in RunZones, y # z PROVE WrittenBy(h)[y] = WrittenBy(g)[y]
  <2>1. CASE \E j \in others : g.zoneIds[j] = y
    <3>1. PICK j \in others : g.zoneIds[j] = y
      BY <2>1
    <3>2. h.zoneIds[j] = y /\ h.zoneOffsets[j] = g.zoneOffsets[j]
      BY <1>1, <3>1, RunCursors
    <3>3. WrittenBy(g)[g.zoneIds[j]] = g.zoneOffsets[j]
      BY <1>7, <3>1, WrittenIn
    <3>4. WrittenBy(h)[h.zoneIds[j]] = h.zoneOffsets[j]
      <4>1. j \in 1 .. ActiveZones /\ h.zoneIds[j] \in RunZones
        BY <1>7, <3>1, <3>2
      <4> QED
        BY <1>1, <1>2, <4>1, WrittenIn
    <3> QED
      BY <3>1, <3>2, <3>3, <3>4
  <2>2. CASE \A j \in others : g.zoneIds[j] # y
    <3>1. \A j \in 1 .. ActiveZones : h.zoneIds[j] # y
      BY <1>1, <1>3, <1>7, <2>2, RunCursors
    <3>2. WrittenBy(h)[y] = PagesPerZone
      BY <1>1, <1>2, <1>7, <3>1, WrittenIn
    <3>3. WrittenBy(g)[y] = PagesPerZone
      <4>1. CASE g.zoneIds[i] = y
        BY <1>1, <1>3, <1>7, <4>1, WrittenIn
      <4>2. CASE g.zoneIds[i] # y
        BY <1>3, <1>7, <2>2, <4>2, WrittenIn
      <4> QED
        BY <4>1, <4>2
    <3> QED
      BY <3>2, <3>3
  <2> QED
    BY <2>1, <2>2
<1>8. WrittenBy(h) = [WrittenBy(g) EXCEPT ![z] = 1]
  <2>1. DOMAIN WrittenBy(h) = RunZones /\ DOMAIN WrittenBy(g) = RunZones
        /\ WrittenBy(h) = [x \in RunZones |-> WrittenBy(h)[x]]
    BY DEF WrittenBy
  <2> QED
    BY <1>1, <1>6, <1>7, <2>1
<1> QED
  BY <1>1, <1>4, <1>5, <1>8 DEF h

LEMMA SameCardinality == ASSUME NEW S PROVE Zoned!Cardinality(S) = Cardinality(S)
BY DEF Zoned!Cardinality, Cardinality

LEMMA CursorInit == WorkloadInit => CursorInv /\ Zoned!Init
<1> SUFFICES ASSUME WorkloadInit PROVE CursorInv /\ Zoned!Init
  OBVIOUS
<1>1. \E k \in DOMAIN Keywords : Keywords[k] \in string
  BY WorkloadAssumption DEF WorkloadInit
<1>2. PICK writes \in Nat : gen \in Generators(string, HistOptions(writes))
  BY WorkloadAssumption DEF WorkloadInit
<1>3. /\ HistOptions(writes).logicalPages \in Nat
      /\ HistOptions(writes).pagesPerZone \in Nat \ {0}
      /\ HistOptions(writes).activeZones \in Nat \ {0} /\ HistOptions(writes).totalWrites \in Nat
  BY WorkloadAssumption DEF HistOptions
<1>4. IsGenerator(gen) /\ (gen.pattern = "zns" => Cursors(gen))
  BY <1>1, <1>2, <1>3, NewGenerator
<1>5. stage = "histogram"
  BY DEF WorkloadInit
<1>6. Zoned!Init
  BY <1>5, WrittenOfZones DEF Zoned!Init, RunZones
<1> QED
  BY <1>1, <1>4, <1>5, <1>6 DEF CursorInv

(* The generator is left alone.                                            *)
LEMMA CursorsKept ==
  ASSUME CursorInv, UNCHANGED <<string, stage, gen>>
  PROVE  CursorInv' /\ ZonesWritten' = ZonesWritten
<1>1. CursorInv'
  BY DEF CursorInv
<1>2. ZonesWritten' = ZonesWritten
  BY WrittenOfZones DEF ZonesWritten, WrittenBy
<1> QED
  BY <1>1, <1>2

LEMMA CursorsHistogram ==
  ASSUME CursorInv, HistogramDraw
  PROVE  CursorInv' /\ ZonesWritten' = ZonesWritten
<1>1. PICK d \in Draws(gen) : Draw(d)
  BY DEF HistogramDraw
<1>2. gen' = d.gen /\ string' = string /\ stage' = stage /\ stage = "histogram"
  BY <1>1 DEF Draw, HistogramDraw
<1>3. SameObject(d.gen, gen) /\ IsGenerator(d.gen)
  BY DrawKeeps DEF CursorInv
<1>4. gen.pattern = "zns" => Cursors(d.gen)
  BY CursorDraw DEF CursorInv
<1>5. CursorInv'
  BY <1>2, <1>3, <1>4 DEF CursorInv, SameObject
<1> QED
  BY <1>2, <1>5 DEF ZonesWritten

LEMMA CursorsStart ==
  ASSUME CursorInv, StartRun
  PROVE  CursorInv' /\ ZonesWritten' = ZonesWritten
<1> DEFINE o == RunOptions(gen.options.totalWrites)
<1>1. /\ string' = string /\ stage = "histogram" /\ stage' = "run"
      /\ gen' \in Generators(string, o)
  BY DEF StartRun
<1>2. /\ o.logicalPages = LogicalPages /\ o.pagesPerZone = PagesPerZone
      /\ o.activeZones = ActiveZones /\ o.totalWrites \in Nat
  BY DEF RunOptions, CursorInv, IsGenerator
<1> HIDE DEF o
<1>3. /\ IsGenerator(gen') /\ gen'.options = o
      /\ gen'.pattern = "zns" =>
           Cursors(gen') /\ \A i \in DOMAIN gen'.zoneIds : gen'.zoneIds[i] = -1
  BY <1>1, <1>2, NewGenerator, WorkloadAssumption DEF CursorInv
<1>4. ForRun(gen')
  BY <1>2, <1>3 DEF ForRun
<1>5. CursorInv'
  BY <1>1, <1>3, <1>4 DEF CursorInv
<1>6. ZonesWritten = [z \in RunZones |-> PagesPerZone]
  BY <1>1, WrittenOfZones
<1>7. ZonesWritten' = [z \in RunZones |-> PagesPerZone]
  <2>1. ZonesWritten' = IF gen'.pattern = "zns" THEN WrittenBy(gen')
                        ELSE [z \in RunZones |-> PagesPerZone]
    BY <1>1 DEF ZonesWritten, WrittenBy, RunZones
  <2>2. ASSUME gen'.pattern = "zns" PROVE WrittenBy(gen') = [z \in RunZones |-> PagesPerZone]
    <3>1. \A z \in RunZones, i \in DOMAIN gen'.zoneIds : gen'.zoneIds[i] # z
      BY <1>3, <2>2 DEF RunZones
    <3> QED
      BY <3>1 DEF WrittenBy
  <2> QED
    BY <2>1, <2>2
<1> QED
  BY <1>5, <1>6, <1>7

(* Every draw of a cursor is a page of the device, and there is one: the   *)
(* program does not stop.                                                  *)
LEMMA CursorsDoNotStop ==
  ASSUME CursorInv, DrawStops
  PROVE  gen.pattern # "zns"
<1>1. SUFFICES ASSUME gen.pattern = "zns" PROVE FALSE
  OBVIOUS
<1>2. IsGenerator(gen) /\ Cursors(gen)
  BY <1>1 DEF CursorInv
<1>3. \A d \in Draws(gen) : InRange(d)
  BY <1>1, <1>2, CursorDraw DEF InRange
<1>4. Draws(gen) = {}
  BY <1>3 DEF DrawStops
<1> QED
  BY <1>1, <1>2, <1>4, CursorCanDraw

LEMMA CursorsStop ==
  ASSUME CursorInv, DrawStops
  PROVE  CursorInv' /\ ZonesWritten' = ZonesWritten
<1>1. string' = string /\ gen' = gen /\ gen.pattern # "zns"
  BY CursorsDoNotStop DEF DrawStops
<1>2. CursorInv'
  BY <1>1 DEF CursorInv
<1> QED
  BY <1>1, <1>2 DEF ZonesWritten

LEMMA CursorsPrepare ==
  ASSUME CursorInv, NEW t \in Workers, PrepareRequest(t)
  PROVE  CursorInv' /\ (Zoned!Next \/ ZonesWritten' = ZonesWritten)
<1>1. PICK d \in Draws(gen) : Draw(d)
  BY DEF PrepareRequest
<1>2. gen' = d.gen /\ string' = string /\ stage' = stage /\ stage = "run"
  BY <1>1 DEF Draw, PrepareRequest
<1>3. SameObject(d.gen, gen) /\ IsGenerator(d.gen) /\ DOMAIN gen = GenFields
  BY DrawKeeps DEF CursorInv, IsGenerator
<1>4. gen.pattern = "zns" => Cursors(d.gen)
  BY CursorDraw DEF CursorInv
<1>5. CursorInv'
  BY <1>2, <1>3, <1>4 DEF CursorInv, SameObject, ForRun
<1>6. CASE gen.pattern # "zns"
  BY <1>2, <1>3, <1>5, <1>6 DEF ZonesWritten, SameObject
<1>7. CASE gen.pattern = "zns"
  <2>1. Cursors(gen) /\ ForRun(gen)
    BY <1>2, <1>7 DEF CursorInv
  <2>2. PICK i \in DOMAIN gen.zoneIds :
          IsNext(gen, i, d) \/ \E z \in FreeZones(gen) : IsOpen(gen, i, z, d)
    BY <1>7, CursorDraw DEF CursorInv
  <2>4. ZonesWritten = WrittenBy(gen)
    BY <1>2, <1>7, WrittenOfZones
  <2>5. ZonesWritten' = WrittenBy(d.gen)
    BY <1>2, <1>3, <1>7 DEF ZonesWritten, WrittenBy, RunZones, SameObject
  <2>6. CASE IsNext(gen, i, d)
    <3> DEFINE z == gen.zoneIds[i]
    <3>1. /\ z \in RunZones /\ ZonesWritten[z] < PagesPerZone
          /\ ZonesWritten' = [ZonesWritten EXCEPT ![z] = ZonesWritten[z] + 1]
      BY <1>3, <2>1, <2>4, <2>5, <2>6, ContinuesZone
    <3> HIDE DEF z
    <3>2. Zoned!Continue(z)
      BY <3>1 DEF Zoned!Continue, Zoned!Begun, RunZones
    <3> QED
      BY <1>5, <3>1, <3>2 DEF Zoned!Next, RunZones
  <2>7. CASE \E z \in FreeZones(gen) : IsOpen(gen, i, z, d)
    <3>1. PICK z \in FreeZones(gen) : IsOpen(gen, i, z, d)
      BY <2>7
    <3>2. /\ z \in RunZones /\ ZonesWritten[z] = PagesPerZone
          /\ Cardinality({y \in RunZones : ZonesWritten[y] < PagesPerZone}) < ActiveZones
          /\ ZonesWritten' = [ZonesWritten EXCEPT ![z] = 1]
      BY <1>3, <2>1, <2>4, <2>5, <3>1, BeginsZone
    <3>3. Zoned!Begin(z)
      <4>1. Zoned!Begun = {y \in RunZones : ZonesWritten[y] < PagesPerZone}
        BY DEF Zoned!Begun, RunZones
      <4>2. Zoned!Cardinality(Zoned!Begun) < ActiveZones
        BY <3>2, <4>1, SameCardinality
      <4> QED
        BY <3>2, <4>2 DEF Zoned!Begin
    <3> QED
      BY <1>5, <3>2, <3>3 DEF Zoned!Next, RunZones
  <2> QED
    BY <2>2, <2>6, <2>7
<1> QED
  BY <1>6, <1>7

LEMMA CursorStep ==
  CursorInv /\ [WorkloadNext]_workloadVars => CursorInv' /\ [Zoned!Next]_ZonesWritten
<1> SUFFICES ASSUME CursorInv, [WorkloadNext]_workloadVars
             PROVE  CursorInv' /\ (Zoned!Next \/ ZonesWritten' = ZonesWritten)
  OBVIOUS
<1>1. CASE HistogramDraw
  BY <1>1, CursorsHistogram
<1>2. CASE StartRun
  BY <1>2, CursorsStart
<1>3. CASE DrawStops
  BY <1>3, CursorsStop
<1>4. CASE \E t \in Workers : PrepareRequest(t)
  BY <1>4, CursorsPrepare
<1>5. CASE \E t \in Workers : Submit(t)
  BY <1>5, CursorsKept DEF Submit
<1>6. CASE \E s \in Slot : Discard(s) \/ Push(s)
  BY <1>6, CursorsKept DEF Discard, Push
<1>7. CASE \E s \in Slot : Complete(s)
  <2>1. PICK s \in Slot : Complete(s)
    BY <1>7
  <2>2. /\ string' = string /\ gen' = gen /\ stage = "run" /\ stage' # "histogram"
    BY <2>1 DEF Complete
  <2>3. CursorInv'
    BY <2>2 DEF CursorInv
  <2>4. ZonesWritten' = ZonesWritten
    BY <2>2 DEF ZonesWritten
  <2> QED
    BY <2>3, <2>4
<1>8. CASE UNCHANGED workloadVars
  BY <1>8, CursorsKept DEF workloadVars
<1> QED
  BY <1>1, <1>2, <1>3, <1>4, <1>5, <1>6, <1>7, <1>8 DEF WorkloadNext

(* Drawing from the zns pattern, by any number of threads, begins a zone   *)
(* only when it is full and fewer zones than cursors are open.             *)
THEOREM ZonedDraws == WorkloadSpec => ImplementsZonedDevice
BY CursorInit, CursorStep, PTL DEF WorkloadSpec, ImplementsZonedDevice, Zoned!Spec

-----------------------------------------------------------------------------
(* The zones of a pattern.                                                *)

LEMMA TotalIsLastSum ==
  ASSUME NEW s \in Seq(Nat), NEW f, Sums(s, f)
  PROVE  Total(s) = f[Len(s)]
<1> DEFINE Rec(g) == g = [i \in 0 .. Len(s) |-> IF i = 0 THEN 0 ELSE g[i - 1] + s[i]]
           c == CHOOSE g : Rec(g)
           S == {i \in 0 .. Len(s) : c[i] = f[i]}
<1>1. Len(s) \in Nat /\ DOMAIN f = 0 .. Len(s)
  BY DEF Sums
<1>2. Rec(f)
  BY <1>1 DEF Sums
<1>3. Rec(c)
  <2> HIDE DEF Rec
  <2> QED
    BY <1>2
<1>4. Total(s) = c[Len(s)]
  BY DEF Total
<1> HIDE DEF c
<1>5. 0 \in S
  BY <1>1, <1>3 DEF Sums
<1>6. ASSUME NEW i \in 1 .. Len(s), i - 1 \in S PROVE i \in S
  <2>1. i \in 0 .. Len(s) /\ i # 0
    BY <1>1
  <2>2. c[i] = c[i - 1] + s[i] /\ f[i] = f[i - 1] + s[i]
    BY <1>3, <2>1 DEF Sums
  <2> QED
    BY <1>6, <2>1, <2>2
<1> HIDE DEF S
<1>7. 0 .. Len(s) \subseteq S
  BY <1>1, <1>5, <1>6, IntervalInduction
<1>8. Len(s) \in 0 .. Len(s)
  BY <1>1
<1> QED
  BY <1>4, <1>7, <1>8 DEF S

LEMMA TotalOfFront ==
  ASSUME NEW s \in Seq(Nat), NEW f, Sums(s, f), NEW m \in 0 .. Len(s)
  PROVE  Total(SubSeq(s, 1, m)) = f[m]
<1> DEFINE t == SubSeq(s, 1, m)
<1>1. Len(s) \in Nat
  OBVIOUS
<1>2. t \in Seq(Nat) /\ Len(t) = m /\ \A i \in 1 .. m : t[i] = s[i]
  BY <1>1
<1> HIDE DEF t
<1>3. PICK g : Sums(t, g)
  BY <1>2, SumsExist
<1>4. g[m] = f[m]
  BY <1>1, <1>2, <1>3, SumsAgree, SMTT(30)
<1> QED
  BY <1>2, <1>3, <1>4, TotalIsLastSum DEF t

(* The zones of a string: what the parser lets through.                    *)
ZoneSpecs == [size : Nat \ {0}, freq : Nat, pattern : {"uniform", "zipf", "sequential"}, shuffle : BOOLEAN]

ReadStates == [zones : Seq(ZoneSpecs),
               zone : [size : Nat, freq : Nat, pattern : {"uniform", "zipf", "sequential"},
                       shuffle : BOOLEAN]]

LEMMA AddZoneTypes ==
  ASSUME NEW s \in ReadStates
  PROVE  AddZone(s) \in ReadStates
<1>1. CASE s.zone.size > 0
  <2>1. s.zone \in ZoneSpecs
    BY <1>1 DEF ReadStates, ZoneSpecs
  <2>2. Append(s.zones, s.zone) \in Seq(ZoneSpecs)
    BY <2>1 DEF ReadStates
  <2>3. NewZone \in [size : Nat, freq : Nat, pattern : {"uniform", "zipf", "sequential"},
                     shuffle : BOOLEAN]
    BY DEF NewZone
  <2> QED
    BY <1>1, <2>2, <2>3 DEF AddZone, ReadStates
<1>2. CASE ~ (s.zone.size > 0)
  BY <1>2 DEF AddZone
<1> QED
  BY <1>1, <1>2

LEMMA ReadWordTypes ==
  ASSUME NEW s \in ReadStates, NEW word \in [key : ZoneKeys, value : Nat]
  PROVE  ReadWord(s, word) \in ReadStates
<1>1. AddZone(s) \in ReadStates
  BY AddZoneTypes
<1>2. CASE word.key = "s"
  <2>1. ReadWord(s, word) = [AddZone(s) EXCEPT !.zone.size = word.value]
    BY <1>2 DEF ReadWord
  <2> DEFINE r == AddZone(s)
  <2>2. ReadWord(s, word) = [zones |-> r.zones, zone |-> [r.zone EXCEPT !.size = word.value]]
    <3> HIDE DEF r
    <3> QED
      BY <1>1, <2>1 DEF ReadStates, r
  <2>3. /\ r.zones \in Seq(ZoneSpecs) /\ word.value \in Nat
        /\ r.zone \in [size : Nat, freq : Nat, pattern : {"uniform", "zipf", "sequential"},
                      shuffle : BOOLEAN]
    BY <1>1 DEF ReadStates
  <2> HIDE DEF r
  <2>4. [r.zone EXCEPT !.size = word.value] \in
          [size : Nat, freq : Nat, pattern : {"uniform", "zipf", "sequential"}, shuffle : BOOLEAN]
    BY <2>3
  <2> QED
    BY <2>2, <2>3, <2>4 DEF ReadStates
<1>3. CASE word.key = "f"
  BY <1>3 DEF ReadWord, ReadStates
<1>4. CASE word.key \in {"uniform", "zipf", "sequential"}
  BY <1>4 DEF ReadWord, ReadStates
<1>5. CASE word.key \in {"shuffle", "noshuffle"}
  BY <1>5 DEF ReadWord, ReadStates
<1> QED
  BY <1>2, <1>3, <1>4, <1>5 DEF ZoneKeys

LEMMA ReadExists ==
  ASSUME NEW words \in Seq([key : ZoneKeys, value : Nat])
  PROVE  \E f \in [0 .. Len(words) -> ReadStates] :
           f = [i \in 0 .. Len(words) |->
                  IF i = 0 THEN [zones |-> <<>>, zone |-> NewZone]
                  ELSE ReadWord(f[i - 1], words[i])]
<1> DEFINE first == [zones |-> <<>>, zone |-> NewZone]
           Upto(m, f) == /\ f \in [0 .. m -> ReadStates] /\ f[0] = first
                         /\ \A i \in 1 .. m : f[i] = ReadWord(f[i - 1], words[i])
           S == {m \in 0 .. Len(words) : \E f : Upto(m, f)}
<1>1. Len(words) \in Nat /\ \A i \in 1 .. Len(words) : words[i] \in [key : ZoneKeys, value : Nat]
  <2> DEFINE Word == [key : ZoneKeys, value : Nat]
  <2>1. words \in Seq(Word)
    OBVIOUS
  <2> HIDE DEF Word
  <2>2. Len(words) \in Nat /\ \A i \in 1 .. Len(words) : words[i] \in Word
    BY <2>1
  <2> QED
    BY <2>2 DEF Word
<1>a. first \in ReadStates
  BY DEF ReadStates, NewZone
<1> HIDE DEF first
<1>2. 0 \in S
  <2> DEFINE f == [i \in 0 .. 0 |-> first]
  <2>1. Upto(0, f)
    BY <1>a
  <2> HIDE DEF f, Upto
  <2> QED
    BY <1>1, <2>1
<1>3. ASSUME NEW m \in 1 .. Len(words), m - 1 \in S PROVE m \in S
  <2>1. PICK f : Upto(m - 1, f)
    BY <1>3
  <2> DEFINE g == [i \in 0 .. m |-> IF i = m THEN ReadWord(f[m - 1], words[m]) ELSE f[i]]
  <2>2. Upto(m, g)
    <3>1. m \in Nat /\ m - 1 \in 0 .. m - 1 /\ ReadWord(f[m - 1], words[m]) \in ReadStates
      BY <1>1, <2>1, ReadWordTypes
    <3>2. g \in [0 .. m -> ReadStates]
      BY <2>1, <3>1
    <3>3. g[0] = first
      BY <2>1, <3>1
    <3>4. ASSUME NEW i \in 1 .. m PROVE g[i] = ReadWord(g[i - 1], words[i])
      <4>1. CASE i = m
        BY <3>1, <4>1
      <4>2. CASE i # m
        BY <2>1, <3>1, <4>2
      <4> QED
        BY <4>1, <4>2
    <3> QED
      BY <3>2, <3>3, <3>4
  <2> HIDE DEF g, Upto
  <2> QED
    BY <2>2
<1> HIDE DEF S
<1>4. 0 .. Len(words) \subseteq S
  BY <1>1, <1>2, <1>3, IntervalInduction
<1>5. PICK f : Upto(Len(words), f)
  <2>1. Len(words) \in S
    BY <1>1, <1>4
  <2> HIDE DEF Upto
  <2> QED
    BY <2>1 DEF S
<1>6. f = [i \in 0 .. Len(words) |-> IF i = 0 THEN first ELSE ReadWord(f[i - 1], words[i])]
  BY <1>1, <1>5
<1> QED
  BY <1>5, <1>6 DEF first

LEMMA ParsedZones ==
  ASSUME NEW words \in Seq([key : ZoneKeys, value : Nat])
  PROVE  parseZoneSizes(words) \in Seq(ZoneSpecs)
<1> DEFINE Rec(f) == f = [i \in 0 .. Len(words) |->
                            IF i = 0 THEN [zones |-> <<>>, zone |-> NewZone]
                            ELSE ReadWord(f[i - 1], words[i])]
           c == CHOOSE f : Rec(f)
           S == {i \in 0 .. Len(words) : c[i] \in ReadStates}
<1>1. Rec(c)
  <2>1. \E f : Rec(f)
    BY ReadExists
  <2> HIDE DEF Rec
  <2> QED
    BY <2>1
<1>2. parseZoneSizes(words) = AddZone(c[Len(words)]).zones
  BY DEF parseZoneSizes
<1> HIDE DEF c
<1>3. Len(words) \in Nat /\ \A i \in 1 .. Len(words) : words[i] \in [key : ZoneKeys, value : Nat]
  <2> DEFINE Word == [key : ZoneKeys, value : Nat]
  <2>1. words \in Seq(Word)
    OBVIOUS
  <2> HIDE DEF Word
  <2>2. Len(words) \in Nat /\ \A i \in 1 .. Len(words) : words[i] \in Word
    BY <2>1
  <2> QED
    BY <2>2 DEF Word
<1>4. 0 \in S
  BY <1>1, <1>3 DEF ReadStates, NewZone
<1>5. ASSUME NEW i \in 1 .. Len(words), i - 1 \in S PROVE i \in S
  <2>1. i \in 0 .. Len(words) /\ i # 0
    BY <1>3
  <2>2. c[i] = ReadWord(c[i - 1], words[i])
    BY <1>1, <2>1
  <2> QED
    BY <1>3, <1>5, <2>1, <2>2, ReadWordTypes
<1> HIDE DEF S
<1>6. 0 .. Len(words) \subseteq S
  BY <1>3, <1>4, <1>5, IntervalInduction
<1>7. c[Len(words)] \in ReadStates
  BY <1>3, <1>6 DEF S
<1> QED
  BY <1>2, <1>7, AddZoneTypes DEF ReadStates

LEMMA FunctionIsList ==
  ASSUME NEW k \in Nat, NEW T, NEW f \in [1 .. k -> T]
  PROVE  f \in Seq(T) /\ Len(f) = k
OBVIOUS

LEMMA Distributes ==
  ASSUME NEW a \in Nat, NEW b \in Nat, NEW c \in Nat
  PROVE  (a + b) * c = a * c + b * c
OBVIOUS

LEMMA FactorCancels ==
  ASSUME NEW a \in Nat, NEW b \in Nat, NEW c \in Nat \ {0}, a * c <= c * b
  PROVE  a <= b
<1>1. SUFFICES ASSUME b + 1 <= a PROVE FALSE
  OBVIOUS
<1>2. (b + 1) * c <= a * c
  BY <1>1
<1>3. (b + 1) * c = b * c + c /\ b * c = c * b
  OBVIOUS
<1> DEFINE p == a * c
           q == c * b
<1>4. p \in Nat /\ q \in Nat /\ p <= q /\ q + c <= p
  BY <1>2, <1>3
<1> HIDE DEF p, q
<1> QED
  BY <1>4

(* The shares and what the rounding has left add up to all pages.          *)
LEMMA CountsAddUp ==
  ASSUME NEW specs \in Seq(ZoneSpecs), specs # <<>>, NEW n \in Nat
  PROVE  /\ PageCounts(specs, n) \in Seq(Nat) /\ Len(PageCounts(specs, n)) = Len(specs)
         /\ Total(PageCounts(specs, n)) = n
<1> DEFINE k == Len(specs)
           sizes == [i \in 1 .. k |-> specs[i].size]
           total == Total(sizes)
           shares == [i \in 1 .. k |-> (sizes[i] * n) \div total]
           given == Total(shares)
           rest == n - given
           counts == [i \in 1 .. k |-> shares[i] + rest \div k + (IF i <= rest % k THEN 1 ELSE 0)]
<1>1. /\ k \in Nat \ {0} /\ DOMAIN specs = 1 .. k
      /\ \A i \in 1 .. k : specs[i].size \in Nat \ {0}
  <2> DEFINE Z == ZoneSpecs
  <2>1. specs \in Seq(Z)
    OBVIOUS
  <2> HIDE DEF Z
  <2>2. k \in Nat \ {0} /\ DOMAIN specs = 1 .. k /\ \A i \in 1 .. k : specs[i] \in Z
    BY <2>1
  <2> QED
    BY <2>2 DEF Z, ZoneSpecs
<1>2. PageCounts(specs, n) = counts
  BY <1>1 DEF PageCounts
<1> HIDE DEF k
<1>3. sizes \in [1 .. k -> Nat \ {0}]
  BY <1>1 DEF k
<1> HIDE DEF sizes
<1>4. sizes \in Seq(Nat) /\ Len(sizes) = k
  <2>1. sizes \in [1 .. k -> Nat]
    BY <1>3
  <2> QED
    BY <1>1, <2>1, FunctionIsList
<1>5. PICK A : Sums(sizes, A)
  BY <1>4, SumsExist
<1>6. total = A[k] /\ total \in Nat \ {0}
  <2>1. total = A[k]
    BY <1>4, <1>5, TotalIsLastSum
  <2>2. 1 \in 0 .. Len(sizes) /\ k \in 1 .. Len(sizes)
    BY <1>1, <1>4
  <2>3. A[1] <= A[k]
    BY <1>4, <1>5, <2>2, SumsGrowing
  <2>4. A[1] = A[0] + sizes[1] /\ A[0] = 0 /\ sizes[1] \in Nat \ {0} /\ A[k] \in Nat
    BY <1>1, <1>3, <1>4, <1>5, <2>2 DEF Sums
  <2> QED
    BY <2>1, <2>3, <2>4
<1> HIDE DEF total
<1>7. /\ shares \in [1 .. k -> Nat]
      /\ \A i \in 1 .. k : shares[i] * total <= sizes[i] * n
  <2>1. ASSUME NEW i \in 1 .. k PROVE shares[i] \in Nat /\ shares[i] * total <= sizes[i] * n
    <3> DEFINE a == sizes[i] * n
    <3>1. a \in Nat
      BY <1>3
    <3>2. shares[i] = a \div total
      OBVIOUS
    <3> HIDE DEF a, shares
    <3>3. shares[i] \in Nat /\ shares[i] * total <= a
      BY <1>6, <3>1, <3>2, QuotientBounds
    <3> QED
      BY <3>3 DEF a
  <2>2. DOMAIN shares = 1 .. k /\ shares = [i \in 1 .. k |-> shares[i]]
    OBVIOUS
  <2> HIDE DEF shares
  <2> QED
    BY <2>1, <2>2
<1> HIDE DEF shares
<1>8. shares \in Seq(Nat) /\ Len(shares) = k
  BY <1>1, <1>7, FunctionIsList
<1>9. PICK B : Sums(shares, B)
  BY <1>8, SumsExist
<1>10. \A i \in 0 .. k : B[i] * total <= A[i] * n
  <2> DEFINE S == {i \in 0 .. k : B[i] * total <= A[i] * n}
  <2>1. 0 \in S
    BY <1>1, <1>5, <1>6, <1>9 DEF Sums
  <2>2. ASSUME NEW i \in 1 .. k, i - 1 \in S PROVE i \in S
    <3>1. i \in 0 .. k /\ i - 1 \in 0 .. k
      BY <1>1
    <3>2. A[i] = A[i - 1] + sizes[i] /\ B[i] = B[i - 1] + shares[i]
      BY <1>4, <1>5, <1>8, <1>9 DEF Sums
    <3>3. /\ A[i - 1] \in Nat /\ B[i - 1] \in Nat /\ sizes[i] \in Nat /\ shares[i] \in Nat
          /\ total \in Nat /\ n \in Nat
      BY <1>3, <1>4, <1>5, <1>6, <1>7, <1>8, <1>9, <3>1 DEF Sums
    <3>4. B[i - 1] * total <= A[i - 1] * n /\ shares[i] * total <= sizes[i] * n
      BY <1>7, <2>2
    <3>5. /\ (B[i - 1] + shares[i]) * total = B[i - 1] * total + shares[i] * total
          /\ (A[i - 1] + sizes[i]) * n = A[i - 1] * n + sizes[i] * n
      <4> DEFINE a == A[i - 1]
                 b == B[i - 1]
                 c == sizes[i]
                 d == shares[i]
      <4>1. a \in Nat /\ b \in Nat /\ c \in Nat /\ d \in Nat /\ total \in Nat /\ n \in Nat
        BY <3>3
      <4> HIDE DEF a, b, c, d
      <4>2. (b + d) * total = b * total + d * total
        BY ONLY <4>1, Distributes
      <4>3. (a + c) * n = a * n + c * n
        BY ONLY <4>1, Distributes
      <4> QED
        BY <4>2, <4>3 DEF a, b, c, d
    <3>6. /\ B[i - 1] * total \in Nat /\ shares[i] * total \in Nat
          /\ A[i - 1] * n \in Nat /\ sizes[i] * n \in Nat
      BY ONLY <3>3, SMTT(30)
    <3>7. B[i] * total <= A[i] * n
      BY ONLY <3>2, <3>4, <3>5, <3>6
    <3> QED
      BY <3>1, <3>7
  <2> HIDE DEF S
  <2>3. 0 .. k \subseteq S
    BY <1>1, <2>1, <2>2, IntervalInduction
  <2> QED
    BY <2>3 DEF S
<1>11. given = B[k] /\ rest \in Nat
  <2>1. given = B[k] /\ B[k] \in Nat /\ A[k] \in Nat
    <3>1. given = B[k]
      BY <1>8, <1>9, TotalIsLastSum
    <3>2. k \in 0 .. k
      BY <1>1
    <3> HIDE DEF given
    <3> QED
      BY <1>4, <1>5, <1>8, <1>9, <3>1, <3>2 DEF Sums
  <2>2. B[k] * total <= total * n
    BY <1>1, <1>6, <1>10
  <2>3. B[k] <= n
    BY <1>6, <2>1, <2>2, FactorCancels
  <2> QED
    BY <2>1, <2>3
<1> DEFINE quot == rest \div k
           over == rest % k
           Least(i) == IF i <= over THEN i ELSE over
<1>12. /\ quot \in Nat /\ over \in 0 .. k - 1 /\ rest = quot * k + over
  <2> HIDE DEF rest
  <2> QED
    BY <1>1, <1>11, Decomposition
<1>13. given + rest = n
  <2>1. given \in Nat
    BY <1>1, <1>8, <1>9, <1>11 DEF Sums
  <2> HIDE DEF given
  <2> QED
    BY <2>1
<1>14. \A i \in 1 .. k : counts[i] = shares[i] + quot + (IF i <= over THEN 1 ELSE 0)
  OBVIOUS
<1>15. counts \in [1 .. k -> Nat]
  <2>1. ASSUME NEW i \in 1 .. k PROVE counts[i] \in Nat
    <3> HIDE DEF counts, quot, over
    <3> QED
      BY <1>7, <1>12, <1>14
  <2>2. counts = [i \in 1 .. k |-> counts[i]]
    OBVIOUS
  <2> HIDE DEF counts
  <2> QED
    BY <2>1, <2>2
<1> HIDE DEF counts, quot, over, rest, given
<1>16. counts \in Seq(Nat) /\ Len(counts) = k
  BY <1>1, <1>15, FunctionIsList
<1>17. PICK C : Sums(counts, C)
  BY <1>16, SumsExist
<1>18. \A i \in 0 .. k : C[i] = B[i] + i * quot + Least(i)
  <2> DEFINE S == {i \in 0 .. k : C[i] = B[i] + i * quot + Least(i)}
  <2>1. 0 \in S
    BY <1>1, <1>9, <1>12, <1>17 DEF Sums
  <2>2. ASSUME NEW i \in 1 .. k, i - 1 \in S PROVE i \in S
    <3>1. i \in 0 .. k /\ i - 1 \in 0 .. k /\ i \in Nat
      BY <1>1
    <3>2. C[i] = C[i - 1] + counts[i] /\ B[i] = B[i - 1] + shares[i]
      BY <1>8, <1>9, <1>16, <1>17 DEF Sums
    <3>3. /\ B[i - 1] \in Nat /\ shares[i] \in Nat /\ quot \in Nat /\ over \in Nat
      BY <1>7, <1>8, <1>9, <1>12, <3>1, SMTT(30) DEF Sums
    <3>4. Least(i) = Least(i - 1) + (IF i <= over THEN 1 ELSE 0)
      BY <3>1, <3>3
    <3>5. i * quot = (i - 1) * quot + quot /\ (i - 1) * quot \in Int
      BY <3>1, <3>3
    <3>6. C[i - 1] = B[i - 1] + (i - 1) * quot + Least(i - 1)
      BY <2>2
    <3>7. Least(i - 1) \in Int
      BY <3>1, <3>3
    <3> HIDE DEF Least
    <3>8. C[i] = B[i] + i * quot + Least(i)
      BY ONLY <3>2, <3>3, <3>4, <3>5, <3>6, <3>7, <1>14, i \in 1 .. k, SMTT(30)
    <3> QED
      BY <3>1, <3>8
  <2> HIDE DEF S, Least
  <2>3. 0 .. k \subseteq S
    BY <1>1, <2>1, <2>2, IntervalInduction
  <2> QED
    BY <2>3 DEF S
<1>19. C[k] = n
  <2>1. C[k] = B[k] + k * quot + Least(k)
    BY <1>1, <1>18
  <2>2. Least(k) = over
    BY <1>1, <1>12
  <2>3. k * quot = quot * k /\ quot * k \in Nat /\ B[k] \in Nat
    BY <1>1, <1>8, <1>9, <1>12 DEF Sums
  <2> HIDE DEF Least
  <2> QED
    BY <1>11, <1>12, <1>13, <2>1, <2>2, <2>3
<1> QED
  BY <1>2, <1>16, <1>17, <1>19, TotalIsLastSum DEF k

(* The generator of a zone draws from its own pages.                       *)
SubInv(sub, n) ==
  /\ DOMAIN sub = {"pattern", "logicalPages", "seq", "shuffleVector"}
  /\ sub.logicalPages = n /\ sub.seq \in 0 .. n - 1
  /\ sub.shuffleVector \in [0 .. n - 1 -> 0 .. n - 1]

(* The zones follow one another, and together they hold n pages.           *)
DealtBy(zones, n, counts, sums) ==
  /\ Sums(counts, sums) /\ sums[Len(counts)] = n
  /\ DOMAIN zones = 1 .. Len(counts)
  /\ \A i \in 1 .. Len(counts) :
       /\ DOMAIN zones[i] = {"offset", "freq", "sub"}
       /\ zones[i].offset = sums[i - 1]
       /\ counts[i] # 0 /\ SubInv(zones[i].sub, counts[i])
  /\ \E i \in 1 .. Len(counts) : zones[i].freq > 0

Dealt(zones, n) == \E counts \in Seq(Nat) : \E sums : DealtBy(zones, n, counts, sums)

LEMMA NewSubGenerator ==
  ASSUME NEW spec \in ZoneSpecs, NEW n \in Nat \ {0}, NEW sub \in SubGens(spec, n)
  PROVE  SubInv(sub, n)
<1>1. PICK v \in ShuffleVectors(n, spec.shuffle) :
        sub = [pattern |-> spec.pattern, logicalPages |-> n, seq |-> 0, shuffleVector |-> v]
  BY DEF SubGens
<1>2. v \in [0 .. n - 1 -> 0 .. n - 1]
  <2>1. PICK k \in IF spec.shuffle THEN ShuffleBy ELSE {0} : v = [i \in 0 .. n - 1 |-> (i + k) % n]
    BY DEF ShuffleVectors
  <2>2. k \in Nat
    BY PatternAssumption
  <2>3. ASSUME NEW i \in 0 .. n - 1 PROVE (i + k) % n \in 0 .. n - 1
    BY <2>2
  <2> QED
    BY <2>1, <2>3
<1> QED
  BY <1>1, <1>2 DEF SubInv

LEMMA NewZones ==
  ASSUME NEW specs \in Seq(ZoneSpecs), NEW n \in Nat, \E i \in DOMAIN specs : specs[i].freq > 0,
         NEW zones \in ZoneLists(specs, n)
  PROVE  Dealt(zones, n)
<1> DEFINE counts == PageCounts(specs, n)
           k == Len(specs)
<1>1. k \in Nat /\ DOMAIN specs = 1 .. k /\ \A i \in 1 .. k : specs[i] \in ZoneSpecs
  <2> DEFINE Z == ZoneSpecs
  <2>1. specs \in Seq(Z)
    OBVIOUS
  <2> HIDE DEF Z
  <2>2. k \in Nat /\ DOMAIN specs = 1 .. k /\ \A i \in 1 .. k : specs[i] \in Z
    BY <2>1
  <2> QED
    BY <2>2 DEF Z
<1>2. counts \in Seq(Nat) /\ Len(counts) = k /\ Total(counts) = n
  <2>1. specs # <<>>
    BY <1>1
  <2> QED
    BY <2>1, CountsAddUp
<1> DEFINE options(i) == {[offset |-> Total(SubSeq(counts, 1, i - 1)), freq |-> specs[i].freq,
                           sub |-> sub] : sub \in SubGens(specs[i], counts[i])}
<1>3. /\ \A i \in DOMAIN specs : counts[i] # 0
      /\ DOMAIN zones = DOMAIN specs /\ \A i \in DOMAIN specs : zones[i] \in options(i)
  BY DEF ZoneLists
<1> HIDE DEF counts, k
<1>4. PICK sums : Sums(counts, sums)
  BY <1>2, SumsExist
<1>5. sums[k] = n
  BY <1>2, <1>4, TotalIsLastSum
<1>6. ASSUME NEW i \in 1 .. k
      PROVE  /\ DOMAIN zones[i] = {"offset", "freq", "sub"}
             /\ zones[i].offset = sums[i - 1] /\ zones[i].freq = specs[i].freq
             /\ counts[i] # 0 /\ SubInv(zones[i].sub, counts[i])
  <2>1. PICK sub \in SubGens(specs[i], counts[i]) :
          zones[i] = [offset |-> Total(SubSeq(counts, 1, i - 1)), freq |-> specs[i].freq, sub |-> sub]
    BY <1>1, <1>3
  <2>2. specs[i] \in ZoneSpecs /\ counts[i] \in Nat \ {0}
    <3>1. i \in 1 .. Len(counts) /\ i \in DOMAIN specs
      BY <1>1, <1>2
    <3>2. counts[i] \in Nat
      BY <1>2, <3>1
    <3> QED
      BY <1>1, <1>3, <3>1, <3>2
  <2>3. i - 1 \in 0 .. Len(counts)
    BY <1>1, <1>2
  <2>4. Total(SubSeq(counts, 1, i - 1)) = sums[i - 1]
    BY <1>2, <1>4, <2>3, TotalOfFront
  <2>5. SubInv(sub, counts[i])
    BY <2>2, NewSubGenerator
  <2> QED
    BY <2>1, <2>2, <2>4, <2>5
<1>7. \E i \in 1 .. k : zones[i].freq > 0
  BY <1>1, <1>6
<1> QED
  BY <1>1, <1>2, <1>3, <1>4, <1>5, <1>6, <1>7 DEF Dealt, DealtBy

LEMMA SeqZonesAreZones ==
  SeqZones \in Seq(ZoneSpecs) /\ \E i \in DOMAIN SeqZones : SeqZones[i].freq > 0
<1>1. SeqZoneCount \in Nat \ {0}
  BY PatternAssumption
<1>2. \A i \in 1 .. SeqZoneCount :
        [size |-> 1, freq |-> i, pattern |-> "sequential", shuffle |-> FALSE] \in ZoneSpecs
  BY <1>1 DEF ZoneSpecs
<1>3. SeqZones \in [1 .. SeqZoneCount -> ZoneSpecs]
  BY <1>2 DEF SeqZones
<1>4. SeqZones \in Seq(ZoneSpecs)
  BY <1>1, <1>3, FunctionIsList
<1>5. 1 \in DOMAIN SeqZones /\ SeqZones[1].freq > 0
  BY <1>1 DEF SeqZones
<1> QED
  BY <1>4, <1>5

LEMMA ZonesCover ==
  ASSUME NEW zones, NEW n, Dealt(zones, n), NEW page \in 0 .. n - 1
  PROVE  Cardinality({i \in DOMAIN zones :
           page \in zones[i].offset .. zones[i].offset + zones[i].sub.logicalPages - 1}) = 1
<1>1. \E counts \in Seq(Nat) : \E sums : DealtBy(zones, n, counts, sums)
  BY DEF Dealt
<1>2. PICK counts \in Seq(Nat) : \E sums : DealtBy(zones, n, counts, sums)
  BY <1>1
<1>3. PICK sums : DealtBy(zones, n, counts, sums)
  BY <1>2
<1>a. ASSUME NEW i \in 1 .. Len(counts)
      PROVE  zones[i].offset .. zones[i].offset + zones[i].sub.logicalPages - 1
               = sums[i - 1] .. sums[i] - 1
  <2>1. zones[i].offset = sums[i - 1] /\ zones[i].sub.logicalPages = counts[i]
    BY <1>3 DEF DealtBy, SubInv
  <2>2. i \in 0 .. Len(counts) /\ i - 1 \in 0 .. Len(counts) /\ i # 0 /\ counts[i] \in Nat
    OBVIOUS
  <2>3. sums[i] = sums[i - 1] + counts[i] /\ sums[i - 1] \in Nat
    BY <1>3, <2>2 DEF DealtBy, Sums
  <2>4. zones[i].offset + zones[i].sub.logicalPages - 1 = sums[i] - 1
    <3> DEFINE a == sums[i - 1]
               b == counts[i]
    <3>1. /\ sums[i] = a + b /\ zones[i].offset = a /\ zones[i].sub.logicalPages = b
          /\ a \in Nat /\ b \in Nat
      BY <2>1, <2>2, <2>3
    <3> HIDE DEF a, b
    <3> QED
      BY <3>1
  <2> QED
    BY <2>1, <2>4
<1>b. Sums(counts, sums) /\ sums[Len(counts)] = n /\ DOMAIN zones = 1 .. Len(counts)
  BY <1>3 DEF DealtBy
<1>4. PICK i \in 1 .. Len(counts) :
        /\ page \in sums[i - 1] .. sums[i] - 1
        /\ \A j \in 1 .. Len(counts) : page \in sums[j - 1] .. sums[j] - 1 => j = i
  BY <1>b, SumsPartition
<1>5. {j \in DOMAIN zones :
         page \in zones[j].offset .. zones[j].offset + zones[j].sub.logicalPages - 1} = {i}
  BY <1>a, <1>b, <1>4
<1> QED
  BY <1>5, FS_Singleton

(* Drawing moves the generator of one zone, within the pages of the zone.  *)
LEMMA SubDraw ==
  ASSUME NEW n \in Nat \ {0}, NEW sub, SubInv(sub, n), NEW d \in SubDraws(sub)
  PROVE  d.page \in 0 .. n - 1 /\ SubInv(d.gen, n)
<1>1. PICK e \in IF sub.pattern = "sequential" THEN Sequential(sub) ELSE Random(sub) :
        d = [e EXCEPT !.page = sub.shuffleVector[e.page]]
  BY DEF SubDraws, Shuffled
<1>2. /\ DOMAIN e = {"page", "gen"} /\ e.page \in 0 .. n - 1 /\ SubInv(e.gen, n)
  <2>1. CASE sub.pattern = "sequential"
    <3>1. e = [page |-> sub.seq, gen |-> [sub EXCEPT !.seq = (sub.seq + 1) % sub.logicalPages]]
      BY <1>1, <2>1 DEF Sequential, Drawn
    <3>2. (sub.seq + 1) % sub.logicalPages \in 0 .. n - 1
      BY SMTT(30) DEF SubInv
    <3> QED
      BY <3>1, <3>2 DEF SubInv
  <2>2. CASE sub.pattern # "sequential"
    BY <1>1, <2>2 DEF Random, Drawn, SubInv
  <2> QED
    BY <2>1, <2>2
<1>3. d.page = sub.shuffleVector[e.page] /\ d.gen = e.gen
  BY <1>1, <1>2
<1> QED
  BY <1>2, <1>3 DEF SubInv

LEMMA SubCanDraw ==
  ASSUME NEW n \in Nat \ {0}, NEW sub, SubInv(sub, n)
  PROVE  SubDraws(sub) # {}
<1>1. Sequential(sub) # {}
  BY DEF Sequential
<1>2. Random(sub) # {}
  <2>1. 0 \in 0 .. sub.logicalPages - 1
    BY DEF SubInv
  <2> QED
    BY <2>1 DEF Random
<1> QED
  BY <1>1, <1>2 DEF SubDraws, Shuffled

-----------------------------------------------------------------------------
(* The trace of a pattern.                                                *)

LEMMA FlattenExists ==
  ASSUME NEW k \in Nat \ {0}, NEW seqs \in [1 .. k -> Seq(Nat)]
  PROVE  \E f \in [1 .. k -> Seq(Nat)] :
           f = [i \in 1 .. k |-> IF i = 1 THEN seqs[i] ELSE f[i - 1] \o seqs[i]]
<1> DEFINE Upto(m, f) == /\ f \in [1 .. m -> Seq(Nat)]
                         /\ \A i \in 1 .. m : f[i] = IF i = 1 THEN seqs[1] ELSE f[i - 1] \o seqs[i]
           S == {m \in 0 .. k : \E f : Upto(m, f)}
<1>1. 0 \in S
  <2> DEFINE f == [i \in 1 .. 0 |-> <<>>]
  <2>1. Upto(0, f)
    OBVIOUS
  <2> HIDE DEF f, Upto
  <2> QED
    BY <2>1
<1>2. ASSUME NEW m \in 1 .. k, m - 1 \in S PROVE m \in S
  <2>1. PICK f : Upto(m - 1, f)
    BY <1>2
  <2> DEFINE new == IF m = 1 THEN seqs[1] ELSE f[m - 1] \o seqs[m]
             g == [i \in 1 .. m |-> IF i = m THEN new ELSE f[i]]
  <2>2. new \in Seq(Nat)
    <3>1. CASE m = 1
      BY <3>1
    <3>2. CASE m # 1
      <4>1. f[m - 1] \in Seq(Nat) /\ seqs[m] \in Seq(Nat)
        BY <2>1, <3>2
      <4> QED
        BY <3>2, <4>1
    <3> QED
      BY <3>1, <3>2
  <2>3. Upto(m, g)
    <3>1. g \in [1 .. m -> Seq(Nat)]
      <4> HIDE DEF new
      <4> QED
        BY <2>1, <2>2
    <3>2. ASSUME NEW i \in 1 .. m PROVE g[i] = IF i = 1 THEN seqs[1] ELSE g[i - 1] \o seqs[i]
      <4>1. CASE i = m
        <5>1. CASE m = 1
          BY <4>1, <5>1
        <5>2. CASE m # 1
          <6>1. m - 1 \in 1 .. m /\ m - 1 # m
            BY <5>2
          <6> HIDE DEF new
          <6>2. g[m - 1] = f[m - 1] /\ g[m] = new
            BY <6>1
          <6> QED
            BY <4>1, <5>2, <6>2 DEF new
        <5> QED
          BY <5>1, <5>2
      <4>2. CASE i # m
        <5>1. i \in 1 .. m - 1 /\ (i # 1 => i - 1 \in 1 .. m /\ i - 1 # m)
          BY <4>2
        <5> HIDE DEF new
        <5>2. g[i] = f[i] /\ (i # 1 => g[i - 1] = f[i - 1])
          BY <4>2, <5>1
        <5> HIDE DEF g
        <5> QED
          BY <2>1, <5>1, <5>2
      <4> QED
        BY <4>1, <4>2
    <3> QED
      BY <3>1, <3>2
  <2> HIDE DEF g, Upto
  <2> QED
    BY <2>3
<1> HIDE DEF S
<1>3. k \in S
  <2>1. 0 .. k \subseteq S
    BY <1>1, <1>2, IntervalInduction
  <2> QED
    BY <2>1
<1>4. PICK f : Upto(k, f)
  <2> HIDE DEF Upto
  <2> QED
    BY <1>3 DEF S
<1>5. f = [i \in 1 .. k |-> IF i = 1 THEN seqs[i] ELSE f[i - 1] \o seqs[i]]
  BY <1>4
<1> QED
  BY <1>4, <1>5

LEMMA FlattenTypes ==
  ASSUME NEW k \in Nat, NEW seqs \in [1 .. k -> Seq(Nat)]
  PROVE  FlattenSeq(seqs) \in Seq(Nat)
<1>1. seqs \in Seq(Seq(Nat)) /\ Len(seqs) = k
  <2> DEFINE T == Seq(Nat)
  <2>1. seqs \in [1 .. k -> T]
    OBVIOUS
  <2> HIDE DEF T
  <2>2. seqs \in Seq(T) /\ Len(seqs) = k
    BY <2>1, FunctionIsList
  <2> QED
    BY <2>2 DEF T
<1>2. CASE k = 0
  BY <1>1, <1>2 DEF FlattenSeq
<1>3. CASE k # 0
  <2> DEFINE Rec(f) == f = [i \in 1 .. k |-> IF i = 1 THEN seqs[i] ELSE f[i - 1] \o seqs[i]]
             c == CHOOSE f : Rec(f)
             S == {i \in 0 .. k : i # 0 => c[i] \in Seq(Nat)}
  <2>1. Rec(c)
    <3>1. \E f : Rec(f)
      <4>1. k \in Nat \ {0}
        BY <1>3
      <4>2. \E f \in [1 .. k -> Seq(Nat)] : Rec(f)
        BY <4>1, FlattenExists
      <4> HIDE DEF Rec
      <4> QED
        BY <4>2
    <3> HIDE DEF Rec
    <3> QED
      BY <3>1
  <2>2. FlattenSeq(seqs) = c[k]
    BY <1>1, <1>3 DEF FlattenSeq
  <2> HIDE DEF c
  <2>3. 0 \in S
    OBVIOUS
  <2>4. ASSUME NEW i \in 1 .. k, i - 1 \in S PROVE i \in S
    <3>1. CASE i = 1
      BY <2>1, <3>1
    <3>2. CASE i # 1
      <4>1. c[i - 1] \in Seq(Nat) /\ seqs[i] \in Seq(Nat)
        BY <2>4, <3>2
      <4>2. c[i] = c[i - 1] \o seqs[i]
        BY <2>1, <3>2
      <4>3. c[i] \in Seq(Nat)
        BY <4>1, <4>2
      <4> QED
        BY <4>3
    <3> QED
      BY <3>1, <3>2
  <2> HIDE DEF S
  <2>5. 0 .. k \subseteq S
    BY <2>3, <2>4, IntervalInduction
  <2>6. k \in S
    BY <2>5
  <2> QED
    BY <1>3, <2>2, <2>6 DEF S
<1> QED
  BY <1>2, <1>3

LEMMA PagesAreNumbers ==
  ASSUME NEW from \in Nat, NEW size \in Nat
  PROVE  PagesOf(from, size) \in Seq(Nat)
<1> DEFINE n == (size + PageSize - 1) \div PageSize
           page(i) == (from + (i - 1) * PageSize) \div PageSize
<1>1. PageSize \in Nat \ {0}
  BY TraceAssumption
<1>2. n \in Nat
  <2>1. size + PageSize - 1 \in Nat
    BY <1>1
  <2> QED
    BY <1>1, <2>1, QuotientBounds
<1>3. ASSUME NEW i \in 1 .. n PROVE page(i) \in Nat
  <2> HIDE DEF n
  <2>1. i - 1 \in Nat
    BY <1>2
  <2>2. (i - 1) * PageSize \in Nat
    BY <1>1, <2>1
  <2>3. from + (i - 1) * PageSize \in Nat
    BY <2>2
  <2> QED
    BY <1>1, <2>3, QuotientBounds
<1>4. PagesOf(from, size) = [i \in 1 .. n |-> page(i)]
  BY DEF PagesOf
<1> HIDE DEF n, page
<1>5. PagesOf(from, size) \in [1 .. n -> Nat]
  BY <1>3, <1>4
<1> QED
  BY <1>2, <1>5, FunctionIsList

LEMMA ParsedFile ==
  ASSUME NEW s, \E trace \in {"RocksDBYCSB", "Alibaba", "FIU"} : trace \in s
  PROVE  Parsed(s) \in Seq(Nat)
<1> DEFINE R == [op : {"WS", "R"}, start : Nat, len : Nat]
<1>1. Len(Records) \in Nat /\ DOMAIN Records = 1 .. Len(Records)
      /\ \A i \in 1 .. Len(Records) : Records[i] \in R
  <2>1. Records \in Seq(R)
    BY TraceAssumption
  <2> HIDE DEF R
  <2> QED
    BY <2>1
<1>2. ASSUME NEW i \in 1 .. Len(Records)
      PROVE  /\ parseBlktraceLine(Records[i]) \in Seq(Nat)
             /\ parseFIUTraceLine(Records[i]) \in Seq(Nat)
             /\ parseAlibabaTraceLine(Records[i]) \in Seq(Nat)
  <2> DEFINE r == Records[i]
  <2>1. /\ r.start \in Nat /\ r.len \in Nat
        /\ r.start * SectorSize \in Nat /\ r.len * SectorSize \in Nat
    BY <1>1, TraceAssumption
  <2> HIDE DEF r
  <2>2. PagesOf(r.start * SectorSize, r.len * SectorSize) \in Seq(Nat) /\ PagesOf(r.start, r.len) \in Seq(Nat)
    BY <2>1, PagesAreNumbers
  <2>3. <<>> \in Seq(Nat)
    OBVIOUS
  <2> QED
    BY <2>2, <2>3 DEF parseBlktraceLine, parseFIUTraceLine, parseAlibabaTraceLine, r
<1> HIDE DEF R
<1>3. /\ parseAndWriteBlktraceFile \in Seq(Nat) /\ parseAndWriteFIUTraceFile \in Seq(Nat)
      /\ parseAndWriteAlibabaTraceFile \in Seq(Nat)
  <2> DEFINE a == [i \in 1 .. Len(Records) |-> parseBlktraceLine(Records[i])]
             b == [i \in 1 .. Len(Records) |-> parseFIUTraceLine(Records[i])]
             c == [i \in 1 .. Len(Records) |-> parseAlibabaTraceLine(Records[i])]
             F == [1 .. Len(Records) -> Seq(Nat)]
  <2>1. a \in F /\ b \in F /\ c \in F
    BY <1>2
  <2>2. /\ parseAndWriteBlktraceFile = FlattenSeq(a) /\ parseAndWriteFIUTraceFile = FlattenSeq(b)
        /\ parseAndWriteAlibabaTraceFile = FlattenSeq(c)
    BY <1>1 DEF parseAndWriteBlktraceFile, parseAndWriteFIUTraceFile, parseAndWriteAlibabaTraceFile
  <2> HIDE DEF a, b, c
  <2> QED
    BY <1>1, <2>1, <2>2, FlattenTypes
<1>4. CASE "RocksDBYCSB" \in s
  BY <1>3, <1>4 DEF Parsed
<1>5. CASE "RocksDBYCSB" \notin s /\ "Alibaba" \in s
  BY <1>3, <1>5 DEF Parsed
<1>6. CASE "RocksDBYCSB" \notin s /\ "Alibaba" \notin s
  BY <1>3, <1>6 DEF Parsed
<1> QED
  BY <1>4, <1>5, <1>6

-----------------------------------------------------------------------------
(* A position that goes round n places.                                    *)
Turn(p, n) == IF p = n - 1 THEN 0 ELSE p + 1

LEMMA NextRemainder ==
  ASSUME NEW a \in Nat, NEW n \in Nat \ {0}
  PROVE  a % n \in 0 .. n - 1 /\ (a + 1) % n = Turn(a % n, n)
<1> DEFINE q == a \div n
           r == a % n
<1>1. q \in Nat /\ r \in 0 .. n - 1 /\ a = q * n + r
  BY Decomposition
<1> HIDE DEF q, r
<1>2. q * n \in Nat /\ (q + 1) * n = q * n + n
  BY <1>1
<1>3. CASE r = n - 1
  <2>1. a + 1 = (q + 1) * n + 0
    BY <1>1, <1>2, <1>3
  <2>2. (a + 1) % n = 0
    BY <1>1, <2>1, Division
  <2> QED
    BY <1>1, <1>3, <2>2 DEF Turn, r
<1>4. CASE r # n - 1
  <2>1. a + 1 = q * n + (r + 1) /\ r + 1 \in 0 .. n - 1
    BY <1>1, <1>2, <1>4
  <2>2. (a + 1) % n = r + 1
    BY <1>1, <2>1, Division
  <2> QED
    BY <1>1, <1>4, <2>2 DEF Turn, r
<1> QED
  BY <1>3, <1>4

LEMMA SmallRemainder ==
  ASSUME NEW n \in Nat \ {0}, NEW a \in 0 .. n - 1
  PROVE  a % n = a
<1>1. a = 0 * n + a
  OBVIOUS
<1> QED
  BY <1>1, Division

(* The entries from place s up to place e of a round of n places are       *)
(* counted once more than the others.                                      *)
Passed(i, s, e) == IF s <= e THEN s <= i /\ i < e ELSE s <= i \/ i < e

EvenBut(count, n, s, e) ==
  \E b \in Int : \A i \in 0 .. n - 1 : count[i + 1] = IF Passed(i, s, e) THEN b + 1 ELSE b

LEMMA PassedOn ==
  ASSUME NEW n \in Nat \ {0}, NEW s \in 0 .. n - 1, NEW e \in 0 .. n - 1, NEW i \in 0 .. n - 1
  PROVE  /\ Turn(e, n) # s => (Passed(i, s, Turn(e, n)) <=> Passed(i, s, e) \/ i = e)
         /\ Turn(e, n) = s => ~ Passed(i, s, Turn(e, n)) /\ (i # e <=> Passed(i, s, e))
         /\ ~ Passed(e, s, e)
BY DEF Turn, Passed

LEMMA CountOnce ==
  ASSUME NEW n \in Nat \ {0}, NEW s \in 0 .. n - 1, NEW e \in 0 .. n - 1,
         NEW count \in [1 .. n -> Int], EvenBut(count, n, s, e)
  PROVE  EvenBut([count EXCEPT ![e + 1] = @ + 1], n, s, Turn(e, n))
<1> DEFINE more == [count EXCEPT ![e + 1] = @ + 1]
<1>1. PICK b \in Int : \A i \in 0 .. n - 1 : count[i + 1] = IF Passed(i, s, e) THEN b + 1 ELSE b
  BY DEF EvenBut
<1>2. \A i \in 0 .. n - 1 : more[i + 1] = IF i = e THEN count[i + 1] + 1 ELSE count[i + 1]
  OBVIOUS
<1> HIDE DEF more
<1>3. ASSUME Turn(e, n) = s PROVE EvenBut(more, n, s, Turn(e, n))
  <2> DEFINE c == b + 1
  <2>1. /\ c \in Int
        /\ \A i \in 0 .. n - 1 : more[i + 1] = IF Passed(i, s, Turn(e, n)) THEN c + 1 ELSE c
    BY <1>1, <1>2, <1>3, PassedOn
  <2> HIDE DEF c
  <2> QED
    BY <2>1 DEF EvenBut
<1>4. ASSUME Turn(e, n) # s PROVE EvenBut(more, n, s, Turn(e, n))
  <2>1. \A i \in 0 .. n - 1 : more[i + 1] = IF Passed(i, s, Turn(e, n)) THEN b + 1 ELSE b
    BY <1>1, <1>2, <1>4, PassedOn
  <2> QED
    BY <2>1 DEF EvenBut
<1>5. EvenBut(more, n, s, Turn(e, n))
  BY <1>3, <1>4
<1> QED
  BY <1>5 DEF more

(* Taking the same number from every count.                                *)
LEMMA CountLess ==
  ASSUME NEW n \in Nat \ {0}, NEW s, NEW e, NEW k \in Int, NEW count \in [1 .. n -> Int],
         NEW less, \A i \in 1 .. n : less[i] = count[i] - k, EvenBut(count, n, s, e)
  PROVE  EvenBut(less, n, s, e)
<1>1. PICK b \in Int : \A i \in 0 .. n - 1 : count[i + 1] = IF Passed(i, s, e) THEN b + 1 ELSE b
  BY DEF EvenBut
<1> DEFINE c == b - k
<1>2. /\ c \in Int
      /\ \A i \in 0 .. n - 1 : less[i + 1] = IF Passed(i, s, e) THEN c + 1 ELSE c
  BY <1>1
<1> HIDE DEF c
<1> QED
  BY <1>2 DEF EvenBut

(* Counts that are even but for the places that were passed have a least.  *)
LEMMA LeastOfCounts ==
  ASSUME NEW n \in Nat \ {0}, NEW s, NEW e,
         NEW count \in [1 .. n -> Int], NEW more \in [1 .. n -> Int], EvenBut(count, n, s, e),
         \A i \in 1 .. n : more[i] = count[i] \/ more[i] = count[i] - 1
  PROVE  \E j \in 1 .. n : \A i \in 1 .. n : more[j] <= more[i]
<1> DEFINE Least(m) == \A i \in 1 .. n : m <= more[i]
<1>1. PICK b \in Int : \A i \in 0 .. n - 1 : count[i + 1] = IF Passed(i, s, e) THEN b + 1 ELSE b
  BY DEF EvenBut
<1>2. ASSUME NEW i \in 1 .. n PROVE more[i] = b - 1 \/ more[i] = b \/ more[i] = b + 1
  <2>1. count[i] = b \/ count[i] = b + 1
    <3>1. i - 1 \in 0 .. n - 1 /\ i - 1 + 1 = i
      OBVIOUS
    <3> QED
      BY <1>1, <3>1
  <2>2. more[i] = count[i] \/ more[i] = count[i] - 1
    OBVIOUS
  <2> QED
    BY <2>1, <2>2
<1>3. ASSUME NEW j \in 1 .. n, Least(more[j]) PROVE \E k \in 1 .. n : Least(more[k])
  BY <1>3
<1>4. CASE \E j \in 1 .. n : more[j] = b - 1
  <2>1. PICK j \in 1 .. n : more[j] = b - 1
    BY <1>4
  <2>2. ASSUME NEW i \in 1 .. n PROVE more[j] <= more[i]
    <3>1. more[i] = b - 1 \/ more[i] = b \/ more[i] = b + 1
      BY <1>2
    <3> QED
      BY <2>1, <3>1
  <2> QED
    BY <1>3, <2>2
<1>5. CASE (\A j \in 1 .. n : more[j] # b - 1) /\ \E j \in 1 .. n : more[j] = b
  <2>1. PICK j \in 1 .. n : more[j] = b
    BY <1>5
  <2>2. ASSUME NEW i \in 1 .. n PROVE more[j] <= more[i]
    <3>1. more[i] = b - 1 \/ more[i] = b \/ more[i] = b + 1
      BY <1>2
    <3> QED
      BY <1>5, <2>1, <3>1, SMTT(30)
  <2> QED
    BY <1>3, <2>2
<1>6. CASE \A j \in 1 .. n : more[j] = b + 1
  <2>1. 1 \in 1 .. n
    OBVIOUS
  <2>2. Least(more[1])
    BY <1>6, <2>1
  <2> QED
    BY <1>3, <2>1, <2>2
<1> QED
  BY <1>2, <1>4, <1>5, <1>6

(* The count of a draw: one entry more, then less the least.               *)
LEMMA CountedIs ==
  ASSUME NEW n \in Nat \ {0}, NEW pos \in 1 .. n, replayed \in [1 .. n -> Int],
         NEW more \in [1 .. n -> Int],
         \A i \in 1 .. n : more[i] = IF i = pos THEN replayed[i] + 1 ELSE replayed[i],
         \E j \in 1 .. n : \A i \in 1 .. n : more[j] <= more[i]
  PROVE  /\ Counted(pos) \in [1 .. n -> Int]
         /\ \E k \in Int : \A i \in 1 .. n : Counted(pos)[i] = more[i] - k
<1> DEFINE counts == [replayed EXCEPT ![pos] = @ + 1]
           least == CHOOSE m \in {counts[i] : i \in DOMAIN counts} :
                      \A i \in DOMAIN counts : m <= counts[i]
<1>1. DOMAIN counts = 1 .. n /\ \A i \in 1 .. n : counts[i] = more[i]
  OBVIOUS
<1>2. Counted(pos) = [i \in DOMAIN counts |-> counts[i] - least]
  BY DEF Counted
<1> HIDE DEF counts
<1>3. least \in {counts[i] : i \in DOMAIN counts}
  <2> DEFINE values == {counts[i] : i \in DOMAIN counts}
             Least(m) == \A i \in DOMAIN counts : m <= counts[i]
  <2>1. \E m \in values : Least(m)
    BY <1>1
  <2> HIDE DEF values, Least
  <2>2. (CHOOSE m \in values : Least(m)) \in values
    BY <2>1
  <2> QED
    BY <2>2 DEF values, Least
<1> HIDE DEF least
<1>4. least \in Int
  BY <1>1, <1>3
<1>5. Counted(pos) = [i \in 1 .. n |-> counts[i] - least]
  BY <1>1, <1>2
<1>6. ASSUME NEW i \in 1 .. n
      PROVE  counts[i] - least \in Int /\ Counted(pos)[i] = more[i] - least
  <2>1. counts[i] = more[i] /\ more[i] \in Int
    BY <1>1
  <2>2. Counted(pos)[i] = counts[i] - least
    BY <1>5
  <2> QED
    BY <1>4, <2>1, <2>2
<1>7. Counted(pos) \in [1 .. n -> Int]
  BY <1>5, <1>6
<1> QED
  BY <1>4, <1>6, <1>7

-----------------------------------------------------------------------------
(* The draws of a pattern.                                                *)

(* Where a generator stands in the file of genzipf: it has read up to the  *)
(* end of the chunk it is in, or of the file.                              *)
FioPlace(g) ==
  LET writes == g.options.totalWrites
      within == g.traceIndex % ChunkSize
      end    == g.traceIndex - within + ChunkSize
  IN /\ writes \in Nat /\ g.traceIndex \in 0 .. writes
     /\ within = 0 => g.lastPos = g.traceIndex
     /\ within # 0 => g.lastPos = IF writes < end THEN writes ELSE end

OwnPages(g) ==
  /\ DOMAIN g = GenFields
  /\ g.logicalPages \in Nat \ {0} /\ g.options.logicalPages = g.logicalPages
  /\ DOMAIN g.shuffleVector = 0 .. g.logicalPages - 1
  /\ g.seq \in 0 .. g.logicalPages - 1
  /\ IF g.pattern \in {"zones", "seqzones"} THEN Dealt(g.zones, g.logicalPages) ELSE g.zones = <<>>
  /\ g.pattern = "fiozipf" => FioPlace(g)

(* A zone moves on and stays where it is.                                  *)
LEMMA ZoneDraw ==
  ASSUME NEW zones, NEW n \in Nat, Dealt(zones, n), NEW i \in DOMAIN zones,
         NEW d \in SubDraws(zones[i].sub)
  PROVE  /\ zones[i].offset + d.page \in 0 .. n - 1
         /\ Dealt([zones EXCEPT ![i].sub = d.gen], n)
<1>1. PICK counts \in Seq(Nat) : \E sums : DealtBy(zones, n, counts, sums)
  BY DEF Dealt
<1>2. PICK sums : DealtBy(zones, n, counts, sums)
  BY <1>1
<1>3. /\ Len(counts) \in Nat /\ DOMAIN zones = 1 .. Len(counts) /\ i \in 1 .. Len(counts)
      /\ counts[i] \in Nat \ {0} /\ Sums(counts, sums) /\ sums[Len(counts)] = n
      /\ zones[i].offset = sums[i - 1] /\ SubInv(zones[i].sub, counts[i])
  BY <1>2 DEF DealtBy
<1>4. d.page \in 0 .. counts[i] - 1 /\ SubInv(d.gen, counts[i])
  BY <1>3, SubDraw
<1>5. zones[i].offset + d.page \in 0 .. n - 1
  <2>1. i \in 0 .. Len(counts) /\ Len(counts) \in i .. Len(counts) /\ i - 1 \in 0 .. Len(counts)
    BY <1>3
  <2>2. sums[i] <= n
    BY <1>3, <2>1, SumsGrowing
  <2>3. sums[i] = sums[i - 1] + counts[i] /\ sums[i - 1] \in Nat
    BY <1>3, <2>1 DEF Sums
  <2> DEFINE a == sums[i - 1]
             b == counts[i]
  <2>4. zones[i].offset = a /\ a \in Nat /\ b \in Nat /\ a + b <= n /\ d.page \in 0 .. b - 1
    BY <1>3, <1>4, <2>2, <2>3
  <2> HIDE DEF a, b
  <2> QED
    BY <2>4
<1>6. Dealt([zones EXCEPT ![i].sub = d.gen], n)
  <2> DEFINE new == [zones EXCEPT ![i].sub = d.gen]
  <2>1. /\ DOMAIN new = DOMAIN zones
        /\ \A j \in DOMAIN zones : j # i => new[j] = zones[j]
        /\ new[i] = [zones[i] EXCEPT !.sub = d.gen]
    OBVIOUS
  <2>2. DOMAIN zones[i] = {"offset", "freq", "sub"}
    BY <1>2, <1>3 DEF DealtBy
  <2>3. /\ DOMAIN new[i] = {"offset", "freq", "sub"} /\ new[i].offset = zones[i].offset
        /\ new[i].freq = zones[i].freq /\ new[i].sub = d.gen
    BY <2>1, <2>2
  <2> HIDE DEF new
  <2>4. DealtBy(new, n, counts, sums)
    <3>1. ASSUME NEW j \in 1 .. Len(counts)
          PROVE  /\ DOMAIN new[j] = {"offset", "freq", "sub"}
                 /\ new[j].offset = sums[j - 1] /\ new[j].freq = zones[j].freq
                 /\ counts[j] # 0 /\ SubInv(new[j].sub, counts[j])
      <4>1. CASE j = i
        BY <1>3, <1>4, <2>3, <4>1
      <4>2. CASE j # i
        BY <1>2, <1>3, <2>1, <4>2 DEF DealtBy
      <4> QED
        BY <4>1, <4>2
    <3>2. \E j \in 1 .. Len(counts) : new[j].freq > 0
      BY <1>2, <3>1 DEF DealtBy
    <3> QED
      BY <1>3, <2>1, <3>1, <3>2 DEF DealtBy
  <2> QED
    BY <2>4 DEF Dealt, new
<1> QED
  BY <1>5, <1>6

LEMMA ZonesCanDraw ==
  ASSUME NEW g, NEW n \in Nat, Dealt(g.zones, n)
  PROVE  accessZonesGenerator(g) # {}
<1>1. PICK counts \in Seq(Nat) : \E sums : DealtBy(g.zones, n, counts, sums)
  BY DEF Dealt
<1>2. PICK sums : DealtBy(g.zones, n, counts, sums)
  BY <1>1
<1>3. PICK i \in 1 .. Len(counts) : g.zones[i].freq > 0
  BY <1>2 DEF DealtBy
<1>4. i \in DOMAIN g.zones /\ counts[i] \in Nat \ {0} /\ SubInv(g.zones[i].sub, counts[i])
  BY <1>2, <1>3, SMTT(30) DEF DealtBy
<1>5. PICK d : d \in SubDraws(g.zones[i].sub)
  BY <1>4, SubCanDraw
<1> DEFINE own == {Drawn(g.zones[i].offset + x.page, [g EXCEPT !.zones[i].sub = x.gen]) :
                     x \in SubDraws(g.zones[i].sub)}
<1>6. own # {}
  BY <1>5
<1>7. own \subseteq accessZonesGenerator(g)
  BY <1>3, <1>4 DEF accessZonesGenerator
<1> QED
  BY <1>6, <1>7

LEMMA NewOwnPages ==
  ASSUME NEW s, NEW o, o.logicalPages \in Nat \ {0}, o.totalWrites \in Nat,
         stringToPattern(s) = "zones" =>
           \E i \in DOMAIN parseZoneSizes(ZoneWords) : parseZoneSizes(ZoneWords)[i].freq > 0,
         NEW g \in Generators(s, o)
  PROVE  OwnPages(g) /\ g.traceIndex = 0
<1>1. PICK v \in ShuffleVectors(o.logicalPages, IsShuffled(s)), zones \in Zones(stringToPattern(s), o) :
        g = [pattern |-> stringToPattern(s), logicalPages |-> o.logicalPages, options |-> o,
             seq |-> 0, shuffleVector |-> v, zones |-> zones,
             zoneIds |-> [i \in 1 .. o.activeZones |-> -1],
             zoneOffsets |-> [i \in 1 .. o.activeZones |-> o.pagesPerZone],
             inputTraces |-> <<>>, traceIndex |-> 0, lastPos |-> 0]
  BY DEF Generators
<1>2. /\ DOMAIN g = GenFields /\ g.options = o /\ g.pattern = stringToPattern(s)
      /\ g.logicalPages = o.logicalPages /\ g.seq = 0 /\ g.zones = zones
      /\ g.shuffleVector = v /\ g.traceIndex = 0 /\ g.lastPos = 0
  BY <1>1 DEF GenFields
<1>3. DOMAIN v = 0 .. o.logicalPages - 1
  BY DEF ShuffleVectors
<1>4. CASE g.pattern = "zones"
  <2>1. zones \in ZoneLists(parseZoneSizes(ZoneWords), o.logicalPages)
    BY <1>2, <1>4 DEF Zones
  <2>2. parseZoneSizes(ZoneWords) \in Seq(ZoneSpecs)
    BY PatternAssumption, ParsedZones
  <2>3. \E i \in DOMAIN parseZoneSizes(ZoneWords) : parseZoneSizes(ZoneWords)[i].freq > 0
    BY <1>2, <1>4
  <2>4. Dealt(zones, o.logicalPages)
    BY <2>1, <2>2, <2>3, NewZones
  <2> QED
    BY <1>2, <1>3, <1>4, <2>4 DEF OwnPages
<1>5. CASE g.pattern = "seqzones"
  <2>1. zones \in ZoneLists(SeqZones, o.logicalPages)
    BY <1>2, <1>5 DEF Zones
  <2>2. Dealt(zones, o.logicalPages)
    BY <2>1, SeqZonesAreZones, NewZones
  <2> QED
    BY <1>2, <1>3, <1>5, <2>2 DEF OwnPages
<1>6. CASE g.pattern \notin {"zones", "seqzones"}
  <2>1. zones = <<>>
    BY <1>2, <1>6 DEF Zones
  <2>2. FioPlace(g)
    <3>1. 0 % ChunkSize = 0
      <4>1. ChunkSize \in Nat \ {0} /\ 0 \in 0 .. ChunkSize - 1
        BY PatternAssumption
      <4> QED
        BY <4>1, SmallRemainder
    <3> QED
      BY <1>2, <3>1 DEF FioPlace
  <2> QED
    BY <1>2, <1>3, <1>6, <2>1, <2>2 DEF OwnPages
<1> QED
  BY <1>2, <1>4, <1>5, <1>6

(* Each fetch reads up to the end of a chunk or of the file; when the file *)
(* ends within a chunk, its end is noticed before anything more is read.   *)
LEMMA FioDraw ==
  ASSUME NEW g, DOMAIN g = GenFields, g.logicalPages \in Nat \ {0}, FioPlace(g),
         NEW d \in getPageFromFIOTrace(g)
  PROVE  /\ d.page \in 0 .. g.logicalPages - 1 /\ FioPlace(d.gen)
         /\ d.gen.seq = g.seq /\ d.gen.zones = g.zones /\ d.gen.options = g.options
<1> DEFINE w == g.options.totalWrites
           t == g.traceIndex
           C == ChunkSize
           p == t % C
           left == w - g.lastPos
           read == IF left < C THEN left ELSE C
           h == IF FioFetches(g) THEN [g EXCEPT !.lastPos = @ + read] ELSE g
<1>1. w \in Nat /\ t \in 0 .. w /\ C \in Nat \ {0, 1} /\ p \in 0 .. C - 1 /\ t - p \in Nat
  <2>1. w \in Nat /\ t \in 0 .. w /\ C \in Nat \ {0, 1}
    BY PatternAssumption DEF FioPlace
  <2> DEFINE m == t \div C
  <2>2. p \in 0 .. C - 1 /\ m \in Nat /\ t = m * C + p
    <3>1. t \in Nat /\ C \in Nat \ {0}
      BY <2>1
    <3> QED
      BY <3>1, Decomposition
  <2> HIDE DEF m, p
  <2>3. m * C \in Nat
    BY <2>1, <2>2
  <2> QED
    BY <2>1, <2>2, <2>3
<1>2. /\ p = 0 => g.lastPos = t
      /\ p # 0 => g.lastPos = IF w < t - p + C THEN w ELSE t - p + C
  BY DEF FioPlace
<1>3. FioFetches(g) <=> p = 0
  BY DEF FioFetches
<1>4. (t + 1) % C = IF p = C - 1 THEN 0 ELSE p + 1
  <2>1. t \in Nat /\ C \in Nat \ {0}
    BY <1>1
  <2> QED
    BY <2>1, NextRemainder DEF Turn
<1>5. /\ h.traceIndex = t /\ h.seq = g.seq /\ h.zones = g.zones /\ h.options = g.options
      /\ DOMAIN h = GenFields
      /\ h.lastPos = IF p = 0 THEN g.lastPos + read ELSE g.lastPos
  BY <1>3 DEF GenFields
<1>6. ~ (FioFetches(g) /\ left = 0)
  BY DEF getPageFromFIOTrace
<1> HIDE DEF h
<1>7. CASE t >= w
  <2>1. d = Drawn(0, h)
    <3>1. t >= w /\ ~ (t < w)
      BY <1>1, <1>7
    <3> DEFINE L == left = 0
    <3>2. ~ (FioFetches(g) /\ L)
      BY <1>6
    <3>3. d \in CASE FioFetches(g) /\ L -> {}
                 [] ~ (FioFetches(g) /\ L) /\ t >= w -> {Drawn(0, h)}
                 [] ~ (FioFetches(g) /\ L) /\ t < w ->
                      {Drawn(page, [h EXCEPT !.traceIndex = @ + 1]) : page \in 0 .. g.logicalPages - 1}
      BY DEF getPageFromFIOTrace, h
    <3> HIDE DEF L, w, t
    <3> QED
      BY <3>1, <3>2, <3>3
  <2>2. t = w /\ p # 0
    <3> HIDE DEF p
    <3>1. t = w
      BY <1>1, <1>7
    <3>2. p = 0 => left = 0
      BY <1>1, <1>2, <3>1
    <3> QED
      BY <1>3, <1>6, <3>1, <3>2
  <2>3. h = g
    BY <1>3, <2>2 DEF h
  <2> QED
    BY <2>1, <2>3 DEF Drawn
<1>8. CASE t < w
  <2>1. PICK page \in 0 .. g.logicalPages - 1 : d = Drawn(page, [h EXCEPT !.traceIndex = @ + 1])
    <3>1. d \in {Drawn(page, [h EXCEPT !.traceIndex = @ + 1]) : page \in 0 .. g.logicalPages - 1}
      BY <1>1, <1>6, <1>8 DEF getPageFromFIOTrace, h
    <3> QED
      BY <3>1
  <2>2. /\ d.page = page /\ d.gen.traceIndex = t + 1 /\ d.gen.lastPos = h.lastPos
        /\ d.gen.seq = g.seq /\ d.gen.zones = g.zones /\ d.gen.options = g.options
    BY <1>5, <2>1 DEF Drawn, GenFields
  <2>3. t + 1 - ((t + 1) % C) + C = IF p = C - 1 THEN t + 1 + C ELSE t - p + C
    <3> HIDE DEF p
    <3> QED
      BY <1>1, <1>4
  <2>4. /\ (t + 1) % C = 0 => h.lastPos = t + 1
        /\ (t + 1) % C # 0 => h.lastPos = IF w < t - p + C THEN w ELSE t - p + C
    <3> HIDE DEF p
    <3>1. CASE p = 0
      <4>1. g.lastPos = t /\ h.lastPos = t + (IF w - t < C THEN w - t ELSE C)
        BY <1>2, <1>5, <3>1
      <4>2. (t + 1) % C = 1
        BY <1>1, <1>4, <3>1
      <4> QED
        BY <1>1, <3>1, <4>1, <4>2
    <3>2. CASE p # 0
      <4>1. h.lastPos = IF w < t - p + C THEN w ELSE t - p + C
        BY <1>2, <1>5, <3>2
      <4> QED
        BY <1>1, <1>4, <1>8, <3>2, <4>1
    <3> QED
      BY <3>1, <3>2
  <2>5. FioPlace(d.gen)
    <3>1. t + 1 \in 0 .. w
      BY <1>1, <1>8
    <3> DEFINE q == (t + 1) % C
    <3>2. (q # 0 => p # C - 1) /\ (t + 1) % ChunkSize = q
      BY <1>1, <1>4
    <3>3. t + 1 - q + C = IF p = C - 1 THEN t + 1 + C ELSE t - p + C
      BY <2>3
    <3> HIDE DEF q, p
    <3>4. q # 0 => h.lastPos = IF w < t + 1 - q + C THEN w ELSE t + 1 - q + C
      BY <2>4, <3>2, <3>3
    <3>5. q = 0 => h.lastPos = t + 1
      BY <2>4, <3>2
    <3> QED
      BY <1>1, <2>2, <3>1, <3>2, <3>4, <3>5 DEF FioPlace
  <2> QED
    BY <2>1, <2>2, <2>5
<1> QED
  BY <1>1, <1>7, <1>8

LEMMA FioCanDraw ==
  ASSUME NEW g, g.logicalPages \in Nat \ {0}, FioPlace(g), getPageFromFIOTrace(g) = {}
  PROVE  g.options.totalWrites % ChunkSize = 0
<1> DEFINE left == g.options.totalWrites - g.lastPos
<1>1. FioPlace(g) /\ 0 \in 0 .. g.logicalPages - 1
  OBVIOUS
<1>2. FioFetches(g) /\ left = 0
  <2> DEFINE L == left = 0
             over == g.traceIndex >= g.options.totalWrites
             more == g.traceIndex < g.options.totalWrites
             C == ChunkSize
             read == IF left < C THEN left ELSE C
             h == IF FioFetches(g) THEN [g EXCEPT !.lastPos = @ + read] ELSE g
             steps == {Drawn(page, [h EXCEPT !.traceIndex = @ + 1]) : page \in 0 .. g.logicalPages - 1}
  <2>1. SUFFICES ASSUME ~ (FioFetches(g) /\ L) PROVE FALSE
    OBVIOUS
  <2>2. getPageFromFIOTrace(g) = CASE FioFetches(g) /\ L -> {}
                 [] ~ (FioFetches(g) /\ L) /\ over -> {Drawn(0, h)}
                 [] ~ (FioFetches(g) /\ L) /\ more -> steps
    BY DEF getPageFromFIOTrace
  <2>3. steps # {}
    BY <1>1
  <2>4. (over /\ ~ more) \/ (more /\ ~ over)
    BY DEF FioPlace
  <2> HIDE DEF L, over, more, steps, h
  <2> QED
    BY <2>1, <2>2, <2>3, <2>4
<1>3. g.traceIndex % ChunkSize = 0 /\ g.lastPos = g.traceIndex
  BY <1>2 DEF FioFetches, FioPlace
<1>4. g.options.totalWrites = g.traceIndex
  BY <1>2, <1>3 DEF FioPlace
<1> QED
  BY <1>3, <1>4

(* What a draw of any pattern leaves of the generator, and where it lies.  *)
LEMMA OwnDraw ==
  ASSUME NEW g, IsGenerator(g), OwnPages(g), NEW d \in Draws(g)
  PROVE  /\ OwnPages(d.gen)
         /\ g.pattern \notin {"trace", "zns"} => d.page \in 0 .. g.logicalPages - 1
<1>0. DOMAIN g = GenFields /\ g.logicalPages \in Nat \ {0} /\ SameObject(d.gen, g)
  BY DrawKeeps DEF IsGenerator, OwnPages
<1>1. g.pattern \in {"sequential", "uniform", "beta", "seqzones", "zones", "fiozipf",
                     "zipf", "trace", "mockdb", "zns"}
  BY DEF IsGenerator, Keywords
<1>2. CASE g.pattern = "sequential"
  <2>1. d \in Sequential(g)
    BY <1>2 DEF Draws, PatternDraws
  <2>2. d = Drawn(g.seq, [g EXCEPT !.seq = (@ + 1) % g.logicalPages])
    BY <2>1 DEF Sequential
  <2>3. (g.seq + 1) % g.logicalPages \in 0 .. g.logicalPages - 1
    BY DEF OwnPages
  <2>4. /\ d.page = g.seq /\ d.gen.seq = (g.seq + 1) % g.logicalPages /\ d.gen.zones = g.zones
    BY <1>0, <2>2 DEF Drawn, GenFields
  <2> QED
    BY <1>0, <1>2, <2>3, <2>4 DEF OwnPages, SameObject
<1>3. CASE g.pattern \in {"uniform", "beta", "zipf"}
  <2>1. d \in Random(g)
    BY <1>3 DEF Draws, PatternDraws
  <2> QED
    BY <2>1 DEF Random, Drawn
<1>4. CASE g.pattern \in {"zones", "seqzones"}
  <2>1. d \in accessZonesGenerator(g)
    BY <1>4 DEF Draws, PatternDraws
  <2>2. PICK i \in DOMAIN g.zones :
          \E e \in SubDraws(g.zones[i].sub) :
            d = Drawn(g.zones[i].offset + e.page, [g EXCEPT !.zones[i].sub = e.gen])
    BY <2>1 DEF accessZonesGenerator
  <2>3. PICK e \in SubDraws(g.zones[i].sub) :
          d = Drawn(g.zones[i].offset + e.page, [g EXCEPT !.zones[i].sub = e.gen])
    BY <2>2
  <2>4. /\ d.page = g.zones[i].offset + e.page /\ d.gen.seq = g.seq
        /\ d.gen.zones = [g.zones EXCEPT ![i].sub = e.gen]
    BY <1>0, <2>3 DEF Drawn, GenFields
  <2>5. Dealt(g.zones, g.logicalPages)
    BY <1>4 DEF OwnPages
  <2>6. /\ g.zones[i].offset + e.page \in 0 .. g.logicalPages - 1
        /\ Dealt([g.zones EXCEPT ![i].sub = e.gen], g.logicalPages)
    BY <1>0, <2>5, ZoneDraw
  <2> QED
    BY <1>0, <1>4, <2>4, <2>6 DEF OwnPages, SameObject
<1>5. CASE g.pattern = "fiozipf"
  <2>1. d \in getPageFromFIOTrace(g)
    BY <1>5 DEF Draws, PatternDraws
  <2>2. /\ d.page \in 0 .. g.logicalPages - 1 /\ FioPlace(d.gen)
        /\ d.gen.seq = g.seq /\ d.gen.zones = g.zones
    BY <1>0, <1>5, <2>1, FioDraw DEF OwnPages
  <2> QED
    BY <1>0, <1>5, <2>2 DEF OwnPages, SameObject
<1>6. CASE g.pattern = "trace"
  <2>1. file # <<>> /\ d = getPageFromParsedTrace(g)
    BY <1>6 DEF Draws, PatternDraws
  <2>2. d.gen.seq = g.seq /\ d.gen.zones = g.zones
    BY <1>0, <2>1 DEF getPageFromParsedTrace, Drawn, GenFields
  <2> QED
    BY <1>0, <1>6, <2>2 DEF OwnPages, SameObject
<1>7. CASE g.pattern = "mockdb"
  BY <1>7 DEF Draws, PatternDraws, accessDBGenerator
<1>8. CASE g.pattern = "zns"
  <2>1. d \in accessZNS(g)
    BY <1>8 DEF Draws, PatternDraws
  <2>2. PICK i \in DOMAIN g.zoneIds : IsNext(g, i, d) \/ \E z \in FreeZones(g) : IsOpen(g, i, z, d)
    BY <2>1, CursorDraws
  <2>3. d.gen.seq = g.seq /\ d.gen.zones = g.zones
    BY <1>0, <2>2 DEF IsNext, IsOpen, GenFields
  <2> QED
    BY <1>0, <1>8, <2>3 DEF OwnPages, SameObject
<1> QED
  BY <1>1, <1>2, <1>3, <1>4, <1>5, <1>6, <1>7, <1>8

(* Only mockdb, and a fio trace that ends with a chunk, have nothing to    *)
(* draw.                                                                   *)
LEMMA OwnCanDraw ==
  ASSUME NEW g, IsGenerator(g), OwnPages(g), g.pattern \notin {"mockdb", "trace", "zns"},
         Draws(g) = {}
  PROVE  g.pattern = "fiozipf" /\ g.options.totalWrites % ChunkSize = 0
<1>1. g.pattern \in {"sequential", "uniform", "beta", "seqzones", "zones", "fiozipf", "zipf"}
  BY DEF IsGenerator, Keywords
<1>2. g.logicalPages \in Nat \ {0} /\ 0 \in 0 .. g.logicalPages - 1
  BY DEF OwnPages
<1>3. CASE g.pattern = "sequential"
  BY <1>3 DEF Draws, PatternDraws, Sequential
<1>4. CASE g.pattern \in {"uniform", "beta", "zipf"}
  <2>1. Random(g) = {}
    BY <1>4 DEF Draws, PatternDraws
  <2> QED
    BY <1>2, <2>1 DEF Random
<1>5. CASE g.pattern \in {"zones", "seqzones"}
  <2>1. accessZonesGenerator(g) = {}
    BY <1>5 DEF Draws, PatternDraws
  <2>2. Dealt(g.zones, g.logicalPages)
    BY <1>5 DEF OwnPages
  <2> QED
    BY <1>2, <2>1, <2>2, ZonesCanDraw
<1>6. CASE g.pattern = "fiozipf"
  <2>1. getPageFromFIOTrace(g) = {}
    BY <1>6 DEF Draws, PatternDraws
  <2> QED
    BY <1>2, <1>6, <2>1, FioCanDraw DEF OwnPages
<1> QED
  BY <1>1, <1>3, <1>4, <1>5, <1>6

-----------------------------------------------------------------------------
(* The reader of a trace.  Within a chunk its first entry, which is drawn  *)
(* last, is counted in advance: then the entries drawn are those from the  *)
(* place s where the generator began up to the next.                       *)
Round(g, s, n, pos, counts) ==
  /\ pos \in 0 .. n - 1 /\ g.traceIndex \in 0 .. ChunkSize - 1
  /\ g.traceIndex = 0 => EvenBut(counts, n, s, pos)
  /\ g.traceIndex # 0 => \E q \in 0 .. n - 1 :
       /\ g.inputTraces = [i \in 0 .. ChunkSize - 1 |-> ((q + i) % n) + 1]
       /\ pos = (q + ChunkSize) % n
       /\ EvenBut([counts EXCEPT ![q + 1] = @ + 1], n, s, (q + g.traceIndex + 1) % n)

ReaderInv ==
  /\ file \in Seq(Nat) /\ replayed \in [1 .. Len(file) -> Int]
  /\ IF gen.pattern = "trace"
     THEN file # <<>> => \E s \in 0 .. Len(file) - 1 : Round(gen, s, Len(file), filePos, replayed)
     ELSE file = <<>>

(* What the count of a draw does to counts that are even with one entry    *)
(* counted in advance, or without.                                         *)
LEMMA CountedEven ==
  ASSUME NEW n \in Nat \ {0}, replayed \in [1 .. n -> Int], NEW s \in 0 .. n - 1,
         NEW e \in 0 .. n - 1, NEW q \in 0 .. n - 1,
         EvenBut([replayed EXCEPT ![q + 1] = @ + 1], n, s, e)
  PROVE  /\ Counted(e + 1) \in [1 .. n -> Int]
         /\ EvenBut([Counted(e + 1) EXCEPT ![q + 1] = @ + 1], n, s, Turn(e, n))
         /\ Counted(q + 1) \in [1 .. n -> Int]
         /\ EvenBut(Counted(q + 1), n, s, e)
<1> DEFINE ahead == [replayed EXCEPT ![q + 1] = @ + 1]
           more == [replayed EXCEPT ![e + 1] = @ + 1]
           both == [ahead EXCEPT ![e + 1] = @ + 1]
           C == Counted(e + 1)
           after == [C EXCEPT ![q + 1] = @ + 1]
<1>1. ahead \in [1 .. n -> Int] /\ more \in [1 .. n -> Int] /\ both \in [1 .. n -> Int]
  OBVIOUS
<1>2. /\ \A i \in 1 .. n : both[i] = IF i = q + 1 THEN more[i] + 1 ELSE more[i]
      /\ \A i \in 1 .. n : more[i] = IF i = e + 1 THEN replayed[i] + 1 ELSE replayed[i]
      /\ \A i \in 1 .. n : ahead[i] = IF i = q + 1 THEN replayed[i] + 1 ELSE replayed[i]
  OBVIOUS
<1>3. e + 1 \in 1 .. n /\ q + 1 \in 1 .. n /\ Turn(e, n) \in 0 .. n - 1
  BY DEF Turn
<1>4. EvenBut(ahead, n, s, e)
  OBVIOUS
<1>5. EvenBut(both, n, s, Turn(e, n))
  <2> HIDE DEF ahead
  <2> QED
    BY <1>1, <1>4, CountOnce
<1> HIDE DEF ahead, more, both
<1>6. /\ C \in [1 .. n -> Int]
      /\ \E k \in Int : \A i \in 1 .. n : C[i] = more[i] - k
  <2>2. ASSUME NEW i \in 1 .. n PROVE more[i] = both[i] \/ more[i] = both[i] - 1
    <3>1. more[i] \in Int /\ (both[i] = more[i] \/ both[i] = more[i] + 1)
      BY <1>1, <1>2
    <3> QED
      BY <3>1
  <2>3. \E j \in 1 .. n : \A i \in 1 .. n : more[j] <= more[i]
    BY <1>1, <1>5, <2>2, LeastOfCounts
  <2> QED
    BY <1>1, <1>2, <1>3, <2>3, CountedIs
<1>7. /\ Counted(q + 1) \in [1 .. n -> Int]
      /\ \E k \in Int : \A i \in 1 .. n : Counted(q + 1)[i] = ahead[i] - k
  <2>2. \E j \in 1 .. n : \A i \in 1 .. n : ahead[j] <= ahead[i]
    BY <1>1, <1>4, LeastOfCounts
  <2> QED
    BY <1>1, <1>2, <1>3, <2>2, CountedIs
<1>8. EvenBut(Counted(q + 1), n, s, e)
  BY <1>1, <1>4, <1>7, CountLess
<1>9. PICK k \in Int : \A i \in 1 .. n : C[i] = more[i] - k
  BY <1>6
<1>10. \A i \in 1 .. n : after[i] = both[i] - k
  <2> HIDE DEF C
  <2>1. \A i \in 1 .. n : after[i] = IF i = q + 1 THEN C[i] + 1 ELSE C[i]
    BY <1>3, <1>6
  <2> HIDE DEF after
  <2>2. ASSUME NEW i \in 1 .. n PROVE after[i] = both[i] - k
    <3>1. C[i] = more[i] - k /\ more[i] \in Int /\ C[i] \in Int
      BY <1>1, <1>6, <1>9
    <3>2. CASE i = q + 1
      <4>1. after[i] = C[i] + 1 /\ both[i] = more[i] + 1
        BY <1>2, <2>1, <3>2
      <4> QED
        BY <3>1, <4>1
    <3>3. CASE i # q + 1
      <4>1. after[i] = C[i] /\ both[i] = more[i]
        BY <1>2, <2>1, <3>3
      <4> QED
        BY <3>1, <4>1
    <3> QED
      BY <3>2, <3>3
  <2> QED
    BY <2>2
<1> HIDE DEF after, C
<1>11. EvenBut(after, n, s, Turn(e, n))
  BY <1>1, <1>5, <1>10, CountLess
<1> QED
  BY <1>6, <1>7, <1>8, <1>11 DEF after, C

(* A chunk is drawn from its second entry on.                              *)
LEMMA ReaderDraw ==
  ASSUME NEW n \in Nat \ {0}, file \in Seq(Nat), Len(file) = n, replayed \in [1 .. n -> Int],
         NEW g, DOMAIN g = GenFields, NEW s \in 0 .. n - 1, Round(g, s, n, filePos, replayed),
         NEW d, d = getPageFromParsedTrace(g)
  PROVE  /\ \E i \in 1 .. n : d.page = file[i]
         /\ Counted(d.gen.inputTraces[d.gen.traceIndex]) \in [1 .. n -> Int]
         /\ Round(d.gen, s, n, IF Fetches(g) THEN (filePos + ChunkSize) % n ELSE filePos,
                  Counted(d.gen.inputTraces[d.gen.traceIndex]))
<1> DEFINE C == ChunkSize
           t == g.traceIndex
           chunk == IF Fetches(g) THEN NextChunk ELSE g.inputTraces
           index == (t + 1) % C
           pos == IF Fetches(g) THEN (filePos + C) % n ELSE filePos
           after == Counted(d.gen.inputTraces[d.gen.traceIndex])
           Chunk(q) == [i \in 0 .. C - 1 |-> ((q + i) % n) + 1]
<1>1. C \in Nat \ {0, 1} /\ C \in Nat \ {0} /\ t \in 0 .. C - 1 /\ filePos \in 0 .. n - 1 /\ n \in Nat
  BY PatternAssumption DEF Round
<1>2. d.page = file[chunk[index]] /\ d.gen.inputTraces = chunk /\ d.gen.traceIndex = index
  BY DEF getPageFromParsedTrace, Drawn, GenFields
<1>3. index = Turn(t, C) /\ index \in 0 .. C - 1
  <2>1. t \in Nat
    BY <1>1
  <2> HIDE DEF t, C
  <2>2. t % C = t
    BY <1>1, SmallRemainder
  <2>3. (t + 1) % C = Turn(t % C, C)
    BY <1>1, <2>1, NextRemainder
  <2>4. Turn(t, C) \in 0 .. C - 1
    BY <1>1 DEF Turn
  <2> QED
    BY <2>2, <2>3, <2>4 DEF index
<1>4. Fetches(g) <=> t = 0
  BY DEF Fetches
<1>5. PICK q \in 0 .. n - 1 :
        /\ chunk = Chunk(q) /\ pos = (q + C) % n
        /\ t = 0 => q = filePos /\ EvenBut(replayed, n, s, q)
        /\ t # 0 => EvenBut([replayed EXCEPT ![q + 1] = @ + 1], n, s, (q + t + 1) % n)
  <2>1. CASE t = 0
    <3>1. chunk = Chunk(filePos) /\ pos = (filePos + C) % n
      BY <1>4, <2>1 DEF NextChunk
    <3> HIDE DEF chunk, pos, Chunk
    <3> QED
      BY <1>1, <2>1, <3>1 DEF Round
  <2>2. CASE t # 0
    <3>1. PICK q \in 0 .. n - 1 :
            /\ g.inputTraces = Chunk(q) /\ filePos = (q + C) % n
            /\ EvenBut([replayed EXCEPT ![q + 1] = @ + 1], n, s, (q + t + 1) % n)
      BY <2>2 DEF Round
    <3>2. chunk = Chunk(q) /\ pos = (q + C) % n
      BY <1>4, <2>2, <3>1
    <3> HIDE DEF chunk, pos, Chunk
    <3> QED
      BY <2>2, <3>1, <3>2
  <2> QED
    BY <2>1, <2>2
<1> HIDE DEF chunk, pos, index
<1>6. \A i \in Nat : (q + i) % n \in 0 .. n - 1
  <2>1. ASSUME NEW i \in Nat PROVE (q + i) % n \in 0 .. n - 1
    <3>1. q + i \in Nat
      OBVIOUS
    <3> QED
      BY <3>1, Decomposition
  <2> QED
    BY <2>1
<1>7. \A i \in Nat : (q + i + 1) % n = Turn((q + i) % n, n)
  <2>1. ASSUME NEW i \in Nat PROVE (q + i + 1) % n = Turn((q + i) % n, n)
    <3>1. q + i \in Nat
      OBVIOUS
    <3> QED
      BY <3>1, NextRemainder
  <2> QED
    BY <2>1
<1>8. q % n = q /\ (q + 0) % n = q
  <2>1. q % n = q
    BY SmallRemainder
  <2>2. q + 0 = q
    OBVIOUS
  <2> QED
    BY <2>1, <2>2
<1> DEFINE e == (q + index) % n
<1>9. chunk[index] = e + 1 /\ e \in 0 .. n - 1 /\ index \in Nat /\ (q + index + 1) % n = Turn(e, n)
  <2>1. index \in Nat
    BY <1>1, <1>3
  <2> QED
    BY <1>3, <1>5, <1>6, <1>7, <2>1
<1>10. /\ t = 0 => EvenBut([replayed EXCEPT ![q + 1] = @ + 1], n, s, e)
       /\ index # 0 => EvenBut([replayed EXCEPT ![q + 1] = @ + 1], n, s, e)
       /\ index = 0 => EvenBut([replayed EXCEPT ![q + 1] = @ + 1], n, s, pos) /\ e = q
  <2>1. CASE t = 0
    <3>1. index = 1
      BY <1>1, <1>3, <2>1 DEF Turn
    <3>2. e = Turn(q, n)
      <4>1. (q + 1) % n = Turn(q % n, n)
        <5>1. q \in Nat
          OBVIOUS
        <5> QED
          BY <5>1, NextRemainder
      <4> QED
        BY <1>8, <3>1, <4>1
    <3>3. EvenBut([replayed EXCEPT ![q + 1] = @ + 1], n, s, Turn(q, n))
      BY <1>5, <2>1, CountOnce
    <3> HIDE DEF e
    <3> QED
      BY <3>1, <3>2, <3>3
  <2>2. CASE t # 0 /\ t # C - 1
    <3>1. index = t + 1 /\ index # 0
      BY <1>1, <1>3, <2>2 DEF Turn
    <3>2. q + index = q + t + 1
      BY <1>1, <3>1
    <3> QED
      BY <1>5, <2>2, <3>1, <3>2
  <2>3. CASE t # 0 /\ t = C - 1
    <3>1. index = 0
      BY <1>3, <2>3 DEF Turn
    <3>2. q + t + 1 = q + C
      BY <1>1, <2>3
    <3>3. e = q
      BY <1>8, <3>1
    <3> HIDE DEF e
    <3> QED
      BY <1>5, <2>3, <3>1, <3>2, <3>3
  <2> QED
    BY <2>1, <2>2, <2>3
<1> HIDE DEF e
<1>11. \E i \in 1 .. n : d.page = file[i]
  BY <1>2, <1>9
<1>12. after = Counted(e + 1)
  BY <1>2, <1>9
<1>13. pos \in 0 .. n - 1
  <2>1. C \in Nat
    BY <1>1
  <2> QED
    BY <1>5, <1>6, <2>1
<1>14. CASE index = 0
  <2>1. after \in [1 .. n -> Int] /\ EvenBut(after, n, s, pos)
    BY <1>10, <1>12, <1>13, <1>14, CountedEven
  <2> HIDE DEF after
  <2>2. Round(d.gen, s, n, pos, after)
    BY <1>2, <1>3, <1>13, <1>14, <2>1 DEF Round
  <2> QED
    BY <1>11, <2>1, <2>2 DEF after, pos
<1>15. CASE index # 0
  <2>1. /\ after \in [1 .. n -> Int]
        /\ EvenBut([after EXCEPT ![q + 1] = @ + 1], n, s, Turn(e, n))
    BY <1>9, <1>10, <1>12, <1>15, CountedEven
  <2> HIDE DEF after
  <2>2. /\ d.gen.inputTraces = [i \in 0 .. ChunkSize - 1 |-> ((q + i) % n) + 1]
        /\ pos = (q + ChunkSize) % n
        /\ EvenBut([after EXCEPT ![q + 1] = @ + 1], n, s, (q + d.gen.traceIndex + 1) % n)
    BY <1>2, <1>5, <1>9, <2>1
  <2>3. Round(d.gen, s, n, pos, after)
    BY <1>2, <1>3, <1>13, <1>15, <2>2 DEF Round
  <2> QED
    BY <1>11, <2>1, <2>3 DEF after, pos
<1> QED
  BY <1>14, <1>15

-----------------------------------------------------------------------------
(* The generator that is drawn from.                                       *)
PatternInv ==
  /\ CursorInv /\ OwnPages(gen) /\ gen.pattern = stringToPattern(string)
  /\ \E setup \in Setups : string = setup.string
  /\ ReaderInv

LEMMA SetupFacts ==
  ASSUME \E setup \in Setups : string = setup.string
  PROVE  /\ \E k \in DOMAIN Keywords : Keywords[k] \in string
         /\ stringToPattern(string) = "trace" =>
              \E trace \in {"RocksDBYCSB", "Alibaba", "FIU"} : trace \in string
         /\ stringToPattern(string) = "zones" =>
              \E i \in DOMAIN parseZoneSizes(ZoneWords) : parseZoneSizes(ZoneWords)[i].freq > 0
BY WorkloadAssumption

LEMMA NotReplayedIsEven ==
  ASSUME NEW n \in Nat \ {0}, NEW s \in 0 .. n - 1, NEW count,
         \A i \in 1 .. n : count[i] = 0
  PROVE  EvenBut(count, n, s, s)
<1>1. \A i \in 0 .. n - 1 : count[i + 1] = IF Passed(i, s, s) THEN 0 + 1 ELSE 0
  BY DEF Passed
<1>2. 0 \in Int
  OBVIOUS
<1> QED
  BY <1>1, <1>2 DEF EvenBut

LEMMA PatternInit == WorkloadInit => PatternInv
<1> SUFFICES ASSUME WorkloadInit PROVE PatternInv
  OBVIOUS
<1>1. \E setup \in Setups : string = setup.string
  BY DEF WorkloadInit
<1>2. PICK writes \in Nat : gen \in Generators(string, HistOptions(writes))
  BY WorkloadAssumption DEF WorkloadInit
<1>3. HistOptions(writes).logicalPages \in Nat \ {0} /\ HistOptions(writes).totalWrites \in Nat
  BY WorkloadAssumption DEF HistOptions
<1>4. OwnPages(gen) /\ gen.traceIndex = 0
  BY <1>1, <1>2, <1>3, SetupFacts, NewOwnPages
<1>5. CursorInv
  BY CursorInit
<1>6. gen.pattern = stringToPattern(string)
  BY <1>2 DEF Generators
<1>7. ReaderInv
  <2>1. file \in TraceFiles(string) /\ filePos = 0 /\ replayed = [i \in DOMAIN file |-> 0]
    BY DEF WorkloadInit, NotReplayed
  <2>2. file \in Seq(Nat) /\ (gen.pattern # "trace" => file = <<>>)
    <3>1. CASE stringToPattern(string) = "trace"
      <4>1. Parsed(string) \in Seq(Nat) /\ Leftovers \subseteq Seq(Nat)
        BY <1>1, <3>1, SetupFacts, ParsedFile, TraceAssumption
      <4> QED
        BY <1>6, <2>1, <3>1, <4>1 DEF TraceFiles
    <3>2. CASE stringToPattern(string) # "trace"
      BY <2>1, <3>2 DEF TraceFiles
    <3> QED
      BY <3>1, <3>2
  <2> DEFINE n == Len(file)
  <2>3. n \in Nat /\ DOMAIN file = 1 .. n
    BY <2>2
  <2>4. replayed \in [1 .. n -> Int] /\ \A i \in 1 .. n : replayed[i] = 0
    BY <2>1, <2>3
  <2>5. ASSUME file # <<>> PROVE Round(gen, 0, n, filePos, replayed) /\ 0 \in 0 .. n - 1
    <3>1. n \in Nat \ {0} /\ 0 \in 0 .. n - 1
      BY <2>2, <2>3, <2>5
    <3> HIDE DEF n
    <3>2. EvenBut(replayed, n, 0, 0)
      BY <2>4, <3>1, NotReplayedIsEven
    <3>3. 0 \in 0 .. ChunkSize - 1
      BY PatternAssumption
    <3> QED
      BY <1>4, <2>1, <3>1, <3>2, <3>3 DEF Round
  <2> QED
    BY <2>2, <2>4, <2>5 DEF ReaderInv
<1> QED
  BY <1>1, <1>4, <1>5, <1>6, <1>7 DEF PatternInv

LEMMA PatternDraw ==
  ASSUME PatternInv, NEW d \in Draws(gen), Draw(d)
  PROVE  OwnPages(gen') /\ gen'.pattern = gen.pattern /\ ReaderInv'
<1>1. IsGenerator(gen) /\ OwnPages(gen) /\ ReaderInv
  BY DEF PatternInv, CursorInv
<1>2. SameObject(d.gen, gen) /\ OwnPages(d.gen) /\ gen' = d.gen /\ StreamAfter(gen, d)
  BY <1>1, DrawKeeps, OwnDraw DEF Draw
<1>3. CASE gen.pattern # "trace"
  <2>1. UNCHANGED <<file, filePos, replayed>>
    BY <1>2, <1>3 DEF StreamAfter, traceVars
  <2>2. gen'.pattern # "trace"
    BY <1>2, <1>3 DEF SameObject
  <2> QED
    BY <1>1, <1>2, <1>3, <2>1, <2>2 DEF ReaderInv, SameObject
<1>4. CASE gen.pattern = "trace"
  <2> DEFINE n == Len(file)
             pos == IF Fetches(gen) THEN (filePos + ChunkSize) % n ELSE filePos
             counts == Counted(d.gen.inputTraces[d.gen.traceIndex])
  <2>1. file # <<>> /\ d = getPageFromParsedTrace(gen)
    BY <1>4 DEF Draws, PatternDraws
  <2>2. file' = file /\ filePos' = pos /\ replayed' = counts
    BY <1>2, <1>4 DEF StreamAfter
  <2>3. n \in Nat \ {0}
    BY <1>1, <2>1 DEF ReaderInv
  <2>4. PICK s \in 0 .. n - 1 : Round(gen, s, n, filePos, replayed)
    BY <1>1, <1>4, <2>1 DEF ReaderInv
  <2>5. counts \in [1 .. n -> Int] /\ Round(d.gen, s, n, pos, counts)
    <3>1. DOMAIN gen = GenFields
      BY <1>1 DEF IsGenerator
    <3> QED
      BY <1>1, <2>1, <2>3, <2>4, <3>1, ReaderDraw DEF ReaderInv
  <2> HIDE DEF pos, counts
  <2>6. /\ Len(file') = n /\ file' \in Seq(Nat) /\ replayed' \in [1 .. n -> Int]
        /\ Round(gen', s, n, filePos', replayed')
    BY <1>1, <1>2, <2>2, <2>5 DEF ReaderInv
  <2>7. ReaderInv'
    BY <1>2, <1>4, <2>4, <2>6 DEF ReaderInv, SameObject
  <2> QED
    BY <1>2, <2>7 DEF SameObject
<1> QED
  BY <1>3, <1>4

LEMMA PatternStart ==
  ASSUME PatternInv, StartRun
  PROVE  OwnPages(gen') /\ gen'.pattern = gen.pattern /\ ReaderInv'
<1> DEFINE o == RunOptions(gen.options.totalWrites)
<1>1. gen' \in Generators(string, o) /\ gen.pattern = stringToPattern(string)
  BY DEF StartRun, PatternInv
<1>2. o.logicalPages \in Nat \ {0} /\ o.totalWrites \in Nat
  BY WorkloadAssumption DEF RunOptions, PatternInv, CursorInv, IsGenerator
<1> HIDE DEF o
<1>3. gen'.pattern = gen.pattern
  BY <1>1 DEF Generators
<1>4. OwnPages(gen') /\ gen'.traceIndex = 0
  BY <1>1, <1>2, SetupFacts, NewOwnPages DEF PatternInv
<1>5. file' = file /\ filePos' = filePos /\ replayed' = [i \in DOMAIN file |-> 0]
  BY DEF StartRun, NotReplayed
<1> DEFINE n == Len(file)
<1>6. n \in Nat /\ DOMAIN file = 1 .. n /\ file \in Seq(Nat)
  BY DEF PatternInv, ReaderInv
<1>7. replayed' \in [1 .. n -> Int] /\ \A i \in 1 .. n : replayed'[i] = 0
  BY <1>5, <1>6
<1>8. ASSUME gen.pattern = "trace", file # <<>>
      PROVE  filePos \in 0 .. n - 1 /\ Round(gen', filePos, n, filePos, replayed')
  <2>1. n \in Nat \ {0}
    BY <1>6, <1>8
  <2>2. filePos \in 0 .. n - 1
    BY <1>8 DEF PatternInv, ReaderInv, Round
  <2> HIDE DEF n
  <2>3. EvenBut(replayed', n, filePos, filePos)
    BY <1>7, <2>1, <2>2, NotReplayedIsEven
  <2>4. 0 \in 0 .. ChunkSize - 1
    BY PatternAssumption
  <2> QED
    BY <1>4, <2>2, <2>3, <2>4 DEF Round
<1>9. gen.pattern # "trace" => file = <<>>
  BY DEF PatternInv, ReaderInv
<1>10. ReaderInv'
  BY <1>3, <1>5, <1>6, <1>7, <1>8, <1>9 DEF ReaderInv
<1> QED
  BY <1>3, <1>4, <1>10

LEMMA PatternStep == PatternInv /\ [WorkloadNext]_workloadVars => PatternInv'
<1> SUFFICES ASSUME PatternInv, [WorkloadNext]_workloadVars PROVE PatternInv'
  OBVIOUS
<1>1. CursorInv'
  BY CursorStep DEF PatternInv
<1>2. string' = string
  BY DEF WorkloadNext, workloadVars, HistogramDraw, StartRun, DrawStops, PrepareRequest, Submit,
         Discard, Push, Complete
<1>3. ASSUME OwnPages(gen'), gen'.pattern = gen.pattern, ReaderInv' PROVE PatternInv'
  BY <1>1, <1>2, <1>3 DEF PatternInv
<1>4. ASSUME UNCHANGED <<traceVars, gen>> PROVE PatternInv'
  BY <1>1, <1>2, <1>4 DEF PatternInv, ReaderInv, traceVars
<1>5. CASE HistogramDraw
  BY <1>3, <1>5, PatternDraw DEF HistogramDraw
<1>6. CASE StartRun
  BY <1>3, <1>6, PatternStart
<1>7. CASE DrawStops
  BY <1>4, <1>7 DEF DrawStops
<1>8. CASE \E t \in Workers : PrepareRequest(t)
  <2>1. PICK t \in Workers : PrepareRequest(t)
    BY <1>8
  <2>2. PICK d \in Draws(gen) : Draw(d)
    BY <2>1 DEF PrepareRequest
  <2> QED
    BY <1>3, <2>2, PatternDraw
<1>9. CASE \E t \in Workers : Submit(t)
  BY <1>4, <1>9 DEF Submit
<1>10. CASE \E s \in Slot : Discard(s) \/ Push(s) \/ Complete(s)
  BY <1>4, <1>10 DEF Discard, Push, Complete
<1>11. CASE UNCHANGED workloadVars
  BY <1>4, <1>11 DEF workloadVars
<1> QED
  BY <1>5, <1>6, <1>7, <1>8, <1>9, <1>10, <1>11 DEF WorkloadNext

LEMMA PatternsBehave == WorkloadSpec => []PatternInv
BY PatternInit, PatternStep, PTL DEF WorkloadSpec

LEMMA ZonesAreDealt == PatternInv => ZonesCoverPages
<1> SUFFICES ASSUME PatternInv, gen.zones # <<>>, NEW page \in 0 .. gen.logicalPages - 1
             PROVE  Cardinality({i \in DOMAIN gen.zones :
                      page \in gen.zones[i].offset ..
                                 gen.zones[i].offset + gen.zones[i].sub.logicalPages - 1}) = 1
  BY DEF ZonesCoverPages
<1>1. Dealt(gen.zones, gen.logicalPages)
  BY DEF PatternInv, OwnPages
<1> QED
  BY <1>1, ZonesCover

(* Of any list of zones, and whatever the rounding, each page of the       *)
(* device belongs to one zone.                                             *)
THEOREM ZonesShareDevice == WorkloadSpec => []ZonesCoverPages
BY PatternsBehave, ZonesAreDealt, PTL

(* A draw that stops the program is one of three.                          *)
LEMMA WhyDrawsStop ==
  ASSUME PatternInv, DrawStops, stage' = "stopped"
  PROVE  DrawsInRange'
<1>1. ~ FetchHangs(gen) /\ gen' = gen /\ file' = file
  BY DEF DrawStops, traceVars
<1>2. IsGenerator(gen) /\ OwnPages(gen) /\ (gen.pattern = "zns" => Cursors(gen))
  BY DEF PatternInv, CursorInv
<1>3. DOMAIN gen.shuffleVector = 0 .. gen.logicalPages - 1
  BY <1>2 DEF OwnPages
<1>4. (\E d \in Draws(gen) : ~ InRange(d)) \/ Draws(gen) = {}
  BY DEF DrawStops
<1>5. CASE gen.pattern = "mockdb"
  BY <1>1, <1>5 DEF DrawsInRange
<1>6. CASE gen.pattern = "trace"
  <2>1. file # <<>> /\ ReaderInv
    BY <1>1, <1>6 DEF FetchHangs, PatternInv
  <2> DEFINE n == Len(file)
             d == getPageFromParsedTrace(gen)
  <2>2. Draws(gen) = {d}
    BY <1>6, <2>1 DEF Draws
  <2>3. file \in Seq(Nat) /\ n \in Nat \ {0} /\ replayed \in [1 .. n -> Int] /\ DOMAIN file = 1 .. n
    BY <2>1 DEF ReaderInv
  <2>4. PICK s \in 0 .. n - 1 : Round(gen, s, n, filePos, replayed)
    BY <1>6, <2>1 DEF ReaderInv
  <2>5. \E i \in 1 .. n : d.page = file[i]
    BY <1>2, <2>3, <2>4, ReaderDraw DEF IsGenerator
  <2>6. ~ InRange(d)
    BY <1>4, <2>2
  <2> HIDE DEF d
  <2>7. d.page \notin 0 .. gen.logicalPages - 1
    BY <1>3, <2>6 DEF InRange
  <2>8. PICK i \in 1 .. n : d.page = file[i]
    BY <2>5
  <2>9. file[i] \in Nat /\ i \in DOMAIN file
    BY <2>3
  <2>10. file[i] >= gen.logicalPages
    BY <1>2, <2>7, <2>8, <2>9 DEF OwnPages
  <2> QED
    BY <1>1, <1>6, <2>9, <2>10 DEF DrawsInRange
<1>7. CASE gen.pattern = "zns"
  BY <1>7, CursorsDoNotStop DEF PatternInv
<1>8. CASE gen.pattern \notin {"mockdb", "trace", "zns"}
  <2>1. \A d \in Draws(gen) : InRange(d)
    BY <1>2, <1>3, <1>8, OwnDraw DEF InRange
  <2>2. Draws(gen) = {}
    BY <1>4, <2>1
  <2>3. gen.pattern = "fiozipf" /\ gen.options.totalWrites % ChunkSize = 0
    BY <1>2, <1>8, <2>2, OwnCanDraw
  <2> QED
    BY <1>1, <2>3 DEF DrawsInRange
<1> QED
  BY <1>5, <1>6, <1>7, <1>8

LEMMA DrawsStep == PatternInv /\ DrawsInRange /\ [WorkloadNext]_workloadVars => DrawsInRange'
<1> SUFFICES ASSUME PatternInv, DrawsInRange, [WorkloadNext]_workloadVars, stage' = "stopped"
             PROVE  DrawsInRange'
  BY DEF DrawsInRange
<1>1. CASE HistogramDraw
  BY <1>1 DEF HistogramDraw
<1>2. CASE StartRun
  BY <1>2 DEF StartRun
<1>3. CASE DrawStops
  BY <1>3, WhyDrawsStop
<1>4. CASE \E t \in Workers : PrepareRequest(t) \/ Submit(t)
  BY <1>4 DEF PrepareRequest, Submit
<1>5. CASE \E s \in Slot : Discard(s) \/ Push(s) \/ Complete(s)
  BY <1>5 DEF Discard, Push, Complete
<1>6. CASE UNCHANGED workloadVars
  BY <1>6 DEF workloadVars, traceVars, DrawsInRange
<1> QED
  BY <1>1, <1>2, <1>3, <1>4, <1>5, <1>6 DEF WorkloadNext

(* The benchmark stops on a draw for three reasons only; in particular no  *)
(* generator of zones, shuffled or not, and no cursor leaves the device.   *)
THEOREM DrawsStayOnDevice == WorkloadSpec => []DrawsInRange
<1>1. WorkloadInit => DrawsInRange
  BY DEF WorkloadInit, DrawsInRange
<1> QED
  BY <1>1, PatternsBehave, DrawsStep, PTL DEF WorkloadSpec

LEMMA RoundsAreEven == PatternInv => EveryEntryReplayed
<1> SUFFICES ASSUME PatternInv, NEW i \in DOMAIN replayed, NEW j \in DOMAIN replayed
             PROVE  replayed[i] - replayed[j] <= 2
  BY DEF EveryEntryReplayed
<1> DEFINE n == Len(file)
<1>1. ReaderInv /\ n \in Nat /\ replayed \in [1 .. n -> Int] /\ i \in 1 .. n /\ j \in 1 .. n
  BY DEF PatternInv, ReaderInv
<1>2. file # <<>> /\ gen.pattern = "trace" /\ n \in Nat \ {0}
  BY <1>1 DEF ReaderInv
<1>3. PICK s \in 0 .. n - 1 : Round(gen, s, n, filePos, replayed)
  BY <1>1, <1>2 DEF ReaderInv
<1> HIDE DEF n
<1>4. i - 1 \in 0 .. n - 1 /\ j - 1 \in 0 .. n - 1 /\ i - 1 + 1 = i /\ j - 1 + 1 = j
  BY <1>1, <1>2
<1>5. CASE gen.traceIndex = 0
  <2>1. PICK b \in Int : \A k \in 0 .. n - 1 :
          replayed[k + 1] = IF Passed(k, s, filePos) THEN b + 1 ELSE b
    BY <1>3, <1>5 DEF Round, EvenBut
  <2>2. (replayed[i] = b \/ replayed[i] = b + 1) /\ (replayed[j] = b \/ replayed[j] = b + 1)
    BY <1>4, <2>1
  <2> QED
    BY <2>2
<1>6. CASE gen.traceIndex # 0
  <2>1. PICK q \in 0 .. n - 1 :
          EvenBut([replayed EXCEPT ![q + 1] = @ + 1], n, s, (q + gen.traceIndex + 1) % n)
    BY <1>3, <1>6 DEF Round
  <2> DEFINE ahead == [replayed EXCEPT ![q + 1] = @ + 1]
             e == (q + gen.traceIndex + 1) % n
  <2>2. PICK b \in Int : \A k \in 0 .. n - 1 : ahead[k + 1] = IF Passed(k, s, e) THEN b + 1 ELSE b
    BY <2>1 DEF EvenBut
  <2>3. \A k \in 1 .. n : ahead[k] = replayed[k] \/ ahead[k] = replayed[k] + 1
    BY <1>1
  <2>4. replayed[i] \in Int /\ replayed[j] \in Int
    BY <1>1
  <2> HIDE DEF ahead, e
  <2>5. (ahead[i] = b \/ ahead[i] = b + 1) /\ (ahead[j] = b \/ ahead[j] = b + 1)
    BY <1>4, <2>2
  <2>6. /\ ahead[i] = replayed[i] \/ ahead[i] = replayed[i] + 1
        /\ ahead[j] = replayed[j] \/ ahead[j] = replayed[j] + 1
    BY <1>1, <2>3
  <2> DEFINE x == replayed[i]
             y == replayed[j]
  <2>7. /\ x = b \/ x = b + 1 \/ x = b - 1
        /\ y = b \/ y = b + 1 \/ y = b - 1
    BY <2>4, <2>5, <2>6
  <2> HIDE DEF x, y
  <2>8. x - y <= 2
    BY <2>7
  <2> QED
    BY <2>8 DEF x, y
<1> QED
  BY <1>5, <1>6

(* However many generators read on in a trace, and wherever its chunks     *)
(* end, since the last of them was made every entry is drawn as often as   *)
(* any other, but for the chunk that is being read.                        *)
THEOREM TraceIsReplayed == WorkloadSpec => []EveryEntryReplayed
BY PatternsBehave, RoundsAreEven, PTL
=============================================================================
