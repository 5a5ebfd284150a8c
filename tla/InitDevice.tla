------------------------------- MODULE InitDevice -------------------------------
(***************************************************************************)
(* The start of the benchmark (iob.cpp): the options of a job are turned   *)
(* into sizes, then initializeSSDIfNecessary looks at the first and the    *)
(* last page of the file and, if it has to, writes the file with large     *)
(* sequential requests.  The program may be killed meanwhile and started   *)
(* again with another --init; the device keeps what was written, and of    *)
(* what was in flight any part.                                            *)
(*                                                                         *)
(* Sizes are in pages of 4 KiB, the unit of the data checks: they assert   *)
(* that a request is a whole number of pages.  The fill is a fraction.  A  *)
(* page holds its data once a write of init has reached it.  The init      *)
(* generator is the loop of RequestGenerator with completions counted as   *)
(* they arrive.                                                            *)
(***************************************************************************)
EXTENDS Integers, FiniteSets

CONSTANTS
  Jobs,          (* the options a user may give; inits are the values of   *)
                 (* --init: yes, auto, no, disable, or anything else       *)
  InitBufSize    (* 512 KiB                                                *)

ASSUME InitAssumption ==
  /\ InitBufSize \in Nat \ {0}
  /\ \A j \in Jobs :
       /\ {j.total, j.filled, j.of, j.bs, j.threads, j.iodepth} \subseteq Nat
       /\ j.of > 0 /\ j.bs \in 1 .. InitBufSize /\ j.threads > 0 /\ j.iodepth > 0
       /\ {j.ioSize, j.runtime} \subseteq Nat /\ {j.breaks, j.rate} \subseteq BOOLEAN

VARIABLES
  job,           (* the options                                            *)
  init,          (* --init of this start                                   *)
  phase,         (* where the program is; how it ended if it did           *)
  written,       (* pages of the device that hold their data               *)
  issued,        (* init requests pushed since the start                   *)
  flight,        (* those of them in flight, by their number               *)
  completed      (* those of them completed                                *)

initVars == <<job, init, phase, written, issued, flight, completed>>

-----------------------------------------------------------------------------
(* loadOptions.                                                            *)

Used == (job.total * job.filled) \div job.of

filesize == Used - (Used % InitBufSize)

maxPage == (filesize \div job.bs) - 1

(* 0 for no limit: so is an io_size below a block per thread, and any when *)
(* breaks are asked for.                                                   *)
io_operations == IF job.breaks THEN 0 ELSE (job.ioSize \div job.threads) \div job.bs

-----------------------------------------------------------------------------
(* What init writes, and the pages that finds written.                     *)

iniOps == ((maxPage * job.bs) \div InitBufSize) + 1

Blocks == 0 .. iniOps - 1

(* The sequential pattern starts over at its end.                          *)
BlockOf(i) == i % iniOps

Units(block) == block * InitBufSize .. (block + 1) * InitBufSize - 1

Missing == {block \in Blocks : ~ (Units(block) \subseteq written)}

checkBuffer(page) == page * job.bs .. (page + 1) * job.bs - 1 \subseteq written

ChecksPass == checkBuffer(0) /\ checkBuffer(maxPage)

-----------------------------------------------------------------------------
InitInit ==
  /\ job \in Jobs /\ init \in job.inits
  /\ phase = "load"
  /\ written = {}
  /\ issued = 0 /\ flight = {} /\ completed = 0

Goes(to) ==
  /\ phase' = to
  /\ UNCHANGED <<job, init, written, issued, flight, completed>>

(* Nothing to do, or a device without a page: its pattern generator throws. *)
loadOptions ==
  /\ phase = "load"
  /\ \/ job.ioSize = 0 /\ ~ job.breaks /\ Goes("exit")
     \/ (job.ioSize > 0 \/ job.breaks) /\ maxPage < 0 /\ Goes("no pages")
     \/ (job.ioSize > 0 \/ job.breaks) /\ maxPage >= 0 /\ Goes("check")

CheckIfNecessary ==
  /\ phase = "check"
  /\ \/ init \in {"disable", "no"} /\ Goes("start")
     \/ init = "yes" /\ Goes("init")
     \/ init = "auto" /\ Goes(IF ChecksPass THEN "recheck" ELSE "init")
     \/ /\ init \notin {"disable", "no", "yes", "auto"}
        /\ Goes(IF ChecksPass THEN "recheck" ELSE "init missing")

IssueBlock ==
  /\ phase = "init" /\ completed < iniOps
  /\ Cardinality(flight) < job.iodepth
  /\ issued' = issued + 1
  /\ flight' = flight \cup {issued}
  /\ UNCHANGED <<job, init, phase, written, completed>>

BlockCompletes(i) ==
  /\ phase \in {"init", "drain init"} /\ i \in flight
  /\ written' = written \cup Units(BlockOf(i))
  /\ flight' = flight \ {i}
  /\ completed' = completed + 1
  /\ UNCHANGED <<job, init, phase, issued>>

EndInitLoop == phase = "init" /\ completed >= iniOps /\ Goes("drain init")

(* Faulty: what is in flight is not waited for.                            *)
InitReturnsEarly == phase = "drain init" /\ Goes("recheck")

InitReturns == phase = "drain init" /\ flight = {} /\ Goes("recheck")

Recheck ==
  /\ phase = "recheck"
  /\ Goes(IF ChecksPass THEN "start" ELSE "check failed")

(* The program is killed and started again.                                *)
Restart ==
  /\ phase \in {"check", "init", "drain init", "recheck"}
  /\ \E landed \in SUBSET UNION {Units(BlockOf(i)) : i \in flight} : written' = written \cup landed
  /\ init' \in job.inits
  /\ phase' = "load"
  /\ issued' = 0 /\ flight' = {} /\ completed' = 0
  /\ UNCHANGED job

InitNext ==
  \/ loadOptions \/ CheckIfNecessary
  \/ IssueBlock \/ (\E i \in flight : BlockCompletes(i)) \/ EndInitLoop \/ InitReturns
  \/ Recheck \/ Restart

InitSpec == InitInit /\ [][InitNext]_initVars

-----------------------------------------------------------------------------
(* What a start that was not told to skip the check leaves to the          *)
(* benchmark.  After an init of its own every page of the file holds its   *)
(* data; when the look at the first and the last page found an earlier     *)
(* init, however often that was interrupted, no more than a queue of blocks *)
(* is incomplete.  And init is never found to have failed, unless requests    *)
(* are larger than half of an init request.                                *)
InitMissesAtMostWindow ==
  /\ phase = "start" /\ init \notin {"disable", "no"} =>
       /\ Cardinality(Missing) <= job.iodepth
       /\ issued > 0 => Missing = {}
  /\ phase = "check failed" => 2 * job.bs > InitBufSize
=============================================================================
