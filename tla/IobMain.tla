-------------------------------- MODULE IobMain --------------------------------
(***************************************************************************)
(* The benchmark program (iob.cpp main): after initialization it starts a  *)
(* thread per channel, prints a line every second from the counters the    *)
(* threads keep, stops them all as soon as one is done or the time is      *)
(* over, waits for them, and reports the totals.                           *)
(*                                                                         *)
(* The threads are RequestGenerator::runIo seen from its counters; reads   *)
(* and writes are not told apart.  A poll takes what has completed at that *)
(* moment, any part of what is in flight.  The length of a line is any:    *)
(* the time limit may be noticed before the seconds counted reach it.      *)
(***************************************************************************)
EXTENDS InitDevice

CONSTANTS
  MaxThreads,    (* bound on --threads                                     *)
  MaxSeconds,    (* JobStats::maxSeconds                                   *)
  TimeBound,     (* bound: seconds beyond are not told apart               *)
  IssueBound     (* bound: requests a thread without a limit issues        *)

ASSUME MainAssumption ==
  /\ MaxThreads \in Nat /\ \A j \in Jobs : j.threads <= MaxThreads
  /\ MaxSeconds \in Nat \ {0} /\ {TimeBound, IssueBound} \subseteq Nat

VARIABLES
  (* of a thread *)
  pc,            (* where runIo is                                         *)
  keepRunning,   (* keep_running                                           *)
  submitted,     (* requests pushed                                        *)
  counted,       (* stats.reads + stats.writes                             *)
  seconds,       (* stats.seconds                                          *)
  perSecond,     (* readsPerSecond + writesPerSecond                       *)
  lastCounted,   (* lastReads + lastWrites                                 *)
  localTime,
  (* of the main thread *)
  mainPc, at,    (* where main is, and the thread its loop is at           *)
  time,          (* the seconds, shared                                    *)
  view,          (* what it has read of a thread: s, total, second         *)
  report,        (* reads + writes of the summary                          *)
  crashed        (* an exception nobody caught ended the program           *)

statsVars  == <<seconds, perSecond, lastCounted, localTime>>
threadVars == <<pc, keepRunning, submitted, counted, statsVars>>
mainVars   == <<mainPc, at, time, view, report>>
vars       == <<initVars, threadVars, mainVars, crashed>>

Threads == 0 .. MaxThreads - 1
NoView  == [s |-> 0, total |-> 0, second |-> 0]

Init ==
  /\ InitInit
  /\ pc = [t \in Threads |-> "wait"]
  /\ keepRunning = [t \in Threads |-> TRUE]
  /\ submitted = [t \in Threads |-> 0] /\ counted = [t \in Threads |-> 0]
  /\ seconds = [t \in Threads |-> 0] /\ localTime = [t \in Threads |-> 0]
  /\ perSecond = [t \in Threads |-> [s \in 1 .. MaxSeconds |-> 0]]
  /\ lastCounted = [t \in Threads |-> 0]
  /\ mainPc = "start" /\ at = 0 /\ time = 0 /\ view = NoView /\ report = 0
  /\ crashed = FALSE

Initialize == InitNext /\ UNCHANGED <<threadVars, mainVars, crashed>>

Running == phase = "start" /\ ~ crashed

-----------------------------------------------------------------------------
(* A thread.                                                               *)

InFlight(t) == submitted[t] - counted[t]

(* Faulty: one request too many.                                           *)
MoreInclusive(t) == (io_operations = 0 \/ counted[t] <= io_operations) /\ keepRunning[t]

More(t) == (io_operations = 0 \/ counted[t] < io_operations) /\ keepRunning[t]

At(t, from, to) == Running /\ pc[t] = from /\ pc' = [pc EXCEPT ![t] = to]

(* A thread begins some time after it was started.                         *)
_process(t) ==
  /\ At(t, "started", "head")
  /\ UNCHANGED <<initVars, keepRunning, submitted, counted, statsVars, mainVars, crashed>>

LoopHead(t) ==
  /\ At(t, "head", IF More(t) THEN "fill" ELSE "drain")
  /\ UNCHANGED <<initVars, keepRunning, submitted, counted, statsVars, mainVars, crashed>>

MayIssue(t) ==
  /\ More(t) /\ InFlight(t) < job.iodepth
  /\ io_operations > 0 \/ submitted[t] < IssueBound

Issue(t) ==
  /\ At(t, "fill", "fill") /\ MayIssue(t)
  /\ submitted' = [submitted EXCEPT ![t] = @ + 1]
  /\ UNCHANGED <<initVars, keepRunning, counted, statsVars, mainVars, crashed>>

(* The callbacks of k requests.                                            *)
Counts(t, k) == counted' = [counted EXCEPT ![t] = @ + k]

(* Ids are left during a break, or when a limited rate does not let the    *)
(* next request start yet.                                                 *)
Poll(t, k) ==
  /\ At(t, "fill", "tick")
  /\ ~ MayIssue(t) \/ job.breaks \/ job.rate
  /\ Counts(t, k)
  /\ UNCHANGED <<initVars, keepRunning, submitted, statsVars, mainVars, crashed>>

(* A poll calls back for a read of a page that init has not written.       *)
DataCheckFails(t) ==
  /\ \E place \in {"fill", "drain"} : At(t, place, place)
  /\ InFlight(t) > 0
  /\ init # "disable" /\ \E page \in 0 .. maxPage : ~ checkBuffer(page)
  /\ crashed' = TRUE
  /\ UNCHANGED <<initVars, keepRunning, submitted, counted, statsVars, mainVars>>

SameSecond(t) ==
  /\ At(t, "tick", "head") /\ time = localTime[t]
  /\ UNCHANGED <<initVars, keepRunning, submitted, counted, statsVars, mainVars, crashed>>

(* A thread that was away for two seconds counts them as one.              *)
StoreSecond(t) ==
  /\ At(t, "tick", "publish") /\ time # localTime[t]
  /\ localTime' = [localTime EXCEPT ![t] = time]
  /\ perSecond' = [perSecond EXCEPT ![t][seconds[t] + 1] = counted[t] - lastCounted[t]]
  /\ UNCHANGED <<initVars, keepRunning, submitted, counted, seconds, lastCounted, mainVars, crashed>>

(* "over max seconds" ends the program.                                    *)
PublishSecond(t) ==
  /\ At(t, "publish", "head")
  /\ seconds' = [seconds EXCEPT ![t] = @ + 1]
  /\ lastCounted' = [lastCounted EXCEPT ![t] = counted[t]]
  /\ crashed' = (seconds[t] + 1 >= MaxSeconds)
  /\ UNCHANGED <<initVars, keepRunning, submitted, counted, perSecond, localTime, mainVars>>

DrainPoll(t, k) ==
  /\ At(t, "drain", "drain") /\ k > 0
  /\ Counts(t, k)
  /\ UNCHANGED <<initVars, keepRunning, submitted, statsVars, mainVars, crashed>>

Return(t) ==
  /\ At(t, "drain", "returned") /\ InFlight(t) = 0
  /\ UNCHANGED <<initVars, keepRunning, submitted, counted, statsVars, mainVars, crashed>>

(* process, after runIo has returned.                                      *)
SetDone(t) ==
  /\ At(t, "returned", "done")
  /\ UNCHANGED <<initVars, keepRunning, submitted, counted, statsVars, mainVars, crashed>>

Polls(t, k) == Poll(t, k) \/ DrainPoll(t, k)

Thread(t) ==
  \/ _process(t) \/ LoopHead(t) \/ Issue(t) \/ (\E k \in 0 .. InFlight(t) : Polls(t, k)) \/ DataCheckFails(t)
  \/ SameSecond(t) \/ StoreSecond(t) \/ PublishSecond(t) \/ Return(t) \/ SetDone(t)

-----------------------------------------------------------------------------
(* The main thread.                                                        *)

MainAt(from, to) == Running /\ mainPc = from /\ mainPc' = to

LastThread == at = job.threads - 1

(* A loop over the threads: what follows the last one is to.               *)
Each(from, to) ==
  /\ MainAt(from, IF LastThread THEN to ELSE from)
  /\ at' = IF LastThread THEN 0 ELSE at + 1

start(t) == pc' = [pc EXCEPT ![t] = "started"]

StartThread ==
  /\ Each("start", "seconds")
  /\ start(at)
  /\ UNCHANGED <<initVars, keepRunning, submitted, counted, statsVars, time, view, report, crashed>>

(* A thread that has not counted a second yet is passed over.              *)
PassThread ==
  /\ seconds[at] = 0
  /\ Each("seconds", "check")
  /\ view' = NoView
  /\ UNCHANGED <<initVars, threadVars, time, report, crashed>>

ReadSeconds ==
  /\ MainAt("seconds", "total") /\ seconds[at] > 0
  /\ view' = [NoView EXCEPT !.s = seconds[at]]
  /\ UNCHANGED <<initVars, threadVars, at, time, report, crashed>>

ReadTotal ==
  /\ MainAt("total", "entry")
  /\ view' = [view EXCEPT !.total = counted[at]]
  /\ UNCHANGED <<initVars, threadVars, at, time, report, crashed>>

(* Faulty: the second that is not over yet.                                *)
ReadEntryNext ==
  /\ MainAt("entry", "next")
  /\ view' = [view EXCEPT !.second = perSecond[at][view.s + 1]]
  /\ UNCHANGED <<initVars, threadVars, at, time, report, crashed>>

ReadEntry ==
  /\ MainAt("entry", "next")
  /\ view' = [view EXCEPT !.second = perSecond[at][view.s]]
  /\ UNCHANGED <<initVars, threadVars, at, time, report, crashed>>

NextThread ==
  /\ MainAt("next", IF LastThread THEN "check" ELSE "seconds")
  /\ at' = IF LastThread THEN 0 ELSE at + 1
  /\ view' = NoView
  /\ UNCHANGED <<initVars, threadVars, time, report, crashed>>

isDone(t) == pc[t] = "done"

OneDone == \E t \in 0 .. job.threads - 1 : isDone(t)

Break ==
  /\ MainAt("check", "stop") /\ (OneDone \/ job.runtime > 0)
  /\ UNCHANGED <<initVars, threadVars, at, time, view, report, crashed>>

Sleep ==
  /\ MainAt("check", "seconds") /\ ~ OneDone
  /\ job.runtime > 0 => time < job.runtime
  /\ time' = IF time < TimeBound THEN time + 1 ELSE time
  /\ UNCHANGED <<initVars, threadVars, at, view, report, crashed>>

(* Faulty: the flag of ThreadBase is set, which nobody reads.              *)
stopIoNot ==
  /\ Each("stop", "join")
  /\ UNCHANGED <<initVars, threadVars, time, view, report, crashed>>

stopIo ==
  /\ Each("stop", "join")
  /\ keepRunning' = [keepRunning EXCEPT ![at] = FALSE]
  /\ UNCHANGED <<initVars, pc, submitted, counted, statsVars, time, view, report, crashed>>

(* Faulty: the threads are not waited for.                                 *)
JoinNot ==
  /\ Each("join", "report")
  /\ UNCHANGED <<initVars, threadVars, time, view, report, crashed>>

Join ==
  /\ Each("join", "report") /\ isDone(at)
  /\ UNCHANGED <<initVars, threadVars, time, view, report, crashed>>

(* The sum of a counter over threads, as the number of what was counted:   *)
(* <<t, i>> is the i-th request of thread t.                               *)
Requests(counter, threads) == UNION {{t} \X (1 .. counter[t]) : t \in threads}

Report ==
  /\ MainAt("report", "fin")
  /\ report' = Cardinality(Requests(counted, 0 .. job.threads - 1))
  /\ UNCHANGED <<initVars, threadVars, at, time, view, crashed>>

Main ==
  \/ StartThread
  \/ PassThread \/ ReadSeconds \/ ReadTotal \/ ReadEntry \/ NextThread
  \/ Break \/ Sleep \/ stopIo \/ Join \/ Report

Next == Initialize \/ (\E t \in Threads : Thread(t)) \/ Main

Spec == Init /\ [][Next]_vars

(* The threads run, and the devices complete what they accepted.  A        *)
(* request that a rate or a break holds back is issued in the end: its     *)
(* time comes.                                                             *)
Fairness ==
  /\ WF_vars(Main)
  /\ \A t \in Threads :
       /\ WF_vars(Thread(t))
       /\ SF_vars(\E k \in 1 .. InFlight(t) : Polls(t, k))
       /\ SF_vars(Issue(t))

FairSpec == Spec /\ Fairness

-----------------------------------------------------------------------------
(* Main reads the figures of a thread one after the other while the thread *)
(* goes on.  They fit together all the same: the second is one the thread  *)
(* has finished with, and the total includes it.                           *)
MonitorReadsPublished ==
  mainPc = "next" =>
    /\ view.second = perSecond[at][view.s]
    /\ view.second <= view.total

(* The summary counts every request that was ever issued, those included   *)
(* that completed while the threads were being stopped.                    *)
TotalsExact ==
  mainPc = "fin" => report = Cardinality(Requests(submitted, Threads))

(* A program with a limit ends, if only by an exception.  An io_size of    *)
(* less than a block per thread is no limit.                               *)
Limited == io_operations > 0 \/ job.runtime > 0

ProgramEnds == phase = "start" /\ Limited ~> mainPc = "fin" \/ crashed

(* Every thread behaves as a request generator is specified to.            *)
Life(t) == INSTANCE GeneratorLife WITH
  ops <- io_operations, depth <- job.iodepth,
  issued <- submitted[t], finished <- counted[t],
  stopped <- ~ keepRunning[t], returned <- pc[t] \in {"returned", "done"}

GeneratorsLive ==
  /\ \A t \in Threads : Life(t)!Init
  /\ [][\A t \in Threads : [Life(t)!Next]_(Life(t)!vars)]_vars

=============================================================================
