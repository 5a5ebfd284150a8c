--------------------------- MODULE RequestGenerator ---------------------------
(***************************************************************************)
(* One thread of the I/O benchmark: RequestGenerator::runIo over its       *)
(* channel.  The main loop prepares requests while ids are available,      *)
(* submits, and polls; the callback of a completed request checks its data *)
(* and makes its id available again.  The loop ends when Ops requests have *)
(* completed or another thread calls stopIo; then what is in flight is     *)
(* drained.                                                                *)
(*                                                                         *)
(* The code's checks (an object is free, the engine takes the batch, the   *)
(* data is right) are guards: where one fails the program stops, and the   *)
(* invariants say that none does.  Which block is accessed and whether it  *)
(* is written is a free choice; so are the pauses that breakEvery and      *)
(* rateLimit make, when MayPause holds.  Statistics and ZNS resets are     *)
(* left out.                                                               *)
(***************************************************************************)
EXTENDS Raid0Channel

CONSTANTS
  Ops,           (* io_operations: requests to complete, 0 for no limit    *)
  MayPause       (* breakEvery or rateLimit is set                         *)

ASSUME OpsAssumption == Ops \in Nat /\ MayPause \in BOOLEAN

VARIABLES
  pc,            (* where runIo is                                         *)
  avail,         (* availableReqStack, the top is the last                 *)
  submitted, polled, completed,
  keepRunning    (* keep_running                                           *)

loopVars == <<pc, avail, submitted, polled, completed, keepRunning>>
vars     == <<stackVars, engineVars, channelVars, loopVars>>

(* The constructor makes every id available.                               *)
GeneratorInit == avail = [i \in 1 .. Depth |-> i - 1] /\ keepRunning = TRUE

Init ==
  /\ ChannelInit /\ GeneratorInit
  /\ pc = "head"
  /\ submitted = 0 /\ polled = 0 /\ completed = 0

-----------------------------------------------------------------------------
(* The main loop.                                                          *)

(* Faulty: one request too many.                                           *)
MoreInclusive == (Ops = 0 \/ completed <= Ops) /\ keepRunning

More == (Ops = 0 \/ completed < Ops) /\ keepRunning

LoopHead ==
  /\ pc = "head"
  /\ IF More THEN pc' = "fill" ELSE pc' = "drain"
  /\ UNCHANGED <<stackVars, engineVars, channelVars>>
  /\ UNCHANGED <<avail, submitted, polled, completed, keepRunning>>

(* A break: nothing is prepared or submitted, but completions are polled.  *)
Break ==
  /\ pc = "head" /\ More /\ MayPause
  /\ pc' = "poll"
  /\ pollState' = "peek" /\ pollDevice' = 0
  /\ UNCHANGED <<engine, sq, inKernel, cq, events, aioOutstanding>>
  /\ UNCHANGED <<stackVars, channelVars>>
  /\ UNCHANGED <<avail, submitted, polled, completed, keepRunning>>

(* writeBufferChecks stamps each page of a write with its number.          *)
Stamped(r) == [i \in PageNo |-> r.addr + i]

Prepare(r) ==
  /\ r.id = Top(avail)
  /\ avail' = Popped(avail)
  /\ buffer' = IF r.type = "write" THEN [buffer EXCEPT ![r.id] = Stamped(r)] ELSE buffer

Fill(r) ==
  /\ pc = "fill" /\ More /\ avail # <<>>
  /\ Prepare(r)
  /\ Push(r)
  /\ submitted' = submitted + 1
  /\ UNCHANGED <<pc, polled, completed, keepRunning>>

EndFill ==
  /\ pc = "fill" /\ (avail = <<>> \/ ~ More \/ MayPause)
  /\ SubmitAndPoll
  /\ pc' = "poll"
  /\ UNCHANGED <<avail, submitted, polled, completed, keepRunning>>

-----------------------------------------------------------------------------
(* What is in flight when the loop ends is drained.                        *)

Drain ==
  /\ pc = "drain" /\ polled < submitted
  /\ SubmitAndPoll
  /\ pc' = "drain poll"
  /\ UNCHANGED <<avail, submitted, polled, completed, keepRunning>>

(* Faulty: the drain does not wait.                                        *)
DoneEarly ==
  /\ pc = "drain"
  /\ pc' = "done"
  /\ UNCHANGED <<stackVars, engineVars, channelVars>>
  /\ UNCHANGED <<avail, submitted, polled, completed, keepRunning>>

Done ==
  /\ pc = "drain" /\ polled >= submitted
  /\ pc' = "done"
  /\ UNCHANGED <<stackVars, engineVars, channelVars>>
  /\ UNCHANGED <<avail, submitted, polled, completed, keepRunning>>

-----------------------------------------------------------------------------
(* poll, in the main loop and in the drain.                                *)

Polling == pc \in {"poll", "drain poll"}

checkBuffer(r) == buffer[r.id] = Stamped(r)

(* The callback of a completed request.                                    *)
MakeAvailable(s) == avail' = Append(avail, request[s].id)

Reap(s) ==
  /\ Polling /\ ReapNext(s, Device) /\ checkBuffer(request[s])
  /\ MakeAvailable(s)
  /\ Complete(s)
  /\ UNCHANGED <<pc, submitted, polled, completed, keepRunning>>

PollEngine ==
  /\ Polling
  /\ FetchEvents \/ EnterKernel \/ NextDevice(Device)
  /\ UNCHANGED <<stackVars, channelVars, loopVars>>

EndPoll ==
  /\ Polling
  /\ PollReturns
  /\ polled' = polled + got
  /\ IF pc = "poll"
     THEN pc' = "head" /\ completed' = completed + got
     ELSE pc' = "drain" /\ UNCHANGED completed
  /\ UNCHANGED <<avail, submitted, keepRunning>>

-----------------------------------------------------------------------------
(* stopIo, by the main thread.                                             *)
StopIo ==
  /\ keepRunning
  /\ keepRunning' = FALSE
  /\ UNCHANGED <<stackVars, engineVars, channelVars>>
  /\ UNCHANGED <<pc, avail, submitted, polled, completed>>

Transfers(s) == DeviceCompletes(s) /\ UNCHANGED loopVars

Generator ==
  \/ LoopHead \/ Break \/ (\E r \in Request : Fill(r)) \/ EndFill
  \/ Drain \/ Done
  \/ (\E s \in Slot : Reap(s)) \/ PollEngine \/ EndPoll

Next == Generator \/ (\E s \in Slot : Transfers(s)) \/ StopIo

Spec == Init /\ [][Next]_vars

(* The thread runs and the devices complete what they accepted.            *)
Fairness == WF_vars(Generator) /\ \A s \in Slot : WF_vars(Transfers(s))

FairSpec == Spec /\ Fairness

-----------------------------------------------------------------------------
(* Every object of the pool is in exactly one place: free, pushed, in the  *)
(* ring, in the kernel, completed or about to be called back.              *)
Holders == <<Range(freeStack), Range(submitStack), Range(sq), inKernel,
             Range(cq), Range(events)>>

SlotsInOnePlace ==
  /\ UNION Range(Holders) = Slot
  /\ Len(freeStack) + Len(submitStack) + Len(sq) + Cardinality(inKernel)
       + Len(cq) + Len(events) = Depth
  /\ Busy = Slot \ Range(freeStack)

(* The ids the generator may use and the ids of requests in the channel    *)
(* are different and are all ids: no two requests share a buffer.          *)
IdsInOnePlace ==
  /\ Len(avail) + Cardinality(Busy) = Depth
  /\ Range(avail) \cup {request[s].id : s \in Busy} = Id

(* The counters of the three layers agree with where the requests are.     *)
CountersAgree ==
  /\ submitted - polled = Cardinality(Busy) + got
  /\ outstanding = submitted - polled - Len(submitStack)
  /\ engine = "libaio" => aioOutstanding = Cardinality(inKernel) + Len(cq)

(* The pool has an object for every id and the engine room for every       *)
(* object, so neither "Cannot push more" nor the ensures on io_submit and  *)
(* io_uring_get_sqe can happen, however completions are delayed.           *)
QueuesSuffice ==
  /\ pc = "fill" /\ More /\ avail # <<>> => ~ CannotPush
  /\ pc \in {"fill", "drain"} => ~ SubmitRefused

(* checkBuffer finds in every completed request the pages of its offset.   *)
DataChecksPass ==
  \A s \in Range(cq) \cup Range(events) : checkBuffer(request[s])

(* A generator that is told to stop drains what is in flight and returns.  *)
StopEnds == ~ keepRunning ~> pc = "done"

(* The generator and its channel implement asynchronous I/O: the request   *)
(* under an id is the one in the object that carries the id.               *)
InFlight ==
  [i \in Id |-> IF \E s \in Busy : request[s].id = i
                THEN request[CHOOSE s \in Busy : request[s].id = i] ELSE none]

Async == INSTANCE AsyncIo WITH inFlight <- InFlight

ImplementsAsyncIo == Async!FairSpec

(* It keeps what it promises the program: no request is pushed after the   *)
(* one that reaches Ops has completed or after stopIo was noticed, and     *)
(* when runIo returns nothing refers to its buffers any more.              *)
Life == INSTANCE GeneratorLife WITH
  ops <- Ops, depth <- Depth,
  issued <- submitted, finished <- submitted - Cardinality(Busy),
  stopped <- ~ keepRunning, returned <- pc = "done"

ImplementsGeneratorLife == Life!Spec
=============================================================================
