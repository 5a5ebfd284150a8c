------------------------------- MODULE IoEngine -------------------------------
(***************************************************************************)
(* The channels below the RAID channel, LibaioChannel, LiburingChannel,    *)
(* SpdkChannel and XnvmeChannel, with the part of the kernel or the driver *)
(* they talk to.  A request is named by its slot in the pool of the RAID   *)
(* channel above.  SPDK and xNVMe have a queue per device, polled in turn. *)
(*                                                                         *)
(* External: the kernel accepts requests, the devices complete them in any *)
(* order, each once and without an error.  An AIO context made for Depth   *)
(* requests has room for Depth that are not reaped; io_uring_submit takes  *)
(* at least one entry of a ring that is not empty, but maybe not all; an   *)
(* SPDK queue takes what it is given, an xNVMe queue has Depth contexts.   *)
(***************************************************************************)
EXTENDS RequestStack, Raid, FiniteSets, SequencesExt

CONSTANT Engines       (* the channels a run may use                       *)

ASSUME EnginesAssumption == Engines \subseteq {"libaio", "io_uring", "spdk", "xnvme"}

VARIABLES
  engine,         (* --ioengine                                            *)
  sq,             (* filled entries of the submission ring (io_uring)      *)
  inKernel,       (* accepted, not completed                               *)
  cq,             (* completed, not reaped                                 *)
  events,         (* fetched by io_getevents, callback not yet run         *)
  aioOutstanding, (* LibaioChannel::outstanding                            *)
  pollState,      (* where _poll is: idle, peek, again, events             *)
  pollDevice      (* the device whose queue is polled (spdk, xnvme)        *)

engineVars == <<engine, sq, inKernel, cq, events, aioOutstanding, pollState, pollDevice>>

AioInit   == events = <<>> /\ aioOutstanding = 0
UringInit == sq = <<>> /\ cq = <<>>
SpdkInit  == pollDevice = 0

EngineInit ==
  /\ engine \in Engines
  /\ AioInit /\ UringInit /\ SpdkInit
  /\ inKernel = {} /\ pollState = "idle"

-----------------------------------------------------------------------------
(* _push of a batch followed by _submit.                                   *)

AioRoom(batch)   == Cardinality(inKernel) + Len(cq) + Len(batch) <= Depth

(* Faulty: the ring is made one entry too small.                           *)
UringRoomLess(batch) == Len(sq) + Len(batch) < Depth

UringRoom(batch) == Len(sq) + Len(batch) <= Depth

(* Faulty: the caller is told of the request but the counter is not.       *)
AioSubmitUncounted(batch) ==
  /\ engine = "libaio" /\ AioRoom(batch)
  /\ inKernel' = inKernel \cup Range(batch)
  /\ UNCHANGED <<sq, cq, events, aioOutstanding, engine>>

AioSubmit(batch) ==
  /\ engine = "libaio" /\ AioRoom(batch)
  /\ inKernel' = inKernel \cup Range(batch)
  /\ aioOutstanding' = aioOutstanding + Len(batch)
  /\ UNCHANGED <<sq, cq, events, engine>>

(* io_uring_submit with these entries in the ring.                         *)
EnterRing(ring) ==
  \E n \in 0 .. Len(ring) :
    /\ n = 0 => ring = <<>>
    /\ inKernel' = inKernel \cup Range(SubSeq(ring, 1, n))
    /\ sq' = SubSeq(ring, n + 1, Len(ring))

UringSubmit(batch) ==
  /\ engine = "io_uring" /\ UringRoom(batch)
  /\ EnterRing(sq \o batch)
  /\ UNCHANGED <<cq, events, aioOutstanding, engine>>

(* Each request goes to the queue of its device, in the order of the batch. *)
SpdkSubmit(batch) ==
  /\ engine = "spdk"
  /\ inKernel' = inKernel \cup Range(batch)
  /\ UNCHANGED <<sq, cq, events, aioOutstanding, engine>>

(* A context of the queue is held until the callback has run.              *)
XnvmeRoom(batch, device) ==
  \A d \in 0 .. DeviceCnt - 1 :
    Cardinality({s \in inKernel \cup Range(cq \o batch) : device[s] = d}) <= Depth

XnvmeSubmit(batch, device) ==
  /\ engine = "xnvme" /\ XnvmeRoom(batch, device)
  /\ inKernel' = inKernel \cup Range(batch)
  /\ UNCHANGED <<sq, cq, events, aioOutstanding, engine>>

(* device is the device of each request.                                   *)
EngineSubmit(batch, device) ==
  AioSubmit(batch) \/ UringSubmit(batch) \/ SpdkSubmit(batch) \/ XnvmeSubmit(batch, device)

(* io_submit takes less than the batch, the ring has no entry left, or the  *)
(* queue of a device no context.                                           *)
EngineRefuses(batch, device) ==
  \/ engine = "libaio" /\ ~ AioRoom(batch)
  \/ engine = "io_uring" /\ ~ UringRoom(batch)
  \/ engine = "xnvme" /\ ~ XnvmeRoom(batch, device)

-----------------------------------------------------------------------------
(* _poll: libaio fetches a batch; io_uring reaps until the queue is empty, *)
(* enters the kernel and looks once more; spdk and xnvme empty the queue of *)
(* one device after the other.                                             *)

FetchEvents ==
  LET n == IF Len(cq) <= aioOutstanding THEN Len(cq) ELSE aioOutstanding
  IN /\ engine = "libaio" /\ pollState = "peek"
     /\ events' = SubSeq(cq, 1, n)
     /\ cq' = SubSeq(cq, n + 1, Len(cq))
     /\ aioOutstanding' = aioOutstanding - n
     /\ pollState' = "events"
     /\ UNCHANGED <<engine, sq, inKernel, pollDevice>>

(* Faulty: the empty queue ends the poll without entering the kernel.      *)
EnterKernelNot ==
  /\ engine = "io_uring" /\ pollState = "peek" /\ cq = <<>>
  /\ pollState' = "again"
  /\ UNCHANGED <<engine, sq, inKernel, cq, events, aioOutstanding, pollDevice>>

EnterKernel ==
  /\ engine = "io_uring" /\ pollState = "peek" /\ cq = <<>>
  /\ EnterRing(sq)
  /\ pollState' = "again"
  /\ UNCHANGED <<engine, cq, events, aioOutstanding, pollDevice>>

ReapEvent(s) ==
  /\ pollState = "events" /\ events # <<>> /\ s = Head(events)
  /\ events' = Tail(events)
  /\ UNCHANGED <<engine, sq, inKernel, cq, aioOutstanding, pollState, pollDevice>>

ReapEntry(s) ==
  /\ engine = "io_uring" /\ pollState \in {"peek", "again"}
  /\ cq # <<>> /\ s = Head(cq)
  /\ cq' = Tail(cq)
  /\ pollState' = "peek"
  /\ UNCHANGED <<engine, sq, inKernel, events, aioOutstanding, pollDevice>>

PerDevice == engine \in {"spdk", "xnvme"} /\ pollState = "peek"

(* The queue that is polled has nothing among the first n completed.       *)
NoneHere(n, device) == \A i \in 1 .. n : device[cq[i]] # pollDevice

ReapHere(s, device) ==
  /\ PerDevice
  /\ \E i \in DOMAIN cq :
       /\ s = cq[i] /\ device[s] = pollDevice
       /\ NoneHere(i - 1, device)
       /\ cq' = RemoveAt(cq, i)
  /\ UNCHANGED <<engine, sq, inKernel, events, aioOutstanding, pollState, pollDevice>>

NextDevice(device) ==
  /\ PerDevice /\ NoneHere(Len(cq), device) /\ pollDevice < DeviceCnt - 1
  /\ pollDevice' = pollDevice + 1
  /\ UNCHANGED <<engine, sq, inKernel, cq, events, aioOutstanding, pollState>>

ReapNext(s, device) == ReapEvent(s) \/ ReapEntry(s) \/ ReapHere(s, device)

PollOver(device) ==
  \/ pollState = "events" /\ events = <<>>
  \/ pollState = "again" /\ cq = <<>>
  \/ PerDevice /\ NoneHere(Len(cq), device) /\ pollDevice = DeviceCnt - 1

-----------------------------------------------------------------------------
(* External: a device is done with a request.                              *)
KernelCompletes(s) ==
  /\ s \in inKernel
  /\ inKernel' = inKernel \ {s}
  /\ cq' = Append(cq, s)
  /\ UNCHANGED <<engine, sq, events, aioOutstanding, pollState, pollDevice>>
=============================================================================
