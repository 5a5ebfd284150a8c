----------------------------- MODULE Raid0Channel -----------------------------
(***************************************************************************)
(* The channel a request generator uses (Raid0Channel.hpp): it copies each *)
(* pushed request into an object of its pool, sends it to the device that  *)
(* holds its offset when it is submitted, and returns the object after the *)
(* callback of the user.  The devices are external: they transfer the      *)
(* pages of a request between its buffer and consecutive places.           *)
(***************************************************************************)
EXTENDS IoEngine

CONSTANTS
  Blocks,       (* blocks of the file (totalMinusOffsetBlocks)             *)
  BlockPages,   (* pages of a block (bs)                                   *)
  none          (* no request in a slot, no data in a page or buffer       *)

ASSUME BlocksAssumption == Blocks \in Nat \ {0} /\ BlockPages \in Nat \ {0}

VARIABLES
  request,      (* the request each slot holds, or none                    *)
  outstanding,  (* Raid0Channel::outstanding                               *)
  got,          (* callbacks run by the current poll (done)                *)
  buffer,       (* the pages in the buffer of each request id              *)
  disk          (* the page stored at each place                           *)

channelVars == <<request, outstanding, got, buffer, disk>>

Id        == 0 .. Depth - 1
Page      == 0 .. Blocks * BlockPages - 1
PageNo    == 0 .. BlockPages - 1
Place     == (0 .. DeviceCnt - 1) \X (0 .. Blocks * BlockPages + ChunkSize)
Request   == [id : Id, type : {"read", "write"}, addr : {b * BlockPages : b \in 0 .. Blocks - 1}]
NoData    == [i \in PageNo |-> none]

ASSUME NoneAssumption == none \notin Request

Busy      == {s \in Slot : request[s] # none}
Device    == [s \in Busy |-> DeviceOf(request[s].addr)]

(* The file has been initialized: every page is where its offset leads.    *)
ChannelInit ==
  /\ StackInit /\ EngineInit
  /\ request = [s \in Slot |-> none]
  /\ outstanding = 0 /\ got = 0
  /\ buffer = [i \in Id |-> NoData]
  /\ disk = [p \in Place |-> IF \E x \in Page : PlaceOf(x) = p
                             THEN CHOOSE x \in Page : PlaceOf(x) = p ELSE none]

-----------------------------------------------------------------------------
(* Faulty: copyFields leaves the id of the object as it was made.          *)
PushWithoutId(r) ==
  /\ FreeToSubmit
  /\ request' = [request EXCEPT ![Top(freeStack)] = [r EXCEPT !.id = 0]]
  /\ UNCHANGED <<engineVars, outstanding, got, disk>>

(* _push: the caller's data is in the buffer already.                      *)
Push(r) ==
  /\ FreeToSubmit
  /\ request' = [request EXCEPT ![Top(freeStack)] = r]
  /\ UNCHANGED <<engineVars, outstanding, got, disk>>

CannotPush == freeStack = <<>>

(* _submit, and the start of the poll that always follows it.              *)
SubmitAndPoll ==
  LET batch == PopOrder(submitStack)
  IN /\ SubmitToOutstanding
     /\ outstanding' = outstanding + Len(batch)
     /\ EngineSubmit(batch, Device)
     /\ pollState' = "peek" /\ pollDevice' = 0
     /\ UNCHANGED <<request, got, buffer, disk>>

SubmitRefused == EngineRefuses(PopOrder(submitStack), Device)

(* The completion of the object in slot s: the user's callback has read    *)
(* the buffer, the object goes back to the pool.  The code leaves old data *)
(* in both, which nothing reads before it is overwritten.                  *)
Complete(s) ==
  /\ ReturnToFreeList(s)
  /\ request' = [request EXCEPT ![s] = none]
  /\ got' = got + 1
  /\ buffer' = [buffer EXCEPT ![request[s].id] = NoData]
  /\ UNCHANGED <<outstanding, disk>>

(* Faulty: the completions of a poll are not subtracted.                   *)
PollReturnsUncounted ==
  /\ PollOver(Device)
  /\ pollState' = "idle" /\ pollDevice' = 0
  /\ got' = 0
  /\ UNCHANGED <<stackVars, request, outstanding, buffer, disk>>
  /\ UNCHANGED <<engine, sq, inKernel, cq, events, aioOutstanding>>

PollReturns ==
  /\ PollOver(Device)
  /\ pollState' = "idle" /\ pollDevice' = 0
  /\ outstanding' = outstanding - got
  /\ got' = 0
  /\ UNCHANGED <<stackVars, request, buffer, disk>>
  /\ UNCHANGED <<engine, sq, inKernel, cq, events, aioOutstanding>>

-----------------------------------------------------------------------------
(* External: a device transfers the pages of a request and completes it.   *)
Written(r) ==
  LET pageAt(p) == p[2] - OffsetOf(r.addr)
      inside(p) == p[1] = DeviceOf(r.addr) /\ pageAt(p) \in PageNo
  IN [p \in Place |-> IF inside(p) THEN buffer[r.id][pageAt(p)] ELSE disk[p]]

DeviceCompletes(s) ==
  LET r == request[s]
  IN /\ KernelCompletes(s)
     /\ IF r.type = "write"
        THEN disk' = Written(r) /\ UNCHANGED buffer
        ELSE /\ buffer' = [buffer EXCEPT ![r.id] =
                             [i \in PageNo |-> disk[TransferPlace(r.addr, i)]]]
             /\ UNCHANGED disk
     /\ UNCHANGED <<stackVars, request, outstanding, got>>
=============================================================================
