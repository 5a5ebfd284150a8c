-------------------------------- MODULE AsyncIo --------------------------------
(***************************************************************************)
(* What a channel promises the request generator: a request that is issued *)
(* under an id stays as it was issued until it completes, and it completes *)
(* once; an id is issued again only after that.                            *)
(***************************************************************************)
CONSTANTS Id, Request, none

VARIABLE inFlight      (* the request under each id, or none               *)

Init == inFlight = [i \in Id |-> none]

Issue(r) ==
  /\ inFlight[r.id] = none
  /\ inFlight' = [inFlight EXCEPT ![r.id] = r]

Complete(i) ==
  /\ inFlight[i] # none
  /\ inFlight' = [inFlight EXCEPT ![i] = none]

Next == (\E r \in Request : Issue(r)) \/ (\E i \in Id : Complete(i))

Fairness == \A i \in Id : WF_inFlight(Complete(i))

Spec     == Init /\ [][Next]_inFlight
FairSpec == Spec /\ Fairness
=============================================================================
