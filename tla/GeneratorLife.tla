----------------------------- MODULE GeneratorLife -----------------------------
(***************************************************************************)
(* What a request generator promises the program that runs it: it issues   *)
(* requests until enough have finished or it is told to stop, never more   *)
(* than its depth at a time, and returns when every one has finished.      *)
(***************************************************************************)
EXTENDS Integers

VARIABLES
  ops, depth,        (* requests to finish, 0 for no limit; queue depth    *)
  issued, finished,  (* requests so far                                    *)
  stopped,           (* it was told to stop                                *)
  returned

vars == <<ops, depth, issued, finished, stopped, returned>>

Init ==
  /\ ops \in Nat /\ depth \in Nat \ {0}
  /\ issued = 0 /\ finished = 0
  /\ stopped = FALSE /\ returned = FALSE

Enough == stopped \/ (ops > 0 /\ finished >= ops)

Issue ==
  /\ ~ Enough /\ ~ returned
  /\ issued - finished < depth
  /\ issued' = issued + 1
  /\ UNCHANGED <<ops, depth, finished, stopped, returned>>

Finish ==
  /\ finished' \in finished + 1 .. issued
  /\ UNCHANGED <<ops, depth, issued, stopped, returned>>

Stop ==
  /\ stopped' = TRUE
  /\ UNCHANGED <<ops, depth, issued, finished, returned>>

Return ==
  /\ Enough /\ finished = issued
  /\ returned' = TRUE
  /\ UNCHANGED <<ops, depth, issued, finished, stopped>>

Next == Issue \/ Finish \/ Stop \/ Return

Spec == Init /\ [][Next]_vars
-----------------------------------------------------------------------------
(* At most a queue of requests is issued beyond what was asked for.        *)
OvershootBounded == ops > 0 => issued < ops + depth
=============================================================================
