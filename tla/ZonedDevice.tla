------------------------------ MODULE ZonedDevice ------------------------------
(***************************************************************************)
(* What the zns pattern promises: the pages of a zone are drawn in order   *)
(* from the first to the last, and at most ActiveZones zones are begun and *)
(* not full.  A zone is begun anew only when it is full.                   *)
(***************************************************************************)
EXTENDS Integers, FiniteSets

CONSTANTS Zone, PagesPerZone, ActiveZones

VARIABLE written       (* the pages drawn of each zone since it was begun  *)

Begun == {z \in Zone : written[z] < PagesPerZone}

Init == written = [z \in Zone |-> PagesPerZone]

Begin(z) ==
  /\ written[z] = PagesPerZone
  /\ PagesPerZone > 1 => Cardinality(Begun) < ActiveZones
  /\ written' = [written EXCEPT ![z] = 1]

Continue(z) ==
  /\ z \in Begun
  /\ written' = [written EXCEPT ![z] = @ + 1]

Next == \E z \in Zone : Begin(z) \/ Continue(z)

Spec == Init /\ [][Next]_written
=============================================================================
