------------------------------- MODULE FlashMap -------------------------------
(***************************************************************************)
(* What a flash translation layer promises its host, independent of the    *)
(* garbage collection policy: every page the host has written is stored in *)
(* exactly one place, no two pages share a place, a host write goes to a   *)
(* place that held no valid data (out of place), and garbage collection    *)
(* moves pages around but neither drops one nor invents one.               *)
(***************************************************************************)
EXTENDS Integers

CONSTANTS Page, Place, nowhere

VARIABLE place      (* where each page is stored, or nowhere               *)

Stored    == {x \in Page : place[x] # nowhere}
Occupied  == {place[x] : x \in Stored}

Injective(f) ==
  \A x, y \in Page : x # y /\ f[x] # nowhere => f[x] # f[y]

Init == place = [x \in Page |-> nowhere]

(* A host write of page x: only x moves, to a place with no valid data.    *)
Write(x) ==
  /\ place'[x] \in Place \ Occupied
  /\ place' = [place EXCEPT ![x] = place'[x]]

(* Garbage collection: the stored pages are redistributed.                 *)
Relocate ==
  /\ place' \in [Page -> Place \cup {nowhere}]
  /\ \A x \in Page : place'[x] = nowhere <=> place[x] = nowhere
  /\ Injective(place')

Next == (\E x \in Page : Write(x)) \/ Relocate

Spec == Init /\ [][Next]_place
=============================================================================
