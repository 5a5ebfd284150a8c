----------------------------- MODULE MCTwoRFifo -----------------------------
(* Model-checking instance of TwoRFifo: pages are interchangeable.         *)
EXTENDS TwoRFifo, TLC

PageSymmetry == Permutations(Page)
=============================================================================
