---------------------------- MODULE MCTwoRGreedy ----------------------------
(* Model-checking instance of TwoRGreedy: pages are interchangeable.       *)
EXTENDS TwoRGreedy, TLC

PageSymmetry == Permutations(Page)
=============================================================================
