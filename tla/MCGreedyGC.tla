------------------------------ MODULE MCGreedyGC ------------------------------
(* Model-checking instance of GreedyGC: pages are interchangeable.         *)
EXTENDS GreedyGC, TLC

PageSymmetry == Permutations(Page)
=============================================================================
