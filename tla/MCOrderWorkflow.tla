--------------------------- MODULE MCOrderWorkflow ---------------------------
(* Two orders and three one-shot callers: two that race for a transition    *)
(* and one that freezes, reactivates or annotates in between.               *)
EXTENDS OrderWorkflow, TLC
CONSTANTS o1, o2
Symmetry == Permutations(Caller) \cup Permutations(Order)
=============================================================================
