----------------------------- MODULE MCObservers ----------------------------
(* A small instance of Observers for TLC. *)
EXTENDS Observers, TLC

Symmetry == Permutations(Flows)
=============================================================================
