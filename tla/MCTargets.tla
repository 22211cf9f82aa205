----------------------------- MODULE MCTargets -----------------------------
(* TLC instance of Targets.  Ids, sessions and requests are interchangeable. *)
EXTENDS Targets, TLC

Symmetry == Permutations(Ids) \cup Permutations(Sessions) \cup Permutations(Calls)
=============================================================================
