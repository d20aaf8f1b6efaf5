---------------------------- MODULE MCLifecycle ----------------------------
(* Lifecycle with the instances that TLC checks. *)
EXTENDS Lifecycle, TLC

Symmetry == Permutations(Reqs)
=============================================================================
