------------------------------ MODULE MCSlices ------------------------------
(* Slices with the instance that TLC checks. *)
EXTENDS Slices
=============================================================================
