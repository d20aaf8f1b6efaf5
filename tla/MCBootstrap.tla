---------------------------- MODULE MCBootstrap ----------------------------
(* Bootstrap with the instances that TLC checks. *)
EXTENDS Bootstrap
=============================================================================
