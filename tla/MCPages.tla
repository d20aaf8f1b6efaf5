------------------------------ MODULE MCPages ------------------------------
(* Pages with the instances that TLC checks. *)
EXTENDS Pages

(* Everything, and part of it. *)
MCFilters == {Values, {1}}

(* No limit given, none that is one, and the first two that are. *)
MCSizes == {-1, 0, 1, 2}
=============================================================================
