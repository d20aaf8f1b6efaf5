------------------------------ MODULE Delivery ------------------------------
(***************************************************************************)
(* What Send promises of a mail, without the dialogue it takes: all of the  *)
(* recipients get it at one moment, or none; there is one attempt; and who  *)
(* is told that it was sent can rely on it. An error says nothing: the mail *)
(* may have been taken.                                                     *)
(***************************************************************************)
CONSTANT Recipients

VARIABLES
    sending,  \* a Send is under way
    got,      \* who has the mail of the last Send
    result    \* what the last Send returned

vars == <<sending, got, result>>

Start ==
    /\ ~sending
    /\ sending' = TRUE
    /\ got' = {}
    /\ result' = "none"

(* The server cannot be reached.                                            *)
Refuse ==
    /\ ~sending
    /\ got' = {}
    /\ result' = "error"
    /\ UNCHANGED sending

Deliver ==
    /\ sending
    /\ got = {}
    /\ got' = Recipients
    /\ UNCHANGED <<sending, result>>

Return ==
    /\ sending
    /\ sending' = FALSE
    /\ result' \in {"error", "nil"}
    /\ result' = "nil" => got = Recipients
    /\ UNCHANGED got

Init == ~sending /\ got = {} /\ result = "none"

Next == Start \/ Refuse \/ Deliver \/ Return

Spec == Init /\ [][Next]_vars
=============================================================================
