------------------------------- MODULE MCMail -------------------------------
(* Mail with the instance that TLC checks: a recipient of each kind. *)
EXTENDS Mail

MCTos == <<"to">>

MCCcs == <<"cc">>

MCBccs == <<"bcc">>
=============================================================================
