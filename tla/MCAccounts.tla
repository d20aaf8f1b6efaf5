----------------------------- MODULE MCAccounts -----------------------------
(* Accounts with the instances that TLC checks. *)
EXTENDS Accounts, TLC

CONSTANTS m1, m2, n1, n2

Ask(mask, name, mail, confirmed) ==
    [id |-> Empty, mask |-> mask, username |-> name, mail |-> mail, confirmed |-> confirmed]

Of(edit, id) == [edit EXCEPT !.id = id]

(* What clients ask of UpdateUser: to move to m2; to have a second account. *)
MoveEdits ==
    { Ask({"mail"}, Empty, m2, FALSE),
      Ask({"id", "username", "mail"}, n2, m1, FALSE) }

(* Also to move to m1, or to another name, and set confirmed, which only an *)
(* administrator may; to have neither name nor address.                     *)
MCEdits ==
    MoveEdits \cup
    { Ask({"mail", "confirmed"}, Empty, m1, TRUE),
      Ask({"username", "mail"}, Empty, Empty, FALSE) } \cup
    { Of(Ask({"username", "confirmed"}, n2, Empty, TRUE), id) : id \in Ids }

(* Members come to the one role or lose it.                                 *)
AllRoles == SUBSET Roles

(* The edits name no id, or name each.                                      *)
Symmetry == Permutations(Reqs) \cup Permutations(Ids)
=============================================================================
