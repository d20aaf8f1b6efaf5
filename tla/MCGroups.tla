------------------------------ MODULE MCGroups ------------------------------
(* Groups with the instances that TLC checks. *)
EXTENDS Groups, TLC

CONSTANTS u1, u2

Make(name, roles, members) == [name |-> name, roles |-> roles, members |-> members]

Ask(mask, g) ==
    [mask |-> mask, name |-> g.name, roles |-> g.roles, members |-> g.members]

(* What clients ask of CreateGroup: a group that gives a role to both       *)
(* users, one of whom need not exist; a group named as one there is; a name *)
(* that is too short.                                                       *)
MCNewGroups ==
    { Make("staff", {"edit"}, {u1, u2}),
      Make("admins", {}, {u2}),
      Make(None, {"edit"}, {}) }

(* What they ask of UpdateGroup: other roles; other members; both at once;  *)
(* no members; another name.                                                *)
MCEdits ==
    { Ask({"roles"}, Make(None, {"edit"}, {})),
      Ask({"members"}, Make(None, {}, {u2})),
      Ask({"roles", "members"}, Make(None, {"edit"}, {u1, u2})),
      Ask({"members"}, Make(None, {}, {})),
      Ask({"name"}, Make("staff", {}, {})) }

(* Fewer of them, for two requests at a time: roles, members and both are   *)
(* changed, and what one request adds another removes.                      *)
FewGroups == { Make("staff", {"edit"}, {u1, u2}) }

FewEdits ==
    { Ask({"roles"}, Make(None, {"edit"}, {})),
      Ask({"members"}, Make(None, {}, {u1})),
      Ask({"roles", "members"}, Make(None, {"edit"}, {u2})) }

Symmetry == Permutations(Reqs) \cup Permutations(GroupIds)

SymmetricIds == Permutations(GroupIds)
=============================================================================
