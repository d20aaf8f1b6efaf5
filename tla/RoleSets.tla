------------------------------ MODULE RoleSets ------------------------------
(***************************************************************************)
(* What the handlers of groups are to do to the roles of one group and of   *)
(* one member, with roles as sets. Groups.tla speaks of roles in this way.  *)
(***************************************************************************)
CONSTANT Roles

VARIABLES
    group,  \* the roles of the group
    held    \* the roles of the member

vars == <<group, held>>

(* A save of no roles leaves those that are stored.                         *)
Saved(old, new) == IF new = {} THEN old ELSE new

(* UpdateGroup gives what is new to the group and takes what it lost, also  *)
(* when it lost all and keeps them.                                         *)
Update(roles) ==
    LET gained == held \cup (roles \ group) IN
    /\ group' = Saved(group, roles)
    /\ held' = Saved(gained, gained \ (group \ roles))

(* Another group gives the member roles, or takes some away.                *)
Gain(roles) == held' = held \cup roles /\ UNCHANGED group

Lose(roles) == held' = Saved(held, held \ roles) /\ UNCHANGED group

(* A start makes the member an administrator; the group gets the role       *)
(* "admins" when it is without "admin".                                     *)
Start ==
    /\ held' = held \cup {"admin"}
    /\ group' = IF "admin" \in group THEN group ELSE group \cup {"admins"}

Init == group \subseteq Roles /\ held \subseteq Roles

Next == Start \/ \E roles \in SUBSET Roles : Update(roles) \/ Gain(roles) \/ Lose(roles)

Spec == Init /\ [][Next]_vars
=============================================================================
