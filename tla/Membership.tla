----------------------------- MODULE Membership -----------------------------
(***************************************************************************)
(* What the two collections promise about users, groups and the roles that *)
(* groups give, without requests, lists of calls and copies of documents.   *)
(* An administrator grants roles to the members of a group before anything *)
(* is given out. A group comes into being with members that have its roles; *)
(* after that a role is given only as it was granted, and taken only for    *)
(* the sake of one group, from users to whom no other provides it. When     *)
(* members are seen with the roles of each other (~own), a role is given    *)
(* only if it was granted to somebody, and a member may miss one.           *)
(***************************************************************************)
CONSTANTS UserIds, GroupIds, Names, Roles

VARIABLES
    held,    \* the roles of each user
    groups,
    granted, \* <<user, role>> that an administrator granted
    own      \* each member is seen with its own roles when roles are given

vars == <<held, groups, granted, own>>

Group == [name : Names, roles : SUBSET Roles, members : SUBSET UserIds]

Administered == \E u \in DOMAIN held : "admin" \in held[u]

Free(id, name) == \A i \in DOMAIN groups \ {id} : groups[i].name # name

Provided(id, user, role) ==
    \E i \in DOMAIN groups \ {id} : user \in groups[i].members /\ role \in groups[i].roles

Put(id, g) ==
    groups' = [i \in DOMAIN groups \cup {id} |-> IF i = id THEN g ELSE groups[i]]

(* Anybody may join, without roles or as the double of a user, with those   *)
(* that it has.                                                             *)
Join(user) ==
    /\ user \notin DOMAIN held
    /\ \E roles \in {{}} \cup {held[u] : u \in DOMAIN held} :
        /\ held' = [u \in DOMAIN held \cup {user} |-> IF u = user THEN roles ELSE held[u]]
        /\ granted' = granted \cup ({user} \X roles)
    /\ UNCHANGED <<groups, own>>

Grant ==
    /\ Administered
    /\ \E members \in SUBSET UserIds, roles \in SUBSET Roles :
        granted' = granted \cup (members \X roles)
    /\ UNCHANGED <<held, groups, own>>

(* All members of a new group exist and have its roles.                     *)
Found(id) ==
    /\ Administered
    /\ id \notin DOMAIN groups
    /\ \E g \in Group :
        /\ Free(id, g.name)
        /\ g.members \subseteq DOMAIN held
        /\ own => \A u \in g.members : g.roles \subseteq held[u]
        /\ Put(id, g)
    /\ UNCHANGED <<held, granted, own>>

(* A group that has roles or members keeps some.                            *)
Alter(id) ==
    /\ Administered
    /\ id \in DOMAIN groups
    /\ \E g \in Group :
        /\ Free(id, g.name)
        /\ groups[id].roles # {} => g.roles # {}
        /\ groups[id].members # {} => g.members # {}
        /\ Put(id, g)
    /\ UNCHANGED <<held, granted, own>>

Give(user) ==
    /\ user \in DOMAIN held
    /\ \E roles \in SUBSET Roles :
        /\ \A role \in roles : \E u \in IF own THEN {user} ELSE UserIds : <<u, role>> \in granted
        /\ held' = [held EXCEPT ![user] = @ \cup roles]
    /\ UNCHANGED <<groups, granted, own>>

(* For the sake of the group id. A user that has roles keeps one.           *)
Take(user, id) ==
    /\ user \in DOMAIN held
    /\ id \in DOMAIN groups
    /\ \E roles \in SUBSET Roles :
        /\ \A role \in roles : ~Provided(id, user, role)
        /\ held[user] \ roles # {}
        /\ held' = [held EXCEPT ![user] = @ \ roles]
    /\ UNCHANGED <<groups, granted, own>>

(* One administrator, in the group of administrators.                       *)
Init ==
    \E admin \in UserIds, id \in GroupIds :
        /\ held = [u \in {admin} |-> {"admin"}]
        /\ groups = [i \in {id} |->
                        [name |-> "admins", roles |-> {"admin"}, members |-> {admin}]]
        /\ granted = {<<admin, "admin">>}
        /\ own \in BOOLEAN

Next ==
    \/ \E user \in UserIds : \/ Join(user) \/ Give(user)
                             \/ \E id \in GroupIds : Take(user, id)
    \/ \E id \in GroupIds : Found(id) \/ Alter(id)
    \/ Grant

Spec == Init /\ [][Next]_vars
=============================================================================
