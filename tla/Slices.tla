------------------------------- MODULE Slices -------------------------------
(***************************************************************************)
(* The helpers on slices of strings (internal/utils/utils.go), and the      *)
(* roles of a group and of a member that the handlers keep with them        *)
(* (internal/server/groups.go): requests bring lists in any order, with     *)
(* duplicates. The group may be that of administrators, and the member the  *)
(* administrator, to which each start of the server appends roles. Handlers *)
(* and starts are taken without failures here; Groups.tla and Bootstrap.tla *)
(* have those.                                                              *)
(***************************************************************************)
EXTENDS SequencesExt

CONSTANTS
    Roles,
    MaxLen  \* bound: roles in a request, and in a group that a start appends to

ASSUME SlicesAssumption ==
    /\ MaxLen \in Nat
    /\ {"admin", "admins"} \subseteq Roles

VARIABLES
    group,   \* the roles in the document of the group
    member   \* the roles in the document of a member

vars == <<group, member>>

Lists == UNION {[1 .. n -> Roles] : n \in 0 .. MaxLen}

-----------------------------------------------------------------------------
(* Mutant: the string is appended whether it is there or not.               *)
AppendAlways(ss, s) == Append(ss, s)

AppendUniqueString(ss, s) == IF Contains(ss, s) THEN ss ELSE Append(ss, s)

UniqueStringSlice(ss) == FoldLeft(AppendUniqueString, <<>>, ss)

(* Mutant: the slice is cut, and the last string is not moved.              *)
RemoveCutting(ss, s) == IF Contains(ss, s) THEN Front(ss) ELSE ss

(* The first occurrence is overwritten with the last string, and the slice  *)
(* is cut by one. This happens in the array of the caller.                  *)
RemoveFromStringSlice(ss, s) ==
    IF Contains(ss, s) THEN Front([ss EXCEPT ![SelectInSeq(ss, LAMBDA x : x = s)] = Last(ss)])
    ELSE ss

(* The strings of ss that are not in known, in their order.                 *)
Missing(ss, known) ==
    FoldLeft(LAMBDA found, s : IF Contains(known, s) THEN found ELSE Append(found, s), <<>>, ss)

(* StringSlicesDiff: the first of its results, and the second. What is in b *)
(* but not in a is not looked up in a again.                                *)
Added(a, b) == Missing(b, a)

Removed(a, b) == Missing(a, b)

-----------------------------------------------------------------------------
(* The loops of AddRolesToMembers and RemoveRolesFromMembers over roles.    *)
WithRoles(ss, roles) == FoldLeft(AppendUniqueString, ss, roles)

WithoutRoles(ss, roles) == FoldLeft(RemoveFromStringSlice, ss, roles)

(* What a document holds after a save: an empty list is omitted.            *)
SetList(old, new) == IF new = <<>> THEN old ELSE new

(* UpdateGroup with the mask "roles", of a group the member belongs to and  *)
(* which alone provides its roles. The member is saved with what it gains,  *)
(* and again without what it loses.                                         *)
UpdateRoles ==
    \E given \in Lists :
        LET roles  == UniqueStringSlice(given)
            gained == WithRoles(member, Added(group, roles))
        IN
        /\ group' = SetList(group, roles)
        /\ member' = SetList(gained, WithoutRoles(gained, Removed(group, roles)))

(* The member enters another group, or leaves one.                          *)
Enter ==
    /\ \E roles \in Lists : member' = WithRoles(member, roles)
    /\ UNCHANGED group

Leave ==
    /\ \E roles \in Lists : member' = SetList(member, WithoutRoles(member, roles))
    /\ UNCHANGED group

(* InitCollections looks for the role "admin" and, where the group lacks    *)
(* it, appends "admins".                                                    *)
Start ==
    /\ Len(group) < MaxLen
    /\ member' = IF Contains(member, "admin") THEN member ELSE Append(member, "admin")
    /\ group' = IF Contains(group, "admin") THEN group ELSE Append(group, "admins")

(* CreateGroup has given a new user the roles of the group.                 *)
Init ==
    /\ group \in {UniqueStringSlice(ss) : ss \in Lists}
    /\ member = WithRoles(<<>>, group)

Next == UpdateRoles \/ Enter \/ Leave \/ Start

Spec == Init /\ [][Next]_vars

-----------------------------------------------------------------------------
(* No role is stored twice in a member, whatever requests bring:            *)
(* RemoveFromStringSlice, which removes one occurrence, relies on it        *)
(* (utils.go:48-59). In a group only what starts append is, and only while  *)
(* they miss the role they look for (server.go:208-217).                    *)
OnlyStartsRepeat ==
    /\ IsInjective(member)
    /\ \/ IsInjective(group)
       \/ /\ ~Contains(group, "admin")
          /\ \A i, j \in DOMAIN group : group[i] = group[j] => i = j \/ group[i] = "admins"

(* Read as sets, the lists follow the operations on sets in RoleSets.       *)
AsSets == INSTANCE RoleSets WITH group <- ToSet(group), held <- ToSet(member)

(* Whatever the order of the lists and however helpers move strings about   *)
(* in them, no role is lost, kept or added against RoleSets, where the last *)
(* role of a member stays (groups.go:117-121, 137-155, 253-265,             *)
(* store.go:51).                                                            *)
ImplementsRoleSets == AsSets!Spec
=============================================================================
