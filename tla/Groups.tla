------------------------------- MODULE Groups -------------------------------
(***************************************************************************)
(* The request handlers that change groups (internal/server/groups.go), and *)
(* with them the roles in the users collection: a user has the roles that   *)
(* the handlers copied into its document from the groups it is a member of. *)
(* Groups and users are two collections without a transaction over them, so *)
(* a handler is a sequence of single accesses, which interleave with those  *)
(* of other requests and end anywhere, by an error, a panic or a crash.     *)
(*                                                                         *)
(* Of a user only the roles are modelled. The handlers of users.go take     *)
(* part through what they do to roles: they save whole documents.           *)
(***************************************************************************)
EXTENDS Naturals, Sequences

CONSTANTS
    UserIds,
    GroupIds,
    Names,      \* group names of at least 3 characters
    Roles,
    None,       \* no id; a name that is too short
    Reqs,       \* goroutines serving requests, each reused
    NewGroups,  \* the groups that clients ask CreateGroup for
    GroupEdits  \* the UpdateGroup requests that clients send

(* Slices of roles and members are sets: the handlers remove duplicates     *)
(* before they use them, and no order is kept.                              *)
Draft == [name : Names \cup {None}, roles : SUBSET Roles, members : SUBSET UserIds]

Group == {g \in Draft : g.name # None}

GroupEdit ==
    [ mask    : SUBSET {"name", "roles", "members"},
      name    : Names \cup {None},
      roles   : SUBSET Roles,
      members : SUBSET UserIds ]

ASSUME GroupsAssumption ==
    /\ None \notin UserIds \cup GroupIds \cup Names
    /\ UserIds \cap GroupIds = {}
    /\ "admin" \in Roles
    /\ "admins" \in Names
    /\ NewGroups \subseteq Draft
    /\ GroupEdits \subseteq GroupEdit

VARIABLES
    users,    \* the roles in each document of the users collection
    groups,   \* the groups collection
    proc,     \* the server process: "up" or "down"
    req,      \* the goroutines: where each is, and its local variables
    granted,  \* <<user, role>> that an administrator asked for, or the start
    repaired  \* the defects of MGO.ListUsers that do not come to bear

vars == <<users, groups, proc, req, granted, repaired>>

(* MGO.ListUsers as it is, with its end repaired so that it returns ("list": *)
(* the nil pointer and the size), or with the decoding repaired as well.    *)
Repairs == {{}, {"list"}, {"list", "decode"}}

(* The listing returns, and may show a member with the roles of another.    *)
Leaky == "list" \in repaired /\ "decode" \notin repaired

-----------------------------------------------------------------------------
(* What a save writes. Roles and members are omitted when they are empty    *)
(* and so keep what the document holds.                                     *)
SetRoles(old, new) == IF new = {} THEN old ELSE new

SetMembers(old, new) == IF new = {} THEN old ELSE new

SaveRoles(id, roles) ==
    users' = [u \in DOMAIN users \cup {id} |->
                IF u # id THEN users[u]
                ELSE IF id \in DOMAIN users THEN SetRoles(users[id], roles) ELSE roles]

SaveGroup(id, g) ==
    groups' = [i \in DOMAIN groups \cup {id} |->
        IF i # id THEN groups[i]
        ELSE IF id \notin DOMAIN groups THEN g
        ELSE [g EXCEPT !.roles   = SetRoles(groups[id].roles, @),
                       !.members = SetMembers(groups[id].members, @)]]

(* Mutant: ValidateGroup does not look at the length of the name.           *)
ValidOfAnyLength(id, g) == \A i \in DOMAIN groups \ {id} : groups[i].name # g.name

(* Mutant: ValidateGroup does not look for other groups of this name.       *)
ValidWithAnyName(id, g) == g.name # None

(* ValidateGroup: at the moment of the count no other group has the name.   *)
Valid(id, g) ==
    /\ g.name # None
    /\ \A i \in DOMAIN groups \ {id} : groups[i].name # g.name

(* Mutant: the filter of RemoveRolesFromMembers does not name the member.   *)
ProvidedToNobody(id, user, role) == FALSE

(* CountGroups with the filter of RemoveRolesFromMembers: is there another  *)
(* group with this member and this role?                                    *)
ProvidedByOther(id, user, role) ==
    \E i \in DOMAIN groups \ {id} :
        user \in groups[i].members /\ role \in groups[i].roles

-----------------------------------------------------------------------------
(* The calls of AddRolesToMembers and RemoveRolesFromMembers that a handler *)
(* has before it, in order; calls that would do nothing are left out.       *)
Job == [op : {"add", "remove"}, members : SUBSET UserIds, roles : SUBSET Roles]

Add(members, roles) ==
    IF members = {} THEN <<>>
    ELSE <<[op |-> "add", members |-> members, roles |-> roles]>>

Remove(members, roles) ==
    IF members = {} \/ roles = {} THEN <<>>
    ELSE <<[op |-> "remove", members |-> members, roles |-> roles]>>

(* Mutant: StringSlicesDiff is called with its arguments swapped.           *)
RoleJobsSwapped(old, new) ==
    (IF old.roles \subseteq new.roles THEN <<>> ELSE Add(new.members, old.roles \ new.roles))
        \o Remove(old.members, new.roles \ old.roles)

RoleJobs(old, new) ==
    (IF new.roles \subseteq old.roles THEN <<>> ELSE Add(new.members, new.roles \ old.roles))
        \o Remove(old.members, old.roles \ new.roles)

MemberJobs(old, new) ==
    Add(new.members \ old.members, new.roles)
        \o Remove(old.members \ new.members, old.roles)

(* What UpdateGroup does to members after it saved new in place of old.     *)
UpdateJobs(mask, old, new) ==
    (IF "roles" \in mask THEN RoleJobs(old, new) ELSE <<>>)
        \o (IF "members" \in mask THEN MemberJobs(old, new) ELSE <<>>)

Entitled(g) == g.members \X g.roles

NoGroup == [name |-> None, roles |-> {}, members |-> {}]

(* The local variables of a handler. id: the group; group: what it will     *)
(* save; then: where it goes on when no jobs are left; saved: SaveGroup     *)
(* returned no error; copies: the users AddRolesToMembers is to save; who,  *)
(* check, drop, copy: the member RemoveRolesFromMembers is at, the roles it *)
(* still has to look up, those it takes away, the roles it read; owed: the  *)
(* roles that members gain by the request.                                  *)
Idle ==
    [ pc |-> "idle", id |-> None, group |-> NoGroup, edit |-> None, jobs |-> <<>>,
      then |-> "idle", saved |-> FALSE, copies |-> {}, who |-> None, check |-> {},
      drop |-> {}, copy |-> {}, owed |-> {} ]

Pcs ==
    { "idle", "create.check", "create.save", "update.read", "update.check",
      "update.save", "update.done", "delete.read", "delete.delete", "add.list",
      "add.save", "remove.count", "remove.read", "remove.save", "profile.save" }

Request ==
    [ pc     : Pcs,
      id     : GroupIds \cup {None},
      group  : Draft,
      edit   : GroupEdits \cup {None},
      jobs   : Seq(Job),
      then   : Pcs,
      saved  : BOOLEAN,
      copies : SUBSET [id : UserIds, roles : SUBSET Roles],
      who    : UserIds \cup {None},
      check  : SUBSET Roles,
      drop   : SUBSET Roles,
      copy   : SUBSET Roles,
      owed   : SUBSET (UserIds \X Roles) ]

Ready(r) == proc = "up" /\ req[r].pc = "idle"

Goto(r, local) == req' = [req EXCEPT ![r] = local]

Return(r) == Goto(r, Idle)

Admin == \E u \in DOMAIN users : "admin" \in users[u]

(* The local variables once the jobs are those given.                       *)
Proceed(local, jobs) ==
    [local EXCEPT
        !.jobs   = jobs,
        !.pc     = IF jobs = <<>> THEN local.then
                   ELSE IF Head(jobs).op = "add" THEN "add.list" ELSE "remove.count",
        !.copies = {}, !.who = None, !.check = {}, !.drop = {}, !.copy = {}]

(* RemoveRolesFromMembers is done with a member.                            *)
NextMember(local, user) ==
    LET job == Head(local.jobs) IN
    Proceed(local, Remove(job.members \ {user}, job.roles) \o Tail(local.jobs))

-----------------------------------------------------------------------------
(* CreateGroup, for administrators.                                         *)
CreateGroup(r) ==
    /\ Ready(r)
    /\ Admin
    /\ DOMAIN groups # GroupIds
    /\ \E g \in NewGroups :
        Goto(r, [Idle EXCEPT !.pc = "create.check", !.group = g])
    /\ UNCHANGED <<users, groups, proc, granted, repaired>>

CreateChecked(r) ==
    LET g == req[r].group IN
    /\ req[r].pc = "create.check"
    /\ Valid(None, g)
    /\ Goto(r, Proceed([req[r] EXCEPT !.then = "create.save", !.owed = Entitled(g)],
                       Add(g.members, g.roles)))
    /\ granted' = granted \cup Entitled(g)
    /\ UNCHANGED <<users, groups, proc, repaired>>

CreateSaved(r) ==
    /\ req[r].pc = "create.save"
    /\ \E id \in GroupIds \ DOMAIN groups : SaveGroup(id, req[r].group)
    /\ Return(r)
    /\ UNCHANGED <<users, proc, granted, repaired>>

-----------------------------------------------------------------------------
UpdateGroup(r) ==
    /\ Ready(r)
    /\ Admin
    /\ \E id \in GroupIds, edit \in GroupEdits :
        Goto(r, [Idle EXCEPT !.pc = "update.read", !.id = id, !.edit = edit])
    /\ UNCHANGED <<users, groups, proc, granted, repaired>>

Merge(g, edit) ==
    [ name    |-> IF "name" \in edit.mask THEN edit.name ELSE g.name,
      roles   |-> IF "roles" \in edit.mask THEN edit.roles ELSE g.roles,
      members |-> IF "members" \in edit.mask THEN edit.members ELSE g.members ]

(* The group is read and merged. From here on everything that is to change  *)
(* is fixed by this copy.                                                   *)
UpdateRead(r) ==
    LET old == groups[req[r].id]
        new == Merge(old, req[r].edit)
    IN
    /\ req[r].pc = "update.read"
    /\ req[r].id \in DOMAIN groups
    /\ Goto(r, [req[r] EXCEPT !.pc = "update.check", !.edit = None, !.group = new,
                              !.owed = Entitled(new) \ Entitled(old),
                              !.jobs = UpdateJobs(req[r].edit.mask, old, new)])
    /\ UNCHANGED <<users, groups, proc, granted, repaired>>

UpdateChecked(r) ==
    /\ req[r].pc = "update.check"
    /\ Valid(req[r].id, req[r].group)
    /\ Goto(r, [req[r] EXCEPT !.pc = "update.save", !.then = "update.done"])
    /\ granted' = granted \cup Entitled(req[r].group)
    /\ UNCHANGED <<users, groups, proc, repaired>>

(* The error of SaveGroup is not looked at: the roles are changed either    *)
(* way (groups.go:249-251).                                                 *)
UpdateSaved(r) ==
    /\ req[r].pc = "update.save"
    /\ \/ /\ SaveGroup(req[r].id, req[r].group)
          /\ Goto(r, Proceed([req[r] EXCEPT !.saved = TRUE], req[r].jobs))
       \/ /\ Goto(r, Proceed(req[r], req[r].jobs))
          /\ UNCHANGED groups
    /\ UNCHANGED <<users, proc, granted, repaired>>

UpdateReturned(r) ==
    /\ req[r].pc = "update.done"
    /\ req[r].saved
    /\ Return(r)
    /\ UNCHANGED <<users, groups, proc, granted, repaired>>

-----------------------------------------------------------------------------
DeleteGroup(r) ==
    /\ Ready(r)
    /\ Admin
    /\ \E id \in GroupIds :
        Goto(r, [Idle EXCEPT !.pc = "delete.read", !.id = id])
    /\ UNCHANGED <<users, groups, proc, granted, repaired>>

DeleteRead(r) ==
    LET g == groups[req[r].id] IN
    /\ req[r].pc = "delete.read"
    /\ req[r].id \in DOMAIN groups
    /\ Goto(r, Proceed([req[r] EXCEPT !.then = "delete.delete"], Remove(g.members, g.roles)))
    /\ UNCHANGED <<users, groups, proc, granted, repaired>>

(* MGO.DeleteGroup looks for the id of the group in the users collection.   *)
DeleteDeleted(r) ==
    /\ req[r].pc = "delete.delete"
    /\ users' = [u \in DOMAIN users \ {req[r].id} |-> users[u]]
    /\ Return(r)
    /\ UNCHANGED <<groups, proc, granted, repaired>>

-----------------------------------------------------------------------------
(* Mutant: the number of members found is not compared.                     *)
SomeFound(found, members) == found # {}

AllFound(found, members) == found = members

(* Mutant: one variable for all documents also in what is repaired.         *)
DecodedIntoOne(user, found) ==
    IF users[user] # {} THEN {users[user]} ELSE {users[m] : m \in found}

(* The roles with which a user can be listed. ListUsers decodes all         *)
(* documents into one variable, in the order they come in, and a field that *)
(* a document lacks, which empty roles are, keeps the value it had.         *)
Decoded(user, found) ==
    IF "decode" \in repaired \/ users[user] # {}
    THEN {users[user]}
    ELSE {users[m] : m \in found}

(* AddRolesToMembers lists the members, all of which must exist, and keeps  *)
(* a copy of each that is listed without a role. As MGO implements it the   *)
(* listing fails or panics, and this step is not reached.                   *)
AddListed(r) ==
    LET job   == Head(req[r].jobs)
        found == job.members \cap DOMAIN users
    IN
    /\ req[r].pc = "add.list"
    /\ "list" \in repaired
    /\ AllFound(found, job.members)
    /\ \E listed \in [found -> SUBSET Roles] :
        /\ \A u \in found : listed[u] \in Decoded(u, found)
        /\ LET copies == {[id |-> u, roles |-> listed[u] \cup job.roles] :
                            u \in {m \in found : ~(job.roles \subseteq listed[m])}}
           IN Goto(r, IF copies = {} THEN Proceed(req[r], Tail(req[r].jobs))
                      ELSE [req[r] EXCEPT !.pc = "add.save", !.copies = copies])
    /\ UNCHANGED <<users, groups, proc, granted, repaired>>

AddSaved(r) ==
    /\ req[r].pc = "add.save"
    /\ \E c \in req[r].copies :
        /\ SaveRoles(c.id, c.roles)
        /\ Goto(r, IF req[r].copies = {c} THEN Proceed(req[r], Tail(req[r].jobs))
                   ELSE [req[r] EXCEPT !.copies = @ \ {c}])
    /\ UNCHANGED <<groups, proc, granted, repaired>>

-----------------------------------------------------------------------------
(* RemoveRolesFromMembers counts, for one role of one member at a time, the *)
(* other groups that provide it. The member is read at the first role that  *)
(* none provides, and saved after the last role.                            *)
RemoveCounted(r) ==
    LET local == req[r]
        job   == Head(local.jobs)
    IN
    /\ local.pc = "remove.count"
    /\ \E user \in IF local.who = None THEN job.members ELSE {local.who} :
       \E role \in IF local.who = None THEN job.roles ELSE local.check :
        LET left == (IF local.who = None THEN job.roles ELSE local.check) \ {role}
            kept == ProvidedByOther(local.id, user, role)
            drop == IF kept THEN local.drop ELSE local.drop \cup {role}
            here == [local EXCEPT !.who = user, !.check = left, !.drop = drop]
        IN
        Goto(r, IF ~kept /\ local.drop = {} THEN [here EXCEPT !.pc = "remove.read"]
                ELSE IF left # {} THEN here
                ELSE IF drop # {} THEN [here EXCEPT !.pc = "remove.save"]
                ELSE NextMember(local, user))
    /\ UNCHANGED <<users, groups, proc, granted, repaired>>

RemoveRead(r) ==
    /\ req[r].pc = "remove.read"
    /\ req[r].who \in DOMAIN users
    /\ Goto(r, [req[r] EXCEPT !.pc = IF req[r].check = {} THEN "remove.save" ELSE "remove.count",
                              !.copy = users[req[r].who]])
    /\ UNCHANGED <<users, groups, proc, granted, repaired>>

RemoveSaved(r) ==
    /\ req[r].pc = "remove.save"
    /\ SaveRoles(req[r].who, req[r].copy \ req[r].drop)
    /\ Goto(r, NextMember(req[r], req[r].who))
    /\ UNCHANGED <<groups, proc, granted, repaired>>

-----------------------------------------------------------------------------
(* The handlers of users.go: CreateUser saves a user without roles, the     *)
(* others read a document, change something else in it and save all of it,  *)
(* UpdateUser as a new user when its mask takes an empty id over.           *)
Register ==
    /\ proc = "up"
    /\ \E u \in UserIds \ DOMAIN users : SaveRoles(u, {})
    /\ UNCHANGED <<groups, proc, req, granted, repaired>>

ProfileRead(r) ==
    /\ Ready(r)
    /\ \E u \in DOMAIN users : \E who \in {u, None} :
        Goto(r, [Idle EXCEPT !.pc = "profile.save", !.who = who, !.copy = users[u]])
    /\ UNCHANGED <<users, groups, proc, granted, repaired>>

ProfileSaved(r) ==
    /\ req[r].pc = "profile.save"
    /\ \/ /\ req[r].who # None
          /\ SaveRoles(req[r].who, req[r].copy)
          /\ UNCHANGED granted
       \/ /\ req[r].who = None
          /\ \E u \in UserIds \ DOMAIN users :
                /\ SaveRoles(u, req[r].copy)
                /\ granted' = granted \cup ({u} \X req[r].copy)
    /\ Return(r)
    /\ UNCHANGED <<groups, proc, repaired>>

-----------------------------------------------------------------------------
(* A call fails and the handler returns, except that DeleteGroup goes on    *)
(* whatever RemoveRolesFromMembers returned.                                *)
Fail(r) ==
    /\ req[r].pc # "idle"
    /\ IF req[r].then = "delete.delete" /\ req[r].pc # "delete.delete"
       THEN Goto(r, Proceed(req[r], <<>>))
       ELSE Return(r)
    /\ UNCHANGED <<users, groups, proc, granted, repaired>>

Exit ==
    /\ proc' = "down"
    /\ req' = [r \in Reqs |-> Idle]
    /\ UNCHANGED <<users, groups, granted, repaired>>

(* ListUsers of MGO as it is, when it does not fail.                        *)
ListPanics(r) ==
    /\ req[r].pc = "add.list"
    /\ "list" \notin repaired
    /\ Exit

(* UpdateGroup converts the group that SaveGroup did not return.            *)
UpdatePanics(r) ==
    /\ req[r].pc = "update.done"
    /\ ~req[r].saved
    /\ Exit

Crash ==
    /\ proc = "up"
    /\ Exit

-----------------------------------------------------------------------------
(* InitCollections on an empty database, and no request yet.                *)
Init ==
    /\ \E admin \in UserIds, id \in GroupIds :
        /\ users = [u \in {admin} |-> {"admin"}]
        /\ groups = [g \in {id} |->
                        [name |-> "admins", roles |-> {"admin"}, members |-> {admin}]]
        /\ granted = {<<admin, "admin">>}
    /\ proc = "up"
    /\ req = [r \in Reqs |-> Idle]
    /\ repaired \in Repairs

Step(r) ==
    \/ CreateGroup(r) \/ CreateChecked(r) \/ CreateSaved(r)
    \/ UpdateGroup(r) \/ UpdateRead(r) \/ UpdateChecked(r) \/ UpdateSaved(r)
    \/ UpdateReturned(r) \/ UpdatePanics(r)
    \/ DeleteGroup(r) \/ DeleteRead(r) \/ DeleteDeleted(r)
    \/ AddListed(r) \/ AddSaved(r) \/ ListPanics(r)
    \/ RemoveCounted(r) \/ RemoveRead(r) \/ RemoveSaved(r)
    \/ ProfileRead(r) \/ ProfileSaved(r) \/ Fail(r)

Next == (\E r \in Reqs : Step(r)) \/ Register \/ Crash

Spec == Init /\ [][Next]_vars

-----------------------------------------------------------------------------
(* Types. A stored group has a name.                                        *)
TypeOK ==
    /\ DOMAIN users \subseteq UserIds
    /\ \A u \in DOMAIN users : users[u] \subseteq Roles
    /\ DOMAIN groups \subseteq GroupIds
    /\ \A g \in DOMAIN groups : groups[g] \in Group
    /\ proc \in {"up", "down"}
    /\ req \in [Reqs -> Request]
    /\ granted \subseteq UserIds \X Roles
    /\ repaired \in Repairs

(* A user has no role that an administrator did not ask for it, or for the  *)
(* user it was made from, at some time, through a group it was to be a      *)
(* member of: no interleaving of the handlers, which all save stale copies  *)
(* of whole users, carries a role to another user (groups.go:99-166,        *)
(* users.go:135) - but one variable for all listed documents does           *)
(* (store/users.go:33-41), and then a role was asked for somebody at least. *)
Granted(u, role) ==
    \E v \in IF Leaky THEN UserIds ELSE {u} : <<v, role>> \in granted

RolesOnlyGranted == \A u \in DOMAIN users : \A role \in users[u] : Granted(u, role)

(* A group that CreateGroup saves has only members that exist               *)
(* (groups.go:112).                                                         *)
CreatedMembersExist ==
    [][\A r \in Reqs : CreateSaved(r) => req[r].group.members \subseteq DOMAIN users]_vars

(* No user loses a role that a group it belongs to provides, other than the *)
(* one whose change takes it away (groups.go:134-150).                      *)
NoRoleLostWhileProvided ==
    [][\A u \in DOMAIN users : \A role \in users[u] \ users'[u] : \A g \in DOMAIN groups :
          u \in groups[g].members /\ role \in groups[g].roles =>
              \E r \in Reqs : RemoveSaved(r) /\ req[r].id = g]_vars

(* When CreateGroup saves its group, and when UpdateGroup returns one, each *)
(* member has all the roles it was to gain (groups.go:99, 191-196, 254-282) *)
(* unless members were listed with the roles of others.                     *)
GainedRolesArrive ==
    [][\A r \in Reqs : (CreateSaved(r) \/ UpdateReturned(r)) /\ ~Leaky =>
          \A gain \in req[r].owed : gain[2] \in users[gain[1]]]_vars

(* No two groups have one name (groups.go:92-94).                           *)
UniqueNames ==
    \A g, h \in DOMAIN groups : groups[g].name = groups[h].name => g = h

(* The collections without the requests: users hold what was granted, and   *)
(* keep what another group provides (groups.go:78-310).                     *)
Promise == INSTANCE Membership WITH held <- users, own <- ~Leaky

(* Every request of groups.go, run on its own, is a series of such steps,   *)
(* wherever it fails and the process ends (groups.go:78-310).               *)
ImplementsMembership == Promise!Spec

(* A claim of a comment that the code does not keep.                        *)

(* store/groups.go:145: DeleteGroup deletes the group.                      *)
DeletedGroupIsGone ==
    [][\A r \in Reqs : DeleteDeleted(r) => req[r].id \notin DOMAIN groups']_vars
=============================================================================
