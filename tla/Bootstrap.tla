----------------------------- MODULE Bootstrap -----------------------------
(***************************************************************************)
(* Server.InitCollections, which every start of the program runs before it  *)
(* serves: look up the administrator by name, create it or give it its      *)
(* role, look up the group "admins", create or complete it. Each of these   *)
(* is one access to the database; the process may end between any two, and  *)
(* the next start finds what is there.                                      *)
(***************************************************************************)
EXTENDS SequencesExt

CONSTANTS
    UserIds,
    GroupIds,
    Usernames,
    Admin,      \* the user name in GOOSER_ADMIN_USERNAME
    Roles,      \* "admin", "admins" and others
    Nil,        \* no document
    Procs,      \* processes of the server on this database
    MaxStarts   \* bound: starts of each process

ASSUME BootstrapAssumption ==
    /\ Nil \notin UserIds \cup GroupIds
    /\ Admin \in Usernames
    /\ {"admin", "admins"} \subseteq Roles
    /\ MaxStarts \in Nat

VARIABLES
    users,   \* the users collection: user name and roles of each document
    groups,  \* the groups collection
    proc,    \* where each process is, and the local variables u and g
    starts   \* how often each process was started

vars == <<users, groups, proc, starts>>

User == [username : Usernames, roles : SUBSET Roles]

(* A start may append to the roles of a group what is there, so that their  *)
(* list counts; what is appended elsewhere was found to be missing.         *)
Group == [name : {"admins", "other"}, roles : Seq(Roles), members : SUBSET UserIds]

NoUser == [username |-> Admin, roles |-> {}]

NoGroup == [name |-> "admins", roles |-> <<>>, members |-> {}]

(* uid, user: the administrator, Nil if its save failed; gid, group: the    *)
(* group as it is to be saved.                                              *)
Off == [pc |-> "off", uid |-> Nil, user |-> NoUser, gid |-> Nil, group |-> NoGroup]

Pcs ==
    { "off", "find.user", "make.user", "fix.user", "find.group", "make.group",
      "fix.group", "serving" }

Process ==
    [ pc    : Pcs,
      uid   : UserIds \cup {Nil},
      user  : User,
      gid   : GroupIds \cup {Nil},
      group : Group ]

Goto(p, local) == proc' = [proc EXCEPT ![p] = local]

(* The collections with one document created or replaced.                   *)
Save(collection, id, doc) ==
    [i \in DOMAIN collection \cup {id} |-> IF i = id THEN doc ELSE collection[i]]

Named(name) == {u \in DOMAIN users : users[u].username = name}

(* Mutant: the lookup asks for the role as well.                            *)
AdminsWithRole ==
    {g \in DOMAIN groups : groups[g].name = "admins" /\ Contains(groups[g].roles, "admin")}

Admins == {g \in DOMAIN groups : groups[g].name = "admins"}

-----------------------------------------------------------------------------
Start(p) ==
    /\ proc[p].pc = "off"
    /\ starts[p] < MaxStarts
    /\ Goto(p, [Off EXCEPT !.pc = "find.user"])
    /\ starts' = [starts EXCEPT ![p] = @ + 1]
    /\ UNCHANGED <<users, groups>>

(* A lookup by name answers with any of the documents that have the name.   *)
FindUser(p) ==
    /\ proc[p].pc = "find.user"
    /\ \/ /\ Named(Admin) = {}
          /\ Goto(p, [Off EXCEPT !.pc = "make.user"])
       \/ \E u \in Named(Admin) :
            Goto(p, [Off EXCEPT !.pc = IF "admin" \in users[u].roles THEN "find.group"
                                       ELSE "fix.user",
                                !.uid = u, !.user = users[u]])
    /\ UNCHANGED <<users, groups, starts>>

MakeUser(p) ==
    /\ proc[p].pc = "make.user"
    /\ \E u \in UserIds \ DOMAIN users :
        /\ users' = Save(users, u, [username |-> Admin, roles |-> {"admin"}])
        /\ Goto(p, [Off EXCEPT !.pc = "find.group", !.uid = u])
    /\ UNCHANGED <<groups, starts>>

(* Mutant: when the save fails everything starts again from the lookup.     *)
Retried(local) == [Off EXCEPT !.pc = "find.user"]

(* SaveUser returned nil, and its error is overwritten by the next call.    *)
WithoutUser(local) == [Off EXCEPT !.pc = "find.group"]

FixUser(p) ==
    /\ proc[p].pc = "fix.user"
    /\ \/ /\ users' = Save(users, proc[p].uid,
                           [proc[p].user EXCEPT !.roles = @ \cup {"admin"}])
          /\ Goto(p, [Off EXCEPT !.pc = "find.group", !.uid = proc[p].uid])
       \/ /\ Goto(p, WithoutUser(proc[p]))
          /\ UNCHANGED users
    /\ UNCHANGED <<groups, starts>>

(* Mutant: the group gets the name of the administrator for its id.         *)
CompletedByName(g, uid) ==
    [g EXCEPT !.roles = Append(@, "admins"), !.members = @ \cup {Admin}]

(* server.go:217 appends the role "admins" where "admin" is missing, whether *)
(* it is there or not.                                                      *)
Completed(g, uid) ==
    [g EXCEPT !.roles   = IF Contains(@, "admin") THEN @ ELSE Append(@, "admins"),
              !.members = @ \cup {uid}]

(* Mutant: the member is not looked at when the group has its role.         *)
UnchangedIfRole(g, uid) == Contains(g.roles, "admin")

(* The test of changed: neither the role nor the member was missing.        *)
Complete(g, uid) == Contains(g.roles, "admin") /\ uid \in g.members

(* Without the user the next expression dereferences nil and panics.        *)
FindGroup(p) ==
    LET uid == proc[p].uid IN
    /\ proc[p].pc = "find.group"
    /\ \/ /\ uid = Nil
          /\ Goto(p, Off)
       \/ /\ uid # Nil
          /\ Admins = {}
          /\ Goto(p, [Off EXCEPT !.pc = "make.group", !.uid = uid])
       \/ /\ uid # Nil
          /\ \E g \in Admins :
                Goto(p, IF Complete(groups[g], uid)
                        THEN [Off EXCEPT !.pc = "serving"]
                        ELSE [Off EXCEPT !.pc = "fix.group", !.gid = g,
                                         !.group = Completed(groups[g], uid)])
    /\ UNCHANGED <<users, groups, starts>>

MakeGroup(p) ==
    /\ proc[p].pc = "make.group"
    /\ \E g \in GroupIds \ DOMAIN groups :
        groups' = Save(groups, g,
                       [name |-> "admins", roles |-> <<"admin">>, members |-> {proc[p].uid}])
    /\ Goto(p, [Off EXCEPT !.pc = "serving"])
    /\ UNCHANGED <<users, starts>>

FixGroup(p) ==
    /\ proc[p].pc = "fix.group"
    /\ groups' = Save(groups, proc[p].gid, proc[p].group)
    /\ Goto(p, [Off EXCEPT !.pc = "serving"])
    /\ UNCHANGED <<users, starts>>

(* InitCollections returns the error of a call and main ends.               *)
Fail(p) ==
    /\ proc[p].pc \notin {"off", "fix.user", "serving"}
    /\ Goto(p, Off)
    /\ UNCHANGED <<users, groups, starts>>

Crash(p) ==
    /\ proc[p].pc # "off"
    /\ Goto(p, Off)
    /\ UNCHANGED <<users, groups, starts>>

-----------------------------------------------------------------------------
(* What the handlers of a process that serves leave behind for the next     *)
(* start: a user registered, has another name, or lost a role but never its *)
(* last; a group was made, has another name, other roles, other members,    *)
(* but never none again. Names stay apart, which one process that serves    *)
(* cannot ensure when its requests overlap (Accounts, Groups); that is left *)
(* out here.                                                                *)
Serving == \E p \in Procs : proc[p].pc = "serving"

UserChanges ==
    /\ Serving
    /\ \/ \E u \in UserIds \ DOMAIN users, name \in Usernames :
            /\ Named(name) = {}
            /\ users' = Save(users, u, [username |-> name, roles |-> {}])
       \/ \E u \in DOMAIN users, name \in Usernames :
            /\ Named(name) = {}
            /\ users' = Save(users, u, [users[u] EXCEPT !.username = name])
       \/ \E u \in DOMAIN users, roles \in SUBSET Roles \ {{}} :
            users' = Save(users, u, [users[u] EXCEPT !.roles = roles])
    /\ UNCHANGED <<groups, proc, starts>>

(* The lists of roles that requests bring, as UniqueStringSlice leaves them. *)
Lists ==
    {roles \in UNION {[1 .. n -> Roles] : n \in 0 .. Cardinality(Roles)} : IsInjective(roles)}

GroupNamed(name) == {g \in DOMAIN groups : groups[g].name = name}

GroupChanges ==
    /\ Serving
    /\ \/ \E g \in GroupIds \ DOMAIN groups, name \in {"admins", "other"},
             roles \in Lists, members \in SUBSET UserIds :
            /\ GroupNamed(name) = {}
            /\ groups' = Save(groups, g, [name |-> name, roles |-> roles, members |-> members])
       \/ \E g \in DOMAIN groups, name \in {"admins", "other"} :
            /\ GroupNamed(name) = {}
            /\ groups' = Save(groups, g, [groups[g] EXCEPT !.name = name])
       \/ \E g \in DOMAIN groups, roles \in Lists \ {<<>>}, members \in SUBSET UserIds \ {{}} :
            groups' = Save(groups, g, [groups[g] EXCEPT !.roles = roles, !.members = members])
    /\ UNCHANGED <<users, proc, starts>>

-----------------------------------------------------------------------------
(* An empty database, and nothing started yet.                              *)
Init ==
    /\ users = [u \in {} |-> NoUser]
    /\ groups = [g \in {} |-> NoGroup]
    /\ proc = [p \in Procs |-> Off]
    /\ starts = [p \in Procs |-> 0]

(* The steps of InitCollections.                                            *)
Boot(p) ==
    \/ FindUser(p) \/ MakeUser(p) \/ FixUser(p)
    \/ FindGroup(p) \/ MakeGroup(p) \/ FixGroup(p) \/ Fail(p)

Next ==
    \/ \E p \in Procs : Start(p) \/ Boot(p) \/ Crash(p)
    \/ UserChanges \/ GroupChanges

Spec == Init /\ [][Next]_vars

(* A goroutine that can run is run, and calls to the database return.       *)
FairSpec == Spec /\ \A p \in Procs : WF_vars(Boot(p))

-----------------------------------------------------------------------------
TypeOK ==
    /\ DOMAIN users \subseteq UserIds
    /\ \A u \in DOMAIN users : users[u] \in User
    /\ DOMAIN groups \subseteq GroupIds
    /\ \A g \in DOMAIN groups : groups[g] \in Group
    /\ proc \in [Procs -> Process]
    /\ starts \in [Procs -> 0..MaxStarts]

(* However often the process ended between the accesses of earlier starts,  *)
(* the one that serves has an administrator with its role, and the group it *)
(* is a member of (server.go:158-238) - also when the save of the role      *)
(* failed unnoticed (server.go:188).                                        *)
ServesWithAdmin ==
    [][\A p \in Procs : proc[p].pc # "serving" /\ proc'[p].pc = "serving" =>
          \E u \in DOMAIN users' :
            /\ users'[u].username = Admin
            /\ "admin" \in users'[u].roles
            /\ \E g \in DOMAIN groups' :
                groups'[g].name = "admins" /\ u \in groups'[g].members]_vars

(* Starts that were cut short do not leave a second administrator or a      *)
(* second group (server.go:161-163, 191-193).                               *)
OneOfEach ==
    /\ \A u, v \in DOMAIN users : users[u].username = users[v].username => u = v
    /\ \A g, h \in DOMAIN groups : groups[g].name = groups[h].name => g = h

(* Every start ends, in service or at the end of the process.               *)
StartsEnd == \A p \in Procs : proc[p].pc # "off" ~> proc[p].pc \in {"off", "serving"}
=============================================================================
