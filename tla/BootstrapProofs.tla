-------------------------- MODULE BootstrapProofs --------------------------
(***************************************************************************)
(* Proofs about Bootstrap: what starts of one process leave behind, however *)
(* many there are and wherever they end, and what its users change while it *)
(* serves.                                                                  *)
(***************************************************************************)
EXTENDS Bootstrap, TLAPS

(* One process at a time is what OneOfEach needs: two that start together   *)
(* create two administrators.                                               *)
OneProcess == \A p, q \in Procs : p = q

(* A process has looked up what it is about to save.                        *)
Looked ==
    \A p \in Procs :
        /\ proc[p].pc \in {"fix.user", "make.group"} => proc[p].uid # Nil
        /\ proc[p].pc = "fix.group" => proc[p].gid # Nil

Administrator(u) ==
    u \in DOMAIN users /\ users[u].username = Admin /\ "admin" \in users[u].roles

(* Nothing changes between the lookup of a process and its save: nobody     *)
(* else is there to change it.                                              *)
FreshFor(local) ==
    /\ local.pc = "make.user" => Named(Admin) = {}
    /\ local.pc = "fix.user" => local.uid \in Named(Admin) /\ local.user = users[local.uid]
    /\ local.pc \in {"find.group", "make.group"} /\ local.uid # Nil => Administrator(local.uid)
    /\ local.pc = "make.group" => Admins = {}
    /\ local.pc = "fix.group" =>
        /\ local.gid \in Admins
        /\ \E u \in UserIds :
            Administrator(u) /\ local.group = Completed(groups[local.gid], u)

Fresh == \A p \in Procs : FreshFor(proc[p])

TInv == TypeOK /\ Looked

IInv == TInv /\ OneProcess /\ Fresh /\ OneOfEach

-----------------------------------------------------------------------------
(* The local variables before a lookup has set them.                        *)
LEMMA OffTyped == Off \in Process /\ NoUser \in User /\ NoGroup \in Group
  BY BootstrapAssumption DEF Off, Process, NoUser, User, NoGroup, Group, Pcs

LEMMA InitTyped == Init => TInv
  <1> SUFFICES ASSUME Init PROVE TInv
    OBVIOUS
  <1>1. TypeOK
    BY OffTyped, BootstrapAssumption DEF Init, TypeOK
  <1>2. Looked
    BY DEF Init, Off, Looked
  <1> QED
    BY <1>1, <1>2 DEF TInv

(* A step of one process, after which its local variables are those given.  *)
LEMMA GotoTyped ==
    ASSUME TInv, NEW p \in Procs, NEW local \in Process, Goto(p, local),
           local.pc \in {"fix.user", "make.group"} => local.uid # Nil,
           local.pc = "fix.group" => local.gid # Nil
    PROVE  proc' \in [Procs -> Process] /\ Looked'
  BY DEF TInv, TypeOK, Looked, Goto

LEMMA UsersTyped ==
    ASSUME TypeOK, NEW id \in UserIds, NEW doc \in User, users' = Save(users, id, doc)
    PROVE  DOMAIN users' \subseteq UserIds /\ \A u \in DOMAIN users' : users'[u] \in User
  BY DEF TypeOK, Save

LEMMA GroupsTyped ==
    ASSUME TypeOK, NEW id \in GroupIds, NEW doc \in Group, groups' = Save(groups, id, doc)
    PROVE  DOMAIN groups' \subseteq GroupIds /\ \A g \in DOMAIN groups' : groups'[g] \in Group
  BY DEF TypeOK, Save

LEMMA CompletedTyped ==
    ASSUME NEW g \in Group, NEW uid \in UserIds
    PROVE  Completed(g, uid) \in Group
  <1>1. g.roles \in Seq(Roles) /\ Append(g.roles, "admins") \in Seq(Roles)
    BY BootstrapAssumption DEF Group
  <1>2. g.members \cup {uid} \in SUBSET UserIds
    BY DEF Group
  <1> QED
    BY <1>1, <1>2 DEF Completed, Group

LEMMA StartTyped ==
    ASSUME TInv, NEW p \in Procs, Start(p)
    PROVE  TInv'
  <1>1. [Off EXCEPT !.pc = "find.user"] \in Process
    BY OffTyped DEF Process, Pcs
  <1>2. proc' \in [Procs -> Process] /\ Looked'
    BY <1>1, GotoTyped DEF Start, Off
  <1>3. starts' \in [Procs -> 0 .. MaxStarts]
    BY BootstrapAssumption DEF TInv, TypeOK, Start
  <1> QED
    BY <1>2, <1>3 DEF TInv, TypeOK, Start

LEMMA FindUserTyped ==
    ASSUME TInv, NEW p \in Procs, FindUser(p)
    PROVE  TInv'
  <1> DEFINE Found(local) ==
            /\ Goto(p, local)
            /\ local.pc \in {"make.user", "find.group", "fix.user"}
            /\ local.pc = "fix.user" => local.uid # Nil
  <1>1. \E local \in Process : Found(local)
    <2>1. CASE Goto(p, [Off EXCEPT !.pc = "make.user"])
      <3> DEFINE make == [Off EXCEPT !.pc = "make.user"]
      <3>1. make \in Process /\ make.pc = "make.user"
        BY OffTyped DEF Process, Pcs
      <3>2. Goto(p, make)
        BY <2>1
      <3> HIDE DEF make
      <3> QED
        BY <3>1, <3>2
    <2>2. ASSUME NEW u \in Named(Admin),
                 Goto(p, [Off EXCEPT !.pc = IF "admin" \in users[u].roles THEN "find.group"
                                            ELSE "fix.user",
                                     !.uid = u, !.user = users[u]])
          PROVE  \E local \in Process : Found(local)
      <3>1. u \in UserIds /\ users[u] \in User /\ u # Nil
        BY BootstrapAssumption DEF TInv, TypeOK, Named
      <3> DEFINE found == [Off EXCEPT !.pc = IF "admin" \in users[u].roles THEN "find.group"
                                             ELSE "fix.user",
                                      !.uid = u, !.user = users[u]]
      <3>2. /\ found \in Process /\ found.uid = u
            /\ found.pc \in {"find.group", "fix.user"}
        BY <3>1, OffTyped DEF Process, Pcs
      <3>3. Goto(p, found)
        BY <2>2
      <3> HIDE DEF found
      <3> QED
        BY <3>1, <3>2, <3>3
    <2> QED
      BY <2>1, <2>2 DEF FindUser
  <1>2. proc' \in [Procs -> Process] /\ Looked'
    BY <1>1, GotoTyped
  <1> QED
    BY <1>2 DEF TInv, TypeOK, FindUser

LEMMA MakeUserTyped ==
    ASSUME TInv, NEW p \in Procs, MakeUser(p)
    PROVE  TInv'
  <1>1. PICK u \in UserIds :
            /\ users' = Save(users, u, [username |-> Admin, roles |-> {"admin"}])
            /\ Goto(p, [Off EXCEPT !.pc = "find.group", !.uid = u])
    BY DEF MakeUser
  <1>2. [username |-> Admin, roles |-> {"admin"}] \in User
    BY BootstrapAssumption DEF User
  <1>3. [Off EXCEPT !.pc = "find.group", !.uid = u] \in Process
    BY OffTyped DEF Process, Pcs
  <1>4. proc' \in [Procs -> Process] /\ Looked'
    BY <1>1, <1>3, GotoTyped DEF Off
  <1> QED
    BY <1>1, <1>2, <1>4, UsersTyped DEF TInv, TypeOK, MakeUser

LEMMA FixUserTyped ==
    ASSUME TInv, NEW p \in Procs, FixUser(p)
    PROVE  TInv'
  <1>1. proc[p] \in Process /\ proc[p].uid \in UserIds
    BY DEF TInv, TypeOK, Looked, FixUser, Process
  <1>2. CASE /\ users' = Save(users, proc[p].uid, [proc[p].user EXCEPT !.roles = @ \cup {"admin"}])
             /\ Goto(p, [Off EXCEPT !.pc = "find.group", !.uid = proc[p].uid])
    <2>1. [proc[p].user EXCEPT !.roles = @ \cup {"admin"}] \in User
      BY <1>1, BootstrapAssumption DEF Process, User
    <2>2. [Off EXCEPT !.pc = "find.group", !.uid = proc[p].uid] \in Process
      BY <1>1, OffTyped DEF Process, Pcs
    <2>3. proc' \in [Procs -> Process] /\ Looked'
      BY <1>2, <2>2, GotoTyped DEF Off
    <2> QED
      BY <1>1, <1>2, <2>1, <2>3, UsersTyped DEF TInv, TypeOK, FixUser
  <1>3. CASE Goto(p, WithoutUser(proc[p])) /\ UNCHANGED users
    <2>1. WithoutUser(proc[p]) \in Process /\ WithoutUser(proc[p]).pc = "find.group"
      BY OffTyped DEF WithoutUser, Process, Pcs
    <2>2. proc' \in [Procs -> Process] /\ Looked'
      BY <1>3, <2>1, GotoTyped
    <2> QED
      BY <1>3, <2>2 DEF TInv, TypeOK, FixUser
  <1> QED
    BY <1>2, <1>3 DEF FixUser

LEMMA FindGroupTyped ==
    ASSUME TInv, NEW p \in Procs, FindGroup(p)
    PROVE  TInv'
  <1>1. proc[p].uid \in UserIds \cup {Nil}
    BY DEF TInv, TypeOK, Process
  <1> DEFINE Found(local) ==
            /\ Goto(p, local)
            /\ local.pc = "make.group" => local.uid # Nil
            /\ local.pc = "fix.group" => local.gid # Nil
            /\ local.pc # "fix.user"
  <1>2. \E local \in Process : Found(local)
    <2>1. CASE Goto(p, Off)
      BY <2>1, OffTyped DEF Off
    <2>2. CASE proc[p].uid # Nil /\ Goto(p, [Off EXCEPT !.pc = "make.group", !.uid = proc[p].uid])
      <3> DEFINE make == [Off EXCEPT !.pc = "make.group", !.uid = proc[p].uid]
      <3>1. make \in Process /\ make.pc = "make.group" /\ make.uid = proc[p].uid
        BY <1>1, OffTyped DEF Process, Pcs
      <3>2. Goto(p, make)
        BY <2>2
      <3> HIDE DEF make
      <3> QED
        BY <2>2, <3>1, <3>2
    <2>3. ASSUME proc[p].uid # Nil, NEW g \in Admins,
                 Goto(p, IF Complete(groups[g], proc[p].uid)
                         THEN [Off EXCEPT !.pc = "serving"]
                         ELSE [Off EXCEPT !.pc = "fix.group", !.gid = g,
                                          !.group = Completed(groups[g], proc[p].uid)])
          PROVE  \E local \in Process : Found(local)
      <3>1. g \in GroupIds /\ g # Nil /\ Completed(groups[g], proc[p].uid) \in Group
        BY <1>1, <2>3, CompletedTyped, BootstrapAssumption DEF TInv, TypeOK, Admins
      <3> DEFINE done == [Off EXCEPT !.pc = "serving"]
                 fix  == [Off EXCEPT !.pc = "fix.group", !.gid = g,
                                     !.group = Completed(groups[g], proc[p].uid)]
      <3>2. /\ done \in Process /\ done.pc = "serving"
            /\ fix \in Process /\ fix.pc = "fix.group" /\ fix.gid = g
        BY <3>1, OffTyped DEF Process, Pcs
      <3>3. Goto(p, done) \/ Goto(p, fix)
        BY <2>3
      <3> HIDE DEF done, fix
      <3> QED
        BY <3>1, <3>2, <3>3
    <2> QED
      BY <2>1, <2>2, <2>3 DEF FindGroup
  <1>3. proc' \in [Procs -> Process] /\ Looked'
    BY <1>2, GotoTyped
  <1> QED
    BY <1>3 DEF TInv, TypeOK, FindGroup

LEMMA MakeGroupTyped ==
    ASSUME TInv, NEW p \in Procs, MakeGroup(p)
    PROVE  TInv'
  <1>1. PICK g \in GroupIds :
            groups' = Save(groups, g, [name |-> "admins", roles |-> <<"admin">>,
                                       members |-> {proc[p].uid}])
    BY DEF MakeGroup
  <1>2. proc[p].uid \in UserIds
    BY DEF TInv, TypeOK, Looked, MakeGroup, Process
  <1>3. [name |-> "admins", roles |-> <<"admin">>, members |-> {proc[p].uid}] \in Group
    BY <1>2, BootstrapAssumption DEF Group
  <1>4. [Off EXCEPT !.pc = "serving"] \in Process
    BY OffTyped DEF Process, Pcs
  <1>5. proc' \in [Procs -> Process] /\ Looked'
    BY <1>4, GotoTyped DEF MakeGroup, Off
  <1> QED
    BY <1>1, <1>3, <1>5, GroupsTyped DEF TInv, TypeOK, MakeGroup

LEMMA FixGroupTyped ==
    ASSUME TInv, NEW p \in Procs, FixGroup(p)
    PROVE  TInv'
  <1>1. proc[p].gid \in GroupIds /\ proc[p].group \in Group
    BY DEF TInv, TypeOK, Looked, FixGroup, Process
  <1>2. [Off EXCEPT !.pc = "serving"] \in Process
    BY OffTyped DEF Process, Pcs
  <1>3. proc' \in [Procs -> Process] /\ Looked'
    BY <1>2, GotoTyped DEF FixGroup, Off
  <1> QED
    BY <1>1, <1>3, GroupsTyped DEF TInv, TypeOK, FixGroup

LEMMA EndTyped ==
    ASSUME TInv, NEW p \in Procs, Fail(p) \/ Crash(p)
    PROVE  TInv'
  <1>1. proc' \in [Procs -> Process] /\ Looked'
    BY OffTyped, GotoTyped DEF Fail, Crash, Off
  <1> QED
    BY <1>1 DEF TInv, TypeOK, Fail, Crash

LEMMA ListsAreSequences == Lists \subseteq Seq(Roles)
  BY DEF Lists

LEMMA ChangesTyped ==
    ASSUME TInv, UserChanges \/ GroupChanges
    PROVE  TInv'
  <1>1. CASE UserChanges
    <2>1. PICK u \in UserIds, doc \in User : users' = Save(users, u, doc)
      BY <1>1 DEF UserChanges, TInv, TypeOK, User
    <2> QED
      BY <1>1, <2>1, UsersTyped DEF TInv, TypeOK, Looked, UserChanges
  <1>2. CASE GroupChanges
    <2>1. PICK g \in GroupIds, doc \in Group : groups' = Save(groups, g, doc)
      BY <1>2, ListsAreSequences DEF GroupChanges, TInv, TypeOK, Group
    <2> QED
      BY <1>2, <2>1, GroupsTyped DEF TInv, TypeOK, Looked, GroupChanges
  <1> QED
    BY <1>1, <1>2

LEMMA StepTyped ==
    ASSUME TInv, [Next]_vars
    PROVE  TInv'
  <1>1. CASE UNCHANGED vars
    BY <1>1 DEF TInv, TypeOK, Looked, vars
  <1>2. CASE Next
    BY <1>2, StartTyped, FindUserTyped, MakeUserTyped, FixUserTyped, FindGroupTyped,
       MakeGroupTyped, FixGroupTyped, EndTyped, ChangesTyped
    DEF Next, Boot
  <1> QED
    BY <1>1, <1>2

(* Whatever the processes find in the collections, what they save is a user *)
(* and a group, with members that are ids (server.go:192-233).              *)
THEOREM TypeCorrect == Spec => []TypeOK
  <1>1. TInv => TypeOK
    BY DEF TInv
  <1> QED
    BY InitTyped, StepTyped, <1>1, PTL DEF Spec

-----------------------------------------------------------------------------
(* One process: it alone moves, so what it holds after a step is all that   *)
(* Fresh speaks about.                                                      *)
LEMMA OnlyOne ==
    ASSUME IInv, NEW p \in Procs, FreshFor(proc[p])'
    PROVE  Fresh'
  BY DEF IInv, OneProcess, Fresh

LEMMA Moved ==
    ASSUME IInv, NEW p \in Procs, NEW STATE local, Goto(p, local)
    PROVE  proc'[p] = local
  BY DEF IInv, TInv, TypeOK, Goto

LEMMA FindUserFresh ==
    ASSUME IInv, NEW p \in Procs, FindUser(p)
    PROVE  Fresh' /\ OneOfEach'
  <1>1. UNCHANGED <<users, groups>>
    BY DEF FindUser
  <1>2. OneOfEach'
    BY <1>1 DEF IInv, OneOfEach
  <1>3. CASE Named(Admin) = {} /\ Goto(p, [Off EXCEPT !.pc = "make.user"])
    <2>1. proc'[p].pc = "make.user"
      BY <1>3, Moved DEF Off
    <2>2. FreshFor(proc[p])'
      BY <1>1, <1>3, <2>1 DEF FreshFor, Named
    <2> QED
      BY <1>2, <2>2, OnlyOne
  <1>4. ASSUME NEW u \in Named(Admin),
               Goto(p, [Off EXCEPT !.pc = IF "admin" \in users[u].roles THEN "find.group"
                                          ELSE "fix.user",
                                   !.uid = u, !.user = users[u]])
        PROVE  Fresh'
    <2>1. /\ proc'[p].pc = IF "admin" \in users[u].roles THEN "find.group" ELSE "fix.user"
          /\ proc'[p].uid = u /\ proc'[p].user = users[u]
      BY <1>4, Moved DEF Off
    <2>2. FreshFor(proc[p])'
      BY <1>1, <2>1 DEF FreshFor, Named, Administrator
    <2> QED
      BY <2>2, OnlyOne
  <1> QED
    BY <1>2, <1>3, <1>4 DEF FindUser

(* The administrator that is saved is the only one of its name.             *)
LEMMA UserSaved ==
    ASSUME IInv, NEW u \in UserIds, NEW doc \in User,
           users' = Save(users, u, doc), UNCHANGED groups,
           \A i \in Named(doc.username) : i = u
    PROVE  /\ OneOfEach'
           /\ u \in DOMAIN users' /\ users'[u] = doc
  <1>1. /\ DOMAIN users' = DOMAIN users \cup {u}
        /\ users'[u] = doc
        /\ \A i \in DOMAIN users \ {u} : users'[i] = users[i]
    BY DEF Save
  <1>2. \A i, j \in DOMAIN users' : users'[i].username = users'[j].username => i = j
    BY <1>1 DEF IInv, OneOfEach, Named
  <1> QED
    BY <1>1, <1>2 DEF IInv, OneOfEach

LEMMA MakeUserFresh ==
    ASSUME IInv, NEW p \in Procs, MakeUser(p)
    PROVE  Fresh' /\ OneOfEach'
  <1>1. PICK u \in UserIds \ DOMAIN users :
            /\ users' = Save(users, u, [username |-> Admin, roles |-> {"admin"}])
            /\ Goto(p, [Off EXCEPT !.pc = "find.group", !.uid = u])
    BY DEF MakeUser
  <1> DEFINE doc == [username |-> Admin, roles |-> {"admin"}]
  <1>2. doc \in User /\ doc.username = Admin /\ "admin" \in doc.roles
    BY BootstrapAssumption DEF User
  <1>3. Named(Admin) = {} /\ UNCHANGED groups
    BY DEF IInv, Fresh, FreshFor, MakeUser
  <1>4. proc'[p].pc = "find.group" /\ proc'[p].uid = u
    BY <1>1, Moved DEF Off
  <1>5. users' = Save(users, u, doc)
    BY <1>1
  <1> HIDE DEF doc
  <1>6. OneOfEach' /\ u \in DOMAIN users' /\ users'[u] = doc
    BY <1>2, <1>3, <1>5, UserSaved
  <1>7. FreshFor(proc[p])'
    BY <1>2, <1>4, <1>6 DEF FreshFor, Administrator
  <1> QED
    BY <1>6, <1>7, OnlyOne

LEMMA FixUserFresh ==
    ASSUME IInv, NEW p \in Procs, FixUser(p)
    PROVE  Fresh' /\ OneOfEach'
  <1>1. /\ proc[p].uid \in Named(Admin) /\ proc[p].user = users[proc[p].uid]
        /\ proc[p].uid \in UserIds /\ proc[p].user \in User
        /\ proc[p].user.username = Admin
        /\ UNCHANGED groups
    BY DEF IInv, TInv, TypeOK, Fresh, FreshFor, FixUser, Named
  <1>2. CASE /\ users' = Save(users, proc[p].uid, [proc[p].user EXCEPT !.roles = @ \cup {"admin"}])
             /\ Goto(p, [Off EXCEPT !.pc = "find.group", !.uid = proc[p].uid])
    <2> DEFINE doc == [proc[p].user EXCEPT !.roles = @ \cup {"admin"}]
    <2>1. PICK u \in UserIds : u = proc[p].uid
      BY <1>1
    <2>2. doc \in User /\ doc.username = Admin /\ "admin" \in doc.roles
      BY <1>1, BootstrapAssumption DEF User
    <2>3. proc'[p].pc = "find.group" /\ proc'[p].uid = u
      BY <1>2, <2>1, Moved DEF Off
    <2>4. PICK d \in User : d = doc
      BY <2>2
    <2>5. users' = Save(users, u, d)
      BY <1>2, <2>1, <2>4
    <2>6. \A i \in Named(Admin) : i = u
      BY <1>1, <2>1 DEF IInv, OneOfEach, Named
    <2> HIDE DEF doc
    <2>7. OneOfEach' /\ u \in DOMAIN users' /\ users'[u] = d
      BY <1>1, <2>2, <2>4, <2>5, <2>6, UserSaved
    <2>8. FreshFor(proc[p])'
      BY <2>2, <2>3, <2>4, <2>7 DEF FreshFor, Administrator
    <2> QED
      BY <2>7, <2>8, OnlyOne
  <1>3. CASE Goto(p, WithoutUser(proc[p])) /\ UNCHANGED users
    <2>1. proc'[p].pc = "find.group" /\ proc'[p].uid = Nil
      BY <1>3, Moved DEF WithoutUser, Off
    <2>2. FreshFor(proc[p])'
      BY <2>1 DEF FreshFor
    <2>3. OneOfEach'
      BY <1>1, <1>3 DEF IInv, OneOfEach
    <2> QED
      BY <2>2, <2>3, OnlyOne
  <1> QED
    BY <1>2, <1>3 DEF FixUser

LEMMA FindGroupFresh ==
    ASSUME IInv, NEW p \in Procs, FindGroup(p)
    PROVE  Fresh' /\ OneOfEach'
  <1>1. UNCHANGED <<users, groups>>
    BY DEF FindGroup
  <1>2. OneOfEach'
    BY <1>1 DEF IInv, OneOfEach
  <1>3. proc[p].uid # Nil => Administrator(proc[p].uid) /\ proc[p].uid \in UserIds
    BY DEF IInv, TInv, TypeOK, Fresh, FreshFor, FindGroup, Administrator
  <1>4. CASE Goto(p, Off)
    <2>1. proc'[p].pc = "off"
      BY <1>4, Moved DEF Off
    <2>2. FreshFor(proc[p])'
      BY <2>1 DEF FreshFor
    <2> QED
      BY <1>2, <2>2, OnlyOne
  <1>5. CASE /\ proc[p].uid # Nil /\ Admins = {}
             /\ Goto(p, [Off EXCEPT !.pc = "make.group", !.uid = proc[p].uid])
    <2>1. proc'[p].pc = "make.group" /\ proc'[p].uid = proc[p].uid
      BY <1>5, Moved DEF Off
    <2>2. FreshFor(proc[p])'
      BY <1>1, <1>3, <1>5, <2>1 DEF FreshFor, Administrator, Admins
    <2> QED
      BY <1>2, <2>2, OnlyOne
  <1>6. ASSUME proc[p].uid # Nil, NEW g \in Admins,
               Goto(p, IF Complete(groups[g], proc[p].uid)
                       THEN [Off EXCEPT !.pc = "serving"]
                       ELSE [Off EXCEPT !.pc = "fix.group", !.gid = g,
                                        !.group = Completed(groups[g], proc[p].uid)])
        PROVE  Fresh'
    <2>1. \/ proc'[p].pc = "serving"
          \/ /\ proc'[p].pc = "fix.group" /\ proc'[p].gid = g
             /\ proc'[p].group = Completed(groups[g], proc[p].uid)
      <3>1. CASE Complete(groups[g], proc[p].uid)
        BY <1>6, <3>1, Moved DEF Off
      <3>2. CASE ~Complete(groups[g], proc[p].uid)
        BY <1>6, <3>2, Moved DEF Off
      <3> QED
        BY <3>1, <3>2
    <2>2. PICK u \in UserIds : u = proc[p].uid /\ Administrator(u)
      BY <1>3, <1>6
    <2>3. Administrator(u)' /\ g \in Admins' /\ Completed(groups'[g], u) = Completed(groups[g], u)
      BY <1>1, <2>2 DEF Administrator, Admins
    <2>4. FreshFor(proc[p])'
      BY <2>1, <2>2, <2>3 DEF FreshFor
    <2> QED
      BY <2>4, OnlyOne
  <1> QED
    BY <1>2, <1>4, <1>5, <1>6 DEF FindGroup

(* The group that is saved is the only one of its name.                     *)
LEMMA GroupSaved ==
    ASSUME IInv, NEW g \in GroupIds, NEW doc, groups' = Save(groups, g, doc), UNCHANGED users,
           \A h \in DOMAIN groups : groups[h].name = doc.name => h = g
    PROVE  OneOfEach'
  <1>1. /\ DOMAIN groups' = DOMAIN groups \cup {g}
        /\ groups'[g] = doc
        /\ \A i \in DOMAIN groups \ {g} : groups'[i] = groups[i]
    BY DEF Save
  <1>2. \A h, i \in DOMAIN groups' : groups'[h].name = groups'[i].name => h = i
    BY <1>1 DEF IInv, OneOfEach
  <1> QED
    BY <1>2 DEF IInv, OneOfEach

LEMMA GroupFresh ==
    ASSUME IInv, NEW p \in Procs, MakeGroup(p) \/ FixGroup(p)
    PROVE  /\ Fresh' /\ OneOfEach'
           /\ \E u \in DOMAIN users' :
                /\ Administrator(u)'
                /\ \E g \in DOMAIN groups' :
                    groups'[g].name = "admins" /\ u \in groups'[g].members
  <1>1. Goto(p, [Off EXCEPT !.pc = "serving"]) /\ UNCHANGED users
    BY DEF MakeGroup, FixGroup
  <1>2. proc'[p].pc = "serving"
    BY <1>1, Moved DEF Off
  <1>3. Fresh'
    BY <1>2, OnlyOne DEF FreshFor
  <1>4. CASE MakeGroup(p)
    <2>1. PICK u : u = proc[p].uid
      OBVIOUS
    <2> DEFINE doc == [name |-> "admins", roles |-> <<"admin">>, members |-> {u}]
    <2>2. PICK g \in GroupIds : groups' = Save(groups, g, doc)
      BY <1>4, <2>1 DEF MakeGroup
    <2>3. Admins = {} /\ Administrator(u)
      BY <1>4, <2>1 DEF IInv, TInv, Looked, Fresh, FreshFor, MakeGroup
    <2>4. \A h \in DOMAIN groups : groups[h].name # doc.name
      BY <2>3 DEF Admins
    <2>5. OneOfEach'
      BY <1>1, <2>2, <2>4, GroupSaved
    <2>6. g \in DOMAIN groups' /\ groups'[g] = doc
      BY <2>2 DEF Save
    <2>7. u \in DOMAIN users' /\ Administrator(u)'
      BY <1>1, <2>3 DEF Administrator
    <2> QED
      BY <1>3, <2>5, <2>6, <2>7
  <1>5. CASE FixGroup(p)
    <2>1. PICK g, doc : g = proc[p].gid /\ doc = proc[p].group
      OBVIOUS
    <2>2. groups' = Save(groups, g, doc) /\ g \in GroupIds
      BY <1>5, <2>1 DEF IInv, TInv, TypeOK, Looked, Process, FixGroup
    <2>3. g \in Admins
      BY <1>5, <2>1 DEF IInv, Fresh, FreshFor, FixGroup
    <2>4. PICK u \in UserIds : Administrator(u) /\ doc = Completed(groups[g], u)
      BY <1>5, <2>1 DEF IInv, Fresh, FreshFor, FixGroup
    <2>5. groups[g] \in Group
      BY <2>3 DEF IInv, TInv, TypeOK, Admins
    <2>6. doc.name = "admins" /\ u \in doc.members
      BY <2>3, <2>4, <2>5 DEF Completed, Group, Admins
    <2>7. \A h \in DOMAIN groups : groups[h].name = doc.name => h = g
      BY <2>3, <2>6 DEF IInv, OneOfEach, Admins
    <2>8. OneOfEach'
      BY <1>1, <2>2, <2>7, GroupSaved
    <2>9. g \in DOMAIN groups' /\ groups'[g] = doc
      BY <2>2 DEF Save
    <2>10. u \in DOMAIN users' /\ Administrator(u)'
      BY <1>1, <2>4 DEF Administrator
    <2> QED
      BY <1>3, <2>6, <2>8, <2>9, <2>10
  <1> QED
    BY <1>4, <1>5

(* While requests change the collections, no process is starting.           *)
LEMMA ChangesFresh ==
    ASSUME IInv, UserChanges \/ GroupChanges
    PROVE  Fresh' /\ OneOfEach'
  <1>1. \A p \in Procs : proc[p].pc = "serving"
    BY DEF IInv, OneProcess, UserChanges, GroupChanges, Serving
  <1>2. Fresh'
    BY <1>1 DEF Fresh, FreshFor, UserChanges, GroupChanges
  <1>3. CASE UserChanges
    <2>1. \/ \E u \in UserIds \ DOMAIN users, name \in Usernames :
                /\ Named(name) = {}
                /\ users' = Save(users, u, [username |-> name, roles |-> {}])
          \/ \E u \in DOMAIN users, name \in Usernames :
                /\ Named(name) = {}
                /\ users' = Save(users, u, [users[u] EXCEPT !.username = name])
          \/ \E u \in DOMAIN users, roles \in SUBSET Roles \ {{}} :
                users' = Save(users, u, [users[u] EXCEPT !.roles = roles])
      BY <1>3 DEF UserChanges
    <2>2. /\ \A u \in DOMAIN users : u \in UserIds /\ users[u] \in User
          /\ UNCHANGED groups
      BY <1>3 DEF IInv, TInv, TypeOK, UserChanges
    <2>3. ASSUME NEW u \in UserIds, NEW name \in Usernames, Named(name) = {},
                 users' = Save(users, u, [username |-> name, roles |-> {}])
          PROVE  OneOfEach'
      <3>1. PICK doc \in User : doc = [username |-> name, roles |-> {}]
        BY DEF User
      <3> QED
        BY <2>2, <2>3, <3>1, UserSaved
    <2>4. ASSUME NEW u \in DOMAIN users, NEW name \in Usernames, Named(name) = {},
                 users' = Save(users, u, [users[u] EXCEPT !.username = name])
          PROVE  OneOfEach'
      <3>1. PICK doc \in User : doc = [users[u] EXCEPT !.username = name]
        BY <2>2 DEF User
      <3>2. doc.username = name
        BY <2>2, <3>1 DEF User
      <3> QED
        BY <2>2, <2>4, <3>1, <3>2, UserSaved
    <2>5. ASSUME NEW u \in DOMAIN users, NEW roles \in SUBSET Roles,
                 users' = Save(users, u, [users[u] EXCEPT !.roles = roles])
          PROVE  OneOfEach'
      <3>1. PICK doc \in User : doc = [users[u] EXCEPT !.roles = roles]
        BY <2>2 DEF User
      <3>2. \A i \in Named(doc.username) : i = u
        BY <2>2, <3>1 DEF User, Named, IInv, OneOfEach
      <3> QED
        BY <2>2, <2>5, <3>1, <3>2, UserSaved
    <2> QED
      BY <1>2, <2>1, <2>3, <2>4, <2>5
  <1>4. CASE GroupChanges
    <2>1. \/ \E g \in GroupIds \ DOMAIN groups, name \in {"admins", "other"},
                roles \in Lists, members \in SUBSET UserIds :
                /\ GroupNamed(name) = {}
                /\ groups' = Save(groups, g,
                                  [name |-> name, roles |-> roles, members |-> members])
          \/ \E g \in DOMAIN groups, name \in {"admins", "other"} :
                /\ GroupNamed(name) = {}
                /\ groups' = Save(groups, g, [groups[g] EXCEPT !.name = name])
          \/ \E g \in DOMAIN groups, roles \in Lists \ {<<>>}, members \in SUBSET UserIds \ {{}} :
                groups' = Save(groups, g, [groups[g] EXCEPT !.roles = roles, !.members = members])
      BY <1>4 DEF GroupChanges
    <2>2. /\ \A g \in DOMAIN groups : g \in GroupIds /\ groups[g] \in Group
          /\ UNCHANGED users
      BY <1>4 DEF IInv, TInv, TypeOK, GroupChanges
    <2>3. ASSUME NEW g \in GroupIds, NEW doc, GroupNamed(doc.name) = {},
                 groups' = Save(groups, g, doc)
          PROVE  OneOfEach'
      <3>1. \A h \in DOMAIN groups : groups[h].name # doc.name
        BY <2>3 DEF GroupNamed
      <3> QED
        BY <2>2, <2>3, <3>1, GroupSaved
    <2>4. ASSUME NEW g \in GroupIds, NEW name, NEW roles, NEW members, GroupNamed(name) = {},
                 groups' = Save(groups, g, [name |-> name, roles |-> roles, members |-> members])
          PROVE  OneOfEach'
      <3>1. PICK doc : doc = [name |-> name, roles |-> roles, members |-> members]
        OBVIOUS
      <3> QED
        BY <2>3, <2>4, <3>1
    <2>5. ASSUME NEW g \in DOMAIN groups, NEW name, GroupNamed(name) = {},
                 groups' = Save(groups, g, [groups[g] EXCEPT !.name = name])
          PROVE  OneOfEach'
      <3>1. PICK doc : doc = [groups[g] EXCEPT !.name = name]
        OBVIOUS
      <3>2. doc.name = name
        BY <2>2, <3>1 DEF Group
      <3> QED
        BY <2>2, <2>3, <2>5, <3>1, <3>2
    <2>6. ASSUME NEW g \in DOMAIN groups, NEW roles, NEW members,
                 groups' = Save(groups, g,
                                [groups[g] EXCEPT !.roles = roles, !.members = members])
          PROVE  OneOfEach'
      <3>1. PICK doc : doc = [groups[g] EXCEPT !.roles = roles, !.members = members]
        OBVIOUS
      <3>2. \A h \in DOMAIN groups : groups[h].name = doc.name => h = g
        BY <2>2, <3>1 DEF Group, IInv, OneOfEach
      <3> QED
        BY <2>2, <2>6, <3>1, <3>2, GroupSaved
    <2> QED
      BY <1>2, <2>1, <2>2, <2>4, <2>5, <2>6
  <1> QED
    BY <1>3, <1>4

LEMMA StartEndFresh ==
    ASSUME IInv, NEW p \in Procs, Start(p) \/ Fail(p) \/ Crash(p)
    PROVE  Fresh' /\ OneOfEach'
  <1>1. UNCHANGED <<users, groups>>
    BY DEF Start, Fail, Crash
  <1>2. OneOfEach'
    BY <1>1 DEF IInv, OneOfEach
  <1>3. proc'[p].pc \in {"find.user", "off"}
    BY Moved DEF Start, Fail, Crash, Off
  <1>4. FreshFor(proc[p])'
    BY <1>3 DEF FreshFor
  <1> QED
    BY <1>2, <1>4, OnlyOne

LEMMA StepSound ==
    ASSUME IInv, [Next]_vars
    PROVE  IInv'
  <1>1. TInv' /\ OneProcess'
    BY StepTyped DEF IInv, OneProcess
  <1>2. CASE UNCHANGED vars
    BY <1>1, <1>2 DEF IInv, Fresh, FreshFor, Administrator, Named, Admins, OneOfEach, vars
  <1>3. CASE Next
    <2>1. Fresh' /\ OneOfEach'
      BY <1>3, StartEndFresh, FindUserFresh, MakeUserFresh, FixUserFresh, FindGroupFresh,
         GroupFresh, ChangesFresh
      DEF Next, Boot
    <2> QED
      BY <1>1, <2>1 DEF IInv
  <1> QED
    BY <1>2, <1>3

LEMMA Invariance == OneProcess /\ Spec => []IInv
  <1>1. OneProcess /\ Init => IInv
    <2> SUFFICES ASSUME OneProcess, Init PROVE IInv
      OBVIOUS
    <2>1. Fresh /\ OneOfEach
      BY DEF Init, Off, Fresh, FreshFor, OneOfEach
    <2> QED
      BY <2>1, InitTyped DEF IInv
  <1> QED
    BY <1>1, StepSound, PTL DEF Spec

(* One process, started and ended anywhere any number of times, never makes *)
(* a second administrator or a second group of a name (server.go:161-193).  *)
THEOREM NoSecond == OneProcess /\ Spec => []OneOfEach
  <1>1. IInv => OneOfEach
    BY DEF IInv
  <1> QED
    BY Invariance, <1>1, PTL

(* A process serves only after it saved the group or found it complete.     *)
LEMMA Entered ==
    ASSUME IInv, Next, NEW p \in Procs, proc[p].pc # "serving", proc'[p].pc = "serving"
    PROVE  \/ MakeGroup(p) \/ FixGroup(p)
           \/ /\ FindGroup(p)
              /\ \E g \in Admins : Complete(groups[g], proc[p].uid) /\ proc[p].uid # Nil
  <1>1. PICK q \in Procs : Start(q) \/ Boot(q) \/ Crash(q)
    BY DEF Next, UserChanges, GroupChanges
  <1>2. q = p
    BY DEF IInv, OneProcess
  <1>3. ~(Start(p) \/ Fail(p) \/ Crash(p) \/ MakeUser(p))
    <2>1. CASE Start(p)
      BY <2>1, Moved DEF Start, Off
    <2>2. CASE Fail(p) \/ Crash(p)
      BY <2>2, Moved DEF Fail, Crash, Off
    <2>3. CASE MakeUser(p)
      <3>1. PICK u \in UserIds : Goto(p, [Off EXCEPT !.pc = "find.group", !.uid = u])
        BY <2>3 DEF MakeUser
      <3> QED
        BY <3>1, Moved DEF Off
    <2> QED
      BY <2>1, <2>2, <2>3
  <1>4. ~FindUser(p)
    <2>1. SUFFICES ASSUME NEW u \in Named(Admin),
                          Goto(p, [Off EXCEPT !.pc = IF "admin" \in users[u].roles
                                                     THEN "find.group" ELSE "fix.user",
                                              !.uid = u, !.user = users[u]])
                   PROVE  FALSE
      BY Moved DEF FindUser, Off
    <2> QED
      BY <2>1, Moved DEF Off
  <1>5. ~FixUser(p)
    <2>1. SUFFICES ASSUME Goto(p, [Off EXCEPT !.pc = "find.group", !.uid = proc[p].uid])
                   PROVE  FALSE
      BY Moved DEF FixUser, WithoutUser, Off
    <2> QED
      BY <2>1, Moved DEF Off
  <1>6. ASSUME FindGroup(p)
        PROVE  \E g \in Admins : Complete(groups[g], proc[p].uid) /\ proc[p].uid # Nil
    <2>1. ~Goto(p, Off) /\ ~Goto(p, [Off EXCEPT !.pc = "make.group", !.uid = proc[p].uid])
      <3>1. ~Goto(p, Off)
        BY Moved DEF Off
      <3>2. ~Goto(p, [Off EXCEPT !.pc = "make.group", !.uid = proc[p].uid])
        BY Moved DEF Off
      <3> QED
        BY <3>1, <3>2
    <2>2. PICK g \in Admins :
            /\ proc[p].uid # Nil
            /\ Goto(p, IF Complete(groups[g], proc[p].uid)
                       THEN [Off EXCEPT !.pc = "serving"]
                       ELSE [Off EXCEPT !.pc = "fix.group", !.gid = g,
                                        !.group = Completed(groups[g], proc[p].uid)])
      BY <1>6, <2>1 DEF FindGroup
    <2>3. Complete(groups[g], proc[p].uid)
      BY <2>2, Moved DEF Off
    <2> QED
      BY <2>2, <2>3
  <1> QED
    BY <1>1, <1>2, <1>3, <1>4, <1>5, <1>6 DEF Boot

(* However often earlier starts were cut short, and whatever the requests   *)
(* of earlier processes left, the process that begins to serve has its      *)
(* administrator, with the role, in the group (server.go:158-238).          *)
THEOREM AdminBeforeService == OneProcess /\ Spec => ServesWithAdmin
  <1> DEFINE Has ==
        \E u \in DOMAIN users' :
            /\ users'[u].username = Admin
            /\ "admin" \in users'[u].roles
            /\ \E g \in DOMAIN groups' :
                groups'[g].name = "admins" /\ u \in groups'[g].members
  <1> DEFINE Enters ==
        \A p \in Procs : proc[p].pc # "serving" /\ proc'[p].pc = "serving" => Has
  <1>1. IInv /\ [Next]_vars => [Enters]_vars
    <2> SUFFICES ASSUME IInv, Next, NEW p \in Procs,
                        proc[p].pc # "serving", proc'[p].pc = "serving"
                 PROVE  Has
      OBVIOUS
    <2>1. CASE MakeGroup(p) \/ FixGroup(p)
      BY <2>1, GroupFresh DEF Administrator
    <2>2. ASSUME FindGroup(p), NEW g \in Admins, Complete(groups[g], proc[p].uid),
                 proc[p].uid # Nil
          PROVE  Has
      <3>1. UNCHANGED <<users, groups>> /\ Administrator(proc[p].uid)
        BY <2>2 DEF FindGroup, IInv, Fresh, FreshFor
      <3> QED
        BY <2>2, <3>1 DEF Administrator, Admins, Complete
    <2> QED
      BY <2>1, <2>2, Entered
  <1> QED
    BY Invariance, <1>1, PTL DEF Spec, ServesWithAdmin
=============================================================================
