---------------------------- MODULE GroupsProofs ----------------------------
(***************************************************************************)
(* Proofs about Groups, for every number of users, groups, roles and        *)
(* goroutines, with ListUsers as it is and as repaired. The first part is   *)
(* about requests at the same time: no user gets a role that nobody asked   *)
(* for, because none of the copies that handlers hold has one, and none of  *)
(* the calls they still have before them hands one out. The second part is  *)
(* about requests one after another.                                        *)
(***************************************************************************)
EXTENDS Groups, SequenceTheorems, TLAPS

(* The calls of AddRolesToMembers among jobs give out only these pairs.     *)
JobsWithin(jobs, pairs) ==
    \A k \in 1..Len(jobs) : jobs[k].op = "add" => Entitled(jobs[k]) \subseteq pairs

(* What is known of a goroutine's local variables, by where it is.          *)
Thens == {"idle", "create.save", "update.done", "delete.delete"}

Working == {"add.list", "add.save", "remove.count", "remove.read", "remove.save"}

Placed(local) ==
    /\ local.then \in Thens
    /\ local.pc \in Working => local.jobs # <<>>
    /\ local.pc = "add.list" => Head(local.jobs).op = "add"
    /\ local.pc \in {"remove.read", "remove.save"} => local.who # None
    /\ local.who = None => local.pc = "profile.save" \/ local.copy = {}
    /\ local.pc = "update.read" => local.edit \in GroupEdits
    /\ local.pc \in {"update.check", "update.save"} => local.id # None
    /\ local.pc = "update.save" => local.group.name # None

(* What users can have of what administrators asked for.                    *)
Asked == {pair \in UserIds \X Roles : Granted(pair[1], pair[2])}

(* The copies of users have only roles given to these users. The jobs give  *)
(* out such roles; until UpdateGroup has checked the group, the group's.    *)
Within(local, given) ==
    /\ \A c \in local.copies : \A role \in c.roles : <<c.id, role>> \in given
    /\ local.who # None => \A role \in local.copy : <<local.who, role>> \in given
    /\ JobsWithin(local.jobs, IF local.pc = "update.check" THEN Entitled(local.group) ELSE given)

(* CreateGroup has one job at most, and is past it when all members are     *)
(* known to exist.                                                          *)
Creating(local, known) ==
    /\ local.pc = "create.save" => local.then = "create.save"
    /\ local.then = "create.save" =>
        /\ local.group.name # None
        /\ \/ local.pc = "add.list" /\ local.jobs = Add(local.group.members, local.group.roles)
           \/ local.pc = "add.save" /\ Tail(local.jobs) = <<>> /\ local.group.members \subseteq known
           \/ local.pc = "create.save" /\ local.group.members \subseteq known

Good(local, given, known) ==
    local \in Request /\ Placed(local) /\ Within(local, given) /\ Creating(local, known)

IInv ==
    /\ TypeOK
    /\ RolesOnlyGranted
    /\ \A r \in Reqs : Good(req[r], Asked, DOMAIN users)

(* The part that is not about requests.                                     *)
Stored ==
    /\ DOMAIN users \subseteq UserIds
    /\ \A u \in DOMAIN users : users[u] \subseteq Roles
    /\ DOMAIN groups \subseteq GroupIds
    /\ \A g \in DOMAIN groups : groups[g] \in Group
    /\ proc \in {"up", "down"}
    /\ granted \subseteq UserIds \X Roles
    /\ repaired \in Repairs
    /\ RolesOnlyGranted

-----------------------------------------------------------------------------
(* Lists of jobs.                                                           *)
LEMMA NoJobs ==
    ASSUME NEW pairs
    PROVE  <<>> \in Seq(Job) /\ JobsWithin(<<>>, pairs)
  BY EmptySeq DEF JobsWithin

LEMMA AddJobs ==
    ASSUME NEW members \in SUBSET UserIds, NEW roles \in SUBSET Roles,
           NEW pairs, members \X roles \subseteq pairs
    PROVE  Add(members, roles) \in Seq(Job) /\ JobsWithin(Add(members, roles), pairs)
  <1> DEFINE job == [op |-> "add", members |-> members, roles |-> roles]
  <1>1. CASE members = {}
    BY <1>1, NoJobs DEF Add
  <1>2. CASE members # {}
    <2>1. job \in Job /\ Entitled(job) \subseteq pairs
      BY DEF Job, Entitled
    <2>2. Add(members, roles) = <<job>>
      BY <1>2 DEF Add
    <2> HIDE DEF job
    <2>3. <<job>> \in Seq(Job) /\ Len(<<job>>) = 1 /\ <<job>>[1] = job
      BY <2>1
    <2> QED
      BY <2>1, <2>2, <2>3 DEF JobsWithin
  <1> QED
    BY <1>1, <1>2

LEMMA RemoveJobs ==
    ASSUME NEW members \in SUBSET UserIds, NEW roles \in SUBSET Roles, NEW pairs
    PROVE  Remove(members, roles) \in Seq(Job) /\ JobsWithin(Remove(members, roles), pairs)
  <1> DEFINE job == [op |-> "remove", members |-> members, roles |-> roles]
  <1>1. CASE members = {} \/ roles = {}
    BY <1>1, NoJobs DEF Remove
  <1>2. CASE ~(members = {} \/ roles = {})
    <2>1. job \in Job /\ job.op # "add"
      BY DEF Job
    <2>2. Remove(members, roles) = <<job>>
      BY <1>2 DEF Remove
    <2> HIDE DEF job
    <2>3. <<job>> \in Seq(Job) /\ Len(<<job>>) = 1 /\ <<job>>[1] = job
      BY <2>1
    <2> QED
      BY <2>1, <2>2, <2>3 DEF JobsWithin
  <1> QED
    BY <1>1, <1>2

LEMMA BothJobs ==
    ASSUME NEW s \in Seq(Job), NEW t \in Seq(Job), NEW pairs,
           JobsWithin(s, pairs), JobsWithin(t, pairs)
    PROVE  s \o t \in Seq(Job) /\ JobsWithin(s \o t, pairs)
  <1>1. /\ s \o t \in Seq(Job)
        /\ Len(s \o t) = Len(s) + Len(t)
        /\ \A k \in 1..Len(s) + Len(t) :
               (s \o t)[k] = IF k <= Len(s) THEN s[k] ELSE t[k - Len(s)]
    BY ConcatProperties
  <1>2. Len(s) \in Nat /\ Len(t) \in Nat
    BY LenProperties
  <1>3. ASSUME NEW k \in 1..Len(s \o t), (s \o t)[k].op = "add"
        PROVE  Entitled((s \o t)[k]) \subseteq pairs
    <2>1. CASE k <= Len(s)
      <3>1. k \in 1..Len(s) /\ (s \o t)[k] = s[k]
        BY <1>1, <1>2, <2>1
      <3> QED
        BY <1>3, <3>1 DEF JobsWithin
    <2>2. CASE ~(k <= Len(s))
      <3>1. k - Len(s) \in 1..Len(t) /\ (s \o t)[k] = t[k - Len(s)]
        BY <1>1, <1>2, <2>2
      <3> QED
        BY <1>3, <3>1 DEF JobsWithin
    <2> QED
      BY <2>1, <2>2
  <1> QED
    BY <1>1, <1>3 DEF JobsWithin

LEMMA LaterJobs ==
    ASSUME NEW s \in Seq(Job), s # <<>>, NEW pairs, JobsWithin(s, pairs)
    PROVE  /\ Head(s) \in Job
           /\ Head(s).op = "add" => Entitled(Head(s)) \subseteq pairs
           /\ Tail(s) \in Seq(Job)
           /\ JobsWithin(Tail(s), pairs)
  <1>1. /\ Tail(s) \in Seq(Job)
        /\ Head(s) \in Job
        /\ Len(Tail(s)) = Len(s) - 1
        /\ \A k \in 1..Len(Tail(s)) : Tail(s)[k] = s[k + 1]
    BY HeadTailProperties
  <1>2. Len(s) \in Nat \ {0} /\ Head(s) = s[1]
    BY EmptySeq
  <1>3. \A k \in 1..Len(Tail(s)) : k + 1 \in 1..Len(s)
    BY <1>1, <1>2
  <1> QED
    BY <1>1, <1>2, <1>3 DEF JobsWithin

LEMMA MoreWithin ==
    ASSUME NEW jobs, NEW few, NEW many, few \subseteq many, JobsWithin(jobs, few)
    PROVE  JobsWithin(jobs, many)
  BY DEF JobsWithin

(* Whatever UpdateGroup is to do to members after it has replaced old by    *)
(* new, it adds nothing that new does not entitle them to.                  *)
LEMMA UpdateJobsWithin ==
    ASSUME NEW mask, NEW old \in Draft, NEW new \in Draft
    PROVE  /\ UpdateJobs(mask, old, new) \in Seq(Job)
           /\ JobsWithin(UpdateJobs(mask, old, new), Entitled(new))
  <1> DEFINE Fits(jobs) == jobs \in Seq(Job) /\ JobsWithin(jobs, Entitled(new))
  <1>1. /\ old.members \in SUBSET UserIds /\ new.members \in SUBSET UserIds
        /\ old.roles \in SUBSET Roles /\ new.roles \in SUBSET Roles
    BY DEF Draft
  <1>2. Fits(<<>>)
    BY NoJobs
  <1>3. \A s, t : Fits(s) /\ Fits(t) => Fits(s \o t)
    BY BothJobs
  <1>4. Fits(RoleJobs(old, new))
    <2>1. Fits(Add(new.members, new.roles \ old.roles))
      <3>1. new.members \X (new.roles \ old.roles) \subseteq Entitled(new)
        BY DEF Entitled
      <3> QED
        BY <1>1, <3>1, AddJobs
    <2>2. Fits(Remove(old.members, old.roles \ new.roles))
      BY <1>1, RemoveJobs
    <2> HIDE DEF Fits
    <2> QED
      BY <1>2, <1>3, <2>1, <2>2 DEF RoleJobs
  <1>5. Fits(MemberJobs(old, new))
    <2>1. Fits(Add(new.members \ old.members, new.roles))
      <3>1. (new.members \ old.members) \X new.roles \subseteq Entitled(new)
        BY DEF Entitled
      <3> QED
        BY <1>1, <3>1, AddJobs
    <2>2. Fits(Remove(old.members \ new.members, old.roles))
      BY <1>1, RemoveJobs
    <2> HIDE DEF Fits
    <2> QED
      BY <1>3, <2>1, <2>2 DEF MemberJobs
  <1>6. Fits(UpdateJobs(mask, old, new))
    <2> HIDE DEF Fits
    <2> QED
      BY <1>2, <1>3, <1>4, <1>5 DEF UpdateJobs
  <1> QED
    BY <1>6

-----------------------------------------------------------------------------
(* Frames: what a step has to show of itself.                               *)
LEMMA StillGood ==
    ASSUME NEW local, NEW given, NEW more, given \subseteq more,
           NEW known, NEW wider, known \subseteq wider,
           Good(local, given, known)
    PROVE  Good(local, more, wider)
  <1>1. Within(local, more)
    BY MoreWithin DEF Good, Within
  <1>2. Creating(local, wider)
    BY DEF Good, Creating
  <1> QED
    BY <1>1, <1>2 DEF Good

LEMMA AskedGrows ==
    ASSUME granted \subseteq granted', repaired' = repaired
    PROVE  Asked \subseteq Asked'
  BY DEF Asked, Granted, Leaky

LEMMA AskedStays ==
    ASSUME UNCHANGED <<granted, repaired>>
    PROVE  Asked' = Asked
  BY DEF Asked, Granted, Leaky

LEMMA AskedPair ==
    ASSUME NEW u \in UserIds, NEW role \in Roles
    PROVE  <<u, role>> \in Asked <=> Granted(u, role)
  <1>1. <<u, role>> \in UserIds \X Roles /\ <<u, role>>[1] = u /\ <<u, role>>[2] = role
    OBVIOUS
  <1> QED
    BY <1>1 DEF Asked

LEMMA HasAsked ==
    ASSUME Stored
    PROVE  \A u \in DOMAIN users : \A role \in users[u] :
               u \in UserIds /\ role \in Roles /\ <<u, role>> \in Asked
  <1> SUFFICES ASSUME NEW u \in DOMAIN users, NEW role \in users[u]
               PROVE  u \in UserIds /\ role \in Roles /\ <<u, role>> \in Asked
    OBVIOUS
  <1>1. u \in UserIds /\ role \in Roles /\ Granted(u, role)
    BY DEF Stored, RolesOnlyGranted
  <1> QED
    BY <1>1, AskedPair

(* What is granted is asked for; what was asked for stays so.               *)
LEMMA GrantedIsAsked ==
    ASSUME granted' \subseteq UserIds \X Roles
    PROVE  granted' \subseteq Asked'
  <1>1. ASSUME NEW pair \in granted'
        PROVE  pair \in Asked'
    <2>1. pair \in UserIds \X Roles /\ pair = <<pair[1], pair[2]>> /\ pair[1] \in UserIds
      BY <1>1
    <2> QED
      BY <1>1, <2>1 DEF Asked, Granted
  <1> QED
    BY <1>1

LEMMA Advance ==
    ASSUME IInv, Stored', NEW r \in Reqs, NEW local, Goto(r, local),
           Good(local, Asked', DOMAIN users'), repaired' = repaired,
           granted \subseteq granted', DOMAIN users \subseteq DOMAIN users'
    PROVE  IInv'
  <1>1. req \in [Reqs -> Request] /\ local \in Request
    BY DEF IInv, TypeOK, Good
  <1>2. \A s \in Reqs : req'[s] = IF s = r THEN local ELSE req[s]
    BY <1>1 DEF Goto
  <1>3. \A s \in Reqs : Good(req[s], Asked', DOMAIN users')
    BY StillGood, AskedGrows DEF IInv
  <1>4. \A s \in Reqs : Good(req'[s], Asked', DOMAIN users')
    BY <1>2, <1>3
  <1>5. req' \in [Reqs -> Request]
    BY <1>1 DEF Goto
  <1> QED
    BY <1>4, <1>5 DEF IInv, TypeOK, Stored

LEMMA InvStored ==
    ASSUME IInv
    PROVE  Stored
  BY DEF IInv, TypeOK, Stored

LEMMA AdvanceOnly ==
    ASSUME IInv, NEW r \in Reqs, NEW local, Goto(r, local),
           UNCHANGED <<users, groups, proc, granted, repaired>>,
           Good(local, Asked, DOMAIN users)
    PROVE  IInv'
  <1>1. Stored'
    BY InvStored DEF Stored, RolesOnlyGranted, Granted, Leaky
  <1>2. Good(local, Asked', DOMAIN users')
    BY AskedStays
  <1> QED
    BY <1>1, <1>2, Advance

LEMMA IdleGood ==
    ASSUME NEW given, NEW known
    PROVE  Good(Idle, given, known)
  <1>1. Idle \in Request
    BY NoJobs, GroupsAssumption DEF Idle, Request, NoGroup, Draft, Pcs
  <1>2. Within(Idle, given)
    BY NoJobs DEF Idle, Within
  <1> QED
    BY <1>1, <1>2 DEF Good, Placed, Creating, Idle, Thens, Working

LEMMA Types ==
    ASSUME IInv, NEW r \in Reqs
    PROVE  /\ req[r] \in Request
           /\ Good(req[r], Asked, DOMAIN users)
           /\ req[r].id \in GroupIds \cup {None}
           /\ req[r].group \in Draft
           /\ req[r].jobs \in Seq(Job)
           /\ req[r].copies \subseteq [id : UserIds, roles : SUBSET Roles]
           /\ req[r].who \in UserIds \cup {None}
           /\ req[r].check \subseteq Roles
           /\ req[r].drop \subseteq Roles
           /\ req[r].copy \subseteq Roles
           /\ req[r].owed \subseteq UserIds \X Roles
  BY DEF IInv, Good, Request

(* A handler goes on with the jobs it has left.                             *)
LEMMA ProceedGood ==
    ASSUME NEW local \in Request, local.then \in Thens,
           NEW jobs \in Seq(Job), NEW given, NEW known, JobsWithin(jobs, given),
           local.then = "create.save" =>
               /\ local.group.name # None
               /\ IF jobs = <<>> THEN local.group.members \subseteq known
                  ELSE jobs = Add(local.group.members, local.group.roles)
    PROVE  Good(Proceed(local, jobs), given, known)
  <1> DEFINE next == Proceed(local, jobs)
             pc == IF jobs = <<>> THEN local.then
                   ELSE IF Head(jobs).op = "add" THEN "add.list" ELSE "remove.count"
  <1>1. /\ next.pc = pc /\ next.jobs = jobs /\ next.then = local.then
        /\ next.group = local.group /\ next.copies = {} /\ next.who = None
        /\ next.check = {} /\ next.drop = {} /\ next.copy = {}
    BY DEF Proceed, Request
  <1>2. pc \in Pcs /\ next \in Request
    <2>1. pc \in Pcs
      BY DEF Pcs, Thens
    <2> HIDE DEF pc
    <2>2. next = [local EXCEPT !.jobs = jobs, !.pc = pc, !.copies = {}, !.who = None,
                               !.check = {}, !.drop = {}, !.copy = {}]
      BY DEF Proceed, pc
    <2> QED
      BY <2>1, <2>2 DEF Request
  <1>3. local.then = "create.save" /\ jobs # <<>> => Head(jobs).op = "add"
    BY DEF Add
  <1> HIDE DEF next
  <1>4. pc \in Thens \cup {"add.list", "remove.count"}
    OBVIOUS
  <1>5. Placed(next)
    BY <1>1, <1>4 DEF Placed, Thens, Working
  <1>6. Within(next, given)
    BY <1>1, <1>4 DEF Within, Thens
  <1>7. Creating(next, known)
    <2>1. CASE local.then # "create.save"
      BY <1>1, <2>1 DEF Creating
    <2>2. CASE local.then = "create.save"
      BY <1>1, <1>3, <2>2 DEF Creating
    <2> QED
      BY <2>1, <2>2
  <1>8. Good(next, given, known)
    BY <1>2, <1>5, <1>6, <1>7 DEF Good
  <1> QED
    BY <1>8 DEF next

(* Saves.                                                                   *)
LEMMA RolesSaved ==
    ASSUME IInv, NEW id \in UserIds, NEW roles \in SUBSET Roles,
           \A role \in roles : <<id, role>> \in Asked,
           SaveRoles(id, roles), UNCHANGED <<groups, proc, granted, repaired>>
    PROVE  Stored' /\ DOMAIN users \subseteq DOMAIN users'
  <1>1. DOMAIN users' = DOMAIN users \cup {id}
    BY DEF SaveRoles
  <1>2. \A u \in DOMAIN users \ {id} : users'[u] = users[u]
    BY DEF SaveRoles
  <1>3. users'[id] = roles \/ (id \in DOMAIN users /\ users'[id] = users[id])
    BY DEF SaveRoles, SetRoles
  <1>4. Stored
    BY InvStored
  <1>5. \A u \in DOMAIN users' : users'[u] \subseteq Roles
    BY <1>1, <1>2, <1>3, <1>4 DEF Stored
  <1>6. \A role \in roles : Granted(id, role)
    BY AskedPair
  <1>7. RolesOnlyGranted'
    BY <1>1, <1>2, <1>3, <1>4, <1>6 DEF Stored, RolesOnlyGranted, Granted, Leaky
  <1> QED
    BY <1>1, <1>4, <1>5, <1>7 DEF Stored

LEMMA GroupSaved ==
    ASSUME IInv, NEW id \in GroupIds, NEW g \in Group,
           SaveGroup(id, g), UNCHANGED <<users, proc, granted, repaired>>
    PROVE  Stored'
  <1>1. DOMAIN groups' = DOMAIN groups \cup {id}
    BY DEF SaveGroup
  <1>2. \A i \in DOMAIN groups \ {id} : groups'[i] = groups[i]
    BY DEF SaveGroup
  <1>3. Stored
    BY InvStored
  <1>4. groups'[id] \in Group
    <2>1. CASE id \notin DOMAIN groups
      BY <2>1 DEF SaveGroup
    <2>2. CASE id \in DOMAIN groups
      <3>1. groups[id] \in Group
        BY <1>3, <2>2 DEF Stored
      <3>2. groups'[id] = [g EXCEPT !.roles   = SetRoles(groups[id].roles, @),
                                    !.members = SetMembers(groups[id].members, @)]
        BY <2>2 DEF SaveGroup
      <3> QED
        BY <3>1, <3>2 DEF Group, Draft, SetRoles, SetMembers
    <2> QED
      BY <2>1, <2>2
  <1>5. \A i \in DOMAIN groups' : groups'[i] \in Group
    BY <1>1, <1>2, <1>3, <1>4 DEF Stored
  <1> QED
    BY <1>1, <1>3, <1>5 DEF Stored, RolesOnlyGranted, Granted, Leaky

-----------------------------------------------------------------------------
(* Requests begin and end.                                                  *)
LEMMA ReturnStep ==
    ASSUME IInv, NEW r \in Reqs, Return(r), Stored', repaired' = repaired,
           granted \subseteq granted', DOMAIN users \subseteq DOMAIN users'
    PROVE  IInv'
  BY Advance, IdleGood DEF Return

LEMMA BeginStep ==
    ASSUME IInv, NEW r \in Reqs,
           CreateGroup(r) \/ UpdateGroup(r) \/ DeleteGroup(r) \/ ProfileRead(r)
    PROVE  IInv'
  <1>1. /\ Idle.jobs = <<>> /\ Idle.copies = {} /\ Idle.copy = {} /\ Idle.then = "idle"
        /\ Idle \in Request /\ Idle.who = None
    BY IdleGood DEF Idle, Good
  <1>2. CASE CreateGroup(r)
    <2>1. PICK g \in NewGroups : Goto(r, [Idle EXCEPT !.pc = "create.check", !.group = g])
      BY <1>2 DEF CreateGroup
    <2> DEFINE local == [Idle EXCEPT !.pc = "create.check", !.group = g]
    <2>2. local \in Request
      BY <1>1, GroupsAssumption DEF Request, Pcs
    <2>3. /\ local.pc = "create.check" /\ local.jobs = <<>> /\ local.copies = {}
          /\ local.copy = {} /\ local.then = "idle"
      BY <1>1 DEF Request
    <2> HIDE DEF local
    <2>4. Good(local, Asked, DOMAIN users)
      BY <2>2, <2>3, NoJobs DEF Good, Placed, Within, Creating, Thens, Working
    <2> QED
      BY <1>2, <2>1, <2>4, AdvanceOnly DEF CreateGroup, local
  <1>3. CASE UpdateGroup(r)
    <2>1. PICK id \in GroupIds, edit \in GroupEdits :
             Goto(r, [Idle EXCEPT !.pc = "update.read", !.id = id, !.edit = edit])
      BY <1>3 DEF UpdateGroup
    <2> DEFINE local == [Idle EXCEPT !.pc = "update.read", !.id = id, !.edit = edit]
    <2>2. local \in Request
      BY <1>1, GroupsAssumption DEF Request, Pcs
    <2>3. /\ local.pc = "update.read" /\ local.jobs = <<>> /\ local.copies = {}
          /\ local.copy = {} /\ local.then = "idle" /\ local.edit \in GroupEdits
      BY <1>1 DEF Request
    <2> HIDE DEF local
    <2>4. Good(local, Asked, DOMAIN users)
      BY <2>2, <2>3, NoJobs DEF Good, Placed, Within, Creating, Thens, Working
    <2> QED
      BY <1>3, <2>1, <2>4, AdvanceOnly DEF UpdateGroup, local
  <1>4. CASE DeleteGroup(r)
    <2>1. PICK id \in GroupIds : Goto(r, [Idle EXCEPT !.pc = "delete.read", !.id = id])
      BY <1>4 DEF DeleteGroup
    <2> DEFINE local == [Idle EXCEPT !.pc = "delete.read", !.id = id]
    <2>2. local \in Request
      BY <1>1, GroupsAssumption DEF Request, Pcs
    <2>3. /\ local.pc = "delete.read" /\ local.jobs = <<>> /\ local.copies = {}
          /\ local.copy = {} /\ local.then = "idle"
      BY <1>1 DEF Request
    <2> HIDE DEF local
    <2>4. Good(local, Asked, DOMAIN users)
      BY <2>2, <2>3, NoJobs DEF Good, Placed, Within, Creating, Thens, Working
    <2> QED
      BY <1>4, <2>1, <2>4, AdvanceOnly DEF DeleteGroup, local
  <1>5. CASE ProfileRead(r)
    <2>1. PICK u \in DOMAIN users : \E who \in {u, None} :
             Goto(r, [Idle EXCEPT !.pc = "profile.save", !.who = who, !.copy = users[u]])
      BY <1>5 DEF ProfileRead
    <2>2. PICK who \in {u, None} :
             Goto(r, [Idle EXCEPT !.pc = "profile.save", !.who = who, !.copy = users[u]])
      BY <2>1
    <2> DEFINE local == [Idle EXCEPT !.pc = "profile.save", !.who = who, !.copy = users[u]]
    <2>3. u \in UserIds /\ users[u] \subseteq Roles /\ u # None
      BY GroupsAssumption DEF IInv, TypeOK
    <2>4. who \in UserIds \cup {None}
      BY <2>3
    <2>5. local \in Request
      BY <1>1, <2>3, <2>4 DEF Request, Pcs
    <2>6. /\ local.pc = "profile.save" /\ local.jobs = <<>> /\ local.copies = {}
          /\ local.copy = users[u] /\ local.who = who /\ local.then = "idle"
      BY <1>1 DEF Request
    <2>7. \A role \in users[u] : <<u, role>> \in Asked
      BY InvStored, HasAsked
    <2> HIDE DEF local
    <2>8. Good(local, Asked, DOMAIN users)
      BY <2>3, <2>5, <2>6, <2>7, NoJobs DEF Good, Placed, Within, Creating, Thens, Working
    <2> QED
      BY <1>5, <2>2, <2>8, AdvanceOnly DEF ProfileRead, local
  <1> QED
    BY <1>2, <1>3, <1>4, <1>5

LEMMA FailStep ==
    ASSUME IInv, NEW r \in Reqs, Fail(r)
    PROVE  IInv'
  <1>1. UNCHANGED <<users, groups, proc, granted, repaired>>
    BY DEF Fail
  <1>2. CASE Return(r)
    BY <1>1, <1>2, AdvanceOnly, IdleGood DEF Return
  <1>3. CASE req[r].then = "delete.delete" /\ Goto(r, Proceed(req[r], <<>>))
    <2>1. Good(Proceed(req[r], <<>>), Asked, DOMAIN users)
      BY <1>3, Types, NoJobs, ProceedGood DEF Thens
    <2> QED
      BY <1>1, <1>3, <2>1, AdvanceOnly
  <1> QED
    BY <1>2, <1>3 DEF Fail

LEMMA ExitStep ==
    ASSUME IInv, Exit
    PROVE  IInv'
  <1>1. Stored'
    BY InvStored DEF Exit, Stored, RolesOnlyGranted, Granted, Leaky
  <1>2. \A r \in Reqs : req'[r] = Idle
    BY DEF Exit
  <1>3. \A r \in Reqs : Good(req'[r], Asked', DOMAIN users')
    BY <1>2, IdleGood
  <1>4. req' \in [Reqs -> Request]
    BY IdleGood DEF Exit, Good
  <1> QED
    BY <1>1, <1>3, <1>4 DEF IInv, TypeOK, Stored

-----------------------------------------------------------------------------
(* CreateGroup.                                                             *)
LEMMA CreateCheckedStep ==
    ASSUME IInv, NEW r \in Reqs, CreateChecked(r)
    PROVE  IInv'
  <1> DEFINE g     == req[r].group
             local == [req[r] EXCEPT !.then = "create.save", !.owed = Entitled(g)]
             jobs  == Add(g.members, g.roles)
  <1>1. g \in Draft /\ g.name # None
    BY Types DEF CreateChecked, Valid
  <1>2. g.members \in SUBSET UserIds /\ g.roles \in SUBSET Roles
    BY <1>1 DEF Draft
  <1>3. Entitled(g) \subseteq UserIds \X Roles
    BY <1>2 DEF Entitled
  <1>4. /\ granted' = granted \cup Entitled(g)
        /\ Goto(r, Proceed(local, jobs))
        /\ UNCHANGED <<users, groups, proc, repaired>>
    BY DEF CreateChecked
  <1>5. Stored'
    BY <1>3, <1>4, InvStored DEF Stored, RolesOnlyGranted, Granted, Leaky
  <1>6. /\ local \in Request /\ local.then = "create.save" /\ local.group = g
    <2> DEFINE owed == Entitled(g)
    <2>1. req[r] \in Request /\ owed \in SUBSET (UserIds \X Roles)
      BY <1>3, Types
    <2> HIDE DEF owed
    <2>2. local = [req[r] EXCEPT !.then = "create.save", !.owed = owed]
      BY DEF owed
    <2>3. local \in Request
      BY <2>1, <2>2 DEF Request, Pcs
    <2> QED
      BY <2>1, <2>2, <2>3 DEF Request
  <1>7. jobs \in Seq(Job) /\ JobsWithin(jobs, Asked')
    <2>1. g.members \X g.roles \subseteq Asked'
      BY <1>4, <1>5, GrantedIsAsked DEF Entitled, Stored
    <2> HIDE DEF g
    <2> QED
      BY <1>2, <2>1, AddJobs
  <1>8. jobs = <<>> => g.members = {}
    BY DEF Add
  <1> HIDE DEF local, jobs
  <1>9. Good(Proceed(local, jobs), Asked', DOMAIN users')
    BY <1>1, <1>6, <1>7, <1>8, ProceedGood DEF Thens, jobs
  <1> QED
    BY <1>4, <1>9, <1>5, Advance

LEMMA CreateSavedStep ==
    ASSUME IInv, NEW r \in Reqs, CreateSaved(r)
    PROVE  IInv'
  <1>1. req[r].group \in Group
    BY Types DEF CreateSaved, Good, Creating, Group
  <1>2. Stored'
    BY <1>1, GroupSaved DEF CreateSaved
  <1> QED
    BY <1>2, ReturnStep DEF CreateSaved

-----------------------------------------------------------------------------
(* UpdateGroup.                                                             *)
LEMMA UpdateReadStep ==
    ASSUME IInv, NEW r \in Reqs, UpdateRead(r)
    PROVE  IInv'
  <1> DEFINE old   == groups[req[r].id]
             new   == Merge(old, req[r].edit)
             jobs  == UpdateJobs(req[r].edit.mask, old, new)
             owed  == Entitled(new) \ Entitled(old)
             local == [req[r] EXCEPT !.pc = "update.check", !.edit = None, !.group = new,
                                     !.owed = owed, !.jobs = jobs]
  <1>1. req[r].id \in DOMAIN groups /\ req[r].pc = "update.read" /\ Goto(r, local)
    BY DEF UpdateRead
  <1>2. old \in Draft /\ req[r].edit \in GroupEdit /\ req[r].id # None
    BY <1>1, Types, GroupsAssumption DEF IInv, TypeOK, Group, Good, Placed
  <1>3. new \in Draft
    BY <1>2 DEF Merge, Draft, GroupEdit
  <1>4. owed \subseteq UserIds \X Roles
    BY <1>3 DEF Entitled, Draft
  <1> HIDE DEF old, new
  <1>5. jobs \in Seq(Job) /\ JobsWithin(jobs, Entitled(new))
    BY <1>2, <1>3, UpdateJobsWithin
  <1> HIDE DEF jobs, owed
  <1>6. local \in Request
    <2>1. req[r] \in Request /\ owed \in SUBSET (UserIds \X Roles)
      BY <1>4, Types
    <2> QED
      BY <1>3, <1>5, <2>1 DEF Request, Pcs
  <1>7. /\ local.pc = "update.check" /\ local.group = new /\ local.jobs = jobs
        /\ local.id = req[r].id /\ local.then = req[r].then /\ local.copies = req[r].copies
        /\ local.copy = req[r].copy /\ local.who = req[r].who
    BY Types DEF Request
  <1> HIDE DEF local
  <1>8. Placed(local)
    BY <1>1, <1>2, <1>7, Types DEF Good, Placed, Working
  <1>9. Within(local, Asked)
    BY <1>5, <1>7, Types DEF Good, Within
  <1>10. Creating(local, DOMAIN users)
    BY <1>1, <1>7, Types DEF Good, Creating
  <1> QED
    BY <1>1, <1>6, <1>8, <1>9, <1>10, AdvanceOnly DEF UpdateRead, Good

LEMMA UpdateCheckedStep ==
    ASSUME IInv, NEW r \in Reqs, UpdateChecked(r)
    PROVE  IInv'
  <1> DEFINE g     == req[r].group
             local == [req[r] EXCEPT !.pc = "update.save", !.then = "update.done"]
  <1>1. req[r].pc = "update.check" /\ g.name # None /\ g \in Draft
    BY Types DEF UpdateChecked, Valid
  <1>2. /\ granted' = granted \cup Entitled(g)
        /\ Goto(r, local)
        /\ UNCHANGED <<users, groups, proc, repaired>>
    BY DEF UpdateChecked
  <1>3. Entitled(g) \subseteq UserIds \X Roles
    BY <1>1 DEF Entitled, Draft
  <1>4. Stored'
    BY <1>2, <1>3, InvStored DEF Stored, RolesOnlyGranted, Granted, Leaky
  <1>5. Asked \subseteq Asked' /\ Entitled(g) \subseteq Asked'
    BY <1>2, <1>4, AskedGrows, GrantedIsAsked DEF Stored
  <1>6. local \in Request
    <2>1. req[r] \in Request
      BY Types
    <2> QED
      BY <2>1 DEF Request, Pcs
  <1>7. /\ local.pc = "update.save" /\ local.then = "update.done" /\ local.group = g
        /\ local.id = req[r].id /\ local.jobs = req[r].jobs /\ local.copies = req[r].copies
        /\ local.copy = req[r].copy /\ local.who = req[r].who
    BY Types DEF Request
  <1> HIDE DEF local, g
  <1>8. Placed(local)
    BY <1>1, <1>7, Types DEF Good, Placed, Working, Thens
  <1>9. JobsWithin(local.jobs, Asked')
    <2>1. JobsWithin(req[r].jobs, Entitled(g))
      BY <1>1, Types DEF Good, Within, g
    <2> QED
      BY <1>7, <1>5, <2>1, MoreWithin
  <1>10. Within(local, Asked')
    BY <1>7, <1>9, <1>5, Types DEF Good, Within
  <1>11. Creating(local, DOMAIN users')
    BY <1>7 DEF Creating
  <1> QED
    BY <1>2, <1>6, <1>8, <1>10, <1>11, <1>4, Advance DEF Good

LEMMA UpdateSavedStep ==
    ASSUME IInv, NEW r \in Reqs, UpdateSaved(r)
    PROVE  IInv'
  <1>1. /\ req[r].pc = "update.save" /\ req[r].id \in GroupIds /\ req[r].group \in Group
        /\ req[r].then # "create.save" /\ req[r].then \in Thens
        /\ JobsWithin(req[r].jobs, Asked)
    BY Types DEF UpdateSaved, Good, Placed, Creating, Within, Group
  <1>2. UNCHANGED <<users, proc, granted, repaired>>
    BY DEF UpdateSaved
  <1>3. ASSUME NEW local \in Request, local.then = req[r].then
        PROVE  Good(Proceed(local, req[r].jobs), Asked, DOMAIN users)
    BY <1>1, <1>3, Types, ProceedGood
  <1>4. CASE SaveGroup(req[r].id, req[r].group)
             /\ Goto(r, Proceed([req[r] EXCEPT !.saved = TRUE], req[r].jobs))
    <2>1. /\ [req[r] EXCEPT !.saved = TRUE] \in Request
          /\ [req[r] EXCEPT !.saved = TRUE].then = req[r].then
      BY Types DEF Request
    <2>2. Good(Proceed([req[r] EXCEPT !.saved = TRUE], req[r].jobs), Asked, DOMAIN users)
      BY <1>3, <2>1
    <2>3. Stored'
      BY <1>1, <1>2, <1>4, GroupSaved
    <2> QED
      BY <1>2, <1>4, <2>2, <2>3, AskedStays, Advance
  <1>5. CASE Goto(r, Proceed(req[r], req[r].jobs)) /\ UNCHANGED groups
    <2>1. Good(Proceed(req[r], req[r].jobs), Asked, DOMAIN users)
      BY <1>3, Types
    <2> QED
      BY <1>2, <1>5, <2>1, AdvanceOnly
  <1> QED
    BY <1>4, <1>5 DEF UpdateSaved

LEMMA UpdateReturnedStep ==
    ASSUME IInv, NEW r \in Reqs, UpdateReturned(r)
    PROVE  IInv'
  BY AdvanceOnly, IdleGood DEF UpdateReturned, Return

-----------------------------------------------------------------------------
(* DeleteGroup. The user it deletes has the id of a group: there is none.   *)
LEMMA DeleteReadStep ==
    ASSUME IInv, NEW r \in Reqs, DeleteRead(r)
    PROVE  IInv'
  <1> DEFINE g     == groups[req[r].id]
             local == [req[r] EXCEPT !.then = "delete.delete"]
             jobs  == Remove(g.members, g.roles)
  <1>1. g \in Draft
    BY DEF DeleteRead, IInv, TypeOK, Group
  <1>2. g.members \in SUBSET UserIds /\ g.roles \in SUBSET Roles
    BY <1>1 DEF Draft
  <1> HIDE DEF g
  <1>3. jobs \in Seq(Job) /\ JobsWithin(jobs, Asked)
    BY <1>2, RemoveJobs
  <1>4. local \in Request /\ local.then = "delete.delete"
    <2>1. req[r] \in Request
      BY Types
    <2> QED
      BY <2>1 DEF Request, Pcs
  <1> HIDE DEF local, jobs
  <1>5. Good(Proceed(local, jobs), Asked, DOMAIN users)
    BY <1>3, <1>4, ProceedGood DEF Thens
  <1>6. Goto(r, Proceed(local, jobs)) /\ UNCHANGED <<users, groups, proc, granted, repaired>>
    BY DEF DeleteRead, local, jobs, g
  <1> QED
    BY <1>5, <1>6, AdvanceOnly

LEMMA DeleteDeletedStep ==
    ASSUME IInv, NEW r \in Reqs, DeleteDeleted(r)
    PROVE  IInv'
  <1>1. req[r].id \notin UserIds
    BY Types, GroupsAssumption
  <1>2. DOMAIN users \subseteq UserIds
    BY DEF IInv, TypeOK
  <1>3. users' = [u \in DOMAIN users \ {req[r].id} |-> users[u]]
    BY DEF DeleteDeleted
  <1>4. DOMAIN users' = DOMAIN users /\ \A u \in DOMAIN users : users'[u] = users[u]
    BY <1>1, <1>2, <1>3
  <1>5. Stored'
    BY <1>4, InvStored DEF DeleteDeleted, Stored, RolesOnlyGranted, Granted, Leaky
  <1> QED
    BY <1>4, <1>5, ReturnStep DEF DeleteDeleted

-----------------------------------------------------------------------------
(* AddRolesToMembers.                                                       *)
(* A user is listed with roles that it may have.                            *)
LEMMA ListedAsked ==
    ASSUME IInv, "list" \in repaired, NEW found \in SUBSET DOMAIN users, NEW u \in found,
           NEW roles \in Decoded(u, found)
    PROVE  \A role \in roles : <<u, role>> \in Asked
  <1>1. \A m \in found : \A role \in users[m] :
            m \in UserIds /\ role \in Roles /\ <<m, role>> \in Asked
    BY InvStored, HasAsked
  <1>2. CASE roles = users[u]
    BY <1>1, <1>2
  <1>3. CASE "decode" \notin repaired /\ \E m \in found : roles = users[m]
    <2> SUFFICES ASSUME NEW role \in roles
                 PROVE  <<u, role>> \in Asked
      OBVIOUS
    <2>1. PICK m \in found : role \in users[m]
      BY <1>3
    <2>2. Granted(m, role) /\ role \in Roles /\ u \in UserIds
      BY <1>1, <2>1, AskedPair DEF IInv, TypeOK
    <2>3. Granted(u, role)
      BY <1>3, <2>2 DEF Granted, Leaky
    <2> QED
      BY <2>2, <2>3, AskedPair
  <1> QED
    BY <1>2, <1>3 DEF Decoded

LEMMA AddListedStep ==
    ASSUME IInv, NEW r \in Reqs, AddListed(r)
    PROVE  IInv'
  <1> DEFINE job   == Head(req[r].jobs)
             found == job.members \cap DOMAIN users
  <1>1. PICK listed \in [found -> SUBSET Roles] :
          /\ \A u \in found : listed[u] \in Decoded(u, found)
          /\ LET copies == {[id |-> u, roles |-> listed[u] \cup job.roles] :
                              u \in {m \in found : ~(job.roles \subseteq listed[m])}}
             IN Goto(r, IF copies = {} THEN Proceed(req[r], Tail(req[r].jobs))
                        ELSE [req[r] EXCEPT !.pc = "add.save", !.copies = copies])
    BY DEF AddListed
  <1> DEFINE copies == {[id |-> u, roles |-> listed[u] \cup job.roles] :
                           u \in {m \in found : ~(job.roles \subseteq listed[m])}}
             local  == [req[r] EXCEPT !.pc = "add.save", !.copies = copies]
  <1>2. /\ req[r].pc = "add.list" /\ req[r].jobs # <<>>
        /\ req[r] \in Request /\ req[r].jobs \in Seq(Job)
        /\ req[r].then \in Thens /\ JobsWithin(req[r].jobs, Asked)
        /\ Within(req[r], Asked) /\ Placed(req[r]) /\ Creating(req[r], DOMAIN users)
    BY Types DEF AddListed, Good, Placed, Within, Working
  <1>3. /\ job \in Job /\ Tail(req[r].jobs) \in Seq(Job)
        /\ JobsWithin(Tail(req[r].jobs), Asked)
        /\ job.op = "add" => Entitled(job) \subseteq Asked
    BY <1>2, LaterJobs
  <1>4. UNCHANGED <<users, groups, proc, granted, repaired>> /\ job.members \subseteq DOMAIN users
    BY DEF AddListed, AllFound
  <1>5. req[r].then = "create.save" =>
            /\ req[r].group.name # None
            /\ Tail(req[r].jobs) = <<>>
            /\ req[r].group.members \subseteq DOMAIN users
    <2> SUFFICES ASSUME req[r].then = "create.save"
                 PROVE  /\ req[r].group.name # None
                        /\ Tail(req[r].jobs) = <<>>
                        /\ req[r].group.members \subseteq DOMAIN users
      OBVIOUS
    <2>1. /\ req[r].group.name # None
          /\ req[r].jobs = Add(req[r].group.members, req[r].group.roles)
      BY <1>2 DEF Creating
    <2>2. /\ job.members = req[r].group.members
          /\ Tail(req[r].jobs) = <<>>
      BY <1>2, <2>1 DEF Add
    <2> QED
      BY <1>4, <2>1, <2>2
  <1>6. CASE Goto(r, Proceed(req[r], Tail(req[r].jobs)))
    <2>1. Good(Proceed(req[r], Tail(req[r].jobs)), Asked, DOMAIN users)
      BY <1>2, <1>3, <1>5, ProceedGood
    <2> QED
      BY <1>4, <1>6, <2>1, AdvanceOnly
  <1>7. CASE Goto(r, local)
    <2>1. job.op = "add"
      BY <1>2 DEF Placed
    <2>2. \A u \in found : /\ u \in UserIds
                           /\ listed[u] \cup job.roles \in SUBSET Roles
                           /\ \A role \in job.roles : <<u, role>> \in Asked
      BY <1>3, <2>1 DEF IInv, TypeOK, Job, Entitled
    <2>3. \A u \in found : \A role \in listed[u] : <<u, role>> \in Asked
      BY <1>1, ListedAsked DEF AddListed
    <2>4. /\ copies \in SUBSET [id : UserIds, roles : SUBSET Roles]
          /\ \A c \in copies : \A role \in c.roles : <<c.id, role>> \in Asked
      BY <2>2, <2>3
    <2> HIDE DEF copies, found
    <2>5. local \in Request
      BY <1>2, <2>4 DEF Request, Pcs
    <2>6. /\ local.pc = "add.save" /\ local.jobs = req[r].jobs /\ local.copies = copies
          /\ local.then = req[r].then /\ local.group = req[r].group
          /\ local.copy = req[r].copy /\ local.who = req[r].who
      BY <1>2 DEF Request
    <2> HIDE DEF local
    <2>7. Placed(local)
      BY <1>2, <2>6 DEF Placed, Working
    <2>8. Within(local, Asked)
      BY <1>2, <2>4, <2>6 DEF Within
    <2>9. Creating(local, DOMAIN users)
      BY <1>5, <2>6 DEF Creating
    <2> QED
      BY <1>4, <1>7, <2>5, <2>7, <2>8, <2>9, AdvanceOnly DEF Good
  <1> QED
    BY <1>1, <1>6, <1>7

LEMMA AddSavedStep ==
    ASSUME IInv, NEW r \in Reqs, AddSaved(r)
    PROVE  IInv'
  <1>1. /\ req[r].pc = "add.save" /\ req[r].jobs # <<>>
        /\ req[r] \in Request /\ req[r].jobs \in Seq(Job)
        /\ req[r].then \in Thens /\ JobsWithin(req[r].jobs, Asked)
        /\ Within(req[r], Asked) /\ Placed(req[r]) /\ Creating(req[r], DOMAIN users)
    BY Types DEF AddSaved, Good, Placed, Within, Working
  <1>2. /\ Tail(req[r].jobs) \in Seq(Job)
        /\ JobsWithin(Tail(req[r].jobs), Asked)
    BY <1>1, LaterJobs
  <1>3. PICK c \in req[r].copies :
          /\ SaveRoles(c.id, c.roles)
          /\ Goto(r, IF req[r].copies = {c} THEN Proceed(req[r], Tail(req[r].jobs))
                     ELSE [req[r] EXCEPT !.copies = @ \ {c}])
    BY DEF AddSaved
  <1>4. UNCHANGED <<groups, proc, granted, repaired>>
    BY DEF AddSaved
  <1>5. /\ c.id \in UserIds /\ c.roles \in SUBSET Roles
        /\ \A role \in c.roles : <<c.id, role>> \in Asked
    BY <1>1, Types DEF Within
  <1>6. Stored' /\ DOMAIN users \subseteq DOMAIN users'
    BY <1>3, <1>4, <1>5, RolesSaved
  <1>7. req[r].then = "create.save" =>
            /\ req[r].group.name # None
            /\ Tail(req[r].jobs) = <<>>
            /\ req[r].group.members \subseteq DOMAIN users'
    BY <1>1, <1>6 DEF Creating
  <1>8. CASE Goto(r, Proceed(req[r], Tail(req[r].jobs)))
    <2>1. Good(Proceed(req[r], Tail(req[r].jobs)), Asked, DOMAIN users')
      BY <1>1, <1>2, <1>7, ProceedGood
    <2> QED
      BY <1>4, <1>6, <1>8, <2>1, AskedStays, Advance
  <1>9. CASE Goto(r, [req[r] EXCEPT !.copies = @ \ {c}])
    <2> DEFINE local == [req[r] EXCEPT !.copies = @ \ {c}]
    <2>1. local \in Request
      BY <1>1 DEF Request
    <2>2. /\ local.pc = "add.save" /\ local.jobs = req[r].jobs
          /\ local.copies = req[r].copies \ {c}
          /\ local.then = req[r].then /\ local.group = req[r].group
          /\ local.copy = req[r].copy /\ local.who = req[r].who
      BY <1>1 DEF Request
    <2> HIDE DEF local
    <2>3. Placed(local)
      BY <1>1, <2>2 DEF Placed, Working
    <2>4. Within(local, Asked)
      BY <1>1, <2>2 DEF Within
    <2>5. Creating(local, DOMAIN users')
      BY <1>7, <2>2 DEF Creating
    <2> QED
      BY <1>4, <1>6, <1>9, <2>1, <2>3, <2>4, <2>5, AskedStays, Advance DEF Good, local
  <1> QED
    BY <1>3, <1>8, <1>9

-----------------------------------------------------------------------------
(* RemoveRolesFromMembers.                                                  *)
LEMMA NextMemberGood ==
    ASSUME NEW local \in Request, NEW user, NEW given, NEW known,
           local.then \in Thens \ {"create.save"}, local.jobs # <<>>,
           JobsWithin(local.jobs, given)
    PROVE  Good(NextMember(local, user), given, known)
  <1> DEFINE job  == Head(local.jobs)
             jobs == Remove(job.members \ {user}, job.roles) \o Tail(local.jobs)
  <1>1. /\ job \in Job /\ Tail(local.jobs) \in Seq(Job)
        /\ JobsWithin(Tail(local.jobs), given)
    <2>1. local.jobs \in Seq(Job)
      BY DEF Request
    <2> QED
      BY <2>1, LaterJobs
  <1>2. job.members \ {user} \in SUBSET UserIds /\ job.roles \in SUBSET Roles
    BY <1>1 DEF Job
  <1> HIDE DEF job
  <1>3. jobs \in Seq(Job) /\ JobsWithin(jobs, given)
    BY <1>1, <1>2, RemoveJobs, BothJobs
  <1>4. NextMember(local, user) = Proceed(local, jobs)
    BY DEF NextMember, job
  <1> HIDE DEF jobs
  <1> QED
    BY <1>3, <1>4, ProceedGood

(* What is known at each step on a member.                                  *)
LEMMA RemoveFacts ==
    ASSUME IInv, NEW r \in Reqs, req[r].pc \in {"remove.count", "remove.read", "remove.save"}
    PROVE  /\ req[r].jobs # <<>>
           /\ req[r].then \in Thens \ {"create.save"}
           /\ Head(req[r].jobs) \in Job
           /\ JobsWithin(req[r].jobs, Asked)
           /\ Within(req[r], Asked)
           /\ Placed(req[r])
  <1>1. /\ req[r].jobs # <<>> /\ req[r].then \in Thens \ {"create.save"}
        /\ JobsWithin(req[r].jobs, Asked) /\ Within(req[r], Asked) /\ Placed(req[r])
    BY Types DEF Good, Placed, Within, Creating, Working
  <1>2. req[r].jobs \in Seq(Job)
    BY Types
  <1> QED
    BY <1>1, <1>2, LaterJobs

(* A step that stays with the member it is at.                              *)
LEMMA SameMemberGood ==
    ASSUME IInv, NEW r \in Reqs, req[r].pc \in {"remove.count", "remove.read", "remove.save"},
           NEW local \in Request,
           local.pc \in {"remove.count", "remove.read", "remove.save"},
           local.jobs = req[r].jobs, local.then = req[r].then, local.copies = req[r].copies,
           local.who # None,
           \A role \in local.copy : <<local.who, role>> \in Asked
    PROVE  Good(local, Asked, DOMAIN users)
  <1>1. Placed(local)
    BY RemoveFacts DEF Placed, Working, Thens
  <1>2. Within(local, Asked)
    BY RemoveFacts DEF Within
  <1>3. Creating(local, DOMAIN users)
    BY RemoveFacts DEF Creating
  <1> QED
    BY <1>1, <1>2, <1>3 DEF Good

LEMMA RemoveCountedStep ==
    ASSUME IInv, NEW r \in Reqs, RemoveCounted(r)
    PROVE  IInv'
  <1>1. req[r].pc = "remove.count" /\ req[r] \in Request
        /\ UNCHANGED <<users, groups, proc, granted, repaired>>
    BY Types DEF RemoveCounted
  <1>2. Head(req[r].jobs).members \subseteq UserIds /\ Head(req[r].jobs).roles \subseteq Roles
    BY <1>1, RemoveFacts DEF Job
  <1> DEFINE job     == Head(req[r].jobs)
             members == IF req[r].who = None THEN job.members ELSE {req[r].who}
             roles   == IF req[r].who = None THEN job.roles ELSE req[r].check
  <1>3. PICK user \in members, role \in roles :
          LET left == roles \ {role}
              kept == ProvidedByOther(req[r].id, user, role)
              drop == IF kept THEN req[r].drop ELSE req[r].drop \cup {role}
              here == [req[r] EXCEPT !.who = user, !.check = left, !.drop = drop]
          IN  Goto(r, IF ~kept /\ req[r].drop = {} THEN [here EXCEPT !.pc = "remove.read"]
                      ELSE IF left # {} THEN here
                      ELSE IF drop # {} THEN [here EXCEPT !.pc = "remove.save"]
                      ELSE NextMember(req[r], user))
    BY DEF RemoveCounted
  <1>4. /\ user \in UserIds /\ user # None /\ role \in Roles /\ roles \subseteq Roles
        /\ req[r].who # None => user = req[r].who
    BY <1>2, Types, GroupsAssumption
  <1>5. \A held \in req[r].copy : <<user, held>> \in Asked
    BY <1>1, <1>4, RemoveFacts DEF Placed, Within
  <1> DEFINE left == roles \ {role}
             kept == ProvidedByOther(req[r].id, user, role)
             drop == IF kept THEN req[r].drop ELSE req[r].drop \cup {role}
             At(pc) == [req[r] EXCEPT !.pc = pc, !.who = user, !.check = left, !.drop = drop]
  <1>6. left \subseteq Roles /\ drop \subseteq Roles
    BY <1>4, Types
  <1>7. \/ \E pc \in {"remove.count", "remove.read", "remove.save"} : Goto(r, At(pc))
        \/ Goto(r, NextMember(req[r], user))
    <2> HIDE DEF left, drop, kept
    <2>1. \/ Goto(r, [[req[r] EXCEPT !.who = user, !.check = left, !.drop = drop]
                           EXCEPT !.pc = "remove.read"])
          \/ Goto(r, [req[r] EXCEPT !.who = user, !.check = left, !.drop = drop])
          \/ Goto(r, [[req[r] EXCEPT !.who = user, !.check = left, !.drop = drop]
                           EXCEPT !.pc = "remove.save"])
          \/ Goto(r, NextMember(req[r], user))
      BY <1>3 DEF left, drop, kept
    <2>2. /\ [[req[r] EXCEPT !.who = user, !.check = left, !.drop = drop]
                  EXCEPT !.pc = "remove.read"] = At("remove.read")
          /\ [req[r] EXCEPT !.who = user, !.check = left, !.drop = drop] = At("remove.count")
          /\ [[req[r] EXCEPT !.who = user, !.check = left, !.drop = drop]
                  EXCEPT !.pc = "remove.save"] = At("remove.save")
      BY <1>1 DEF Request
    <2> HIDE DEF At
    <2> QED
      BY <2>1, <2>2
  <1>8. ASSUME NEW pc \in {"remove.count", "remove.read", "remove.save"}, Goto(r, At(pc))
        PROVE  IInv'
    <2> HIDE DEF left, drop, kept
    <2>1. At(pc) \in Request
      BY <1>1, <1>4, <1>6 DEF Request, Pcs
    <2>2. /\ At(pc).pc = pc /\ At(pc).jobs = req[r].jobs /\ At(pc).then = req[r].then
          /\ At(pc).copies = req[r].copies /\ At(pc).who = user /\ At(pc).copy = req[r].copy
      BY <1>1 DEF Request
    <2> HIDE DEF At
    <2>3. Good(At(pc), Asked, DOMAIN users)
      BY <1>1, <1>4, <1>5, <2>1, <2>2, SameMemberGood
    <2> QED
      BY <1>1, <1>8, <2>3, AdvanceOnly
  <1>9. CASE Goto(r, NextMember(req[r], user))
    <2>1. Good(NextMember(req[r], user), Asked, DOMAIN users)
      BY <1>1, RemoveFacts, NextMemberGood
    <2> QED
      BY <1>1, <1>9, <2>1, AdvanceOnly
  <1> QED
    BY <1>7, <1>8, <1>9

LEMMA RemoveReadStep ==
    ASSUME IInv, NEW r \in Reqs, RemoveRead(r)
    PROVE  IInv'
  <1> DEFINE pc    == IF req[r].check = {} THEN "remove.save" ELSE "remove.count"
             copy  == users[req[r].who]
             local == [req[r] EXCEPT !.pc = pc, !.copy = copy]
  <1>1. /\ req[r].pc = "remove.read" /\ req[r] \in Request /\ req[r].who \in DOMAIN users
        /\ Goto(r, local) /\ UNCHANGED <<users, groups, proc, granted, repaired>>
    BY Types DEF RemoveRead
  <1>2. /\ copy \subseteq Roles /\ pc \in {"remove.count", "remove.save"}
        /\ \A role \in copy : <<req[r].who, role>> \in Asked
    BY <1>1, InvStored, HasAsked DEF IInv, TypeOK
  <1> HIDE DEF pc, copy
  <1>3. local \in Request
    BY <1>1, <1>2 DEF Request, Pcs
  <1>4. /\ local.pc = pc /\ local.jobs = req[r].jobs /\ local.then = req[r].then
        /\ local.copies = req[r].copies /\ local.who = req[r].who /\ local.copy = copy
    BY <1>1 DEF Request
  <1>5. req[r].who # None
    BY <1>1, RemoveFacts DEF Placed
  <1> HIDE DEF local
  <1>6. Good(local, Asked, DOMAIN users)
    BY <1>1, <1>2, <1>3, <1>4, <1>5, SameMemberGood
  <1> QED
    BY <1>1, <1>6, AdvanceOnly

LEMMA RemoveSavedStep ==
    ASSUME IInv, NEW r \in Reqs, RemoveSaved(r)
    PROVE  IInv'
  <1>1. /\ req[r].pc = "remove.save" /\ req[r] \in Request
        /\ SaveRoles(req[r].who, req[r].copy \ req[r].drop)
        /\ Goto(r, NextMember(req[r], req[r].who))
        /\ UNCHANGED <<groups, proc, granted, repaired>>
    BY Types DEF RemoveSaved
  <1>2. /\ req[r].who \in UserIds /\ req[r].copy \ req[r].drop \in SUBSET Roles
        /\ \A role \in req[r].copy : <<req[r].who, role>> \in Asked
    BY <1>1, Types, RemoveFacts DEF Placed, Within
  <1>3. Stored' /\ DOMAIN users \subseteq DOMAIN users'
    BY <1>1, <1>2, RolesSaved
  <1>4. Good(NextMember(req[r], req[r].who), Asked', DOMAIN users')
    BY <1>1, RemoveFacts, NextMemberGood, AskedStays
  <1> QED
    BY <1>1, <1>3, <1>4, Advance

-----------------------------------------------------------------------------
(* The handlers of users.go.                                                *)
LEMMA RegisterStep ==
    ASSUME IInv, Register
    PROVE  IInv'
  <1>1. PICK u \in UserIds \ DOMAIN users : SaveRoles(u, {})
    BY DEF Register
  <1>2. Stored' /\ DOMAIN users \subseteq DOMAIN users'
    BY <1>1, RolesSaved DEF Register
  <1>3. req' = req /\ granted' = granted /\ repaired' = repaired
    BY DEF Register
  <1>4. \A r \in Reqs : Good(req'[r], Asked', DOMAIN users')
    BY <1>2, <1>3, AskedStays, StillGood DEF IInv
  <1> QED
    BY <1>2, <1>3, <1>4 DEF IInv, TypeOK, Stored

(* A save over the document read, or of a new user with what was read.      *)
LEMMA ProfileSavedStep ==
    ASSUME IInv, NEW r \in Reqs, ProfileSaved(r)
    PROVE  IInv'
  <1>1. /\ req[r].pc = "profile.save" /\ req[r].copy \in SUBSET Roles
        /\ req[r].who \in UserIds \cup {None} /\ Return(r)
        /\ UNCHANGED <<groups, proc, repaired>>
    BY Types DEF ProfileSaved
  <1>2. CASE req[r].who # None /\ SaveRoles(req[r].who, req[r].copy) /\ granted' = granted
    <2>1. \A role \in req[r].copy : <<req[r].who, role>> \in Asked
      BY <1>2, Types DEF Good, Within
    <2>2. Stored' /\ DOMAIN users \subseteq DOMAIN users'
      BY <1>1, <1>2, <2>1, RolesSaved
    <2> QED
      BY <1>1, <1>2, <2>2, ReturnStep
  <1>3. ASSUME NEW u \in UserIds \ DOMAIN users, SaveRoles(u, req[r].copy),
               granted' = granted \cup ({u} \X req[r].copy)
        PROVE  IInv'
    <2>1. users' = [v \in DOMAIN users \cup {u} |-> IF v = u THEN req[r].copy ELSE users[v]]
      BY <1>3 DEF SaveRoles
    <2>2. \A role \in req[r].copy : <<u, role>> \in granted'
      BY <1>3
    <2>3. RolesOnlyGranted'
      BY <1>1, <1>3, <2>1, <2>2, InvStored DEF Stored, RolesOnlyGranted, Granted, Leaky
    <2>4. granted' \subseteq UserIds \X Roles
      BY <1>1, <1>3, InvStored DEF Stored
    <2>5. Stored' /\ DOMAIN users \subseteq DOMAIN users'
      BY <1>1, <1>3, <2>1, <2>3, <2>4, InvStored DEF Stored
    <2> QED
      BY <1>1, <1>3, <2>5, ReturnStep
  <1> QED
    BY <1>2, <1>3 DEF ProfileSaved

-----------------------------------------------------------------------------
(* The inductive invariant.                                                 *)
LEMMA InitSound ==
    Init => IInv
  <1> SUFFICES ASSUME Init
               PROVE  IInv
    OBVIOUS
  <1>1. PICK admin \in UserIds, id \in GroupIds :
          /\ users = [u \in {admin} |-> {"admin"}]
          /\ groups = [g \in {id} |->
                          [name |-> "admins", roles |-> {"admin"}, members |-> {admin}]]
          /\ granted = {<<admin, "admin">>}
    BY DEF Init
  <1>2. [name |-> "admins", roles |-> {"admin"}, members |-> {admin}] \in Group
    BY GroupsAssumption DEF Group, Draft
  <1>3. DOMAIN users = {admin} /\ users[admin] = {"admin"}
    BY <1>1
  <1>4. DOMAIN groups = {id} /\ groups[id] \in Group
    BY <1>1, <1>2
  <1>5. Stored
    BY <1>1, <1>3, <1>4, GroupsAssumption DEF Init, Stored, RolesOnlyGranted, Granted
  <1>6. req \in [Reqs -> Request] /\ \A r \in Reqs : req[r] = Idle
    BY IdleGood DEF Init, Good
  <1>7. \A r \in Reqs : Good(req[r], Asked, DOMAIN users)
    BY <1>6, IdleGood
  <1> QED
    BY <1>5, <1>6, <1>7 DEF IInv, TypeOK, Stored

LEMMA StepSound ==
    ASSUME IInv, [Next]_vars
    PROVE  IInv'
  <1>1. ASSUME NEW r \in Reqs, Step(r)
        PROVE  IInv'
    <2>1. CASE CreateGroup(r) \/ UpdateGroup(r) \/ DeleteGroup(r) \/ ProfileRead(r)
      BY <2>1, BeginStep
    <2>2. CASE CreateChecked(r) \/ CreateSaved(r)
      BY <2>2, CreateCheckedStep, CreateSavedStep
    <2>3. CASE UpdateRead(r) \/ UpdateChecked(r) \/ UpdateSaved(r) \/ UpdateReturned(r)
      BY <2>3, UpdateReadStep, UpdateCheckedStep, UpdateSavedStep, UpdateReturnedStep
    <2>4. CASE DeleteRead(r) \/ DeleteDeleted(r)
      BY <2>4, DeleteReadStep, DeleteDeletedStep
    <2>5. CASE AddListed(r) \/ AddSaved(r)
      BY <2>5, AddListedStep, AddSavedStep
    <2>6. CASE RemoveCounted(r) \/ RemoveRead(r) \/ RemoveSaved(r)
      BY <2>6, RemoveCountedStep, RemoveReadStep, RemoveSavedStep
    <2>7. CASE ProfileSaved(r) \/ Fail(r)
      BY <2>7, ProfileSavedStep, FailStep
    <2>8. CASE ListPanics(r) \/ UpdatePanics(r)
      BY <2>8, ExitStep DEF ListPanics, UpdatePanics
    <2> QED
      BY <1>1, <2>1, <2>2, <2>3, <2>4, <2>5, <2>6, <2>7, <2>8 DEF Step
  <1>2. CASE Register
    BY <1>2, RegisterStep
  <1>3. CASE Crash
    BY <1>3, ExitStep DEF Crash
  <1>4. CASE UNCHANGED vars
    BY <1>4, AskedStays DEF vars, IInv, TypeOK, RolesOnlyGranted, Granted, Leaky
  <1> QED
    BY <1>1, <1>2, <1>3, <1>4 DEF Next

THEOREM Invariance == Spec => []IInv
  <1>1. IInv /\ [Next]_vars => IInv'
    BY StepSound
  <1> QED
    BY InitSound, <1>1, PTL DEF Spec

(* Types: a stored group keeps a name, and members and roles of the right   *)
(* kind, whatever is saved over it (groups.go:85-91).                       *)
THEOREM TypeCorrect == Spec => []TypeOK
  <1>1. IInv => TypeOK
    BY DEF IInv
  <1> QED
    BY Invariance, <1>1, PTL

(* Every role of every user was asked for by an administrator for this user *)
(* or the one it was made from, however many handlers save stale copies of  *)
(* users at once (groups.go:99-166); where members are listed with the      *)
(* roles of others (store/users.go:33-41), for somebody.                    *)
THEOREM RolesGranted == Spec => []RolesOnlyGranted
  <1>1. IInv => RolesOnlyGranted
    BY DEF IInv
  <1> QED
    BY Invariance, <1>1, PTL

(* CreateGroup does not save a group with a member that does not exist      *)
(* (groups.go:112): between the look and the save DeleteGroup, which works  *)
(* on the users collection, may run, and hits no user.                      *)
THEOREM MembersExist == Spec => CreatedMembersExist
  <1>1. ASSUME IInv, NEW r \in Reqs, CreateSaved(r)
        PROVE  req[r].group.members \subseteq DOMAIN users
    BY <1>1, Types DEF CreateSaved, Good, Creating
  <1>2. IInv /\ [Next]_vars => [\A r \in Reqs : CreateSaved(r) =>
            req[r].group.members \subseteq DOMAIN users]_vars
    BY <1>1
  <1> QED
    BY Invariance, <1>2, PTL DEF Spec, CreatedMembersExist

-----------------------------------------------------------------------------
(***************************************************************************)
(* From here on requests to change groups and users come one after another. *)
(* What a handler looked up is then still so when it acts on it; CreateUser *)
(* may run at any time, and does no harm, since it only adds a user. The    *)
(* process may end anywhere.                                                *)
(***************************************************************************)
OneRequest == \A r, s \in Reqs : r = s

-----------------------------------------------------------------------------
(* What one handler knows, q being its local variables, us and gs what is   *)
(* stored. ValidateGroup found no other group of the name.                  *)
NameFree(q, gs) ==
    /\ q.then = "create.save" => \A i \in DOMAIN gs : gs[i].name # q.group.name
    /\ q.pc = "update.save" => \A i \in DOMAIN gs \ {q.id} : gs[i].name # q.group.name

(* The copy of one user is to be saved.                                     *)
Holding(q) ==
    q.pc \in {"remove.save", "profile.save"} \/ (q.pc = "remove.count" /\ q.drop # {})

Provides(gs, id, user, role) ==
    \E i \in DOMAIN gs \ {id} : user \in gs[i].members /\ role \in gs[i].roles

(* The copies that a handler will save have what is stored, and no other    *)
(* group provides what is to be dropped.                                    *)
Fresh(q, us, gs) ==
    /\ q.copies # {} => q.pc = "add.save"
    /\ \A c \in q.copies : c.id \in DOMAIN us /\ us[c.id] \subseteq c.roles
    /\ \A c, d \in q.copies : c.id = d.id => c = d
    /\ Holding(q) =>
          IF q.pc = "profile.save" /\ q.who = None THEN \E u \in DOMAIN us : q.copy = us[u]
          ELSE q.who \in DOMAIN us /\ q.copy = us[q.who]
    /\ \A role \in q.drop : ~Provides(gs, q.id, q.who, role)

(* RemoveRolesFromMembers is at a member and roles of the job it works on.  *)
Removing == {"remove.count", "remove.read", "remove.save"}

AtJob(q) ==
    /\ q.pc \in Removing => Head(q.jobs).op = "remove"
    /\ q.pc \in Removing /\ q.who # None =>
        q.who \in Head(q.jobs).members /\ q.drop \cup q.check \subseteq Head(q.jobs).roles
    /\ q.pc \in {"create.save", "update.done", "delete.delete"} => q.jobs = <<>>
    /\ q.pc = "update.read" => q.then = "idle"

(* The member of a pair has the role, or nothing is known of it because     *)
(* members are listed with the roles of others; the pair is about to be     *)
(* saved; a job will give it, the first one only if it was not begun.       *)
Has(pair, us) == Leaky \/ (pair[1] \in DOMAIN us /\ pair[2] \in us[pair[1]])

Copied(copies, pair) == \E c \in copies : c.id = pair[1] /\ pair[2] \in c.roles

Given(jobs, k, pair) == jobs[k].op = "add" /\ pair \in Entitled(jobs[k])

Ahead(jobs, pair) == \E k \in 1 .. Len(jobs) : Given(jobs, k, pair)

Later(jobs, pair) == \E k \in 2 .. Len(jobs) : Given(jobs, k, pair)

(* No job takes one of the pairs away.                                      *)
Spared(jobs, pairs) ==
    \A k \in 1 .. Len(jobs) : jobs[k].op = "remove" => Entitled(jobs[k]) \cap pairs = {}

(* What members are to gain they have, or will get; and nothing takes it    *)
(* away again.                                                              *)
Kept(q, us) ==
    /\ q.pc = "delete.read" \/ q.then = "delete.delete" => q.owed = {}
    /\ \A pair \in q.owed :
          Has(pair, us) \/ Copied(q.copies, pair)
            \/ IF q.pc = "add.save" THEN Later(q.jobs, pair) ELSE Ahead(q.jobs, pair)
    /\ Spared(q.jobs, q.owed)

Current(q, us, gs) == NameFree(q, gs) /\ Fresh(q, us, gs) /\ AtJob(q) /\ Kept(q, us)

AloneInv == UniqueNames /\ \A r \in Reqs : Current(req[r], users, groups)

AllInv == IInv /\ AloneInv

-----------------------------------------------------------------------------
(* Lists of jobs.                                                           *)
LEMMA NothingAhead ==
    ASSUME NEW pair, NEW pairs
    PROVE  ~Ahead(<<>>, pair) /\ ~Later(<<>>, pair) /\ Spared(<<>>, pairs)
  BY DEF Ahead, Later, Spared

LEMMA AddGives ==
    ASSUME NEW members \in SUBSET UserIds, NEW roles \in SUBSET Roles, NEW pairs
    PROVE  /\ \A pair \in members \X roles : Ahead(Add(members, roles), pair)
           /\ Spared(Add(members, roles), pairs)
  <1> DEFINE job == [op |-> "add", members |-> members, roles |-> roles]
  <1>1. CASE members = {}
    BY <1>1, NothingAhead DEF Add
  <1>2. CASE members # {}
    <2>1. job.op = "add" /\ Entitled(job) = members \X roles
      BY DEF Entitled
    <2>2. Add(members, roles) = <<job>>
      BY <1>2 DEF Add
    <2> HIDE DEF job
    <2>3. Len(<<job>>) = 1 /\ <<job>>[1] = job
      OBVIOUS
    <2> QED
      BY <2>1, <2>2, <2>3 DEF Ahead, Given, Spared
  <1> QED
    BY <1>1, <1>2

LEMMA RemoveSpares ==
    ASSUME NEW members \in SUBSET UserIds, NEW roles \in SUBSET Roles,
           NEW pairs, (members \X roles) \cap pairs = {}
    PROVE  Spared(Remove(members, roles), pairs)
  <1> DEFINE job == [op |-> "remove", members |-> members, roles |-> roles]
  <1>1. CASE members = {} \/ roles = {}
    BY <1>1, NothingAhead DEF Remove
  <1>2. CASE ~(members = {} \/ roles = {})
    <2>1. Entitled(job) = members \X roles
      BY DEF Entitled
    <2>2. Remove(members, roles) = <<job>>
      BY <1>2 DEF Remove
    <2> HIDE DEF job
    <2>3. Len(<<job>>) = 1 /\ <<job>>[1] = job
      OBVIOUS
    <2> QED
      BY <2>1, <2>2, <2>3 DEF Spared
  <1> QED
    BY <1>1, <1>2

LEMMA Both ==
    ASSUME NEW s \in Seq(Job), NEW t \in Seq(Job)
    PROVE  /\ \A pair : Ahead(s, pair) \/ Ahead(t, pair) => Ahead(s \o t, pair)
           /\ \A pairs : Spared(s, pairs) /\ Spared(t, pairs) => Spared(s \o t, pairs)
  <1>1. /\ Len(s \o t) = Len(s) + Len(t)
        /\ \A k \in 1..Len(s) + Len(t) :
               (s \o t)[k] = IF k <= Len(s) THEN s[k] ELSE t[k - Len(s)]
    BY ConcatProperties
  <1>2. Len(s) \in Nat /\ Len(t) \in Nat
    BY LenProperties
  <1>3. ASSUME NEW k \in 1..Len(s)
        PROVE  k \in 1..Len(s \o t) /\ (s \o t)[k] = s[k]
    BY <1>1, <1>2
  <1>4. ASSUME NEW k \in 1..Len(t)
        PROVE  k + Len(s) \in 1..Len(s \o t) /\ (s \o t)[k + Len(s)] = t[k]
    <2>1. k + Len(s) \in 1..Len(s) + Len(t) /\ ~(k + Len(s) <= Len(s)) /\ (k + Len(s)) - Len(s) = k
      BY <1>2
    <2> QED
      BY <1>1, <2>1
  <1>5. ASSUME NEW k \in 1..Len(s \o t)
        PROVE  \/ k \in 1..Len(s) /\ (s \o t)[k] = s[k]
               \/ k - Len(s) \in 1..Len(t) /\ (s \o t)[k] = t[k - Len(s)]
    BY <1>1, <1>2
  <1>6. ASSUME NEW pair, Ahead(s, pair) \/ Ahead(t, pair)
        PROVE  Ahead(s \o t, pair)
    <2>1. CASE Ahead(s, pair)
      BY <2>1, <1>3 DEF Ahead, Given
    <2>2. CASE Ahead(t, pair)
      <3>1. PICK k \in 1..Len(t) : Given(t, k, pair)
        BY <2>2 DEF Ahead
      <3>2. Given(s \o t, k + Len(s), pair)
        BY <1>4, <3>1 DEF Given
      <3> QED
        BY <1>4, <3>2 DEF Ahead
    <2> QED
      BY <1>6, <2>1, <2>2
  <1>7. ASSUME NEW pairs, Spared(s, pairs), Spared(t, pairs)
        PROVE  Spared(s \o t, pairs)
    <2>1. ASSUME NEW k \in 1..Len(s \o t), (s \o t)[k].op = "remove"
          PROVE  Entitled((s \o t)[k]) \cap pairs = {}
      <3>1. CASE k \in 1..Len(s) /\ (s \o t)[k] = s[k]
        BY <1>7, <2>1, <3>1 DEF Spared
      <3>2. CASE k - Len(s) \in 1..Len(t) /\ (s \o t)[k] = t[k - Len(s)]
        BY <1>7, <2>1, <3>2 DEF Spared
      <3> QED
        BY <1>5, <2>1, <3>1, <3>2
    <2> QED
      BY <2>1 DEF Spared
  <1> QED
    BY <1>6, <1>7

LEMMA Rest ==
    ASSUME NEW s \in Seq(Job), s # <<>>
    PROVE  /\ Head(s) \in Job /\ Tail(s) \in Seq(Job)
           /\ \A pair : Later(s, pair) => Ahead(Tail(s), pair)
           /\ \A pair : Ahead(s, pair) =>
                  Later(s, pair) \/ (Head(s).op = "add" /\ pair \in Entitled(Head(s)))
           /\ \A pairs : Spared(s, pairs) => Spared(Tail(s), pairs)
           /\ \A pairs : Spared(s, pairs) /\ Head(s).op = "remove" =>
                  Entitled(Head(s)) \cap pairs = {}
  <1>1. /\ Tail(s) \in Seq(Job)
        /\ Head(s) \in Job
        /\ Len(Tail(s)) = Len(s) - 1
        /\ \A k \in 1..Len(Tail(s)) : Tail(s)[k] = s[k + 1]
    BY HeadTailProperties
  <1>2. Len(s) \in Nat \ {0} /\ Head(s) = s[1]
    BY EmptySeq
  <1>3. ASSUME NEW k \in 2..Len(s)
        PROVE  k - 1 \in 1..Len(Tail(s)) /\ Tail(s)[k - 1] = s[k]
    BY <1>1, <1>2
  <1>4. ASSUME NEW k \in 1..Len(Tail(s))
        PROVE  k + 1 \in 1..Len(s) /\ Tail(s)[k] = s[k + 1]
    BY <1>1, <1>2
  <1>5. 1 \in 1..Len(s) /\ \A k \in 1..Len(s) : k = 1 \/ k \in 2..Len(s)
    BY <1>2
  <1>6. ASSUME NEW pair, Later(s, pair)
        PROVE  Ahead(Tail(s), pair)
    <2>1. PICK k \in 2..Len(s) : Given(s, k, pair)
      BY <1>6 DEF Later
    <2>2. Given(Tail(s), k - 1, pair)
      BY <1>3, <2>1 DEF Given
    <2> QED
      BY <1>3, <2>2 DEF Ahead
  <1>7. ASSUME NEW pair, Ahead(s, pair)
        PROVE  Later(s, pair) \/ (Head(s).op = "add" /\ pair \in Entitled(Head(s)))
    BY <1>2, <1>5, <1>7 DEF Ahead, Later, Given
  <1>8. \A pairs : Spared(s, pairs) => Spared(Tail(s), pairs)
    BY <1>4 DEF Spared
  <1>9. \A pairs : Spared(s, pairs) /\ Head(s).op = "remove" =>
            Entitled(Head(s)) \cap pairs = {}
    BY <1>2, <1>5 DEF Spared
  <1> QED
    BY <1>1, <1>6, <1>7, <1>8, <1>9

(* What UpdateGroup is to do to members gives them all that new entitles    *)
(* them to and old did not, and takes nothing of it away.                   *)
LEMMA UpdateJobsKeep ==
    ASSUME NEW old \in Draft, NEW edit \in GroupEdit
    PROVE  LET new  == Merge(old, edit)
               gain == Entitled(new) \ Entitled(old)
               jobs == UpdateJobs(edit.mask, old, new)
           IN  /\ \A pair \in gain : Ahead(jobs, pair)
               /\ Spared(jobs, gain)
  <1>1. PICK new : new = Merge(old, edit)
    OBVIOUS
  <1>2. /\ new \in Draft
        /\ "roles" \notin edit.mask => new.roles = old.roles
        /\ "members" \notin edit.mask => new.members = old.members
    BY <1>1 DEF Merge, Draft, GroupEdit
  <1>3. /\ old.members \in SUBSET UserIds /\ new.members \in SUBSET UserIds
        /\ old.roles \in SUBSET Roles /\ new.roles \in SUBSET Roles
    BY <1>2 DEF Draft
  <1>4. PICK gain : gain = Entitled(new) \ Entitled(old)
    OBVIOUS
  <1>5. \A pair \in gain :
            /\ pair \in new.members \X new.roles
            /\ pair \in new.members \X (new.roles \ old.roles)
                 \/ pair \in (new.members \ old.members) \X new.roles
    BY <1>4 DEF Entitled
  <1>6. /\ (old.members \X (old.roles \ new.roles)) \cap gain = {}
        /\ ((old.members \ new.members) \X old.roles) \cap gain = {}
    BY <1>4 DEF Entitled
  <1>7. /\ Add(new.members, new.roles \ old.roles) \in Seq(Job)
        /\ Add(new.members \ old.members, new.roles) \in Seq(Job)
        /\ Remove(old.members, old.roles \ new.roles) \in Seq(Job)
        /\ Remove(old.members \ new.members, old.roles) \in Seq(Job)
        /\ <<>> \in Seq(Job)
    <2>1. \A m \in SUBSET UserIds, o \in SUBSET Roles : Add(m, o) \in Seq(Job)
      BY AddJobs
    <2>2. \A m \in SUBSET UserIds, o \in SUBSET Roles : Remove(m, o) \in Seq(Job)
      BY RemoveJobs
    <2> QED
      BY <1>3, <2>1, <2>2, NoJobs
  <1>8. /\ RoleJobs(old, new) \in Seq(Job) /\ MemberJobs(old, new) \in Seq(Job)
        /\ \A pair \in new.members \X (new.roles \ old.roles) : Ahead(RoleJobs(old, new), pair)
        /\ \A pair \in (new.members \ old.members) \X new.roles : Ahead(MemberJobs(old, new), pair)
        /\ Spared(RoleJobs(old, new), gain) /\ Spared(MemberJobs(old, new), gain)
    <2>1. /\ Spared(Remove(old.members, old.roles \ new.roles), gain)
          /\ Spared(Remove(old.members \ new.members, old.roles), gain)
      BY <1>3, <1>6, RemoveSpares
    <2>2. /\ Spared(Add(new.members, new.roles \ old.roles), gain)
          /\ Spared(Add(new.members \ old.members, new.roles), gain)
          /\ \A pair \in new.members \X (new.roles \ old.roles) :
                 Ahead(Add(new.members, new.roles \ old.roles), pair)
          /\ \A pair \in (new.members \ old.members) \X new.roles :
                 Ahead(Add(new.members \ old.members, new.roles), pair)
      BY <1>3, AddGives
    <2>3. PICK s, t, v, w :
            /\ s = IF new.roles \subseteq old.roles THEN <<>>
                   ELSE Add(new.members, new.roles \ old.roles)
            /\ t = Remove(old.members, old.roles \ new.roles)
            /\ v = Add(new.members \ old.members, new.roles)
            /\ w = Remove(old.members \ new.members, old.roles)
      OBVIOUS
    <2>4. /\ s \in Seq(Job) /\ t \in Seq(Job) /\ v \in Seq(Job) /\ w \in Seq(Job)
          /\ Spared(s, gain) /\ Spared(t, gain) /\ Spared(v, gain) /\ Spared(w, gain)
      BY <1>7, <2>1, <2>2, <2>3, NothingAhead
    <2>5. /\ \A pair \in new.members \X (new.roles \ old.roles) : Ahead(s, pair)
          /\ \A pair \in (new.members \ old.members) \X new.roles : Ahead(v, pair)
      <3>1. new.roles \subseteq old.roles => new.members \X (new.roles \ old.roles) = {}
        OBVIOUS
      <3> QED
        BY <2>2, <2>3, <3>1
    <2>6. RoleJobs(old, new) = s \o t /\ MemberJobs(old, new) = v \o w
      BY <2>3 DEF RoleJobs, MemberJobs
    <2>7. s \o t \in Seq(Job) /\ v \o w \in Seq(Job)
      BY <2>4, ConcatProperties
    <2>8. Spared(s \o t, gain) /\ Spared(v \o w, gain)
      BY <2>4, Both
    <2>9. /\ \A pair \in new.members \X (new.roles \ old.roles) : Ahead(s \o t, pair)
          /\ \A pair \in (new.members \ old.members) \X new.roles : Ahead(v \o w, pair)
      BY <2>4, <2>5, Both
    <2> QED
      BY <2>6, <2>7, <2>8, <2>9
  <1>9. PICK jobs : jobs = UpdateJobs(edit.mask, old, new)
    OBVIOUS
  <1>10. PICK s, t : /\ s = IF "roles" \in edit.mask THEN RoleJobs(old, new) ELSE <<>>
                     /\ t = IF "members" \in edit.mask THEN MemberJobs(old, new) ELSE <<>>
    OBVIOUS
  <1>11. jobs = s \o t
    BY <1>9, <1>10 DEF UpdateJobs
  <1>12. s \in Seq(Job) /\ t \in Seq(Job) /\ Spared(s, gain) /\ Spared(t, gain)
    BY <1>7, <1>8, <1>10, NothingAhead
  <1>13. ASSUME NEW pair \in gain
         PROVE  Ahead(s, pair) \/ Ahead(t, pair)
    <2>1. CASE pair \in new.members \X (new.roles \ old.roles)
      <3>1. "roles" \in edit.mask
        BY <1>2, <2>1
      <3> QED
        BY <1>8, <1>10, <2>1, <3>1
    <2>2. CASE pair \in (new.members \ old.members) \X new.roles
      <3>1. "members" \in edit.mask
        BY <1>2, <2>2
      <3> QED
        BY <1>8, <1>10, <2>2, <3>1
    <2> QED
      BY <1>5, <2>1, <2>2
  <1>14. Spared(jobs, gain) /\ \A pair \in gain : Ahead(jobs, pair)
    BY <1>11, <1>12, <1>13, Both
  <1> QED
    BY <1>1, <1>4, <1>9, <1>14

-----------------------------------------------------------------------------
(* Frames: what a step has to show of itself.                               *)
LEMMA IdleCurrent ==
    ASSUME NEW us, NEW gs
    PROVE  Current(Idle, us, gs)
  <1>1. /\ Idle.pc = "idle" /\ Idle.then = "idle" /\ Idle.copies = {} /\ Idle.drop = {}
        /\ Idle.owed = {} /\ Idle.jobs = <<>>
    BY DEF Idle
  <1>2. Kept(Idle, us)
    BY <1>1, NothingAhead DEF Kept
  <1> QED
    BY <1>1, <1>2 DEF Current, NameFree, Fresh, Holding, AtJob, Removing

LEMMA CurrentNext ==
    ASSUME repaired' = repaired, NEW r \in Reqs, Current(req'[r], users', groups')
    PROVE  Current(req[r], users, groups)'
  BY DEF Current, Kept, Has, Leaky

LEMMA GoesOn ==
    ASSUME OneRequest, AllInv, repaired' = repaired, NEW r \in Reqs, NEW local, Goto(r, local),
           Current(local, users', groups'), UniqueNames'
    PROVE  AloneInv'
  <1>1. req'[r] = local
    BY DEF Goto, AllInv, IInv, TypeOK
  <1>2. \A s \in Reqs : s = r
    BY DEF OneRequest
  <1> QED
    BY <1>1, <1>2, CurrentNext DEF AloneInv

(* A step that only changes its local variables.                            *)
LEMMA GoesOnOnly ==
    ASSUME OneRequest, AllInv, repaired' = repaired, NEW r \in Reqs, NEW local, Goto(r, local),
           UNCHANGED groups, Current(local, users', groups)
    PROVE  AloneInv'
  <1>1. UniqueNames'
    BY DEF AllInv, AloneInv, UniqueNames
  <1> QED
    BY <1>1, GoesOn

LEMMA ReturnAlone ==
    ASSUME OneRequest, AllInv, repaired' = repaired, NEW r \in Reqs, Return(r), UniqueNames'
    PROVE  AloneInv'
  BY IdleCurrent, GoesOn DEF Return

LEMMA Known ==
    ASSUME AllInv, NEW r \in Reqs
    PROVE  /\ Current(req[r], users, groups)
           /\ Good(req[r], Asked, DOMAIN users)
           /\ req[r] \in Request
           /\ req[r].then \in Thens
           /\ req[r].pc # "add.save" => req[r].copies = {}
           /\ req[r].pc \notin {"create.save", "add.list", "add.save"} =>
                  req[r].then # "create.save"
  <1>1. Current(req[r], users, groups) /\ Good(req[r], Asked, DOMAIN users)
    BY DEF AllInv, AloneInv, IInv
  <1> QED
    BY <1>1 DEF Current, Fresh, Good, Placed, Creating

LEMMA ProceedCurrent ==
    ASSUME NEW local \in Request, local.then \in Thens,
           NEW jobs \in Seq(Job), NEW us, NEW gs,
           local.then = "create.save" => \A i \in DOMAIN gs : gs[i].name # local.group.name,
           local.then = "delete.delete" => local.owed = {},
           \A pair \in local.owed : Has(pair, us) \/ Ahead(jobs, pair),
           Spared(jobs, local.owed)
    PROVE  Current(Proceed(local, jobs), us, gs)
  <1>1. PICK next : next = Proceed(local, jobs)
    OBVIOUS
  <1>2. /\ next.pc = IF jobs = <<>> THEN local.then
                     ELSE IF Head(jobs).op = "add" THEN "add.list" ELSE "remove.count"
        /\ next.jobs = jobs /\ next.then = local.then /\ next.owed = local.owed
        /\ next.group = local.group /\ next.id = local.id
        /\ next.copies = {} /\ next.who = None /\ next.drop = {}
    BY <1>1 DEF Proceed, Request
  <1>3. jobs # <<>> => Head(jobs).op \in {"add", "remove"}
    BY Rest DEF Job
  <1>4. next.pc \in Thens \cup {"add.list", "remove.count"}
    BY <1>2
  <1>5. NameFree(next, gs)
    BY <1>2, <1>4 DEF NameFree, Thens
  <1>6. Fresh(next, us, gs)
    BY <1>2, <1>4 DEF Fresh, Holding, Thens
  <1>7. AtJob(next)
    BY <1>2, <1>3 DEF AtJob, Removing, Thens
  <1>8. Kept(next, us)
    BY <1>2, <1>4 DEF Kept, Thens
  <1> QED
    BY <1>1, <1>5, <1>6, <1>7, <1>8 DEF Current

-----------------------------------------------------------------------------
(* A request begins.                                                        *)
LEMMA BeginAlone ==
    ASSUME OneRequest, AllInv, repaired' = repaired, NEW r \in Reqs,
           CreateGroup(r) \/ UpdateGroup(r) \/ DeleteGroup(r) \/ ProfileRead(r)
    PROVE  AloneInv'
  <1> DEFINE New(q) ==
          /\ q.then = "idle" /\ q.copies = {} /\ q.drop = {} /\ q.owed = {} /\ q.jobs = <<>>
          /\ \/ q.pc = "create.check" \/ q.pc = "update.read" \/ q.pc = "delete.read"
             \/ /\ q.pc = "profile.save"
                /\ \E u \in DOMAIN users : q.who \in {u, None} /\ q.copy = users[u]
  <1>1. PICK q : Goto(r, q) /\ New(q)
    <2>1. CASE CreateGroup(r)
      <3>1. PICK g \in NewGroups : Goto(r, [Idle EXCEPT !.pc = "create.check", !.group = g])
        BY <2>1 DEF CreateGroup
      <3>2. New([Idle EXCEPT !.pc = "create.check", !.group = g])
        BY DEF Idle
      <3> QED
        BY <3>1, <3>2
    <2>2. CASE UpdateGroup(r)
      <3>1. PICK id \in GroupIds, edit \in GroupEdits :
              Goto(r, [Idle EXCEPT !.pc = "update.read", !.id = id, !.edit = edit])
        BY <2>2 DEF UpdateGroup
      <3>2. New([Idle EXCEPT !.pc = "update.read", !.id = id, !.edit = edit])
        BY DEF Idle
      <3> QED
        BY <3>1, <3>2
    <2>3. CASE DeleteGroup(r)
      <3>1. PICK id \in GroupIds : Goto(r, [Idle EXCEPT !.pc = "delete.read", !.id = id])
        BY <2>3 DEF DeleteGroup
      <3>2. New([Idle EXCEPT !.pc = "delete.read", !.id = id])
        BY DEF Idle
      <3> QED
        BY <3>1, <3>2
    <2>4. CASE ProfileRead(r)
      <3>1. PICK u \in DOMAIN users : \E who \in {u, None} :
              Goto(r, [Idle EXCEPT !.pc = "profile.save", !.who = who, !.copy = users[u]])
        BY <2>4 DEF ProfileRead
      <3>2. PICK who \in {u, None} :
              Goto(r, [Idle EXCEPT !.pc = "profile.save", !.who = who, !.copy = users[u]])
        BY <3>1
      <3>3. New([Idle EXCEPT !.pc = "profile.save", !.who = who, !.copy = users[u]])
        BY DEF Idle
      <3> QED
        BY <3>2, <3>3
    <2> QED
      BY <2>1, <2>2, <2>3, <2>4
  <1>2. UNCHANGED <<users, groups>>
    BY DEF CreateGroup, UpdateGroup, DeleteGroup, ProfileRead
  <1>3. Current(q, users, groups)
    <2>1. NameFree(q, groups) /\ Fresh(q, users, groups) /\ AtJob(q)
      BY <1>1 DEF NameFree, Fresh, Holding, AtJob, Removing
    <2>2. Kept(q, users)
      BY <1>1, NothingAhead DEF Kept
    <2> QED
      BY <2>1, <2>2 DEF Current
  <1> QED
    BY <1>1, <1>2, <1>3, GoesOnOnly

(* A request ends early, or the process does.                               *)
LEMMA FailAlone ==
    ASSUME OneRequest, AllInv, repaired' = repaired, NEW r \in Reqs, Fail(r)
    PROVE  AloneInv'
  <1>1. UniqueNames' /\ UNCHANGED <<users, groups>>
    BY DEF Fail, AllInv, AloneInv, UniqueNames
  <1>2. CASE Return(r)
    BY <1>1, <1>2, ReturnAlone
  <1>3. CASE req[r].then = "delete.delete" /\ Goto(r, Proceed(req[r], <<>>))
    <2>1. req[r].owed = {}
      BY <1>3, Known DEF Current, Kept
    <2>2. Current(Proceed(req[r], <<>>), users, groups)
      BY <1>3, <2>1, Known, NoJobs, NothingAhead, ProceedCurrent
    <2> QED
      BY <1>1, <1>3, <2>2, GoesOn
  <1> QED
    BY <1>2, <1>3 DEF Fail

LEMMA ExitAlone ==
    ASSUME AllInv, repaired' = repaired, Exit
    PROVE  AloneInv'
  <1>1. \A r \in Reqs : req'[r] = Idle
    BY DEF Exit
  <1>2. UniqueNames'
    BY DEF Exit, AllInv, AloneInv, UniqueNames
  <1> QED
    BY <1>1, <1>2, IdleCurrent, CurrentNext DEF AloneInv

(* A user more, without roles.                                              *)
LEMMA RegisterAlone ==
    ASSUME AllInv, repaired' = repaired, Register
    PROVE  AloneInv'
  <1>1. PICK u \in UserIds \ DOMAIN users : SaveRoles(u, {})
    BY DEF Register
  <1>2. /\ DOMAIN users \subseteq DOMAIN users'
        /\ \A v \in DOMAIN users : users'[v] = users[v]
    BY <1>1 DEF SaveRoles
  <1>3. req' = req /\ groups' = groups
    BY DEF Register
  <1>4. ASSUME NEW r \in Reqs
        PROVE  Current(req[r], users', groups)
    <2>1. Current(req[r], users, groups)
      BY Known
    <2>2. PICK q : q = req[r]
      OBVIOUS
    <2>3. Fresh(q, users', groups)
      BY <1>2, <2>1, <2>2 DEF Current, Fresh
    <2>4. \A pair : Has(pair, users) => Has(pair, users')
      BY <1>2 DEF Has
    <2>5. Kept(q, users')
      BY <2>1, <2>2, <2>4 DEF Current, Kept
    <2> QED
      BY <2>1, <2>2, <2>3, <2>5 DEF Current
  <1>5. UniqueNames'
    BY <1>3 DEF AllInv, AloneInv, UniqueNames
  <1>6. \A r \in Reqs : Current(req'[r], users', groups')
    BY <1>3, <1>4
  <1> QED
    BY <1>5, <1>6, CurrentNext DEF AloneInv

-----------------------------------------------------------------------------
(* CreateGroup.                                                             *)
LEMMA CreateCheckedAlone ==
    ASSUME OneRequest, AllInv, repaired' = repaired, NEW r \in Reqs, CreateChecked(r)
    PROVE  AloneInv'
  <1>1. PICK g : g = req[r].group
    OBVIOUS
  <1>2. PICK q : q = [req[r] EXCEPT !.then = "create.save", !.owed = Entitled(g)]
    OBVIOUS
  <1>3. g \in Draft /\ g.members \in SUBSET UserIds /\ g.roles \in SUBSET Roles
    BY <1>1, Known DEF Request, Draft
  <1>4. Entitled(g) \subseteq UserIds \X Roles
    BY <1>3 DEF Entitled
  <1>5. /\ q \in Request /\ q.then = "create.save" /\ q.owed = Entitled(g) /\ q.group = g
    <2>1. req[r] \in Request /\ "create.save" \in Pcs
      BY Known DEF Pcs
    <2> QED
      BY <1>1, <1>2, <1>4, <2>1 DEF Request
  <1>6. \A i \in DOMAIN groups : groups[i].name # g.name
    <2>1. None \notin DOMAIN groups
      BY GroupsAssumption DEF AllInv, IInv, TypeOK
    <2> QED
      BY <1>1, <2>1 DEF CreateChecked, Valid
  <1>7. Add(g.members, g.roles) \in Seq(Job)
    BY <1>3, AddJobs
  <1>8. /\ \A pair \in q.owed : Ahead(Add(g.members, g.roles), pair)
        /\ Spared(Add(g.members, g.roles), q.owed)
    BY <1>3, <1>5, AddGives DEF Entitled
  <1>9. q.then \in Thens /\ q.then # "delete.delete"
    BY <1>5 DEF Thens
  <1>10. Current(Proceed(q, Add(g.members, g.roles)), users, groups)
    BY <1>5, <1>6, <1>7, <1>8, <1>9, ProceedCurrent
  <1>11. Goto(r, Proceed(q, Add(g.members, g.roles))) /\ UNCHANGED <<users, groups>>
    BY <1>1, <1>2 DEF CreateChecked
  <1> QED
    BY <1>10, <1>11, GoesOnOnly

LEMMA NamesAfterSave ==
    ASSUME UniqueNames, NEW id, NEW g \in Draft, SaveGroup(id, g),
           \A i \in DOMAIN groups \ {id} : groups[i].name # g.name
    PROVE  UniqueNames'
  <1>1. DOMAIN groups' = DOMAIN groups \cup {id}
    BY DEF SaveGroup
  <1>2. \A i \in DOMAIN groups \ {id} : groups'[i] = groups[i]
    BY DEF SaveGroup
  <1>3. groups'[id].name = g.name
    BY DEF SaveGroup, Draft
  <1> QED
    BY <1>1, <1>2, <1>3 DEF UniqueNames

LEMMA CreateSavedAlone ==
    ASSUME OneRequest, AllInv, repaired' = repaired, NEW r \in Reqs, CreateSaved(r)
    PROVE  AloneInv'
  <1>1. PICK id \in GroupIds \ DOMAIN groups : SaveGroup(id, req[r].group)
    BY DEF CreateSaved
  <1>2. \A i \in DOMAIN groups : groups[i].name # req[r].group.name
    BY Known DEF CreateSaved, Current, NameFree, Good, Creating
  <1>3. req[r].group \in Draft /\ UniqueNames
    BY Known DEF Request, AllInv, AloneInv
  <1>4. UniqueNames'
    BY <1>1, <1>2, <1>3, NamesAfterSave
  <1> QED
    BY <1>4, ReturnAlone DEF CreateSaved

-----------------------------------------------------------------------------
(* UpdateGroup and DeleteGroup.                                             *)
LEMMA UpdateReadAlone ==
    ASSUME OneRequest, AllInv, repaired' = repaired, NEW r \in Reqs, UpdateRead(r)
    PROVE  AloneInv'
  <1>1. PICK old : old = groups[req[r].id]
    OBVIOUS
  <1>2. PICK edit : edit = req[r].edit
    OBVIOUS
  <1>3. PICK gain, jobs : /\ gain = Entitled(Merge(old, edit)) \ Entitled(old)
                          /\ jobs = UpdateJobs(edit.mask, old, Merge(old, edit))
    OBVIOUS
  <1>4. PICK q : q = [req[r] EXCEPT !.pc = "update.check", !.edit = None,
                                    !.group = Merge(old, edit), !.owed = gain, !.jobs = jobs]
    OBVIOUS
  <1>5. old \in Draft /\ edit \in GroupEdit
    <2>1. req[r].id \in DOMAIN groups /\ req[r].pc = "update.read"
      BY DEF UpdateRead
    <2>2. groups[req[r].id] \in Group
      BY <2>1 DEF AllInv, IInv, TypeOK
    <2>3. edit \in GroupEdits
      BY <1>2, <2>1, Known DEF Good, Placed
    <2> QED
      BY <1>1, <2>2, <2>3, GroupsAssumption DEF Group
  <1>6. (\A pair \in gain : Ahead(jobs, pair)) /\ Spared(jobs, gain)
    BY <1>3, <1>5, UpdateJobsKeep
  <1>7. /\ q.pc = "update.check" /\ q.then = req[r].then /\ q.id = req[r].id
        /\ q.owed = gain /\ q.jobs = jobs /\ q.copies = req[r].copies
        /\ q.drop = req[r].drop /\ q.who = req[r].who
    BY <1>4, Known DEF Request
  <1>8. /\ q.copies = {} /\ q.then # "create.save"
        /\ \A role \in q.drop : ~Provides(groups, q.id, q.who, role)
    BY <1>7, Known DEF UpdateRead, Current, Fresh
  <1>9. q.then # "delete.delete"
    BY <1>7, Known DEF UpdateRead, Current, AtJob
  <1>10. NameFree(q, groups) /\ Fresh(q, users, groups) /\ AtJob(q)
    BY <1>7, <1>8 DEF NameFree, Fresh, Holding, AtJob, Removing
  <1>11. Kept(q, users)
    BY <1>6, <1>7, <1>8, <1>9 DEF Kept
  <1>12. Goto(r, q) /\ UNCHANGED <<users, groups>>
    BY <1>1, <1>2, <1>3, <1>4 DEF UpdateRead
  <1> QED
    BY <1>10, <1>11, <1>12, GoesOnOnly DEF Current

LEMMA UpdateCheckedAlone ==
    ASSUME OneRequest, AllInv, repaired' = repaired, NEW r \in Reqs, UpdateChecked(r)
    PROVE  AloneInv'
  <1>1. PICK q : q = [req[r] EXCEPT !.pc = "update.save", !.then = "update.done"]
    OBVIOUS
  <1>2. /\ q.pc = "update.save" /\ q.then = "update.done" /\ q.id = req[r].id
        /\ q.owed = req[r].owed /\ q.jobs = req[r].jobs /\ q.copies = req[r].copies
        /\ q.drop = req[r].drop /\ q.who = req[r].who /\ q.group = req[r].group
    BY <1>1, Known DEF Request
  <1>3. req[r].pc = "update.check" /\ Valid(req[r].id, req[r].group)
    BY DEF UpdateChecked
  <1>4. NameFree(q, groups)
    BY <1>2, <1>3 DEF Valid, NameFree
  <1>5. Fresh(q, users, groups) /\ AtJob(q)
    BY <1>2, <1>3, Known DEF Current, Fresh, Holding, AtJob, Removing
  <1>6. Kept(q, users)
    BY <1>2, <1>3, Known DEF Current, Kept
  <1>7. Goto(r, q) /\ UNCHANGED <<users, groups>>
    BY <1>1 DEF UpdateChecked
  <1> QED
    BY <1>4, <1>5, <1>6, <1>7, GoesOnOnly DEF Current

LEMMA UpdateSavedAlone ==
    ASSUME OneRequest, AllInv, repaired' = repaired, NEW r \in Reqs, UpdateSaved(r)
    PROVE  AloneInv'
  <1>1. req[r].pc = "update.save" /\ UNCHANGED users
    BY DEF UpdateSaved
  <1>2. UniqueNames'
    <2>1. CASE SaveGroup(req[r].id, req[r].group)
      <3>1. \A i \in DOMAIN groups \ {req[r].id} : groups[i].name # req[r].group.name
        BY <1>1, Known DEF Current, NameFree
      <3>2. req[r].group \in Draft /\ UniqueNames
        BY Known DEF Request, AllInv, AloneInv
      <3> QED
        BY <2>1, <3>1, <3>2, NamesAfterSave
    <2>2. CASE UNCHANGED groups
      BY <2>2 DEF AllInv, AloneInv, UniqueNames
    <2> QED
      BY <2>1, <2>2 DEF UpdateSaved
  <1>3. PICK q : /\ q = req[r] \/ q = [req[r] EXCEPT !.saved = TRUE]
                 /\ Goto(r, Proceed(q, req[r].jobs))
    BY DEF UpdateSaved
  <1>4. /\ q \in Request /\ q.then = req[r].then /\ q.owed = req[r].owed
        /\ q.group = req[r].group
    BY <1>3, Known DEF Request
  <1>5. q.then \in Thens /\ q.then # "create.save"
    BY <1>1, <1>4, Known
  <1>6. /\ q.then = "delete.delete" => q.owed = {}
        /\ \A pair \in q.owed : Has(pair, users) \/ Ahead(req[r].jobs, pair)
        /\ Spared(req[r].jobs, q.owed)
    <2>1. req[r].copies = {}
      BY <1>1, Known
    <2> QED
      BY <1>1, <1>4, <2>1, Known DEF Current, Kept, Copied
  <1>7. req[r].jobs \in Seq(Job)
    BY Known DEF Request
  <1>8. Current(Proceed(q, req[r].jobs), users, groups')
    BY <1>4, <1>5, <1>6, <1>7, ProceedCurrent
  <1> QED
    BY <1>1, <1>2, <1>3, <1>8, GoesOn

LEMMA DeleteReadAlone ==
    ASSUME OneRequest, AllInv, repaired' = repaired, NEW r \in Reqs, DeleteRead(r)
    PROVE  AloneInv'
  <1>1. PICK g : g = groups[req[r].id]
    OBVIOUS
  <1>2. PICK q : q = [req[r] EXCEPT !.then = "delete.delete"]
    OBVIOUS
  <1>3. g.members \in SUBSET UserIds /\ g.roles \in SUBSET Roles
    BY <1>1 DEF DeleteRead, AllInv, IInv, TypeOK, Group, Draft
  <1>4. req[r].owed = {}
    BY Known DEF DeleteRead, Current, Kept
  <1>5. q \in Request /\ q.then = "delete.delete" /\ q.owed = {}
    <2>1. req[r] \in Request /\ "delete.delete" \in Pcs
      BY Known DEF Pcs
    <2> QED
      BY <1>2, <1>4, <2>1 DEF Request
  <1>6. Remove(g.members, g.roles) \in Seq(Job)
    BY <1>3, RemoveJobs
  <1>7. Spared(Remove(g.members, g.roles), q.owed)
    BY <1>3, <1>5, RemoveSpares
  <1>8. q.then \in Thens
    BY <1>5 DEF Thens
  <1>9. Current(Proceed(q, Remove(g.members, g.roles)), users, groups)
    BY <1>5, <1>6, <1>7, <1>8, ProceedCurrent
  <1>10. Goto(r, Proceed(q, Remove(g.members, g.roles))) /\ UNCHANGED <<users, groups>>
    BY <1>1, <1>2 DEF DeleteRead
  <1> QED
    BY <1>9, <1>10, GoesOnOnly

LEMMA EndsAlone ==
    ASSUME OneRequest, AllInv, repaired' = repaired, NEW r \in Reqs,
           UpdateReturned(r) \/ DeleteDeleted(r) \/ ProfileSaved(r)
    PROVE  AloneInv'
  <1>1. Return(r) /\ UNCHANGED groups
    BY DEF UpdateReturned, DeleteDeleted, ProfileSaved
  <1>2. UniqueNames'
    BY <1>1 DEF AllInv, AloneInv, UniqueNames
  <1> QED
    BY <1>1, <1>2, ReturnAlone

-----------------------------------------------------------------------------
(* AddRolesToMembers.                                                       *)
LEMMA AtAdd ==
    ASSUME AllInv, NEW r \in Reqs, req[r].pc \in {"add.list", "add.save"}
    PROVE  /\ req[r].jobs \in Seq(Job) /\ req[r].jobs # <<>>
           /\ req[r].then = "create.save" =>
                  \A i \in DOMAIN groups : groups[i].name # req[r].group.name
           /\ req[r].then = "delete.delete" => req[r].owed = {}
           /\ Spared(Tail(req[r].jobs), req[r].owed)
  <1>1. req[r].jobs \in Seq(Job) /\ req[r].jobs # <<>>
    BY Known DEF Request, Good, Placed, Working
  <1>2. Spared(req[r].jobs, req[r].owed)
    BY Known DEF Current, Kept
  <1> QED
    BY <1>1, <1>2, Known, Rest DEF Current, NameFree, Kept

(* No copy is left: the next job, or where the handler goes on.             *)
LEMMA JobDone ==
    ASSUME OneRequest, AllInv, repaired' = repaired, NEW r \in Reqs, req[r].pc \in {"add.list", "add.save"},
           Goto(r, Proceed(req[r], Tail(req[r].jobs))), UNCHANGED groups,
           \A pair \in req[r].owed : Has(pair, users') \/ Later(req[r].jobs, pair)
    PROVE  AloneInv'
  <1>1. PICK rest : rest = Tail(req[r].jobs)
    OBVIOUS
  <1>2. rest \in Seq(Job) /\ \A pair \in req[r].owed : Has(pair, users') \/ Ahead(rest, pair)
    BY <1>1, AtAdd, Rest
  <1>3. Current(Proceed(req[r], rest), users', groups)
    BY <1>1, <1>2, AtAdd, Known, ProceedCurrent
  <1> QED
    BY <1>1, <1>3, GoesOnOnly

LEMMA AddListedAlone ==
    ASSUME OneRequest, AllInv, repaired' = repaired, NEW r \in Reqs, AddListed(r)
    PROVE  AloneInv'
  <1>1. PICK job : job = Head(req[r].jobs)
    OBVIOUS
  <1>2. req[r].pc = "add.list" /\ job.members \subseteq DOMAIN users /\ UNCHANGED <<users, groups>>
    BY <1>1 DEF AddListed, AllFound
  <1>3. job.members \cap DOMAIN users = job.members
    BY <1>2
  <1> DEFINE Listed(jb, members) == \E listed \in [members -> SUBSET Roles] :
          /\ \A u \in members : listed[u] \in Decoded(u, members)
          /\ LET copies == {[id |-> u, roles |-> listed[u] \cup jb.roles] :
                              u \in {m \in members : ~(jb.roles \subseteq listed[m])}}
             IN Goto(r, IF copies = {} THEN Proceed(req[r], Tail(req[r].jobs))
                        ELSE [req[r] EXCEPT !.pc = "add.save", !.copies = copies])
  <1>4. Listed(Head(req[r].jobs), Head(req[r].jobs).members \cap DOMAIN users)
    BY DEF AddListed
  <1>5. Listed(job, job.members)
    <2> HIDE DEF Listed
    <2> QED
      BY <1>1, <1>3, <1>4
  <1>6. PICK listed \in [job.members -> SUBSET Roles] :
          /\ \A u \in job.members : listed[u] \in Decoded(u, job.members)
          /\ LET copies == {[id |-> u, roles |-> listed[u] \cup job.roles] :
                              u \in {m \in job.members : ~(job.roles \subseteq listed[m])}}
             IN Goto(r, IF copies = {} THEN Proceed(req[r], Tail(req[r].jobs))
                        ELSE [req[r] EXCEPT !.pc = "add.save", !.copies = copies])
    BY <1>5
  <1> HIDE DEF Listed
  <1>7. PICK copies : copies = {[id |-> u, roles |-> listed[u] \cup job.roles] :
                                  u \in {m \in job.members : ~(job.roles \subseteq listed[m])}}
    OBVIOUS
  <1>8. Goto(r, IF copies = {} THEN Proceed(req[r], Tail(req[r].jobs))
                ELSE [req[r] EXCEPT !.pc = "add.save", !.copies = copies])
    BY <1>7, <1>6
  <1>9. \A u \in job.members : users[u] \subseteq listed[u] /\ (Leaky \/ listed[u] = users[u])
    BY <1>2, <1>6 DEF AddListed, Decoded, Leaky
  <1>10. ASSUME NEW pair \in req[r].owed
        PROVE  Has(pair, users) \/ Copied(copies, pair) \/ Later(req[r].jobs, pair)
    <2>1. Has(pair, users) \/ Ahead(req[r].jobs, pair)
      BY <1>2, Known DEF Current, Kept, Copied
    <2>2. Has(pair, users) \/ Later(req[r].jobs, pair) \/ pair \in Entitled(job)
      BY <1>1, <1>2, <2>1, AtAdd, Rest
    <2>3. CASE pair \in Entitled(job)
      <3>1. pair[1] \in job.members /\ pair[2] \in job.roles
        BY <2>3 DEF Entitled
      <3>2. CASE job.roles \subseteq listed[pair[1]]
        BY <1>2, <1>9, <3>1, <3>2 DEF Has
      <3>3. CASE ~(job.roles \subseteq listed[pair[1]])
        <4>1. PICK c : c = [id |-> pair[1], roles |-> listed[pair[1]] \cup job.roles]
          OBVIOUS
        <4>2. c \in copies /\ c.id = pair[1] /\ pair[2] \in c.roles
          BY <1>7, <3>1, <3>3, <4>1
        <4> QED
          BY <4>2 DEF Copied
      <3> QED
        BY <3>2, <3>3
    <2> QED
      BY <2>2, <2>3
  <1>11. CASE copies = {}
    <2>1. \A pair \in req[r].owed : Has(pair, users') \/ Later(req[r].jobs, pair)
      BY <1>2, <1>10, <1>11 DEF Copied
    <2> QED
      BY <1>2, <1>8, <1>11, <2>1, JobDone
  <1>12. CASE copies # {}
    <2>1. PICK q : q = [req[r] EXCEPT !.pc = "add.save", !.copies = copies]
      OBVIOUS
    <2>2. /\ q.pc = "add.save" /\ q.copies = copies /\ q.then = req[r].then
          /\ q.id = req[r].id /\ q.owed = req[r].owed /\ q.jobs = req[r].jobs
          /\ q.drop = req[r].drop /\ q.who = req[r].who /\ q.group = req[r].group
      BY <2>1, Known DEF Request
    <2>3. \A c \in copies :
              /\ c.id \in DOMAIN users /\ users[c.id] \subseteq c.roles
              /\ c = [id |-> c.id, roles |-> listed[c.id] \cup job.roles]
      BY <1>7, <1>2, <1>9
    <2>4. Fresh(q, users, groups)
      <3>1. \A c, d \in copies : c.id = d.id => c = d
        BY <2>3
      <3>2. \A role \in q.drop : ~Provides(groups, q.id, q.who, role)
        BY <2>2, Known DEF Current, Fresh
      <3> QED
        BY <2>2, <2>3, <3>1, <3>2 DEF Fresh, Holding
    <2>5. NameFree(q, groups) /\ AtJob(q)
      BY <1>2, <2>2, AtAdd DEF NameFree, AtJob, Removing
    <2>6. Kept(q, users)
      BY <1>2, <1>10, <2>2, Known DEF Current, Kept
    <2> QED
      BY <1>2, <1>8, <1>12, <2>1, <2>4, <2>5, <2>6, GoesOnOnly DEF Current
  <1> QED
    BY <1>11, <1>12

LEMMA AddSavedAlone ==
    ASSUME OneRequest, AllInv, repaired' = repaired, NEW r \in Reqs, AddSaved(r)
    PROVE  AloneInv'
  <1>1. PICK c \in req[r].copies :
          /\ SaveRoles(c.id, c.roles)
          /\ Goto(r, IF req[r].copies = {c} THEN Proceed(req[r], Tail(req[r].jobs))
                     ELSE [req[r] EXCEPT !.copies = @ \ {c}])
    BY DEF AddSaved
  <1>2. req[r].pc = "add.save" /\ UNCHANGED groups
    BY DEF AddSaved
  <1>3. /\ \A d \in req[r].copies : d.id \in DOMAIN users /\ users[d.id] \subseteq d.roles
        /\ \A d \in req[r].copies : d.id = c.id => d = c
    BY <1>1, Known DEF Current, Fresh
  <1>4. /\ DOMAIN users' = DOMAIN users
        /\ \A u \in DOMAIN users : users[u] \subseteq users'[u]
        /\ \A u \in DOMAIN users \ {c.id} : users'[u] = users[u]
        /\ c.roles \subseteq users'[c.id]
    BY <1>1, <1>3 DEF SaveRoles, SetRoles
  <1>5. ASSUME NEW pair \in req[r].owed
        PROVE  \/ Has(pair, users') \/ Later(req[r].jobs, pair)
               \/ Copied(req[r].copies \ {c}, pair)
    <2>1. Has(pair, users) \/ Copied(req[r].copies, pair) \/ Later(req[r].jobs, pair)
      BY <1>2, Known DEF Current, Kept
    <2>2. Has(pair, users) => Has(pair, users')
      BY <1>4 DEF Has
    <2>3. Copied(req[r].copies, pair) => Has(pair, users') \/ Copied(req[r].copies \ {c}, pair)
      BY <1>3, <1>4 DEF Copied, Has
    <2> QED
      BY <2>1, <2>2, <2>3
  <1>6. CASE req[r].copies = {c}
    <2>1. \A pair \in req[r].owed : Has(pair, users') \/ Later(req[r].jobs, pair)
      BY <1>5, <1>6 DEF Copied
    <2> QED
      BY <1>1, <1>2, <1>6, <2>1, JobDone
  <1>7. CASE req[r].copies # {c}
    <2>1. PICK q : q = [req[r] EXCEPT !.copies = @ \ {c}]
      OBVIOUS
    <2>2. /\ q.pc = "add.save" /\ q.copies = req[r].copies \ {c} /\ q.then = req[r].then
          /\ q.id = req[r].id /\ q.owed = req[r].owed /\ q.jobs = req[r].jobs
          /\ q.drop = req[r].drop /\ q.who = req[r].who /\ q.group = req[r].group
      BY <1>2, <2>1, Known DEF Request
    <2>3. Fresh(q, users', groups)
      <3>1. \A d \in q.copies : d.id \in DOMAIN users' /\ users'[d.id] \subseteq d.roles
        BY <1>3, <1>4, <2>2
      <3>2. /\ \A role \in q.drop : ~Provides(groups, q.id, q.who, role)
            /\ \A d, e \in q.copies : d.id = e.id => d = e
        BY <2>2, Known DEF Current, Fresh
      <3> QED
        BY <2>2, <3>1, <3>2 DEF Fresh, Holding
    <2>4. NameFree(q, groups) /\ AtJob(q)
      BY <1>2, <2>2, AtAdd DEF NameFree, AtJob, Removing
    <2>5. Kept(q, users')
      BY <1>2, <1>5, <2>2, Known DEF Current, Kept
    <2> QED
      BY <1>1, <1>2, <1>7, <2>1, <2>3, <2>4, <2>5, GoesOnOnly DEF Current
  <1> QED
    BY <1>6, <1>7

-----------------------------------------------------------------------------
(* RemoveRolesFromMembers.                                                  *)
LEMMA AtRemove ==
    ASSUME AllInv, NEW r \in Reqs, req[r].pc \in Removing
    PROVE  /\ req[r].jobs \in Seq(Job) /\ req[r].jobs # <<>>
           /\ Head(req[r].jobs) \in Job /\ Tail(req[r].jobs) \in Seq(Job)
           /\ Head(req[r].jobs).op = "remove"
           /\ req[r].copies = {} /\ req[r].then # "create.save"
           /\ req[r].then = "delete.delete" => req[r].owed = {}
           /\ Entitled(Head(req[r].jobs)) \cap req[r].owed = {}
           /\ Spared(req[r].jobs, req[r].owed)
           /\ Spared(Tail(req[r].jobs), req[r].owed)
           /\ \A pair \in req[r].owed : Has(pair, users) \/ Ahead(Tail(req[r].jobs), pair)
  <1>1. req[r].jobs \in Seq(Job) /\ req[r].jobs # <<>>
    BY Known DEF Request, Good, Placed, Working, Removing
  <1>2. /\ Head(req[r].jobs).op = "remove" /\ Spared(req[r].jobs, req[r].owed)
        /\ req[r].then = "delete.delete" => req[r].owed = {}
    BY Known DEF Current, AtJob, Kept
  <1>3. req[r].copies = {} /\ req[r].then # "create.save"
    BY Known DEF Removing
  <1>4. \A pair \in req[r].owed : Has(pair, users) \/ Ahead(req[r].jobs, pair)
    BY <1>3, Known DEF Current, Kept, Copied, Removing
  <1>5. \A pair \in req[r].owed : Has(pair, users) \/ Ahead(Tail(req[r].jobs), pair)
    BY <1>1, <1>2, <1>4, Rest
  <1> QED
    BY <1>1, <1>2, <1>3, <1>5, Rest

(* The handler is done with a member.                                       *)
LEMMA MemberDone ==
    ASSUME AllInv, NEW r \in Reqs, req[r].pc \in Removing, NEW user, NEW us,
           \A pair \in req[r].owed : Has(pair, users) => Has(pair, us)
    PROVE  Current(NextMember(req[r], user), us, groups)
  <1>1. PICK job, rest : job = Head(req[r].jobs) /\ rest = Tail(req[r].jobs)
    OBVIOUS
  <1>2. job.members \in SUBSET UserIds /\ job.roles \in SUBSET Roles /\ rest \in Seq(Job)
    BY <1>1, AtRemove DEF Job
  <1>3. PICK first : first = Remove(job.members \ {user}, job.roles)
    OBVIOUS
  <1>4. first \in Seq(Job)
    BY <1>2, <1>3, RemoveJobs
  <1>5. Spared(first, req[r].owed)
    <2>1. ((job.members \ {user}) \X job.roles) \cap req[r].owed = {}
      BY <1>1, AtRemove DEF Entitled
    <2> QED
      BY <1>2, <1>3, <2>1, RemoveSpares
  <1>6. first \o rest \in Seq(Job)
    BY <1>2, <1>4, ConcatProperties
  <1>7. /\ Spared(first \o rest, req[r].owed)
        /\ \A pair \in req[r].owed : Has(pair, us) \/ Ahead(first \o rest, pair)
    BY <1>1, <1>2, <1>4, <1>5, AtRemove, Both
  <1>8. Current(Proceed(req[r], first \o rest), us, groups)
    BY <1>6, <1>7, AtRemove, Known, ProceedCurrent
  <1> QED
    BY <1>1, <1>3, <1>8 DEF NextMember

(* It goes on with the job it is at.                                        *)
LEMMA SameJob ==
    ASSUME AllInv, NEW r \in Reqs, req[r].pc \in Removing, NEW q,
           q.pc \in Removing, q.jobs = req[r].jobs, q.then = req[r].then,
           q.owed = req[r].owed, q.copies = req[r].copies,
           q.who \in Head(req[r].jobs).members,
           q.drop \cup q.check \subseteq Head(req[r].jobs).roles,
           Holding(q) => q.who \in DOMAIN users /\ q.copy = users[q.who],
           \A role \in q.drop : ~Provides(groups, q.id, q.who, role)
    PROVE  Current(q, users, groups)
  <1>1. NameFree(q, groups) /\ AtJob(q)
    BY AtRemove DEF NameFree, AtJob, Removing
  <1>2. Fresh(q, users, groups)
    BY AtRemove DEF Fresh
  <1>3. Kept(q, users)
    <2>1. \A pair \in q.owed : Has(pair, users) \/ Ahead(q.jobs, pair)
      BY AtRemove, Known DEF Current, Kept, Copied, Removing
    <2> QED
      BY <2>1, AtRemove DEF Kept, Removing
  <1> QED
    BY <1>1, <1>2, <1>3 DEF Current

LEMMA RemoveCountedAlone ==
    ASSUME OneRequest, AllInv, repaired' = repaired, NEW r \in Reqs, RemoveCounted(r)
    PROVE  AloneInv'
  <1> DEFINE local   == req[r]
             job     == Head(local.jobs)
             members == IF local.who = None THEN job.members ELSE {local.who}
             roles   == IF local.who = None THEN job.roles ELSE local.check
  <1>1. local.pc = "remove.count" /\ UNCHANGED <<users, groups>>
    BY DEF RemoveCounted
  <1>2. PICK user \in members, role \in roles :
          LET left == roles \ {role}
              kept == ProvidedByOther(local.id, user, role)
              drop == IF kept THEN local.drop ELSE local.drop \cup {role}
              here == [local EXCEPT !.who = user, !.check = left, !.drop = drop]
          IN  Goto(r, IF ~kept /\ local.drop = {} THEN [here EXCEPT !.pc = "remove.read"]
                      ELSE IF left # {} THEN here
                      ELSE IF drop # {} THEN [here EXCEPT !.pc = "remove.save"]
                      ELSE NextMember(local, user))
    BY DEF RemoveCounted
  <1> DEFINE kept == ProvidedByOther(local.id, user, role)
  <1>3. PICK left, drop :
          /\ left = roles \ {role}
          /\ drop = IF kept THEN local.drop ELSE local.drop \cup {role}
    OBVIOUS
  <1>4. PICK here : here = [local EXCEPT !.who = user, !.check = left, !.drop = drop]
    OBVIOUS
  <1>5. PICK read, save : /\ read = [here EXCEPT !.pc = "remove.read"]
                          /\ save = [here EXCEPT !.pc = "remove.save"]
    OBVIOUS
  <1>6. Goto(r, IF ~kept /\ local.drop = {} THEN read ELSE IF left # {} THEN here
                ELSE IF drop # {} THEN save ELSE NextMember(local, user))
    BY <1>2, <1>3, <1>4, <1>5
  <1>7. /\ local.who # None =>
               local.who \in job.members /\ local.drop \cup local.check \subseteq job.roles
        /\ local.drop # {} =>
               /\ local.who # None /\ local.who \in DOMAIN users
               /\ local.copy = users[local.who]
        /\ \A d \in local.drop : ~Provides(groups, local.id, local.who, d)
    <2>1. None \notin DOMAIN users
      BY GroupsAssumption DEF AllInv, IInv, TypeOK
    <2> QED
      BY <1>1, <2>1, Known DEF Current, AtJob, Fresh, Holding, Removing
  <1>8. /\ user \in job.members /\ drop \cup left \subseteq job.roles
        /\ local.drop # {} => user = local.who
    BY <1>2, <1>3, <1>7
  <1>9. \A d \in drop : ~Provides(groups, local.id, user, d)
    BY <1>3, <1>7, <1>8 DEF ProvidedByOther, Provides
  <1>10. /\ here.pc = "remove.count" /\ read.pc = "remove.read" /\ save.pc = "remove.save"
         /\ \A q \in {here, read, save} :
               /\ q.jobs = local.jobs /\ q.then = local.then /\ q.owed = local.owed
               /\ q.copies = local.copies /\ q.id = local.id /\ q.copy = local.copy
               /\ q.who = user /\ q.drop = drop /\ q.check = left
    BY <1>1, <1>4, <1>5, Known DEF Request
  <1>11. ASSUME NEW q \in {here, read, save},
                Holding(q) => q.who \in DOMAIN users /\ q.copy = users[q.who]
         PROVE  Current(q, users, groups)
    <2>1. /\ q.jobs = local.jobs /\ q.then = local.then /\ q.owed = local.owed
          /\ q.copies = local.copies /\ q.id = local.id
          /\ q.who = user /\ q.drop = drop /\ q.check = left
      BY <1>10
    <2>2. q.pc \in Removing /\ local.pc \in Removing
      BY <1>1, <1>10 DEF Removing
    <2>3. /\ q.who \in job.members /\ q.drop \cup q.check \subseteq job.roles
          /\ \A d \in q.drop : ~Provides(groups, q.id, q.who, d)
      BY <1>8, <1>9, <2>1
    <2> QED
      BY <1>11, <2>1, <2>2, <2>3, SameJob
  <1>12. CASE ~kept /\ local.drop = {}
    <2>1. ~Holding(read)
      BY <1>10 DEF Holding
    <2> QED
      BY <1>1, <1>6, <1>11, <1>12, <2>1, GoesOnOnly
  <1>13. CASE ~(~kept /\ local.drop = {}) /\ (left # {} \/ drop # {})
    <2>1. drop # {} => user \in DOMAIN users /\ local.copy = users[user]
      BY <1>3, <1>7, <1>8, <1>13
    <2>2. \A q \in {here, save} : q = here \/ drop # {} =>
              (Holding(q) => q.who \in DOMAIN users /\ q.copy = users[q.who])
      BY <1>10, <2>1 DEF Holding
    <2>3. Current(here, users, groups) /\ (drop # {} => Current(save, users, groups))
      BY <1>11, <2>2
    <2> QED
      BY <1>1, <1>6, <1>13, <2>3, GoesOnOnly
  <1>14. CASE ~(~kept /\ local.drop = {}) /\ left = {} /\ drop = {}
    <2>1. Current(NextMember(local, user), users, groups)
      BY <1>1, MemberDone DEF Removing
    <2> QED
      BY <1>1, <1>6, <1>14, <2>1, GoesOnOnly
  <1> QED
    BY <1>12, <1>13, <1>14

LEMMA RemoveReadAlone ==
    ASSUME OneRequest, AllInv, repaired' = repaired, NEW r \in Reqs, RemoveRead(r)
    PROVE  AloneInv'
  <1>1. PICK q : q = [req[r] EXCEPT
                        !.pc = IF req[r].check = {} THEN "remove.save" ELSE "remove.count",
                        !.copy = users[req[r].who]]
    OBVIOUS
  <1>2. req[r].pc = "remove.read" /\ req[r].who \in DOMAIN users /\ Goto(r, q)
          /\ UNCHANGED <<users, groups>>
    BY <1>1 DEF RemoveRead
  <1>3. /\ q.pc \in Removing /\ q.copy = users[req[r].who]
        /\ q.jobs = req[r].jobs /\ q.then = req[r].then /\ q.owed = req[r].owed
        /\ q.copies = req[r].copies /\ q.id = req[r].id /\ q.who = req[r].who
        /\ q.drop = req[r].drop /\ q.check = req[r].check
    BY <1>1, Known DEF Request, Removing
  <1>4. /\ req[r].who \in Head(req[r].jobs).members
        /\ req[r].drop \cup req[r].check \subseteq Head(req[r].jobs).roles
        /\ \A d \in req[r].drop : ~Provides(groups, req[r].id, req[r].who, d)
    BY <1>2, Known DEF Good, Placed, Current, AtJob, Fresh, Removing
  <1>5. Current(q, users, groups)
    BY <1>2, <1>3, <1>4, SameJob DEF Removing
  <1> QED
    BY <1>2, <1>5, GoesOnOnly

(* What a save takes away, and from whom.                                   *)
LEMMA Taken ==
    ASSUME AllInv, NEW r \in Reqs, RemoveSaved(r)
    PROVE  /\ DOMAIN users' = DOMAIN users
           /\ \A u \in DOMAIN users \ {req[r].who} : users'[u] = users[u]
           /\ \A role \in users[req[r].who] \ users'[req[r].who] :
                 /\ ~Provides(groups, req[r].id, req[r].who, role)
                 /\ <<req[r].who, role>> \notin req[r].owed
  <1>1. req[r].pc = "remove.save" /\ SaveRoles(req[r].who, req[r].copy \ req[r].drop)
    BY DEF RemoveSaved
  <1>2. /\ req[r].who \in DOMAIN users /\ req[r].copy = users[req[r].who]
        /\ \A d \in req[r].drop : ~Provides(groups, req[r].id, req[r].who, d)
    BY <1>1, Known DEF Current, Fresh, Holding
  <1>3. /\ DOMAIN users' = DOMAIN users
        /\ \A u \in DOMAIN users \ {req[r].who} : users'[u] = users[u]
        /\ users[req[r].who] \ users'[req[r].who] \subseteq req[r].drop
    BY <1>1, <1>2 DEF SaveRoles, SetRoles
  <1>4. ASSUME NEW role \in req[r].drop
        PROVE  <<req[r].who, role>> \notin req[r].owed
    <2>1. /\ req[r].who \in Head(req[r].jobs).members
          /\ role \in Head(req[r].jobs).roles
      BY <1>1, Known DEF Good, Placed, Current, AtJob, Removing
    <2>2. <<req[r].who, role>> \in Entitled(Head(req[r].jobs))
      BY <2>1 DEF Entitled
    <2> QED
      BY <1>1, <2>2, AtRemove DEF Removing
  <1> QED
    BY <1>2, <1>3, <1>4

LEMMA RemoveSavedAlone ==
    ASSUME OneRequest, AllInv, repaired' = repaired, NEW r \in Reqs, RemoveSaved(r)
    PROVE  AloneInv'
  <1>1. req[r].pc \in Removing /\ Goto(r, NextMember(req[r], req[r].who)) /\ UNCHANGED groups
    BY DEF RemoveSaved, Removing
  <1>2. ASSUME NEW pair \in req[r].owed, Has(pair, users)
        PROVE  Has(pair, users')
    <2>1. pair = <<pair[1], pair[2]>>
      BY Known DEF Request
    <2> QED
      BY <1>2, <2>1, Taken DEF Has
  <1>3. Current(NextMember(req[r], req[r].who), users', groups)
    BY <1>1, <1>2, MemberDone
  <1> QED
    BY <1>1, <1>3, GoesOnOnly

-----------------------------------------------------------------------------
(* The inductive invariant.                                                 *)
LEMMA InitAlone ==
    Init => AloneInv
  <1> SUFFICES ASSUME Init
               PROVE  AloneInv
    OBVIOUS
  <1>1. \A r \in Reqs : req[r] = Idle
    BY DEF Init
  <1>2. UniqueNames
    BY DEF Init, UniqueNames
  <1> QED
    BY <1>1, <1>2, IdleCurrent DEF AloneInv

LEMMA NothingRepaired ==
    ASSUME [Next]_vars
    PROVE  repaired' = repaired
  BY DEF Next, vars, Step, CreateGroup, CreateChecked, CreateSaved, UpdateGroup, UpdateRead,
     UpdateChecked, UpdateSaved, UpdateReturned, UpdatePanics, DeleteGroup, DeleteRead,
     DeleteDeleted, AddListed, AddSaved, ListPanics, RemoveCounted, RemoveRead, RemoveSaved,
     ProfileRead, ProfileSaved, Fail, Exit, Register, Crash

LEMMA StepAlone ==
    ASSUME OneRequest, AllInv, [Next]_vars
    PROVE  AllInv'
  <1> SUFFICES AloneInv'
    BY StepSound DEF AllInv
  <1>1. repaired' = repaired
    BY NothingRepaired
  <1>2. ASSUME NEW r \in Reqs, Step(r)
        PROVE  AloneInv'
    <2>1. CASE CreateGroup(r) \/ UpdateGroup(r) \/ DeleteGroup(r) \/ ProfileRead(r)
      BY <1>1, <2>1, BeginAlone
    <2>2. CASE CreateChecked(r) \/ CreateSaved(r)
      BY <1>1, <2>2, CreateCheckedAlone, CreateSavedAlone
    <2>3. CASE UpdateRead(r) \/ UpdateChecked(r) \/ UpdateSaved(r)
      BY <1>1, <2>3, UpdateReadAlone, UpdateCheckedAlone, UpdateSavedAlone
    <2>4. CASE DeleteRead(r) \/ UpdateReturned(r) \/ DeleteDeleted(r) \/ ProfileSaved(r)
      BY <1>1, <2>4, DeleteReadAlone, EndsAlone
    <2>5. CASE AddListed(r) \/ AddSaved(r)
      BY <1>1, <2>5, AddListedAlone, AddSavedAlone
    <2>6. CASE RemoveCounted(r) \/ RemoveRead(r) \/ RemoveSaved(r)
      BY <1>1, <2>6, RemoveCountedAlone, RemoveReadAlone, RemoveSavedAlone
    <2>7. CASE Fail(r) \/ ListPanics(r) \/ UpdatePanics(r)
      BY <1>1, <2>7, FailAlone, ExitAlone DEF ListPanics, UpdatePanics
    <2> QED
      BY <1>2, <2>1, <2>2, <2>3, <2>4, <2>5, <2>6, <2>7 DEF Step
  <1>3. CASE Register
    BY <1>1, <1>3, RegisterAlone
  <1>4. CASE Crash
    BY <1>1, <1>4, ExitAlone DEF Crash
  <1>5. CASE UNCHANGED vars
    <2>1. UniqueNames'
      BY <1>5 DEF vars, AllInv, AloneInv, UniqueNames
    <2>2. req' = req /\ users' = users /\ groups' = groups
      BY <1>5 DEF vars
    <2>3. \A r \in Reqs : Current(req[r], users, groups)
      BY Known
    <2>4. \A r \in Reqs : Current(req'[r], users', groups')
      BY <2>2, <2>3
    <2> QED
      BY <1>1, <2>1, <2>4, CurrentNext DEF AloneInv
  <1> QED
    BY <1>2, <1>3, <1>4, <1>5 DEF Next

LEMMA AloneInvariance == OneRequest /\ Spec => []AllInv
  <1>1. Init => AllInv
    BY InitSound, InitAlone DEF AllInv
  <1>2. OneRequest /\ AllInv /\ [Next]_vars => (OneRequest /\ AllInv)'
    <2>1. OneRequest => OneRequest'
      BY DEF OneRequest
    <2> QED
      BY <2>1, StepAlone
  <1> QED
    BY <1>1, <1>2, PTL DEF Spec

(* One request at a time, no two groups get one name (groups.go:92-94):     *)
(* between the count and the save no group changes.                         *)
THEOREM NamesStayUnique == OneRequest /\ Spec => []UniqueNames
  <1>1. AllInv => UniqueNames
    BY DEF AllInv, AloneInv
  <1> QED
    BY AloneInvariance, <1>1, PTL

(* One request at a time, no user loses a role that another group provides  *)
(* (groups.go:134-150), neither by the roles taken away, each of which was  *)
(* looked up, nor by a copy that is saved.                                  *)
THEOREM NoRoleLost == OneRequest /\ Spec => NoRoleLostWhileProvided
  <1> DEFINE Keeps ==
          \A u \in DOMAIN users : \A role \in users[u] \ users'[u] : \A g \in DOMAIN groups :
              u \in groups[g].members /\ role \in groups[g].roles =>
                  \E r \in Reqs : RemoveSaved(r) /\ req[r].id = g
  <1>1. ASSUME AllInv, NEW r \in Reqs, RemoveSaved(r)
        PROVE  Keeps
    BY <1>1, Taken DEF Provides
  <1>2. ASSUME AllInv, NEW r \in Reqs, AddSaved(r)
        PROVE  Keeps
    <2>1. PICK c \in req[r].copies : SaveRoles(c.id, c.roles)
      BY <1>2 DEF AddSaved
    <2>2. c.id \in DOMAIN users /\ users[c.id] \subseteq c.roles
      BY Known, <1>2 DEF Current, Fresh
    <2>3. \A u \in DOMAIN users : users[u] \subseteq users'[u]
      BY <2>1, <2>2 DEF SaveRoles, SetRoles
    <2> QED
      BY <2>3
  <1>3. ASSUME AllInv, NEW r \in Reqs, ProfileSaved(r)
        PROVE  Keeps
    <2>1. \/ req[r].who # None /\ SaveRoles(req[r].who, req[r].copy)
          \/ \E u \in UserIds \ DOMAIN users : SaveRoles(u, req[r].copy)
      BY <1>3 DEF ProfileSaved
    <2>2. req[r].who # None => req[r].who \in DOMAIN users /\ req[r].copy = users[req[r].who]
      BY <1>3, Known DEF ProfileSaved, Current, Fresh, Holding
    <2>3. \A u \in DOMAIN users : users[u] = users'[u]
      BY <2>1, <2>2 DEF SaveRoles, SetRoles
    <2> QED
      BY <2>3
  <1>4. ASSUME AllInv, NEW r \in Reqs, DeleteDeleted(r)
        PROVE  Keeps
    <2>1. req[r].id \notin DOMAIN users
      BY <1>4, Known, GroupsAssumption DEF Request, AllInv, IInv, TypeOK
    <2>2. \A u \in DOMAIN users : users[u] = users'[u]
      BY <1>4, <2>1 DEF DeleteDeleted
    <2> QED
      BY <2>2
  <1>5. ASSUME AllInv, Register
        PROVE  Keeps
    <2>1. \A u \in DOMAIN users : users[u] = users'[u]
      BY <1>5 DEF Register, SaveRoles
    <2> QED
      BY <2>1
  <1>6. ASSUME UNCHANGED users
        PROVE  Keeps
    BY <1>6
  <1>7. ASSUME AllInv, [Next]_vars
        PROVE  Keeps
    <2> HIDE DEF Keeps
    <2>1. ASSUME NEW r \in Reqs, Step(r)
          PROVE  \/ UNCHANGED users \/ RemoveSaved(r) \/ AddSaved(r)
                 \/ ProfileSaved(r) \/ DeleteDeleted(r)
      BY <2>1 DEF Step, CreateGroup, CreateChecked, CreateSaved, UpdateGroup, UpdateRead,
         UpdateChecked, UpdateSaved, UpdateReturned, UpdatePanics, DeleteGroup, DeleteRead,
         AddListed, ListPanics, RemoveCounted, RemoveRead, ProfileRead, Fail, Exit
    <2>2. Crash => UNCHANGED users
      BY DEF Crash, Exit
    <2>3. UNCHANGED vars => UNCHANGED users
      BY DEF vars
    <2> QED
      BY <1>1, <1>2, <1>3, <1>4, <1>5, <1>6, <1>7, <2>1, <2>2, <2>3 DEF Next
  <1>8. AllInv /\ [Next]_vars => [Keeps]_vars
    BY <1>7
  <1> QED
    BY AloneInvariance, <1>8, PTL DEF Spec, NoRoleLostWhileProvided

(* One request at a time, all that members were to gain they have when      *)
(* CreateGroup saves the group and when UpdateGroup returns it, except      *)
(* where members are listed with the roles of others (groups.go:99,         *)
(* 191-196, 254-282).                                                       *)
THEOREM GainsArrive == OneRequest /\ Spec => GainedRolesArrive
  <1>1. ASSUME AllInv, NEW r \in Reqs, CreateSaved(r) \/ UpdateReturned(r), ~Leaky,
               NEW gain \in req[r].owed
        PROVE  gain[2] \in users[gain[1]]
    <2>1. req[r].pc \in {"create.save", "update.done"}
      BY <1>1 DEF CreateSaved, UpdateReturned
    <2>2. req[r].jobs = <<>> /\ req[r].copies = {}
      <3>1. AtJob(req[r]) /\ (req[r].pc # "add.save" => req[r].copies = {})
        BY <1>1, Known DEF Current
      <3> QED
        BY <2>1, <3>1 DEF AtJob
    <2> QED
      BY <1>1, <2>1, <2>2, Known, NothingAhead DEF Current, Kept, Has, Copied
  <1>2. AllInv /\ [Next]_vars =>
            [\A r \in Reqs : (CreateSaved(r) \/ UpdateReturned(r)) /\ ~Leaky =>
                \A gain \in req[r].owed : gain[2] \in users[gain[1]]]_vars
    BY <1>1
  <1> QED
    BY AloneInvariance, <1>2, PTL DEF Spec, GainedRolesArrive

-----------------------------------------------------------------------------
(* What a handler knows of the promise (ImplementsMembership). While it     *)
(* has a group to save there is an administrator; the group it is changing  *)
(* exists; CreateGroup owes its members all that the group entitles them to. *)
Seated(q, us, gs) ==
    /\ \/ q.pc \in {"create.check", "update.read", "update.check", "update.save"}
       \/ q.then = "create.save"
       => \E u \in DOMAIN us : "admin" \in us[u]
    /\ \/ q.pc \in {"update.check", "update.save"}
       \/ q.then \in {"update.done", "delete.delete"}
       => q.id \in DOMAIN gs
    /\ q.pc \in Working \cup {"update.save"} => q.then # "idle"
    /\ q.then = "create.save" => q.owed = Entitled(q.group)

AllSeated ==
    /\ users = [u \in DOMAIN users |-> users[u]]
    /\ \A r \in Reqs : Seated(req[r], users, groups)

MembershipInv == AllInv /\ AllSeated

LEMMA IdleSeated ==
    ASSUME NEW us, NEW gs
    PROVE  Seated(Idle, us, gs)
  BY DEF Seated, Idle, Working

LEMMA TakesSeat ==
    ASSUME MembershipInv, OneRequest, NEW r \in Reqs, NEW q, Goto(r, q),
           Seated(q, users', groups'), users' = [u \in DOMAIN users' |-> users'[u]]
    PROVE  AllSeated'
  <1>1. req'[r] = q
    BY DEF Goto, MembershipInv, AllInv, IInv, TypeOK
  <1>2. \A s \in Reqs : s = r
    BY DEF OneRequest
  <1> QED
    BY <1>1, <1>2 DEF AllSeated

LEMMA TakesSeatOnly ==
    ASSUME MembershipInv, OneRequest, NEW r \in Reqs, NEW q, Goto(r, q),
           UNCHANGED users, Seated(q, users, groups')
    PROVE  AllSeated'
  BY TakesSeat DEF MembershipInv, AllSeated

LEMMA ProceedSeated ==
    ASSUME NEW local \in Request, local.then \in Thens \ {"idle"},
           NEW jobs \in Seq(Job), NEW us, NEW gs,
           local.then = "create.save" =>
               /\ \E u \in DOMAIN us : "admin" \in us[u]
               /\ local.owed = Entitled(local.group),
           local.then # "create.save" => local.id \in DOMAIN gs
    PROVE  Seated(Proceed(local, jobs), us, gs)
  <1>1. PICK next : next = Proceed(local, jobs)
    OBVIOUS
  <1>2. /\ next.pc = IF jobs = <<>> THEN local.then
                     ELSE IF Head(jobs).op = "add" THEN "add.list" ELSE "remove.count"
        /\ next.then = local.then /\ next.owed = local.owed
        /\ next.group = local.group /\ next.id = local.id
    BY <1>1 DEF Proceed, Request
  <1>3. next.pc \in Thens \cup {"add.list", "remove.count"}
    BY <1>2
  <1>4. next.pc \notin {"create.check", "update.read", "update.check", "update.save"}
    BY <1>3 DEF Thens
  <1>5. Seated(next, us, gs)
    BY <1>2, <1>4 DEF Seated, Thens
  <1> QED
    BY <1>1, <1>5

(* A handler that works on its jobs, when those left are jobs.              *)
LEMMA WorksOn ==
    ASSUME MembershipInv, NEW r \in Reqs, req[r].pc \in Working,
           NEW jobs \in Seq(Job), NEW us,
           \A u \in DOMAIN users : "admin" \in users[u] /\ req[r].then = "create.save" =>
               u \in DOMAIN us /\ "admin" \in us[u]
    PROVE  Seated(Proceed(req[r], jobs), us, groups)
  <1>1. Seated(req[r], users, groups) /\ req[r].then \in Thens /\ req[r] \in Request
    BY Known DEF MembershipInv, AllSeated
  <1>2. /\ req[r].then # "idle"
        /\ req[r].then = "create.save" =>
               /\ \E u \in DOMAIN us : "admin" \in us[u]
               /\ req[r].owed = Entitled(req[r].group)
        /\ req[r].then # "create.save" => req[r].id \in DOMAIN groups
    BY <1>1 DEF Seated, Thens
  <1> QED
    BY <1>1, <1>2, ProceedSeated

(* It stays with a job.                                                     *)
LEMMA StaysSeated ==
    ASSUME MembershipInv, NEW r \in Reqs, req[r].pc \in Working,
           NEW q, q.pc \in Working, q.then = req[r].then, q.id = req[r].id,
           q.owed = req[r].owed, q.group = req[r].group, NEW us,
           \A u \in DOMAIN users : "admin" \in users[u] /\ req[r].then = "create.save" =>
               u \in DOMAIN us /\ "admin" \in us[u]
    PROVE  Seated(q, us, groups)
  <1>1. Seated(req[r], users, groups)
    BY DEF MembershipInv, AllSeated
  <1> QED
    BY <1>1 DEF Seated, Working

-----------------------------------------------------------------------------
LEMMA BeginSeated ==
    ASSUME MembershipInv, OneRequest, NEW r \in Reqs,
           CreateGroup(r) \/ UpdateGroup(r) \/ DeleteGroup(r) \/ ProfileRead(r)
    PROVE  AllSeated'
  <1> DEFINE New(q) ==
          /\ q.then = "idle"
          /\ q.pc \in {"create.check", "update.read"} => Admin
          /\ q.pc \in {"create.check", "update.read", "delete.read", "profile.save"}
  <1>1. PICK q : Goto(r, q) /\ New(q)
    <2>1. CASE CreateGroup(r)
      <3>1. PICK g \in NewGroups : Goto(r, [Idle EXCEPT !.pc = "create.check", !.group = g])
        BY <2>1 DEF CreateGroup
      <3>2. New([Idle EXCEPT !.pc = "create.check", !.group = g])
        BY <2>1 DEF Idle, CreateGroup
      <3> QED
        BY <3>1, <3>2
    <2>2. CASE UpdateGroup(r)
      <3>1. PICK id \in GroupIds, edit \in GroupEdits :
              Goto(r, [Idle EXCEPT !.pc = "update.read", !.id = id, !.edit = edit])
        BY <2>2 DEF UpdateGroup
      <3>2. New([Idle EXCEPT !.pc = "update.read", !.id = id, !.edit = edit])
        BY <2>2 DEF Idle, UpdateGroup
      <3> QED
        BY <3>1, <3>2
    <2>3. CASE DeleteGroup(r)
      <3>1. PICK id \in GroupIds : Goto(r, [Idle EXCEPT !.pc = "delete.read", !.id = id])
        BY <2>3 DEF DeleteGroup
      <3>2. New([Idle EXCEPT !.pc = "delete.read", !.id = id])
        BY DEF Idle
      <3> QED
        BY <3>1, <3>2
    <2>4. CASE ProfileRead(r)
      <3>1. PICK u \in DOMAIN users : \E who \in {u, None} :
              Goto(r, [Idle EXCEPT !.pc = "profile.save", !.who = who, !.copy = users[u]])
        BY <2>4 DEF ProfileRead
      <3>2. PICK who \in {u, None} :
              Goto(r, [Idle EXCEPT !.pc = "profile.save", !.who = who, !.copy = users[u]])
        BY <3>1
      <3>3. New([Idle EXCEPT !.pc = "profile.save", !.who = who, !.copy = users[u]])
        BY DEF Idle
      <3> QED
        BY <3>2, <3>3
    <2> QED
      BY <2>1, <2>2, <2>3, <2>4
  <1>2. UNCHANGED <<users, groups>>
    BY DEF CreateGroup, UpdateGroup, DeleteGroup, ProfileRead
  <1>3. Seated(q, users, groups)
    BY <1>1 DEF Seated, Working, Admin
  <1> QED
    BY <1>1, <1>2, <1>3, TakesSeatOnly

LEMMA CreateCheckedSeated ==
    ASSUME MembershipInv, OneRequest, NEW r \in Reqs, CreateChecked(r)
    PROVE  AllSeated'
  <1>1. PICK g : g = req[r].group
    OBVIOUS
  <1>2. PICK q : q = [req[r] EXCEPT !.then = "create.save", !.owed = Entitled(g)]
    OBVIOUS
  <1>3. g \in Draft /\ req[r] \in Request /\ Entitled(g) \subseteq UserIds \X Roles
    BY <1>1, Known DEF MembershipInv, Request, Draft, Entitled
  <1>4. q \in Request /\ q.then = "create.save" /\ q.owed = Entitled(q.group)
    BY <1>1, <1>2, <1>3 DEF Request, Pcs
  <1>5. Add(g.members, g.roles) \in Seq(Job)
    BY <1>3, AddJobs DEF Draft
  <1>6. \E u \in DOMAIN users : "admin" \in users[u]
    BY DEF CreateChecked, MembershipInv, AllSeated, Seated
  <1>7. Seated(Proceed(q, Add(g.members, g.roles)), users, groups)
    BY <1>4, <1>5, <1>6, ProceedSeated DEF Thens
  <1>8. Goto(r, Proceed(q, Add(g.members, g.roles))) /\ UNCHANGED <<users, groups>>
    BY <1>1, <1>2 DEF CreateChecked
  <1> QED
    BY <1>7, <1>8, TakesSeatOnly

LEMMA UpdateReadSeated ==
    ASSUME MembershipInv, OneRequest, NEW r \in Reqs, UpdateRead(r)
    PROVE  AllSeated'
  <1>1. PICK new, gain, jobs :
          Goto(r, [req[r] EXCEPT !.pc = "update.check", !.edit = None, !.group = new,
                                 !.owed = gain, !.jobs = jobs])
    BY DEF UpdateRead
  <1>2. PICK q : q = [req[r] EXCEPT !.pc = "update.check", !.edit = None, !.group = new,
                                    !.owed = gain, !.jobs = jobs]
    OBVIOUS
  <1>3. q.pc = "update.check" /\ q.then = req[r].then /\ q.id = req[r].id
    BY <1>2, Known DEF Request, MembershipInv
  <1>4. req[r].pc = "update.read" /\ req[r].id \in DOMAIN groups /\ UNCHANGED <<users, groups>>
    BY DEF UpdateRead
  <1>5. req[r].then = "idle"
    BY <1>4, Known DEF MembershipInv, Current, AtJob
  <1>6. \E u \in DOMAIN users : "admin" \in users[u]
    BY <1>4 DEF MembershipInv, AllSeated, Seated
  <1>7. Seated(q, users, groups)
    BY <1>3, <1>4, <1>5, <1>6 DEF Seated, Working
  <1> QED
    BY <1>1, <1>2, <1>4, <1>7, TakesSeatOnly

LEMMA UpdateCheckedSeated ==
    ASSUME MembershipInv, OneRequest, NEW r \in Reqs, UpdateChecked(r)
    PROVE  AllSeated'
  <1>1. PICK q : q = [req[r] EXCEPT !.pc = "update.save", !.then = "update.done"]
    OBVIOUS
  <1>2. q.pc = "update.save" /\ q.then = "update.done" /\ q.id = req[r].id
    BY <1>1, Known DEF Request, MembershipInv
  <1>3. req[r].pc = "update.check" /\ Goto(r, q) /\ UNCHANGED <<users, groups>>
    BY <1>1 DEF UpdateChecked
  <1>4. (\E u \in DOMAIN users : "admin" \in users[u]) /\ req[r].id \in DOMAIN groups
    BY <1>3 DEF MembershipInv, AllSeated, Seated
  <1>5. Seated(q, users, groups)
    BY <1>2, <1>4 DEF Seated, Working
  <1> QED
    BY <1>3, <1>5, TakesSeatOnly

LEMMA UpdateSavedSeated ==
    ASSUME MembershipInv, OneRequest, NEW r \in Reqs, UpdateSaved(r)
    PROVE  AllSeated'
  <1>1. req[r].pc = "update.save" /\ UNCHANGED users
    BY DEF UpdateSaved
  <1>2. PICK q : /\ q = req[r] \/ q = [req[r] EXCEPT !.saved = TRUE]
                 /\ Goto(r, Proceed(q, req[r].jobs))
    BY DEF UpdateSaved
  <1>3. q \in Request /\ q.then = req[r].then /\ q.id = req[r].id
    BY <1>2, Known DEF Request, MembershipInv
  <1>4. req[r].id \in DOMAIN groups'
    <2>1. req[r].id \in DOMAIN groups
      BY <1>1 DEF MembershipInv, AllSeated, Seated
    <2> QED
      BY <2>1 DEF UpdateSaved, SaveGroup
  <1>5. req[r].then \in Thens /\ req[r].then # "create.save" /\ req[r].jobs \in Seq(Job)
    BY <1>1, Known DEF Request, MembershipInv
  <1>6. req[r].then # "idle"
    BY <1>1 DEF MembershipInv, AllSeated, Seated
  <1>7. Seated(Proceed(q, req[r].jobs), users, groups')
    BY <1>3, <1>4, <1>5, <1>6, ProceedSeated
  <1> QED
    BY <1>1, <1>2, <1>7, TakesSeatOnly

LEMMA DeleteReadSeated ==
    ASSUME MembershipInv, OneRequest, NEW r \in Reqs, DeleteRead(r)
    PROVE  AllSeated'
  <1>1. PICK g : g = groups[req[r].id]
    OBVIOUS
  <1>2. PICK q : q = [req[r] EXCEPT !.then = "delete.delete"]
    OBVIOUS
  <1>3. /\ req[r].id \in DOMAIN groups /\ UNCHANGED <<users, groups>>
        /\ Goto(r, Proceed(q, Remove(g.members, g.roles)))
    BY <1>1, <1>2 DEF DeleteRead
  <1>4. g.members \in SUBSET UserIds /\ g.roles \in SUBSET Roles
    BY <1>1, <1>3 DEF MembershipInv, AllInv, IInv, TypeOK, Group, Draft
  <1>5. q \in Request /\ q.then = "delete.delete" /\ q.id = req[r].id
    <2>1. req[r] \in Request /\ "delete.delete" \in Pcs
      BY Known DEF Pcs, MembershipInv
    <2> QED
      BY <1>2, <2>1 DEF Request
  <1>6. Remove(g.members, g.roles) \in Seq(Job)
    BY <1>4, RemoveJobs
  <1>7. Seated(Proceed(q, Remove(g.members, g.roles)), users, groups)
    BY <1>3, <1>5, <1>6, ProceedSeated DEF Thens
  <1> QED
    BY <1>3, <1>7, TakesSeatOnly

LEMMA ReturnSeated ==
    ASSUME MembershipInv, OneRequest, NEW r \in Reqs, Return(r),
           users' = [u \in DOMAIN users' |-> users'[u]]
    PROVE  AllSeated'
  BY IdleSeated, TakesSeat DEF Return

LEMMA SavedIsFunction ==
    ASSUME NEW id, NEW roles, SaveRoles(id, roles)
    PROVE  users' = [u \in DOMAIN users' |-> users'[u]]
  BY DEF SaveRoles

LEMMA EndsSeated ==
    ASSUME MembershipInv, OneRequest, NEW r \in Reqs,
           CreateSaved(r) \/ UpdateReturned(r) \/ DeleteDeleted(r) \/ ProfileSaved(r)
    PROVE  AllSeated'
  <1>1. Return(r)
    BY DEF CreateSaved, UpdateReturned, DeleteDeleted, ProfileSaved
  <1>2. users' = [u \in DOMAIN users' |-> users'[u]]
    <2>1. CASE UNCHANGED users
      BY <2>1 DEF MembershipInv, AllSeated
    <2>2. CASE DeleteDeleted(r)
      BY <2>2 DEF DeleteDeleted
    <2>3. CASE ProfileSaved(r)
      <3>1. \E id : SaveRoles(id, req[r].copy)
        BY <2>3 DEF ProfileSaved
      <3> QED
        BY <3>1, SavedIsFunction
    <2> QED
      BY <2>1, <2>2, <2>3 DEF CreateSaved, UpdateReturned
  <1> QED
    BY <1>1, <1>2, ReturnSeated

LEMMA AddSeated ==
    ASSUME MembershipInv, OneRequest, NEW r \in Reqs, AddListed(r) \/ AddSaved(r)
    PROVE  AllSeated'
  <1>1. req[r].pc \in Working /\ UNCHANGED groups /\ req[r] \in Request
    BY Known DEF AddListed, AddSaved, Working, MembershipInv
  <1>2. PICK copies :
          Goto(r, Proceed(req[r], Tail(req[r].jobs)))
            \/ Goto(r, [req[r] EXCEPT !.pc = "add.save", !.copies = copies])
    <2>1. CASE AddListed(r)
      <3>1. PICK listed, copies :
              Goto(r, IF copies = {} THEN Proceed(req[r], Tail(req[r].jobs))
                      ELSE [req[r] EXCEPT !.pc = "add.save", !.copies = copies])
        BY <2>1 DEF AddListed
      <3> QED
        BY <3>1
    <2>2. CASE AddSaved(r)
      <3>1. PICK c \in req[r].copies :
              Goto(r, IF req[r].copies = {c} THEN Proceed(req[r], Tail(req[r].jobs))
                      ELSE [req[r] EXCEPT !.copies = @ \ {c}])
        BY <2>2 DEF AddSaved
      <3>2. [req[r] EXCEPT !.copies = @ \ {c}]
              = [req[r] EXCEPT !.pc = "add.save", !.copies = req[r].copies \ {c}]
        BY <1>1, <2>2 DEF AddSaved, Request
      <3> QED
        BY <3>1, <3>2
    <2> QED
      BY <2>1, <2>2
  <1>3. /\ users' = [u \in DOMAIN users' |-> users'[u]]
        /\ \A u \in DOMAIN users : u \in DOMAIN users' /\ users[u] \subseteq users'[u]
    <2>1. CASE AddListed(r)
      BY <2>1 DEF AddListed, MembershipInv, AllSeated
    <2>2. CASE AddSaved(r)
      <3>1. PICK c \in req[r].copies : SaveRoles(c.id, c.roles)
        BY <2>2 DEF AddSaved
      <3>2. users[c.id] \subseteq c.roles
        BY Known DEF MembershipInv, Current, Fresh
      <3>3. \A u \in DOMAIN users : u \in DOMAIN users' /\ users[u] \subseteq users'[u]
        BY <3>1, <3>2 DEF SaveRoles, SetRoles
      <3> QED
        BY <3>1, <3>3, SavedIsFunction
    <2> QED
      BY <2>1, <2>2
  <1>4. CASE Goto(r, Proceed(req[r], Tail(req[r].jobs)))
    <2>1. req[r].jobs \in Seq(Job) /\ req[r].jobs # <<>>
      BY <1>1, Known DEF MembershipInv, Request, Good, Placed
    <2>2. Tail(req[r].jobs) \in Seq(Job)
      BY <2>1, Rest
    <2>3. Seated(Proceed(req[r], Tail(req[r].jobs)), users', groups)
      BY <1>1, <1>3, <2>2, WorksOn
    <2> QED
      BY <1>1, <1>3, <1>4, <2>3, TakesSeat
  <1>5. CASE Goto(r, [req[r] EXCEPT !.pc = "add.save", !.copies = copies])
    <2>1. PICK q : q = [req[r] EXCEPT !.pc = "add.save", !.copies = copies]
      OBVIOUS
    <2>2. /\ q.pc \in Working /\ q.then = req[r].then /\ q.id = req[r].id
          /\ q.owed = req[r].owed /\ q.group = req[r].group
      BY <1>1, <2>1 DEF Request, Working
    <2>3. Seated(q, users', groups)
      BY <1>1, <1>3, <2>2, StaysSeated
    <2> QED
      BY <1>1, <1>3, <1>5, <2>1, <2>3, TakesSeat
  <1> QED
    BY <1>2, <1>4, <1>5

LEMMA MemberDoneSeated ==
    ASSUME MembershipInv, NEW r \in Reqs, req[r].pc \in Removing, NEW user, NEW us
    PROVE  Seated(NextMember(req[r], user), us, groups)
  <1>1. PICK job, rest : job = Head(req[r].jobs) /\ rest = Tail(req[r].jobs)
    OBVIOUS
  <1>2. /\ job.members \in SUBSET UserIds /\ job.roles \in SUBSET Roles /\ rest \in Seq(Job)
        /\ req[r].then # "create.save"
    BY <1>1, AtRemove DEF Job, MembershipInv
  <1>3. Remove(job.members \ {user}, job.roles) \in Seq(Job)
    BY <1>2, RemoveJobs
  <1>4. Remove(job.members \ {user}, job.roles) \o rest \in Seq(Job)
    BY <1>2, <1>3, ConcatProperties
  <1>5. req[r].pc \in Working
    BY DEF Working, Removing
  <1>6. Seated(Proceed(req[r], Remove(job.members \ {user}, job.roles) \o rest), us, groups)
    BY <1>2, <1>4, <1>5, WorksOn
  <1> QED
    BY <1>1, <1>6 DEF NextMember

LEMMA RemoveSeated ==
    ASSUME MembershipInv, OneRequest, NEW r \in Reqs,
           RemoveCounted(r) \/ RemoveRead(r) \/ RemoveSaved(r)
    PROVE  AllSeated'
  <1>1. /\ req[r].pc \in Removing /\ req[r].pc \in Working /\ UNCHANGED groups
        /\ req[r] \in Request /\ req[r].then # "create.save"
    BY Known DEF RemoveCounted, RemoveRead, RemoveSaved, Working, Removing, MembershipInv
  <1>2. ASSUME NEW q, Goto(r, q), q.pc \in Working, q.then = req[r].then, q.id = req[r].id,
               q.owed = req[r].owed, q.group = req[r].group, UNCHANGED users
        PROVE  AllSeated'
    <2>1. Seated(q, users, groups)
      BY <1>1, <1>2, StaysSeated
    <2> QED
      BY <1>1, <1>2, <2>1, TakesSeatOnly
  <1>3. CASE RemoveCounted(r)
    <2>1. PICK user, left, drop, here :
            /\ here = [req[r] EXCEPT !.who = user, !.check = left, !.drop = drop]
            /\ \/ Goto(r, [here EXCEPT !.pc = "remove.read"])
               \/ Goto(r, here)
               \/ Goto(r, [here EXCEPT !.pc = "remove.save"])
               \/ Goto(r, NextMember(req[r], user))
      BY <1>3 DEF RemoveCounted
    <2>2. PICK read, save : /\ read = [here EXCEPT !.pc = "remove.read"]
                            /\ save = [here EXCEPT !.pc = "remove.save"]
      OBVIOUS
    <2>3. \A q \in {here, read, save} :
              /\ q.pc \in Working /\ q.then = req[r].then /\ q.id = req[r].id
              /\ q.owed = req[r].owed /\ q.group = req[r].group
      BY <1>1, <2>1, <2>2 DEF Request, Working
    <2>4. UNCHANGED users
      BY <1>3 DEF RemoveCounted
    <2>5. CASE Goto(r, NextMember(req[r], user))
      BY <1>1, <2>4, <2>5, MemberDoneSeated, TakesSeatOnly
    <2> QED
      BY <1>2, <2>1, <2>2, <2>3, <2>4, <2>5
  <1>4. CASE RemoveRead(r)
    <2>1. PICK pc \in {"remove.save", "remove.count"}, copy \in {users[req[r].who]} :
            Goto(r, [req[r] EXCEPT !.pc = pc, !.copy = copy]) /\ UNCHANGED users
      BY <1>4 DEF RemoveRead
    <2>2. PICK q : q = [req[r] EXCEPT !.pc = pc, !.copy = copy]
      OBVIOUS
    <2>3. /\ q.pc \in Working /\ q.then = req[r].then /\ q.id = req[r].id
          /\ q.owed = req[r].owed /\ q.group = req[r].group
      BY <1>1, <2>2 DEF Request, Working
    <2> QED
      BY <1>2, <2>1, <2>2, <2>3
  <1>5. CASE RemoveSaved(r)
    <2>1. /\ SaveRoles(req[r].who, req[r].copy \ req[r].drop)
          /\ Goto(r, NextMember(req[r], req[r].who))
      BY <1>5 DEF RemoveSaved
    <2>2. Seated(NextMember(req[r], req[r].who), users', groups)
      BY <1>1, MemberDoneSeated
    <2> QED
      BY <1>1, <2>1, <2>2, SavedIsFunction, TakesSeat
  <1> QED
    BY <1>3, <1>4, <1>5

LEMMA FailSeated ==
    ASSUME MembershipInv, OneRequest, NEW r \in Reqs, Fail(r)
    PROVE  AllSeated'
  <1>1. UNCHANGED <<users, groups>> /\ users' = [u \in DOMAIN users' |-> users'[u]]
    BY DEF Fail, MembershipInv, AllSeated
  <1>2. CASE Return(r)
    BY <1>1, <1>2, ReturnSeated
  <1>3. CASE req[r].then = "delete.delete" /\ Goto(r, Proceed(req[r], <<>>))
    <2>1. req[r] \in Request /\ req[r].id \in DOMAIN groups
      BY <1>3, Known DEF MembershipInv, AllSeated, Seated
    <2>2. Seated(Proceed(req[r], <<>>), users, groups)
      BY <1>3, <2>1, NoJobs, ProceedSeated DEF Thens
    <2> QED
      BY <1>1, <1>3, <2>2, TakesSeatOnly
  <1> QED
    BY <1>2, <1>3 DEF Fail

LEMMA ExitSeated ==
    ASSUME MembershipInv, Exit
    PROVE  AllSeated'
  <1>1. \A r \in Reqs : req'[r] = Idle
    BY DEF Exit
  <1> QED
    BY <1>1, IdleSeated DEF AllSeated, MembershipInv, Exit

LEMMA RegisterSeated ==
    ASSUME MembershipInv, Register
    PROVE  AllSeated'
  <1>1. PICK u \in UserIds \ DOMAIN users : SaveRoles(u, {})
    BY DEF Register
  <1>2. /\ DOMAIN users \subseteq DOMAIN users'
        /\ \A v \in DOMAIN users : users'[v] = users[v]
    BY <1>1 DEF SaveRoles
  <1>3. req' = req /\ groups' = groups
    BY DEF Register
  <1>4. \A r \in Reqs : Seated(req[r], users', groups)
    BY <1>2 DEF MembershipInv, AllSeated, Seated
  <1> QED
    BY <1>1, <1>3, <1>4, SavedIsFunction DEF AllSeated

LEMMA StepSeated ==
    ASSUME OneRequest, MembershipInv, [Next]_vars
    PROVE  MembershipInv'
  <1> SUFFICES AllSeated'
    BY StepAlone DEF MembershipInv
  <1>1. ASSUME NEW r \in Reqs, Step(r)
        PROVE  AllSeated'
    <2>1. CASE CreateGroup(r) \/ UpdateGroup(r) \/ DeleteGroup(r) \/ ProfileRead(r)
      BY <2>1, BeginSeated
    <2>2. CASE CreateChecked(r) \/ UpdateRead(r) \/ UpdateChecked(r) \/ UpdateSaved(r)
      BY <2>2, CreateCheckedSeated, UpdateReadSeated, UpdateCheckedSeated, UpdateSavedSeated
    <2>3. CASE CreateSaved(r) \/ UpdateReturned(r) \/ DeleteDeleted(r) \/ ProfileSaved(r)
      BY <2>3, EndsSeated
    <2>4. CASE DeleteRead(r)
      BY <2>4, DeleteReadSeated
    <2>5. CASE AddListed(r) \/ AddSaved(r)
      BY <2>5, AddSeated
    <2>6. CASE RemoveCounted(r) \/ RemoveRead(r) \/ RemoveSaved(r)
      BY <2>6, RemoveSeated
    <2>7. CASE Fail(r) \/ ListPanics(r) \/ UpdatePanics(r)
      BY <2>7, FailSeated, ExitSeated DEF ListPanics, UpdatePanics
    <2> QED
      BY <1>1, <2>1, <2>2, <2>3, <2>4, <2>5, <2>6, <2>7 DEF Step
  <1>2. CASE Register
    BY <1>2, RegisterSeated
  <1>3. CASE Crash
    BY <1>3, ExitSeated DEF Crash
  <1>4. CASE UNCHANGED vars
    BY <1>4 DEF vars, MembershipInv, AllSeated
  <1> QED
    BY <1>1, <1>2, <1>3, <1>4 DEF Next

LEMMA MembershipInvariance == OneRequest /\ Spec => []MembershipInv
  <1>1. Init => MembershipInv
    <2> SUFFICES ASSUME Init
                 PROVE  MembershipInv
      OBVIOUS
    <2>1. \A r \in Reqs : req[r] = Idle
      BY DEF Init
    <2>2. users = [u \in DOMAIN users |-> users[u]]
      BY DEF Init
    <2> QED
      BY <2>1, <2>2, InitSound, InitAlone, IdleSeated DEF MembershipInv, AllInv, AllSeated
  <1>2. OneRequest /\ MembershipInv /\ [Next]_vars => (OneRequest /\ MembershipInv)'
    <2>1. OneRequest => OneRequest'
      BY DEF OneRequest
    <2> QED
      BY <2>1, StepSeated
  <1> QED
    BY <1>1, <1>2, PTL DEF Spec

-----------------------------------------------------------------------------
(* Steps of the promise.                                                    *)
LEMMA JoinsIn ==
    ASSUME Register
    PROVE  Promise!Next
  <1>1. PICK u \in UserIds \ DOMAIN users : SaveRoles(u, {})
    BY DEF Register
  <1>2. users' = [v \in DOMAIN users \cup {u} |-> IF v = u THEN {} ELSE users[v]]
    BY <1>1 DEF SaveRoles
  <1>3. ({u} \X {}) = {} /\ {} \in {{}} \cup {users[v] : v \in DOMAIN users}
    OBVIOUS
  <1>4. granted' = granted \cup ({u} \X {}) /\ UNCHANGED <<groups, ~Leaky>>
    BY <1>3 DEF Register, Leaky
  <1>5. Promise!Join(u)
    BY <1>1, <1>2, <1>3, <1>4 DEF Promise!Join
  <1> QED
    BY <1>5 DEF Promise!Next

(* UpdateUser made a user of the copy of another.                           *)
LEMMA Doubles ==
    ASSUME MembershipInv, NEW r \in Reqs, ProfileSaved(r), req[r].who = None
    PROVE  Promise!Next
  <1>1. PICK u \in UserIds \ DOMAIN users :
          /\ SaveRoles(u, req[r].copy)
          /\ granted' = granted \cup ({u} \X req[r].copy)
    BY DEF ProfileSaved
  <1>2. users' = [v \in DOMAIN users \cup {u} |-> IF v = u THEN req[r].copy ELSE users[v]]
    BY <1>1 DEF SaveRoles
  <1>3. \E v \in DOMAIN users : req[r].copy = users[v]
    BY Known DEF MembershipInv, ProfileSaved, Current, Fresh, Holding
  <1>4. req[r].copy \in {{}} \cup {users[v] : v \in DOMAIN users}
    BY <1>3
  <1>5. UNCHANGED <<groups, ~Leaky>>
    BY DEF ProfileSaved, Leaky
  <1>6. Promise!Join(u)
    BY <1>1, <1>2, <1>4, <1>5 DEF Promise!Join
  <1> QED
    BY <1>6 DEF Promise!Next

LEMMA Grants ==
    ASSUME MembershipInv, NEW r \in Reqs, CreateChecked(r) \/ UpdateChecked(r)
    PROVE  Promise!Next
  <1>1. PICK g : g = req[r].group
    OBVIOUS
  <1>2. g.members \in SUBSET UserIds /\ g.roles \in SUBSET Roles
    BY <1>1, Known DEF MembershipInv, Request, Draft
  <1>3. granted' = granted \cup (g.members \X g.roles) /\ UNCHANGED <<users, groups, ~Leaky>>
    BY <1>1 DEF CreateChecked, UpdateChecked, Entitled, Leaky
  <1>4. Promise!Administered
    BY DEF Promise!Administered, CreateChecked, UpdateChecked, MembershipInv, AllSeated, Seated
  <1>5. Promise!Grant
    BY <1>2, <1>3, <1>4 DEF Promise!Grant
  <1> QED
    BY <1>5 DEF Promise!Next

LEMMA NamedGroup ==
    ASSUME NEW g \in Draft, g.name # None
    PROVE  g \in Promise!Group
  BY DEF Draft, Promise!Group

(* CreateGroup: all that the members were to gain has arrived.              *)
LEMMA Founds ==
    ASSUME MembershipInv, NEW r \in Reqs, CreateSaved(r)
    PROVE  Promise!Next
  <1>1. PICK g : g = req[r].group
    OBVIOUS
  <1>2. PICK id \in GroupIds \ DOMAIN groups : SaveGroup(id, g)
    BY <1>1 DEF CreateSaved
  <1>3. /\ req[r].pc = "create.save" /\ req[r].then = "create.save"
        /\ g \in Draft /\ g.name # None /\ g.members \subseteq DOMAIN users
    BY <1>1, Known DEF MembershipInv, CreateSaved, Good, Creating, Request
  <1>4. groups' = [i \in DOMAIN groups \cup {id} |-> IF i = id THEN g ELSE groups[i]]
    BY <1>2 DEF SaveGroup
  <1>5. \A i \in DOMAIN groups : groups[i].name # g.name
    BY <1>1, <1>3, Known DEF MembershipInv, Current, NameFree
  <1>6. Promise!Administered /\ req[r].owed = Entitled(g)
    BY <1>1, <1>3 DEF MembershipInv, AllSeated, Seated, Promise!Administered
  <1>7. req[r].jobs = <<>> /\ req[r].copies = {}
    BY <1>3, Known DEF MembershipInv, Current, AtJob
  <1>8. \A pair \in Entitled(g) : Has(pair, users)
    BY <1>3, <1>6, <1>7, Known, NothingAhead DEF MembershipInv, Current, Kept, Copied
  <1>9. ASSUME ~Leaky, NEW u \in g.members, NEW role \in g.roles
        PROVE  role \in users[u]
    <2>1. <<u, role>> \in Entitled(g)
      BY DEF Entitled
    <2> QED
      BY <1>8, <1>9, <2>1 DEF Has
  <1>10. Promise!Free(id, g.name) /\ Promise!Put(id, g) /\ g \in Promise!Group
    BY <1>3, <1>4, <1>5, NamedGroup DEF Promise!Free, Promise!Put
  <1>11. Promise!Found(id)
    BY <1>2, <1>3, <1>6, <1>9, <1>10 DEF Promise!Found, CreateSaved, Leaky
  <1> QED
    BY <1>11 DEF Promise!Next

LEMMA Alters ==
    ASSUME MembershipInv, NEW r \in Reqs, UpdateSaved(r)
    PROVE  Promise!Next \/ UNCHANGED Promise!vars
  <1>1. PICK g, id : g = req[r].group /\ id = req[r].id
    OBVIOUS
  <1>2. CASE UNCHANGED groups
    BY <1>2 DEF UpdateSaved, Promise!vars, Leaky
  <1>3. CASE SaveGroup(id, g)
    <2>1. /\ req[r].pc = "update.save" /\ g \in Draft /\ g.name # None
          /\ id \in DOMAIN groups /\ Promise!Administered
      BY <1>1, Known DEF MembershipInv, UpdateSaved, Good, Placed, Request, AllSeated, Seated,
         Promise!Administered
    <2>2. PICK new : new = [g EXCEPT !.roles   = SetRoles(groups[id].roles, @),
                                     !.members = SetMembers(groups[id].members, @)]
      OBVIOUS
    <2>3. groups' = [i \in DOMAIN groups \cup {id} |-> IF i = id THEN new ELSE groups[i]]
      BY <1>3, <2>1, <2>2 DEF SaveGroup
    <2>4. groups[id] \in Draft /\ id \in GroupIds
      BY <2>1 DEF MembershipInv, AllInv, IInv, TypeOK, Group
    <2>5. /\ new \in Draft /\ new.name = g.name
          /\ new.roles = SetRoles(groups[id].roles, g.roles)
          /\ new.members = SetMembers(groups[id].members, g.members)
      BY <2>1, <2>2, <2>4 DEF Draft, SetRoles, SetMembers
    <2>6. \A i \in DOMAIN groups \ {id} : groups[i].name # new.name
      BY <1>1, <2>1, <2>5, Known DEF MembershipInv, Current, NameFree
    <2>7. Promise!Free(id, new.name) /\ Promise!Put(id, new) /\ new \in Promise!Group
      BY <2>1, <2>3, <2>5, <2>6, NamedGroup DEF Promise!Free, Promise!Put
    <2>8. Promise!Alter(id)
      BY <2>1, <2>5, <2>7 DEF Promise!Alter, UpdateSaved, SetRoles, SetMembers, Leaky
    <2> QED
      BY <2>4, <2>8 DEF Promise!Next
  <1> QED
    BY <1>1, <1>2, <1>3 DEF UpdateSaved

LEMMA Gives ==
    ASSUME MembershipInv, NEW r \in Reqs, AddSaved(r)
    PROVE  Promise!Next
  <1>1. PICK c \in req[r].copies : SaveRoles(c.id, c.roles)
    BY DEF AddSaved
  <1>2. /\ c.id \in UserIds /\ c.roles \in SUBSET Roles
        /\ c.id \in DOMAIN users /\ users[c.id] \subseteq c.roles
        /\ \A role \in c.roles : <<c.id, role>> \in Asked
    BY Known DEF MembershipInv, Current, Fresh, Good, Within, Request
  <1>3. users' = [users EXCEPT ![c.id] = @ \cup c.roles]
    <2>1. SetRoles(users[c.id], c.roles) = users[c.id] \cup c.roles
      BY <1>2 DEF SetRoles
    <2> QED
      BY <1>1, <1>2, <2>1 DEF SaveRoles
  <1>4. \A role \in c.roles : Granted(c.id, role)
    BY <1>2, AskedPair
  <1>5. Promise!Give(c.id)
    BY <1>2, <1>3, <1>4 DEF Promise!Give, AddSaved, Granted, Leaky
  <1> QED
    BY <1>2, <1>5 DEF Promise!Next

LEMMA Takes ==
    ASSUME MembershipInv, NEW r \in Reqs, RemoveSaved(r)
    PROVE  Promise!Next \/ UNCHANGED Promise!vars
  <1>1. PICK user, id, roles : user = req[r].who /\ id = req[r].id /\ roles = req[r].drop
    OBVIOUS
  <1>2. req[r].pc = "remove.save" /\ SaveRoles(user, req[r].copy \ roles)
          /\ UNCHANGED <<groups, granted, ~Leaky>>
    BY <1>1 DEF RemoveSaved, Leaky
  <1>3. /\ user \in DOMAIN users /\ req[r].copy = users[user] /\ roles \in SUBSET Roles
        /\ \A role \in roles : ~Provides(groups, id, user, role)
    BY <1>1, <1>2, Known DEF MembershipInv, Current, Fresh, Holding, Request
  <1>4. id \in DOMAIN groups
    BY <1>1, <1>2, Known DEF MembershipInv, AllSeated, Seated, Thens, Working
  <1>5. user \in UserIds /\ id \in GroupIds
    BY <1>3, <1>4 DEF MembershipInv, AllInv, IInv, TypeOK
  <1>6. users = [u \in DOMAIN users |-> users[u]]
    BY DEF MembershipInv, AllSeated
  <1>7. CASE users[user] \ roles = {}
    <2>1. users' = [u \in DOMAIN users |-> users[u]]
      BY <1>2, <1>3, <1>7 DEF SaveRoles, SetRoles
    <2> QED
      BY <1>2, <1>6, <2>1 DEF Promise!vars
  <1>8. CASE users[user] \ roles # {}
    <2>1. users' = [users EXCEPT ![user] = @ \ roles]
      BY <1>2, <1>3, <1>8 DEF SaveRoles, SetRoles
    <2>2. \A role \in roles : ~Promise!Provided(id, user, role)
      BY <1>3 DEF Provides, Promise!Provided
    <2>3. Promise!Take(user, id)
      BY <1>2, <1>3, <1>4, <1>8, <2>1, <2>2 DEF Promise!Take
    <2> QED
      BY <1>5, <2>3 DEF Promise!Next
  <1> QED
    BY <1>7, <1>8

(* What saves a copy as it is stored, or deletes what is not there.         *)
LEMMA LeavesAll ==
    ASSUME MembershipInv, NEW r \in Reqs,
           (ProfileSaved(r) /\ req[r].who # None) \/ DeleteDeleted(r)
    PROVE  UNCHANGED Promise!vars
  <1>1. users = [u \in DOMAIN users |-> users[u]]
    BY DEF MembershipInv, AllSeated
  <1>2. CASE ProfileSaved(r) /\ req[r].who # None
    <2>1. SaveRoles(req[r].who, req[r].copy) /\ UNCHANGED <<groups, granted, ~Leaky>>
      BY <1>2 DEF ProfileSaved, Leaky
    <2>2. req[r].who \in DOMAIN users /\ req[r].copy = users[req[r].who]
      BY <1>2, Known DEF MembershipInv, ProfileSaved, Current, Fresh, Holding
    <2>3. users' = [u \in DOMAIN users |-> users[u]]
      BY <2>1, <2>2 DEF SaveRoles, SetRoles
    <2> QED
      BY <1>1, <2>1, <2>3 DEF Promise!vars
  <1>3. CASE DeleteDeleted(r)
    <2>1. req[r].id \notin DOMAIN users
      BY <1>3, Known, GroupsAssumption DEF MembershipInv, Request, AllInv, IInv, TypeOK
    <2>2. users' = [u \in DOMAIN users |-> users[u]]
      BY <1>3, <2>1 DEF DeleteDeleted
    <2> QED
      BY <1>1, <1>3, <2>2 DEF DeleteDeleted, Promise!vars, Leaky
  <1> QED
    BY <1>2, <1>3

LEMMA MembershipStep ==
    ASSUME MembershipInv, [Next]_vars
    PROVE  [Promise!Next]_(Promise!vars)
  <1>1. repaired' = repaired
    BY NothingRepaired
  <1>2. ASSUME NEW r \in Reqs, Step(r)
        PROVE  Promise!Next \/ UNCHANGED Promise!vars
    <2>1. CASE CreateChecked(r) \/ UpdateChecked(r)
      BY <2>1, Grants
    <2>2. CASE CreateSaved(r) \/ UpdateSaved(r)
      BY <2>2, Founds, Alters
    <2>3. CASE AddSaved(r) \/ RemoveSaved(r)
      BY <2>3, Gives, Takes
    <2>4. CASE ProfileSaved(r) \/ DeleteDeleted(r)
      BY <2>4, LeavesAll, Doubles
    <2>5. CASE UNCHANGED <<users, groups, granted>>
      BY <1>1, <2>5 DEF Promise!vars, Leaky
    <2> QED
      BY <1>2, <2>1, <2>2, <2>3, <2>4, <2>5 DEF Step, CreateGroup, UpdateGroup, UpdateRead,
         UpdateReturned, UpdatePanics, DeleteGroup, DeleteRead, AddListed, ListPanics,
         RemoveCounted, RemoveRead, ProfileRead, Fail, Exit
  <1>3. Crash \/ UNCHANGED vars => UNCHANGED Promise!vars
    BY <1>1 DEF Crash, Exit, vars, Promise!vars, Leaky
  <1> QED
    BY <1>2, <1>3, JoinsIn DEF Next

(* One request at a time, wherever each fails and the process ends, groups  *)
(* and roles change only as Membership has it: a role is given as it was    *)
(* granted (to somebody, where members are listed with the roles of         *)
(* others), and taken from nobody to whom another group provides it         *)
(* (groups.go:78-310).                                                      *)
THEOREM GroupsKeepMembership == OneRequest /\ Spec => ImplementsMembership
  <1>1. Init => Promise!Init
    BY DEF Init, Promise!Init, Leaky
  <1>2. MembershipInv /\ [Next]_vars => [Promise!Next]_(Promise!vars)
    BY MembershipStep
  <1> QED
    BY MembershipInvariance, <1>1, <1>2, PTL
       DEF Spec, ImplementsMembership, Promise!Spec
=============================================================================
