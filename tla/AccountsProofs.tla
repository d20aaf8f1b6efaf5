--------------------------- MODULE AccountsProofs ---------------------------
(***************************************************************************)
(* Proofs about Accounts, for every number of users, addresses, goroutines *)
(* and tokens.  What is stored is sound because what every handler holds   *)
(* in its local copy is sound, and both stay sound while other requests    *)
(* run: tokens are only generated, mails only delivered, and nothing an    *)
(* administrator vouched for is taken back.                                *)
(***************************************************************************)
EXTENDS Accounts, TLAPS

(* The three facts about one document, stored or in memory, of user i.      *)
ConfirmedSound(i, u) ==
    u.confirmed /\ u.mail # Empty => <<i, u.mail>> \in vouched \/ Proven(u.mail)

ConfirmTokenSound(u) ==
    u.confirmToken # NoToken =>
        /\ u.confirmToken \in 1..Len(minted)
        /\ minted[u.confirmToken].kind = "confirm"
        /\ minted[u.confirmToken].mail = u.mail
        /\ ~u.confirmed

ResetTokenSound(i, u) ==
    u.resetToken # NoToken =>
        /\ u.resetToken \in 1..Len(minted)
        /\ minted[u.resetToken].kind = "reset"
        /\ minted[u.resetToken].owner = i
        /\ minted[u.resetToken].mail = u.mail

Sound(i, u) ==
    ConfirmedSound(i, u) /\ ConfirmTokenSound(u) /\ ResetTokenSound(i, u)

StoredSound == \A i \in DOMAIN users : Sound(i, users[i])

InboxSound == \A m \in inbox : minted[m.token].mail = m.to

(* What a request knows about its local variables, by where it is.          *)
CreateLocal(q) ==
    /\ q.pc \in {"create.check", "create.save"} => q.user \in User /\ q.user.resetToken = NoToken
    /\ q.pc = "create.check" => q.user.confirmToken = NoToken
    /\ q.pc = "create.save" => ConfirmTokenSound(q.user)

UpdateLocal(q) ==
    /\ q.pc = "update.read" =>
        /\ q.edit \in Edits
        /\ q.edit.id # Empty => q.id = q.edit.id
        /\ "confirmed" \in q.edit.mask /\ q.edit.confirmed => q.admin
    /\ q.pc \in {"update.check", "update.save"} =>
        /\ q.of \in DOMAIN users
        /\ q.id \in {q.of, Empty}
        /\ q.user.password = Empty
        /\ q.user.confirmToken = NoToken
        /\ q.user.resetToken = NoToken
    /\ q.pc = "update.check" /\ ~q.admin /\ ~q.moved => ConfirmedSound(q.of, q.user)
    /\ q.pc = "update.save" =>
        /\ q.user.username # Empty
        /\ ~q.admin => ConfirmedSound(q.of, q.user)

(* Where a handler holds a copy of a stored document and saves it next.     *)
Copying == {"change.save", "confirm.save", "forgot.save", "reset.save", "roles.save"}

CopyLocal(q) ==
    /\ q.pc \in Copying =>
        /\ q.id \in DOMAIN users
        /\ q.user \in User
        /\ Sound(q.id, q.user)
    /\ q.pc \in {"confirm.save", "reset.save"} =>
        q.token \in 1..Len(minted) /\ minted[q.token].key = Secret

Local(q) == CreateLocal(q) /\ UpdateLocal(q) /\ CopyLocal(q)

LocalSound == \A r \in Reqs : Local(req[r])

IInv == TypeOK /\ StoredSound /\ InboxSound /\ LocalSound

(* No request outlives the process, so none spans a change of the secret.   *)
DownSound ==
    proc # "up" => restarts < MaxRestarts /\ \A r \in Reqs : req[r] = Idle

-----------------------------------------------------------------------------
(* A save writes a well-formed document under id and no other one, and all  *)
(* that the properties are about comes from the document saved.             *)
Collection(us) == DOMAIN us \subseteq Ids /\ \A i \in DOMAIN us : us[i] \in User

Written(us, id, u, saved) ==
    /\ DOMAIN saved = DOMAIN us \cup {id}
    /\ \A i \in DOMAIN us \ {id} : saved[i] = us[i]
    /\ \A i \in DOMAIN saved : saved[i] \in User
    /\ saved[id].mail = u.mail
    /\ saved[id].confirmed = u.confirmed
    /\ saved[id].confirmToken = u.confirmToken
    /\ saved[id].resetToken = u.resetToken
    /\ u.password = Empty /\ id \in DOMAIN us => saved[id].password = us[id].password

LEMMA SaveUserWrites ==
    ASSUME NEW us, Collection(us), NEW id \in Ids, NEW u \in Draft,
           u.username # Empty
    PROVE  Written(us, id, u, SaveUser(us, id, u))
  <1> DEFINE saved == SaveUser(us, id, u)
  <1>1. DOMAIN saved = DOMAIN us \cup {id}
    BY DEF SaveUser
  <1>2. \A i \in DOMAIN us \ {id} : saved[i] = us[i]
    BY DEF SaveUser
  <1>3. CASE id \in DOMAIN us
    <2>1. saved[id] = SetUser(us[id], u)
      BY <1>3 DEF SaveUser
    <2>2. us[id] \in Draft
      BY <1>3 DEF Collection, User
    <2>3. /\ saved[id] \in User
          /\ saved[id].mail = u.mail
          /\ saved[id].confirmed = u.confirmed
          /\ saved[id].confirmToken = u.confirmToken
          /\ saved[id].resetToken = u.resetToken
          /\ u.password = Empty => saved[id].password = us[id].password
      BY <2>1, <2>2 DEF SetUser, User, Draft
    <2> QED
      BY <1>1, <1>2, <2>3 DEF Collection, Written
  <1>4. CASE id \notin DOMAIN us
    <2>1. saved[id] = u
      BY <1>4 DEF SaveUser
    <2> QED
      BY <1>1, <1>2, <1>4, <2>1 DEF Collection, Written, User
  <1> QED
    BY <1>3, <1>4

(* What every step does to the record of the past.                          *)
Grows ==
    /\ minted' \in Seq(Minted)
    /\ Len(minted) =< Len(minted')
    /\ \A t \in 1..Len(minted) : minted'[t] = minted[t]
    /\ inbox \subseteq inbox'
    /\ vouched \subseteq vouched'

LEMMA GenerateAppends ==
    ASSUME TypeOK, NEW kind \in {"confirm", "reset"}, NEW mail \in Mails \cup {Empty},
           NEW owner \in Ids \cup {Empty}, Generate(kind, mail, owner)
    PROVE  /\ minted' \in Seq(Minted)
           /\ Len(minted') = NewToken
           /\ NewToken \in Nat \ {NoToken}
           /\ \A t \in 1..Len(minted) : minted'[t] = minted[t]
           /\ minted'[NewToken].kind = kind
           /\ minted'[NewToken].mail = mail
           /\ minted'[NewToken].owner = owner
           /\ minted'[NewToken].key = Secret
  <1> DEFINE new == [kind |-> kind, mail |-> mail, owner |-> owner, key |-> Secret]
  <1>1. Secret \in Nat
    BY AccountsAssumption DEF TypeOK, Secret
  <1>2. new \in Minted
    BY <1>1 DEF Minted
  <1>3. minted \in Seq(Minted) /\ minted' = Append(minted, new)
    BY DEF TypeOK, Generate
  <1> HIDE DEF new
  <1>4. /\ minted' \in Seq(Minted)
        /\ Len(minted') = Len(minted) + 1
        /\ \A t \in 1..Len(minted) : minted'[t] = minted[t]
        /\ minted'[Len(minted) + 1] = new
        /\ Len(minted) \in Nat
    BY <1>2, <1>3
  <1> QED
    BY <1>4 DEF NewToken, NoToken, new

(* Knowledge about a document is not lost when the past grows.              *)
LEMMA SoundGrows ==
    ASSUME TypeOK, Grows
    PROVE  /\ \A i, u : ConfirmedSound(i, u) => ConfirmedSound(i, u)'
           /\ \A u : ConfirmTokenSound(u) => ConfirmTokenSound(u)'
           /\ \A i, u : ResetTokenSound(i, u) => ResetTokenSound(i, u)'
  <1>1. Len(minted) \in Nat /\ Len(minted') \in Nat
    BY DEF TypeOK, Grows
  <1>2. \A mail : Proven(mail) => Proven(mail)'
    BY DEF Proven, TypeOK, Grows
  <1>3. \A i, u : ConfirmedSound(i, u) => ConfirmedSound(i, u)'
    BY <1>2 DEF ConfirmedSound, Grows
  <1>4. \A u : ConfirmTokenSound(u) => ConfirmTokenSound(u)'
    BY <1>1 DEF ConfirmTokenSound, Grows
  <1>5. \A i, u : ResetTokenSound(i, u) => ResetTokenSound(i, u)'
    BY <1>1 DEF ResetTokenSound, Grows
  <1> QED
    BY <1>3, <1>4, <1>5

LEMMA LocalGrows ==
    ASSUME TypeOK, Grows, DOMAIN users \subseteq DOMAIN users', restarts' = restarts
    PROVE  \A q : Local(q) => Local(q)'
  <1>1. Len(minted) \in Nat /\ Len(minted') \in Nat
    BY DEF TypeOK, Grows
  <1>2. \A q : CreateLocal(q) => CreateLocal(q)'
    BY SoundGrows DEF CreateLocal
  <1>3. \A q : UpdateLocal(q) => UpdateLocal(q)'
    BY SoundGrows DEF UpdateLocal
  <1>4. \A q : CopyLocal(q) => CopyLocal(q)'
    <2> SUFFICES ASSUME NEW q, CopyLocal(q)
                 PROVE  CopyLocal(q)'
      OBVIOUS
    <2>1. Sound(q.id, q.user) => Sound(q.id, q.user)'
      BY SoundGrows DEF Sound
    <2>2. Secret' = Secret
      BY DEF Secret
    <2> QED
      BY <1>1, <2>1, <2>2 DEF CopyLocal, Grows
  <1> QED
    BY <1>2, <1>3, <1>4 DEF Local

-----------------------------------------------------------------------------
(* A step of one request preserves the invariant when what it writes is     *)
(* sound: first the steps that leave the collection alone, then the saves.  *)
LEMMA IdleIsSound ==
    /\ Idle \in Request
    /\ \A q : q = Idle => Local(q) /\ Local(q)'
  <1>1. NoUser \in Draft
    BY DEF NoUser, Draft, NoToken
  <1>2. Idle \in Request
    BY <1>1 DEF Idle, Request, Pcs, NoToken
  <1>3. Idle.pc = "idle"
    BY DEF Idle
  <1> QED
    BY <1>2, <1>3 DEF Local, CreateLocal, UpdateLocal, CopyLocal, Copying

LEMMA OthersStaySound ==
    ASSUME IInv, Grows, DOMAIN users \subseteq DOMAIN users', restarts' = restarts,
           NEW r \in Reqs, \A s \in Reqs \ {r} : req'[s] = req[s],
           Local(req[r])'
    PROVE  LocalSound'
  <1> SUFFICES ASSUME NEW s \in Reqs
               PROVE  Local(req[s])'
    BY DEF LocalSound
  <1>1. CASE s = r
    BY <1>1
  <1>2. CASE s # r
    <2>1. Local(req[s])
      BY DEF IInv, LocalSound
    <2>2. \A q : Local(q) => Local(q)'
      BY LocalGrows DEF IInv
    <2>3. req'[s] = req[s]
      BY <1>2
    <2> QED
      BY <2>1, <2>2, <2>3
  <1> QED
    BY <1>1, <1>2

LEMMA LocalStep ==
    ASSUME IInv, Grows,
           NEW r \in Reqs, NEW q \in Request, req' = [req EXCEPT ![r] = q], Local(req[r])',
           inbox' \subseteq [to : Mails, token : 1..Len(minted')], InboxSound',
           UNCHANGED <<users, restarts, proc, vouched>>
    PROVE  IInv'
  <1>1. TypeOK'
    <2>1. req' \in [Reqs -> Request]
      BY DEF IInv, TypeOK
    <2> QED
      BY <2>1 DEF IInv, TypeOK, Grows
  <1>2. StoredSound'
    <2> SUFFICES ASSUME NEW i \in DOMAIN users
                 PROVE  Sound(i, users[i])'
      BY DEF StoredSound
    <2>1. Sound(i, users[i])
      BY DEF IInv, StoredSound
    <2> QED
      BY <2>1, SoundGrows DEF IInv, Sound
  <1>3. LocalSound'
    <2>1. \A s \in Reqs \ {r} : req'[s] = req[s]
      BY DEF IInv, TypeOK
    <2> QED
      BY <2>1, OthersStaySound
  <1> QED
    BY <1>1, <1>2, <1>3 DEF IInv

LEMMA SaveStep ==
    ASSUME IInv,
           NEW r \in Reqs, NEW id \in Ids, NEW u \in Draft, u.username # Empty,
           users' = SaveUser(users, id, u), Return(r),
           UNCHANGED <<minted, restarts, proc>>,
           vouched \subseteq vouched', vouched' \subseteq Ids \X Mails,
           inbox \subseteq inbox',
           inbox' \subseteq [to : Mails, token : 1..Len(minted)], InboxSound',
           u.confirmed /\ u.mail # Empty => <<id, u.mail>> \in vouched' \/ Proven(u.mail),
           ConfirmTokenSound(u), ResetTokenSound(id, u)
    PROVE  IInv'
  <1>1. Grows
    BY DEF IInv, TypeOK, Grows
  <1>2. /\ DOMAIN users' = DOMAIN users \cup {id}
        /\ \A i \in DOMAIN users \ {id} : users'[i] = users[i]
        /\ \A i \in DOMAIN users' : users'[i] \in User
        /\ users'[id].mail = u.mail
        /\ users'[id].confirmed = u.confirmed
        /\ users'[id].confirmToken = u.confirmToken
        /\ users'[id].resetToken = u.resetToken
    <2>1. Collection(users)
      BY DEF IInv, TypeOK, Collection
    <2>2. Written(users, id, u, users')
      BY <2>1, SaveUserWrites
    <2> QED
      BY <2>2 DEF Written
  <1>3. req' \in [Reqs -> Request] /\ req'[r] = Idle /\ \A s \in Reqs \ {r} : req'[s] = req[s]
    BY IdleIsSound DEF IInv, TypeOK, Return, Goto
  <1>4. TypeOK'
    BY <1>2, <1>3 DEF IInv, TypeOK
  <1>5. Proven(u.mail) => (\E m \in inbox' : /\ m.to = u.mail
                                             /\ minted'[m.token].kind = "confirm"
                                             /\ minted'[m.token].mail = u.mail)
    BY DEF Proven
  <1>6. StoredSound'
    <2> SUFFICES ASSUME NEW i \in DOMAIN users'
                 PROVE  Sound(i, users[i])'
      BY DEF StoredSound
    <2>1. CASE i = id
      <3>1. ConfirmedSound(i, users[i])'
        BY <1>2, <1>5, <2>1 DEF ConfirmedSound, Proven
      <3>2. ConfirmTokenSound(users[i])'
        BY <1>2, <2>1 DEF ConfirmTokenSound
      <3>3. ResetTokenSound(i, users[i])'
        BY <1>2, <2>1 DEF ResetTokenSound
      <3> QED
        BY <3>1, <3>2, <3>3 DEF Sound
    <2>2. CASE i # id
      <3>1. Sound(i, users[i]) /\ users'[i] = users[i]
        BY <1>2, <2>2 DEF IInv, StoredSound
      <3> QED
        BY <3>1, <1>1, SoundGrows DEF IInv, Sound
    <2> QED
      BY <2>1, <2>2
  <1>7. LocalSound'
    <2>1. Local(req[r])'
      BY <1>3, IdleIsSound
    <2> QED
      BY <1>1, <1>2, <1>3, <2>1, OthersStaySound
  <1> QED
    BY <1>4, <1>6, <1>7 DEF IInv

-----------------------------------------------------------------------------
(* The actions that only move a request along, one by one. r goes from what *)
(* it holds to q; nothing else changes but tokens and mails.                *)
LEMMA QuietStep ==
    ASSUME IInv, NEW r \in Reqs, NEW q \in Request, Goto(r, q), Local(req[r])',
           UNCHANGED <<users, minted, inbox, restarts, proc, vouched>>
    PROVE  IInv'
  <1>1. Grows
    BY DEF IInv, TypeOK, Grows
  <1>2. inbox' \subseteq [to : Mails, token : 1..Len(minted')] /\ InboxSound'
    BY DEF IInv, TypeOK, InboxSound
  <1> QED
    BY <1>1, <1>2, LocalStep DEF Goto

LEMMA GenerateStep ==
    ASSUME IInv, NEW r \in Reqs, NEW q \in Request, Goto(r, q), Local(req[r])',
           NEW kind \in {"confirm", "reset"}, NEW mail \in Mails \cup {Empty},
           NEW owner \in Ids \cup {Empty}, Generate(kind, mail, owner),
           Send(mail, NewToken) \/ UNCHANGED inbox,
           UNCHANGED <<users, restarts, proc, vouched>>
    PROVE  IInv'
  <1>1. /\ minted' \in Seq(Minted)
        /\ Len(minted') = NewToken
        /\ NewToken \in Nat \ {NoToken}
        /\ \A t \in 1..Len(minted) : minted'[t] = minted[t]
        /\ minted'[NewToken].mail = mail
    BY GenerateAppends DEF IInv
  <1>2. Len(minted) \in Nat /\ NewToken = Len(minted) + 1
    BY DEF IInv, TypeOK, NewToken
  <1>3. inbox \subseteq inbox' /\ inbox' \subseteq inbox \cup {[to |-> mail, token |-> NewToken]}
    BY DEF Send
  <1>4. mail = Empty => inbox' = inbox
    BY DEF Send
  <1>5. Grows
    BY <1>1, <1>2, <1>3 DEF Grows
  <1>6. inbox' \subseteq [to : Mails, token : 1..Len(minted')]
    BY <1>1, <1>2, <1>3, <1>4 DEF IInv, TypeOK, NoToken
  <1>7. InboxSound'
    <2> SUFFICES ASSUME NEW m \in inbox'
                 PROVE  minted'[m.token].mail = m.to
      BY DEF InboxSound
    <2>1. CASE m \in inbox
      <3>1. m.token \in 1..Len(minted) /\ minted[m.token].mail = m.to
        BY <2>1 DEF IInv, TypeOK, InboxSound
      <3> QED
        BY <3>1, <1>1
    <2>2. CASE m = [to |-> mail, token |-> NewToken]
      BY <2>2, <1>1
    <2> QED
      BY <2>1, <2>2, <1>3
  <1> QED
    BY <1>5, <1>6, <1>7, LocalStep DEF Goto

(* What the type invariant says of one request.                             *)
LEMMA RequestTypes ==
    ASSUME IInv, NEW r \in Reqs
    PROVE  /\ req[r] \in Request
           /\ Local(req[r])
           /\ \A q : Goto(r, q) => req'[r] = q
           /\ \A i \in DOMAIN users : i \in Ids /\ users[i] \in User /\ users[i] \in Draft
  BY DEF IInv, TypeOK, LocalSound, Goto, User

LEMMA CreateUserStep ==
    ASSUME IInv, NEW r \in Reqs, CreateUser(r)
    PROVE  IInv'
  <1>1. PICK name \in Usernames, mail \in Mails \cup {Empty}, password \in Passwords,
             confirmed \in BOOLEAN :
           Goto(r, [Idle EXCEPT
                !.pc = "create.check",
                !.user = [NoUser EXCEPT !.username = name, !.mail = mail,
                            !.password = Hash(password), !.confirmed = confirmed]])
    BY DEF CreateUser, Callers
  <1> DEFINE u == [NoUser EXCEPT !.username = name, !.mail = mail,
                     !.password = Hash(password), !.confirmed = confirmed]
             q == [Idle EXCEPT !.pc = "create.check", !.user = u]
  <1>2. u \in User /\ u \in Draft /\ u.resetToken = NoToken /\ u.confirmToken = NoToken
    <2>1. Hash(password) \in Hashes
      BY DEF Hash, Hashes
    <2>2. Hash(password) # Empty /\ name # Empty
      BY <2>1, StoreAssumption
    <2> QED
      BY <2>1, <2>2 DEF NoUser, User, Draft, NoToken
  <1> HIDE DEF u
  <1>3. q \in Request /\ q.pc = "create.check" /\ q.user = u
    BY <1>2, IdleIsSound DEF Idle, Request, Pcs
  <1> HIDE DEF q
  <1>4. Goto(r, q)
    BY <1>1 DEF q, u
  <1>5. Local(req[r])'
    BY <1>2, <1>3, <1>4, RequestTypes DEF Local, CreateLocal, UpdateLocal, CopyLocal, Copying
  <1> QED
    BY <1>3, <1>4, <1>5, QuietStep DEF CreateUser

LEMMA CreateCheckedStep ==
    ASSUME IInv, NEW r \in Reqs, CreateChecked(r)
    PROVE  IInv'
  <1> DEFINE u == req[r].user
  <1>1. /\ req[r] \in Request /\ req[r].pc = "create.check"
        /\ u \in User /\ u \in Draft /\ u.resetToken = NoToken /\ u.confirmToken = NoToken
    BY RequestTypes DEF CreateChecked, Local, CreateLocal, Request, User
  <1>2. CASE ~u.confirmed /\ u.mail # Empty
    <2> DEFINE v == [u EXCEPT !.confirmToken = NewToken]
               q == [req[r] EXCEPT !.pc = "create.save", !.user = v]
    <2>1. Generate("confirm", u.mail, Empty) /\ Send(u.mail, NewToken) /\ Goto(r, q)
      BY <1>2 DEF CreateChecked
    <2>2. /\ Len(minted') = NewToken
          /\ NewToken \in Nat \ {NoToken}
          /\ minted'[NewToken].kind = "confirm"
          /\ minted'[NewToken].mail = u.mail
      BY <1>1, <2>1, GenerateAppends DEF IInv, Draft
    <2>3. /\ v \in User /\ v \in Draft /\ v.resetToken = NoToken
          /\ v.confirmToken = NewToken /\ v.mail = u.mail /\ ~v.confirmed
      BY <1>1, <1>2, <2>2 DEF User, Draft
    <2> HIDE DEF v
    <2>4. q \in Request /\ q.pc = "create.save" /\ q.user = v
      BY <1>1, <2>3 DEF Request, Pcs
    <2> HIDE DEF q
    <2>5. req'[r] = q
      BY <2>1, RequestTypes
    <2>6. ConfirmTokenSound(req[r].user)'
      BY <2>2, <2>3, <2>4, <2>5 DEF ConfirmTokenSound, NoToken
    <2>7. Local(req[r])'
      BY <2>3, <2>4, <2>5, <2>6 DEF Local, CreateLocal, UpdateLocal, CopyLocal, Copying
    <2>8. u.mail \in Mails \cup {Empty}
      BY <1>1 DEF Draft
    <2> QED
      BY <2>1, <2>4, <2>7, <2>8, GenerateStep DEF CreateChecked
  <1>3. CASE ~(~u.confirmed /\ u.mail # Empty)
    <2> DEFINE q == [req[r] EXCEPT !.pc = "create.save"]
    <2>1. Goto(r, q) /\ UNCHANGED <<minted, inbox>>
      BY <1>3 DEF CreateChecked
    <2>2. q \in Request /\ q.pc = "create.save" /\ q.user = u
      BY <1>1 DEF Request, Pcs
    <2> HIDE DEF q
    <2>3. Local(req[r])'
      BY <1>1, <2>1, <2>2, RequestTypes
      DEF Local, CreateLocal, UpdateLocal, CopyLocal, Copying, ConfirmTokenSound
    <2> QED
      BY <2>1, <2>2, <2>3, QuietStep DEF CreateChecked
  <1> QED
    BY <1>2, <1>3

LEMMA CreateSavedStep ==
    ASSUME IInv, NEW r \in Reqs, CreateSaved(r)
    PROVE  IInv'
  <1> DEFINE u == req[r].user
  <1>1. PICK id \in Ids \ DOMAIN users :
           users' = SaveUser(users, id, u) /\ vouched' = vouched \cup Vouched(id, u)
    BY DEF CreateSaved
  <1>2. /\ u \in Draft /\ u.username # Empty
        /\ u.resetToken = NoToken /\ ConfirmTokenSound(u)
    BY RequestTypes DEF CreateSaved, Local, CreateLocal, User
  <1>3. Vouched(id, u) \subseteq Ids \X Mails
    BY <1>2 DEF Vouched, Draft
  <1>4. vouched \subseteq vouched' /\ vouched' \subseteq Ids \X Mails
    BY <1>1, <1>3 DEF IInv, TypeOK
  <1>5. u.confirmed /\ u.mail # Empty => <<id, u.mail>> \in vouched'
    BY <1>1 DEF Vouched
  <1>6. inbox \subseteq inbox' /\ InboxSound' /\ inbox' \subseteq [to : Mails, token : 1..Len(minted)]
    BY DEF CreateSaved, IInv, TypeOK, InboxSound
  <1>7. ResetTokenSound(id, u)
    BY <1>2 DEF ResetTokenSound
  <1>8. Return(r) /\ UNCHANGED <<minted, restarts, proc>>
    BY DEF CreateSaved
  <1> HIDE DEF u
  <1> QED
    BY <1>1, <1>2, <1>4, <1>5, <1>6, <1>7, <1>8, SaveStep

LEMMA UpdateUserStep ==
    ASSUME IInv, NEW r \in Reqs, UpdateUser(r)
    PROVE  IInv'
  <1>1. PICK caller \in DOMAIN users, id \in Ids, edit \in Edits :
        /\ edit.id # Empty => id = edit.id
        /\ "confirmed" \in edit.mask /\ edit.confirmed => HasRole(users[caller], "admin")
        /\ Goto(r, [Idle EXCEPT !.pc = "update.read", !.id = id,
                                !.admin = HasRole(users[caller], "admin"),
                                !.edit = edit, !.from = users[caller].mail])
    BY RequestTypes, AccountsAssumption DEF UpdateUser, Callers, Edit
  <1> DEFINE q == [Idle EXCEPT !.pc = "update.read", !.id = id,
                                !.admin = HasRole(users[caller], "admin"),
                                !.edit = edit, !.from = users[caller].mail]
  <1>2. users[caller].mail \in Mails \cup {Empty}
    BY RequestTypes DEF Draft
  <1>3. HasRole(users[caller], "admin") \in BOOLEAN
    BY DEF HasRole
  <1>4. /\ q \in Request /\ q.pc = "update.read" /\ q.id = id
        /\ q.edit = edit /\ q.admin = HasRole(users[caller], "admin")
    BY <1>2, <1>3, IdleIsSound DEF Idle, Request, Pcs
  <1>5. Goto(r, q)
    BY <1>1
  <1> HIDE DEF q
  <1>6. Local(req[r])'
    BY <1>1, <1>4, <1>5, RequestTypes DEF Local, CreateLocal, UpdateLocal, CopyLocal, Copying
  <1> QED
    BY <1>4, <1>5, <1>6, QuietStep DEF UpdateUser

LEMMA MergeKeepsDraft ==
    ASSUME NEW u \in Draft, NEW edit \in Edits
    PROVE  LET v == Merge(ThroughPb(u), edit) IN
           /\ v \in Draft
           /\ v.password = Empty /\ v.confirmToken = NoToken /\ v.resetToken = NoToken
           /\ v.mail = IF "mail" \in edit.mask THEN edit.mail ELSE u.mail
           /\ v.confirmed = IF "confirmed" \in edit.mask THEN edit.confirmed ELSE u.confirmed
  <1> DEFINE w == ThroughPb(u)
  <1>1. edit \in Edit
    BY AccountsAssumption
  <1>2. /\ w \in Draft /\ w.password = Empty /\ w.confirmToken = NoToken
        /\ w.resetToken = NoToken /\ w.mail = u.mail /\ w.confirmed = u.confirmed
    BY DEF ThroughPb, Draft, NoToken
  <1> HIDE DEF w
  <1>3. LET v == Merge(w, edit) IN
           /\ v \in Draft
           /\ v.password = Empty /\ v.confirmToken = NoToken /\ v.resetToken = NoToken
           /\ v.mail = IF "mail" \in edit.mask THEN edit.mail ELSE w.mail
           /\ v.confirmed = IF "confirmed" \in edit.mask THEN edit.confirmed ELSE w.confirmed
    BY <1>1, <1>2 DEF Merge, Edit, Draft
  <1> QED
    BY <1>2, <1>3 DEF w

(* A plain caller can only clear the flag, and an address that does not     *)
(* move is the one that was read: what was known of the document still      *)
(* holds of the merged copy.                                                *)
LEMMA UpdateReadStep ==
    ASSUME IInv, NEW r \in Reqs, UpdateRead(r)
    PROVE  IInv'
  <1> DEFINE old == users[req[r].id]
             edit == req[r].edit
             v == Merge(ThroughPb(old), edit)
             moved == "mail" \in edit.mask /\ ~req[r].admin /\ old.mail # edit.mail
             id == IF "id" \in edit.mask THEN edit.id ELSE req[r].id
             q == [req[r] EXCEPT !.pc = "update.check", !.id = id, !.of = req[r].id,
                                 !.edit = NoEdit, !.user = v, !.moved = moved]
  <1>1. /\ req[r] \in Request /\ req[r].pc = "update.read"
        /\ req[r].id \in DOMAIN users /\ req[r].id \in Ids /\ edit \in Edits /\ edit \in Edit
        /\ id \in {req[r].id, Empty}
        /\ "confirmed" \in edit.mask /\ edit.confirmed => req[r].admin
    BY RequestTypes, AccountsAssumption DEF UpdateRead, Local, UpdateLocal
  <1>2. old \in Draft /\ ConfirmedSound(req[r].id, old)
    BY <1>1, RequestTypes DEF IInv, StoredSound, Sound
  <1>3. /\ v \in Draft
        /\ v.password = Empty /\ v.confirmToken = NoToken /\ v.resetToken = NoToken
        /\ v.mail = IF "mail" \in edit.mask THEN edit.mail ELSE old.mail
        /\ v.confirmed = IF "confirmed" \in edit.mask THEN edit.confirmed ELSE old.confirmed
    BY <1>1, <1>2, MergeKeepsDraft
  <1>4. ~req[r].admin /\ ~moved => ConfirmedSound(req[r].id, v)
    BY <1>1, <1>2, <1>3 DEF ConfirmedSound, Request
  <1>5. Goto(r, q) /\ UNCHANGED <<users, minted, inbox, restarts, proc, vouched>>
    BY DEF UpdateRead
  <1> HIDE DEF v, id
  <1>6. /\ q \in Request /\ q.pc = "update.check" /\ q.user = v /\ q.moved = moved
        /\ q.id = id /\ q.of = req[r].id /\ q.admin = req[r].admin
    BY <1>1, <1>3 DEF Request, Pcs
  <1> HIDE DEF q, moved
  <1>7. req'[r] = q
    BY <1>5, RequestTypes
  <1>8. ~q.admin /\ ~q.moved => ConfirmedSound(req[r].of, req[r].user)'
    BY <1>4, <1>5, <1>6, <1>7 DEF ConfirmedSound, Proven
  <1>9. Local(req[r])'
    BY <1>1, <1>3, <1>5, <1>6, <1>7, <1>8 DEF Local, CreateLocal, UpdateLocal, CopyLocal, Copying
  <1> QED
    BY <1>5, <1>6, <1>9, QuietStep

LEMMA UpdateCheckedStep ==
    ASSUME IInv, NEW r \in Reqs, UpdateChecked(r)
    PROVE  IInv'
  <1> DEFINE u == req[r].user
  <1>1. /\ req[r] \in Request /\ u \in Draft /\ u.username # Empty
        /\ req[r].pc = "update.check" /\ req[r].of \in DOMAIN users
        /\ req[r].id \in {req[r].of, Empty}
        /\ u.password = Empty /\ u.confirmToken = NoToken /\ u.resetToken = NoToken
        /\ ~req[r].admin /\ ~req[r].moved => ConfirmedSound(req[r].of, u)
    BY RequestTypes DEF UpdateChecked, Valid, Local, UpdateLocal, Request
  <1>2. CASE req[r].moved
    <2> DEFINE v == Unconfirm(u)
               q == [req[r] EXCEPT !.pc = "update.save", !.user = v, !.from = Empty,
                                   !.token = NewToken]
    <2>1. /\ Generate("confirm", req[r].from, Empty)
          /\ Send(req[r].from, NewToken)
          /\ Goto(r, q)
      BY <1>2 DEF UpdateChecked
    <2>2. NewToken \in Nat
      BY DEF IInv, TypeOK, NewToken
    <2>3. /\ v \in Draft /\ v.username # Empty /\ ~v.confirmed /\ v.password = Empty
          /\ v.confirmToken = NoToken /\ v.resetToken = NoToken
      BY <1>1 DEF Unconfirm, Draft
    <2> HIDE DEF v
    <2>4. /\ q \in Request /\ q.pc = "update.save" /\ q.user = v /\ q.id = req[r].id
          /\ q.of = req[r].of
      BY <1>1, <2>2, <2>3 DEF Request, Pcs
    <2> HIDE DEF q
    <2>5. Local(req[r])'
      BY <1>1, <2>1, <2>3, <2>4, RequestTypes
      DEF Local, CreateLocal, UpdateLocal, CopyLocal, Copying, ConfirmedSound, UpdateChecked
    <2>6. req[r].from \in Mails \cup {Empty}
      BY <1>1 DEF Request
    <2> QED
      BY <2>1, <2>4, <2>5, <2>6, GenerateStep DEF UpdateChecked
  <1>3. CASE ~req[r].moved
    <2> DEFINE q == [req[r] EXCEPT !.pc = "update.save", !.from = Empty]
    <2>1. Goto(r, q) /\ UNCHANGED <<users, minted, inbox, restarts, proc, vouched>>
      BY <1>3 DEF UpdateChecked
    <2>2. /\ q \in Request /\ q.pc = "update.save" /\ q.user = u /\ q.id = req[r].id
          /\ q.of = req[r].of /\ q.admin = req[r].admin
      BY <1>1 DEF Request, Pcs
    <2> HIDE DEF q
    <2>3. ~q.admin => ConfirmedSound(req[r].of, req[r].user)'
      BY <1>1, <1>3, <2>1, <2>2, RequestTypes DEF ConfirmedSound, Proven
    <2>4. Local(req[r])'
      BY <1>1, <2>1, <2>2, <2>3, RequestTypes
      DEF Local, CreateLocal, UpdateLocal, CopyLocal, Copying
    <2> QED
      BY <2>1, <2>2, <2>4, QuietStep
  <1> QED
    BY <1>2, <1>3

(* A new user that is a copy of a document has its standing.                *)
LEMMA UpdateSavedStep ==
    ASSUME IInv, NEW r \in Reqs, UpdateSaved(r)
    PROVE  IInv'
  <1> DEFINE u == req[r].user
  <1>1. /\ u \in Draft /\ u.username # Empty /\ req[r].of \in DOMAIN users
        /\ req[r].id \in {req[r].of, Empty}
        /\ u.confirmToken = NoToken /\ u.resetToken = NoToken
        /\ ~req[r].admin => ConfirmedSound(req[r].of, u)
    BY RequestTypes DEF UpdateSaved, Local, UpdateLocal, Request
  <1>2. PICK id \in Ids :
        /\ users' = SaveUser(users, id, u)
        /\ vouched' = IF req[r].admin \/ <<req[r].of, u.mail>> \in vouched
                      THEN vouched \cup Vouched(id, u)
                      ELSE vouched
    BY <1>1, RequestTypes DEF UpdateSaved
  <1>3. Vouched(id, u) \subseteq Ids \X Mails
    BY <1>1 DEF Vouched, Draft
  <1>4. vouched \subseteq vouched' /\ vouched' \subseteq Ids \X Mails
    BY <1>2, <1>3 DEF IInv, TypeOK
  <1>5. u.confirmed /\ u.mail # Empty => <<id, u.mail>> \in vouched' \/ Proven(u.mail)
    BY <1>1, <1>2 DEF Vouched, ConfirmedSound
  <1>6. inbox \subseteq inbox' /\ InboxSound' /\ inbox' \subseteq [to : Mails, token : 1..Len(minted)]
    BY DEF UpdateSaved, IInv, TypeOK, InboxSound
  <1>7. ConfirmTokenSound(u) /\ ResetTokenSound(id, u)
    BY <1>1 DEF ConfirmTokenSound, ResetTokenSound
  <1>8. Return(r) /\ UNCHANGED <<minted, restarts, proc>>
    BY DEF UpdateSaved
  <1> HIDE DEF u
  <1> QED
    BY <1>1, <1>2, <1>4, <1>5, <1>6, <1>7, <1>8, SaveStep

-----------------------------------------------------------------------------
(* The handlers that copy the whole document, change it and save it back.   *)
LEMMA CopyTaken ==
    ASSUME IInv, NEW r \in Reqs, NEW q \in Request, Goto(r, q),
           q.pc \in Copying,
           q.id \in DOMAIN users, q.user \in User, Sound(q.id, q.user),
           q.pc \in {"confirm.save", "reset.save"} =>
               q.token \in 1..Len(minted) /\ minted[q.token].key = Secret,
           UNCHANGED <<users, minted, inbox, restarts, proc, vouched>>
    PROVE  IInv'
  <1>1. req'[r] = q
    BY RequestTypes
  <1>2. Sound(req[r].id, req[r].user)'
    BY <1>1 DEF Sound, ConfirmedSound, ConfirmTokenSound, ResetTokenSound, Proven
  <1>3. Local(req[r])'
    BY <1>1, <1>2 DEF Local, CreateLocal, UpdateLocal, CopyLocal, Copying, Secret
  <1> QED
    BY <1>3, QuietStep

LEMMA CopySaved ==
    ASSUME IInv, NEW r \in Reqs,
           req[r].pc \in Copying,
           users' = SaveUser(users, req[r].id, req[r].user), Return(r),
           inbox \subseteq inbox',
           inbox' \subseteq [to : Mails, token : 1..Len(minted)], InboxSound',
           UNCHANGED <<minted, restarts, proc, vouched>>
    PROVE  IInv'
  <1> DEFINE u == req[r].user
             id == req[r].id
  <1>1. u \in User /\ id \in DOMAIN users /\ id \in Ids /\ Sound(id, u)
    BY RequestTypes DEF Local, CopyLocal, Copying
  <1>2. u \in Draft /\ u.username # Empty
    BY <1>1 DEF User
  <1>3. u.confirmed /\ u.mail # Empty => <<id, u.mail>> \in vouched' \/ Proven(u.mail)
    BY <1>1 DEF Sound, ConfirmedSound
  <1>4. vouched \subseteq vouched' /\ vouched' \subseteq Ids \X Mails
    BY DEF IInv, TypeOK
  <1>5. ConfirmTokenSound(u) /\ ResetTokenSound(id, u)
    BY <1>1 DEF Sound
  <1>6. users' = SaveUser(users, id, u) /\ Return(r) /\ UNCHANGED <<minted, restarts, proc>>
    OBVIOUS
  <1> HIDE DEF u, id
  <1> QED
    BY <1>1, <1>2, <1>3, <1>4, <1>5, <1>6, SaveStep

LEMMA ChangedIsSound ==
    ASSUME NEW i, NEW u \in User, NEW new, Sound(i, u)
    PROVE  ChangedPassword(u, new) \in User /\ Sound(i, ChangedPassword(u, new))
  <1> DEFINE v == ChangedPassword(u, new)
  <1>1. Hash(Digest) \in Hashes /\ Hash(Empty) \in Hashes
    BY DEF Hash, Hashes
  <1>2. /\ v \in User /\ v.mail = u.mail /\ v.confirmed = u.confirmed
        /\ v.confirmToken = u.confirmToken /\ v.resetToken = u.resetToken
    BY <1>1 DEF ChangedPassword, User, Draft
  <1> HIDE DEF v
  <1>3. Sound(i, v)
    BY <1>2 DEF Sound, ConfirmedSound, ConfirmTokenSound, ResetTokenSound
  <1> QED
    BY <1>2, <1>3 DEF v

LEMMA ChangePasswordStep ==
    ASSUME IInv, NEW r \in Reqs, ChangePassword(r)
    PROVE  IInv'
  <1>1. PICK caller \in DOMAIN users, id \in Ids, new \in Passwords :
           \/ Goto(r, [Idle EXCEPT !.pc = "change.save", !.id = caller, !.want = new,
                                   !.user = ChangedPassword(users[caller], new)])
           \/ Goto(r, [Idle EXCEPT !.pc = "change.read", !.id = id, !.want = new])
    BY DEF ChangePassword, Callers
  <1>2. UNCHANGED <<users, minted, inbox, restarts, proc, vouched>>
    BY DEF ChangePassword, Callers
  <1> DEFINE v == ChangedPassword(users[caller], new)
             p == [Idle EXCEPT !.pc = "change.save", !.id = caller, !.want = new, !.user = v]
             q == [Idle EXCEPT !.pc = "change.read", !.id = id, !.want = new]
  <1>3. CASE Goto(r, p)
    <2>1. caller \in Ids /\ users[caller] \in User /\ Sound(caller, users[caller])
      BY RequestTypes DEF IInv, StoredSound
    <2>2. v \in User /\ v \in Draft /\ Sound(caller, v)
      BY <2>1, ChangedIsSound DEF User
    <2> HIDE DEF v
    <2>3. p \in Request /\ p.pc = "change.save" /\ p.id = caller /\ p.user = v
      BY <2>1, <2>2, IdleIsSound DEF Idle, Request, Pcs
    <2> HIDE DEF p
    <2> QED
      BY <1>2, <1>3, <2>2, <2>3, CopyTaken DEF Copying
  <1>4. CASE Goto(r, q)
    <2>1. q \in Request /\ q.pc = "change.read"
      BY IdleIsSound DEF Idle, Request, Pcs
    <2> HIDE DEF q
    <2>2. Local(req[r])'
      BY <1>4, <2>1, RequestTypes DEF Local, CreateLocal, UpdateLocal, CopyLocal, Copying
    <2> QED
      BY <1>2, <1>4, <2>1, <2>2, QuietStep
  <1> QED
    BY <1>1, <1>3, <1>4

LEMMA ChangeReadStep ==
    ASSUME IInv, NEW r \in Reqs, ChangeRead(r)
    PROVE  IInv'
  <1> DEFINE id == req[r].id
             v == ChangedPassword(users[id], req[r].want)
             q == [req[r] EXCEPT !.pc = "change.save", !.user = v]
  <1>1. req[r] \in Request /\ id \in DOMAIN users /\ users[id] \in User /\ Sound(id, users[id])
    BY RequestTypes DEF ChangeRead, IInv, StoredSound
  <1>2. v \in User /\ v \in Draft /\ Sound(id, v)
    BY <1>1, ChangedIsSound DEF User
  <1>3. Goto(r, q) /\ UNCHANGED <<users, minted, inbox, restarts, proc, vouched>>
    BY DEF ChangeRead
  <1> HIDE DEF v
  <1>4. q \in Request /\ q.pc = "change.save" /\ q.id = id /\ q.user = v
    BY <1>1, <1>2 DEF Request, Pcs
  <1> HIDE DEF q
  <1> QED
    BY <1>1, <1>2, <1>3, <1>4, CopyTaken DEF Copying

(* The token presented was mailed to the address that it names; the user    *)
(* who stores it has that address.                                          *)
LEMMA ConfirmMailStep ==
    ASSUME IInv, NEW r \in Reqs, ConfirmMail(r)
    PROVE  IInv'
  <1>1. PICK token \in Known \cup {NoToken}, id \in DOMAIN users :
        /\ id \in ByConfirmToken(users, token)
        /\ ValidConfirmToken(users[id], token)
        /\ Goto(r, [Idle EXCEPT !.pc = "confirm.save", !.id = id, !.token = token,
                                !.user = Confirm(users[id])])
    BY DEF ConfirmMail, ByConfirmToken
  <1> DEFINE u == users[id]
             v == Confirm(u)
             q == [Idle EXCEPT !.pc = "confirm.save", !.id = id, !.token = token, !.user = v]
  <1>2. id \in DOMAIN users /\ id \in Ids /\ u \in User /\ Sound(id, u)
    BY <1>1, RequestTypes DEF ByConfirmToken, IInv, StoredSound
  <1>3. /\ token # NoToken /\ u.confirmToken = token /\ token \in 1..Len(minted)
        /\ minted[token].kind = "confirm" /\ minted[token].mail = u.mail
        /\ minted[token].key = Secret
    BY <1>1, <1>2 DEF ValidConfirmToken, Decrypts, Sound, ConfirmTokenSound
  <1>4. Proven(u.mail)
    <2>1. PICK m \in inbox : m.token = token
      BY <1>1, <1>3 DEF Known
    <2>2. m.to = u.mail
      BY <1>3, <2>1 DEF IInv, InboxSound
    <2> QED
      BY <1>3, <2>1, <2>2 DEF Proven
  <1>5. /\ v \in User /\ v \in Draft /\ v.mail = u.mail /\ v.confirmToken = NoToken
        /\ v.resetToken = u.resetToken
    BY <1>2 DEF Confirm, User, Draft, NoToken
  <1>6. Sound(id, v)
    BY <1>2, <1>4, <1>5 DEF Sound, ConfirmedSound, ConfirmTokenSound, ResetTokenSound
  <1> HIDE DEF v
  <1>7. token \in Nat
    BY <1>3
  <1>8. q \in Request /\ q.pc = "confirm.save" /\ q.id = id /\ q.user = v /\ q.token = token
    BY <1>2, <1>5, <1>7, IdleIsSound DEF Idle, Request, Pcs
  <1>9. Goto(r, q)
    BY <1>1 DEF v
  <1> HIDE DEF q
  <1> QED
    BY <1>2, <1>3, <1>5, <1>6, <1>8, <1>9, CopyTaken DEF ConfirmMail, Copying

LEMMA ResetPasswordStep ==
    ASSUME IInv, NEW r \in Reqs, ResetPassword(r)
    PROVE  IInv'
  <1>1. PICK token \in Known, new \in Passwords, id \in DOMAIN users :
        /\ id \in ByResetToken(users, token)
        /\ token # NoToken
        /\ Decrypts(token)
        /\ Goto(r, [Idle EXCEPT !.pc = "reset.save", !.id = id, !.token = token,
                                !.user = Reset(users[id], new)])
    BY DEF ResetPassword, ByResetToken
  <1> DEFINE u == users[id]
             v == Reset(u, new)
             q == [Idle EXCEPT !.pc = "reset.save", !.id = id, !.token = token, !.user = v]
  <1>2. id \in DOMAIN users /\ id \in Ids /\ u \in User /\ Sound(id, u) /\ u.resetToken = token
    BY <1>1, RequestTypes DEF ByResetToken, IInv, StoredSound
  <1>3. token \in 1..Len(minted) /\ minted[token].key = Secret /\ token \in Nat
    BY <1>1, <1>2 DEF Decrypts, Sound, ResetTokenSound
  <1>4. Hash(new) \in Hashes /\ Hash(new) # Empty
    BY StoreAssumption DEF Hash, Hashes
  <1>5. /\ v \in User /\ v \in Draft /\ v.mail = u.mail /\ v.confirmed = u.confirmed
        /\ v.confirmToken = u.confirmToken /\ v.resetToken = NoToken
    BY <1>2, <1>4 DEF Reset, User, Draft, NoToken
  <1>6. Sound(id, v)
    BY <1>2, <1>5 DEF Sound, ConfirmedSound, ConfirmTokenSound, ResetTokenSound
  <1> HIDE DEF v
  <1>7. q \in Request /\ q.pc = "reset.save" /\ q.id = id /\ q.user = v /\ q.token = token
    BY <1>2, <1>3, <1>5, IdleIsSound DEF Idle, Request, Pcs
  <1>8. Goto(r, q)
    BY <1>1 DEF v
  <1> HIDE DEF q
  <1> QED
    BY <1>2, <1>3, <1>5, <1>6, <1>7, <1>8, CopyTaken DEF ResetPassword, Copying

LEMMA ForgotPasswordStep ==
    ASSUME IInv, NEW r \in Reqs, ForgotPassword(r)
    PROVE  IInv'
  <1>1. PICK id \in DOMAIN users :
        LET u == users[id] IN
        /\ u.mail # Empty
        /\ \/ /\ Generate("reset", u.mail, id)
              /\ Goto(r, [Idle EXCEPT !.pc = "forgot.save", !.id = id, !.token = NewToken,
                                      !.user = [u EXCEPT !.resetToken = NewToken]])
           \/ /\ Goto(r, [Idle EXCEPT !.pc = "forgot.save", !.id = id, !.user = u])
              /\ UNCHANGED minted
    BY DEF ForgotPassword
  <1> DEFINE u == users[id]
             v == [u EXCEPT !.resetToken = NewToken]
             p == [Idle EXCEPT !.pc = "forgot.save", !.id = id, !.token = NewToken, !.user = v]
             q == [Idle EXCEPT !.pc = "forgot.save", !.id = id, !.user = u]
  <1>2. /\ id \in DOMAIN users /\ id \in Ids /\ u \in User /\ u \in Draft /\ Sound(id, u)
        /\ u.mail \in Mails \cup {Empty}
    BY RequestTypes DEF IInv, StoredSound, Draft
  <1>3. UNCHANGED <<users, inbox, restarts, proc, vouched>>
    BY DEF ForgotPassword
  <1>4. CASE Generate("reset", u.mail, id) /\ Goto(r, p)
    <2>1. /\ minted' \in Seq(Minted)
          /\ Len(minted') = NewToken
          /\ NewToken \in Nat \ {NoToken}
          /\ \A t \in 1..Len(minted) : minted'[t] = minted[t]
          /\ minted'[NewToken].kind = "reset"
          /\ minted'[NewToken].mail = u.mail
          /\ minted'[NewToken].owner = id
      BY <1>2, <1>4, GenerateAppends DEF IInv
    <2>2. /\ v \in User /\ v \in Draft /\ v.mail = u.mail /\ v.confirmed = u.confirmed
          /\ v.confirmToken = u.confirmToken /\ v.resetToken = NewToken
      BY <1>2, <2>1 DEF User, Draft
    <2> HIDE DEF v
    <2>3. p \in Request /\ p.pc = "forgot.save" /\ p.id = id /\ p.user = v
      BY <1>2, <2>1, <2>2, IdleIsSound DEF Idle, Request, Pcs
    <2> HIDE DEF p
    <2>4. req'[r] = p
      BY <1>4, RequestTypes
    <2>5. Grows
      BY <1>3, <2>1 DEF Grows, NewToken, IInv, TypeOK
    <2>6. ConfirmedSound(req[r].id, req[r].user)'
      <3>1. ConfirmedSound(id, v)
        BY <1>2, <2>2 DEF Sound, ConfirmedSound
      <3> QED
        BY <2>3, <2>4, <2>5, <3>1, SoundGrows DEF IInv
    <2>7. ConfirmTokenSound(req[r].user)'
      <3>1. ConfirmTokenSound(v)
        BY <1>2, <2>2 DEF Sound, ConfirmTokenSound
      <3> QED
        BY <2>3, <2>4, <2>5, <3>1, SoundGrows DEF IInv
    <2>8. ResetTokenSound(req[r].id, req[r].user)'
      BY <2>1, <2>2, <2>3, <2>4 DEF ResetTokenSound, NoToken
    <2>9. Local(req[r])'
      BY <1>2, <1>3, <2>2, <2>3, <2>4, <2>6, <2>7, <2>8
      DEF Local, CreateLocal, UpdateLocal, CopyLocal, Copying, Sound
    <2> QED
      BY <1>2, <1>3, <1>4, <2>3, <2>9, GenerateStep
  <1>5. CASE Goto(r, q) /\ UNCHANGED minted
    <2>1. q \in Request /\ q.pc = "forgot.save" /\ q.id = id /\ q.user = u
      BY <1>2, IdleIsSound DEF Idle, Request, Pcs
    <2> HIDE DEF q, u
    <2> QED
      BY <1>2, <1>3, <1>5, <2>1, CopyTaken DEF Copying
  <1> QED
    BY <1>1, <1>4, <1>5

(* The mail of ForgotPassword goes to the address that the saved document   *)
(* has together with the token.                                             *)
LEMMA ForgotSavedStep ==
    ASSUME IInv, NEW r \in Reqs, ForgotSaved(r)
    PROVE  IInv'
  <1> DEFINE u == req[r].user
  <1>1. u \in User /\ ResetTokenSound(req[r].id, u)
    BY RequestTypes DEF ForgotSaved, Local, CopyLocal, Copying, Sound
  <1>2. u.mail \in Mails \cup {Empty}
    BY <1>1 DEF User, Draft
  <1>3. /\ inbox \subseteq inbox'
        /\ \A m \in inbox' : m \in inbox \/ /\ u.mail # Empty /\ u.resetToken # NoToken
                                            /\ m = [to |-> u.mail, token |-> u.resetToken]
    BY DEF ForgotSaved, Send
  <1>4. minted' = minted
    BY DEF ForgotSaved
  <1>5. inbox' \subseteq [to : Mails, token : 1..Len(minted)]
    BY <1>1, <1>2, <1>3 DEF ResetTokenSound, IInv, TypeOK
  <1>6. InboxSound'
    BY <1>1, <1>3, <1>4 DEF ResetTokenSound, IInv, InboxSound
  <1> QED
    BY <1>3, <1>5, <1>6, CopySaved DEF ForgotSaved, Copying

(* The handlers of groups change nothing of a document but its roles.       *)
LEMMA RolesReadStep ==
    ASSUME IInv, NEW r \in Reqs, RolesRead(r)
    PROVE  IInv'
  <1>1. PICK id \in DOMAIN users, roles \in RoleChanges :
        Goto(r, [Idle EXCEPT !.pc = "roles.save", !.id = id,
                             !.user = [users[id] EXCEPT !.roles = roles]])
    BY DEF RolesRead
  <1> DEFINE u == users[id]
             v == [u EXCEPT !.roles = roles]
             q == [Idle EXCEPT !.pc = "roles.save", !.id = id, !.user = v]
  <1>2. id \in Ids /\ u \in User /\ Sound(id, u) /\ roles \in SUBSET Roles
    BY AccountsAssumption, RequestTypes DEF IInv, StoredSound
  <1>3. /\ v \in User /\ v \in Draft /\ v.mail = u.mail /\ v.confirmed = u.confirmed
        /\ v.confirmToken = u.confirmToken /\ v.resetToken = u.resetToken
    BY <1>2 DEF User, Draft
  <1>4. Sound(id, v)
    BY <1>2, <1>3 DEF Sound, ConfirmedSound, ConfirmTokenSound, ResetTokenSound
  <1> HIDE DEF v
  <1>5. q \in Request /\ q.pc = "roles.save" /\ q.id = id /\ q.user = v
    BY <1>2, <1>3, IdleIsSound DEF Idle, Request, Pcs
  <1>6. Goto(r, q)
    BY <1>1 DEF v
  <1> HIDE DEF q
  <1> QED
    BY <1>3, <1>4, <1>5, <1>6, CopyTaken DEF RolesRead, Copying

LEMMA OtherSavesStep ==
    ASSUME IInv, NEW r \in Reqs,
           ChangeSaved(r) \/ ConfirmSaved(r) \/ ResetSaved(r) \/ RolesSaved(r)
    PROVE  IInv'
  <1>1. /\ inbox \subseteq inbox' /\ InboxSound'
        /\ inbox' \subseteq [to : Mails, token : 1..Len(minted)]
    BY DEF ChangeSaved, ConfirmSaved, ResetSaved, RolesSaved, IInv, TypeOK, InboxSound
  <1> QED
    BY <1>1, CopySaved DEF ChangeSaved, ConfirmSaved, ResetSaved, RolesSaved, Copying

-----------------------------------------------------------------------------
(* Requests that end without a save, and the end of all of them at once.    *)
LEMMA AbortStep ==
    ASSUME IInv, NEW r \in Reqs, Abort(r)
    PROVE  IInv'
  <1>1. Local(req[r])'
    BY RequestTypes, IdleIsSound DEF Abort, Return
  <1> QED
    BY <1>1, IdleIsSound, QuietStep DEF Abort, Return

LEMMA ExitStep ==
    ASSUME IInv, NEW how \in {"killed", "panicked"}, Exit(how)
    PROVE  IInv'
  <1>1. TypeOK'
    BY IdleIsSound DEF IInv, TypeOK, Exit
  <1>2. StoredSound' /\ InboxSound'
    BY DEF IInv, StoredSound, InboxSound, Sound, ConfirmedSound, ConfirmTokenSound,
           ResetTokenSound, Proven, Exit
  <1>3. LocalSound'
    BY IdleIsSound DEF LocalSound, Exit
  <1> QED
    BY <1>1, <1>2, <1>3 DEF IInv

(* The administrator of a start has no address; whoever gets the role keeps *)
(* all else.                                                                *)
LEMMA NewAdminTypes ==
    ASSUME NEW password \in Passwords
    PROVE  LET u == NewAdmin(password) IN
           /\ u \in Draft /\ u \in User /\ u.mail = Empty
           /\ u.confirmToken = NoToken /\ u.resetToken = NoToken
  <1>1. Hash(password) \in Hashes /\ AdminName \in Usernames /\ AdminName # Empty
    BY StoreAssumption, AccountsAssumption DEF Hash, Hashes
  <1> QED
    BY <1>1, StoreAssumption DEF NewAdmin, NoUser, User, Draft, NoToken

LEMMA InitAdminStep ==
    ASSUME IInv, DownSound, InitAdmin
    PROVE  IInv'
  <1>1. PICK id \in Ids, u \in User :
        /\ users' = SaveUser(users, id, u)
        /\ Sound(id, u)
    <2>1. CASE \E id \in Ids, password \in Passwords : users' = SaveUser(users, id, NewAdmin(password))
      <3>1. PICK id \in Ids, password \in Passwords : users' = SaveUser(users, id, NewAdmin(password))
        BY <2>1
      <3>2. Sound(id, NewAdmin(password))
        BY NewAdminTypes DEF Sound, ConfirmedSound, ConfirmTokenSound, ResetTokenSound
      <3> QED
        BY <3>1, <3>2, NewAdminTypes
    <2>2. CASE \E id \in DOMAIN users :
                 users' = SaveUser(users, id, [users[id] EXCEPT !.roles = @ \cup {"admin"}])
      <3>1. PICK id \in DOMAIN users :
                 users' = SaveUser(users, id, [users[id] EXCEPT !.roles = @ \cup {"admin"}])
        BY <2>2
      <3> DEFINE u == [users[id] EXCEPT !.roles = @ \cup {"admin"}]
      <3>2. id \in Ids /\ users[id] \in User /\ Sound(id, users[id])
        BY DEF IInv, TypeOK, StoredSound
      <3>3. /\ u \in User /\ u.mail = users[id].mail /\ u.confirmed = users[id].confirmed
            /\ u.confirmToken = users[id].confirmToken /\ u.resetToken = users[id].resetToken
        BY <3>2, StoreAssumption DEF User, Draft
      <3>4. users' = SaveUser(users, id, u)
        BY <3>1
      <3> HIDE DEF u
      <3>5. Sound(id, u)
        BY <3>2, <3>3 DEF Sound, ConfirmedSound, ConfirmTokenSound, ResetTokenSound
      <3> QED
        BY <3>2, <3>3, <3>4, <3>5
    <2> QED
      BY <2>1, <2>2 DEF InitAdmin, Holders
  <1>2. UNCHANGED <<minted, inbox, restarts, proc, req, vouched>>
    BY DEF InitAdmin
  <1>3. Grows
    BY <1>2 DEF IInv, TypeOK, Grows
  <1>4. u \in Draft /\ u.username # Empty /\ Collection(users)
    BY DEF User, IInv, TypeOK, Collection
  <1>5. Written(users, id, u, users')
    BY <1>1, <1>4, SaveUserWrites
  <1>6. TypeOK' /\ DOMAIN users \subseteq DOMAIN users'
    BY <1>2, <1>5 DEF Written, IInv, TypeOK
  <1>7. StoredSound'
    <2> SUFFICES ASSUME NEW i \in DOMAIN users'
                 PROVE  Sound(i, users[i])'
      BY DEF StoredSound
    <2>1. CASE i = id
      BY <1>1, <1>2, <1>5, <2>1
      DEF Written, Sound, ConfirmedSound, ConfirmTokenSound, ResetTokenSound, Proven
    <2>2. CASE i # id
      <3>1. Sound(i, users[i]) /\ users'[i] = users[i]
        BY <1>5, <2>2 DEF IInv, StoredSound, Written
      <3> QED
        BY <3>1, <1>3, SoundGrows DEF IInv, Sound
    <2> QED
      BY <2>1, <2>2
  <1>8. InboxSound'
    BY <1>2 DEF IInv, InboxSound
  <1>9. LocalSound'
    <2>1. \A r \in Reqs : req'[r] = Idle
      BY <1>2 DEF DownSound, InitAdmin
    <2> QED
      BY <2>1, IdleIsSound DEF LocalSound
  <1> QED
    BY <1>6, <1>7, <1>8, <1>9 DEF IInv

LEMMA RestartStep ==
    ASSUME IInv, DownSound, Restart
    PROVE  IInv'
  <1>1. restarts < MaxRestarts /\ \A r \in Reqs : req[r] = Idle
    BY DEF DownSound, Restart
  <1>2. TypeOK'
    BY <1>1, AccountsAssumption DEF IInv, TypeOK, Restart
  <1>3. StoredSound' /\ InboxSound'
    BY DEF IInv, StoredSound, InboxSound, Sound, ConfirmedSound, ConfirmTokenSound,
           ResetTokenSound, Proven, Restart
  <1>4. LocalSound'
    BY <1>1, IdleIsSound DEF LocalSound, Restart
  <1> QED
    BY <1>2, <1>3, <1>4 DEF IInv

LEMMA UpWhileServing ==
    ASSUME DownSound, NEW r \in Reqs, Step(r)
    PROVE  proc = "up"
  <1>1. CASE req[r].pc = "idle"
    BY <1>1 DEF Step, Ready, CreateUser, CreateChecked, CreateSaved, UpdateUser, UpdateRead,
                UpdateChecked, UpdateSaved, ChangePassword, ChangeRead, ChangeSaved,
                ConfirmMail, ConfirmSaved, ForgotPassword, ForgotSaved, ResetPassword,
                ResetSaved, RolesRead, RolesSaved, DeleteUser, ListUsers, Abort
  <1>2. CASE req[r].pc # "idle"
    BY <1>2 DEF DownSound, Idle
  <1> QED
    BY <1>1, <1>2

LEMMA DownStep ==
    ASSUME IInv, DownSound, [Next]_vars
    PROVE  DownSound'
  <1>1. ASSUME NEW how, Exit(how)
        PROVE  DownSound'
    BY <1>1 DEF Exit, DownSound
  <1>2. ASSUME NEW r \in Reqs, Step(r)
        PROVE  DownSound'
    <2>1. proc = "up"
      BY <1>2, UpWhileServing
    <2>2. CASE DeleteUser(r) \/ ListUsers(r)
      BY <1>1, <2>2 DEF DeleteUser, ListUsers, Panic
    <2>3. CASE ~(DeleteUser(r) \/ ListUsers(r))
      <3>1. proc' = proc
        BY <1>2, <2>3
        DEF Step, CreateUser, CreateChecked, CreateSaved, UpdateUser, UpdateRead,
            UpdateChecked, UpdateSaved, ChangePassword, ChangeRead, ChangeSaved,
            ConfirmMail, ConfirmSaved, ForgotPassword, ForgotSaved, ResetPassword,
            ResetSaved, RolesRead, RolesSaved, Abort
      <3> QED
        BY <2>1, <3>1 DEF DownSound
    <2> QED
      BY <2>2, <2>3
  <1>3. CASE Crash
    BY <1>1, <1>3 DEF Crash
  <1>4. CASE InitAdmin \/ Restart
    BY <1>4 DEF InitAdmin, Restart, DownSound
  <1>5. CASE UNCHANGED vars
    BY <1>5 DEF vars, DownSound
  <1> QED
    BY <1>2, <1>3, <1>4, <1>5 DEF Next

-----------------------------------------------------------------------------
(* The inductive invariant.                                                 *)
LEMMA InitSound ==
    Init => IInv /\ DownSound
  <1> SUFFICES ASSUME Init
               PROVE  IInv /\ DownSound
    OBVIOUS
  <1>1. PICK id \in Ids, password \in Passwords : users = [i \in {id} |-> NewAdmin(password)]
    BY DEF Init
  <1> DEFINE admin == NewAdmin(password)
  <1>2. /\ admin \in User /\ admin.mail = Empty
        /\ admin.confirmToken = NoToken /\ admin.resetToken = NoToken
    BY NewAdminTypes
  <1>3. DOMAIN users = {id} /\ users[id] = admin
    BY <1>1
  <1> HIDE DEF admin
  <1>4. TypeOK
    BY <1>2, <1>3, IdleIsSound, AccountsAssumption DEF Init, TypeOK
  <1>5. StoredSound /\ InboxSound
    BY <1>2, <1>3 DEF StoredSound, InboxSound, Sound, ConfirmedSound, ConfirmTokenSound,
                      ResetTokenSound, Init
  <1>6. LocalSound /\ DownSound
    BY IdleIsSound DEF Init, LocalSound, DownSound
  <1> QED
    BY <1>4, <1>5, <1>6 DEF IInv

LEMMA StepSound ==
    ASSUME IInv, DownSound, [Next]_vars
    PROVE  IInv'
  <1>1. ASSUME NEW r \in Reqs, Step(r)
        PROVE  IInv'
    <2>1. CASE CreateUser(r) \/ CreateChecked(r) \/ CreateSaved(r)
      BY <2>1, CreateUserStep, CreateCheckedStep, CreateSavedStep
    <2>2. CASE UpdateUser(r) \/ UpdateRead(r) \/ UpdateChecked(r) \/ UpdateSaved(r)
      BY <2>2, UpdateUserStep, UpdateReadStep, UpdateCheckedStep, UpdateSavedStep
    <2>3. CASE ChangePassword(r) \/ ChangeRead(r) \/ ChangeSaved(r)
      BY <2>3, ChangePasswordStep, ChangeReadStep, OtherSavesStep
    <2>4. CASE ConfirmMail(r) \/ ConfirmSaved(r)
      BY <2>4, ConfirmMailStep, OtherSavesStep
    <2>5. CASE ForgotPassword(r) \/ ForgotSaved(r)
      BY <2>5, ForgotPasswordStep, ForgotSavedStep
    <2>6. CASE ResetPassword(r) \/ ResetSaved(r)
      BY <2>6, ResetPasswordStep, OtherSavesStep
    <2>7. CASE DeleteUser(r) \/ ListUsers(r)
      BY <2>7, ExitStep DEF DeleteUser, ListUsers, Panic
    <2>8. CASE Abort(r)
      BY <2>8, AbortStep
    <2>9. CASE RolesRead(r) \/ RolesSaved(r)
      BY <2>9, RolesReadStep, OtherSavesStep
    <2> QED
      BY <1>1, <2>1, <2>2, <2>3, <2>4, <2>5, <2>6, <2>7, <2>8, <2>9 DEF Step
  <1>2. CASE Crash
    BY <1>2, ExitStep DEF Crash
  <1>3. CASE InitAdmin \/ Restart
    BY <1>3, InitAdminStep, RestartStep
  <1>4. CASE UNCHANGED vars
    BY <1>4 DEF vars, IInv, TypeOK, StoredSound, InboxSound, LocalSound, Sound,
                ConfirmedSound, ConfirmTokenSound, ResetTokenSound, Proven, Local,
                CreateLocal, UpdateLocal, CopyLocal, Secret
  <1> QED
    BY <1>1, <1>2, <1>3, <1>4 DEF Next

THEOREM Invariance == Spec => [](IInv /\ DownSound)
  <1>1. IInv /\ DownSound /\ [Next]_vars => (IInv /\ DownSound)'
    BY StepSound, DownStep
  <1> QED
    BY InitSound, <1>1, PTL DEF Spec

(* Types: no handler, however it is interleaved, and no start leaves a      *)
(* stored user without a user name (ValidateUser), also where UpdateUser    *)
(* makes a new one without a password (users.go:218, 246-251).              *)
THEOREM TypeCorrect == Spec => []TypeOK
  <1>1. IInv => TypeOK
    BY DEF IInv
  <1> QED
    BY Invariance, <1>1, PTL

(* The mail address of a confirmed user is proven, whatever stale copies    *)
(* the concurrent handlers of users.go save.                                *)
THEOREM ConfirmedOnlyWhenProven == Spec => []ConfirmedMailIsProven
  <1>1. IInv => ConfirmedMailIsProven
    BY DEF IInv, StoredSound, Sound, ConfirmedSound, ConfirmedMailIsProven
  <1> QED
    BY Invariance, <1>1, PTL

(* A stored confirmation token names the stored address (store.go:95-133).  *)
THEOREM ConfirmTokensMatch == Spec => []ConfirmTokenNamesStoredMail
  <1>1. IInv => ConfirmTokenNamesStoredMail
    BY DEF IInv, StoredSound, Sound, ConfirmTokenSound, ConfirmTokenNamesStoredMail
  <1> QED
    BY Invariance, <1>1, PTL

(* A reset link works only for its user and only while the user still has   *)
(* the address that it was sent to (users.go:360-423).                      *)
THEOREM ResetTokensMatch == Spec => []ResetTokenFollowsMail
  <1>1. IInv => ResetTokenFollowsMail
    BY DEF IInv, StoredSound, Sound, ResetTokenSound, ResetTokenFollowsMail
  <1> QED
    BY Invariance, <1>1, PTL

(* UpdateUser never touches a password, also one changed since its read     *)
(* (users.go:216-251).                                                      *)
THEOREM UpdatesKeepPasswords == Spec => UpdateKeepsPassword
  <1>1. ASSUME IInv, NEW r \in Reqs, UpdateSaved(r), NEW i \in DOMAIN users
        PROVE  users'[i].password = users[i].password
    <2> DEFINE u == req[r].user
    <2>1. /\ u \in Draft /\ u.username # Empty /\ u.password = Empty
          /\ req[r].id \in Ids \cup {Empty}
      BY <1>1, RequestTypes DEF UpdateSaved, Local, UpdateLocal, Request
    <2>2. Collection(users)
      BY <1>1 DEF IInv, TypeOK, Collection
    <2>3. PICK id \in Ids : users' = SaveUser(users, id, u)
      BY <1>1, <2>1 DEF UpdateSaved
    <2> HIDE DEF u
    <2>4. Written(users, id, u, users')
      BY <2>1, <2>2, <2>3, SaveUserWrites
    <2> QED
      BY <2>1, <2>4 DEF Written
  <1>2. IInv /\ [Next]_vars => [\A r \in Reqs : UpdateSaved(r) =>
            \A i \in DOMAIN users : users'[i].password = users[i].password]_vars
    BY <1>1
  <1> QED
    BY Invariance, <1>2, PTL DEF Spec, UpdateKeepsPassword

(* Links of an earlier process with another secret do nothing (main.go:29). *)
THEOREM TokensOfThisSecret == Spec => TokensDieWithSecret
  <1>1. ASSUME IInv, NEW r \in Reqs, ConfirmSaved(r) \/ ResetSaved(r)
        PROVE  minted[req[r].token].key = Secret
    BY <1>1, RequestTypes DEF ConfirmSaved, ResetSaved, Local, CopyLocal
  <1>2. IInv /\ [Next]_vars => [\A r \in Reqs : ConfirmSaved(r) \/ ResetSaved(r) =>
            minted[req[r].token].key = Secret]_vars
    BY <1>1
  <1> QED
    BY Invariance, <1>2, PTL DEF Spec, TokensDieWithSecret
=============================================================================
