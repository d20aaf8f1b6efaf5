------------------------- MODULE AccountsAloneProofs -------------------------
(***************************************************************************)
(* What Accounts keeps when requests do not overlap: no two users with one  *)
(* name or address, and tokens that work once. Both fail as soon as a save  *)
(* can come between the check of another handler and its save.              *)
(***************************************************************************)
EXTENDS AccountsProofs

(* One goroutine serves all requests, any number of them.                   *)
OneRequest == \A r, s \in Reqs : r = s

(* The copy of a handler belongs to the account that is stored: it has its  *)
(* name and its address, and no token but the stored ones or, after         *)
(* ForgotPassword, the one just generated.                                  *)
SameAccount(q) ==
    /\ q.user.username = users[q.id].username
    /\ q.user.mail = users[q.id].mail
    /\ q.user.confirmToken \in {NoToken, users[q.id].confirmToken}
    /\ \/ q.user.resetToken \in {NoToken, users[q.id].resetToken}
       \/ q.pc = "forgot.save" /\ q.user.resetToken = q.token

(* The token to be redeemed is stored, and will not be after the save.      *)
Redeeming(q) ==
    /\ q.pc = "confirm.save" =>
        /\ users[q.id].confirmToken = q.token
        /\ q.user.confirmToken = NoToken
        /\ minted[q.token].mail # Empty
    /\ q.pc = "reset.save" =>
        /\ users[q.id].resetToken = q.token
        /\ q.user.resetToken = NoToken
    /\ q.pc \in {"confirm.save", "reset.save"} => q.token # NoToken

(* What was checked still holds, and what was read is still stored.         *)
Current(q) ==
    /\ q.pc \in {"create.check", "create.save"} => q.id = Empty
    /\ q.pc \in {"create.save", "update.save"} => ~Taken(users, q.id, q.user)
    /\ q.pc \in Copying => SameAccount(q)
    /\ Redeeming(q)

AloneInv == UniqueAccounts /\ \A r \in Reqs : Current(req[r])
-----------------------------------------------------------------------------
LEMMA TakenNames ==
    ASSUME NEW us, NEW id, NEW u, NEW v, v.username = u.username, v.mail = u.mail
    PROVE  Taken(us, id, u) <=> Taken(us, id, v)
  BY DEF Taken

(* A request that is not about to save holds nothing that could be stale.   *)
LEMMA CurrentElsewhere ==
    ASSUME NEW q, q.pc \notin {"create.check", "create.save", "update.save"} \cup Copying
    PROVE  Current(q) /\ Current(q)'
  BY DEF Current, Redeeming, Copying

LEMMA CurrentIdle == Current(Idle) /\ Current(Idle)'
  <1>1. Idle.pc = "idle"
    BY DEF Idle
  <1> QED
    BY <1>1, CurrentElsewhere DEF Copying

(* What a save does to the fields that AloneInv is about.                   *)
Puts(us, id, u, saved) ==
    /\ DOMAIN saved = DOMAIN us \cup {id}
    /\ \A i \in DOMAIN us \ {id} : saved[i] = us[i]
    /\ saved[id].username = u.username
    /\ saved[id].mail = u.mail
    /\ saved[id].confirmToken = u.confirmToken
    /\ saved[id].resetToken = u.resetToken

LEMMA SaveUserPuts ==
    ASSUME NEW us, NEW id, NEW u \in Draft, Collection(us)
    PROVE  Puts(us, id, u, SaveUser(us, id, u))
  <1> DEFINE saved == SaveUser(us, id, u)
  <1>1. /\ DOMAIN saved = DOMAIN us \cup {id}
        /\ \A i \in DOMAIN us \ {id} : saved[i] = us[i]
    BY DEF SaveUser
  <1>2. CASE id \in DOMAIN us
    <2>1. saved[id] = SetUser(us[id], u)
      BY <1>2 DEF SaveUser
    <2> QED
      BY <1>1, <2>1 DEF SetUser, Draft, Puts
  <1>3. CASE id \notin DOMAIN us
    <2>1. saved[id] = u
      BY <1>3 DEF SaveUser
    <2> QED
      BY <1>1, <2>1 DEF Puts
  <1> QED
    BY <1>2, <1>3

(* A document whose name and address are free may be saved.                 *)
LEMMA FreeStaysUnique ==
    ASSUME IInv, UniqueAccounts, NEW id \in Ids, NEW u \in Draft,
           users' = SaveUser(users, id, u), ~Taken(users, id, u)
    PROVE  UniqueAccounts'
  <1>1. Puts(users, id, u, users')
    BY SaveUserPuts DEF IInv, TypeOK, Collection
  <1>2. /\ DOMAIN users' = DOMAIN users \cup {id}
        /\ \A i \in DOMAIN users \ {id} : users'[i] = users[i]
        /\ users'[id].username = u.username
        /\ users'[id].mail = u.mail
    BY <1>1 DEF Puts
  <1>3. \A i \in DOMAIN users \ {id} :
            /\ users[i].username # u.username
            /\ u.mail = Empty \/ users[i].mail # u.mail
    BY DEF Taken
  <1> SUFFICES ASSUME NEW i \in DOMAIN users', NEW j \in DOMAIN users', i # j
               PROVE  /\ users'[i].username # users'[j].username
                      /\ users'[i].mail = Empty \/ users'[i].mail # users'[j].mail
    BY DEF UniqueAccounts
  <1>4. CASE i = id
    BY <1>2, <1>3, <1>4
  <1>5. CASE j = id
    BY <1>2, <1>3, <1>5
  <1>6. CASE i # id /\ j # id
    BY <1>2, <1>6 DEF UniqueAccounts
  <1> QED
    BY <1>4, <1>5, <1>6

(* So may one that has the name and the address that are stored.            *)
LEMMA OwnIsFree ==
    ASSUME UniqueAccounts, NEW id \in DOMAIN users, NEW u,
           u.username = users[id].username, u.mail = users[id].mail
    PROVE  ~Taken(users, id, u)
  BY DEF UniqueAccounts, Taken

-----------------------------------------------------------------------------
(* Nobody else moves: the invariant is what the one request knows.          *)
LEMMA OnlyOneMoves ==
    ASSUME OneRequest, NEW r \in Reqs, Current(req[r])', UniqueAccounts'
    PROVE  AloneInv'
  BY DEF OneRequest, AloneInv

LEMMA Reads ==
    ASSUME IInv, AloneInv, OneRequest, UNCHANGED users,
           NEW r \in Reqs, NEW q, Goto(r, q), Current(q)'
    PROVE  AloneInv'
  <1>1. req'[r] = q
    BY RequestTypes
  <1>2. Current(req[r])'
    BY <1>1 DEF Current, SameAccount, Redeeming
  <1>3. UniqueAccounts'
    BY DEF AloneInv, UniqueAccounts
  <1> QED
    BY <1>2, <1>3, OnlyOneMoves

(* The handlers that begin with a copy.                                     *)
LEMMA CopyRead ==
    ASSUME IInv, AloneInv, OneRequest, UNCHANGED users,
           NEW r \in Reqs, NEW q, Goto(r, q),
           q.pc \in Copying, SameAccount(q), Redeeming(q)'
    PROVE  AloneInv'
  <1>1. SameAccount(q)'
    BY DEF SameAccount
  <1>2. Current(q)'
    BY <1>1 DEF Current, Copying
  <1> QED
    BY <1>2, Reads

LEMMA SaveReturns ==
    ASSUME IInv, AloneInv, OneRequest,
           NEW r \in Reqs, Return(r), NEW id \in Ids, NEW u \in Draft,
           users' = SaveUser(users, id, u), ~Taken(users, id, u)
    PROVE  AloneInv'
  <1>1. req'[r] = Idle
    BY RequestTypes DEF Return
  <1>2. Current(req[r])'
    BY <1>1, CurrentIdle
  <1>3. UniqueAccounts'
    BY FreeStaysUnique DEF AloneInv
  <1> QED
    BY <1>2, <1>3, OnlyOneMoves

-----------------------------------------------------------------------------
LEMMA AloneCreate ==
    ASSUME IInv, AloneInv, OneRequest, NEW r \in Reqs,
           CreateUser(r) \/ CreateChecked(r) \/ CreateSaved(r)
    PROVE  AloneInv'
  <1>1. CASE CreateUser(r)
    <2>1. PICK user : Goto(r, [Idle EXCEPT !.pc = "create.check", !.user = user])
      BY <1>1 DEF CreateUser
    <2>2. PICK q : q = [Idle EXCEPT !.pc = "create.check", !.user = user]
      OBVIOUS
    <2>3. q.pc = "create.check" /\ q.id = Empty
      BY <2>2 DEF Idle
    <2>4. UNCHANGED users
      BY <1>1 DEF CreateUser
    <2>5. Current(q)'
      BY <2>3 DEF Current, Redeeming, Copying
    <2> QED
      BY <2>1, <2>2, <2>4, <2>5, Reads
  <1>2. CASE CreateChecked(r)
    <2>1. /\ req[r].id = Empty /\ req[r] \in Request /\ req[r].user \in Draft
          /\ ~Taken(users, req[r].id, req[r].user) /\ UNCHANGED users
      BY <1>2, RequestTypes DEF CreateChecked, Valid, AloneInv, Current, Request
    <2>2. PICK user : /\ user.username = req[r].user.username /\ user.mail = req[r].user.mail
                      /\ Goto(r, [req[r] EXCEPT !.pc = "create.save", !.user = user])
      <3>1. CASE Goto(r, [req[r] EXCEPT !.pc = "create.save", !.user.confirmToken = NewToken])
        <4> DEFINE user == [req[r].user EXCEPT !.confirmToken = NewToken]
        <4>1. user.username = req[r].user.username /\ user.mail = req[r].user.mail
          BY <2>1 DEF Draft
        <4> QED
          BY <3>1, <4>1
      <3>2. CASE Goto(r, [req[r] EXCEPT !.pc = "create.save"])
        <4>1. [req[r] EXCEPT !.pc = "create.save"]
                = [req[r] EXCEPT !.pc = "create.save", !.user = req[r].user]
          BY <2>1 DEF Request
        <4> QED
          BY <3>2, <4>1
      <3> QED
        BY <1>2, <3>1, <3>2 DEF CreateChecked
    <2>3. PICK q : q = [req[r] EXCEPT !.pc = "create.save", !.user = user]
      OBVIOUS
    <2>4. q.pc = "create.save" /\ q.id = Empty /\ q.user = user
      BY <2>1, <2>3 DEF Request
    <2>5. ~Taken(users, q.id, q.user)
      BY <2>1, <2>2, <2>4, TakenNames
    <2>6. Current(q)'
      BY <2>1, <2>4, <2>5 DEF Current, Redeeming, Copying
    <2> QED
      BY <2>1, <2>2, <2>3, <2>6, Reads
  <1>3. CASE CreateSaved(r)
    <2>1. PICK id \in Ids \ DOMAIN users : users' = SaveUser(users, id, req[r].user)
      BY <1>3 DEF CreateSaved
    <2>2. ~Taken(users, Empty, req[r].user) /\ req[r].user \in Draft /\ Return(r)
      BY <1>3, RequestTypes DEF CreateSaved, AloneInv, Current, Request
    <2>3. ~Taken(users, id, req[r].user)
      BY <2>1, <2>2, StoreAssumption DEF Taken, IInv, TypeOK
    <2> QED
      BY <2>1, <2>2, <2>3, SaveReturns
  <1> QED
    BY <1>1, <1>2, <1>3

LEMMA AloneUpdate ==
    ASSUME IInv, AloneInv, OneRequest, NEW r \in Reqs,
           UpdateUser(r) \/ UpdateRead(r) \/ UpdateChecked(r) \/ UpdateSaved(r)
    PROVE  AloneInv'
  <1>1. CASE UpdateUser(r) \/ UpdateRead(r)
    <2>1. PICK q : Goto(r, q) /\ q.pc \in {"update.read", "update.check"}
      <3>1. CASE UpdateUser(r)
        <4>1. PICK id, admin, edit, from :
                Goto(r, [Idle EXCEPT !.pc = "update.read", !.id = id, !.admin = admin,
                                     !.edit = edit, !.from = from])
          BY <3>1 DEF UpdateUser
        <4> DEFINE q == [Idle EXCEPT !.pc = "update.read", !.id = id, !.admin = admin,
                                     !.edit = edit, !.from = from]
        <4>2. q.pc = "update.read"
          BY DEF Idle
        <4> QED
          BY <4>1, <4>2
      <3>2. CASE UpdateRead(r)
        <4>1. PICK id, of, user, moved :
                Goto(r, [req[r] EXCEPT !.pc = "update.check", !.id = id, !.of = of,
                                       !.edit = NoEdit, !.user = user, !.moved = moved])
          BY <3>2 DEF UpdateRead
        <4> DEFINE q == [req[r] EXCEPT !.pc = "update.check", !.id = id, !.of = of,
                                       !.edit = NoEdit, !.user = user, !.moved = moved]
        <4>2. q.pc = "update.check"
          BY RequestTypes DEF Request
        <4> QED
          BY <4>1, <4>2
      <3> QED
        BY <1>1, <3>1, <3>2
    <2>2. UNCHANGED users
      BY <1>1 DEF UpdateUser, UpdateRead
    <2>3. Current(q)'
      BY <2>1, CurrentElsewhere DEF Copying
    <2>4. Goto(r, q)
      BY <2>1
    <2> QED
      BY <2>2, <2>3, <2>4, Reads
  <1>2. CASE UpdateChecked(r)
    <2>1. /\ req[r] \in Request /\ req[r].user \in Draft
          /\ ~Taken(users, req[r].id, req[r].user) /\ UNCHANGED users
      BY <1>2, RequestTypes DEF UpdateChecked, Valid, Request
    <2>2. PICK user, token :
            /\ user.username = req[r].user.username /\ user.mail = req[r].user.mail
            /\ Goto(r, [req[r] EXCEPT !.pc = "update.save", !.user = user, !.from = Empty,
                                      !.token = token])
      <3>1. CASE Goto(r, [req[r] EXCEPT !.pc = "update.save", !.user = Unconfirm(req[r].user),
                                        !.from = Empty, !.token = NewToken])
        <4>1. /\ Unconfirm(req[r].user).username = req[r].user.username
              /\ Unconfirm(req[r].user).mail = req[r].user.mail
          BY <2>1 DEF Unconfirm, Draft
        <4> QED
          BY <3>1, <4>1
      <3>2. CASE Goto(r, [req[r] EXCEPT !.pc = "update.save", !.from = Empty])
        <4>1. [req[r] EXCEPT !.pc = "update.save", !.from = Empty]
                = [req[r] EXCEPT !.pc = "update.save", !.user = req[r].user, !.from = Empty,
                                 !.token = req[r].token]
          BY <2>1 DEF Request
        <4> QED
          BY <3>2, <4>1
      <3> QED
        BY <1>2, <3>1, <3>2 DEF UpdateChecked
    <2>3. PICK q : q = [req[r] EXCEPT !.pc = "update.save", !.user = user, !.from = Empty,
                                      !.token = token]
      OBVIOUS
    <2>4. q.pc = "update.save" /\ q.id = req[r].id /\ q.user = user
      BY <2>1, <2>3 DEF Request
    <2>5. ~Taken(users, q.id, q.user)
      BY <2>1, <2>2, <2>4, TakenNames
    <2>6. Current(q)'
      BY <2>1, <2>4, <2>5 DEF Current, Redeeming, Copying
    <2> QED
      BY <2>1, <2>2, <2>3, <2>6, Reads
  <1>3. CASE UpdateSaved(r)
    <2>1. /\ req[r].id \in Ids \cup {Empty} /\ req[r].user \in Draft /\ Return(r)
          /\ ~Taken(users, req[r].id, req[r].user)
      BY <1>3, RequestTypes DEF UpdateSaved, AloneInv, Current, Request
    <2>2. PICK id \in Ids, u \in Draft :
            /\ u = req[r].user /\ users' = SaveUser(users, id, u)
            /\ id # req[r].id => req[r].id = Empty /\ id \notin DOMAIN users
      BY <1>3, <2>1 DEF UpdateSaved
    <2>3. ~Taken(users, id, u)
      BY <2>1, <2>2, StoreAssumption DEF Taken, IInv, TypeOK
    <2> QED
      BY <2>1, <2>2, <2>3, SaveReturns
  <1> QED
    BY <1>1, <1>2, <1>3

-----------------------------------------------------------------------------
(* The handlers that copy a stored user: id, with other tokens or another   *)
(* password.                                                                *)
LEMMA AloneChange ==
    ASSUME IInv, AloneInv, OneRequest, NEW r \in Reqs, ChangePassword(r) \/ ChangeRead(r)
    PROVE  AloneInv'
  <1>1. UNCHANGED users
    BY DEF ChangePassword, ChangeRead
  <1>2. ASSUME NEW q, Goto(r, q), q.pc = "change.save", q.id \in DOMAIN users, NEW new,
               q.user = ChangedPassword(users[q.id], new)
        PROVE  AloneInv'
    <2>1. SameAccount(q)
      <3>1. users[q.id] \in Draft
        BY <1>2, RequestTypes
      <3> QED
        BY <1>2, <3>1 DEF SameAccount, ChangedPassword, Draft
    <2>2. q.pc \in Copying /\ Redeeming(q)'
      BY <1>2 DEF Copying, Redeeming
    <2> QED
      BY <1>1, <1>2, <2>1, <2>2, CopyRead
  <1>3. CASE ChangePassword(r)
    <2>1. PICK caller \in DOMAIN users, id \in Ids, new \in Passwords :
             \/ Goto(r, [Idle EXCEPT !.pc = "change.save", !.id = caller, !.want = new,
                                     !.user = ChangedPassword(users[caller], new)])
             \/ Goto(r, [Idle EXCEPT !.pc = "change.read", !.id = id, !.want = new])
      BY <1>3 DEF ChangePassword, Callers
    <2>2. CASE Goto(r, [Idle EXCEPT !.pc = "change.save", !.id = caller, !.want = new,
                                    !.user = ChangedPassword(users[caller], new)])
      <3>1. PICK q : q = [Idle EXCEPT !.pc = "change.save", !.id = caller, !.want = new,
                                      !.user = ChangedPassword(users[caller], new)]
        OBVIOUS
      <3>2. /\ q.pc = "change.save" /\ q.id = caller
            /\ q.user = ChangedPassword(users[q.id], new)
        BY <3>1 DEF Idle
      <3> QED
        BY <1>2, <2>2, <3>1, <3>2
    <2>3. CASE Goto(r, [Idle EXCEPT !.pc = "change.read", !.id = id, !.want = new])
      <3>1. PICK q : q = [Idle EXCEPT !.pc = "change.read", !.id = id, !.want = new]
        OBVIOUS
      <3>2. q.pc = "change.read"
        BY <3>1 DEF Idle
      <3>3. Current(q)'
        BY <3>2, CurrentElsewhere DEF Copying
      <3> QED
        BY <1>1, <2>3, <3>1, <3>3, Reads
    <2> QED
      BY <2>1, <2>2, <2>3
  <1>4. CASE ChangeRead(r)
    <2>1. PICK q : q = [req[r] EXCEPT
                            !.pc   = "change.save",
                            !.user = ChangedPassword(users[req[r].id], req[r].want)]
      OBVIOUS
    <2>2. req[r] \in Request /\ req[r].id \in DOMAIN users /\ Goto(r, q)
      BY <1>4, <2>1, RequestTypes DEF ChangeRead
    <2>3. /\ q.pc = "change.save" /\ q.id = req[r].id
          /\ q.user = ChangedPassword(users[q.id], req[r].want)
      BY <2>1, <2>2 DEF Request
    <2> QED
      BY <1>2, <2>2, <2>3
  <1> QED
    BY <1>3, <1>4

(* Who presents a token has it from a mail, and that mail had an address.   *)
LEMMA AloneConfirm ==
    ASSUME IInv, AloneInv, OneRequest, NEW r \in Reqs, ConfirmMail(r)
    PROVE  AloneInv'
  <1>1. PICK token \in Known \cup {NoToken}, id \in DOMAIN users :
        /\ ValidConfirmToken(users[id], token)
        /\ Goto(r, [Idle EXCEPT !.pc = "confirm.save", !.id = id, !.token = token,
                                !.user = Confirm(users[id])])
    BY DEF ConfirmMail, ByConfirmToken
  <1>2. users[id] \in Draft /\ UNCHANGED <<users, minted>>
    BY RequestTypes DEF ConfirmMail
  <1>3. token # NoToken /\ users[id].confirmToken = token
    BY <1>1 DEF ValidConfirmToken
  <1>4. minted[token].mail # Empty
    <2>1. PICK m \in inbox : m.token = token
      BY <1>1, <1>3 DEF Known
    <2>2. minted[token].mail = m.to /\ m.to \in Mails
      BY <2>1 DEF IInv, TypeOK, InboxSound
    <2> QED
      BY <2>2, StoreAssumption
  <1>5. PICK q : q = [Idle EXCEPT !.pc = "confirm.save", !.id = id, !.token = token,
                                  !.user = Confirm(users[id])]
    OBVIOUS
  <1>6. q.pc = "confirm.save" /\ q.id = id /\ q.token = token /\ q.user = Confirm(users[id])
    BY <1>5 DEF Idle
  <1>7. q.user.confirmToken = NoToken /\ SameAccount(q)
    BY <1>2, <1>6 DEF SameAccount, Confirm, Draft
  <1>8. q.pc \in Copying /\ Redeeming(q)'
    BY <1>2, <1>3, <1>4, <1>6, <1>7 DEF Copying, Redeeming
  <1> QED
    BY <1>1, <1>2, <1>5, <1>7, <1>8, CopyRead

LEMMA AloneForgot ==
    ASSUME IInv, AloneInv, OneRequest, NEW r \in Reqs, ForgotPassword(r)
    PROVE  AloneInv'
  <1>1. PICK q :
        /\ Goto(r, q) /\ q.pc = "forgot.save" /\ q.id \in DOMAIN users
        /\ \/ q.user = [users[q.id] EXCEPT !.resetToken = q.token]
           \/ q.user = users[q.id]
    <2>1. PICK id \in DOMAIN users :
            \/ Goto(r, [Idle EXCEPT !.pc = "forgot.save", !.id = id, !.token = NewToken,
                                    !.user = [users[id] EXCEPT !.resetToken = NewToken]])
            \/ Goto(r, [Idle EXCEPT !.pc = "forgot.save", !.id = id, !.user = users[id]])
      BY DEF ForgotPassword
    <2>2. CASE Goto(r, [Idle EXCEPT !.pc = "forgot.save", !.id = id, !.token = NewToken,
                                    !.user = [users[id] EXCEPT !.resetToken = NewToken]])
      <3>1. PICK q : q = [Idle EXCEPT !.pc = "forgot.save", !.id = id, !.token = NewToken,
                                      !.user = [users[id] EXCEPT !.resetToken = NewToken]]
        OBVIOUS
      <3>2. /\ q.pc = "forgot.save" /\ q.id = id
            /\ q.user = [users[q.id] EXCEPT !.resetToken = q.token]
        BY <3>1 DEF Idle
      <3> QED
        BY <2>2, <3>1, <3>2
    <2>3. CASE Goto(r, [Idle EXCEPT !.pc = "forgot.save", !.id = id, !.user = users[id]])
      <3>1. PICK q : q = [Idle EXCEPT !.pc = "forgot.save", !.id = id, !.user = users[id]]
        OBVIOUS
      <3>2. q.pc = "forgot.save" /\ q.id = id /\ q.user = users[q.id]
        BY <3>1 DEF Idle
      <3> QED
        BY <2>3, <3>1, <3>2
    <2> QED
      BY <2>1, <2>2, <2>3
  <1>2. users[q.id] \in Draft /\ UNCHANGED users
    BY <1>1, RequestTypes DEF ForgotPassword
  <1>3. SameAccount(q)
    BY <1>1, <1>2 DEF SameAccount, Draft
  <1>4. q.pc \in Copying /\ Redeeming(q)'
    BY <1>1 DEF Copying, Redeeming
  <1> QED
    BY <1>1, <1>2, <1>3, <1>4, CopyRead

LEMMA AloneReset ==
    ASSUME IInv, AloneInv, OneRequest, NEW r \in Reqs, ResetPassword(r)
    PROVE  AloneInv'
  <1>1. PICK token \in Known, new \in Passwords, id \in DOMAIN users :
        /\ users[id].resetToken = token /\ token # NoToken
        /\ Goto(r, [Idle EXCEPT !.pc = "reset.save", !.id = id, !.token = token,
                                !.user = Reset(users[id], new)])
    BY DEF ResetPassword, ByResetToken
  <1>2. users[id] \in Draft /\ UNCHANGED users
    BY RequestTypes DEF ResetPassword
  <1>3. PICK q : q = [Idle EXCEPT !.pc = "reset.save", !.id = id, !.token = token,
                                  !.user = Reset(users[id], new)]
    OBVIOUS
  <1>4. q.pc = "reset.save" /\ q.id = id /\ q.token = token /\ q.user = Reset(users[id], new)
    BY <1>3 DEF Idle
  <1>5. q.user.resetToken = NoToken /\ SameAccount(q)
    BY <1>2, <1>4 DEF SameAccount, Reset, Draft
  <1>6. q.pc \in Copying /\ Redeeming(q)'
    BY <1>1, <1>2, <1>4, <1>5 DEF Copying, Redeeming
  <1> QED
    BY <1>1, <1>2, <1>3, <1>5, <1>6, CopyRead

LEMMA AloneRoles ==
    ASSUME IInv, AloneInv, OneRequest, NEW r \in Reqs, RolesRead(r)
    PROVE  AloneInv'
  <1>1. PICK id \in DOMAIN users, roles \in RoleChanges :
        Goto(r, [Idle EXCEPT !.pc = "roles.save", !.id = id,
                             !.user = [users[id] EXCEPT !.roles = roles]])
    BY DEF RolesRead
  <1>2. users[id] \in Draft /\ UNCHANGED users
    BY RequestTypes DEF RolesRead
  <1>3. PICK q : q = [Idle EXCEPT !.pc = "roles.save", !.id = id,
                                  !.user = [users[id] EXCEPT !.roles = roles]]
    OBVIOUS
  <1>4. q.pc = "roles.save" /\ q.id = id /\ q.user = [users[id] EXCEPT !.roles = roles]
    BY <1>3 DEF Idle
  <1>5. SameAccount(q)
    BY <1>2, <1>4 DEF SameAccount, Draft
  <1>6. q.pc \in Copying /\ Redeeming(q)'
    BY <1>4 DEF Copying, Redeeming
  <1> QED
    BY <1>1, <1>2, <1>3, <1>5, <1>6, CopyRead

(* The saves of these handlers.                                             *)
LEMMA AloneSaves ==
    ASSUME IInv, AloneInv, OneRequest, NEW r \in Reqs,
           \/ ChangeSaved(r) \/ ConfirmSaved(r) \/ ForgotSaved(r)
           \/ ResetSaved(r) \/ RolesSaved(r)
    PROVE  AloneInv'
  <1>1. /\ req[r].pc \in Copying /\ Return(r)
        /\ users' = SaveUser(users, req[r].id, req[r].user)
    BY DEF ChangeSaved, ConfirmSaved, ForgotSaved, ResetSaved, RolesSaved, Copying
  <1>2. /\ req[r].id \in DOMAIN users /\ req[r].id \in Ids /\ req[r].user \in Draft
        /\ SameAccount(req[r])
    BY <1>1, RequestTypes DEF Local, CopyLocal, AloneInv, Current, User
  <1>3. PICK id \in Ids, u \in Draft : id = req[r].id /\ u = req[r].user
    BY <1>2
  <1>4. ~Taken(users, id, u)
    BY <1>2, <1>3, OwnIsFree DEF SameAccount, AloneInv
  <1> QED
    BY <1>1, <1>3, <1>4, SaveReturns

LEMMA AloneEnds ==
    ASSUME IInv, AloneInv, OneRequest,
           Crash \/ Restart \/ \E r \in Reqs : Abort(r) \/ DeleteUser(r) \/ ListUsers(r)
    PROVE  AloneInv'
  <1>1. UNCHANGED <<users, minted>>
    BY DEF Crash, Restart, Abort, DeleteUser, ListUsers, Panic, Exit
  <1>2. UniqueAccounts'
    BY <1>1 DEF AloneInv, UniqueAccounts
  <1>3. CASE Restart
    BY <1>1, <1>2, <1>3 DEF Restart, AloneInv, Current, SameAccount, Redeeming
  <1>4. ASSUME NEW r \in Reqs, Abort(r)
        PROVE  AloneInv'
    BY <1>1, <1>4, CurrentIdle, Reads DEF Abort, Return
  <1>5. CASE req' = [r \in Reqs |-> Idle]
    <2>1. ASSUME NEW r \in Reqs PROVE Current(req[r])'
      BY <1>5, CurrentIdle
    <2> QED
      BY <1>2, <2>1 DEF AloneInv
  <1> QED
    BY <1>3, <1>4, <1>5 DEF Crash, DeleteUser, ListUsers, Panic, Exit

(* A start takes no name that somebody has.                                 *)
LEMMA AloneStart ==
    ASSUME IInv, DownSound, AloneInv, InitAdmin
    PROVE  AloneInv'
  <1>1. PICK id \in Ids, u \in Draft : users' = SaveUser(users, id, u) /\ ~Taken(users, id, u)
    <2>1. CASE \E id \in Ids, password \in Passwords :
                 Holders = {} /\ users' = SaveUser(users, id, NewAdmin(password))
      <3>1. PICK id \in Ids, password \in Passwords :
                 Holders = {} /\ users' = SaveUser(users, id, NewAdmin(password))
        BY <2>1
      <3>2. NewAdmin(password).username = AdminName
        BY DEF NewAdmin, NoUser
      <3>3. ~Taken(users, id, NewAdmin(password))
        BY <3>1, <3>2, NewAdminTypes DEF Taken, Holders
      <3> QED
        BY <3>1, <3>3, NewAdminTypes
    <2>2. CASE \E id \in DOMAIN users :
                 users' = SaveUser(users, id, [users[id] EXCEPT !.roles = @ \cup {"admin"}])
      <3>1. PICK id \in DOMAIN users :
                 users' = SaveUser(users, id, [users[id] EXCEPT !.roles = @ \cup {"admin"}])
        BY <2>2
      <3> DEFINE u == [users[id] EXCEPT !.roles = @ \cup {"admin"}]
      <3>2. /\ id \in Ids /\ u \in Draft
            /\ u.username = users[id].username /\ u.mail = users[id].mail
        BY StoreAssumption DEF IInv, TypeOK, User, Draft
      <3>3. users' = SaveUser(users, id, u)
        BY <3>1
      <3> HIDE DEF u
      <3> QED
        BY <3>2, <3>3, OwnIsFree DEF AloneInv
    <2> QED
      BY <2>1, <2>2 DEF InitAdmin, Holders
  <1>2. UniqueAccounts'
    BY <1>1, FreeStaysUnique DEF AloneInv
  <1>3. \A r \in Reqs : req'[r] = Idle
    BY DEF DownSound, InitAdmin
  <1>4. ASSUME NEW r \in Reqs PROVE Current(req[r])'
    BY <1>3, CurrentIdle
  <1> QED
    BY <1>2, <1>4 DEF AloneInv

LEMMA AloneStep ==
    ASSUME IInv, DownSound, AloneInv, OneRequest, [Next]_vars
    PROVE  AloneInv'
  <1>1. CASE UNCHANGED vars
    BY <1>1 DEF AloneInv, UniqueAccounts, Current, SameAccount, Redeeming, vars
  <1>2. CASE Next
    BY <1>2, AloneCreate, AloneUpdate, AloneChange, AloneConfirm, AloneForgot, AloneReset,
       AloneRoles, AloneSaves, AloneEnds, AloneStart
    DEF Next, Step
  <1> QED
    BY <1>1, <1>2

(* Nothing of the invariant of AccountsProofs is lost.                      *)
AllInv == IInv /\ DownSound /\ AloneInv /\ OneRequest

LEMMA AloneInvariance == OneRequest /\ Spec => []AllInv
  <1>1. OneRequest /\ Init => AllInv
    <2> SUFFICES ASSUME OneRequest, Init PROVE AllInv
      OBVIOUS
    <2>1. UniqueAccounts
      BY DEF Init, UniqueAccounts
    <2>2. \A r \in Reqs : Current(req[r])
      BY CurrentIdle DEF Init
    <2> QED
      BY <2>1, <2>2, InitSound DEF AloneInv, AllInv
  <1>2. AllInv /\ [Next]_vars => AllInv'
    <2> SUFFICES ASSUME AllInv, [Next]_vars PROVE AllInv'
      OBVIOUS
    <2>1. OneRequest'
      BY DEF AllInv, OneRequest
    <2> QED
      BY <2>1, AloneStep, StepSound, DownStep DEF AllInv
  <1> QED
    BY <1>1, <1>2, PTL DEF Spec

(* While requests do not overlap no two users have one user name or one     *)
(* mail address, also after requests that saved copies (users.go:107-115).  *)
THEOREM AccountsStayUnique == OneRequest /\ Spec => []UniqueAccounts
  <1>1. AllInv => UniqueAccounts
    BY DEF AllInv, AloneInv
  <1> QED
    BY AloneInvariance, <1>1, PTL

-----------------------------------------------------------------------------
(* What a save that puts u in the place of id does to the tokens.           *)
LEMMA TokensAfter ==
    ASSUME IInv, NEW id \in Ids, NEW u \in Draft, users' = SaveUser(users, id, u),
           NEW i \in DOMAIN users
    PROVE  /\ i # id => users'[i] = users[i]
           /\ i = id => /\ users'[i].confirmToken = u.confirmToken
                        /\ users'[i].resetToken = u.resetToken
  <1>1. Puts(users, id, u, users')
    BY SaveUserPuts DEF IInv, TypeOK, Collection
  <1> QED
    BY <1>1 DEF Puts

(* A token is stored in one place: a reset token names its user, and a      *)
(* confirmation token an address that no two users have.                    *)
LEMMA TokenOfOne ==
    ASSUME IInv, UniqueAccounts, NEW i \in DOMAIN users, NEW j \in DOMAIN users,
           NEW t, t # NoToken
    PROVE  /\ ~(users[i].confirmToken = t /\ users[j].resetToken = t)
           /\ users[i].resetToken = t /\ users[j].resetToken = t => i = j
           /\ users[i].confirmToken = t /\ users[j].confirmToken = t
                /\ minted[t].mail # Empty => i = j
  <1>1. /\ ConfirmTokenSound(users[i]) /\ ConfirmTokenSound(users[j])
        /\ ResetTokenSound(i, users[i]) /\ ResetTokenSound(j, users[j])
    BY DEF IInv, StoredSound, Sound
  <1>2. ~(users[i].confirmToken = t /\ users[j].resetToken = t)
    BY <1>1 DEF ConfirmTokenSound, ResetTokenSound
  <1>3. users[i].resetToken = t /\ users[j].resetToken = t => i = j
    BY <1>1 DEF ResetTokenSound
  <1>4. users[i].confirmToken = t /\ users[j].confirmToken = t /\ minted[t].mail # Empty => i = j
    BY <1>1 DEF ConfirmTokenSound, UniqueAccounts
  <1> QED
    BY <1>2, <1>3, <1>4

(* Tokens do not come back, and come by ForgotPassword only.                *)
LEMMA NoTokenReturns ==
    ASSUME AllInv, Next, NEW i \in DOMAIN users
    PROVE  /\ users'[i].confirmToken \in {NoToken, users[i].confirmToken}
           /\ \/ users'[i].resetToken \in {NoToken, users[i].resetToken}
              \/ \E r \in Reqs : ForgotSaved(r) /\ users'[i].resetToken = req[r].token
  <1>1. CASE UNCHANGED users
    BY <1>1
  <1>2. ASSUME NEW r \in Reqs, CreateSaved(r)
        PROVE  users'[i] = users[i]
    <2>1. PICK id \in Ids \ DOMAIN users : users' = SaveUser(users, id, req[r].user)
      BY <1>2 DEF CreateSaved
    <2> QED
      BY <2>1 DEF SaveUser
  <1>3. ASSUME NEW r \in Reqs, UpdateSaved(r)
        PROVE  \/ users'[i] = users[i]
               \/ users'[i].confirmToken = NoToken /\ users'[i].resetToken = NoToken
    <2>1. PICK id \in Ids, u \in Draft :
            /\ users' = SaveUser(users, id, u)
            /\ u.confirmToken = NoToken /\ u.resetToken = NoToken
      BY <1>3, RequestTypes
      DEF UpdateSaved, AllInv, Request, Local, UpdateLocal, IInv, TypeOK
    <2> QED
      BY <2>1, TokensAfter DEF AllInv
  <1>4. ASSUME NEW r \in Reqs,
               \/ ChangeSaved(r) \/ ConfirmSaved(r) \/ ForgotSaved(r)
               \/ ResetSaved(r) \/ RolesSaved(r)
        PROVE  /\ users'[i].confirmToken \in {NoToken, users[i].confirmToken}
               /\ \/ users'[i].resetToken \in {NoToken, users[i].resetToken}
                  \/ ForgotSaved(r) /\ users'[i].resetToken = req[r].token
    <2>1. /\ req[r].pc \in Copying /\ users' = SaveUser(users, req[r].id, req[r].user)
          /\ req[r].pc = "forgot.save" => ForgotSaved(r)
      BY <1>4 DEF ChangeSaved, ConfirmSaved, ForgotSaved, ResetSaved, RolesSaved, Copying
    <2>2. /\ req[r].id \in Ids /\ req[r].user \in Draft /\ SameAccount(req[r])
      BY <2>1, RequestTypes DEF AllInv, Local, CopyLocal, AloneInv, Current, User
    <2>3. PICK id \in Ids, u \in Draft : id = req[r].id /\ u = req[r].user
      BY <2>2
    <2>4. /\ i # id => users'[i] = users[i]
          /\ i = id => /\ users'[i].confirmToken = u.confirmToken
                       /\ users'[i].resetToken = u.resetToken
      BY <2>1, <2>3, TokensAfter DEF AllInv
    <2> QED
      BY <2>1, <2>2, <2>3, <2>4 DEF SameAccount
  <1>5. ASSUME InitAdmin
        PROVE  /\ users'[i].confirmToken = users[i].confirmToken
               /\ users'[i].resetToken = users[i].resetToken
    <2>1. CASE \E id \in Ids \ DOMAIN users : \E u : users' = SaveUser(users, id, u)
      BY <2>1 DEF SaveUser
    <2>2. CASE \E id \in DOMAIN users :
                 users' = SaveUser(users, id, [users[id] EXCEPT !.roles = @ \cup {"admin"}])
      <3>1. PICK id \in DOMAIN users :
                 users' = SaveUser(users, id, [users[id] EXCEPT !.roles = @ \cup {"admin"}])
        BY <2>2
      <3> DEFINE u == [users[id] EXCEPT !.roles = @ \cup {"admin"}]
      <3>2. /\ id \in Ids /\ u \in Draft /\ u.confirmToken = users[id].confirmToken
            /\ u.resetToken = users[id].resetToken
        BY StoreAssumption DEF AllInv, IInv, TypeOK, User, Draft
      <3>3. users' = SaveUser(users, id, u)
        BY <3>1
      <3> HIDE DEF u
      <3> QED
        BY <3>2, <3>3, TokensAfter DEF AllInv
    <2> QED
      BY <1>5, <2>1, <2>2 DEF InitAdmin, Holders
  <1>6. \/ UNCHANGED users
        \/ InitAdmin
        \/ \E r \in Reqs : \/ CreateSaved(r) \/ UpdateSaved(r) \/ ChangeSaved(r)
                           \/ ConfirmSaved(r) \/ ForgotSaved(r) \/ ResetSaved(r)
                           \/ RolesSaved(r)
    BY DEF Next, Step, Crash, Restart, CreateUser, CreateChecked, UpdateUser, UpdateRead,
           UpdateChecked, ChangePassword, ChangeRead, ConfirmMail, ForgotPassword,
           ResetPassword, RolesRead, DeleteUser, ListUsers, Panic, Exit, Abort
  <1> QED
    BY <1>1, <1>2, <1>3, <1>4, <1>5, <1>6

(* The token that is redeemed is in no document afterwards.                 *)
LEMMA RedeemedIsGone ==
    ASSUME AllInv, NEW r \in Reqs, ConfirmSaved(r) \/ ResetSaved(r), NEW i \in DOMAIN users
    PROVE  req[r].token \notin {users'[i].confirmToken, users'[i].resetToken}
  <1>1. /\ req[r].pc \in {"confirm.save", "reset.save"}
        /\ users' = SaveUser(users, req[r].id, req[r].user)
    BY DEF ConfirmSaved, ResetSaved
  <1>2. /\ req[r].id \in DOMAIN users /\ req[r].id \in Ids /\ req[r].user \in Draft
        /\ SameAccount(req[r]) /\ Redeeming(req[r])
    BY <1>1, RequestTypes DEF AllInv, Local, CopyLocal, AloneInv, Current, User, Copying
  <1>3. PICK id, u, t :
            /\ id \in Ids /\ id = req[r].id
            /\ u \in Draft /\ u = req[r].user
            /\ t = req[r].token
    BY <1>2
  <1>4. /\ i # id => users'[i] = users[i]
        /\ i = id => /\ users'[i].confirmToken = u.confirmToken
                     /\ users'[i].resetToken = u.resetToken
    BY <1>1, <1>3, TokensAfter DEF AllInv
  <1>5. t # NoToken /\ id \in DOMAIN users
    BY <1>1, <1>2, <1>3 DEF Redeeming
  <1>6. CASE req[r].pc = "confirm.save"
    <2>1. users[id].confirmToken = t /\ u.confirmToken = NoToken /\ minted[t].mail # Empty
      BY <1>2, <1>3, <1>6 DEF Redeeming
    <2>2. u.resetToken \in {NoToken, users[id].resetToken}
      BY <1>2, <1>3, <1>6 DEF SameAccount
    <2>3. users[id].resetToken # t /\ users[i].resetToken # t
          /\ (users[i].confirmToken = t => i = id)
      BY <1>5, <2>1, TokenOfOne DEF AllInv, AloneInv
    <2> QED
      BY <1>3, <1>4, <1>5, <2>1, <2>2, <2>3
  <1>7. CASE req[r].pc = "reset.save"
    <2>1. users[id].resetToken = t /\ u.resetToken = NoToken
      BY <1>2, <1>3, <1>7 DEF Redeeming
    <2>2. u.confirmToken \in {NoToken, users[id].confirmToken}
      BY <1>2, <1>3 DEF SameAccount
    <2>3. users[id].confirmToken # t /\ users[i].confirmToken # t
          /\ (users[i].resetToken = t => i = id)
      BY <1>5, <2>1, TokenOfOne DEF AllInv, AloneInv
    <2> QED
      BY <1>3, <1>4, <1>5, <2>1, <2>2, <2>3
  <1> QED
    BY <1>1, <1>6, <1>7

(* While requests do not overlap a token works once (users.go:352, 417):    *)
(* the save that redeems it takes it out of every document, and no copy     *)
(* that a handler holds brings it back.                                     *)
THEOREM TokensWorkOnce == OneRequest /\ Spec => TokensSingleUse
  <1> DEFINE Once ==
        \A i \in DOMAIN users :
            /\ users'[i].confirmToken \in {NoToken, users[i].confirmToken}
            /\ \/ users'[i].resetToken \in {NoToken, users[i].resetToken}
               \/ \E r \in Reqs : ForgotSaved(r) /\ users'[i].resetToken = req[r].token
            /\ \A r \in Reqs : ConfirmSaved(r) \/ ResetSaved(r) =>
                req[r].token \notin {users'[i].confirmToken, users'[i].resetToken}
  <1>1. AllInv /\ [Next]_vars => [Once]_vars
    BY NoTokenReturns, RedeemedIsGone
  <1> QED
    BY AloneInvariance, <1>1, PTL DEF Spec, TokensSingleUse

-----------------------------------------------------------------------------
(* What a handler knows of the directory (ImplementsDirectory). It does     *)
(* what is reserved for administrators while there is one.                  *)
Administered == \E i \in DOMAIN users : HasRole(users[i], "admin")

Authorised(q) ==
    /\ q.pc \in {"create.check", "create.save"} /\ (q.user.confirmed \/ q.user.mail = Empty)
        => Administered
    /\ q.pc \in {"update.read", "update.check", "update.save"} /\ q.admin => Administered
    /\ q.pc = "roles.save" => Administered

(* The edited document against the stored one, old.                         *)
EditedOf(q, old) ==
    /\ q.user.roles = old.roles
    /\ ~q.admin =>
        /\ q.user.confirmed => old.confirmed
        /\ q.pc = "update.check" /\ ~q.moved => q.user.mail = old.mail
        /\ q.pc = "update.save" /\ q.user.mail # old.mail =>
            q.user.mail # Empty /\ ~q.user.confirmed

(* A copy of the stored document, old, whose name and address it has.       *)
CopyOf(q, old) ==
    /\ q.pc # "roles.save" => q.user.roles = old.roles
    /\ q.pc # "confirm.save" => q.user.confirmed = old.confirmed
    /\ q.pc = "confirm.save" =>
        /\ q.user.confirmed
        /\ ~old.confirmed
        /\ old.mail # Empty
        /\ Proven(old.mail)

Directed(q) ==
    /\ Authorised(q)
    /\ q.pc \in {"create.check", "create.save"} => q.user.roles = {}
    /\ q.pc \in {"update.check", "update.save"} => EditedOf(q, users[q.of])
    /\ q.pc \in Copying => CopyOf(q, users[q.id])

AllDirected == \A r \in Reqs : Directed(req[r])

LEMMA DirectedElsewhere ==
    ASSUME NEW q, q.pc \in {"idle", "change.read"}
    PROVE  Directed(q) /\ Directed(q)'
  BY DEF Directed, Authorised, Copying

LEMMA DirectedMoves ==
    ASSUME IInv, OneRequest, NEW r \in Reqs, NEW q, Goto(r, q), Directed(q)'
    PROVE  AllDirected'
  <1>1. req'[r] = q
    BY RequestTypes
  <1>2. Directed(req[r])'
    BY <1>1 DEF Directed, Authorised, Administered, EditedOf, CopyOf, Proven
  <1> QED
    BY <1>2 DEF OneRequest, AllDirected

LEMMA DirectedReturns ==
    ASSUME IInv, OneRequest, NEW r \in Reqs, Return(r)
    PROVE  AllDirected'
  <1>1. Idle.pc = "idle"
    BY DEF Idle
  <1>2. Directed(Idle)'
    BY <1>1, DirectedElsewhere
  <1> QED
    BY <1>2, DirectedMoves DEF Return

LEMMA DirectedCreate ==
    ASSUME IInv, AllDirected, OneRequest, NEW r \in Reqs, CreateUser(r) \/ CreateChecked(r)
    PROVE  AllDirected'
  <1>1. UNCHANGED users
    BY DEF CreateUser, CreateChecked
  <1>2. Administered' = Administered
    BY <1>1 DEF Administered
  <1>3. ASSUME NEW q, Goto(r, q), q.pc \in {"create.check", "create.save"},
               q.user.roles = {}, q.user.confirmed \/ q.user.mail = Empty => Administered
        PROVE  AllDirected'
    <2>1. Directed(q)'
      BY <1>2, <1>3 DEF Directed, Authorised, Copying
    <2> QED
      BY <1>3, <2>1, DirectedMoves
  <1>4. CASE CreateUser(r)
    <2>1. PICK name \in Usernames, mail \in Mails \cup {Empty}, password \in Passwords,
               confirmed \in BOOLEAN :
            /\ Goto(r, [Idle EXCEPT
                    !.pc = "create.check",
                    !.user = [NoUser EXCEPT !.username = name, !.mail = mail,
                                !.password = Hash(password), !.confirmed = confirmed]])
            /\ confirmed \/ mail = Empty => Administered
      BY <1>4 DEF CreateUser, Callers, Administered
    <2>2. PICK u : u = [NoUser EXCEPT !.username = name, !.mail = mail,
                                      !.password = Hash(password), !.confirmed = confirmed]
      OBVIOUS
    <2>3. u.roles = {} /\ u.mail = mail /\ u.confirmed = confirmed
      BY <2>2 DEF NoUser
    <2>4. PICK q : q = [Idle EXCEPT !.pc = "create.check", !.user = u]
      OBVIOUS
    <2>5. q.pc = "create.check" /\ q.user = u /\ Goto(r, q)
      BY <2>1, <2>2, <2>4 DEF Idle
    <2> QED
      BY <1>3, <2>1, <2>3, <2>5
  <1>5. CASE CreateChecked(r)
    <2>1. /\ req[r] \in Request /\ req[r].user \in Draft /\ req[r].user.roles = {}
          /\ req[r].user.confirmed \/ req[r].user.mail = Empty => Administered
      BY <1>5, RequestTypes DEF CreateChecked, AllDirected, Directed, Authorised, Request
    <2>2. PICK u : /\ u = req[r].user \/ u = [req[r].user EXCEPT !.confirmToken = NewToken]
                   /\ Goto(r, [req[r] EXCEPT !.pc = "create.save", !.user = u])
      <3>1. CASE Goto(r, [req[r] EXCEPT !.pc = "create.save", !.user.confirmToken = NewToken])
        <4> DEFINE u == [req[r].user EXCEPT !.confirmToken = NewToken]
        <4> QED
          BY <3>1
      <3>2. CASE Goto(r, [req[r] EXCEPT !.pc = "create.save"])
        <4>1. [req[r] EXCEPT !.pc = "create.save"]
                = [req[r] EXCEPT !.pc = "create.save", !.user = req[r].user]
          BY <2>1 DEF Request
        <4> QED
          BY <3>2, <4>1
      <3> QED
        BY <1>5, <3>1, <3>2 DEF CreateChecked
    <2>3. /\ u.roles = {} /\ u.confirmed = req[r].user.confirmed
          /\ u.mail = req[r].user.mail
      BY <2>1, <2>2 DEF Draft
    <2>4. PICK q : q = [req[r] EXCEPT !.pc = "create.save", !.user = u]
      OBVIOUS
    <2>5. q.pc = "create.save" /\ q.user = u /\ Goto(r, q)
      BY <2>1, <2>2, <2>4 DEF Request
    <2> QED
      BY <1>3, <2>1, <2>3, <2>5
  <1> QED
    BY <1>4, <1>5

LEMMA DirectedUpdate ==
    ASSUME IInv, AllDirected, OneRequest, NEW r \in Reqs,
           UpdateUser(r) \/ UpdateRead(r) \/ UpdateChecked(r)
    PROVE  AllDirected'
  <1>1. UNCHANGED users
    BY DEF UpdateUser, UpdateRead, UpdateChecked
  <1>2. Administered' = Administered
    BY <1>1 DEF Administered
  <1>3. ASSUME NEW q, Goto(r, q), q.admin => Administered,
               q.pc \in {"update.read", "update.check", "update.save"},
               q.pc \in {"update.check", "update.save"} => EditedOf(q, users[q.of])
        PROVE  AllDirected'
    <2>1. q.pc \in {"update.check", "update.save"} => EditedOf(q, users[q.of])'
      BY <1>1, <1>3 DEF EditedOf
    <2>2. Directed(q)'
      BY <1>2, <1>3, <2>1 DEF Directed, Authorised, Copying
    <2> QED
      BY <1>3, <2>2, DirectedMoves
  <1>4. CASE UpdateUser(r)
    <2>1. PICK caller \in DOMAIN users, id \in Ids, edit \in Edits :
            Goto(r, [Idle EXCEPT !.pc = "update.read", !.id = id,
                                 !.admin = HasRole(users[caller], "admin"),
                                 !.edit = edit, !.from = users[caller].mail])
      BY <1>4, RequestTypes, AccountsAssumption DEF UpdateUser, Callers, Edit
    <2>2. PICK q : q = [Idle EXCEPT !.pc = "update.read", !.id = id,
                                    !.admin = HasRole(users[caller], "admin"),
                                    !.edit = edit, !.from = users[caller].mail]
      OBVIOUS
    <2>3. q.pc = "update.read" /\ q.admin = HasRole(users[caller], "admin") /\ Goto(r, q)
      BY <2>1, <2>2 DEF Idle
    <2>4. q.admin => Administered
      BY <2>3 DEF Administered
    <2> QED
      BY <1>3, <2>3, <2>4
  <1>5. CASE UpdateRead(r)
    <2>1. /\ req[r] \in Request /\ req[r].pc = "update.read" /\ req[r].edit \in Edits
          /\ "confirmed" \in req[r].edit.mask /\ req[r].edit.confirmed => req[r].admin
          /\ req[r].admin => Administered
          /\ users[req[r].id] \in Draft
      BY <1>5, RequestTypes DEF UpdateRead, Local, UpdateLocal, AllDirected, Directed, Authorised
    <2>2. PICK old, edit, u :
            /\ old = users[req[r].id] /\ edit = req[r].edit
            /\ u = Merge(ThroughPb(old), edit)
      OBVIOUS
    <2>3. /\ u.roles = old.roles
          /\ u.mail = IF "mail" \in edit.mask THEN edit.mail ELSE old.mail
          /\ u.confirmed = IF "confirmed" \in edit.mask THEN edit.confirmed ELSE old.confirmed
      <3>1. u.roles = old.roles
        BY <2>1, <2>2 DEF Merge, ThroughPb, Draft
      <3> QED
        BY <2>1, <2>2, <3>1, MergeKeepsDraft
    <2>4. PICK q : q = [req[r] EXCEPT
                        !.pc = "update.check",
                        !.id = IF "id" \in edit.mask THEN edit.id ELSE req[r].id,
                        !.of = req[r].id, !.edit = NoEdit, !.user = u,
                        !.moved = "mail" \in edit.mask /\ ~req[r].admin /\ old.mail # edit.mail]
      OBVIOUS
    <2>5. Goto(r, q)
      BY <1>5, <2>2, <2>4 DEF UpdateRead
    <2>6. /\ q.pc = "update.check" /\ q.of = req[r].id /\ q.user = u /\ q.admin = req[r].admin
          /\ q.moved = ("mail" \in edit.mask /\ ~req[r].admin /\ old.mail # edit.mail)
      BY <2>1, <2>4 DEF Request
    <2>7. EditedOf(q, old)
      BY <2>1, <2>2, <2>3, <2>6 DEF EditedOf
    <2> QED
      BY <1>3, <2>1, <2>2, <2>5, <2>6, <2>7
  <1>6. CASE UpdateChecked(r)
    <2>1. /\ req[r] \in Request /\ req[r].user \in Draft
          /\ req[r].pc = "update.check" /\ (req[r].admin => Administered)
          /\ EditedOf(req[r], users[req[r].of])
      BY <1>6, RequestTypes DEF UpdateChecked, AllDirected, Directed, Authorised, Request
    <2>2. CASE req[r].moved
      <3>1. PICK q : q = [req[r] EXCEPT !.pc = "update.save", !.user = Unconfirm(req[r].user),
                                        !.from = Empty, !.token = NewToken]
        OBVIOUS
      <3>2. Goto(r, q) /\ req[r].user.mail # Empty
        BY <1>6, <2>2, <3>1 DEF UpdateChecked
      <3>3. /\ q.pc = "update.save" /\ q.of = req[r].of /\ q.admin = req[r].admin
            /\ q.user = Unconfirm(req[r].user)
        BY <2>1, <3>1 DEF Request
      <3>4. /\ q.user.roles = req[r].user.roles /\ q.user.mail = req[r].user.mail
            /\ ~q.user.confirmed
        BY <2>1, <3>3 DEF Unconfirm, Draft
      <3>5. EditedOf(q, users[q.of])
        BY <2>1, <3>2, <3>3, <3>4 DEF EditedOf
      <3> QED
        BY <1>3, <2>1, <3>2, <3>3, <3>5
    <2>3. CASE ~req[r].moved
      <3>1. PICK q : q = [req[r] EXCEPT !.pc = "update.save", !.from = Empty]
        OBVIOUS
      <3>2. Goto(r, q)
        BY <1>6, <2>3, <3>1 DEF UpdateChecked
      <3>3. /\ q.pc = "update.save" /\ q.of = req[r].of /\ q.admin = req[r].admin
            /\ q.user = req[r].user
        BY <2>1, <3>1 DEF Request
      <3>4. EditedOf(q, users[q.of])
        BY <2>1, <2>3, <3>3 DEF EditedOf
      <3> QED
        BY <1>3, <2>1, <3>2, <3>3, <3>4
    <2> QED
      BY <2>2, <2>3
  <1> QED
    BY <1>4, <1>5, <1>6

(* The handlers that begin with a copy.                                     *)
LEMMA DirectedCopies ==
    ASSUME IInv, OneRequest, NEW r \in Reqs, UNCHANGED users, inbox \subseteq inbox',
           \A t \in 1..Len(minted) : minted'[t] = minted[t],
           NEW q, Goto(r, q), q.pc \in Copying, CopyOf(q, users[q.id]),
           q.pc = "roles.save" => Administered
    PROVE  AllDirected'
  <1>1. \A mail : Proven(mail) => Proven(mail)'
    BY DEF Proven, IInv, TypeOK
  <1>2. CopyOf(q, users[q.id])'
    BY <1>1 DEF CopyOf
  <1>3. Administered => Administered'
    BY DEF Administered
  <1>4. Directed(q)'
    BY <1>2, <1>3 DEF Directed, Authorised, Copying
  <1> QED
    BY <1>4, DirectedMoves

LEMMA DirectedCopy ==
    ASSUME IInv, AllDirected, OneRequest, NEW r \in Reqs,
           \/ ChangePassword(r) \/ ChangeRead(r) \/ ConfirmMail(r)
           \/ ForgotPassword(r) \/ ResetPassword(r) \/ RolesRead(r)
    PROVE  AllDirected'
  <1>1. /\ UNCHANGED users /\ inbox \subseteq inbox'
        /\ \A t \in 1..Len(minted) : minted'[t] = minted[t]
    <2>1. CASE UNCHANGED minted
      BY <2>1
      DEF ChangePassword, ChangeRead, ConfirmMail, ForgotPassword, ResetPassword, RolesRead
    <2>2. CASE ForgotPassword(r) /\ ~UNCHANGED minted
      <3>1. PICK id \in DOMAIN users : Generate("reset", users[id].mail, id)
        BY <2>2 DEF ForgotPassword
      <3>2. id \in Ids /\ users[id].mail \in Mails \cup {Empty}
        BY RequestTypes DEF Draft
      <3> QED
        BY <2>2, <3>1, <3>2, GenerateAppends DEF ForgotPassword, IInv
    <2> QED
      BY <2>1, <2>2 DEF ChangePassword, ChangeRead, ConfirmMail, ResetPassword, RolesRead
  <1>2. ASSUME NEW q, Goto(r, q), q.pc \in {"change.save", "forgot.save", "reset.save"},
               q.user.roles = users[q.id].roles, q.user.confirmed = users[q.id].confirmed
        PROVE  AllDirected'
    <2>1. CopyOf(q, users[q.id])
      BY <1>2 DEF CopyOf
    <2> QED
      BY <1>1, <1>2, <2>1, DirectedCopies DEF Copying
  <1>3. CASE ChangePassword(r)
    <2>1. PICK caller \in DOMAIN users, id \in Ids, new \in Passwords :
             \/ Goto(r, [Idle EXCEPT !.pc = "change.save", !.id = caller, !.want = new,
                                     !.user = ChangedPassword(users[caller], new)])
             \/ Goto(r, [Idle EXCEPT !.pc = "change.read", !.id = id, !.want = new])
      BY <1>3 DEF ChangePassword, Callers
    <2>2. CASE Goto(r, [Idle EXCEPT !.pc = "change.save", !.id = caller, !.want = new,
                                    !.user = ChangedPassword(users[caller], new)])
      <3>1. PICK q : q = [Idle EXCEPT !.pc = "change.save", !.id = caller, !.want = new,
                                      !.user = ChangedPassword(users[caller], new)]
        OBVIOUS
      <3>2. /\ q.pc = "change.save" /\ q.id = caller /\ Goto(r, q)
            /\ q.user = ChangedPassword(users[caller], new)
        BY <2>2, <3>1 DEF Idle
      <3>3. q.user.roles = users[caller].roles /\ q.user.confirmed = users[caller].confirmed
        BY <3>2, RequestTypes DEF ChangedPassword, Draft
      <3> QED
        BY <1>2, <3>2, <3>3
    <2>3. CASE Goto(r, [Idle EXCEPT !.pc = "change.read", !.id = id, !.want = new])
      <3>1. PICK q : q = [Idle EXCEPT !.pc = "change.read", !.id = id, !.want = new]
        OBVIOUS
      <3>2. q.pc = "change.read" /\ Goto(r, q)
        BY <2>3, <3>1 DEF Idle
      <3>3. Directed(q)'
        BY <3>2, DirectedElsewhere
      <3> QED
        BY <3>2, <3>3, DirectedMoves
    <2> QED
      BY <2>1, <2>2, <2>3
  <1>4. CASE ChangeRead(r)
    <2>1. PICK q : q = [req[r] EXCEPT
                            !.pc   = "change.save",
                            !.user = ChangedPassword(users[req[r].id], req[r].want)]
      OBVIOUS
    <2>2. /\ req[r] \in Request /\ req[r].id \in DOMAIN users /\ Goto(r, q)
          /\ users[req[r].id] \in Draft
      BY <1>4, <2>1, RequestTypes DEF ChangeRead
    <2>3. /\ q.pc = "change.save" /\ q.id = req[r].id
          /\ q.user = ChangedPassword(users[q.id], req[r].want)
      BY <2>1, <2>2 DEF Request
    <2>4. q.user.roles = users[q.id].roles /\ q.user.confirmed = users[q.id].confirmed
      BY <2>2, <2>3 DEF ChangedPassword, Draft
    <2> QED
      BY <1>2, <2>2, <2>3, <2>4
  <1>5. CASE ForgotPassword(r)
    <2>1. PICK id \in DOMAIN users :
            \/ Goto(r, [Idle EXCEPT !.pc = "forgot.save", !.id = id, !.token = NewToken,
                                    !.user = [users[id] EXCEPT !.resetToken = NewToken]])
            \/ Goto(r, [Idle EXCEPT !.pc = "forgot.save", !.id = id, !.user = users[id]])
      BY <1>5 DEF ForgotPassword
    <2>2. CASE Goto(r, [Idle EXCEPT !.pc = "forgot.save", !.id = id, !.token = NewToken,
                                    !.user = [users[id] EXCEPT !.resetToken = NewToken]])
      <3>1. PICK q : q = [Idle EXCEPT !.pc = "forgot.save", !.id = id, !.token = NewToken,
                                      !.user = [users[id] EXCEPT !.resetToken = NewToken]]
        OBVIOUS
      <3>2. /\ q.pc = "forgot.save" /\ q.id = id /\ Goto(r, q)
            /\ q.user = [users[id] EXCEPT !.resetToken = NewToken]
        BY <2>2, <3>1 DEF Idle
      <3>3. q.user.roles = users[id].roles /\ q.user.confirmed = users[id].confirmed
        BY <3>2, RequestTypes DEF Draft
      <3> QED
        BY <1>2, <3>2, <3>3
    <2>3. CASE Goto(r, [Idle EXCEPT !.pc = "forgot.save", !.id = id, !.user = users[id]])
      <3>1. PICK q : q = [Idle EXCEPT !.pc = "forgot.save", !.id = id, !.user = users[id]]
        OBVIOUS
      <3>2. q.pc = "forgot.save" /\ q.id = id /\ q.user = users[id] /\ Goto(r, q)
        BY <2>3, <3>1 DEF Idle
      <3> QED
        BY <1>2, <3>2
    <2> QED
      BY <2>1, <2>2, <2>3
  <1>6. CASE ResetPassword(r)
    <2>1. PICK token \in Known, new \in Passwords, id \in DOMAIN users :
            Goto(r, [Idle EXCEPT !.pc = "reset.save", !.id = id, !.token = token,
                                 !.user = Reset(users[id], new)])
      BY <1>6 DEF ResetPassword, ByResetToken
    <2>2. PICK q : q = [Idle EXCEPT !.pc = "reset.save", !.id = id, !.token = token,
                                    !.user = Reset(users[id], new)]
      OBVIOUS
    <2>3. q.pc = "reset.save" /\ q.id = id /\ q.user = Reset(users[id], new) /\ Goto(r, q)
      BY <2>1, <2>2 DEF Idle
    <2>4. q.user.roles = users[id].roles /\ q.user.confirmed = users[id].confirmed
      BY <2>3, RequestTypes DEF Reset, Draft
    <2> QED
      BY <1>2, <2>3, <2>4
  <1>7. CASE ConfirmMail(r)
    <2>1. PICK token \in Known \cup {NoToken}, id \in DOMAIN users :
            /\ ValidConfirmToken(users[id], token)
            /\ Goto(r, [Idle EXCEPT !.pc = "confirm.save", !.id = id, !.token = token,
                                    !.user = Confirm(users[id])])
      BY <1>7 DEF ConfirmMail, ByConfirmToken
    <2>2. PICK q : q = [Idle EXCEPT !.pc = "confirm.save", !.id = id, !.token = token,
                                    !.user = Confirm(users[id])]
      OBVIOUS
    <2>3. q.pc = "confirm.save" /\ q.id = id /\ q.user = Confirm(users[id]) /\ Goto(r, q)
      BY <2>1, <2>2 DEF Idle
    <2>4. q.user.roles = users[id].roles /\ q.user.confirmed
      BY <2>3, RequestTypes DEF Confirm, Draft
    <2>5. /\ token # NoToken /\ users[id].confirmToken = token
          /\ minted[token].mail = users[id].mail
      BY <2>1 DEF ValidConfirmToken
    <2>6. ~users[id].confirmed /\ minted[token].kind = "confirm"
      BY <2>5 DEF IInv, StoredSound, Sound, ConfirmTokenSound
    <2>7. PICK m \in inbox : m.token = token
      BY <2>1, <2>5 DEF Known
    <2>8. m.to = users[id].mail /\ m.to \in Mails
      BY <2>5, <2>7 DEF IInv, TypeOK, InboxSound
    <2>9. Proven(users[id].mail) /\ users[id].mail # Empty
      BY <2>5, <2>6, <2>7, <2>8, StoreAssumption DEF Proven
    <2>10. CopyOf(q, users[q.id])
      BY <2>3, <2>4, <2>6, <2>9 DEF CopyOf
    <2> QED
      BY <1>1, <2>3, <2>10, DirectedCopies DEF Copying
  <1>8. CASE RolesRead(r)
    <2>1. PICK id \in DOMAIN users, roles \in RoleChanges :
            Goto(r, [Idle EXCEPT !.pc = "roles.save", !.id = id,
                                 !.user = [users[id] EXCEPT !.roles = roles]])
      BY <1>8 DEF RolesRead
    <2>2. PICK q : q = [Idle EXCEPT !.pc = "roles.save", !.id = id,
                                    !.user = [users[id] EXCEPT !.roles = roles]]
      OBVIOUS
    <2>3. /\ q.pc = "roles.save" /\ q.id = id /\ q.user = [users[id] EXCEPT !.roles = roles]
          /\ Goto(r, q)
      BY <2>1, <2>2 DEF Idle
    <2>4. q.user.confirmed = users[id].confirmed
      BY <2>3, RequestTypes DEF Draft
    <2>5. Administered
      BY <1>8 DEF RolesRead, Callers, Administered
    <2>6. CopyOf(q, users[q.id])
      BY <2>3, <2>4 DEF CopyOf
    <2> QED
      BY <1>1, <2>3, <2>5, <2>6, DirectedCopies DEF Copying
  <1> QED
    BY <1>3, <1>4, <1>5, <1>6, <1>7, <1>8

LEMMA DirectedEnds ==
    ASSUME IInv, DownSound, AllDirected, OneRequest,
           \/ Crash \/ InitAdmin \/ Restart
           \/ \E r \in Reqs : DeleteUser(r) \/ ListUsers(r)
    PROVE  AllDirected'
  <1>1. CASE Restart
    BY <1>1 DEF Restart, AllDirected, Directed, Authorised, Administered, EditedOf, CopyOf,
                Proven
  <1>2. CASE \A r \in Reqs : req'[r] = Idle
    <2>1. Idle.pc = "idle"
      BY DEF Idle
    <2>2. ASSUME NEW r \in Reqs PROVE Directed(req[r])'
      BY <1>2, <2>1, DirectedElsewhere
    <2> QED
      BY <2>2 DEF AllDirected
  <1> QED
    BY <1>1, <1>2 DEF Crash, InitAdmin, DeleteUser, ListUsers, Panic, Exit, DownSound

LEMMA DirectedStep ==
    ASSUME IInv, DownSound, AllDirected, OneRequest, [Next]_vars
    PROVE  AllDirected'
  <1>1. CASE UNCHANGED vars
    BY <1>1 DEF vars, AllDirected, Directed, Authorised, Administered, EditedOf, CopyOf, Proven
  <1>2. ASSUME NEW r \in Reqs,
               \/ CreateSaved(r) \/ UpdateSaved(r) \/ ChangeSaved(r) \/ ConfirmSaved(r)
               \/ ForgotSaved(r) \/ ResetSaved(r) \/ RolesSaved(r) \/ Abort(r)
        PROVE  AllDirected'
    BY <1>2, DirectedReturns
    DEF CreateSaved, UpdateSaved, ChangeSaved, ConfirmSaved, ForgotSaved, ResetSaved,
        RolesSaved, Abort
  <1> QED
    BY <1>1, <1>2, DirectedCreate, DirectedUpdate, DirectedCopy, DirectedEnds DEF Next, Step

DirectoryInv == AllInv /\ AllDirected

LEMMA DirectoryInvariance == OneRequest /\ Spec => []DirectoryInv
  <1>1. Init => AllDirected
    <2> SUFFICES ASSUME Init PROVE AllDirected
      OBVIOUS
    <2>1. Idle.pc = "idle"
      BY DEF Idle
    <2>2. \A r \in Reqs : Directed(req[r])
      BY <2>1, DirectedElsewhere DEF Init
    <2> QED
      BY <2>2 DEF AllDirected
  <1>2. AllInv /\ AllDirected /\ [Next]_vars => AllDirected'
    BY DirectedStep DEF AllInv
  <1> QED
    BY AloneInvariance, <1>1, <1>2, PTL DEF Spec, DirectoryInv

-----------------------------------------------------------------------------
(* The steps of the handlers are steps of the directory. A save puts one    *)
(* entry; its standing is the one of the document unless that has roles.    *)
EntryFor(u, admin) ==
    [name |-> u.username, mail |-> u.mail, confirmed |-> u.confirmed, admin |-> admin]

LEMMA SavePuts ==
    ASSUME IInv, NEW id \in Ids, NEW u \in Draft, u.username # Empty,
           users' = SaveUser(users, id, u)
    PROVE  \E admin \in BOOLEAN :
            /\ EntryFor(u, admin) \in Promise!Entry
            /\ Promise!Put(id, EntryFor(u, admin))
            /\ id \in DOMAIN users /\ u.roles \in {{}, users[id].roles} =>
                admin = HasRole(users[id], "admin")
            /\ id \notin DOMAIN users => admin = HasRole(u, "admin")
  <1> DEFINE admin == HasRole(users'[id], "admin")
  <1>1. Puts(users, id, u, users')
    BY SaveUserPuts DEF IInv, TypeOK, Collection
  <1>2. /\ DOMAIN users' = DOMAIN users \cup {id}
        /\ \A i \in DOMAIN users \ {id} : users'[i] = users[i]
        /\ users'[id].username = u.username
        /\ users'[id].mail = u.mail
    BY <1>1 DEF Puts
  <1>3. /\ users'[id].confirmed = u.confirmed
        /\ id \in DOMAIN users /\ u.roles \in {{}, users[id].roles} =>
            users'[id].roles = users[id].roles
        /\ id \notin DOMAIN users => users'[id].roles = u.roles
    <2>1. CASE id \in DOMAIN users
      <3>1. users'[id] = SetUser(users[id], u) /\ users[id] \in Draft
        BY <2>1 DEF SaveUser, IInv, TypeOK, User
      <3> QED
        BY <2>1, <3>1 DEF SetUser, Draft
    <2>2. CASE id \notin DOMAIN users
      BY <2>2 DEF SaveUser
    <2> QED
      BY <2>1, <2>2
  <1>4. EntryFor(u, admin) \in Promise!Entry
    BY DEF EntryFor, Promise!Entry, Draft, HasRole
  <1>5. Promise!Put(id, EntryFor(u, admin))
    BY <1>2, <1>3 DEF Promise!Put, Entries, EntryFor
  <1>6. admin \in BOOLEAN
    BY DEF HasRole
  <1> QED
    BY <1>3, <1>4, <1>5, <1>6 DEF HasRole

LEMMA NotTakenIsFree ==
    ASSUME IInv, NEW id, NEW u, NEW admin, ~Taken(users, id, u)
    PROVE  Promise!Free(id, EntryFor(u, admin))
  BY DEF Taken, Promise!Free, EntryFor, Entries

LEMMA SameProven ==
    ASSUME \A mail : Proven(mail)' <=> Proven(mail)
    PROVE  UNCHANGED Reached
  BY DEF Reached

(* A mail with a token for a confirmation reaches one more address; one     *)
(* with any other token reaches nobody in the sense of the directory.       *)
LEMMA SendReaches ==
    ASSUME IInv, NEW mail \in Mails \cup {Empty}, NEW token \in 1..Len(minted'),
           minted' \in Seq(Minted), Len(minted) =< Len(minted'),
           \A t \in 1..Len(minted) : minted'[t] = minted[t],
           inbox' \in {inbox, inbox \cup {[to |-> mail, token |-> token]}},
           inbox' # inbox => mail # Empty,
           UNCHANGED <<users, vouched>>
    PROVE  [Promise!Next]_(Promise!vars)
  <1>1. Entries' = Entries
    BY DEF Entries
  <1>2. ASSUME NEW m \in Mails, m # mail
        PROVE  Proven(m)' <=> Proven(m)
    BY <1>2 DEF Proven, IInv, TypeOK
  <1>3. Proven(mail) => Proven(mail)'
    BY DEF Proven, IInv, TypeOK
  <1>4. CASE mail = Empty
    <2>1. UNCHANGED Reached
      BY <1>2, <1>4, StoreAssumption DEF Reached
    <2> QED
      BY <1>1, <2>1 DEF Promise!vars
  <1>5. CASE mail \in Mails
    <2>1. Reached' \in {Reached, Reached \cup {mail}}
      BY <1>2, <1>3, <1>5 DEF Reached
    <2>2. CASE Reached' = Reached
      BY <1>1, <2>2 DEF Promise!vars
    <2>3. CASE Reached' = Reached \cup {mail}
      <3>1. Promise!Reach
        BY <1>1, <1>5, <2>3 DEF Promise!Reach
      <3> QED
        BY <3>1 DEF Promise!Next
    <2> QED
      BY <2>1, <2>2, <2>3
  <1> QED
    BY <1>4, <1>5

(* What leaves users, mails and vouchers alone leaves the directory alone.  *)
LEMMA QuietIsStutter ==
    ASSUME IInv, UNCHANGED <<users, inbox, vouched>>,
           \A t \in 1..Len(minted) : minted'[t] = minted[t]
    PROVE  [Promise!Next]_(Promise!vars)
  <1>1. \A mail : Proven(mail)' <=> Proven(mail)
    BY DEF Proven, IInv, TypeOK
  <1>2. UNCHANGED Entries
    BY DEF Entries
  <1> QED
    BY <1>1, <1>2, SameProven DEF Promise!vars

LEMMA GenerateReaches ==
    ASSUME IInv, NEW mail \in Mails \cup {Empty}, Generate("confirm", mail, Empty),
           Send(mail, NewToken), UNCHANGED <<users, vouched>>
    PROVE  [Promise!Next]_(Promise!vars)
  <1>1. /\ minted' \in Seq(Minted) /\ Len(minted') = NewToken /\ NewToken \in Nat \ {NoToken}
        /\ \A t \in 1..Len(minted) : minted'[t] = minted[t]
    BY GenerateAppends DEF IInv
  <1>2. NewToken \in 1..Len(minted') /\ Len(minted) =< Len(minted')
    BY <1>1 DEF NewToken, NoToken, IInv, TypeOK
  <1> QED
    BY <1>1, <1>2, SendReaches DEF Send

LEMMA CreateSavedDirects ==
    ASSUME DirectoryInv, NEW r \in Reqs, CreateSaved(r)
    PROVE  Promise!Next
  <1>1. PICK id, u :
        /\ id \in Ids \ DOMAIN users /\ u = req[r].user
        /\ users' = SaveUser(users, id, u)
        /\ vouched' = vouched \cup Vouched(id, u)
    BY DEF CreateSaved
  <1>2. /\ u \in Draft /\ u.username # Empty /\ u.roles = {}
        /\ ~Taken(users, Empty, u)
        /\ u.confirmed \/ u.mail = Empty => Administered
    BY <1>1, RequestTypes
    DEF DirectoryInv, AllInv, CreateSaved, Local, CreateLocal, User, AllDirected, Directed,
        Authorised, AloneInv, Current
  <1>3. ~Taken(users, id, u)
    BY <1>1, <1>2, StoreAssumption DEF Taken, DirectoryInv, AllInv, IInv, TypeOK
  <1>4. PICK admin \in BOOLEAN :
        /\ EntryFor(u, admin) \in Promise!Entry
        /\ Promise!Put(id, EntryFor(u, admin))
        /\ ~admin
    <2>1. IInv
      BY DEF DirectoryInv, AllInv
    <2>2. \E admin \in BOOLEAN :
            /\ EntryFor(u, admin) \in Promise!Entry
            /\ Promise!Put(id, EntryFor(u, admin))
            /\ id \in DOMAIN users /\ u.roles \in {{}, users[id].roles} =>
                admin = HasRole(users[id], "admin")
            /\ id \notin DOMAIN users => admin = HasRole(u, "admin")
      BY <1>1, <1>2, <2>1, SavePuts
    <2> QED
      BY <1>1, <1>2, <2>2 DEF HasRole
  <1>5. Promise!Free(id, EntryFor(u, admin))
    BY <1>3, NotTakenIsFree DEF DirectoryInv, AllInv
  <1>6. UNCHANGED Reached
    BY SameProven DEF CreateSaved, Proven
  <1>7. DOMAIN Entries = DOMAIN users
    BY DEF Entries
  <1>8. CASE u.confirmed \/ u.mail = Empty
    <2>1. Promise!Administered
      BY <1>2, <1>8 DEF Administered, Promise!Administered, Entries
    <2>2. Promise!Appoint(id)
      BY <1>1, <1>4, <1>5, <1>6, <1>7, <2>1 DEF Promise!Appoint, EntryFor, Vouched
    <2> QED
      BY <1>1, <2>2 DEF Promise!Next
  <1>9. CASE ~u.confirmed /\ u.mail # Empty
    <2>1. vouched' = vouched
      BY <1>1, <1>9 DEF Vouched
    <2>2. Promise!Register(id)
      BY <1>1, <1>4, <1>5, <1>6, <1>7, <1>9, <2>1 DEF Promise!Register, EntryFor
    <2> QED
      BY <1>1, <2>2 DEF Promise!Next
  <1> QED
    BY <1>8, <1>9

(* A save that puts a document in the place of a stored one.                *)
LEMMA SaveOverPuts ==
    ASSUME DirectoryInv, NEW id \in DOMAIN users, NEW u \in Draft, u.username # Empty,
           users' = SaveUser(users, id, u), ~Taken(users, id, u)
    PROVE  \E admin \in BOOLEAN :
            /\ EntryFor(u, admin) \in Promise!Entry
            /\ Promise!Put(id, EntryFor(u, admin))
            /\ Promise!Free(id, EntryFor(u, admin))
            /\ u.roles = users[id].roles => admin = HasRole(users[id], "admin")
  <1>1. IInv /\ id \in Ids
    BY DEF DirectoryInv, AllInv, IInv, TypeOK
  <1>2. PICK admin \in BOOLEAN :
            /\ EntryFor(u, admin) \in Promise!Entry
            /\ Promise!Put(id, EntryFor(u, admin))
            /\ id \in DOMAIN users /\ u.roles \in {{}, users[id].roles} =>
                admin = HasRole(users[id], "admin")
    BY <1>1, SavePuts
  <1>3. Promise!Free(id, EntryFor(u, admin))
    BY <1>1, NotTakenIsFree
  <1> QED
    BY <1>2, <1>3

(* A new user made from another one has an address only if it is a new one, *)
(* which is not confirmed, or if an administrator put it there.             *)
LEMMA CopyDirects ==
    ASSUME DirectoryInv, NEW r \in Reqs, UpdateSaved(r), req[r].id = Empty
    PROVE  Promise!Next
  <1>1. PICK id, u, of, old :
        /\ id \in Ids \ DOMAIN users /\ u = req[r].user /\ of = req[r].of /\ old = users[of]
        /\ users' = SaveUser(users, id, u)
        /\ vouched' = IF req[r].admin \/ <<of, u.mail>> \in vouched
                      THEN vouched \cup Vouched(id, u)
                      ELSE vouched
    BY DEF UpdateSaved
  <1>2. /\ of \in DOMAIN users /\ of \in Ids /\ u \in Draft /\ u.username # Empty
        /\ ~Taken(users, Empty, u)
        /\ EditedOf(req[r], old) /\ (req[r].admin => Administered)
        /\ req[r].pc = "update.save"
    BY <1>1, RequestTypes
    DEF DirectoryInv, AllInv, UpdateSaved, Request, Local, UpdateLocal, AllDirected, Directed,
        Authorised, AloneInv, Current, IInv, TypeOK
  <1>3. ~Taken(users, id, u)
    BY <1>1, <1>2, StoreAssumption DEF Taken, DirectoryInv, AllInv, IInv, TypeOK
  <1>4. PICK admin \in BOOLEAN :
        /\ EntryFor(u, admin) \in Promise!Entry
        /\ Promise!Put(id, EntryFor(u, admin))
        /\ id \notin DOMAIN users => admin = HasRole(u, "admin")
    <2>1. IInv
      BY DEF DirectoryInv, AllInv
    <2> QED
      BY <1>1, <1>2, <2>1, SavePuts
  <1>5. Promise!Free(id, EntryFor(u, admin))
    BY <1>3, NotTakenIsFree DEF DirectoryInv, AllInv
  <1>6. UNCHANGED Reached
    BY SameProven DEF UpdateSaved, Proven
  <1>7. /\ DOMAIN Entries = DOMAIN users /\ Entries[of].admin = HasRole(old, "admin")
        /\ Entries[of].confirmed = old.confirmed
    BY <1>1, <1>2 DEF Entries
  <1>8. CASE req[r].admin
    <2>1. Promise!Administered
      BY <1>2, <1>8 DEF Administered, Promise!Administered, Entries
    <2>2. vouched' = vouched \cup Vouched(id, u)
      BY <1>1, <1>8
    <2>3. Promise!Appoint(id)
      BY <1>1, <1>4, <1>5, <1>6, <1>7, <2>1, <2>2 DEF Promise!Appoint, EntryFor, Vouched
    <2> QED
      BY <1>1, <2>3 DEF Promise!Next
  <1>9. CASE ~req[r].admin
    <2>1. /\ u.mail # old.mail => ~u.confirmed
          /\ u.confirmed => old.confirmed
          /\ u.roles = old.roles
      BY <1>1, <1>2, <1>9 DEF EditedOf
    <2>2. u.mail = old.mail => u.mail = Empty
      BY <1>1, <1>2, StoreAssumption DEF Taken
    <2>3. u.confirmed => u.mail = Empty
      BY <2>1, <2>2
    <2>4. vouched' = vouched
      BY <1>1, <1>9, <2>3 DEF Vouched
    <2>5. Promise!Copy(id, of)
      BY <1>1, <1>2, <1>4, <1>5, <1>6, <1>7, <2>1, <2>3, <2>4
      DEF Promise!Copy, EntryFor, HasRole
    <2> QED
      BY <1>1, <1>2, <2>5 DEF Promise!Next
  <1> QED
    BY <1>8, <1>9

LEMMA UpdateSavedDirects ==
    ASSUME DirectoryInv, NEW r \in Reqs, UpdateSaved(r)
    PROVE  Promise!Next
  <1> SUFFICES ASSUME req[r].id # Empty
               PROVE  Promise!Next
    BY CopyDirects
  <1>1. PICK id, u, old :
        /\ id = req[r].id /\ u = req[r].user /\ old = users[id]
        /\ users' = SaveUser(users, id, u)
        /\ vouched' = IF req[r].admin \/ <<req[r].of, u.mail>> \in vouched
                      THEN vouched \cup Vouched(id, u)
                      ELSE vouched
    BY DEF UpdateSaved
  <1>2. /\ id \in DOMAIN users /\ id \in Ids /\ u \in Draft /\ u.username # Empty
        /\ req[r].of = id
        /\ ~Taken(users, id, u)
        /\ EditedOf(req[r], old) /\ (req[r].admin => Administered)
        /\ req[r].pc = "update.save"
    BY <1>1, RequestTypes
    DEF DirectoryInv, AllInv, UpdateSaved, Request, Local, UpdateLocal, AllDirected, Directed,
        Authorised, AloneInv, Current, IInv, TypeOK
  <1>3. PICK admin \in BOOLEAN :
            /\ EntryFor(u, admin) \in Promise!Entry
            /\ Promise!Put(id, EntryFor(u, admin))
            /\ Promise!Free(id, EntryFor(u, admin))
            /\ u.roles = users[id].roles => admin = HasRole(users[id], "admin")
    BY <1>1, <1>2, SaveOverPuts
  <1>4. admin = HasRole(old, "admin")
    BY <1>1, <1>2, <1>3 DEF EditedOf
  <1>5. UNCHANGED Reached
    BY SameProven DEF UpdateSaved, Proven
  <1>6. /\ id \in DOMAIN Entries /\ Entries[id].admin = HasRole(old, "admin")
        /\ Entries[id].mail = old.mail /\ Entries[id].confirmed = old.confirmed
    BY <1>1, <1>2 DEF Entries
  <1>7. CASE req[r].admin
    <2>1. Promise!Administered
      BY <1>2, <1>7 DEF Administered, Promise!Administered, Entries
    <2>2. vouched' = vouched \cup Vouched(id, u)
      BY <1>1, <1>7
    <2>3. Promise!Appoint(id)
      BY <1>3, <1>4, <1>5, <1>6, <2>1, <2>2 DEF Promise!Appoint, EntryFor, Vouched, HasRole
    <2> QED
      BY <1>2, <2>3 DEF Promise!Next
  <1>8. CASE ~req[r].admin
    <2>1. vouched' = vouched
      BY <1>1, <1>2, <1>8 DEF Vouched
    <2>2. /\ u.mail # old.mail => u.mail # Empty /\ ~u.confirmed
          /\ u.confirmed => old.confirmed
      BY <1>1, <1>2, <1>8 DEF EditedOf
    <2>3. Promise!Edit(id)
      BY <1>3, <1>4, <1>5, <1>6, <2>1, <2>2 DEF Promise!Edit, EntryFor
    <2> QED
      BY <1>2, <2>3 DEF Promise!Next
  <1> QED
    BY <1>7, <1>8

(* The saves of copies: name and address are the stored ones.               *)
LEMMA CopySavedPuts ==
    ASSUME DirectoryInv, NEW r \in Reqs, req[r].pc \in Copying,
           users' = SaveUser(users, req[r].id, req[r].user)
    PROVE  \E id \in Ids, admin \in BOOLEAN :
            /\ id = req[r].id /\ id \in DOMAIN users
            /\ Promise!Put(id, [Entries[id] EXCEPT !.confirmed = req[r].user.confirmed,
                                                   !.admin = admin])
            /\ req[r].user.roles = users[id].roles => admin = Entries[id].admin
            /\ CopyOf(req[r], users[id])
  <1>1. PICK id, u : id = req[r].id /\ u = req[r].user
    OBVIOUS
  <1>2. /\ id \in DOMAIN users /\ id \in Ids /\ u \in Draft /\ u.username # Empty
        /\ SameAccount(req[r]) /\ CopyOf(req[r], users[id])
    BY <1>1, RequestTypes
    DEF DirectoryInv, AllInv, Local, CopyLocal, User, AllDirected, Directed, AloneInv, Current
  <1>3. u.username = users[id].username /\ u.mail = users[id].mail
    BY <1>1, <1>2 DEF SameAccount
  <1>4. ~Taken(users, id, u)
    BY <1>2, <1>3, OwnIsFree DEF DirectoryInv, AllInv, AloneInv
  <1>5. PICK admin \in BOOLEAN :
            /\ EntryFor(u, admin) \in Promise!Entry
            /\ Promise!Put(id, EntryFor(u, admin))
            /\ u.roles = users[id].roles => admin = HasRole(users[id], "admin")
    BY <1>1, <1>2, <1>4, SaveOverPuts
  <1>6. Entries[id] = EntryFor(users[id], HasRole(users[id], "admin"))
    BY <1>2 DEF Entries, EntryFor
  <1>7. EntryFor(u, admin) = [Entries[id] EXCEPT !.confirmed = u.confirmed, !.admin = admin]
    <2>1. /\ Entries[id] \in Promise!Entry /\ u.confirmed \in BOOLEAN
          /\ Entries[id].name = u.username /\ Entries[id].mail = u.mail
      <3>1. users[id] \in Draft /\ users[id].username # Empty
        BY <1>2 DEF DirectoryInv, AllInv, IInv, TypeOK, User
      <3> QED
        BY <1>2, <1>3, <1>6, <3>1 DEF EntryFor, Promise!Entry, Draft, HasRole
    <2>2. PICK e, f, g :
            /\ e = Entries[id] /\ g = EntryFor(u, admin)
            /\ f = [e EXCEPT !.confirmed = u.confirmed, !.admin = admin]
      OBVIOUS
    <2>3. /\ f \in Promise!Entry /\ f.name = e.name /\ f.mail = e.mail
          /\ f.confirmed = u.confirmed /\ f.admin = admin
      BY <2>1, <2>2 DEF Promise!Entry
    <2>4. /\ g \in Promise!Entry /\ g.name = u.username /\ g.mail = u.mail
          /\ g.confirmed = u.confirmed /\ g.admin = admin
      BY <1>5, <2>2 DEF EntryFor
    <2>5. /\ f.name = g.name /\ f.mail = g.mail
          /\ f.confirmed = g.confirmed /\ f.admin = g.admin
      BY <2>1, <2>2, <2>3, <2>4
    <2>6. f = g
      BY <2>3, <2>4, <2>5 DEF Promise!Entry
    <2> QED
      BY <2>2, <2>6
  <1>8. Entries[id].admin = HasRole(users[id], "admin")
    BY <1>6 DEF EntryFor
  <1> QED
    BY <1>1, <1>2, <1>5, <1>7, <1>8

(* The mail of ForgotPassword has a token of the other kind.                *)
LEMMA ForgotReachesNobody ==
    ASSUME IInv, NEW r \in Reqs, ForgotSaved(r)
    PROVE  UNCHANGED Reached
  <1>1. ResetTokenSound(req[r].id, req[r].user)
    BY RequestTypes DEF ForgotSaved, Local, CopyLocal, Copying, Sound
  <1>2. \A mail : Proven(mail)' <=> Proven(mail)
    BY <1>1 DEF Proven, ForgotSaved, Send, ResetTokenSound
  <1> QED
    BY <1>2, SameProven

LEMMA CopySavedDirects ==
    ASSUME DirectoryInv, NEW r \in Reqs,
           \/ ChangeSaved(r) \/ ConfirmSaved(r) \/ ForgotSaved(r)
           \/ ResetSaved(r) \/ RolesSaved(r)
    PROVE  [Promise!Next]_(Promise!vars)
  <1>1. req[r].pc \in Copying /\ users' = SaveUser(users, req[r].id, req[r].user)
    BY DEF ChangeSaved, ConfirmSaved, ForgotSaved, ResetSaved, RolesSaved, Copying
  <1>2. UNCHANGED vouched
    BY DEF ChangeSaved, ConfirmSaved, ForgotSaved, ResetSaved, RolesSaved
  <1>3. UNCHANGED Reached
    BY SameProven, ForgotReachesNobody
    DEF DirectoryInv, AllInv, ChangeSaved, ConfirmSaved, ResetSaved, RolesSaved, Proven
  <1>4. PICK id \in Ids, admin \in BOOLEAN :
            /\ id = req[r].id /\ id \in DOMAIN users
            /\ Promise!Put(id, [Entries[id] EXCEPT !.confirmed = req[r].user.confirmed,
                                                   !.admin = admin])
            /\ req[r].user.roles = users[id].roles => admin = Entries[id].admin
            /\ CopyOf(req[r], users[id])
    BY <1>1, CopySavedPuts
  <1>5. PICK e : e = Entries[id]
    OBVIOUS
  <1>6. /\ id \in DOMAIN Entries
        /\ e = [name |-> users[id].username, mail |-> users[id].mail,
                confirmed |-> users[id].confirmed, admin |-> HasRole(users[id], "admin")]
    BY <1>4, <1>5 DEF Entries
  <1>7. CASE req[r].pc \notin {"confirm.save", "roles.save"}
    <2>1. req[r].user.confirmed = e.confirmed /\ admin = e.admin
      BY <1>4, <1>5, <1>6, <1>7 DEF CopyOf
    <2>2. [e EXCEPT !.confirmed = req[r].user.confirmed, !.admin = admin] = e
      BY <1>6, <2>1
    <2>3. Promise!Put(id, e)
      BY <1>4, <1>5, <2>2
    <2>4. Entries' = Entries
      BY <1>5, <1>6, <2>3 DEF Promise!Put, Entries
    <2> QED
      BY <1>2, <1>3, <2>4 DEF Promise!vars
  <1>8. CASE req[r].pc = "confirm.save"
    <2>1. /\ req[r].user.confirmed = TRUE /\ admin = e.admin
          /\ ~e.confirmed /\ e.mail \in Reached
      <3>1. users[id] \in Draft /\ req[r].user \in Draft
        BY <1>4, RequestTypes DEF DirectoryInv, AllInv, Request
      <3>2. users[id].mail \in Mails /\ Proven(users[id].mail)
        BY <1>4, <1>8, <3>1 DEF CopyOf, Draft
      <3>3. req[r].user.confirmed \in BOOLEAN
        BY <3>1 DEF Draft
      <3> QED
        BY <1>4, <1>5, <1>6, <1>8, <3>2, <3>3 DEF CopyOf, Reached
    <2>2. [e EXCEPT !.confirmed = req[r].user.confirmed, !.admin = admin]
            = [e EXCEPT !.confirmed = TRUE]
      BY <1>6, <2>1
    <2>3. Promise!Confirm(id)
      BY <1>2, <1>3, <1>4, <1>5, <1>6, <2>1, <2>2 DEF Promise!Confirm
    <2> QED
      BY <2>3 DEF Promise!Next
  <1>9. CASE req[r].pc = "roles.save"
    <2>1. req[r].user.confirmed = e.confirmed
      BY <1>4, <1>6, <1>9 DEF CopyOf
    <2>2. [e EXCEPT !.confirmed = req[r].user.confirmed, !.admin = admin]
            = [e EXCEPT !.admin = admin]
      BY <1>6, <2>1
    <2>3. Promise!Administered
      BY <1>9 DEF DirectoryInv, AllDirected, Directed, Authorised, Administered,
                  Promise!Administered, Entries
    <2>4. Promise!Promote(id)
      BY <1>2, <1>3, <1>4, <1>5, <1>6, <2>2, <2>3 DEF Promise!Promote
    <2> QED
      BY <2>4 DEF Promise!Next
  <1> QED
    BY <1>7, <1>8, <1>9

(* A start makes the administrator, or gives the role to whoever holds the  *)
(* name, which is one account.                                              *)
LEMMA InitAdminDirects ==
    ASSUME DirectoryInv, InitAdmin
    PROVE  Promise!Next
  <1>1. IInv
    BY DEF DirectoryInv, AllInv
  <1>2. UNCHANGED Reached /\ UNCHANGED vouched
    BY SameProven DEF InitAdmin, Proven
  <1>3. DOMAIN Entries = DOMAIN users
    BY DEF Entries
  <1>4. CASE \E id \in Ids \ DOMAIN users, password \in Passwords :
                 Holders = {} /\ users' = SaveUser(users, id, NewAdmin(password))
    <2>1. PICK id \in Ids \ DOMAIN users, password \in Passwords :
                 Holders = {} /\ users' = SaveUser(users, id, NewAdmin(password))
      BY <1>4
    <2>2. PICK u : u = NewAdmin(password)
      OBVIOUS
    <2>3. /\ u \in Draft /\ u.username = AdminName /\ u.username # Empty /\ u.mail = Empty
          /\ u.confirmed = TRUE /\ HasRole(u, "admin") = TRUE
      <3>1. u \in Draft /\ u.mail = Empty
        BY <2>2, NewAdminTypes
      <3>2. u.username = AdminName /\ u.confirmed = TRUE /\ HasRole(u, "admin") = TRUE
        BY <2>2 DEF NewAdmin, NoUser, HasRole
      <3> QED
        BY <3>1, <3>2, AccountsAssumption, StoreAssumption
    <2>4. PICK admin \in BOOLEAN :
            /\ Promise!Put(id, EntryFor(u, admin))
            /\ id \notin DOMAIN users => admin = HasRole(u, "admin")
      BY <1>1, <2>1, <2>2, <2>3, SavePuts
    <2>5. EntryFor(u, admin)
            = [name |-> AdminName, mail |-> Empty, confirmed |-> TRUE, admin |-> TRUE]
      BY <2>1, <2>3, <2>4 DEF EntryFor
    <2>6. \A i \in DOMAIN Entries : Entries[i].name # AdminName
      BY <2>1 DEF Entries, Holders
    <2>7. Promise!Install(id)
      BY <1>2, <1>3, <2>1, <2>4, <2>5, <2>6 DEF Promise!Install
    <2> QED
      BY <2>1, <2>7 DEF Promise!Next
  <1>5. CASE \E id \in Holders :
                 users' = SaveUser(users, id, [users[id] EXCEPT !.roles = @ \cup {"admin"}])
    <2>1. PICK id \in Holders :
                 users' = SaveUser(users, id, [users[id] EXCEPT !.roles = @ \cup {"admin"}])
      BY <1>5
    <2>2. PICK u, old : /\ old = users[id]
                        /\ u = [old EXCEPT !.roles = @ \cup {"admin"}]
      OBVIOUS
    <2>3. /\ id \in DOMAIN users /\ id \in Ids /\ old \in Draft /\ old.username = AdminName
      BY <1>1, <2>1, <2>2 DEF Holders, IInv, TypeOK, User
    <2>4. u.roles = old.roles \cup {"admin"} /\ u.confirmed = old.confirmed
      BY <2>2, <2>3 DEF Draft
    <2>5. users'[id] = SetUser(old, u) /\ \A i \in DOMAIN users \ {id} : users'[i] = users[i]
      BY <2>1, <2>2, <2>3 DEF SaveUser
    <2>6. /\ users'[id].username = old.username /\ users'[id].mail = old.mail
          /\ users'[id].confirmed = old.confirmed
          /\ HasRole(users'[id], "admin") = TRUE
      BY <2>2, <2>3, <2>4, <2>5 DEF SetUser, Draft, HasRole
    <2>7. DOMAIN users' = DOMAIN users
      BY <2>1, <2>3 DEF SaveUser
    <2>8. Entries[id] = [name |-> old.username, mail |-> old.mail,
                         confirmed |-> old.confirmed, admin |-> HasRole(old, "admin")]
      BY <2>2, <2>3 DEF Entries
    <2>9. Promise!Put(id, [Entries[id] EXCEPT !.admin = TRUE])
      BY <2>3, <2>5, <2>6, <2>7, <2>8 DEF Promise!Put, Entries
    <2>10. Promise!Install(id)
      BY <1>2, <1>3, <2>3, <2>8, <2>9 DEF Promise!Install
    <2> QED
      BY <2>3, <2>10 DEF Promise!Next
  <1> QED
    BY <1>4, <1>5 DEF InitAdmin

LEMMA DirectoryStep ==
    ASSUME DirectoryInv, [Next]_vars
    PROVE  [Promise!Next]_(Promise!vars)
  <1>1. IInv
    BY DEF DirectoryInv, AllInv
  <1>2. ASSUME UNCHANGED <<users, inbox, minted, vouched>>
        PROVE  [Promise!Next]_(Promise!vars)
    BY <1>1, <1>2, QuietIsStutter
  <1>3. ASSUME NEW r \in Reqs, CreateChecked(r) \/ UpdateChecked(r)
        PROVE  [Promise!Next]_(Promise!vars)
    <2>1. /\ req[r] \in Request /\ req[r].user.mail \in Mails \cup {Empty}
          /\ req[r].from \in Mails \cup {Empty}
      <3>1. req[r] \in Request
        BY <1>1, RequestTypes
      <3> QED
        BY <3>1 DEF Request, Draft
    <2>2. UNCHANGED <<users, vouched>>
      BY <1>3 DEF CreateChecked, UpdateChecked
    <2>3. \/ UNCHANGED <<minted, inbox>>
          \/ \E mail \in Mails \cup {Empty} :
                Generate("confirm", mail, Empty) /\ Send(mail, NewToken)
      BY <1>3, <2>1 DEF CreateChecked, UpdateChecked
    <2> QED
      BY <1>1, <1>2, <2>2, <2>3, GenerateReaches
  <1>4. ASSUME NEW r \in Reqs, ForgotPassword(r)
        PROVE  [Promise!Next]_(Promise!vars)
    <2>1. \A t \in 1..Len(minted) : minted'[t] = minted[t]
      <3>1. PICK id \in DOMAIN users : Generate("reset", users[id].mail, id) \/ UNCHANGED minted
        BY <1>4 DEF ForgotPassword
      <3>2. id \in Ids /\ users[id].mail \in Mails \cup {Empty}
        BY <1>1, RequestTypes DEF Draft
      <3> QED
        BY <1>1, <3>1, <3>2, GenerateAppends DEF IInv
    <2>2. UNCHANGED <<users, inbox, vouched>>
      BY <1>4 DEF ForgotPassword
    <2> QED
      BY <1>1, <2>1, <2>2, QuietIsStutter
  <1>5. ASSUME NEW r \in Reqs,
               \/ CreateUser(r) \/ UpdateUser(r) \/ UpdateRead(r) \/ ChangePassword(r)
               \/ ChangeRead(r) \/ ConfirmMail(r) \/ ResetPassword(r) \/ RolesRead(r)
               \/ DeleteUser(r) \/ ListUsers(r) \/ Abort(r)
        PROVE  UNCHANGED <<users, inbox, minted, vouched>>
    BY <1>5 DEF CreateUser, UpdateUser, UpdateRead, ChangePassword, ChangeRead, ConfirmMail,
                ResetPassword, RolesRead, DeleteUser, ListUsers, Panic, Exit, Abort
  <1>6. ASSUME Crash \/ Restart \/ UNCHANGED vars
        PROVE  UNCHANGED <<users, inbox, minted, vouched>>
    BY <1>6 DEF Crash, Exit, Restart, vars
  <1> QED
    BY <1>2, <1>3, <1>4, <1>5, <1>6, CreateSavedDirects, UpdateSavedDirects, CopySavedDirects,
       InitAdminDirects
    DEF Next, Step

(* The directory of accounts is what the handlers and the starts implement, *)
(* whatever crashes, lost mails and failed calls come between them, as long *)
(* as no two handlers overlap (users.go:62-423, server.go:162-189).         *)
THEOREM AccountsAreADirectory == OneRequest /\ Spec => ImplementsDirectory
  <1>1. Init => Promise!Init
    <2> SUFFICES ASSUME Init PROVE Promise!Init
      OBVIOUS
    <2>1. PICK id \in Ids, password \in Passwords : users = [i \in {id} |-> NewAdmin(password)]
      BY DEF Init
    <2>2. /\ DOMAIN users = {id} /\ users[id].username = AdminName /\ users[id].mail = Empty
          /\ users[id].confirmed = TRUE /\ HasRole(users[id], "admin") = TRUE
      BY <2>1 DEF NewAdmin, NoUser, HasRole
    <2>3. Entries = [i \in {id} |->
            [name |-> AdminName, mail |-> Empty, confirmed |-> TRUE, admin |-> TRUE]]
      BY <2>2 DEF Entries
    <2>4. Reached = {}
      BY DEF Init, Reached, Proven
    <2> QED
      BY <2>3, <2>4 DEF Init, Promise!Init
  <1> QED
    BY DirectoryInvariance, <1>1, DirectoryStep, PTL
    DEF Spec, ImplementsDirectory, Promise!Spec
=============================================================================
