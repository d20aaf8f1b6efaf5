------------------------------ MODULE Accounts ------------------------------
(***************************************************************************)
(* The request handlers that change users (internal/server/users.go) over  *)
(* the users collection.  gRPC runs every request on a goroutine of its    *)
(* own and nothing locks the collection, so a handler is a sequence of     *)
(* steps, each of which makes one access to the database and does the      *)
(* local work up to the next one; the steps of different requests          *)
(* interleave.  A handler holds a copy of the whole document between its   *)
(* read and its save.                                                      *)
(*                                                                         *)
(* A mail is sent in the step it is adjacent to: what it says is already   *)
(* fixed there, nothing but the addressee sees it, and it may be lost.     *)
(***************************************************************************)
EXTENDS Store, Sequences

CONSTANTS
    Reqs,         \* goroutines serving requests, each reused
    AdminName,    \* the user name in GOOSER_ADMIN_USERNAME
    Edits,        \* the UpdateUser requests that clients send
    RoleChanges,  \* the roles that changes of groups leave to members
    FixedSecret,  \* GOOSER_SECRET is set
    MaxTokens,    \* bound: tokens generated
    MaxRestarts   \* bound: times the process is started again

(* An UpdateUser request; without an id it is about the caller. Requests    *)
(* whose mask names roles or password are refused before anything is read   *)
(* and are left out.                                                        *)
Edit ==
    [ id        : Ids \cup {Empty},
      mask      : SUBSET {"id", "username", "mail", "confirmed"},
      username  : Usernames \cup {Empty},
      mail      : Mails \cup {Empty},
      confirmed : BOOLEAN ]

ASSUME AccountsAssumption ==
    /\ AdminName \in Usernames
    /\ Edits \subseteq Edit
    /\ RoleChanges \subseteq SUBSET Roles
    /\ FixedSecret \in BOOLEAN
    /\ MaxTokens \in Nat
    /\ MaxRestarts \in Nat

VARIABLES
    users,     \* the users collection
    minted,    \* what each generated token was made from
    inbox,     \* the mails that reached their addressee
    restarts,  \* how often the process was started again
    proc,      \* the server process: "up", "killed" or "panicked"
    req,       \* the goroutines: where each is, and its local variables
    vouched    \* <<id, mail>> that an administrator saved as confirmed (history)

vars == <<users, minted, inbox, restarts, proc, req, vouched>>

-----------------------------------------------------------------------------
(* The local variables of a handler. id: the document it will save, Empty   *)
(* for a new one; of: the one an UpdateUser read; user: its copy of the     *)
(* document; admin: does the caller have the role; from: the caller's own   *)
(* mail address.                                                            *)
NoUser ==
    [ username |-> Empty, mail |-> Empty, password |-> Empty, roles |-> {},
      confirmed |-> FALSE, confirmToken |-> NoToken, resetToken |-> NoToken ]

NoEdit ==
    [id |-> Empty, mask |-> {}, username |-> Empty, mail |-> Empty, confirmed |-> FALSE]

Idle ==
    [ pc |-> "idle", id |-> Empty, of |-> Empty, user |-> NoUser, admin |-> FALSE,
      edit |-> NoEdit, moved |-> FALSE, from |-> Empty, token |-> NoToken,
      want |-> Empty ]

Pcs ==
    { "idle", "create.check", "create.save", "update.read", "update.check",
      "update.save", "change.read", "change.save", "confirm.save",
      "forgot.save", "reset.save", "roles.save" }

Request ==
    [ pc    : Pcs,
      id    : Ids \cup {Empty},
      of    : Ids \cup {Empty},
      user  : Draft,
      admin : BOOLEAN,
      edit  : Edits \cup {NoEdit},
      moved : BOOLEAN,
      from  : Mails \cup {Empty},
      token : Nat,
      want  : Passwords \cup {Empty} ]

Ready(r) == proc = "up" /\ req[r].pc = "idle"

Goto(r, local) == req' = [req EXCEPT ![r] = local]

Return(r) == Goto(r, Idle)

(* The secret is drawn anew at each start unless GOOSER_SECRET is set.      *)
Secret == IF FixedSecret THEN 0 ELSE restarts

(* owner and the mail of a reset token are history: the token itself holds  *)
(* the mail address for a confirmation and only a time for a reset.         *)
Minted ==
    [ kind  : {"confirm", "reset"},
      mail  : Mails \cup {Empty},
      owner : Ids \cup {Empty},
      key   : Nat ]

NewToken == Len(minted) + 1

Generate(kind, mail, owner) ==
    /\ Len(minted) < MaxTokens
    /\ minted' = Append(minted,
                   [kind |-> kind, mail |-> mail, owner |-> owner, key |-> Secret])

(* Mutant: any token decrypts, whatever the secret.                         *)
DecryptsAlways(token) == TRUE

(* Does decrypting token under the present secret give what was encrypted?  *)
(* Under another secret it gives bytes that are no json.                    *)
Decrypts(token) == minted[token].key = Secret

(* The mail may not arrive, and the handler will not know.                  *)
Send(mail, token) ==
    \/ UNCHANGED inbox
    \/ /\ mail # Empty /\ token # NoToken
       /\ inbox' = inbox \cup {[to |-> mail, token |-> token]}

(* The tokens a client can present: it has them from a mail.                *)
Known == {m.token : m \in inbox}

(* Mutant: ValidateUser does not look at the length of the user name.       *)
ValidUnnamed(id, u) == ~Taken(users, id, u)

(* ValidateUser: a user name is required, and no other user has the user    *)
(* name or the mail address at the moment of the count.                     *)
Valid(id, u) == u.username # Empty /\ ~Taken(users, id, u)

(* GetUserIDbyToken: the OAuth server names the id that an access token     *)
(* stands for, also after the user of this id is gone.                      *)
Subjects == Ids

(* GetUserFromContext: there must be a user with the id of the token, and   *)
(* it is read at that moment.                                               *)
Callers == {i \in Subjects : i \in DOMAIN users}

-----------------------------------------------------------------------------
(* CreateUser: anybody may register; administrators may leave the mail      *)
(* address empty and set confirmed. Bound: while there are ids left.        *)
CreateUser(r) ==
    /\ Ready(r)
    /\ DOMAIN users # Ids
    /\ \E admin \in BOOLEAN, name \in Usernames, mail \in Mails \cup {Empty},
          password \in Passwords, confirmed \in BOOLEAN :
        /\ admin => \E a \in Callers : HasRole(users[a], "admin")
        /\ mail = Empty => admin
        /\ confirmed => admin
        /\ Goto(r, [Idle EXCEPT
                !.pc = "create.check",
                !.user = [NoUser EXCEPT !.username = name, !.mail = mail,
                            !.password = Hash(password), !.confirmed = confirmed]])
    /\ UNCHANGED <<users, minted, inbox, restarts, proc, vouched>>

(* ValidateUser, then the confirmation token and its mail if one is needed. *)
CreateChecked(r) ==
    LET u == req[r].user IN
    /\ req[r].pc = "create.check"
    /\ Valid(req[r].id, u)
    /\ \/ /\ ~u.confirmed /\ u.mail # Empty
          /\ Generate("confirm", u.mail, Empty)
          /\ Send(u.mail, NewToken)
          /\ Goto(r, [req[r] EXCEPT !.pc = "create.save", !.user.confirmToken = NewToken])
       \/ /\ u.confirmed \/ u.mail = Empty
          /\ Goto(r, [req[r] EXCEPT !.pc = "create.save"])
          /\ UNCHANGED <<minted, inbox>>
    /\ UNCHANGED <<users, restarts, proc, vouched>>

Vouched(id, u) == IF u.confirmed /\ u.mail # Empty THEN {<<id, u.mail>>} ELSE {}

CreateSaved(r) ==
    /\ req[r].pc = "create.save"
    /\ \E id \in Ids \ DOMAIN users :
        /\ users' = SaveUser(users, id, req[r].user)
        /\ vouched' = vouched \cup Vouched(id, req[r].user)
    /\ Return(r)
    /\ UNCHANGED <<minted, inbox, restarts, proc>>

-----------------------------------------------------------------------------
(* UpdateUser: the caller edits itself, or is an administrator.             *)
UpdateUser(r) ==
    /\ Ready(r)
    /\ \E caller \in Callers, edit \in Edits :
        LET admin == HasRole(users[caller], "admin")
            id    == IF edit.id = Empty THEN caller ELSE edit.id
        IN
        /\ id # caller => admin
        /\ "confirmed" \in edit.mask /\ edit.confirmed => admin
        /\ Goto(r, [Idle EXCEPT !.pc = "update.read", !.id = id, !.admin = admin,
                                !.edit = edit, !.from = users[caller].mail])
    /\ UNCHANGED <<users, minted, inbox, restarts, proc, vouched>>

(* The masked fields of the edit replace those of the message.              *)
Merge(u, edit) ==
    [u EXCEPT
        !.username  = IF "username" \in edit.mask THEN edit.username ELSE @,
        !.mail      = IF "mail" \in edit.mask THEN edit.mail ELSE @,
        !.confirmed = IF "confirmed" \in edit.mask THEN edit.confirmed ELSE @]

(* The document is read and merged, its id as well: with an empty one in    *)
(* the mask what is saved will be a new user. moved: the branch for a mail  *)
(* address changed by someone who is not an administrator will be taken.    *)
UpdateRead(r) ==
    LET old  == users[req[r].id]
        edit == req[r].edit
    IN
    /\ req[r].pc = "update.read"
    /\ req[r].id \in DOMAIN users
    /\ Goto(r, [req[r] EXCEPT
            !.pc    = "update.check",
            !.id    = IF "id" \in edit.mask THEN edit.id ELSE @,
            !.of    = req[r].id,
            !.edit  = NoEdit,
            !.user  = Merge(ThroughPb(old), edit),
            !.moved = "mail" \in edit.mask /\ ~req[r].admin /\ old.mail # edit.mail])
    /\ UNCHANGED <<users, minted, inbox, restarts, proc, vouched>>

(* Mutant: a change of the mail address leaves confirmed set.               *)
StayConfirmed(u) == u

Unconfirm(u) == [u EXCEPT !.confirmed = FALSE]

(* ValidateUser; when the mail address moves, confirmed is reset and a      *)
(* token is generated on the caller's document, for the caller's present    *)
(* address, and mailed there.                                               *)
UpdateChecked(r) ==
    LET u == req[r].user IN
    /\ req[r].pc = "update.check"
    /\ Valid(req[r].id, u)
    /\ \/ /\ req[r].moved
          /\ u.mail # Empty
          /\ Generate("confirm", req[r].from, Empty)
          /\ Send(req[r].from, NewToken)
          /\ Goto(r, [req[r] EXCEPT !.pc = "update.save", !.user = Unconfirm(u),
                                    !.from = Empty, !.token = NewToken])
       \/ /\ ~req[r].moved
          /\ Goto(r, [req[r] EXCEPT !.pc = "update.save", !.from = Empty])
          /\ UNCHANGED <<minted, inbox>>
    /\ UNCHANGED <<users, restarts, proc, vouched>>

(* A new user has no password and the roles of the one it was made from,    *)
(* whose confirmed address counts as vouched for if it was.                 *)
UpdateSaved(r) ==
    LET u == req[r].user IN
    /\ req[r].pc = "update.save"
    /\ \E id \in IF req[r].id = Empty THEN Ids \ DOMAIN users ELSE {req[r].id} :
        /\ users' = SaveUser(users, id, u)
        /\ vouched' = IF req[r].admin \/ <<req[r].of, u.mail>> \in vouched
                      THEN vouched \cup Vouched(id, u)
                      ELSE vouched
    /\ Return(r)
    /\ UNCHANGED <<minted, inbox, restarts, proc>>

-----------------------------------------------------------------------------
(* users.go:327 hashes the stored hash of the user, not the new password,   *)
(* or nothing if there is none.                                             *)
ChangedPassword(u, new) ==
    [u EXCEPT !.password = Hash(IF @ = Empty THEN Empty ELSE Digest)]

(* ChangePassword: the caller proves its old password on the document that  *)
(* identified it and saves that copy; an administrator reads another user.  *)
ChangePassword(r) ==
    /\ Ready(r)
    /\ \E caller \in Callers, id \in Ids, new \in Passwords :
        \/ /\ id = caller
           /\ \E old \in Passwords \cup {Empty} : ValidatePassword(users[caller], old)
           /\ Goto(r, [Idle EXCEPT !.pc = "change.save", !.id = id, !.want = new,
                                   !.user = ChangedPassword(users[caller], new)])
        \/ /\ id # caller
           /\ HasRole(users[caller], "admin")
           /\ Goto(r, [Idle EXCEPT !.pc = "change.read", !.id = id, !.want = new])
    /\ UNCHANGED <<users, minted, inbox, restarts, proc, vouched>>

ChangeRead(r) ==
    /\ req[r].pc = "change.read"
    /\ req[r].id \in DOMAIN users
    /\ Goto(r, [req[r] EXCEPT
            !.pc   = "change.save",
            !.user = ChangedPassword(users[req[r].id], req[r].want)])
    /\ UNCHANGED <<users, minted, inbox, restarts, proc, vouched>>

ChangeSaved(r) ==
    /\ req[r].pc = "change.save"
    /\ users' = SaveUser(users, req[r].id, req[r].user)
    /\ Return(r)
    /\ UNCHANGED <<minted, inbox, restarts, proc, vouched>>

-----------------------------------------------------------------------------
(* ValidateConfirmToken: the token is the one of this user, and it was      *)
(* generated under the present secret for its present mail address.         *)
ValidConfirmToken(u, token) ==
    /\ token # NoToken
    /\ u.confirmToken = token
    /\ Decrypts(token)
    /\ minted[token].mail = u.mail

Confirm(u) == [u EXCEPT !.confirmed = TRUE, !.confirmToken = NoToken]

ConfirmMail(r) ==
    /\ Ready(r)
    /\ \E token \in Known \cup {NoToken} : \E id \in ByConfirmToken(users, token) :
        /\ ValidConfirmToken(users[id], token)
        /\ Goto(r, [Idle EXCEPT !.pc = "confirm.save", !.id = id, !.token = token,
                                !.user = Confirm(users[id])])
    /\ UNCHANGED <<users, minted, inbox, restarts, proc, vouched>>

ConfirmSaved(r) ==
    /\ req[r].pc = "confirm.save"
    /\ users' = SaveUser(users, req[r].id, req[r].user)
    /\ Return(r)
    /\ UNCHANGED <<minted, inbox, restarts, proc, vouched>>

-----------------------------------------------------------------------------
(* ForgotPassword: the user is named by user name or by mail address, each  *)
(* with a lookup whose error is dropped. So is the error of generating the  *)
(* token, which leaves the old one on the document.                         *)
ForgotPassword(r) ==
    /\ Ready(r)
    /\ \E id \in DOMAIN users :
        LET u == users[id] IN
        /\ u.mail # Empty
        /\ \/ /\ Generate("reset", u.mail, id)
              /\ Goto(r, [Idle EXCEPT !.pc = "forgot.save", !.id = id, !.token = NewToken,
                                      !.user = [u EXCEPT !.resetToken = NewToken]])
           \/ /\ Goto(r, [Idle EXCEPT !.pc = "forgot.save", !.id = id, !.user = u])
              /\ UNCHANGED minted
    /\ UNCHANGED <<users, inbox, restarts, proc, vouched>>

ForgotSaved(r) ==
    /\ req[r].pc = "forgot.save"
    /\ users' = SaveUser(users, req[r].id, req[r].user)
    /\ Send(req[r].user.mail, req[r].user.resetToken)
    /\ Return(r)
    /\ UNCHANGED <<minted, restarts, proc, vouched>>

(* Mutant: the redeemed token stays in the document.                        *)
ResetKeepingToken(u, new) == [u EXCEPT !.password = Hash(new)]

(* ResetPassword: whoever presents the stored token sets a new password.    *)
Reset(u, new) == [u EXCEPT !.resetToken = NoToken, !.password = Hash(new)]

ResetPassword(r) ==
    /\ Ready(r)
    /\ \E token \in Known, new \in Passwords : \E id \in ByResetToken(users, token) :
        /\ token # NoToken
        /\ Decrypts(token)
        /\ Goto(r, [Idle EXCEPT !.pc = "reset.save", !.id = id, !.token = token,
                                !.user = Reset(users[id], new)])
    /\ UNCHANGED <<users, minted, inbox, restarts, proc, vouched>>

ResetSaved(r) ==
    /\ req[r].pc = "reset.save"
    /\ users' = SaveUser(users, req[r].id, req[r].user)
    /\ Return(r)
    /\ UNCHANGED <<minted, inbox, restarts, proc, vouched>>

-----------------------------------------------------------------------------
(* The handlers of groups (Groups.tla), for administrators: they read a     *)
(* member, change its roles, and save all of the copy.                      *)
RolesRead(r) ==
    /\ Ready(r)
    /\ \E a \in Callers : HasRole(users[a], "admin")
    /\ \E id \in DOMAIN users, roles \in RoleChanges :
        Goto(r, [Idle EXCEPT !.pc = "roles.save", !.id = id,
                             !.user = [users[id] EXCEPT !.roles = roles]])
    /\ UNCHANGED <<users, minted, inbox, restarts, proc, vouched>>

RolesSaved(r) ==
    /\ req[r].pc = "roles.save"
    /\ users' = SaveUser(users, req[r].id, req[r].user)
    /\ Return(r)
    /\ UNCHANGED <<minted, inbox, restarts, proc, vouched>>

-----------------------------------------------------------------------------
(* The process ends, with every request in it; the collection stays.        *)
Exit(how) ==
    /\ restarts < MaxRestarts
    /\ proc' = how
    /\ req' = [r \in Reqs |-> Idle]
    /\ UNCHANGED <<users, minted, inbox, restarts, vouched>>

(* MGO.ListUsers and MGO.ListGroups append to their named result through a  *)
(* pointer that is still nil, and take the length of what it points to, so  *)
(* no query that succeeds returns; nothing recovers from the panic.         *)
Panic == Exit("panicked")

(* DeleteUser by an administrator asks for the groups of the user first and *)
(* ranges over them without a look at the error: it panics either way.      *)
DeleteUser(r) ==
    /\ Ready(r)
    /\ \E caller \in Callers : HasRole(users[caller], "admin")
    /\ Panic

ListUsers(r) ==
    /\ Ready(r)
    /\ Callers # {}
    /\ Panic

Crash ==
    /\ proc = "up"
    /\ Exit("killed")

-----------------------------------------------------------------------------
(* The user that InitCollections makes, confirmed and without an address.   *)
NewAdmin(password) ==
    [NoUser EXCEPT !.username = AdminName, !.password = Hash(password),
                   !.roles = {"admin"}, !.confirmed = TRUE]

Holders == {i \in DOMAIN users : users[i].username = AdminName}

(* InitCollections makes the administrator, or gives the role to whoever    *)
(* has the name. A start may fail or be cut short after that.               *)
InitAdmin ==
    /\ proc # "up"
    /\ \/ /\ Holders = {}
          /\ \E id \in Ids \ DOMAIN users, password \in Passwords :
                users' = SaveUser(users, id, NewAdmin(password))
       \/ \E id \in Holders :
            /\ ~HasRole(users[id], "admin")
            /\ users' = SaveUser(users, id, [users[id] EXCEPT !.roles = @ \cup {"admin"}])
    /\ UNCHANGED <<minted, inbox, restarts, proc, req, vouched>>

(* The process serves once there is an administrator of the name.           *)
Restart ==
    /\ proc # "up"
    /\ \E id \in Holders : HasRole(users[id], "admin")
    /\ proc' = "up"
    /\ restarts' = restarts + 1
    /\ UNCHANGED <<users, minted, inbox, req, vouched>>

(* Any call may fail - a failed check, the database, a request cancelled by *)
(* its client - and every handler then returns without a further write.     *)
Abort(r) ==
    /\ req[r].pc # "idle"
    /\ Return(r)
    /\ UNCHANGED <<users, minted, inbox, restarts, proc, vouched>>

-----------------------------------------------------------------------------
(* The process has started on an empty database.                            *)
Init ==
    /\ \E id \in Ids, password \in Passwords : users = [i \in {id} |-> NewAdmin(password)]
    /\ minted = <<>>
    /\ inbox = {}
    /\ restarts = 0
    /\ proc = "up"
    /\ req = [r \in Reqs |-> Idle]
    /\ vouched = {}

Step(r) ==
    \/ CreateUser(r) \/ CreateChecked(r) \/ CreateSaved(r)
    \/ UpdateUser(r) \/ UpdateRead(r) \/ UpdateChecked(r) \/ UpdateSaved(r)
    \/ ChangePassword(r) \/ ChangeRead(r) \/ ChangeSaved(r)
    \/ ConfirmMail(r) \/ ConfirmSaved(r)
    \/ ForgotPassword(r) \/ ForgotSaved(r)
    \/ ResetPassword(r) \/ ResetSaved(r)
    \/ RolesRead(r) \/ RolesSaved(r)
    \/ DeleteUser(r) \/ ListUsers(r) \/ Abort(r)

Next == (\E r \in Reqs : Step(r)) \/ Crash \/ InitAdmin \/ Restart

Spec == Init /\ [][Next]_vars

-----------------------------------------------------------------------------
(* Types. A stored user has a user name; it need not have a password.       *)
TypeOK ==
    /\ DOMAIN users \subseteq Ids
    /\ \A i \in DOMAIN users : users[i] \in User
    /\ minted \in Seq(Minted)
    /\ inbox \subseteq [to : Mails, token : 1..Len(minted)]
    /\ restarts \in 0..MaxRestarts
    /\ proc \in {"up", "killed", "panicked"}
    /\ req \in [Reqs -> Request]
    /\ vouched \subseteq Ids \X Mails

(* A confirmation token that names mail reached mail.                       *)
Proven(mail) ==
    \E m \in inbox :
        /\ m.to = mail
        /\ minted[m.token].kind = "confirm"
        /\ minted[m.token].mail = mail

(* The mail address of a confirmed user was confirmed by an administrator   *)
(* (for this user, or for the one it is a copy of), or a confirmation token *)
(* generated for just this address was received there - however requests    *)
(* that save whole, possibly stale, documents interleave                    *)
(* (users.go:236-238, 341-358).                                             *)
ConfirmedMailIsProven ==
    \A i \in DOMAIN users :
        users[i].confirmed /\ users[i].mail # Empty =>
            <<i, users[i].mail>> \in vouched \/ Proven(users[i].mail)

(* A stored confirmation token waits for the address the user has now, on a *)
(* user who is not confirmed yet: a change of address kills the token of    *)
(* the old one (PbToUser, store.go:179-193, drops it).                      *)
ConfirmTokenNamesStoredMail ==
    \A i \in DOMAIN users : users[i].confirmToken # NoToken =>
        /\ minted[users[i].confirmToken].kind = "confirm"
        /\ minted[users[i].confirmToken].mail = users[i].mail
        /\ ~users[i].confirmed

(* A stored reset token was generated for this very user and sent to the    *)
(* address the user has now: no link in the mailbox of a former address     *)
(* opens the account (users.go:378-382, 395).                               *)
ResetTokenFollowsMail ==
    \A i \in DOMAIN users : users[i].resetToken # NoToken =>
        /\ minted[users[i].resetToken].kind = "reset"
        /\ minted[users[i].resetToken].owner = i
        /\ minted[users[i].resetToken].mail = users[i].mail

(* The save of UpdateUser leaves the password as it is in the database at   *)
(* that moment, also when it was changed since the handler read the user    *)
(* (users.go:216, 251; the omitempty of store.go:49).                       *)
UpdateKeepsPassword ==
    [][\A r \in Reqs : UpdateSaved(r) =>
          \A i \in DOMAIN users : users'[i].password = users[i].password]_vars

(* Only a token generated under the secret of this process confirms a mail  *)
(* address or resets a password (main.go:29: links do not survive a restart *)
(* when the secret is random).                                              *)
TokensDieWithSecret ==
    [][\A r \in Reqs : ConfirmSaved(r) \/ ResetSaved(r) =>
          minted[req[r].token].key = Secret]_vars

(* No two users have one user name or one mail address (users.go:111-113).  *)
UniqueAccounts ==
    \A i, j \in DOMAIN users : i # j =>
        /\ users[i].username # users[j].username
        /\ users[i].mail = Empty \/ users[i].mail # users[j].mail

(* A token works once (users.go:352, 417): the save that redeems it takes   *)
(* it out of every document, and it comes into one only by the request that *)
(* generated it.                                                            *)
TokensSingleUse ==
    [][\A i \in DOMAIN users :
        /\ users'[i].confirmToken \in {NoToken, users[i].confirmToken}
        /\ \/ users'[i].resetToken \in {NoToken, users[i].resetToken}
           \/ \E r \in Reqs : ForgotSaved(r) /\ users'[i].resetToken = req[r].token
        /\ \A r \in Reqs : ConfirmSaved(r) \/ ResetSaved(r) =>
            req[r].token \notin {users'[i].confirmToken, users'[i].resetToken}]_vars

(* While requests do not overlap the collection is a directory: every name  *)
(* and address has one holder, an address is confirmed by a link received   *)
(* there or by an administrator, what is reserved for administrators        *)
(* happens while there is one, and an UpdateUser that makes a new user out  *)
(* of another, or a start that makes an administrator, is no exception to   *)
(* this (users.go:62-116, 190-263, 341-358, server.go:162-189).             *)
Entries ==
    [i \in DOMAIN users |->
        [ name      |-> users[i].username,
          mail      |-> users[i].mail,
          confirmed |-> users[i].confirmed,
          admin     |-> HasRole(users[i], "admin") ]]

Reached == {mail \in Mails : Proven(mail)}

Promise == INSTANCE Directory WITH entries <- Entries, reached <- Reached

(* Every request of users.go, run on its own, and every start is a step of  *)
(* the directory or leaves it as it is (users.go:62-423, server.go:162-189). *)
ImplementsDirectory == Promise!Spec

(* A claim of a comment that the code does not keep.                        *)

(* users.go:289: ChangePassword changes the password to the new one.        *)
ChangeSetsNewPassword ==
    [][\A r \in Reqs : ChangeSaved(r) =>
          ValidatePassword(users'[req[r].id], req[r].want)]_vars
=============================================================================
