------------------------------- MODULE Store -------------------------------
(***************************************************************************)
(* The users collection and the documents in it, as the store package      *)
(* defines them: what a document holds, what a save writes, what the       *)
(* protobuf representation keeps of it, how documents are looked up.       *)
(* Everything here is a pure operator; the modules that model the request  *)
(* handlers own the collection as a variable, a function from the ids in   *)
(* use to documents.                                                       *)
(***************************************************************************)
EXTENDS Naturals

CONSTANTS
    Ids,        \* object ids
    Usernames,
    Mails,      \* valid mail addresses
    Passwords,  \* plain-text passwords of at least 7 characters
    Digest,     \* the text of a bcrypt hash, which nobody types as a password
    Roles,
    Empty       \* the empty string

(* A stored password: the bcrypt hash of a plain text. Hashing salts, so two *)
(* hashes of one text differ; nothing but ValidatePassword compares them.   *)
(* An empty text has a hash, which is not the empty string.                 *)
Hash(plain) == [bcrypt |-> plain]

Hashes == [bcrypt : Passwords \cup {Digest, Empty}]

ASSUME StoreAssumption ==
    /\ Empty \notin Ids \cup Usernames \cup Mails \cup Hashes
    /\ Digest \notin Passwords \cup {Empty}
    /\ "admin" \in Roles

(* Tokens are numbered in the order in which they are generated: a token is *)
(* the base64 of a random initialisation vector and a cipher text.          *)
NoToken == 0

(* A user in memory, and one in the collection, which was validated; it may *)
(* be without a password (see UpdateSaved in Accounts).                     *)
Draft ==
    [ username     : Usernames \cup {Empty},
      mail         : Mails \cup {Empty},
      password     : Hashes \cup {Empty},
      roles        : SUBSET Roles,
      confirmed    : BOOLEAN,
      confirmToken : Nat,
      resetToken   : Nat ]

User == {u \in Draft : u.username # Empty}

ValidatePassword(u, plain) == u.password = Hash(plain)

HasRole(u, role) == role \in u.roles

(* Mutant: ToPb and PbToUser carry the tokens as well.                      *)
ThroughPbWithTokens(u) == [u EXCEPT !.password = Empty]

(* Mutant: the commented-out line of ToPb (store.go:173) is active.         *)
ThroughPbWithPassword(u) ==
    [u EXCEPT !.confirmToken = NoToken, !.resetToken = NoToken]

(* The user as ToPb hands it out and PbToUser takes it back: the password   *)
(* and both tokens are not part of the message.                             *)
ThroughPb(u) ==
    [u EXCEPT !.password = Empty, !.confirmToken = NoToken, !.resetToken = NoToken]

(* {"$set": user}: every field is written, except that password and roles   *)
(* are omitted when they are empty and so keep what the document holds.     *)
SetUser(old, new) ==
    [new EXCEPT
        !.password = IF new.password = Empty THEN old.password ELSE new.password,
        !.roles    = IF new.roles = {} THEN old.roles ELSE new.roles]

(* FindOneAndUpdate with upsert: one atomic write of the document with id,  *)
(* which is created when there is none.                                     *)
SaveUser(users, id, u) ==
    [i \in DOMAIN users \cup {id} |->
        IF i # id THEN users[i]
        ELSE IF id \in DOMAIN users THEN SetUser(users[id], u) ELSE u]

ByConfirmToken(users, token) == {i \in DOMAIN users : users[i].confirmToken = token}

ByResetToken(users, token) == {i \in DOMAIN users : users[i].resetToken = token}

(* Mutant: ValidateUser does not add the mail address to its filter.        *)
TakenByNameOnly(users, id, u) ==
    \E i \in DOMAIN users \ {id} : users[i].username = u.username

(* CountUsers with the filter ValidateUser builds: does another document    *)
(* than id have the user name, or the mail address unless it is empty?      *)
Taken(users, id, u) ==
    \E i \in DOMAIN users \ {id} :
        \/ users[i].username = u.username
        \/ u.mail # Empty /\ users[i].mail = u.mail
=============================================================================
