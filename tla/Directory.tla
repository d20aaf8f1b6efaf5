------------------------------ MODULE Directory ------------------------------
(***************************************************************************)
(* What the users collection promises about names and mail addresses,      *)
(* without requests, tokens and copies of documents.  Nobody takes a name  *)
(* or an address that somebody has; a holder changes a name at will, but a *)
(* new address is an unconfirmed one until a link for it was received      *)
(* there, and may have a second account that stands like the first;        *)
(* everything else is done while there is an administrator, who vouches    *)
(* for the addresses saved as confirmed, or by a start.                    *)
(***************************************************************************)
CONSTANTS
    Ids, Usernames, Mails, Empty,
    AdminName  \* the name that an administrator is given at a start

VARIABLES
    entries,  \* name, address and standing of the accounts, by id
    reached,  \* the addresses at which a link to confirm them was received
    vouched   \* <<id, mail>> that an administrator saved as confirmed

vars == <<entries, reached, vouched>>

Entry ==
    [ name      : Usernames,
      mail      : Mails \cup {Empty},
      confirmed : BOOLEAN,
      admin     : BOOLEAN ]

Administered == \E i \in DOMAIN entries : entries[i].admin

Free(id, e) ==
    \A i \in DOMAIN entries \ {id} :
        /\ entries[i].name # e.name
        /\ e.mail = Empty \/ entries[i].mail # e.mail

Put(id, e) ==
    entries' = [i \in DOMAIN entries \cup {id} |-> IF i = id THEN e ELSE entries[i]]

(* Anybody may register, with an address that is not confirmed.             *)
Register(id) ==
    /\ id \notin DOMAIN entries
    /\ \E e \in Entry :
        /\ e.mail # Empty /\ ~e.confirmed /\ ~e.admin
        /\ Free(id, e)
        /\ Put(id, e)
    /\ UNCHANGED <<reached, vouched>>

(* The holder: confirmed stays only with the address, which is not dropped. *)
Edit(id) ==
    /\ id \in DOMAIN entries
    /\ \E e \in Entry :
        /\ e.admin = entries[id].admin
        /\ e.mail # entries[id].mail => e.mail # Empty /\ ~e.confirmed
        /\ e.confirmed => entries[id].confirmed
        /\ Free(id, e)
        /\ Put(id, e)
    /\ UNCHANGED <<reached, vouched>>

(* The holder of another account: the new one stands no higher.             *)
Copy(id, of) ==
    /\ id \notin DOMAIN entries
    /\ of \in DOMAIN entries
    /\ \E e \in Entry :
        /\ e.admin => entries[of].admin
        /\ e.confirmed => entries[of].confirmed /\ e.mail = Empty
        /\ Free(id, e)
        /\ Put(id, e)
    /\ UNCHANGED <<reached, vouched>>

Confirm(id) ==
    /\ id \in DOMAIN entries
    /\ ~entries[id].confirmed
    /\ entries[id].mail \in reached
    /\ Put(id, [entries[id] EXCEPT !.confirmed = TRUE])
    /\ UNCHANGED <<reached, vouched>>

(* The administrator makes an account, or changes anything but its roles.   *)
Appoint(id) ==
    /\ Administered
    /\ \E e \in Entry :
        /\ id \in DOMAIN entries => e.admin = entries[id].admin
        /\ Free(id, e)
        /\ Put(id, e)
        /\ vouched' = vouched \cup
             (IF e.confirmed /\ e.mail # Empty THEN {<<id, e.mail>>} ELSE {})
    /\ UNCHANGED reached

(* Roles come and go by the groups of an account.                           *)
Promote(id) ==
    /\ Administered
    /\ id \in DOMAIN entries
    /\ \E admin \in BOOLEAN : Put(id, [entries[id] EXCEPT !.admin = admin])
    /\ UNCHANGED <<reached, vouched>>

(* A start: nobody has the name, or its holder is no administrator.         *)
Install(id) ==
    /\ \/ /\ id \notin DOMAIN entries
          /\ \A i \in DOMAIN entries : entries[i].name # AdminName
          /\ Put(id, [name |-> AdminName, mail |-> Empty, confirmed |-> TRUE, admin |-> TRUE])
       \/ /\ id \in DOMAIN entries
          /\ entries[id].name = AdminName
          /\ Put(id, [entries[id] EXCEPT !.admin = TRUE])
    /\ UNCHANGED <<reached, vouched>>

Reach ==
    /\ \E mail \in Mails : reached' = reached \cup {mail}
    /\ UNCHANGED <<entries, vouched>>

(* One administrator, without an address.                                   *)
Init ==
    /\ \E id \in Ids :
        entries = [i \in {id} |->
            [name |-> AdminName, mail |-> Empty, confirmed |-> TRUE, admin |-> TRUE]]
    /\ reached = {}
    /\ vouched = {}

Next ==
    \/ \E id \in Ids : \/ Register(id) \/ Edit(id) \/ Confirm(id)
                       \/ Appoint(id) \/ Promote(id) \/ Install(id)
                       \/ \E of \in Ids : Copy(id, of)
    \/ Reach

Spec == Init /\ [][Next]_vars
=============================================================================
