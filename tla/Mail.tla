-------------------------------- MODULE Mail --------------------------------
(***************************************************************************)
(* Send of TLSMailer (internal/mailer/client.go): the dialogue with an SMTP *)
(* server, which may refuse any command, and whose answer may be lost with  *)
(* the connection after it has acted on the command.                        *)
(*                                                                         *)
(* The SMTP client of the Go library is modelled as Send uses it: one       *)
(* command at a time; NewClient closes the connection when it fails, Auth   *)
(* does if it can still quit, Quit does when it is answered, and the other  *)
(* calls leave it to Send.                                                  *)
(***************************************************************************)
EXTENDS Naturals, SequencesExt

CONSTANTS
    Tos, Ccs, Bccs,  \* the recipients Send is given
    MaxSends,        \* bound: mails sent one after another
    MaxPrompts       \* bound: how often a server asks in one LOGIN

(* What the client sends; the name of a recipient stands for RCPT.          *)
Commands ==
    { "greeting", "starttls", "auth", "username", "password", "mail", "data", "body",
      "quit", "nothing" }

ASSUME MailAssumption ==
    /\ \A list \in {Tos, Ccs, Bccs} : list \in Seq(ToSet(list))
    /\ Len(Tos \o Ccs \o Bccs) > 0
    /\ ToSet(Tos \o Ccs \o Bccs) \cap Commands = {}
    /\ MaxSends \in Nat /\ MaxPrompts \in Nat

VARIABLES
    send,    \* Send: the call it waits in, recipients left, what it returned last
    wire,    \* what is under way on the connection, and to whom
    peer,    \* what the server knows of this connection
    left,    \* connections that Send did not close
    failed,  \* (history) Sends that met an error
    sends    \* Sends so far

vars == <<send, wire, peer, left, failed, sends>>

Recipients == ToSet(Tos \o Ccs \o Bccs)

Idle == [step |-> "idle", rcpts |-> <<>>, result |-> "none"]

ToServer(what) == [to |-> "server", what |-> what]

ToClient(what) == [to |-> "client", what |-> what]

Silent == [to |-> "nobody", what |-> "nothing"]

Broken == [to |-> "client", what |-> "broken"]

NewPeer == [tls |-> FALSE, prompts |-> 0, clear |-> FALSE, rcpts |-> {}, accepted |-> {}]

-----------------------------------------------------------------------------
(* Mutant: blind copies are left out, as in the headers.                    *)
AddedInHeaders == Tos \o Ccs

(* The recipients in the order of the two loops.                            *)
AddedInOrder == Tos \o Ccs \o Bccs

(* net.Dial fails, or the client waits for the greeting.                    *)
Dial ==
    /\ send.step = "idle"
    /\ sends < MaxSends
    /\ sends' = sends + 1
    /\ \/ /\ send' = [step |-> "greeting", rcpts |-> AddedInOrder, result |-> "none"]
          /\ wire' = ToServer("greeting")
          /\ UNCHANGED failed
       \/ /\ send' = [Idle EXCEPT !.result = "error"]
          /\ failed' = failed + 1
          /\ UNCHANGED wire
    /\ peer' = NewPeer
    /\ UNCHANGED left

(* Mutant: Auth is called before StartTLS.                                  *)
AuthFirst ==
    [ greeting |-> "auth", auth |-> "starttls", starttls |-> "mail", mail |-> "rcpt",
      rcpt |-> "data", data |-> "body", body |-> "quit" ]

(* The order of the calls that wait for the server. Write needs no answer:  *)
(* what it wrote is answered when the writer is closed ("body").            *)
CallAfter ==
    [ greeting |-> "starttls", starttls |-> "auth", auth |-> "mail", mail |-> "rcpt",
      rcpt |-> "data", data |-> "body", body |-> "quit" ]

(* Mutant: a recipient that is refused is passed over.                      *)
FailsUnlessRcpt(step, answer) == answer = "broken" \/ (answer = "no" /\ step # "rcpt")

(* A refusal, a broken connection, a question that loginAuth does not know. *)
Fails(step, answer) == answer \in {"no", "broken", "other"}

(* The next recipient, or the next call.                                    *)
Proceed ==
    LET more == send.step = "rcpt" /\ Len(send.rcpts) > 1
        step == IF more THEN "rcpt" ELSE CallAfter[send.step]
        todo == IF more THEN Tail(send.rcpts) ELSE send.rcpts
    IN
    /\ wire.to = "client"
    /\ wire.what \in {"yes", "no"} /\ ~Fails(send.step, wire.what)
    /\ send.step # "quit"
    /\ send' = [send EXCEPT !.step = step, !.rcpts = todo]
    /\ wire' = ToServer(IF step = "rcpt" THEN Head(todo) ELSE step)
    /\ UNCHANGED <<peer, left, failed, sends>>

(* loginAuth.Next.                                                          *)
Login ==
    /\ wire.to = "client"
    /\ wire.what \in {"Username:", "Password:"}
    /\ wire' = ToServer(IF wire.what = "Username:" THEN "username" ELSE "password")
    /\ UNCHANGED <<send, peer, left, failed, sends>>

(* Send returns an error, and closes nothing itself.                        *)
ReturnError ==
    /\ wire.to = "client"
    /\ send.step # "quit"
    /\ Fails(send.step, wire.what)
    /\ send' = [Idle EXCEPT !.result = "error"]
    /\ left' \in IF send.step = "greeting" THEN {left}
                ELSE IF send.step = "auth" THEN {left, left + 1} ELSE {left + 1}
    /\ failed' = failed + 1
    /\ wire' = Silent
    /\ UNCHANGED <<peer, sends>>

(* Mutant: Quit is not called.                                              *)
ReturnWithoutQuit ==
    /\ wire = ToServer("quit")
    /\ send' = [Idle EXCEPT !.result = "nil"]
    /\ left' = left + 1
    /\ wire' = Silent
    /\ UNCHANGED <<peer, failed, sends>>

(* Quit closes the connection when it is answered as expected. Its error is *)
(* not looked at.                                                           *)
ReturnNil ==
    /\ wire.to = "client"
    /\ send.step = "quit"
    /\ send' = [Idle EXCEPT !.result = "nil"]
    /\ left' = IF wire.what = "yes" THEN left ELSE left + 1
    /\ failed' = IF wire.what = "yes" THEN failed ELSE failed + 1
    /\ wire' = Silent
    /\ UNCHANGED <<peer, sends>>

-----------------------------------------------------------------------------
(* What the server knows once it has acted on a command.                    *)
After(command) ==
    [peer EXCEPT
        !.tls      = @ \/ command = "starttls",
        !.clear    = @ \/ (command \in {"username", "password"} /\ ~peer.tls),
        !.rcpts    = IF command \in Recipients THEN @ \cup {command} ELSE @,
        !.accepted = IF command = "body" THEN peer.rcpts ELSE @]

Accept ==
    /\ wire.to = "server"
    /\ peer' = After(wire.what)
    /\ wire' \in {ToClient("yes"), Broken}
    /\ UNCHANGED <<send, left, failed, sends>>

Reject ==
    /\ wire.to = "server"
    /\ wire' \in {ToClient("no"), Broken}
    /\ UNCHANGED <<send, peer, left, failed, sends>>

(* During LOGIN the server asks for things in any order, in any words.      *)
Prompt ==
    /\ wire.to = "server"
    /\ send.step = "auth"
    /\ peer.prompts < MaxPrompts
    /\ peer' = [After(wire.what) EXCEPT !.prompts = @ + 1]
    /\ wire' \in {ToClient("Username:"), ToClient("Password:"), ToClient("other")}
    /\ UNCHANGED <<send, left, failed, sends>>

Init ==
    /\ send = Idle
    /\ wire = Silent
    /\ peer = NewPeer
    /\ left = 0 /\ failed = 0 /\ sends = 0

Client == Proceed \/ Login \/ ReturnError \/ ReturnNil

Server == Accept \/ Reject \/ Prompt

Next == Dial \/ Client \/ Server

Spec == Init /\ [][Next]_vars

-----------------------------------------------------------------------------
(* When Send returns nil the server has taken the mail for everyone, those  *)
(* in no header included (client.go:105-131).                               *)
NilMeansAccepted == send.result = "nil" => peer.accepted = Recipients

(* A mail is never accepted for some of its recipients only, also when Send *)
(* fails (client.go:107-113).                                               *)
AllOrNobody == peer.accepted \in {{}, Recipients}

(* Whatever the server asks for and when, name and password are sent over   *)
(* the encrypted connection only (client.go:92-102, loginauth.go:35-47).    *)
CredentialsEncrypted == ~peer.clear

(* Send leaves no connection open but where it met an error, that of Quit   *)
(* included: then nothing but the finalizer closes it (client.go:86-133).   *)
LeftByErrors == left <= failed

(* For its callers the whole dialogue is one delivery, or an error that     *)
(* leaves it open whether there was one (client.go:65-134).                 *)
Promise ==
    INSTANCE Delivery WITH sending <- send.step # "idle", got <- peer.accepted,
                           result <- send.result

ImplementsDelivery == Promise!Spec
=============================================================================
