----------------------------- MODULE MailProofs -----------------------------
(***************************************************************************)
(* Proofs about Mail, for any lists of recipients and any server: a Send    *)
(* is one delivery to all of them, or an error.                             *)
(***************************************************************************)
EXTENDS Mail, TLAPS

Steps == DOMAIN CallAfter \cup {"quit"}

Answers == {"yes", "no", "broken", "Username:", "Password:", "other"}

(* What the server still waits for, or the client.                          *)
Asked ==
    IF send.step = "rcpt" THEN {Head(send.rcpts)}
    ELSE IF send.step = "auth" THEN {"auth", "username", "password"}
    ELSE {send.step}

Typed ==
    /\ send \in [step : Steps \cup {"idle"}, rcpts : Seq(Recipients),
                 result : {"none", "nil", "error"}]
    /\ peer \in [tls : BOOLEAN, prompts : Nat, clear : BOOLEAN,
                 rcpts : SUBSET Recipients, accepted : SUBSET Recipients]

(* The server has agreed.                                                   *)
Yes == wire.to = "client" /\ wire.what = "yes"

(* Who has the word, and what about.                                        *)
InTurn ==
    \/ send.step = "idle" /\ wire = Silent
    \/ send.step # "idle" /\ wire.to = "server" /\ wire.what \in Asked
    \/ send.step # "idle" /\ wire.to = "client" /\ wire.what \in Answers

OnlyLoginAsks ==
    wire.to = "client" /\ wire.what \in {"Username:", "Password:", "other"} => send.step = "auth"

(* The recipients are those that the server has and those it is yet to get. *)
Partition ==
    /\ send.step \in {"greeting", "starttls", "auth", "mail"} => send.rcpts = AddedInOrder
    /\ send.step = "rcpt" =>
        /\ send.rcpts # <<>>
        /\ Recipients = peer.rcpts \cup ToSet(send.rcpts)
        /\ Yes => Head(send.rcpts) \in peer.rcpts
    /\ send.step \in {"data", "body", "quit"} => peer.rcpts = Recipients

(* The mail is taken at the end of the data, and not before.                *)
Taken ==
    /\ peer.accepted \in {{}, Recipients}
    /\ send.step \in Steps \ {"body", "quit"} => peer.accepted = {}
    /\ send.step = "body" /\ wire.to = "server" => peer.accepted = {}
    /\ send.step = "body" /\ Yes => peer.accepted = Recipients
    /\ send.step = "quit" => peer.accepted = Recipients
    /\ send.result = "nil" => peer.accepted = Recipients
    /\ send.step # "idle" => send.result = "none"

(* Nothing is said before the connection is encrypted.                      *)
Encrypted ==
    /\ ~peer.clear
    /\ send.step \in Steps \ {"greeting", "starttls"} => peer.tls
    /\ send.step = "starttls" /\ Yes => peer.tls

IInv ==
    Typed /\ InTurn /\ OnlyLoginAsks /\ Partition /\ Taken /\ Encrypted

LEMMA StepNames ==
    /\ DOMAIN CallAfter = {"greeting", "starttls", "auth", "mail", "rcpt", "data", "body"}
    /\ Steps = {"greeting", "starttls", "auth", "mail", "rcpt", "data", "body", "quit"}
  BY DEF Steps, CallAfter

(* The recipients in order are a sequence of all of them, and not empty.    *)
LEMMA AllRecipients ==
    /\ AddedInOrder \in Seq(Recipients)
    /\ AddedInOrder # <<>>
    /\ ToSet(AddedInOrder) = Recipients
    /\ Recipients # {}
    /\ Recipients \cap Commands = {}
  <1> DEFINE all == Tos \o Ccs \o Bccs
  <1>1. /\ Tos \in Seq(ToSet(Tos)) /\ Ccs \in Seq(ToSet(Ccs)) /\ Bccs \in Seq(ToSet(Bccs))
        /\ Len(all) > 0
    BY MailAssumption
  <1> DEFINE S == ToSet(Tos) \cup ToSet(Ccs) \cup ToSet(Bccs)
  <1>2. Tos \in Seq(S) /\ Ccs \in Seq(S) /\ Bccs \in Seq(S)
    BY <1>1
  <1>3. all \in Seq(S)
    BY <1>2
  <1> HIDE DEF all
  <1>4. all \in Seq(ToSet(all)) /\ all # <<>> /\ ToSet(all) # {}
    <2>1. all # <<>> /\ 1 \in DOMAIN all
      BY <1>1, <1>3
    <2>2. \A k \in 1 .. Len(all) : all[k] \in ToSet(all)
      BY <1>3 DEF ToSet
    <2> QED
      BY <1>3, <2>1, <2>2 DEF ToSet
  <1>5. ToSet(all) \cap Commands = {}
    BY MailAssumption DEF all
  <1> QED
    BY <1>4, <1>5 DEF AddedInOrder, Recipients, all

(* The values of the two local variables, when Send begins and is over.     *)
LEMMA Beginnings ==
    LET Local == [step : Steps \cup {"idle"}, rcpts : Seq(Recipients),
                  result : {"none", "nil", "error"}]
        Peer  == [tls : BOOLEAN, prompts : Nat, clear : BOOLEAN,
                  rcpts : SUBSET Recipients, accepted : SUBSET Recipients]
    IN
    /\ \A result \in {"none", "nil", "error"} : [Idle EXCEPT !.result = result] \in Local
    /\ [step |-> "greeting", rcpts |-> AddedInOrder, result |-> "none"] \in Local
    /\ NewPeer \in Peer
  <1>1. <<>> \in Seq(Recipients)
    OBVIOUS
  <1>2. \A result \in {"none", "nil", "error"} :
            [Idle EXCEPT !.result = result] = [step |-> "idle", rcpts |-> <<>>, result |-> result]
    BY DEF Idle
  <1> QED
    BY <1>1, <1>2, AllRecipients, StepNames DEF NewPeer

(* A sequence that goes on after its head.                                  *)
LEMMA OneOrMore ==
    ASSUME NEW S, NEW q \in Seq(S), q # <<>>
    PROVE  /\ Head(q) \in S
           /\ Len(q) > 1 => /\ Tail(q) \in Seq(S) /\ Tail(q) # <<>>
                            /\ ToSet(q) = {Head(q)} \cup ToSet(Tail(q))
           /\ ~(Len(q) > 1) => ToSet(q) = {Head(q)}
  <1>1. /\ Head(q) = q[1] /\ DOMAIN q = 1 .. Len(q) /\ Len(q) \in Nat /\ Len(q) >= 1
        /\ \A k \in DOMAIN q : q[k] \in S
    OBVIOUS
  <1>2. CASE ~(Len(q) > 1)
    <2>1. DOMAIN q = {1}
      BY <1>1, <1>2
    <2>2. ToSet(q) = {Head(q)} /\ Head(q) \in S
      BY <1>1, <2>1 DEF ToSet
    <2> QED
      BY <1>2, <2>2
  <1>3. CASE Len(q) > 1
    <2>1. /\ Tail(q) \in Seq(S) /\ Tail(q) # <<>> /\ Len(Tail(q)) = Len(q) - 1
          /\ DOMAIN Tail(q) = 1 .. Len(q) - 1
          /\ \A k \in 1 .. Len(q) - 1 : Tail(q)[k] = q[k + 1]
      BY <1>1, <1>3
    <2>2. ToSet(q) \subseteq {Head(q)} \cup ToSet(Tail(q))
      <3> SUFFICES ASSUME NEW k \in DOMAIN q PROVE q[k] \in {Head(q)} \cup ToSet(Tail(q))
        BY DEF ToSet
      <3>1. CASE k = 1
        BY <1>1, <3>1
      <3>2. CASE k # 1
        <4>1. k - 1 \in DOMAIN Tail(q) /\ Tail(q)[k - 1] = q[k]
          BY <1>1, <2>1, <3>2
        <4> QED
          BY <4>1 DEF ToSet
      <3> QED
        BY <3>1, <3>2
    <2>3. {Head(q)} \cup ToSet(Tail(q)) \subseteq ToSet(q)
      <3>1. \A k \in DOMAIN Tail(q) : k + 1 \in DOMAIN q /\ Tail(q)[k] = q[k + 1]
        BY <1>1, <2>1
      <3>2. 1 \in DOMAIN q
        BY <1>1
      <3> QED
        BY <1>1, <3>1, <3>2 DEF ToSet
    <2>4. ToSet(q) = {Head(q)} \cup ToSet(Tail(q))
      BY <2>2, <2>3
    <2>5. Head(q) \in S
      BY <1>1
    <2> QED
      BY <1>3, <2>1, <2>4, <2>5
  <1> QED
    BY <1>2, <1>3

LEMMA InitSound == Init => IInv
  <1> SUFFICES ASSUME Init PROVE IInv
    OBVIOUS
  <1>1. Typed /\ InTurn /\ OnlyLoginAsks
    BY DEF Init, Idle, NewPeer, Silent, Typed, InTurn, OnlyLoginAsks
  <1>2. Partition /\ Taken /\ Encrypted
    BY StepNames DEF Init, Idle, NewPeer, Silent, Partition, Taken, Encrypted
  <1> QED
    BY <1>1, <1>2 DEF IInv

-----------------------------------------------------------------------------
(* A step of Send.                                                          *)
LEMMA DialStep ==
    ASSUME IInv, Dial
    PROVE  IInv'
  <1>1. Typed'
    BY Beginnings DEF Typed, Dial
  <1>2. InTurn' /\ OnlyLoginAsks'
    BY DEF IInv, InTurn, OnlyLoginAsks, Dial, Idle, Asked, ToServer
  <1>3. Partition' /\ Taken' /\ Encrypted'
    BY StepNames DEF IInv, Typed, Partition, Taken, Encrypted, Dial, NewPeer, Idle, ToServer, Yes
  <1> QED
    BY <1>1, <1>2, <1>3 DEF IInv

LEMMA ProceedStep ==
    ASSUME IInv, Proceed
    PROVE  IInv'
  <1>1. /\ Yes /\ send.step \in DOMAIN CallAfter
        /\ UNCHANGED peer
    BY StepNames DEF IInv, Typed, InTurn, Proceed, Fails, Silent, Yes
  <1>2. CASE send.step = "rcpt" /\ Len(send.rcpts) > 1
    <2>1. /\ send' = [send EXCEPT !.rcpts = Tail(send.rcpts)]
          /\ wire' = ToServer(Head(Tail(send.rcpts)))
      BY <1>2 DEF Proceed, IInv, Typed
    <2>2. /\ Tail(send.rcpts) \in Seq(Recipients) /\ Tail(send.rcpts) # <<>>
          /\ ToSet(send.rcpts) = {Head(send.rcpts)} \cup ToSet(Tail(send.rcpts))
      BY <1>2, OneOrMore DEF IInv, Typed, Partition
    <2>3. Typed' /\ InTurn' /\ OnlyLoginAsks'
      BY <1>1, <1>2, <2>1, <2>2 DEF IInv, Typed, InTurn, OnlyLoginAsks, Asked, ToServer
    <2>4. Partition'
      BY <1>1, <1>2, <2>1, <2>2 DEF IInv, Typed, Partition, Yes, ToServer
    <2>5. Taken' /\ Encrypted'
      BY <1>1, <1>2, <2>1 DEF IInv, Typed, Taken, Encrypted, Yes, ToServer
    <2> QED
      BY <2>3, <2>4, <2>5 DEF IInv
  <1>3. CASE ~(send.step = "rcpt" /\ Len(send.rcpts) > 1)
    <2> DEFINE step == CallAfter[send.step]
    <2>1. /\ send' = [send EXCEPT !.step = step]
          /\ wire' = ToServer(IF step = "rcpt" THEN Head(send.rcpts) ELSE step)
      BY <1>3 DEF Proceed, IInv, Typed
    <2>2. /\ send.step = "greeting" => step = "starttls"
          /\ send.step = "starttls" => step = "auth"
          /\ send.step = "auth" => step = "mail"
          /\ send.step = "mail" => step = "rcpt"
          /\ send.step = "rcpt" => step = "data"
          /\ send.step = "data" => step = "body"
          /\ send.step = "body" => step = "quit"
          /\ step \in Steps
      BY <1>1, StepNames DEF CallAfter
    <2>3. Typed' /\ InTurn' /\ OnlyLoginAsks'
      BY <1>1, <2>1, <2>2, StepNames DEF IInv, Typed, InTurn, OnlyLoginAsks, Asked, ToServer
    <2>4. send.step = "rcpt" => ToSet(send.rcpts) = {Head(send.rcpts)}
      BY <1>3, OneOrMore DEF IInv, Typed, Partition
    <2>5. /\ step = "rcpt" => send.rcpts = AddedInOrder
          /\ step \in {"data", "body", "quit"} => peer.rcpts = Recipients
      <3> HIDE DEF step
      <3>1. /\ step = "rcpt" => send.step = "mail"
            /\ step = "data" => send.step = "rcpt"
            /\ step \in {"body", "quit"} => send.step \in {"data", "body"}
        BY <1>1, <2>2, StepNames
      <3>2. send.step = "rcpt" => Recipients = peer.rcpts \cup {Head(send.rcpts)}
        BY <2>4 DEF IInv, Partition
      <3> QED
        BY <1>1, <3>1, <3>2 DEF IInv, Partition
    <2>6. Partition'
      BY <1>1, <2>1, <2>2, <2>5, StepNames, AllRecipients
      DEF IInv, Typed, Partition, Yes, ToServer
    <2>7. Taken' /\ Encrypted'
      BY <1>1, <2>1, <2>2, StepNames DEF IInv, Typed, Taken, Encrypted, Yes, ToServer
    <2> QED
      BY <2>3, <2>6, <2>7 DEF IInv
  <1> QED
    BY <1>2, <1>3

LEMMA LoginStep ==
    ASSUME IInv, Login
    PROVE  IInv'
  <1>1. /\ send.step = "auth"
        /\ wire' \in {ToServer("username"), ToServer("password")}
        /\ UNCHANGED <<send, peer>>
    BY DEF IInv, OnlyLoginAsks, Login
  <1>2. Typed' /\ InTurn' /\ OnlyLoginAsks'
    BY <1>1 DEF IInv, Typed, InTurn, OnlyLoginAsks, Asked, ToServer
  <1>3. Partition' /\ Taken' /\ Encrypted'
    BY <1>1 DEF IInv, Partition, Taken, Encrypted, Yes, ToServer
  <1> QED
    BY <1>2, <1>3 DEF IInv

(* A Send that returns nil comes from Quit.                                 *)
LEMMA ReturnStep ==
    ASSUME IInv, ReturnError \/ ReturnNil
    PROVE  IInv'
  <1>1. /\ send'.step = "idle" /\ send'.rcpts = <<>>
        /\ send' \in [step : Steps \cup {"idle"}, rcpts : Seq(Recipients),
                      result : {"none", "nil", "error"}]
        /\ send'.result = "nil" => send.step = "quit"
        /\ wire' = Silent
        /\ UNCHANGED peer
    <2>1. PICK result \in {"nil", "error"} : /\ send' = [Idle EXCEPT !.result = result]
                                             /\ result = "nil" => send.step = "quit"
      BY DEF ReturnError, ReturnNil
    <2>2. send' = [step |-> "idle", rcpts |-> <<>>, result |-> result]
      BY <2>1 DEF Idle
    <2> QED
      BY <2>1, <2>2, Beginnings DEF ReturnError, ReturnNil
  <1>2. Typed' /\ InTurn' /\ OnlyLoginAsks'
    BY <1>1 DEF IInv, Typed, InTurn, OnlyLoginAsks, Silent
  <1>3. Partition' /\ Taken' /\ Encrypted'
    BY <1>1, StepNames DEF IInv, Typed, Partition, Taken, Encrypted, Yes, Silent
  <1> QED
    BY <1>2, <1>3 DEF IInv

-----------------------------------------------------------------------------
(* A step of the server.                                                    *)
LEMMA AfterCommand ==
    ASSUME IInv, wire.to = "server"
    PROVE  LET next == After(wire.what) IN
           /\ next \in [tls : BOOLEAN, prompts : Nat, clear : BOOLEAN,
                        rcpts : SUBSET Recipients, accepted : SUBSET Recipients]
           /\ peer.tls \/ send.step = "starttls" => next.tls
           /\ ~next.clear
           /\ next.rcpts = IF send.step = "rcpt" THEN peer.rcpts \cup {Head(send.rcpts)}
                           ELSE peer.rcpts
           /\ next.accepted = IF send.step = "body" THEN peer.rcpts ELSE peer.accepted
  <1>1. /\ send.step \in Steps
        /\ wire.what \in Asked
    BY DEF IInv, Typed, InTurn, Silent
  <1>2. send.step = "rcpt" => Head(send.rcpts) \in Recipients
    BY DEF IInv, Typed, Partition
  <1>3. /\ wire.what \in {"username", "password"} => send.step = "auth"
        /\ wire.what = "starttls" <=> send.step = "starttls"
        /\ wire.what = "body" <=> send.step = "body"
        /\ wire.what \in Recipients <=> send.step = "rcpt"
        /\ send.step = "rcpt" => wire.what = Head(send.rcpts)
    BY <1>1, <1>2, StepNames, AllRecipients DEF Asked, Commands
  <1>4. send.step = "auth" => peer.tls
    BY StepNames DEF IInv, Encrypted
  <1> QED
    BY <1>2, <1>3, <1>4 DEF IInv, Typed, Encrypted, After

LEMMA AcceptStep ==
    ASSUME IInv, Accept
    PROVE  IInv'
  <1>1. /\ wire.to = "server" /\ peer' = After(wire.what)
        /\ wire' \in {ToClient("yes"), Broken}
        /\ UNCHANGED send
    BY DEF Accept
  <1>2. send.step \in Steps
    BY <1>1 DEF IInv, Typed, InTurn, Silent
  <1>3. Typed' /\ InTurn' /\ OnlyLoginAsks'
    BY <1>1, <1>2, AfterCommand, StepNames
    DEF IInv, Typed, InTurn, OnlyLoginAsks, Answers, ToClient, Broken
  <1>4. Partition'
    BY <1>1, <1>2, AfterCommand, StepNames DEF IInv, Typed, Partition, Yes, ToClient, Broken
  <1>5. Taken' /\ Encrypted'
    BY <1>1, <1>2, AfterCommand, StepNames
    DEF IInv, Typed, Partition, Taken, Encrypted, Yes, ToClient, Broken
  <1> QED
    BY <1>3, <1>4, <1>5 DEF IInv

LEMMA RejectStep ==
    ASSUME IInv, Reject
    PROVE  IInv'
  <1>1. /\ wire.to = "server" /\ wire' \in {ToClient("no"), Broken}
        /\ UNCHANGED <<send, peer>>
    BY DEF Reject
  <1>2. Typed' /\ InTurn' /\ OnlyLoginAsks'
    BY <1>1 DEF IInv, Typed, InTurn, OnlyLoginAsks, Answers, ToClient, Broken, Silent
  <1>3. Partition' /\ Taken' /\ Encrypted'
    BY <1>1 DEF IInv, Partition, Taken, Encrypted, Yes, ToClient, Broken
  <1> QED
    BY <1>2, <1>3 DEF IInv

LEMMA PromptStep ==
    ASSUME IInv, Prompt
    PROVE  IInv'
  <1>1. /\ wire.to = "server" /\ send.step = "auth"
        /\ peer' = [After(wire.what) EXCEPT !.prompts = @ + 1]
        /\ wire' \in {ToClient("Username:"), ToClient("Password:"), ToClient("other")}
        /\ UNCHANGED send
    BY DEF Prompt
  <1>2. /\ peer' \in [tls : BOOLEAN, prompts : Nat, clear : BOOLEAN,
                      rcpts : SUBSET Recipients, accepted : SUBSET Recipients]
        /\ peer.tls => peer'.tls
        /\ ~peer'.clear
        /\ peer'.rcpts = peer.rcpts /\ peer'.accepted = peer.accepted
    BY <1>1, AfterCommand
  <1>3. Typed' /\ InTurn' /\ OnlyLoginAsks'
    BY <1>1, <1>2 DEF IInv, Typed, InTurn, OnlyLoginAsks, Answers, ToClient
  <1>4. Partition' /\ Taken' /\ Encrypted'
    BY <1>1, <1>2, StepNames DEF IInv, Partition, Taken, Encrypted, Yes, ToClient
  <1> QED
    BY <1>3, <1>4 DEF IInv

LEMMA StepSound ==
    ASSUME IInv, [Next]_vars
    PROVE  IInv'
  <1>1. CASE UNCHANGED vars
    BY <1>1 DEF IInv, Typed, InTurn, OnlyLoginAsks, Partition, Taken, Encrypted, Yes, Asked, vars
  <1> QED
    BY <1>1, DialStep, ProceedStep, LoginStep, ReturnStep, AcceptStep, RejectStep, PromptStep
    DEF Next, Client, Server

(* The invariant that says what the dialogue has come to.                   *)
LEMMA Invariance == Spec => []IInv
  BY InitSound, StepSound, PTL DEF Spec

-----------------------------------------------------------------------------
(* Whatever the server answers and wherever the connection breaks, nil is   *)
(* returned only when all recipients have the mail (client.go:105-133).     *)
THEOREM NilIsTrue == Spec => []NilMeansAccepted
  <1>1. IInv => NilMeansAccepted
    BY DEF IInv, Taken, NilMeansAccepted
  <1> QED
    BY Invariance, <1>1, PTL

(* A mail is taken for all recipients or for none (client.go:107-131).      *)
THEOREM TakenForAll == Spec => []AllOrNobody
  <1>1. IInv => AllOrNobody
    BY DEF IInv, Taken, AllOrNobody
  <1> QED
    BY Invariance, <1>1, PTL

(* Name and password are sent over the encrypted connection only, in        *)
(* whatever order the server asks for them (client.go:99-104).              *)
THEOREM LoginEncrypted == Spec => []CredentialsEncrypted
  <1>1. IInv => CredentialsEncrypted
    BY DEF IInv, Encrypted, CredentialsEncrypted
  <1> QED
    BY Invariance, <1>1, PTL

-----------------------------------------------------------------------------
(* Each connection that is left open is counted as a failure of its own.    *)
Counted == left \in Nat /\ failed \in Nat /\ left <= failed

LEMMA CountedStep ==
    ASSUME Counted, [Next]_vars
    PROVE  Counted'
  <1>1. CASE Dial \/ Proceed \/ Login \/ Server \/ UNCHANGED vars
    BY <1>1 DEF Counted, Dial, Proceed, Login, Server, Accept, Reject, Prompt, vars
  <1>2. CASE ReturnError
    <2>1. left' \in {left, left + 1} /\ failed' = failed + 1
      BY <1>2 DEF ReturnError
    <2> QED
      BY <2>1 DEF Counted
  <1>3. CASE ReturnNil
    <2>1. \/ left' = left /\ failed' = failed
          \/ left' = left + 1 /\ failed' = failed + 1
      BY <1>3 DEF ReturnNil
    <2> QED
      BY <2>1 DEF Counted
  <1> QED
    BY <1>1, <1>2, <1>3 DEF Next, Client

(* Send leaves no more connections open than there were Sends that met an   *)
(* error, whatever the server does (client.go:86-133).                      *)
THEOREM OnlyErrorsLeave == Spec => []LeftByErrors
  <1>1. Init => Counted
    BY DEF Init, Counted
  <1>2. Counted => LeftByErrors
    BY DEF Counted, LeftByErrors
  <1> QED
    BY <1>1, <1>2, CountedStep, PTL DEF Spec

-----------------------------------------------------------------------------
(* Each step of the dialogue is a step of a delivery, or none: the one that *)
(* delivers is the answer to the end of the data.                           *)
LEMMA DeliverStep ==
    ASSUME IInv, Accept
    PROVE  [Promise!Next]_(Promise!vars)
  <1>1. /\ wire.to = "server" /\ peer' = After(wire.what) /\ UNCHANGED send
    BY DEF Accept
  <1>2. CASE send.step = "body"
    <2>1. peer.accepted = {} /\ peer'.accepted = Recipients
      BY <1>1, <1>2, AfterCommand DEF IInv, Taken, Partition
    <2> QED
      BY <1>1, <1>2, <2>1 DEF Promise!Next, Promise!Deliver
  <1>3. CASE send.step # "body"
    <2>1. peer'.accepted = peer.accepted
      BY <1>1, <1>3, AfterCommand
    <2> QED
      BY <1>1, <2>1 DEF Promise!vars
  <1> QED
    BY <1>2, <1>3

LEMMA PromptKeeps ==
    ASSUME IInv, Prompt
    PROVE  UNCHANGED Promise!vars
  <1>1. /\ wire.to = "server" /\ send.step = "auth"
        /\ peer' = [After(wire.what) EXCEPT !.prompts = @ + 1]
        /\ UNCHANGED send
    BY DEF Prompt
  <1>2. peer'.accepted = peer.accepted
    BY <1>1, AfterCommand
  <1> QED
    BY <1>1, <1>2 DEF Promise!vars

LEMMA DeliveryStep ==
    ASSUME IInv, [Next]_vars
    PROVE  [Promise!Next]_(Promise!vars)
  <1>1. CASE Dial
    <2>1. send.step = "idle" /\ peer'.accepted = {}
      BY <1>1 DEF Dial, NewPeer
    <2>2. \/ send'.step # "idle" /\ send'.result = "none"
          \/ send'.step = "idle" /\ send'.result = "error"
      BY <1>1 DEF Dial, Idle
    <2> QED
      BY <2>1, <2>2 DEF Promise!Next, Promise!Start, Promise!Refuse
  <1>2. CASE Proceed
    <2>1. /\ send.step \in DOMAIN CallAfter
          /\ send'.step \in Steps /\ send'.result = send.result
          /\ UNCHANGED peer
      BY <1>2, StepNames DEF Proceed, IInv, Typed, InTurn, Silent, CallAfter
    <2> QED
      BY <2>1, StepNames DEF Promise!vars
  <1>3. CASE Login \/ Reject \/ UNCHANGED vars
    BY <1>3 DEF Login, Reject, vars, Promise!vars
  <1>4. CASE ReturnError \/ ReturnNil
    <2>1. /\ send.step # "idle" /\ send'.step = "idle"
          /\ send'.result \in {"error", "nil"}
          /\ send'.result = "nil" => send.step = "quit"
          /\ UNCHANGED peer
      BY <1>4 DEF ReturnError, ReturnNil, Idle, IInv, InTurn, Silent
    <2>2. send.step = "quit" => peer.accepted = Recipients
      BY DEF IInv, Taken
    <2> QED
      BY <2>1, <2>2 DEF Promise!Next, Promise!Return
  <1>5. CASE Accept
    BY <1>5, DeliverStep
  <1>6. CASE Prompt
    BY <1>6, PromptKeeps
  <1> QED
    BY <1>1, <1>2, <1>3, <1>4, <1>5, <1>6 DEF Next, Client, Server

(* The dialogue of Send implements a delivery that happens at one moment to *)
(* all recipients, or not at all (client.go:65-134).                        *)
THEOREM SendDelivers == Spec => ImplementsDelivery
  <1>1. Init => Promise!Init
    BY DEF Init, Idle, NewPeer, Promise!Init
  <1> QED
    BY Invariance, <1>1, DeliveryStep, PTL DEF Spec, ImplementsDelivery, Promise!Spec
=============================================================================
