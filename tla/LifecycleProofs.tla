-------------------------- MODULE LifecycleProofs --------------------------
(***************************************************************************)
(* Proofs about Lifecycle, for any number of requests and signals: unless   *)
(* Stop ran into its timeout, no request is left when GracefulStop is done, *)
(* none can begin after it, and the database is not disconnected before.    *)
(***************************************************************************)
EXTENDS Lifecycle, TLAPS

(* What the goroutines and the timer are in.                                *)
Typed ==
    /\ handler \in [Reqs -> {"none", "running", "cut"}]
    /\ forced \in BOOLEAN

(* Connections are cut by the forced stop only.                             *)
CutWhenForced == \A r \in Reqs : handler[r] = "cut" => forced

(* GracefulStop has come to its end: nothing runs, and nothing begins.      *)
ClosedIsDrained == stopper = "closed" => forced \/ \A r \in Reqs : handler[r] = "none"

(* main goes on when one of the two stops has come to its end.              *)
StoppedFirst ==
    /\ main \in {"stopped", "disconnected"} => stopper = "closed" \/ forced
    /\ db = "off" => /\ main \in {"disconnected", "exited"}
                     /\ stopper = "closed" \/ forced

IInv == Typed /\ CutWhenForced /\ ClosedIsDrained /\ StoppedFirst

LEMMA InitSound == Init => IInv
  BY DEF Init, IInv, Typed, CutWhenForced, ClosedIsDrained, StoppedFirst

-----------------------------------------------------------------------------
(* The steps of main and those that move it.                                *)
LEMMA BeginStopStep ==
    ASSUME IInv, main = "select", BeginStop, UNCHANGED <<handler, db, forced>>
    PROVE  IInv'
  BY DEF IInv, Typed, CutWhenForced, ClosedIsDrained, StoppedFirst, BeginStop

LEMMA StopForcedStep ==
    ASSUME IInv, StopForced
    PROVE  IInv'
  <1>1. Typed'
    BY DEF IInv, Typed, StopForced
  <1>2. CutWhenForced' /\ ClosedIsDrained' /\ StoppedFirst'
    BY DEF IInv, CutWhenForced, ClosedIsDrained, StoppedFirst, StopForced
  <1> QED
    BY <1>1, <1>2 DEF IInv

LEMMA MainStep ==
    ASSUME IInv, Main
    PROVE  IInv'
  <1>1. CASE Bind \/ Spawn \/ Select \/ StopReturns \/ Disconnect \/ Exit
    BY <1>1 DEF IInv, Typed, CutWhenForced, ClosedIsDrained, StoppedFirst,
                Bind, Spawn, Select, StopReturns, Awaited, Disconnect, Exit
  <1>2. CASE ReceiveError
    BY <1>2, BeginStopStep DEF ReceiveError
  <1>3. CASE StopForced
    BY <1>3, StopForcedStep
  <1> QED
    BY <1>1, <1>2, <1>3 DEF Main

LEMMA SignalStep ==
    ASSUME IInv, Signal
    PROVE  IInv'
  <1>1. UNCHANGED <<handler, db, forced>>
    BY DEF Signal
  <1>2. CASE main = "select" /\ BeginStop
    BY <1>1, <1>2, BeginStopStep
  <1>3. CASE main = "init" /\ main' = "exited" /\ UNCHANGED stopper
    BY <1>1, <1>3 DEF IInv, Typed, CutWhenForced, ClosedIsDrained, StoppedFirst
  <1>4. CASE UNCHANGED <<main, stopper>>
    BY <1>1, <1>4 DEF IInv, Typed, CutWhenForced, ClosedIsDrained, StoppedFirst
  <1> QED
    BY <1>2, <1>3, <1>4 DEF Signal

-----------------------------------------------------------------------------
(* The other goroutines. A request begins only while the server is open.    *)
LEMMA RequestStep ==
    ASSUME IInv, NEW r \in Reqs, Request(r)
    PROVE  IInv'
  <1>1. /\ stopper \in {"none", "launched"} /\ ~forced
        /\ UNCHANGED <<main, stopper, db, forced>>
        /\ handler' = [handler EXCEPT ![r] = "running"]
    BY DEF Request, Open
  <1>2. Typed' /\ CutWhenForced'
    BY <1>1 DEF IInv, Typed, CutWhenForced
  <1>3. ClosedIsDrained' /\ StoppedFirst'
    BY <1>1 DEF IInv, ClosedIsDrained, StoppedFirst
  <1> QED
    BY <1>2, <1>3 DEF IInv

LEMMA RespondStep ==
    ASSUME IInv, NEW r \in Reqs, Respond(r)
    PROVE  IInv'
  <1>1. /\ UNCHANGED <<main, stopper, db, forced>>
        /\ handler' = [handler EXCEPT ![r] = "none"]
    BY DEF Respond
  <1>2. Typed' /\ CutWhenForced' /\ ClosedIsDrained'
    BY <1>1 DEF IInv, Typed, CutWhenForced, ClosedIsDrained
  <1>3. StoppedFirst'
    BY <1>1 DEF IInv, StoppedFirst
  <1> QED
    BY <1>2, <1>3 DEF IInv

LEMMA StopperStep ==
    ASSUME IInv, Drain \/ GracefulStop
    PROVE  IInv'
  <1>1. UNCHANGED <<main, handler, db, forced>>
    BY DEF Drain, GracefulStop
  <1>2. Typed' /\ CutWhenForced' /\ StoppedFirst'
    BY <1>1 DEF IInv, Typed, CutWhenForced, StoppedFirst, Drain, GracefulStop
  <1>3. ClosedIsDrained'
    BY <1>1 DEF IInv, Typed, CutWhenForced, ClosedIsDrained, Drain, GracefulStop
  <1> QED
    BY <1>2, <1>3 DEF IInv

LEMMA StepSound ==
    ASSUME IInv, [Next]_vars
    PROVE  IInv'
  <1>1. CASE Main
    BY <1>1, MainStep
  <1>2. CASE Signal
    BY <1>2, SignalStep
  <1>3. CASE Listen \/ ServeFails \/ ServeReturns \/ UNCHANGED vars
    <2>1. UNCHANGED <<main, stopper, handler, db, forced>>
      BY <1>3 DEF Listen, ServeFails, ServeReturns, vars
    <2> QED
      BY <2>1 DEF IInv, Typed, CutWhenForced, ClosedIsDrained, StoppedFirst
  <1>4. CASE \E r \in Reqs : Request(r) \/ Respond(r)
    BY <1>4, RequestStep, RespondStep
  <1>5. CASE Drain \/ GracefulStop
    BY <1>5, StopperStep
  <1> QED
    BY <1>1, <1>2, <1>3, <1>4, <1>5 DEF Next

(* However many requests and signals there are, the database stays          *)
(* connected until the last handler returned, or Stop gave up waiting       *)
(* (main.go:105-114, server.go:141-155).                                    *)
THEOREM DisconnectsLast == Spec => []DrainedBeforeDisconnect
  <1>1. IInv => DrainedBeforeDisconnect
    BY DEF IInv, ClosedIsDrained, StoppedFirst, DrainedBeforeDisconnect
  <1> QED
    BY InitSound, StepSound, <1>1, PTL DEF Spec
=============================================================================
