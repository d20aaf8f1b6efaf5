----------------------------- MODULE Lifecycle -----------------------------
(***************************************************************************)
(* How the program ends (cmd/gooser-server/main.go from line 93, Serve and  *)
(* Stop of server.go): the main goroutine, the goroutine that serves, the   *)
(* one that runs GracefulStop, the timer of Stop, the signals, and the      *)
(* requests being handled, which use the database until they return.        *)
(***************************************************************************)
EXTENDS Naturals

CONSTANTS
    Reqs,       \* requests being handled at a time
    MaxSignals  \* bound: signals sent to the process

ASSUME LifecycleAssumption == MaxSignals \in Nat

VARIABLES
    main,     \* the main goroutine: "init", "bound", "spawned", "select",
              \* "stopping", "stopped", "disconnected" or "exited"
    serve,    \* the goroutine that calls Serve: "none", "starting", "serving",
              \* "failed" (it sends the error) or "returned"
    stopper,  \* the goroutine that calls GracefulStop: "none", "launched",
              \* "draining" or "closed"
    timer,    \* the timer of Stop: "off" or "running"
    handler,  \* the requests: "none", "running", or "cut" off from the client
    db,       \* the connection to the database: "on" or "off"
    forced,   \* grpcServer.Stop was called
    signals   \* how many signals were sent

vars == <<main, serve, stopper, timer, handler, db, forced, signals>>

Running == main # "exited"

(* The server takes connections and requests.                               *)
Open == stopper \in {"none", "launched"} /\ ~forced

-----------------------------------------------------------------------------
(* signal.Notify, then the goroutine, then the select at the end of main.   *)
Bind ==
    /\ main = "init"
    /\ main' = "bound"
    /\ UNCHANGED <<serve, stopper, timer, handler, db, forced, signals>>

Spawn ==
    /\ main = "bound"
    /\ main' = "spawned"
    /\ serve' = "starting"
    /\ UNCHANGED <<stopper, timer, handler, db, forced, signals>>

Select ==
    /\ main = "spawned"
    /\ main' = "select"
    /\ UNCHANGED <<serve, stopper, timer, handler, db, forced, signals>>

(* The deferred function calls Stop, which starts the goroutine and the     *)
(* timer and waits for the first of the two.                                *)
BeginStop ==
    /\ main' = "stopping"
    /\ stopper' = "launched"
    /\ timer' = "running"

(* A signal ends the process until Notify is called. After that it is       *)
(* offered to the unbuffered channel, and dropped unless main receives.     *)
Signal ==
    /\ Running
    /\ signals < MaxSignals
    /\ signals' = signals + 1
    /\ \/ /\ main = "init"
          /\ main' = "exited"
          /\ UNCHANGED <<stopper, timer>>
       \/ /\ main = "select"
          /\ BeginStop
       \/ /\ main \notin {"init", "select"}
          /\ UNCHANGED <<main, stopper, timer>>
    /\ UNCHANGED <<serve, handler, db, forced>>

-----------------------------------------------------------------------------
Listen ==
    /\ Running
    /\ serve = "starting"
    /\ Open
    /\ serve' = "serving"
    /\ UNCHANGED <<main, stopper, timer, handler, db, forced, signals>>

(* Mutant: the error is dropped when main does not wait for it yet.         *)
AfterErrorUnawaited == IF main = "select" THEN "failed" ELSE "returned"

(* The channel has no buffer: the goroutine waits for main to receive.      *)
AfterError == "failed"

(* The port is taken, accepting fails, or the server was stopped before it  *)
(* came to serve: the goroutine sends the error.                            *)
ServeFails ==
    /\ Running
    /\ serve \in {"starting", "serving"}
    /\ serve' = AfterError
    /\ UNCHANGED <<main, stopper, timer, handler, db, forced, signals>>

ReceiveError ==
    /\ main = "select"
    /\ serve = "failed"
    /\ serve' = "returned"
    /\ BeginStop
    /\ UNCHANGED <<handler, db, forced, signals>>

(* Serve returns nil once the server is being stopped.                      *)
ServeReturns ==
    /\ Running
    /\ serve = "serving"
    /\ ~Open
    /\ serve' = "returned"
    /\ UNCHANGED <<main, stopper, timer, handler, db, forced, signals>>

-----------------------------------------------------------------------------
Request(r) ==
    /\ Running
    /\ serve = "serving"
    /\ Open
    /\ handler[r] = "none"
    /\ handler' = [handler EXCEPT ![r] = "running"]
    /\ UNCHANGED <<main, serve, stopper, timer, db, forced, signals>>

Respond(r) ==
    /\ Running
    /\ handler[r] # "none"
    /\ handler' = [handler EXCEPT ![r] = "none"]
    /\ UNCHANGED <<main, serve, stopper, timer, db, forced, signals>>

(* GracefulStop accepts nothing more, then waits for the requests.          *)
Drain ==
    /\ Running
    /\ stopper = "launched"
    /\ stopper' = "draining"
    /\ UNCHANGED <<main, serve, timer, handler, db, forced, signals>>

GracefulStop ==
    /\ Running
    /\ stopper = "draining"
    /\ \A r \in Reqs : handler[r] # "running"
    /\ stopper' = "closed"
    /\ UNCHANGED <<main, serve, timer, handler, db, forced, signals>>

(* Mutant: Stop does not wait for GracefulStop.                             *)
NotAwaited == stopper # "none"

Awaited == stopper = "closed"

StopReturns ==
    /\ main = "stopping"
    /\ Awaited
    /\ main' = "stopped"
    /\ timer' = "off"
    /\ UNCHANGED <<serve, stopper, handler, db, forced, signals>>

(* Mutant: Stop has no timer.                                               *)
NeverFires == FALSE

Fires == timer = "running"

(* After ten seconds Stop cuts the connections, which cancels the requests  *)
(* and does not wait for their handlers.                                    *)
StopForced ==
    /\ main = "stopping"
    /\ Fires
    /\ main' = "stopped"
    /\ timer' = "off"
    /\ forced' = TRUE
    /\ handler' = [r \in Reqs |-> IF handler[r] = "none" THEN "none" ELSE "cut"]
    /\ UNCHANGED <<serve, stopper, db, signals>>

Disconnect ==
    /\ main = "stopped"
    /\ main' = "disconnected"
    /\ db' = "off"
    /\ UNCHANGED <<serve, stopper, timer, handler, forced, signals>>

(* main returns, or logs that disconnecting failed: the process ends.       *)
Exit ==
    /\ main = "disconnected"
    /\ main' = "exited"
    /\ UNCHANGED <<serve, stopper, timer, handler, db, forced, signals>>

-----------------------------------------------------------------------------
Init ==
    /\ main = "init"
    /\ serve = "none"
    /\ stopper = "none"
    /\ timer = "off"
    /\ handler = [r \in Reqs |-> "none"]
    /\ db = "on"
    /\ forced = FALSE
    /\ signals = 0

Main ==
    \/ Bind \/ Spawn \/ Select \/ ReceiveError
    \/ StopReturns \/ StopForced \/ Disconnect \/ Exit

Next ==
    \/ Main \/ Signal
    \/ Listen \/ ServeFails \/ ServeReturns
    \/ \E r \in Reqs : Request(r) \/ Respond(r)
    \/ Drain \/ GracefulStop

(* The main goroutine is scheduled and its timer fires; nothing says that a *)
(* handler ever returns, and mail is sent without a deadline.               *)
Spec == Init /\ [][Next]_vars /\ WF_vars(Main)

-----------------------------------------------------------------------------
(* A request still runs when the database is disconnected only if Stop ran  *)
(* into its timeout (main.go:105-114, server.go:141-155).                   *)
DrainedBeforeDisconnect ==
    db = "off" /\ (\E r \in Reqs : handler[r] # "none") => forced

(* Stop comes to its end whatever the handlers do (server.go:146-153).      *)
StopEnds == main = "stopping" ~> main = "exited"

(* An error of Serve ends the program, also when main does not wait for it  *)
(* yet (main.go:101-103, 117).                                              *)
ServeErrorEnds == serve \in {"failed", "returned"} ~> main = "exited"

(* main.go:96, 115: a signal terminates the program gracefully.             *)
SignalEnds == signals > 0 ~> main = "exited"
=============================================================================
