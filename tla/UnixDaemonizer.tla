--------------------------- MODULE UnixDaemonizer ---------------------------
(***************************************************************************)
(* The body that the systemd, launchd and System V daemonizers share, and  *)
(* the Windows daemonizer in an interactive session, which subscribes to   *)
(* os.Interrupt only:                                                      *)
(*                                                                         *)
(*     err := application.Start()              -- return err if non-nil    *)
(*     interruptsAndTerms := make(chan os.Signal)                          *)
(*     signal.Notify(interruptsAndTerms, os.Interrupt, syscall.SIGTERM)    *)
(*     <-interruptsAndTerms                                                *)
(*     signal.Stop(interruptsAndTerms)                                     *)
(*     return application.Stop()                                           *)
(*                                                                         *)
(* The interesting actors are the goroutine that runs this body, the       *)
(* runtime's signal goroutine, which sends to the (unbuffered) channel     *)
(* without ever blocking, and the operating system, which delivers signals *)
(* at any time.  A signal nobody subscribed to kills the process.          *)
(***************************************************************************)
CONSTANTS
    Procs,              \* process incarnations
    Caught              \* the arguments of signal.Notify

VARIABLES
    pc,                 \* where the process's main goroutine stands
    sigq,               \* signals the runtime has queued, not yet dispatched
    told,               \* history: a signal it is to catch was sent to it
    app,                \* how far the calls to the Application got
    outcome             \* how the process ended

vars == <<pc, sigq, told, app, outcome>>

ASSUME CaughtAssumption == Caught # {} /\ Caught \subseteq {"INT", "TERM"}

\* The signals that reach a process here.  On Windows INT is a Ctrl-C, and
\* TERM the end of the console, the session or the system.
Signals == {"INT", "TERM", "HUP"}

\* Places where signals are subscribed: from signal.Notify to signal.Stop.
Subscribed == {"notified", "parked", "received"}
BodySteps  == {"start", "subscribe", "stop", "defers"} \cup Subscribed
Outcomes   == {"none", "nil", "startErr", "stopErr",
               "signalled", "hangup", "killed"}

Alive(p) == pc[p] \notin {"absent", "exited"}

Init ==
    /\ pc      = [p \in Procs |-> "absent"]
    /\ sigq    = [p \in Procs |-> {}]
    /\ told    = [p \in Procs |-> FALSE]
    /\ app     = [p \in Procs |-> "idle"]
    /\ outcome = [p \in Procs |-> "none"]

Goto(p, from, to) == pc[p] = from /\ pc' = [pc EXCEPT ![p] = to]

-----------------------------------------------------------------------------
(* The main goroutine.                                                     *)

\* The service manager (or a shell) executes the program, which calls
\* RunUntilExit; its first effect is the call to application.Start.
Exec(p) ==
    /\ Goto(p, "absent", "start")
    /\ app' = [app EXCEPT ![p] = "starting"]
    /\ UNCHANGED <<sigq, told, outcome>>

StartOk(p) ==
    /\ Goto(p, "start", "subscribe")
    /\ app' = [app EXCEPT ![p] = "running"]
    /\ UNCHANGED <<sigq, told, outcome>>

\* Defect: the error of application.Start is logged, not returned.
StartFailsAndGoesOn(p) ==
    /\ Goto(p, "start", "subscribe")
    /\ app' = [app EXCEPT ![p] = "failed"]
    /\ UNCHANGED <<sigq, told, outcome>>

StartFails(p) ==
    /\ Goto(p, "start", "defers")
    /\ app' = [app EXCEPT ![p] = "failed"]
    /\ outcome' = [outcome EXCEPT ![p] = "startErr"]
    /\ UNCHANGED <<sigq, told>>

\* signal.Notify has returned; the goroutine has yet to reach the receive.
Notify(p) ==
    /\ Goto(p, "subscribe", "notified")
    /\ UNCHANGED <<sigq, told, app, outcome>>

\* Defect: the receive is missing, the goroutine goes straight on.
ParkNowhere(p) ==
    /\ Goto(p, "notified", "received")
    /\ UNCHANGED <<sigq, told, app, outcome>>

\* The goroutine blocks in <-interruptsAndTerms.
Park(p) ==
    /\ Goto(p, "notified", "parked")
    /\ UNCHANGED <<sigq, told, app, outcome>>

\* signal.Stop restores the default disposition and waits for the runtime to
\* hand out what it had queued (to nobody); then application.Stop is called.
Unsubscribe(p) ==
    /\ Goto(p, "received", "stop")
    /\ sigq' = [sigq EXCEPT ![p] = {}]
    /\ app'  = [app EXCEPT ![p] = "stopping"]
    /\ UNCHANGED <<told, outcome>>

StopReturns(p) ==
    /\ Goto(p, "stop", "defers")
    /\ app' = [app EXCEPT ![p] = "stopped"]
    /\ \E result \in {"nil", "stopErr"} :
           outcome' = [outcome EXCEPT ![p] = result]
    /\ UNCHANGED <<sigq, told>>

\* Deferred calls run, RunUntilExit returns and the program ends.
Return(p) ==
    /\ Goto(p, "defers", "exited")
    /\ UNCHANGED <<sigq, told, app, outcome>>

-----------------------------------------------------------------------------
(* The runtime's signal goroutine and the operating system.                *)

\* Defect: a receive loop that waits for a TERM and skips an INT.
DispatchTermOnly(p) ==
    \E sig \in sigq[p] :
        /\ sigq' = [sigq EXCEPT ![p] = @ \ {sig}]
        /\ pc'   = [pc EXCEPT ![p] =
               IF @ = "parked" /\ sig = "TERM" THEN "received" ELSE @]
        /\ UNCHANGED <<told, app, outcome>>

\* process() in os/signal: a non-blocking send.  Only a parked receiver gets
\* the value; otherwise it is dropped.
Dispatch(p) ==
    \E sig \in sigq[p] :
        /\ sigq' = [sigq EXCEPT ![p] = @ \ {sig}]
        /\ pc'   = [pc EXCEPT ![p] = IF @ = "parked" THEN "received" ELSE @]
        /\ UNCHANGED <<told, app, outcome>>

\* Defects: signal.Notify is called without a list of signals, so that it
\* subscribes to all of them; or it is called for os.Interrupt alone.
CatchesAll(p, sig)       == pc[p] \in Subscribed
CatchesInterrupt(p, sig) == sig = "INT" /\ pc[p] \in Subscribed

\* Is the signal queued for the channel, instead of killing the process?
Catches(p, sig) == sig \in Caught /\ pc[p] \in Subscribed

Signal(p, sig) ==
    /\ Alive(p)
    /\ told' = [told EXCEPT ![p] = @ \/ sig \in Caught]
    /\ IF Catches(p, sig)
       THEN /\ sigq' = [sigq EXCEPT ![p] = @ \cup {sig}]
            /\ UNCHANGED <<pc, outcome>>
       ELSE /\ pc' = [pc EXCEPT ![p] = "exited"]
            /\ sigq' = [sigq EXCEPT ![p] = {}]
            /\ outcome' = [outcome EXCEPT ![p] =
                   IF sig \in Caught THEN "signalled" ELSE "hangup"]
    /\ UNCHANGED app

\* SIGKILL, a panic or an os.Exit of the application's own goroutines.
Kill(p) ==
    /\ Alive(p)
    /\ pc'      = [pc EXCEPT ![p] = "exited"]
    /\ sigq'    = [sigq EXCEPT ![p] = {}]
    /\ outcome' = [outcome EXCEPT ![p] = "killed"]
    /\ UNCHANGED <<told, app>>

-----------------------------------------------------------------------------
\* What the main goroutine does by itself once the program runs.
Main(p) ==
    \/ StartOk(p) \/ StartFails(p) \/ Notify(p) \/ Park(p)
    \/ Unsubscribe(p) \/ StopReturns(p) \/ Return(p)

Next ==
    \E p \in Procs :
        \/ Exec(p)
        \/ Main(p)
        \/ Dispatch(p)
        \/ \E sig \in Signals : Signal(p, sig)
        \/ Kill(p)

\* The Go scheduler runs each runnable goroutine, and Start and Stop return
\* (the Application interface requires both to return quickly).  Nothing
\* obliges anyone to execute the program or to send it a signal.
Fairness == \A p \in Procs : WF_vars(Main(p)) /\ WF_vars(Dispatch(p))

SafetySpec == Init /\ [][Next]_vars
Spec       == SafetySpec /\ Fairness

-----------------------------------------------------------------------------
TypeOK ==
    /\ pc      \in [Procs -> BodySteps \cup {"absent", "exited"}]
    /\ sigq    \in [Procs -> SUBSET Caught]
    /\ told    \in [Procs -> BOOLEAN]
    /\ app     \in [Procs -> {"idle", "starting", "failed",
                              "running", "stopping", "stopped"}]
    /\ outcome \in [Procs -> Outcomes]

\* The daemon implements the contract of the Application interface: calls to
\* Start and Stop in order and at most once, and no return of RunUntilExit
\* in between.
Fate(p) ==
    IF pc[p] # "exited" THEN "live"
    ELSE IF outcome[p] \in {"signalled", "hangup", "killed"} THEN "killed"
    ELSE "returned"

Contract == INSTANCE ApplicationContract
                WITH fate <- [p \in Procs |-> Fate(p)]

ImplementsContract == Contract!Spec

\* RunUntilExit stops the application only because somebody sent the process
\* a signal it catches: no spontaneous stop, no stop on another signal.
StopsOnlyWhenTold ==
    \A p \in Procs : app[p] \in {"stopping", "stopped"} => told[p]

\* A daemon that got to signal.Notify ends in order: a signal it is to catch
\* cuts its Stop, or the deferred calls after it, short only when it had been
\* told to stop before, and never kills it in front of application.Stop.  A
\* process may still die of the first signal before it calls signal.Notify.
OnlySecondSignalCutsStop ==
    [][\A p \in Procs :
          (outcome'[p] = "signalled" /\ pc[p] # "exited") =>
              \/ pc[p] \in {"start", "subscribe"} \/ app[p] = "failed"
              \/ app[p] \in {"stopping", "stopped"} /\ told[p]]_vars

\* A signal that is queued while the goroutine is parked in the receive ends
\* the daemon, whatever else arrives in the meantime.
ParkedSignalEndsDaemon ==
    \A p \in Procs :
        (pc[p] = "parked" /\ sigq[p] # {}) ~> (pc[p] = "exited")

\* common.go: "RunUntilExit runs the provided Application until the daemon is
\* instructed to quit."  A process that was told to quit does quit.
ToldDaemonQuits ==
    \A p \in Procs : told[p] ~> (pc[p] = "exited")

=============================================================================
