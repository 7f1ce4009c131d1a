--------------------------- MODULE WindowsService ---------------------------
(***************************************************************************)
(* The Windows daemonizer: serviceWrapper.Execute, called back by svc.Run  *)
(* in a goroutine of its own, the select loop of svc.Run between it and    *)
(* the operating system, and the Service Control Manager (SCM), which      *)
(* starts processes, sends them controls and believes the states they      *)
(* report.  The channels r and changes are unbuffered; svc.Run holds one   *)
(* control at most, the SCM delivers controls one at a time.               *)
(*                                                                         *)
(* The event log, the arguments and the wait hints are left out, and so    *)
(* is the interactive session, which has no service around it.             *)
(***************************************************************************)
EXTENDS Naturals

CONSTANT Procs          \* processes the SCM may start for the service

VARIABLES
    pc,                 \* where Execute, or what is around it, stands
    app,                \* how far the calls to the process's Application got
    lastErr,            \* serviceWrapper.lastErr
    outcome,            \* how the process ended
    held,               \* svc.Run: the control Execute has yet to receive
    offered,            \* the control the SCM's handler call is stuck with
    reported,           \* svc.Run: the last status sent on changes
    scm,                \* the state the SCM shows for the service
    current,            \* the process the SCM associates with the service
    exitCode            \* the exit code the SCM shows

loop == <<held, offered>>
smgr == <<scm, current, exitCode>>
vars == <<pc, app, lastErr, outcome, loop, reported, smgr>>

None == "none"

ASSUME NoneAssumption == None \notin Procs

\* AcceptStop|AcceptShutdown, reported with Running only.  Interrogate and
\* user-defined controls need not be accepted.
Accepted == {"Stop", "Shutdown"}
Controls == Accepted \cup {"Interrogate", "UserDefined"}
States   == {"StartPending", "Running", "StopPending", "Stopped"}

Init ==
    /\ pc       = [p \in Procs |-> "absent"]
    /\ app      = [p \in Procs |-> "idle"]
    /\ lastErr  = [p \in Procs |-> None]
    /\ outcome  = [p \in Procs |-> None]
    /\ held     = [p \in Procs |-> None]
    /\ offered  = [p \in Procs |-> None]
    /\ reported = [p \in Procs |-> "Stopped"]
    /\ scm      = "Stopped"
    /\ current  = None
    /\ exitCode = 0

Goto(p, from, to) == pc[p] = from /\ pc' = [pc EXCEPT ![p] = to]

\* updateStatus: what the process reports becomes what the SCM shows.
Report(p, state) ==
    /\ reported' = [reported EXCEPT ![p] = state]
    /\ scm' = IF current = p THEN state ELSE scm

-----------------------------------------------------------------------------
(* Execute.  A send on changes completes when the loop of svc.Run, which   *)
(* is always willing, has received and reported the status.                *)

ReportStartPending(p) ==
    /\ Goto(p, "execute", "start")
    /\ Report(p, "StartPending")
    /\ app' = [app EXCEPT ![p] = "starting"]
    /\ UNCHANGED <<lastErr, outcome, loop, current, exitCode>>

StartNil(p) ==
    /\ Goto(p, "start", "started")
    /\ app' = [app EXCEPT ![p] = "running"]
    /\ UNCHANGED <<lastErr, outcome, loop, reported, smgr>>

\* Defect: the error is kept, but Execute goes on.
StartErrGoesOn(p) ==
    /\ Goto(p, "start", "started")
    /\ app'     = [app EXCEPT ![p] = "failed"]
    /\ lastErr' = [lastErr EXCEPT ![p] = "startErr"]
    /\ UNCHANGED <<outcome, loop, reported, smgr>>

StartErr(p) ==
    /\ Goto(p, "start", "return 1")
    /\ app'     = [app EXCEPT ![p] = "failed"]
    /\ lastErr' = [lastErr EXCEPT ![p] = "startErr"]
    /\ UNCHANGED <<outcome, loop, reported, smgr>>

\* Defect: the Running status is not sent.
ReportNothing(p) ==
    /\ Goto(p, "started", "receive")
    /\ UNCHANGED <<app, lastErr, outcome, loop, reported, smgr>>

ReportRunning(p) ==
    /\ Goto(p, "started", "receive")
    /\ Report(p, "Running")
    /\ UNCHANGED <<app, lastErr, outcome, loop, current, exitCode>>

\* Defect: svc.Shutdown is accepted but not handled.
ReceiveStopOnly(p) ==
    /\ pc[p] = "receive" /\ held[p] # None
    /\ pc' = [pc EXCEPT ![p] =
           CASE held[p] = "Interrogate" -> "answer"
             [] held[p] = "Stop"        -> "stopping"
             [] OTHER                   -> "receive"]
    /\ held' = [held EXCEPT ![p] = None]
    /\ UNCHANGED <<app, lastErr, outcome, offered, reported, smgr>>

\* c := <-r and the switch on c.Cmd.
ReceiveControl(p) ==
    /\ pc[p] = "receive" /\ held[p] # None
    /\ pc' = [pc EXCEPT ![p] =
           CASE held[p] = "Interrogate" -> "answer"
             [] held[p] \in Accepted    -> "stopping"
             [] OTHER                   -> "receive"]
    /\ held' = [held EXCEPT ![p] = None]
    /\ UNCHANGED <<app, lastErr, outcome, offered, reported, smgr>>

\* Defects: the answer is a zero svc.Status; or the first status over again.
AnswerZero(p) ==
    /\ Goto(p, "answer", "receive")
    /\ Report(p, "")
    /\ UNCHANGED <<app, lastErr, outcome, loop, current, exitCode>>

AnswerFirst(p) ==
    /\ Goto(p, "answer", "receive")
    /\ Report(p, "StartPending")
    /\ UNCHANGED <<app, lastErr, outcome, loop, current, exitCode>>

\* changes <- c.CurrentStatus: svc.Run keeps that field at the last status.
Answer(p) ==
    /\ Goto(p, "answer", "receive")
    /\ Report(p, reported[p])
    /\ UNCHANGED <<app, lastErr, outcome, loop, current, exitCode>>

\* Defect: Stopped is reported ahead of the call to application.Stop.
ReportStoppedFirst(p) ==
    /\ Goto(p, "stopping", "stop")
    /\ Report(p, "Stopped")
    /\ app' = [app EXCEPT ![p] = "stopping"]
    /\ UNCHANGED <<lastErr, outcome, loop, current, exitCode>>

ReportStopPending(p) ==
    /\ Goto(p, "stopping", "stop")
    /\ Report(p, "StopPending")
    /\ app' = [app EXCEPT ![p] = "stopping"]
    /\ UNCHANGED <<lastErr, outcome, loop, current, exitCode>>

StopNil(p) ==
    /\ Goto(p, "stop", "return 0")
    /\ app' = [app EXCEPT ![p] = "stopped"]
    /\ UNCHANGED <<lastErr, outcome, loop, reported, smgr>>

\* Defect: the error is not kept for RunUntilExit.
StopErrForgotten(p) ==
    /\ Goto(p, "stop", "return 2")
    /\ app' = [app EXCEPT ![p] = "stopped"]
    /\ UNCHANGED <<lastErr, outcome, loop, reported, smgr>>

StopErr(p) ==
    /\ Goto(p, "stop", "return 2")
    /\ app'     = [app EXCEPT ![p] = "stopped"]
    /\ lastErr' = [lastErr EXCEPT ![p] = "stopErr"]
    /\ UNCHANGED <<outcome, loop, reported, smgr>>

-----------------------------------------------------------------------------
(* svc.Run around Execute, and RunUntilExit around svc.Run.                *)

\* RunUntilExit gives up before Execute is called: the event log cannot be
\* opened, or svc.Run cannot connect to the SCM.
RunFails(p) ==
    /\ Goto(p, "boot", "exited")
    /\ outcome' = [outcome EXCEPT ![p] = "runErr"]
    /\ scm' = IF current = p THEN "Stopped" ELSE scm
    /\ UNCHANGED <<app, lastErr, loop, reported, current, exitCode>>

\* runAndBlock forgets an earlier error; svc.Run calls back Execute.
CallExecute(p) ==
    /\ Goto(p, "boot", "execute")
    /\ lastErr' = [lastErr EXCEPT ![p] = None]
    /\ UNCHANGED <<app, outcome, loop, reported, smgr>>

TakeControl(p) ==
    /\ pc[p] \notin {"ended", "exited"}
    /\ offered[p] # None /\ held[p] = None
    /\ held'    = [held EXCEPT ![p] = offered[p]]
    /\ offered' = [offered EXCEPT ![p] = None]
    /\ UNCHANGED <<pc, app, lastErr, outcome, reported, smgr>>

CodeOf(step) ==
    CASE step = "return 0" -> 0 [] step = "return 1" -> 1
      [] step = "return 2" -> 2

\* Execute has returned; the loop ends and reports Stopped with the code.
ExecuteReturns(p) ==
    /\ pc[p] \in {"return 0", "return 1", "return 2"}
    /\ pc' = [pc EXCEPT ![p] = "ended"]
    /\ Report(p, "Stopped")
    /\ exitCode' = IF current = p THEN CodeOf(pc[p]) ELSE exitCode
    /\ UNCHANGED <<app, lastErr, outcome, loop, current>>

\* startStopErr has the last word on what RunUntilExit returns.
RunReturns(p) ==
    /\ Goto(p, "ended", "exited")
    /\ outcome' = [outcome EXCEPT ![p] =
           IF lastErr[p] # None THEN lastErr[p] ELSE "nil"]
    /\ UNCHANGED <<app, lastErr, loop, reported, smgr>>

-----------------------------------------------------------------------------
(* The SCM.                                                                *)

StartService(p) ==
    /\ scm = "Stopped"
    /\ Goto(p, "absent", "boot")
    /\ scm' = "StartPending" /\ current' = p /\ exitCode' = 0
    /\ UNCHANGED <<app, lastErr, outcome, loop, reported>>

\* The SCM refuses what the last reported status does not accept.  The
\* handler runs in the service's process, once Execute has been called.
SendControl(p, control) ==
    /\ current = p /\ scm # "Stopped"
    /\ pc[p] \notin {"absent", "boot", "ended", "exited"}
    /\ offered[p] = None
    /\ control \in Accepted => scm = "Running"
    /\ offered' = [offered EXCEPT ![p] = control]
    /\ UNCHANGED <<pc, app, lastErr, outcome, held, reported, smgr>>

\* A panic or TerminateProcess; the SCM notices.
Kill(p) ==
    /\ pc[p] \notin {"absent", "exited"}
    /\ pc' = [pc EXCEPT ![p] = "exited"]
    /\ outcome' = [outcome EXCEPT ![p] = "killed"]
    /\ scm' = IF current = p THEN "Stopped" ELSE scm
    /\ UNCHANGED <<app, lastErr, loop, reported, current, exitCode>>

-----------------------------------------------------------------------------
Execute(p) ==
    \/ ReportStartPending(p) \/ StartNil(p) \/ StartErr(p)
    \/ ReportRunning(p) \/ ReceiveControl(p) \/ Answer(p)
    \/ ReportStopPending(p) \/ StopNil(p) \/ StopErr(p)

Run(p) == RunFails(p) \/ CallExecute(p) \/ ExecuteReturns(p) \/ RunReturns(p)

Next ==
    \E p \in Procs :
        \/ Execute(p) \/ Run(p) \/ TakeControl(p)
        \/ StartService(p) \/ Kill(p)
        \/ \E control \in Controls : SendControl(p, control)

\* Goroutines run, a ready case of a Go select is chosen sooner or later, and
\* Start and Stop return.  Nothing obliges the SCM to do anything.
Fairness ==
    \A p \in Procs :
        WF_vars(Execute(p)) /\ WF_vars(Run(p)) /\ WF_vars(TakeControl(p))

SafetySpec == Init /\ [][Next]_vars
Spec       == SafetySpec /\ Fairness

-----------------------------------------------------------------------------
TypeOK ==
    /\ pc       \in [Procs -> {"absent", "boot", "execute", "start", "started",
                               "receive", "answer", "stopping", "stop",
                               "return 0", "return 1", "return 2",
                               "ended", "exited"}]
    /\ app      \in [Procs -> {"idle", "starting", "failed",
                               "running", "stopping", "stopped"}]
    /\ lastErr  \in [Procs -> {None, "startErr", "stopErr"}]
    /\ outcome  \in [Procs -> {None, "nil", "startErr", "stopErr", "runErr",
                               "killed"}]
    /\ held     \in [Procs -> Controls \cup {None}]
    /\ offered  \in [Procs -> Controls \cup {None}]
    /\ reported \in [Procs -> States]
    /\ scm      \in States
    /\ current  \in Procs \cup {None}
    /\ exitCode \in {0, 1, 2}

\* The service honours the contract of the Application interface.
Fate(p) ==
    IF pc[p] # "exited" THEN "live"
    ELSE IF outcome[p] = "killed" THEN "killed" ELSE "returned"

Contract == INSTANCE ApplicationContract
                WITH fate <- [p \in Procs |-> Fate(p)]

ImplementsContract == Contract!Spec

\* A live process whose application is being started, runs or is stopping.
Busy(p) == pc[p] # "exited" /\ app[p] \in {"starting", "running", "stopping"}

\* When Windows shows the service as stopped, and so may start it again, no
\* process is still running the application: Execute reports StopPending
\* before application.Stop, and svc.Run reports Stopped only after Execute.
StoppedMeansQuiet == scm = "Stopped" => \A p \in Procs : ~Busy(p)

\* Whatever controls arrive, the state Windows shows for one process never
\* goes back: an answer to Interrogate cannot revive an earlier status.
Rank(state) == CASE state = "StartPending" -> 1 [] state = "Running" -> 2
                 [] state = "StopPending" -> 3 [] state = "Stopped" -> 4

StateNeverGoesBack ==
    [][current' = current /\ current # None => Rank(scm') >= Rank(scm)]_vars

\* A service that ends by itself tells Windows and its caller the same story:
\* the exit code is 0 exactly when RunUntilExit returns nil.
ExitCodeTellsError ==
    \A p \in Procs :
        (current = p /\ outcome[p] \in {"nil", "startErr", "stopErr"})
            => exitCode = CASE outcome[p] = "nil"      -> 0
                            [] outcome[p] = "startErr" -> 1
                            [] outcome[p] = "stopErr"  -> 2

\* A stop that Windows accepted ends the process, however many controls are
\* ahead of it or follow it.
AcceptedStopEnds ==
    \A p \in Procs :
        (offered[p] \in Accepted /\ scm = "Running") ~> (pc[p] = "exited")

\* A process the SCM has started gets to Running or ends: Windows never shows
\* StartPending for ever.
StartPendingPasses == (scm = "StartPending") ~> (scm # "StartPending")

=============================================================================
