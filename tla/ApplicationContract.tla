------------------------ MODULE ApplicationContract ------------------------
(***************************************************************************)
(* What a Daemonizer promises the Application it runs, taken from the      *)
(* Application interface (application_unix.go, application_windows.go)      *)
(* and Daemonizer.RunUntilExit (common.go): Start is called at most once,  *)
(* Stop at most once and only after a Start that returned nil, and         *)
(* RunUntilExit never returns while the application is starting, running   *)
(* or stopping.  Only the death of the process cuts this short.            *)
(*                                                                         *)
(* The module knows nothing of signals, services or PID files: the         *)
(* daemonizers of each operating system are shown to implement it.         *)
(***************************************************************************)
CONSTANT Procs          \* process incarnations that call RunUntilExit

VARIABLES
    app,                \* how far the calls to the process's Application got
    fate                \* how the call to RunUntilExit ended, if it did

vars == <<app, fate>>

AppPhases == {"idle", "starting", "failed", "running", "stopping", "stopped"}
Fates     == {"live", "returned", "killed"}

Init ==
    /\ app  = [p \in Procs |-> "idle"]
    /\ fate = [p \in Procs |-> "live"]

Call(p, from, to) ==
    /\ fate[p] = "live"
    /\ app[p] = from
    /\ app' = [app EXCEPT ![p] = to]
    /\ UNCHANGED fate

CallStart(p)  == Call(p, "idle", "starting")
StartNil(p)   == Call(p, "starting", "running")
StartErr(p)   == Call(p, "starting", "failed")
CallStop(p)   == Call(p, "running", "stopping")
StopDone(p)   == Call(p, "stopping", "stopped")

\* RunUntilExit returns: before Start (it refused or handed over to another
\* process), after a failed Start, or after Stop.
RunReturns(p) ==
    /\ fate[p] = "live"
    /\ app[p] \in {"idle", "failed", "stopped"}
    /\ fate' = [fate EXCEPT ![p] = "returned"]
    /\ UNCHANGED app

\* The process dies under the application: SIGKILL, a panic, or a signal
\* with the default disposition.
Killed(p) ==
    /\ fate[p] = "live"
    /\ fate' = [fate EXCEPT ![p] = "killed"]
    /\ UNCHANGED app

Next ==
    \E p \in Procs :
        \/ CallStart(p) \/ StartNil(p) \/ StartErr(p)
        \/ CallStop(p) \/ StopDone(p)
        \/ RunReturns(p) \/ Killed(p)

Spec == Init /\ [][Next]_vars

=============================================================================
