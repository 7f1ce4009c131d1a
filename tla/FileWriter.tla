----------------------------- MODULE FileWriter -----------------------------
(***************************************************************************)
(* The example application, filewriter, run by the body that module        *)
(* UnixDaemonizer describes.  Start opens a file by its name, making it if *)
(* need be, and leaves a goroutine that writes to it at every tick, until  *)
(* Stop hands it the channel rejoin over the channel stop; it answers over *)
(* rejoin, then removes the name and closes the file.  Both channels are   *)
(* unbuffered.  The main goroutine waits for each with a timeout, the loop *)
(* with none.  A file is identified with the process that made it.         *)
(***************************************************************************)
CONSTANTS Procs, Caught          \* see UnixDaemonizer

VARIABLES
    pc, sigq, told, app, outcome,   \* of the daemonizer
    loop,               \* where the goroutine of updateFileLoop stands
    path,               \* the file that has the name filewriter-output.txt
    handle,             \* the file a process has open
    overlap             \* history: was a process executed beside another?

daemon == <<pc, sigq, told, app, outcome>>
vars   == <<daemon, loop, path, handle, overlap>>

D == INSTANCE UnixDaemonizer

None == "none"
ASSUME NoneAssumption == None \notin Procs

Init ==
    /\ D!Init
    /\ loop = [p \in Procs |-> None]
    /\ path = None
    /\ handle = [p \in Procs |-> None]
    /\ overlap = FALSE

Goto(p, from, to) == loop[p] = from /\ loop' = [loop EXCEPT ![p] = to]

-----------------------------------------------------------------------------
(* The main goroutine.                                                     *)

\* The service manager runs the program, or anybody does, in the foreground.
Exec(p) ==
    /\ D!Exec(p)
    /\ overlap' = (overlap \/ \E q \in Procs : D!Alive(q))
    /\ UNCHANGED <<loop, path, handle>>

\* Defect: Start opens the file, and nobody calls updateFileLoop.
StartNoLoop(p) ==
    /\ D!StartOk(p)
    /\ path' = IF path = None THEN p ELSE path
    /\ handle' = [handle EXCEPT ![p] = path']
    /\ UNCHANGED <<loop, overlap>>

Start(p) ==
    /\ D!StartOk(p)
    /\ path' = IF path = None THEN p ELSE path
    /\ handle' = [handle EXCEPT ![p] = path']
    /\ Goto(p, None, "waiting")
    /\ UNCHANGED overlap

\* Stop: o.stop <- rejoin, which the loop takes in its select.
Offer(p) ==
    /\ pc[p] = "stop"
    /\ Goto(p, "waiting", "replying")
    /\ UNCHANGED <<daemon, path, handle, overlap>>

\* Defect: there is no timeout around the first send.
OfferForEver(p) == FALSE

OfferTimesOut(p) ==
    /\ loop[p] \in {"waiting", "writing"}
    /\ D!StopReturns(p) /\ outcome'[p] = "stopErr"
    /\ UNCHANGED <<loop, path, handle, overlap>>

\* Defect: updateFileLoop does not return after it has sent to rejoin.
RejoinAndGoOn(p) ==
    /\ D!StopReturns(p) /\ outcome'[p] = "nil"
    /\ Goto(p, "replying", "waiting")
    /\ UNCHANGED <<path, handle, overlap>>

\* Stop receives from rejoin: from here on the loop runs its deferred calls.
Rejoin(p) ==
    /\ D!StopReturns(p) /\ outcome'[p] = "nil"
    /\ Goto(p, "replying", "removing")
    /\ UNCHANGED <<path, handle, overlap>>

\* Defect: rejoin has a buffer, so that the loop need not meet the receiver.
RejoinTooLate(p) ==
    /\ D!StopReturns(p) /\ outcome'[p] = "stopErr"
    /\ Goto(p, "replying", "removing")
    /\ UNCHANGED <<path, handle, overlap>>

\* Nobody is left to receive: the loop is stuck where it stands.
RejoinTimesOut(p) ==
    /\ loop[p] = "replying"
    /\ D!StopReturns(p) /\ outcome'[p] = "stopErr"
    /\ UNCHANGED <<loop, path, handle, overlap>>

\* When a process ends, its loop does so too, wherever it stands.
Ending(p) ==
    /\ loop'   = [loop EXCEPT ![p] = IF pc'[p] = "exited" THEN None ELSE @]
    /\ handle' = [handle EXCEPT ![p] = IF pc'[p] = "exited" THEN None ELSE @]
    /\ UNCHANGED <<path, overlap>>

Main(p) ==
    \/ Start(p) \/ Offer(p) \/ OfferTimesOut(p) \/ Rejoin(p) \/ RejoinTimesOut(p)
    \/ /\ \/ D!StartFails(p) \/ D!Notify(p) \/ D!Park(p) \/ D!Unsubscribe(p)
          \/ D!Return(p)
       /\ Ending(p)

-----------------------------------------------------------------------------
(* updateFileLoop.                                                         *)

Tick(p) ==
    /\ Goto(p, "waiting", "writing")
    /\ UNCHANGED <<daemon, path, handle, overlap>>

\* Defect: the loop returns when a write fails.
WriteOrReturn(p) ==
    /\ \E to \in {"waiting", "removing"} : Goto(p, "writing", to)
    /\ UNCHANGED <<daemon, path, handle, overlap>>

\* A failed write is logged.  One that hangs is one that is never done.
Write(p) ==
    /\ Goto(p, "writing", "waiting")
    /\ UNCHANGED <<daemon, path, handle, overlap>>

\* os.Remove goes by the name, whosever file has it now, and may fail.
Remove(p) ==
    /\ Goto(p, "removing", "closing")
    /\ path' \in {path, None}
    /\ UNCHANGED <<daemon, handle, overlap>>

Close(p) ==
    /\ Goto(p, "closing", "over")
    /\ handle' = [handle EXCEPT ![p] = None]
    /\ UNCHANGED <<daemon, path, overlap>>

Next ==
    \E p \in Procs :
        \/ Exec(p)
        \/ Main(p)
        \/ Tick(p) \/ Write(p) \/ Remove(p) \/ Close(p)
        \/ /\ \/ D!Dispatch(p)
              \/ \E sig \in D!Signals : D!Signal(p, sig)
              \/ D!Kill(p)
           /\ Ending(p)

\* The scheduler and the timers serve the main goroutine.  Nothing is assumed
\* of the loop: the disk it writes to may hang.
Fairness ==
    \A p \in Procs :
        WF_vars(Main(p)) /\ WF_vars(D!Dispatch(p) /\ Ending(p))

Spec == Init /\ [][Next]_vars /\ Fairness

-----------------------------------------------------------------------------
TypeOK ==
    /\ D!TypeOK
    /\ loop \in [Procs -> {None, "waiting", "writing", "replying", "removing",
                           "closing", "over"}]
    /\ path \in Procs \cup {None}
    /\ handle \in [Procs -> Procs \cup {None}]
    /\ overlap \in BOOLEAN
    /\ \A p \in Procs : loop[p] # None <=>
           D!Alive(p) /\ app[p] \in {"running", "stopping", "stopped"}

\* main.go: "When installed and running, the daemon writes to a file in the
\* operating system's temporary directory every few seconds."  While the
\* application runs its loop does, and the file it writes to has the name.
FileThere ==
    \A p \in Procs : (D!Alive(p) /\ app[p] = "running") =>
        loop[p] \in {"waiting", "writing"} /\ handle[p] = path

\* The same for as long as no two processes were alive at once, whatever the
\* ones before did not get round to remove.
FileThereIfAlone == ~overlap => FileThere

\* When Stop returns nil the loop has seen to it and writes no more, and
\* never does in what remains of the process.
QuietAfterStop ==
    \A p \in Procs : outcome[p] = "nil" =>
        loop[p] \in {"removing", "closing", "over", None}

\* The file goes away only by the hand of a process that was told to stop and
\* whose Stop returned nil.  A Stop that gave up leaves it where it is.
OnlyStoppedRemoves ==
    [][path # None /\ path' = None =>
          \E p \in Procs :
              told[p] /\ outcome[p] = "nil" /\ loop[p] = "removing"]_vars

\* The application does not get in the daemonizer's way: with its channels
\* and timeouts in place of "Stop returns", and even if its disk hangs, each
\* process still behaves, and ends, as module UnixDaemonizer has it.
ImplementsDaemonizer == D!Spec

=============================================================================
