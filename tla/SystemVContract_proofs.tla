----------------------- MODULE SystemVContract_proofs -----------------------
(***************************************************************************)
(* Proofs about the application a System V process runs, for any number of *)
(* processes and script runs: launcher and daemon alike honour the         *)
(* contract of the Application interface, and the deferred truncation of   *)
(* descriptor 3 spares the files of a daemon that a launcher started.      *)
(***************************************************************************)
EXTENDS SystemV_proofs

\* Where the goroutine stands tells how far the application is, and that the
\* process has yet to end.
PhaseOfStep ==
    \A p \in Procs :
        /\ pc[p] \in LaunchSteps \cup {"absent"} => app[p] = "idle"
        /\ pc[p] = "start" => app[p] = "starting"
        /\ pc[p] \in {"subscribe"} \cup D!Subscribed => app[p] = "running"
        /\ pc[p] = "stop" => app[p] = "stopping"
        /\ pc[p] = "defers" => app[p] \in {"failed", "stopped"}
        /\ pc[p] \notin {"defers", "exited"} => outcome[p] = "none"
        /\ pc[p] = "defers" => outcome[p] \in {"nil", "startErr", "stopErr"}

\* Descriptor 3 of a process that a launcher forked is the PID file from the
\* first, so that the application never gets it.
ForkedHoldPidFile ==
    \A p \in Procs :
        /\ forker[p] \in Procs => fd3[p] = "pid"
        /\ appFile[p] = "truncated" => fd3[p] = "app" /\ pc[p] = "exited"

-----------------------------------------------------------------------------
\* A signal leaves the process where it is, or ends it.
LEMMA SignalEndsOrNot ==
    ASSUME TypeOK, NEW q \in Procs, NEW sig, D!Signal(q, sig)
    PROVE  /\ pc[q] \notin {"absent", "exited"} /\ app' = app
           /\ \/ pc' = pc /\ outcome' = outcome
              \/ /\ pc' = [pc EXCEPT ![q] = "exited"]
                 /\ \E how \in {"signalled", "hangup"} :
                        outcome' = [outcome EXCEPT ![q] = how]
  BY DEF D!Signal, D!Catches, D!Alive

\* The same for a script that signals the process whose PID it read.
LEMMA SignalToEndsOrNot ==
    ASSUME TypeOK, NEW q \in Procs, NEW sig, SignalTo(q, sig)
    PROVE  /\ app' = app
           /\ \/ pc' = pc /\ outcome' = outcome
              \/ /\ pc[q] \notin {"absent", "exited"}
                 /\ pc' = [pc EXCEPT ![q] = "exited"]
                 /\ \E how \in {"signalled", "hangup"} :
                        outcome' = [outcome EXCEPT ![q] = how]
  <1>1. CASE pc[q] = "exited"
    BY <1>1 DEF SignalTo, dvars
  <1>2. CASE pc[q] # "exited"
    <2>1. D!Signal(q, sig)
      BY <1>2 DEF SignalTo
    <2> QED
      BY <2>1, SignalEndsOrNot
  <1> QED
    BY <1>1, <1>2

\* Every step keeps application and outcome in step with the goroutine.
LEMMA PhaseStep == TypeOK /\ PhaseOfStep /\ [Next]_vars => PhaseOfStep'
  <1> SUFFICES ASSUME TypeOK, PhaseOfStep, [Next]_vars PROVE PhaseOfStep'
    OBVIOUS
  <1> USE DEF TypeOK, ProcTypeOK, PhaseOfStep, LaunchSteps, dvars, D!Goto,
              D!BodySteps, D!Subscribed
  <1>1. ASSUME NEW p \in Procs, Getppid(p) \/ FindScript(p) \/ OpenPidFile(p)
        PROVE  PhaseOfStep'
    BY <1>1 DEF Getppid, FindScript, OpenPidFile
  <1>2. ASSUME NEW p \in Procs, PassAncestor(p) \/ NextAncestor(p)
        PROVE  PhaseOfStep'
    BY <1>2 DEF PassAncestor, NextAncestor, BeginDaemon
  <1>3. ASSUME NEW p \in Procs, LoseAncestor(p) \/ LaunchFails(p)
        PROVE  PhaseOfStep'
    BY <1>3 DEF LoseAncestor, LaunchFails, Refuse
  <1>4. ASSUME NEW p \in Procs, Fork(p) PROVE PhaseOfStep'
    BY <1>4 DEF Fork, Execute
  <1>5. ASSUME NEW p \in Procs, WritePid(p) PROVE PhaseOfStep'
    BY <1>5 DEF WritePid
  <1>6. ASSUME NEW p \in Procs, StartOk(p) PROVE PhaseOfStep'
    BY <1>6 DEF StartOk, D!StartOk
  <1>7. ASSUME NEW p \in Procs, BodyStep(p) PROVE PhaseOfStep'
    BY <1>7 DEF BodyStep, D!StartFails, D!Notify, D!Park, D!Unsubscribe,
                D!StopReturns
  <1>8. ASSUME NEW p \in Procs, Dispatch(p) PROVE PhaseOfStep'
    BY <1>8 DEF Dispatch, D!Dispatch
  <1>9. ASSUME NEW p \in Procs, Return(p) PROVE PhaseOfStep'
    BY <1>9 DEF Return, D!Return
  <1>10. ASSUME NEW p \in Procs, Kill(p) PROVE PhaseOfStep'
    BY <1>10 DEF Kill, D!Kill
  <1>11. ASSUME NEW p \in Procs, Foreground(p) PROVE PhaseOfStep'
    BY <1>11 DEF Foreground, Execute
  <1>12. ASSUME NEW p \in Procs, Interrupt(p) PROVE PhaseOfStep'
    BY <1>12, SignalEndsOrNot DEF Interrupt
  <1>13. ASSUME NEW s \in Runs,
                \/ Check(s) \/ NobodyToTerm(s) \/ NoExecutable(s) \/ Reap(s)
                \/ \E o \in ScriptOps : Invoke(s, o)
         PROVE  PhaseOfStep'
    BY <1>13 DEF Check, NobodyToTerm, NoExecutable, Reap, Invoke
  <1>14. ASSUME NEW s \in Runs, TermPid(s) PROVE PhaseOfStep'
    BY <1>14, SignalToEndsOrNot DEF TermPid, PidSeen
  <1>15. ASSUME NEW s \in Runs, KillWait(s) PROVE PhaseOfStep'
    BY <1>15 DEF KillWait, D!Kill
  <1>16. ASSUME NEW s \in Runs, Hup(s) PROVE PhaseOfStep'
    BY <1>16, SignalToEndsOrNot DEF Hup, PidSeen
  <1>17. ASSUME NEW s \in Runs, Spawn(s) PROVE PhaseOfStep'
    BY <1>17 DEF Spawn, Execute
  <1>18. CASE UNCHANGED vars
    BY <1>18 DEF vars
  <1> QED
    BY <1>1, <1>2, <1>3, <1>4, <1>5, <1>6, <1>7, <1>8, <1>9, <1>10, <1>11,
       <1>12, <1>13, <1>14, <1>15, <1>16, <1>17, <1>18
    DEF Next, Main, Launch, RunScript

\* The phases are in order in every behaviour.
THEOREM PhaseInvariant == SafetySpec => []PhaseOfStep
  <1>1. Init => PhaseOfStep
    BY DEF Init, D!Init, PhaseOfStep, LaunchSteps, D!Subscribed
  <1> QED
    BY <1>1, PhaseStep, TypeCorrect, PTL DEF SafetySpec
-----------------------------------------------------------------------------
\* SystemV.tla, ImplementsContract: whatever a process finds among its
\* ancestors, and whatever the script does to it, Start and Stop are called in
\* order and at most once, and RunUntilExit does not return in between.
THEOREM Implements == SafetySpec => ImplementsContract
  <1> DEFINE fate == [p \in Procs |-> D!Fate(p)]
  <1>1. Init => D!Contract!Init
    BY DEF Init, D!Init, D!Contract!Init, D!Fate
  <1>2. TypeOK /\ PhaseOfStep /\ [Next]_vars =>
            [D!Contract!Next]_(D!Contract!vars)
    <2> SUFFICES ASSUME TypeOK, PhaseOfStep, [Next]_vars
                 PROVE  D!Contract!Next \/ UNCHANGED <<app, fate>>
      BY DEF D!Contract!vars
    <2> USE DEF TypeOK, ProcTypeOK, PhaseOfStep, LaunchSteps, dvars, D!Goto,
                D!BodySteps, D!Subscribed, D!Fate
    <2>1. ASSUME NEW p \in Procs,
                 \/ Getppid(p) \/ FindScript(p) \/ OpenPidFile(p) \/ Fork(p)
                 \/ Dispatch(p)
          PROVE  UNCHANGED <<app, fate>>
      BY <2>1 DEF Getppid, FindScript, OpenPidFile, Fork, Execute, Dispatch,
                  D!Dispatch
    <2>2. ASSUME NEW p \in Procs, PassAncestor(p) \/ NextAncestor(p)
          PROVE  D!Contract!CallStart(p) \/ UNCHANGED <<app, fate>>
      BY <2>2 DEF PassAncestor, NextAncestor, BeginDaemon,
                  D!Contract!CallStart, D!Contract!Call
    <2>3. ASSUME NEW p \in Procs,
                 LoseAncestor(p) \/ LaunchFails(p) \/ WritePid(p)
          PROVE  D!Contract!RunReturns(p)
      <3>1. /\ pc[p] \in LaunchSteps /\ pc' = [pc EXCEPT ![p] = "exited"]
            /\ outcome'[p] \in {"launched", "walkErr", "launchErr"}
            /\ \A q \in Procs \ {p} : outcome'[q] = outcome[q]
            /\ app' = app
        BY <2>3 DEF LoseAncestor, LaunchFails, Refuse, WritePid
      <3> QED
        BY <3>1 DEF D!Contract!RunReturns
    <2>4. ASSUME NEW p \in Procs, StartOk(p)
          PROVE  D!Contract!StartNil(p)
      BY <2>4 DEF StartOk, D!StartOk, D!Contract!StartNil, D!Contract!Call
    <2>5. ASSUME NEW p \in Procs, BodyStep(p)
          PROVE  \/ D!Contract!StartErr(p)
                 \/ D!Contract!CallStop(p) \/ D!Contract!StopDone(p)
                 \/ UNCHANGED <<app, fate>>
      <3>1. CASE D!StartFails(p)
        BY <3>1 DEF D!StartFails, D!Contract!StartErr, D!Contract!Call
      <3>2. CASE D!Notify(p) \/ D!Park(p)
        BY <3>2 DEF D!Notify, D!Park
      <3>3. CASE D!Unsubscribe(p)
        BY <3>3 DEF D!Unsubscribe, D!Contract!CallStop, D!Contract!Call
      <3>4. CASE D!StopReturns(p)
        BY <3>4 DEF D!StopReturns, D!Contract!StopDone, D!Contract!Call
      <3> QED
        BY <2>5, <3>1, <3>2, <3>3, <3>4 DEF BodyStep
    <2>6. ASSUME NEW p \in Procs, Return(p)
          PROVE  D!Contract!RunReturns(p)
      BY <2>6 DEF Return, D!Return, D!Contract!RunReturns
    <2>7. ASSUME NEW p \in Procs, Foreground(p)
          PROVE  D!Contract!CallStart(p) \/ UNCHANGED <<app, fate>>
      BY <2>7 DEF Foreground, Execute, D!Contract!CallStart, D!Contract!Call
    <2>8. ASSUME NEW p \in Procs, pc[p] \notin {"absent", "exited"},
                 pc' = [pc EXCEPT ![p] = "exited"], app' = app,
                 NEW how \in {"signalled", "hangup", "killed"},
                 outcome' = [outcome EXCEPT ![p] = how]
          PROVE  D!Contract!Killed(p)
      BY <2>8 DEF D!Contract!Killed
    <2>9. ASSUME NEW p \in Procs, Kill(p) \/ Interrupt(p)
          PROVE  D!Contract!Killed(p) \/ UNCHANGED <<app, fate>>
      BY <2>8, <2>9, SignalEndsOrNot DEF Kill, D!Kill, D!Alive, Interrupt
    <2>10. ASSUME NEW s \in Runs, TermPid(s) \/ Hup(s)
           PROVE  \/ \E q \in Procs : D!Contract!Killed(q)
                  \/ UNCHANGED <<app, fate>>
      BY <2>8, <2>10, SignalToEndsOrNot DEF TermPid, Hup, PidSeen
    <2>11. ASSUME NEW s \in Runs, KillWait(s)
           PROVE  \/ \E q \in Procs : D!Contract!Killed(q)
                  \/ UNCHANGED <<app, fate>>
      BY <2>8, <2>11 DEF KillWait, D!Kill, D!Alive
    <2>12. ASSUME NEW s \in Runs,
                  \/ Check(s) \/ NobodyToTerm(s) \/ NoExecutable(s)
                  \/ Reap(s) \/ Spawn(s) \/ \E o \in ScriptOps : Invoke(s, o)
           PROVE  UNCHANGED <<app, fate>>
      BY <2>12 DEF Check, NobodyToTerm, NoExecutable, Reap, Invoke, Spawn,
                   Execute
    <2>13. CASE UNCHANGED vars
      BY <2>13 DEF vars
    <2> QED
      BY <2>1, <2>2, <2>3, <2>4, <2>5, <2>6, <2>7, <2>9, <2>10, <2>11, <2>12,
         <2>13
      DEF Next, Main, Launch, RunScript, D!Contract!Next
  <1> QED
    BY <1>1, <1>2, TypeCorrect, PhaseInvariant, PTL
    DEF SafetySpec, ImplementsContract, D!ImplementsContract, D!Contract!Spec
-----------------------------------------------------------------------------
\* The steps that execute nothing and leave descriptors alone.
LEMMA DescriptorsKept ==
    ASSUME ForkedHoldPidFile, UNCHANGED <<forker, fd3, appFile>>,
           \A p \in Procs : pc[p] = "exited" => pc'[p] = "exited"
    PROVE  ForkedHoldPidFile'
  BY DEF ForkedHoldPidFile

\* Every step keeps descriptor 3 of a forked process on the PID file.
LEMMA DescriptorStep ==
    TypeOK /\ ForkedHoldPidFile /\ [Next]_vars => ForkedHoldPidFile'
  <1> SUFFICES ASSUME TypeOK, ForkedHoldPidFile, [Next]_vars
               PROVE  ForkedHoldPidFile'
    OBVIOUS
  <1> USE NamesAssumption
      DEF TypeOK, ProcTypeOK, FileTypeOK, dvars, tree, files, D!Goto
  <1>1. ASSUME NEW p \in Procs,
               \/ Getppid(p) \/ FindScript(p) \/ PassAncestor(p)
               \/ NextAncestor(p) \/ LoseAncestor(p) \/ OpenPidFile(p)
               \/ WritePid(p) \/ LaunchFails(p)
        PROVE  ForkedHoldPidFile'
    BY <1>1, DescriptorsKept
    DEF Getppid, FindScript, PassAncestor, NextAncestor, BeginDaemon,
        LoseAncestor, OpenPidFile, WritePid, LaunchFails, Refuse
  <1>2. ASSUME NEW p \in Procs, Fork(p) PROVE ForkedHoldPidFile'
    BY <1>2 DEF Fork, Execute, ForkedHoldPidFile
  <1>3. ASSUME NEW p \in Procs, StartOk(p) PROVE ForkedHoldPidFile'
    BY <1>3 DEF StartOk, D!StartOk, ForkedHoldPidFile
  <1>4. ASSUME NEW p \in Procs, BodyStep(p) \/ Dispatch(p)
        PROVE  ForkedHoldPidFile'
    BY <1>4, DescriptorsKept
    DEF BodyStep, D!StartFails, D!Notify, D!Park, D!Unsubscribe,
        D!StopReturns, Dispatch, D!Dispatch
  <1>5. ASSUME NEW p \in Procs, Return(p) PROVE ForkedHoldPidFile'
    BY <1>5 DEF Return, D!Return, ForkedHoldPidFile
  <1>6. ASSUME NEW p \in Procs, Kill(p) \/ Interrupt(p)
        PROVE  ForkedHoldPidFile'
    BY <1>6, DescriptorsKept, SignalEndsOrNot DEF Kill, D!Kill, Interrupt
  <1>7. ASSUME NEW p \in Procs, Foreground(p) PROVE ForkedHoldPidFile'
    BY <1>7 DEF Foreground, Execute, ForkedHoldPidFile
  <1>8. ASSUME NEW s \in Runs, TermPid(s) \/ Hup(s)
        PROVE  ForkedHoldPidFile'
    BY <1>8, DescriptorsKept, SignalToEndsOrNot DEF TermPid, Hup, PidSeen
  <1>9. ASSUME NEW s \in Runs,
               \/ Check(s) \/ NobodyToTerm(s) \/ KillWait(s) \/ Reap(s)
               \/ NoExecutable(s) \/ \E o \in ScriptOps : Invoke(s, o)
        PROVE  ForkedHoldPidFile'
    BY <1>9, DescriptorsKept
    DEF Check, NobodyToTerm, KillWait, D!Kill, RemovePidFile, NoExecutable,
        Reap, Invoke
  <1>10. ASSUME NEW s \in Runs, Spawn(s) PROVE ForkedHoldPidFile'
    BY <1>10 DEF Spawn, Execute, ForkedHoldPidFile
  <1>11. CASE UNCHANGED vars
    BY <1>11, DescriptorsKept DEF vars
  <1> QED
    BY <1>1, <1>2, <1>3, <1>4, <1>5, <1>6, <1>7, <1>8, <1>9, <1>10, <1>11
    DEF Next, Main, Launch, RunScript

\* Descriptors are in order in every behaviour.
THEOREM DescriptorInvariant == SafetySpec => []ForkedHoldPidFile
  <1>1. Init => ForkedHoldPidFile
    BY NamesAssumption DEF Init, ForkedHoldPidFile
  <1> QED
    BY <1>1, DescriptorStep, TypeCorrect, PTL DEF SafetySpec

\* SystemV.tla, LaunchedTruncatesPidFile: only a process that no launcher
\* forked, and that has left RunUntilExit, truncates a file of its own.
THEOREM LaunchedTruncates == SafetySpec => []LaunchedTruncatesPidFile
  <1>1. ForkedHoldPidFile => LaunchedTruncatesPidFile
    BY DEF ForkedHoldPidFile, LaunchedTruncatesPidFile
  <1> QED
    BY <1>1, DescriptorInvariant, PTL
=============================================================================
