------------------------ MODULE WindowsService_proofs ------------------------
(***************************************************************************)
(* Proofs about the Windows service, for any number of processes: it       *)
(* implements the contract of the Application interface, Windows never     *)
(* shows it as stopped while an application is busy, the state Windows     *)
(* shows never goes back, and the exit code is true to what happened.      *)
(***************************************************************************)
EXTENDS WindowsService, TLAPS

\* The process inside RunUntilExit is the one Windows associates with the
\* service, and Windows shows where it stands.
Shown ==
    \A p \in Procs :
        /\ pc[p] \in {"boot", "execute", "start", "started", "return 1"} =>
               current = p /\ scm = "StartPending"
        /\ pc[p] \in {"receive", "answer", "stopping"} =>
               current = p /\ scm = "Running" /\ reported[p] = "Running"
        /\ pc[p] \in {"stop", "return 0", "return 2"} =>
               current = p /\ scm = "StopPending"

\* Windows associates with the service a process that it has started, and once
\* that has left, the service is stopped until it is started.
StoppedByEnd ==
    \A p \in Procs : current = p =>
        /\ pc[p] # "absent"
        /\ pc[p] \in {"ended", "exited"} => scm = "Stopped"

NobodyStopped == current = None => scm = "Stopped"

\* Where Execute stands tells how far the application is.
PhaseOfStep ==
    \A p \in Procs :
        /\ pc[p] \in {"absent", "boot", "execute"} => app[p] = "idle"
        /\ pc[p] = "start" => app[p] = "starting"
        /\ pc[p] \in {"started", "receive", "answer", "stopping"} =>
               app[p] = "running"
        /\ pc[p] = "stop" => app[p] = "stopping"
        /\ pc[p] = "return 1" => app[p] = "failed"
        /\ pc[p] \in {"return 0", "return 2"} => app[p] = "stopped"
        /\ pc[p] = "ended" => app[p] \in {"failed", "stopped"}

Agreed == Shown /\ StoppedByEnd /\ NobodyStopped

Inv == TypeOK /\ Agreed /\ PhaseOfStep

-----------------------------------------------------------------------------
\* Initially no process is there and the service is stopped.
LEMMA InitInv == Init => Inv
  BY NoneAssumption
  DEF Init, Inv, Agreed, TypeOK, Shown, StoppedByEnd, NobodyStopped, PhaseOfStep,
      States

\* Every step from a typed state leads to a typed state.
LEMMA TypeStep == TypeOK /\ [Next]_vars => TypeOK'
  <1> SUFFICES ASSUME TypeOK, [Next]_vars PROVE TypeOK'
    OBVIOUS
  <1> USE DEF TypeOK, States, Goto, Report, loop, smgr
  <1>1. ASSUME NEW p \in Procs, ReportStartPending(p) PROVE TypeOK'
    BY <1>1 DEF ReportStartPending
  <1>2. ASSUME NEW p \in Procs, StartNil(p) PROVE TypeOK'
    BY <1>2 DEF StartNil
  <1>3. ASSUME NEW p \in Procs, StartErr(p) PROVE TypeOK'
    BY <1>3 DEF StartErr
  <1>4. ASSUME NEW p \in Procs, ReportRunning(p) PROVE TypeOK'
    BY <1>4 DEF ReportRunning
  <1>5. ASSUME NEW p \in Procs, ReceiveControl(p) PROVE TypeOK'
    BY <1>5 DEF ReceiveControl
  <1>6. ASSUME NEW p \in Procs, Answer(p) PROVE TypeOK'
    BY <1>6 DEF Answer
  <1>7. ASSUME NEW p \in Procs, ReportStopPending(p) PROVE TypeOK'
    BY <1>7 DEF ReportStopPending
  <1>8. ASSUME NEW p \in Procs, StopNil(p) PROVE TypeOK'
    BY <1>8 DEF StopNil
  <1>9. ASSUME NEW p \in Procs, StopErr(p) PROVE TypeOK'
    BY <1>9 DEF StopErr
  <1>10. ASSUME NEW p \in Procs, RunFails(p) PROVE TypeOK'
    BY <1>10 DEF RunFails
  <1>11. ASSUME NEW p \in Procs, CallExecute(p) PROVE TypeOK'
    BY <1>11 DEF CallExecute
  <1>12. ASSUME NEW p \in Procs, TakeControl(p) PROVE TypeOK'
    BY <1>12 DEF TakeControl
  <1>13. ASSUME NEW p \in Procs, ExecuteReturns(p) PROVE TypeOK'
    BY <1>13 DEF ExecuteReturns, CodeOf
  <1>14. ASSUME NEW p \in Procs, RunReturns(p) PROVE TypeOK'
    BY <1>14 DEF RunReturns
  <1>15. ASSUME NEW p \in Procs, StartService(p) PROVE TypeOK'
    BY <1>15 DEF StartService
  <1>16. ASSUME NEW p \in Procs, Kill(p) PROVE TypeOK'
    BY <1>16 DEF Kill
  <1>17. ASSUME NEW p \in Procs, NEW control \in Controls,
                SendControl(p, control)
         PROVE  TypeOK'
    BY <1>17 DEF SendControl
  <1>18. CASE UNCHANGED vars
    BY <1>18 DEF vars
  <1> QED
    BY <1>1, <1>2, <1>3, <1>4, <1>5, <1>6, <1>7, <1>8, <1>9, <1>10, <1>11,
       <1>12, <1>13, <1>14, <1>15, <1>16, <1>17, <1>18
    DEF Next, Execute, Run

\* Every step keeps the application where Execute stands.
LEMMA PhaseStep == TypeOK /\ PhaseOfStep /\ [Next]_vars => PhaseOfStep'
  <1> SUFFICES ASSUME TypeOK, PhaseOfStep, [Next]_vars PROVE PhaseOfStep'
    OBVIOUS
  <1> USE DEF TypeOK, PhaseOfStep, Goto
  <1>1. ASSUME NEW p \in Procs, ReportStartPending(p) PROVE PhaseOfStep'
    BY <1>1 DEF ReportStartPending
  <1>2. ASSUME NEW p \in Procs, StartNil(p) PROVE PhaseOfStep'
    BY <1>2 DEF StartNil
  <1>3. ASSUME NEW p \in Procs, StartErr(p) PROVE PhaseOfStep'
    BY <1>3 DEF StartErr
  <1>4. ASSUME NEW p \in Procs, ReportRunning(p) PROVE PhaseOfStep'
    BY <1>4 DEF ReportRunning
  <1>5. ASSUME NEW p \in Procs, ReceiveControl(p) PROVE PhaseOfStep'
    BY <1>5 DEF ReceiveControl
  <1>6. ASSUME NEW p \in Procs, Answer(p) PROVE PhaseOfStep'
    BY <1>6 DEF Answer
  <1>7. ASSUME NEW p \in Procs, ReportStopPending(p) PROVE PhaseOfStep'
    BY <1>7 DEF ReportStopPending
  <1>8. ASSUME NEW p \in Procs, StopNil(p) PROVE PhaseOfStep'
    BY <1>8 DEF StopNil
  <1>9. ASSUME NEW p \in Procs, StopErr(p) PROVE PhaseOfStep'
    BY <1>9 DEF StopErr
  <1>10. ASSUME NEW p \in Procs, RunFails(p) PROVE PhaseOfStep'
    BY <1>10 DEF RunFails
  <1>11. ASSUME NEW p \in Procs, CallExecute(p) PROVE PhaseOfStep'
    BY <1>11 DEF CallExecute
  <1>12. ASSUME NEW p \in Procs, TakeControl(p) PROVE PhaseOfStep'
    BY <1>12 DEF TakeControl
  <1>13. ASSUME NEW p \in Procs, ExecuteReturns(p) PROVE PhaseOfStep'
    BY <1>13 DEF ExecuteReturns
  <1>14. ASSUME NEW p \in Procs, RunReturns(p) PROVE PhaseOfStep'
    BY <1>14 DEF RunReturns
  <1>15. ASSUME NEW p \in Procs, StartService(p) PROVE PhaseOfStep'
    BY <1>15 DEF StartService
  <1>16. ASSUME NEW p \in Procs, Kill(p) PROVE PhaseOfStep'
    BY <1>16 DEF Kill
  <1>17. ASSUME NEW p \in Procs, NEW control \in Controls,
                SendControl(p, control)
         PROVE  PhaseOfStep'
    BY <1>17 DEF SendControl
  <1>18. CASE UNCHANGED vars
    BY <1>18 DEF vars
  <1> QED
    BY <1>1, <1>2, <1>3, <1>4, <1>5, <1>6, <1>7, <1>8, <1>9, <1>10, <1>11,
       <1>12, <1>13, <1>14, <1>15, <1>16, <1>17, <1>18
    DEF Next, Execute, Run

\* Every step keeps process and SCM in agreement.
LEMMA ShownStep == TypeOK /\ Agreed /\ [Next]_vars => Agreed'
  <1> SUFFICES ASSUME TypeOK, Agreed, [Next]_vars PROVE Agreed'
    OBVIOUS
  <1> USE NoneAssumption
      DEF TypeOK, Agreed, Shown, StoppedByEnd, NobodyStopped, Goto, Report,
          loop, smgr
  <1>1. ASSUME NEW p \in Procs, ReportStartPending(p) PROVE Agreed'
    BY <1>1 DEF ReportStartPending
  <1>2. ASSUME NEW p \in Procs, StartNil(p) PROVE Agreed'
    BY <1>2 DEF StartNil
  <1>3. ASSUME NEW p \in Procs, StartErr(p) PROVE Agreed'
    BY <1>3 DEF StartErr
  <1>4. ASSUME NEW p \in Procs, ReportRunning(p) PROVE Agreed'
    BY <1>4 DEF ReportRunning
  <1>5. ASSUME NEW p \in Procs, ReceiveControl(p) PROVE Agreed'
    BY <1>5 DEF ReceiveControl
  <1>6. ASSUME NEW p \in Procs, Answer(p) PROVE Agreed'
    BY <1>6 DEF Answer
  <1>7. ASSUME NEW p \in Procs, ReportStopPending(p) PROVE Agreed'
    BY <1>7 DEF ReportStopPending
  <1>8. ASSUME NEW p \in Procs, StopNil(p) PROVE Agreed'
    BY <1>8 DEF StopNil
  <1>9. ASSUME NEW p \in Procs, StopErr(p) PROVE Agreed'
    BY <1>9 DEF StopErr
  <1>10. ASSUME NEW p \in Procs, RunFails(p) PROVE Agreed'
    BY <1>10 DEF RunFails
  <1>11. ASSUME NEW p \in Procs, CallExecute(p) PROVE Agreed'
    BY <1>11 DEF CallExecute
  <1>12. ASSUME NEW p \in Procs, TakeControl(p) PROVE Agreed'
    BY <1>12 DEF TakeControl
  <1>13. ASSUME NEW p \in Procs, ExecuteReturns(p) PROVE Agreed'
    BY <1>13 DEF ExecuteReturns
  <1>14. ASSUME NEW p \in Procs, RunReturns(p) PROVE Agreed'
    BY <1>14 DEF RunReturns
  <1>15. ASSUME NEW p \in Procs, StartService(p) PROVE Agreed'
    BY <1>15 DEF StartService
  <1>16. ASSUME NEW p \in Procs, Kill(p) PROVE Agreed'
    BY <1>16 DEF Kill
  <1>17. ASSUME NEW p \in Procs, NEW control \in Controls,
                SendControl(p, control)
         PROVE  Agreed'
    BY <1>17 DEF SendControl
  <1>18. CASE UNCHANGED vars
    BY <1>18 DEF vars
  <1> QED
    BY <1>1, <1>2, <1>3, <1>4, <1>5, <1>6, <1>7, <1>8, <1>9, <1>10, <1>11,
       <1>12, <1>13, <1>14, <1>15, <1>16, <1>17, <1>18
    DEF Next, Execute, Run

\* Every step keeps the strengthened invariant.
LEMMA StepInv == Inv /\ [Next]_vars => Inv'
  BY TypeStep, PhaseStep, ShownStep DEF Inv

\* The strengthened invariant holds in every behaviour.
THEOREM Invariance == SafetySpec => []Inv
  BY InitInv, StepInv, PTL DEF SafetySpec

\* WindowsService.tla, StoppedMeansQuiet: while Windows shows the service as
\* stopped no live process starts, runs or stops its application.
THEOREM StoppedIsQuiet == SafetySpec => []StoppedMeansQuiet
  <1>1. Inv => StoppedMeansQuiet
    BY DEF Inv, Agreed, TypeOK, Shown, PhaseOfStep, StoppedMeansQuiet, Busy
  <1> QED
    BY <1>1, Invariance, PTL

\* WindowsService.tla, TypeOK: every variable keeps its type.
THEOREM TypeCorrect == SafetySpec => []TypeOK
  <1>1. Inv => TypeOK
    BY DEF Inv
  <1> QED
    BY <1>1, Invariance, PTL

-----------------------------------------------------------------------------
\* WindowsService.tla, ImplementsContract: Start and Stop are called in order
\* and at most once, and RunUntilExit does not return in between.
THEOREM Implements == SafetySpec => ImplementsContract
  <1> DEFINE fate == [p \in Procs |-> Fate(p)]
  <1>1. Init => Contract!Init
    BY DEF Init, Contract!Init, Fate
  <1>2. Inv /\ [Next]_vars => [Contract!Next]_(Contract!vars)
    <2> SUFFICES ASSUME Inv, [Next]_vars
                 PROVE  Contract!Next \/ UNCHANGED <<app, fate>>
      BY DEF Contract!vars
    <2> USE DEF Inv, TypeOK, PhaseOfStep, Goto, Fate
    <2>1. ASSUME NEW p \in Procs, ReportStartPending(p)
          PROVE  Contract!CallStart(p)
      BY <2>1 DEF ReportStartPending, Contract!CallStart, Contract!Call
    <2>2. ASSUME NEW p \in Procs, StartNil(p)
          PROVE  Contract!StartNil(p)
      BY <2>2 DEF StartNil, Contract!StartNil, Contract!Call
    <2>3. ASSUME NEW p \in Procs, StartErr(p)
          PROVE  Contract!StartErr(p)
      BY <2>3 DEF StartErr, Contract!StartErr, Contract!Call
    <2>4. ASSUME NEW p \in Procs, ReportStopPending(p)
          PROVE  Contract!CallStop(p)
      BY <2>4 DEF ReportStopPending, Contract!CallStop, Contract!Call
    <2>5. ASSUME NEW p \in Procs, StopNil(p) \/ StopErr(p)
          PROVE  Contract!StopDone(p)
      <3>1. CASE StopNil(p)
        BY <3>1 DEF StopNil, Contract!StopDone, Contract!Call
      <3>2. CASE StopErr(p)
        BY <3>2 DEF StopErr, Contract!StopDone, Contract!Call
      <3> QED
        BY <2>5, <3>1, <3>2
    <2>6. ASSUME NEW p \in Procs, RunFails(p) \/ RunReturns(p)
          PROVE  Contract!RunReturns(p)
      <3>1. /\ pc[p] \in {"boot", "ended"} /\ app' = app
            /\ pc' = [pc EXCEPT ![p] = "exited"]
            /\ outcome'[p] # "killed"
            /\ \A q \in Procs \ {p} : outcome'[q] = outcome[q]
        BY <2>6 DEF RunFails, RunReturns
      <3>2. \A q \in Procs :
               Fate(q)' = IF q = p THEN "returned" ELSE Fate(q)
        BY <3>1
      <3>3. fate[p] = "live" /\ fate' = [fate EXCEPT ![p] = "returned"]
        BY <3>1, <3>2
      <3>4. app[p] \in {"idle", "failed", "stopped"}
        BY <3>1
      <3> QED
        BY <3>1, <3>3, <3>4 DEF Contract!RunReturns
    <2>7. ASSUME NEW p \in Procs, Kill(p)
          PROVE  Contract!Killed(p)
      <3>1. fate[p] = "live" /\ fate' = [fate EXCEPT ![p] = "killed"]
        BY <2>7 DEF Kill
      <3> QED
        BY <2>7, <3>1 DEF Kill, Contract!Killed
    <2>8. ASSUME NEW p \in Procs,
                 \/ ReportRunning(p) \/ ReceiveControl(p) \/ Answer(p)
                 \/ CallExecute(p) \/ TakeControl(p) \/ ExecuteReturns(p)
                 \/ StartService(p)
          PROVE  UNCHANGED <<app, fate>>
      <3>1. /\ app' = app /\ outcome' = outcome
            /\ \A q \in Procs : pc'[q] = "exited" <=> pc[q] = "exited"
        <4>1. CASE ReceiveControl(p)
          BY <4>1 DEF ReceiveControl
        <4>2. CASE ~ReceiveControl(p)
          BY <2>8, <4>2 DEF ReportRunning, Answer, CallExecute, TakeControl,
                            ExecuteReturns, StartService
        <4> QED
          BY <4>1, <4>2
      <3>2. \A q \in Procs : Fate(q)' = Fate(q)
        BY <3>1
      <3> QED
        BY <3>1, <3>2
    <2>9. ASSUME NEW p \in Procs, NEW control \in Controls,
                 SendControl(p, control)
          PROVE  UNCHANGED <<app, fate>>
      BY <2>9 DEF SendControl
    <2>10. CASE UNCHANGED vars
      BY <2>10 DEF vars
    <2> QED
      BY <2>1, <2>2, <2>3, <2>4, <2>5, <2>6, <2>7, <2>8, <2>9, <2>10
      DEF Next, Execute, Run, Contract!Next
  <1> QED
    BY <1>1, <1>2, Invariance, PTL
    DEF SafetySpec, ImplementsContract, Contract!Spec

-----------------------------------------------------------------------------
\* The error a process remembers is the one its Execute is about to tell, and
\* then the one the exit code of the current process stands for.
CodeOfErr(err) ==
    CASE err = "startErr" -> 1 [] err = "stopErr" -> 2 [] OTHER -> 0

CodeTold ==
    \A p \in Procs :
        /\ pc[p] \in {"absent", "boot", "execute", "start", "started",
                      "receive", "answer", "stopping", "stop", "return 0"} =>
               lastErr[p] = None
        /\ pc[p] = "return 1" => lastErr[p] = "startErr"
        /\ pc[p] = "return 2" => lastErr[p] = "stopErr"
        /\ pc[p] # "exited" => outcome[p] = None
        /\ (pc[p] = "ended" /\ current = p) => exitCode = CodeOfErr(lastErr[p])
        /\ (outcome[p] \in {"nil", "startErr", "stopErr"} /\ current = p) =>
               exitCode = CodeOfErr(outcome[p])

\* Every step keeps error and exit code in agreement.
LEMMA CodeStep == TypeOK /\ CodeTold /\ [Next]_vars => CodeTold'
  <1> SUFFICES ASSUME TypeOK, CodeTold, [Next]_vars PROVE CodeTold'
    OBVIOUS
  <1> USE DEF TypeOK, CodeTold, CodeOfErr, None, Goto, Report, loop, smgr
  <1>1. ASSUME NEW p \in Procs, ReportStartPending(p) PROVE CodeTold'
    BY <1>1 DEF ReportStartPending
  <1>2. ASSUME NEW p \in Procs, StartNil(p) PROVE CodeTold'
    BY <1>2 DEF StartNil
  <1>3. ASSUME NEW p \in Procs, StartErr(p) PROVE CodeTold'
    BY <1>3 DEF StartErr
  <1>4. ASSUME NEW p \in Procs, ReportRunning(p) PROVE CodeTold'
    BY <1>4 DEF ReportRunning
  <1>5. ASSUME NEW p \in Procs, ReceiveControl(p) PROVE CodeTold'
    BY <1>5 DEF ReceiveControl
  <1>6. ASSUME NEW p \in Procs, Answer(p) PROVE CodeTold'
    BY <1>6 DEF Answer
  <1>7. ASSUME NEW p \in Procs, ReportStopPending(p) PROVE CodeTold'
    BY <1>7 DEF ReportStopPending
  <1>8. ASSUME NEW p \in Procs, StopNil(p) PROVE CodeTold'
    BY <1>8 DEF StopNil
  <1>9. ASSUME NEW p \in Procs, StopErr(p) PROVE CodeTold'
    BY <1>9 DEF StopErr
  <1>10. ASSUME NEW p \in Procs, RunFails(p) PROVE CodeTold'
    BY <1>10 DEF RunFails
  <1>11. ASSUME NEW p \in Procs, CallExecute(p) PROVE CodeTold'
    BY <1>11 DEF CallExecute
  <1>12. ASSUME NEW p \in Procs, TakeControl(p) PROVE CodeTold'
    BY <1>12 DEF TakeControl
  <1>13. ASSUME NEW p \in Procs, ExecuteReturns(p) PROVE CodeTold'
    BY <1>13 DEF ExecuteReturns, CodeOf
  <1>14. ASSUME NEW p \in Procs, RunReturns(p) PROVE CodeTold'
    BY <1>14 DEF RunReturns
  <1>15. ASSUME NEW p \in Procs, StartService(p) PROVE CodeTold'
    BY <1>15 DEF StartService
  <1>16. ASSUME NEW p \in Procs, Kill(p) PROVE CodeTold'
    BY <1>16 DEF Kill
  <1>17. ASSUME NEW p \in Procs, NEW control \in Controls,
                SendControl(p, control)
         PROVE  CodeTold'
    BY <1>17 DEF SendControl
  <1>18. CASE UNCHANGED vars
    BY <1>18 DEF vars
  <1> QED
    BY <1>1, <1>2, <1>3, <1>4, <1>5, <1>6, <1>7, <1>8, <1>9, <1>10, <1>11,
       <1>12, <1>13, <1>14, <1>15, <1>16, <1>17, <1>18
    DEF Next, Execute, Run

\* WindowsService.tla, ExitCodeTellsError: what RunUntilExit returns, by way
\* of lastErr, agrees with the exit code that Execute returns to Windows.
THEOREM CodeTellsError == SafetySpec => []ExitCodeTellsError
  <1>1. Init => CodeTold
    BY DEF Init, CodeTold, None
  <1>2. Inv /\ CodeTold /\ [Next]_vars => CodeTold'
    BY CodeStep DEF Inv
  <1>3. CodeTold => ExitCodeTellsError
    BY DEF CodeTold, CodeOfErr, ExitCodeTellsError
  <1> QED
    BY <1>1, <1>2, <1>3, Invariance, PTL DEF SafetySpec

-----------------------------------------------------------------------------
\* WindowsService.tla, StateNeverGoesBack: as Shown has it, whatever svc.Run
\* reports is the next status or the one before; an answer is the last status.
THEOREM NeverBack == SafetySpec => StateNeverGoesBack
  <1> DEFINE Onward ==
        current' = current /\ current # None => Rank(scm') >= Rank(scm)
  <1>1. Inv /\ [Next]_vars => [Onward]_vars
    <2> SUFFICES ASSUME Inv, Next, current' = current, current # None
                 PROVE  Rank(scm') >= Rank(scm)
      OBVIOUS
    <2>1. \A s, t \in States :
             (s = t \/ s = "StartPending" \/ t = "Stopped"
              \/ (s = "Running" /\ t = "StopPending")) => Rank(t) >= Rank(s)
      BY DEF Rank, States
    <2>2. scm \in States /\ scm' \in States
      BY TypeStep DEF Inv, TypeOK
    <2>3. \/ scm' = scm \/ scm = "StartPending" \/ scm' = "Stopped"
          \/ (scm = "Running" /\ scm' = "StopPending")
      <3> USE DEF Inv, TypeOK, Agreed, Shown, Goto, Report, smgr
      <3> SUFFICES ASSUME scm' # scm, scm' # "Stopped"
                   PROVE  \/ scm = "StartPending"
                          \/ scm = "Running" /\ scm' = "StopPending"
        OBVIOUS
      <3>1. PICK p \in Procs :
               \/ ReportStartPending(p) \/ ReportRunning(p) \/ Answer(p)
               \/ ReportStopPending(p) \/ StartService(p)
        BY DEF Next, Execute, Run, StartNil, StartErr, ReceiveControl, StopNil,
               StopErr, RunFails, CallExecute, TakeControl, ExecuteReturns,
               RunReturns, SendControl, Kill
      <3>2. ~StartService(p)
        BY NoneAssumption DEF StartService, StoppedByEnd
      <3> QED
        BY <3>1, <3>2 DEF ReportStartPending, ReportRunning, Answer,
                          ReportStopPending
    <2> QED
      BY <2>1, <2>2, <2>3
  <1> QED
    BY <1>1, Invariance, PTL DEF SafetySpec, StateNeverGoesBack
=============================================================================
