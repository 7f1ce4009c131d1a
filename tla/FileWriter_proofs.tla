-------------------------- MODULE FileWriter_proofs --------------------------
(***************************************************************************)
(* Proofs about the filewriter example, for any number of processes and    *)
(* whatever signals they catch: a Stop that returned nil leaves no loop    *)
(* that writes, the file is there for a process that runs alone, only an   *)
(* orderly stop removes it, and the example is a daemon of UnixDaemonizer. *)
(***************************************************************************)
EXTENDS FileWriter, TLAPS

\* Where the main goroutine stands tells how far application and outcome are.
PhaseOfStep ==
    \A p \in Procs :
        /\ pc[p] = "absent" => app[p] = "idle"
        /\ pc[p] = "start" => app[p] = "starting"
        /\ pc[p] \in {"subscribe"} \cup D!Subscribed => app[p] = "running"
        /\ pc[p] = "stop" => app[p] = "stopping"
        /\ pc[p] = "defers" => /\ app[p] \in {"failed", "stopped"}
                              /\ outcome[p] \in {"nil", "startErr", "stopErr"}
        /\ pc[p] \notin {"defers", "exited"} => outcome[p] = "none"

\* Whoever has seen a signal, or may yet see one, was told to stop.
SeenMeansTold ==
    \A p \in Procs :
        (\/ sigq[p] # {}
         \/ pc[p] \in {"received", "stop"}
         \/ outcome[p] = "nil") => told[p]

\* Where the loop stands tells how far Stop got, and the other way round.
LoopAndStop ==
    \A p \in Procs :
        /\ app[p] = "running" => loop[p] \in {"waiting", "writing", None}
        /\ loop[p] \in {"removing", "closing", "over"} => outcome[p] = "nil"
        /\ outcome[p] = "nil" =>
               loop[p] \in {"removing", "closing", "over", None}

\* Of processes that do not overlap one is alive, and has the file open.
OneAtATime ==
    ~overlap => \A p, q \in Procs : D!Alive(p) /\ D!Alive(q) => p = q

OpenIsNamed ==
    ~overlap => \A p \in Procs :
        loop[p] \in {"waiting", "writing", "replying"} => handle[p] = path

Inv ==
    /\ TypeOK /\ PhaseOfStep /\ SeenMeansTold
    /\ LoopAndStop /\ OneAtATime /\ OpenIsNamed

-----------------------------------------------------------------------------
\* Initially no process is there, and no file.
LEMMA InitInv == Init => Inv
  <1> SUFFICES ASSUME Init PROVE Inv
    OBVIOUS
  <1> USE DEF Init, D!Init, None, D!Alive, D!Outcomes, D!BodySteps, D!Subscribed
  <1>1. TypeOK
    BY DEF TypeOK, D!TypeOK
  <1>2. PhaseOfStep /\ LoopAndStop
    BY DEF PhaseOfStep, LoopAndStop
  <1>3. SeenMeansTold
    BY DEF SeenMeansTold
  <1>4. OneAtATime /\ OpenIsNamed
    BY DEF OneAtATime, OpenIsNamed
  <1> QED
    BY <1>1, <1>2, <1>3, <1>4 DEF Inv

\* Every step keeps the main goroutine, the loop and the file in step.
LEMMA StepInv == Inv /\ [Next]_vars => Inv'
  <1> SUFFICES ASSUME Inv, [Next]_vars PROVE Inv'
    OBVIOUS
  <1> USE NoneAssumption
      DEF Inv, TypeOK, D!TypeOK, PhaseOfStep, SeenMeansTold, LoopAndStop,
          OneAtATime, OpenIsNamed, None, Goto, D!Goto, D!Alive, D!Outcomes,
          D!BodySteps, D!Subscribed, daemon
  <1>1. ASSUME NEW p \in Procs, Exec(p) PROVE Inv'
    <2> USE <1>1 DEF Exec, D!Exec
    <2>1. TypeOK'
      <3>1. overlap' \in BOOLEAN
        BY Zenon
      <3> QED
        BY <3>1
    <2>2. PhaseOfStep' /\ SeenMeansTold' /\ LoopAndStop'
      OBVIOUS
    <2>3. OneAtATime' /\ OpenIsNamed'
      <3>1. ~overlap' => ~overlap /\ \A q \in Procs : ~D!Alive(q)
        BY Zenon
      <3> QED
        BY <3>1
    <2> QED
      BY <2>1, <2>2, <2>3
  <1>2. ASSUME NEW p \in Procs, Start(p) PROVE Inv'
    BY <1>2 DEF Start, D!StartOk
  <1>3. ASSUME NEW p \in Procs, Offer(p) PROVE Inv'
    BY <1>3 DEF Offer
  <1>4. ASSUME NEW p \in Procs, OfferTimesOut(p) PROVE Inv'
    BY <1>4 DEF OfferTimesOut, D!StopReturns
  <1>5. ASSUME NEW p \in Procs, Rejoin(p) PROVE Inv'
    BY <1>5 DEF Rejoin, D!StopReturns
  <1>6. ASSUME NEW p \in Procs, RejoinTimesOut(p) PROVE Inv'
    BY <1>6 DEF RejoinTimesOut, D!StopReturns
  <1>7. ASSUME NEW p \in Procs, D!StartFails(p), Ending(p) PROVE Inv'
    BY <1>7 DEF Ending, D!StartFails
  <1>8. ASSUME NEW p \in Procs, D!Notify(p), Ending(p) PROVE Inv'
    BY <1>8 DEF Ending, D!Notify
  <1>9. ASSUME NEW p \in Procs, D!Park(p), Ending(p) PROVE Inv'
    BY <1>9 DEF Ending, D!Park
  <1>10. ASSUME NEW p \in Procs, D!Unsubscribe(p), Ending(p) PROVE Inv'
    BY <1>10 DEF Ending, D!Unsubscribe
  <1>11. ASSUME NEW p \in Procs, D!Return(p), Ending(p) PROVE Inv'
    BY <1>11 DEF Ending, D!Return
  <1>12. ASSUME NEW p \in Procs, Tick(p) \/ Write(p) PROVE Inv'
    BY <1>12 DEF Tick, Write
  <1>13. ASSUME NEW p \in Procs, Remove(p) PROVE Inv'
    BY <1>13 DEF Remove
  <1>14. ASSUME NEW p \in Procs, Close(p) PROVE Inv'
    BY <1>14 DEF Close
  <1>15. ASSUME NEW p \in Procs, D!Dispatch(p), Ending(p) PROVE Inv'
    BY <1>15 DEF Ending, D!Dispatch
  <1>16. ASSUME NEW p \in Procs, NEW sig \in D!Signals, D!Signal(p, sig),
                Ending(p)
         PROVE  Inv'
    <2>1. CASE D!Catches(p, sig)
      <3>1. told' \in [Procs -> BOOLEAN] /\ told'[p]
        BY <1>16, <2>1 DEF D!Signal, D!Catches
      <3>2. \A q \in Procs : told[q] => told'[q]
        BY <1>16 DEF D!Signal
      <3> QED
        BY <1>16, <2>1, <3>1, <3>2 DEF Ending, D!Signal, D!Catches
    <2>2. CASE ~D!Catches(p, sig)
      BY <1>16, <2>2 DEF Ending, D!Signal, D!Catches
    <2> QED
      BY <2>1, <2>2
  <1>17. ASSUME NEW p \in Procs, D!Kill(p), Ending(p) PROVE Inv'
    BY <1>17 DEF Ending, D!Kill
  <1>18. CASE UNCHANGED vars
    BY <1>18 DEF vars
  <1> QED
    BY <1>1, <1>2, <1>3, <1>4, <1>5, <1>6, <1>7, <1>8, <1>9, <1>10, <1>11,
       <1>12, <1>13, <1>14, <1>15, <1>16, <1>17, <1>18
    DEF Next, Main

\* The strengthened invariant holds in every behaviour.
THEOREM Invariance == Spec => []Inv
  BY InitInv, StepInv, PTL DEF Spec

\* FileWriter.tla, TypeOK: every variable keeps its type, and a process has
\* its loop from the return of Start to its end.
THEOREM TypeCorrect == Spec => []TypeOK
  BY Invariance, PTL DEF Inv

\* FileWriter.tla, QuietAfterStop: when application.Stop has returned nil,
\* updateFileLoop is past its last write.
THEOREM Quiet == Spec => []QuietAfterStop
  <1>1. Inv => QuietAfterStop
    BY DEF Inv, LoopAndStop, QuietAfterStop
  <1> QED
    BY <1>1, Invariance, PTL

\* FileWriter.tla, FileThereIfAlone: the loop of a running application writes
\* to the file that has the name, unless two processes have overlapped.
THEOREM FileOfOne == Spec => []FileThereIfAlone
  <1>1. Inv => FileThereIfAlone
    BY DEF Inv, TypeOK, LoopAndStop, OpenIsNamed, FileThereIfAlone, FileThere
  <1> QED
    BY <1>1, Invariance, PTL

\* FileWriter.tla, OnlyStoppedRemoves: the deferred removal is reached only
\* after a signal, and a Stop that met the loop.
THEOREM OnlyStopped == Spec => OnlyStoppedRemoves
  <1> DEFINE Removal ==
        path # None /\ path' = None =>
            \E p \in Procs :
                told[p] /\ outcome[p] = "nil" /\ loop[p] = "removing"
  <1>1. Inv /\ [Next]_vars => [Removal]_vars
    <2> SUFFICES ASSUME Inv, Next, path # None, path' = None PROVE Removal
      BY DEF vars
    <2>1. PICK p \in Procs : Remove(p) \/ Start(p)
      BY DEF Next, Main, Exec, Offer, OfferTimesOut, Rejoin, RejoinTimesOut,
             Ending, Tick, Write, Close
    <2>2. Remove(p)
      BY <2>1 DEF Start
    <2> QED
      BY <2>2 DEF Remove, Goto, Inv, LoopAndStop, SeenMeansTold
  <1> QED
    BY <1>1, Invariance, PTL DEF Spec, OnlyStoppedRemoves

\* Every step of the example is a step of the daemonizer's body, or none of
\* its business: signals and the calls to Start and Stop come as there.
THEOREM IsDaemon == Spec => D!SafetySpec
  <1>1. Init => D!Init
    BY DEF Init
  <1>2. [Next]_vars => [D!Next]_(D!vars)
    BY DEF Next, Main, Exec, Start, Offer, OfferTimesOut, Rejoin,
           RejoinTimesOut, Tick, Write, Remove, Close, vars, daemon,
           D!Next, D!Main, D!vars
  <1> QED
    BY <1>1, <1>2, PTL DEF Spec, D!SafetySpec

\* UnixDaemonizer.tla, ImplementsContract: with the example's own Start and
\* Stop, the calls come in order and at most once, and Stop returns at one of
\* its four ways out, whatever its loop does.
THEOREM KeepsContract == Spec => D!ImplementsContract
  <1> DEFINE fate == [p \in Procs |-> D!Fate(p)]
  <1>1. Init => D!Contract!Init
    BY DEF Init, D!Init, D!Contract!Init, D!Fate
  <1>2. Inv /\ [Next]_vars => [D!Contract!Next]_(D!Contract!vars)
    <2> SUFFICES ASSUME Inv, [Next]_vars
                 PROVE  D!Contract!Next \/ UNCHANGED <<app, fate>>
      BY DEF D!Contract!vars
    <2> USE DEF Inv, TypeOK, D!TypeOK, PhaseOfStep, D!Goto, D!Fate, D!Outcomes,
                D!Subscribed
    <2>1. ASSUME NEW p \in Procs, Exec(p)
          PROVE  D!Contract!CallStart(p)
      BY <2>1 DEF Exec, D!Exec, D!Contract!CallStart, D!Contract!Call
    <2>2. ASSUME NEW p \in Procs, Start(p)
          PROVE  D!Contract!StartNil(p)
      BY <2>2 DEF Start, D!StartOk, D!Contract!StartNil, D!Contract!Call
    <2>3. ASSUME NEW p \in Procs, D!StartFails(p)
          PROVE  D!Contract!StartErr(p)
      BY <2>3 DEF D!StartFails, D!Contract!StartErr, D!Contract!Call
    <2>4. ASSUME NEW p \in Procs, D!Notify(p) \/ D!Park(p) \/ D!Dispatch(p)
          PROVE  UNCHANGED <<app, fate>>
      BY <2>4 DEF D!Notify, D!Park, D!Dispatch
    <2>5. ASSUME NEW p \in Procs, D!Unsubscribe(p)
          PROVE  D!Contract!CallStop(p)
      BY <2>5 DEF D!Unsubscribe, D!Contract!CallStop, D!Contract!Call
    <2>6. ASSUME NEW p \in Procs, OfferTimesOut(p) \/ Rejoin(p) \/ RejoinTimesOut(p)
          PROVE  D!Contract!StopDone(p)
      BY <2>6 DEF OfferTimesOut, Rejoin, RejoinTimesOut, D!StopReturns,
                  D!Contract!StopDone, D!Contract!Call
    <2>7. ASSUME NEW p \in Procs, D!Return(p)
          PROVE  D!Contract!RunReturns(p)
      BY <2>7 DEF D!Return, D!Contract!RunReturns
    <2>8. ASSUME NEW p \in Procs, NEW sig \in D!Signals, D!Signal(p, sig)
          PROVE  D!Contract!Killed(p) \/ UNCHANGED <<app, fate>>
      <3>1. CASE sig \in Caught /\ pc[p] \in D!Subscribed
        BY <2>8, <3>1 DEF D!Signal, D!Catches
      <3>2. CASE ~(sig \in Caught /\ pc[p] \in D!Subscribed)
        <4>1. /\ pc[p] # "exited" /\ pc' = [pc EXCEPT ![p] = "exited"]
              /\ outcome'[p] \in {"signalled", "hangup"} /\ app' = app
              /\ \A q \in Procs \ {p} : outcome'[q] = outcome[q]
          BY <2>8, <3>2 DEF D!Signal, D!Catches, D!Alive
        <4>2. fate[p] = "live" /\ fate' = [fate EXCEPT ![p] = "killed"]
          BY <4>1
        <4> QED
          BY <4>1, <4>2 DEF D!Contract!Killed
      <3> QED
        BY <3>1, <3>2
    <2>9. ASSUME NEW p \in Procs, D!Kill(p)
          PROVE  D!Contract!Killed(p)
      BY <2>9 DEF D!Kill, D!Alive, D!Contract!Killed
    <2>10. ASSUME NEW p \in Procs,
                  \/ Offer(p) \/ Tick(p) \/ Write(p) \/ Remove(p) \/ Close(p)
           PROVE  UNCHANGED <<app, fate>>
      BY <2>10 DEF Offer, Tick, Write, Remove, Close, daemon
    <2>11. CASE UNCHANGED vars
      BY <2>11 DEF vars, daemon
    <2> QED
      BY <2>1, <2>2, <2>3, <2>4, <2>5, <2>6, <2>7, <2>8, <2>9, <2>10, <2>11
      DEF Next, Main, D!Contract!Next
  <1> QED
    BY <1>1, <1>2, Invariance, PTL
    DEF Spec, D!ImplementsContract, D!Contract!Spec

=============================================================================
