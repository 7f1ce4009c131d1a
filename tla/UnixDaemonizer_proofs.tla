------------------------ MODULE UnixDaemonizer_proofs ------------------------
(***************************************************************************)
(* Proofs about the body the Unix daemonizers share, for any number of     *)
(* processes: it implements the contract of the Application interface, and *)
(* it stops the application only when it was told to.                      *)
(***************************************************************************)
EXTENDS UnixDaemonizer, TLAPS

\* Where the goroutine stands tells how far the application is.
PhaseOfStep ==
    \A p \in Procs :
        /\ pc[p] = "absent" => app[p] = "idle"
        /\ pc[p] = "start" => app[p] = "starting"
        /\ pc[p] \in {"subscribe"} \cup Subscribed => app[p] = "running"
        /\ pc[p] = "stop" => app[p] = "stopping"
        /\ pc[p] = "defers" => app[p] \in {"failed", "stopped"}
        /\ pc[p] # "exited" =>
               outcome[p] \notin {"signalled", "hangup", "killed"}

\* Whoever has seen a signal, or may yet see one, was told to stop.
SeenMeansTold ==
    \A p \in Procs :
        (\/ sigq[p] # {}
         \/ pc[p] \in {"received", "stop"}
         \/ app[p] \in {"stopping", "stopped"}) => told[p]

Inv == TypeOK /\ PhaseOfStep /\ SeenMeansTold

-----------------------------------------------------------------------------
\* Initially nothing has happened to any process.
LEMMA InitInv == Init => Inv
  BY DEF Init, Inv, TypeOK, PhaseOfStep, SeenMeansTold, Outcomes, Subscribed

\* Every step keeps types, phases and the reason for stopping in order.
LEMMA StepInv == Inv /\ [Next]_vars => Inv'
  <1> SUFFICES ASSUME Inv, [Next]_vars PROVE Inv'
    OBVIOUS
  <1> USE DEF Inv, TypeOK, PhaseOfStep, SeenMeansTold, Goto, BodySteps,
              Subscribed, Outcomes
  <1>1. ASSUME NEW p \in Procs, Exec(p) PROVE Inv'
    BY <1>1 DEF Exec
  <1>2. ASSUME NEW p \in Procs, StartOk(p) PROVE Inv'
    BY <1>2 DEF StartOk
  <1>3. ASSUME NEW p \in Procs, StartFails(p) PROVE Inv'
    BY <1>3 DEF StartFails
  <1>4. ASSUME NEW p \in Procs, Notify(p) PROVE Inv'
    BY <1>4 DEF Notify
  <1>5. ASSUME NEW p \in Procs, Park(p) PROVE Inv'
    BY <1>5 DEF Park
  <1>6. ASSUME NEW p \in Procs, Unsubscribe(p) PROVE Inv'
    BY <1>6 DEF Unsubscribe
  <1>7. ASSUME NEW p \in Procs, StopReturns(p) PROVE Inv'
    BY <1>7 DEF StopReturns
  <1>8. ASSUME NEW p \in Procs, Return(p) PROVE Inv'
    BY <1>8 DEF Return
  <1>9. ASSUME NEW p \in Procs, Dispatch(p) PROVE Inv'
    BY <1>9 DEF Dispatch
  <1>10. ASSUME NEW p \in Procs, NEW sig \in Signals, Signal(p, sig) PROVE Inv'
    <2>1. told' \in [Procs -> BOOLEAN]
      BY <1>10 DEF Signal
    <2>2. (\A q \in Procs : told[q] => told'[q]) /\ (sig \in Caught => told'[p])
      BY <1>10 DEF Signal
    <2>3. CASE sig \in Caught /\ pc[p] \in Subscribed
      BY <1>10, <2>1, <2>2, <2>3 DEF Signal, Catches
    <2>4. CASE ~(sig \in Caught /\ pc[p] \in Subscribed)
      BY <1>10, <2>1, <2>2, <2>4 DEF Signal, Catches
    <2> QED
      BY <2>3, <2>4
  <1>11. ASSUME NEW p \in Procs, Kill(p) PROVE Inv'
    BY <1>11 DEF Kill
  <1>12. CASE UNCHANGED vars
    BY <1>12 DEF vars
  <1> QED
    BY <1>1, <1>2, <1>3, <1>4, <1>5, <1>6, <1>7, <1>8, <1>9, <1>10, <1>11,
       <1>12
    DEF Next, Main

\* The strengthened invariant holds in every behaviour.
THEOREM Invariance == SafetySpec => []Inv
  BY InitInv, StepInv, PTL DEF SafetySpec

\* UnixDaemonizer.tla, TypeOK: every variable keeps its type.
THEOREM TypeCorrect == SafetySpec => []TypeOK
  <1>1. Inv => TypeOK
    BY DEF Inv
  <1> QED
    BY <1>1, Invariance, PTL

\* UnixDaemonizer.tla, StopsOnlyWhenTold: the application is stopped only in
\* a process that somebody sent a signal it is to catch.
THEOREM StopsWhenTold == SafetySpec => []StopsOnlyWhenTold
  <1>1. Inv => StopsOnlyWhenTold
    BY DEF Inv, SeenMeansTold, StopsOnlyWhenTold
  <1> QED
    BY <1>1, Invariance, PTL

\* UnixDaemonizer.tla, OnlySecondSignalCutsStop: a daemon that got to
\* signal.Notify does not die of the first signal it is to catch.
THEOREM FirstSignalIsHeard == SafetySpec => OnlySecondSignalCutsStop
  <1> DEFINE Excused(p) ==
          \/ pc[p] \in {"start", "subscribe"} \/ app[p] = "failed"
          \/ app[p] \in {"stopping", "stopped"} /\ told[p]
             Ordered ==
          \A p \in Procs :
              (outcome'[p] = "signalled" /\ pc[p] # "exited") => Excused(p)
  <1>1. Inv /\ [Next]_vars => [Ordered]_vars
    <2> SUFFICES ASSUME Inv, Next, NEW p \in Procs,
                        outcome'[p] = "signalled", pc[p] # "exited"
                 PROVE  Excused(p)
      BY DEF Inv
    <2> USE DEF Inv, TypeOK, Goto
    <2>1. outcome[p] # "signalled"
      BY DEF PhaseOfStep
    <2>2. PICK sig \in Signals : Signal(p, sig)
      <3>1. ASSUME NEW q \in Procs, Main(q) PROVE outcome'[p] # "signalled"
        BY <2>1, <3>1 DEF Main, StartOk, StartFails, Notify, Park,
                          Unsubscribe, StopReturns, Return
      <3>2. ASSUME NEW q \in Procs, NEW sig \in Signals, Signal(q, sig),
                   q # p
            PROVE  outcome'[p] # "signalled"
        BY <2>1, <3>2 DEF Signal
      <3> QED
        BY <2>1, <3>1, <3>2 DEF Next, Exec, Dispatch, Kill
    <2>3. Alive(p) /\ pc[p] \notin Subscribed
      BY <2>1, <2>2 DEF Signal, Catches
    \* Outside of Notify...Stop: not started up yet, or through the receive,
    \* which nothing but an earlier signal ends.
    <2> QED
      BY <2>3 DEF Alive, BodySteps, PhaseOfStep, SeenMeansTold, Subscribed
  <1> QED
    BY <1>1, Invariance, PTL DEF SafetySpec, OnlySecondSignalCutsStop

-----------------------------------------------------------------------------
\* UnixDaemonizer.tla, ImplementsContract: Start and Stop are called in order
\* and at most once, and RunUntilExit does not return in between.
THEOREM Implements == SafetySpec => ImplementsContract
  <1> DEFINE fate == [p \in Procs |-> Fate(p)]
  <1>1. Init => Contract!Init
    BY DEF Init, Contract!Init, Fate
  <1>2. Inv /\ [Next]_vars => [Contract!Next]_(Contract!vars)
    <2> SUFFICES ASSUME Inv, [Next]_vars
                 PROVE  Contract!Next \/ UNCHANGED <<app, fate>>
      BY DEF Contract!vars
    <2> USE DEF Inv, TypeOK, PhaseOfStep, Goto, Fate, Outcomes
    <2>1. ASSUME NEW p \in Procs, Exec(p)
          PROVE  Contract!CallStart(p)
      BY <2>1 DEF Exec, Contract!CallStart, Contract!Call
    <2>2. ASSUME NEW p \in Procs, StartOk(p)
          PROVE  Contract!StartNil(p)
      BY <2>2 DEF StartOk, Contract!StartNil, Contract!Call
    <2>3. ASSUME NEW p \in Procs, StartFails(p)
          PROVE  Contract!StartErr(p)
      BY <2>3 DEF StartFails, Contract!StartErr, Contract!Call
    <2>4. ASSUME NEW p \in Procs, Notify(p) \/ Park(p) \/ Dispatch(p)
          PROVE  UNCHANGED <<app, fate>>
      BY <2>4 DEF Notify, Park, Dispatch
    <2>5. ASSUME NEW p \in Procs, Unsubscribe(p)
          PROVE  Contract!CallStop(p)
      BY <2>5 DEF Unsubscribe, Contract!CallStop, Contract!Call, Subscribed
    <2>6. ASSUME NEW p \in Procs, StopReturns(p)
          PROVE  Contract!StopDone(p)
      BY <2>6 DEF StopReturns, Contract!StopDone, Contract!Call
    <2>7. ASSUME NEW p \in Procs, Return(p)
          PROVE  Contract!RunReturns(p)
      BY <2>7 DEF Return, Contract!RunReturns
    <2>8. ASSUME NEW p \in Procs, NEW sig \in Signals, Signal(p, sig)
          PROVE  Contract!Killed(p) \/ UNCHANGED <<app, fate>>
      <3>1. CASE sig \in Caught /\ pc[p] \in Subscribed
        BY <2>8, <3>1 DEF Signal, Catches
      <3>2. CASE ~(sig \in Caught /\ pc[p] \in Subscribed)
        <4>1. /\ pc[p] # "exited" /\ pc' = [pc EXCEPT ![p] = "exited"]
              /\ outcome'[p] \in {"signalled", "hangup"} /\ app' = app
              /\ \A q \in Procs \ {p} : outcome'[q] = outcome[q]
          BY <2>8, <3>2 DEF Signal, Catches, Alive
        <4>2. fate[p] = "live" /\ fate' = [fate EXCEPT ![p] = "killed"]
          BY <4>1
        <4> QED
          BY <4>1, <4>2 DEF Contract!Killed
      <3> QED
        BY <3>1, <3>2
    <2>9. ASSUME NEW p \in Procs, Kill(p)
          PROVE  Contract!Killed(p)
      BY <2>9 DEF Kill, Alive, Contract!Killed
    <2>10. CASE UNCHANGED vars
      BY <2>10 DEF vars
    <2> QED
      BY <2>1, <2>2, <2>3, <2>4, <2>5, <2>6, <2>7, <2>8, <2>9, <2>10
      DEF Next, Main, Contract!Next
  <1> QED
    BY <1>1, <1>2, Invariance, PTL
    DEF SafetySpec, ImplementsContract, Contract!Spec
=============================================================================
