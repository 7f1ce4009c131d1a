--------------------------- MODULE SystemV_proofs ---------------------------
(***************************************************************************)
(* Proofs about SystemV, for any number of processes and script runs: the  *)
(* types, and the two facts that keep a confused chain of launchers        *)
(* harmless, OneApplicationPerStart and LaunchChainBounded.                *)
(***************************************************************************)
EXTENDS SystemV, TLAPS

\* A process that was never executed has no history.
AbsentBlank ==
    \A p \in Procs :
        pc[p] = "absent" => origin[p] = NoProc /\ app[p] = "idle"

\* The application is untouched while a process may still turn out a launcher.
LaunchersIdle == \A p \in Procs : pc[p] \in LaunchSteps => app[p] = "idle"

\* A run of the script has descendants only once it has executed the program.
SpawnedFirst ==
    \A p \in Procs :
        origin[p] \in Runs => spc[origin[p]] \in {"wait", "done"}

\* A process executes the program once at most, so that the descendants of a
\* run form a line.
OnePerGeneration ==
    \A p, q \in Procs :
        (origin[p] = origin[q] /\ origin[p] \in Runs /\ gen[p] = gen[q])
            => p = q

\* All of the line but its last member has forked, and is or was a launcher.
ElderForked ==
    \A p, q \in Procs :
        (origin[p] = origin[q] /\ origin[p] \in Runs /\ gen[p] < gen[q])
            => pc[p] \in {"write", "exited"} /\ app[p] = "idle"

LineInv ==
    /\ AbsentBlank /\ LaunchersIdle /\ SpawnedFirst
    /\ OnePerGeneration /\ ElderForked

\* Generations count the distance from the script.
GenerationsCount ==
    \A p \in Procs :
        /\ pc[p] = "absent" => forker[p] = NoProc /\ gen[p] = 0
        /\ forker[p] \in Runs => gen[p] = 0
        /\ forker[p] \in Procs =>
               /\ pc[forker[p]] # "absent"
               /\ gen[p] = gen[forker[p]] + 1

\* The search counts the ancestors it passes, so that it meets the script at
\* the index that equals the generation.
WalkCounts ==
    \A p \in Procs :
        pc[p] \in {"cmdline", "stat"} =>
            /\ cur[p] \in Runs => idx[p] = gen[p]
            /\ cur[p] \in Procs =>
                   /\ pc[cur[p]] # "absent"
                   /\ gen[p] = gen[cur[p]] + idx[p] + 1

WalkBounded ==
    \A p \in Procs :
        /\ pc[p] = "cmdline" => idx[p] < MaxWalk
        /\ pc[p] = "stat" => idx[p] + 1 < MaxWalk
        /\ pc[p] \in {"open", "fork", "write"} => gen[p] < MaxWalk

ChainInv ==
    GenerationsCount /\ WalkCounts /\ WalkBounded /\ LaunchChainBounded

-----------------------------------------------------------------------------
\* Who is looked at next in the process table is a name the types allow.
LEMMA PpidType ==
    ASSUME TypeOK, NEW q \in Procs
    PROVE  Ppid(q) \in Procs \cup Runs \cup {InitProc, Outside, NoProc}
  BY DEF TypeOK, ProcTypeOK, Ppid

\* A signal, wherever it comes from, leaves the daemon's variables typed.
LEMMA SignalType ==
    ASSUME TypeOK, NEW q \in Procs, NEW sig \in D!Signals, D!Signal(q, sig)
    PROVE  /\ pc' \in [Procs -> Steps]
           /\ sigq' \in [Procs -> SUBSET Caught]
           /\ told' \in [Procs -> BOOLEAN]
           /\ outcome' \in [Procs -> D!Outcomes
                                    \cup {"launched", "walkErr", "launchErr"}]
           /\ app' = app
  <1> USE DEF TypeOK, ProcTypeOK, Steps, D!Signal, D!Catches, D!Outcomes
  <1>1. told' \in [Procs -> BOOLEAN]
    OBVIOUS
  <1>2. CASE sig \in Caught /\ pc[q] \in D!Subscribed
    BY <1>1, <1>2
  <1>3. CASE ~(sig \in Caught /\ pc[q] \in D!Subscribed)
    BY <1>1, <1>3
  <1> QED
    BY <1>2, <1>3

\* The same for the signals a script sends.
LEMMA SignalToType ==
    ASSUME TypeOK, NEW q \in Procs, NEW sig \in {"TERM", "HUP"},
           SignalTo(q, sig), UNCHANGED tree
    PROVE  ProcTypeOK'
  <1> USE DEF TypeOK, ProcTypeOK, tree, walk, LeaveWalk
  <1>1. CASE UNCHANGED <<dvars, walk>>
    BY <1>1 DEF dvars
  <1>2. CASE D!Signal(q, sig) /\ (LeaveWalk(q) \/ UNCHANGED walk)
    <2>1. sig \in D!Signals
      BY DEF D!Signals, Caught
    <2> QED
      BY <1>2, <2>1, SignalType
  <1> QED
    BY <1>1, <1>2 DEF SignalTo

\* Every step from a typed state leads to a typed state.
LEMMA TypeStep == TypeOK /\ [Next]_vars => TypeOK'
  <1> SUFFICES ASSUME TypeOK, [Next]_vars PROVE TypeOK'
    OBVIOUS
  <1> USE DEF TypeOK, ProcTypeOK, FileTypeOK, ScriptTypeOK, dvars, tree, walk,
              files, script, LeaveWalk, Steps, LaunchSteps, ScriptOps,
              D!Goto, D!BodySteps, D!Subscribed, D!Outcomes
  <1>1. ASSUME NEW p \in Procs, Getppid(p) PROVE TypeOK'
    BY <1>1, PpidType DEF Getppid
  <1>2. ASSUME NEW p \in Procs, FindScript(p) PROVE TypeOK'
    BY <1>2 DEF FindScript
  <1>3. ASSUME NEW p \in Procs, PassAncestor(p) PROVE TypeOK'
    BY <1>3 DEF PassAncestor, BeginDaemon
  <1>4. ASSUME NEW p \in Procs, NextAncestor(p) PROVE TypeOK'
    BY <1>4, PpidType DEF NextAncestor, BeginDaemon
  <1>5. ASSUME NEW p \in Procs, LoseAncestor(p) PROVE TypeOK'
    BY <1>5 DEF LoseAncestor, Refuse
  <1>6. ASSUME NEW p \in Procs, OpenPidFile(p) PROVE TypeOK'
    BY <1>6 DEF OpenPidFile
  <1>7. ASSUME NEW p \in Procs, Fork(p) PROVE TypeOK'
    BY <1>7 DEF Fork, Execute
  <1>8. ASSUME NEW p \in Procs, WritePid(p) PROVE TypeOK'
    BY <1>8 DEF WritePid
  <1>9. ASSUME NEW p \in Procs, LaunchFails(p) PROVE TypeOK'
    BY <1>9 DEF LaunchFails, Refuse
  <1>10. ASSUME NEW p \in Procs, StartOk(p) PROVE TypeOK'
    BY <1>10 DEF StartOk, D!StartOk
  <1>11. ASSUME NEW p \in Procs, BodyStep(p) PROVE TypeOK'
    BY <1>11 DEF BodyStep, D!StartFails, D!Notify, D!Park, D!Unsubscribe, D!StopReturns
  <1>12. ASSUME NEW p \in Procs, Dispatch(p) PROVE TypeOK'
    BY <1>12 DEF Dispatch, D!Dispatch, Caught
  <1>13. ASSUME NEW p \in Procs, Return(p) PROVE TypeOK'
    BY <1>13 DEF Return, D!Return
  <1>14. ASSUME NEW p \in Procs, Kill(p) PROVE TypeOK'
    BY <1>14 DEF Kill, D!Kill
  <1>15. ASSUME NEW p \in Procs, Foreground(p) PROVE TypeOK'
    <2>1. ProcTypeOK'
      BY <1>15 DEF Foreground, Execute
    <2>2. FileTypeOK'
      BY <1>15 DEF Foreground, Execute
    <2>3. ScriptTypeOK'
      BY <1>15 DEF Foreground
    <2> QED
      BY <2>1, <2>2, <2>3
  <1>16. ASSUME NEW p \in Procs, Interrupt(p) PROVE TypeOK'
    BY <1>16, SignalType DEF Interrupt, D!Signals, Caught
  <1>17. ASSUME NEW s \in Runs, Check(s) PROVE TypeOK'
    BY <1>17 DEF Check, Finish, Enter
  <1>18. ASSUME NEW s \in Runs, TermPid(s) PROVE TypeOK'
    <2>1. ProcTypeOK'
      BY <1>18, SignalToType DEF TermPid, PidSeen
    <2>2. FileTypeOK'
      BY <1>18 DEF TermPid
    <2>3. ScriptTypeOK'
      BY <1>18 DEF TermPid, PidSeen, Proceed, Finish, Enter
    <2> QED
      BY <2>1, <2>2, <2>3
  <1>19. ASSUME NEW s \in Runs, NobodyToTerm(s) PROVE TypeOK'
    BY <1>19 DEF NobodyToTerm, Finish, Enter, Proceed, RemovePidFile
  <1>20. ASSUME NEW s \in Runs, KillWait(s) PROVE TypeOK'
    <2>1. ProcTypeOK'
      <3>1. CASE UNCHANGED <<dvars, walk>>
        BY <1>20, <3>1 DEF KillWait
      <3>2. CASE D!Kill(target[s]) /\ LeaveWalk(target[s])
        BY <1>20, <3>2 DEF KillWait, D!Kill
      <3> QED
        BY <1>20, <3>1, <3>2 DEF KillWait
    <2>2. FileTypeOK'
      BY <1>20 DEF KillWait, RemovePidFile
    <2>3. ScriptTypeOK'
      BY <1>20 DEF KillWait, Proceed, Finish, Enter
    <2> QED
      BY <2>1, <2>2, <2>3
  <1>21. ASSUME NEW s \in Runs, Hup(s) PROVE TypeOK'
    <2>1. ProcTypeOK'
      BY <1>21, SignalToType DEF Hup, PidSeen
    <2> QED
      BY <1>21, <2>1 DEF Hup, Finish
  <1>22. ASSUME NEW s \in Runs, Spawn(s) PROVE TypeOK'
    BY <1>22 DEF Spawn, Execute, Enter
  <1>23. ASSUME NEW s \in Runs, NoExecutable(s) PROVE TypeOK'
    BY <1>23 DEF NoExecutable, Finish
  <1>24. ASSUME NEW s \in Runs, Reap(s) PROVE TypeOK'
    BY <1>24 DEF Reap, Finish
  <1>25. ASSUME NEW s \in Runs, NEW o \in ScriptOps, Invoke(s, o) PROVE TypeOK'
    BY <1>25 DEF Invoke
  <1>26. CASE UNCHANGED vars
    BY <1>26 DEF vars
  <1> QED
    BY <1>1, <1>2, <1>3, <1>4, <1>5, <1>6, <1>7, <1>8, <1>9,
       <1>10, <1>11, <1>12, <1>13, <1>14, <1>15, <1>16, <1>17, <1>18,
       <1>19, <1>20, <1>21, <1>22, <1>23, <1>24, <1>25, <1>26
    DEF Next, Main, Launch, RunScript

\* SystemV.tla, TypeOK: every variable keeps its type in every behaviour.
THEOREM TypeCorrect == SafetySpec => []TypeOK
  <1>1. Init => TypeOK
    <2> SUFFICES ASSUME Init PROVE TypeOK
      OBVIOUS
    <2>1. ProcTypeOK
      BY DEF Init, D!Init, ProcTypeOK, Steps, D!Outcomes
    <2>2. FileTypeOK
      BY DEF Init, FileTypeOK
    <2>3. ScriptTypeOK
      BY DEF Init, ScriptTypeOK
    <2> QED
      BY <2>1, <2>2, <2>3 DEF TypeOK
  <1> QED
    BY <1>1, TypeStep, PTL DEF SafetySpec

-----------------------------------------------------------------------------
(* One application per start.                                              *)

\* The steps that neither execute a program, nor move a script out of "wait",
\* nor let a launcher become a daemon keep the line of descendants in order.
LEMMA LineKept ==
    ASSUME LineInv, UNCHANGED <<origin, gen>>,
           \A p \in Procs :
               /\ pc'[p] = "absent" => pc[p] = "absent" /\ app'[p] = app[p]
               /\ pc'[p] \in LaunchSteps =>
                      pc[p] \in LaunchSteps /\ app'[p] = app[p]
               /\ pc[p] \in {"write", "exited"} =>
                      pc'[p] \in {"write", "exited"} /\ app'[p] = app[p],
           \A s \in Runs :
               spc[s] \in {"wait", "done"} => spc'[s] \in {"wait", "done"}
    PROVE  LineInv'
  BY DEF LineInv, AbsentBlank, LaunchersIdle, SpawnedFirst, OnePerGeneration,
         ElderForked, LaunchSteps

\* Every step keeps the line of a run's descendants in order.
LEMMA LineStep == TypeOK /\ LineInv /\ [Next]_vars => LineInv'
  <1> SUFFICES ASSUME TypeOK, LineInv, [Next]_vars PROVE LineInv'
    OBVIOUS
  <1> USE NamesAssumption DEF TypeOK, ProcTypeOK, tree, script, dvars, D!Goto
  <1>1. ASSUME NEW p \in Procs, Getppid(p) PROVE LineInv'
    BY <1>1, LineKept DEF Getppid, LaunchSteps
  <1>2. ASSUME NEW p \in Procs, FindScript(p) PROVE LineInv'
    BY <1>2, LineKept DEF FindScript, LaunchSteps
  <1>3. ASSUME NEW p \in Procs, PassAncestor(p) PROVE LineInv'
    BY <1>3, LineKept DEF PassAncestor, BeginDaemon, LaunchSteps
  <1>4. ASSUME NEW p \in Procs, NextAncestor(p) PROVE LineInv'
    BY <1>4, LineKept DEF NextAncestor, BeginDaemon, LaunchSteps
  <1>5. ASSUME NEW p \in Procs, LoseAncestor(p) PROVE LineInv'
    BY <1>5, LineKept DEF LoseAncestor, Refuse, LaunchSteps
  <1>6. ASSUME NEW p \in Procs, OpenPidFile(p) PROVE LineInv'
    BY <1>6, LineKept DEF OpenPidFile, LaunchSteps
  <1>8. ASSUME NEW p \in Procs, WritePid(p) PROVE LineInv'
    BY <1>8, LineKept DEF WritePid, LaunchSteps
  <1>9. ASSUME NEW p \in Procs, LaunchFails(p) PROVE LineInv'
    BY <1>9, LineKept DEF LaunchFails, Refuse, LaunchSteps
  <1>10. ASSUME NEW p \in Procs, StartOk(p) PROVE LineInv'
    BY <1>10, LineKept DEF StartOk, D!StartOk, LaunchSteps
  <1>11. ASSUME NEW p \in Procs, BodyStep(p) PROVE LineInv'
    BY <1>11, LineKept DEF BodyStep, D!StartFails, D!Notify, D!Park,
                          D!Unsubscribe, D!StopReturns, LaunchSteps
  <1>12. ASSUME NEW p \in Procs, Dispatch(p) PROVE LineInv'
    BY <1>12, LineKept DEF Dispatch, D!Dispatch, LaunchSteps
  <1>13. ASSUME NEW p \in Procs, Return(p) PROVE LineInv'
    BY <1>13, LineKept DEF Return, D!Return, LaunchSteps
  <1>14. ASSUME NEW p \in Procs, Kill(p) PROVE LineInv'
    BY <1>14, LineKept DEF Kill, D!Kill, D!Alive, LaunchSteps
  <1>15. ASSUME NEW p \in Procs, Interrupt(p) PROVE LineInv'
    BY <1>15, LineKept DEF Interrupt, D!Signal, D!Catches, D!Alive, LaunchSteps
  <1>17. ASSUME NEW s \in Runs, Check(s) PROVE LineInv'
    BY <1>17, LineKept DEF Check, Finish, Enter, ScriptTypeOK
  <1>18. ASSUME NEW s \in Runs, TermPid(s) PROVE LineInv'
    BY <1>18, LineKept DEF TermPid, SignalTo, D!Signal, D!Catches, D!Alive, Proceed,
                          Finish, Enter, ScriptTypeOK, LaunchSteps
  <1>19. ASSUME NEW s \in Runs, NobodyToTerm(s) PROVE LineInv'
    BY <1>19, LineKept DEF NobodyToTerm, Proceed, Finish, Enter, ScriptTypeOK
  <1>20. ASSUME NEW s \in Runs, KillWait(s) PROVE LineInv'
    BY <1>20, LineKept DEF KillWait, D!Kill, D!Alive, Proceed, Finish, Enter,
                          ScriptTypeOK, LaunchSteps
  <1>21. ASSUME NEW s \in Runs, Hup(s) PROVE LineInv'
    BY <1>21, LineKept DEF Hup, SignalTo, D!Signal, D!Catches, D!Alive, Finish,
                          ScriptTypeOK, LaunchSteps
  <1>23. ASSUME NEW s \in Runs, NoExecutable(s) PROVE LineInv'
    BY <1>23, LineKept DEF NoExecutable, Finish, ScriptTypeOK
  <1>24. ASSUME NEW s \in Runs, Reap(s) PROVE LineInv'
    BY <1>24, LineKept DEF Reap, Finish, ScriptTypeOK
  <1>25. ASSUME NEW s \in Runs, NEW o \in ScriptOps, Invoke(s, o) PROVE LineInv'
    BY <1>25, LineKept DEF Invoke, ScriptTypeOK
  <1>26. CASE UNCHANGED vars
    BY <1>26, LineKept DEF vars
  <1> USE DEF LineInv, AbsentBlank, LaunchersIdle, SpawnedFirst,
              OnePerGeneration, ElderForked, LaunchSteps
  <1>7. ASSUME NEW p \in Procs, Fork(p) PROVE LineInv'
    <2>1. PICK c \in Procs :
             /\ Execute(c, p, origin[p], gen[p] + 1, "pid")
             /\ pc[p] = "fork" /\ c # p
             /\ pc' = [pc EXCEPT ![p] = "write", ![c] = "boot"]
             /\ app' = app /\ spc' = spc
      BY <1>7 DEF Fork, Execute
    <2>2. /\ pc[c] = "absent" /\ app[c] = "idle"
          /\ origin' = [origin EXCEPT ![c] = origin[p]]
          /\ gen' = [gen EXCEPT ![c] = gen[p] + 1]
      BY <2>1 DEF Execute
    <2>3. \A q \in Procs :
             (origin[q] = origin[p] /\ origin[p] \in Runs) => gen[q] <= gen[p]
      BY <2>1
    <2>4. AbsentBlank' /\ LaunchersIdle' /\ SpawnedFirst'
      BY <2>1, <2>2
    <2>5. OnePerGeneration'
      BY <2>1, <2>2, <2>3
    <2>6. ASSUME NEW a \in Procs, NEW b \in Procs,
                 origin'[a] = origin'[b], origin'[a] \in Runs, gen'[a] < gen'[b]
          PROVE  pc'[a] \in {"write", "exited"} /\ app'[a] = "idle"
      <3>1. CASE a # c /\ b # c
        BY <2>1, <2>2, <2>6, <3>1
      <3>2. CASE a = c
        <4>1. /\ origin[b] = origin[p] /\ origin[p] \in Runs
              /\ gen[p] + 1 < gen[b]
          BY <2>2, <2>6, <3>2
        <4>2. gen[b] <= gen[p]
          BY <2>3, <4>1
        <4>3. gen[b] \in Nat /\ gen[p] \in Nat
          OBVIOUS
        <4> QED
          BY <4>1, <4>2, <4>3
      <3>3. CASE a # c /\ b = c
        <4>1. origin[a] = origin[p] /\ origin[p] \in Runs /\ gen[a] <= gen[p]
          BY <2>2, <2>6, <3>3
        <4>2. CASE a = p
          BY <2>1, <4>2
        <4>3. CASE a # p
          <5>1. gen[a] < gen[p]
            <6>1. gen[a] # gen[p]
              BY <4>1, <4>3
            <6>2. gen[a] \in Nat /\ gen[p] \in Nat
              OBVIOUS
            <6> QED
              BY <4>1, <6>1, <6>2
          <5>2. pc[a] \in {"write", "exited"} /\ app[a] = "idle"
            BY <4>1, <5>1
          <5> QED
            BY <2>1, <3>3, <4>3, <5>2
        <4> QED
          BY <4>2, <4>3
      <3> QED
        BY <3>1, <3>2, <3>3
    <2>7. ElderForked'
      BY <2>6
    <2> QED
      BY <2>4, <2>5, <2>7
  <1>16. ASSUME NEW p \in Procs, Foreground(p) PROVE LineInv'
    BY <1>16 DEF Foreground, Execute
  <1>22. ASSUME NEW s \in Runs, Spawn(s) PROVE LineInv'
    <2>1. PICK c \in Procs :
             /\ Execute(c, s, s, 0, "free")
             /\ pc' = [pc EXCEPT ![c] = "boot"]
             /\ app' = app /\ spc' = [spc EXCEPT ![s] = "wait"]
      BY <1>22 DEF Spawn, Enter
    <2>2. /\ pc[c] = "absent" /\ app[c] = "idle"
          /\ origin' = [origin EXCEPT ![c] = s]
          /\ gen' = [gen EXCEPT ![c] = 0]
      BY <2>1 DEF Execute
    <2>3. \A q \in Procs : origin[q] # s
      BY <1>22 DEF Spawn
    <2> QED
      BY <2>1, <2>2, <2>3 DEF ScriptTypeOK
  <1> QED
    BY <1>1, <1>2, <1>3, <1>4, <1>5, <1>6, <1>7, <1>8, <1>9, <1>10, <1>11,
       <1>12, <1>13, <1>14, <1>15, <1>16, <1>17, <1>18, <1>19, <1>20, <1>21,
       <1>22, <1>23, <1>24, <1>25, <1>26
    DEF Next, Main, Launch, RunScript

\* The line of descendants stays in order in every behaviour.
THEOREM LineInvariant == SafetySpec => []LineInv
  <1>1. Init => LineInv
    BY NamesAssumption DEF Init, D!Init, LineInv, AbsentBlank, LaunchersIdle,
       SpawnedFirst, OnePerGeneration, ElderForked, LaunchSteps
  <1> QED
    BY <1>1, LineStep, TypeCorrect, PTL DEF SafetySpec

\* SystemV.tla, OneApplicationPerStart: an invocation of the script starts the
\* application in one process at most, however often a child of a launcher
\* takes itself for a launcher.
THEOREM OneApplication == SafetySpec => []OneApplicationPerStart
  <1>1. TypeOK /\ LineInv => OneApplicationPerStart
    <2> SUFFICES ASSUME TypeOK, LineInv, NEW p \in Procs, NEW q \in Procs,
                        origin[p] = origin[q], origin[p] \in Runs,
                        app[p] # "idle", app[q] # "idle"
                 PROVE  p = q
      BY DEF OneApplicationPerStart
    <2>1. gen[p] \in Nat /\ gen[q] \in Nat
      BY DEF TypeOK, ProcTypeOK
    <2>2. ~(gen[p] < gen[q]) /\ ~(gen[q] < gen[p])
      BY DEF LineInv, ElderForked
    <2> QED
      BY <2>1, <2>2 DEF LineInv, OnePerGeneration
  <1> QED
    BY <1>1, TypeCorrect, LineInvariant, PTL

-----------------------------------------------------------------------------
(* The chain of launchers ends.                                            *)

\* The steps that execute nothing and leave the walks alone, or end them,
\* keep the distances right.
LEMMA ChainKept ==
    ASSUME ChainInv, UNCHANGED <<forker, gen>>,
           \A p \in Procs :
               /\ pc'[p] = "absent" <=> pc[p] = "absent"
               /\ pc'[p] \in {"cmdline", "stat"} =>
                      pc'[p] = pc[p] /\ cur'[p] = cur[p] /\ idx'[p] = idx[p]
               /\ pc'[p] \in {"open", "fork", "write"} =>
                      pc[p] \in {"open", "fork", "write"}
    PROVE  ChainInv'
  BY DEF ChainInv, GenerationsCount, WalkCounts, WalkBounded,
         LaunchChainBounded

\* Every step keeps the distances right.
LEMMA ChainStep == TypeOK /\ ChainInv /\ [Next]_vars => ChainInv'
  <1> SUFFICES ASSUME TypeOK, ChainInv, [Next]_vars PROVE ChainInv'
    OBVIOUS
  <1> USE NamesAssumption, WalkAssumption
      DEF TypeOK, ProcTypeOK, tree, walk, dvars, LeaveWalk, D!Goto
  <1>5. ASSUME NEW p \in Procs, LoseAncestor(p) PROVE ChainInv'
    BY <1>5, ChainKept DEF LoseAncestor, Refuse
  <1>6. ASSUME NEW p \in Procs, OpenPidFile(p) PROVE ChainInv'
    BY <1>6, ChainKept DEF OpenPidFile
  <1>8. ASSUME NEW p \in Procs, WritePid(p) PROVE ChainInv'
    BY <1>8, ChainKept DEF WritePid
  <1>9. ASSUME NEW p \in Procs, LaunchFails(p) PROVE ChainInv'
    BY <1>9, ChainKept DEF LaunchFails, Refuse
  <1>10. ASSUME NEW p \in Procs, StartOk(p) PROVE ChainInv'
    BY <1>10, ChainKept DEF StartOk, D!StartOk
  <1>11. ASSUME NEW p \in Procs, BodyStep(p) PROVE ChainInv'
    BY <1>11, ChainKept DEF BodyStep, D!StartFails, D!Notify, D!Park,
                           D!Unsubscribe, D!StopReturns
  <1>12. ASSUME NEW p \in Procs, Dispatch(p) PROVE ChainInv'
    BY <1>12, ChainKept DEF Dispatch, D!Dispatch, D!Subscribed
  <1>13. ASSUME NEW p \in Procs, Return(p) PROVE ChainInv'
    BY <1>13, ChainKept DEF Return, D!Return
  <1>14. ASSUME NEW p \in Procs, Kill(p) PROVE ChainInv'
    BY <1>14, ChainKept DEF Kill, D!Kill, D!Alive
  <1>15. ASSUME NEW p \in Procs, Interrupt(p) PROVE ChainInv'
    BY <1>15, ChainKept DEF Interrupt, D!Signal, D!Catches, D!Alive
  <1>17. ASSUME NEW s \in Runs, Check(s) PROVE ChainInv'
    BY <1>17, ChainKept DEF Check
  <1>18. ASSUME NEW s \in Runs, TermPid(s) PROVE ChainInv'
    BY <1>18, ChainKept DEF TermPid, SignalTo, D!Signal, D!Catches, D!Alive
  <1>19. ASSUME NEW s \in Runs, NobodyToTerm(s) PROVE ChainInv'
    BY <1>19, ChainKept DEF NobodyToTerm
  <1>20. ASSUME NEW s \in Runs, KillWait(s) PROVE ChainInv'
    BY <1>20, ChainKept DEF KillWait, D!Kill, D!Alive
  <1>21. ASSUME NEW s \in Runs, Hup(s) PROVE ChainInv'
    BY <1>21, ChainKept DEF Hup, SignalTo, D!Signal, D!Catches, D!Alive
  <1>23. ASSUME NEW s \in Runs, NoExecutable(s) PROVE ChainInv'
    BY <1>23, ChainKept DEF NoExecutable
  <1>24. ASSUME NEW s \in Runs, Reap(s) PROVE ChainInv'
    BY <1>24, ChainKept DEF Reap
  <1>25. ASSUME NEW s \in Runs, NEW o \in ScriptOps, Invoke(s, o) PROVE ChainInv'
    BY <1>25, ChainKept DEF Invoke
  <1>26. CASE UNCHANGED vars
    BY <1>26, ChainKept DEF vars
  <1> USE DEF ChainInv, GenerationsCount, WalkCounts, WalkBounded,
              LaunchChainBounded
  <1>1. ASSUME NEW p \in Procs, Getppid(p) PROVE ChainInv'
    <2>1. Ppid(p) \in {forker[p], InitProc}
      BY DEF Ppid
    <2>2. /\ Ppid(p) \in Runs => gen[p] = 0
          /\ Ppid(p) \in Procs =>
                 pc[Ppid(p)] # "absent" /\ gen[p] = gen[Ppid(p)] + 1
      BY <2>1
    <2> QED
      BY <1>1, <2>2 DEF Getppid
  <1>2. ASSUME NEW p \in Procs, FindScript(p) PROVE ChainInv'
    BY <1>2 DEF FindScript
  <1>3. ASSUME NEW p \in Procs, PassAncestor(p) PROVE ChainInv'
    BY <1>3 DEF PassAncestor, BeginDaemon
  <1>4. ASSUME NEW p \in Procs, NextAncestor(p) PROVE ChainInv'
    <2>1. CASE cur[p] \in {InitProc, Outside}
      BY <1>4, <2>1 DEF NextAncestor, BeginDaemon
    <2>2. CASE cur[p] \notin {InitProc, Outside} /\ cur[p] \notin Procs
      BY <1>4, <2>2 DEF NextAncestor
    <2>3. CASE cur[p] \in Procs
      <3>1. Ppid(cur[p]) \in {forker[cur[p]], InitProc}
        BY DEF Ppid
      <3>2. /\ Ppid(cur[p]) \in Runs => gen[cur[p]] = 0
            /\ Ppid(cur[p]) \in Procs =>
                   /\ pc[Ppid(cur[p])] # "absent"
                   /\ gen[cur[p]] = gen[Ppid(cur[p])] + 1
        BY <2>3, <3>1
      <3>3. /\ pc' = [pc EXCEPT ![p] = "cmdline"]
            /\ cur' = [cur EXCEPT ![p] = Ppid(cur[p])]
            /\ idx' = [idx EXCEPT ![p] = idx[p] + 1]
            /\ gen' = gen /\ forker' = forker
        BY <1>4, <2>3 DEF NextAncestor
      <3>4. pc[p] = "stat" /\ gen[p] = gen[cur[p]] + idx[p] + 1
        BY <1>4, <2>3 DEF NextAncestor
      <3> QED
        BY <3>2, <3>3, <3>4
    <2> QED
      BY <2>1, <2>2, <2>3
  <1>7. ASSUME NEW p \in Procs, Fork(p) PROVE ChainInv'
    BY <1>7 DEF Fork, Execute
  <1>16. ASSUME NEW p \in Procs, Foreground(p) PROVE ChainInv'
    BY <1>16 DEF Foreground, Execute
  <1>22. ASSUME NEW s \in Runs, Spawn(s) PROVE ChainInv'
    BY <1>22 DEF Spawn, Execute
  <1> QED
    BY <1>1, <1>2, <1>3, <1>4, <1>5, <1>6, <1>7, <1>8, <1>9, <1>10, <1>11,
       <1>12, <1>13, <1>14, <1>15, <1>16, <1>17, <1>18, <1>19, <1>20, <1>21,
       <1>22, <1>23, <1>24, <1>25, <1>26
    DEF Next, Main, Launch, RunScript

\* The distances are right in every behaviour.
THEOREM ChainInvariant == SafetySpec => []ChainInv
  <1>1. Init => ChainInv
    BY NamesAssumption, WalkAssumption
    DEF Init, D!Init, ChainInv, GenerationsCount, WalkCounts, WalkBounded,
        LaunchChainBounded
  <1> QED
    BY <1>1, ChainStep, TypeCorrect, PTL DEF SafetySpec

\* SystemV.tla, LaunchChainBounded: launchers that launch launchers come to an
\* end at the number of ancestors isInitdOurParent looks at.
THEOREM LaunchChain == SafetySpec => []LaunchChainBounded
  <1>1. ChainInv => LaunchChainBounded
    BY DEF ChainInv
  <1> QED
    BY <1>1, ChainInvariant, PTL
=============================================================================
