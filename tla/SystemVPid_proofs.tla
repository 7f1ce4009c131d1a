-------------------------- MODULE SystemVPid_proofs --------------------------
(***************************************************************************)
(* Proofs about the PID file of System V, for any number of processes and  *)
(* script runs, on either kind of system: a launcher writes it before its  *)
(* child becomes a daemon, a daemon that returns never leaves its own PID  *)
(* behind, and with patience the file names the daemon that runs.          *)
(***************************************************************************)
EXTENDS SystemVContract_proofs

\* Where processes come from.  Nobody but a launcher forks, and it does so
\* once; what is executed by hand never becomes a launcher.
Forkers ==
    \A p \in Procs :
        /\ pc[p] # "absent" => forker[p] # NoProc
        /\ forker[p] \notin Procs => gen[p] = 0
        /\ forker[p] \in Procs =>
               /\ pc[forker[p]] \in {"write", "exited"}
               /\ forker[forker[p]] \in Procs \cup Runs

ForkOnce ==
    \A p, q \in Procs :
        (forker[p] = forker[q] /\ forker[p] \in Procs) => p = q

StrangersPass ==
    \A p \in Procs :
        forker[p] = Outside =>
            /\ pc[p] \notin {"open", "fork", "write"}
            /\ pc[p] \in {"cmdline", "stat"} => cur[p] = Outside

\* The script stays until the process it executed has ended.
ScriptWaits ==
    \A p \in Procs :
        forker[p] \in Runs =>
            /\ target[forker[p]] = p
            /\ \/ spc[forker[p]] = "wait"
               \/ spc[forker[p]] = "done" /\ pc[p] = "exited"

Kinship == Forkers /\ ForkOnce /\ StrangersPass /\ ScriptWaits

\* As long as the launcher lives its child's search is at the launcher, or at
\* the script that waits for the launcher: it finds the script or, when it
\* cannot read on, an error, but never the end of the ancestors.
WalkMeetsLauncher ==
    \A p \in Procs :
        (gen[p] = 1 /\ pc[forker[p]] # "exited") =>
            /\ app[p] = "idle"
            /\ pc[p] \in {"cmdline", "stat"} =>
                   \/ cur[p] = forker[p] /\ idx[p] = 0
                   \/ cur[p] = forker[forker[p]] /\ pc[p] = "cmdline"

\* The PID in the file is that of a launcher's child, the launcher has ended,
\* and the file it had open is still the one at that path.
NamedWasLaunched ==
    pidFile \in Procs =>
        /\ forker[pidFile] \in linked
        /\ pc[forker[pidFile]] = "exited"

\* Stop, or a failed Start, was in a process that became a daemon.
CleanMeansDaemon ==
    \A p \in Procs :
        outcome[p] \in {"nil", "startErr", "stopErr"} => app[p] # "idle"

PidInv == NamedWasLaunched /\ CleanMeansDaemon /\ CleanExitClearsPid

-----------------------------------------------------------------------------
(* Launchers, their children and the script.                               *)

\* The steps that execute nothing, begin no launch and no search, and leave
\* the scripts that wait alone.
LEMMA KinshipKept ==
    ASSUME Kinship, UNCHANGED <<forker, gen>>,
           \A p \in Procs :
               /\ pc[p] = "absent" => pc'[p] = "absent"
               /\ pc[p] = "exited" => pc'[p] = "exited"
               /\ pc[p] = "write" => pc'[p] \in {"write", "exited"}
               /\ pc'[p] \in {"open", "fork", "write"} =>
                      pc[p] \in {"open", "fork", "write"}
               /\ pc'[p] \in {"cmdline", "stat"} =>
                      pc[p] \in {"cmdline", "stat"} /\ cur'[p] = cur[p],
           \A s \in Runs :
               spc[s] \in {"wait", "done"} =>
                   spc'[s] = spc[s] /\ target'[s] = target[s]
    PROVE  Kinship'
  BY DEF Kinship, Forkers, ForkOnce, StrangersPass, ScriptWaits

\* Every step keeps the relations between processes and scripts.
LEMMA KinshipStep == TypeOK /\ Kinship /\ [Next]_vars => Kinship'
  <1> SUFFICES ASSUME TypeOK, Kinship, [Next]_vars PROVE Kinship'
    OBVIOUS
  <1> USE NamesAssumption
      DEF TypeOK, ProcTypeOK, ScriptTypeOK, dvars, tree, walk, script,
          LeaveWalk, D!Goto
  <1>1. ASSUME NEW p \in Procs,
               \/ LoseAncestor(p) \/ OpenPidFile(p) \/ WritePid(p)
               \/ LaunchFails(p) \/ PassAncestor(p)
        PROVE  Kinship'
    BY <1>1, KinshipKept
    DEF LoseAncestor, OpenPidFile, WritePid, LaunchFails, Refuse,
        PassAncestor, BeginDaemon
  <1>2. ASSUME NEW p \in Procs,
               StartOk(p) \/ BodyStep(p) \/ Dispatch(p) \/ Return(p)
        PROVE  Kinship'
    BY <1>2, KinshipKept
    DEF StartOk, D!StartOk, BodyStep, D!StartFails, D!Notify, D!Park,
        D!Unsubscribe, D!StopReturns, Dispatch, D!Dispatch, Return, D!Return
  <1>3. ASSUME NEW p \in Procs, Kill(p) \/ Interrupt(p) PROVE Kinship'
    BY <1>3, KinshipKept, SignalEndsOrNot
    DEF Kill, D!Kill, D!Alive, Interrupt
  <1>4. ASSUME NEW s \in Runs, TermPid(s) \/ Hup(s) PROVE Kinship'
    BY <1>4, KinshipKept, SignalToEndsOrNot
    DEF TermPid, Hup, SignalTo, PidSeen, Proceed, Enter, Finish
  <1>5. ASSUME NEW s \in Runs, KillWait(s) PROVE Kinship'
    BY <1>5, KinshipKept DEF KillWait, D!Kill, D!Alive, Proceed, Enter, Finish
  <1>6. ASSUME NEW s \in Runs,
               \/ Check(s) \/ NobodyToTerm(s) \/ NoExecutable(s)
               \/ \E o \in ScriptOps : Invoke(s, o)
        PROVE  Kinship'
    BY <1>6, KinshipKept
    DEF Check, NobodyToTerm, NoExecutable, Invoke, Proceed, Enter, Finish
  <1>7. CASE UNCHANGED vars
    BY <1>7, KinshipKept DEF vars
  <1> USE DEF Kinship, Forkers, ForkOnce, StrangersPass, ScriptWaits
  <1>8. ASSUME NEW p \in Procs, Getppid(p) \/ FindScript(p) \/ NextAncestor(p)
        PROVE  Kinship'
    BY <1>8 DEF Getppid, FindScript, NextAncestor, BeginDaemon, Ppid
  <1>9. ASSUME NEW p \in Procs, Fork(p) PROVE Kinship'
    BY <1>9 DEF Fork, Execute
  <1>10. ASSUME NEW p \in Procs, Foreground(p) PROVE Kinship'
    <2>1. /\ pc[p] = "absent" /\ pc'[p] \in {"boot", "start"}
          /\ \A q \in Procs \ {p} : pc'[q] = pc[q]
          /\ forker' = [forker EXCEPT ![p] = Outside]
          /\ gen' = [gen EXCEPT ![p] = 0]
          /\ UNCHANGED <<cur, spc, target>>
      BY <1>10 DEF Foreground, Execute
    <2>2. Outside # NoProc
      BY DEF Outside, NoProc
    <2>3. Forkers'
      BY <2>1, <2>2
    <2>4. ForkOnce' /\ StrangersPass' /\ ScriptWaits'
      BY <2>1
    <2> QED
      BY <2>3, <2>4
  <1>11. ASSUME NEW s \in Runs, Spawn(s) PROVE Kinship'
    BY <1>11 DEF Spawn, Execute, Enter
  <1>12. ASSUME NEW s \in Runs, Reap(s) PROVE Kinship'
    BY <1>12 DEF Reap, Finish
  <1> QED
    BY <1>1, <1>2, <1>3, <1>4, <1>5, <1>6, <1>7, <1>8, <1>9, <1>10, <1>11,
       <1>12
    DEF Next, Main, Launch, RunScript

\* Processes and scripts are related in this way in every behaviour.
THEOREM KinshipInvariant == SafetySpec => []Kinship
  <1>1. Init => Kinship
    BY NamesAssumption
    DEF Init, D!Init, Kinship, Forkers, ForkOnce, StrangersPass, ScriptWaits,
        Outside, NoProc
  <1> QED
    BY <1>1, KinshipStep, TypeCorrect, PTL DEF SafetySpec

\* A process of generation 1 is the child of a process that the script
\* executed, and the script waits while that launcher lives.
LEMMA LauncherOfFirst ==
    ASSUME TypeOK, Kinship, GenerationsCount, NEW p \in Procs, gen[p] = 1
    PROVE  /\ forker[p] \in Procs /\ forker[forker[p]] \in Runs
           /\ pc[forker[p]] # "exited" =>
                  spc[forker[forker[p]]] = "wait"
  <1>1. forker[p] \in Procs
    BY DEF Kinship, Forkers
  <1>2. gen[forker[p]] = 0
    <2>1. gen[p] = gen[forker[p]] + 1 /\ gen[forker[p]] \in Nat
      BY <1>1 DEF GenerationsCount, TypeOK, ProcTypeOK
    <2> QED
      BY <2>1
  <1>3. forker[forker[p]] \notin Procs
    <2>1. ASSUME forker[forker[p]] \in Procs
          PROVE  gen[forker[p]] = gen[forker[forker[p]]] + 1
                 /\ gen[forker[forker[p]]] \in Nat
      BY <1>1, <2>1 DEF GenerationsCount, TypeOK, ProcTypeOK
    <2> QED
      BY <1>2, <2>1
  <1> QED
    BY <1>1, <1>3 DEF Kinship, Forkers, ScriptWaits

-----------------------------------------------------------------------------
(* The launcher is gone before its child is a daemon.                      *)

\* The steps that begin no search and make nobody a daemon.
LEMMA WalkKept ==
    ASSUME WalkMeetsLauncher, UNCHANGED <<forker, gen>>,
           \A p \in Procs :
               /\ pc[p] = "exited" => pc'[p] = "exited"
               /\ app[p] = "idle" => app'[p] = "idle"
               /\ pc'[p] \in {"cmdline", "stat"} =>
                      pc'[p] = pc[p] /\ cur'[p] = cur[p] /\ idx'[p] = idx[p],
           \A p \in Procs : gen[p] = 1 => forker[p] \in Procs
    PROVE  WalkMeetsLauncher'
  BY DEF WalkMeetsLauncher

\* Every step keeps the search of a launcher's child where it meets the
\* script that waits.
LEMMA WalkStep ==
    (/\ TypeOK /\ Kinship /\ GenerationsCount /\ PhaseOfStep
     /\ WalkMeetsLauncher /\ [Next]_vars)
        => WalkMeetsLauncher'
  <1> SUFFICES ASSUME TypeOK, Kinship, GenerationsCount, PhaseOfStep,
                      WalkMeetsLauncher, [Next]_vars
               PROVE  WalkMeetsLauncher'
    OBVIOUS
  <1> USE NamesAssumption
      DEF TypeOK, ProcTypeOK, dvars, tree, walk, LeaveWalk, D!Goto
  <1>a. \A p \in Procs : gen[p] = 1 => forker[p] \in Procs
    BY DEF Kinship, Forkers
  <1>1. ASSUME NEW p \in Procs,
               \/ FindScript(p) \/ OpenPidFile(p) \/ WritePid(p)
               \/ LaunchFails(p) \/ LoseAncestor(p)
        PROVE  WalkMeetsLauncher'
    BY <1>1, <1>a, WalkKept
    DEF FindScript, OpenPidFile, WritePid, LaunchFails, LoseAncestor, Refuse
  <1>2. ASSUME NEW p \in Procs,
               StartOk(p) \/ BodyStep(p) \/ Dispatch(p) \/ Return(p)
        PROVE  WalkMeetsLauncher'
    BY <1>2, <1>a, WalkKept
    DEF StartOk, D!StartOk, BodyStep, D!StartFails, D!Notify, D!Park,
        D!Unsubscribe, D!StopReturns, Dispatch, D!Dispatch, Return, D!Return,
        PhaseOfStep, D!Subscribed
  <1>3. ASSUME NEW p \in Procs, Kill(p) \/ Interrupt(p)
        PROVE  WalkMeetsLauncher'
    BY <1>3, <1>a, WalkKept, SignalEndsOrNot
    DEF Kill, D!Kill, D!Alive, Interrupt
  <1>4. ASSUME NEW s \in Runs, TermPid(s) \/ Hup(s)
        PROVE  WalkMeetsLauncher'
    BY <1>4, <1>a, WalkKept, SignalToEndsOrNot
    DEF TermPid, Hup, SignalTo, PidSeen
  <1>5. ASSUME NEW s \in Runs, KillWait(s) PROVE WalkMeetsLauncher'
    BY <1>5, <1>a, WalkKept DEF KillWait, D!Kill, D!Alive
  <1>6. ASSUME NEW s \in Runs,
               \/ Check(s) \/ NobodyToTerm(s) \/ NoExecutable(s) \/ Reap(s)
               \/ \E o \in ScriptOps : Invoke(s, o)
        PROVE  WalkMeetsLauncher'
    BY <1>6, <1>a, WalkKept
    DEF Check, NobodyToTerm, NoExecutable, Reap, Invoke
  <1>7. CASE UNCHANGED vars
    BY <1>7, <1>a, WalkKept DEF vars
  \* A process executed anew has yet to search; nobody's launcher is new.
  <1>8. ASSUME NEW p \in Procs, Fork(p) PROVE WalkMeetsLauncher'
    BY <1>8 DEF Fork, Execute, PhaseOfStep, LaunchSteps, Kinship, Forkers,
                WalkMeetsLauncher
  <1>9. ASSUME NEW p \in Procs, Foreground(p) PROVE WalkMeetsLauncher'
    BY <1>9, <1>a DEF Foreground, Execute, Kinship, Forkers, WalkMeetsLauncher
  <1>10. ASSUME NEW s \in Runs, Spawn(s) PROVE WalkMeetsLauncher'
    BY <1>10, <1>a DEF Spawn, Execute, Kinship, Forkers, WalkMeetsLauncher
  \* The search itself, of a child whose launcher lives.
  <1>11. ASSUME NEW p \in Procs, Getppid(p) PROVE WalkMeetsLauncher'
    BY <1>11, <1>a DEF Getppid, Ppid, WalkMeetsLauncher
  <1>12. ASSUME NEW p \in Procs, PassAncestor(p) \/ NextAncestor(p)
         PROVE  WalkMeetsLauncher'
    <2>1. CASE gen[p] # 1 \/ pc[forker[p]] = "exited"
      BY <1>12, <1>a, <2>1
      DEF PassAncestor, NextAncestor, BeginDaemon, WalkMeetsLauncher
    <2>2. CASE gen[p] = 1 /\ pc[forker[p]] # "exited"
      <3>1. /\ forker[p] \in Procs /\ forker[forker[p]] \in Runs
            /\ spc[forker[forker[p]]] = "wait"
        BY <2>2, LauncherOfFirst
      <3>2. cur[p] = forker[p] /\ idx[p] = 0
        BY <1>12, <2>2, <3>1
        DEF PassAncestor, NextAncestor, WalkMeetsLauncher
      <3>3. CASE PassAncestor(p)
        BY <2>2, <3>1, <3>2, <3>3, <1>a, WalkAssumption
        DEF PassAncestor, WalkMeetsLauncher
      <3>4. CASE NextAncestor(p)
        BY <2>2, <3>1, <3>2, <3>4, <1>a
        DEF NextAncestor, Ppid, WalkMeetsLauncher
      <3> QED
        BY <1>12, <3>3, <3>4
    <2> QED
      BY <2>1, <2>2
  <1> QED
    BY <1>1, <1>2, <1>3, <1>4, <1>5, <1>6, <1>7, <1>8, <1>9, <1>10, <1>11,
       <1>12
    DEF Next, Main, Launch, RunScript

\* The search meets the launcher in every behaviour.
THEOREM WalkInvariant == SafetySpec => []WalkMeetsLauncher
  <1>1. Init => WalkMeetsLauncher
    BY DEF Init, D!Init, WalkMeetsLauncher
  <1>2. ChainInv => GenerationsCount
    BY DEF ChainInv
  <1> QED
    BY <1>1, <1>2, WalkStep, TypeCorrect, KinshipInvariant, ChainInvariant,
       PhaseInvariant, PTL
    DEF SafetySpec

\* SystemV.tla, LauncherGoneFirst: the child of the process the script
\* executed becomes a daemon only after its launcher has exited.
THEOREM LauncherGone == SafetySpec => []LauncherGoneFirst
  <1>1. WalkMeetsLauncher => LauncherGoneFirst
    BY DEF WalkMeetsLauncher, LauncherGoneFirst
  <1> QED
    BY <1>1, WalkInvariant, PTL

-----------------------------------------------------------------------------
(* A daemon that returns leaves no PID behind.                             *)

\* The steps that execute nothing, leave the files alone, and do not return
\* from the daemon's part of RunUntilExit.
LEMMA PidKept ==
    ASSUME PidInv, UNCHANGED <<forker, gen, pidFile, linked>>,
           \A p \in Procs :
               /\ pc[p] = "exited" => pc'[p] = "exited"
               /\ app'[p] = "idle" => app[p] = "idle"
               /\ outcome'[p] \in {"nil", "startErr", "stopErr"} =>
                      /\ outcome[p] = outcome'[p] \/ app'[p] # "idle"
                      /\ pc'[p] = "exited" =>
                             pc[p] = "exited" /\ outcome[p] = outcome'[p],
           pidFile \in Procs => forker[pidFile] \in Procs
    PROVE  PidInv'
  BY DEF PidInv, NamedWasLaunched, CleanMeansDaemon, CleanExitClearsPid

\* Every step keeps a PID out of the file once its process has returned.
LEMMA PidStep ==
    (/\ TypeOK /\ GenerationsCount /\ PhaseOfStep
     /\ ForkedHoldPidFile /\ LauncherGoneFirst /\ PidInv /\ [Next]_vars)
        => PidInv'
  <1> SUFFICES ASSUME TypeOK, GenerationsCount, PhaseOfStep,
                      ForkedHoldPidFile, LauncherGoneFirst, PidInv, [Next]_vars
               PROVE  PidInv'
    OBVIOUS
  <1> USE NamesAssumption
      DEF TypeOK, ProcTypeOK, FileTypeOK, dvars, tree, walk, files, LeaveWalk,
          D!Goto
  <1>a. pidFile \in Procs => forker[pidFile] \in Procs
    BY DEF PidInv, NamedWasLaunched
  <1>1. ASSUME NEW p \in Procs,
               \/ Getppid(p) \/ FindScript(p) \/ PassAncestor(p)
               \/ NextAncestor(p) \/ LoseAncestor(p) \/ LaunchFails(p)
        PROVE  PidInv'
    BY <1>1, <1>a, PidKept
    DEF Getppid, FindScript, PassAncestor, NextAncestor, BeginDaemon,
        LoseAncestor, LaunchFails, Refuse, PhaseOfStep, LaunchSteps
  <1>2. ASSUME NEW p \in Procs, StartOk(p) \/ BodyStep(p) \/ Dispatch(p)
        PROVE  PidInv'
    BY <1>2, <1>a, PidKept
    DEF StartOk, D!StartOk, BodyStep, D!StartFails, D!Notify, D!Park,
        D!Unsubscribe, D!StopReturns, Dispatch, D!Dispatch
  <1>3. ASSUME NEW p \in Procs, Kill(p) \/ Interrupt(p) PROVE PidInv'
    BY <1>3, <1>a, PidKept, SignalEndsOrNot
    DEF Kill, D!Kill, D!Alive, Interrupt
  <1>4. ASSUME NEW s \in Runs, TermPid(s) \/ Hup(s) PROVE PidInv'
    <2>1. PICK sig \in {"TERM", "HUP"} :
             \/ pidFile \in Procs /\ SignalTo(pidFile, sig)
             \/ UNCHANGED dvars
      BY <1>4 DEF TermPid, Hup, PidSeen
    <2>2. UNCHANGED <<tree, files>>
      BY <1>4 DEF TermPid, Hup
    <2> QED
      BY <2>1, <2>2, <1>a, PidKept, SignalToEndsOrNot
  <1>5. ASSUME NEW s \in Runs,
               \/ Check(s) \/ NoExecutable(s) \/ Reap(s)
               \/ \E o \in ScriptOps : Invoke(s, o)
        PROVE  PidInv'
    BY <1>5, <1>a, PidKept DEF Check, NoExecutable, Reap, Invoke
  <1>6. CASE UNCHANGED vars
    BY <1>6, <1>a, PidKept DEF vars
  <1> USE DEF PidInv, NamedWasLaunched, CleanMeansDaemon, CleanExitClearsPid
  \* What is executed anew is not in the file.
  <1>7. ASSUME NEW p \in Procs, Fork(p) \/ Foreground(p) PROVE PidInv'
    BY <1>7 DEF Fork, Foreground, Execute, GenerationsCount, PhaseOfStep,
                LaunchSteps
  <1>8. ASSUME NEW s \in Runs, Spawn(s) PROVE PidInv'
    BY <1>8 DEF Spawn, Execute, GenerationsCount, PhaseOfStep, LaunchSteps
  \* The file is emptied, or removed.
  <1>9. ASSUME NEW p \in Procs, OpenPidFile(p) PROVE PidInv'
    BY <1>9 DEF OpenPidFile
  <1>10. ASSUME NEW s \in Runs, NobodyToTerm(s) PROVE PidInv'
    BY <1>10 DEF NobodyToTerm, RemovePidFile
  <1>11. ASSUME NEW s \in Runs, KillWait(s) PROVE PidInv'
    BY <1>11 DEF KillWait, D!Kill, D!Alive, RemovePidFile
  <1>12. ASSUME NEW p \in Procs, Return(p) PROVE PidInv'
    <2>1. CleanMeansDaemon' /\ NamedWasLaunched'
      BY <1>12 DEF Return, D!Return
    <2>2. pidFile = p => pidFile' = Empty
      BY <1>12, <1>a DEF Return, ForkedHoldPidFile
    <2>3. CleanExitClearsPid'
      BY <1>12, <2>2 DEF Return, D!Return
    <2> QED
      BY <2>1, <2>3
  \* The launcher writes its child's PID while the child is no daemon yet.
  <1>13. ASSUME NEW p \in Procs, WritePid(p) PROVE PidInv'
    <2>1. PICK c \in Procs :
             /\ forker[c] = p
             /\ pidFile' = IF p \in linked THEN c ELSE pidFile
      BY <1>13 DEF WritePid
    <2>2. /\ pc[p] = "write" /\ pc' = [pc EXCEPT ![p] = "exited"]
          /\ outcome' = [outcome EXCEPT ![p] = "launched"]
          /\ UNCHANGED <<app, forker, gen, linked>>
      BY <1>13 DEF WritePid
    <2>3. CleanMeansDaemon' /\ NamedWasLaunched'
      BY <2>1, <2>2
    <2>4. gen[c] = 1 => outcome[c] \notin {"nil", "startErr", "stopErr"}
      BY <2>1, <2>2 DEF LauncherGoneFirst
    <2>5. CleanExitClearsPid'
      BY <2>1, <2>2, <2>4
    <2> QED
      BY <2>3, <2>5
  <1> QED
    BY <1>1, <1>2, <1>3, <1>4, <1>5, <1>6, <1>7, <1>8, <1>9, <1>10, <1>11,
       <1>12, <1>13
    DEF Next, Main, Launch, RunScript

\* What the PID file holds is in order in every behaviour.
THEOREM PidInvariant == SafetySpec => []PidInv
  <1>1. Init => PidInv
    BY NamesAssumption
    DEF Init, D!Init, PidInv, NamedWasLaunched, CleanMeansDaemon,
        CleanExitClearsPid
  <1>2. ChainInv => GenerationsCount
    BY DEF ChainInv
  <1> QED
    BY <1>1, <1>2, PidStep, TypeCorrect, ChainInvariant, PhaseInvariant,
       DescriptorInvariant, LauncherGone, PTL
    DEF SafetySpec

\* SystemV.tla, CleanExitClearsPid: the PID file never names the daemon that
\* a script's first launcher started, once its RunUntilExit has returned.
THEOREM CleanExit == SafetySpec => []CleanExitClearsPid
  <1>1. PidInv => CleanExitClearsPid
    BY DEF PidInv
  <1> QED
    BY <1>1, PidInvariant, PTL
=============================================================================
