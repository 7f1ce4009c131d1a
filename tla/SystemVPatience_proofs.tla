------------------------ MODULE SystemVPatience_proofs ------------------------
(***************************************************************************)
(* Proof that patience keeps the PID file of System V right, for any       *)
(* number of processes and script runs: when each command waits until      *)
(* things have settled and launches go as intended, the file names the     *)
(* daemon that runs, except after Debian's restart.                        *)
(***************************************************************************)
EXTENDS SystemVPid_proofs

\* What OnlyRestartLosesPid supposes of the behaviour so far.
Patient ==
    /\ ~hasty /\ NoMishap
    /\ IsRedHat \/ \A s \in Runs : op[s] # "restart"

\* A run that was not invoked has no argument.
IdleNoOp == \A s \in Runs : spc[s] = "idle" => op[s] = NoProc

Child(p)  == forker[p] \in Procs /\ D!Alive(p)
Active(s) == spc[s] \notin {"idle", "done"}

\* The processes: one child of a launcher at a time.  When its launcher is
\* done its PID is in the file, unless it takes itself for a launcher; and
\* a launcher that forks has the file open that is at that path.
OneChild == \A p, q \in Procs : Child(p) /\ Child(q) => p = q

ChildNamed ==
    \A p \in Procs :
        (/\ Child(p) /\ pc[p] \notin {"open", "fork", "write"}
         /\ pc[forker[p]] = "exited") => pidFile = p

LauncherLinked ==
    \A p \in Procs :
        (forker[p] \in Runs /\ pc[p] \in {"fork", "write"}) => p \in linked

\* The scripts: one run at a time.  It executes the program only when nobody
\* lives, and it knows whose child it waits for, or which one it is to stop.
OneScript == \A s, t \in Runs : Active(s) /\ Active(t) => s = t

ScriptKnowsChild ==
    \A s \in Runs, p \in Procs :
        (Active(s) /\ Child(p)) =>
            /\ spc[s] # "spawn"
            /\ spc[s] = "wait" => forker[p] = target[s]
            /\ spc[s] # "wait" => pc[p] \notin LaunchSteps
            /\ spc[s] = "killwait" => p = target[s]

ProcsOrderly   == OneChild /\ ChildNamed /\ LauncherLinked
ScriptsOrderly == OneScript /\ ScriptKnowsChild

Orderly == Patient => ProcsOrderly /\ ScriptsOrderly

-----------------------------------------------------------------------------

\* Every step leaves runs that were not invoked without an argument.
LEMMA IdleStep == TypeOK /\ IdleNoOp /\ [Next]_vars => IdleNoOp'
  <1> SUFFICES ASSUME TypeOK, IdleNoOp, [Next]_vars PROVE IdleNoOp'
    OBVIOUS
  <1> USE DEF TypeOK, ScriptTypeOK, IdleNoOp, script
  <1>1. ASSUME NEW p \in Procs, Main(p) \/ Dispatch(p) \/ Kill(p)
                                \/ Foreground(p) \/ Interrupt(p)
        PROVE  UNCHANGED <<op, spc>>
    BY <1>1
    DEF Main, Launch, Getppid, FindScript, PassAncestor, NextAncestor,
        LoseAncestor, OpenPidFile, Fork, WritePid, LaunchFails, StartOk,
        BodyStep, Return, Dispatch, Kill, Foreground, Interrupt
  <1>2. ASSUME NEW s \in Runs, RunScript(s)
        PROVE  op' = op /\ \E to \in {"done", "spawn", "kill", "killwait",
                                      "wait"} :
                               spc' = [spc EXCEPT ![s] = to]
    BY <1>2
    DEF RunScript, Check, TermPid, NobodyToTerm, KillWait, Hup, Spawn,
        NoExecutable, Reap, Proceed, Enter, Finish
  <1>3. ASSUME NEW s \in Runs, NEW o \in ScriptOps, Invoke(s, o)
        PROVE  /\ op' = [op EXCEPT ![s] = o]
               /\ \E to \in {"kill", "hup", "check"} :
                      spc' = [spc EXCEPT ![s] = to]
    BY <1>3 DEF Invoke
  <1> QED
    BY <1>1, <1>2, <1>3 DEF Next, vars

\* What a process was, and how it ended, does not change any more.
LEMMA PastStays ==
    ASSUME TypeOK, [Next]_vars, NEW p \in Procs
    PROVE  /\ pc[p] = "exited" =>
                  pc'[p] = "exited" /\ outcome'[p] = outcome[p]
           /\ pc[p] # "absent" =>
                  forker'[p] = forker[p] /\ gen'[p] = gen[p]
  <1> DEFINE Same ==
        /\ pc[p] = "exited" => pc'[p] = "exited" /\ outcome'[p] = outcome[p]
        /\ pc[p] # "absent" => forker'[p] = forker[p] /\ gen'[p] = gen[p]
  <1> USE DEF TypeOK, ProcTypeOK, dvars, tree, D!Goto
  <1>1. ASSUME NEW q \in Procs,
               \/ Getppid(q) \/ FindScript(q) \/ PassAncestor(q)
               \/ NextAncestor(q) \/ LoseAncestor(q) \/ OpenPidFile(q)
               \/ WritePid(q) \/ LaunchFails(q)
        PROVE  Same
    BY <1>1
    DEF Getppid, FindScript, PassAncestor, NextAncestor, BeginDaemon,
        LoseAncestor, OpenPidFile, WritePid, LaunchFails, Refuse
  <1>2. ASSUME NEW q \in Procs,
               StartOk(q) \/ BodyStep(q) \/ Dispatch(q) \/ Return(q)
        PROVE  Same
    BY <1>2
    DEF StartOk, D!StartOk, BodyStep, D!StartFails, D!Notify, D!Park,
        D!Unsubscribe, D!StopReturns, Dispatch, D!Dispatch, Return, D!Return
  <1>3. ASSUME NEW q \in Procs, Kill(q) \/ Interrupt(q) PROVE Same
    BY <1>3, SignalEndsOrNot DEF Kill, D!Kill, D!Alive, Interrupt
  <1>4. ASSUME NEW q \in Procs, Fork(q) \/ Foreground(q) PROVE Same
    BY <1>4 DEF Fork, Foreground, Execute
  <1>5. ASSUME NEW s \in Runs, TermPid(s) \/ Hup(s) PROVE Same
    BY <1>5, SignalToEndsOrNot DEF TermPid, Hup, PidSeen
  <1>6. ASSUME NEW s \in Runs, KillWait(s) \/ Spawn(s) PROVE Same
    BY <1>6 DEF KillWait, D!Kill, D!Alive, Spawn, Execute
  <1>7. ASSUME NEW s \in Runs,
               \/ Check(s) \/ NobodyToTerm(s) \/ NoExecutable(s) \/ Reap(s)
               \/ \E o \in ScriptOps : Invoke(s, o)
        PROVE  Same
    BY <1>7 DEF Check, NobodyToTerm, NoExecutable, Reap, Invoke
  <1>8. CASE UNCHANGED vars
    BY <1>8 DEF vars
  <1> QED
    BY <1>1, <1>2, <1>3, <1>4, <1>5, <1>6, <1>7, <1>8
    DEF Next, Main, Launch, RunScript

\* Once lost, patience is lost for good.
LEMMA PatientBefore ==
    ASSUME TypeOK, GenerationsCount, IdleNoOp, Kinship, [Next]_vars, Patient'
    PROVE  Patient
  <1> USE DEF TypeOK, ProcTypeOK, ScriptTypeOK
  <1>1. hasty' = hasty \/ \E s \in Runs, o \in ScriptOps : Invoke(s, o)
    BY DEF Next, vars, script, Main, Launch, Getppid, FindScript,
           PassAncestor, NextAncestor, LoseAncestor, OpenPidFile, Fork,
           WritePid, LaunchFails, StartOk, BodyStep, Return, Dispatch, Kill,
           Foreground, Interrupt, RunScript, Check, TermPid, NobodyToTerm,
           KillWait, Hup, Spawn, NoExecutable, Reap, Proceed, Enter, Finish
  <1>2. ~hasty
    BY <1>1 DEF Patient, Invoke
  <1>3. NoMishap
    <2> SUFFICES ASSUME NEW p \in Procs
                 PROVE  /\ gen[p] <= 1
                        /\ gen[p] = 1 /\ pc[forker[p]] = "exited" =>
                               outcome[forker[p]] = "launched"
      BY DEF NoMishap
    <2>1. CASE pc[p] = "absent"
      BY <2>1 DEF GenerationsCount
    <2>2. CASE pc[p] # "absent"
      <3>1. forker'[p] = forker[p] /\ gen'[p] = gen[p]
        BY <2>2, PastStays
      <3>2. gen[p] = 1 => forker[p] \in Procs
        BY DEF Kinship, Forkers
      <3>3. (gen[p] = 1 /\ pc[forker[p]] = "exited") =>
                /\ pc'[forker[p]] = "exited"
                /\ outcome'[forker[p]] = outcome[forker[p]]
        BY <3>2, PastStays
      <3> QED
        BY <3>1, <3>3 DEF Patient, NoMishap
    <2> QED
      BY <2>1, <2>2
  <1>4. ASSUME NEW s \in Runs, op[s] = "restart" PROVE op'[s] = "restart"
    <2>1. spc[s] # "idle"
      BY <1>4 DEF IdleNoOp, NoProc
    <2>2. \A t \in Runs : op'[t] = op[t] \/ spc[t] = "idle"
      BY DEF Next, vars, script, Main, Launch, Getppid, FindScript,
             PassAncestor, NextAncestor, LoseAncestor, OpenPidFile, Fork,
             WritePid, LaunchFails, StartOk, BodyStep, Return, Dispatch, Kill,
             Foreground, Interrupt, RunScript, Check, TermPid, NobodyToTerm,
             KillWait, Hup, Spawn, NoExecutable, Reap, Proceed, Enter,
             Finish, Invoke
    <2> QED
      BY <1>4, <2>1, <2>2
  <1> QED
    BY <1>2, <1>3, <1>4 DEF Patient

-----------------------------------------------------------------------------
(* What patience says of children and scripts.                             *)

\* Without mishaps a child's launcher was executed by a script, which waits
\* as long as the launcher lives.
LEMMA ChildOfScript ==
    ASSUME TypeOK, Kinship, GenerationsCount, NoMishap,
           NEW p \in Procs, forker[p] \in Procs
    PROVE  /\ gen[p] = 1 /\ forker[forker[p]] \in Runs
           /\ pc[forker[p]] # "exited" => spc[forker[forker[p]]] = "wait"
  <1>1. gen[p] = gen[forker[p]] + 1 /\ gen[forker[p]] \in Nat
    BY DEF GenerationsCount, TypeOK, ProcTypeOK
  <1>2. gen[p] = 1
    BY <1>1 DEF NoMishap
  <1> QED
    BY <1>2, LauncherOfFirst

\* A script at work that waits for nobody's launch: there is no launcher, and
\* a child that lives is a daemon with its PID in the file.
LEMMA BetweenLaunches ==
    ASSUME TypeOK, Kinship, GenerationsCount, NoMishap, ProcsOrderly,
           ScriptsOrderly, NEW s \in Runs, Active(s), spc[s] # "wait",
           NEW p \in Procs
    PROVE  /\ forker[p] \in Runs => pc[p] = "exited"
           /\ Child(p) => pidFile = p /\ pc[p] \notin LaunchSteps
  <1>1. \A t \in Runs : spc[t] # "wait"
    BY DEF ScriptsOrderly, OneScript, Active
  <1>2. CASE forker[p] \in Runs
    BY <1>1, <1>2, NamesAssumption DEF Kinship, ScriptWaits, Child
  <1>3. CASE Child(p)
    <2>1. pc[forker[p]] = "exited"
      BY <1>1, <1>3, ChildOfScript DEF Child
    <2>2. pc[p] \notin LaunchSteps
      BY <1>3 DEF ScriptsOrderly, ScriptKnowsChild
    <2> QED
      BY <1>3, <2>1, <2>2, NamesAssumption
      DEF ProcsOrderly, ChildNamed, LaunchSteps, Child
  <1> QED
    BY <1>2, <1>3

\* The steps that execute nothing and leave the files alone, by which no
\* launcher ends as it should: any other end is a mishap.
LEMMA ProcsKept ==
    ASSUME TypeOK, Kinship, GenerationsCount, ProcsOrderly, NoMishap',
           UNCHANGED <<forker, gen, pidFile, linked>>,
           \A p \in Procs :
               /\ pc[p] \in {"absent", "exited"} => pc'[p] = pc[p]
               /\ pc'[p] \in {"fork", "write"} => pc[p] \in {"fork", "write"}
               /\ pc[p] \in {"open", "fork", "write"} =>
                      pc'[p] \in {"open", "fork", "write", "exited"}
               /\ pc[p] = "write" /\ pc'[p] = "exited" =>
                      outcome'[p] # "launched"
    PROVE  ProcsOrderly'
  <1>1. \A p \in Procs : Child(p)' => Child(p)
    BY DEF Child, D!Alive
  <1>2. ASSUME NEW p \in Procs, Child(p), pc'[forker[p]] = "exited"
        PROVE  pc[forker[p]] = "exited"
    <2>1. forker[p] \in Procs /\ pc[forker[p]] \in {"write", "exited"}
      BY <1>2 DEF Child, Kinship, Forkers
    <2>2. gen[p] = 1
      <3>1. gen[p] = gen[forker[p]] + 1 /\ gen[forker[p]] \in Nat
        BY <2>1 DEF GenerationsCount, TypeOK, ProcTypeOK
      <3>2. gen[p] <= 1
        BY DEF NoMishap
      <3> QED
        BY <3>1, <3>2
    <2>3. outcome'[forker[p]] = "launched"
      BY <1>2, <2>2 DEF NoMishap
    <2> QED
      BY <1>2, <2>1, <2>3
  <1>3. OneChild' /\ LauncherLinked'
    BY <1>1 DEF ProcsOrderly, OneChild, LauncherLinked
  <1>4. ChildNamed'
    <2> SUFFICES ASSUME NEW p \in Procs, Child(p)',
                        pc'[p] \notin {"open", "fork", "write"},
                        pc'[forker[p]] = "exited"
                 PROVE  pidFile = p
      BY DEF ChildNamed
    <2>1. Child(p) /\ pc[forker[p]] = "exited"
      BY <1>1, <1>2
    <2>2. pc[p] \notin {"open", "fork", "write"}
      BY DEF Child, D!Alive
    <2> QED
      BY <2>1, <2>2 DEF ProcsOrderly, ChildNamed
  <1> QED
    BY <1>3, <1>4 DEF ProcsOrderly

\* The steps by which nobody comes to life or starts over, and no script does
\* anything but end.
LEMMA ScriptsKept ==
    ASSUME ScriptsOrderly, UNCHANGED <<forker, target>>,
           \A p \in Procs :
               /\ pc[p] \in {"absent", "exited"} => pc'[p] = pc[p]
               /\ pc'[p] \in LaunchSteps => pc[p] \in LaunchSteps,
           \A s \in Runs : spc'[s] = spc[s] \/ spc'[s] = "done"
    PROVE  ScriptsOrderly'
  <1>1. \A p \in Procs : Child(p)' => Child(p)
    BY DEF Child, D!Alive
  <1>2. \A s \in Runs : Active(s)' => Active(s) /\ spc'[s] = spc[s]
    BY DEF Active
  <1> QED
    BY <1>1, <1>2 DEF ScriptsOrderly, OneScript, ScriptKnowsChild

\* While a process that a script executed lives, a child is its child.
LEMMA ChildOfLauncher ==
    ASSUME TypeOK, Kinship, ScriptsOrderly,
           NEW p \in Procs, forker[p] \in Runs, D!Alive(p),
           NEW q \in Procs, Child(q)
    PROVE  forker[q] = p
  <1>1. target[forker[p]] = p /\ spc[forker[p]] = "wait"
    BY DEF Kinship, ScriptWaits, D!Alive
  <1> QED
    BY <1>1 DEF ScriptsOrderly, ScriptKnowsChild, Active

-----------------------------------------------------------------------------
(* Patience keeps processes and scripts in order, step by step.            *)

\* The steps of launching that touch the tree or the PID file.
LEMMA LaunchOrderly ==
    ASSUME TypeOK, Kinship, GenerationsCount, ProcsOrderly, ScriptsOrderly,
           NoMishap, NoMishap', NEW p \in Procs,
           OpenPidFile(p) \/ Fork(p) \/ WritePid(p)
    PROVE  ProcsOrderly' /\ ScriptsOrderly'
  <1> USE NamesAssumption
      DEF TypeOK, ProcTypeOK, FileTypeOK, dvars, tree, script, D!Goto
  <1>1. forker[p] \in Procs \cup Runs /\ D!Alive(p)
    BY DEF OpenPidFile, Fork, WritePid, Kinship, Forkers, StrangersPass,
           D!Alive
  <1>2. ASSUME NEW q \in Procs, Child(q), pc[p] \in {"open", "fork"}
        PROVE  q = p /\ forker[p] \in Procs
    <2>1. forker[q] # p
      BY <1>2 DEF Kinship, Forkers, Child
    <2>2. forker[p] \notin Runs
      BY <1>1, <1>2, <2>1, ChildOfLauncher
    <2> QED
      BY <1>1, <1>2, <2>2 DEF ProcsOrderly, OneChild, Child
  <1>3. CASE OpenPidFile(p)
    <2>1. /\ pc[p] = "open" /\ pc' = [pc EXCEPT ![p] = "fork"]
          /\ linked' = linked \cup {p} /\ forker' = forker
          /\ UNCHANGED <<spc, target>>
      BY <1>3 DEF OpenPidFile
    <2>2. ScriptsOrderly'
      BY <2>1, ScriptsKept DEF LaunchSteps
    <2>3. OneChild' /\ LauncherLinked'
      BY <2>1 DEF ProcsOrderly, OneChild, LauncherLinked, Child, D!Alive
    <2>4. ChildNamed'
      BY <2>1, <1>2 DEF ChildNamed, Child, D!Alive
    <2> QED
      BY <2>2, <2>3, <2>4 DEF ProcsOrderly
  <1>4. CASE Fork(p)
    <2>1. PICK c \in Procs :
             /\ pc[c] = "absent" /\ pc[p] = "fork" /\ c # p
             /\ pc' = [pc EXCEPT ![p] = "write", ![c] = "boot"]
             /\ forker' = [forker EXCEPT ![c] = p]
             /\ gen' = [gen EXCEPT ![c] = gen[p] + 1]
             /\ UNCHANGED <<pidFile, linked, spc, target>>
      BY <1>4 DEF Fork, Execute
    <2>2. gen[p] = 0
      BY <2>1 DEF NoMishap
    <2>3. forker[p] \in Runs
      <3>1. ASSUME forker[p] \in Procs
            PROVE  gen[p] = gen[forker[p]] + 1 /\ gen[forker[p]] \in Nat
        BY <3>1 DEF GenerationsCount
      <3> QED
        BY <1>1, <2>2, <3>1
    <2>4. \A q \in Procs : ~Child(q)
      BY <1>2, <2>1, <2>3
    <2>5. \A q \in Procs : Child(q)' => q = c
      BY <2>1, <2>4 DEF Child, D!Alive
    <2>6. ProcsOrderly'
      <3>1. OneChild'
        BY <2>5 DEF OneChild
      <3>2. ChildNamed'
        BY <2>1, <2>5 DEF ChildNamed
      <3>3. LauncherLinked'
        BY <2>1 DEF LauncherLinked, ProcsOrderly
      <3> QED
        BY <3>1, <3>2, <3>3 DEF ProcsOrderly
    <2>7. ScriptsOrderly'
      <3>1. /\ Active(forker[p]) /\ spc[forker[p]] = "wait"
            /\ target[forker[p]] = p
        BY <1>1, <2>3 DEF Kinship, ScriptWaits, D!Alive, Active
      <3>2. OneScript'
        BY <2>1 DEF ScriptsOrderly, OneScript, Active
      <3>3. ScriptKnowsChild'
        <4> SUFFICES ASSUME NEW s \in Runs, NEW q \in Procs, Active(s),
                            Child(q)'
                     PROVE  spc[s] = "wait" /\ forker'[q] = target[s]
          BY <2>1 DEF ScriptKnowsChild, Active
        <4>1. s = forker[p]
          BY <2>3, <3>1 DEF ScriptsOrderly, OneScript
        <4> QED
          BY <2>1, <2>5, <3>1, <4>1
      <3> QED
        BY <3>2, <3>3 DEF ScriptsOrderly
    <2> QED
      BY <2>6, <2>7
  <1>5. CASE WritePid(p)
    <2>1. PICK c \in Procs :
             /\ forker[c] = p
             /\ pidFile' = IF p \in linked THEN c ELSE pidFile
      BY <1>5 DEF WritePid
    <2>2. /\ pc[p] = "write" /\ pc' = [pc EXCEPT ![p] = "exited"]
          /\ UNCHANGED <<forker, linked, spc, target>>
      BY <1>5 DEF WritePid
    <2>3. forker[p] \in Runs
      BY <2>1, ChildOfScript
    <2>4. pidFile' = c
      BY <2>1, <2>2, <2>3 DEF ProcsOrderly, LauncherLinked
    <2>5. \A q \in Procs : Child(q)' => Child(q)
      BY <2>2 DEF Child, D!Alive
    <2>6. \A q \in Procs : Child(q) => q = c
      BY <1>1, <2>1, <2>3, ChildOfLauncher DEF Kinship, ForkOnce
    <2>7. ProcsOrderly'
      BY <2>2, <2>4, <2>5, <2>6
      DEF ProcsOrderly, OneChild, ChildNamed, LauncherLinked
    <2>8. ScriptsOrderly'
      BY <2>2, ScriptsKept DEF LaunchSteps
    <2> QED
      BY <2>7, <2>8
  <1> QED
    BY <1>3, <1>4, <1>5

\* The other steps of a process.
LEMMA ProcessOrderly ==
    ASSUME TypeOK, Kinship, GenerationsCount, ProcsOrderly,
           ScriptsOrderly, NoMishap, NoMishap', NEW p \in Procs,
           \/ Main(p) \/ Dispatch(p)
           \/ Kill(p) \/ Foreground(p) \/ Interrupt(p)
    PROVE  ProcsOrderly' /\ ScriptsOrderly'
  <1> USE NamesAssumption
      DEF TypeOK, ProcTypeOK, FileTypeOK, dvars, tree, files, script, D!Goto
  <1>1. CASE \/ Getppid(p) \/ FindScript(p) \/ PassAncestor(p)
             \/ NextAncestor(p) \/ LoseAncestor(p) \/ LaunchFails(p)
    BY <1>1, ProcsKept, ScriptsKept
    DEF Getppid, FindScript, PassAncestor, NextAncestor, BeginDaemon,
        LoseAncestor, LaunchFails, Refuse, LaunchSteps
  <1>2. CASE OpenPidFile(p) \/ Fork(p) \/ WritePid(p)
    BY <1>2, LaunchOrderly
  <1>3. CASE StartOk(p) \/ BodyStep(p) \/ Dispatch(p)
    BY <1>3, ProcsKept, ScriptsKept
    DEF StartOk, D!StartOk, BodyStep, D!StartFails, D!Notify, D!Park,
        D!Unsubscribe, D!StopReturns, Dispatch, D!Dispatch, LaunchSteps
  <1>4. CASE Kill(p) \/ Interrupt(p)
    BY <1>4, ProcsKept, ScriptsKept, SignalEndsOrNot
    DEF Kill, D!Kill, D!Alive, Interrupt, LaunchSteps
  <1>5. CASE Return(p)
    <2>1. /\ pc[p] = "defers" /\ pc' = [pc EXCEPT ![p] = "exited"]
          /\ pidFile' = pidFile \/ forker[p] \in linked
          /\ UNCHANGED <<forker, linked, spc, target>>
      BY <1>5 DEF Return, D!Return
    <2>2. ScriptsOrderly'
      BY <2>1, ScriptsKept DEF LaunchSteps
    <2>3. OneChild' /\ LauncherLinked'
      BY <2>1 DEF ProcsOrderly, OneChild, LauncherLinked, Child, D!Alive
    <2>4. ASSUME NEW q \in Procs, Child(q)'
          PROVE  Child(q) /\ q # p /\ pc'[q] = pc[q] /\ forker[q] # p
                 /\ pidFile' = pidFile
      <3>1. Child(q) /\ q # p /\ pc'[q] = pc[q]
        BY <2>1, <2>4 DEF Child, D!Alive
      <3>2. forker[q] # p
        BY <2>1, <3>1 DEF Child, Kinship, Forkers
      <3>3. forker[p] \notin Procs
        BY <2>1, <3>1 DEF ProcsOrderly, OneChild, Child, D!Alive
      <3> QED
        BY <2>1, <3>1, <3>2, <3>3
    <2>5. ChildNamed'
      BY <2>1, <2>4 DEF ProcsOrderly, ChildNamed, Child
    <2> QED
      BY <2>2, <2>3, <2>5 DEF ProcsOrderly
  <1>6. CASE Foreground(p)
    <2>1. /\ pc[p] = "absent" /\ pc'[p] \in {"boot", "start"}
          /\ \A q \in Procs \ {p} : pc'[q] = pc[q]
          /\ forker' = [forker EXCEPT ![p] = Outside]
          /\ UNCHANGED <<pidFile, linked, spc, target>>
      BY <1>6 DEF Foreground, Execute
    <2>2. ASSUME NEW q \in Procs, Child(q)'
          PROVE  /\ Child(q) /\ pc'[q] = pc[q] /\ forker'[q] = forker[q]
                 /\ forker[q] \in Procs \ {p}
      BY <2>1, <2>2 DEF Child, D!Alive, Kinship, Forkers
    <2>3. OneChild' /\ LauncherLinked'
      BY <2>1, <2>2 DEF ProcsOrderly, OneChild, LauncherLinked
    <2>4. ChildNamed'
      BY <2>1, <2>2 DEF ProcsOrderly, ChildNamed
    <2>5. ScriptsOrderly'
      BY <2>1, <2>2
      DEF ScriptsOrderly, OneScript, ScriptKnowsChild, Active
    <2> QED
      BY <2>3, <2>4, <2>5 DEF ProcsOrderly
  <1> QED
    BY <1>1, <1>2, <1>3, <1>4, <1>5, <1>6 DEF Main, Launch

\* The steps of a run of the script.
LEMMA ScriptOrderly ==
    ASSUME TypeOK, Kinship, GenerationsCount, ProcsOrderly,
           ScriptsOrderly, Patient, NoMishap', NEW s \in Runs, RunScript(s)
    PROVE  ProcsOrderly' /\ ScriptsOrderly'
  <1> USE NamesAssumption
      DEF TypeOK, ProcTypeOK, FileTypeOK, ScriptTypeOK, dvars, tree, files,
          script, D!Goto
  <1>a. NoMishap
    BY DEF Patient
  \* The ways a run goes on when no child is left, or every child is one
  \* whose PID is in the file.
  <1>b. ASSUME Active(s), UNCHANGED forker,
               \A p \in Procs : ~Child(p)',
               NEW to \in {"spawn", "wait", "done"},
               spc' = [spc EXCEPT ![s] = to]
        PROVE  ScriptsOrderly'
    BY <1>b DEF ScriptsOrderly, OneScript, ScriptKnowsChild, Active
  <1>1. CASE Hup(s) \/ Reap(s) \/ NoExecutable(s)
    <2>1. \/ UNCHANGED dvars
          \/ pidFile \in Procs /\ SignalTo(pidFile, "HUP")
      BY <1>1 DEF Hup, Reap, NoExecutable, PidSeen
    <2>2. UNCHANGED <<tree, files, target>> /\ spc' = [spc EXCEPT ![s] = "done"]
      BY <1>1 DEF Hup, Reap, NoExecutable, Finish
    <2> QED
      BY <2>1, <2>2, <1>a, ProcsKept, ScriptsKept, SignalToEndsOrNot
      DEF LaunchSteps
  <1>2. CASE Check(s)
    <2>1. /\ spc[s] = "check" /\ Active(s)
          /\ UNCHANGED <<pc, forker, target, pidFile, linked>>
      BY <1>2 DEF Check, Active
    <2>2. ProcsOrderly'
      BY <2>1 DEF ProcsOrderly, OneChild, ChildNamed, LauncherLinked, Child,
                  D!Alive
    <2>3. CASE spc' = [spc EXCEPT ![s] = "done"]
      BY <2>1, <2>2, <2>3, ScriptsKept
    <2>4. CASE spc' = [spc EXCEPT ![s] = "kill"]
      BY <2>1, <2>2, <2>4
      DEF ScriptsOrderly, OneScript, ScriptKnowsChild, Active, Child, D!Alive
    <2>5. CASE spc' = [spc EXCEPT ![s] = "spawn"] /\ PidUnseen
      <3>1. \A p \in Procs : ~Child(p)
        BY <1>a, <2>1, <2>5, BetweenLaunches
        DEF PidUnseen, MayMiss, Child, D!Alive
      <3> QED
        BY <1>b, <2>1, <2>2, <2>5, <3>1 DEF Child, D!Alive
    <2>6. \/ spc' = [spc EXCEPT ![s] = "done"]
          \/ spc' = [spc EXCEPT ![s] = "kill"]
          \/ spc' = [spc EXCEPT ![s] = "spawn"] /\ PidUnseen
      BY <1>2 DEF Check, Finish, Enter, ExitIfSeen
    <2> QED
      BY <2>2, <2>3, <2>4, <2>5, <2>6
  <1>3. CASE TermPid(s)
    <2>1. /\ spc[s] = "kill" /\ Active(s) /\ pidFile \in Procs
          /\ SignalTo(pidFile, "TERM") /\ UNCHANGED <<tree, files>>
      BY <1>3 DEF TermPid, PidSeen, Active
    <2>2. ProcsOrderly'
      BY <2>1, <1>a, ProcsKept, SignalToEndsOrNot
    <2>3. CASE Waits(s)
      <3>1. /\ spc' = [spc EXCEPT ![s] = "killwait"]
            /\ target' = [target EXCEPT ![s] = pidFile]
        BY <1>3, <2>3 DEF TermPid, Enter
      <3>2. \A p \in Procs : Child(p)' =>
                Child(p) /\ pc'[p] = pc[p] /\ p = pidFile
                /\ pc[p] \notin LaunchSteps
        BY <1>a, <2>1, SignalToEndsOrNot, BetweenLaunches
        DEF Child, D!Alive
      <3> QED
        BY <2>1, <2>2, <3>1, <3>2
        DEF ScriptsOrderly, OneScript, ScriptKnowsChild, Active
    <2>4. CASE ~Waits(s)
      <3>1. spc' = [spc EXCEPT ![s] = "done"] /\ UNCHANGED target
        BY <1>3, <2>4 DEF TermPid, Waits, Proceed, Finish, Patient
      <3>2. \A p \in Procs :
               /\ pc[p] \in {"absent", "exited"} => pc'[p] = pc[p]
               /\ pc'[p] \in LaunchSteps => pc[p] \in LaunchSteps
        BY <2>1, SignalToEndsOrNot DEF LaunchSteps
      <3> QED
        BY <2>1, <2>2, <3>1, <3>2, ScriptsKept
    <2> QED
      BY <2>3, <2>4
  <1>4. CASE NobodyToTerm(s)
    <2>1. /\ spc[s] = "kill" /\ Active(s) /\ PidUnseen
          /\ UNCHANGED <<dvars, tree, target>>
          /\ \E to \in {"spawn", "done"} : spc' = [spc EXCEPT ![s] = to]
      BY <1>4 DEF NobodyToTerm, Proceed, Enter, Finish, Active
    <2>2. \A p \in Procs : ~Child(p) /\ (forker[p] \in Runs => pc[p] = "exited")
      BY <1>a, <2>1, BetweenLaunches DEF PidUnseen, MayMiss, Child, D!Alive
    <2>3. ProcsOrderly'
      BY <2>1, <2>2
      DEF ProcsOrderly, OneChild, ChildNamed, LauncherLinked, Child, D!Alive
    <2>4. ScriptsOrderly'
      BY <1>b, <2>1, <2>2 DEF Child, D!Alive
    <2> QED
      BY <2>3, <2>4
  <1>5. CASE KillWait(s)
    <2>1. /\ spc[s] = "killwait" /\ Active(s)
          /\ UNCHANGED tree
          /\ \E to \in {"spawn", "done"} : spc' = [spc EXCEPT ![s] = to]
      BY <1>5 DEF KillWait, Proceed, Enter, Finish, Active
    <2>2. \A p \in Procs :
             /\ pc[p] = "exited" => pc'[p] = "exited"
             /\ pc[p] = "absent" => pc'[p] = "absent"
             /\ p = target[s] => pc'[p] = "exited"
      BY <1>5 DEF KillWait, D!Kill, D!Alive
    <2>3. \A p \in Procs :
             ~Child(p)' /\ (forker[p] \in Runs => pc'[p] = "exited")
      BY <1>a, <2>1, <2>2, BetweenLaunches
      DEF ScriptsOrderly, ScriptKnowsChild, Child, D!Alive
    <2>4. ProcsOrderly'
      BY <2>1, <2>3 DEF ProcsOrderly, OneChild, ChildNamed, LauncherLinked
    <2>5. ScriptsOrderly'
      BY <1>b, <2>1, <2>3
    <2> QED
      BY <2>4, <2>5
  <1>6. CASE Spawn(s)
    <2>1. PICK c \in Procs :
             /\ pc[c] = "absent" /\ spc[s] = "spawn" /\ Active(s)
             /\ pc' = [pc EXCEPT ![c] = "boot"]
             /\ forker' = [forker EXCEPT ![c] = s]
             /\ spc' = [spc EXCEPT ![s] = "wait"]
             /\ UNCHANGED <<pidFile, linked>>
      BY <1>6 DEF Spawn, Execute, Enter, Active
    <2>2. \A p \in Procs : ~Child(p)'
      BY <2>1 DEF ScriptsOrderly, ScriptKnowsChild, Child, D!Alive
    <2>3. ProcsOrderly'
      BY <2>1, <2>2 DEF ProcsOrderly, OneChild, ChildNamed, LauncherLinked
    <2>4. ScriptsOrderly'
      BY <2>1, <2>2
      DEF ScriptsOrderly, OneScript, ScriptKnowsChild, Active
    <2> QED
      BY <2>3, <2>4
  <1> QED
    BY <1>1, <1>2, <1>3, <1>4, <1>5, <1>6 DEF RunScript

\* A command that is given when things have settled.
LEMMA InvokeOrderly ==
    ASSUME TypeOK, ProcsOrderly, ScriptsOrderly, ~hasty',
           NEW s \in Runs, NEW o \in ScriptOps, Invoke(s, o)
    PROVE  ProcsOrderly' /\ ScriptsOrderly'
  <1> USE DEF TypeOK, ProcTypeOK, ScriptTypeOK, dvars, tree, files
  <1>1. Settled
    BY DEF Invoke
  <1>2. /\ UNCHANGED <<pc, forker, pidFile, linked>>
        /\ \E to \in {"kill", "hup", "check"} : spc' = [spc EXCEPT ![s] = to]
    BY DEF Invoke
  <1>3. ProcsOrderly'
    BY <1>2 DEF ProcsOrderly, OneChild, ChildNamed, LauncherLinked, Child,
                D!Alive
  <1>4. OneScript' /\ ScriptKnowsChild'
    BY <1>1, <1>2
    DEF Settled, OneScript, ScriptKnowsChild, Active, Child, D!Alive,
        LaunchSteps
  <1> QED
    BY <1>3, <1>4 DEF ScriptsOrderly

\* Every step of a patient behaviour keeps processes and scripts in order.
LEMMA OrderlyStep ==
    (/\ TypeOK /\ Kinship /\ GenerationsCount /\ IdleNoOp /\ Orderly
     /\ [Next]_vars)
        => Orderly'
  <1> SUFFICES ASSUME TypeOK, Kinship, GenerationsCount, IdleNoOp,
                      Orderly, [Next]_vars, Patient'
               PROVE  ProcsOrderly' /\ ScriptsOrderly'
    BY DEF Orderly
  <1>1. Patient
    BY PatientBefore
  <1>2. ProcsOrderly /\ ScriptsOrderly
    BY <1>1 DEF Orderly
  <1>3. NoMishap /\ NoMishap' /\ ~hasty'
    BY <1>1 DEF Patient
  <1>4. ASSUME NEW p \in Procs,
               \/ Main(p) \/ Dispatch(p)
               \/ Kill(p) \/ Foreground(p) \/ Interrupt(p)
        PROVE  ProcsOrderly' /\ ScriptsOrderly'
    BY <1>2, <1>3, <1>4, ProcessOrderly
  <1>5. ASSUME NEW s \in Runs, RunScript(s)
        PROVE  ProcsOrderly' /\ ScriptsOrderly'
    BY <1>1, <1>2, <1>3, <1>5, ScriptOrderly
  <1>6. ASSUME NEW s \in Runs, NEW o \in ScriptOps, Invoke(s, o)
        PROVE  ProcsOrderly' /\ ScriptsOrderly'
    BY <1>2, <1>3, <1>6, InvokeOrderly
  <1>7. CASE UNCHANGED vars
    BY <1>2, <1>7
    DEF vars, dvars, tree, files, script, ProcsOrderly, OneChild, ChildNamed,
        LauncherLinked, ScriptsOrderly, OneScript, ScriptKnowsChild, Child,
        Active, D!Alive
  <1> QED
    BY <1>4, <1>5, <1>6, <1>7 DEF Next

\* A patient behaviour is orderly throughout.
THEOREM OrderlyInvariant == SafetySpec => []Orderly
  <1>1. Init => IdleNoOp /\ Orderly
    <2> SUFFICES ASSUME Init PROVE IdleNoOp /\ Orderly
      OBVIOUS
    <2>1. \A p \in Procs : ~Child(p) /\ forker[p] = NoProc
      BY DEF Init, D!Init, Child, D!Alive
    <2>2. \A s \in Runs : ~Active(s) /\ op[s] = NoProc
      BY DEF Init, Active
    <2> QED
      BY <2>1, <2>2, NamesAssumption
      DEF IdleNoOp, Orderly, ProcsOrderly, OneChild, ChildNamed,
          LauncherLinked, ScriptsOrderly, OneScript, ScriptKnowsChild
  <1>2. ChainInv => GenerationsCount
    BY DEF ChainInv
  <1> QED
    BY <1>1, <1>2, IdleStep, OrderlyStep, TypeCorrect, KinshipInvariant,
       ChainInvariant, PTL
    DEF SafetySpec

\* SystemV.tla, OnlyRestartLosesPid: as long as each command is given when
\* things have settled and no launch goes wrong, the PID file names the one
\* daemon that runs; only Debian's restart is no part of this.
THEOREM OnlyRestart == SafetySpec => []OnlyRestartLosesPid
  <1>1. TypeOK /\ Kinship /\ PhaseOfStep /\ Orderly => OnlyRestartLosesPid
    <2> SUFFICES ASSUME TypeOK, Kinship, PhaseOfStep,
                        Orderly, Patient, NEW d \in Procs, OnlyDaemon(d)
                 PROVE  pidFile = d
      BY DEF OnlyRestartLosesPid, PatienceKeepsPid, PidFileNamesDaemon,
             Patient
    <2>1. forker[d] \in Procs
      <3>1. gen[d] \in Nat /\ gen[d] >= 1
        BY DEF TypeOK, ProcTypeOK, OnlyDaemon
      <3> QED
        BY <3>1 DEF Kinship, Forkers
    <2>2. Child(d) /\ pc[d] = "parked"
      BY <2>1 DEF OnlyDaemon, Child, D!Alive
    <2>3. pc[forker[d]] = "exited"
      BY <2>1 DEF OnlyDaemon, PhaseOfStep
    <2> QED
      BY <2>2, <2>3 DEF Orderly, ProcsOrderly, ChildNamed
  <1> QED
    BY <1>1, OrderlyInvariant, TypeCorrect, KinshipInvariant,
       PhaseInvariant, PTL
=============================================================================
