------------------------------- MODULE SystemV -------------------------------
(***************************************************************************)
(* The System V world: the generated init.d script, the processes it       *)
(* starts, and the PID file they share.                                    *)
(*                                                                         *)
(* `service <id> start' runs the script, which executes the program and    *)
(* waits for it.  That first process (generation 0) finds the script among *)
(* its ancestors, so it acts as a launcher: it truncates the PID file,     *)
(* executes the program again with the open PID file as descriptor 3,      *)
(* writes the child's PID and exits.  The child repeats the same search.   *)
(* Only if it finds no init.d script does it become the daemon, run the    *)
(* body of UnixDaemonizer, and truncate the PID file when it returns.      *)
(* The outcome of the child's search therefore depends on which of its     *)
(* ancestors are still there while it reads /proc, one file at a time.     *)
(*                                                                         *)
(* RUN_AS is root, PS1 is not exported to init.d scripts, the system is    *)
(* not halting, and PIDs are not reused.                                   *)
(***************************************************************************)
EXTENDS Naturals, FiniteSets

CONSTANTS
    Procs,              \* processes that execute the program
    Runs,               \* invocations of the init.d script
    Ops,                \* what happens: script arguments, "foreground", "interrupt"
    IsRedHat,           \* the script's IS_REDHAT
    MaxWalk             \* processes isInitdOurParent looks at (5)

InitProc == "pid1"      \* the process orphans are given to
Outside  == "outside"   \* a shell, service(8), cron...: not of this system
NoProc   == "none"
NoFile   == "absent"    \* values of pidFile besides a process
Empty    == "empty"

ASSUME NamesAssumption ==
    /\ Procs \cap Runs = {}
    /\ {InitProc, Outside, NoProc, NoFile, Empty} \cap (Procs \cup Runs) = {}
ASSUME SwitchAssumption == IsRedHat \in BOOLEAN
ASSUME WalkAssumption   == MaxWalk \in Nat /\ MaxWalk >= 2

VARIABLES
    pc, sigq, told, app, outcome,   \* see UnixDaemonizer
    forker,             \* who created the process
    origin,             \* history: the script run its lineage goes back to
    gen,                \* history: how many executions lie in between
    cur,                \* isInitdOurParent: the process being examined
    idx,                \* isInitdOurParent: the loop counter
    pidFile,            \* what the file at PID_FILE_PATH holds
    linked,             \* launchers whose open file is the one at that path
    fd3,                \* what descriptor 3 of the process refers to
    appFile,            \* a file the application keeps open as descriptor 3
    op, spc, target, code,          \* the script runs
    hasty               \* history: was a command given before things settled?

dvars  == <<pc, sigq, told, app, outcome>>
tree   == <<forker, origin, gen>>
walk   == <<cur, idx>>
files  == <<pidFile, linked, fd3, appFile>>
script == <<op, spc, target, code, hasty>>
vars   == <<dvars, tree, walk, files, script>>

Caught == {"INT", "TERM"}     \* the arguments of signal.Notify

D == INSTANCE UnixDaemonizer

LaunchSteps == {"boot", "cmdline", "stat", "open", "fork", "write"}
ScriptOps   == {"start", "stop", "restart", "reload", "condrestart"}

Init ==
    /\ D!Init
    /\ forker  = [p \in Procs |-> NoProc]
    /\ origin  = [p \in Procs |-> NoProc]
    /\ gen     = [p \in Procs |-> 0]
    /\ cur     = [p \in Procs |-> NoProc]
    /\ idx     = [p \in Procs |-> 0]
    /\ pidFile = NoFile
    /\ linked  = {}
    /\ fd3     = [p \in Procs |-> "free"]
    /\ appFile = [p \in Procs |-> "intact"]
    /\ op      = [s \in Runs |-> NoProc]
    /\ spc     = [s \in Runs |-> "idle"]
    /\ target  = [s \in Runs |-> NoProc]
    /\ code    = [s \in Runs |-> NoProc]
    /\ hasty   = FALSE

-----------------------------------------------------------------------------
(* Processes and what others can see of them.                              *)

\* Parent of q in the process table: an exited launcher's child is orphaned.
Ppid(q) ==
    IF forker[q] \in Procs /\ pc[forker[q]] = "exited"
    THEN InitProc ELSE forker[q]

\* A zombie stays in the process table while its live creator has not waited
\* for it.  A script waits for what it executes, a launcher never waits, and
\* pid 1 reaps orphans sooner or later.
MaySee(x) ==
    x \in Procs =>
        \/ pc[x] # "exited"
        \/ ~(forker[x] \in Runs /\ spc[forker[x]] # "wait")

MayMiss(x) ==
    \/ x = Outside
    \/ x \in Runs /\ spc[x] = "done"
    \/ /\ x \in Procs
       /\ pc[x] = "exited"
       /\ forker[x] \in Runs => spc[forker[x]] # "wait"
       /\ forker[x] \in Procs => pc[forker[x]] = "exited"

\* The program is executed as process c by x.
Execute(c, x, root, n, descriptor) ==
    /\ pc[c] = "absent"
    /\ forker' = [forker EXCEPT ![c] = x]
    /\ origin' = [origin EXCEPT ![c] = root]
    /\ gen'    = [gen EXCEPT ![c] = n]
    /\ fd3'    = [fd3 EXCEPT ![c] = descriptor]

\* RunUntilExit returns before it has registered the clean-up of the PID file.
Refuse(p, reason) ==
    /\ pc'      = [pc EXCEPT ![p] = "exited"]
    /\ outcome' = [outcome EXCEPT ![p] = reason]
    /\ UNCHANGED <<sigq, told, app>>

-----------------------------------------------------------------------------
(* isInitdOurParent: up to MaxWalk ancestors, each through its cmdline, the *)
(* next one through the stat file of the last.                              *)

LeaveWalk(p) ==
    /\ cur' = [cur EXCEPT ![p] = NoProc]
    /\ idx' = [idx EXCEPT ![p] = 0]

Getppid(p) ==
    /\ D!Goto(p, "boot", "cmdline")
    /\ cur' = [cur EXCEPT ![p] = Ppid(p)]
    /\ idx' = [idx EXCEPT ![p] = 0]
    /\ UNCHANGED <<sigq, told, app, outcome, tree, files, script>>

\* No init.d script found: "Now we are running as a daemon."
BeginDaemon(p) ==
    /\ pc'  = [pc EXCEPT ![p] = "start"]
    /\ app' = [app EXCEPT ![p] = "starting"]
    /\ LeaveWalk(p)
    /\ UNCHANGED <<sigq, told, outcome>>

\* isPidInitd: the cmdline of a live script names /etc/init.d/...
FindScript(p) ==
    /\ D!Goto(p, "cmdline", "open")
    /\ cur[p] \in Runs /\ spc[cur[p]] # "done"
    /\ LeaveWalk(p)
    /\ UNCHANGED <<sigq, told, app, outcome, tree, files, script>>

\* Defects: only the parent is looked at; or the loop has no limit.
PassParentOnly(p) ==
    /\ pc[p] = "cmdline"
    /\ cur[p] \in Runs => spc[cur[p]] = "done"
    /\ MaySee(cur[p])
    /\ BeginDaemon(p)
    /\ UNCHANGED <<tree, files, script>>

PassWithoutLimit(p) ==
    /\ D!Goto(p, "cmdline", "stat")
    /\ cur[p] \in Runs => spc[cur[p]] = "done"
    /\ MaySee(cur[p])
    /\ UNCHANGED <<sigq, told, app, outcome, walk, tree, files, script>>

\* isPidInitd: any other cmdline, the empty one of a zombie included.
PassAncestor(p) ==
    /\ pc[p] = "cmdline"
    /\ cur[p] \in Runs => spc[cur[p]] = "done"
    /\ MaySee(cur[p])
    /\ IF idx[p] + 1 = MaxWalk
       THEN BeginDaemon(p)
       ELSE /\ pc' = [pc EXCEPT ![p] = "stat"]
            /\ UNCHANGED <<sigq, told, app, outcome, walk>>
    /\ UNCHANGED <<tree, files, script>>

\* manualParentPid: pid 1 has parent 0; so in the end have foreign processes.
NextAncestor(p) ==
    /\ pc[p] = "stat"
    /\ MaySee(cur[p])
    /\ IF cur[p] \in {InitProc, Outside}
       THEN BeginDaemon(p)
       ELSE /\ pc'  = [pc EXCEPT ![p] = "cmdline"]
            /\ cur' = [cur EXCEPT ![p] =
                   IF @ \in Procs THEN Ppid(@) ELSE Outside]
            /\ idx' = [idx EXCEPT ![p] = @ + 1]
            /\ UNCHANGED <<sigq, told, app, outcome>>
    /\ UNCHANGED <<tree, files, script>>

\* Defect: the read is retried until the ancestor is there again.
LoseAndRetry(p) ==
    /\ pc[p] \in {"cmdline", "stat"}
    /\ MayMiss(cur[p])
    /\ UNCHANGED vars

\* A file of the ancestor cannot be opened or read, for one because it has
\* gone, or its stat line cannot be parsed, for one because of a blank in its
\* name: "failed to determine if init.d started the process".
LoseAncestor(p) ==
    /\ pc[p] \in {"cmdline", "stat"}
    /\ Refuse(p, "walkErr")
    /\ LeaveWalk(p)
    /\ UNCHANGED <<tree, files, script>>

-----------------------------------------------------------------------------
(* The launcher: open the PID file, execute the daemon, write its PID.     *)

OpenPidFile(p) ==
    /\ D!Goto(p, "open", "fork")
    /\ pidFile' = Empty
    /\ linked'  = linked \cup {p}
    /\ UNCHANGED <<sigq, told, app, outcome, tree, walk, fd3, appFile, script>>

\* Defect: the file is not handed on (ExtraFiles is forgotten).
ForkWithoutFile(p) ==
    \E c \in Procs :
        /\ Execute(c, p, origin[p], gen[p] + 1, "free")
        /\ pc[p] = "fork"
        /\ pc' = [pc EXCEPT ![p] = "write", ![c] = "boot"]
        /\ UNCHANGED <<sigq, told, app, outcome, walk, pidFile, linked,
                       appFile, script>>

Fork(p) ==
    \E c \in Procs :
        /\ Execute(c, p, origin[p], gen[p] + 1, "pid")
        /\ pc[p] = "fork"
        /\ pc' = [pc EXCEPT ![p] = "write", ![c] = "boot"]
        /\ UNCHANGED <<sigq, told, app, outcome, walk, pidFile, linked,
                       appFile, script>>

\* Defects: the launcher writes its own PID; or it goes on as a daemon.
WriteOwnPid(p) ==
    /\ D!Goto(p, "write", "exited")
    /\ outcome' = [outcome EXCEPT ![p] = "launched"]
    /\ pidFile' = IF p \in linked THEN p ELSE pidFile
    /\ UNCHANGED <<sigq, told, app, tree, walk, linked, fd3, appFile, script>>

WriteAndGoOn(p) ==
    /\ pc[p] = "write"
    /\ BeginDaemon(p)
    /\ \E c \in Procs :
           /\ forker[c] = p
           /\ pidFile' = IF p \in linked THEN c ELSE pidFile
    /\ UNCHANGED <<tree, linked, fd3, appFile, script>>

\* One write at the start of the launcher's own open file: the PID and a
\* newline, so that what the file held before does not matter to a reader.
WritePid(p) ==
    /\ D!Goto(p, "write", "exited")
    /\ outcome' = [outcome EXCEPT ![p] = "launched"]
    /\ \E c \in Procs :
           /\ forker[c] = p
           /\ pidFile' = IF p \in linked THEN c ELSE pidFile
    /\ UNCHANGED <<sigq, told, app, tree, walk, linked, fd3, appFile, script>>

\* os.Executable, OpenFile, Start or WriteString returns an error.
LaunchFails(p) ==
    /\ pc[p] \in {"open", "fork", "write"}
    /\ Refuse(p, "launchErr")
    /\ UNCHANGED <<tree, walk, files, script>>

-----------------------------------------------------------------------------
(* The daemon: the steps of UnixDaemonizer, with descriptor 3 in mind.     *)

\* An application that opens a file gets the lowest free descriptor.
StartOk(p) ==
    /\ D!StartOk(p)
    /\ \E d \in {fd3[p]} \cup (IF fd3[p] = "free" THEN {"app"} ELSE {}) :
           fd3' = [fd3 EXCEPT ![p] = d]
    /\ UNCHANGED <<tree, walk, pidFile, linked, appFile, script>>

BodyStep(p) ==
    /\ \/ D!StartFails(p) \/ D!Notify(p) \/ D!Park(p)
       \/ D!Unsubscribe(p) \/ D!StopReturns(p)
    /\ UNCHANGED <<tree, walk, files, script>>

Dispatch(p) ==
    /\ D!Dispatch(p)
    /\ UNCHANGED <<tree, walk, files, script>>

\* Defect: the clean-up is deferred after application.Start has succeeded.
ReturnAfterStart(p) ==
    /\ D!Return(p)
    /\ pidFile' = IF /\ fd3[p] = "pid" /\ forker[p] \in linked
                     /\ outcome[p] # "startErr"
                  THEN Empty ELSE pidFile
    /\ UNCHANGED <<tree, walk, linked, fd3, appFile, script>>

\* The deferred function truncates whatever descriptor 3 refers to.
Return(p) ==
    /\ D!Return(p)
    /\ pidFile' = IF fd3[p] = "pid" /\ forker[p] \in linked
                  THEN Empty ELSE pidFile
    /\ appFile' = IF fd3[p] = "app"
                  THEN [appFile EXCEPT ![p] = "truncated"] ELSE appFile
    /\ UNCHANGED <<tree, walk, linked, fd3, script>>

Kill(p) ==
    /\ D!Kill(p)
    /\ LeaveWalk(p)
    /\ UNCHANGED <<tree, files, script>>

\* A process that a shell, not the script, starts.  With PS1 exported the
\* daemonizer treats it as interactive and leaves descriptor 3 alone.
Foreground(p) ==
    /\ "foreground" \in Ops
    /\ \/ /\ Execute(p, Outside, NoProc, 0, "free")
          /\ pc' = [pc EXCEPT ![p] = "boot"]
          /\ UNCHANGED app
       \/ /\ Execute(p, Outside, NoProc, 0, "unheld")
          /\ pc'  = [pc EXCEPT ![p] = "start"]
          /\ app' = [app EXCEPT ![p] = "starting"]
    /\ UNCHANGED <<sigq, told, outcome, walk, pidFile, linked, appFile, script>>

\* Ctrl-C, kill(1) or a shutdown: a signal that no script run sends.
Interrupt(p) ==
    /\ "interrupt" \in Ops
    /\ \E sig \in Caught : D!Signal(p, sig)
    /\ IF pc'[p] = "exited" THEN LeaveWalk(p) ELSE UNCHANGED walk
    /\ UNCHANGED <<tree, files, script>>

-----------------------------------------------------------------------------
(* The init.d script.                                                      *)

\* Nothing is on its way: scripts are idle or done, processes parked or gone.
Settled ==
    /\ \A s \in Runs : spc[s] \in {"idle", "done"}
    /\ \A p \in Procs : pc[p] \in {"absent", "parked", "exited"}
                        /\ sigq[p] = {}

Enter(s, to) ==
    /\ spc' = [spc EXCEPT ![s] = to]
    /\ UNCHANGED <<op, code, hasty>>

Finish(s, status) ==
    /\ spc'  = [spc EXCEPT ![s] = "done"]
    /\ code' = [code EXCEPT ![s] = status]
    /\ UNCHANGED <<op, hasty>>

\* `start-stop-daemon --status' or `status -p': is there a process with the
\* PID in the file?
PidSeen   == pidFile \in Procs /\ MaySee(pidFile)
PidUnseen == pidFile \notin Procs \/ MayMiss(pidFile)

Invoke(s, o) ==
    /\ spc[s] = "idle"
    /\ o \in Ops
    /\ hasty' = (hasty \/ ~Settled)
    /\ op'  = [op EXCEPT ![s] = o]
    /\ spc' = [spc EXCEPT ![s] =
           CASE o = "restart" -> "kill" [] o = "reload" -> "hup"
             [] OTHER -> "check"]
    /\ UNCHANGED <<dvars, tree, walk, files, target, code>>

\* The guards in front of start, stop and condrestart.  Debian's condrestart
\* has the test the other way round.
ExitIfSeen == {"start"} \cup (IF IsRedHat THEN {} ELSE {"condrestart"})

Check(s) ==
    /\ spc[s] = "check"
    /\ \E seen \in BOOLEAN :
           /\ IF seen THEN PidSeen ELSE PidUnseen
           /\ IF seen = (op[s] \in ExitIfSeen)
              THEN Finish(s, "ok")
              ELSE Enter(s, IF op[s] = "start" THEN "spawn" ELSE "kill")
    /\ UNCHANGED <<dvars, tree, walk, files, target>>

SignalTo(q, sig) ==
    IF pc[q] = "exited"
    THEN UNCHANGED <<dvars, walk>>
    ELSE /\ D!Signal(q, sig)
         /\ IF pc'[q] = "exited" THEN LeaveWalk(q) ELSE UNCHANGED walk

\* What follows once the old daemon was dealt with.
Proceed(s) ==
    IF op[s] \in {"restart", "condrestart"}
    THEN Enter(s, "spawn") ELSE Finish(s, "ok")

\* killproc removes the PID file, start-stop-daemon --stop does not.
RemovePidFile ==
    IF IsRedHat
    THEN pidFile' = NoFile /\ linked' = {} /\ UNCHANGED <<fd3, appFile>>
    ELSE UNCHANGED files

\* stop(): killproc and `start-stop-daemon --retry 30' wait for the process,
\* a plain `start-stop-daemon --stop' only sends the signal.
Waits(s) == IsRedHat \/ op[s] = "condrestart"

TermPid(s) ==
    /\ spc[s] = "kill"
    /\ PidSeen
    /\ SignalTo(pidFile, "TERM")
    /\ IF Waits(s)
       THEN /\ Enter(s, "killwait")
            /\ target' = [target EXCEPT ![s] = pidFile]
       ELSE /\ Proceed(s)
            /\ UNCHANGED target
    /\ UNCHANGED <<tree, files>>

NobodyToTerm(s) ==
    /\ spc[s] = "kill"
    /\ PidUnseen
    /\ IF ~IsRedHat /\ op[s] = "condrestart"
       THEN Finish(s, "ok") ELSE Proceed(s)
    /\ RemovePidFile
    /\ UNCHANGED <<dvars, tree, walk, target>>

\* Defect: no SIGKILL when the time is up.
KillWaitForEver(s) ==
    /\ spc[s] = "killwait"
    /\ pc[target[s]] = "exited"
    /\ Proceed(s)
    /\ RemovePidFile
    /\ UNCHANGED <<dvars, walk, tree, target>>

\* The process is gone, or the time is up and it gets a SIGKILL.
KillWait(s) ==
    /\ spc[s] = "killwait"
    /\ IF pc[target[s]] = "exited"
       THEN UNCHANGED <<dvars, walk>>
       ELSE D!Kill(target[s]) /\ LeaveWalk(target[s])
    /\ Proceed(s)
    /\ RemovePidFile
    /\ UNCHANGED <<tree, target>>

Hup(s) ==
    /\ spc[s] = "hup"
    /\ \/ PidSeen /\ SignalTo(pidFile, "HUP")
       \/ PidUnseen /\ UNCHANGED <<dvars, walk>>
    /\ Finish(s, "ok")
    /\ UNCHANGED <<tree, files, target>>

\* start(): execute the program and wait for it.
Spawn(s) ==
    /\ spc[s] = "spawn"
    /\ \E c \in Procs :
           /\ Execute(c, s, s, 0, "free")
           /\ pc' = [pc EXCEPT ![c] = "boot"]
           /\ target' = [target EXCEPT ![s] = c]
    /\ Enter(s, "wait")
    /\ UNCHANGED <<sigq, told, app, outcome, walk, pidFile, linked, appFile>>

\* [ -x "${PROGRAM_PATH}" ] || exit 5
NoExecutable(s) ==
    /\ spc[s] = "spawn"
    /\ Finish(s, "fail")
    /\ UNCHANGED <<dvars, tree, walk, files, target>>

Reap(s) ==
    /\ spc[s] = "wait"
    /\ pc[target[s]] = "exited"
    /\ Finish(s, IF \/ outcome[target[s]] = "launched"
                    \/ op[s] = "condrestart" /\ ~IsRedHat
                 THEN "ok" ELSE "fail")
    /\ UNCHANGED <<dvars, tree, walk, files, target>>

-----------------------------------------------------------------------------
Launch(p) ==
    \/ Getppid(p) \/ FindScript(p) \/ PassAncestor(p) \/ NextAncestor(p)
    \/ LoseAncestor(p)
    \/ OpenPidFile(p) \/ Fork(p) \/ WritePid(p) \/ LaunchFails(p)

Main(p) == Launch(p) \/ StartOk(p) \/ BodyStep(p) \/ Return(p)

RunScript(s) ==
    \/ Check(s) \/ TermPid(s) \/ NobodyToTerm(s) \/ KillWait(s) \/ Hup(s)
    \/ Spawn(s) \/ NoExecutable(s) \/ Reap(s)

Next ==
    \/ \E p \in Procs :
           \/ Main(p) \/ Dispatch(p)
           \/ Kill(p) \/ Foreground(p) \/ Interrupt(p)
    \/ \E s \in Runs : RunScript(s) \/ \E o \in ScriptOps : Invoke(s, o)

\* Runnable processes run, and Application.Start and Stop return.  Nobody is
\* obliged to invoke the script, to start the program or to kill it.
Fairness ==
    /\ \A p \in Procs : WF_vars(Main(p)) /\ WF_vars(Dispatch(p))
    /\ \A s \in Runs : WF_vars(RunScript(s))

SafetySpec == Init /\ [][Next]_vars
Spec       == SafetySpec /\ Fairness

-----------------------------------------------------------------------------
Steps == LaunchSteps \cup D!BodySteps \cup {"absent", "exited"}

ProcTypeOK ==
    /\ pc      \in [Procs -> Steps]
    /\ sigq    \in [Procs -> SUBSET Caught]
    /\ told    \in [Procs -> BOOLEAN]
    /\ app     \in [Procs -> {"idle", "starting", "failed",
                              "running", "stopping", "stopped"}]
    /\ outcome \in [Procs -> D!Outcomes
                              \cup {"launched", "walkErr", "launchErr"}]
    /\ forker  \in [Procs -> Procs \cup Runs \cup {Outside, NoProc}]
    /\ origin  \in [Procs -> Runs \cup {NoProc}]
    /\ gen     \in [Procs -> Nat]
    /\ cur     \in [Procs -> Procs \cup Runs \cup {InitProc, Outside, NoProc}]
    /\ idx     \in [Procs -> Nat]

FileTypeOK ==
    /\ pidFile \in Procs \cup {NoFile, Empty}
    /\ linked  \in SUBSET Procs
    /\ fd3     \in [Procs -> {"free", "pid", "app", "unheld"}]
    /\ appFile \in [Procs -> {"intact", "truncated"}]

ScriptTypeOK ==
    /\ op      \in [Runs -> ScriptOps \cup {NoProc}]
    /\ spc     \in [Runs -> {"idle", "check", "kill", "killwait", "hup",
                             "spawn", "wait", "done"}]
    /\ target  \in [Runs -> Procs \cup {NoProc}]
    /\ code    \in [Runs -> {NoProc, "ok", "fail"}]
    /\ hasty   \in BOOLEAN

TypeOK == ProcTypeOK /\ FileTypeOK /\ ScriptTypeOK

\* However often the search for init.d goes wrong and a child launches yet
\* another child, one invocation of the script starts the application in one
\* process at most.
OneApplicationPerStart ==
    \A p, q \in Procs :
        (/\ origin[p] = origin[q] /\ origin[p] \in Runs
         /\ app[p] # "idle" /\ app[q] # "idle") => p = q

\* The chain of launchers that launch launchers ends: a process further away
\* from the script than the loop of isInitdOurParent looks becomes a daemon.
LaunchChainBounded == \A p \in Procs : gen[p] <= MaxWalk

\* The child of the process that the script executed becomes a daemon only
\* after its launcher has exited, and so after the launcher wrote the PID file
\* for the last time.
LauncherGoneFirst ==
    \A p \in Procs :
        (gen[p] = 1 /\ app[p] # "idle") => pc[forker[p]] = "exited"

\* "Delete the contents of the file so the OS knows the process stopped
\* cleanly": the PID file never names a daemon that has returned, if it is the
\* child of the process that the script executed.
CleanExitClearsPid ==
    \A p \in Procs :
        (/\ gen[p] = 1 /\ pc[p] = "exited"
         /\ outcome[p] \in {"nil", "startErr", "stopErr"}) => pidFile # p

\* d is the one process left, it waits for signals, and its PID was written.
OnlyDaemon(d) ==
    /\ Settled
    /\ pc[d] = "parked" /\ gen[d] >= 1
    /\ outcome[forker[d]] = "launched"
    /\ \A p \in Procs \ {d} : pc[p] \in {"absent", "exited"}

\* common.go: "A PID file is used to store the PID of the daemon so that the
\* management script can easily determine the status of the daemon."
PidFileNamesDaemon ==
    \A d \in Procs : OnlyDaemon(d) => pidFile = d

\* No child took itself for a launcher, and no launcher died half-way.
NoMishap ==
    \A p \in Procs :
        /\ gen[p] <= 1
        /\ gen[p] = 1 /\ pc[forker[p]] = "exited"
               => outcome[forker[p]] = "launched"

\* The same for whoever waits with each command until things have settled, as
\* long as every launch goes as intended.
PatienceKeepsPid == (~hasty /\ NoMishap) => PidFileNamesDaemon

\* Debian's restart is the one exception: under patience and launches that go
\* as intended, every other sequence of commands, stray signals and deaths
\* leaves the PID file right.
OnlyRestartLosesPid ==
    (IsRedHat \/ \A s \in Runs : op[s] # "restart") => PatienceKeepsPid

\* The deferred truncation hits a file of the application only in a process
\* that no launcher started, and never before the application is done with.
LaunchedTruncatesPidFile ==
    \A p \in Procs :
        appFile[p] = "truncated" => forker[p] \notin Procs /\ pc[p] = "exited"

\* Every System V process honours the contract of the Application interface.
ImplementsContract == D!ImplementsContract

\* Every invocation of the script ends.
ScriptEnds == \A s \in Runs : (spc[s] # "idle") ~> (spc[s] = "done")

\* Every process gets through launching: it ends or waits as a daemon.
LaunchSettles ==
    \A p \in Procs : (pc[p] = "boot") ~> (pc[p] \in {"parked", "exited"})

=============================================================================
