# A TLA+ model of cyberdaemon

cyberdaemon is a Go library that turns an application into a daemon (package
`cyberdaemon`, interface `Daemonizer`) and that installs, removes, starts and
stops the daemon (package `control`, interface `Controller`) on systemd,
System V, launchd and Windows. This directory holds TLA+ modules of its
moving parts, configurations for TLC, and proofs for TLAPS.

Paths below are relative to the root of the repository, as in `PROJECT.json`.

## 1. Inventory

| Component | Source | State it keeps | Operations | Module |
|---|---|---|---|---|
| Application and Daemonizer interfaces | `src/application_*.go`, `src/common.go` | how far Start and Stop got | Start, Stop, RunUntilExit | `ApplicationContract` |
| systemd and launchd daemonizers | `src/daemon_systemd_linux.go`, `src/daemon_darwin.go` | the goroutine, the signal channel | RunUntilExit | `UnixDaemonizer` |
| System V daemonizer | `src/daemon_systemv_linux.go` | launcher and daemon processes, ancestor walk, PID file, descriptor 3 | RunUntilExit, isInitdOurParent | `SystemV` |
| init.d script | template in `src/control/controller_systemv_linux.go` | one process per invocation | start, stop, restart, reload, condrestart | `SystemV` |
| Windows daemonizer | `src/daemon_windows.go` | Execute, `lastErr`, channels of `svc.Run`, the status Windows shows | RunUntilExit, Execute | `WindowsService` |
| Control interface | `src/control/common.go`, `src/control/controller_linux.go` | a client's command and how far it got | Execute, NewController | `ControlCommand`, `ControllerContract`, `Controllers` |
| systemd controller | `src/control/controller_systemd_linux.go` | unit file, loaded unit, enablement, activity | Status, Install, Uninstall, Start, Stop | `SystemdController` |
| System V controller | `src/control/controller_systemv_linux.go` | script file, runlevel links | the same five | `SystemVController` |
| launchd controller | `src/control/controller_darwin.go` | property list, what launchd has loaded | the same five | `LaunchdController` |
| Windows controller | `src/control/controller_windows.go` | service record, event source, service state | the same five, stopAndWait | `WindowsController` |
| Detection of the init system | `src/internal/osutil/util_linux.go`, `src/control/controller_linux.go` | none | NewController; NewDaemonizer asks again | `Controllers` (`OnLinux`) |
| System specific options | `src/control/options_*.go` | none | RunOnlyWhenLoggedIn | `Controllers` (`SystemdOf`) |
| filewriter example | `src/examples/filewriter/main.go` | loop goroutine, channels stop and rejoin, the file | Start, Stop, updateFileLoop | `FileWriter` |
| Log configuration, Validate, wording | `src/common.go`, `src/control/common.go`, ... | none | pure or one-off I/O | not modelled |

How they interact:

- A service manager (systemd, launchd, the init.d script, the SCM) executes the
  program. The program calls `RunUntilExit`, which calls back `Application.Start`
  and, after a signal or a control, `Application.Stop`.
- On System V the program executes itself once more: a launcher and a daemon
  share the PID file as an open file, the script and the daemon share it by
  name, and the daemon decides what it is by looking at other processes.
- On Windows `svc.Run` calls back `Execute` in another goroutine; two unbuffered
  channels and a status word connect it with the SCM.
- A controller is a short program that makes a sequence of calls to the service
  manager. Nothing ties it to the daemon but the service manager's state.
- The example is an Application: the daemonizer's goroutine calls its Start and
  Stop, which talk over two channels to a goroutine of the application's own.

What is hard here, and what each part must get right:

- *Signals* arrive at any moment: before the channel is subscribed, between
  subscription and receive, during Stop. Start and Stop must stay in order, and
  a stop must have a cause.
- *The ancestor walk* reads a process table that changes under it. Whatever it
  concludes, one invocation of the script must not start two daemons, and the
  chain of launchers must end.
- *The PID file* has three writers in two or more processes. It should name the
  daemon, and should not name one that has ended in an orderly way.
- *Controls on Windows* queue up behind one another. The status that Windows
  shows must not run ahead of the application, must not go back, and must move.
- *Controllers* may fail at every call, or be interrupted between two of them,
  and the machine may boot in between. A complete installation must be whole, a
  complete removal must leave nothing that comes back, and a start type must
  mean the same on every system.
- *An application's own goroutines* must be told to stop and must have stopped
  when Stop returns; a Stop that waits for ever would hang the daemon.

`PROJECT.json` lists the single hazards with their lines.

## 2. Modules

```
ApplicationContract        what every daemonizer promises its application
  <- UnixDaemonizer        refines it          -> UnixDaemonizer_proofs
       <- SystemV          INSTANCEs UnixDaemonizer for the daemon's body
            <- MCSystemV   symmetry            -> SystemV_proofs
                                                    -> SystemVContract_proofs
                                                       -> SystemVPid_proofs
                                                          -> SystemVPatience_proofs
       <- FileWriter       refines it          -> FileWriter_proofs
  <- WindowsService        refines it          -> WindowsService_proofs

ControlCommand             clients, commands, how a command begins and ends
  <- SystemdController, SystemVController, LaunchdController, WindowsController
       <- Controllers      INSTANCEs the four, and says what all promise
                                               -> Controllers_proofs
ControllerContract         what the interface Controller promises its callers
  <- Controllers           refines it
```

The four proof modules of SystemV extend each other in this order: each takes its
invariants from the one before.

Definitions headed "Defect" are wrong variants of the definition that follows
them. No specification uses them. Each can be put in the place of the right
definition to see that a property notices: `PROJECT.json` names the pairs.

**ApplicationContract.** Two variables per process: `app` (idle, starting,
failed, running, stopping, stopped) and `fate` of RunUntilExit. Start once, Stop
at most once and only after a Start that returned nil, no return while the
application is starting, running or stopping. Only the death of the process
cuts this short.

**UnixDaemonizer.** `pc` is the place in the body of RunUntilExit:

| `pc` | line of `daemon_systemd_linux.go` |
|---|---|
| `start` | in `application.Start()`, 32 |
| `subscribe` | before `signal.Notify`, 38 |
| `notified`, `parked`, `received` | before, in and after the receive, 39 |
| `stop` | in `application.Stop()`, 42 |
| `defers` | deferred calls, return |

`sigq` is what the runtime has queued for the process, `Dispatch` its
non-blocking send: only a parked receiver gets the value. A signal that is not
subscribed ends the process. The darwin daemonizer has the same body, and so has
the interactive session on Windows, but for the signals: the constant `Caught`
is INT and TERM there, and INT alone here.
`signal.Stop` discards what is queued, as the runtime delivers it to nobody.

**SystemV.** Processes have a creator (`forker`) and the script run that their
lineage goes back to (`origin`, `gen`). `isInitdOurParent` reads one `/proc`
file per step: `cur` is the ancestor under examination and `idx` the loop
counter; `FindScript`, `PassAncestor`, `NextAncestor` and `LoseAncestor` are the
outcomes of a read. The last is an error, which a live ancestor may give as well
as one that has gone: a read may fail, and so does the parsing of a stat line whose
process has a blank in its name. `MaySee` and `MayMiss` say whether an exited
process is still in the process table: a zombie is, until its creator waits for it or, for
orphans, until pid 1 has reaped it. The launcher opens (and truncates) the PID
file, executes its child, writes the child's PID and returns. `linked` holds the
launchers whose open file is still the one at the path, because Red Hat's
`killproc` unlinks it. The daemon's body is that of UnixDaemonizer; its deferred
function truncates what descriptor 3 refers to. A script run is one process with
`spc`, from `Invoke` to `Reap` or `Finish`. `hasty` is a history variable: it
turns TRUE when a command is given before the last one's effects have settled,
so that `~hasty` is an administrator who waits.

**WindowsService.** `pc` follows `Execute` and `runAndBlock`. A control goes from
the SCM's handler (`offered`) to the loop of `svc.Run` (`held`) to `Execute`. A
send on `changes` sets `reported` and what the SCM shows (`scm`) in one step,
since the loop of `svc.Run` is always willing to receive. The SCM may start the
next process once it shows Stopped, also while the last one is still returning
from `svc.Run`.

**FileWriter.** The body is that of UnixDaemonizer, joined action by action: its
`StartOk` is also the opening of the file and the `go` statement, and its
`StopReturns` is spread over what Stop does. `loop` is the place in
`updateFileLoop`:

| `loop` | line of `examples/filewriter/main.go` |
|---|---|
| `waiting`, `writing` | in the select, in the case of the ticker |
| `replying` | has received the channel rejoin and is about to answer over it |
| `removing`, `closing` | the deferred calls |
| `over`, `none` | returned, or never started |

Stop gives up in two places: nobody takes the channel (the loop is in a write
that hangs), or nobody answers. After the second the loop is stuck in its send.
A file goes by the process that made it; `path` is the file that has the name.
`overlap` is a history variable, TRUE once two processes were alive at a time.

**ControlCommand.** A client is a control program, or the person at it: it runs
any number of commands, one after the other, with any start type, the unset one
included. `step` is the
next call that the command makes, "idle" when there is none. `Execute` begins a
command, `Proceed` goes from call to call, `Answer` and `Complete` return.
`installed` is a history variable: what the last *complete* Install or Uninstall
was, and "changing" while one is under way or after one has failed. Installs and
Uninstalls do not overlap, everything else may. `Die` ends one client between
two calls, `Cut(Clients)` all of them, in a reboot.

**SystemdController, SystemVController, LaunchdController, WindowsController.**
Each step is one call: to the file system, to systemctl, to `service`, chkconfig
and update-rc.d, to launchctlutil, to the SCM, to the registry. Each call can
fail. The service managers are modelled by what the code relies on, and marked
external in the map: systemd runs the unit it has in memory, `daemon-reload`
replaces it; `chkconfig off` makes kill links, while `update-rc.d disable` only
turns round those there are and `update-rc.d defaults` leaves them alone; launchd
does not load a job it knows; the SCM keeps a deleted service until it has
stopped and the last handle is closed. SystemVController has the script in
outline: `service start` looks at the PID file and starts the daemon afterwards,
in two steps that others may come between, and may overlook a daemon. Half a
script, which a write that failed leaves behind, is executable as well: the model
lets it exit with 0 whatever it is asked to do. Module SystemV has the detail.
Nothing loads the unit of a user's own systemd but what is asked of it, since the
target that it is enabled for is not there (`Wanted`).

**Controllers.** `host` is what `NewController` finds on the machine: systemd, for
the system or the user (`SystemdOf`, after `runSettings`), System V of Red Hat or
Debian (`OnLinux`), launchd, or Windows with or without a RunAs. It never changes. The four controllers
are instances that share the clients; those for systemd, System V and launchd
share `file` and `active`, of which a host has one. Properties that hold
everywhere are stated once; where one has an exception for a host, the exception
is named in it.

**ControllerContract.** The interface Controller for somebody who does not know
the host: each client has a `task` or none, and of the machine it knows whether
there is anything to start (`present`), whether the daemon is `up`, and whether a
start can no longer be called off (`late`). It promises that a nil means what it
says (Install: something to start is there; Uninstall: nothing is; Start: the
daemon is up; Stop: it is not), that Status neither overlooks a complete installation
nor reports a daemon that is not up unless a change is half done, that `present`
changes only while somebody installs or uninstalls, and that no step of a client
brings the daemon up but those of its own Start or of an Install whose start type
says so. A call may end in an error at any point: what a nil means is promised,
not that there will be one. Controllers refines it (`ImplementsContract`): `present`
is a file, a loaded unit or a record that is not marked for deletion, `up` is
`Up` of the host, `late` an init.d script that is past its look at the PID file.
One exception is in the contract itself: while a change is half done, a Start may
return nil with the daemon down. Two are parameters of the machine that never change: `waits` is false
where stopping may overlook the daemon or not wait for it (`service stop`), and
`eager` is true where loading also starts what is to start at load (launchd, as
`src/control/common.go` says of macOS).

## 3. Runs

Run any of them with `tlc -workers 2 -config X.cfg M`.

| cfg | module | instance | shows |
|---|---|---|---|
| `MCUnixDaemonizer` | UnixDaemonizer | 2 processes | the contract; a stop has a cause; which signals may kill a running or stopping application; a signal that meets the parked receive ends the daemon |
| `SysVDebian` | MCSystemV | 4 processes, 2 script runs, every command, stray signals, limit 2 | one application per start; the chain of launchers ends; the launcher writes the PID file before its child has made up its mind; an orderly exit clears the PID; only restart loses a PID |
| `SysVRedHat` | MCSystemV | 4 processes, 2 script runs, every command, limit 3 | the same for killproc, with restart no exception |
| `SysVLive` | MCSystemV | 2 processes, 2 Red Hat script runs, start, stop and by hand, limit 3 | launches settle; script runs end; every process implements the contract; descriptor 3 of a launched daemon is the PID file |
| `MCWindowsService` | WindowsService | 2 processes in turn | the contract; the status Windows shows; the exit code; stop and start come to an end |
| `Controllers` | Controllers | 2 clients, every host | an installation is whole; removal is final and leaves nothing to trip over; systemd starts the unit on the disk; what a boot starts and leaves alone; the promises of the interface Controller (ControllerContract); every command ends |
| `FileWriter` | FileWriter | 2 processes, Ctrl-C alone caught | the file is there for a process that runs alone; a Stop that returned nil means quiet; only an orderly stop removes the file; the body is that of UnixDaemonizer, liveness included |

Runs that end in a counterexample, each against a sentence of the repository:

| cfg | sentence | what happens |
|---|---|---|
| `UnixSignalLost` | `common.go:62` | a signal between `signal.Notify` and the receive is dropped, and the daemon runs on |
| `SysVRestart` | `common.go:55` | Debian's restart: the old daemon empties the new daemon's PID file |
| `SystemdManual` | `control/common.go:61` | a boot starts a ManualStart daemon, by the link an earlier installation left |
| `SystemdLogin` | `control/common.go:48` | a user's unit is wanted by multi-user.target, which the user's systemd does not have: a login does not start it |
| `FileWriterSecond` | `examples/filewriter/main.go:4` | a process on its way out removes, by name, the file that the next one writes to |

Other places where the models, following the code, part from what one may
expect. They have no run of their own; the properties are stated so that they
hold in spite of them, and their conditions say where the edge is.

- A TERM before `signal.Notify` ends the process with its application running
  and without Stop (`application_unix.go:17`), and a second one after
  `signal.Stop` cuts Stop short. `OnlySecondSignalCutsStop` says that a signal
  that is caught does no other harm.
- The comment in `control/common.go:57` says of a Windows daemon that runs as a
  normal user that "it will only start when the user logs in". The service is
  created with `mgr.StartAutomatic` for any RunAs (`controller_windows.go:93`), so
  that the SCM starts it at boot. `BootStartsInstalled` leaves this case out.
- An unset start type passes Validate, and `control/common.go:150` says that the
  daemon "must be started manually". Windows and launchd treat it as ManualStart.
  The switches for systemd and System V have no case for it, so that Install leaves
  enabled what an earlier automatic installation has enabled, and a boot starts the
  daemon. `ManualStaysOff` excepts the system's systemd, where ManualStart does no
  better (`SystemdManual`), and System V with an unset start type.
- After an Install that failed in its write, System V has half a script, of which
  Start and Stop may return nil without effect, and Status may say Running.
- A child that runs its search while its launcher and the script are still
  there takes itself for a launcher and starts another child. The first
  launcher may then write the PID of a process that is gone over the daemon's.
  `OnlyRestartLosesPid` excludes this by `NoMishap`.
- A process started by hand without `PS1` and without init.d has no PID file,
  and truncates whatever its application opened as descriptor 3.
  `LaunchedTruncatesPidFile` confines that to processes no launcher started.
- The script's reload sends a HUP, which nobody subscribes to: the daemon dies.
- Debian's condrestart tests the status the other way round: it leaves a running
  daemon alone, and without one it finds nothing to stop and starts nothing,
  unless a daemon comes up between its two looks at the PID file.
- Two scripts that start at the same time both start a daemon.
- On systemd a ManualStart installation does not reload; a later Start may run
  the unit that an earlier installation left in systemd's memory.
  `OldUnitNeverStarts` is about the automatic start types, and about Install.
- On Debian an Uninstall leaves the links. After a ManualStart installation they
  are kill links, which `update-rc.d defaults` does not touch: the next automatic
  installation stays off at boot (`BootStartsInstalled` excepts Debian). And
  `update-rc.d disable` may fail where there are none: Install then returns an
  error and leaves the script.
- On System V a Start whose script is past its look at the PID file brings the
  daemon up after an Uninstall has returned (`UninstalledStaysDown` names it).
- On System V and Windows an Uninstall may leave a running daemon, and an Install
  does not stop one that runs: the old program then goes on under the new
  installation.
- The loop of the example that has offered to answer and finds nobody is stuck,
  and never removes its file (`OnlyStoppedRemoves` has it the other way round).
  The main goroutine may also end the process before the loop's deferred calls
  have run: a Stop that returned nil does not mean that the file is gone.
- On Windows the removal of the file fails, as it is still open; the models let
  any removal fail.

The bounds, and why they are enough:

- *Processes.* A launch takes two processes, a launch that goes wrong once three.
  Four let two script runs launch one daemon each, or one run go wrong twice,
  which is as far as a limit of two or three lets it go wrong. In `SysVLive` two
  suffice for a start and a stop; a second start finds no process left and ends
  by `NoExecutable`.
- *MaxWalk.* The code looks at five ancestors. With three, a walk has a first, a
  middle and a last ancestor; with two, `SysVDebian` meets the limit itself: the
  generation that finds the script out of reach is executed and becomes the
  daemon. The proofs hold for every limit from two on.
- *Runs of the script.* Two, since every race in it is between two runs, or
  between one run and a signal.
- *Processes of UnixDaemonizer.* They do not interact; two show that nothing
  is shared by mistake.
- *Clients.* Two, with as many commands as they like: one that installs and
  removes, and one whose Start, Stop or GetStatus falls in between, since Installs
  and Uninstalls do not overlap. A unit file goes by the client that wrote it,
  which tells "this unit" from "an earlier one". The proofs hold for any number.
  One client is enough for the two sentences on systemd that do not hold.
- *Processes of FileWriter.* They share one file; two let one remove or keep what
  the other opens. `Caught` is INT alone in the run, so that it covers the session
  on Windows; the counterexample has INT and TERM, the proofs have any set.

`CHECK_DEADLOCK FALSE` stands in every configuration but those with clients
(`Controllers`, `SystemdManual`, `SystemdLogin`), because the other systems may stop: processes and script runs are used up, and a
service manager may have nothing to do. On a machine with clients somebody can
always give a command. `SYMMETRY` is used in runs without liveness only.

Fairness. `UnixDaemonizer`: the goroutine and the runtime's signal goroutine are
scheduled, and Start and Stop return, as the interface demands ("return as
quickly as possible"). `SystemV`: the same for launchers, daemons and script
runs. `WindowsService`: the goroutines are scheduled and a `select` with a ready
case chooses it in the end. `Controllers`: a command that was begun takes its
next step, as calls return, the ticker ticks and the timer fires. `FileWriter`:
the main goroutine and the runtime's; Stop's timeouts are part of the main
goroutine, and nothing is assumed of the loop, whose disk may hang.
Nobody is obliged to send a signal or a control, to give a command, or to kill
anything, and the service that a controller waits for need not react.

## 4. Proofs

Run `tlapm M_proofs.tla`. Everything holds for all values of the constants that
satisfy the named assumptions of the modules. Of `Caught` the proofs need only
what `CaughtAssumption` says: the program catches INT, TERM or both.

**UnixDaemonizer_proofs.** The invariant `Inv` adds to the types that the place
of the goroutine determines the phase of the application (`PhaseOfStep`) and
that a signal seen, queued or acted on was sent (`SeenMeansTold`). The second is
needed because `StopsOnlyWhenTold` by itself does not survive `Unsubscribe`: the
reason for stopping has to be carried from the signal through the queue and the
receive. From `Inv` follow `TypeCorrect`, `StopsWhenTold`, `FirstSignalIsHeard`
and `Implements`, the last with one step per action of the contract.

**SystemV_proofs.** `OneApplicationPerStart` is not inductive: a second process
of the same run may start its application as soon as the first one has become a
daemon, if nothing is known of how they are related. `LineInv` supplies that:
the descendants of a run form a line, one per generation, all but the last of
which have forked and are launchers that write or have exited
(`OnePerGeneration`, `ElderForked`), none of which touched the application.
`LineKept` treats all actions that execute nothing alike; `Fork` and `Spawn`
are proved by themselves. `LaunchChainBounded` rests on `ChainInv`: the walk
meets the script at the index that equals the generation (`WalkCounts`), so that
whoever finds it has a generation below the limit. Assumptions: names of
processes and runs differ from each other and from the special values
(`NamesAssumption`), and the limit is at least two (`WalkAssumption`). The other
three modules about SystemV need no more than these.

**SystemVContract_proofs.** `PhaseOfStep` is what it is for UnixDaemonizer, with
the steps of a launcher before it, in all of which the application is idle.
`Implements` then maps each step of a process to one of the contract: a launcher
that is done or gives up returns before Start, and every signal that the script
sends is a death of the process or nothing to the application. What holds for
the body of the daemon alone thus holds in a process that may also turn out to be
a launcher. `ForkedHoldPidFile` says that descriptor 3 of whatever a launcher
executes is the PID file from the first; `LaunchedTruncatesPidFile` follows.

**SystemVPid_proofs.** Who may write the PID file after whom. `LauncherGoneFirst`
is not inductive: a child could come to its verdict early, if nothing is known of
where its search stands. `WalkMeetsLauncher` says where: as long as the launcher
lives, the search is at the launcher, or one further at the script, which it finds
unless it fails, as `Kinship` has it that the script waits for the process it
executed. A search that fails ends the process before its application starts. So
the verdict "not init.d" needs a launcher that is gone, and with it the last
write of the child's PID. `PidInv` carries that to the end of the daemon: a PID
that stands in the file is that of a child whose launcher has ended, and the
launcher's open file is the one at the path (`NamedWasLaunched`), so that the
deferred truncation of the child empties the file that names it.
`CleanExitClearsPid` is part of `PidInv`; it says nothing of later generations,
which may have returned before their launcher writes their PID.

**SystemVPatience_proofs.** `OnlyRestartLosesPid` speaks of a patient
administrator and of launches that go as intended (`Patient`). Patience is lost
but never regained: `PastStays` and `IdleNoOp` show that each step from a
state that is not patient leads to another such state. From a patient state,
every step keeps `Orderly`: one script run at a time (`OneScript`), which executes
the program only when nobody lives and knows the child it waits for or stops
(`ScriptKnowsChild`); one child of a launcher at a time (`OneChild`), which the PID
file names from the end of its launcher on (`ChildNamed`), through the file
that the launcher still has at the path (`LauncherLinked`). The step that needs
most is `WritePid`: it names the child only because no other run of the script has
unlinked the file between the launcher's open and its write. Debian's restart
breaks `OneChild`, by leaving the old daemon to itself, and on Red Hat the script
waits in `KillWait`, for which `ScriptKnowsChild` has a conjunct of its own.

The invariants of these three modules were first checked by TLC, with four
processes and two runs of the script on both kinds of system.

**WindowsService_proofs.** `Inv` says how pc and phase go together
(`PhaseOfStep`), and how the status that the SCM shows agrees with the current
process (`Agreed`): a process whose application is busy is the current one and
the SCM does not show Stopped. This gives `StoppedIsQuiet` for any number of
processes in turn, and `Implements`. For `NeverBack` it must also be known that
the process of the service is not one that is yet to be started (`StoppedByEnd`),
or a start would take Stopped back. `CodeTellsError` has an invariant of its own,
`CodeTold`, which carries the error from lastErr through `ended` to the exit code.

**Controllers_proofs.** All safety properties of Controllers, for any number of
clients. `Exclusive` says that whoever installs or uninstalls does so alone, and
that `installed` is "changing" meanwhile; without it a second Install might
undo what a first one is about to complete. For each host, `OfSystemd`,
`OfSystemV`, `OfLaunchd` and `OfWindows` say what holds when a change is complete
and what holds on the way: a reload of Uninstall finds the file gone, the start of
Install finds the unit loaded or not in memory, a script is there from its
writing on, the record is present until the event source is registered, and so
on. A step on a host keeps `Exclusive` and the host's own part, one lemma each;
the other parts are about other hosts, and the host never changes. The lemmas
`SystemdStarts` ... `WindowsStarts` name the few calls that can bring a daemon up,
from which `StaysDown` and `NewestUnit` follow.

`Implements` maps every step of every host to one of ControllerContract. First come
the ends of commands: `BeginIs`, `ProceedIs`, `FailIs`, `CutIs` and so on say what a
step of ControlCommand is in the contract, given what it does to `present` and
`up`; then one lemma for each host (`SystemdKeeps`, `SystemVKeeps`, `LaunchdKeeps`,
`WindowsKeeps`) goes through its calls. Most of the promises are no
consequence of one step. That an Uninstall which returns nil leaves nothing needs
what `OfSystemd` and the others say of its earlier calls, and that Status does not
overlook an installation needs that a complete one is whole. For this they
also tell which command a call belongs to: a query is made by
Status alone, a removal by Uninstall alone. Assumption: no client is called
"none" or "partial".

**FileWriter_proofs.** To the types and phases `Inv` adds how far the loop and
Stop agree (`LoopAndStop`: past `replying` only with the outcome nil) and that
processes that do not overlap are one at a time (`OneAtATime`), of which the loop
has the file open that has the name (`OpenIsNamed`). `FileThereIfAlone` is not
inductive without the last two: that another process does not remove the name is
known only from its being gone. `SeenMeansTold` carries the signal to the
removal for `OnlyStoppedRemoves`. `IsDaemon` maps every step to one of
UnixDaemonizer or to a stutter. `KeepsContract` goes further down, to the
Application contract: Stop has four ways out, each of which is the one return of
Stop there. It is proved from `Inv`, which knows that a deferred call comes after a
return of Start or Stop and not after a signal. Assumption: "none" is not the name
of a process.

Every safety property that a run checks is thereby proved, for all values of the
constants. Only model-checked are the liveness properties: `ParkedSignalEndsDaemon`,
`LaunchSettles`, `ScriptEnds`, `AcceptedStopEnds`, `StartPendingPasses`,
`CommandEnds`, and of `ImplementsDaemonizer` the fairness (its safety part is
`IsDaemon`). Each needs ENABLED for the weak fairness it rests on, which TLAPS does
not have. Liveness, ENABLED and induction over data are out of the reach of the
provers; no definition here is recursive.

## 5. Not modelled

- Log set-up, event log, texts; argument and environment handling.
- The `su` that RUN_AS puts between script and program. It adds ancestors to the
  walk, and another process that waits for the launcher.
- `PS1` other than in `Foreground`; the pkill of the halt runlevels; reuse of
  PIDs; a PID file path that the launcher fails to parse from the script.
- A `/proc` stat line that yields a wrong number (names with blanks); a line
  that cannot be parsed is a failed walk, at any ancestor.
- On Windows a `SetServiceStatus` that fails, and recovery actions. Of systemd
  the restart on failure (a restarted daemon is a further process of
  UnixDaemonizer).
- What launchctlutil does inside: it is a library of its own, not in the
  repository, and LaunchdController takes its calls by their names.
- A detection of the init system that changes its mind. NewDaemonizer and
  NewController ask systemctl anew in every process; `host` is one answer for all.
- Two Installs or Uninstalls that overlap.

## 6. Plan

1. ApplicationContract, UnixDaemonizer, SystemV with the script; proofs of types,
   contract, one application per start, the bound of the chain. *Done.*
2. WindowsService with its proofs. *Done.*
3. SystemdController and WindowsController. *Done.*
4. SystemVController, the launchd controller and Controllers, which composes the
   four and says what all of them promise; proofs of that. *Done.*
5. FileWriter with its proofs; the interactive session of Windows as `Caught` of
   UnixDaemonizer. *Done.*
6. Proofs of the rest of the safety properties of SystemV, and of the contract
   for SystemV and FileWriter. *Done.*
7. RUN_AS: the `su` between script and program as a further ancestor.
8. ControllerContract, the interface Controller as an abstract specification,
   with the proof that Controllers refines it. *Done.*
