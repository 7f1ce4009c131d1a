----------------------------- MODULE Controllers -----------------------------
(***************************************************************************)
(* NewController and control.Execute: the program finds out what manages   *)
(* the daemons of the machine it runs on and carries out its commands with *)
(* the controller for it.  What Install, Uninstall and the start types     *)
(* promise is the same on every system, and stated here once for all.      *)
(***************************************************************************)
EXTENDS ControlCommand

VARIABLES
    host,               \* what manages the daemons here
    file, loaded, enabled, links, active,
    record, auto, source, state

unix    == <<file, loaded, enabled, links, active>>
windows == <<record, auto, source, state>>
vars    == <<host, unix, windows, clients>>

S == INSTANCE SystemdController WITH byUser <- (host = "systemd_user")
V == INSTANCE SystemVController WITH isRedHat <- (host = "redhat")
L == INSTANCE LaunchdController
W == INSTANCE WindowsController

-----------------------------------------------------------------------------
(* Which controller.                                                       *)

\* runSettings: whose unit it is, going by RunAs (which may be unset, the empty
\* string), the current user and the option RunOnlyWhenLoggedIn.
SystemdOf(runAs, current, whenLoggedIn) ==
    IF runAs = "unset" \/ ~whenLoggedIn THEN "systemd"
    ELSE IF runAs = current             THEN "systemd_user" ELSE "error"

\* NewController for Linux: does /bin/systemctl exit with 0 (not so in many a
\* container), is there a service program that prints its usage, is it a Red
\* Hat system, and is there the tool that makes the links?
OnLinux(systemd, systemctl, service, redhat, linker) ==
    CASE systemctl           -> systemd
      [] ~systemctl /\ service /\ linker ->
             IF redhat THEN "redhat" ELSE "debian"
      [] OTHER               -> "error"

\* On Windows RunAs goes to the SCM, with a password, and changes nothing else.
WindowsHosts == {"windows", "windows_user"}

\* Without a controller the program ends at once.
Hosts ==
    LET users == {"unset", "bob", "eve"}
        units == {SystemdOf(runAs, "bob", option) :
                      runAs \in users, option \in BOOLEAN} IN
    ({OnLinux(systemd, ctl, service, redhat, linker) : systemd \in units,
          ctl, service, redhat, linker \in BOOLEAN}
     \cup {"launchd"} \cup WindowsHosts) \ {"error"}

SystemdHosts == {"systemd", "systemd_user"}
SystemVHosts == {"redhat", "debian"}

-----------------------------------------------------------------------------
Init ==
    /\ host \in Hosts
    /\ S!SystemInit /\ V!SystemInit /\ L!SystemInit /\ W!SystemInit
    /\ ClientInit

\* What a controller does not know of stays as it is.
OnSystemd(A) == host \in SystemdHosts /\ A /\ UNCHANGED <<links, windows>>
OnSystemV(A) ==
    host \in SystemVHosts /\ A /\ UNCHANGED <<loaded, enabled, windows>>
OnLaunchd(A) == host = "launchd" /\ A /\ UNCHANGED <<enabled, links, windows>>
OnWindows(A) == host \in WindowsHosts /\ A /\ UNCHANGED unix

Next ==
    /\ UNCHANGED host
    /\ \/ OnSystemd(S!Next) \/ OnSystemV(V!Next)
       \/ OnLaunchd(L!Next) \/ OnWindows(W!Next)

Do(c) ==
    /\ UNCHANGED host
    /\ \/ OnSystemd(S!Do(c)) \/ OnSystemV(V!Do(c))
       \/ OnLaunchd(L!Do(c)) \/ OnWindows(W!Do(c))

\* A command that was started takes its next step: the programs it runs and
\* its system calls return, the ticker ticks and the timer fires.  The daemon
\* and the service manager need not do anything.
Fairness == \A c \in Clients : WF_vars(Do(c))

Spec == Init /\ [][Next]_vars /\ Fairness

-----------------------------------------------------------------------------
TypeOK ==
    /\ host \in Hosts
    /\ host \in SystemdHosts => S!TypeOK
    /\ host \in SystemVHosts => V!TypeOK
    /\ host = "launchd"      => L!TypeOK
    /\ host \in WindowsHosts => W!TypeOK

Up == active # "none" \/ state # "Stopped"

\* The machine boots, or the user logs in.
Booting ==
    \/ OnSystemd(S!Reboot) \/ OnSystemV(V!Reboot)
    \/ OnLaunchd(L!Reboot) \/ OnWindows(W!Reboot)

\* As long as nobody changes it again, a daemon whose Install returned nil is
\* there with all its parts: the unit, script or property list is whole; of an
\* automatic start type systemd knows the unit that was written last, though
\* the user's systemd may have forgotten it again; launchd knows some property
\* list; on Windows there is the event source as well.  No start, stop, failed
\* command or boot takes any of it away.
InstalledIsWhole ==
    installed \in StartTypes =>
        CASE host \in SystemdHosts ->
                 /\ file \in Clients
                 /\ installed \in AtBoot =>
                        /\ enabled
                        /\ \/ loaded = file
                           \/ loaded = "none" /\ host = "systemd_user"
          [] host \in SystemVHosts -> file = "script"
          [] host = "launchd"      ->
                 file = L!RunOnLoad(installed) /\ loaded # "none"
          [] host \in WindowsHosts ->
                 /\ record = "present" /\ source
                 /\ auto = (installed \in AtBoot)

\* Whatever earlier commands left half-done, an Uninstall that returned nil
\* leaves no file, nothing in the service manager's memory and no event
\* source, over which the next Install would trip.
UninstalledIsGone ==
    installed = Never => {file, loaded} = {"none"} /\ ~source

\* After an Uninstall that returned nil neither a boot nor a call to Start
\* brings the daemon up: what is left (links, a marked service) is harmless.
\* A Start of the init.d script that was under way already still may.
UninstalledStaysDown ==
    [][(installed = Never /\ ~Up) =>
          \/ ~Up'
          \/ host \in SystemVHosts /\ \E c \in Clients : step[c] = "spawn"]_vars

\* systemd: once Install of an automatic start type gets as far as starting
\* the daemon, or is through, no start, restart or boot brings up a daemon
\* from a unit older than the one that is on the disk.
OldUnitNeverStarts ==
    [][(/\ host \in SystemdHosts /\ active = "none" /\ active' # "none"
        /\ \/ installed \in AtBoot
           \/ \E c \in Clients : cmd[c] = "Install" /\ step[c] = "start")
       => active' = file]_vars

\* control/common.go on StartOnLoad: "It will, however, start each subsequent
\* time the operating system loads the daemon."  It does not where the user's
\* systemd has no multi-user.target, and on Debian, where the links an earlier
\* ManualStart has turned to kill are left alone.  Of a Windows daemon with a
\* RunAs it is said that "it will only start when the user logs in", while the
\* code has the SCM start it at boot: it is left out here.
BootStartsInstalled ==
    [][(Booting /\ installed \in AtBoot)
       => Up' \/ host \in {"systemd_user", "debian", "windows_user"}]_vars

\* control/common.go on ManualStart: "the operating system will not start the
\* daemon when it loads it."  On systemd it does if it did before.  An unset
\* start type means the same; on System V its daemon starts if it did before.
ManualStaysOff ==
    [][(Booting /\ installed \in Manual) =>
          \/ ~Up' \/ host = "systemd"
          \/ host \in SystemVHosts /\ installed = "Unset"]_vars

\* The Controller interface, on every host: what Install, Uninstall, Start and
\* Stop have done when they return nil, what Status may say, whose commands
\* bring the daemon up, and that only Install and Uninstall change what there
\* is to start.  `service stop` may overlook a daemon or not wait for it.
Contract == INSTANCE ControllerContract WITH
    task    <- [c \in Clients |-> IF Working(c) THEN cmd[c] ELSE "none"],
    present <- {file, loaded} # {"none"} \/ record = "present",
    up      <- Up,
    late    <- host \in SystemVHosts /\ \E c \in Clients : step[c] = "spawn",
    waits   <- host \notin SystemVHosts,
    eager   <- host = "launchd"

ImplementsContract == Contract!Spec

\* Every command ends, also Stop and Uninstall of a service that hangs.
CommandEnds == \A c \in Clients : Working(c) ~> ~Working(c)

=============================================================================
