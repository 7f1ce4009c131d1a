-------------------------- MODULE SystemVController --------------------------
(***************************************************************************)
(* The System V controller: the init.d script it writes and removes, what  *)
(* it asks of `service`, chkconfig (Red Hat) and update-rc.d (Debian), and *)
(* what is left when one of them fails or the program dies in between.     *)
(* Module SystemV has the script, the PID file and the processes in detail;*)
(* here a daemon is up or not, and while it is up (launching, say, or on   *)
(* its way out) the script may or may not find it by its PID file.         *)
(***************************************************************************)
EXTENDS ControlCommand

VARIABLES
    isRedHat,           \* chkconfig and killproc, or Debian's tools?
    file,               \* the init.d script
    links,              \* the links of the runlevels: to "start" or to "kill"
    active              \* is a daemon "up"?

system == <<isRedHat, file, links, active>>

SystemInit == file = "none" /\ links = "none" /\ active = "none"

Invoke(c, command, start) ==
    /\ Execute(c, command, start,
           CASE command = "Install" -> "write"
             [] command = "Start"   -> "check"
             [] command \in {"Stop", "Uninstall"} -> "stop"
             [] command = "GetStatus" -> "stat")
    /\ UNCHANGED system

\* Status: the script's file first, `service status` afterwards.
StatScript(c) ==
    /\ IF file = "none" THEN Answer(c, "stat", "NotInstalled")
                        ELSE Proceed(c, "stat", "query")
    /\ UNCHANGED system

\* Half a script, which is executable too, does nothing, and may do so with
\* exit code 0, whatever it is asked to do.
Query(c) ==
    /\ \/ (active = "up" \/ file = "partial") /\ Answer(c, "query", "Running")
       \/ \E found \in {"Stopped", "StoppedDead", "Unknown"} :
              Answer(c, "query", found)
    /\ UNCHANGED system

-----------------------------------------------------------------------------
(* Install.                                                                *)

\* Writing the script; what follows is the switch on the start type, which
\* has no case for an unset one: the links stay as they are.
WriteScript(c) ==
    /\ file' = "script"
    /\ CASE stype[c] = "StartImmediately" -> Proceed(c, "write", "check")
         [] stype[c] = "StartOnLoad"      -> Proceed(c, "write", "enable")
         [] stype[c] = "ManualStart"      -> Proceed(c, "write", "disable")
         [] stype[c] = "Unset"            -> Complete(c, "write", stype[c])
    /\ UNCHANGED <<isRedHat, links, active>>

WriteFails(c) ==
    /\ file' \in {file, "partial"}
    /\ Answer(c, "write", "error")
    /\ UNCHANGED <<isRedHat, links, active>>

\* `chkconfig on` sets the links; `update-rc.d defaults` makes them, unless
\* there are any.
Enable(c) ==
    /\ links' = IF isRedHat \/ links = "none" THEN "start" ELSE links
    /\ Complete(c, "enable", stype[c])
    /\ UNCHANGED <<isRedHat, file, active>>

\* Defect: the default of ManualStart is to leave the links alone.
LeaveLinks(c) ==
    /\ Complete(c, "disable", stype[c])
    /\ UNCHANGED system

\* `chkconfig off` sets the links; `update-rc.d disable` turns round those
\* there are.
Disable(c) ==
    /\ links' = IF isRedHat \/ links # "none" THEN "kill" ELSE links
    /\ Complete(c, "disable", stype[c])
    /\ UNCHANGED <<isRedHat, file, active>>

-----------------------------------------------------------------------------
(* Start, Stop and Uninstall.                                              *)

Started(c, from) ==
    IF cmd[c] = "Install" THEN Proceed(c, from, "enable")
                          ELSE Answer(c, from, "nil")

\* `service start` finds the daemon of the PID file and is done, or goes on;
\* half a script is done at once.
CheckPid(c) ==
    /\ \/ file = "script" /\ active = "up" /\ Started(c, "check")
       \/ file = "script" /\ Proceed(c, "check", "spawn")
       \/ file = "partial" /\ Started(c, "check")
    /\ UNCHANGED system

\* ...and executes the program; the script that is running may be gone.
Spawn(c) ==
    /\ active' = "up"
    /\ Started(c, "spawn")
    /\ UNCHANGED <<isRedHat, file, links>>

\* The launcher fails, possibly after it has started the daemon.
SpawnFails(c) ==
    /\ active' \in {active, "up"}
    /\ Answer(c, "spawn", "error")
    /\ UNCHANGED <<isRedHat, file, links>>

\* `service stop` exits with 0, whatever it finds.  killproc returns when the
\* daemon has gone, start-stop-daemon when it has sent the signal.
StopDaemon(c) ==
    /\ file # "none"
    /\ active' \in {active} \cup (IF isRedHat /\ file = "script"
                                   THEN {"none"} ELSE {})
    /\ AfterStop(c, "stop", "nil", "remove")
    /\ UNCHANGED <<isRedHat, file, links>>

\* Without a script there is no such service.
StopFails(c) ==
    /\ AfterStop(c, "stop", "error", "remove")
    /\ UNCHANGED system

\* os.Remove; nobody removes the links.
RemoveScript(c) ==
    /\ file # "none" /\ file' = "none"
    /\ Complete(c, "remove", Never)
    /\ UNCHANGED <<isRedHat, links, active>>

\* The script or the tool is not there, fails, or os.Remove does.
CallFails(c) ==
    /\ \E at \in {"check", "remove", "enable", "disable"} :
           Answer(c, at, "error")
    /\ UNCHANGED system

-----------------------------------------------------------------------------
DaemonEnds ==
    /\ active = "up" /\ active' = "none"
    /\ UNCHANGED <<isRedHat, file, links, clients>>

\* init follows the links of the runlevel; a link to nothing does no harm.
Reboot ==
    /\ Cut(Clients)
    /\ active' = IF links = "start" /\ file = "script" THEN "up" ELSE "none"
    /\ UNCHANGED <<isRedHat, file, links>>

Do(c) ==
    \/ StatScript(c) \/ Query(c)
    \/ WriteScript(c) \/ WriteFails(c) \/ Enable(c) \/ Disable(c)
    \/ CheckPid(c) \/ Spawn(c) \/ SpawnFails(c)
    \/ StopDaemon(c) \/ StopFails(c) \/ RemoveScript(c) \/ CallFails(c)

Next ==
    \/ DaemonEnds \/ Reboot
    \/ \E c \in Clients :
           \/ \E command \in Commands, start \in StartTypes :
                  Invoke(c, command, start)
           \/ Do(c)
           \/ Die(c) /\ UNCHANGED system

TypeOK ==
    /\ isRedHat \in BOOLEAN
    /\ file  \in {"none", "partial", "script"}
    /\ links \in {"none", "start", "kill"}
    /\ active \in {"none", "up"}
    /\ ClientTypeOK({"stat", "query", "write", "enable", "disable", "check",
                     "spawn", "stop", "remove"},
                    {"Running", "Stopped", "StoppedDead", "NotInstalled",
                     "Unknown"})

=============================================================================
