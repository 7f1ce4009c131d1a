-------------------------- MODULE SystemdController --------------------------
(***************************************************************************)
(* The systemd controller: what Install, Uninstall, Start, Stop and Status *)
(* do to the unit file and ask of systemctl, one call after the other, and *)
(* what is left when a call fails, the program dies or the machine boots   *)
(* in between.  systemd itself (the units it has loaded, what is enabled,  *)
(* what runs) is modelled by what its commands do.  A unit is identified   *)
(* with the client that writes it.                                         *)
(***************************************************************************)
EXTENDS ControlCommand

VARIABLES
    byUser,             \* addUserArg: a unit of the user's own systemd
    file,               \* the unit file
    loaded,             \* the unit as systemd has it in memory
    enabled,            \* is it linked to multi-user.target?
    active              \* the unit the running daemon was started from

system == <<byUser, file, loaded, enabled, active>>
vars   == <<system, clients>>

NoUnit  == "none"
Partial == "partial"    \* a unit file whose writing failed half-way

SystemInit ==
    file = NoUnit /\ loaded = NoUnit /\ enabled = FALSE /\ active = NoUnit

Invoke(c, command, start) ==
    /\ Execute(c, command, start,
           CASE command = "Install" -> "write"
             [] command = "Start"   -> "start"
             [] command \in {"Stop", "Uninstall"} -> "stop"
             [] command = "GetStatus" -> "stat")
    /\ UNCHANGED system

\* Defect: the zero Status is returned for a unit file that is not there.
StatZero(c) ==
    /\ IF file = NoUnit THEN Answer(c, "stat", "")
                        ELSE Proceed(c, "stat", "query")
    /\ UNCHANGED system

\* Status: the unit file first, systemctl status afterwards.
StatUnitFile(c) ==
    /\ IF file = NoUnit THEN Answer(c, "stat", "NotInstalled")
                        ELSE Proceed(c, "stat", "query")
    /\ UNCHANGED system

\* Exit code 0, 3, 4 of a unit that systemd does not know, or systemctl fails.
Query(c) ==
    /\ \/ active # NoUnit /\ Answer(c, "query", "Running")
       \/ /\ active = NoUnit
          /\ Answer(c, "query", IF {file, loaded} = {NoUnit}
                                THEN "Unknown" ELSE "Stopped")
       \/ \E failed \in {"StoppedDead", "Unknown"} : Answer(c, "query", failed)
    /\ UNCHANGED system

-----------------------------------------------------------------------------
(* Install.                                                                *)

\* Defect: the daemon is started without a daemon-reload.
WriteAndStart(c) ==
    /\ file' = c
    /\ CASE stype[c] = "StartImmediately" -> Proceed(c, "write", "start")
         [] stype[c] = "StartOnLoad"      -> Proceed(c, "write", "enable")
         [] stype[c] \in Manual           -> Complete(c, "write", stype[c])
    /\ UNCHANGED <<byUser, loaded, enabled, active>>

\* Writing the file; what follows is the switch on the start type, which does
\* nothing for ManualStart and has no case for an unset one.
WriteUnit(c) ==
    /\ file' = c
    /\ CASE stype[c] = "StartImmediately" -> Proceed(c, "write", "reload")
         [] stype[c] = "StartOnLoad"      -> Proceed(c, "write", "enable")
         [] stype[c] \in Manual           -> Complete(c, "write", stype[c])
    /\ UNCHANGED <<byUser, loaded, enabled, active>>

WriteFails(c) ==
    /\ file' \in {file, Partial}
    /\ Answer(c, "write", "error")
    /\ UNCHANGED <<byUser, loaded, enabled, active>>

\* systemctl enable links the unit and reloads the configuration.
Enable(c) ==
    /\ file \in Clients
    /\ enabled' = TRUE /\ loaded' = file
    /\ Complete(c, "enable", stype[c])
    /\ UNCHANGED <<byUser, file, active>>

-----------------------------------------------------------------------------
(* Uninstall, Start and Stop; daemon-reload belongs to Install as well.    *)

\* systemctl daemon-reload
Reload(c) ==
    /\ loaded' = file
    /\ IF cmd[c] = "Install" THEN Proceed(c, "reload", "start")
                             ELSE Complete(c, "reload", Never)
    /\ UNCHANGED <<byUser, file, enabled, active>>

\* systemctl start of a unit that is not in memory loads it; of one that is
\* active it does nothing.
RunUnit ==
    LET known == IF loaded = NoUnit THEN file ELSE loaded IN
    IF active # NoUnit
    THEN UNCHANGED <<loaded, active>>
    ELSE known \in Clients /\ loaded' = known /\ active' = known

StartUnit(c) ==
    /\ RunUnit
    /\ IF cmd[c] = "Install" THEN Proceed(c, "start", "enable")
                             ELSE Answer(c, "start", "nil")
    /\ UNCHANGED <<byUser, file, enabled>>

StopUnit(c) ==
    /\ {file, loaded, active} # {NoUnit}
    /\ active' = NoUnit
    /\ AfterStop(c, "stop", "nil", "remove")
    /\ UNCHANGED <<byUser, file, loaded, enabled>>

StopFails(c) ==
    /\ AfterStop(c, "stop", "error", "remove")
    /\ UNCHANGED system

\* Defect: the unit file is removed without a daemon-reload.
RemoveOnly(c) ==
    /\ file # NoUnit /\ file' = NoUnit
    /\ Complete(c, "remove", Never)
    /\ UNCHANGED <<byUser, loaded, enabled, active>>

RemoveUnit(c) ==
    /\ file # NoUnit /\ file' = NoUnit
    /\ Proceed(c, "remove", "reload")
    /\ UNCHANGED <<byUser, loaded, enabled, active>>

\* os.Remove fails, systemctl cannot be run, or exits with a code that is not 0.
CallFails(c) ==
    /\ \E at \in {"remove", "reload", "start", "enable"} :
           Answer(c, at, "error")
    /\ UNCHANGED system

-----------------------------------------------------------------------------
(* What happens without a client.                                          *)

\* The daemon exits and, being done or failing too often, is not restarted.
DaemonEnds ==
    /\ active # NoUnit /\ active' = NoUnit
    /\ UNCHANGED <<byUser, file, loaded, enabled, clients>>

\* Does a boot or login want the unit?  The link is from multi-user.target,
\* which only the system's systemd has.
Wanted == enabled /\ ~byUser

\* systemd forgets units that are neither active nor wanted by others.
Unload ==
    /\ active = NoUnit /\ ~Wanted /\ loaded # NoUnit
    /\ loaded' = NoUnit
    /\ UNCHANGED <<byUser, file, enabled, active, clients>>

\* The machine boots or, for the user's own systemd, the user logs in again.
\* Only units that are wanted are loaded, and started if they are whole.
Reboot ==
    /\ Cut(Clients)
    /\ loaded' = IF Wanted THEN file ELSE NoUnit
    /\ active' = IF Wanted /\ file \in Clients THEN file ELSE NoUnit
    /\ UNCHANGED <<byUser, file, enabled>>

Do(c) ==
    \/ StatUnitFile(c) \/ Query(c)
    \/ WriteUnit(c) \/ WriteFails(c) \/ Enable(c)
    \/ Reload(c) \/ StartUnit(c) \/ StopUnit(c) \/ StopFails(c)
    \/ RemoveUnit(c) \/ CallFails(c)

Next ==
    \/ DaemonEnds \/ Unload \/ Reboot
    \/ \E c \in Clients :
           \/ \E command \in Commands, start \in StartTypes :
                  Invoke(c, command, start)
           \/ Do(c)
           \/ Die(c) /\ UNCHANGED system

Spec == (SystemInit /\ ClientInit /\ byUser \in BOOLEAN) /\ [][Next]_vars

-----------------------------------------------------------------------------
TypeOK ==
    /\ file \in Clients \cup {NoUnit, Partial}
    /\ loaded \in Clients \cup {NoUnit, Partial}
    /\ byUser \in BOOLEAN /\ enabled \in BOOLEAN
    /\ active \in Clients \cup {NoUnit}
    /\ ClientTypeOK({"stat", "query", "write", "reload", "start", "enable",
                     "stop", "remove"},
                    {"Running", "Stopped", "StoppedDead", "NotInstalled",
                     "Unknown"})

\* control/common.go on ManualStart: "the operating system will not start the
\* daemon when it loads it."  An unset start type means the same.
ManualStaysOff ==
    [][(Reboot /\ installed \in Manual) => active' = NoUnit]_vars

\* control/common.go on StartOnLoad: "a user-owned daemon will only start when
\* that user logs in."
LoginStartsInstalled ==
    [][(Reboot /\ byUser /\ installed \in AtBoot) => active' # NoUnit]_vars

=============================================================================
