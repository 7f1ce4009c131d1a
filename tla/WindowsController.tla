------------------------- MODULE WindowsController -------------------------
(***************************************************************************)
(* The Windows controller: Install, Uninstall, Start, Stop and Status as   *)
(* sequences of calls to the Service Control Manager (SCM) and to the      *)
(* registry's list of event sources, each of which can fail, against a     *)
(* service that starts, stops, dies and boots on its own account.          *)
(* Deleting a service only marks it: the SCM removes it once it has        *)
(* stopped and the last handle to it is closed.                            *)
(***************************************************************************)
EXTENDS ControlCommand

VARIABLES
    record,             \* the service in the SCM's database
    auto,               \* is it configured with mgr.StartAutomatic?
    source,             \* is the event source registered?
    state               \* the state of the service

system == <<record, auto, source, state>>

SystemInit ==
    record = "absent" /\ auto = FALSE /\ source = FALSE /\ state = "Stopped"

\* A client past OpenService or CreateService holds a handle to the service.
Holds(c) == Working(c) /\ step[c] \notin {"open", "create"}

Invoke(c, command, start) ==
    /\ Execute(c, command, start,
               IF command = "Install" THEN "create" ELSE "open")
    /\ UNCHANGED system

OpenService(c) ==
    /\ record # "absent"
    /\ Proceed(c, "open",
               CASE cmd[c] \in {"Stop", "Uninstall"} -> "control"
                 [] cmd[c] = "Start"                 -> "start"
                 [] cmd[c] = "GetStatus"             -> "query")
    /\ UNCHANGED system

\* Defect: Status takes any error of OpenService for "not installed".
OpenFailsAsAbsent(c) ==
    /\ Answer(c, "open", IF cmd[c] = "GetStatus" THEN "NotInstalled" ELSE "error")
    /\ UNCHANGED system

\* No such service, no rights, or no connection to the SCM at all.
OpenFails(c) ==
    /\ \/ Answer(c, "open", "error")
       \/ /\ cmd[c] = "GetStatus" /\ record = "absent"
          /\ Answer(c, "open", "NotInstalled")
    /\ UNCHANGED system

Query(c) ==
    /\ Answer(c, "query", state) \/ Answer(c, "query", "error")
    /\ UNCHANGED system

-----------------------------------------------------------------------------
(* Install.                                                                *)

\* NewController: the start types that become mgr.StartAutomatic.
Automatic(start) == start \in AtBoot

CreateService(c) ==
    /\ record = "absent"
    /\ record' = "present"
    /\ auto' = Automatic(stype[c])
    /\ Proceed(c, "create", IF stype[c] = "StartImmediately"
                            THEN "start" ELSE "register")
    /\ UNCHANGED <<source, state>>

\* It exists, is marked for deletion, the password is wrong...
CreateFails(c) ==
    /\ Answer(c, "create", "error")
    /\ UNCHANGED system

StartService(c) ==
    /\ record = "present" /\ state = "Stopped"
    /\ state' = "StartPending"
    /\ IF cmd[c] = "Install" THEN Proceed(c, "start", "register")
                             ELSE Answer(c, "start", "nil")
    /\ UNCHANGED <<record, auto, source>>

\* Install tries to take back what it created, without a look at the error.
RollBack == record' \in {record, "marked"}

StartFails(c) ==
    /\ IF cmd[c] = "Install" THEN RollBack ELSE UNCHANGED record
    /\ Answer(c, "start", "error")
    /\ UNCHANGED <<auto, source, state>>

RegisterSource(c) ==
    /\ ~source /\ source' = TRUE
    /\ Complete(c, "register", stype[c])
    /\ UNCHANGED <<record, auto, state>>

\* Defect: a failing eventlog.InstallAsEventCreate does not fail Install.
RegisterFailsUnseen(c) ==
    /\ Complete(c, "register", stype[c])
    /\ UNCHANGED system

\* The registry key exists already, or cannot be written.
RegisterFails(c) ==
    /\ RollBack
    /\ Answer(c, "register", "error")
    /\ UNCHANGED <<auto, source, state>>

-----------------------------------------------------------------------------
(* stopAndWait, and Uninstall around it.                                   *)

SendStop(c) ==
    /\ state = "Running" /\ state' = "StopPending"
    /\ Proceed(c, "control", "poll")
    /\ UNCHANGED <<record, auto, source>>

\* The service is not running, or does not take the control now.
SendStopFails(c) ==
    /\ AfterStop(c, "control", "error", "delete")
    /\ UNCHANGED system

\* A tick at which Query shows any other state changes nothing.
SeeStopped(c) ==
    /\ state = "Stopped"
    /\ AfterStop(c, "poll", "nil", "delete")
    /\ UNCHANGED system

\* Defect: stopAndWait has neither a timeout nor a look at Query's error.
GiveUpNever(c) == FALSE

\* onTimeout fires, or Query fails.  The timeout comes from the registry and
\* may be anything, so it may be up before the first tick.
GiveUp(c) ==
    /\ AfterStop(c, "poll", "error", "delete")
    /\ UNCHANGED system

DeleteService(c) ==
    /\ record = "present" /\ record' = "marked"
    /\ Proceed(c, "delete", "unregister")
    /\ UNCHANGED <<auto, source, state>>

\* Defect: the error of Delete is ignored.
DeleteFailsUnseen(c) ==
    /\ Proceed(c, "delete", "unregister")
    /\ UNCHANGED system

DeleteFails(c) ==
    /\ Answer(c, "delete", "error")
    /\ UNCHANGED system

RemoveSource(c) ==
    /\ source /\ source' = FALSE
    /\ Complete(c, "unregister", Never)
    /\ UNCHANGED <<record, auto, state>>

RemoveSourceFails(c) ==
    /\ Answer(c, "unregister", "error")
    /\ UNCHANGED system

-----------------------------------------------------------------------------
(* The service and the system.                                             *)

\* It gets through starting or stopping, fails to start, or dies.
ServiceMoves ==
    /\ \/ state = "StartPending" /\ state' \in {"Running", "Stopped"}
       \/ state \in {"Running", "StopPending"} /\ state' = "Stopped"
    /\ UNCHANGED <<record, auto, source, clients>>

Vanish ==
    /\ record = "marked" /\ state = "Stopped"
    /\ \A c \in Clients : ~Holds(c)
    /\ record' = "absent"
    /\ UNCHANGED <<auto, source, state, clients>>

\* Clients are interrupted; marked services are gone, automatic ones start.
Reboot ==
    /\ Cut(Clients)
    /\ record' = IF record = "marked" THEN "absent" ELSE record
    /\ state'  = IF record = "present" /\ auto THEN "StartPending" ELSE "Stopped"
    /\ UNCHANGED <<auto, source>>

Do(c) ==
    \/ OpenService(c) \/ OpenFails(c) \/ Query(c)
    \/ CreateService(c) \/ CreateFails(c)
    \/ StartService(c) \/ StartFails(c)
    \/ RegisterSource(c) \/ RegisterFails(c)
    \/ SendStop(c) \/ SendStopFails(c) \/ SeeStopped(c) \/ GiveUp(c)
    \/ DeleteService(c) \/ DeleteFails(c)
    \/ RemoveSource(c) \/ RemoveSourceFails(c)

Next ==
    \/ \E c \in Clients :
           \/ \E command \in Commands, start \in StartTypes :
                  Invoke(c, command, start)
           \/ Do(c)
           \/ Die(c) /\ UNCHANGED system
    \/ ServiceMoves \/ Vanish \/ Reboot

-----------------------------------------------------------------------------
States == {"StartPending", "Running", "StopPending", "Stopped"}

TypeOK ==
    /\ record \in {"absent", "present", "marked"}
    /\ {auto, source} \subseteq BOOLEAN
    /\ state \in States
    /\ ClientTypeOK({"open", "query", "create", "start", "register", "control",
                     "poll", "delete", "unregister"},
                    States \cup {"NotInstalled"})

=============================================================================
