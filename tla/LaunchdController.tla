-------------------------- MODULE LaunchdController --------------------------
(***************************************************************************)
(* The launchd controller.  Its work is done by the library launchctlutil, *)
(* which is modelled by what its names and the comments of the controller  *)
(* say: Install writes the property list and has launchd load it, Remove   *)
(* unloads the job, which stops the daemon, and deletes the file.          *)
(***************************************************************************)
EXTENDS ControlCommand

VARIABLES
    file,               \* the property list, by its RunAtLoad
    loaded,             \* the property list launchd has loaded
    active              \* is the daemon "up"?

system == <<file, loaded, active>>

SystemInit == file = "none" /\ loaded = "none" /\ active = "none"

\* Defect: the case of the switch on the start type lacks StartOnLoad.
RunAtOnce(start) == IF start = "StartImmediately" THEN "load" ELSE "manual"

\* NewController: the start types for which runOnLoad is set.
RunOnLoad(start) == IF start \in AtBoot THEN "load" ELSE "manual"

Invoke(c, command, start) ==
    /\ Execute(c, command, start,
           CASE command = "Install"   -> "mkdir"
             [] command = "Start"     -> "start"
             [] command = "Stop"      -> "stop"
             [] command = "Uninstall" -> "unload"
             [] command = "GetStatus" -> "query")
    /\ UNCHANGED system

Query(c) ==
    /\ Answer(c, "query", IF loaded = "none" THEN "NotInstalled"
                          ELSE IF active = "up" THEN "Running" ELSE "Stopped")
    /\ UNCHANGED system

QueryFails(c) ==
    /\ \E failed \in {"error", "Unknown"} : Answer(c, "query", failed)
    /\ UNCHANGED system

\* Install: the directory of the log comes first, if there is a log.
MakeLogDir(c) ==
    /\ Proceed(c, "mkdir", "write")
    /\ UNCHANGED system

WriteList(c) ==
    /\ file' = RunOnLoad(stype[c])
    /\ Proceed(c, "write", "load")
    /\ UNCHANGED <<loaded, active>>

WriteFails(c) ==
    /\ file' \in {file, "partial"}
    /\ Answer(c, "write", "error")
    /\ UNCHANGED <<loaded, active>>

\* launchd starts what is to run at load; a job it knows stays as it is.
LoadList(c) ==
    /\ IF loaded # "none"
       THEN UNCHANGED <<loaded, active>>
       ELSE /\ loaded' = file
            /\ active' = IF file = "load" THEN "up" ELSE active
    /\ Complete(c, "load", stype[c])
    /\ UNCHANGED file

\* Remove
UnloadJob(c) ==
    /\ loaded' = "none" /\ active' = "none"
    /\ Proceed(c, "unload", "remove")
    /\ UNCHANGED file

RemoveList(c) ==
    /\ file # "none" /\ file' = "none"
    /\ Complete(c, "remove", Never)
    /\ UNCHANGED <<loaded, active>>

StartJob(c) ==
    /\ loaded # "none" /\ active' = "up"
    /\ Answer(c, "start", "nil")
    /\ UNCHANGED <<file, loaded>>

StopJob(c) ==
    /\ loaded # "none" /\ active' = "none"
    /\ Answer(c, "stop", "nil")
    /\ UNCHANGED <<file, loaded>>

CallFails(c) ==
    /\ \E at \in {"mkdir", "load", "unload", "remove", "start", "stop"} :
           Answer(c, at, "error")
    /\ UNCHANGED system

-----------------------------------------------------------------------------
DaemonEnds ==
    /\ active = "up" /\ active' = "none"
    /\ UNCHANGED <<file, loaded, clients>>

\* The machine boots or, for an agent, its user logs in: launchd loads every
\* property list it can read.
Reboot ==
    /\ Cut(Clients)
    /\ loaded' = IF file = "partial" THEN "none" ELSE file
    /\ active' = IF file = "load" THEN "up" ELSE "none"
    /\ UNCHANGED file

Do(c) ==
    \/ Query(c) \/ QueryFails(c)
    \/ MakeLogDir(c) \/ WriteList(c) \/ WriteFails(c) \/ LoadList(c)
    \/ UnloadJob(c) \/ RemoveList(c) \/ StartJob(c) \/ StopJob(c)
    \/ CallFails(c)

Next ==
    \/ DaemonEnds \/ Reboot
    \/ \E c \in Clients :
           \/ \E command \in Commands, start \in StartTypes :
                  Invoke(c, command, start)
           \/ Do(c)
           \/ Die(c) /\ UNCHANGED system

TypeOK ==
    /\ file \in {"none", "partial", "load", "manual"}
    /\ loaded \in {"none", "load", "manual"}
    /\ active \in {"none", "up"}
    /\ ClientTypeOK({"mkdir", "write", "load", "unload", "remove", "start",
                     "stop", "query"},
                    {"Running", "Stopped", "NotInstalled", "Unknown"})

=============================================================================
