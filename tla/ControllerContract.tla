------------------------- MODULE ControllerContract -------------------------
(***************************************************************************)
(* What the interface Controller promises whoever gives commands, whatever *)
(* manages the daemons of the machine: an abstract specification that the  *)
(* controllers implement.  All it knows of the machine is whether there is *)
(* anything to start the daemon from, and whether the daemon is up.        *)
(***************************************************************************)
CONSTANT Clients

VARIABLES
    task, stype,        \* a client's command, if any, and its start type
    result,             \* what its last command returned
    installed,          \* what the last Install or Uninstall left
    present,            \* is there anything that a start would find?
    up,                 \* is the daemon up?
    late,               \* is a start past the point where it can be called off?
    waits, eager        \* of the machine: does stopping wait for the daemon,
                        \* does loading what starts at load start it?

requests == <<task, stype, result, installed>>
machine  == <<present, up, late>>
vars     == <<requests, machine, waits, eager>>

Idle       == "none"
Commands   == {"GetStatus", "Start", "Stop", "Install", "Uninstall"}
Changers   == {"Install", "Uninstall"}
StartTypes == {"StartImmediately", "StartOnLoad", "ManualStart", "Unset"}
\* With the SCM's names for Starting and Stopping.  Nobody pauses a daemon.
Statuses   == {"Running", "Stopped", "StoppedDead", "StartPending",
               "StopPending", "NotInstalled", "Unknown"}

Init ==
    /\ task   = [c \in Clients |-> Idle]
    /\ stype  = [c \in Clients |-> "ManualStart"]
    /\ result = [c \in Clients |-> "none"]
    /\ installed = "uninstalled"
    /\ present = FALSE /\ up = FALSE /\ late = FALSE
    /\ {waits, eager} \subseteq BOOLEAN

-----------------------------------------------------------------------------
(* What may happen to the machine.                                         *)

\* What is installed changes only while somebody changes it, and nothing
\* starts from nothing.
Sound ==
    /\ present' # present => installed = "changing"
    /\ late' => late \/ present
    /\ up'   => up \/ present \/ late

\* Whose command may bring the daemon up.
Starts(c) ==
    \/ task[c] = "Start"
    \/ /\ task[c] = "Install"
       /\ stype[c] \in {"StartImmediately"} \cup
                       (IF eager THEN {"StartOnLoad"} ELSE {})

\* A client's step, and one that nobody's command takes.
Acts(c) == Sound /\ (up' => up \/ Starts(c))
Settles == Sound /\ (up' => up) /\ (late' => late)

-----------------------------------------------------------------------------
(* The commands.                                                           *)

Begin(c, command, start) ==
    /\ task[c] = Idle
    /\ command \in Changers => \A d \in Clients : task[d] \notin Changers
    /\ task'   = [task EXCEPT ![c] = command]
    /\ stype'  = [stype EXCEPT ![c] = start]
    /\ result' = [result EXCEPT ![c] = "none"]
    /\ installed' = IF command \in Changers THEN "changing" ELSE installed
    /\ UNCHANGED machine

Proceed(c) == task[c] # Idle /\ Acts(c) /\ UNCHANGED requests

Return(c, answer) ==
    /\ task[c] # Idle
    /\ Acts(c)
    /\ task'   = [task EXCEPT ![c] = Idle]
    /\ stype'  = [stype EXCEPT ![c] = "ManualStart"]
    /\ result' = [result EXCEPT ![c] = answer]

\* Install and Uninstall return nil when everything, or nothing, is there.
InstallDone(c) ==
    /\ task[c] = "Install" /\ Return(c, "nil")
    /\ present' /\ installed' = stype[c]

UninstallDone(c) ==
    /\ task[c] = "Uninstall" /\ Return(c, "nil")
    /\ ~present' /\ installed' = "uninstalled"

\* Start and Stop return nil when the daemon is up, or is not.  Half an
\* installation may take a Start and do nothing.
StartDone(c) ==
    /\ task[c] = "Start" /\ Return(c, "nil")
    /\ up' \/ installed = "changing"
    /\ UNCHANGED installed

StopDone(c) ==
    /\ task[c] = "Stop" /\ Return(c, "nil")
    /\ (waits => ~up') /\ UNCHANGED installed

\* Status does not overlook what is installed, nor see a daemon where there
\* is none, unless half an installation is there.
StatusDone(c, status) ==
    /\ task[c] = "GetStatus" /\ Return(c, status)
    /\ status = "NotInstalled" => installed \notin StartTypes
    /\ status = "Running" => up \/ installed = "changing"
    /\ UNCHANGED <<installed, machine>>

Fails(c) == Return(c, "error") /\ UNCHANGED installed

-----------------------------------------------------------------------------
(* What happens without a command.                                         *)

Ends(some) ==
    LET after(f, x) == [c \in Clients |->
                           IF c \in some /\ task[c] # Idle THEN x ELSE f[c]] IN
    /\ task'   = after(task, Idle)
    /\ stype'  = after(stype, "ManualStart")
    /\ result' = after(result, "killed")
    /\ UNCHANGED installed

\* A control program dies, and with it a start that it waits for.
Dies(c) == Ends({c}) /\ Settles /\ UNCHANGED <<present, up>>

\* A boot ends all commands, and starts what it finds.
Boot == Ends(Clients) /\ Sound /\ ~late' /\ (up' => present)

Passes == UNCHANGED requests /\ Settles

Next ==
    /\ UNCHANGED <<waits, eager>>
    /\ \/ Boot \/ Passes
       \/ \E c \in Clients :
              \/ \E command \in Commands, start \in StartTypes :
                     Begin(c, command, start)
              \/ Proceed(c)
              \/ InstallDone(c) \/ UninstallDone(c)
              \/ StartDone(c) \/ StopDone(c)
              \/ \E status \in Statuses : StatusDone(c, status)
              \/ Fails(c) \/ Dies(c)

Spec == Init /\ [][Next]_vars

=============================================================================
