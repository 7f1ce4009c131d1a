--------------------------- MODULE ControlCommand ---------------------------
(***************************************************************************)
(* control.Execute, and what all controllers have in common: a client is a *)
(* control program, or whoever keeps running it, that executes one command *)
(* after the other.  A command is a sequence of calls to the system, each  *)
(* a step of the client.                                                   *)
(***************************************************************************)
CONSTANT Clients        \* control programs

\* A unit file goes by the client that wrote it, or by one of these.
ASSUME NamesAssumption == {"none", "partial"} \cap Clients = {}

VARIABLES
    cmd, stype,         \* a client's command and configured start type
    step, result,       \* how far it got, what the command returned
    installed           \* history: what the last Install or Uninstall left

request == <<cmd, stype>>
clients == <<request, step, result, installed>>

Commands   == {"GetStatus", "Start", "Stop", "Install", "Uninstall"}
AtBoot     == {"StartImmediately", "StartOnLoad"}
Manual     == {"ManualStart", "Unset"}    \* Validate lets the empty string pass
StartTypes == AtBoot \cup Manual
Changers   == {"Install", "Uninstall"}

\* Values of installed besides the start type of a complete installation.
Never    == "uninstalled"
Changing == "changing"   \* an Install or Uninstall is under way, or failed

ClientInit ==
    /\ cmd    = [c \in Clients |-> "GetStatus"]
    /\ stype  = [c \in Clients |-> "ManualStart"]
    /\ step   = [c \in Clients |-> "idle"]
    /\ result = [c \in Clients |-> "none"]
    /\ installed = Never

Working(c) == step[c] # "idle"

\* Execute: the switch on the command; its first call is the step first.
\* Nobody runs two commands at once that install or uninstall.
Execute(c, command, start, first) ==
    /\ ~Working(c)
    /\ command # "Install" => start = "ManualStart"     \* it does not matter
    /\ command \in Changers =>
           \A d \in Clients : Working(d) => cmd[d] \notin Changers
    /\ cmd'    = [cmd EXCEPT ![c] = command]
    /\ stype'  = [stype EXCEPT ![c] = start]
    /\ step'   = [step EXCEPT ![c] = first]
    /\ result' = [result EXCEPT ![c] = "none"]
    /\ installed' = IF command \in Changers THEN Changing ELSE installed

Proceed(c, from, to) ==
    /\ step[c] = from
    /\ step' = [step EXCEPT ![c] = to]
    /\ UNCHANGED <<request, result, installed>>

\* Commands end, with an answer or without; their requests are forgotten.
End(some, answer) ==
    LET after(f, x) == [c \in Clients |-> IF c \in some THEN x ELSE f[c]] IN
    /\ cmd'    = after(cmd, "GetStatus")
    /\ stype'  = after(stype, "ManualStart")
    /\ step'   = after(step, "idle")
    /\ result' = after(result, answer)

\* The command returns; an Install or Uninstall then did not get through.
Answer(c, from, answer) ==
    step[c] = from /\ End({c}, answer) /\ UNCHANGED installed

\* Install or Uninstall returns nil.
Complete(c, from, what) ==
    step[c] = from /\ End({c}, "nil") /\ installed' = what

\* Stop returns what the attempt to stop the daemon gave; Uninstall makes the
\* same attempt, ignores the error and goes on.
AfterStop(c, from, answer, next) ==
    IF cmd[c] = "Uninstall" THEN Proceed(c, from, next)
                            ELSE Answer(c, from, answer)

\* Commands are killed between two calls: one, or by a reboot all of them.
Cut(some) == End({c \in some : Working(c)}, "killed") /\ UNCHANGED installed
Die(c)    == Working(c) /\ Cut({c})

ClientTypeOK(steps, answers) ==
    /\ cmd    \in [Clients -> Commands]
    /\ stype  \in [Clients -> StartTypes]
    /\ step   \in [Clients -> steps \cup {"idle"}]
    /\ result \in [Clients -> answers \cup {"none", "nil", "error", "killed"}]
    /\ installed \in StartTypes \cup {Never, Changing}

=============================================================================
