------------------------- MODULE Controllers_proofs -------------------------
(***************************************************************************)
(* Proofs about the controllers, for any number of clients: what a         *)
(* complete Install and a complete Uninstall leave, and what a boot then   *)
(* starts, on every kind of machine.  An Install or Uninstall under way is *)
(* the only one; the rest says, host by host, what holds once one is       *)
(* complete, and what holds on the way there.                              *)
(***************************************************************************)
EXTENDS Controllers, TLAPS

\* The kinds of machine.
Machines == SystemdHosts \cup SystemVHosts \cup WindowsHosts \cup {"launchd"}

\* Whoever installs or uninstalls does so alone.
Exclusive ==
    \A c \in Clients : (Working(c) /\ cmd[c] \in Changers) =>
        /\ installed = Changing
        /\ \A d \in Clients : (Working(d) /\ cmd[d] \in Changers) => d = c

OfSystemd == host \in SystemdHosts =>
    /\ S!TypeOK /\ ~source /\ state = "Stopped" /\ record # "present"
    /\ \A c \in Clients :
           /\ step[c] \in {"stat", "query"} => cmd[c] = "GetStatus"
           /\ step[c] \in {"write", "enable"} => cmd[c] = "Install"
           /\ step[c] = "stop" => cmd[c] \in {"Stop", "Uninstall"}
           /\ step[c] = "start" => cmd[c] \in {"Start", "Install"}
           /\ step[c] = "remove" => cmd[c] = "Uninstall"
           /\ step[c] = "reload" => cmd[c] \in Changers
           /\ step[c] \in {"reload", "start"} /\ cmd[c] = "Install" =>
                  stype[c] = "StartImmediately"
           /\ step[c] = "reload" /\ cmd[c] = "Uninstall" => file = "none"
           /\ step[c] = "start" /\ cmd[c] = "Install" =>
                  loaded \in {file, "none"}
    /\ installed \in StartTypes => file \in Clients
    /\ installed \in AtBoot =>
           /\ enabled
           /\ loaded = "none" => host = "systemd_user"
           /\ loaded \in {file, "none"}
    /\ installed = Never => file = "none" /\ loaded = "none"

OfSystemV == host \in SystemVHosts =>
    /\ V!TypeOK /\ ~source /\ state = "Stopped" /\ loaded = "none"
    /\ record # "present"
    /\ \A c \in Clients :
           /\ step[c] \in {"stat", "query"} => cmd[c] = "GetStatus"
           /\ step[c] = "stop" => cmd[c] \in {"Stop", "Uninstall"}
           /\ step[c] \in {"check", "spawn"} => cmd[c] \in {"Start", "Install"}
           /\ step[c] \in {"check", "spawn"} /\ cmd[c] = "Install" =>
                  stype[c] = "StartImmediately"
           /\ step[c] \in {"write", "enable", "disable"} => cmd[c] = "Install"
           /\ step[c] = "remove" => cmd[c] = "Uninstall"
           /\ (/\ step[c] \in {"check", "spawn", "enable", "disable"}
               /\ cmd[c] = "Install") => file = "script"
           /\ step[c] = "enable" => stype[c] \in AtBoot
           /\ step[c] = "disable" => stype[c] = "ManualStart"
    /\ installed \in StartTypes => file = "script"
    /\ installed \in AtBoot /\ host = "redhat" => links = "start"
    /\ installed = "ManualStart" => links # "start"
    /\ installed = Never => file = "none"

OfLaunchd == host = "launchd" =>
    /\ L!TypeOK /\ ~source /\ state = "Stopped" /\ record # "present"
    /\ \A c \in Clients :
           /\ step[c] = "query" => cmd[c] = "GetStatus"
           /\ step[c] = "start" => cmd[c] = "Start"
           /\ step[c] = "stop" => cmd[c] = "Stop"
           /\ step[c] \in {"mkdir", "write", "load"} => cmd[c] = "Install"
           /\ step[c] \in {"unload", "remove"} => cmd[c] = "Uninstall"
           /\ step[c] = "load" => file = L!RunOnLoad(stype[c])
           /\ step[c] = "remove" => loaded = "none"
    /\ installed \in StartTypes =>
           file = L!RunOnLoad(installed) /\ loaded # "none"
    /\ installed = Never => file = "none" /\ loaded = "none"

OfWindows == host \in WindowsHosts =>
    /\ W!TypeOK /\ file = "none" /\ loaded = "none" /\ active = "none"
    /\ \A c \in Clients :
           /\ step[c] \in {"create", "register"} => cmd[c] = "Install"
           /\ step[c] = "query" => cmd[c] = "GetStatus"
           /\ step[c] = "open" => cmd[c] # "Install"
           /\ step[c] \in {"control", "poll"} => cmd[c] \in {"Stop", "Uninstall"}
           /\ step[c] = "start" => cmd[c] \in {"Start", "Install"}
           /\ step[c] = "start" /\ cmd[c] = "Install" =>
                  stype[c] = "StartImmediately"
           /\ step[c] \in {"delete", "unregister"} => cmd[c] = "Uninstall"
           /\ step[c] \in {"start", "register"} /\ cmd[c] = "Install" =>
                  record = "present" /\ auto = (stype[c] \in AtBoot)
           /\ step[c] = "unregister" => record # "present"
    /\ installed \in StartTypes =>
           record = "present" /\ source /\ auto = (installed \in AtBoot)
    /\ installed = Never => record # "present" /\ ~source

Inv == Exclusive /\ OfSystemd /\ OfSystemV /\ OfLaunchd /\ OfWindows

-----------------------------------------------------------------------------
\* Initially nothing is installed and nobody does anything.
LEMMA InitInv == Init => Inv
  <1> SUFFICES ASSUME Init PROVE Inv
    OBVIOUS
  <1> USE DEF Init, ClientInit, Commands, StartTypes, Manual, AtBoot, Never,
              S!SystemInit, V!SystemInit, L!SystemInit, W!SystemInit
  <1>1. Exclusive
    BY DEF Exclusive, Working
  <1>2. OfSystemd
    BY DEF OfSystemd, S!TypeOK, S!ClientTypeOK, S!Commands, S!StartTypes,
           S!AtBoot, S!Manual, S!NoUnit, S!Never
  <1>3. OfSystemV
    BY DEF OfSystemV, V!TypeOK, V!ClientTypeOK, V!Commands, V!StartTypes,
           V!AtBoot, V!Manual, V!Never
  <1>4. OfLaunchd
    BY DEF OfLaunchd, L!TypeOK, L!ClientTypeOK, L!Commands, L!StartTypes,
           L!AtBoot, L!Manual, L!Never
  <1>5. OfWindows
    BY DEF OfWindows, W!TypeOK, W!ClientTypeOK, W!Commands, W!StartTypes,
           W!AtBoot, W!Manual, W!Never, W!States
  <1> QED
    BY <1>1, <1>2, <1>3, <1>4, <1>5 DEF Inv

\* Every step of the Systemd controller and its host.
LEMMA SystemdStep ==
    Inv /\ OnSystemd(S!Next) /\ UNCHANGED host => Exclusive' /\ OfSystemd'
  <1> DEFINE Kept == Exclusive' /\ OfSystemd'
  <1> SUFFICES ASSUME Inv, host \in SystemdHosts,
                      UNCHANGED <<host, links, windows>>
               PROVE  S!Next => Kept
    BY DEF OnSystemd
  <1> USE NamesAssumption DEF Inv, Exclusive, OfSystemd, SystemdHosts,
                              Commands, StartTypes, Changers, AtBoot, Manual,
                              Never, Changing, Working, windows, unix,
                              S!TypeOK, S!ClientTypeOK, S!Commands,
                              S!StartTypes, S!Manual, S!Changers, S!AtBoot,
                              S!Never, S!Changing, S!Working, S!Proceed, S!End,
                              S!Answer, S!Complete, S!AfterStop, S!system,
                              S!clients, S!request, S!NoUnit, S!Partial
  <1>1. ASSUME NEW c \in Clients, NEW command \in S!Commands,
              NEW start \in S!StartTypes, S!Invoke(c, command, start)
         PROVE Kept
    BY <1>1 DEF S!Invoke, S!Execute
  <1>2. ASSUME NEW c \in Clients, S!StatUnitFile(c) PROVE Kept
    BY <1>2 DEF S!StatUnitFile
  <1>3. ASSUME NEW c \in Clients, S!Query(c) PROVE Kept
    BY <1>3 DEF S!Query
  <1>4. ASSUME NEW c \in Clients, S!WriteUnit(c) PROVE Kept
    <2>1. CASE stype[c] = "StartImmediately"
      BY <1>4, <2>1 DEF S!WriteUnit
    <2>2. CASE stype[c] = "StartOnLoad"
      BY <1>4, <2>2 DEF S!WriteUnit
    <2>3. CASE stype[c] = "ManualStart"
      BY <1>4, <2>3 DEF S!WriteUnit
    <2>4. CASE stype[c] = "Unset"
      BY <1>4, <2>4 DEF S!WriteUnit
    <2> QED
      BY <2>1, <2>2, <2>3, <2>4
  <1>5. ASSUME NEW c \in Clients, S!WriteFails(c) PROVE Kept
    BY <1>5 DEF S!WriteFails
  <1>6. ASSUME NEW c \in Clients, S!Enable(c) PROVE Kept
    BY <1>6 DEF S!Enable
  <1>7. ASSUME NEW c \in Clients, S!Reload(c) PROVE Kept
    BY <1>7 DEF S!Reload
  <1>8. ASSUME NEW c \in Clients, S!StartUnit(c) PROVE Kept
    BY <1>8 DEF S!StartUnit, S!RunUnit
  <1>9. ASSUME NEW c \in Clients, S!StopUnit(c) PROVE Kept
    BY <1>9 DEF S!StopUnit
  <1>10. ASSUME NEW c \in Clients, S!StopFails(c) PROVE Kept
    BY <1>10 DEF S!StopFails
  <1>11. ASSUME NEW c \in Clients, S!RemoveUnit(c) PROVE Kept
    BY <1>11 DEF S!RemoveUnit
  <1>12. ASSUME NEW c \in Clients, S!CallFails(c) PROVE Kept
    BY <1>12 DEF S!CallFails
  <1>13. ASSUME NEW c \in Clients, S!Die(c), UNCHANGED S!system PROVE Kept
    BY <1>13 DEF S!Die, S!Cut
  <1>14. ASSUME S!DaemonEnds PROVE Kept
    BY <1>14 DEF S!DaemonEnds
  <1>15. ASSUME S!Unload PROVE Kept
    BY <1>15 DEF S!Unload, S!Wanted
  <1>16. ASSUME S!Reboot PROVE Kept
    BY <1>16 DEF S!Reboot, S!Cut, S!Wanted
  <1> HIDE DEF Kept
  <1> QED
    BY <1>1, <1>2, <1>3, <1>4, <1>5, <1>6, <1>7, <1>8, <1>9, <1>10, <1>11,
       <1>12, <1>13, <1>14, <1>15, <1>16
    DEF S!Next, S!Do

\* Every step of the SystemV controller and its host.
LEMMA SystemVStep ==
    Inv /\ OnSystemV(V!Next) /\ UNCHANGED host => Exclusive' /\ OfSystemV'
  <1> DEFINE Kept == Exclusive' /\ OfSystemV'
  <1> SUFFICES ASSUME Inv, host \in SystemVHosts,
                      UNCHANGED <<host, loaded, enabled, windows>>
               PROVE  V!Next => Kept
    BY DEF OnSystemV
  <1> USE DEF Inv, Exclusive, OfSystemV, SystemVHosts, Commands, StartTypes,
              Manual, Changers, AtBoot, Never, Changing, Working, windows,
              unix, V!TypeOK, V!ClientTypeOK, V!Commands, V!StartTypes,
              V!Manual, V!Changers, V!AtBoot, V!Never, V!Changing, V!Working,
              V!Proceed, V!End, V!Answer, V!Complete, V!AfterStop, V!system,
              V!clients, V!request
  <1>1. ASSUME NEW c \in Clients, NEW command \in V!Commands,
              NEW start \in V!StartTypes, V!Invoke(c, command, start)
         PROVE Kept
    BY <1>1 DEF V!Invoke, V!Execute
  <1>2. ASSUME NEW c \in Clients, V!StatScript(c) PROVE Kept
    BY <1>2 DEF V!StatScript
  <1>3. ASSUME NEW c \in Clients, V!Query(c) PROVE Kept
    BY <1>3 DEF V!Query
  <1>4. ASSUME NEW c \in Clients, V!WriteScript(c) PROVE Kept
    <2>1. CASE stype[c] = "StartImmediately"
      BY <1>4, <2>1 DEF V!WriteScript
    <2>2. CASE stype[c] = "StartOnLoad"
      BY <1>4, <2>2 DEF V!WriteScript
    <2>3. CASE stype[c] = "ManualStart"
      BY <1>4, <2>3 DEF V!WriteScript
    <2>4. CASE stype[c] = "Unset"
      BY <1>4, <2>4 DEF V!WriteScript
    <2> QED
      BY <2>1, <2>2, <2>3, <2>4
  <1>5. ASSUME NEW c \in Clients, V!WriteFails(c) PROVE Kept
    BY <1>5 DEF V!WriteFails
  <1>6. ASSUME NEW c \in Clients, V!Enable(c) PROVE Kept
    BY <1>6 DEF V!Enable
  <1>7. ASSUME NEW c \in Clients, V!Disable(c) PROVE Kept
    BY <1>7 DEF V!Disable
  <1>8. ASSUME NEW c \in Clients, V!CheckPid(c) PROVE Kept
    BY <1>8 DEF V!CheckPid, V!Started
  <1>9. ASSUME NEW c \in Clients, V!Spawn(c) PROVE Kept
    BY <1>9 DEF V!Spawn, V!Started
  <1>10. ASSUME NEW c \in Clients, V!SpawnFails(c) PROVE Kept
    BY <1>10 DEF V!SpawnFails
  <1>11. ASSUME NEW c \in Clients, V!StopDaemon(c) PROVE Kept
    BY <1>11 DEF V!StopDaemon
  <1>12. ASSUME NEW c \in Clients, V!StopFails(c) PROVE Kept
    BY <1>12 DEF V!StopFails
  <1>13. ASSUME NEW c \in Clients, V!RemoveScript(c) PROVE Kept
    BY <1>13 DEF V!RemoveScript
  <1>14. ASSUME NEW c \in Clients, V!CallFails(c) PROVE Kept
    BY <1>14 DEF V!CallFails
  <1>15. ASSUME NEW c \in Clients, V!Die(c), UNCHANGED V!system PROVE Kept
    BY <1>15 DEF V!Die, V!Cut
  <1>16. ASSUME V!DaemonEnds PROVE Kept
    BY <1>16 DEF V!DaemonEnds
  <1>17. ASSUME V!Reboot PROVE Kept
    BY <1>17 DEF V!Reboot, V!Cut
  <1> HIDE DEF Kept
  <1> QED
    BY <1>1, <1>2, <1>3, <1>4, <1>5, <1>6, <1>7, <1>8, <1>9, <1>10, <1>11,
       <1>12, <1>13, <1>14, <1>15, <1>16, <1>17
    DEF V!Next, V!Do

\* Every step of the Launchd controller and its host.
LEMMA LaunchdStep ==
    Inv /\ OnLaunchd(L!Next) /\ UNCHANGED host => Exclusive' /\ OfLaunchd'
  <1> DEFINE Kept == Exclusive' /\ OfLaunchd'
  <1> SUFFICES ASSUME Inv, host = "launchd",
                      UNCHANGED <<host, enabled, links, windows>>
               PROVE  L!Next => Kept
    BY DEF OnLaunchd
  <1> USE DEF Inv, Exclusive, OfLaunchd, Commands, StartTypes, Manual,
              Changers, AtBoot, Never, Changing, Working, windows, unix,
              L!TypeOK, L!ClientTypeOK, L!Commands, L!StartTypes, L!Manual,
              L!Changers, L!AtBoot, L!Never, L!Changing, L!Working, L!Proceed,
              L!End, L!Answer, L!Complete, L!AfterStop, L!system, L!clients,
              L!request
  <1>1. ASSUME NEW c \in Clients, NEW command \in L!Commands,
              NEW start \in L!StartTypes, L!Invoke(c, command, start)
         PROVE Kept
    BY <1>1 DEF L!Invoke, L!Execute
  <1>2. ASSUME NEW c \in Clients, L!Query(c) PROVE Kept
    BY <1>2 DEF L!Query
  <1>3. ASSUME NEW c \in Clients, L!QueryFails(c) PROVE Kept
    BY <1>3 DEF L!QueryFails
  <1>4. ASSUME NEW c \in Clients, L!MakeLogDir(c) PROVE Kept
    BY <1>4 DEF L!MakeLogDir
  <1>5. ASSUME NEW c \in Clients, L!WriteList(c) PROVE Kept
    BY <1>5 DEF L!WriteList, L!RunOnLoad
  <1>6. ASSUME NEW c \in Clients, L!WriteFails(c) PROVE Kept
    BY <1>6 DEF L!WriteFails
  <1>7. ASSUME NEW c \in Clients, L!LoadList(c) PROVE Kept
    BY <1>7 DEF L!LoadList, L!RunOnLoad
  <1>8. ASSUME NEW c \in Clients, L!UnloadJob(c) PROVE Kept
    BY <1>8 DEF L!UnloadJob
  <1>9. ASSUME NEW c \in Clients, L!RemoveList(c) PROVE Kept
    BY <1>9 DEF L!RemoveList
  <1>10. ASSUME NEW c \in Clients, L!StartJob(c) PROVE Kept
    BY <1>10 DEF L!StartJob
  <1>11. ASSUME NEW c \in Clients, L!StopJob(c) PROVE Kept
    BY <1>11 DEF L!StopJob
  <1>12. ASSUME NEW c \in Clients, L!CallFails(c) PROVE Kept
    BY <1>12 DEF L!CallFails
  <1>13. ASSUME NEW c \in Clients, L!Die(c), UNCHANGED L!system PROVE Kept
    BY <1>13 DEF L!Die, L!Cut
  <1>14. ASSUME L!DaemonEnds PROVE Kept
    BY <1>14 DEF L!DaemonEnds
  <1>15. ASSUME L!Reboot PROVE Kept
    BY <1>15 DEF L!Reboot, L!Cut, L!RunOnLoad
  <1> HIDE DEF Kept
  <1> QED
    BY <1>1, <1>2, <1>3, <1>4, <1>5, <1>6, <1>7, <1>8, <1>9, <1>10, <1>11,
       <1>12, <1>13, <1>14, <1>15
    DEF L!Next, L!Do

\* Every step of the Windows controller and its host.
LEMMA WindowsStep ==
    Inv /\ OnWindows(W!Next) /\ UNCHANGED host => Exclusive' /\ OfWindows'
  <1> DEFINE Kept == Exclusive' /\ OfWindows'
  <1> SUFFICES ASSUME Inv, host \in WindowsHosts, UNCHANGED <<host, unix>>
               PROVE  W!Next => Kept
    BY DEF OnWindows
  <1> USE DEF Inv, Exclusive, OfWindows, SystemdHosts, SystemVHosts, Commands,
              StartTypes, Changers, AtBoot, Manual, Never, Changing, Working,
              windows, unix, W!TypeOK, W!ClientTypeOK, W!Commands,
              W!StartTypes, W!Manual, W!Changers, W!AtBoot, W!Never,
              W!Changing, W!Working, W!Proceed, W!End, W!Answer, W!Complete,
              W!AfterStop, W!system, W!clients, W!request, W!States
  <1>1. ASSUME NEW c \in Clients, NEW command \in W!Commands,
              NEW start \in W!StartTypes, W!Invoke(c, command, start)
         PROVE Kept
    BY <1>1 DEF W!Invoke, W!Execute
  <1>2. ASSUME NEW c \in Clients, W!OpenService(c) PROVE Kept
    BY <1>2 DEF W!OpenService
  <1>3. ASSUME NEW c \in Clients, W!OpenFails(c) PROVE Kept
    BY <1>3 DEF W!OpenFails
  <1>4. ASSUME NEW c \in Clients, W!Query(c) PROVE Kept
    BY <1>4 DEF W!Query
  <1>5. ASSUME NEW c \in Clients, W!CreateService(c) PROVE Kept
    BY <1>5 DEF W!CreateService, W!Automatic
  <1>6. ASSUME NEW c \in Clients, W!CreateFails(c) PROVE Kept
    BY <1>6 DEF W!CreateFails
  <1>7. ASSUME NEW c \in Clients, W!StartService(c) PROVE Kept
    BY <1>7 DEF W!StartService
  <1>8. ASSUME NEW c \in Clients, W!StartFails(c) PROVE Kept
    BY <1>8 DEF W!StartFails, W!RollBack
  <1>9. ASSUME NEW c \in Clients, W!RegisterSource(c) PROVE Kept
    BY <1>9 DEF W!RegisterSource
  <1>10. ASSUME NEW c \in Clients, W!RegisterFails(c) PROVE Kept
    BY <1>10 DEF W!RegisterFails, W!RollBack
  <1>11. ASSUME NEW c \in Clients, W!SendStop(c) PROVE Kept
    BY <1>11 DEF W!SendStop
  <1>12. ASSUME NEW c \in Clients, W!SendStopFails(c) PROVE Kept
    BY <1>12 DEF W!SendStopFails
  <1>13. ASSUME NEW c \in Clients, W!SeeStopped(c) PROVE Kept
    BY <1>13 DEF W!SeeStopped
  <1>14. ASSUME NEW c \in Clients, W!GiveUp(c) PROVE Kept
    BY <1>14 DEF W!GiveUp
  <1>15. ASSUME NEW c \in Clients, W!DeleteService(c) PROVE Kept
    BY <1>15 DEF W!DeleteService
  <1>16. ASSUME NEW c \in Clients, W!DeleteFails(c) PROVE Kept
    BY <1>16 DEF W!DeleteFails
  <1>17. ASSUME NEW c \in Clients, W!RemoveSource(c) PROVE Kept
    BY <1>17 DEF W!RemoveSource
  <1>18. ASSUME NEW c \in Clients, W!RemoveSourceFails(c) PROVE Kept
    BY <1>18 DEF W!RemoveSourceFails
  <1>19. ASSUME NEW c \in Clients, W!Die(c), UNCHANGED W!system PROVE Kept
    BY <1>19 DEF W!Die, W!Cut
  <1>20. ASSUME W!ServiceMoves PROVE Kept
    BY <1>20 DEF W!ServiceMoves
  <1>21. ASSUME W!Vanish PROVE Kept
    BY <1>21 DEF W!Vanish
  <1>22. ASSUME W!Reboot PROVE Kept
    BY <1>22 DEF W!Reboot, W!Cut
  <1> HIDE DEF Kept
  <1> QED
    BY <1>1, <1>2, <1>3, <1>4, <1>5, <1>6, <1>7, <1>8, <1>9, <1>10, <1>11,
       <1>12, <1>13, <1>14, <1>15, <1>16, <1>17, <1>18, <1>19, <1>20, <1>21,
       <1>22
    DEF W!Next, W!Do

-----------------------------------------------------------------------------
\* The invariant holds in every behaviour.
THEOREM Invariance == Spec => []Inv
  <1>1. Inv /\ [Next]_vars => Inv'
    <2> SUFFICES ASSUME Inv, [Next]_vars PROVE Inv'
      OBVIOUS
    <2>1. CASE OnSystemd(S!Next) /\ UNCHANGED host
      <3>1. Exclusive' /\ OfSystemd'
        BY <2>1, SystemdStep
      <3> QED
        BY <2>1, <3>1 DEF OnSystemd, SystemdHosts, SystemVHosts, Inv, OfSystemV,
                          OfLaunchd, OfWindows, WindowsHosts
    <2>2. CASE OnSystemV(V!Next) /\ UNCHANGED host
      <3>1. Exclusive' /\ OfSystemV'
        BY <2>2, SystemVStep
      <3> QED
        BY <2>2, <3>1 DEF OnSystemV, SystemdHosts, SystemVHosts, Inv, OfSystemd,
                          OfLaunchd, OfWindows, WindowsHosts
    <2>3. CASE OnLaunchd(L!Next) /\ UNCHANGED host
      <3>1. Exclusive' /\ OfLaunchd'
        BY <2>3, LaunchdStep
      <3> QED
        BY <2>3, <3>1 DEF OnLaunchd, SystemdHosts, SystemVHosts, Inv, OfSystemd,
                          OfSystemV, OfWindows, WindowsHosts
    <2>4. CASE OnWindows(W!Next) /\ UNCHANGED host
      <3>1. Exclusive' /\ OfWindows'
        BY <2>4, WindowsStep
      <3> QED
        BY <2>4, <3>1 DEF OnWindows, SystemdHosts, SystemVHosts, Inv, OfSystemd,
                          OfSystemV, OfLaunchd, WindowsHosts
    <2>5. CASE UNCHANGED vars
      BY <2>5 DEF vars, unix, windows, clients, request, Inv, Exclusive, Working,
                  OfSystemd, OfSystemV, OfLaunchd, OfWindows,
                  S!TypeOK, S!ClientTypeOK, V!TypeOK, V!ClientTypeOK,
                  L!TypeOK, L!ClientTypeOK, W!TypeOK, W!ClientTypeOK
    <2> QED
      BY <2>1, <2>2, <2>3, <2>4, <2>5 DEF Next
  <1> QED
    BY <1>1, InitInv, PTL DEF Spec

\* NewController finds one of the seven kinds of machine, or no controller.
LEMMA KnownHosts == Hosts \subseteq Machines
  <1>1. ASSUME NEW runAs, NEW current, NEW whenLoggedIn \in BOOLEAN
        PROVE  SystemdOf(runAs, current, whenLoggedIn)
                   \in SystemdHosts \cup {"error"}
    BY DEF SystemdOf, SystemdHosts
  <1>2. ASSUME NEW systemd \in SystemdHosts \cup {"error"},
               NEW ctl \in BOOLEAN, NEW service \in BOOLEAN,
               NEW redhat \in BOOLEAN, NEW linker \in BOOLEAN
        PROVE  OnLinux(systemd, ctl, service, redhat, linker)
                   \in SystemdHosts \cup SystemVHosts \cup {"error"}
    BY DEF OnLinux, SystemVHosts
  <1> QED
    BY <1>1, <1>2 DEF Hosts, Machines

\* The host is found once, and is one of these for good.
LEMMA KnownHost == Spec => [](host \in Machines)
  <1>1. Init => host \in Hosts
    BY DEF Init
  <1>2. host \in Hosts /\ [Next]_vars => (host \in Hosts)'
    BY DEF Next, vars
  <1>3. host \in Hosts => host \in Machines
    BY KnownHosts
  <1> QED
    BY <1>1, <1>2, <1>3, PTL DEF Spec

\* Controllers.tla, TypeOK: every variable keeps its type, on every host.
THEOREM TypeCorrect == Spec => []TypeOK
  <1>1. Init => host \in Hosts
    BY DEF Init
  <1>2. host \in Hosts /\ [Next]_vars => (host \in Hosts)'
    BY DEF Next, vars
  <1>3. Inv /\ host \in Hosts => TypeOK
    BY DEF Inv, OfSystemd, OfSystemV, OfLaunchd, OfWindows, TypeOK
  <1> QED
    BY <1>1, <1>2, <1>3, Invariance, PTL DEF Spec

\* Controllers.tla, UninstalledIsGone: once Uninstall has returned nil no file,
\* loaded unit or event source is left.
THEOREM NothingLeft == Spec => []UninstalledIsGone
  <1>1. host \in Machines /\ Inv => UninstalledIsGone
    BY DEF Inv, OfSystemd, OfSystemV, OfLaunchd, OfWindows, UninstalledIsGone,
           Machines
  <1> QED
    BY <1>1, KnownHost, Invariance, PTL

\* Controllers.tla, InstalledIsWhole: what Install has made stays whole.
THEOREM Whole == Spec => []InstalledIsWhole
  <1>1. host \in Machines /\ Inv => InstalledIsWhole
    BY DEF Inv, OfSystemd, OfSystemV, OfLaunchd, OfWindows, InstalledIsWhole,
           Machines, SystemdHosts, SystemVHosts, WindowsHosts, AtBoot,
           StartTypes, Manual
  <1> QED
    BY <1>1, KnownHost, Invariance, PTL

-----------------------------------------------------------------------------
(* Who may bring the daemon up.                                            *)

\* Only systemctl start and boots bring up a daemon that is not up.
LEMMA SystemdStarts ==
    OnSystemd(S!Next) /\ active' \notin {active, "none"} =>
        S!Reboot \/ \E c \in Clients : S!StartUnit(c)
  <1> SUFFICES ASSUME S!Next, active' # active, active' # "none"
               PROVE  S!Reboot \/ \E c \in Clients : S!StartUnit(c)
    BY DEF OnSystemd
  <1> QED
    BY DEF S!Next, S!Do, S!system, S!NoUnit, S!DaemonEnds, S!Unload, S!Invoke,
           S!Die, S!StatUnitFile, S!Query, S!WriteUnit, S!WriteFails, S!Enable,
           S!Reload, S!StopUnit, S!StopFails, S!RemoveUnit, S!CallFails

\* Only a script past its look at the PID file and boots bring up a
\* daemon that is not up.
LEMMA SystemVStarts ==
    OnSystemV(V!Next) /\ active' \notin {active, "none"} =>
        V!Reboot \/ \E c \in Clients : V!Spawn(c) \/ V!SpawnFails(c)
  <1> SUFFICES ASSUME V!Next, active' # active, active' # "none"
               PROVE  V!Reboot \/ \E c \in Clients : V!Spawn(c) \/ V!SpawnFails(c)
    BY DEF OnSystemV
  <1> QED
    BY DEF V!Next, V!Do, V!system, V!DaemonEnds, V!Invoke, V!Die, V!StatScript,
           V!Query, V!WriteScript, V!WriteFails, V!Enable, V!Disable, V!CheckPid,
           V!StopDaemon, V!StopFails, V!RemoveScript, V!CallFails

\* Only launchd's start and load and boots bring up a daemon that is not up.
LEMMA LaunchdStarts ==
    OnLaunchd(L!Next) /\ active' \notin {active, "none"} =>
        L!Reboot \/ \E c \in Clients : L!StartJob(c) \/ L!LoadList(c)
  <1> SUFFICES ASSUME L!Next, active' # active, active' # "none"
               PROVE  L!Reboot \/ \E c \in Clients : L!StartJob(c) \/ L!LoadList(c)
    BY DEF OnLaunchd
  <1> QED
    BY DEF L!Next, L!Do, L!system, L!DaemonEnds, L!Invoke, L!Die, L!Query,
           L!QueryFails, L!MakeLogDir, L!WriteList, L!WriteFails, L!UnloadJob,
           L!RemoveList, L!StopJob, L!CallFails

\* Only StartService and boots bring up a daemon that is not up.
LEMMA WindowsStarts ==
    OnWindows(W!Next) /\ state = "Stopped" /\ state' # "Stopped" =>
        W!Reboot \/ \E c \in Clients : W!StartService(c)
  <1> SUFFICES ASSUME W!Next, state = "Stopped", state' # "Stopped"
               PROVE  W!Reboot \/ \E c \in Clients : W!StartService(c)
    BY DEF OnWindows
  <1> QED
    BY DEF W!Next, W!Do, W!system, W!Invoke, W!Die, W!OpenService, W!OpenFails,
           W!Query, W!CreateService, W!CreateFails, W!StartFails,
           W!RegisterSource, W!RegisterFails, W!SendStop, W!SendStopFails,
           W!SeeStopped, W!GiveUp, W!DeleteService, W!DeleteFails,
           W!RemoveSource, W!RemoveSourceFails, W!ServiceMoves, W!Vanish

\* Controllers.tla, UninstalledStaysDown: what Uninstall leaves can neither be
\* started nor comes up by itself, but for an init.d script already running.
THEOREM StaysDown == Spec => UninstalledStaysDown
  <1> DEFINE Spawning == host \in SystemVHosts
                         /\ \E c \in Clients : step[c] = "spawn"
             Stays == installed = Never /\ ~Up => ~Up' \/ Spawning
  <1>1. Inv /\ [Next]_vars => [Stays]_vars
    <2> SUFFICES ASSUME Inv, Next, installed = Never, active = "none",
                        state = "Stopped", ~Spawning
                 PROVE  active' = "none" /\ state' = "Stopped"
      BY DEF Up
    <2>1. CASE OnSystemd(S!Next)
      <3>1. file = "none" /\ loaded = "none" /\ file \notin Clients
        BY <2>1, NamesAssumption DEF OnSystemd, Inv, OfSystemd
      <3>2. ASSUME NEW c \in Clients, S!StartUnit(c) PROVE FALSE
        BY <3>1, <3>2 DEF S!StartUnit, S!RunUnit, S!NoUnit
      <3>3. S!Reboot => active' = "none"
        BY <3>1 DEF S!Reboot, S!NoUnit
      <3> QED
        BY <2>1, <3>2, <3>3, SystemdStarts DEF OnSystemd, windows
    <2>2. CASE OnSystemV(V!Next)
      <3>1. file = "none"
        BY <2>2 DEF OnSystemV, Inv, OfSystemV
      <3>2. ASSUME NEW c \in Clients, V!Spawn(c) \/ V!SpawnFails(c)
            PROVE  FALSE
        BY <2>2, <3>2 DEF OnSystemV, V!Spawn, V!SpawnFails, V!Started,
                          V!Proceed, V!Answer
      <3>3. V!Reboot => active' = "none"
        BY <3>1 DEF V!Reboot
      <3> QED
        BY <2>2, <3>2, <3>3, SystemVStarts DEF OnSystemV, windows
    <2>3. CASE OnLaunchd(L!Next)
      <3>1. file = "none" /\ loaded = "none"
        BY <2>3 DEF OnLaunchd, Inv, OfLaunchd
      <3>2. ASSUME NEW c \in Clients, L!StartJob(c) PROVE FALSE
        BY <3>1, <3>2 DEF L!StartJob
      <3>3. ASSUME NEW c \in Clients, L!LoadList(c) PROVE FALSE
        BY <2>3, <3>3 DEF OnLaunchd, L!LoadList, L!Complete, Inv, Exclusive,
                          OfLaunchd, Working, Changers, Changing, Never
      <3>4. L!Reboot => active' = "none"
        BY <3>1 DEF L!Reboot
      <3> QED
        BY <2>3, <3>2, <3>3, <3>4, LaunchdStarts DEF OnLaunchd, windows
    <2>4. CASE OnWindows(W!Next)
      <3>1. record # "present"
        BY <2>4 DEF OnWindows, Inv, OfWindows
      <3>2. ASSUME NEW c \in Clients, W!StartService(c) PROVE FALSE
        BY <3>1, <3>2 DEF W!StartService
      <3>3. W!Reboot => state' = "Stopped"
        BY <3>1 DEF W!Reboot
      <3> QED
        BY <2>4, <3>2, <3>3, WindowsStarts DEF OnWindows, unix
    <2> QED
      BY <2>1, <2>2, <2>3, <2>4 DEF Next
  <1> QED
    BY <1>1, Invariance, PTL DEF Spec, UninstalledStaysDown

\* Controllers.tla, OldUnitNeverStarts: whenever an automatic installation is
\* complete, or has come to its start, systemd knows the unit on the disk.
THEOREM NewestUnit == Spec => OldUnitNeverStarts
  <1> DEFINE Newest ==
        (/\ host \in SystemdHosts /\ active = "none" /\ active' # "none"
         /\ \/ installed \in AtBoot
            \/ \E c \in Clients : cmd[c] = "Install" /\ step[c] = "start")
        => active' = file
  <1>1. Inv /\ [Next]_vars => [Newest]_vars
    <2> SUFFICES ASSUME Inv, Next, host \in SystemdHosts, active = "none",
                        active' # "none",
                        \/ installed \in AtBoot
                        \/ \E c \in Clients :
                               cmd[c] = "Install" /\ step[c] = "start"
                 PROVE  active' = file
      OBVIOUS
    <2>1. OnSystemd(S!Next)
      BY DEF Next, OnSystemV, OnLaunchd, OnWindows, SystemdHosts, SystemVHosts,
             WindowsHosts
    <2>2. loaded \in {file, "none"}
      BY DEF Inv, OfSystemd
    <2>3. ASSUME NEW c \in Clients, S!StartUnit(c) PROVE active' = file
      BY <2>2, <2>3 DEF S!StartUnit, S!RunUnit, S!NoUnit
    <2>4. S!Reboot => active' = file
      BY DEF S!Reboot, S!Wanted, S!NoUnit
    <2> QED
      BY <2>1, <2>3, <2>4, SystemdStarts
  <1> QED
    BY <1>1, Invariance, PTL DEF Spec, OldUnitNeverStarts

\* Controllers.tla, BootStartsInstalled: the installation that Inv describes is
\* one that the service manager brings up when it loads it.
THEOREM BootStarts == Spec => BootStartsInstalled
  <1> DEFINE Starts == Booting /\ installed \in AtBoot
                           => Up' \/ host \in {"systemd_user", "debian",
                                              "windows_user"}
  <1>1. Inv /\ [Next]_vars => [Starts]_vars
    <2> SUFFICES ASSUME Inv, Booting, installed \in AtBoot,
                        host \notin {"systemd_user", "debian", "windows_user"}
                 PROVE  Up'
      OBVIOUS
    <2>1. installed \in StartTypes /\ installed # Never
      BY DEF AtBoot, StartTypes, Manual, Never
    <2>2. CASE OnSystemd(S!Reboot)
      BY <2>1, <2>2, NamesAssumption
      DEF OnSystemd, S!Reboot, S!Wanted, S!NoUnit, Inv, OfSystemd, Up
    <2>3. CASE OnSystemV(V!Reboot)
      BY <2>1, <2>3
      DEF OnSystemV, V!Reboot, Inv, OfSystemV, SystemVHosts, Up
    <2>4. CASE OnLaunchd(L!Reboot)
      BY <2>1, <2>4
      DEF OnLaunchd, L!Reboot, L!RunOnLoad, L!AtBoot, AtBoot, Inv, OfLaunchd, Up
    <2>5. CASE OnWindows(W!Reboot)
      BY <2>1, <2>5 DEF OnWindows, W!Reboot, Inv, OfWindows, Up
    <2> QED
      BY <2>2, <2>3, <2>4, <2>5 DEF Booting
  <1> QED
    BY <1>1, Invariance, PTL DEF Spec, BootStartsInstalled

\* Controllers.tla, ManualStaysOff: but on the system's systemd, and on System V
\* if the start type is unset, an installation that is to be started manually
\* leaves nothing that a boot would follow.
THEOREM ManualOff == Spec => ManualStaysOff
  <1> DEFINE Off == Booting /\ installed \in Manual
                        => \/ ~Up' \/ host = "systemd"
                           \/ host \in SystemVHosts /\ installed = "Unset"
  <1>1. Inv /\ [Next]_vars => [Off]_vars
    <2> SUFFICES ASSUME Inv, Booting, installed \in Manual, host # "systemd",
                        host \in SystemVHosts => installed # "Unset"
                 PROVE  ~Up'
      OBVIOUS
    <2>1. installed \in StartTypes /\ installed \notin AtBoot
      BY DEF StartTypes, AtBoot, Manual
    <2>2. CASE OnSystemd(S!Reboot)
      BY <2>2 DEF OnSystemd, SystemdHosts, S!Reboot, S!Wanted, S!NoUnit, Inv,
                  OfSystemd, Up, windows
    <2>3. CASE OnSystemV(V!Reboot)
      <3>1. installed = "ManualStart"
        BY <2>3 DEF OnSystemV, Manual
      <3> QED
        BY <2>3, <3>1 DEF OnSystemV, V!Reboot, Inv, OfSystemV, Up, windows
    <2>4. CASE OnLaunchd(L!Reboot)
      BY <2>1, <2>4 DEF OnLaunchd, L!Reboot, L!RunOnLoad, L!AtBoot, AtBoot, Inv,
                        OfLaunchd, Up, windows
    <2>5. CASE OnWindows(W!Reboot)
      BY <2>1, <2>5 DEF OnWindows, W!Reboot, Inv, OfWindows, Up, unix
    <2> QED
      BY <2>2, <2>3, <2>4, <2>5 DEF Booting
  <1> QED
    BY <1>1, Invariance, PTL DEF Spec, ManualStaysOff

-----------------------------------------------------------------------------
(* The contract of the Controller interface: what a client's step is there. *)

\* What all controllers have of the types.
ClientsTyped ==
    /\ cmd    \in [Clients -> Commands]
    /\ stype  \in [Clients -> StartTypes]
    /\ step   = [c \in Clients |-> step[c]]
    /\ result = [c \in Clients |-> result[c]]
    /\ installed \in StartTypes \cup {Never, Changing}

Present == {file, loaded} # {"none"} \/ record = "present"

\* The types of a client's variables are the same on every host.
LEMMA TypesOfClients ==
    ASSUME Inv, host \in Machines
    PROVE  ClientsTyped
  BY DEF Machines, Inv, OfSystemd, OfSystemV, OfLaunchd, OfWindows,
         ClientsTyped,
         Commands, StartTypes, AtBoot, Manual, Never, Changing, S!TypeOK,
         S!ClientTypeOK, S!Commands, S!StartTypes, S!AtBoot, S!Manual, S!Never,
         S!Changing, V!TypeOK, V!ClientTypeOK, V!Commands, V!StartTypes,
         V!AtBoot, V!Manual, V!Never, V!Changing, L!TypeOK, L!ClientTypeOK,
         L!Commands, L!StartTypes, L!AtBoot, L!Manual, L!Never, L!Changing,
         W!TypeOK, W!ClientTypeOK, W!Commands, W!StartTypes, W!AtBoot,
         W!Manual, W!Never, W!Changing

\* A command begins.
LEMMA BeginIs ==
    ASSUME ClientsTyped, UNCHANGED <<host, unix, windows>>,
           NEW c \in Clients, NEW command \in Commands, NEW start \in StartTypes,
           NEW first, first \notin {"idle", "spawn"},
           Execute(c, command, start, first)
    PROVE  Contract!Next
  <1>1. Contract!Begin(c, command, start)
    <2> USE DEF ClientsTyped, Execute, Working, Contract!Idle
    <2>1. ~Working(c) /\ step' = [step EXCEPT ![c] = first]
      OBVIOUS
    <2>2. [d \in Clients |-> IF Working(d) THEN cmd[d] ELSE "none"]'
            = [[d \in Clients |-> IF Working(d) THEN cmd[d] ELSE "none"]
                   EXCEPT ![c] = command]
      BY <2>1
    <2>3. command \in Contract!Changers => \A d \in Clients :
              (IF Working(d) THEN cmd[d] ELSE "none") \notin Contract!Changers
      BY DEF Changers, Contract!Changers
    <2>4. UNCHANGED Contract!machine
      BY <2>1 DEF Contract!machine, Up, unix, windows
    <2> QED
      BY <2>1, <2>2, <2>3, <2>4
      DEF Contract!Begin, Contract!Changers, Changers, Changing
  <1> QED
    BY <1>1 DEF Contract!Next, Contract!Commands, Contract!StartTypes,
                Commands, StartTypes, AtBoot, Manual

\* A command goes on to its next call.
LEMMA ProceedIs ==
    ASSUME ClientsTyped, UNCHANGED host, NEW c \in Clients,
           NEW from, NEW to, "idle" \notin {from, to}, Proceed(c, from, to),
           Contract!Acts(c)
    PROVE  Contract!Next
  <1>1. Contract!Proceed(c)
    BY DEF ClientsTyped, Proceed, request, Working, Commands,
           Contract!Proceed, Contract!requests, Contract!Idle
  <1> QED
    BY <1>1 DEF Contract!Next

\* A command returns.
LEMMA ReturnIs ==
    ASSUME ClientsTyped, NEW c \in Clients, NEW from, from # "idle",
           NEW answer, step[c] = from, End({c}, answer), Contract!Acts(c)
    PROVE  Contract!Return(c, answer)
  BY DEF ClientsTyped, End, Working, Commands, Contract!Return, Contract!Idle

\* It returns with an error.
LEMMA FailIs ==
    ASSUME ClientsTyped, UNCHANGED host, NEW c \in Clients,
           NEW from, from # "idle", Answer(c, from, "error"), Contract!Acts(c)
    PROVE  Contract!Next
  <1>1. Contract!Return(c, "error")
    BY ReturnIs DEF Answer
  <1> QED
    BY <1>1 DEF Answer, Contract!Fails, Contract!Next

\* Start or Stop returns nil.
LEMMA StartIs ==
    ASSUME ClientsTyped, UNCHANGED host, NEW c \in Clients,
           NEW from, from # "idle", Answer(c, from, "nil"), Contract!Acts(c),
           \/ cmd[c] = "Start" /\ (Up' \/ installed = Changing)
           \/ cmd[c] = "Stop" /\ (host \in SystemVHosts \/ ~Up')
    PROVE  Contract!Next
  <1>1. Contract!Return(c, "nil")
    BY ReturnIs DEF Answer
  <1> QED
    BY <1>1 DEF Answer, Working, Changing, Contract!StartDone,
                Contract!StopDone, Contract!Next

\* Install or Uninstall returns nil.
LEMMA CompleteIs ==
    ASSUME ClientsTyped, UNCHANGED host, NEW c \in Clients,
           NEW from, from # "idle", NEW what, Complete(c, from, what),
           Contract!Acts(c),
           \/ cmd[c] = "Install" /\ what = stype[c] /\ Present'
           \/ cmd[c] = "Uninstall" /\ what = Never /\ ~Present'
    PROVE  Contract!Next
  <1>1. Contract!Return(c, "nil")
    BY ReturnIs DEF Complete
  <1> QED
    BY <1>1 DEF Complete, Working, Present, Never, Contract!InstallDone,
                Contract!UninstallDone, Contract!Next

\* Status returns.
LEMMA StatusIs ==
    ASSUME ClientsTyped, UNCHANGED <<host, unix, windows>>, NEW c \in Clients,
           NEW from, from \notin {"idle", "spawn"}, cmd[c] = "GetStatus",
           NEW status \in Contract!Statuses, Answer(c, from, status),
           status = "NotInstalled" => installed \notin StartTypes,
           status = "Running" => Up \/ installed = Changing
    PROVE  Contract!Next
  <1>1. UNCHANGED Contract!machine
    BY DEF ClientsTyped, Answer, End, Contract!machine, Up, unix, windows
  <1>2. Contract!Acts(c)
    BY <1>1 DEF Contract!Acts, Contract!Sound, Contract!machine
  <1>3. Contract!Return(c, status)
    BY <1>2, ReturnIs DEF Answer
  <1> QED
    BY <1>1, <1>3 DEF Answer, Working, Changing, StartTypes, AtBoot, Manual,
                      Contract!StartTypes, Contract!StatusDone, Contract!Next

\* One client dies, or all do in a boot.
LEMMA CutIs ==
    ASSUME ClientsTyped, UNCHANGED host, NEW some, Cut(some),
           \/ \E c \in Clients : some = {c} /\ UNCHANGED <<unix, windows>>
           \/ some = Clients /\ Contract!Sound /\ (Up' => Present)
    PROVE  Contract!Next
  <1>1. Contract!Ends(some)
    BY DEF ClientsTyped, Cut, End, Working, Commands, Contract!Ends,
           Contract!Idle
  <1>2. \A c \in Clients : step'[c] \in {step[c], "idle"}
    BY DEF ClientsTyped, Cut, End
  <1>3. CASE some = Clients /\ Contract!Sound /\ (Up' => Present)
    <2>1. \A c \in Clients : step'[c] = "idle"
      BY <1>3 DEF ClientsTyped, Cut, End, Working
    <2> QED
      BY <1>1, <1>3, <2>1 DEF Present, Contract!Boot, Contract!Next
  <1>4. ASSUME NEW c \in Clients, some = {c}, UNCHANGED <<unix, windows>>
        PROVE  Contract!Next
    <2>1. Contract!Dies(c)
      BY <1>1, <1>2, <1>4
      DEF Contract!Dies, Contract!Settles, Contract!Sound, Up, unix, windows
    <2> QED
      BY <2>1, <1>4 DEF Contract!Next
  <1> QED
    BY <1>3, <1>4

\* Something happens without a client.
LEMMA PassIs ==
    ASSUME UNCHANGED <<host, clients>>, Contract!Sound, Up' => Up
    PROVE  Contract!Next
  BY DEF clients, request, Working, Contract!Next, Contract!Passes,
         Contract!Settles, Contract!requests

\* What a client's step may do to the machine, in the terms of this module.
LEMMA ActsIs ==
    ASSUME UNCHANGED host, NEW c \in Clients, Working(c),
           (Present' <=> Present) \/ installed = Changing,
           host \in SystemVHosts /\ (\E d \in Clients : step'[d] = "spawn") =>
               Present \/ \E d \in Clients : step[d] = "spawn",
           Up' /\ ~Up =>
               /\ \/ Present
                  \/ host \in SystemVHosts /\ \E d \in Clients : step[d] = "spawn"
               /\ \/ cmd[c] = "Start"
                  \/ /\ cmd[c] = "Install"
                     /\ \/ stype[c] = "StartImmediately"
                        \/ host = "launchd" /\ stype[c] = "StartOnLoad"
    PROVE  Contract!Acts(c)
  BY DEF Present, Changing, Contract!Acts, Contract!Sound, Contract!Starts

\* The clients of all controllers take their steps in the same way.
LEMMA SystemdClients ==
    ASSUME NEW c, NEW from, NEW x, NEW y
    PROVE  /\ S!Execute(c, from, x, y) => Execute(c, from, x, y)
           /\ S!Proceed(c, from, x) => Proceed(c, from, x)
           /\ S!Answer(c, from, x) => Answer(c, from, x)
           /\ S!Complete(c, from, x) => Complete(c, from, x)
           /\ S!Cut(x) => Cut(x)
  BY DEF S!Execute, S!Proceed, S!Answer, S!Complete, S!End, S!Cut, S!Working,
         S!Changers, S!Changing, S!request, Execute, Proceed, Answer, Complete,
         End, Cut, Working, Changers, Changing, request

\* The steps of systemd and its controller.
LEMMA SystemdKeeps ==
    Inv /\ OnSystemd(S!Next) /\ UNCHANGED host => Contract!Next
  <1> SUFFICES ASSUME Inv, host \in SystemdHosts, S!Next,
                      UNCHANGED <<host, links, windows>>
               PROVE  Contract!Next
    BY DEF OnSystemd
  <1>a. ClientsTyped /\ host \notin SystemVHosts /\ host # "launchd"
    BY TypesOfClients DEF Machines, SystemdHosts, SystemVHosts
  <1>b. /\ Exclusive /\ OfSystemd
        /\ Present <=> file # "none" \/ loaded # "none"
        /\ Present' <=> file' # "none" \/ loaded' # "none"
        /\ Up <=> active # "none"
        /\ Up' <=> active' # "none"
    BY DEF Inv, OfSystemd, Present, Up, windows
  <1>n. "none" \notin Clients
    BY NamesAssumption
  <1> USE <1>a, <1>b, <1>n
  <1>1. ASSUME NEW c \in Clients, NEW command \in S!Commands,
               NEW start \in S!StartTypes, S!Invoke(c, command, start)
        PROVE  Contract!Next
    <2>1. PICK first \in {"write", "start", "stop", "stat"} :
              S!Execute(c, command, start, first)
      BY <1>1 DEF S!Invoke, S!Commands
    <2> QED
      BY <1>1, <2>1, SystemdClients, BeginIs
      DEF S!Invoke, S!system, unix, S!Commands, S!StartTypes, S!AtBoot,
          S!Manual, Commands, StartTypes, AtBoot, Manual
  <1>2. ASSUME NEW c \in Clients, S!StatUnitFile(c) PROVE Contract!Next
    <2>1. /\ step[c] = "stat" /\ cmd[c] = "GetStatus"
          /\ \/ file = "none" /\ Answer(c, "stat", "NotInstalled")
             \/ Proceed(c, "stat", "query")
          /\ UNCHANGED <<unix, windows>>
      BY <1>2, SystemdClients
      DEF S!StatUnitFile, S!NoUnit, S!Answer, S!Proceed, S!system, unix,
          OfSystemd
    <2>2. file = "none" => installed \notin StartTypes
      BY DEF OfSystemd
    <2>3. Contract!Acts(c)
      BY <2>1, ActsIs DEF Working, unix
    <2> QED
      BY <2>1, <2>2, <2>3, StatusIs, ProceedIs DEF Contract!Statuses
  <1>3. ASSUME NEW c \in Clients, S!Query(c) PROVE Contract!Next
    <2>1. /\ step[c] = "query" /\ cmd[c] = "GetStatus"
          /\ \E status \in {"Running", "Stopped", "StoppedDead", "Unknown"} :
                 /\ Answer(c, "query", status)
                 /\ status = "Running" => Up
          /\ UNCHANGED <<unix, windows>>
      BY <1>3, SystemdClients
      DEF S!Query, S!NoUnit, S!Answer, S!system, unix, OfSystemd
    <2> QED
      BY <2>1, StatusIs DEF Contract!Statuses
  <1>4. ASSUME NEW c \in Clients,
               S!WriteUnit(c) \/ S!WriteFails(c) \/ S!Enable(c)
        PROVE  Contract!Next
    <2>1. Working(c) /\ cmd[c] = "Install" /\ active' = active
      BY <1>4 DEF S!WriteUnit, S!WriteFails, S!Enable, S!Proceed, S!Answer,
                  S!Complete, Working, OfSystemd, S!TypeOK, S!ClientTypeOK,
                  S!StartTypes, S!AtBoot, S!Manual
    <2>2. Contract!Acts(c)
      BY <2>1, ActsIs DEF Exclusive, Changers
    <2>3. \/ \E to \in {"reload", "enable"} : Proceed(c, "write", to)
          \/ Answer(c, "write", "error")
          \/ \E from \in {"write", "enable"} :
                 Complete(c, from, stype[c]) /\ Present'
      BY <1>4, SystemdClients
      DEF S!WriteUnit, S!WriteFails, S!Enable, OfSystemd, S!TypeOK,
          S!ClientTypeOK, S!StartTypes, S!AtBoot, S!Manual
    <2> QED
      BY <2>1, <2>2, <2>3, ProceedIs, FailIs, CompleteIs
  <1>5. ASSUME NEW c \in Clients, S!Reload(c) \/ S!RemoveUnit(c)
        PROVE  Contract!Next
    <2>1. Working(c) /\ cmd[c] \in Changers /\ active' = active
      BY <1>5 DEF S!Reload, S!RemoveUnit, S!Proceed, S!Complete, Working,
                  Changers, OfSystemd
    <2>2. Contract!Acts(c)
      BY <2>1, ActsIs DEF Exclusive
    <2>3. \/ Proceed(c, "reload", "start") \/ Proceed(c, "remove", "reload")
          \/ Complete(c, "reload", Never) /\ cmd[c] = "Uninstall" /\ ~Present'
      BY <1>5, <2>1, SystemdClients
      DEF S!Reload, S!RemoveUnit, S!Complete, S!Never, Never, Changers,
          OfSystemd
    <2> QED
      BY <2>2, <2>3, ProceedIs, CompleteIs
  <1>6. ASSUME NEW c \in Clients, S!StartUnit(c) PROVE Contract!Next
    <2>1. /\ step[c] = "start" /\ cmd[c] \in {"Start", "Install"}
          /\ cmd[c] = "Install" => stype[c] = "StartImmediately"
          /\ \/ cmd[c] = "Start" /\ Answer(c, "start", "nil")
             \/ Proceed(c, "start", "enable")
      BY <1>6, SystemdClients DEF S!StartUnit, S!Proceed, S!Answer, OfSystemd
    <2>2. Up' /\ (Up \/ Present) /\ (Present' <=> Present)
      BY <1>6 DEF S!StartUnit, S!RunUnit, S!NoUnit, OfSystemd, S!TypeOK
    <2>3. Contract!Acts(c)
      BY <2>1, <2>2, ActsIs DEF Working
    <2> QED
      BY <2>1, <2>2, <2>3, StartIs, ProceedIs
  <1>7. ASSUME NEW c \in Clients, S!StopUnit(c) \/ S!StopFails(c)
        PROVE  Contract!Next
    <2>1. /\ step[c] = "stop" /\ cmd[c] \in {"Stop", "Uninstall"}
          /\ UNCHANGED <<file, loaded>> /\ active' \in {active, "none"}
          /\ \/ cmd[c] = "Stop" /\ Answer(c, "stop", "nil") /\ ~Up'
             \/ Answer(c, "stop", "error")
             \/ Proceed(c, "stop", "remove")
      BY <1>7, SystemdClients
      DEF S!StopUnit, S!StopFails, S!AfterStop, S!Proceed, S!Answer, S!system,
          S!NoUnit, OfSystemd
    <2>2. Contract!Acts(c)
      BY <2>1, ActsIs DEF Working
    <2> QED
      BY <2>1, <2>2, StartIs, FailIs, ProceedIs
  <1>8. ASSUME NEW c \in Clients, S!CallFails(c) PROVE Contract!Next
    <2>1. PICK at \in {"remove", "reload", "start", "enable"} :
              Answer(c, at, "error") /\ step[c] = at
      BY <1>8, SystemdClients DEF S!CallFails, S!Answer
    <2>2. Contract!Acts(c)
      BY <1>8, <2>1, ActsIs DEF S!CallFails, S!system, Working
    <2> QED
      BY <2>1, <2>2, FailIs
  <1>9. ASSUME NEW c \in Clients, S!Die(c), UNCHANGED S!system
        PROVE  Contract!Next
    BY <1>9, SystemdClients, CutIs DEF S!Die, S!system, unix
  <1>10. ASSUME S!DaemonEnds \/ S!Unload PROVE Contract!Next
    <2>1. /\ UNCHANGED clients /\ (Up' => Up)
          /\ (Present' <=> Present) \/ installed = Changing
      BY <1>10 DEF S!DaemonEnds, S!Unload, S!Wanted, S!NoUnit, S!clients,
                   S!request, clients, request, OfSystemd, S!TypeOK,
                   S!ClientTypeOK, S!StartTypes, S!AtBoot, S!Manual, S!Never,
                   S!Changing,
                   Changing, AtBoot, StartTypes, Manual, Never
    <2>2. Contract!Sound
      BY <2>1 DEF Contract!Sound, Present, Changing
    <2> QED
      BY <2>1, <2>2, PassIs
  <1>11. ASSUME S!Reboot PROVE Contract!Next
    <2>1. /\ Cut(Clients) /\ (Up' => Present)
          /\ (Present' <=> Present) \/ installed = Changing
      BY <1>11, SystemdClients
      DEF S!Reboot, S!Wanted, S!NoUnit, OfSystemd, S!TypeOK, S!ClientTypeOK,
          S!StartTypes, S!AtBoot, S!Manual, S!Never, S!Changing, Changing,
          AtBoot, StartTypes, Manual, Never
    <2>2. Contract!Sound
      BY <2>1 DEF Contract!Sound, Present, Changing
    <2> QED
      BY <2>1, <2>2, CutIs
  <1> QED
    BY <1>1, <1>2, <1>3, <1>4, <1>5, <1>6, <1>7, <1>8, <1>9, <1>10, <1>11
    DEF S!Next, S!Do

\* The same for System V.
LEMMA SystemVClients ==
    ASSUME NEW c, NEW from, NEW x, NEW y
    PROVE  /\ V!Execute(c, from, x, y) => Execute(c, from, x, y)
           /\ V!Proceed(c, from, x) => Proceed(c, from, x)
           /\ V!Answer(c, from, x) => Answer(c, from, x)
           /\ V!Complete(c, from, x) => Complete(c, from, x)
           /\ V!Cut(x) => Cut(x)
  BY DEF V!Execute, V!Proceed, V!Answer, V!Complete, V!End, V!Cut, V!Working,
         V!Changers, V!Changing, V!request, Execute, Proceed, Answer, Complete,
         End, Cut, Working, Changers, Changing, request

\* No other step of a client makes it wait for a script about to spawn.
LEMMA NoNewSpawn ==
    ASSUME ClientsTyped, NEW c \in Clients, NEW from, NEW x,
           \/ Proceed(c, from, x) /\ x # "spawn"
           \/ Answer(c, from, x) \/ Complete(c, from, x)
    PROVE  \A d \in Clients : step'[d] = "spawn" => step[d] = "spawn"
  BY DEF ClientsTyped, Proceed, Answer, Complete, End

\* The steps of System V and its controller.
LEMMA SystemVKeeps ==
    Inv /\ OnSystemV(V!Next) /\ UNCHANGED host => Contract!Next
  <1> SUFFICES ASSUME Inv, host \in SystemVHosts, V!Next,
                      UNCHANGED <<host, loaded, enabled, windows>>
               PROVE  Contract!Next
    BY DEF OnSystemV
  <1>a. ClientsTyped
    BY TypesOfClients DEF Machines
  <1>b. /\ Exclusive /\ OfSystemV
        /\ Present <=> file # "none"
        /\ Present' <=> file' # "none"
        /\ Up <=> active # "none"
        /\ Up' <=> active' # "none"
    BY DEF Inv, OfSystemV, Present, Up, windows
  <1> USE <1>a, <1>b
  <1>1. ASSUME NEW c \in Clients, NEW command \in V!Commands,
               NEW start \in V!StartTypes, V!Invoke(c, command, start)
        PROVE  Contract!Next
    <2>1. PICK first \in {"write", "check", "stop", "stat"} :
              V!Execute(c, command, start, first)
      BY <1>1 DEF V!Invoke, V!Commands
    <2> QED
      BY <1>1, <2>1, SystemVClients, BeginIs
      DEF V!Invoke, V!system, unix, V!Commands, V!StartTypes, V!AtBoot,
          V!Manual, Commands, StartTypes, AtBoot, Manual
  <1>2. ASSUME NEW c \in Clients, V!StatScript(c) PROVE Contract!Next
    <2>1. /\ step[c] = "stat" /\ cmd[c] = "GetStatus"
          /\ \/ file = "none" /\ Answer(c, "stat", "NotInstalled")
             \/ Proceed(c, "stat", "query")
          /\ UNCHANGED <<unix, windows>>
      BY <1>2, SystemVClients
      DEF V!StatScript, V!Answer, V!Proceed, V!system, unix, OfSystemV
    <2>2. file = "none" => installed \notin StartTypes
      BY DEF OfSystemV
    <2>3. Contract!Acts(c)
      BY <2>1, ActsIs, NoNewSpawn DEF Working, unix
    <2> QED
      BY <2>1, <2>2, <2>3, StatusIs, ProceedIs DEF Contract!Statuses
  <1>3. ASSUME NEW c \in Clients, V!Query(c) PROVE Contract!Next
    <2>1. /\ step[c] = "query" /\ cmd[c] = "GetStatus"
          /\ \E status \in {"Running", "Stopped", "StoppedDead", "Unknown"} :
                 /\ Answer(c, "query", status)
                 /\ status = "Running" => Up \/ file = "partial"
          /\ UNCHANGED <<unix, windows>>
      BY <1>3, SystemVClients DEF V!Query, V!Answer, V!system, unix, OfSystemV
    <2>2. file = "partial" => installed = Changing
      BY DEF OfSystemV, ClientsTyped
    <2> QED
      BY <2>1, <2>2, StatusIs DEF Contract!Statuses
  <1>4. ASSUME NEW c \in Clients,
               \/ V!WriteScript(c) \/ V!WriteFails(c)
               \/ V!Enable(c) \/ V!Disable(c) \/ V!RemoveScript(c)
        PROVE  Contract!Next
    <2>a. stype[c] \in StartTypes
      BY DEF ClientsTyped
    <2>1. Working(c) /\ cmd[c] \in Changers /\ active' = active
      BY <1>4, <2>a
      DEF V!WriteScript, V!WriteFails, V!Enable, V!Disable, V!RemoveScript,
          V!Proceed, V!Answer, V!Complete, Working, Changers, StartTypes,
          AtBoot, Manual, OfSystemV
    <2>2. \/ \E to \in {"check", "enable", "disable"} : Proceed(c, "write", to)
          \/ Answer(c, "write", "error")
          \/ /\ \E from \in {"write", "enable", "disable"} :
                    Complete(c, from, stype[c])
             /\ cmd[c] = "Install" /\ Present'
          \/ Complete(c, "remove", Never) /\ cmd[c] = "Uninstall" /\ ~Present'
      BY <1>4, SystemVClients
      DEF V!WriteScript, V!WriteFails, V!Enable, V!Disable, V!RemoveScript,
          V!Complete, V!Never, Never, OfSystemV, ClientsTyped, StartTypes,
          AtBoot, Manual
    <2>3. Contract!Acts(c)
      BY <2>1, <2>2, ActsIs, NoNewSpawn DEF Exclusive
    <2> QED
      BY <2>2, <2>3, ProceedIs, FailIs, CompleteIs
  <1>5. ASSUME NEW c \in Clients, V!CheckPid(c) PROVE Contract!Next
    <2>1. /\ step[c] = "check" /\ Present /\ UNCHANGED <<file, active>>
          /\ cmd[c] \in {"Start", "Install"}
          /\ \/ /\ cmd[c] = "Start" /\ Answer(c, "check", "nil")
                /\ Up' \/ file = "partial"
             \/ Proceed(c, "check", "enable")
             \/ Proceed(c, "check", "spawn")
      BY <1>5, SystemVClients
      DEF V!CheckPid, V!Started, V!Proceed, V!Answer, V!system, OfSystemV
    <2>2. file = "partial" => installed = Changing
      BY DEF OfSystemV, ClientsTyped
    <2>3. Contract!Acts(c)
      BY <2>1, ActsIs DEF Working
    <2> QED
      BY <2>1, <2>2, <2>3, StartIs, ProceedIs
  <1>6. ASSUME NEW c \in Clients, V!Spawn(c) \/ V!SpawnFails(c)
        PROVE  Contract!Next
    <2>1. /\ step[c] = "spawn" /\ file' = file
          /\ cmd[c] \in {"Start", "Install"}
          /\ cmd[c] = "Install" => stype[c] = "StartImmediately"
          /\ \/ cmd[c] = "Start" /\ Answer(c, "spawn", "nil") /\ Up'
             \/ Answer(c, "spawn", "error")
             \/ Proceed(c, "spawn", "enable")
      BY <1>6, SystemVClients
      DEF V!Spawn, V!SpawnFails, V!Started, V!Proceed, V!Answer, OfSystemV
    <2>2. Contract!Acts(c)
      BY <2>1, ActsIs DEF Working
    <2> QED
      BY <2>1, <2>2, StartIs, FailIs, ProceedIs
  <1>7. ASSUME NEW c \in Clients, V!StopDaemon(c) \/ V!StopFails(c)
        PROVE  Contract!Next
    <2>1. /\ step[c] = "stop" /\ file' = file /\ active' \in {active, "none"}
          /\ \/ cmd[c] = "Stop" /\ Answer(c, "stop", "nil")
             \/ Answer(c, "stop", "error")
             \/ Proceed(c, "stop", "remove")
      BY <1>7, SystemVClients
      DEF V!StopDaemon, V!StopFails, V!AfterStop, V!Proceed, V!Answer, V!system,
          OfSystemV
    <2>2. Contract!Acts(c)
      BY <2>1, ActsIs, NoNewSpawn DEF Working
    <2> QED
      BY <2>1, <2>2, StartIs, FailIs, ProceedIs
  <1>8. ASSUME NEW c \in Clients, V!CallFails(c) PROVE Contract!Next
    <2>1. PICK at \in {"check", "remove", "enable", "disable"} :
              Answer(c, at, "error") /\ step[c] = at
      BY <1>8, SystemVClients DEF V!CallFails, V!Answer
    <2>2. Contract!Acts(c)
      BY <1>8, <2>1, ActsIs, NoNewSpawn DEF V!CallFails, V!system, Working
    <2> QED
      BY <2>1, <2>2, FailIs
  <1>9. ASSUME NEW c \in Clients, V!Die(c), UNCHANGED V!system
        PROVE  Contract!Next
    BY <1>9, SystemVClients, CutIs DEF V!Die, V!system, unix
  <1>10. ASSUME V!DaemonEnds PROVE Contract!Next
    <2>1. UNCHANGED clients /\ (Up' => Up) /\ (Present' <=> Present)
      BY <1>10 DEF V!DaemonEnds, V!clients, V!request, clients, request
    <2>2. Contract!Sound
      BY <2>1 DEF Contract!Sound, Present, clients
    <2> QED
      BY <2>1, <2>2, PassIs
  <1>11. ASSUME V!Reboot PROVE Contract!Next
    <2>1. Cut(Clients) /\ (Up' => Present) /\ (Present' <=> Present)
      BY <1>11, SystemVClients DEF V!Reboot
    <2>2. \A c \in Clients : step'[c] = "idle"
      BY <2>1 DEF Cut, End, Working, ClientsTyped
    <2>3. Contract!Sound
      BY <2>1, <2>2 DEF Contract!Sound, Present
    <2> QED
      BY <2>1, <2>3, CutIs
  <1> QED
    BY <1>1, <1>2, <1>3, <1>4, <1>5, <1>6, <1>7, <1>8, <1>9, <1>10, <1>11
    DEF V!Next, V!Do

\* The same for launchd.
LEMMA LaunchdClients ==
    ASSUME NEW c, NEW from, NEW x, NEW y
    PROVE  /\ L!Execute(c, from, x, y) => Execute(c, from, x, y)
           /\ L!Proceed(c, from, x) => Proceed(c, from, x)
           /\ L!Answer(c, from, x) => Answer(c, from, x)
           /\ L!Complete(c, from, x) => Complete(c, from, x)
           /\ L!Cut(x) => Cut(x)
  BY DEF L!Execute, L!Proceed, L!Answer, L!Complete, L!End, L!Cut, L!Working,
         L!Changers, L!Changing, L!request, Execute, Proceed, Answer, Complete,
         End, Cut, Working, Changers, Changing, request

\* The steps of launchd and its controller.
LEMMA LaunchdKeeps ==
    Inv /\ OnLaunchd(L!Next) /\ UNCHANGED host => Contract!Next
  <1> SUFFICES ASSUME Inv, host = "launchd", L!Next,
                      UNCHANGED <<host, enabled, links, windows>>
               PROVE  Contract!Next
    BY DEF OnLaunchd
  <1>a. ClientsTyped /\ host \notin SystemVHosts
    BY TypesOfClients DEF Machines, SystemVHosts
  <1>b. /\ Exclusive /\ OfLaunchd
        /\ Present <=> file # "none" \/ loaded # "none"
        /\ Present' <=> file' # "none" \/ loaded' # "none"
        /\ Up <=> active # "none"
        /\ Up' <=> active' # "none"
    BY DEF Inv, OfLaunchd, Present, Up, windows
  <1> USE <1>a, <1>b
  <1>1. ASSUME NEW c \in Clients, NEW command \in L!Commands,
               NEW start \in L!StartTypes, L!Invoke(c, command, start)
        PROVE  Contract!Next
    <2>1. PICK first \in {"mkdir", "start", "stop", "unload", "query"} :
              L!Execute(c, command, start, first)
      BY <1>1 DEF L!Invoke, L!Commands
    <2> QED
      BY <1>1, <2>1, LaunchdClients, BeginIs
      DEF L!Invoke, L!system, unix, L!Commands, L!StartTypes, L!AtBoot,
          L!Manual, Commands, StartTypes, AtBoot, Manual
  <1>2. ASSUME NEW c \in Clients, L!Query(c) \/ L!QueryFails(c)
        PROVE  Contract!Next
    <2>1. /\ step[c] = "query" /\ cmd[c] = "GetStatus"
          /\ \/ Answer(c, "query", "error")
             \/ \E status \in {"NotInstalled", "Running", "Stopped", "Unknown"} :
                    /\ Answer(c, "query", status)
                    /\ status = "NotInstalled" => loaded = "none"
                    /\ status = "Running" => Up
          /\ UNCHANGED <<unix, windows>>
      BY <1>2, LaunchdClients
      DEF L!Query, L!QueryFails, L!Answer, L!system, unix, OfLaunchd
    <2>2. loaded = "none" => installed \notin StartTypes
      BY DEF OfLaunchd
    <2>3. Contract!Acts(c)
      BY <2>1, ActsIs DEF Working, unix
    <2> QED
      BY <2>1, <2>2, <2>3, StatusIs, FailIs DEF Contract!Statuses
  <1>3. ASSUME NEW c \in Clients,
               \/ L!MakeLogDir(c) \/ L!WriteList(c) \/ L!WriteFails(c)
               \/ L!UnloadJob(c) \/ L!RemoveList(c)
        PROVE  Contract!Next
    <2>1. Working(c) /\ cmd[c] \in Changers /\ active' \in {active, "none"}
      BY <1>3 DEF L!MakeLogDir, L!WriteList, L!WriteFails, L!UnloadJob,
                  L!RemoveList, L!Proceed, L!Answer, L!Complete, L!system,
                  Working, Changers, OfLaunchd
    <2>2. Contract!Acts(c)
      BY <2>1, ActsIs DEF Exclusive
    <2>3. \/ Proceed(c, "mkdir", "write") \/ Proceed(c, "write", "load")
          \/ Proceed(c, "unload", "remove") \/ Answer(c, "write", "error")
          \/ Complete(c, "remove", Never) /\ cmd[c] = "Uninstall" /\ ~Present'
      BY <1>3, LaunchdClients
      DEF L!MakeLogDir, L!WriteList, L!WriteFails, L!UnloadJob, L!RemoveList,
          L!Complete, L!Never, Never, OfLaunchd
    <2> QED
      BY <2>2, <2>3, ProceedIs, FailIs, CompleteIs
  <1>4. ASSUME NEW c \in Clients, L!LoadList(c) PROVE Contract!Next
    <2>1. /\ step[c] = "load" /\ cmd[c] = "Install"
          /\ Complete(c, "load", stype[c])
      BY <1>4, LaunchdClients DEF L!LoadList, L!Complete, OfLaunchd
    <2>2. /\ file' = file /\ file # "none"
          /\ Up' /\ ~Up => stype[c] \in {"StartImmediately", "StartOnLoad"}
      BY <1>4, <2>1 DEF L!LoadList, L!RunOnLoad, L!AtBoot, OfLaunchd
    <2>3. Contract!Acts(c)
      BY <2>1, <2>2, ActsIs DEF Exclusive, Working, Changers
    <2> QED
      BY <2>1, <2>2, <2>3, CompleteIs
  <1>5. ASSUME NEW c \in Clients, L!StartJob(c) \/ L!StopJob(c)
        PROVE  Contract!Next
    <2>1. /\ Present /\ UNCHANGED <<file, loaded>>
          /\ \/ Answer(c, "start", "nil") /\ cmd[c] = "Start" /\ Up'
                /\ step[c] = "start"
             \/ Answer(c, "stop", "nil") /\ cmd[c] = "Stop" /\ ~Up'
                /\ step[c] = "stop"
      BY <1>5, LaunchdClients DEF L!StartJob, L!StopJob, L!Answer, OfLaunchd
    <2>2. Contract!Acts(c)
      BY <2>1, ActsIs DEF Working
    <2> QED
      BY <2>1, <2>2, StartIs
  <1>6. ASSUME NEW c \in Clients, L!CallFails(c) PROVE Contract!Next
    <2>1. PICK at \in {"mkdir", "load", "unload", "remove", "start", "stop"} :
              Answer(c, at, "error") /\ step[c] = at
      BY <1>6, LaunchdClients DEF L!CallFails, L!Answer
    <2>2. Contract!Acts(c)
      BY <1>6, <2>1, ActsIs DEF L!CallFails, L!system, Working
    <2> QED
      BY <2>1, <2>2, FailIs
  <1>7. ASSUME NEW c \in Clients, L!Die(c), UNCHANGED L!system
        PROVE  Contract!Next
    BY <1>7, LaunchdClients, CutIs DEF L!Die, L!system, unix
  <1>8. ASSUME L!DaemonEnds PROVE Contract!Next
    <2>1. UNCHANGED clients /\ (Up' => Up) /\ (Present' <=> Present)
      BY <1>8 DEF L!DaemonEnds, L!clients, L!request, clients, request
    <2>2. Contract!Sound
      BY <2>1 DEF Contract!Sound, Present
    <2> QED
      BY <2>1, <2>2, PassIs
  <1>9. ASSUME L!Reboot PROVE Contract!Next
    <2>1. /\ Cut(Clients) /\ (Up' => Present)
          /\ (Present' <=> Present) \/ installed = Changing
      BY <1>9, LaunchdClients DEF L!Reboot, L!RunOnLoad, OfLaunchd, ClientsTyped
    <2>2. Contract!Sound
      BY <2>1 DEF Contract!Sound, Present, Changing
    <2> QED
      BY <2>1, <2>2, CutIs
  <1> QED
    BY <1>1, <1>2, <1>3, <1>4, <1>5, <1>6, <1>7, <1>8, <1>9 DEF L!Next, L!Do

\* The same for Windows.
LEMMA WindowsClients ==
    ASSUME NEW c, NEW from, NEW x, NEW y
    PROVE  /\ W!Execute(c, from, x, y) => Execute(c, from, x, y)
           /\ W!Proceed(c, from, x) => Proceed(c, from, x)
           /\ W!Answer(c, from, x) => Answer(c, from, x)
           /\ W!Complete(c, from, x) => Complete(c, from, x)
           /\ W!Cut(x) => Cut(x)
  BY DEF W!Execute, W!Proceed, W!Answer, W!Complete, W!End, W!Cut, W!Working,
         W!Changers, W!Changing, W!request, Execute, Proceed, Answer, Complete,
         End, Cut, Working, Changers, Changing, request

\* The steps of the SCM and its controller.
LEMMA WindowsKeeps ==
    Inv /\ OnWindows(W!Next) /\ UNCHANGED host => Contract!Next
  <1> SUFFICES ASSUME Inv, host \in WindowsHosts, W!Next,
                      UNCHANGED <<host, unix>>
               PROVE  Contract!Next
    BY DEF OnWindows
  <1>a. ClientsTyped /\ host \notin SystemVHosts
    BY TypesOfClients DEF Machines, SystemVHosts, WindowsHosts
  <1>b. /\ Exclusive /\ OfWindows
        /\ Present <=> record = "present"
        /\ Present' <=> record' = "present"
        /\ Up <=> state # "Stopped"
        /\ Up' <=> state' # "Stopped"
    BY DEF Inv, OfWindows, Present, Up, unix
  <1> USE <1>a, <1>b
  <1>1. ASSUME NEW c \in Clients, NEW command \in W!Commands,
               NEW start \in W!StartTypes, W!Invoke(c, command, start)
        PROVE  Contract!Next
    <2>1. PICK first \in {"create", "open"} :
              W!Execute(c, command, start, first)
      BY <1>1 DEF W!Invoke
    <2> QED
      BY <1>1, <2>1, WindowsClients, BeginIs
      DEF W!Invoke, W!system, windows, W!Commands, W!StartTypes, W!AtBoot,
          W!Manual, Commands, StartTypes, AtBoot, Manual
  <1>2. ASSUME NEW c \in Clients,
               W!OpenService(c) \/ W!OpenFails(c) \/ W!Query(c)
        PROVE  Contract!Next
    <2>1. /\ step[c] \in {"open", "query"} /\ UNCHANGED <<unix, windows>>
          /\ \/ \E to \in {"control", "start", "query"} : Proceed(c, "open", to)
             \/ Answer(c, step[c], "error")
             \/ /\ cmd[c] = "GetStatus"
                /\ \/ Answer(c, "open", "NotInstalled") /\ record = "absent"
                   \/ Answer(c, "query", state) /\ state \in W!States
      BY <1>2, WindowsClients
      DEF W!OpenService, W!OpenFails, W!Query, W!Proceed, W!Answer, W!system,
          windows, OfWindows, ClientsTyped, Commands, W!TypeOK
    <2>2. record = "absent" => installed \notin StartTypes
      BY DEF OfWindows
    <2>3. Contract!Acts(c)
      BY <2>1, ActsIs DEF Working, windows
    <2> QED
      BY <2>1, <2>2, <2>3, StatusIs, FailIs, ProceedIs
      DEF Contract!Statuses, W!States
  <1>3. ASSUME NEW c \in Clients,
               \/ W!CreateService(c) \/ W!CreateFails(c)
               \/ W!RegisterSource(c) \/ W!RegisterFails(c)
               \/ W!DeleteService(c) \/ W!DeleteFails(c)
               \/ W!RemoveSource(c) \/ W!RemoveSourceFails(c)
        PROVE  Contract!Next
    <2>1. Working(c) /\ cmd[c] \in Changers /\ state' = state
      BY <1>3 DEF W!CreateService, W!CreateFails, W!RegisterSource,
                  W!RegisterFails, W!DeleteService, W!DeleteFails,
                  W!RemoveSource, W!RemoveSourceFails, W!Proceed, W!Answer,
                  W!Complete, W!system, Working, Changers, OfWindows
    <2>2. Contract!Acts(c)
      BY <2>1, ActsIs DEF Exclusive
    <2>3. \/ \E to \in {"start", "register"} : Proceed(c, "create", to)
          \/ Proceed(c, "delete", "unregister")
          \/ \E from \in {"create", "register", "delete", "unregister"} :
                 Answer(c, from, "error")
          \/ /\ Complete(c, "register", stype[c])
             /\ cmd[c] = "Install" /\ Present'
          \/ Complete(c, "unregister", Never) /\ cmd[c] = "Uninstall" /\ ~Present'
      BY <1>3, WindowsClients
      DEF W!CreateService, W!CreateFails, W!RegisterSource, W!RegisterFails,
          W!DeleteService, W!DeleteFails, W!RemoveSource, W!RemoveSourceFails,
          W!Complete, W!Never, Never, OfWindows
    <2> QED
      BY <2>2, <2>3, ProceedIs, FailIs, CompleteIs
  <1>4. ASSUME NEW c \in Clients, W!StartService(c) \/ W!StartFails(c)
        PROVE  Contract!Next
    <2>1. /\ step[c] = "start" /\ cmd[c] \in {"Start", "Install"}
          /\ cmd[c] = "Install" => stype[c] = "StartImmediately"
          /\ \/ cmd[c] = "Start" /\ Answer(c, "start", "nil") /\ Up'
             \/ Answer(c, "start", "error")
             \/ Proceed(c, "start", "register")
      BY <1>4, WindowsClients
      DEF W!StartService, W!StartFails, W!Proceed, W!Answer, OfWindows
    <2>2. /\ Up' /\ ~Up => Present
          /\ record' = record \/ cmd[c] = "Install"
      BY <1>4 DEF W!StartService, W!StartFails
    <2>3. Contract!Acts(c)
      BY <2>1, <2>2, ActsIs DEF Exclusive, Working, Changers
    <2> QED
      BY <2>1, <2>3, StartIs, FailIs, ProceedIs
  <1>5. ASSUME NEW c \in Clients,
               \/ W!SendStop(c) \/ W!SendStopFails(c)
               \/ W!SeeStopped(c) \/ W!GiveUp(c)
        PROVE  Contract!Next
    <2>1. /\ step[c] \in {"control", "poll"} /\ record' = record /\ (Up' => Up)
          /\ \/ \E to \in {"poll", "delete"} : Proceed(c, step[c], to)
             \/ Answer(c, step[c], "error")
             \/ cmd[c] = "Stop" /\ Answer(c, step[c], "nil") /\ ~Up'
      BY <1>5, WindowsClients
      DEF W!SendStop, W!SendStopFails, W!SeeStopped, W!GiveUp, W!AfterStop,
          W!Proceed, W!Answer, W!system, OfWindows
    <2>2. Contract!Acts(c)
      BY <2>1, ActsIs DEF Working
    <2> QED
      BY <2>1, <2>2, StartIs, FailIs, ProceedIs
  <1>6. ASSUME NEW c \in Clients, W!Die(c), UNCHANGED W!system
        PROVE  Contract!Next
    BY <1>6, WindowsClients, CutIs DEF W!Die, W!system, windows
  <1>7. ASSUME W!ServiceMoves \/ W!Vanish PROVE Contract!Next
    <2>1. UNCHANGED clients /\ (Up' => Up) /\ (Present' <=> Present)
      BY <1>7 DEF W!ServiceMoves, W!Vanish, W!clients, W!request, clients,
                  request
    <2>2. Contract!Sound
      BY <2>1 DEF Contract!Sound, Present
    <2> QED
      BY <2>1, <2>2, PassIs
  <1>8. ASSUME W!Reboot PROVE Contract!Next
    <2>1. Cut(Clients) /\ (Up' => Present) /\ (Present' <=> Present)
      BY <1>8, WindowsClients DEF W!Reboot
    <2>2. Contract!Sound
      BY <2>1 DEF Contract!Sound, Present
    <2> QED
      BY <2>1, <2>2, CutIs
  <1> QED
    BY <1>1, <1>2, <1>3, <1>4, <1>5, <1>6, <1>7, <1>8 DEF W!Next, W!Do

\* Controllers.tla, ImplementsContract: on every host, and however clients and
\* boots interleave, the controllers do what the interface promises.
THEOREM Implements == Spec => ImplementsContract
  <1>1. Init => Contract!Init
    <2> USE DEF Init, ClientInit, S!SystemInit, V!SystemInit, L!SystemInit,
                W!SystemInit
    <2>1. Init => ~Up /\ ~Present /\ \A c \in Clients : step[c] = "idle"
      BY DEF Up, Present
    <2> QED
      BY <2>1 DEF Working, Never, Up, Contract!Init, Contract!Idle
  <1>2. Inv /\ [Next]_vars => [Contract!Next]_(Contract!vars)
    <2> SUFFICES ASSUME Inv, [Next]_vars
                 PROVE  Contract!Next \/ UNCHANGED Contract!vars
      OBVIOUS
    <2>1. CASE UNCHANGED vars
      BY <2>1 DEF vars, unix, windows, clients, request, Working, Up,
                  Contract!vars, Contract!requests, Contract!machine
    <2> QED
      BY <2>1, SystemdKeeps, SystemVKeeps, LaunchdKeeps, WindowsKeeps DEF Next
  <1> QED
    BY <1>1, <1>2, Invariance, PTL
    DEF Spec, ImplementsContract, Contract!Spec

=============================================================================
