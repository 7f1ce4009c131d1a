SPECIFICATION SafetySpec
CONSTANTS
    Procs = {p1, p2, p3, p4}
    Runs = {s1, s2}
    Ops = {"start", "stop", "restart", "reload", "condrestart"}
    IsRedHat = TRUE
    MaxWalk = 3
SYMMETRY Symmetry
INVARIANTS
    OneApplicationPerStart
    LauncherGoneFirst
    CleanExitClearsPid
    OnlyRestartLosesPid
CHECK_DEADLOCK FALSE
