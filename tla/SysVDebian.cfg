SPECIFICATION SafetySpec
CONSTANTS
    Procs = {p1, p2, p3, p4}
    Runs = {s1, s2}
    Ops = {"start", "stop", "restart", "reload", "condrestart", "interrupt"}
    IsRedHat = FALSE
    MaxWalk = 2
SYMMETRY Symmetry
INVARIANTS
    TypeOK
    OneApplicationPerStart
    LaunchChainBounded
    LauncherGoneFirst
    CleanExitClearsPid
    OnlyRestartLosesPid
CHECK_DEADLOCK FALSE
