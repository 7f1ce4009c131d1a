SPECIFICATION Spec
CONSTANTS
    Procs = {p1, p2}
    Runs = {s1, s2}
    Ops = {"start", "stop", "foreground"}
    IsRedHat = TRUE
    MaxWalk = 3
INVARIANT
    LaunchedTruncatesPidFile
PROPERTIES
    ImplementsContract
    LaunchSettles
    ScriptEnds
CHECK_DEADLOCK FALSE
