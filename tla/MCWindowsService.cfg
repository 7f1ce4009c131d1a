SPECIFICATION Spec
CONSTANT
    Procs = {p1, p2}
INVARIANTS
    TypeOK
    StoppedMeansQuiet
    ExitCodeTellsError
PROPERTIES
    ImplementsContract
    StateNeverGoesBack
    AcceptedStopEnds
    StartPendingPasses
CHECK_DEADLOCK FALSE
