SPECIFICATION Spec
CONSTANTS
    Procs = {p1, p2}
    Caught = {"INT", "TERM"}
INVARIANTS
    TypeOK
    StopsOnlyWhenTold
PROPERTIES
    ImplementsContract
    
    ParkedSignalEndsDaemon
CHECK_DEADLOCK FALSE
