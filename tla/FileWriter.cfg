SPECIFICATION Spec
CONSTANTS
    Procs = {p1, p2}
    Caught = {"INT"}
INVARIANTS
    TypeOK
    FileThereIfAlone
    QuietAfterStop
PROPERTIES
    OnlyStoppedRemoves
    ImplementsDaemonizer
CHECK_DEADLOCK FALSE
