SPECIFICATION Spec
CONSTANTS
    Procs = {p1}
    Caught = {"INT", "TERM"}
PROPERTY
    ToldDaemonQuits
CHECK_DEADLOCK FALSE
