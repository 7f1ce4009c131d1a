SPECIFICATION Spec
CONSTANTS
    Procs = {p1, p2}
    Caught = {"INT", "TERM"}
INVARIANT
    FileThere
CHECK_DEADLOCK FALSE
