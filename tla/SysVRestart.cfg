SPECIFICATION SafetySpec
CONSTANTS
    Procs = {p1, p2, p3, p4}
    Runs = {s1, s2}
    Ops = {"start", "restart"}
    IsRedHat = FALSE
    MaxWalk = 3
SYMMETRY Symmetry
INVARIANT
    PatienceKeepsPid
CHECK_DEADLOCK FALSE
