SPECIFICATION Spec
CONSTANT
    Clients = {c1, c2}
INVARIANTS
    TypeOK
    InstalledIsWhole
    UninstalledIsGone
PROPERTIES
    UninstalledStaysDown
    OldUnitNeverStarts
    BootStartsInstalled
    ManualStaysOff
    ImplementsContract
    CommandEnds
