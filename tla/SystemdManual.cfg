SPECIFICATION Spec
CONSTANT
    Clients = {c1}
PROPERTY
    ManualStaysOff
