SPECIFICATION Spec
CONSTANT
    Clients = {c1}
PROPERTY
    LoginStartsInstalled
