CONSTANTS
    d1 = d1
    d2 = d2
    w = w
    Programs <- MCPrograms
    Desktops <- MCDesktops
    Strict = {}
    LastPort = 3
    Taken = {1}
    NColumns = 2
    MaxMishaps = 1
SPECIFICATION Spec
INVARIANTS
    TypeOK
    DatabaseIsReady
PROPERTY StartsSucceed
CHECK_DEADLOCK FALSE
