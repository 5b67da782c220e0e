SPECIFICATION FairSpec
CONSTANTS
    u1 = u1
    u2 = u2
    Users = {u1, u2}
    Drivers <- MCDrivers
    MaxLoads = 2
    MaxBuffers = 2
INVARIANTS
    LifeTypeOK
    UsersFindDevice
    NothingKept
PROPERTIES
    ExitCompletes
CHECK_DEADLOCK FALSE
