SPECIFICATION Spec
CONSTANTS
    Capacity = 3
    DataSize = 1
    Payloads = {a}
    Zero = zero
    Lens = {1, 2}
    Users <- MCUsers
    Times <- MCLongTimes
INVARIANTS
    TypeOK
    WindowKept
    TestsAgree
PROPERTIES
    ImplementsQueue
    PopHandsOutOldest
    CleanupIsExact
