SPECIFICATION DriversSpec
CONSTANTS
    t1 = t1
    t2 = t2
    Threads = {t1, t2}
    Admins = {t1}
    LongMax = 1
    Operands <- MCOperands
    Choices <- MCChoices
    Counts = {1, 2, 9}
    Commands = {"SET_OPERATOR", "SET_OPERAND", "RESET", "QUERY", "unknown"}
    Mode <- MCMode
    Files = {f1, f2}
    Size = 2
    Messages = {m1, m2}
    Zero = zero
    MaxPos = 2
    Signals = TRUE
    Faults = TRUE
    Free = free
INVARIANTS
    DriversTypeOK
    InsideWithMutex
    PreviousErasedInLab1
    SizeFitsDataInSimpleChar
PROPERTIES
    MutexGivenBack
    OnlyAdminSetsCalculator
    LockServed
    ImplementsSharedMessage
