SPECIFICATION Spec
CONSTANTS
    r1 = r1
    r2 = r2
    w1 = w1
    w2 = w2
    v1 = v1
    Capacity = 2
    DataSize = 1
    Payloads = {a, b}
    Zero = zero
    Readers = {r1}
    Writers = {w1}
    Viewers = {v1}
    Cred <- MCCred
    ReadCounts = {1, 2}
    WriteCounts = {1, 2}
    BlockModes = {FALSE, TRUE}
    Signals = TRUE
    Faults = TRUE
    AllocFails = TRUE
    Horizon = 1
    Free = free
    NoBuffer = nobuffer
INVARIANTS
    TypeOK
    MutexHeldInside
    WaitersCounted
    StatsExact
PROPERTIES
    ImplementsQueue
    ReadsOldest
