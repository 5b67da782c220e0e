SPECIFICATION CleanupFairSpec
CONSTANTS
    r1 = r1
    w1 = w1
    w2 = w2
    c1 = c1
    Capacity = 1
    DataSize = 1
    Payloads = {a}
    Zero = zero
    Readers = {r1}
    Writers = {w1}
    Viewers = {}
    Cred <- MCCred
    ReadCounts = {1}
    WriteCounts = {1}
    BlockModes = {FALSE}
    Signals = FALSE
    Faults = FALSE
    AllocFails = FALSE
    Horizon = 1
    Free = free
    NoBuffer = nobuffer
    Controllers = {c1}
    Capabilities = {TRUE}
    Commands = {"CLEAR", "S_EXPIRY_MS"}
    ExpiryTimes = {0}
    DefaultExpiry = 1
    Worker = worker
PROPERTIES
    WorkerRecurs
    WriterServed
