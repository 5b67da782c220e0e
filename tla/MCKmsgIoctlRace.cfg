SPECIFICATION IoctlSpec
CONSTANTS
    r1 = r1
    w1 = w1
    w2 = w2
    c1 = c1
    Capacity = 2
    DataSize = 1
    Payloads = {a}
    Zero = zero
    Readers = {r1}
    Writers = {w1}
    Viewers = {}
    Cred <- MCCred
    ReadCounts = {1}
    WriteCounts = {1}
    BlockModes = {FALSE}
    Signals = FALSE
    Faults = FALSE
    AllocFails = FALSE
    Horizon = 0
    Free = free
    NoBuffer = nobuffer
    Controllers = {c1}
    Capabilities = {TRUE}
    Commands = {"CLEAR"}
    ExpiryTimes = {0, 5}
    DefaultExpiry = 3
INVARIANTS
    QuietRingIsWindow
