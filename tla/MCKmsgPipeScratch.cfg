SPECIFICATION Spec
CONSTANTS
    r1 = r1
    r2 = r2
    w1 = w1
    w2 = w2
    v1 = v1
    Capacity = 1
    DataSize = 1
    Payloads = {a}
    Zero = zero
    Readers = {r1}
    Writers = {w1}
    Viewers = {}
    Cred <- MCCred
    ReadCounts = {1}
    WriteCounts = {1}
    BlockModes = {TRUE}
    Signals = FALSE
    Faults = FALSE
    AllocFails = FALSE
    Horizon = 0
    Free = free
    NoBuffer = nobuffer
INVARIANTS
    ScratchFreed
