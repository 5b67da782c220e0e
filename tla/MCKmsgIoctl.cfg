SPECIFICATION IoctlSpec
CONSTANTS
    r1 = r1
    w1 = w1
    w2 = w2
    c1 = c1
    Capacity = 2
    DataSize = 1
    Payloads = {a}
    Zero = zero
    Readers = {r1}
    Writers = {w1}
    Viewers = {}
    Cred <- MCCred
    ReadCounts = {1}
    WriteCounts = {1}
    BlockModes = {FALSE}
    Signals = FALSE
    Faults = TRUE
    AllocFails = FALSE
    Horizon = 0
    Free = free
    NoBuffer = nobuffer
    Controllers = {c1}
    Capabilities = {TRUE, FALSE}
    Commands = {"G_DATA_SIZE", "G_CAPACITY", "G_MSG_COUNT", "G_READERS", "G_WRITERS", "G_EXPIRY_MS", "bad_magic", "nr_above_max", "not_in_switch", "S_EXPIRY_MS", "CLEAR"}
    ExpiryTimes = {0, 5}
    DefaultExpiry = 3
INVARIANTS
    IoctlTypeOK
    ReadersNotStranded
