CONSTANTS
    k1 = k1
    k2 = k2
    Keys = {k1, k2}
    MaxTx = 3
    MaxFaults = 2
    MaxSyncs = 2
SPECIFICATION LiveSpec
INVARIANTS TypeOK Recoverable NoSpin
PROPERTIES NoHalfSnapshot BecomesFresh
CHECK_DEADLOCK FALSE
