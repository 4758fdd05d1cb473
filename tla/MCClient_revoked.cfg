CONSTANTS
    k1 = k1
    k2 = k2
    Keys = {k1}
    MaxTx = 1
    MaxFaults = 2
    MaxSyncs = 1
SPECIFICATION Spec
INVARIANT ResyncRevokes
CHECK_DEADLOCK FALSE
