CONSTANTS
    Shapes = {"A"}
    FirstShape = "A"
    NoShape = "none"
    BadRows = {"PrimaryKeyChange"}
    MaxTx = 2
    MaxAlters = 0
    MaxFaults = 1
    MaxMoves = 0
    MaxAttempts = 2
    Budget = 2
    WarnFraction = 50
    DegradeFraction = 80
SPECIFICATION Spec
INVARIANT ShutdownKeepsSlot
CHECK_DEADLOCK FALSE
