CONSTANTS
    Shapes = {"A", "B"}
    FirstShape = "A"
    NoShape = "none"
    BadRows = {"PrimaryKeyChange"}
    MaxTx = 2
    MaxAlters = 1
    MaxFaults = 1
    MaxMoves = 2
    MaxAttempts = 1
    Budget = 2
    WarnFraction = 50
    DegradeFraction = 80
SPECIFICATION Spec
INVARIANTS TypeOK ShapeGuard
PROPERTY ImplementsStream
CHECK_DEADLOCK FALSE
