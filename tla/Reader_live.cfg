CONSTANTS
    Shapes = {"A"}
    FirstShape = "A"
    NoShape = "none"
    BadRows = {"PrimaryKeyChange"}
    MaxTx = 3
    MaxAlters = 0
    MaxFaults = 2
    MaxMoves = 0
    MaxAttempts = 2
    Budget = 3
    WarnFraction = 50
    DegradeFraction = 80
SPECIFICATION LiveSpec
PROPERTIES DropHasCause EveryTransactionTaken WALIsReleased BudgetStopsRun
CHECK_DEADLOCK FALSE
