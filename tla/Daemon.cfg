CONSTANTS
    Calls = {c1, c2}
    NoCall = none
    MaxFaults = 2
SPECIFICATION LiveSpec
INVARIANTS TypeOK OneStream SlotHasOwner ExitAfterCleanup CleanExitWasAsked StopHasReason
PROPERTIES ShutdownCompletes SourceFailureEndsServe WaitsOnlyForClient
CHECK_DEADLOCK FALSE
