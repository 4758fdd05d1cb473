SPECIFICATION Spec
CONSTANTS
    Failed = Failed
    Invalid = Invalid
    Scopes = {1, 2}
    Ids = {0, 1}
    Bodies = {1, 3, 4}
    Watched = 1
    Identities = {"default", "full", "index"}
    ToastBytes = 2
    MaxValueBytes = 3
    MaxTransactionBytes = 12
    MaxTransactionChanges = 2
    BatchRows = 1
    MaxMessageBytes = 4
    MaxCommits = 2
    XidBits = 2
    MaxXid = 6
    MaxLSN = 2
    SampleBudget = 50
INVARIANTS StoreMirrorsTable RefusedExactly PendingBounded
INVARIANTS VisibilityExact CursorsAgree SnapshotArrivesWhole DiffFindsChange
INVARIANTS ConfigIsSafe TransientErrorsRetried RetentionSettles
CHECK_DEADLOCK FALSE
