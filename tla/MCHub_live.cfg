CONSTANTS
    c1 = c1
    permissions = permissions
    acme = acme
    Clients = {c1}
    Tables = {permissions}
    Scopes = {acme}
    TableOf <- SoloTable
    ScopeOf <- SoloScope
    TxKinds <- RelevantOrNot
    MaxReplay = 1
    WatcherQueue = 1
    VisibilityLag = "none"
    WalSlack = {1}
    MaxTx = 2
    MaxRestarts = 0
SPECIFICATION LiveSpec
PROPERTIES EndedWatchEnds ProgressFollows
