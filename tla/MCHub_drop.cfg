CONSTANTS
    c1 = c1
    permissions = permissions
    acme = acme
    Clients = {c1}
    Tables = {permissions}
    Scopes = {acme}
    TableOf <- SoloTable
    ScopeOf <- SoloScope
    TxKinds <- RelevantOnly
    MaxReplay = 1
    WatcherQueue = 1
    VisibilityLag = "none"
    WalSlack = {1}
    MaxTx = 3
    MaxRestarts = 0
SPECIFICATION Spec
INVARIANT ProgressIsComplete
