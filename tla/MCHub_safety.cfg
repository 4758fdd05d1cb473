CONSTANTS
    c1 = c1
    permissions = permissions
    acme = acme
    Clients = {c1}
    Tables = {permissions}
    Scopes = {acme}
    TableOf <- SoloTable
    ScopeOf <- SoloScope
    TxKinds <- Everything
    MaxReplay = 1
    WatcherQueue = 1
    VisibilityLag = "bounded"
    WalSlack = {1}
    MaxTx = 2
    MaxRestarts = 1
SPECIFICATION Spec
INVARIANTS TypeOK NoGap ReplayWindow NoLostWakeup NoRedelivery Inv
PROPERTIES CursorsAscend
