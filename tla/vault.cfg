SPECIFICATION FairSpec
CONSTANTS
    Key = {k1, k2}
    Imported = Imported
    NoKey = NoKey
    Closed = Closed
    MaxReloads = 2
    MaxTogether = 1
INVARIANTS VaultOpens VaultAgrees WipeErases
PROPERTIES OperationsEnd
CHECK_DEADLOCK FALSE
