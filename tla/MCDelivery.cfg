CONSTANTS
    c1 = c1
    ann = ann
    nobody = nobody
    remote = remote
    none = none
    noconn = noconn
    Conns = {c1}
    Accounts = {ann}
    Strangers = {nobody}
    Remotes = {remote}
    NoAddress = none
    FlagHeaders <- MCFlagHeaders
    NoConn = noconn
    MaxCommands = 7
    MaxRcpt = 3
    MaxCrashes = 1
SPECIFICATION DFairSpec
INVARIANTS
    DTypeOK
    FiledInOrder
    RelayedAtMostOnce
    NothingBeforeReply
    NoBackscatter
PROPERTIES
    QueuesDrain
