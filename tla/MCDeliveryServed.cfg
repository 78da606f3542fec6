CONSTANTS
    c1 = c1
    ann = ann
    nobody = nobody
    remote = remote
    none = none
    noconn = noconn
    Conns = {c1}
    Accounts = {ann}
    Strangers = {}
    Remotes = {remote}
    NoAddress = none
    FlagHeaders <- MCFlagHeaders
    NoConn = noconn
    MaxCommands = 5
    MaxRcpt = 2
    MaxCrashes = 0
SPECIFICATION DFairSpec
PROPERTIES
    EveryRecipientServed
