CONSTANTS
    c1 = c1
    ann = ann
    bob = bob
    nobody = nobody
    remote = remote
    none = none
    Conns = {c1}
    Accounts = {ann, bob}
    Strangers = {nobody}
    Remotes = {remote}
    NoAddress = none
    FlagHeaders <- MCFlagHeaders
    MaxCommands = 9
    MaxRcpt = 3
SPECIFICATION FairSpec
INVARIANTS
    TypeOK
    RelayAuthorised
    LocalSenderVouched
    SentCopy
    QueuedOnce
    SuspectNotForInbox
PROPERTIES
    SenderSettled
    RecipientsKept
    ConnectionsEnd
