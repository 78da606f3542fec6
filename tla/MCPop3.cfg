CONSTANTS
    ann = ann
    bob = bob
    inbox = inbox
    p1 = p1
    p2 = p2
    nobody = nobody
    Accounts = {ann, bob}
    Mailboxes = {inbox}
    Inbox = inbox
    MaxMessages = 2
    MaxFaults = 2
    Clients = {p1, p2}
    NoAccount = nobody
    MaxMarks = 2
SPECIFICATION Spec
INVARIANTS
    TypeOK
    UIDsUnique
    UnseenCovers
    ListedIsReadable
PROPERTIES
    StoreBehaviour
    OnlyMarkedGo
    NumbersStable
