CONSTANTS
    t1 = t1
    t2 = t2
    admin = admin
    server = server
    Threads = {t1, t2}
    Consoles = {admin}
    Conns = {server, admin}
    Conn <- OneServer
    Domains = {"home"}
    Users = {"ann"}
    Boxes <- NoBoxes
    MaxAccounts = 2
    MaxFaults = 1
SPECIFICATION DirSpec
SYMMETRY Symmetry
INVARIANTS
    FoundHasAccount
    CacheAgrees
