CONSTANTS
    N = 3
    Own = {2}
SPECIFICATION FairSpec
INVARIANTS
    ClientTypeOK
    InOrder
    OverTLS
    SuccessIsReal
PROPERTIES
    KeepsContract
    ConversationEnds
