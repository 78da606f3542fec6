CONSTANTS
    Tokens <- MCTokens
    LineLength = 9
    Submitted <- MCSubmitted
    Configs <- MCConfigs
    Filter <- MCFilter
    KeyTxt <- MCKeyTxt
    Hash <- MCHash
    OtherHash <- MCOtherHash
    Signature <- MCSignature
    QpLine = 6
SPECIFICATION MessageSpec
INVARIANTS
    SignedVerifies
    TextKept
    ReportArrives
