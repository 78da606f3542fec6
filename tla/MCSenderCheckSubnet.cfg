CONSTANTS
    OctetBits = 1
    V4Octets = 4
    V6Octets = 4
    Domains = {"a", "b", "c", "d"}
    Txt <- MCTxt
    Mx <- MCMx
    Addresses <- MCAddresses
    Reversed <- MCReversed
    Clients <- MCClients
    MaxDepth = 3
    MaxLookups = 1
    DmarcTxt <- MCDmarcTxt
    Signatures <- MCSignatures
    Own = "a"
    Local <- MCLocal
SPECIFICATION CheckSpec
PROPERTIES
    PartOfSubnet
