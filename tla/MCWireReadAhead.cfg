SPECIFICATION Spec
CONSTANTS
    Room = 6
    Commands <- McCommands
    Messages <- McMessages
    Services <- McServices
    P3Requests <- McP3Requests
    Lists <- McLists
INVARIANT ReadsToDelimiter
CHECK_DEADLOCK FALSE
