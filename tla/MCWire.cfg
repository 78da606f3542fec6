SPECIFICATION Spec
CONSTANTS
    Room = 6
    Commands <- McCommands
    Messages <- McMessages
    Services <- McServices
    P3Requests <- McP3Requests
    Lists <- McLists
INVARIANT AnswersMatch
PROPERTIES AlwaysAnswered LongTextsOnly
ACTION_CONSTRAINT LastTurnAstray
CHECK_DEADLOCK FALSE
