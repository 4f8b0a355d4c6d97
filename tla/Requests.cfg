CONSTANTS
    Connections = {c1}
    MaxCalls = 2
    MaxVersion = 1
SPECIFICATION Spec
CHECK_DEADLOCK FALSE
INVARIANTS
    TypeOK
    AnswersLagByMisses
    OwnAnswersAreFresh
    ActsAtMostOnce
PROPERTIES
    StopEmptiesServer
