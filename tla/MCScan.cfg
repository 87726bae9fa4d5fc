CONSTANTS
    Graphs <- MCGraphs
    Service <- MCService
    WriteName <- MCWriteName
    EscalationName <- MCEscalationName
    ReadName <- MCReadName
SPECIFICATION ScanSpec
INVARIANTS
    TypeOK
    FactsAsDeclared
    GrantsAsWritten
    ReachableIffOpen
    AttachedThroughProfile
    LongChainsAsWritten
    SingleGrants
CHECK_DEADLOCK FALSE
