CONSTANTS
    Graphs <- MCGraphs
    Service <- MCService
    WriteName <- MCWriteName
    EscalationName <- MCEscalationName
    ReadName <- MCReadName
SPECIFICATION ScanSpec
INVARIANTS
    EscalationOfOneRole
CHECK_DEADLOCK FALSE
