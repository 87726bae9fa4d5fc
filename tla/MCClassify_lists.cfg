CONSTANTS
    Graphs <- MCGraphs
    Service <- MCService
    WriteName <- MCWriteName
    EscalationName <- MCEscalationName
    ReadName <- MCReadName
SPECIFICATION Spec
INVARIANTS
    ListedResourcesGranted
CHECK_DEADLOCK FALSE
