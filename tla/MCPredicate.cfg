SPECIFICATION Spec
CONSTANTS
    Missing = Missing
    Piece <- MCPiece
    NumberOf <- MCNumberOf
    Inputs <- MCInputs
    Values <- MCValues
INVARIANTS
    TypeOK
    ParsedAsWritten
    NothingIgnored
    EvaluatesAsWritten
CHECK_DEADLOCK FALSE
