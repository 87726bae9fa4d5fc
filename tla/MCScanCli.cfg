SPECIFICATION Spec
CONSTANTS
    Proc = {p1, p2}
    good = good
    other = other
    broken = broken
    taken = taken
    sound = sound
    refused = refused
    malformed = malformed
    Account <- MCAccount
    Unreadable = {broken}
    Untaggable = {taken}
    Rulebook <- MCRulebook
    Refused = {refused}
    Panics <- MCPanics
    Depth = 1
    Size <- MCSize
    MaxEdits = 1
    NoDir = NoDir
    Nothing = Nothing
INVARIANTS
    TypeOK
    UndisturbedFileIsPrefix
    PartsInPlace
    SuccessMeansWritten
    OldUntilPrinted
    NearestRules
PROPERTIES
    EveryRunEnds
CHECK_DEADLOCK FALSE
