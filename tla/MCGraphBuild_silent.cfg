CONSTANTS
    NotADir = NotADir
    Label <- MCLabel
    Body <- MCBody
    Embedded <- MCEmbedded
    Dirs <- MCDirs
    BodyRefs <- CollectedRefs
    BodyAttrs <- PromotedAttrs
    BodyUnresolved <- LeftUnresolved
SPECIFICATION Spec
INVARIANTS
    UnresolvedAlwaysVisible
CHECK_DEADLOCK FALSE
