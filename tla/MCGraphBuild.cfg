CONSTANTS
    NotADir = NotADir
    Label <- MCLabel
    Body <- MCBody
    Embedded <- MCEmbedded
    Dirs <- MCDirs
    BodyRefs <- CollectedRefs
    BodyAttrs <- PromotedAttrs
    BodyUnresolved <- LeftUnresolved
SPECIFICATION Spec
INVARIANTS
    TypeOK
    GraphIsDeclaration
    FirstFaultDecides
    EveryReferenceIsEdge
    EvidenceLeadsBack
    UnflaggedIsLiteral
    EmbeddedJsonOpened
    BlocksKept
CHECK_DEADLOCK FALSE
