CONSTANTS
    AnyKind = AnyKind
    Malformed = Malformed
    MissingDir = MissingDir
    NotARule = NotARule
    Absent = Absent
    UsizeLimit = 4
    ResourceKind <- MCResourceKind
    EdgeKind <- MCEdgeKind
    Clause <- MCClause
    RuleId <- MCRuleId
    Dirs <- MCDirs
SPECIFICATION Spec
INVARIANTS
    TypeOK
    LoadedAlternates
    FirstBadFileDecides
    LoadedCanMatch
CHECK_DEADLOCK FALSE
