CONSTANTS
    AnyKind = AnyKind
    Malformed = Malformed
    ResourceKind <- MCResourceKind
    EdgeKind <- MCEdgeKind
    Clause <- MCClause
    RuleId <- MCRuleId
    Scans <- MCScans
SPECIFICATION Spec
INVARIANTS
    SeverityFromOwnRule
CHECK_DEADLOCK FALSE
