CONSTANTS
    AnyKind = AnyKind
    Malformed = Malformed
    ResourceKind <- MCResourceKind
    EdgeKind <- MCEdgeKind
    Clause <- MCClause
    RuleId <- MCRuleId
    Scans <- MCScans
SPECIFICATION Spec
INVARIANTS
    TypeOK
    WorstFirst
    TwoLevelsApartInOrder
    SingleHopChainsRendered
    BonusesOfWholeChain
CHECK_DEADLOCK FALSE
