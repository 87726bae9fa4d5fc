CONSTANTS
    AnyKind = AnyKind
    Malformed = Malformed
    ResourceKind <- MCResourceKind
    EdgeKind <- MCEdgeKind
    Clause <- MCClause
    RuleId <- MCRuleId
    Graphs <- MCGraphs
    RuleLists <- MCRuleLists
SPECIFICATION Spec
INVARIANTS
    TypeOK
    HopBudget
    FindingsConform
PROPERTIES
    ImplementsPathSearch
    Termination
CHECK_DEADLOCK FALSE
