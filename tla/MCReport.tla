------------------------------ MODULE MCReport ------------------------------
(***************************************************************************)
(* Small scans: two rules of every pair of severities and path shapes, on  *)
(* graphs with sensitive and exposed nodes, and the findings the abstract  *)
(* search promises for them.                                               *)
(***************************************************************************)
EXTENDS Report, FiniteSetsExt

MCResourceKind == {"IamRole", "S3Bucket"}
MCEdgeKind == {"References", "IamGrants"}
MCClause == {Sensitive} \cup ExposedFacts
MCRuleId == {"r1", "r2"}

Node(kind, facts) == [kind |-> kind, holds |-> facts]
Ref(s, d) == [src |-> s, dst |-> d, kind |-> "References", holds |-> {}]
Grant(s, d) == [src |-> s, dst |-> d, kind |-> "IamGrants", holds |-> {}]

(* A chain whose middle node is sensitive, an exposed role and a sensitive *)
(* bucket that reference themselves, two parallel ways between the same    *)
(* nodes, and an exposed way to a sensitive bucket beside a plain loop.    *)
MCGraphs ==
    {[nodes |-> <<Node("IamRole", {}), Node("IamRole", {Sensitive}), Node("S3Bucket", {})>>,
      edges |-> <<Ref(1, 2), Ref(2, 3), Grant(1, 3)>>],
     [nodes |-> <<Node("IamRole", {"_derived.publicly_invokable"}),
                  Node("S3Bucket", {Sensitive, "_derived.public"})>>,
      edges |-> <<Ref(1, 1), Grant(1, 2)>>],
     [nodes |-> <<Node("IamRole", {"_derived.open_ingress"}), Node("S3Bucket", {Sensitive})>>,
      edges |-> <<Ref(2, 2), Grant(1, 2), Grant(1, 2)>>],
     [nodes |-> <<Node("IamRole", {}), Node("IamRole", {"_derived.publicly_invokable"}),
                  Node("S3Bucket", {Sensitive})>>,
      edges |-> <<Ref(1, 1), Grant(2, 3)>>]}

AnyNode == [tag |-> "node", kind |-> AnyKind, where |-> {}]
N(kind, where) == [tag |-> "node", kind |-> kind, where |-> where]
E(kind, lo, hi) ==
    [tag |-> "edge", kind |-> kind, where |-> {}, min_hops |-> lo, max_hops |-> hi]

Shapes == {<<N("IamRole", {}), E("IamGrants", 1, 1), N("S3Bucket", {})>>,
           <<AnyNode, E("References", 1, 6), AnyNode>>,
           <<N("S3Bucket", {}), E("References", 1, 3), N("S3Bucket", {Sensitive})>>,
           <<N("S3Bucket", {Sensitive})>>}

RulesOf(id) ==
    {[id |-> id, severity_base |-> sev, max_total_hops |-> 6, path |-> path] :
        sev \in Severity, path \in Shapes}

FindingsTable ==
    [g \in MCGraphs, path \in Shapes |->
        FoldSet(LAMBDA f, s : Append(s, f), <<>>, DOMAIN FindingBag(g, [id |-> "r1", max_total_hops |-> 6, path |-> path]))]

FindingsOf(g, rs) ==
    FlattenSeq([r \in 1..Len(rs) |->
        LET fs == FindingsTable[g, rs[r].path]
        IN  [n \in 1..Len(fs) |-> [fs[n] EXCEPT !.rule_id = rs[r].id]]])

ScanOf(g, rs) == [graph |-> g, rules |-> rs, findings |-> FindingsOf(g, rs)]

(* The second rule has an id of its own, or the first one's.               *)
MCScans ==
    {ScanOf(g, <<r, q>>) : g \in MCGraphs, r \in RulesOf("r1"), q \in RulesOf("r1") \cup RulesOf("r2")}

=============================================================================
