--------------------------- MODULE MCRuleMatcher ---------------------------
(***************************************************************************)
(* Small instances of the rule matcher: two of the source's resource       *)
(* kinds, two of its edge kinds, one clause for any where-predicate.       *)
(***************************************************************************)
EXTENDS RuleMatcher

MCResourceKind == {"IamRole", "S3Bucket"}
MCEdgeKind == {"References", "IamGrants"}
MCClause == {"write"}
MCRuleId == {"r1", "r2"}

-----------------------------------------------------------------------------
(* Graphs.                                                                 *)

Role == [kind |-> "IamRole", holds |-> {}]
OpenRole == [kind |-> "IamRole", holds |-> {"write"}]
Bucket == [kind |-> "S3Bucket", holds |-> {}]

Ref(s, d) == [src |-> s, dst |-> d, kind |-> "References", holds |-> {}]
Grant(s, d) == [src |-> s, dst |-> d, kind |-> "IamGrants", holds |-> {"write"}]

EdgeChoices == {Ref(s, d) : s \in 1..2, d \in 1..2} \cup {Grant(1, 2), Grant(2, 2)}

(* Every graph of two nodes and at most three of these edges: self-loops,  *)
(* parallel edges, two-cycles, unreachable nodes.                          *)
TwoNodeGraphs ==
    {[nodes |-> <<OpenRole, b>>, edges |-> es] :
        b \in {Bucket, Role}, es \in BoundedSeq(EdgeChoices, 3)}

(* A diamond with a tail, a three-cycle, a fan of parallel edges into a    *)
(* self-loop, and the empty graph.                                         *)
ShapedGraphs ==
    {[nodes |-> <<OpenRole, Role, Role, Bucket>>,
      edges |-> <<Ref(1, 2), Ref(1, 3), Ref(2, 4), Ref(3, 4), Grant(2, 4)>>],
     [nodes |-> <<OpenRole, Role, Bucket>>,
      edges |-> <<Ref(1, 2), Ref(2, 3), Ref(3, 1), Grant(1, 3)>>],
     [nodes |-> <<Role, Bucket, OpenRole>>,
      edges |-> <<Ref(1, 2), Ref(1, 2), Grant(1, 2), Ref(2, 2), Grant(3, 2)>>],
     [nodes |-> <<>>, edges |-> <<>>]}

-----------------------------------------------------------------------------
(* Rules.                                                                  *)

N(kind, where) == [tag |-> "node", kind |-> kind, where |-> where]
E(kind, where, lo, hi) ==
    [tag |-> "edge", kind |-> kind, where |-> where, min_hops |-> lo, max_hops |-> hi]
R(id, total, path) ==
    [id |-> id, severity_base |-> "high", max_total_hops |-> total, path |-> path]

AnyNode == N(AnyKind, {})
Bad == {Malformed}

(* A single node; one hop with both predicates; one to three hops under a  *)
(* tighter and under a looser total; a repeated step followed by another;  *)
(* no hop allowed; min_hops of zero.                                       *)
GoodRules ==
    {R("r1", 0, <<N("S3Bucket", {})>>),
     R("r1", 1, <<N("IamRole", {"write"}), E("IamGrants", {"write"}, 1, 1), N("S3Bucket", {})>>),
     R("r1", 2, <<N("IamRole", {}), E("References", {}, 1, 3), AnyNode>>),
     R("r1", 3, <<AnyNode, E("References", {}, 2, 3), N("S3Bucket", {})>>),
     R("r1", 3, <<N("IamRole", {}), E("References", {}, 1, 2), AnyNode,
                  E("References", {}, 1, 2), AnyNode>>),
     R("r1", 3, <<N("IamRole", {"write"}), E("References", {}, 1, 3), AnyNode,
                  E("IamGrants", {}, 1, 1), N("S3Bucket", {})>>),
     R("r1", 2, <<AnyNode, E("References", {}, 0, 2), N("IamRole", {})>>),
     R("r1", 1, <<AnyNode, E("References", {}, 0, 0), AnyNode>>)}

(* Predicates that do not parse, on the first node and on a later pair.    *)
BadRules ==
    {R("r2", 2, <<N("S3Bucket", Bad)>>),
     R("r2", 2, <<N("IamRole", {}), E("IamGrants", {}, 1, 1), AnyNode,
                  E("References", Bad, 1, 1), AnyNode>>),
     R("r2", 1, <<AnyNode, E("References", {}, 1, 1), N(AnyKind, Bad)>>)}

One == R("r2", 1, <<N("IamRole", {}), E("References", {}, 1, 1), AnyNode>>)

MCGraphs == TwoNodeGraphs \cup ShapedGraphs
MCRuleLists ==
    {<<r>> : r \in GoodRules} \cup {<<One, r>> : r \in BadRules}

=============================================================================
