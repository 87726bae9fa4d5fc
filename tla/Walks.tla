------------------------------- MODULE Walks -------------------------------
(***************************************************************************)
(* Walks over the resource graph, and what it means that a walk satisfies  *)
(* a rule.  Nothing here follows the matcher's algorithm: this module is   *)
(* the yardstick the matcher and the report are measured with.             *)
(***************************************************************************)
EXTENDS RuleModel, FiniteSets, SequencesExt

-----------------------------------------------------------------------------

(* The node a walk from `from` along `edges` stands on after j edges.      *)
Visited(g, from, edges, j) ==
    IF j = 0 THEN from ELSE g.edges[edges[j]].dst

IsTrail(g, from, edges) ==
    \A j \in 1..Len(edges) :
        /\ edges[j] \in 1..Len(g.edges)
        /\ g.edges[edges[j]].src = Visited(g, from, edges, j - 1)

(* The edges i+1..j of a walk are one repeated edge step of the path.      *)
IsSegment(g, edges, i, j, step) ==
    /\ j - i >= 1
    /\ j - i >= step.min_hops
    /\ j - i <= step.max_hops
    /\ \A n \in (i + 1)..j : EdgeMatches(g.edges[edges[n]], step)

(* The walk along `edges` satisfies the first k pairs of the path, `cut`   *)
(* saying after how many edges the walk passes from one edge step of the   *)
(* path to the next and `ids` the nodes it is at there.                    *)
Satisfies(g, path, k, ids, edges, cut) ==
    /\ cut[0] = 0
    /\ cut[k] = Len(edges)
    /\ Len(ids) = k + 1
    /\ ids[1] \in 1..Len(g.nodes)
    /\ IsTrail(g, ids[1], edges)
    /\ \A i \in 0..k :
          /\ ids[i + 1] = Visited(g, ids[1], edges, cut[i])
          /\ NodeMatches(g.nodes[ids[i + 1]], NodeStepOf(path, i))
    /\ \A i \in 1..k :
          IsSegment(g, edges, cut[i - 1], cut[i], EdgeStepOf(path, i))

Cuts(k, edges) == [0..k -> 0..Len(edges)]

-----------------------------------------------------------------------------
(* All the walks that satisfy a rule, and the findings they stand for.     *)

WalkIds(g, start, edges, cut, k) ==
    [i \in 1..(k + 1) |-> Visited(g, start, edges, cut[i - 1])]

(* The connected chains of exactly n edges that start at a node.           *)
Trails(g, start, n) ==
    LET trails[m \in 0..n] ==
            IF m = 0 THEN {<<>>}
            ELSE UNION {{Append(t, e) : e \in {d \in DOMAIN g.edges :
                                g.edges[d].src = Visited(g, start, t, m - 1)}}
                        : t \in trails[m - 1]}
    IN  trails[n]

(* The walks of at most max_total_hops edges that satisfy the first k      *)
(* pairs of the rule's path, with every way to cut them into steps.        *)
Walks(g, rule, k) ==
    LET trails(start) == UNION {Trails(g, start, n) : n \in 0..rule.max_total_hops}
        cutsOf(start, edges) ==
            {cut \in Cuts(k, edges) :
                Satisfies(g, rule.path, k, WalkIds(g, start, edges, cut, k), edges, cut)}
    IN  UNION {UNION {{[ids   |-> WalkIds(g, start, edges, cut, k),
                        edges |-> edges, cut |-> cut] : cut \in cutsOf(start, edges)}
                      : edges \in trails(start)} : start \in DOMAIN g.nodes}

FindingOf(rule, w) == [rule_id |-> rule.id, node_ids |-> w.ids, edges |-> w.edges]

FindingBag(g, rule) ==
    LET walks == Walks(g, rule, PairCount(rule.path))
    IN  [f \in {FindingOf(rule, w) : w \in walks} |->
            Cardinality({w \in walks : FindingOf(rule, w) = f})]

=============================================================================
