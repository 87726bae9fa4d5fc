----------------------------- MODULE PathSearch -----------------------------
(***************************************************************************)
(* What the rule matcher promises: for each rule, in the order the rules   *)
(* were loaded, one finding per way of laying the rule's path over the     *)
(* graph, no more and no fewer.  A search is not described at all: the     *)
(* findings of a rule appear in one step, as a bag, because one chain of   *)
(* edges can satisfy a path with repeated edge steps in several ways and   *)
(* is then reported once for each.                                         *)
(*                                                                         *)
(* A rule whose where-predicate does not parse aborts the scan, but only   *)
(* if the search gets as far as the step that carries the predicate.       *)
(***************************************************************************)
EXTENDS Walks

CONSTANTS Graphs, RuleLists

VARIABLES
    graph,      \* the classified graph
    rules,      \* the loaded rules
    ri,         \* the rule whose turn it is
    found,      \* the bag of findings so far
    status      \* "running", "done" or "panicked"

vars == <<graph, rules, ri, found, status>>

-----------------------------------------------------------------------------

(* The predicates of pair k are compiled only when some partial match has  *)
(* survived the pairs before it; those of the first pair always are.       *)
PairReached(g, rule, k) == k = 1 \/ Walks(g, rule, k - 1) # {}

PairParses(path, k) == Parses(EdgeStepOf(path, k).where) /\ Parses(NodeStepOf(path, k).where)

Panics(g, rule) ==
    \/ ~Parses(NodeStepOf(rule.path, 0).where)
    \/ \E k \in 1..PairCount(rule.path) :
          ~PairParses(rule.path, k) /\ PairReached(g, rule, k)

-----------------------------------------------------------------------------

Init ==
    /\ graph \in Graphs
    /\ rules \in RuleLists
    /\ ri = 1
    /\ found = EmptyBag
    /\ status = "running"

RunRule ==
    /\ status = "running" /\ ri <= Len(rules)
    /\ ri' = ri + 1
    /\ ~Panics(graph, rules[ri])
    /\ found' = found (+) FindingBag(graph, rules[ri])
    /\ UNCHANGED <<graph, rules, status>>

Panic ==
    /\ status = "running" /\ ri <= Len(rules)
    /\ status' = "panicked"
    /\ Panics(graph, rules[ri])
    /\ UNCHANGED <<graph, rules, ri, found>>

Finish ==
    /\ status = "running" /\ ri > Len(rules)
    /\ status' = "done"
    /\ UNCHANGED <<graph, rules, ri, found>>

Next == RunRule \/ Panic \/ Finish

Spec == Init /\ [][Next]_vars

=============================================================================
