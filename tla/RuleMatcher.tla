---------------------------- MODULE RuleMatcher ----------------------------
(***************************************************************************)
(* The rule matcher, policylens-rules/src/matcher.rs: run_rules, run_rule  *)
(* and walk_bounded_hops, one step at a time.                              *)
(*                                                                         *)
(* A rule's path is matched pair by pair.  The frontier holds the partial  *)
(* matches of the pairs handled so far; for each of them a bounded         *)
(* depth-first walk collects every chain of matching edges that starts     *)
(* where the partial match ends, and each chain that ends on a matching    *)
(* node becomes a partial match of the next frontier.  The recursion of    *)
(* the walk is a trail and a cursor here: the trail is the sequence of     *)
(* edges the recursive calls have pushed, the cursor is where the          *)
(* innermost call's loop over outgoing edges stands.  petgraph hands out   *)
(* the outgoing edges of a node from the last one added to the first.      *)
(***************************************************************************)
EXTENDS Walks

CONSTANTS
    Graphs,     \* the graphs the matcher may be given
    RuleLists   \* the lists of rules it may be given

(* load_dir rejects every path that does not alternate (module RuleLoad).  *)
ASSUME GraphsAssumption == \A g \in Graphs : IsGraph(g)
ASSUME RulesAssumption ==
    \A rs \in RuleLists :
        rs \in Seq(Rule) /\ \A i \in 1..Len(rs) : Alternates(rs[i].path)

VARIABLES
    graph,          \* the classified graph, never changed here
    rules,          \* the loaded rules, never changed here
    pc,             \* where in the nested loops the matcher is
    ri,             \* run_rules: the rule being run
    si,             \* run_rule: the pair of steps being handled
    frontier,       \* run_rule: partial matches before the pair
    fi,             \* run_rule: the node or partial match being handled
    next_frontier,  \* run_rule: partial matches after the pair
    trail,          \* walk_bounded_hops: the edges on the recursion stack
    cursor,         \* walk_bounded_hops: the innermost loop has this edge
                    \*   and the earlier ones still to look at
    results,        \* walk_bounded_hops: the chains collected
    findings        \* run_rules: the findings of the rules run so far

vars == <<graph, rules, pc, ri, si, frontier, fi, next_frontier, trail,
          cursor, results, findings>>

given == <<graph, rules>>
walk  == <<trail, cursor, results>>

-----------------------------------------------------------------------------

rule == rules[ri]
edge_step == EdgeStepOf(rule.path, si)
node_step == NodeStepOf(rule.path, si)
entry == frontier[fi]

Init ==
    /\ graph \in Graphs
    /\ rules \in RuleLists
    /\ pc = "rule"
    /\ ri = 1 /\ si = 1 /\ fi = 1
    /\ frontier = <<>> /\ next_frontier = <<>>
    /\ trail = <<>> /\ cursor = 0 /\ results = <<>>
    /\ findings = <<>>

-----------------------------------------------------------------------------
(* run_rules and the start of run_rule.                                    *)

(* compile_where panics on a predicate that does not parse.                *)
StartRule ==
    /\ pc = "rule" /\ ri <= Len(rules)
    /\ IF Parses(NodeStepOf(rule.path, 0).where)
       THEN pc' = "seed" /\ frontier' = <<>> /\ fi' = 1
       ELSE pc' = "panicked" /\ UNCHANGED <<frontier, fi>>
    /\ UNCHANGED <<given, ri, si, next_frontier, walk, findings>>

(* One node of the graph is offered to the first node step.                *)
SeedNode ==
    /\ pc = "seed" /\ fi <= Len(graph.nodes)
    /\ frontier' = IF NodeMatches(graph.nodes[fi], NodeStepOf(rule.path, 0))
                   THEN Append(frontier, [at |-> fi, ids |-> <<fi>>,
                                          edges |-> <<>>, hops |-> 0])
                   ELSE frontier
    /\ fi' = fi + 1
    /\ UNCHANGED <<given, pc, ri, si, next_frontier, walk, findings>>

SeedDone ==
    /\ pc = "seed" /\ fi > Len(graph.nodes)
    /\ si' = 1
    /\ pc' = IF PairCount(rule.path) = 0 THEN "emit" ELSE "pair"
    /\ UNCHANGED <<given, ri, frontier, fi, next_frontier, walk, findings>>

(* Both predicates of a pair are compiled before the frontier is looked at. *)
BeginPair ==
    /\ pc = "pair"
    /\ IF Parses(edge_step.where) /\ Parses(node_step.where)
       THEN pc' = "expand" /\ next_frontier' = <<>> /\ fi' = 1
       ELSE pc' = "panicked" /\ UNCHANGED <<next_frontier, fi>>
    /\ UNCHANGED <<given, ri, si, frontier, walk, findings>>

-----------------------------------------------------------------------------
(* walk_bounded_hops from the partial match at fi.                         *)

RemainingBudget(hops) == IF hops < rule.max_total_hops THEN rule.max_total_hops - hops ELSE 0

EffectiveMaxUnclamped(step, hops) == step.max_hops

EffectiveMax(step, hops) ==
    IF step.max_hops < RemainingBudget(hops) THEN step.max_hops ELSE RemainingBudget(hops)

effective_max == EffectiveMax(edge_step, entry.hops)

Push(out, t) == IF Len(t) >= edge_step.min_hops THEN Append(out, t) ELSE out

BeginWalk ==
    /\ pc = "expand" /\ fi <= Len(frontier)
    /\ IF effective_max = 0
       THEN fi' = fi + 1 /\ UNCHANGED <<pc, walk>>
       ELSE /\ pc' = "walk"
            /\ trail' = <<>> /\ cursor' = Len(graph.edges)
            /\ results' = Push(<<>>, <<>>)
            /\ UNCHANGED fi
    /\ UNCHANGED <<given, ri, si, frontier, next_frontier, findings>>

(* The outgoing edges the innermost call's loop has still to follow.       *)
Candidates ==
    {e \in 1..cursor :
        /\ graph.edges[e].src = Visited(graph, entry.at, trail, Len(trail))
        /\ EdgeMatches(graph.edges[e], edge_step)}

CanGoDeeper(t) == Len(t) < effective_max

Descend ==
    /\ pc = "walk" /\ CanGoDeeper(trail)
    /\ \E e \in Candidates :
          /\ \A f \in Candidates : f <= e
          /\ trail' = Append(trail, e)
          /\ results' = Push(results, Append(trail, e))
    /\ cursor' = Len(graph.edges)
    /\ UNCHANGED <<given, pc, ri, si, frontier, fi, next_frontier, findings>>

(* A call returns; its caller pops the edge and goes on with the next one. *)
ResumeAt(e) == e
ResumeAfter(e) == e - 1

Return ==
    /\ pc = "walk" /\ trail # <<>>
    /\ CanGoDeeper(trail) => Candidates = {}
    /\ trail' = SubSeq(trail, 1, Len(trail) - 1)
    /\ cursor' = ResumeAfter(trail[Len(trail)])
    /\ UNCHANGED <<given, pc, ri, si, frontier, fi, next_frontier, results, findings>>

WalkDone ==
    /\ pc = "walk" /\ trail = <<>>
    /\ CanGoDeeper(trail) => Candidates = {}
    /\ pc' = "collect"
    /\ UNCHANGED <<given, ri, si, frontier, fi, next_frontier, walk, findings>>

-----------------------------------------------------------------------------
(* The results of the walk become partial matches of the next frontier.    *)

Reached(t) == Visited(graph, entry.at, t, Len(t))

(* retain drops the empty chain, which the walk collects when min_hops = 0. *)
KeptWithoutRetain(t) == NodeMatches(graph.nodes[Reached(t)], node_step)
KeptWithoutNodeCheck(t) == t # <<>>
Kept(t) == t # <<>> /\ NodeMatches(graph.nodes[Reached(t)], node_step)

Extended(t) ==
    [at    |-> Reached(t),
     ids   |-> Append(entry.ids, Reached(t)),
     edges |-> entry.edges \o t,
     hops  |-> entry.hops + Len(t)]

TakeResult ==
    /\ pc = "collect" /\ results # <<>>
    /\ next_frontier' = IF Kept(Head(results))
                        THEN Append(next_frontier, Extended(Head(results)))
                        ELSE next_frontier
    /\ results' = Tail(results)
    /\ UNCHANGED <<given, pc, ri, si, frontier, fi, trail, cursor, findings>>

CollectDone ==
    /\ pc = "collect" /\ results = <<>>
    /\ pc' = "expand"
    /\ fi' = fi + 1
    /\ UNCHANGED <<given, ri, si, frontier, next_frontier, walk, findings>>

IsLastPairLate == si > PairCount(rule.path)
IsLastPair == si = PairCount(rule.path)

EndPair ==
    /\ pc = "expand" /\ fi > Len(frontier)
    /\ frontier' = next_frontier
    /\ IF next_frontier = <<>> \/ IsLastPair
       THEN pc' = "emit" /\ UNCHANGED si
       ELSE pc' = "pair" /\ si' = si + 1
    /\ UNCHANGED <<given, ri, fi, next_frontier, walk, findings>>

-----------------------------------------------------------------------------
(* The end of run_rule and of run_rules.                                   *)

FindingFrom(m) == [rule_id |-> rule.id, node_ids |-> m.ids, edges |-> m.edges]

EmitFindings ==
    /\ pc = "emit"
    /\ findings' = findings \o [i \in 1..Len(frontier) |-> FindingFrom(frontier[i])]
    /\ ri' = ri + 1
    /\ pc' = "rule"
    /\ UNCHANGED <<given, si, frontier, fi, next_frontier, walk>>

AllRulesRun ==
    /\ pc = "rule" /\ ri > Len(rules)
    /\ pc' = "done"
    /\ UNCHANGED <<given, ri, si, frontier, fi, next_frontier, walk, findings>>

Next ==
    \/ StartRule \/ SeedNode \/ SeedDone \/ BeginPair
    \/ BeginWalk \/ Descend \/ Return \/ WalkDone
    \/ TakeResult \/ CollectDone \/ EndPair
    \/ EmitFindings \/ AllRulesRun

(* One thread runs the matcher to its end.                                 *)
Spec == Init /\ [][Next]_vars /\ WF_vars(Next)

-----------------------------------------------------------------------------
(* Properties.                                                             *)

PartialMatch == [at : Nat, ids : Seq(Nat), edges : Seq(Nat), hops : Nat]
Finding == [rule_id : RuleId, node_ids : Seq(Nat), edges : Seq(Nat)]

(* The variables have the types of the locals of run_rules, run_rule and   *)
(* walk_bounded_hops, and the positions stay inside what they index.       *)
TypeOK ==
    /\ graph \in Graphs
    /\ rules \in RuleLists
    /\ pc \in {"rule", "seed", "pair", "expand", "walk", "collect", "emit", "done", "panicked"}
    /\ ri \in 1..(Len(rules) + 1)
    /\ si \in Nat \ {0}
    /\ fi \in Nat \ {0}
    /\ pc \notin {"rule", "done"} => ri <= Len(rules)
    /\ pc \in {"pair", "expand", "walk", "collect"} => si <= PairCount(rule.path)
    /\ pc \in {"walk", "collect"} => fi <= Len(frontier)
    /\ frontier \in Seq(PartialMatch)
    /\ next_frontier \in Seq(PartialMatch)
    /\ trail \in Seq(1..Len(graph.edges))
    /\ cursor \in 0..Len(graph.edges)
    /\ results \in Seq(Seq(1..Len(graph.edges)))
    /\ findings \in Seq(Finding)

(* The cap of max_total_hops holds before a chain is extended, for every   *)
(* partial match and for the chain the walk stands on, whatever the edge   *)
(* steps' own max_hops say: line 9 of matcher.rs.                          *)
HopBudget ==
    pc \in {"pair", "expand", "walk", "collect", "emit"} =>
        /\ \A i \in 1..Len(frontier) :
              /\ frontier[i].hops = Len(frontier[i].edges)
              /\ frontier[i].hops <= rule.max_total_hops
        /\ pc = "walk" => entry.hops + Len(trail) <= rule.max_total_hops

Conforms(f) ==
    \E r \in 1..Len(rules) :
        /\ f.rule_id = rules[r].id
        /\ Len(f.edges) <= rules[r].max_total_hops
        /\ \E cut \in Cuts(PairCount(rules[r].path), f.edges) :
              Satisfies(graph, rules[r].path, PairCount(rules[r].path),
                        f.node_ids, f.edges, cut)

(* Every finding is a real chain: its edges are connected, in order, start *)
(* at the first node reported, and divide into the path's edge steps, each *)
(* within its hop bounds and of its kind and predicate, with the reported  *)
(* nodes at the divisions accepted by the path's node steps.               *)
FindingsConform == \A i \in 1..Len(findings) : Conforms(findings[i])

PS == INSTANCE PathSearch WITH
        found  <- ToBag(findings),
        status <- IF pc \in {"done", "panicked"} THEN pc ELSE "running"

(* The matcher finds exactly the chains the abstract search promises, each *)
(* as often as it satisfies the path, and panics exactly when it says.     *)
ImplementsPathSearch == PS!Spec

(* Cycles, self-loops and parallel edges never keep the search from ending. *)
Termination == <>(pc \in {"done", "panicked"})

=============================================================================
