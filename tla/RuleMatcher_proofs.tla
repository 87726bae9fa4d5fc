------------------------- MODULE RuleMatcher_proofs -------------------------
(***************************************************************************)
(* Proofs about the rule matcher for every graph, every list of rules and  *)
(* every choice of kinds and clauses that satisfy the assumptions of       *)
(* modules RuleModel and RuleMatcher.                                      *)
(***************************************************************************)
EXTENDS RuleMatcher, SeqLemmas, SequenceTheorems, TLAPS

(* The rule being run is a rule, its path alternates, and so the steps of  *)
(* every pair are an edge step and a node step.                            *)
LEMMA RuleFacts ==
    ASSUME rules \in RuleLists, ri \in 1..Len(rules)
    PROVE  /\ rule \in Rule
           /\ rule.max_total_hops \in Nat
           /\ rule.id \in RuleId
           /\ PairCount(rule.path) \in Nat
           /\ \A j \in 1..PairCount(rule.path) :
                 /\ EdgeStepOf(rule.path, j) \in EdgeStep
                 /\ EdgeStepOf(rule.path, j).min_hops \in Nat
                 /\ EdgeStepOf(rule.path, j).max_hops \in Nat
<1>1. rule \in Rule /\ Alternates(rule.path)
  BY RulesAssumption DEF rule
<1>2. rule.path \in Seq(PathStep) /\ rule.max_total_hops \in Nat /\ rule.id \in RuleId
  BY <1>1 DEF Rule
<1>3. Len(rule.path) \in Nat /\ Len(rule.path) = 2 * PairCount(rule.path) + 1
  BY <1>1, <1>2, LenProperties DEF Alternates
<1>4. PairCount(rule.path) \in Int
  BY <1>3 DEF PairCount
<1>5. PairCount(rule.path) \in Nat
  BY <1>3, <1>4
<1>6. \A j \in 1..PairCount(rule.path) : EdgeStepOf(rule.path, j) \in EdgeStep
  BY <1>1 DEF Alternates
<1> QED
  BY <1>1, <1>2, <1>5, <1>6 DEF EdgeStep

(* Edges of the graph run between nodes of the graph.                      *)
LEMMA GraphFacts ==
    ASSUME graph \in Graphs
    PROVE  /\ Len(graph.nodes) \in Nat
           /\ Len(graph.edges) \in Nat
           /\ \A e \in 1..Len(graph.edges) : graph.edges[e].dst \in Nat
<1>1. IsGraph(graph)
  BY GraphsAssumption
<1>2. graph.nodes \in Seq(NodeWeight) /\ graph.edges \in Seq(EdgeWeight)
  BY <1>1 DEF IsGraph
<1>3. \A e \in 1..Len(graph.edges) : graph.edges[e] \in EdgeWeight
  BY <1>2, ElementOfSeq
<1> QED
  BY <1>2, <1>3, LenProperties DEF EdgeWeight

-----------------------------------------------------------------------------
(* Type correctness.                                                       *)

(* What a partial match becomes when a chain is added to it has the type   *)
(* of a partial match.                                                     *)
LEMMA ExtendedType ==
    ASSUME TypeOK, pc \in {"walk", "collect"},
           NEW t \in Seq(1..Len(graph.edges))
    PROVE  Reached(t) \in Nat /\ Extended(t) \in PartialMatch
<1>1. /\ entry \in PartialMatch
      /\ Len(graph.edges) \in Nat
      /\ \A e \in 1..Len(graph.edges) : graph.edges[e].dst \in Nat
  BY GraphFacts, ElementOfSeq DEF TypeOK, entry
<1>2. /\ entry.at \in Nat /\ entry.ids \in Seq(Nat)
      /\ entry.edges \in Seq(Nat) /\ entry.hops \in Nat
  BY <1>1 DEF PartialMatch
<1>3. Len(t) \in Nat /\ t \in Seq(Nat)
  BY <1>1, SeqMonotonic, LenProperties
<1>4. Reached(t) \in Nat
  <2>1. CASE Len(t) = 0
    BY <2>1, <1>2 DEF Reached, Visited
  <2>2. CASE Len(t) # 0
    BY <2>2, <1>1, <1>3, ElementOfSeq DEF Reached, Visited
  <2> QED BY <2>1, <2>2
<1>5. Append(entry.ids, Reached(t)) \in Seq(Nat)
  BY <1>2, <1>4, AppendProperties
<1>6. entry.edges \o t \in Seq(Nat)
  BY <1>2, <1>3, ConcatProperties
<1>7. entry.hops + Len(t) \in Nat
  BY <1>2, <1>3
<1> QED
  BY <1>4, <1>5, <1>6, <1>7 DEF Extended, PartialMatch

LEMMA FindingType ==
    ASSUME TypeOK, pc = "emit", NEW j \in 1..Len(frontier)
    PROVE  FindingFrom(frontier[j]) \in Finding
<1>1. frontier[j] \in PartialMatch
  BY ElementOfSeq DEF TypeOK
<1>2. rule.id \in RuleId
  BY RuleFacts DEF TypeOK
<1> QED
  BY <1>1, <1>2 DEF FindingFrom, Finding, PartialMatch

LEMMA TypeInit == Init => TypeOK
<1> SUFFICES ASSUME Init PROVE TypeOK
  OBVIOUS
<1>1. rules \in Seq(Rule)
  BY RulesAssumption DEF Init
<1>2. 1 \in 1..(Len(rules) + 1)
  BY <1>1, LenProperties
<1>3. 0 \in 0..Len(graph.edges)
  BY GraphFacts DEF Init
<1> QED
  BY <1>2, <1>3, EmptySeq DEF Init, TypeOK

LEMMA TypeStep == TypeOK /\ [Next]_vars => TypeOK'
<1> SUFFICES ASSUME TypeOK, [Next]_vars PROVE TypeOK'
  OBVIOUS
<1>0. Len(rules) \in Nat /\ Len(frontier) \in Nat /\ Len(graph.edges) \in Nat
  BY RulesAssumption, GraphFacts, LenProperties DEF TypeOK
<1>1. CASE StartRule
  <2>1. /\ frontier' \in Seq(PartialMatch) /\ fi' \in Nat \ {0}
        /\ pc' \in {"seed", "panicked"}
    <3>1. <<>> \in Seq(PartialMatch)
      BY EmptySeq
    <3>2. CASE Parses(NodeStepOf(rule.path, 0).where)
      BY <1>1, <3>1, <3>2 DEF StartRule
    <3>3. CASE ~Parses(NodeStepOf(rule.path, 0).where)
      BY <1>1, <3>3 DEF StartRule, TypeOK
    <3> QED
      BY <3>2, <3>3
  <2>2. /\ ri <= Len(rules)
        /\ UNCHANGED <<graph, rules, ri, si, next_frontier, trail, cursor, results, findings>>
    BY <1>1 DEF StartRule, given, walk
  <2> QED
    BY <2>1, <2>2 DEF TypeOK
<1>2. CASE SeedNode
  <2>1. fi \in Nat /\ fi + 1 \in Nat \ {0}
    BY DEF TypeOK
  <2>2. <<fi>> \in Seq(Nat) /\ <<>> \in Seq(Nat)
    BY <2>1, EmptySeq
  <2>3. [at |-> fi, ids |-> <<fi>>, edges |-> <<>>, hops |-> 0] \in PartialMatch
    BY <2>1, <2>2 DEF PartialMatch
  <2>4. frontier' \in Seq(PartialMatch)
    BY <1>2, <2>3, AppendProperties DEF SeedNode, TypeOK
  <2> QED
    BY <1>2, <2>1, <2>4 DEF SeedNode, TypeOK, given, walk, rule
<1>3. CASE SeedDone
  <2>1. PairCount(rule.path) \in Nat
    BY <1>3, RuleFacts DEF SeedDone, TypeOK
  <2> QED
    BY <1>3, <2>1 DEF SeedDone, TypeOK, given, walk, rule
<1>4. CASE BeginPair
  <2>1. /\ next_frontier' \in Seq(PartialMatch) /\ fi' \in Nat \ {0}
        /\ pc' \in {"expand", "panicked"}
    <3>1. <<>> \in Seq(PartialMatch)
      BY EmptySeq
    <3>2. CASE Parses(edge_step.where) /\ Parses(node_step.where)
      BY <1>4, <3>1, <3>2 DEF BeginPair
    <3>3. CASE ~(Parses(edge_step.where) /\ Parses(node_step.where))
      BY <1>4, <3>3 DEF BeginPair, TypeOK
    <3> QED
      BY <3>2, <3>3
  <2>2. /\ pc = "pair"
        /\ UNCHANGED <<graph, rules, ri, si, frontier, trail, cursor, results, findings>>
    BY <1>4 DEF BeginPair, given, walk
  <2> QED
    BY <2>1, <2>2 DEF TypeOK, rule
<1>5. CASE BeginWalk
  <2>1. fi + 1 \in Nat \ {0}
    BY DEF TypeOK
  <2>2. <<>> \in Seq(1..Len(graph.edges)) /\ <<>> \in Seq(Seq(1..Len(graph.edges)))
    BY EmptySeq
  <2>3. Push(<<>>, <<>>) \in Seq(Seq(1..Len(graph.edges)))
    BY <2>2, AppendProperties DEF Push
  <2> QED
    <3>1. /\ pc = "expand" /\ fi <= Len(frontier)
          /\ UNCHANGED <<graph, rules, ri, si, frontier, next_frontier, findings>>
      BY <1>5 DEF BeginWalk, given
    <3>2. CASE effective_max = 0
      BY <1>5, <2>1, <3>1, <3>2 DEF BeginWalk, TypeOK, walk, rule
    <3>3. CASE effective_max # 0
      <4>1. /\ pc' = "walk" /\ fi' = fi /\ trail' = <<>>
            /\ cursor' = Len(graph.edges) /\ results' = Push(<<>>, <<>>)
        BY <1>5, <3>3 DEF BeginWalk
      <4> QED
        BY <1>0, <2>2, <2>3, <3>1, <4>1 DEF TypeOK, rule
    <3> QED
      BY <3>2, <3>3
<1>6. CASE Descend
  <2>1. PICK e \in Candidates : trail' = Append(trail, e) /\ results' = Push(results, Append(trail, e))
    BY <1>6 DEF Descend
  <2>2. e \in 1..Len(graph.edges)
    BY <1>0, <2>1 DEF Candidates, TypeOK
  <2>3. Append(trail, e) \in Seq(1..Len(graph.edges))
    BY <2>2, AppendProperties DEF TypeOK
  <2>4. Push(results, Append(trail, e)) \in Seq(Seq(1..Len(graph.edges)))
    BY <2>3, AppendProperties DEF Push, TypeOK
  <2> QED
    BY <1>0, <1>6, <2>1, <2>3, <2>4 DEF Descend, TypeOK, given, rule
<1>7. CASE Return
  <2>1. trail \in Seq(1..Len(graph.edges)) /\ trail # <<>>
    BY <1>7 DEF Return, TypeOK
  <2>2. Len(trail) \in Nat /\ Len(trail) \in 1..Len(trail) /\ Len(trail) - 1 \in 0..Len(trail)
    BY <2>1, LenProperties, EmptySeq
  <2>3. SubSeq(trail, 1, Len(trail) - 1) \in Seq(1..Len(graph.edges))
    BY <2>1, <2>2, SubSeqProperties
  <2>4. trail[Len(trail)] \in 1..Len(graph.edges)
    BY <2>1, <2>2, ElementOfSeq
  <2>5. ResumeAfter(trail[Len(trail)]) \in 0..Len(graph.edges)
    BY <1>0, <2>4 DEF ResumeAfter
  <2> QED
    BY <1>7, <2>3, <2>5 DEF Return, TypeOK, given, rule
<1>8. CASE WalkDone
  BY <1>8 DEF WalkDone, TypeOK, given, walk, rule
<1>9. CASE TakeResult
  <2>1. /\ Head(results) \in Seq(1..Len(graph.edges))
        /\ Tail(results) \in Seq(Seq(1..Len(graph.edges)))
    BY <1>9, HeadTailProperties DEF TakeResult, TypeOK
  <2>2. Extended(Head(results)) \in PartialMatch
    BY <1>9, <2>1, ExtendedType DEF TakeResult
  <2>3. next_frontier' \in Seq(PartialMatch)
    BY <1>9, <2>2, AppendProperties DEF TakeResult, TypeOK
  <2> QED
    BY <1>9, <2>1, <2>3 DEF TakeResult, TypeOK, given, rule
<1>10. CASE CollectDone
  BY <1>10 DEF CollectDone, TypeOK, given, walk, rule
<1>11. CASE EndPair
  <2>1. PairCount(rule.path) \in Nat
    BY <1>11, RuleFacts DEF EndPair, TypeOK
  <2> QED
    BY <1>11, <2>1 DEF EndPair, IsLastPair, TypeOK, given, walk, rule
<1>12. CASE EmitFindings
  <2>1. [j \in 1..Len(frontier) |-> FindingFrom(frontier[j])] \in Seq(Finding)
    BY <1>0, <1>12, FindingType, IsASeq DEF EmitFindings
  <2>2. findings' \in Seq(Finding)
    BY <1>12, <2>1, ConcatProperties DEF EmitFindings, TypeOK
  <2>3. ri + 1 \in 1..(Len(rules) + 1)
    BY <1>0, <1>12 DEF EmitFindings, TypeOK
  <2> QED
    BY <1>12, <2>2, <2>3 DEF EmitFindings, TypeOK, given, walk
<1>13. CASE AllRulesRun
  BY <1>13 DEF AllRulesRun, TypeOK, given, walk
<1>14. CASE UNCHANGED vars
  BY <1>14 DEF vars, TypeOK, rule
<1> QED
  BY <1>1, <1>2, <1>3, <1>4, <1>5, <1>6, <1>7, <1>8, <1>9, <1>10, <1>11,
     <1>12, <1>13, <1>14 DEF Next

(* Every reachable state of the matcher is well typed, and its loop        *)
(* positions stay within what they index, for any graph and any rules.     *)
THEOREM TypeCorrect == Spec => []TypeOK
  BY TypeInit, TypeStep, PTL DEF Spec

-----------------------------------------------------------------------------
(* The inductive invariant behind HopBudget and FindingsConform.           *)

(* A partial match of the first j pairs of rule r: its chain satisfies     *)
(* them, ends where the match stands and is within the rule's total.       *)
PartialOK(g, r, m, j) ==
    /\ m.hops = Len(m.edges)
    /\ m.hops <= r.max_total_hops
    /\ Len(m.ids) = j + 1
    /\ m.at = m.ids[j + 1]
    /\ \E cut \in Cuts(j, m.edges) : Satisfies(g, r.path, j, m.ids, m.edges, cut)

AllPartialOK(g, r, ms, j) == \A i \in 1..Len(ms) : PartialOK(g, r, ms[i], j)

(* A chain a walk may hold: connected from where the walk started, every   *)
(* edge accepted by the edge step, no longer than the walk's bound.        *)
ChainOK(g, from, step, max, t) ==
    /\ IsTrail(g, from, t)
    /\ \A n \in 1..Len(t) : EdgeMatches(g.edges[t[n]], step)
    /\ Len(t) <= max

FrontierOK ==
    /\ pc = "seed" => AllPartialOK(graph, rule, frontier, 0)
    /\ pc \in {"pair", "expand", "walk", "collect"} =>
          AllPartialOK(graph, rule, frontier, si - 1)
    /\ pc = "emit" => AllPartialOK(graph, rule, frontier, PairCount(rule.path))

NextFrontierOK ==
    pc \in {"expand", "walk", "collect"} => AllPartialOK(graph, rule, next_frontier, si)

WalkOK ==
    /\ pc = "walk" => ChainOK(graph, entry.at, edge_step, effective_max, trail)
    /\ pc \in {"walk", "collect"} =>
          \A j \in 1..Len(results) :
             /\ ChainOK(graph, entry.at, edge_step, effective_max, results[j])
             /\ Len(results[j]) >= edge_step.min_hops

IInv == TypeOK /\ FrontierOK /\ NextFrontierOK /\ WalkOK /\ FindingsConform

-----------------------------------------------------------------------------
(* Adding a chain of one edge step to a partial match.                     *)

(* The division of a walk into j steps, with one more step that ends after *)
(* n edges.                                                                *)
LongerCut(cut, j, n) == [i \in 0..(j + 1) |-> IF i = j + 1 THEN n ELSE cut[i]]

LEMMA ExtendSatisfies ==
    ASSUME NEW g, IsGraph(g), NEW path, NEW j \in Nat,
           NEW m \in PartialMatch, Len(m.ids) = j + 1, m.at = m.ids[j + 1],
           NEW cut \in Cuts(j, m.edges), Satisfies(g, path, j, m.ids, m.edges, cut),
           NEW t \in Seq(1..Len(g.edges)), t # <<>>, IsTrail(g, m.at, t),
           EdgeStepOf(path, j + 1).min_hops \in Nat,
           EdgeStepOf(path, j + 1).max_hops \in Nat,
           Len(t) >= EdgeStepOf(path, j + 1).min_hops,
           Len(t) <= EdgeStepOf(path, j + 1).max_hops,
           \A n \in 1..Len(t) : EdgeMatches(g.edges[t[n]], EdgeStepOf(path, j + 1)),
           NodeMatches(g.nodes[Visited(g, m.at, t, Len(t))], NodeStepOf(path, j + 1))
    PROVE  LET ids == Append(m.ids, Visited(g, m.at, t, Len(t)))
               cut2 == LongerCut(cut, j, Len(m.edges \o t))
           IN  /\ cut2 \in Cuts(j + 1, m.edges \o t)
               /\ Satisfies(g, path, j + 1, ids, m.edges \o t, cut2)
<1> DEFINE es == m.edges \o t
           r == Visited(g, m.at, t, Len(t))
           is == Append(m.ids, r)
           cut2 == LongerCut(cut, j, Len(es))
<1>1. /\ m.edges \in Seq(Nat) /\ m.ids \in Seq(Nat) /\ m.at \in Nat
      /\ Len(m.edges) \in Nat
  BY LenProperties DEF PartialMatch
<1>2. /\ Len(g.edges) \in Nat
      /\ \A e \in 1..Len(g.edges) : g.edges[e].dst \in Nat
  <2>1. g.edges \in Seq(EdgeWeight)
    BY DEF IsGraph
  <2>2. \A e \in 1..Len(g.edges) : g.edges[e] \in EdgeWeight
    BY <2>1, ElementOfSeq
  <2> QED BY <2>1, <2>2, LenProperties DEF EdgeWeight
<1>3. /\ t \in Seq(Nat) /\ Len(t) \in Nat /\ Len(t) >= 1
      /\ \A n \in 1..Len(t) : t[n] \in 1..Len(g.edges)
  <2>1. Len(t) \in Nat \ {0}
    BY EmptySeq
  <2>2. \A n \in 1..Len(t) : t[n] \in 1..Len(g.edges)
    BY ElementOfSeq
  <2>3. t \in Seq(Nat)
    BY <1>2, SeqMonotonic
  <2> QED BY <2>1, <2>2, <2>3
<1>4. r \in Nat
  BY <1>2, <1>3 DEF Visited
<1>5. /\ Len(es) = Len(m.edges) + Len(t)
      /\ \A i \in 1..Len(m.edges) : es[i] = m.edges[i]
      /\ \A n \in 1..Len(t) : es[Len(m.edges) + n] = t[n]
  BY <1>1, <1>3, ConcatProperties
<1>6. /\ Len(is) = j + 2
      /\ \A i \in 1..(j + 1) : is[i] = m.ids[i]
      /\ is[j + 2] = r
  BY <1>1, <1>4, AppendProperties
<1>7. /\ cut[0] = 0 /\ cut[j] = Len(m.edges)
      /\ m.ids[1] \in 1..Len(g.nodes)
      /\ IsTrail(g, m.ids[1], m.edges)
      /\ \A i \in 0..j :
            /\ m.ids[i + 1] = Visited(g, m.ids[1], m.edges, cut[i])
            /\ NodeMatches(g.nodes[m.ids[i + 1]], NodeStepOf(path, i))
      /\ \A i \in 1..j : IsSegment(g, m.edges, cut[i - 1], cut[i], EdgeStepOf(path, i))
  BY DEF Satisfies
<1>8. \A i \in 0..j : cut[i] \in 0..Len(m.edges)
  BY DEF Cuts
<1>10. /\ cut2[j + 1] = Len(es)
       /\ \A i \in 0..j : cut2[i] = cut[i]
  BY DEF LongerCut
<1>9. cut2 \in Cuts(j + 1, es)
  <2> HIDE DEF es
  <2>1. ASSUME NEW i \in 0..(j + 1)
        PROVE  (IF i = j + 1 THEN Len(es) ELSE cut[i]) \in 0..Len(es)
    <3>1. CASE i = j + 1
      BY <3>1, <1>1, <1>3, <1>5
    <3>2. CASE i # j + 1
      <4>1. i \in 0..j
        BY <3>2
      <4> QED BY <4>1, <3>2, <1>1, <1>3, <1>5, <1>8
    <3> QED BY <3>1, <3>2
  <2> QED BY <2>1 DEF Cuts, LongerCut
<1> HIDE DEF es, is, cut2
<1>11. m.at = Visited(g, m.ids[1], m.edges, Len(m.edges))
  BY <1>7
<1>12. is[1] = m.ids[1]
  BY <1>6
<1>13. \A i \in 0..Len(m.edges) : Visited(g, is[1], es, i) = Visited(g, m.ids[1], m.edges, i)
  <2> SUFFICES ASSUME NEW i \in 0..Len(m.edges)
               PROVE  Visited(g, is[1], es, i) = Visited(g, m.ids[1], m.edges, i)
    OBVIOUS
  <2>1. CASE i = 0
    BY <2>1, <1>12 DEF Visited
  <2>2. CASE i # 0
    <3>1. i \in 1..Len(m.edges)
      BY <2>2, <1>1
    <3> QED BY <3>1, <2>2, <1>5 DEF Visited
  <2> QED BY <2>1, <2>2
<1>14. \A n \in 0..Len(t) : Visited(g, is[1], es, Len(m.edges) + n) = Visited(g, m.at, t, n)
  <2> SUFFICES ASSUME NEW n \in 0..Len(t)
               PROVE  Visited(g, is[1], es, Len(m.edges) + n) = Visited(g, m.at, t, n)
    OBVIOUS
  <2>1. CASE n = 0
    <3>1. Len(m.edges) + n = Len(m.edges) /\ Len(m.edges) \in 0..Len(m.edges)
      BY <2>1, <1>1
    <3>2. Visited(g, m.at, t, n) = m.at
      BY <2>1 DEF Visited
    <3> QED BY <3>1, <3>2, <1>11, <1>13
  <2>2. CASE n # 0
    <3>1. n \in 1..Len(t) /\ Len(m.edges) + n # 0
      BY <2>2, <1>1, <1>3
    <3>2. es[Len(m.edges) + n] = t[n]
      BY <3>1, <1>5
    <3> QED BY <3>1, <3>2, <2>2 DEF Visited
  <2> QED BY <2>1, <2>2
<1>15. IsTrail(g, is[1], es)
  <2> SUFFICES ASSUME NEW q \in 1..Len(es)
               PROVE  /\ es[q] \in 1..Len(g.edges)
                      /\ g.edges[es[q]].src = Visited(g, is[1], es, q - 1)
    BY DEF IsTrail
  <2>1. CASE q <= Len(m.edges)
    <3>1. q \in 1..Len(m.edges) /\ q - 1 \in 0..Len(m.edges)
      BY <2>1, <1>1, <1>3, <1>5
    <3> QED BY <3>1, <1>5, <1>7, <1>13 DEF IsTrail
  <2>2. CASE q > Len(m.edges)
    <3>1. PICK n \in 1..Len(t) : q = Len(m.edges) + n
      <4>1. q - Len(m.edges) \in 1..Len(t)
        BY <2>2, <1>1, <1>3, <1>5
      <4> QED BY <4>1, <1>1, <1>3
    <3>2. n - 1 \in 0..Len(t) /\ q - 1 = Len(m.edges) + (n - 1)
      BY <3>1, <1>1, <1>3
    <3>3. es[q] = t[n]
      BY <3>1, <1>5
    <3>4. g.edges[t[n]].src = Visited(g, m.at, t, n - 1)
      BY <3>1 DEF IsTrail
    <3>5. Visited(g, is[1], es, q - 1) = Visited(g, m.at, t, n - 1)
      BY <3>2, <1>14
    <3> QED BY <3>3, <3>4, <3>5, <1>3
  <2> QED BY <2>1, <2>2, <1>1, <1>3, <1>5
<1>16. \A i \in 0..(j + 1) :
          /\ is[i + 1] = Visited(g, is[1], es, cut2[i])
          /\ NodeMatches(g.nodes[is[i + 1]], NodeStepOf(path, i))
  <2> SUFFICES ASSUME NEW i \in 0..(j + 1)
               PROVE  /\ is[i + 1] = Visited(g, is[1], es, cut2[i])
                      /\ NodeMatches(g.nodes[is[i + 1]], NodeStepOf(path, i))
    OBVIOUS
  <2>1. CASE i \in 0..j
    <3>1. is[i + 1] = m.ids[i + 1]
      BY <2>1, <1>6
    <3> QED BY <2>1, <3>1, <1>7, <1>8, <1>10, <1>13
  <2>2. CASE i = j + 1
    <3>1. is[i + 1] = r
      BY <2>2, <1>6
    <3>2. Visited(g, is[1], es, Len(es)) = r
      BY <1>3, <1>5, <1>14
    <3> QED BY <2>2, <3>1, <3>2, <1>10
  <2> QED BY <2>1, <2>2
<1>17. \A i \in 1..(j + 1) :
          IsSegment(g, es, cut2[i - 1], cut2[i], EdgeStepOf(path, i))
  <2> SUFFICES ASSUME NEW i \in 1..(j + 1)
               PROVE  IsSegment(g, es, cut2[i - 1], cut2[i], EdgeStepOf(path, i))
    OBVIOUS
  <2>1. CASE i \in 1..j
    <3>1. cut2[i] = cut[i] /\ cut2[i - 1] = cut[i - 1]
      <4>1. i \in 0..j /\ i - 1 \in 0..j
        BY <2>1
      <4> QED BY <4>1, <1>10
    <3>2. cut[i] \in 0..Len(m.edges) /\ cut[i - 1] \in 0..Len(m.edges)
      BY <2>1, <1>8
    <3>3. IsSegment(g, m.edges, cut[i - 1], cut[i], EdgeStepOf(path, i))
      BY <2>1, <1>7
    <3>4. \A n \in (cut[i - 1] + 1)..cut[i] : es[n] = m.edges[n]
      <4> SUFFICES ASSUME NEW n \in (cut[i - 1] + 1)..cut[i] PROVE es[n] = m.edges[n]
        OBVIOUS
      <4>1. cut[i] \in Nat /\ cut[i - 1] \in Nat /\ cut[i] <= Len(m.edges)
        BY <3>2, <1>1
      <4>2. n \in 1..Len(m.edges)
        BY <4>1, <1>1
      <4> QED BY <4>2, <1>5
    <3> QED BY <3>1, <3>3, <3>4 DEF IsSegment
  <2>2. CASE i = j + 1
    <3>1. cut2[i] = Len(es) /\ cut2[i - 1] = Len(m.edges)
      BY <2>2, <1>7, <1>10
    <3>2. Len(es) - Len(m.edges) = Len(t)
      BY <1>1, <1>3, <1>5
    <3>3. \A n \in (Len(m.edges) + 1)..Len(es) :
             EdgeMatches(g.edges[es[n]], EdgeStepOf(path, j + 1))
      <4> SUFFICES ASSUME NEW n \in (Len(m.edges) + 1)..Len(es)
                   PROVE  EdgeMatches(g.edges[es[n]], EdgeStepOf(path, j + 1))
        OBVIOUS
      <4>1. n - Len(m.edges) \in 1..Len(t) /\ n = Len(m.edges) + (n - Len(m.edges))
        BY <1>1, <1>3, <1>5
      <4>2. es[n] = t[n - Len(m.edges)]
        BY <4>1, <1>5
      <4> QED BY <4>1, <4>2
    <3> QED BY <2>2, <3>1, <3>2, <3>3, <1>3 DEF IsSegment
  <2> QED BY <2>1, <2>2
<1>18. cut2[0] = 0
  BY <1>7, <1>10
<1>19. is[1] \in 1..Len(g.nodes)
  BY <1>7, <1>12
<1>20. Satisfies(g, path, j + 1, is, es, cut2)
  BY <1>6, <1>10, <1>15, <1>16, <1>17, <1>18, <1>19 DEF Satisfies
<1> QED
  BY <1>9, <1>20 DEF es, is, cut2

(* A chain stays a chain when an edge is appended that leaves the node it  *)
(* ends on, and when its last edge is dropped.                             *)
LEMMA AppendTrail ==
    ASSUME NEW g, Len(g.edges) \in Nat, NEW from, NEW t \in Seq(1..Len(g.edges)),
           IsTrail(g, from, t), NEW e \in 1..Len(g.edges),
           g.edges[e].src = Visited(g, from, t, Len(t))
    PROVE  IsTrail(g, from, Append(t, e))
<1>1. /\ Len(t) \in Nat /\ Len(Append(t, e)) = Len(t) + 1
      /\ \A i \in 1..Len(t) : Append(t, e)[i] = t[i]
      /\ Append(t, e)[Len(t) + 1] = e
  BY AppendProperties, LenProperties
<1>2. \A i \in 0..Len(t) : Visited(g, from, Append(t, e), i) = Visited(g, from, t, i)
  <2> SUFFICES ASSUME NEW i \in 0..Len(t)
               PROVE  Visited(g, from, Append(t, e), i) = Visited(g, from, t, i)
    OBVIOUS
  <2>1. CASE i = 0
    BY <2>1 DEF Visited
  <2>2. CASE i # 0
    <3>1. i \in 1..Len(t)
      BY <2>2, <1>1
    <3> QED BY <3>1, <1>1, <2>2 DEF Visited
  <2> QED BY <2>1, <2>2
<1> SUFFICES ASSUME NEW q \in 1..(Len(t) + 1)
             PROVE  /\ Append(t, e)[q] \in 1..Len(g.edges)
                    /\ g.edges[Append(t, e)[q]].src = Visited(g, from, Append(t, e), q - 1)
  BY <1>1 DEF IsTrail
<1>3. CASE q \in 1..Len(t)
  <2>1. q - 1 \in 0..Len(t)
    BY <1>1, <1>3
  <2> QED BY <1>1, <1>2, <1>3, <2>1 DEF IsTrail
<1>4. CASE q = Len(t) + 1
  <2>1. q - 1 = Len(t) /\ Len(t) \in 0..Len(t)
    BY <1>1, <1>4
  <2> QED BY <1>1, <1>2, <1>4, <2>1
<1> QED BY <1>1, <1>3, <1>4

LEMMA FrontTrail ==
    ASSUME NEW g, NEW from, NEW t \in Seq(1..Len(g.edges)), t # <<>>,
           IsTrail(g, from, t)
    PROVE  /\ IsTrail(g, from, SubSeq(t, 1, Len(t) - 1))
           /\ Len(SubSeq(t, 1, Len(t) - 1)) = Len(t) - 1
           /\ \A n \in 1..(Len(t) - 1) : SubSeq(t, 1, Len(t) - 1)[n] = t[n]
<1> DEFINE f == SubSeq(t, 1, Len(t) - 1)
<1>1. Len(t) \in Nat /\ Len(t) >= 1
  BY EmptySeq
<1>2. \A n \in 1..(Len(t) - 1) : t[n] \in 1..Len(g.edges)
  BY <1>1, ElementOfSeq
<1>3. /\ Len(f) = Len(t) - 1
      /\ \A n \in 1..(Len(t) - 1) : f[n] = t[n]
  <2> DEFINE l == Len(t) - 1
  <2>1. l \in Int /\ l >= 0
    BY <1>1
  <2>2. \A n \in 1..l : t[n] \in 1..Len(g.edges)
    BY <1>2
  <2> HIDE DEF l
  <2>3. Len(SubSeq(t, 1, l)) = IF 1 <= l THEN l - 1 + 1 ELSE 0
    BY <2>1, <2>2, SubSeqProperties
  <2>4. \A n \in 1..(l - 1 + 1) : SubSeq(t, 1, l)[n] = t[1 + n - 1]
    BY <2>1, <2>2, SubSeqProperties
  <2>5. Len(SubSeq(t, 1, l)) = l
    BY <2>1, <2>3
  <2>6. ASSUME NEW n \in 1..l PROVE SubSeq(t, 1, l)[n] = t[n]
    <3>1. n \in 1..(l - 1 + 1) /\ 1 + n - 1 = n
      BY <2>1
    <3> QED BY <3>1, <2>4
  <2> QED BY <2>5, <2>6 DEF l
<1> HIDE DEF f
<1>4. \A n \in 1..(Len(t) - 1) : Visited(g, from, f, n - 1) = Visited(g, from, t, n - 1)
  <2> SUFFICES ASSUME NEW n \in 1..(Len(t) - 1)
               PROVE  Visited(g, from, f, n - 1) = Visited(g, from, t, n - 1)
    OBVIOUS
  <2>1. CASE n = 1
    BY <2>1 DEF Visited
  <2>2. CASE n # 1
    <3>1. n - 1 \in 1..(Len(t) - 1)
      BY <2>2, <1>1
    <3> QED BY <3>1, <1>3 DEF Visited
  <2> QED BY <2>1, <2>2
<1>5. \A n \in 1..Len(f) : /\ f[n] \in 1..Len(g.edges)
                          /\ g.edges[f[n]].src = Visited(g, from, f, n - 1)
  <2> SUFFICES ASSUME NEW n \in 1..Len(f)
               PROVE  /\ f[n] \in 1..Len(g.edges)
                      /\ g.edges[f[n]].src = Visited(g, from, f, n - 1)
    OBVIOUS
  <2>1. n \in 1..(Len(t) - 1) /\ n \in 1..Len(t)
    BY <1>1, <1>3
  <2> QED BY <2>1, <1>2, <1>3, <1>4 DEF IsTrail
<1>6. IsTrail(g, from, f)
  BY <1>5 DEF IsTrail
<1> QED BY <1>3, <1>6 DEF f

(* A node the first node step accepts is a partial match of no pairs.      *)
LEMMA SeedSatisfies ==
    ASSUME NEW g, NEW path, NEW n \in 1..Len(g.nodes),
           NodeMatches(g.nodes[n], NodeStepOf(path, 0))
    PROVE  \E cut \in Cuts(0, <<>>) : Satisfies(g, path, 0, <<n>>, <<>>, cut)
<1> DEFINE cut == [i \in 0..0 |-> 0]
<1>1. cut \in Cuts(0, <<>>)
  BY DEF Cuts
<1>2. IsTrail(g, n, <<>>)
  BY DEF IsTrail
<1>3. cut[0] = 0
  OBVIOUS
<1> HIDE DEF cut
<1>4. Satisfies(g, path, 0, <<n>>, <<>>, cut)
  BY <1>2, <1>3 DEF Satisfies, Visited
<1> QED BY <1>1, <1>4

(* The bound on a walk: at most the step's own max_hops, at most what the  *)
(* rule's total leaves.                                                    *)
LEMMA EffectiveMaxFacts ==
    ASSUME TypeOK, ri \in 1..Len(rules), si <= PairCount(rule.path), fi <= Len(frontier)
    PROVE  /\ effective_max \in Nat
           /\ entry \in PartialMatch
           /\ edge_step.min_hops \in Nat /\ edge_step.max_hops \in Nat
           /\ effective_max <= edge_step.max_hops
           /\ entry.hops <= rule.max_total_hops =>
                 entry.hops + effective_max <= rule.max_total_hops
<1>1. entry \in PartialMatch
  BY LenProperties, ElementOfSeq DEF TypeOK, entry
<1>2. entry.hops \in Nat
  BY <1>1 DEF PartialMatch
<1>3. /\ rule.max_total_hops \in Nat
      /\ edge_step.min_hops \in Nat /\ edge_step.max_hops \in Nat
  <2>1. si \in 1..PairCount(rule.path)
    BY RuleFacts DEF TypeOK
  <2> QED BY <2>1, RuleFacts DEF TypeOK, edge_step
<1>4. ASSUME NEW max \in Nat, NEW total \in Nat, NEW hops \in Nat
      PROVE  LET left == IF hops < total THEN total - hops ELSE 0
                 bound == IF max < left THEN max ELSE left
             IN  bound \in Nat /\ bound <= max /\ (hops <= total => hops + bound <= total)
  OBVIOUS
<1>5. effective_max = LET left == IF entry.hops < rule.max_total_hops
                                   THEN rule.max_total_hops - entry.hops ELSE 0
                      IN  IF edge_step.max_hops < left THEN edge_step.max_hops ELSE left
  BY DEF effective_max, EffectiveMax, RemainingBudget
<1> QED
  BY <1>1, <1>2, <1>3, <1>4, <1>5

-----------------------------------------------------------------------------
(* The inductive invariant is established and preserved.                   *)

LEMMA InvInit == Init => IInv
<1> SUFFICES ASSUME Init PROVE IInv
  OBVIOUS
<1>1. TypeOK
  BY TypeInit
<1>2. FrontierOK /\ NextFrontierOK /\ WalkOK
  BY DEF Init, FrontierOK, NextFrontierOK, WalkOK
<1>3. FindingsConform
  BY DEF Init, FindingsConform
<1> QED BY <1>1, <1>2, <1>3 DEF IInv

(* The parts of the invariant a step leaves alone.                         *)
LEMMA FindingsStable ==
    ASSUME FindingsConform, UNCHANGED <<graph, rules, findings>>
    PROVE  FindingsConform'
BY DEF FindingsConform, Conforms

(* A sequence of partial matches stays one when a partial match is added.  *)
LEMMA AppendPartial ==
    ASSUME NEW g, NEW r, NEW j, NEW ms \in Seq(PartialMatch), NEW m \in PartialMatch,
           AllPartialOK(g, r, ms, j), PartialOK(g, r, m, j)
    PROVE  AllPartialOK(g, r, Append(ms, m), j)
<1>1. /\ Len(ms) \in Nat /\ Len(Append(ms, m)) = Len(ms) + 1
      /\ \A i \in 1..Len(ms) : Append(ms, m)[i] = ms[i]
      /\ Append(ms, m)[Len(ms) + 1] = m
  BY AppendProperties, LenProperties
<1> SUFFICES ASSUME NEW i \in 1..(Len(ms) + 1) PROVE PartialOK(g, r, Append(ms, m)[i], j)
  BY <1>1 DEF AllPartialOK
<1>2. CASE i = Len(ms) + 1
  BY <1>1, <1>2
<1>3. CASE i # Len(ms) + 1
  <2>1. i \in 1..Len(ms)
    BY <1>1, <1>3
  <2> QED BY <2>1, <1>1 DEF AllPartialOK
<1> QED BY <1>2, <1>3

(* Offering a node to the first node step of the rule.                     *)
LEMMA SeedStep == IInv /\ SeedNode => FrontierOK'
<1> SUFFICES ASSUME IInv, SeedNode PROVE FrontierOK'
  OBVIOUS
<1> DEFINE m == [at |-> fi, ids |-> <<fi>>, edges |-> <<>>, hops |-> 0]
<1>1. /\ TypeOK /\ pc = "seed" /\ pc' = "seed" /\ fi \in 1..Len(graph.nodes)
      /\ UNCHANGED <<graph, rules, ri>> /\ ri \in 1..Len(rules)
  BY GraphFacts DEF IInv, SeedNode, TypeOK, given
<1>2. AllPartialOK(graph, rule, frontier, 0)
  BY <1>1 DEF IInv, FrontierOK
<1>3. CASE ~NodeMatches(graph.nodes[fi], NodeStepOf(rule.path, 0))
  BY <1>1, <1>2, <1>3 DEF SeedNode, FrontierOK, rule
<1>4. CASE NodeMatches(graph.nodes[fi], NodeStepOf(rule.path, 0))
  <2>1. frontier' = Append(frontier, m)
    BY <1>4 DEF SeedNode
  <2>2. 0 <= rule.max_total_hops
    BY <1>1, RuleFacts DEF TypeOK
  <2>3. \E cut \in Cuts(0, <<>>) : Satisfies(graph, rule.path, 0, <<fi>>, <<>>, cut)
    BY <1>1, <1>4, SeedSatisfies
  <2>4. PartialOK(graph, rule, m, 0)
    BY <2>2, <2>3 DEF PartialOK
  <2>5. m \in PartialMatch
    <3>1. fi \in Nat /\ <<fi>> \in Seq(Nat) /\ <<>> \in Seq(Nat)
      BY <1>1, EmptySeq DEF TypeOK
    <3> QED BY <3>1 DEF PartialMatch
  <2> HIDE DEF m
  <2>6. AllPartialOK(graph, rule, Append(frontier, m), 0)
    BY <1>1, <1>2, <2>4, <2>5, AppendPartial DEF TypeOK
  <2> QED BY <1>1, <2>1, <2>6 DEF FrontierOK, rule
<1> QED BY <1>3, <1>4

(* Where a walk or the handling of its results stands.                     *)
LEMMA WalkContext ==
    ASSUME TypeOK, pc \in {"walk", "collect"}
    PROVE  /\ ri \in 1..Len(rules) /\ si \in 1..PairCount(rule.path)
           /\ fi \in 1..Len(frontier)
           /\ effective_max \in Nat /\ entry \in PartialMatch
           /\ edge_step.min_hops \in Nat /\ edge_step.max_hops \in Nat
           /\ effective_max <= edge_step.max_hops
           /\ entry.hops <= rule.max_total_hops =>
                 entry.hops + effective_max <= rule.max_total_hops
<1>1. ri \in 1..Len(rules)
  BY DEF TypeOK
<1>2. si <= PairCount(rule.path) /\ PairCount(rule.path) \in Nat
  BY <1>1, RuleFacts DEF TypeOK
<1>3. fi <= Len(frontier) /\ Len(frontier) \in Nat
  BY LenProperties DEF TypeOK
<1>4. si \in 1..PairCount(rule.path)
  BY <1>2 DEF TypeOK
<1>5. fi \in 1..Len(frontier)
  BY <1>3 DEF TypeOK
<1>6. /\ effective_max \in Nat /\ entry \in PartialMatch
      /\ edge_step.min_hops \in Nat /\ edge_step.max_hops \in Nat
      /\ effective_max <= edge_step.max_hops
      /\ entry.hops <= rule.max_total_hops =>
            entry.hops + effective_max <= rule.max_total_hops
  BY <1>1, <1>2, <1>3, EffectiveMaxFacts
<1> QED
  BY <1>1, <1>4, <1>5, <1>6

(* A collected chain is kept only when the partial match extended by it is *)
(* a partial match of one more pair.                                       *)
LEMMA KeptExtends ==
    ASSUME TypeOK, pc = "collect",
           PartialOK(graph, rule, entry, si - 1),
           NEW t \in Seq(1..Len(graph.edges)),
           ChainOK(graph, entry.at, edge_step, effective_max, t),
           Len(t) >= edge_step.min_hops, Kept(t)
    PROVE  PartialOK(graph, rule, Extended(t), si)
<1> DEFINE r == Reached(t)
           path == rule.path
<1>1. /\ si \in Nat /\ si - 1 \in Nat /\ (si - 1) + 1 = si
      /\ effective_max \in Nat /\ entry \in PartialMatch
      /\ edge_step.min_hops \in Nat /\ edge_step.max_hops \in Nat
      /\ effective_max <= edge_step.max_hops
      /\ entry.hops + effective_max <= rule.max_total_hops
      /\ rule.max_total_hops \in Nat
  BY WalkContext, RuleFacts DEF TypeOK, PartialOK
<1>2. /\ entry.hops = Len(entry.edges)
      /\ Len(entry.ids) = si /\ entry.at = entry.ids[si]
      /\ \E cut \in Cuts(si - 1, entry.edges) :
            Satisfies(graph, path, si - 1, entry.ids, entry.edges, cut)
  BY <1>1 DEF PartialOK
<1>3. /\ entry.ids \in Seq(Nat) /\ entry.edges \in Seq(Nat) /\ entry.hops \in Nat
      /\ Len(t) \in Nat /\ t \in Seq(Nat)
  <2>1. entry.ids \in Seq(Nat) /\ entry.edges \in Seq(Nat) /\ entry.hops \in Nat
    BY <1>1 DEF PartialMatch
  <2>2. Len(t) \in Nat
    BY LenProperties
  <2>3. 1..Len(graph.edges) \subseteq Nat
    BY GraphFacts DEF TypeOK
  <2>4. t \in Seq(Nat)
    BY <2>3, SeqMonotonic
  <2> QED BY <2>1, <2>2, <2>4
<1>4. /\ IsTrail(graph, entry.at, t)
      /\ \A n \in 1..Len(t) : EdgeMatches(graph.edges[t[n]], EdgeStepOf(path, si))
      /\ Len(t) <= effective_max
  BY DEF ChainOK, edge_step
<1>5. /\ t # <<>>
      /\ NodeMatches(graph.nodes[Visited(graph, entry.at, t, Len(t))], NodeStepOf(path, si))
  BY DEF Kept, Reached, node_step
<1>6. \E cut2 \in Cuts(si, entry.edges \o t) :
         Satisfies(graph, path, si, Append(entry.ids, r), entry.edges \o t, cut2)
  <2>1. PICK cut \in Cuts(si - 1, entry.edges) :
           Satisfies(graph, path, si - 1, entry.ids, entry.edges, cut)
    BY <1>2
  <2>2. IsGraph(graph)
    BY GraphsAssumption DEF TypeOK
  <2>3. /\ EdgeStepOf(path, si).min_hops \in Nat /\ EdgeStepOf(path, si).max_hops \in Nat
        /\ Len(t) >= EdgeStepOf(path, si).min_hops
        /\ Len(t) <= EdgeStepOf(path, si).max_hops
    BY <1>1, <1>3, <1>4 DEF edge_step
  <2> DEFINE j == si - 1
  <2>4. j \in Nat /\ j + 1 = si
    BY <1>1
  <2> HIDE DEF j, path
  <2>5. \E cut2 \in Cuts(j + 1, entry.edges \o t) :
           Satisfies(graph, path, j + 1, Append(entry.ids, Visited(graph, entry.at, t, Len(t))),
                     entry.edges \o t, cut2)
    <3>1. /\ cut \in Cuts(j, entry.edges)
          /\ Satisfies(graph, path, j, entry.ids, entry.edges, cut)
      BY <2>1 DEF j
    <3> QED
      BY <1>1, <1>2, <1>4, <1>5, <2>2, <2>3, <2>4, <3>1, ExtendSatisfies
  <2> QED BY <2>4, <2>5 DEF Reached
<1>7. Reached(t) \in Nat
  BY ExtendedType
<1>8. /\ Len(Append(entry.ids, r)) = si + 1
      /\ Append(entry.ids, r)[si + 1] = r
  <2> HIDE DEF r
  <2>1. r \in Nat
    BY <1>7 DEF r
  <2>2. /\ Len(Append(entry.ids, r)) = Len(entry.ids) + 1
        /\ Append(entry.ids, r)[Len(entry.ids) + 1] = r
    BY <1>3, <2>1, AppendProperties
  <2> QED BY <1>2, <2>2
<1>9. Len(entry.edges \o t) = entry.hops + Len(t)
  BY <1>2, <1>3, ConcatProperties
<1>10. entry.hops + Len(t) <= rule.max_total_hops
  BY <1>1, <1>3, <1>4
<1> HIDE DEF r
<1> QED BY <1>6, <1>8, <1>9, <1>10 DEF PartialOK, Extended, r

LEMMA TakeStep == IInv /\ TakeResult => NextFrontierOK'
<1> SUFFICES ASSUME IInv, TakeResult PROVE NextFrontierOK'
  OBVIOUS
<1>1. /\ TypeOK /\ pc = "collect" /\ pc' = "collect" /\ results # <<>>
      /\ UNCHANGED <<graph, rules, ri, si>>
  BY DEF IInv, TakeResult, given
<1>2. AllPartialOK(graph, rule, next_frontier, si)
  BY <1>1 DEF IInv, NextFrontierOK
<1>3. AllPartialOK(graph, rule, next_frontier', si)
  <2>1. CASE ~Kept(Head(results))
    BY <1>2, <2>1 DEF TakeResult
  <2>2. CASE Kept(Head(results))
    <3> DEFINE t == Head(results)
    <3>1. results \in Seq(Seq(1..Len(graph.edges))) /\ 1 \in 1..Len(results)
      BY <1>1, EmptySeq DEF TypeOK
    <3>2. t = results[1] /\ t \in Seq(1..Len(graph.edges))
      BY <3>1, ElementOfSeq
    <3>3. /\ ChainOK(graph, entry.at, edge_step, effective_max, t)
          /\ Len(t) >= edge_step.min_hops
      BY <1>1, <3>1, <3>2 DEF IInv, WalkOK
    <3>4. PartialOK(graph, rule, entry, si - 1)
      BY <1>1, WalkContext DEF IInv, FrontierOK, AllPartialOK, entry
    <3>5. PartialOK(graph, rule, Extended(t), si)
      BY <1>1, <2>2, <3>2, <3>3, <3>4, KeptExtends
    <3>6. Extended(t) \in PartialMatch
      BY <1>1, <3>2, ExtendedType
    <3>7. next_frontier' = Append(next_frontier, Extended(t))
      BY <2>2 DEF TakeResult
    <3> HIDE DEF t
    <3> QED BY <1>1, <1>2, <3>5, <3>6, <3>7, AppendPartial DEF TypeOK
  <2> QED BY <2>1, <2>2
<1> QED BY <1>1, <1>3 DEF NextFrontierOK, rule

(* A rule starts with no partial matches.                                  *)
LEMMA StartStep == IInv /\ StartRule => FrontierOK' /\ NextFrontierOK' /\ WalkOK'
<1> SUFFICES ASSUME IInv, StartRule PROVE FrontierOK' /\ NextFrontierOK' /\ WalkOK'
  OBVIOUS
<1>1. CASE Parses(NodeStepOf(rule.path, 0).where)
  <2>1. pc' = "seed" /\ frontier' = <<>>
    BY <1>1 DEF StartRule
  <2> QED
    BY <2>1 DEF FrontierOK, NextFrontierOK, WalkOK, AllPartialOK
<1>2. CASE ~Parses(NodeStepOf(rule.path, 0).where)
  BY <1>2 DEF StartRule, FrontierOK, NextFrontierOK, WalkOK
<1> QED BY <1>1, <1>2

(* With no pair of steps to match, the nodes themselves are the findings.  *)
LEMMA SeedDoneStep == IInv /\ SeedDone => FrontierOK' /\ NextFrontierOK' /\ WalkOK'
<1> SUFFICES ASSUME IInv, SeedDone PROVE FrontierOK' /\ NextFrontierOK' /\ WalkOK'
  OBVIOUS
<1>1. /\ pc = "seed" /\ si' = 1 /\ UNCHANGED <<graph, rules, ri, frontier>>
      /\ AllPartialOK(graph, rule, frontier, 0)
  BY DEF SeedDone, IInv, FrontierOK, given
<1>2. 0 = 1 - 1
  OBVIOUS
<1>3. CASE PairCount(rule.path) = 0
  <2>1. pc' = "emit"
    BY <1>3 DEF SeedDone
  <2> QED
    BY <1>1, <1>3, <2>1 DEF FrontierOK, NextFrontierOK, WalkOK, rule
<1>4. CASE PairCount(rule.path) # 0
  <2>1. pc' = "pair"
    BY <1>4 DEF SeedDone
  <2> QED
    BY <1>1, <1>2, <2>1 DEF FrontierOK, NextFrontierOK, WalkOK, rule
<1> QED BY <1>3, <1>4

LEMMA BeginPairStep == IInv /\ BeginPair => FrontierOK' /\ NextFrontierOK' /\ WalkOK'
<1> SUFFICES ASSUME IInv, BeginPair PROVE FrontierOK' /\ NextFrontierOK' /\ WalkOK'
  OBVIOUS
<1>1. /\ pc = "pair" /\ UNCHANGED <<graph, rules, ri, si, frontier>>
      /\ AllPartialOK(graph, rule, frontier, si - 1)
  BY DEF BeginPair, IInv, FrontierOK, given
<1>2. CASE Parses(edge_step.where) /\ Parses(node_step.where)
  <2>1. pc' = "expand" /\ next_frontier' = <<>>
    BY <1>2 DEF BeginPair
  <2>2. AllPartialOK(graph, rule, <<>>, si)
    BY DEF AllPartialOK
  <2> QED
    BY <1>1, <2>1, <2>2 DEF FrontierOK, NextFrontierOK, WalkOK, rule
<1>3. CASE ~(Parses(edge_step.where) /\ Parses(node_step.where))
  <2>1. pc' = "panicked"
    BY <1>3 DEF BeginPair
  <2> QED
    BY <2>1 DEF FrontierOK, NextFrontierOK, WalkOK
<1> QED BY <1>2, <1>3

(* The walk from a partial match starts on the empty chain.                *)
LEMMA BeginWalkStep == IInv /\ BeginWalk => FrontierOK' /\ NextFrontierOK' /\ WalkOK'
<1> SUFFICES ASSUME IInv, BeginWalk PROVE FrontierOK' /\ NextFrontierOK' /\ WalkOK'
  OBVIOUS
<1>1. /\ pc = "expand" /\ UNCHANGED <<graph, rules, ri, si, frontier, next_frontier>>
      /\ AllPartialOK(graph, rule, frontier, si - 1)
      /\ AllPartialOK(graph, rule, next_frontier, si)
      /\ TypeOK /\ fi <= Len(frontier)
  BY DEF BeginWalk, IInv, FrontierOK, NextFrontierOK, given
<1>2. CASE effective_max = 0
  <2>1. pc' = "expand"
    BY <1>1, <1>2 DEF BeginWalk
  <2> QED
    BY <1>1, <2>1 DEF FrontierOK, NextFrontierOK, WalkOK, rule
<1>3. CASE effective_max # 0
  <2>1. pc' = "walk" /\ trail' = <<>> /\ results' = Push(<<>>, <<>>) /\ fi' = fi
    BY <1>3 DEF BeginWalk
  <2>2. effective_max \in Nat /\ edge_step.min_hops \in Nat
    BY <1>1, EffectiveMaxFacts DEF TypeOK
  <2>3. ChainOK(graph, entry.at, edge_step, effective_max, <<>>)
    BY <2>2 DEF ChainOK, IsTrail
  <2>4. \A j \in 1..Len(Push(<<>>, <<>>)) :
           /\ Push(<<>>, <<>>)[j] = <<>>
           /\ Len(<<>>) >= edge_step.min_hops
    BY DEF Push
  <2>5. /\ entry' = entry /\ edge_step' = edge_step
        /\ effective_max' = effective_max /\ rule' = rule
    BY <1>1, <2>1 DEF entry, edge_step, effective_max, EffectiveMax, RemainingBudget, rule
  <2>6. WalkOK'
    BY <1>1, <2>1, <2>3, <2>4, <2>5 DEF WalkOK
  <2> QED
    BY <1>1, <2>1, <2>5, <2>6 DEF FrontierOK, NextFrontierOK
<1> QED BY <1>2, <1>3

(* What a step in the middle of a walk leaves alone.                       *)
LEMMA WalkFrame ==
    ASSUME IInv, pc = "walk",
           UNCHANGED <<graph, rules, ri, si, frontier, fi, next_frontier>>
    PROVE  /\ pc' \in {"walk", "collect"} => FrontierOK' /\ NextFrontierOK'
           /\ entry' = entry /\ edge_step' = edge_step /\ rule' = rule
           /\ effective_max' = effective_max
<1>1. /\ entry' = entry /\ edge_step' = edge_step /\ rule' = rule
      /\ effective_max' = effective_max
  BY DEF entry, edge_step, rule, effective_max, EffectiveMax, RemainingBudget
<1>2. /\ AllPartialOK(graph, rule, frontier, si - 1)
      /\ AllPartialOK(graph, rule, next_frontier, si)
  BY DEF IInv, FrontierOK, NextFrontierOK
<1>3. pc' \in {"walk", "collect"} => FrontierOK' /\ NextFrontierOK'
  BY <1>1, <1>2 DEF FrontierOK, NextFrontierOK
<1> QED BY <1>1, <1>3

(* The chains collected stay chains when one more is collected.            *)
LEMMA PushChain ==
    ASSUME NEW E, NEW g, NEW from, NEW step, NEW max,
           NEW rs \in Seq(E), NEW t \in E,
           \A j \in 1..Len(rs) : /\ ChainOK(g, from, step, max, rs[j])
                                 /\ Len(rs[j]) >= step.min_hops,
           ChainOK(g, from, step, max, t),
           NEW out, out = (IF Len(t) >= step.min_hops THEN Append(rs, t) ELSE rs)
    PROVE  \A j \in 1..Len(out) : /\ ChainOK(g, from, step, max, out[j])
                                  /\ Len(out[j]) >= step.min_hops
<1>1. CASE Len(t) >= step.min_hops
  <2>1. /\ Len(rs) \in Nat /\ Len(out) = Len(rs) + 1
        /\ \A j \in 1..Len(rs) : out[j] = rs[j]
        /\ out[Len(rs) + 1] = t
    BY <1>1, AppendProperties, LenProperties
  <2> SUFFICES ASSUME NEW j \in 1..(Len(rs) + 1)
               PROVE  ChainOK(g, from, step, max, out[j]) /\ Len(out[j]) >= step.min_hops
    BY <2>1
  <2>2. CASE j = Len(rs) + 1
    BY <1>1, <2>1, <2>2
  <2>3. CASE j # Len(rs) + 1
    <3>1. j \in 1..Len(rs)
      BY <2>1, <2>3
    <3> QED BY <2>1, <3>1
  <2> QED BY <2>2, <2>3
<1>2. CASE ~(Len(t) >= step.min_hops)
  BY <1>2
<1> QED BY <1>1, <1>2

(* The walk goes one edge deeper, still within its bound.                  *)
LEMMA DescendStep == IInv /\ Descend => FrontierOK' /\ NextFrontierOK' /\ WalkOK'
<1> SUFFICES ASSUME IInv, Descend PROVE FrontierOK' /\ NextFrontierOK' /\ WalkOK'
  OBVIOUS
<1>1. /\ TypeOK /\ pc = "walk" /\ pc' = "walk" /\ Len(trail) < effective_max
      /\ UNCHANGED <<graph, rules, ri, si, frontier, fi, next_frontier>>
  BY DEF IInv, Descend, CanGoDeeper, given
<1>2. /\ ChainOK(graph, entry.at, edge_step, effective_max, trail)
      /\ \A j \in 1..Len(results) :
            /\ ChainOK(graph, entry.at, edge_step, effective_max, results[j])
            /\ Len(results[j]) >= edge_step.min_hops
  BY <1>1 DEF IInv, WalkOK
<1>3. PICK e \in Candidates : trail' = Append(trail, e) /\ results' = Push(results, Append(trail, e))
  BY DEF Descend
<1>4. /\ trail \in Seq(1..Len(graph.edges)) /\ results \in Seq(Seq(1..Len(graph.edges)))
      /\ Len(graph.edges) \in Nat /\ cursor \in 0..Len(graph.edges)
  BY <1>1, GraphFacts DEF TypeOK
<1>5. /\ e \in 1..Len(graph.edges)
      /\ graph.edges[e].src = Visited(graph, entry.at, trail, Len(trail))
      /\ EdgeMatches(graph.edges[e], edge_step)
  BY <1>3, <1>4 DEF Candidates
<1> DEFINE t == Append(trail, e)
<1>6. /\ t \in Seq(1..Len(graph.edges))
      /\ Len(trail) \in Nat /\ Len(t) = Len(trail) + 1
      /\ \A n \in 1..Len(trail) : t[n] = trail[n]
      /\ t[Len(trail) + 1] = e
  BY <1>4, <1>5, AppendProperties, LenProperties
<1>7. ChainOK(graph, entry.at, edge_step, effective_max, t)
  <2>1. IsTrail(graph, entry.at, t)
    BY <1>2, <1>4, <1>5, AppendTrail DEF ChainOK
  <2> HIDE DEF t
  <2>2. Len(t) <= effective_max
    BY <1>1, <1>6, WalkContext
  <2>3. ASSUME NEW n \in 1..Len(t) PROVE EdgeMatches(graph.edges[t[n]], edge_step)
    <3>1. CASE n = Len(trail) + 1
      BY <3>1, <1>5, <1>6
    <3>2. CASE n # Len(trail) + 1
      <4>1. n \in 1..Len(trail)
        BY <3>2, <1>6
      <4> QED BY <4>1, <1>2, <1>6 DEF ChainOK
    <3> QED BY <3>1, <3>2
  <2> QED BY <2>1, <2>2, <2>3 DEF ChainOK
<1>8. trail' = t /\ results' = (IF Len(t) >= edge_step.min_hops THEN Append(results, t) ELSE results)
  BY <1>3 DEF Push
<1> HIDE DEF t
<1>9. \A j \in 1..Len(results') :
         /\ ChainOK(graph, entry.at, edge_step, effective_max, results'[j])
         /\ Len(results'[j]) >= edge_step.min_hops
  BY <1>2, <1>4, <1>6, <1>7, <1>8, PushChain
<1>10. /\ FrontierOK' /\ NextFrontierOK'
       /\ entry' = entry /\ edge_step' = edge_step /\ effective_max' = effective_max
  BY <1>1, WalkFrame
<1>11. WalkOK'
  BY <1>1, <1>7, <1>8, <1>9, <1>10 DEF WalkOK
<1> QED BY <1>10, <1>11

(* A call of the walk returns to the chain without its last edge.          *)
LEMMA ReturnStep == IInv /\ Return => FrontierOK' /\ NextFrontierOK' /\ WalkOK'
<1> SUFFICES ASSUME IInv, Return PROVE FrontierOK' /\ NextFrontierOK' /\ WalkOK'
  OBVIOUS
<1>1. /\ TypeOK /\ pc = "walk" /\ pc' = "walk" /\ trail # <<>>
      /\ UNCHANGED <<graph, rules, ri, si, frontier, fi, next_frontier, results>>
      /\ trail' = SubSeq(trail, 1, Len(trail) - 1)
  BY DEF IInv, Return, given
<1>2. /\ ChainOK(graph, entry.at, edge_step, effective_max, trail)
      /\ \A j \in 1..Len(results) :
            /\ ChainOK(graph, entry.at, edge_step, effective_max, results[j])
            /\ Len(results[j]) >= edge_step.min_hops
  BY <1>1 DEF IInv, WalkOK
<1>3. trail \in Seq(1..Len(graph.edges)) /\ Len(trail) \in Nat
  BY <1>1, LenProperties DEF TypeOK
<1>4. /\ IsTrail(graph, entry.at, trail')
      /\ Len(trail') = Len(trail) - 1
      /\ \A n \in 1..(Len(trail) - 1) : trail'[n] = trail[n]
  BY <1>1, <1>2, <1>3, FrontTrail DEF ChainOK
<1>5. ChainOK(graph, entry.at, edge_step, effective_max, trail')
  <2>1. Len(trail') <= effective_max
    BY <1>1, <1>2, <1>3, <1>4, WalkContext DEF ChainOK
  <2>2. ASSUME NEW n \in 1..Len(trail') PROVE EdgeMatches(graph.edges[trail'[n]], edge_step)
    <3>1. n \in 1..(Len(trail) - 1) /\ n \in 1..Len(trail)
      BY <1>3, <1>4
    <3> QED BY <3>1, <1>2, <1>4 DEF ChainOK
  <2> QED BY <1>4, <2>1, <2>2 DEF ChainOK
<1>6. /\ FrontierOK' /\ NextFrontierOK'
      /\ entry' = entry /\ edge_step' = edge_step /\ effective_max' = effective_max
  BY <1>1, WalkFrame
<1>7. WalkOK'
  BY <1>1, <1>2, <1>5, <1>6 DEF WalkOK
<1> QED BY <1>6, <1>7

LEMMA WalkDoneStep == IInv /\ WalkDone => FrontierOK' /\ NextFrontierOK' /\ WalkOK'
<1> SUFFICES ASSUME IInv, WalkDone PROVE FrontierOK' /\ NextFrontierOK' /\ WalkOK'
  OBVIOUS
<1>1. /\ pc = "walk" /\ pc' = "collect"
      /\ UNCHANGED <<graph, rules, ri, si, frontier, fi, next_frontier, results>>
  BY DEF WalkDone, given, walk
<1>2. /\ FrontierOK' /\ NextFrontierOK'
      /\ entry' = entry /\ edge_step' = edge_step /\ effective_max' = effective_max
  BY <1>1, WalkFrame
<1>3. WalkOK'
  BY <1>1, <1>2 DEF IInv, WalkOK
<1> QED BY <1>2, <1>3

(* Taking one result leaves the other results and the frontier as they are. *)
LEMMA TakeRest == IInv /\ TakeResult => FrontierOK' /\ WalkOK'
<1> SUFFICES ASSUME IInv, TakeResult PROVE FrontierOK' /\ WalkOK'
  OBVIOUS
<1>1. /\ TypeOK /\ pc = "collect" /\ pc' = "collect" /\ results # <<>>
      /\ UNCHANGED <<graph, rules, ri, si, frontier, fi>>
      /\ results' = Tail(results)
  BY DEF IInv, TakeResult, given
<1>2. /\ entry' = entry /\ edge_step' = edge_step /\ rule' = rule
      /\ effective_max' = effective_max
  BY <1>1 DEF entry, edge_step, rule, effective_max, EffectiveMax, RemainingBudget
<1>3. results \in Seq(Seq(1..Len(graph.edges)))
  BY <1>1 DEF TypeOK
<1>4. /\ Len(results) \in Nat /\ Len(Tail(results)) = Len(results) - 1
      /\ \A j \in 1..Len(Tail(results)) : Tail(results)[j] = results[j + 1]
  BY <1>1, <1>3, HeadTailProperties, LenProperties
<1>5. \A j \in 1..Len(results) :
         /\ ChainOK(graph, entry.at, edge_step, effective_max, results[j])
         /\ Len(results[j]) >= edge_step.min_hops
  BY <1>1 DEF IInv, WalkOK
<1>6. ASSUME NEW j \in 1..Len(Tail(results))
      PROVE  /\ ChainOK(graph, entry.at, edge_step, effective_max, Tail(results)[j])
             /\ Len(Tail(results)[j]) >= edge_step.min_hops
  <2>1. j + 1 \in 1..Len(results)
    BY <1>4
  <2> QED BY <2>1, <1>4, <1>5
<1>7. WalkOK'
  BY <1>1, <1>2, <1>6 DEF WalkOK
<1>8. FrontierOK'
  BY <1>1, <1>2 DEF IInv, FrontierOK
<1> QED BY <1>7, <1>8

LEMMA CollectDoneStep == IInv /\ CollectDone => FrontierOK' /\ NextFrontierOK' /\ WalkOK'
BY DEF IInv, CollectDone, FrontierOK, NextFrontierOK, WalkOK, given, rule

(* The next frontier becomes the frontier of the next pair, or of the rule. *)
LEMMA EndPairStep == IInv /\ EndPair => FrontierOK' /\ NextFrontierOK' /\ WalkOK'
<1> SUFFICES ASSUME IInv, EndPair PROVE FrontierOK' /\ NextFrontierOK' /\ WalkOK'
  OBVIOUS
<1>1. /\ pc = "expand" /\ UNCHANGED <<graph, rules, ri>> /\ frontier' = next_frontier
      /\ AllPartialOK(graph, rule, next_frontier, si) /\ si \in Nat
  BY DEF EndPair, IInv, NextFrontierOK, TypeOK, given
<1>2. CASE next_frontier = <<>>
  <2>1. pc' = "emit"
    BY <1>2 DEF EndPair
  <2>2. \A j : AllPartialOK(graph, rule, <<>>, j)
    BY DEF AllPartialOK
  <2> QED
    BY <1>1, <1>2, <2>1, <2>2 DEF FrontierOK, NextFrontierOK, WalkOK, rule
<1>3. CASE next_frontier # <<>> /\ IsLastPair
  <2>1. pc' = "emit" /\ si = PairCount(rule.path)
    BY <1>3 DEF EndPair, IsLastPair
  <2> QED
    BY <1>1, <2>1 DEF FrontierOK, NextFrontierOK, WalkOK, rule
<1>4. CASE next_frontier # <<>> /\ ~IsLastPair
  <2>1. pc' = "pair" /\ si' = si + 1
    BY <1>4 DEF EndPair
  <2>2. si' - 1 = si
    BY <1>1, <2>1
  <2> QED
    BY <1>1, <2>1, <2>2 DEF FrontierOK, NextFrontierOK, WalkOK, rule
<1> QED BY <1>2, <1>3, <1>4

(* What the rule's last frontier holds are findings of the rule.           *)
LEMMA EmitConforms ==
    ASSUME IInv, pc = "emit", NEW i \in 1..Len(frontier)
    PROVE  Conforms(FindingFrom(frontier[i]))
<1>1. /\ ri \in 1..Len(rules)
      /\ PartialOK(graph, rule, frontier[i], PairCount(rule.path))
  BY DEF IInv, FrontierOK, AllPartialOK, TypeOK
<1> DEFINE m == frontier[i]
<1>2. /\ Len(m.edges) <= rules[ri].max_total_hops
      /\ \E cut \in Cuts(PairCount(rules[ri].path), m.edges) :
            Satisfies(graph, rules[ri].path, PairCount(rules[ri].path), m.ids, m.edges, cut)
  BY <1>1 DEF PartialOK, rule
<1> HIDE DEF m
<1>3. /\ FindingFrom(m).rule_id = rules[ri].id
      /\ FindingFrom(m).node_ids = m.ids
      /\ FindingFrom(m).edges = m.edges
  BY DEF FindingFrom, rule
<1>4. Conforms(FindingFrom(m))
  BY <1>1, <1>2, <1>3 DEF Conforms
<1> QED BY <1>4 DEF m

LEMMA EmitStep == IInv /\ EmitFindings => FindingsConform'
<1> SUFFICES ASSUME IInv, EmitFindings PROVE FindingsConform'
  OBVIOUS
<1> DEFINE new == [i \in 1..Len(frontier) |-> FindingFrom(frontier[i])]
<1>1. /\ TypeOK /\ pc = "emit" /\ findings' = findings \o new
      /\ UNCHANGED <<graph, rules>>
  BY DEF IInv, EmitFindings, given
<1>2. \A i \in 1..Len(frontier) : Conforms(FindingFrom(frontier[i]))
  BY <1>1, EmitConforms
<1>3. Len(frontier) \in Nat /\ findings \in Seq(Finding) /\ Len(findings) \in Nat
  BY <1>1, LenProperties DEF TypeOK
<1>4. new \in Seq(Finding) /\ Len(new) = Len(frontier)
  <2>1. \A i \in 1..Len(frontier) : FindingFrom(frontier[i]) \in Finding
    BY <1>1, FindingType
  <2>2. new \in [1..Len(frontier) -> Finding]
    BY <2>1
  <2>3. DOMAIN new = 1..Len(frontier)
    OBVIOUS
  <2> HIDE DEF new
  <2>4. new \in Seq(Finding)
    BY <1>3, <2>2, IsASeq
  <2> QED BY <1>3, <2>3, <2>4, LenProperties
<1>5. \A i \in 1..Len(frontier) : new[i] = FindingFrom(frontier[i])
  OBVIOUS
<1> HIDE DEF new
<1>6. /\ Len(findings \o new) = Len(findings) + Len(frontier)
      /\ \A i \in 1..Len(findings) : (findings \o new)[i] = findings[i]
      /\ \A i \in 1..Len(frontier) : (findings \o new)[Len(findings) + i] = new[i]
  <2>1. /\ Len(findings \o new) = Len(findings) + Len(new)
        /\ \A i \in 1..(Len(findings) + Len(new)) :
              (findings \o new)[i] = IF i <= Len(findings) THEN findings[i]
                                     ELSE new[i - Len(findings)]
    BY <1>3, <1>4, ConcatProperties
  <2>2. ASSUME NEW i \in 1..Len(findings) PROVE (findings \o new)[i] = findings[i]
    <3>1. i \in 1..(Len(findings) + Len(new)) /\ i <= Len(findings)
      BY <1>3, <1>4
    <3> QED BY <3>1, <2>1
  <2>3. ASSUME NEW i \in 1..Len(frontier) PROVE (findings \o new)[Len(findings) + i] = new[i]
    <3>1. /\ Len(findings) + i \in 1..(Len(findings) + Len(new))
          /\ ~(Len(findings) + i <= Len(findings))
          /\ (Len(findings) + i) - Len(findings) = i
      BY <1>3, <1>4
    <3> QED BY <3>1, <2>1
  <2> QED BY <1>4, <2>1, <2>2, <2>3
<1>7. ASSUME NEW i \in 1..(Len(findings) + Len(frontier))
      PROVE  Conforms((findings \o new)[i])
  <2>1. CASE i \in 1..Len(findings)
    BY <2>1, <1>6 DEF IInv, FindingsConform
  <2>2. CASE i \notin 1..Len(findings)
    <3>1. i - Len(findings) \in 1..Len(frontier) /\ i = Len(findings) + (i - Len(findings))
      BY <2>2, <1>3
    <3>2. (findings \o new)[i] = FindingFrom(frontier[i - Len(findings)])
      BY <3>1, <1>5, <1>6
    <3> QED BY <3>1, <3>2, <1>2
  <2> QED BY <2>1, <2>2
<1> DEFINE all == findings \o new
<1>8. \A i \in 1..Len(all) : Conforms(all[i])
  BY <1>6, <1>7
<1>9. findings' = all
  BY <1>1
<1> HIDE DEF all
<1> QED BY <1>1, <1>8, <1>9 DEF FindingsConform, Conforms

LEMMA InvStep == IInv /\ [Next]_vars => IInv'
<1> SUFFICES ASSUME IInv, [Next]_vars PROVE IInv'
  OBVIOUS
<1>1. TypeOK'
  BY TypeStep DEF IInv
<1>2. FindingsConform'
  <2>1. CASE EmitFindings
    BY <2>1, EmitStep
  <2>2. CASE ~EmitFindings
    <3>1. UNCHANGED <<graph, rules, findings>>
      BY <2>2 DEF Next, StartRule, SeedNode, SeedDone, BeginPair, BeginWalk, Descend, Return,
                  WalkDone, TakeResult, CollectDone, EndPair, AllRulesRun, vars, given
    <3> QED BY <3>1, FindingsStable DEF IInv
  <2> QED BY <2>1, <2>2
<1>3. FrontierOK' /\ NextFrontierOK' /\ WalkOK'
  <2>1. CASE StartRule
    BY <2>1, StartStep
  <2>2. CASE SeedNode
    <3>1. pc' = "seed"
      BY <2>2 DEF SeedNode
    <3> QED BY <3>1, <2>2, SeedStep DEF NextFrontierOK, WalkOK
  <2>3. CASE SeedDone
    BY <2>3, SeedDoneStep
  <2>4. CASE BeginPair
    BY <2>4, BeginPairStep
  <2>5. CASE BeginWalk
    BY <2>5, BeginWalkStep
  <2>6. CASE Descend
    BY <2>6, DescendStep
  <2>7. CASE Return
    BY <2>7, ReturnStep
  <2>8. CASE WalkDone
    BY <2>8, WalkDoneStep
  <2>9. CASE TakeResult
    BY <2>9, TakeStep, TakeRest
  <2>10. CASE CollectDone
    BY <2>10, CollectDoneStep
  <2>11. CASE EndPair
    BY <2>11, EndPairStep
  <2>12. CASE EmitFindings
    BY <2>12 DEF EmitFindings, FrontierOK, NextFrontierOK, WalkOK
  <2>13. CASE AllRulesRun
    BY <2>13 DEF AllRulesRun, FrontierOK, NextFrontierOK, WalkOK
  <2>14. CASE UNCHANGED vars
    <3>1. /\ rule' = rule /\ entry' = entry /\ edge_step' = edge_step
          /\ effective_max' = effective_max
          /\ UNCHANGED <<graph, pc, si, frontier, next_frontier, trail, results>>
      BY <2>14 DEF vars, rule, entry, edge_step, effective_max, EffectiveMax, RemainingBudget
    <3>2. FrontierOK'
      BY <3>1 DEF IInv, FrontierOK
    <3>3. NextFrontierOK'
      BY <3>1 DEF IInv, NextFrontierOK
    <3>4. WalkOK'
      BY <3>1 DEF IInv, WalkOK
    <3> QED BY <3>2, <3>3, <3>4
  <2> QED
    BY <2>1, <2>2, <2>3, <2>4, <2>5, <2>6, <2>7, <2>8, <2>9, <2>10, <2>11,
       <2>12, <2>13, <2>14 DEF Next
<1> QED BY <1>1, <1>2, <1>3 DEF IInv

(* The invariant is strong enough for the cap on hops: every partial match *)
(* was within it when it was made, and the walk's bound is what is left.   *)
LEMMA InvHopBudget == IInv => HopBudget
<1> SUFFICES ASSUME IInv, pc \in {"pair", "expand", "walk", "collect", "emit"}
             PROVE  /\ \A i \in 1..Len(frontier) :
                          /\ frontier[i].hops = Len(frontier[i].edges)
                          /\ frontier[i].hops <= rule.max_total_hops
                    /\ pc = "walk" => entry.hops + Len(trail) <= rule.max_total_hops
  BY DEF HopBudget
<1>1. \E j : AllPartialOK(graph, rule, frontier, j)
  BY DEF IInv, FrontierOK
<1>2. \A i \in 1..Len(frontier) :
         /\ frontier[i].hops = Len(frontier[i].edges)
         /\ frontier[i].hops <= rule.max_total_hops
  BY <1>1 DEF AllPartialOK, PartialOK
<1>3. ASSUME pc = "walk" PROVE entry.hops + Len(trail) <= rule.max_total_hops
  <2>1. /\ TypeOK /\ fi \in 1..Len(frontier) /\ ri \in 1..Len(rules)
        /\ effective_max \in Nat /\ entry \in PartialMatch
        /\ entry.hops <= rule.max_total_hops =>
              entry.hops + effective_max <= rule.max_total_hops
    BY <1>3, WalkContext DEF IInv
  <2>2. entry.hops \in Nat /\ Len(trail) \in Nat /\ rule.max_total_hops \in Nat
    BY <2>1, RuleFacts, LenProperties DEF PartialMatch, TypeOK
  <2>3. entry.hops <= rule.max_total_hops
    BY <1>2, <2>1 DEF entry
  <2>4. Len(trail) <= effective_max
    BY <1>3 DEF IInv, WalkOK, ChainOK
  <2> QED BY <2>1, <2>2, <2>3, <2>4
<1> QED BY <1>2, <1>3

(* max_total_hops caps every chain before it is extended, whatever the     *)
(* edge steps' own bounds add up to.                                       *)
THEOREM HopBudgetHolds == Spec => []HopBudget
<1>1. Init => IInv
  BY InvInit
<1>2. IInv /\ [Next]_vars => IInv'
  BY InvStep
<1>3. IInv => HopBudget
  BY InvHopBudget
<1> QED BY <1>1, <1>2, <1>3, PTL DEF Spec

(* Every finding is a chain of the graph that satisfies the path of a      *)
(* loaded rule with the finding's id, within that rule's total.            *)
THEOREM FindingsSound == Spec => []FindingsConform
<1>1. Init => IInv
  BY InvInit
<1>2. IInv /\ [Next]_vars => IInv'
  BY InvStep
<1>3. IInv => FindingsConform
  BY DEF IInv
<1> QED BY <1>1, <1>2, <1>3, PTL DEF Spec

-----------------------------------------------------------------------------
(***************************************************************************)
(* The rule matcher implements the abstract search of module PathSearch,   *)
(* for every graph and every list of rules: it finds every walk that       *)
(* satisfies a rule, each once, and nothing else.                          *)
(*                                                                         *)
(* The proof numbers what the matcher holds.  A frontier stands for the    *)
(* walks over the pairs handled so far when there is a bijection from its  *)
(* positions to those walks; the next frontier stands in the same way for  *)
(* the extensions looked at; and a chain has been collected if and only if *)
(* the walk has pushed it, which the order in which a depth-first walk     *)
(* visits chains decides (Seen below).  A walk over one more pair is a     *)
(* walk over the pairs before it with one chain, in exactly one way, so    *)
(* the numbering of the extensions is a numbering of the longer walks.     *)
(***************************************************************************)


-----------------------------------------------------------------------------
(* The order of the depth-first walk.                                      *)

Agree(t, s, n) == \A i \in 1..n : t[i] = s[i]

(* The walk has left t behind: where t first differs from the chain s the  *)
(* walk stands on, t takes an edge the loop has already been at.           *)
Passed(s, c, t) ==
    \E j \in 1..Len(t) :
        /\ j <= Len(s) + 1
        /\ Agree(t, s, j - 1)
        /\ t[j] > (IF j <= Len(s) THEN s[j] ELSE c)

(* The walk has pushed t: it stands on t or on an extension of t, or has   *)
(* left it behind.                                                         *)
Seen(s, c, t) == (Len(t) <= Len(s) /\ Agree(t, s, Len(t))) \/ Passed(s, c, t)

(* The edges of a chain are edges of the graph.                            *)
LEMMA ChainElements ==
    ASSUME NEW n \in Nat, NEW s \in Seq(1..n)
    PROVE  Len(s) \in Nat /\ \A i \in 1..Len(s) : s[i] \in 1..n
BY LenProperties, ElementOfSeq

(* A walk that has only begun has pushed nothing but the empty chain.      *)
LEMMA SeenStart ==
    ASSUME NEW n \in Nat, NEW t \in Seq(1..n)
    PROVE  Seen(<<>>, n, t) <=> t = <<>>
<1>1. Len(t) \in Nat /\ \A i \in 1..Len(t) : t[i] \in 1..n
  BY ChainElements
<1>2. Len(t) = 0 <=> t = <<>>
  BY EmptySeq
<1>3. ~Passed(<<>>, n, t)
  <2> SUFFICES ASSUME NEW j \in 1..Len(t), j <= Len(<<>>) + 1,
                      t[j] > (IF j <= Len(<<>>) THEN <<>>[j] ELSE n)
               PROVE  FALSE
    BY DEF Passed
  <2>1. ~(j <= Len(<<>>))
    BY <1>1
  <2> QED BY <1>1, <2>1
<1> QED BY <1>1, <1>2, <1>3 DEF Seen, Agree

(* Going down an edge pushes the longer chain and no other, when no chain  *)
(* the loop has still to come to takes an edge between that one and the    *)
(* cursor.                                                                 *)
LEMMA SeenDescend ==
    ASSUME NEW n \in Nat, NEW s \in Seq(1..n), NEW c \in 0..n, NEW e \in 1..c,
           NEW t \in Seq(1..n),
           Len(t) > Len(s) /\ Agree(t, s, Len(s)) /\ t[Len(s) + 1] <= c => t[Len(s) + 1] <= e
    PROVE  Seen(Append(s, e), n, t) <=> Seen(s, c, t) \/ t = Append(s, e)
<1> DEFINE u == Append(s, e)
<1>1. /\ Len(s) \in Nat /\ \A i \in 1..Len(s) : s[i] \in 1..n
      /\ Len(t) \in Nat /\ \A i \in 1..Len(t) : t[i] \in 1..n
  BY ChainElements
<1>2. /\ u \in Seq(1..n) /\ Len(u) = Len(s) + 1 /\ u[Len(s) + 1] = e
      /\ \A i \in 1..Len(s) : u[i] = s[i]
  BY AppendProperties
<1>3. t = u <=> Len(t) = Len(u) /\ Agree(t, u, Len(t))
  <2> HIDE DEF u
  <2> QED BY <1>2, SeqEqual DEF Agree
<1> HIDE DEF u
<1>4. ASSUME NEW j \in 0..Len(s) PROVE Agree(t, u, j) <=> Agree(t, s, j)
  <2>1. \A i \in 1..j : u[i] = s[i]
    BY <1>1, <1>2
  <2> QED BY <2>1 DEF Agree
<1>5. ASSUME Seen(s, c, t) PROVE Seen(u, n, t)
  <2>1. CASE Len(t) <= Len(s) /\ Agree(t, s, Len(t))
    BY <2>1, <1>1, <1>2, <1>4 DEF Seen
  <2>2. CASE Passed(s, c, t)
    <3>1. PICK j \in 1..Len(t) : /\ j <= Len(s) + 1 /\ Agree(t, s, j - 1)
                                 /\ t[j] > (IF j <= Len(s) THEN s[j] ELSE c)
      BY <2>2 DEF Passed
    <3>2. j <= Len(u) + 1 /\ j <= Len(u) /\ Agree(t, u, j - 1)
      BY <3>1, <1>1, <1>2, <1>4
    <3>3. t[j] > u[j]
      <4>1. CASE j <= Len(s)
        BY <4>1, <3>1, <1>1, <1>2
      <4>2. CASE j = Len(s) + 1
        BY <4>2, <3>1, <1>1, <1>2
      <4> QED BY <4>1, <4>2, <3>1, <1>1
    <3> QED BY <3>2, <3>3 DEF Seen, Passed
  <2> QED BY <1>5, <2>1, <2>2 DEF Seen
<1>6. ASSUME t = u PROVE Seen(u, n, t)
  BY <1>6, <1>2 DEF Seen, Agree
<1>7. ASSUME Seen(u, n, t), t # u PROVE Seen(s, c, t)
  <2>1. CASE Len(t) <= Len(u) /\ Agree(t, u, Len(t))
    <3>1. Len(t) <= Len(s)
      BY <2>1, <1>1, <1>2, <1>3, <1>7
    <3> QED BY <3>1, <2>1, <1>1, <1>4 DEF Seen
  <2>2. CASE Passed(u, n, t)
    <3>1. PICK j \in 1..Len(t) : /\ j <= Len(u) + 1 /\ Agree(t, u, j - 1)
                                 /\ t[j] > (IF j <= Len(u) THEN u[j] ELSE n)
      BY <2>2 DEF Passed
    <3>2. j <= Len(u)
      BY <3>1, <1>1, <1>2
    <3>3. j <= Len(s) + 1 /\ Agree(t, s, j - 1) /\ t[j] > u[j]
      BY <3>1, <3>2, <1>1, <1>2, <1>4
    <3>4. t[j] > (IF j <= Len(s) THEN s[j] ELSE c)
      <4>1. CASE j <= Len(s)
        BY <4>1, <3>3, <1>1, <1>2
      <4>2. CASE j = Len(s) + 1
        <5>1. Len(t) > Len(s) /\ Agree(t, s, Len(s)) /\ t[Len(s) + 1] > e
          BY <4>2, <3>3, <1>1, <1>2
        <5> QED BY <5>1, <4>2, <1>1
      <4> QED BY <4>1, <4>2, <3>3, <1>1
    <3> QED BY <3>3, <3>4 DEF Seen, Passed
  <2> QED BY <1>7, <2>1, <2>2 DEF Seen
<1> QED BY <1>5, <1>6, <1>7 DEF u

(* A chain is pushed only once: the walk has not pushed the chain it is    *)
(* about to push.                                                          *)
LEMMA NotSeenYet ==
    ASSUME NEW n \in Nat, NEW s \in Seq(1..n), NEW c \in 0..n, NEW e \in 1..c
    PROVE  ~Seen(s, c, Append(s, e))
<1> DEFINE u == Append(s, e)
<1>1. Len(s) \in Nat /\ \A i \in 1..Len(s) : s[i] \in 1..n
  BY ChainElements
<1>2. /\ Len(u) = Len(s) + 1 /\ u[Len(s) + 1] = e
      /\ \A i \in 1..Len(s) : u[i] = s[i]
  BY AppendProperties
<1> HIDE DEF u
<1> SUFFICES ASSUME Seen(s, c, u) PROVE FALSE
  BY DEF u
<1>3. PICK j \in 1..Len(u) : /\ j <= Len(s) + 1
                             /\ u[j] > (IF j <= Len(s) THEN s[j] ELSE c)
  BY <1>1, <1>2 DEF Seen, Passed
<1>4. CASE j <= Len(s)
  BY <1>4, <1>3, <1>1, <1>2
<1>5. CASE j = Len(s) + 1
  BY <1>5, <1>3, <1>1, <1>2
<1> QED BY <1>3, <1>4, <1>5, <1>1

(* Returning from a chain changes nothing about what has been pushed, when *)
(* the loop of the call that returns has no edge left.                     *)
LEMMA SeenReturn ==
    ASSUME NEW n \in Nat, NEW s \in Seq(1..n), NEW c \in 0..n, s # <<>>,
           NEW t \in Seq(1..n), NEW f, Len(f) = Len(s) - 1,
           \A i \in 1..(Len(s) - 1) : f[i] = s[i],
           Len(t) > Len(s) /\ Agree(t, s, Len(s)) => t[Len(s) + 1] > c
    PROVE  Seen(f, s[Len(s)] - 1, t) <=> Seen(s, c, t)
<1> DEFINE l == Len(s)
           d == s[l] - 1
<1>1. /\ l \in Nat /\ l >= 1 /\ \A i \in 1..l : s[i] \in 1..n
      /\ Len(t) \in Nat /\ \A i \in 1..Len(t) : t[i] \in 1..n
      /\ d \in 0..n /\ s[l] \in 1..n
  BY ChainElements, EmptySeq
<1>2. Len(f) = l - 1 /\ \A i \in 1..(l - 1) : f[i] = s[i]
  OBVIOUS
<1>3. ASSUME NEW j \in 0..(l - 1) PROVE Agree(t, f, j) <=> Agree(t, s, j)
  <2>1. \A i \in 1..j : f[i] = s[i]
    BY <1>1, <1>2
  <2> QED BY <2>1 DEF Agree
<1>4. Agree(t, s, l) <=> Agree(t, s, l - 1) /\ t[l] = s[l]
  BY <1>1 DEF Agree
<1>5. Len(t) > l /\ Agree(t, s, l) => t[l + 1] > c
  OBVIOUS
<1>6. s[l] = d + 1
  BY <1>1
<1>7. Len(s) = l
  OBVIOUS
<1> HIDE DEF l, d
<1>8. ASSUME Seen(s, c, t) PROVE Seen(f, d, t)
  <2>1. CASE Len(t) <= l /\ Agree(t, s, Len(t))
    <3>1. CASE Len(t) <= l - 1
      BY <3>1, <2>1, <1>1, <1>2, <1>3 DEF Seen
    <3>2. CASE Len(t) = l
      <4>1. l \in 1..Len(t) /\ l <= Len(f) + 1 /\ ~(l <= Len(f))
        BY <3>2, <1>1, <1>2
      <4>2. Agree(t, f, l - 1) /\ t[l] > d
        BY <3>2, <2>1, <1>1, <1>3, <1>4, <1>6
      <4> QED BY <4>1, <4>2 DEF Seen, Passed
    <3> QED BY <3>1, <3>2, <2>1, <1>1
  <2>2. CASE Passed(s, c, t)
    <3>1. PICK j \in 1..Len(t) : /\ j <= l + 1 /\ Agree(t, s, j - 1)
                                 /\ t[j] > (IF j <= l THEN s[j] ELSE c)
      BY <2>2, <1>7 DEF Passed
    <3>2. CASE j <= l - 1
      <4>1. j <= Len(f) /\ j <= Len(f) + 1 /\ Agree(t, f, j - 1) /\ t[j] > f[j]
        BY <3>1, <3>2, <1>1, <1>2, <1>3
      <4> QED BY <4>1 DEF Seen, Passed
    <3>3. CASE j = l
      <4>1. j <= Len(f) + 1 /\ ~(j <= Len(f)) /\ Agree(t, f, j - 1)
        BY <3>1, <3>3, <1>1, <1>2, <1>3
      <4>2. t[j] > d
        BY <3>1, <3>3, <1>1, <1>6
      <4> QED BY <4>1, <4>2 DEF Seen, Passed
    <3>4. CASE j = l + 1
      <4>1. l \in 1..Len(t) /\ l <= Len(f) + 1 /\ ~(l <= Len(f))
        BY <3>1, <3>4, <1>1, <1>2
      <4>2. Agree(t, f, l - 1) /\ t[l] > d
        BY <3>1, <3>4, <1>1, <1>3, <1>4, <1>6
      <4> QED BY <4>1, <4>2 DEF Seen, Passed
    <3> QED BY <3>1, <3>2, <3>3, <3>4, <1>1
  <2> QED BY <1>7, <1>8, <2>1, <2>2 DEF Seen
<1>9. ASSUME Seen(f, d, t) PROVE Seen(s, c, t)
  <2>1. CASE Len(t) <= Len(f) /\ Agree(t, f, Len(t))
    BY <2>1, <1>1, <1>2, <1>3, <1>7 DEF Seen
  <2>2. CASE Passed(f, d, t)
    <3>1. PICK j \in 1..Len(t) : /\ j <= Len(f) + 1 /\ Agree(t, f, j - 1)
                                 /\ t[j] > (IF j <= Len(f) THEN f[j] ELSE d)
      BY <2>2 DEF Passed
    <3>2. j <= l /\ Agree(t, s, j - 1)
      BY <3>1, <1>1, <1>2, <1>3
    <3>3. CASE j <= l - 1
      <4>1. j <= l + 1 /\ t[j] > s[j]
        BY <3>1, <3>3, <1>1, <1>2
      <4> QED BY <4>1, <3>2, <1>7 DEF Seen, Passed
    <3>4. CASE j = l
      <4>1. t[l] > d /\ t[l] \in 1..n /\ Agree(t, s, l - 1) /\ l \in 1..Len(t)
        BY <3>1, <3>2, <3>4, <1>1, <1>2
      <4>2. CASE t[l] > s[l]
        <5>1. l <= l + 1 /\ l <= l
          BY <1>1
        <5> QED BY <5>1, <4>1, <4>2, <1>7 DEF Seen, Passed
      <4>3. CASE t[l] = s[l]
        <5>1. Agree(t, s, l)
          BY <4>1, <4>3, <1>4
        <5>2. CASE Len(t) = l
          BY <5>1, <5>2, <1>1, <1>7 DEF Seen
        <5>3. CASE Len(t) # l
          <6>1. l + 1 \in 1..Len(t) /\ l + 1 <= l + 1 /\ ~(l + 1 <= l)
            BY <5>3, <4>1, <1>1
          <6>2. t[l + 1] > c /\ Agree(t, s, (l + 1) - 1)
            BY <6>1, <5>1, <1>1, <1>5
          <6> QED BY <6>1, <6>2, <1>7 DEF Seen, Passed
        <5> QED BY <5>2, <5>3
      <4>4. t[l] > s[l] \/ t[l] = s[l]
        <5>1. t[l] \in Int /\ s[l] \in Int /\ d \in Int /\ t[l] > d /\ s[l] = d + 1
          BY <4>1, <1>1, <1>6
        <5> QED BY <5>1
      <4> QED BY <4>2, <4>3, <4>4
    <3> QED BY <3>2, <3>3, <3>4, <1>1
  <2> QED BY <1>9, <2>1, <2>2 DEF Seen
<1> QED BY <1>8, <1>9 DEF l, d

(* When the loop of the outermost call has no edge left, every chain has   *)
(* been pushed.                                                            *)
LEMMA SeenEnd ==
    ASSUME NEW n \in Nat, NEW c \in 0..n, NEW t \in Seq(1..n),
           Len(t) > 0 => t[1] > c
    PROVE  Seen(<<>>, c, t)
<1>1. Len(t) \in Nat
  BY LenProperties
<1>2. CASE Len(t) = 0
  BY <1>2 DEF Seen, Agree
<1>3. CASE Len(t) # 0
  <2>1. 1 \in 1..Len(t) /\ 1 <= Len(<<>>) + 1 /\ ~(1 <= Len(<<>>)) /\ t[1] > c
    BY <1>1, <1>3
  <2>2. Agree(t, <<>>, 1 - 1)
    BY DEF Agree
  <2> QED BY <2>1, <2>2 DEF Seen, Passed
<1> QED BY <1>2, <1>3

-----------------------------------------------------------------------------
(* Chains and walks, without the recursion.                                *)

(* The chains of n edges from a node.                                      *)
ChainsOf(g, start, n) ==
    {t \in Seq(1..Len(g.edges)) : Len(t) = n /\ IsTrail(g, start, t)}

OneMore(g, start, n, ts) ==
    UNION {{Append(t, e) : e \in {d \in DOMAIN g.edges :
                                     g.edges[d].src = Visited(g, start, t, n - 1)}}
           : t \in ts}

(* The edges of a graph run between its nodes.                             *)
LEMMA GraphParts ==
    ASSUME NEW g, IsGraph(g)
    PROVE  /\ Len(g.edges) \in Nat /\ Len(g.nodes) \in Nat
           /\ DOMAIN g.edges = 1..Len(g.edges) /\ DOMAIN g.nodes = 1..Len(g.nodes)
           /\ \A e \in 1..Len(g.edges) :
                 g.edges[e].src \in 1..Len(g.nodes) /\ g.edges[e].dst \in 1..Len(g.nodes)
<1>1. g.nodes \in Seq(NodeWeight) /\ g.edges \in Seq(EdgeWeight)
  BY DEF IsGraph
<1> QED BY <1>1, LenProperties DEF IsGraph

(* The chains of n edges are those of n - 1 edges, each with one more edge *)
(* that leaves the node it ends on.                                        *)
LEMMA OneMoreIs ==
    ASSUME NEW g, IsGraph(g), NEW start, NEW n \in Nat, n >= 1
    PROVE  OneMore(g, start, n, ChainsOf(g, start, n - 1)) = ChainsOf(g, start, n)
<1>0. Len(g.edges) \in Nat /\ DOMAIN g.edges = 1..Len(g.edges)
  BY GraphParts
<1>1. ASSUME NEW u \in OneMore(g, start, n, ChainsOf(g, start, n - 1))
      PROVE  u \in ChainsOf(g, start, n)
  <2>1. PICK t \in ChainsOf(g, start, n - 1), e \in 1..Len(g.edges) :
           g.edges[e].src = Visited(g, start, t, n - 1) /\ u = Append(t, e)
    BY <1>0, <1>1 DEF OneMore
  <2>2. t \in Seq(1..Len(g.edges)) /\ Len(t) = n - 1 /\ IsTrail(g, start, t)
    BY DEF ChainsOf
  <2>3. IsTrail(g, start, u)
    BY <1>0, <2>1, <2>2, AppendTrail
  <2>4. u \in Seq(1..Len(g.edges)) /\ Len(u) = n
    BY <2>1, <2>2, AppendProperties
  <2> QED BY <2>3, <2>4 DEF ChainsOf
<1>2. ASSUME NEW u \in ChainsOf(g, start, n)
      PROVE  u \in OneMore(g, start, n, ChainsOf(g, start, n - 1))
  <2>1. u \in Seq(1..Len(g.edges)) /\ Len(u) = n /\ IsTrail(g, start, u)
    BY DEF ChainsOf
  <2>2. u # <<>>
    BY <2>1, EmptySeq
  <2> DEFINE t == SubSeq(u, 1, Len(u) - 1)
             e == u[Len(u)]
  <2>3. /\ IsTrail(g, start, t) /\ Len(t) = Len(u) - 1
        /\ \A i \in 1..(Len(u) - 1) : t[i] = u[i]
    BY <2>1, <2>2, FrontTrail
  <2>4. \A i \in 1..Len(u) : u[i] \in 1..Len(g.edges)
    BY <2>1, ElementOfSeq
  <2>5. t \in Seq(1..Len(g.edges)) /\ e \in 1..Len(g.edges)
    <3>1. \A i \in 1..(Len(u) - 1) : u[i] \in 1..Len(g.edges)
      BY <2>1, <2>4
    <3>2. Len(u) \in Nat /\ 1 \in Int /\ Len(u) - 1 \in Int
      BY <2>1
    <3> DEFINE m == Len(u) - 1
    <3>3. m \in Int /\ \A i \in 1..m : u[i] \in 1..Len(g.edges)
      BY <3>1, <3>2
    <3> HIDE DEF m
    <3>4. SubSeq(u, 1, m) \in Seq(1..Len(g.edges))
      BY <3>3, SubSeqProperties
    <3>5. e \in 1..Len(g.edges)
      BY <2>1, <2>4
    <3> QED BY <3>4, <3>5 DEF m
  <2> HIDE DEF t
  <2>6. g.edges[e].src = Visited(g, start, t, n - 1)
    <3>1. g.edges[e].src = Visited(g, start, u, n - 1)
      BY <2>1 DEF IsTrail
    <3>2. Visited(g, start, u, n - 1) = Visited(g, start, t, n - 1)
      <4>1. CASE n = 1
        BY <4>1 DEF Visited
      <4>2. CASE n # 1
        <5>1. n - 1 \in 1..(Len(u) - 1) /\ n - 1 # 0
          BY <2>1, <4>2
        <5> QED BY <5>1, <2>3 DEF Visited
      <4> QED BY <4>1, <4>2
    <3> QED BY <3>1, <3>2
  <2>7. u = Append(t, e)
    <3> DEFINE v == Append(t, e)
    <3>1. /\ v \in Seq(1..Len(g.edges)) /\ Len(v) = Len(t) + 1
          /\ \A i \in 1..Len(t) : v[i] = t[i]
          /\ v[Len(t) + 1] = e
      BY <2>5, AppendProperties
    <3> HIDE DEF v
    <3>2. ASSUME NEW i \in 1..Len(u) PROVE u[i] = v[i]
      <4>1. CASE i = Len(u)
        BY <4>1, <2>1, <2>3, <3>1
      <4>2. CASE i # Len(u)
        <5>1. i \in 1..(Len(u) - 1) /\ i \in 1..Len(t)
          BY <4>2, <2>1, <2>3
        <5> QED BY <5>1, <2>3, <3>1
      <4> QED BY <4>1, <4>2
    <3>3. Len(u) = Len(v)
      BY <2>1, <2>3, <3>1
    <3>4. u = v
      BY <2>1, <3>1, <3>2, <3>3, SeqEqual
    <3> QED BY <3>4 DEF v
  <2>8. t \in ChainsOf(g, start, n - 1)
    BY <2>1, <2>3, <2>5 DEF ChainsOf
  <2> HIDE DEF e
  <2> QED BY <1>0, <2>5, <2>6, <2>7, <2>8 DEF OneMore
<1> QED BY <1>1, <1>2

(* The recursive function of Trails computes the chains of n edges.        *)
LEMMA TrailsAre ==
    ASSUME NEW g, IsGraph(g), NEW start, NEW n \in Nat
    PROVE  Trails(g, start, n) = ChainsOf(g, start, n)
<1> DEFINE trails[m \in 0..n] ==
              IF m = 0 THEN {<<>>}
              ELSE UNION {{Append(t, e) : e \in {d \in DOMAIN g.edges :
                                g.edges[d].src = Visited(g, start, t, m - 1)}}
                          : t \in trails[m - 1]}
<1>1. Trails(g, start, n) = trails[n]
  BY DEF Trails
<1>2. ChainsOf(g, start, 0) = {<<>>}
  <2>1. <<>> \in ChainsOf(g, start, 0)
    BY EmptySeq DEF ChainsOf, IsTrail
  <2>2. ASSUME NEW t \in ChainsOf(g, start, 0) PROVE t = <<>>
    BY EmptySeq DEF ChainsOf
  <2> QED BY <2>1, <2>2
<1>3. trails = [m \in 0..n |-> IF m = 0 THEN {<<>>} ELSE OneMore(g, start, m, trails[m - 1])]
  <2> DEFINE F(f) == [m \in 0..n |-> IF m = 0 THEN {<<>>} ELSE OneMore(g, start, m, f[m - 1])]
             h == [m \in 0..n |-> ChainsOf(g, start, m)]
  <2>1. h = F(h)
    <3>1. ASSUME NEW m \in 0..n
          PROVE  h[m] = IF m = 0 THEN {<<>>} ELSE OneMore(g, start, m, h[m - 1])
      <4>1. CASE m = 0
        BY <4>1, <1>2
      <4>2. CASE m # 0
        <5>1. m \in Nat /\ m >= 1 /\ m - 1 \in 0..n
          BY <4>2
        <5>2. h[m - 1] = ChainsOf(g, start, m - 1) /\ h[m] = ChainsOf(g, start, m)
          BY <5>1
        <5> QED BY <4>2, <5>1, <5>2, OneMoreIs
      <4> QED BY <4>1, <4>2
    <3> HIDE DEF h
    <3>2. h = [m \in 0..n |-> h[m]]
      BY DEF h
    <3> QED BY <3>1, <3>2
  <2> HIDE DEF h
  <2>2. \E f : f = F(f)
    BY <2>1
  <2>3. trails = CHOOSE f : f = F(f)
    BY DEF OneMore
  <2> HIDE DEF trails
  <2>4. trails = F(trails)
    BY <2>2, <2>3
  <2> QED BY <2>4
<1> HIDE DEF trails
<1> DEFINE S == {m \in 0..n : trails[m] = ChainsOf(g, start, m)}
<1>4. 0 \in S
  BY <1>2, <1>3
<1>5. ASSUME NEW m \in 0..(n - 1), m \in S PROVE m + 1 \in S
  <2>1. m + 1 \in 0..n /\ m + 1 # 0 /\ (m + 1) - 1 = m /\ m + 1 \in Nat /\ m + 1 >= 1
    OBVIOUS
  <2>2. trails[m + 1] = OneMore(g, start, m + 1, trails[m])
    BY <1>3, <2>1
  <2>3. OneMore(g, start, m + 1, ChainsOf(g, start, m)) = ChainsOf(g, start, m + 1)
    BY <2>1, OneMoreIs
  <2> QED BY <1>5, <2>1, <2>2, <2>3
<1>6. n \in S
  <2> HIDE DEF S
  <2> QED BY <1>4, <1>5, InductionUpTo
<1> QED BY <1>1, <1>6

(* A walk over the first k pairs of the rule's path, as the set Walks has it. *)
IsWalk(g, r, k, w) ==
    \E ids \in Seq(1..Len(g.nodes)), es \in Seq(1..Len(g.edges)) :
       \E cut \in Cuts(k, es) :
          /\ w = [ids |-> ids, edges |-> es, cut |-> cut]
          /\ Len(es) <= r.max_total_hops
          /\ Satisfies(g, r.path, k, ids, es, cut)

(* The nodes at the cuts of a walk, one by one.                            *)
LEMMA WalkIdsAre ==
    ASSUME NEW g, IsGraph(g), NEW k \in Nat, NEW start \in 1..Len(g.nodes),
           NEW es \in Seq(1..Len(g.edges)), NEW cut \in Cuts(k, es), NEW path
    PROVE  /\ WalkIds(g, start, es, cut, k) \in Seq(1..Len(g.nodes))
           /\ Satisfies(g, path, k, WalkIds(g, start, es, cut, k), es, cut)
                 => WalkIds(g, start, es, cut, k)[1] = start
           /\ \A ids \in Seq(1..Len(g.nodes)) :
                 Satisfies(g, path, k, ids, es, cut) /\ ids[1] = start
                    => ids = WalkIds(g, start, es, cut, k)
<1> DEFINE w == WalkIds(g, start, es, cut, k)
<1>1. ASSUME NEW i \in 1..(k + 1) PROVE Visited(g, start, es, cut[i - 1]) \in 1..Len(g.nodes)
  <2>1. cut[i - 1] \in 0..Len(es)
    BY DEF Cuts
  <2>2. Len(es) \in Nat /\ \A j \in 1..Len(es) : es[j] \in 1..Len(g.edges)
    BY LenProperties, ElementOfSeq
  <2>3. cut[i - 1] # 0 => cut[i - 1] \in 1..Len(es)
    BY <2>1, <2>2
  <2> QED BY <2>2, <2>3, GraphParts DEF Visited
<1>2. w = [i \in 1..(k + 1) |-> Visited(g, start, es, cut[i - 1])]
  BY DEF WalkIds
<1> HIDE DEF w
<1>3. w \in [1..(k + 1) -> 1..Len(g.nodes)] /\ k + 1 \in Nat
  BY <1>1, <1>2
<1>4. w \in Seq(1..Len(g.nodes))
  BY <1>3, SeqDef
<1>5. Len(w) = k + 1
  BY <1>3, <1>4, LenProperties
<1>6. Satisfies(g, path, k, w, es, cut) => w[1] = start
  <2>1. 1 \in 1..(k + 1) /\ 1 - 1 = 0
    OBVIOUS
  <2>2. w[1] = Visited(g, start, es, cut[0])
    BY <1>2, <2>1
  <2> QED BY <2>2 DEF Satisfies, Visited
<1>7. ASSUME NEW ids \in Seq(1..Len(g.nodes)), Satisfies(g, path, k, ids, es, cut), ids[1] = start
      PROVE  ids = w
  <2>1. Len(ids) = k + 1
    BY <1>7 DEF Satisfies
  <2>2. ASSUME NEW i \in 1..Len(ids) PROVE ids[i] = w[i]
    <3>1. i - 1 \in 0..k /\ (i - 1) + 1 = i /\ i \in 1..(k + 1)
      BY <2>1
    <3>2. ids[(i - 1) + 1] = Visited(g, ids[1], es, cut[i - 1])
      BY <1>7, <3>1 DEF Satisfies
    <3> QED BY <1>2, <1>7, <3>1, <3>2
  <2> QED BY <1>4, <1>5, <2>1, <2>2, SeqEqual
<1> QED BY <1>4, <1>6, <1>7 DEF w

(* The walks of a rule are the chains of its graph, of any length up to    *)
(* the total, with a division that satisfies its path.                     *)
LEMMA WalksAre ==
    ASSUME NEW g, IsGraph(g), NEW r, r.max_total_hops \in Nat, NEW k \in Nat
    PROVE  \A w : w \in Walks(g, r, k) <=> IsWalk(g, r, k, w)
<1>0. DOMAIN g.nodes = 1..Len(g.nodes)
  BY GraphParts
<1>1. ASSUME NEW w \in Walks(g, r, k) PROVE IsWalk(g, r, k, w)
  <2>1. PICK start \in 1..Len(g.nodes) :
           \E n \in 0..r.max_total_hops : \E es \in Trails(g, start, n) :
              \E cut \in Cuts(k, es) :
                 /\ Satisfies(g, r.path, k, WalkIds(g, start, es, cut, k), es, cut)
                 /\ w = [ids |-> WalkIds(g, start, es, cut, k), edges |-> es, cut |-> cut]
    BY <1>0, <1>1 DEF Walks
  <2>2. PICK n \in 0..r.max_total_hops : \E es \in Trails(g, start, n) :
              \E cut \in Cuts(k, es) :
                 /\ Satisfies(g, r.path, k, WalkIds(g, start, es, cut, k), es, cut)
                 /\ w = [ids |-> WalkIds(g, start, es, cut, k), edges |-> es, cut |-> cut]
    BY <2>1
  <2>0. PICK es \in Trails(g, start, n) : \E cut \in Cuts(k, es) :
                 /\ Satisfies(g, r.path, k, WalkIds(g, start, es, cut, k), es, cut)
                 /\ w = [ids |-> WalkIds(g, start, es, cut, k), edges |-> es, cut |-> cut]
    BY <2>2
  <2>3. PICK cut \in Cuts(k, es) :
                 /\ Satisfies(g, r.path, k, WalkIds(g, start, es, cut, k), es, cut)
                 /\ w = [ids |-> WalkIds(g, start, es, cut, k), edges |-> es, cut |-> cut]
    BY <2>0
  <2>4. es \in Seq(1..Len(g.edges)) /\ Len(es) = n
    BY TrailsAre DEF ChainsOf
  <2>5. WalkIds(g, start, es, cut, k) \in Seq(1..Len(g.nodes))
    BY <2>4, WalkIdsAre
  <2> QED BY <2>3, <2>4, <2>5 DEF IsWalk
<1>2. ASSUME NEW w, IsWalk(g, r, k, w) PROVE w \in Walks(g, r, k)
  <2>0. PICK ids \in Seq(1..Len(g.nodes)), es \in Seq(1..Len(g.edges)) : \E cut \in Cuts(k, es) :
          /\ w = [ids |-> ids, edges |-> es, cut |-> cut]
          /\ Len(es) <= r.max_total_hops
          /\ Satisfies(g, r.path, k, ids, es, cut)
    BY <1>2 DEF IsWalk
  <2>1. PICK cut \in Cuts(k, es) :
          /\ w = [ids |-> ids, edges |-> es, cut |-> cut]
          /\ Len(es) <= r.max_total_hops
          /\ Satisfies(g, r.path, k, ids, es, cut)
    BY <2>0
  <2>2. ids[1] \in 1..Len(g.nodes) /\ IsTrail(g, ids[1], es)
    BY <2>1 DEF Satisfies
  <2>3. ids = WalkIds(g, ids[1], es, cut, k)
    BY <2>1, <2>2, WalkIdsAre
  <2>4. Len(es) \in 0..r.max_total_hops
    BY <2>1, LenProperties
  <2>5. es \in Trails(g, ids[1], Len(es))
    BY <2>2, <2>4, TrailsAre DEF ChainsOf
  <2>6. es \in UNION {Trails(g, ids[1], n) : n \in 0..r.max_total_hops}
    BY <2>4, <2>5
  <2>7. Satisfies(g, r.path, k, WalkIds(g, ids[1], es, cut, k), es, cut)
    BY <2>1, <2>3
  <2>8. w = [ids |-> WalkIds(g, ids[1], es, cut, k), edges |-> es, cut |-> cut]
    BY <2>1, <2>3
  <2> DEFINE s == ids[1]
  <2> HIDE DEF s
  <2>9. s \in DOMAIN g.nodes /\ es \in UNION {Trails(g, s, n) : n \in 0..r.max_total_hops}
        /\ Satisfies(g, r.path, k, WalkIds(g, s, es, cut, k), es, cut)
        /\ w = [ids |-> WalkIds(g, s, es, cut, k), edges |-> es, cut |-> cut]
    BY <1>0, <2>2, <2>6, <2>7, <2>8 DEF s
  <2> DEFINE cuts(start, edges) ==
                {c \in Cuts(k, edges) :
                    Satisfies(g, r.path, k, WalkIds(g, start, edges, c, k), edges, c)}
             from(start, edges) ==
                {[ids |-> WalkIds(g, start, edges, c, k), edges |-> edges, cut |-> c]
                 : c \in cuts(start, edges)}
             all(start) == UNION {Trails(g, start, n) : n \in 0..r.max_total_hops}
             at(start) == UNION {from(start, edges) : edges \in all(start)}
  <2>10. cut \in cuts(s, es)
    BY <2>9
  <2>11. w \in from(s, es)
    BY <2>9, <2>10
  <2>12. w \in at(s)
    <3> HIDE DEF from
    <3> QED BY <2>9, <2>11
  <2>13. w \in UNION {at(start) : start \in DOMAIN g.nodes}
    <3> HIDE DEF at
    <3> QED BY <2>9, <2>12
  <2>14. Walks(g, r, k) = UNION {at(start) : start \in DOMAIN g.nodes}
    BY DEF Walks
  <2> QED BY <2>13, <2>14
<1> QED BY <1>1, <1>2

-----------------------------------------------------------------------------
(* Walks over one more pair.                                               *)

(* A chain that takes a walk over k pairs of the path on to the next pair. *)
Fits(g, r, k, w, t) ==
    /\ t \in Seq(1..Len(g.edges)) /\ t # <<>>
    /\ IsTrail(g, w.ids[k + 1], t)
    /\ \A n \in 1..Len(t) : EdgeMatches(g.edges[t[n]], EdgeStepOf(r.path, k + 1))
    /\ Len(t) >= EdgeStepOf(r.path, k + 1).min_hops
    /\ Len(t) <= EdgeStepOf(r.path, k + 1).max_hops
    /\ Len(w.edges) + Len(t) <= r.max_total_hops
    /\ NodeMatches(g.nodes[Visited(g, w.ids[k + 1], t, Len(t))], NodeStepOf(r.path, k + 1))

Extend(g, k, w, t) ==
    [ids   |-> Append(w.ids, Visited(g, w.ids[k + 1], t, Len(t))),
     edges |-> w.edges \o t,
     cut   |-> LongerCut(w.cut, k, Len(w.edges \o t))]

(* What a walk is made of.                                                 *)
LEMMA WalkParts ==
    ASSUME NEW g, IsGraph(g), NEW r, r.max_total_hops \in Nat, NEW k \in Nat,
           NEW w \in Walks(g, r, k)
    PROVE  /\ w = [ids |-> w.ids, edges |-> w.edges, cut |-> w.cut]
           /\ w.ids \in Seq(1..Len(g.nodes)) /\ w.ids \in Seq(Nat)
           /\ w.edges \in Seq(1..Len(g.edges)) /\ w.edges \in Seq(Nat)
           /\ w.cut \in Cuts(k, w.edges)
           /\ Len(w.edges) \in Nat
           /\ Len(w.edges) <= r.max_total_hops
           /\ Len(w.ids) = k + 1
           /\ w.ids[k + 1] \in 1..Len(g.nodes)
           /\ Satisfies(g, r.path, k, w.ids, w.edges, w.cut)
<1>1. IsWalk(g, r, k, w)
  BY WalksAre
<1>2. PICK ids \in Seq(1..Len(g.nodes)), es \in Seq(1..Len(g.edges)) :
         \E cut \in Cuts(k, es) :
            /\ w = [ids |-> ids, edges |-> es, cut |-> cut]
            /\ Len(es) <= r.max_total_hops
            /\ Satisfies(g, r.path, k, ids, es, cut)
  BY <1>1 DEF IsWalk
<1>3. PICK cut \in Cuts(k, es) :
            /\ w = [ids |-> ids, edges |-> es, cut |-> cut]
            /\ Len(es) <= r.max_total_hops
            /\ Satisfies(g, r.path, k, ids, es, cut)
  BY <1>2
<1>4. w.ids = ids /\ w.edges = es /\ w.cut = cut
  BY <1>3
<1>5. 1..Len(g.nodes) \subseteq Nat /\ 1..Len(g.edges) \subseteq Nat
  BY GraphParts
<1>6. ids \in Seq(Nat) /\ es \in Seq(Nat)
  BY <1>5, SeqMonotonic
<1>7. Len(ids) = k + 1
  BY <1>3 DEF Satisfies
<1>8. ids[k + 1] \in 1..Len(g.nodes)
  <2>1. k + 1 \in 1..Len(ids)
    BY <1>7
  <2> QED BY <2>1, ElementOfSeq
<1> QED BY <1>3, <1>4, <1>6, <1>7, <1>8, LenProperties

(* A walk over k pairs with a chain that fits is a walk over k + 1 pairs.  *)
LEMMA WalkExtended ==
    ASSUME NEW g, IsGraph(g), NEW r, r.max_total_hops \in Nat, NEW k \in Nat,
           EdgeStepOf(r.path, k + 1).min_hops \in Nat,
           EdgeStepOf(r.path, k + 1).max_hops \in Nat,
           NEW w \in Walks(g, r, k), NEW t, Fits(g, r, k, w, t)
    PROVE  Extend(g, k, w, t) \in Walks(g, r, k + 1)
<1> DEFINE m == [at |-> w.ids[k + 1], ids |-> w.ids, edges |-> w.edges, hops |-> Len(w.edges)]
           reached == Visited(g, m.at, t, Len(t))
           ids == Append(m.ids, reached)
           es == m.edges \o t
           cut == LongerCut(w.cut, k, Len(m.edges \o t))
<1>1. /\ w.ids \in Seq(1..Len(g.nodes)) /\ w.ids \in Seq(Nat)
      /\ w.edges \in Seq(1..Len(g.edges)) /\ w.edges \in Seq(Nat)
      /\ w.cut \in Cuts(k, w.edges)
      /\ Len(w.edges) \in Nat
      /\ Len(w.ids) = k + 1
      /\ w.ids[k + 1] \in 1..Len(g.nodes)
      /\ Satisfies(g, r.path, k, w.ids, w.edges, w.cut)
  BY WalkParts
<1>2. /\ t \in Seq(1..Len(g.edges)) /\ t # <<>>
      /\ IsTrail(g, w.ids[k + 1], t)
      /\ \A n \in 1..Len(t) : EdgeMatches(g.edges[t[n]], EdgeStepOf(r.path, k + 1))
      /\ Len(t) >= EdgeStepOf(r.path, k + 1).min_hops
      /\ Len(t) <= EdgeStepOf(r.path, k + 1).max_hops
      /\ Len(w.edges) + Len(t) <= r.max_total_hops
      /\ NodeMatches(g.nodes[Visited(g, w.ids[k + 1], t, Len(t))], NodeStepOf(r.path, k + 1))
  BY DEF Fits
<1>3. m \in PartialMatch
  <2>1. w.ids[k + 1] \in Nat
    BY <1>1, GraphParts
  <2> QED BY <1>1, <2>1 DEF PartialMatch
<1>4. /\ m.at = w.ids[k + 1] /\ m.ids = w.ids /\ m.edges = w.edges
      /\ Len(m.ids) = k + 1 /\ m.at = m.ids[k + 1]
      /\ w.cut \in Cuts(k, m.edges)
      /\ Satisfies(g, r.path, k, m.ids, m.edges, w.cut)
  BY <1>1
<1> HIDE DEF m
<1>5. cut \in Cuts(k + 1, es) /\ Satisfies(g, r.path, k + 1, ids, es, cut)
  <2> DEFINE path == r.path
  <2> HIDE DEF path
  <2>1. /\ EdgeStepOf(path, k + 1).min_hops \in Nat
        /\ EdgeStepOf(path, k + 1).max_hops \in Nat
        /\ Len(t) >= EdgeStepOf(path, k + 1).min_hops
        /\ Len(t) <= EdgeStepOf(path, k + 1).max_hops
        /\ \A n \in 1..Len(t) : EdgeMatches(g.edges[t[n]], EdgeStepOf(path, k + 1))
        /\ NodeMatches(g.nodes[Visited(g, m.at, t, Len(t))], NodeStepOf(path, k + 1))
        /\ IsTrail(g, m.at, t)
        /\ Satisfies(g, path, k, m.ids, m.edges, w.cut)
    BY <1>2, <1>4 DEF path
  <2>2. t \in Seq(1..Len(g.edges)) /\ t # <<>>
    BY <1>2
  <2> QED BY <1>3, <1>4, <2>1, <2>2, ExtendSatisfies DEF path
<1>6. reached \in 1..Len(g.nodes)
  <2>1. Len(t) \in Nat /\ Len(t) # 0 /\ \A n \in 1..Len(t) : t[n] \in 1..Len(g.edges)
    BY <1>2, LenProperties, EmptySeq, ElementOfSeq
  <2>2. Len(t) \in 1..Len(t)
    BY <2>1
  <2> QED BY <2>1, <2>2, GraphParts DEF Visited
<1>7. ids \in Seq(1..Len(g.nodes))
  <2> HIDE DEF reached
  <2> QED BY <1>1, <1>4, <1>6, AppendProperties
<1>8. es \in Seq(1..Len(g.edges)) /\ Len(es) = Len(w.edges) + Len(t)
  BY <1>1, <1>2, <1>4, ConcatProperties
<1>9. Extend(g, k, w, t) = [ids |-> ids, edges |-> es, cut |-> cut]
  BY <1>4 DEF Extend
<1> HIDE DEF ids, es, cut
<1>10. IsWalk(g, r, k + 1, Extend(g, k, w, t))
  BY <1>2, <1>5, <1>7, <1>8, <1>9 DEF IsWalk
<1> QED BY <1>10, WalksAre

(* The cuts of a walk never go back.                                       *)
LEMMA CutsGrow ==
    ASSUME NEW g, NEW path, NEW k \in Nat, NEW ids, NEW es, Len(es) \in Nat, NEW cut \in Cuts(k, es),
           Satisfies(g, path, k, ids, es, cut)
    PROVE  \A i \in 0..k : \A j \in 0..i : cut[j] <= cut[i]
<1>1. \A i \in 0..k : cut[i] \in Nat
  BY DEF Cuts
<1>2. \A i \in 1..k : cut[i - 1] <= cut[i]
  <2> SUFFICES ASSUME NEW i \in 1..k PROVE cut[i - 1] <= cut[i]
    OBVIOUS
  <2>1. IsSegment(g, es, cut[i - 1], cut[i], EdgeStepOf(path, i))
    BY DEF Satisfies
  <2>2. cut[i] - cut[i - 1] >= 1
    BY <2>1 DEF IsSegment
  <2>3. cut[i - 1] \in Nat /\ cut[i] \in Nat
    BY <1>1
  <2> QED BY <2>2, <2>3
<1> DEFINE S == {i \in 0..k : \A j \in 0..i : cut[j] <= cut[i]}
<1>3. 0 \in S
  BY <1>1
<1>4. ASSUME NEW i \in 0..(k - 1), i \in S PROVE i + 1 \in S
  <2>1. i + 1 \in 0..k /\ i \in 0..k /\ i + 1 \in 1..k /\ (i + 1) - 1 = i
    OBVIOUS
  <2>2. cut[i] <= cut[i + 1]
    BY <1>2, <2>1
  <2>3. ASSUME NEW j \in 0..(i + 1) PROVE cut[j] <= cut[i + 1]
    <3>1. CASE j = i + 1
      BY <3>1, <1>1, <2>1
    <3>2. CASE j # i + 1
      <4>1. j \in 0..i /\ j \in 0..k
        BY <3>2
      <4>2. cut[j] <= cut[i] /\ cut[j] \in Nat /\ cut[i] \in Nat /\ cut[i + 1] \in Nat
        BY <1>1, <1>4, <2>1, <4>1
      <4> QED BY <2>2, <4>2
    <3> QED BY <3>1, <3>2
  <2> QED BY <2>1, <2>3
<1>5. \A i \in 0..k : i \in S
  <2> HIDE DEF S
  <2> QED BY <1>3, <1>4, InductionUpTo
<1> QED BY <1>5

(* Every walk over k + 1 pairs is a walk over k pairs with a chain that    *)
(* fits: a walk is cut at its last but one cut.                            *)
LEMMA WalkShrunk ==
    ASSUME NEW g, IsGraph(g), NEW r, r.max_total_hops \in Nat, NEW k \in Nat,
           NEW v \in Walks(g, r, k + 1)
    PROVE  \E w \in Walks(g, r, k) : \E t : Fits(g, r, k, w, t) /\ v = Extend(g, k, w, t)
<1> DEFINE ids == v.ids
           es == v.edges
           cut == v.cut
           path == r.path
           n == cut[k]
           E == 1..Len(g.edges)
           N == 1..Len(g.nodes)
<1>1. /\ v = [ids |-> ids, edges |-> es, cut |-> cut]
      /\ ids \in Seq(N) /\ es \in Seq(E)
      /\ cut \in Cuts(k + 1, es)
      /\ Len(es) \in Nat
      /\ Len(es) <= r.max_total_hops
      /\ Len(ids) = (k + 1) + 1
      /\ Satisfies(g, path, k + 1, ids, es, cut)
  <2>1. k + 1 \in Nat
    OBVIOUS
  <2> QED BY <2>1, WalkParts
<1>2. Len(g.edges) \in Nat /\ Len(g.nodes) \in Nat
  BY GraphParts
<1> HIDE DEF ids, es, cut
<1>3. /\ cut[0] = 0 /\ cut[k + 1] = Len(es)
      /\ ids[1] \in N
      /\ IsTrail(g, ids[1], es)
      /\ \A i \in 0..(k + 1) :
            /\ ids[i + 1] = Visited(g, ids[1], es, cut[i])
            /\ NodeMatches(g.nodes[ids[i + 1]], NodeStepOf(path, i))
      /\ \A i \in 1..(k + 1) :
            IsSegment(g, es, cut[i - 1], cut[i], EdgeStepOf(path, i))
  BY <1>1 DEF Satisfies
<1>4. \A i \in 0..(k + 1) : cut[i] \in 0..Len(es)
  BY <1>1 DEF Cuts
<1>5. \A i \in 0..k : cut[i] \in 0..n
  <2> SUFFICES ASSUME NEW i \in 0..k PROVE cut[i] \in 0..n
    OBVIOUS
  <2>1. \A a \in 0..(k + 1) : \A b \in 0..a : cut[b] <= cut[a]
    <3>1. k + 1 \in Nat
      OBVIOUS
    <3> HIDE DEF path
    <3> QED BY <1>1, <3>1, CutsGrow
  <2>2. k \in 0..(k + 1) /\ i \in 0..(k + 1)
    OBVIOUS
  <2>3. cut[i] <= cut[k]
    BY <2>1, <2>2
  <2> QED BY <1>1, <1>4, <2>2, <2>3
<1>6. /\ n \in Nat /\ n < Len(es) /\ n <= Len(es)
      /\ IsSegment(g, es, n, Len(es), EdgeStepOf(path, k + 1))
      /\ Len(es) - n >= EdgeStepOf(path, k + 1).min_hops
      /\ Len(es) - n <= EdgeStepOf(path, k + 1).max_hops
      /\ \A q \in (n + 1)..Len(es) : EdgeMatches(g.edges[es[q]], EdgeStepOf(path, k + 1))
  <2>1. k + 1 \in 1..(k + 1) /\ (k + 1) - 1 = k /\ k \in 0..(k + 1)
    OBVIOUS
  <2>2. IsSegment(g, es, n, Len(es), EdgeStepOf(path, k + 1))
    BY <1>3, <2>1
  <2>3. n \in 0..Len(es)
    BY <1>4, <2>1
  <2> QED BY <1>1, <2>2, <2>3 DEF IsSegment
<1> HIDE DEF n
<1> DEFINE front == SubSeq(es, 1, n)
           t == SubSeq(es, n + 1, Len(es))
           heads == SubSeq(ids, 1, k + 1)
           short == [i \in 0..k |-> cut[i]]
<1>7. /\ \A q \in 1..Len(es) : es[q] \in E
      /\ \A q \in 1..Len(ids) : ids[q] \in N
  BY <1>1, ElementOfSeq
<1>8. /\ front \in Seq(E) /\ Len(front) = n
      /\ \A q \in 1..n : front[q] = es[q]
  <2>1. \A q \in 1..n : es[q] \in E
    BY <1>1, <1>6, <1>7
  <2>2. /\ front \in Seq(E)
        /\ Len(front) = IF 1 <= n THEN n - 1 + 1 ELSE 0
        /\ \A q \in 1..(n - 1 + 1) : front[q] = es[1 + q - 1]
    <3>1. n \in Int /\ 1 \in Int
      BY <1>6
    <3> QED BY <2>1, <3>1, SubSeqProperties
  <2> HIDE DEF front
  <2> QED BY <1>6, <2>2
<1>9. /\ t \in Seq(E) /\ Len(t) = Len(es) - n
      /\ \A q \in 1..Len(t) : t[q] = es[n + q]
  <2> DEFINE a == n + 1
             b == Len(es)
  <2>1. a \in Int /\ b \in Int /\ \A q \in a..b : es[q] \in E
    BY <1>1, <1>6, <1>7
  <2>2. a <= b /\ b - a + 1 = Len(es) - n
    BY <1>1, <1>6
  <2>3. \A q \in 1..(Len(es) - n) : q \in 1..(b - a + 1) /\ a + q - 1 = n + q
    BY <1>1, <1>6
  <2> HIDE DEF a, b
  <2>4. /\ SubSeq(es, a, b) \in Seq(E)
        /\ Len(SubSeq(es, a, b)) = IF a <= b THEN b - a + 1 ELSE 0
        /\ \A q \in 1..(b - a + 1) : SubSeq(es, a, b)[q] = es[a + q - 1]
    BY <2>1, SubSeqProperties
  <2>5. t = SubSeq(es, a, b)
    BY DEF a, b
  <2> HIDE DEF t
  <2> QED BY <2>2, <2>3, <2>4, <2>5
<1>10. /\ heads \in Seq(N) /\ Len(heads) = k + 1
       /\ \A q \in 1..(k + 1) : heads[q] = ids[q]
  <2> DEFINE b == k + 1
  <2>1. b \in Int /\ 1 \in Int /\ 1 <= b /\ \A q \in 1..b : ids[q] \in N
    BY <1>1, <1>7
  <2> HIDE DEF b
  <2>2. /\ SubSeq(ids, 1, b) \in Seq(N)
        /\ Len(SubSeq(ids, 1, b)) = IF 1 <= b THEN b - 1 + 1 ELSE 0
        /\ \A q \in 1..(b - 1 + 1) : SubSeq(ids, 1, b)[q] = ids[1 + q - 1]
    BY <2>1, SubSeqProperties
  <2>3. heads = SubSeq(ids, 1, b)
    BY DEF b
  <2> HIDE DEF heads
  <2>4. Len(heads) = b /\ \A q \in 1..b : heads[q] = ids[q]
    BY <2>1, <2>2, <2>3
  <2> QED BY <2>2, <2>3, <2>4 DEF b
<1>11. \A i \in 0..k : short[i] = cut[i]
  OBVIOUS
<1>12. short \in Cuts(k, front)
  BY <1>5, <1>8 DEF Cuts
<1> DEFINE w == [ids |-> heads, edges |-> front, cut |-> short]
<1> HIDE DEF front, t, heads, short
<1>13. w.ids = heads /\ w.edges = front /\ w.cut = short
  OBVIOUS
<1>14. heads[1] = ids[1]
  <2>1. 1 \in 1..(k + 1)
    OBVIOUS
  <2> QED BY <1>10, <2>1
<1>15. \A i \in 0..n : Visited(g, heads[1], front, i) = Visited(g, ids[1], es, i)
  <2> SUFFICES ASSUME NEW i \in 0..n
               PROVE  Visited(g, heads[1], front, i) = Visited(g, ids[1], es, i)
    OBVIOUS
  <2>1. CASE i = 0
    BY <2>1, <1>14 DEF Visited
  <2>2. CASE i # 0
    <3>1. i \in 1..n
      BY <1>6, <2>2
    <3> QED BY <3>1, <1>8, <2>2 DEF Visited
  <2> QED BY <2>1, <2>2
<1>16. IsTrail(g, heads[1], front)
  <2> SUFFICES ASSUME NEW q \in 1..n
               PROVE  /\ front[q] \in 1..Len(g.edges)
                      /\ g.edges[front[q]].src = Visited(g, heads[1], front, q - 1)
    BY <1>8 DEF IsTrail
  <2>1. q \in 1..Len(es) /\ q - 1 \in 0..n
    BY <1>1, <1>6
  <2>2. front[q] = es[q]
    BY <1>8
  <2> QED BY <1>3, <1>15, <2>1, <2>2 DEF IsTrail
<1>17. Satisfies(g, path, k, heads, front, short)
  <2>1. short[0] = 0 /\ short[k] = Len(front)
    BY <1>3, <1>8, <1>11 DEF n
  <2>2. heads[1] \in 1..Len(g.nodes)
    BY <1>3, <1>14
  <2>3. ASSUME NEW i \in 0..k
        PROVE  /\ heads[i + 1] = Visited(g, heads[1], front, short[i])
               /\ NodeMatches(g.nodes[heads[i + 1]], NodeStepOf(path, i))
    <3>1. i + 1 \in 1..(k + 1) /\ i \in 0..(k + 1)
      OBVIOUS
    <3>2. heads[i + 1] = ids[i + 1]
      BY <1>10, <3>1
    <3>3. short[i] = cut[i] /\ short[i] \in 0..n
      BY <1>5, <1>11
    <3> QED BY <1>3, <1>15, <3>1, <3>2, <3>3
  <2>4. ASSUME NEW i \in 1..k
        PROVE  IsSegment(g, front, short[i - 1], short[i], EdgeStepOf(path, i))
    <3>1. i \in 1..(k + 1) /\ i \in 0..k /\ i - 1 \in 0..k
      OBVIOUS
    <3>2. /\ short[i] = cut[i] /\ short[i - 1] = cut[i - 1]
          /\ cut[i] \in 0..n /\ cut[i - 1] \in 0..n
      BY <1>5, <1>11, <3>1
    <3>3. IsSegment(g, es, cut[i - 1], cut[i], EdgeStepOf(path, i))
      BY <1>3, <3>1
    <3>4. ASSUME NEW q \in (cut[i - 1] + 1)..cut[i] PROVE front[q] = es[q]
      <4>1. q \in 1..n
        BY <1>6, <3>2
      <4> QED BY <4>1, <1>8
    <3> QED BY <3>2, <3>3, <3>4 DEF IsSegment
  <2> QED BY <1>10, <1>16, <2>1, <2>2, <2>3, <2>4 DEF Satisfies
<1>18. w \in Walks(g, r, k)
  <2>1. Len(front) <= r.max_total_hops
    BY <1>1, <1>6, <1>8
  <2>2. IsWalk(g, r, k, w)
    BY <1>8, <1>10, <1>12, <1>17, <2>1 DEF IsWalk
  <2> HIDE DEF w
  <2> QED BY <2>2, WalksAre
<1>19. heads[k + 1] = Visited(g, ids[1], es, n)
  <2>1. k \in 0..(k + 1) /\ k + 1 \in 1..(k + 1)
    OBVIOUS
  <2> QED BY <1>3, <1>10, <2>1 DEF n
<1>20. \A q \in 0..Len(t) : Visited(g, heads[k + 1], t, q) = Visited(g, ids[1], es, n + q)
  <2> SUFFICES ASSUME NEW q \in 0..Len(t)
               PROVE  Visited(g, heads[k + 1], t, q) = Visited(g, ids[1], es, n + q)
    OBVIOUS
  <2>1. CASE q = 0
    <3>1. n + q = n
      BY <2>1, <1>6
    <3> QED BY <2>1, <3>1, <1>19 DEF Visited
  <2>2. CASE q # 0
    <3>1. q \in 1..Len(t) /\ n + q # 0
      BY <1>6, <2>2
    <3> QED BY <3>1, <2>2, <1>9 DEF Visited
  <2> QED BY <2>1, <2>2
<1>21. Fits(g, r, k, w, t)
  <2>1. Len(t) >= 1 /\ Len(t) \in Nat /\ t # <<>>
    BY <1>1, <1>6, <1>9, EmptySeq
  <2>2. IsTrail(g, heads[k + 1], t)
    <3> SUFFICES ASSUME NEW q \in 1..Len(t)
                 PROVE  /\ t[q] \in 1..Len(g.edges)
                        /\ g.edges[t[q]].src = Visited(g, heads[k + 1], t, q - 1)
      BY DEF IsTrail
    <3>1. n + q \in 1..Len(es) /\ q - 1 \in 0..Len(t) /\ n + (q - 1) = (n + q) - 1
      BY <1>1, <1>6, <1>9
    <3>2. t[q] = es[n + q]
      BY <1>9
    <3>3. Visited(g, heads[k + 1], t, q - 1) = Visited(g, ids[1], es, (n + q) - 1)
      BY <1>20, <3>1
    <3> QED BY <1>3, <3>1, <3>2, <3>3 DEF IsTrail
  <2>3. ASSUME NEW q \in 1..Len(t) PROVE EdgeMatches(g.edges[t[q]], EdgeStepOf(path, k + 1))
    <3>1. n + q \in (n + 1)..Len(es)
      BY <1>1, <1>6, <1>9
    <3> QED BY <3>1, <1>6, <1>9
  <2>4. Len(front) + Len(t) <= r.max_total_hops
    BY <1>1, <1>6, <1>8, <1>9
  <2>5. NodeMatches(g.nodes[Visited(g, heads[k + 1], t, Len(t))], NodeStepOf(path, k + 1))
    <3>1. n + Len(t) = Len(es) /\ Len(t) \in 0..Len(t) /\ k + 1 \in 0..(k + 1)
      BY <1>1, <1>6, <1>9, <2>1
    <3>2. Visited(g, heads[k + 1], t, Len(t)) = Visited(g, ids[1], es, Len(es))
      BY <1>20, <3>1
    <3>3. /\ ids[(k + 1) + 1] = Visited(g, ids[1], es, Len(es))
          /\ NodeMatches(g.nodes[ids[(k + 1) + 1]], NodeStepOf(path, k + 1))
      BY <1>3, <3>1
    <3> QED BY <3>2, <3>3
  <2> HIDE DEF w
  <2> QED BY <1>6, <1>9, <1>13, <2>1, <2>2, <2>3, <2>4, <2>5 DEF Fits
<1>22. v = Extend(g, k, w, t)
  <2> DEFINE reached == Visited(g, heads[k + 1], t, Len(t))
             is == Append(heads, reached)
             all == front \o t
             long == LongerCut(short, k, Len(front \o t))
  <2>1. Len(t) \in Nat
    BY <1>9, LenProperties
  <2>2. reached = ids[k + 2] /\ reached \in N
    <3>1. n + Len(t) = Len(es) /\ Len(t) \in 0..Len(t) /\ k + 1 \in 0..(k + 1)
          /\ (k + 1) + 1 = k + 2 /\ k + 2 \in 1..Len(ids)
      BY <1>1, <1>6, <1>9, <2>1
    <3>2. ids[(k + 1) + 1] = Visited(g, ids[1], es, Len(es))
      BY <1>3, <3>1
    <3>3. reached = Visited(g, ids[1], es, Len(es))
      BY <1>20, <3>1
    <3> QED BY <1>7, <3>1, <3>2, <3>3
  <2> HIDE DEF reached
  <2>3. is = ids
    <3>1. /\ is \in Seq(N) /\ Len(is) = (k + 1) + 1
          /\ \A q \in 1..(k + 1) : is[q] = heads[q]
          /\ is[(k + 1) + 1] = reached
      BY <1>10, <2>2, AppendProperties
    <3> HIDE DEF is
    <3>2. ASSUME NEW q \in 1..Len(ids) PROVE is[q] = ids[q]
      <4>1. CASE q = (k + 1) + 1
        BY <4>1, <2>2, <3>1
      <4>2. CASE q # (k + 1) + 1
        <5>1. q \in 1..(k + 1)
          BY <1>1, <4>2
        <5> QED BY <5>1, <1>10, <3>1
      <4> QED BY <4>1, <4>2
    <3> QED BY <1>1, <3>1, <3>2, SeqEqual
  <2>4. all = es
    <3>1. /\ all \in Seq(E) /\ Len(all) = Len(front) + Len(t)
          /\ \A q \in 1..(Len(front) + Len(t)) :
                all[q] = IF q <= Len(front) THEN front[q] ELSE t[q - Len(front)]
      BY <1>8, <1>9, ConcatProperties
    <3> HIDE DEF all
    <3>2. Len(all) = Len(es)
      BY <1>1, <1>6, <1>8, <1>9, <3>1
    <3>3. ASSUME NEW q \in 1..Len(es) PROVE all[q] = es[q]
      <4>1. CASE q <= n
        <5>1. q \in 1..n
          BY <4>1
        <5> QED BY <5>1, <4>1, <1>8, <3>1, <3>2
      <4>2. CASE q > n
        <5>1. q - n \in 1..Len(t) /\ n + (q - n) = q /\ ~(q <= n)
          BY <4>2, <1>1, <1>6, <1>9
        <5> QED BY <5>1, <1>8, <1>9, <3>1, <3>2
      <4> QED BY <4>1, <4>2, <1>6
    <3> QED BY <1>1, <3>1, <3>2, <3>3, SeqEqual
  <2>5. long = cut
    <3>1. cut \in [0..(k + 1) -> 0..Len(es)]
      BY <1>1 DEF Cuts
    <3>2. ASSUME NEW i \in 0..(k + 1)
          PROVE  (IF i = k + 1 THEN Len(es) ELSE short[i]) = cut[i]
      <4>1. CASE i = k + 1
        BY <4>1, <1>3
      <4>2. CASE i # k + 1
        <5>1. i \in 0..k
          BY <4>2
        <5> QED BY <5>1, <4>2, <1>11
      <4> QED BY <4>1, <4>2
    <3>3. long = [i \in 0..(k + 1) |-> IF i = k + 1 THEN Len(es) ELSE short[i]]
      BY <2>4 DEF LongerCut
    <3> QED BY <3>1, <3>2, <3>3
  <2>6. Extend(g, k, w, t) = [ids |-> is, edges |-> all, cut |-> long]
    BY <1>13 DEF Extend, reached
  <2> QED BY <1>1, <2>3, <2>4, <2>5, <2>6
<1> HIDE DEF w
<1> QED BY <1>18, <1>21, <1>22

(* Different extensions are different walks: the last but one cut of a     *)
(* walk says where the chain added last began.                             *)
LEMMA ExtendInjective ==
    ASSUME NEW g, IsGraph(g), NEW r, r.max_total_hops \in Nat, NEW k \in Nat,
           NEW w \in Walks(g, r, k), NEW v \in Walks(g, r, k),
           NEW t, NEW u, Fits(g, r, k, w, t), Fits(g, r, k, v, u),
           Extend(g, k, w, t) = Extend(g, k, v, u)
    PROVE  w = v /\ t = u
<1> DEFINE E == 1..Len(g.edges)
           N == 1..Len(g.nodes)
<1>1. /\ w = [ids |-> w.ids, edges |-> w.edges, cut |-> w.cut]
      /\ w.ids \in Seq(N) /\ w.edges \in Seq(E) /\ w.cut \in Cuts(k, w.edges)
      /\ Len(w.edges) \in Nat /\ w.ids[k + 1] \in N
      /\ Satisfies(g, r.path, k, w.ids, w.edges, w.cut)
  BY WalkParts
<1>2. /\ v = [ids |-> v.ids, edges |-> v.edges, cut |-> v.cut]
      /\ v.ids \in Seq(N) /\ v.edges \in Seq(E) /\ v.cut \in Cuts(k, v.edges)
      /\ Len(v.edges) \in Nat /\ v.ids[k + 1] \in N
      /\ Satisfies(g, r.path, k, v.ids, v.edges, v.cut)
  BY WalkParts
<1>3. t \in Seq(E) /\ u \in Seq(E) /\ t # <<>> /\ u # <<>>
  BY DEF Fits
<1>4. /\ Append(w.ids, Visited(g, w.ids[k + 1], t, Len(t)))
            = Append(v.ids, Visited(g, v.ids[k + 1], u, Len(u)))
      /\ w.edges \o t = v.edges \o u
      /\ LongerCut(w.cut, k, Len(w.edges \o t)) = LongerCut(v.cut, k, Len(v.edges \o u))
  BY DEF Extend
<1>5. /\ Visited(g, w.ids[k + 1], t, Len(t)) \in N
      /\ Visited(g, v.ids[k + 1], u, Len(u)) \in N
  <2>1. ASSUME NEW from, NEW s \in Seq(E), s # <<>> PROVE Visited(g, from, s, Len(s)) \in N
    <3>1. Len(s) \in Nat /\ Len(s) # 0 /\ \A q \in 1..Len(s) : s[q] \in E
      BY <2>1, LenProperties, EmptySeq, ElementOfSeq
    <3>2. Len(s) \in 1..Len(s)
      BY <3>1
    <3> QED BY <3>1, <3>2, GraphParts DEF Visited
  <2> QED BY <1>3, <2>1
<1>6. w.ids = v.ids
  BY <1>1, <1>2, <1>4, <1>5, AppendInjective
<1>7. w.cut = v.cut
  <2>1. \A i \in 0..k : w.cut[i] = v.cut[i]
    <3> SUFFICES ASSUME NEW i \in 0..k PROVE w.cut[i] = v.cut[i]
      OBVIOUS
    <3>1. i \in 0..(k + 1) /\ i # k + 1
      OBVIOUS
    <3>2. \A c, n : LongerCut(c, k, n)[i] = c[i]
      BY <3>1 DEF LongerCut
    <3> QED BY <1>4, <3>2
  <2>2. w.cut \in [0..k -> 0..Len(w.edges)] /\ v.cut \in [0..k -> 0..Len(v.edges)]
    BY <1>1, <1>2 DEF Cuts
  <2> QED BY <2>1, <2>2
<1>8. Len(w.edges) = Len(v.edges)
  BY <1>1, <1>2, <1>7 DEF Satisfies
<1>9. w.edges = v.edges
  <2>1. Len(t) \in Nat /\ Len(u) \in Nat
    BY <1>3, LenProperties
  <2>2. \A i \in 1..Len(w.edges) : (w.edges \o t)[i] = w.edges[i]
    <3>1. \A i \in 1..(Len(w.edges) + Len(t)) : (w.edges \o t)[i] =
              IF i <= Len(w.edges) THEN w.edges[i] ELSE t[i - Len(w.edges)]
      BY <1>1, <1>3, ConcatProperties
    <3>2. \A i \in 1..Len(w.edges) : i \in 1..(Len(w.edges) + Len(t)) /\ i <= Len(w.edges)
      BY <1>1, <2>1
    <3> QED BY <3>1, <3>2
  <2>3. \A i \in 1..Len(v.edges) : (v.edges \o u)[i] = v.edges[i]
    <3>1. \A i \in 1..(Len(v.edges) + Len(u)) : (v.edges \o u)[i] =
              IF i <= Len(v.edges) THEN v.edges[i] ELSE u[i - Len(v.edges)]
      BY <1>2, <1>3, ConcatProperties
    <3>2. \A i \in 1..Len(v.edges) : i \in 1..(Len(v.edges) + Len(u)) /\ i <= Len(v.edges)
      BY <1>2, <2>1
    <3> QED BY <3>1, <3>2
  <2>4. \A i \in 1..Len(w.edges) : w.edges[i] = v.edges[i]
    BY <1>4, <1>8, <2>2, <2>3
  <2> QED BY <1>1, <1>2, <1>8, <2>4, SeqEqual
<1>10. t = u
  <2>1. w.edges \o t = w.edges \o u
    BY <1>4, <1>9
  <2>2. \A S : \A s, x, y \in Seq(S) : s \o x = s \o y => x = y
    BY ConcatSimplifications
  <2> HIDE DEF E
  <2>3. \A s, x, y \in Seq(E) : s \o x = s \o y => x = y
    BY <2>2
  <2> QED BY <1>1, <1>3, <2>1, <2>3
<1> QED BY <1>1, <1>2, <1>6, <1>7, <1>9, <1>10

(* If the walks over k pairs are numbered, and the ways to take them on to *)
(* the next pair, then so are the walks over k + 1 pairs.                  *)
LEMMA NumberExtended ==
    ASSUME NEW g, IsGraph(g), NEW r, r.max_total_hops \in Nat, NEW k \in Nat,
           EdgeStepOf(r.path, k + 1).min_hops \in Nat,
           EdgeStepOf(r.path, k + 1).max_hops \in Nat,
           NEW I, NEW b \in Bijection(I, Walks(g, r, k)),
           NEW H, \A p \in H : p = <<p[1], p[2]>> /\ p[1] \in I /\ Fits(g, r, k, b[p[1]], p[2]),
           \A i \in I : \A t : Fits(g, r, k, b[i], t) => <<i, t>> \in H,
           NEW J, NEW c \in Bijection(J, H)
    PROVE  [j \in J |-> Extend(g, k, b[c[j][1]], c[j][2])] \in Bijection(J, Walks(g, r, k + 1))
<1> DEFINE f == [j \in J |-> Extend(g, k, b[c[j][1]], c[j][2])]
<1>1. /\ b \in [I -> Walks(g, r, k)]
      /\ \A x, y \in I : b[x] = b[y] => x = y
      /\ \A w \in Walks(g, r, k) : \E x \in I : b[x] = w
  BY BijectionIs
<1>2. /\ c \in [J -> H]
      /\ \A x, y \in J : c[x] = c[y] => x = y
      /\ \A p \in H : \E x \in J : c[x] = p
  BY BijectionIs
<1>3. ASSUME NEW j \in J
      PROVE  /\ c[j][1] \in I /\ c[j] = <<c[j][1], c[j][2]>>
             /\ b[c[j][1]] \in Walks(g, r, k)
             /\ Fits(g, r, k, b[c[j][1]], c[j][2])
  BY <1>1, <1>2
<1>4. f \in [J -> Walks(g, r, k + 1)]
  <2>1. ASSUME NEW j \in J PROVE Extend(g, k, b[c[j][1]], c[j][2]) \in Walks(g, r, k + 1)
    BY <1>3, WalkExtended
  <2> QED BY <2>1
<1>5. \A j \in J : f[j] = Extend(g, k, b[c[j][1]], c[j][2])
  OBVIOUS
<1> HIDE DEF f
<1>6. ASSUME NEW x \in J, NEW y \in J, f[x] = f[y] PROVE x = y
  <2>1. Extend(g, k, b[c[x][1]], c[x][2]) = Extend(g, k, b[c[y][1]], c[y][2])
    BY <1>5, <1>6
  <2>2. b[c[x][1]] = b[c[y][1]] /\ c[x][2] = c[y][2]
    BY <1>3, <2>1, ExtendInjective
  <2>3. c[x][1] = c[y][1]
    BY <1>1, <1>3, <2>2
  <2>4. c[x] = c[y]
    BY <1>3, <2>2, <2>3
  <2> QED BY <1>2, <2>4
<1>7. ASSUME NEW v \in Walks(g, r, k + 1) PROVE \E j \in J : f[j] = v
  <2>1. PICK w \in Walks(g, r, k) : \E t : Fits(g, r, k, w, t) /\ v = Extend(g, k, w, t)
    BY WalkShrunk
  <2>2. PICK t : Fits(g, r, k, w, t) /\ v = Extend(g, k, w, t)
    BY <2>1
  <2>3. PICK i \in I : b[i] = w
    BY <1>1
  <2>4. <<i, t>> \in H
    BY <2>2, <2>3
  <2>5. PICK j \in J : c[j] = <<i, t>>
    BY <1>2, <2>4
  <2> QED BY <1>5, <2>2, <2>3, <2>5
<1>8. f \in Bijection(J, Walks(g, r, k + 1))
  BY <1>4, <1>6, <1>7, BijectionIs
<1> QED BY <1>8 DEF f

(* A path that no walk follows to pair k, none follows any further.        *)
LEMMA NoFurther ==
    ASSUME NEW g, IsGraph(g), NEW r, r.max_total_hops \in Nat, NEW k \in Nat, NEW n \in Nat,
           Walks(g, r, k) = {}
    PROVE  Walks(g, r, k + n) = {}
<1> DEFINE S == {i \in 0..n : Walks(g, r, k + i) = {}}
<1>1. 0 \in S
  OBVIOUS
<1>2. ASSUME NEW i \in 0..(n - 1), i \in S PROVE i + 1 \in S
  <2>1. k + i \in Nat /\ i + 1 \in 0..n /\ k + (i + 1) = (k + i) + 1 /\ Walks(g, r, k + i) = {}
    BY <1>2
  <2>2. ASSUME NEW v \in Walks(g, r, (k + i) + 1) PROVE FALSE
    BY <2>1, <2>2, WalkShrunk
  <2> QED BY <2>1, <2>2
<1>3. n \in S
  <2> HIDE DEF S
  <2> QED BY <1>1, <1>2, InductionUpTo
<1> QED BY <1>3

(* A walk over no pairs is a node that the first node step accepts.        *)
LEMMA WalksOverNone ==
    ASSUME NEW g, IsGraph(g), NEW r, r.max_total_hops \in Nat
    PROVE  \A v : v \in Walks(g, r, 0) <=>
              \E n \in 1..Len(g.nodes) :
                 /\ NodeMatches(g.nodes[n], NodeStepOf(r.path, 0))
                 /\ v = [ids |-> <<n>>, edges |-> <<>>, cut |-> [i \in 0..0 |-> 0]]
<1> DEFINE zero == [i \in 0..0 |-> 0]
<1>1. zero[0] = 0 /\ \A c \in [0..0 -> Nat] : c[0] = 0 => c = zero
  OBVIOUS
<1>2. zero \in Cuts(0, <<>>)
  BY DEF Cuts
<1> HIDE DEF zero
<1>3. ASSUME NEW v \in Walks(g, r, 0)
      PROVE  \E n \in 1..Len(g.nodes) :
                 /\ NodeMatches(g.nodes[n], NodeStepOf(r.path, 0))
                 /\ v = [ids |-> <<n>>, edges |-> <<>>, cut |-> zero]
  <2>0. 0 \in Nat
    OBVIOUS
  <2>1. /\ v = [ids |-> v.ids, edges |-> v.edges, cut |-> v.cut]
        /\ v.ids \in Seq(1..Len(g.nodes)) /\ v.edges \in Seq(1..Len(g.edges))
        /\ v.cut \in Cuts(0, v.edges)
        /\ Len(v.edges) \in Nat /\ Len(v.ids) = 0 + 1 /\ v.ids[0 + 1] \in 1..Len(g.nodes)
        /\ Satisfies(g, r.path, 0, v.ids, v.edges, v.cut)
    BY <2>0, WalkParts
  <2>2. /\ v.cut[0] = 0 /\ v.cut[0] = Len(v.edges)
        /\ NodeMatches(g.nodes[v.ids[0 + 1]], NodeStepOf(r.path, 0))
    BY <2>1 DEF Satisfies
  <2>3. v.edges = <<>>
    BY <2>1, <2>2, EmptySeq
  <2>4. v.ids = <<v.ids[1]>>
    <3>1. v.ids[1] \in 1..Len(g.nodes) /\ Len(v.ids) = 1
      BY <2>1
    <3> DEFINE one == <<v.ids[1]>>
    <3>2. one \in Seq(1..Len(g.nodes)) /\ Len(one) = 1 /\ one[1] = v.ids[1]
      BY <3>1
    <3> HIDE DEF one
    <3>3. \A i \in 1..Len(v.ids) : v.ids[i] = one[i]
      BY <3>1, <3>2
    <3>4. v.ids = one
      BY <2>1, <3>1, <3>2, <3>3, SeqEqual
    <3> QED BY <3>4 DEF one
  <2>5. v.cut = zero
    <3>1. v.cut \in [0..0 -> 0..Len(v.edges)]
      BY <2>1 DEF Cuts
    <3>2. v.cut \in [0..0 -> Nat]
      BY <2>1, <3>1
    <3> QED BY <1>1, <2>2, <3>2
  <2> DEFINE n == v.ids[1]
  <2>6. n \in 1..Len(g.nodes) /\ NodeMatches(g.nodes[n], NodeStepOf(r.path, 0))
    BY <2>1, <2>2
  <2>7. v = [ids |-> <<n>>, edges |-> <<>>, cut |-> zero]
    BY <2>1, <2>3, <2>4, <2>5
  <2> HIDE DEF n
  <2> QED BY <2>6, <2>7
<1>4. ASSUME NEW n \in 1..Len(g.nodes), NodeMatches(g.nodes[n], NodeStepOf(r.path, 0))
      PROVE  [ids |-> <<n>>, edges |-> <<>>, cut |-> zero] \in Walks(g, r, 0)
  <2>1. IsTrail(g, n, <<>>)
    BY DEF IsTrail
  <2>2. Satisfies(g, r.path, 0, <<n>>, <<>>, zero)
    BY <1>1, <1>4, <2>1 DEF Satisfies, Visited
  <2>3. <<n>> \in Seq(1..Len(g.nodes)) /\ <<>> \in Seq(1..Len(g.edges))
    BY EmptySeq
  <2>4. Len(<<>>) <= r.max_total_hops
    OBVIOUS
  <2>5. IsWalk(g, r, 0, [ids |-> <<n>>, edges |-> <<>>, cut |-> zero])
    BY <1>2, <2>2, <2>3, <2>4 DEF IsWalk
  <2>6. 0 \in Nat
    OBVIOUS
  <2> QED BY <2>5, <2>6, WalksAre
<1> QED BY <1>3, <1>4 DEF zero

-----------------------------------------------------------------------------
(* Counting findings.                                                      *)

(* The findings made of a numbering of the walks, as a bag.                *)
FindingsOf(r, W) ==
    [f \in {FindingOf(r, w) : w \in W} |-> Cardinality({w \in W : FindingOf(r, w) = f})]

(* The findings made of a numbering of the walks, as a bag: how often a    *)
(* finding occurs is how many walks it stands for.                         *)
LEMMA BagOfWalks ==
    ASSUME NEW r, NEW n \in Nat, NEW W, NEW b \in Bijection(1..n, W),
           NEW S, NEW s \in Seq(S), Len(s) = n, \A i \in 1..n : s[i] = FindingOf(r, b[i])
    PROVE  ToBag(s) = FindingsOf(r, W)
<1>1. /\ b \in [1..n -> W]
      /\ \A x, y \in 1..n : b[x] = b[y] => x = y
      /\ \A w \in W : \E x \in 1..n : b[x] = w
  BY BijectionIs
<1>2. DOMAIN ToBag(s) = {FindingOf(r, w) : w \in W}
  <2>1. DOMAIN ToBag(s) = {s[i] : i \in 1..n}
    BY BagIs
  <2>2. ASSUME NEW i \in 1..n PROVE s[i] \in {FindingOf(r, w) : w \in W}
    BY <1>1
  <2>3. ASSUME NEW w \in W PROVE FindingOf(r, w) \in {s[i] : i \in 1..n}
    BY <1>1
  <2> QED BY <2>1, <2>2, <2>3
<1>3. ASSUME NEW f \in DOMAIN ToBag(s)
      PROVE  ToBag(s)[f] = Cardinality({w \in W : FindingOf(r, w) = f})
  <2> DEFINE A == Positions(s, f)
             C == {w \in W : FindingOf(r, w) = f}
             h == [i \in A |-> b[i]]
  <2>1. DOMAIN s = 1..n
    BY LenProperties
  <2>2. \A i : i \in A <=> i \in 1..n /\ FindingOf(r, b[i]) = f
    BY <2>1 DEF Positions
  <2>3. IsFiniteSet(A) /\ ToBag(s)[f] = Cardinality(A)
    BY BagIs
  <2> HIDE DEF A
  <2>4. h \in [A -> C]
    BY <1>1, <2>2
  <2>5. \A x, y \in A : h[x] = h[y] => x = y
    BY <1>1, <2>2
  <2>6. \A w \in C : \E x \in A : h[x] = w
    BY <1>1, <2>2
  <2> HIDE DEF h, C
  <2>7. h \in Bijection(A, C)
    BY <2>4, <2>5, <2>6, BijectionIs
  <2>8. ExistsBijection(A, C)
    BY <2>7, Fun_ExistsBij
  <2>9. Cardinality(C) = Cardinality(A)
    BY <2>3, <2>8, FS_Bijection
  <2> QED BY <2>3, <2>9 DEF C
<1>4. ToBag(s) = [f \in DOMAIN ToBag(s) |-> ToBag(s)[f]]
  BY DEF ToBag
<1> QED BY <1>2, <1>3, <1>4 DEF FindingsOf

-----------------------------------------------------------------------------
(* The inductive invariant of the refinement.                              *)

(* The partial matches ms stand for the walks W, one each.                 *)
Lists(ms, W) ==
    \E b \in Bijection(1..Len(ms), W) :
        \A i \in 1..Len(ms) : ms[i].ids = b[i].ids /\ ms[i].edges = b[i].edges

SeedWalks(n) == {w \in Walks(graph, rule, 0) : w.ids[1] < n}

FrontierComplete ==
    /\ pc = "seed" => Lists(frontier, SeedWalks(fi))
    /\ pc \in {"pair", "expand", "walk", "collect"} =>
          Lists(frontier, Walks(graph, rule, si - 1))
    /\ pc = "emit" => Lists(frontier, Walks(graph, rule, PairCount(rule.path)))

(* The chains the walk has to collect.                                     *)
ChainsOfWalk ==
    {t \in Seq(1..Len(graph.edges)) :
        /\ ChainOK(graph, entry.at, edge_step, effective_max, t)
        /\ Len(t) >= edge_step.min_hops}

ResultsComplete ==
    /\ pc \in {"walk", "collect"} =>
          \A i, j \in 1..Len(results) : results[i] = results[j] => i = j
    /\ pc = "walk" =>
          \A t : In(t, results) <=> t \in ChainsOfWalk /\ Seen(trail, cursor, t)

(* The extensions that have been looked at: all those of the entries of ms *)
(* before n, and of entry n those with a chain in taken.                   *)
Handled(g, r, k, ms, n, taken) ==
    {p \in (1..Len(ms)) \X Seq(1..Len(g.edges)) :
        /\ Fits(g, r, k, ms[p[1]], p[2])
        /\ p[1] < n \/ (p[1] = n /\ p[2] \in taken)}

(* The partial matches in next stand for the extensions in H, one each.    *)
ListsNext(g, k, ms, next, H) ==
    \E c \in Bijection(1..Len(next), H) :
        \A i \in 1..Len(next) :
            /\ next[i].ids = Extend(g, k, ms[c[i][1]], c[i][2]).ids
            /\ next[i].edges = Extend(g, k, ms[c[i][1]], c[i][2]).edges

Taken == IF pc = "collect" THEN {t \in Seq(1..Len(graph.edges)) : ~In(t, results)} ELSE {}

NextComplete ==
    pc \in {"expand", "walk", "collect"} =>
        ListsNext(graph, si - 1, frontier, next_frontier,
                  Handled(graph, rule, si - 1, frontier, fi, Taken))

ParsesAt(k) == Parses(EdgeStepOf(rule.path, k).where) /\ Parses(NodeStepOf(rule.path, k).where)

(* A pair of the rule is reached only with walks that lead to it, and no   *)
(* predicate met so far was malformed.                                     *)
PredicatesParse ==
    /\ pc \in {"seed", "pair", "expand", "walk", "collect", "emit"} =>
          Parses(NodeStepOf(rule.path, 0).where)
    /\ pc = "pair" => /\ \A k \in 1..(si - 1) : ParsesAt(k)
                      /\ si > 1 => frontier # <<>>
    /\ pc \in {"expand", "walk", "collect"} => \A k \in 1..si : ParsesAt(k)
    /\ pc = "emit" => \A k \in 1..PairCount(rule.path) :
                         ParsesAt(k) \/ (k > 1 /\ Walks(graph, rule, k - 1) = {})

CInv == FrontierComplete /\ ResultsComplete /\ NextComplete /\ PredicatesParse

-----------------------------------------------------------------------------
(* No partial matches stand for no walks.                                  *)
LEMMA ListsNone == Lists(<<>>, {})
<1> DEFINE b == [i \in 1..0 |-> <<>>[i]]
<1>1. b \in Bijection(1..0, {})
  BY NumberNone
<1> HIDE DEF b
<1>2. b \in Bijection(1..Len(<<>>), {})
  BY <1>1
<1>3. \A i \in 1..Len(<<>>) : <<>>[i].ids = b[i].ids /\ <<>>[i].edges = b[i].edges
  OBVIOUS
<1> QED BY <1>2, <1>3 DEF Lists

(* One more partial match for one more walk.                               *)
LEMMA ListsOneMore ==
    ASSUME NEW S, NEW ms \in Seq(S), NEW m \in S, NEW W, Lists(ms, W),
           NEW w, w \notin W, m.ids = w.ids, m.edges = w.edges
    PROVE  Lists(Append(ms, m), W \cup {w})
<1> DEFINE n == Len(ms)
           all == Append(ms, m)
<1>1. PICK b \in Bijection(1..n, W) :
         \A i \in 1..n : ms[i].ids = b[i].ids /\ ms[i].edges = b[i].edges
  BY DEF Lists
<1> DEFINE c == [i \in 1..(n + 1) |-> IF i = n + 1 THEN w ELSE b[i]]
<1>2. /\ n \in Nat /\ Len(all) = n + 1
      /\ \A i \in 1..n : all[i] = ms[i]
      /\ all[n + 1] = m
  BY AppendProperties, LenProperties
<1> HIDE DEF n, all
<1>3. c \in Bijection(1..(n + 1), W \cup {w})
  BY <1>1, <1>2, NumberOneMore
<1>4. ASSUME NEW i \in 1..(n + 1) PROVE all[i].ids = c[i].ids /\ all[i].edges = c[i].edges
  <2>1. CASE i = n + 1
    BY <2>1, <1>2
  <2>2. CASE i # n + 1
    <3>1. i \in 1..n
      BY <2>2, <1>2
    <3> QED BY <2>2, <3>1, <1>1, <1>2
  <2> QED BY <2>1, <2>2
<1> HIDE DEF c
<1>5. Lists(all, W \cup {w})
  BY <1>2, <1>3, <1>4 DEF Lists
<1> QED BY <1>5 DEF all

(* No partial matches stand for no extensions.                             *)
LEMMA ListsNextNone ==
    ASSUME NEW g, NEW k, NEW ms
    PROVE  ListsNext(g, k, ms, <<>>, {})
<1> DEFINE b == [i \in 1..0 |-> <<>>[i]]
<1>1. b \in Bijection(1..0, {})
  BY NumberNone
<1> HIDE DEF b
<1>2. b \in Bijection(1..Len(<<>>), {})
  BY <1>1
<1> QED BY <1>2 DEF ListsNext

(* One more partial match for one more extension.                          *)
LEMMA ListsNextOneMore ==
    ASSUME NEW g, NEW k, NEW ms, NEW S, NEW next \in Seq(S), NEW m \in S, NEW H,
           ListsNext(g, k, ms, next, H),
           NEW i, NEW t, <<i, t>> \notin H,
           m.ids = Extend(g, k, ms[i], t).ids, m.edges = Extend(g, k, ms[i], t).edges
    PROVE  ListsNext(g, k, ms, Append(next, m), H \cup {<<i, t>>})
<1> DEFINE n == Len(next)
           all == Append(next, m)
           X(p) == Extend(g, k, ms[p[1]], p[2])
<1>1. PICK b \in Bijection(1..n, H) :
         \A q \in 1..n : next[q].ids = X(b[q]).ids /\ next[q].edges = X(b[q]).edges
  BY DEF ListsNext
<1> DEFINE p == <<i, t>>
           c == [q \in 1..(n + 1) |-> IF q = n + 1 THEN p ELSE b[q]]
<1>2. /\ n \in Nat /\ Len(all) = n + 1
      /\ \A q \in 1..n : all[q] = next[q]
      /\ all[n + 1] = m
  BY AppendProperties, LenProperties
<1>3. m.ids = X(p).ids /\ m.edges = X(p).edges /\ p \notin H
  OBVIOUS
<1> HIDE DEF n, all, p, X
<1>4. c \in Bijection(1..(n + 1), H \cup {p})
  BY <1>1, <1>2, <1>3, NumberOneMore
<1>5. ASSUME NEW q \in 1..(n + 1) PROVE all[q].ids = X(c[q]).ids /\ all[q].edges = X(c[q]).edges
  <2>1. CASE q = n + 1
    BY <2>1, <1>2, <1>3
  <2>2. CASE q # n + 1
    <3>1. q \in 1..n
      BY <2>2, <1>2
    <3> QED BY <2>2, <3>1, <1>1, <1>2
  <2> QED BY <2>1, <2>2
<1> HIDE DEF c
<1>6. ListsNext(g, k, ms, all, H \cup {p})
  BY <1>2, <1>4, <1>5 DEF ListsNext, X
<1> QED BY <1>6 DEF all, p

(* Chains of an edge step within a rule's total are chains of the walk's   *)
(* bound: the clamp of the step's max_hops loses none.                     *)
LEMMA ClampExact ==
    ASSUME NEW max \in Nat, NEW total \in Nat, NEW hops \in Nat, hops <= total, NEW n \in Nat
    PROVE  LET left == IF hops < total THEN total - hops ELSE 0
               bound == IF max < left THEN max ELSE left
           IN  n <= bound <=> n <= max /\ hops + n <= total
OBVIOUS

(* The bound of a walk is exact: a chain is within it if and only if it is *)
(* within its step's max_hops and, with the hops before it, within         *)
(* max_total_hops.                                                         *)
LEMMA EffectiveMaxExact ==
    ASSUME rule.max_total_hops \in Nat,
           NEW hops \in Nat, hops <= rule.max_total_hops, edge_step.max_hops \in Nat, NEW n \in Nat
    PROVE  n <= EffectiveMax(edge_step, hops)
              <=> n <= edge_step.max_hops /\ hops + n <= rule.max_total_hops
<1>1. EffectiveMax(edge_step, hops) =
         LET left == IF hops < rule.max_total_hops THEN rule.max_total_hops - hops ELSE 0
         IN  IF edge_step.max_hops < left THEN edge_step.max_hops ELSE left
  BY DEF EffectiveMax, RemainingBudget
<1> QED BY <1>1, ClampExact

(* For a partial match that stands for a walk, the chains the code keeps   *)
(* are the chains that take the walk to the next pair.                     *)
LEMMA KeptIsFits ==
    ASSUME TypeOK, pc \in {"walk", "collect"},
           PartialOK(graph, rule, entry, si - 1),
           NEW t
    PROVE  /\ Fits(graph, rule, si - 1, entry, t) <=> t \in ChainsOfWalk /\ Kept(t)
           /\ Extended(t).ids = Extend(graph, si - 1, entry, t).ids
           /\ Extended(t).edges = Extend(graph, si - 1, entry, t).edges
<1>1. /\ si \in Nat /\ (si - 1) + 1 = si
      /\ entry \in PartialMatch /\ edge_step.max_hops \in Nat /\ rule.max_total_hops \in Nat
  BY WalkContext, RuleFacts DEF TypeOK
<1>2. /\ entry.hops = Len(entry.edges) /\ entry.hops <= rule.max_total_hops
      /\ entry.at = entry.ids[si] /\ entry.hops \in Nat
  BY <1>1 DEF PartialOK, PartialMatch
<1>3. ASSUME t \in Seq(1..Len(graph.edges))
      PROVE  Len(t) <= effective_max
                <=> Len(t) <= edge_step.max_hops /\ Len(entry.edges) + Len(t) <= rule.max_total_hops
  <2>1. Len(t) \in Nat
    BY <1>3, LenProperties
  <2> QED BY <1>1, <1>2, <2>1, EffectiveMaxExact DEF effective_max
<1>4. Fits(graph, rule, si - 1, entry, t) <=>
         /\ t \in Seq(1..Len(graph.edges)) /\ t # <<>>
         /\ IsTrail(graph, entry.at, t)
         /\ \A n \in 1..Len(t) : EdgeMatches(graph.edges[t[n]], edge_step)
         /\ Len(t) >= edge_step.min_hops
         /\ Len(t) <= edge_step.max_hops
         /\ Len(entry.edges) + Len(t) <= rule.max_total_hops
         /\ NodeMatches(graph.nodes[Visited(graph, entry.at, t, Len(t))], node_step)
  BY <1>1, <1>2 DEF Fits, edge_step, node_step
<1>5. Fits(graph, rule, si - 1, entry, t) <=> t \in ChainsOfWalk /\ Kept(t)
  BY <1>3, <1>4 DEF ChainsOfWalk, ChainOK, Kept, Reached
<1>6. /\ Extended(t).ids = Extend(graph, si - 1, entry, t).ids
      /\ Extended(t).edges = Extend(graph, si - 1, entry, t).edges
  BY <1>1, <1>2 DEF Extended, Extend, Reached
<1> QED BY <1>5, <1>6

-----------------------------------------------------------------------------
(* The invariant is established and preserved.                             *)

(* Nothing has been searched at the start.                                 *)
LEMMA CInit == Init => CInv
BY DEF Init, CInv, FrontierComplete, ResultsComplete, NextComplete, PredicatesParse

(* The graph and the rule being run, where a rule is being run.            *)
LEMMA RunningFacts ==
    ASSUME TypeOK, pc \notin {"rule", "done"}
    PROVE  /\ ri \in 1..Len(rules) /\ IsGraph(graph)
           /\ rule.max_total_hops \in Nat /\ PairCount(rule.path) \in Nat
           /\ Len(graph.nodes) \in Nat /\ Len(graph.edges) \in Nat
           /\ Len(frontier) \in Nat
           /\ \A j \in 1..PairCount(rule.path) :
                 /\ EdgeStepOf(rule.path, j).min_hops \in Nat
                 /\ EdgeStepOf(rule.path, j).max_hops \in Nat
<1>1. ri \in 1..Len(rules) /\ rules \in RuleLists /\ graph \in Graphs
  BY DEF TypeOK
<1>2. IsGraph(graph)
  BY <1>1, GraphsAssumption
<1>3. Len(frontier) \in Nat
  BY LenProperties DEF TypeOK
<1> QED BY <1>1, <1>2, <1>3, RuleFacts, GraphParts

(* A rule starts with an empty frontier and no node offered.               *)
LEMMA CStartRule == IInv /\ CInv /\ StartRule => CInv'
<1> SUFFICES ASSUME IInv, StartRule PROVE CInv'
  OBVIOUS
<1>1. CASE ~Parses(NodeStepOf(rule.path, 0).where)
  BY <1>1 DEF StartRule, CInv, FrontierComplete, ResultsComplete, NextComplete, PredicatesParse
<1>2. CASE Parses(NodeStepOf(rule.path, 0).where)
  <2>1. pc' = "seed" /\ frontier' = <<>> /\ fi' = 1 /\ UNCHANGED <<graph, rules, ri>>
    BY <1>2 DEF StartRule, given
  <2>2. /\ IsGraph(graph) /\ rule.max_total_hops \in Nat
    <3>1. ri \in 1..Len(rules) /\ rules \in RuleLists /\ graph \in Graphs
      BY DEF StartRule, IInv, TypeOK
    <3> QED BY <3>1, RuleFacts, GraphsAssumption
  <2>3. rule' = rule
    BY <2>1 DEF rule
  <2>4. SeedWalks(1) = {}
    <3> SUFFICES ASSUME NEW w \in SeedWalks(1) PROVE FALSE
      OBVIOUS
    <3>1. w \in Walks(graph, rule, 0) /\ w.ids[1] < 1
      BY DEF SeedWalks
    <3>2. PICK n \in 1..Len(graph.nodes) :
             w = [ids |-> <<n>>, edges |-> <<>>, cut |-> [i \in 0..0 |-> 0]]
      BY <2>2, <3>1, WalksOverNone
    <3> QED BY <3>1, <3>2
  <2>5. Lists(frontier', SeedWalks(fi)')
    BY <2>1, <2>3, <2>4, ListsNone DEF SeedWalks
  <2> QED BY <1>2, <2>1, <2>3, <2>5
          DEF CInv, FrontierComplete, ResultsComplete, NextComplete, PredicatesParse
<1> QED BY <1>1, <1>2

(* A node that the first node step accepts is a walk over no pairs, and no *)
(* other node is.                                                          *)
LEMMA CSeedNode == IInv /\ CInv /\ SeedNode => CInv'
<1> SUFFICES ASSUME IInv, CInv, SeedNode PROVE CInv'
  OBVIOUS
<1>1. /\ TypeOK /\ pc = "seed" /\ pc' = "seed" /\ fi' = fi + 1
      /\ UNCHANGED <<graph, rules, ri>> /\ rule' = rule
  BY DEF IInv, SeedNode, given, rule
<1>2. /\ IsGraph(graph) /\ rule.max_total_hops \in Nat /\ Len(graph.nodes) \in Nat
      /\ fi \in 1..Len(graph.nodes)
  BY <1>1, RunningFacts DEF SeedNode, TypeOK
<1>3. Lists(frontier, SeedWalks(fi))
  BY <1>1 DEF CInv, FrontierComplete
<1> DEFINE w == [ids |-> <<fi>>, edges |-> <<>>, cut |-> [i \in 0..0 |-> 0]]
           m == [at |-> fi, ids |-> <<fi>>, edges |-> <<>>, hops |-> 0]
           matches == NodeMatches(graph.nodes[fi], NodeStepOf(rule.path, 0))
<1>4. \A v : v \in Walks(graph, rule, 0) <=>
              \E n \in 1..Len(graph.nodes) :
                 /\ NodeMatches(graph.nodes[n], NodeStepOf(rule.path, 0))
                 /\ v = [ids |-> <<n>>, edges |-> <<>>, cut |-> [i \in 0..0 |-> 0]]
  BY <1>2, WalksOverNone
<1>5. SeedWalks(fi + 1) = SeedWalks(fi) \cup (IF matches THEN {w} ELSE {})
  <2>1. ASSUME NEW v \in SeedWalks(fi + 1)
        PROVE  v \in SeedWalks(fi) \cup (IF matches THEN {w} ELSE {})
    <3>1. v \in Walks(graph, rule, 0) /\ v.ids[1] < fi + 1
      BY <2>1 DEF SeedWalks
    <3>2. PICK n \in 1..Len(graph.nodes) :
             /\ NodeMatches(graph.nodes[n], NodeStepOf(rule.path, 0))
             /\ v = [ids |-> <<n>>, edges |-> <<>>, cut |-> [i \in 0..0 |-> 0]]
      BY <1>4, <3>1
    <3>3. v.ids[1] = n
      BY <3>2
    <3>4. CASE n = fi
      BY <3>2, <3>4
    <3>5. CASE n # fi
      <4>1. n < fi
        BY <3>1, <3>3, <3>5, <1>2
      <4> QED BY <3>1, <3>3, <4>1 DEF SeedWalks
    <3> QED BY <3>4, <3>5
  <2>2. ASSUME NEW v \in SeedWalks(fi) PROVE v \in SeedWalks(fi + 1)
    <3>1. v \in Walks(graph, rule, 0) /\ v.ids[1] < fi
      BY <2>2 DEF SeedWalks
    <3>2. PICK n \in 1..Len(graph.nodes) :
             v = [ids |-> <<n>>, edges |-> <<>>, cut |-> [i \in 0..0 |-> 0]]
      BY <1>4, <3>1
    <3>3. v.ids[1] = n
      BY <3>2
    <3>4. v.ids[1] < fi + 1
      BY <3>1, <3>3, <1>2
    <3> QED BY <3>1, <3>4 DEF SeedWalks
  <2>3. ASSUME matches PROVE w \in SeedWalks(fi + 1)
    <3>1. w \in Walks(graph, rule, 0)
      BY <1>2, <1>4, <2>3
    <3>2. w.ids[1] < fi + 1
      BY <1>2
    <3> QED BY <3>1, <3>2 DEF SeedWalks
  <2> QED BY <2>1, <2>2, <2>3
<1>6. Lists(frontier', SeedWalks(fi + 1))
  <2>1. CASE ~matches
    <3>1. frontier' = frontier
      BY <2>1 DEF SeedNode
    <3> QED BY <1>3, <1>5, <2>1, <3>1
  <2>2. CASE matches
    <3>1. frontier' = Append(frontier, m)
      BY <2>2 DEF SeedNode
    <3>2. m \in PartialMatch
      <4>1. fi \in Nat /\ <<fi>> \in Seq(Nat) /\ <<>> \in Seq(Nat)
        BY <1>2, EmptySeq
      <4> QED BY <4>1 DEF PartialMatch
    <3>3. m.ids = w.ids /\ m.edges = w.edges
      OBVIOUS
    <3>4. w \notin SeedWalks(fi)
      BY <1>2 DEF SeedWalks
    <3>5. frontier \in Seq(PartialMatch)
      BY <1>1 DEF TypeOK
    <3>6. SeedWalks(fi + 1) = SeedWalks(fi) \cup {w}
      BY <1>5, <2>2
    <3> HIDE DEF m, w
    <3>7. Lists(Append(frontier, m), SeedWalks(fi) \cup {w})
      BY <1>3, <3>2, <3>3, <3>4, <3>5, ListsOneMore
    <3> QED BY <3>1, <3>6, <3>7
  <2> QED BY <2>1, <2>2
<1>7. SeedWalks(fi)' = SeedWalks(fi + 1)
  BY <1>1 DEF SeedWalks
<1>8. Parses(NodeStepOf(rule.path, 0).where)
  BY <1>1 DEF CInv, PredicatesParse
<1> QED BY <1>1, <1>6, <1>7, <1>8
        DEF CInv, FrontierComplete, ResultsComplete, NextComplete, PredicatesParse

(* When every node has been offered, the frontier stands for the walks     *)
(* over no pairs.                                                          *)
LEMMA CSeedDone == IInv /\ CInv /\ SeedDone => CInv'
<1> SUFFICES ASSUME IInv, CInv, SeedDone PROVE CInv'
  OBVIOUS
<1>1. /\ TypeOK /\ pc = "seed" /\ si' = 1 /\ fi > Len(graph.nodes)
      /\ UNCHANGED <<graph, rules, ri, frontier>> /\ rule' = rule
      /\ pc' = IF PairCount(rule.path) = 0 THEN "emit" ELSE "pair"
  BY DEF IInv, SeedDone, given, rule
<1>2. /\ IsGraph(graph) /\ rule.max_total_hops \in Nat /\ Len(graph.nodes) \in Nat
      /\ fi \in Nat
  BY <1>1, RunningFacts DEF TypeOK
<1>3. SeedWalks(fi) = Walks(graph, rule, 0)
  <2> SUFFICES ASSUME NEW w \in Walks(graph, rule, 0) PROVE w.ids[1] < fi
    BY DEF SeedWalks
  <2>1. PICK n \in 1..Len(graph.nodes) :
           w = [ids |-> <<n>>, edges |-> <<>>, cut |-> [i \in 0..0 |-> 0]]
    BY <1>2, WalksOverNone
  <2>2. w.ids[1] = n
    BY <2>1
  <2> QED BY <1>1, <1>2, <2>2
<1>4. Lists(frontier, Walks(graph, rule, 0)) /\ Parses(NodeStepOf(rule.path, 0).where)
  BY <1>1, <1>3 DEF CInv, FrontierComplete, PredicatesParse
<1>5. 1 - 1 = 0
  OBVIOUS
<1>6. CASE PairCount(rule.path) = 0
  <2>1. pc' = "emit"
    BY <1>1, <1>6
  <2>2. \A k \in 1..0 : FALSE
    OBVIOUS
  <2> QED BY <1>1, <1>4, <1>6, <2>1, <2>2
          DEF CInv, FrontierComplete, ResultsComplete, NextComplete, PredicatesParse
<1>7. CASE PairCount(rule.path) # 0
  <2>1. pc' = "pair"
    BY <1>1, <1>7
  <2>2. \A k \in 1..(si' - 1) : FALSE
    BY <1>1, <1>5
  <2>3. ~(si' > 1) /\ si' - 1 = 0
    BY <1>1, <1>5
  <2> QED BY <1>1, <1>4, <2>1, <2>2, <2>3
          DEF CInv, FrontierComplete, ResultsComplete, NextComplete, PredicatesParse
<1> QED BY <1>6, <1>7

(* A pair starts with no extension looked at, its predicates compiled.     *)
LEMMA CBeginPair == IInv /\ CInv /\ BeginPair => CInv'
<1> SUFFICES ASSUME IInv, CInv, BeginPair PROVE CInv'
  OBVIOUS
<1>1. /\ TypeOK /\ pc = "pair"
      /\ UNCHANGED <<graph, rules, ri, si, frontier>> /\ rule' = rule
  BY DEF IInv, BeginPair, given, rule
<1>2. /\ Lists(frontier, Walks(graph, rule, si - 1))
      /\ Parses(NodeStepOf(rule.path, 0).where)
      /\ \A k \in 1..(si - 1) : ParsesAt(k)
  BY <1>1 DEF CInv, FrontierComplete, PredicatesParse
<1>3. CASE ~(Parses(edge_step.where) /\ Parses(node_step.where))
  <2>1. pc' = "panicked"
    BY <1>3 DEF BeginPair
  <2> QED BY <2>1 DEF CInv, FrontierComplete, ResultsComplete, NextComplete, PredicatesParse
<1>4. CASE Parses(edge_step.where) /\ Parses(node_step.where)
  <2>1. pc' = "expand" /\ next_frontier' = <<>> /\ fi' = 1
    BY <1>4 DEF BeginPair
  <2>2. Handled(graph, rule, si - 1, frontier, 1, {}) = {}
    BY DEF Handled
  <2>3. ListsNext(graph, si - 1, frontier, <<>>, {})
    BY ListsNextNone
  <2>4. Taken' = {}
    BY <2>1 DEF Taken
  <2>5. NextComplete'
    BY <1>1, <2>1, <2>2, <2>3, <2>4 DEF NextComplete
  <2>6. \A k \in 1..si : ParsesAt(k)
    <3> SUFFICES ASSUME NEW k \in 1..si PROVE ParsesAt(k)
      OBVIOUS
    <3>1. si \in Nat
      BY <1>1 DEF TypeOK
    <3>2. CASE k = si
      BY <1>4, <3>2 DEF ParsesAt, edge_step, node_step
    <3>3. CASE k # si
      <4>1. k \in 1..(si - 1)
        BY <3>1, <3>3
      <4> QED BY <4>1, <1>2
    <3> QED BY <3>2, <3>3
  <2>7. PredicatesParse'
    BY <1>1, <1>2, <2>1, <2>6 DEF PredicatesParse, ParsesAt
  <2>8. FrontierComplete'
    BY <1>1, <1>2, <2>1 DEF FrontierComplete
  <2>9. ResultsComplete'
    BY <2>1 DEF ResultsComplete
  <2> QED BY <2>5, <2>7, <2>8, <2>9 DEF CInv
<1> QED BY <1>3, <1>4

-----------------------------------------------------------------------------
(* The walk.                                                               *)

(* What stays the same while one frontier entry is walked from.            *)
LEMMA SameEntry ==
    ASSUME UNCHANGED <<graph, rules, ri, si, frontier, fi>>
    PROVE  /\ rule' = rule /\ entry' = entry
           /\ edge_step' = edge_step /\ node_step' = node_step
           /\ effective_max' = effective_max
           /\ ChainsOfWalk' = ChainsOfWalk
<1>1. /\ rule' = rule /\ entry' = entry
      /\ edge_step' = edge_step /\ node_step' = node_step
      /\ effective_max' = effective_max
  BY DEF rule, entry, edge_step, node_step, effective_max, EffectiveMax, RemainingBudget
<1> QED BY <1>1 DEF ChainsOfWalk

(* An entry whose hops leave no budget has no extension.                   *)
LEMMA CBeginWalk == IInv /\ CInv /\ BeginWalk => CInv'
<1> SUFFICES ASSUME IInv, CInv, BeginWalk PROVE CInv'
  OBVIOUS
<1>1. /\ TypeOK /\ pc = "expand" /\ fi <= Len(frontier)
      /\ UNCHANGED <<graph, rules, ri, si, frontier, next_frontier>> /\ rule' = rule
  BY DEF IInv, BeginWalk, given, rule
<1>2. /\ Lists(frontier, Walks(graph, rule, si - 1))
      /\ Parses(NodeStepOf(rule.path, 0).where)
      /\ \A k \in 1..si : ParsesAt(k)
      /\ ListsNext(graph, si - 1, frontier, next_frontier,
                   Handled(graph, rule, si - 1, frontier, fi, {}))
  BY <1>1 DEF CInv, FrontierComplete, NextComplete, PredicatesParse, Taken
<1>3. /\ effective_max \in Nat /\ entry \in PartialMatch
      /\ edge_step.min_hops \in Nat /\ edge_step.max_hops \in Nat
      /\ rule.max_total_hops \in Nat
      /\ si \in 1..PairCount(rule.path) /\ fi \in 1..Len(frontier) /\ fi \in Nat
      /\ Len(graph.edges) \in Nat
  <2>1. si <= PairCount(rule.path) /\ ri \in 1..Len(rules)
    BY <1>1 DEF TypeOK
  <2>2. si \in 1..PairCount(rule.path) /\ fi \in 1..Len(frontier) /\ fi \in Nat
    BY <1>1, <2>1, RunningFacts DEF TypeOK
  <2> QED BY <1>1, <2>1, <2>2, EffectiveMaxFacts, RunningFacts
<1>4. PartialOK(graph, rule, entry, si - 1)
  BY <1>1, <1>3 DEF IInv, FrontierOK, AllPartialOK, entry
<1>5. CASE effective_max = 0
  <2>1. fi' = fi + 1 /\ UNCHANGED <<pc, trail, cursor, results>>
    BY <1>5 DEF BeginWalk, walk
  <2>2. \A t : ~Fits(graph, rule, si - 1, entry, t)
    <3> SUFFICES ASSUME NEW t, Fits(graph, rule, si - 1, entry, t) PROVE FALSE
      OBVIOUS
    <3>1. /\ entry.hops = Len(entry.edges) /\ entry.hops <= rule.max_total_hops /\ entry.hops \in Nat
      BY <1>3, <1>4 DEF PartialOK, PartialMatch
    <3>2. /\ t \in Seq(1..Len(graph.edges)) /\ t # <<>>
          /\ Len(t) <= edge_step.max_hops /\ Len(entry.edges) + Len(t) <= rule.max_total_hops
      <4>1. (si - 1) + 1 = si
        BY <1>3, <1>1 DEF TypeOK
      <4> QED BY <4>1 DEF Fits, edge_step
    <3>3. Len(t) \in Nat /\ Len(t) # 0
      BY <3>2, LenProperties, EmptySeq
    <3>4. Len(t) <= effective_max
      BY <1>3, <3>1, <3>2, <3>3, EffectiveMaxExact DEF effective_max
    <3> QED BY <1>5, <3>3, <3>4
  <2>3. Handled(graph, rule, si - 1, frontier, fi + 1, {})
           = Handled(graph, rule, si - 1, frontier, fi, {})
    <3>1. ASSUME NEW p \in (1..Len(frontier)) \X Seq(1..Len(graph.edges)),
                 Fits(graph, rule, si - 1, frontier[p[1]], p[2])
          PROVE  p[1] < fi + 1 <=> p[1] < fi
      <4>1. p[1] # fi
        BY <2>2, <3>1 DEF entry
      <4>2. p[1] \in 1..Len(frontier)
        OBVIOUS
      <4> QED BY <4>1, <4>2, <1>3
    <3> QED BY <3>1 DEF Handled
  <2>4. Taken' = {}
    BY <1>1, <2>1 DEF Taken
  <2>5. NextComplete'
    BY <1>1, <1>2, <2>1, <2>3, <2>4 DEF NextComplete
  <2>6. PredicatesParse' /\ FrontierComplete' /\ ResultsComplete'
    BY <1>1, <1>2, <2>1 DEF PredicatesParse, ParsesAt, FrontierComplete, ResultsComplete
  <2> QED BY <2>5, <2>6 DEF CInv
<1>6. CASE effective_max # 0
  <2>1. /\ pc' = "walk" /\ trail' = <<>> /\ cursor' = Len(graph.edges)
        /\ results' = Push(<<>>, <<>>) /\ fi' = fi
    BY <1>6 DEF BeginWalk
  <2>2. ChainsOfWalk' = ChainsOfWalk
    BY <1>1, <2>1, SameEntry
  <2>3. results' = IF 0 >= edge_step.min_hops THEN << <<>> >> ELSE <<>>
    BY <2>1 DEF Push
  <2>4. <<>> \in ChainsOfWalk <=> 0 >= edge_step.min_hops
    <3>1. ChainOK(graph, entry.at, edge_step, effective_max, <<>>)
      BY <1>3 DEF ChainOK, IsTrail
    <3> QED BY <3>1, EmptySeq DEF ChainsOfWalk
  <2>5. ASSUME NEW t
        PROVE  In(t, results') <=> t \in ChainsOfWalk /\ Seen(<<>>, Len(graph.edges), t)
    <3>1. In(t, results') <=> 0 >= edge_step.min_hops /\ t = <<>>
      BY <2>3 DEF In
    <3>2. t \in ChainsOfWalk => (Seen(<<>>, Len(graph.edges), t) <=> t = <<>>)
      BY <1>3, SeenStart DEF ChainsOfWalk
    <3> QED BY <2>4, <3>1, <3>2
  <2>6. \A i, j \in 1..Len(results') : results'[i] = results'[j] => i = j
    BY <2>3
  <2>7. ResultsComplete'
    BY <2>1, <2>2, <2>5, <2>6 DEF ResultsComplete, In
  <2>8. Taken' = {}
    BY <2>1 DEF Taken
  <2>9. NextComplete'
    BY <1>1, <1>2, <2>1, <2>8 DEF NextComplete
  <2>10. PredicatesParse' /\ FrontierComplete'
    BY <1>1, <1>2, <2>1 DEF PredicatesParse, ParsesAt, FrontierComplete
  <2> QED BY <2>7, <2>9, <2>10 DEF CInv
<1> QED BY <1>5, <1>6

(* A chain that goes on from where the walk stands goes on along an edge   *)
(* the innermost loop follows or has followed.                             *)
LEMMA Continues ==
    ASSUME TypeOK, pc = "walk", NEW t \in ChainsOfWalk,
           Len(t) > Len(trail), Agree(t, trail, Len(trail))
    PROVE  /\ CanGoDeeper(trail)
           /\ t[Len(trail) + 1] <= cursor => t[Len(trail) + 1] \in Candidates
<1> DEFINE n == Len(trail)
           e == t[n + 1]
<1>1. /\ t \in Seq(1..Len(graph.edges)) /\ IsTrail(graph, entry.at, t)
      /\ \A q \in 1..Len(t) : EdgeMatches(graph.edges[t[q]], edge_step)
      /\ Len(t) <= effective_max
  BY DEF ChainsOfWalk, ChainOK
<1>2. /\ Len(graph.edges) \in Nat /\ effective_max \in Nat /\ n \in Nat /\ Len(t) \in Nat
      /\ cursor \in 0..Len(graph.edges)
  BY <1>1, WalkContext, GraphFacts, LenProperties DEF TypeOK
<1>3. n + 1 \in 1..Len(t) /\ (n + 1) - 1 = n
  BY <1>2
<1>4. /\ e \in 1..Len(graph.edges)
      /\ graph.edges[e].src = Visited(graph, entry.at, t, n)
      /\ EdgeMatches(graph.edges[e], edge_step)
  BY <1>1, <1>3 DEF IsTrail
<1>5. Visited(graph, entry.at, t, n) = Visited(graph, entry.at, trail, n)
  <2>1. CASE n = 0
    BY <2>1 DEF Visited
  <2>2. CASE n # 0
    <3>1. n \in 1..n
      BY <1>2, <2>2
    <3>2. t[n] = trail[n]
      BY <3>1 DEF Agree
    <3> QED BY <2>2, <3>2 DEF Visited
  <2> QED BY <2>1, <2>2
<1>6. CanGoDeeper(trail)
  BY <1>1, <1>2 DEF CanGoDeeper
<1>7. ASSUME e <= cursor PROVE e \in Candidates
  <2>1. e \in 1..cursor
    BY <1>2, <1>4, <1>7
  <2> QED BY <2>1, <1>4, <1>5 DEF Candidates
<1> QED BY <1>6, <1>7

(* What the walk leaves alone of the invariant.                            *)
LEMMA WalkKeeps ==
    ASSUME CInv, pc \in {"walk", "collect"}, pc' \in {"walk", "collect"},
           UNCHANGED <<graph, rules, ri, si, frontier, fi>>
    PROVE  FrontierComplete' /\ PredicatesParse'
<1>1. rule' = rule
  BY DEF rule
<1>2. /\ Lists(frontier, Walks(graph, rule, si - 1))
      /\ Parses(NodeStepOf(rule.path, 0).where)
      /\ \A k \in 1..si : ParsesAt(k)
  BY DEF CInv, FrontierComplete, PredicatesParse
<1> QED BY <1>1, <1>2 DEF FrontierComplete, PredicatesParse, ParsesAt

(* The walk pushes one chain, and collects it if it is long enough.        *)
LEMMA CDescend == IInv /\ CInv /\ Descend => CInv'
<1> SUFFICES ASSUME IInv, CInv, Descend PROVE CInv'
  OBVIOUS
<1>1. /\ TypeOK /\ pc = "walk" /\ pc' = "walk" /\ cursor' = Len(graph.edges)
      /\ UNCHANGED <<graph, rules, ri, si, frontier, fi, next_frontier>>
  BY DEF IInv, Descend, given
<1>2. PICK e \in Candidates : /\ \A f \in Candidates : f <= e
                              /\ trail' = Append(trail, e)
                              /\ results' = Push(results, Append(trail, e))
  BY DEF Descend
<1>3. /\ trail \in Seq(1..Len(graph.edges)) /\ results \in Seq(Seq(1..Len(graph.edges)))
      /\ Len(graph.edges) \in Nat /\ cursor \in 0..Len(graph.edges)
      /\ e \in 1..cursor /\ e \in 1..Len(graph.edges)
  BY <1>1, <1>2, GraphFacts DEF TypeOK, Candidates
<1>4. /\ Distinct(results)
      /\ \A t : In(t, results) <=> t \in ChainsOfWalk /\ Seen(trail, cursor, t)
  BY <1>1 DEF CInv, ResultsComplete, Distinct
<1> DEFINE u == Append(trail, e)
<1>5. u \in Seq(1..Len(graph.edges)) /\ ~Seen(trail, cursor, u)
  BY <1>3, NotSeenYet, AppendProperties
<1>6. ASSUME NEW t \in ChainsOfWalk
      PROVE  Seen(u, Len(graph.edges), t) <=> Seen(trail, cursor, t) \/ t = u
  <2>1. t \in Seq(1..Len(graph.edges))
    BY DEF ChainsOfWalk
  <2>2. Len(t) > Len(trail) /\ Agree(t, trail, Len(trail)) /\ t[Len(trail) + 1] <= cursor
           => t[Len(trail) + 1] <= e
    BY <1>1, <1>2, Continues
  <2> QED BY <1>3, <2>1, <2>2, SeenDescend
<1>7. ChainsOfWalk' = ChainsOfWalk /\ edge_step' = edge_step
  BY <1>1, SameEntry
<1>8. u \in ChainsOfWalk <=> Len(u) >= edge_step.min_hops
  <2>1. ChainOK(graph, entry.at, edge_step, effective_max, u)
    <3>1. WalkOK'
      BY DescendStep
    <3>2. UNCHANGED <<graph, rules, ri, si, frontier, fi>>
      BY <1>1
    <3>3. entry' = entry /\ effective_max' = effective_max
      BY <3>2, SameEntry
    <3> QED BY <1>1, <1>2, <1>7, <3>1, <3>3 DEF WalkOK
  <2> QED BY <1>5, <2>1 DEF ChainsOfWalk
<1>9. results' = IF Len(u) >= edge_step.min_hops THEN Append(results, u) ELSE results
  BY <1>2 DEF Push
<1>10. trail' = u
  BY <1>2
<1> HIDE DEF u
<1>11. /\ \A t : In(t, results') <=> In(t, results) \/ (t = u /\ Len(u) >= edge_step.min_hops)
       /\ Distinct(results')
  <2>1. CASE Len(u) >= edge_step.min_hops
    <3>1. results' = Append(results, u) /\ ~In(u, results)
      BY <1>4, <1>5, <1>9, <2>1
    <3> QED BY <1>3, <1>4, <1>5, <2>1, <3>1, InAppend
  <2>2. CASE ~(Len(u) >= edge_step.min_hops)
    BY <1>4, <1>9, <2>2
  <2> QED BY <2>1, <2>2
<1>12. ASSUME NEW t
       PROVE  In(t, results') <=> t \in ChainsOfWalk /\ Seen(u, Len(graph.edges), t)
  BY <1>4, <1>6, <1>8, <1>11
<1>13. ResultsComplete'
  BY <1>1, <1>7, <1>10, <1>11, <1>12 DEF ResultsComplete, Distinct
<1>14. Taken' = Taken /\ rule' = rule
  BY <1>1 DEF Taken, rule
<1>15. NextComplete'
  BY <1>1, <1>14 DEF NextComplete, CInv
<1> QED BY <1>1, <1>13, <1>15, WalkKeeps DEF CInv

(* A call returns only when its loop has no edge left, so nothing is       *)
(* skipped.                                                                *)
LEMMA CReturn == IInv /\ CInv /\ Return => CInv'
<1> SUFFICES ASSUME IInv, CInv, Return PROVE CInv'
  OBVIOUS
<1>1. /\ TypeOK /\ pc = "walk" /\ pc' = "walk" /\ trail # <<>>
      /\ UNCHANGED <<graph, rules, ri, si, frontier, fi, next_frontier, results>>
      /\ trail' = SubSeq(trail, 1, Len(trail) - 1)
      /\ cursor' = trail[Len(trail)] - 1
      /\ CanGoDeeper(trail) => Candidates = {}
  BY DEF IInv, Return, given, ResumeAfter
<1>2. /\ trail \in Seq(1..Len(graph.edges)) /\ Len(graph.edges) \in Nat
      /\ cursor \in 0..Len(graph.edges)
  BY <1>1, GraphFacts DEF TypeOK
<1>3. /\ Len(trail') = Len(trail) - 1
      /\ \A i \in 1..(Len(trail) - 1) : trail'[i] = trail[i]
  <2>1. IsTrail(graph, entry.at, trail)
    BY <1>1 DEF IInv, WalkOK, ChainOK
  <2> QED BY <1>1, <1>2, <2>1, FrontTrail
<1>4. /\ Distinct(results)
      /\ \A t : In(t, results) <=> t \in ChainsOfWalk /\ Seen(trail, cursor, t)
  BY <1>1 DEF CInv, ResultsComplete, Distinct
<1>5. ASSUME NEW t \in ChainsOfWalk
      PROVE  Seen(trail', cursor', t) <=> Seen(trail, cursor, t)
  <2>1. t \in Seq(1..Len(graph.edges)) /\ \A i \in 1..Len(t) : t[i] \in 1..Len(graph.edges)
    BY <1>2, ChainElements DEF ChainsOfWalk
  <2>2. Len(trail) \in Nat /\ Len(t) \in Nat
    BY <1>2, <2>1, LenProperties
  <2>3. ASSUME Len(t) > Len(trail), Agree(t, trail, Len(trail))
        PROVE  t[Len(trail) + 1] > cursor
    <3>1. CanGoDeeper(trail) /\ ~(t[Len(trail) + 1] <= cursor)
      BY <1>1, <2>3, Continues
    <3>2. t[Len(trail) + 1] \in 1..Len(graph.edges)
      BY <2>1, <2>2, <2>3
    <3> QED BY <3>1, <3>2, <1>2
  <2> DEFINE f == trail'
  <2>4. Len(f) = Len(trail) - 1 /\ \A i \in 1..(Len(trail) - 1) : f[i] = trail[i]
    BY <1>3
  <2> HIDE DEF f
  <2>5. Seen(f, trail[Len(trail)] - 1, t) <=> Seen(trail, cursor, t)
    BY <1>1, <1>2, <2>1, <2>3, <2>4, SeenReturn
  <2> QED BY <1>1, <2>5 DEF f
<1>6. ChainsOfWalk' = ChainsOfWalk
  BY <1>1, SameEntry
<1>7. ResultsComplete'
  BY <1>1, <1>4, <1>5, <1>6 DEF ResultsComplete, Distinct
<1>8. Taken' = Taken /\ rule' = rule
  BY <1>1 DEF Taken, rule
<1>9. NextComplete'
  BY <1>1, <1>8 DEF NextComplete, CInv
<1> QED BY <1>1, <1>7, <1>9, WalkKeeps DEF CInv

(* The entry a walk starts from is the code's partial match.               *)
LEMMA EntryOK ==
    ASSUME IInv, pc \in {"walk", "collect"}
    PROVE  PartialOK(graph, rule, entry, si - 1)
BY WalkContext DEF IInv, FrontierOK, AllPartialOK, entry

(* When the outermost call returns, every chain of the walk has been       *)
(* collected.                                                              *)
LEMMA CWalkDone == IInv /\ CInv /\ WalkDone => CInv'
<1> SUFFICES ASSUME IInv, CInv, WalkDone PROVE CInv'
  OBVIOUS
<1>1. /\ TypeOK /\ pc = "walk" /\ pc' = "collect" /\ trail = <<>>
      /\ UNCHANGED <<graph, rules, ri, si, frontier, fi, next_frontier, results>>
      /\ CanGoDeeper(trail) => Candidates = {}
  BY DEF IInv, WalkDone, given, walk
<1>2. Len(graph.edges) \in Nat /\ cursor \in 0..Len(graph.edges)
  BY <1>1, GraphFacts DEF TypeOK
<1>3. /\ Distinct(results)
      /\ \A t : In(t, results) <=> t \in ChainsOfWalk /\ Seen(<<>>, cursor, t)
  BY <1>1 DEF CInv, ResultsComplete, Distinct
<1>4. ASSUME NEW t \in ChainsOfWalk PROVE In(t, results)
  <2>1. t \in Seq(1..Len(graph.edges)) /\ Len(t) \in Nat
        /\ \A i \in 1..Len(t) : t[i] \in 1..Len(graph.edges)
    BY <1>2, ChainElements DEF ChainsOfWalk
  <2>2. ASSUME Len(t) > 0 PROVE t[1] > cursor
    <3>1. Len(t) > Len(trail) /\ Agree(t, trail, Len(trail)) /\ Len(trail) + 1 = 1
      BY <1>1, <2>2 DEF Agree
    <3>2. ~(t[1] <= cursor)
      BY <1>1, <3>1, Continues
    <3>3. t[1] \in 1..Len(graph.edges)
      BY <2>1, <2>2
    <3> QED BY <3>2, <3>3, <1>2
  <2> QED BY <1>2, <1>3, <2>1, <2>2, SeenEnd
<1>5. Taken' = {t \in Seq(1..Len(graph.edges)) : ~In(t, results)} /\ Taken = {}
  BY <1>1 DEF Taken
<1>6. \A t : Fits(graph, rule, si - 1, entry, t) => In(t, results)
  BY <1>1, <1>4, EntryOK, KeptIsFits
<1>7. Handled(graph, rule, si - 1, frontier, fi, Taken')
         = Handled(graph, rule, si - 1, frontier, fi, Taken)
  <2>1. \A p \in (1..Len(frontier)) \X Seq(1..Len(graph.edges)) :
           p[1] = fi /\ Fits(graph, rule, si - 1, frontier[p[1]], p[2])
              => p[2] \notin Taken'
    BY <1>5, <1>6 DEF entry
  <2>2. \A x : x \notin Taken
    BY <1>5
  <2> QED BY <2>1, <2>2 DEF Handled
<1>8. rule' = rule
  BY <1>1 DEF rule
<1>9. NextComplete'
  <2>1. ListsNext(graph, si - 1, frontier, next_frontier,
                  Handled(graph, rule, si - 1, frontier, fi, Taken))
    BY <1>1 DEF CInv, NextComplete
  <2> QED BY <1>1, <1>7, <1>8, <2>1 DEF NextComplete
<1>10. ResultsComplete'
  BY <1>1, <1>3 DEF ResultsComplete, Distinct
<1> QED BY <1>1, <1>9, <1>10, WalkKeeps DEF CInv

(* A result that is kept is one more extension in the next frontier, and   *)
(* one that is dropped does not fit.                                       *)
LEMMA CTakeResult == IInv /\ CInv /\ TakeResult => CInv'
<1> SUFFICES ASSUME IInv, CInv, TakeResult PROVE CInv'
  OBVIOUS
<1>1. /\ TypeOK /\ pc = "collect" /\ pc' = "collect" /\ results # <<>>
      /\ UNCHANGED <<graph, rules, ri, si, frontier, fi>>
      /\ results' = Tail(results)
      /\ rule' = rule
  BY DEF IInv, TakeResult, given, rule
<1>2. /\ results \in Seq(Seq(1..Len(graph.edges))) /\ next_frontier \in Seq(PartialMatch)
      /\ fi \in 1..Len(frontier)
  BY <1>1, WalkContext DEF TypeOK
<1>3. Distinct(results)
  BY <1>1 DEF CInv, ResultsComplete, Distinct
<1> DEFINE h == Head(results)
           k == si - 1
           extended == Extended(h)
<1>4. /\ \A x : In(x, Tail(results)) <=> In(x, results) /\ x # h
      /\ Distinct(Tail(results)) /\ In(h, results)
  BY <1>1, <1>2, <1>3, InTail
<1>5. h \in Seq(1..Len(graph.edges)) /\ h \in ChainsOfWalk
  <2>1. PICK j \in 1..Len(results) : results[j] = h
    BY <1>4 DEF In
  <2>2. results[j] \in Seq(1..Len(graph.edges))
    BY <1>2, <2>1, ElementOfSeq
  <2>3. /\ ChainOK(graph, entry.at, edge_step, effective_max, results[j])
        /\ Len(results[j]) >= edge_step.min_hops
    BY <1>1, <2>1 DEF IInv, WalkOK
  <2> HIDE DEF h
  <2> QED BY <2>1, <2>2, <2>3 DEF ChainsOfWalk
<1>6. /\ Fits(graph, rule, k, entry, h) <=> Kept(h)
      /\ extended.ids = Extend(graph, k, entry, h).ids
      /\ extended.edges = Extend(graph, k, entry, h).edges
  BY <1>1, <1>5, EntryOK, KeptIsFits
<1>7. extended \in PartialMatch
  BY <1>1, <1>5, ExtendedType
<1>8. next_frontier' = IF Kept(h) THEN Append(next_frontier, extended) ELSE next_frontier
  BY DEF TakeResult
<1>9. \A u : u \in Taken' <=> u \in Taken \/ u = h
  BY <1>1, <1>4, <1>5 DEF Taken
<1>10. ListsNext(graph, k, frontier, next_frontier, Handled(graph, rule, k, frontier, fi, Taken))
  BY <1>1 DEF CInv, NextComplete
<1>11. entry = frontier[fi] /\ h \notin Taken
  BY <1>1, <1>4 DEF Taken, entry
<1> HIDE DEF h, extended
<1> DEFINE before == Handled(graph, rule, k, frontier, fi, Taken)
           after == Handled(graph, rule, k, frontier, fi, Taken \cup {h})
           q == <<fi, h>>
<1>12. /\ Taken' = Taken \cup {h}
       /\ Kept(h) => after = before \cup {q}
       /\ ~Kept(h) => after = before
  <2>1. Taken' = Taken \cup {h}
    BY <1>9
  <2>2. fi \in 1..Len(frontier) /\ h \in Seq(1..Len(graph.edges))
    BY <1>2, <1>5
  <2>4. Fits(graph, rule, k, frontier[fi], h) <=> Kept(h)
    BY <1>6, <1>11
  <2> DEFINE P == (1..Len(frontier)) \X Seq(1..Len(graph.edges))
  <2> HIDE DEF k
  <2>5. \A p : p \in after <=> p \in P /\ Fits(graph, rule, k, frontier[p[1]], p[2])
                                  /\ (p[1] < fi \/ (p[1] = fi /\ (p[2] \in Taken \/ p[2] = h)))
    BY DEF Handled
  <2>6. \A p : p \in before <=> p \in P /\ Fits(graph, rule, k, frontier[p[1]], p[2])
                                  /\ (p[1] < fi \/ (p[1] = fi /\ p[2] \in Taken))
    BY DEF Handled
  <2>7. q \in P /\ q[1] = fi /\ q[2] = h
    BY <2>2
  <2>8. ASSUME NEW p \in P, p[1] = fi, p[2] = h PROVE p = q
    <3>1. p = <<p[1], p[2]>>
      OBVIOUS
    <3> QED BY <3>1, <2>8
  <2> HIDE DEF before, after, q, P
  <2>9. \A p : p \in after <=> p \in before \/ (p = q /\ Fits(graph, rule, k, frontier[fi], h))
    BY <2>5, <2>6, <2>7, <2>8
  <2> QED BY <2>1, <2>4, <2>9
<1>13. q \notin before
  BY <1>11, <1>2 DEF Handled
<1>14. ListsNext(graph, k, frontier, next_frontier', Handled(graph, rule, k, frontier, fi, Taken'))
  <2>1. CASE ~Kept(h)
    BY <1>8, <1>10, <1>12, <2>1
  <2>2. CASE Kept(h)
    <3>1. next_frontier' = Append(next_frontier, extended) /\ after = before \cup {<<fi, h>>}
      BY <1>8, <1>12, <2>2
    <3>2. ListsNext(graph, k, frontier, next_frontier, before) /\ <<fi, h>> \notin before
      BY <1>10, <1>13
    <3>3. /\ extended.ids = Extend(graph, k, frontier[fi], h).ids
          /\ extended.edges = Extend(graph, k, frontier[fi], h).edges
      BY <1>6, <1>11
    <3> HIDE DEF k, before, after
    <3>4. ListsNext(graph, k, frontier, Append(next_frontier, extended), before \cup {<<fi, h>>})
      BY <1>2, <1>7, <3>2, <3>3, ListsNextOneMore
    <3>5. ListsNext(graph, k, frontier, next_frontier', after)
      BY <3>1, <3>4
    <3> QED BY <1>12, <3>5 DEF after
  <2> QED BY <2>1, <2>2
<1>15. NextComplete'
  BY <1>1, <1>14 DEF NextComplete
<1>16. ResultsComplete'
  BY <1>1, <1>4 DEF ResultsComplete, Distinct
<1> QED BY <1>1, <1>15, <1>16, WalkKeeps DEF CInv

(* When every result has been taken, every extension of the entry has been *)
(* looked at.                                                              *)
LEMMA CCollectDone == IInv /\ CInv /\ CollectDone => CInv'
<1> SUFFICES ASSUME IInv, CInv, CollectDone PROVE CInv'
  OBVIOUS
<1>1. /\ TypeOK /\ pc = "collect" /\ pc' = "expand" /\ results = <<>> /\ fi' = fi + 1
      /\ UNCHANGED <<graph, rules, ri, si, frontier, next_frontier>>
      /\ rule' = rule
  BY DEF IInv, CollectDone, given, rule
<1>2. /\ fi \in 1..Len(frontier) /\ fi \in Nat /\ Len(frontier) \in Nat
  BY <1>1, WalkContext, LenProperties DEF TypeOK
<1>3. /\ Lists(frontier, Walks(graph, rule, si - 1))
      /\ Parses(NodeStepOf(rule.path, 0).where)
      /\ \A k \in 1..si : ParsesAt(k)
      /\ ListsNext(graph, si - 1, frontier, next_frontier,
                   Handled(graph, rule, si - 1, frontier, fi, Taken))
  BY <1>1 DEF CInv, FrontierComplete, NextComplete, PredicatesParse
<1>4. /\ \A t : t \in Seq(1..Len(graph.edges)) => t \in Taken
      /\ Taken' = {}
  BY <1>1 DEF Taken, In
<1>5. Handled(graph, rule, si - 1, frontier, fi + 1, {})
         = Handled(graph, rule, si - 1, frontier, fi, Taken)
  <2>1. ASSUME NEW p \in (1..Len(frontier)) \X Seq(1..Len(graph.edges))
        PROVE  /\ p[1] < fi + 1 <=> p[1] < fi \/ p[1] = fi
               /\ p[2] \in Taken
    <3>1. p[1] \in 1..Len(frontier) /\ p[2] \in Seq(1..Len(graph.edges))
      OBVIOUS
    <3>2. p[1] < fi + 1 <=> p[1] < fi \/ p[1] = fi
      BY <1>2, <3>1
    <3> QED BY <1>4, <3>1, <3>2
  <2> QED BY <2>1 DEF Handled
<1>6. NextComplete'
  BY <1>1, <1>3, <1>4, <1>5 DEF NextComplete
<1>7. FrontierComplete' /\ PredicatesParse' /\ ResultsComplete'
  BY <1>1, <1>3 DEF FrontierComplete, PredicatesParse, ParsesAt, ResultsComplete
<1> QED BY <1>6, <1>7 DEF CInv

(* When every entry of the frontier has been walked from, the next         *)
(* frontier stands for the walks over one more pair.                       *)
LEMMA NextListsWalks ==
    ASSUME IInv, CInv, pc = "expand", fi > Len(frontier)
    PROVE  Lists(next_frontier, Walks(graph, rule, (si - 1) + 1))
<1> DEFINE k == si - 1
           H == Handled(graph, rule, k, frontier, fi, {})
<1>1. /\ IsGraph(graph) /\ rule.max_total_hops \in Nat /\ k \in Nat /\ k + 1 = si
      /\ EdgeStepOf(rule.path, k + 1).min_hops \in Nat
      /\ EdgeStepOf(rule.path, k + 1).max_hops \in Nat
      /\ Len(frontier) \in Nat /\ fi \in Nat
      /\ Len(next_frontier) \in Nat
  <2>1. TypeOK /\ si \in Nat \ {0} /\ si <= PairCount(rule.path) /\ fi \in Nat
        /\ Len(next_frontier) \in Nat
    BY LenProperties DEF IInv, TypeOK
  <2>2. PairCount(rule.path) \in Nat
    BY <2>1, RunningFacts
  <2>3. si \in 1..PairCount(rule.path) /\ k \in Nat /\ k + 1 = si
    BY <2>1, <2>2
  <2> HIDE DEF k
  <2> QED BY <2>1, <2>3, RunningFacts
<1>2. PICK b \in Bijection(1..Len(frontier), Walks(graph, rule, k)) :
         \A i \in 1..Len(frontier) : frontier[i].ids = b[i].ids /\ frontier[i].edges = b[i].edges
  BY DEF CInv, FrontierComplete, Lists
<1>3. PICK c \in Bijection(1..Len(next_frontier), H) :
         \A i \in 1..Len(next_frontier) :
            /\ next_frontier[i].ids = Extend(graph, k, frontier[c[i][1]], c[i][2]).ids
            /\ next_frontier[i].edges = Extend(graph, k, frontier[c[i][1]], c[i][2]).edges
  BY DEF CInv, NextComplete, ListsNext, Taken
<1> HIDE DEF k
<1>4. \A i \in 1..Len(frontier) : \A t :
         Fits(graph, rule, k, frontier[i], t) <=> Fits(graph, rule, k, b[i], t)
  BY <1>2 DEF Fits
<1>5. \A i \in 1..Len(frontier) : \A t :
         /\ Extend(graph, k, frontier[i], t).ids = Extend(graph, k, b[i], t).ids
         /\ Extend(graph, k, frontier[i], t).edges = Extend(graph, k, b[i], t).edges
  BY <1>2 DEF Extend
<1>6. \A p \in H : p = <<p[1], p[2]>> /\ p[1] \in 1..Len(frontier) /\ Fits(graph, rule, k, b[p[1]], p[2])
  <2> SUFFICES ASSUME NEW p \in H
               PROVE  p = <<p[1], p[2]>> /\ p[1] \in 1..Len(frontier) /\ Fits(graph, rule, k, b[p[1]], p[2])
    OBVIOUS
  <2>1. p \in (1..Len(frontier)) \X Seq(1..Len(graph.edges)) /\ Fits(graph, rule, k, frontier[p[1]], p[2])
    BY DEF Handled
  <2>2. p = <<p[1], p[2]>> /\ p[1] \in 1..Len(frontier)
    BY <2>1
  <2> QED BY <2>1, <2>2, <1>4
<1>7. \A i \in 1..Len(frontier) : \A t : Fits(graph, rule, k, b[i], t) => <<i, t>> \in H
  <2> SUFFICES ASSUME NEW i \in 1..Len(frontier), NEW t, Fits(graph, rule, k, b[i], t)
               PROVE  <<i, t>> \in H
    OBVIOUS
  <2>1. t \in Seq(1..Len(graph.edges)) /\ Fits(graph, rule, k, frontier[i], t)
    BY <1>4 DEF Fits
  <2>2. i < fi
    BY <1>1
  <2> QED BY <2>1, <2>2 DEF Handled
<1> HIDE DEF H
<1> DEFINE J == 1..Len(next_frontier)
           d == [j \in J |-> Extend(graph, k, b[c[j][1]], c[j][2])]
           I == 1..Len(frontier)
<1>8. d \in Bijection(J, Walks(graph, rule, k + 1))
  <2>1. b \in Bijection(I, Walks(graph, rule, k)) /\ c \in Bijection(J, H)
    BY <1>2, <1>3
  <2>2. \A p \in H : p = <<p[1], p[2]>> /\ p[1] \in I /\ Fits(graph, rule, k, b[p[1]], p[2])
    BY <1>6
  <2>3. \A i \in I : \A t : Fits(graph, rule, k, b[i], t) => <<i, t>> \in H
    BY <1>7
  <2> HIDE DEF I, J
  <2> QED BY <1>1, <2>1, <2>2, <2>3, NumberExtended
<1>9. ASSUME NEW j \in 1..Len(next_frontier)
      PROVE  next_frontier[j].ids = d[j].ids /\ next_frontier[j].edges = d[j].edges
  <2>1. c[j] \in H
    BY <1>3, BijectionIs
  <2>2. c[j][1] \in 1..Len(frontier)
    BY <1>6, <2>1
  <2> QED BY <1>3, <1>5, <2>2
<1> HIDE DEF d
<1> QED BY <1>8, <1>9 DEF Lists, k

(* The next frontier becomes the frontier. When it is empty there are no   *)
(* walks over this pair, hence none over any later pair, and the later     *)
(* predicates are never compiled.                                          *)
LEMMA CEndPair == IInv /\ CInv /\ EndPair => CInv'
<1> SUFFICES ASSUME IInv, CInv, EndPair PROVE CInv'
  OBVIOUS
<1>1. /\ TypeOK /\ pc = "expand" /\ fi > Len(frontier)
      /\ UNCHANGED <<graph, rules, ri>> /\ rule' = rule
      /\ frontier' = next_frontier
      /\ si \in Nat /\ si # 0 /\ (si - 1) + 1 = si
      /\ si <= PairCount(rule.path) /\ PairCount(rule.path) \in Nat
      /\ IsGraph(graph) /\ rule.max_total_hops \in Nat
  <2>1. TypeOK /\ pc = "expand"
    BY DEF EndPair, IInv
  <2>2. si \in Nat /\ si # 0
    BY <2>1 DEF TypeOK
  <2>3. (si - 1) + 1 = si
    BY <2>2
  <2> QED BY <2>1, <2>2, <2>3, RunningFacts DEF EndPair, given, rule, TypeOK
<1>2. Lists(next_frontier, Walks(graph, rule, si))
  BY <1>1, NextListsWalks
<1>3. /\ Parses(NodeStepOf(rule.path, 0).where)
      /\ \A k \in 1..si : ParsesAt(k)
  BY <1>1 DEF CInv, PredicatesParse
<1>4. CASE next_frontier = <<>>
  <2>1. pc' = "emit" /\ si' = si
    BY <1>4 DEF EndPair
  <2>2. Walks(graph, rule, si) = {}
    <3>1. PICK b \in Bijection(1..0, Walks(graph, rule, si)) : TRUE
      <4>1. Len(<<>>) = 0
        OBVIOUS
      <4> QED BY <1>2, <1>4, <4>1 DEF Lists
    <3>2. \A y \in Walks(graph, rule, si) : \E a \in 1..0 : b[a] = y
      BY <3>1, BijectionIs
    <3> QED BY <3>2
  <2>3. ASSUME NEW n \in Nat, n >= si PROVE Walks(graph, rule, n) = {}
    <3>1. n - si \in Nat /\ si + (n - si) = n
      BY <1>1, <2>3
    <3>2. Walks(graph, rule, si + (n - si)) = {}
      BY <1>1, <2>2, <3>1, NoFurther
    <3> QED BY <3>1, <3>2
  <2>4. Lists(frontier', Walks(graph, rule, PairCount(rule.path)))
    BY <1>1, <1>4, <2>3, ListsNone
  <2>5. ASSUME NEW k \in 1..PairCount(rule.path)
        PROVE  ParsesAt(k) \/ (k > 1 /\ Walks(graph, rule, k - 1) = {})
    <3>1. CASE k <= si
      <4>1. k \in 1..si
        BY <1>1, <3>1
      <4> QED BY <1>3, <4>1
    <3>2. CASE ~(k <= si)
      <4>1. k - 1 \in Nat /\ k - 1 >= si /\ k > 1
        BY <1>1, <3>2
      <4> QED BY <4>1, <2>3
    <3> QED BY <3>1, <3>2
  <2> QED BY <1>1, <1>3, <2>1, <2>4, <2>5
          DEF CInv, FrontierComplete, ResultsComplete, NextComplete, PredicatesParse, ParsesAt
<1>5. CASE next_frontier # <<>> /\ IsLastPair
  <2>1. pc' = "emit" /\ si' = si /\ si = PairCount(rule.path)
    BY <1>5 DEF EndPair, IsLastPair
  <2> QED BY <1>1, <1>2, <1>3, <2>1
          DEF CInv, FrontierComplete, ResultsComplete, NextComplete, PredicatesParse, ParsesAt
<1>6. CASE next_frontier # <<>> /\ ~IsLastPair
  <2>1. pc' = "pair" /\ si' = si + 1
    BY <1>6 DEF EndPair
  <2>2. si' - 1 = si
    BY <1>1, <2>1
  <2> QED BY <1>1, <1>2, <1>3, <1>6, <2>1, <2>2
          DEF CInv, FrontierComplete, ResultsComplete, NextComplete, PredicatesParse, ParsesAt
<1> QED BY <1>4, <1>5, <1>6

(* Every step preserves the invariant of the refinement.                   *)
LEMMA CStep == IInv /\ CInv /\ [Next]_vars => CInv'
<1> SUFFICES ASSUME IInv, CInv, [Next]_vars PROVE CInv'
  OBVIOUS
<1>1. CASE EmitFindings \/ AllRulesRun
  <2>1. pc' \in {"rule", "done"}
    BY <1>1 DEF EmitFindings, AllRulesRun
  <2> QED BY <2>1 DEF CInv, FrontierComplete, ResultsComplete, NextComplete, PredicatesParse
<1>2. CASE UNCHANGED vars
  <2>1. UNCHANGED <<graph, rules, ri, si, frontier, fi>> /\ UNCHANGED <<pc, trail, cursor, results, next_frontier>>
    BY <1>2 DEF vars
  <2>2. /\ rule' = rule /\ ChainsOfWalk' = ChainsOfWalk /\ edge_step' = edge_step
        /\ node_step' = node_step
    BY <2>1, SameEntry
  <2>3. Taken' = Taken /\ SeedWalks(fi)' = SeedWalks(fi)
    BY <2>1, <2>2 DEF Taken, SeedWalks
  <2>4. FrontierComplete'
    BY <2>1, <2>2, <2>3 DEF CInv, FrontierComplete
  <2>5. ResultsComplete'
    BY <2>1, <2>2 DEF CInv, ResultsComplete
  <2>6. NextComplete'
    BY <2>1, <2>2, <2>3 DEF CInv, NextComplete
  <2>7. PredicatesParse'
    BY <2>1, <2>2 DEF CInv, PredicatesParse, ParsesAt
  <2> QED BY <2>4, <2>5, <2>6, <2>7 DEF CInv
<1> QED BY <1>1, <1>2, CStartRule, CSeedNode, CSeedDone, CBeginPair, CBeginWalk, CDescend,
           CReturn, CWalkDone, CTakeResult, CCollectDone, CEndPair DEF Next

-----------------------------------------------------------------------------
(* The refinement.                                                         *)

(* The abstract search counts the same walks and findings.                 *)
LEMMA SameWalks == ASSUME NEW g, NEW r, NEW k PROVE PS!Walks(g, r, k) = Walks(g, r, k)
BY DEF PS!Walks, Walks, PS!Visited, Visited, PS!Cuts, Cuts, PS!WalkIds, WalkIds,
       PS!Satisfies, Satisfies, PS!IsTrail, IsTrail, PS!IsSegment, IsSegment,
       PS!NodeMatches, NodeMatches, PS!EdgeMatches, EdgeMatches,
       PS!NodeStepOf, NodeStepOf, PS!EdgeStepOf, EdgeStepOf, PS!Trails, Trails

(* The abstract search counts the same findings.                           *)
LEMMA SameFindings == ASSUME NEW g, NEW r PROVE PS!FindingBag(g, r) = FindingBag(g, r)
BY DEF PS!FindingBag, FindingBag, PS!Walks, Walks, PS!Visited, Visited, PS!Cuts, Cuts,
       PS!WalkIds, WalkIds, PS!Satisfies, Satisfies, PS!IsTrail, IsTrail,
       PS!IsSegment, IsSegment, PS!NodeMatches, NodeMatches, PS!EdgeMatches, EdgeMatches,
       PS!NodeStepOf, NodeStepOf, PS!EdgeStepOf, EdgeStepOf, PS!Trails, Trails,
       PS!FindingOf, FindingOf, PS!PairCount, PairCount, PS!Cardinality, Cardinality

(* When the abstract search panics, in terms of the matcher's rule.        *)
LEMMA PanicsIs ==
    PS!Panics(graph, rules[ri]) <=>
       \/ ~Parses(NodeStepOf(rule.path, 0).where)
       \/ \E k \in 1..PairCount(rule.path) :
             ~ParsesAt(k) /\ (k = 1 \/ Walks(graph, rule, k - 1) # {})
<1>1. /\ \A w : PS!Parses(w) <=> Parses(w)
      /\ \A p, k : /\ PS!NodeStepOf(p, k) = NodeStepOf(p, k)
                   /\ PS!EdgeStepOf(p, k) = EdgeStepOf(p, k)
      /\ \A p : PS!PairCount(p) = PairCount(p)
  BY DEF PS!Parses, Parses, PS!NodeStepOf, NodeStepOf, PS!EdgeStepOf, EdgeStepOf,
         PS!PairCount, PairCount
<1>2. \A k : PS!PairParses(rule.path, k) <=> ParsesAt(k)
  BY <1>1 DEF PS!PairParses, ParsesAt
<1>3. \A k : PS!PairReached(graph, rule, k) <=> k = 1 \/ Walks(graph, rule, k - 1) # {}
  BY SameWalks DEF PS!PairReached
<1>4. rules[ri] = rule
  BY DEF rule
<1> QED BY <1>1, <1>2, <1>3, <1>4 DEF PS!Panics

(* The matcher starts where the abstract search does.                      *)
LEMMA RefInit == Init => PS!Init
<1> SUFFICES ASSUME Init PROVE PS!Init
  OBVIOUS
<1>1. ToBag(<<>>) = PS!EmptyBag
  <2>1. Range(<<>>) = {}
    BY DEF Range
  <2>2. ToBag(<<>>) = [x \in {} |-> Cardinality({i \in DOMAIN <<>> : <<>>[i] = x})]
    BY <2>1 DEF ToBag
  <2>3. PS!EmptyBag = [x \in {} |-> 1]
    BY DEF PS!EmptyBag, PS!SetToBag
  <2> QED BY <2>2, <2>3
<1> QED BY <1>1 DEF Init, PS!Init

(* A rule starts with the predicate of its first node step: a malformed    *)
(* one is the panic of the search, a well formed one changes nothing the   *)
(* search shows.                                                           *)
LEMMA RefStart == IInv /\ CInv /\ StartRule => [PS!Next]_(PS!vars)
<1> SUFFICES ASSUME IInv, CInv, StartRule PROVE [PS!Next]_(PS!vars)
  OBVIOUS
<1>1. pc = "rule" /\ ri <= Len(rules) /\ UNCHANGED <<graph, rules, ri, findings>>
  BY DEF StartRule, given
<1>2. CASE Parses(NodeStepOf(rule.path, 0).where)
  <2>1. pc' = "seed"
    BY <1>2 DEF StartRule
  <2> QED BY <1>1, <2>1 DEF PS!vars
<1>3. CASE ~Parses(NodeStepOf(rule.path, 0).where)
  <2>1. pc' = "panicked"
    BY <1>3 DEF StartRule
  <2>2. PS!Panics(graph, rules[ri])
    BY <1>3, PanicsIs
  <2> QED BY <1>1, <2>1, <2>2 DEF PS!Next, PS!Panic
<1> QED BY <1>2, <1>3

(* A malformed predicate of a pair is the panic of the search, because the *)
(* frontier that led to the pair stands for walks.                         *)
LEMMA RefBeginPair == IInv /\ CInv /\ BeginPair => [PS!Next]_(PS!vars)
<1> SUFFICES ASSUME IInv, CInv, BeginPair PROVE [PS!Next]_(PS!vars)
  OBVIOUS
<1>1. TypeOK /\ pc = "pair" /\ UNCHANGED <<graph, rules, ri, findings>>
  BY DEF BeginPair, given, IInv
<1>2. CASE Parses(edge_step.where) /\ Parses(node_step.where)
  <2>1. pc' = "expand"
    BY <1>2 DEF BeginPair
  <2> QED BY <1>1, <2>1 DEF PS!vars
<1>3. CASE ~(Parses(edge_step.where) /\ Parses(node_step.where))
  <2>1. pc' = "panicked"
    BY <1>3 DEF BeginPair
  <2>2. si \in 1..PairCount(rule.path) /\ ri <= Len(rules) /\ Len(frontier) \in Nat
    <3>1. si \in Nat \ {0} /\ si <= PairCount(rule.path) /\ ri \in 1..(Len(rules) + 1) /\ ri <= Len(rules)
      BY <1>1 DEF TypeOK
    <3> QED BY <1>1, <3>1, RunningFacts
  <2>3. ~ParsesAt(si)
    BY <1>3 DEF ParsesAt, edge_step, node_step
  <2>4. si = 1 \/ Walks(graph, rule, si - 1) # {}
    <3> SUFFICES ASSUME si > 1 PROVE Walks(graph, rule, si - 1) # {}
      BY <2>2
    <3>1. frontier # <<>>
      BY <1>1 DEF CInv, PredicatesParse
    <3>2. 1 \in 1..Len(frontier)
      <4>1. Len(frontier) # 0
        BY <1>1, <3>1, EmptySeq DEF TypeOK
      <4> QED BY <2>2, <4>1
    <3>3. PICK b \in Bijection(1..Len(frontier), Walks(graph, rule, si - 1)) : TRUE
      BY <1>1 DEF CInv, FrontierComplete, Lists
    <3>4. b[1] \in Walks(graph, rule, si - 1)
      BY <3>2, <3>3, BijectionIs
    <3> QED BY <3>4
  <2>5. PS!Panics(graph, rules[ri])
    BY <2>2, <2>3, <2>4, PanicsIs
  <2> QED BY <1>1, <2>1, <2>2, <2>5 DEF PS!Next, PS!Panic
<1> QED BY <1>2, <1>3

(* The findings of a rule come all at once, each walk exactly once: one    *)
(* step of the search.                                                     *)
LEMMA RefEmit == IInv /\ CInv /\ EmitFindings => PS!RunRule
<1> SUFFICES ASSUME IInv, CInv, EmitFindings PROVE PS!RunRule
  OBVIOUS
<1> DEFINE new == [i \in 1..Len(frontier) |-> FindingFrom(frontier[i])]
           K == PairCount(rule.path)
           W == Walks(graph, rule, K)
<1>1. /\ TypeOK /\ pc = "emit" /\ pc' = "rule" /\ ri' = ri + 1 /\ ri <= Len(rules)
      /\ findings' = findings \o new
      /\ UNCHANGED <<graph, rules>>
  BY DEF EmitFindings, given, IInv, TypeOK
<1>2. ~PS!Panics(graph, rules[ri])
  <2>1. /\ Parses(NodeStepOf(rule.path, 0).where)
        /\ \A k \in 1..K : ParsesAt(k) \/ (k > 1 /\ Walks(graph, rule, k - 1) = {})
    BY <1>1 DEF CInv, PredicatesParse
  <2>2. \A k \in 1..K : k > 1 => k # 1
    OBVIOUS
  <2> QED BY <2>1, <2>2, PanicsIs
<1>3. PICK b \in Bijection(1..Len(frontier), W) :
         \A i \in 1..Len(frontier) : frontier[i].ids = b[i].ids /\ frontier[i].edges = b[i].edges
  BY <1>1 DEF CInv, FrontierComplete, Lists
<1>4. /\ Len(frontier) \in Nat /\ findings \in Seq(Finding)
      /\ new \in Seq(Finding) /\ Len(new) = Len(frontier)
  <2>1. Len(frontier) \in Nat /\ findings \in Seq(Finding)
    BY <1>1, LenProperties DEF TypeOK
  <2>2. new \in [1..Len(frontier) -> Finding]
    BY <1>1, FindingType
  <2>3. DOMAIN new = 1..Len(frontier)
    OBVIOUS
  <2> HIDE DEF new
  <2>4. new \in Seq(Finding)
    BY <2>1, <2>2, IsASeq
  <2> QED BY <2>1, <2>3, <2>4, LenProperties
<1>5. \A i \in 1..Len(frontier) : new[i] = FindingOf(rule, b[i])
  BY <1>3 DEF FindingFrom, FindingOf
<1> HIDE DEF new, W
<1>6. ToBag(new) = FindingsOf(rule, W)
  <2> DEFINE n == Len(frontier)
  <2>1. n \in Nat /\ Len(new) = n /\ new \in Seq(Finding)
    BY <1>4
  <2>2. b \in Bijection(1..n, W) /\ \A i \in 1..n : new[i] = FindingOf(rule, b[i])
    BY <1>3, <1>5
  <2> HIDE DEF n
  <2> QED BY <2>1, <2>2, BagOfWalks
<1>7. ToBag(new) = FindingBag(graph, rule)
  BY <1>6 DEF FindingBag, FindingsOf, W
<1>8. ToBag(findings') = (ToBag(findings) (+) ToBag(new))
  BY <1>1, <1>4, BagOfConcat
<1>9. ToBag(findings') = PS!(+)(ToBag(findings), PS!FindingBag(graph, rules[ri]))
  <2>1. PS!FindingBag(graph, rules[ri]) = ToBag(new)
    BY <1>7, SameFindings DEF rule
  <2>2. \A A, B : PS!(+)(A, B) = (A (+) B)
    BY DEF PS!(+), (+)
  <2> QED BY <1>8, <2>1, <2>2
<1> QED BY <1>1, <1>2, <1>9 DEF PS!RunRule

(* Every step of the matcher is a step of the abstract search or leaves    *)
(* what the search shows unchanged.                                        *)
LEMMA RefStep == IInv /\ CInv /\ [Next]_vars => [PS!Next]_(PS!vars)
<1> SUFFICES ASSUME IInv, CInv, [Next]_vars PROVE [PS!Next]_(PS!vars)
  OBVIOUS
<1>1. CASE AllRulesRun
  BY <1>1 DEF AllRulesRun, given, PS!Next, PS!Finish
<1>2. CASE \/ SeedNode \/ SeedDone \/ BeginWalk \/ Descend \/ Return \/ WalkDone
           \/ TakeResult \/ CollectDone \/ EndPair
  <2>1. UNCHANGED <<graph, rules, ri, findings>>
    BY <1>2 DEF SeedNode, SeedDone, BeginWalk, Descend, Return, WalkDone,
                TakeResult, CollectDone, EndPair, given
  <2>2. pc \notin {"done", "panicked"} /\ pc' \notin {"done", "panicked"}
    BY <1>2 DEF SeedNode, SeedDone, BeginWalk, Descend, Return, WalkDone,
                TakeResult, CollectDone, EndPair, given
  <2> QED BY <2>1, <2>2 DEF PS!vars
<1>3. CASE UNCHANGED vars
  BY <1>3 DEF vars, PS!vars
<1>4. CASE EmitFindings
  BY <1>4, RefEmit DEF PS!Next
<1> QED BY <1>1, <1>2, <1>3, <1>4, RefStart, RefBeginPair DEF Next

(* The matcher finds, rule by rule, exactly the chains of the graph that   *)
(* satisfy the rule's path, each once for every way of laying the path     *)
(* over it, and panics exactly when a malformed predicate is reached: it   *)
(* implements the abstract search, for every graph and every list of       *)
(* rules.                                                                  *)
THEOREM MatcherImplementsSearch == Spec => ImplementsPathSearch
<1>1. Init => IInv /\ CInv /\ PS!Init
  BY InvInit, CInit, RefInit
<1>2. IInv /\ CInv /\ [Next]_vars => IInv' /\ CInv'
  BY InvStep, CStep
<1>3. IInv /\ CInv /\ [Next]_vars => [PS!Next]_(PS!vars)
  BY RefStep
<1> QED BY <1>1, <1>2, <1>3, PTL DEF Spec, ImplementsPathSearch, PS!Spec

=============================================================================
