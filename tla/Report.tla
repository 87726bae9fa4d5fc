------------------------------- MODULE Report -------------------------------
(***************************************************************************)
(* The report, policylens-rules/src/report.rs: build_report scores every   *)
(* finding, orders the findings worst first and counts them by severity;   *)
(* render_human prints each chain.  Findings are taken as the matcher      *)
(* leaves them: each satisfies a loaded rule of its rule_id (the property  *)
(* FindingsConform of module RuleMatcher).                                 *)
(***************************************************************************)
EXTENDS Walks, Scoring

CONSTANT Scans  \* the graphs, rules and lists of findings to report on

Satisfied(scan, f, r) ==
    /\ f.rule_id = scan.rules[r].id
    /\ \E cut \in Cuts(PairCount(scan.rules[r].path), f.edges) :
          Satisfies(scan.graph, scan.rules[r].path, PairCount(scan.rules[r].path),
                    f.node_ids, f.edges, cut)

ASSUME ScansAssumption ==
    \A scan \in Scans :
        /\ IsGraph(scan.graph)
        /\ scan.rules \in Seq(Rule)
        /\ \A r \in 1..Len(scan.rules) : Alternates(scan.rules[r].path)
        /\ scan.findings \in Seq([rule_id : RuleId, node_ids : Seq(Nat), edges : Seq(Nat)])
        /\ \A i \in 1..Len(scan.findings) :
              \E r \in 1..Len(scan.rules) : Satisfied(scan, scan.findings[i], r)

VARIABLES
    scan,           \* what build_report is given
    pc,             \* where build_report and render_human are
    i,              \* the finding being handled
    reports,        \* the FindingReports
    by_severity,    \* how many of them carry each label
    rendered        \* the chains printed by render_human

vars == <<scan, pc, i, reports, by_severity, rendered>>

findings == scan.findings

-----------------------------------------------------------------------------

Init ==
    /\ scan \in Scans
    /\ pc = "build" /\ i = 1
    /\ reports = <<>>
    /\ by_severity = [label \in SeverityLabel |-> 0]
    /\ rendered = <<>>

(* The rule a finding is reported under is the first one of its id.        *)
RuleFor(f) ==
    CHOOSE r \in 1..Len(scan.rules) :
        /\ scan.rules[r].id = f.rule_id
        /\ \A q \in 1..(r - 1) : scan.rules[q].id # f.rule_id

(* The nodes scored are those at the path's node steps; an edge step that  *)
(* is repeated passes through further nodes.                               *)
ScoredNodesButLast(f) == {scan.graph.nodes[f.node_ids[n]] : n \in 1..(Len(f.node_ids) - 1)}
ScoredNodes(f) == {scan.graph.nodes[f.node_ids[n]] : n \in 1..Len(f.node_ids)}

ChainEdge(e) == [edge |-> e, from |-> scan.graph.edges[e].src, to |-> scan.graph.edges[e].dst]

(* `of` is the finding reported on, for the properties; the score's        *)
(* explanation and the descriptions are left out.                          *)
FindingReport(n) ==
    LET f == findings[n]
        r == RuleFor(f)
        score == Score(scan.rules[r].severity_base, ScoredNodes(f), Len(f.edges))
    IN  [of |-> n, rule |-> r, score |-> score, label |-> label_for(score),
         nodes |-> f.node_ids,
         edges |-> [j \in 1..Len(f.edges) |-> ChainEdge(f.edges[j])]]

BuildFinding ==
    /\ pc = "build" /\ i <= Len(findings)
    /\ reports' = Append(reports, FindingReport(i))
    /\ i' = i + 1
    /\ UNCHANGED <<scan, pc, by_severity, rendered>>

(* sort_by_key(Reverse(score)) is stable.                                  *)
ComesBeforeUnstably(a, b) ==
    reports[a].score > reports[b].score \/ (reports[a].score = reports[b].score /\ a > b)
ComesBefore(a, b) ==
    reports[a].score > reports[b].score \/ (reports[a].score = reports[b].score /\ a < b)

PlaceOf(a) == Cardinality({b \in 1..Len(reports) : ComesBefore(b, a)}) + 1

SortReports ==
    /\ pc = "build" /\ i > Len(findings)
    /\ reports' = [p \in 1..Len(reports) |->
                      reports[CHOOSE a \in 1..Len(reports) : PlaceOf(a) = p]]
    /\ pc' = "count" /\ i' = 1
    /\ UNCHANGED <<scan, by_severity, rendered>>

CountOneMore(label) == [by_severity EXCEPT ![label] = @ + 1]

CountFinding ==
    /\ pc = "count" /\ i <= Len(reports)
    /\ by_severity' = CountOneMore(reports[i].label)
    /\ i' = i + 1
    /\ UNCHANGED <<scan, pc, reports, rendered>>

CountDone ==
    /\ pc = "count" /\ i > Len(reports)
    /\ pc' = "render" /\ i' = 1
    /\ UNCHANGED <<scan, reports, by_severity, rendered>>

-----------------------------------------------------------------------------
(* render_human.                                                           *)

(* A printed line of a chain: an edge, and the node it is said to lead to. *)
LineUnskipped(report, j) == [edge |-> report.edges[j], to |-> report.nodes[j]]
Line(report, j) == [edge |-> report.edges[j], to |-> report.nodes[j + 1]]

(* The edges are zipped with the nodes after the first one: the shorter of *)
(* the two ends the chain.                                                 *)
RenderedChain(report) ==
    LET tail == Len(report.nodes) - 1
        n == IF Len(report.edges) < tail THEN Len(report.edges) ELSE tail
    IN  [start |-> report.nodes[1], lines |-> [j \in 1..n |-> Line(report, j)]]

RenderFinding ==
    /\ pc = "render" /\ i <= Len(reports)
    /\ rendered' = Append(rendered, RenderedChain(reports[i]))
    /\ i' = i + 1
    /\ UNCHANGED <<scan, pc, reports, by_severity>>

RenderDone ==
    /\ pc = "render" /\ i > Len(reports)
    /\ pc' = "done"
    /\ UNCHANGED <<scan, i, reports, by_severity, rendered>>

Next == BuildFinding \/ SortReports \/ CountFinding \/ CountDone \/ RenderFinding \/ RenderDone

Spec == Init /\ [][Next]_vars

-----------------------------------------------------------------------------
(* Properties.                                                             *)

(* The types of build_report's locals; scores and labels in their ranges.  *)
TypeOK ==
    /\ IsGraph(scan.graph) /\ scan.rules \in Seq(Rule)
    /\ pc \in {"build", "count", "render", "done"}
    /\ i \in 1..(Len(findings) + 1)
    /\ Len(reports) <= Len(findings)
    /\ \A p \in 1..Len(reports) :
          /\ reports[p].of \in 1..Len(findings)
          /\ reports[p].rule \in 1..Len(scan.rules)
          /\ reports[p].score \in 0..100
          /\ reports[p].label \in SeverityLabel
    /\ by_severity \in [SeverityLabel -> 0..Len(findings)]
    /\ Len(rendered) <= Len(reports)

(* The report reads worst first, loses and repeats no finding, and leaves  *)
(* findings of equal score in the order the matcher found them (line 78);  *)
(* the counts of its summary are those of the findings below it.           *)
WorstFirst ==
    pc # "build" =>
        /\ {reports[p].of : p \in 1..Len(reports)} = 1..Len(findings)
        /\ \A p, q \in 1..Len(reports) : p < q =>
              \/ reports[p].score > reports[q].score
              \/ reports[p].score = reports[q].score /\ reports[p].of < reports[q].of
        /\ pc # "count" =>
              \A label \in SeverityLabel :
                  by_severity[label] = Cardinality({p \in 1..Len(reports) : reports[p].label = label})

SeverityOf(p) == scan.rules[reports[p].rule].severity_base

(* Bonuses and penalties refine the rule's severity but never carry a      *)
(* finding past one whose rule is two or more levels away, however long    *)
(* the chains are: lines 23 and 37 of scoring.rs.                          *)
TwoLevelsApartInOrder ==
    pc # "build" =>
        \A p, q \in 1..Len(reports) : p < q => Rank(SeverityOf(q)) <= Rank(SeverityOf(p)) + 1

(* README.md:233: a finding's base severity is the one declared per rule;  *)
(* so a finding is reported under a rule its chain satisfies, also when    *)
(* several loaded rules carry one id, which load_dir does not refuse.      *)
SeverityFromOwnRule ==
    \A p \in 1..Len(reports) : Satisfied(scan, findings[reports[p].of], reports[p].rule)

UniqueIds == \A r, q \in 1..Len(scan.rules) : scan.rules[r].id = scan.rules[q].id => r = q

ShowsEveryHop(p) ==
    /\ Len(rendered[p].lines) = Len(reports[p].edges)
    /\ \A j \in 1..Len(rendered[p].lines) :
          rendered[p].lines[j].to = rendered[p].lines[j].edge.to

SingleHops(path) == \A n \in 1..PairCount(path) : EdgeStepOf(path, n).max_hops <= 1

SingleHopRule(p) == UniqueIds /\ SingleHops(scan.rules[reports[p].rule].path)

(* Every edge of a chain is printed, with the node it really leads to, for *)
(* rules like the built-in ones whose edge steps are single hops.          *)
SingleHopChainsRendered == \A p \in 1..Len(rendered) : SingleHopRule(p) => ShowsEveryHop(p)

(* For the same rules, the facts that raise a score are those of all nodes *)
(* the chain passes through, its start and both ends of every edge, and of *)
(* no other: a chain with and one without a sensitive or an exposed node   *)
(* differ by exactly the bonuses, unless the score is at the end of its    *)
(* range.                                                                  *)
PassesThrough(p) ==
    {reports[p].nodes[1]} \cup
        UNION {{reports[p].edges[j].from, reports[p].edges[j].to} : j \in 1..Len(reports[p].edges)}

Touches(p, facts) == \E n \in PassesThrough(p) : scan.graph.nodes[n].holds \cap facts # {}

BonusesOfWholeChain ==
    \A p \in 1..Len(reports) :
        SingleHopRule(p) /\ reports[p].score < 100 =>
            reports[p].score = base_score(SeverityOf(p)) - hop_penalty(Len(reports[p].edges))
                                 + (IF Touches(p, {Sensitive}) THEN 10 ELSE 0)
                                 + (IF Touches(p, ExposedFacts) THEN 8 ELSE 0)

(* report.rs:3: every finding traces back to its source for every hop in   *)
(* the chain, whatever the rule.                                           *)
EveryHopRendered == \A p \in 1..Len(rendered) : ShowsEveryHop(p)

=============================================================================
