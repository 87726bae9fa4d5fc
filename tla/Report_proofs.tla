--------------------------- MODULE Report_proofs ---------------------------
(***************************************************************************)
(* Proofs about Report, for any list of rules and any findings that        *)
(* satisfy one of them, of chains of any length.                           *)
(*                                                                         *)
(* What a FindingReport says is settled when it is built, so the invariant *)
(* only has to say which finding each report is of; what the properties    *)
(* say of scores, severities and chains then follows finding by finding.   *)
(* That sorting is a permutation rests on PlaceOf being one: it counts     *)
(* the reports that come before one, in a strict total order.              *)
(***************************************************************************)
EXTENDS Report, SequenceTheorems, FiniteSetTheorems, WellFoundedInduction, TLAPS

RawFinding == [rule_id : RuleId, node_ids : Seq(Nat), edges : Seq(Nat)]

LEMMA LeastElement ==
    ASSUME NEW T \in SUBSET Nat, T # {}
    PROVE  \E m \in T : \A x \in T : m <= x
<1>1. \E m \in T : \A x \in T : ~(<<x, m>> \in OpToRel(<, Nat))
  BY NatLessThanWellFounded, WFMin
<1>2. ASSUME NEW m \in T, NEW x \in T, ~(<<x, m>> \in OpToRel(<, Nat)) PROVE m <= x
  BY <1>2 DEF OpToRel
<1> QED
  BY <1>1, <1>2

LEMMA Upto ==
    ASSUME NEW n \in Nat
    PROVE  IsFiniteSet(1..n) /\ Cardinality(1..n) = n
<1>1. IsFiniteSet(1..n) /\ Cardinality(1..n) = IF 1 > n THEN 0 ELSE n - 1 + 1
  BY FS_Interval
<1> QED
  BY <1>1

-----------------------------------------------------------------------------
(* What a scan promises of its findings.                                   *)
LEMMA ScanFacts ==
    ASSUME scan \in Scans
    PROVE  /\ IsGraph(scan.graph) /\ scan.rules \in Seq(Rule) /\ Len(scan.rules) \in Nat
           /\ findings \in Seq(RawFinding) /\ Len(findings) \in Nat
           /\ \A r \in 1..Len(scan.rules) : scan.rules[r] \in Rule /\ Alternates(scan.rules[r].path)
           /\ \A n \in 1..Len(findings) :
                 \E r \in 1..Len(scan.rules) : Satisfied(scan, findings[n], r)
<1>1. /\ IsGraph(scan.graph) /\ scan.rules \in Seq(Rule) /\ findings \in Seq(RawFinding)
      /\ \A r \in 1..Len(scan.rules) : Alternates(scan.rules[r].path)
      /\ \A n \in 1..Len(findings) :
            \E r \in 1..Len(scan.rules) : Satisfied(scan, findings[n], r)
  BY ScansAssumption DEF RawFinding, findings
<1>2. Len(scan.rules) \in Nat /\ Len(findings) \in Nat
  BY <1>1
<1>3. \A r \in 1..Len(scan.rules) : scan.rules[r] \in Rule
  BY <1>1, ElementOfSeq
<1> QED
  BY <1>1, <1>2, <1>3

(* A finding is reported under a loaded rule of its id.                    *)
LEMMA RuleForFacts ==
    ASSUME scan \in Scans, NEW n \in 1..Len(findings)
    PROVE  /\ RuleFor(findings[n]) \in 1..Len(scan.rules)
           /\ scan.rules[RuleFor(findings[n])].id = findings[n].rule_id
<1> DEFINE T == {r \in 1..Len(scan.rules) : scan.rules[r].id = findings[n].rule_id}
<1>1. T \in SUBSET Nat /\ T # {}
  BY ScanFacts DEF Satisfied
<1>2. PICK m \in T : \A x \in T : m <= x
  BY <1>1, LeastElement
<1>3. \A q \in 1..(m - 1) : q \notin T
  BY <1>1, <1>2
<1>4. \A q \in 1..(m - 1) : scan.rules[q].id # findings[n].rule_id
  BY <1>1, <1>3, ScanFacts
<1>5. \E r \in 1..Len(scan.rules) :
         /\ scan.rules[r].id = findings[n].rule_id
         /\ \A q \in 1..(r - 1) : scan.rules[q].id # findings[n].rule_id
  BY <1>2, <1>4
<1> QED
  BY <1>5 DEF RuleFor

(* The severity decides all but a few points of the score.                 *)
LEMMA ScoreBounds ==
    ASSUME NEW severity \in Severity, NEW nodes, NEW count \in Nat
    PROVE  /\ Score(severity, nodes, count) \in 0..100
           /\ Score(severity, nodes, count) >= base_score(severity) - 20
           /\ Score(severity, nodes, count) <= base_score(severity) + 18
           /\ Score(severity, nodes, count) < 100 =>
                 Score(severity, nodes, count) = base_score(severity) - hop_penalty(count)
                                + sensitivity_bonus(nodes) + exposure_bonus(nodes)
<1>1. base_score(severity) \in {30, 50, 70, 90}
  BY DEF Severity, base_score
<1>2. hop_penalty(count) \in 0..20
  BY DEF hop_penalty
<1>3. sensitivity_bonus(nodes) \in {0, 10} /\ exposure_bonus(nodes) \in {0, 8}
  BY DEF sensitivity_bonus, exposure_bonus
<1> QED
  BY <1>1, <1>2, <1>3 DEF Score, Clamp

LEMMA RankGap ==
    ASSUME NEW s \in Severity, NEW t \in Severity, ~(Rank(t) <= Rank(s) + 1)
    PROVE  base_score(t) >= base_score(s) + 40
BY DEF Severity, Rank, base_score

FindingReports == {FindingReport(n) : n \in 1..Len(findings)}

LEMMA FindingReportFacts ==
    ASSUME scan \in Scans, NEW n \in 1..Len(findings)
    PROVE  /\ FindingReport(n).of = n
           /\ FindingReport(n).rule = RuleFor(findings[n])
           /\ FindingReport(n).rule \in 1..Len(scan.rules)
           /\ scan.rules[FindingReport(n).rule].severity_base \in Severity
           /\ FindingReport(n).score = Score(scan.rules[FindingReport(n).rule].severity_base,
                                             ScoredNodes(findings[n]), Len(findings[n].edges))
           /\ Len(findings[n].edges) \in Nat
           /\ FindingReport(n).score \in 0..100
           /\ FindingReport(n).label \in SeverityLabel
           /\ FindingReport(n).nodes = findings[n].node_ids
           /\ FindingReport(n).edges = [j \in 1..Len(findings[n].edges) |-> ChainEdge(findings[n].edges[j])]
<1>1. findings[n] \in RawFinding
  BY ScanFacts, ElementOfSeq
<1>2. Len(findings[n].edges) \in Nat
  BY <1>1 DEF RawFinding
<1>3. FindingReport(n).rule = RuleFor(findings[n]) /\ FindingReport(n).of = n
  BY DEF FindingReport
<1>4. FindingReport(n).rule \in 1..Len(scan.rules)
  BY <1>3, RuleForFacts
<1>5. scan.rules[FindingReport(n).rule].severity_base \in Severity
  BY <1>4, ScanFacts DEF Rule
<1>6. FindingReport(n).score = Score(scan.rules[FindingReport(n).rule].severity_base,
                                     ScoredNodes(findings[n]), Len(findings[n].edges))
  BY DEF FindingReport
<1>7. FindingReport(n).score \in 0..100
  BY <1>2, <1>5, <1>6, ScoreBounds
<1>8. FindingReport(n).label \in SeverityLabel
  BY DEF FindingReport, label_for, SeverityLabel
<1>9. /\ FindingReport(n).nodes = findings[n].node_ids
      /\ FindingReport(n).edges = [j \in 1..Len(findings[n].edges) |-> ChainEdge(findings[n].edges[j])]
  BY DEF FindingReport
<1> QED
  BY <1>2, <1>3, <1>4, <1>5, <1>6, <1>7, <1>8, <1>9

(* A report does not change once its finding is known.                     *)
LEMMA SameScan ==
    ASSUME scan' = scan
    PROVE  /\ findings' = findings
           /\ \A n : FindingReport(n)' = FindingReport(n)
BY DEF findings, FindingReport, RuleFor, ScoredNodes, ChainEdge

-----------------------------------------------------------------------------
(* The invariant.                                                          *)

SortedOK ==
    /\ {reports[p].of : p \in 1..Len(reports)} = 1..Len(findings)
    /\ \A p, q \in 1..Len(reports) : p < q =>
          \/ reports[p].score > reports[q].score
          \/ reports[p].score = reports[q].score /\ reports[p].of < reports[q].of

ReportsOK ==
    /\ reports \in Seq(FindingReports)
    /\ pc = "build" => Len(reports) = i - 1 /\ \A p \in 1..Len(reports) : reports[p].of = p
    /\ pc # "build" => Len(reports) = Len(findings) /\ SortedOK

Labelled(n, label) == {p \in 1..n : reports[p].label = label}

CountsOK ==
    /\ pc = "build" => by_severity = [label \in SeverityLabel |-> 0]
    /\ pc = "count" =>
          by_severity = [label \in SeverityLabel |-> Cardinality(Labelled(i - 1, label))]
    /\ pc \in {"render", "done"} =>
          by_severity = [label \in SeverityLabel |-> Cardinality(Labelled(Len(reports), label))]

Chains == {RenderedChain(reports[p]) : p \in 1..Len(reports)}

RenderedOK ==
    /\ pc \in {"build", "count"} => rendered = <<>>
    /\ pc \in {"render", "done"} =>
          /\ rendered \in Seq(Chains) /\ Len(rendered) = i - 1
          /\ \A p \in 1..Len(rendered) : rendered[p] = RenderedChain(reports[p])

IInv ==
    /\ scan \in Scans
    /\ pc \in {"build", "count", "render", "done"}
    /\ i \in 1..(Len(findings) + 1)
    /\ ReportsOK
    /\ CountsOK
    /\ RenderedOK

(* Every report is that of some finding.                                   *)
LEMMA ReportFacts ==
    ASSUME scan \in Scans, reports \in Seq(FindingReports)
    PROVE  /\ Len(reports) \in Nat
           /\ \A p \in 1..Len(reports) :
                 /\ reports[p].of \in 1..Len(findings)
                 /\ reports[p] = FindingReport(reports[p].of)
                 /\ reports[p].score \in 0..100
                 /\ reports[p].label \in SeverityLabel
<1>1. Len(reports) \in Nat
  BY LenProperties
<1>2. ASSUME NEW p \in 1..Len(reports)
      PROVE  /\ reports[p].of \in 1..Len(findings)
             /\ reports[p] = FindingReport(reports[p].of)
             /\ reports[p].score \in 0..100
             /\ reports[p].label \in SeverityLabel
  <2>1. reports[p] \in FindingReports
    BY ElementOfSeq
  <2>2. PICK n \in 1..Len(findings) : reports[p] = FindingReport(n)
    BY <2>1 DEF FindingReports
  <2> QED
    BY <2>2, FindingReportFacts
<1> QED
  BY <1>1, <1>2

-----------------------------------------------------------------------------
(* Sorting.                                                                *)

LEMMA ComesBeforeTotal ==
    ASSUME scan \in Scans, reports \in Seq(FindingReports),
           NEW a \in 1..Len(reports), NEW b \in 1..Len(reports), a # b
    PROVE  ComesBefore(a, b) \/ ComesBefore(b, a)
<1>1. reports[a].score \in 0..100 /\ reports[b].score \in 0..100 /\ Len(reports) \in Nat
  BY ReportFacts
<1>2. reports[a].score \in Int /\ reports[b].score \in Int
  <2>1. \A x \in 0..100 : x \in Int
    OBVIOUS
  <2> QED
    BY <1>1, <2>1, Zenon
<1>3. reports[a].score > reports[b].score \/ reports[b].score > reports[a].score
      \/ reports[a].score = reports[b].score
  BY <1>2
<1>4. a < b \/ b < a
  BY <1>1
<1> QED
  BY <1>3, <1>4 DEF ComesBefore

(* Each place is the place of some report, and what comes before is placed *)
(* before.                                                                 *)
LEMMA Placing ==
    ASSUME scan \in Scans, reports \in Seq(FindingReports)
    PROVE  /\ \A a, b \in 1..Len(reports) : ComesBefore(a, b) => PlaceOf(a) < PlaceOf(b)
           /\ \A a \in 1..Len(reports) : PlaceOf(a) \in 1..Len(reports)
           /\ \A a, b \in 1..Len(reports) : PlaceOf(a) = PlaceOf(b) => a = b
           /\ \A p \in 1..Len(reports) : \E a \in 1..Len(reports) : PlaceOf(a) = p
<1> DEFINE S == 1..Len(reports)
           Earlier(a) == {b \in S : ComesBefore(b, a)}
           place == [a \in S |-> PlaceOf(a)]
<1>1. Len(reports) \in Nat /\ \A a \in S : reports[a].score \in Int
  <2>1. Len(reports) \in Nat /\ \A a \in S : reports[a].score \in 0..100
    BY ReportFacts
  <2>2. \A x \in 0..100 : x \in Int
    OBVIOUS
  <2> HIDE DEF S
  <2> QED
    BY <2>1, <2>2
<1>2. IsFiniteSet(S) /\ Cardinality(S) = Len(reports)
  BY <1>1, Upto
<1>3. ASSUME NEW a \in S PROVE IsFiniteSet(Earlier(a)) /\ Cardinality(Earlier(a)) \in Nat
  <2>1. Earlier(a) \in SUBSET S
    OBVIOUS
  <2>2. IsFiniteSet(Earlier(a))
    BY <1>2, <2>1, FS_Subset
  <2> QED
    BY <2>2, FS_CardinalityType
<1>4. ASSUME NEW a \in S PROVE PlaceOf(a) = Cardinality(Earlier(a)) + 1
  BY DEF PlaceOf
<1>5. ASSUME NEW a \in S, NEW b \in S, ComesBefore(a, b) PROVE PlaceOf(a) < PlaceOf(b)
  <2>1. Earlier(a) \cup {a} \in SUBSET Earlier(b)
    BY <1>1, <1>5 DEF ComesBefore
  <2>2. a \notin Earlier(a)
    BY <1>1 DEF ComesBefore
  <2>3. Cardinality(Earlier(a) \cup {a}) = Cardinality(Earlier(a)) + 1
    BY <1>3, <2>2, FS_AddElement
  <2>4. Cardinality(Earlier(a) \cup {a}) <= Cardinality(Earlier(b))
    BY <1>3, <2>1, FS_Subset
  <2> HIDE DEF Earlier
  <2> QED
    BY <1>3, <1>4, <2>3, <2>4
<1>6. ASSUME NEW a \in S PROVE PlaceOf(a) \in S
  <2>1. Earlier(a) \in SUBSET S /\ a \notin Earlier(a)
    BY <1>1 DEF ComesBefore
  <2>2. Earlier(a) \cup {a} \in SUBSET S
    BY <2>1
  <2>3. Cardinality(Earlier(a) \cup {a}) <= Len(reports)
    BY <1>2, <2>2, FS_Subset
  <2>4. Cardinality(Earlier(a) \cup {a}) = Cardinality(Earlier(a)) + 1
    BY <1>3, <2>1, FS_AddElement
  <2> HIDE DEF Earlier
  <2> QED
    BY <1>1, <1>3, <1>4, <2>3, <2>4
<1>7. \A a, b \in S : PlaceOf(a) = PlaceOf(b) => a = b
  <2> SUFFICES ASSUME NEW a \in S, NEW b \in S, a # b PROVE PlaceOf(a) # PlaceOf(b)
    OBVIOUS
  <2>1. ComesBefore(a, b) \/ ComesBefore(b, a)
    BY <1>1 DEF ComesBefore
  <2>2. PlaceOf(a) \in Int /\ PlaceOf(b) \in Int
    BY <1>6
  <2> QED
    BY <1>5, <2>1, <2>2
<1>8. place \in Injection(S, S)
  BY <1>6, <1>7 DEF Injection, IsInjective
<1>9. place \in Surjection(S, S)
  BY <1>2, <1>8, FS_Injection
<1>10. \A p \in S : \E a \in S : PlaceOf(a) = p
  BY <1>9 DEF Surjection
<1> QED
  BY <1>5, <1>6, <1>7, <1>10

LEMMA SortInv == ASSUME IInv, SortReports PROVE IInv'
<1> DEFINE S == 1..Len(reports)
           From(p) == CHOOSE a \in S : PlaceOf(a) = p
<1>1. /\ scan \in Scans /\ reports \in Seq(FindingReports) /\ pc = "build"
      /\ i \in 1..(Len(findings) + 1) /\ Len(reports) = i - 1
      /\ \A p \in S : reports[p].of = p
      /\ by_severity = [label \in SeverityLabel |-> 0] /\ rendered = <<>>
  BY DEF IInv, ReportsOK, CountsOK, RenderedOK, SortReports
<1>2. Len(findings) \in Nat /\ Len(reports) = Len(findings)
  BY <1>1, ScanFacts DEF SortReports
<1>3. \A p \in S : From(p) \in S /\ PlaceOf(From(p)) = p
  BY <1>1, Placing
<1>4. /\ reports' = [p \in S |-> reports[From(p)]] /\ pc' = "count" /\ i' = 1
      /\ UNCHANGED <<scan, by_severity, rendered>>
  BY DEF SortReports
<1>5. \A a \in S : reports[a] \in FindingReports
  BY <1>1, ElementOfSeq
<1>6. findings' = findings /\ FindingReports' = FindingReports
  BY <1>4, SameScan DEF FindingReports
<1>7. reports' \in Seq(FindingReports) /\ Len(reports') = Len(reports)
  <2> HIDE DEF From
  <2>1. reports' \in [1..Len(reports) -> FindingReports]
    BY <1>3, <1>4, <1>5
  <2>2. reports' \in Seq(FindingReports)
    BY <1>2, <2>1, SeqDef
  <2> QED
    BY <1>2, <2>1, <2>2
<1>8. \A p \in S : reports'[p].of = From(p) /\ reports'[p].score = reports[From(p)].score
  BY <1>1, <1>3, <1>4
<1>9. \A a \in S : PlaceOf(a) \in S /\ From(PlaceOf(a)) = a
  <2>1. ASSUME NEW a \in S PROVE PlaceOf(a) \in S /\ From(PlaceOf(a)) = a
    <3>1. PlaceOf(a) \in S
      BY <1>1, Placing
    <3>2. From(PlaceOf(a)) \in S /\ PlaceOf(From(PlaceOf(a))) = PlaceOf(a)
      BY <1>3, <3>1
    <3>3. From(PlaceOf(a)) = a
      BY <1>1, <3>2, Placing
    <3> QED
      BY <3>1, <3>3
  <2> QED
    BY <2>1
<1>10. {reports'[p].of : p \in 1..Len(reports')} = 1..Len(findings)
  <2>1. \A a \in S : \E p \in S : From(p) = a
    BY <1>9
  <2>2. \A p \in S : From(p) \in S
    BY <1>3
  <2> HIDE DEF From
  <2>3. {reports'[p].of : p \in S} = {From(p) : p \in S}
    BY <1>8
  <2>4. {From(p) : p \in S} = S
    BY <2>1, <2>2
  <2> QED
    BY <1>2, <1>7, <2>3, <2>4
<1>11. ASSUME NEW p \in S, NEW q \in S, p < q
       PROVE  \/ reports'[p].score > reports'[q].score
              \/ reports'[p].score = reports'[q].score /\ reports'[p].of < reports'[q].of
  <2>1. From(p) \in S /\ From(q) \in S /\ PlaceOf(From(p)) < PlaceOf(From(q))
    BY <1>3, <1>11
  <2>2. reports[From(p)].score \in 0..100 /\ reports[From(q)].score \in 0..100
    BY <1>1, <2>1, ReportFacts
  <2>3. ~ComesBefore(From(q), From(p)) /\ From(p) # From(q)
    <3>1. ComesBefore(From(q), From(p)) => PlaceOf(From(q)) < PlaceOf(From(p))
      BY <1>1, <2>1, Placing
    <3>2. PlaceOf(From(p)) = p /\ PlaceOf(From(q)) = q
      BY <1>3
    <3> HIDE DEF From
    <3> QED
      BY <1>2, <1>11, <3>1, <3>2
  <2>4. /\ reports'[p].of = From(p) /\ reports'[p].score = reports[From(p)].score
        /\ reports'[q].of = From(q) /\ reports'[q].score = reports[From(q)].score
    BY <1>8
  <2>5. From(p) \in Int /\ From(q) \in Int
    BY <2>1
  <2> HIDE DEF From
  <2>6. \/ reports[From(p)].score > reports[From(q)].score
        \/ reports[From(p)].score = reports[From(q)].score /\ From(p) < From(q)
    <3>1. ComesBefore(From(p), From(q))
      BY <1>1, <2>1, <2>3, ComesBeforeTotal
    <3> QED
      BY <3>1 DEF ComesBefore
  <2> QED
    BY <2>4, <2>6
<1>12. ReportsOK'
  <2> HIDE DEF From
  <2> QED
    BY <1>2, <1>4, <1>6, <1>7, <1>10, <1>11 DEF ReportsOK, SortedOK
<1>13. CountsOK'
  <2>1. \A label : Labelled(i - 1, label)' = {}
    BY <1>4 DEF Labelled
  <2> QED
    BY <1>1, <1>4, <2>1, FS_EmptySet DEF CountsOK
<1>14. RenderedOK'
  BY <1>1, <1>4 DEF RenderedOK
<1> QED
  BY <1>1, <1>2, <1>4, <1>6, <1>12, <1>13, <1>14 DEF IInv

-----------------------------------------------------------------------------
(* The other steps.                                                        *)
LEMMA InitInv == Init => IInv
<1> SUFFICES ASSUME Init PROVE IInv
  OBVIOUS
<1>1. Len(findings) \in Nat
  BY ScanFacts DEF Init
<1>2. <<>> \in Seq(FindingReports) /\ Len(<<>>) = 0
  BY EmptySeq
<1> QED
  BY <1>1, <1>2 DEF Init, IInv, ReportsOK, CountsOK, RenderedOK

LEMMA BuildInv == ASSUME IInv, BuildFinding PROVE IInv'
<1>1. /\ scan \in Scans /\ reports \in Seq(FindingReports) /\ pc = "build"
      /\ i \in 1..(Len(findings) + 1) /\ Len(reports) = i - 1 /\ i <= Len(findings)
      /\ \A p \in 1..Len(reports) : reports[p].of = p
      /\ by_severity = [label \in SeverityLabel |-> 0] /\ rendered = <<>>
  BY DEF IInv, ReportsOK, CountsOK, RenderedOK, BuildFinding
<1>2. /\ reports' = Append(reports, FindingReport(i)) /\ i' = i + 1 /\ pc' = pc
      /\ UNCHANGED <<scan, by_severity, rendered>>
  BY DEF BuildFinding
<1>3. Len(findings) \in Nat /\ i \in 1..Len(findings)
  BY <1>1, ScanFacts
<1>4. findings' = findings /\ FindingReports' = FindingReports
  BY <1>2, SameScan DEF FindingReports
<1>5. FindingReport(i) \in FindingReports /\ FindingReport(i).of = i
  BY <1>1, <1>3, FindingReportFacts DEF FindingReports
<1>6. /\ reports' \in Seq(FindingReports) /\ Len(reports') = i
      /\ \A p \in 1..Len(reports') : reports'[p] = IF p = i THEN FindingReport(i) ELSE reports[p]
  BY <1>1, <1>2, <1>5, AppendProperties
<1>7. \A p \in 1..Len(reports') : reports'[p].of = p
  <2> SUFFICES ASSUME NEW p \in 1..Len(reports') PROVE reports'[p].of = p
    OBVIOUS
  <2>1. CASE p = i
    BY <1>5, <1>6, <2>1
  <2>2. CASE p # i
    BY <1>1, <1>3, <1>6, <2>2
  <2> QED
    BY <2>1, <2>2
<1>8. ReportsOK'
  BY <1>1, <1>2, <1>3, <1>4, <1>6, <1>7 DEF ReportsOK
<1> QED
  BY <1>1, <1>2, <1>3, <1>4, <1>8 DEF IInv, CountsOK, RenderedOK

(* A step that leaves the reports alone after they are sorted leaves what  *)
(* is known of them.                                                       *)
LEMMA ReportsFrame ==
    ASSUME IInv, pc # "build", pc' # "build", UNCHANGED <<scan, reports>>
    PROVE  ReportsOK' /\ findings' = findings /\ Chains' = Chains
BY SameScan DEF IInv, ReportsOK, SortedOK, FindingReports, Chains, RenderedChain, Line

LEMMA CountOneInv == ASSUME IInv, CountFinding PROVE IInv'
<1>1. /\ scan \in Scans /\ reports \in Seq(FindingReports) /\ pc = "count" /\ i <= Len(reports)
      /\ i \in 1..(Len(findings) + 1) /\ Len(reports) = Len(findings)
      /\ by_severity = [label \in SeverityLabel |-> Cardinality(Labelled(i - 1, label))]
      /\ rendered = <<>>
  BY DEF IInv, ReportsOK, CountsOK, RenderedOK, CountFinding
<1>2. /\ by_severity' = [by_severity EXCEPT ![reports[i].label] = @ + 1] /\ i' = i + 1
      /\ pc' = pc /\ UNCHANGED <<scan, reports, rendered>>
  BY DEF CountFinding, CountOneMore
<1>3. Len(reports) \in Nat /\ i \in 1..Len(reports) /\ reports[i].label \in SeverityLabel
  <2>1. i \in 1..Len(reports)
    BY <1>1, ScanFacts
  <2> QED
    BY <1>1, <2>1, ReportFacts
<1>4. ReportsOK' /\ findings' = findings
  BY <1>1, <1>2, ReportsFrame
<1>5. ASSUME NEW label \in SeverityLabel
      PROVE  Cardinality(Labelled(i, label)) =
                IF label = reports[i].label THEN Cardinality(Labelled(i - 1, label)) + 1
                ELSE Cardinality(Labelled(i - 1, label))
  <2>1. Labelled(i - 1, label) \in SUBSET (1..(i - 1)) /\ IsFiniteSet(1..(i - 1))
    BY <1>3, Upto DEF Labelled
  <2>2. IsFiniteSet(Labelled(i - 1, label)) /\ i \notin Labelled(i - 1, label)
    <3>1. i \notin 1..(i - 1)
      BY <1>3
    <3> QED
      BY <2>1, <3>1, FS_Subset
  <2>3. CASE label = reports[i].label
    <3>1. Labelled(i, label) = Labelled(i - 1, label) \cup {i}
      BY <1>3, <2>3 DEF Labelled
    <3> QED
      BY <2>2, <2>3, <3>1, FS_AddElement
  <2>4. CASE label # reports[i].label
    <3>1. Labelled(i, label) = Labelled(i - 1, label)
      BY <1>3, <2>4 DEF Labelled
    <3> QED
      BY <2>4, <3>1
  <2> QED
    BY <2>3, <2>4
<1>6. by_severity' = [label \in SeverityLabel |-> Cardinality(Labelled(i, label))]
  BY <1>1, <1>2, <1>3, <1>5
<1>7. CountsOK'
  <2>1. \A n, label : Labelled(n, label)' = Labelled(n, label)
    BY <1>2 DEF Labelled
  <2>2. i' - 1 = i
    BY <1>2, <1>3
  <2> QED
    BY <1>1, <1>2, <1>6, <2>1, <2>2 DEF CountsOK
<1>8. i' \in 1..(Len(findings') + 1)
  BY <1>1, <1>2, <1>3, <1>4
<1> QED
  BY <1>1, <1>2, <1>4, <1>7, <1>8 DEF IInv, RenderedOK

LEMMA CountDoneInv == ASSUME IInv, CountDone PROVE IInv'
<1>1. /\ scan \in Scans /\ reports \in Seq(FindingReports) /\ pc = "count" /\ i > Len(reports)
      /\ i \in 1..(Len(findings) + 1) /\ Len(reports) = Len(findings)
      /\ by_severity = [label \in SeverityLabel |-> Cardinality(Labelled(i - 1, label))]
      /\ rendered = <<>>
  BY DEF IInv, ReportsOK, CountsOK, RenderedOK, CountDone
<1>2. pc' = "render" /\ i' = 1 /\ UNCHANGED <<scan, reports, by_severity, rendered>>
  BY DEF CountDone
<1>3. Len(reports) \in Nat /\ i - 1 = Len(reports)
  BY <1>1, ScanFacts
<1>4. ReportsOK' /\ findings' = findings
  BY <1>1, <1>2, ReportsFrame
<1>5. CountsOK'
  <2>1. \A n, label : Labelled(n, label)' = Labelled(n, label)
    BY <1>2 DEF Labelled
  <2> QED
    BY <1>1, <1>2, <1>3, <2>1 DEF CountsOK
<1>6. RenderedOK'
  <2>1. <<>> \in Seq(Chains') /\ Len(<<>>) = 0
    BY EmptySeq
  <2> QED
    BY <1>1, <1>2, <2>1 DEF RenderedOK
<1> QED
  BY <1>1, <1>2, <1>3, <1>4, <1>5, <1>6 DEF IInv

LEMMA RenderInv == ASSUME IInv, RenderFinding PROVE IInv'
<1>1. /\ scan \in Scans /\ reports \in Seq(FindingReports) /\ pc = "render" /\ i <= Len(reports)
      /\ i \in 1..(Len(findings) + 1) /\ Len(reports) = Len(findings)
      /\ rendered \in Seq(Chains) /\ Len(rendered) = i - 1
      /\ \A p \in 1..Len(rendered) : rendered[p] = RenderedChain(reports[p])
  BY DEF IInv, ReportsOK, RenderedOK, RenderFinding
<1>2. /\ rendered' = Append(rendered, RenderedChain(reports[i])) /\ i' = i + 1 /\ pc' = pc
      /\ UNCHANGED <<scan, reports, by_severity>>
  BY DEF RenderFinding
<1>3. Len(reports) \in Nat /\ i \in 1..Len(reports)
  BY <1>1, ScanFacts
<1>4. ReportsOK' /\ findings' = findings /\ Chains' = Chains
  BY <1>1, <1>2, ReportsFrame
<1>5. CountsOK'
  <2>1. \A n, label : Labelled(n, label)' = Labelled(n, label)
    BY <1>2 DEF Labelled
  <2> QED
    BY <1>1, <1>2, <2>1 DEF IInv, CountsOK
<1>6. RenderedOK'
  <2>1. RenderedChain(reports[i]) \in Chains
    BY <1>3 DEF Chains
  <2>2. /\ rendered' \in Seq(Chains) /\ Len(rendered') = i
        /\ \A p \in 1..Len(rendered') :
              rendered'[p] = IF p = i THEN RenderedChain(reports[i]) ELSE rendered[p]
    BY <1>1, <1>2, <1>3, <2>1, AppendProperties
  <2>3. \A p \in 1..Len(rendered') : rendered'[p] = RenderedChain(reports[p])
    BY <1>1, <1>3, <2>2
  <2>4. \A p : RenderedChain(reports[p])' = RenderedChain(reports[p])
    BY <1>2 DEF RenderedChain, Line
  <2> QED
    BY <1>1, <1>2, <1>3, <1>4, <2>2, <2>3, <2>4 DEF RenderedOK
<1>7. i' \in 1..(Len(findings') + 1)
  BY <1>1, <1>2, <1>3, <1>4
<1> QED
  BY <1>1, <1>2, <1>4, <1>5, <1>6, <1>7 DEF IInv

LEMMA RenderDoneInv == ASSUME IInv, RenderDone PROVE IInv'
<1>1. pc = "render" /\ pc' = "done" /\ UNCHANGED <<scan, i, reports, by_severity, rendered>>
  BY DEF RenderDone
<1>2. ReportsOK' /\ findings' = findings /\ Chains' = Chains
  BY <1>1, ReportsFrame
<1>3. \A n, label : Labelled(n, label)' = Labelled(n, label)
  BY <1>1 DEF Labelled
<1>4. \A p : RenderedChain(reports[p])' = RenderedChain(reports[p])
  BY <1>1 DEF RenderedChain, Line
<1>5. CountsOK'
  BY <1>1, <1>3 DEF IInv, CountsOK
<1>6. RenderedOK'
  BY <1>1, <1>2, <1>4 DEF IInv, RenderedOK
<1> QED
  BY <1>1, <1>2, <1>5, <1>6 DEF IInv

LEMMA StutterInv == ASSUME IInv, UNCHANGED vars PROVE IInv'
<1>1. UNCHANGED <<scan, pc, i, reports, by_severity, rendered>>
  BY DEF vars
<1>2. findings' = findings /\ FindingReports' = FindingReports
  BY <1>1, SameScan DEF FindingReports
<1>3. ReportsOK'
  BY <1>1, <1>2 DEF IInv, ReportsOK, SortedOK
<1>4. CountsOK'
  <2>1. \A n, label : Labelled(n, label)' = Labelled(n, label)
    BY <1>1 DEF Labelled
  <2> QED
    BY <1>1, <2>1 DEF IInv, CountsOK
<1>5. RenderedOK'
  <2>1. \A p : RenderedChain(reports[p])' = RenderedChain(reports[p])
    BY <1>1 DEF RenderedChain, Line
  <2>2. Chains' = Chains
    BY <1>1, <2>1 DEF Chains
  <2> QED
    BY <1>1, <2>1, <2>2 DEF IInv, RenderedOK
<1> QED
  BY <1>1, <1>2, <1>3, <1>4, <1>5 DEF IInv

LEMMA NextInv == ASSUME IInv, [Next]_vars PROVE IInv'
BY BuildInv, SortInv, CountOneInv, CountDoneInv, RenderInv, RenderDoneInv, StutterInv DEF Next

THEOREM Invariance == Spec => []IInv
<1>1. Init => IInv
  BY InitInv
<1>2. IInv /\ [Next]_vars => IInv'
  BY NextInv
<1> QED
  BY <1>1, <1>2, PTL DEF Spec

-----------------------------------------------------------------------------
(* The properties.                                                         *)

(* The locals of build_report keep their types: every report is of one of  *)
(* the findings and under one of the rules, scores stay within 0..100,     *)
(* however long a chain is.                                                *)
THEOREM TypeCorrect == Spec => []TypeOK
<1>1. IInv => TypeOK
  <2> SUFFICES ASSUME IInv PROVE TypeOK
    OBVIOUS
  <2>1. scan \in Scans /\ reports \in Seq(FindingReports)
    BY DEF IInv, ReportsOK
  <2>2. Len(findings) \in Nat /\ IsGraph(scan.graph) /\ scan.rules \in Seq(Rule)
    BY <2>1, ScanFacts
  <2>3. Len(reports) \in Nat /\ Len(reports) <= Len(findings)
    <3>1. i \in 1..(Len(findings) + 1) /\ (Len(reports) = i - 1 \/ Len(reports) = Len(findings))
      BY DEF IInv, ReportsOK
    <3> QED
      BY <2>2, <3>1
  <2>4. ASSUME NEW p \in 1..Len(reports)
        PROVE  /\ reports[p].of \in 1..Len(findings)
               /\ reports[p].rule \in 1..Len(scan.rules)
               /\ reports[p].score \in 0..100
               /\ reports[p].label \in SeverityLabel
    <3>1. reports[p].of \in 1..Len(findings) /\ reports[p] = FindingReport(reports[p].of)
          /\ reports[p].score \in 0..100 /\ reports[p].label \in SeverityLabel
      BY <2>1, ReportFacts
    <3>2. FindingReport(reports[p].of).rule \in 1..Len(scan.rules)
      BY <2>1, <3>1, FindingReportFacts
    <3> QED
      BY <3>1, <3>2
  <2>5. ASSUME NEW n \in Nat, n <= Len(findings), NEW label
        PROVE  Cardinality(Labelled(n, label)) \in 0..Len(findings)
    <3>1. Labelled(n, label) \in SUBSET (1..n) /\ IsFiniteSet(1..n) /\ Cardinality(1..n) = n
      BY Upto DEF Labelled
    <3>2. Cardinality(Labelled(n, label)) \in Nat /\ Cardinality(Labelled(n, label)) <= n
      BY <3>1, FS_Subset, FS_CardinalityType
    <3> QED
      BY <2>2, <2>5, <3>2
  <2>6. by_severity \in [SeverityLabel -> 0..Len(findings)]
    <3>1. CASE pc = "build"
      BY <2>2, <3>1 DEF IInv, CountsOK
    <3>2. CASE pc = "count"
      <4>1. i - 1 \in Nat /\ i - 1 <= Len(findings)
        BY <2>2 DEF IInv
      <4> QED
        BY <2>5, <3>2, <4>1 DEF IInv, CountsOK
    <3>3. CASE pc \in {"render", "done"}
      BY <2>3, <2>5, <3>3 DEF IInv, CountsOK
    <3> QED
      BY <3>1, <3>2, <3>3 DEF IInv
  <2>7. Len(rendered) <= Len(reports)
    <3>1. CASE pc \in {"build", "count"}
      BY <2>3, <3>1, EmptySeq DEF IInv, RenderedOK
    <3>2. CASE pc \in {"render", "done"}
      BY <2>2, <2>3, <3>2 DEF IInv, RenderedOK, ReportsOK
    <3> QED
      BY <3>1, <3>2 DEF IInv
  <2> QED
    BY <2>2, <2>3, <2>4, <2>6, <2>7 DEF IInv, TypeOK
<1> QED
  BY <1>1, Invariance, PTL

(* Sorting by score is a permutation, stable and worst first, and the      *)
(* summary counts the findings below it, for any number of findings.       *)
THEOREM SortedWorstFirst == Spec => []WorstFirst
<1>1. IInv => WorstFirst
  BY DEF IInv, ReportsOK, SortedOK, CountsOK, Labelled, WorstFirst
<1> QED
  BY <1>1, Invariance, PTL

LEMMA ScoreOfReport ==
    ASSUME IInv, NEW p \in 1..Len(reports)
    PROVE  /\ SeverityOf(p) \in Severity
           /\ reports[p].score \in Int
           /\ reports[p].score >= base_score(SeverityOf(p)) - 20
           /\ reports[p].score <= base_score(SeverityOf(p)) + 18
<1> DEFINE n == reports[p].of
<1>1. scan \in Scans /\ n \in 1..Len(findings) /\ reports[p] = FindingReport(n)
  BY ReportFacts DEF IInv, ReportsOK
<1>2. SeverityOf(p) = scan.rules[FindingReport(n).rule].severity_base
  BY <1>1 DEF SeverityOf
<1>3. /\ SeverityOf(p) \in Severity /\ Len(findings[n].edges) \in Nat
      /\ reports[p].score = Score(SeverityOf(p), ScoredNodes(findings[n]), Len(findings[n].edges))
  BY <1>1, <1>2, FindingReportFacts
<1>4. \A x \in 0..100 : x \in Int
  OBVIOUS
<1> HIDE DEF n
<1> QED
  BY <1>3, <1>4, ScoreBounds

(* Two levels of severity outweigh bonuses, penalty and clamp together, so *)
(* the order of the report never contradicts them, for chains of any       *)
(* length.                                                                 *)
THEOREM SeverityDominates == Spec => []TwoLevelsApartInOrder
<1>1. IInv => TwoLevelsApartInOrder
  <2> SUFFICES ASSUME IInv, pc # "build",
                      NEW p \in 1..Len(reports), NEW q \in 1..Len(reports), p < q,
                      ~(Rank(SeverityOf(q)) <= Rank(SeverityOf(p)) + 1)
               PROVE  FALSE
    BY DEF TwoLevelsApartInOrder
  <2>1. /\ SeverityOf(p) \in Severity /\ SeverityOf(q) \in Severity
        /\ reports[p].score \in Int /\ reports[q].score \in Int
        /\ reports[p].score <= base_score(SeverityOf(p)) + 18
        /\ reports[q].score >= base_score(SeverityOf(q)) - 20
    BY ScoreOfReport
  <2>2. base_score(SeverityOf(q)) >= base_score(SeverityOf(p)) + 40
    BY <2>1, RankGap
  <2>3. base_score(SeverityOf(p)) \in Int /\ base_score(SeverityOf(q)) \in Int
    BY <2>1 DEF Severity, base_score
  <2>4. reports[p].score >= reports[q].score
    BY <2>1 DEF IInv, ReportsOK, SortedOK
  <2> QED
    BY <2>1, <2>2, <2>3, <2>4
<1> QED
  BY <1>1, Invariance, PTL

(* With distinct ids, the rule looked up is one the finding satisfies.     *)
LEMMA OwnRule ==
    ASSUME IInv, UniqueIds, NEW p \in 1..Len(reports)
    PROVE  Satisfied(scan, findings[reports[p].of], reports[p].rule)
<1> DEFINE n == reports[p].of
<1>1. scan \in Scans /\ n \in 1..Len(findings) /\ reports[p] = FindingReport(n)
  BY ReportFacts DEF IInv, ReportsOK
<1>2. PICK r \in 1..Len(scan.rules) : Satisfied(scan, findings[n], r)
  BY <1>1, ScanFacts
<1>3. /\ reports[p].rule \in 1..Len(scan.rules)
      /\ scan.rules[reports[p].rule].id = findings[n].rule_id
  <2>1. FindingReport(n).rule = RuleFor(findings[n])
    BY <1>1, FindingReportFacts
  <2> QED
    BY <1>1, <2>1, RuleForFacts
<1>4. reports[p].rule = r
  BY <1>2, <1>3 DEF UniqueIds, Satisfied
<1> QED
  BY <1>2, <1>4

(* The node after each edge of a chain of single hops is the next of the   *)
(* finding's nodes.                                                        *)
LEMMA SingleHopChain ==
    ASSUME IInv, NEW p \in 1..Len(reports), SingleHopRule(p)
    PROVE  LET f == findings[reports[p].of]
           IN  /\ Len(f.edges) \in Nat
               /\ Len(f.node_ids) = Len(f.edges) + 1
               /\ \A j \in 1..Len(f.edges) :
                     /\ f.node_ids[j] = scan.graph.edges[f.edges[j]].src
                     /\ f.node_ids[j + 1] = scan.graph.edges[f.edges[j]].dst
<1> DEFINE f == findings[reports[p].of]
           path == scan.rules[reports[p].rule].path
           k == PairCount(path)
<1>1. /\ scan \in Scans /\ reports[p].of \in 1..Len(findings)
      /\ reports[p].rule \in 1..Len(scan.rules)
  <2>1. scan \in Scans /\ reports[p].of \in 1..Len(findings)
        /\ reports[p] = FindingReport(reports[p].of)
    BY ReportFacts DEF IInv, ReportsOK
  <2> QED
    BY <2>1, FindingReportFacts
<1>2. f.edges \in Seq(Nat) /\ Len(f.edges) \in Nat
  <2>1. f \in RawFinding
    BY <1>1, ScanFacts, ElementOfSeq
  <2> QED
    BY <2>1 DEF RawFinding
<1>3. path \in Seq(PathStep) /\ Alternates(path)
  BY <1>1, ScanFacts DEF Rule
<1>4. k \in Nat
  <2>1. Len(path) \in Nat /\ Len(path) = 2 * k + 1
    BY <1>3 DEF Alternates
  <2>2. k \in Int
    BY <2>1 DEF PairCount
  <2> HIDE DEF k
  <2> QED
    BY <2>1, <2>2
<1>5. PICK cut \in Cuts(k, f.edges) :
         Satisfies(scan.graph, path, k, f.node_ids, f.edges, cut)
  BY <1>1, OwnRule DEF SingleHopRule, Satisfied
<1>6. cut \in [0..k -> 0..Len(f.edges)] /\ cut[0] = 0
  BY <1>5 DEF Cuts, Satisfies
<1>7. ASSUME NEW j \in 1..k PROVE cut[j] = cut[j - 1] + 1
  <2>1. EdgeStepOf(path, j) \in EdgeStep
    BY <1>3 DEF Alternates
  <2>2. EdgeStepOf(path, j).max_hops \in Nat /\ EdgeStepOf(path, j).max_hops <= 1
    BY <2>1 DEF EdgeStep, SingleHopRule, SingleHops
  <2>3. IsSegment(scan.graph, f.edges, cut[j - 1], cut[j], EdgeStepOf(path, j))
    BY <1>5 DEF Satisfies
  <2>4. cut[j] - cut[j - 1] >= 1 /\ cut[j] - cut[j - 1] <= EdgeStepOf(path, j).max_hops
    BY <2>3 DEF IsSegment
  <2>5. j \in 0..k /\ j - 1 \in 0..k
    BY <1>4
  <2>6. cut[j] \in 0..Len(f.edges) /\ cut[j - 1] \in 0..Len(f.edges)
    BY <1>6, <2>5
  <2>7. cut[j] \in Int /\ cut[j - 1] \in Int
    BY <1>2, <2>6
  <2> QED
    BY <2>2, <2>4, <2>7
<1>8. \A j \in 0..k : cut[j] = j
  <2> DEFINE T == {j \in 0..k : cut[j] # j}
  <2> SUFFICES ASSUME T # {} PROVE FALSE
    OBVIOUS
  <2>1. T \in SUBSET Nat
    BY <1>4
  <2>2. PICK m \in T : \A x \in T : m <= x
    BY <2>1, LeastElement
  <2>3. m \in 1..k
    BY <1>4, <1>6
  <2>4. m - 1 \in 0..k /\ m - 1 \notin T
    BY <1>4, <2>2, <2>3
  <2>5. cut[m - 1] = m - 1
    BY <2>4
  <2>6. cut[m] = m
    BY <1>7, <2>3, <2>5
  <2> QED
    BY <2>6
<1>9. Len(f.edges) = k /\ Len(f.node_ids) = k + 1
  <2>1. cut[k] = Len(f.edges) /\ Len(f.node_ids) = k + 1
    BY <1>5 DEF Satisfies
  <2>2. k \in 0..k
    BY <1>4
  <2> QED
    BY <1>8, <2>1, <2>2
<1>10. \A j \in 0..k : f.node_ids[j + 1] = Visited(scan.graph, f.node_ids[1], f.edges, j)
  BY <1>5, <1>8 DEF Satisfies
<1>11. \A j \in 1..k : scan.graph.edges[f.edges[j]].src
                          = Visited(scan.graph, f.node_ids[1], f.edges, j - 1)
  BY <1>5, <1>9 DEF Satisfies, IsTrail
<1>12. ASSUME NEW j \in 1..k
       PROVE  /\ f.node_ids[j] = scan.graph.edges[f.edges[j]].src
              /\ f.node_ids[j + 1] = scan.graph.edges[f.edges[j]].dst
  <2>1. j \in 0..k /\ j - 1 \in 0..k /\ (j - 1) + 1 = j /\ j # 0
    BY <1>4
  <2>2. f.node_ids[(j - 1) + 1] = scan.graph.edges[f.edges[j]].src
    BY <1>10, <1>11, <2>1
  <2>3. f.node_ids[j + 1] = scan.graph.edges[f.edges[j]].dst
    BY <1>10, <2>1 DEF Visited
  <2> QED
    BY <2>1, <2>2, <2>3
<1> HIDE DEF f, k
<1>13. /\ Len(f.edges) \in Nat
       /\ Len(f.node_ids) = Len(f.edges) + 1
       /\ \A j \in 1..Len(f.edges) :
             /\ f.node_ids[j] = scan.graph.edges[f.edges[j]].src
             /\ f.node_ids[j + 1] = scan.graph.edges[f.edges[j]].dst
  BY <1>2, <1>9, <1>12
<1> QED
  BY <1>13 DEF f

(* A chain of single hops is printed whole: every edge, with the node it   *)
(* leads to.                                                               *)
THEOREM SingleHopsPrinted == Spec => []SingleHopChainsRendered
<1>1. IInv => SingleHopChainsRendered
  <2> SUFFICES ASSUME IInv, NEW p \in 1..Len(rendered), SingleHopRule(p)
               PROVE  ShowsEveryHop(p)
    BY DEF SingleHopChainsRendered
  <2> DEFINE f == findings[reports[p].of]
             m == Len(f.edges)
             lines == [j \in 1..m |-> Line(reports[p], j)]
  <2>1. p \in 1..Len(reports) /\ rendered[p] = RenderedChain(reports[p])
    <3>1. Len(<<>>) = 0 /\ Len(rendered) \in Nat
      BY EmptySeq DEF IInv, RenderedOK
    <3>2. pc \in {"render", "done"}
      BY <3>1 DEF IInv, RenderedOK
    <3>3. Len(rendered) = i - 1 /\ Len(reports) = Len(findings) /\ i \in 1..(Len(findings) + 1)
      BY <3>2 DEF IInv, RenderedOK, ReportsOK
    <3>4. Len(findings) \in Nat
      BY ScanFacts DEF IInv
    <3> QED
      BY <3>2, <3>3, <3>4 DEF IInv, RenderedOK
  <2>2. /\ m \in Nat /\ Len(f.node_ids) = m + 1
        /\ \A j \in 1..m : f.node_ids[j + 1] = scan.graph.edges[f.edges[j]].dst
    BY <2>1, SingleHopChain
  <2>3. /\ reports[p].nodes = f.node_ids
        /\ reports[p].edges = [j \in 1..m |-> ChainEdge(f.edges[j])]
    <3>1. scan \in Scans /\ reports[p].of \in 1..Len(findings)
          /\ reports[p] = FindingReport(reports[p].of)
      BY <2>1, ReportFacts DEF IInv, ReportsOK
    <3> QED
      BY <3>1, FindingReportFacts
  <2> HIDE DEF f, m
  <2>4. Len(reports[p].edges) = m /\ Len(reports[p].nodes) - 1 = m
    BY <2>2, <2>3
  <2>5. rendered[p].lines = lines
    BY <2>1, <2>4 DEF RenderedChain
  <2>6. Len(rendered[p].lines) = Len(reports[p].edges)
    BY <2>2, <2>4, <2>5
  <2>7. ASSUME NEW j \in 1..m
        PROVE  rendered[p].lines[j].to = rendered[p].lines[j].edge.to
    <3>1. rendered[p].lines[j] = [edge |-> ChainEdge(f.edges[j]), to |-> f.node_ids[j + 1]]
      BY <2>3, <2>5 DEF Line
    <3> QED
      BY <2>2, <3>1 DEF ChainEdge
  <2> QED
    BY <2>4, <2>6, <2>7 DEF ShowsEveryHop
<1> QED
  BY <1>1, Invariance, PTL

LEMMA PassedAreScored ==
    ASSUME IInv, NEW p \in 1..Len(reports), SingleHopRule(p)
    PROVE  {scan.graph.nodes[n] : n \in PassesThrough(p)} = ScoredNodes(findings[reports[p].of])
<1> DEFINE f == findings[reports[p].of]
           m == Len(f.edges)
<1>1. /\ m \in Nat /\ Len(f.node_ids) = m + 1
      /\ \A j \in 1..m : /\ f.node_ids[j] = scan.graph.edges[f.edges[j]].src
                         /\ f.node_ids[j + 1] = scan.graph.edges[f.edges[j]].dst
  BY SingleHopChain
<1>2. reports[p].nodes = f.node_ids /\ reports[p].edges = [j \in 1..m |-> ChainEdge(f.edges[j])]
  <2>1. scan \in Scans /\ reports[p].of \in 1..Len(findings)
        /\ reports[p] = FindingReport(reports[p].of)
    BY ReportFacts DEF IInv, ReportsOK
  <2> QED
    BY <2>1, FindingReportFacts
<1> HIDE DEF f, m
<1>3. Len(reports[p].edges) = m
  BY <1>1, <1>2
<1>4. ASSUME NEW j \in 1..m
      PROVE  {reports[p].edges[j].from, reports[p].edges[j].to} = {f.node_ids[j], f.node_ids[j + 1]}
  <2>1. reports[p].edges[j] = ChainEdge(f.edges[j])
    BY <1>2
  <2>2. ChainEdge(f.edges[j]).from = f.node_ids[j] /\ ChainEdge(f.edges[j]).to = f.node_ids[j + 1]
    BY <1>1 DEF ChainEdge
  <2> QED
    BY <2>1, <2>2
<1>5. PassesThrough(p) = {f.node_ids[1]} \cup UNION {{f.node_ids[j], f.node_ids[j + 1]} : j \in 1..m}
  <2>1. {{reports[p].edges[j].from, reports[p].edges[j].to} : j \in 1..m}
           = {{f.node_ids[j], f.node_ids[j + 1]} : j \in 1..m}
    BY <1>4, Zenon
  <2>2. PassesThrough(p) = {reports[p].nodes[1]} \cup
                UNION {{reports[p].edges[j].from, reports[p].edges[j].to} : j \in 1..m}
    BY <1>3 DEF PassesThrough
  <2> QED
    BY <1>2, <2>1, <2>2
<1>6. {f.node_ids[1]} \cup UNION {{f.node_ids[j], f.node_ids[j + 1]} : j \in 1..m}
         = {f.node_ids[j] : j \in 1..(m + 1)}
  <2>1. ASSUME NEW j \in 1..(m + 1)
        PROVE  f.node_ids[j] \in {f.node_ids[1]} \cup UNION {{f.node_ids[x], f.node_ids[x + 1]} : x \in 1..m}
    <3>1. CASE j = 1
      BY <3>1
    <3>2. CASE j # 1
      <4>1. j - 1 \in 1..m /\ (j - 1) + 1 = j
        BY <1>1, <3>2
      <4>2. f.node_ids[j] \in {f.node_ids[j - 1], f.node_ids[(j - 1) + 1]}
        BY <4>1
      <4> QED
        BY <4>1, <4>2
    <3> QED
      BY <3>1, <3>2
  <2>2. 1 \in 1..(m + 1) /\ \A j \in 1..m : j \in 1..(m + 1) /\ j + 1 \in 1..(m + 1)
    BY <1>1
  <2> QED
    BY <2>1, <2>2
<1>7. ScoredNodes(f) = {scan.graph.nodes[f.node_ids[j]] : j \in 1..(m + 1)}
  BY <1>1 DEF ScoredNodes
<1>8. {scan.graph.nodes[n] : n \in PassesThrough(p)} = ScoredNodes(f)
  BY <1>5, <1>6, <1>7
<1> QED
  BY <1>8 DEF f

(* For rules of single hops, the bonuses of a score are exactly those of   *)
(* the nodes its chain passes through.                                     *)
THEOREM BonusesExact == Spec => []BonusesOfWholeChain
<1>1. IInv => BonusesOfWholeChain
  <2> SUFFICES ASSUME IInv, NEW p \in 1..Len(reports), SingleHopRule(p), reports[p].score < 100
               PROVE  reports[p].score = base_score(SeverityOf(p)) - hop_penalty(Len(reports[p].edges))
                                 + (IF Touches(p, {Sensitive}) THEN 10 ELSE 0)
                                 + (IF Touches(p, ExposedFacts) THEN 8 ELSE 0)
    BY DEF BonusesOfWholeChain
  <2> DEFINE n == reports[p].of
             scored == ScoredNodes(findings[n])
  <2>1. scan \in Scans /\ n \in 1..Len(findings) /\ reports[p] = FindingReport(n)
    BY ReportFacts DEF IInv, ReportsOK
  <2>2. /\ SeverityOf(p) \in Severity /\ Len(findings[n].edges) \in Nat
        /\ reports[p].score = Score(SeverityOf(p), scored, Len(findings[n].edges))
        /\ reports[p].edges = [j \in 1..Len(findings[n].edges) |-> ChainEdge(findings[n].edges[j])]
    BY <2>1, FindingReportFacts DEF SeverityOf
  <2>3. Len(reports[p].edges) = Len(findings[n].edges)
    BY <2>2
  <2>4. {scan.graph.nodes[x] : x \in PassesThrough(p)} = scored
    BY PassedAreScored
  <2> HIDE DEF n, scored
  <2>5. reports[p].score = base_score(SeverityOf(p)) - hop_penalty(Len(reports[p].edges))
                              + sensitivity_bonus(scored) + exposure_bonus(scored)
    BY <2>2, <2>3, ScoreBounds
  <2>6. (\E x \in scored : Sensitive \in x.holds) <=> Touches(p, {Sensitive})
    BY <2>4 DEF Touches
  <2>7. (\E x \in scored : x.holds \cap ExposedFacts # {}) <=> Touches(p, ExposedFacts)
    BY <2>4 DEF Touches
  <2> QED
    BY <2>5, <2>6, <2>7 DEF sensitivity_bonus, exposure_bonus
<1> QED
  BY <1>1, Invariance, PTL

=============================================================================
