------------------------------ MODULE Scoring ------------------------------
(***************************************************************************)
(* Severity scoring, policylens-rules/src/scoring.rs: how a finding's      *)
(* score and label follow from its rule's base severity, the number of its *)
(* edges and the derived facts of its nodes.  A derived fact that          *)
(* classification has set to true on a node is a clause the node holds.    *)
(***************************************************************************)
EXTENDS RuleModel

Sensitive == "_derived.sensitive"
ExposedFacts == {"_derived.public", "_derived.publicly_invokable", "_derived.open_ingress"}

SeverityLabel == {"LOW", "MEDIUM", "HIGH", "CRITICAL"}

base_score(severity) ==
    CASE severity = "critical" -> 90
      [] severity = "high"     -> 70
      [] severity = "medium"   -> 50
      [] severity = "low"      -> 30

hop_penalty_uncapped(edge_count) ==
    IF edge_count <= 1 THEN 0 ELSE 5 * (edge_count - 1)

hop_penalty(edge_count) ==
    IF edge_count <= 1 THEN 0
    ELSE IF edge_count > 5 THEN 20 ELSE 5 * (edge_count - 1)

sensitivity_bonus(nodes) == IF \E n \in nodes : Sensitive \in n.holds THEN 10 ELSE 0

exposure_bonus(nodes) ==
    IF \E n \in nodes : n.holds \cap ExposedFacts # {} THEN 8 ELSE 0

ClampBelow(x, lo, hi) == IF x < lo THEN lo ELSE x
Clamp(x, lo, hi) == IF x < lo THEN lo ELSE IF x > hi THEN hi ELSE x

(* score_finding on the set of nodes it is given.                          *)
Score(severity, nodes, edge_count) ==
    Clamp(base_score(severity) - hop_penalty(edge_count)
            + sensitivity_bonus(nodes) + exposure_bonus(nodes), 0, 100)

label_for(score) ==
    IF score >= 85 THEN "CRITICAL"
    ELSE IF score >= 65 THEN "HIGH"
    ELSE IF score >= 40 THEN "MEDIUM" ELSE "LOW"

(* The order of the enum Severity.                                         *)
Rank(severity) ==
    CASE severity = "critical" -> 4
      [] severity = "high"     -> 3
      [] severity = "medium"   -> 2
      [] severity = "low"      -> 1

=============================================================================
