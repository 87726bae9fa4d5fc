----------------------------- MODULE MCRuleLoad -----------------------------
(***************************************************************************)
(* Small rule directories.  Hop counts run over 0..3 and usize is cut down *)
(* to two bits, so that two edge steps are enough to leave it.             *)
(***************************************************************************)
EXTENDS RuleLoad

MCResourceKind == {"IamRole"}
MCEdgeKind == {"References"}
MCClause == {"write"}
MCRuleId == {"r1", "r2"}

N == [tag |-> "node", kind |-> "IamRole", where |-> {}]
NBad == [tag |-> "node", kind |-> AnyKind, where |-> {Malformed}]
E(lo, hi) == [tag |-> "edge", kind |-> "References", where |-> {},
              min_hops |-> lo, max_hops |-> hi]
E11 == E(Absent, Absent)
R(total, path) ==
    [id |-> "r1", severity_base |-> "high", max_total_hops |-> total, path |-> path]

Yaml(name, text) == [name |-> name, ext |-> "yaml", readable |-> TRUE, text |-> text]
Unreadable(name) == [name |-> name, ext |-> "yml", readable |-> FALSE, text |-> NotARule]
Other(name) == [name |-> name, ext |-> "other", readable |-> FALSE, text |-> NotARule]

(* Every sequence of at most five node and edge steps, and every choice of *)
(* hop bounds and total for paths of one and two edge steps.               *)
ShapeTexts == {R(2, path) : path \in BoundedSeq({N, E11}, 5)}

Hops == {Absent, 0, 2, 3}
HopTexts ==
    {R(total, <<N, E(lo, hi), N>>) : total \in 0..3, lo \in Hops, hi \in Hops}
    \cup {R(total, <<N, E(lo, hi), N, E(lo2, 2), N>>) :
             total \in 0..3, lo \in Hops, hi \in Hops, lo2 \in {Absent, 0, 2, 3}}

Texts == ShapeTexts \cup HopTexts \cup {NotARule, R(1, <<N, E11, NBad>>)}

OneFileDirs == {{Yaml(1, t)} : t \in Texts}

(* Several files, some good, some bad in different ways, some not rules.   *)
Sample == {R(2, <<N, E11, N>>), R(0, <<N>>), R(2, <<N, N>>), R(0, <<N, E11, N>>),
           R(2, <<N, E(2, Absent), N>>), NotARule}

SeveralFileDirs ==
    {{Yaml(1, t), Yaml(2, u), Other(3), Yaml(4, v)} : t \in Sample, u \in Sample, v \in Sample}
    \cup {{Yaml(1, t), Unreadable(2), Yaml(3, u)} : t \in Sample, u \in Sample}
    \cup {{}, {Other(1)}, MissingDir}

MCDirs == OneFileDirs \cup SeveralFileDirs

=============================================================================
