------------------------------ MODULE RuleLoad ------------------------------
(***************************************************************************)
(* Loading the rules, policylens-rules/src/rule.rs: RuleSet::load_dir,     *)
(* which reads the YAML files of a directory in name order and stops at    *)
(* the first one it cannot accept, and validate, whose two loops are taken *)
(* one iteration at a time.                                                *)
(*                                                                         *)
(* Hop counts are usize: the running sum of minimum hops wraps at          *)
(* UsizeLimit in a release build and panics in a debug build.              *)
(***************************************************************************)
EXTENDS RuleModel, SequencesExt, FiniteSets

CONSTANTS
    Dirs,           \* the rule directories to consider
    MissingDir,     \* a path that is no directory, or cannot be listed
    NotARule,       \* file content serde_yaml cannot read as a Rule
    Absent,         \* an edge step without `min_hops:` or `max_hops:`
    UsizeLimit      \* 2^64 in the code

Usize == 0..(UsizeLimit - 1)

(* The text of a rule: a rule whose hop counts may be left out.            *)
EdgeStepText == [tag : {"edge"}, kind : EdgeKind, where : Where,
                 min_hops : Usize \cup {Absent}, max_hops : Usize \cup {Absent}]
RuleText == [id : RuleId, severity_base : Severity, max_total_hops : Usize,
             path : Seq(NodeStep \cup EdgeStepText)]

(* `name` is the place of the file in the order of paths; what the listing *)
(* gives as an error is passed over and is not among the files.            *)
File == [name : Nat, ext : {"yaml", "yml", "other"}, readable : BOOLEAN,
         text : RuleText \cup {NotARule}]

ASSUME UsizeAssumption == UsizeLimit \in Nat /\ UsizeLimit > 1 /\ Absent \notin Nat
ASSUME DirsAssumption ==
    \A d \in Dirs : d = MissingDir \/
        /\ d \subseteq File /\ IsFiniteSet(d)
        /\ \A f, g \in d : f.name = g.name => f = g

VARIABLES
    dir,            \* the directory being loaded
    build,          \* "debug" or "release"
    pc,             \* where load_dir and validate are
    entries,        \* load_dir: the rule files, sorted
    k,              \* load_dir: the file being handled
    rule,           \* the rule parsed from it
    pos,            \* validate: the window or step its loop is at
    min_required,   \* validate: the minimum hops summed so far
    rules,          \* load_dir: the rules accepted so far
    error           \* the RuleLoadError returned, or "none"

vars == <<dir, build, pc, entries, k, rule, pos, min_required, rules, error>>

-----------------------------------------------------------------------------

Init ==
    /\ dir \in Dirs
    /\ build \in {"debug", "release"}
    /\ pc = "list"
    /\ entries = <<>> /\ k = 1 /\ rule = NotARule
    /\ pos = 1 /\ min_required = 0
    /\ rules = <<>> /\ error = "none"

IsRuleFile(f) == f.ext \in {"yaml", "yml"}
RuleFiles == {f \in dir : IsRuleFile(f)}

(* The order read_dir lists a directory in is arbitrary.                   *)
AsListed(s) == TRUE
Sorted(s) == \A i, j \in 1..Len(s) : i < j => s[i].name < s[j].name

ListDir ==
    /\ pc = "list"
    /\ IF dir = MissingDir
       THEN pc' = "panicked" /\ UNCHANGED entries
       ELSE /\ pc' = "file"
            /\ entries' \in [1..Cardinality(RuleFiles) -> RuleFiles]
            /\ ToSet(entries') = RuleFiles
            /\ Sorted(entries')
    /\ UNCHANGED <<dir, build, k, rule, pos, min_required, rules, error>>

FailAndGoOn(e) == pc' = "file" /\ error' = e
Fail(e) == pc' = "failed" /\ error' = e

OrOne(hops) == IF hops = Absent THEN 1 ELSE hops

WithDefaults(step) ==
    IF step.tag = "node" THEN step
    ELSE [step EXCEPT !.min_hops = OrOne(@), !.max_hops = OrOne(@)]

Parsed(text) == [text EXCEPT !.path = [i \in 1..Len(@) |-> WithDefaults(@[i])]]

ParseFile ==
    /\ pc = "file" /\ k <= Len(entries)
    /\ \/ /\ ~entries[k].readable
          /\ pc' = "panicked" /\ UNCHANGED <<rule, error>>
       \/ /\ entries[k].readable /\ entries[k].text = NotARule
          /\ Fail("Yaml") /\ UNCHANGED rule
       \/ /\ entries[k].readable /\ entries[k].text # NotARule
          /\ rule' = Parsed(entries[k].text)
          /\ pc' = "ends" /\ UNCHANGED error
    /\ UNCHANGED <<dir, build, entries, k, pos, min_required, rules>>

-----------------------------------------------------------------------------
(* validate.                                                               *)

EndsOnNodes(path) == path[1].tag = "node" /\ path[Len(path)].tag = "node"

CheckEnds ==
    /\ pc = "ends"
    /\ IF rule.path = <<>> THEN Fail("PathEmpty") /\ UNCHANGED pos
       ELSE IF ~EndsOnNodes(rule.path)
            THEN Fail("PathMustStartAndEndWithNode") /\ UNCHANGED pos
            ELSE pc' = "windows" /\ pos' = 1 /\ UNCHANGED error
    /\ UNCHANGED <<dir, build, entries, k, rule, min_required, rules>>

(* windows(2): the pairs of neighbours.                                    *)
LastWindowShort(path) == Len(path) - 2
LastWindow(path) == Len(path) - 1

CheckWindow ==
    /\ pc = "windows" /\ pos <= LastWindow(rule.path)
    /\ IF rule.path[pos].tag = rule.path[pos + 1].tag
       THEN Fail("PathMustAlternate") /\ UNCHANGED pos
       ELSE pos' = pos + 1 /\ UNCHANGED <<pc, error>>
    /\ UNCHANGED <<dir, build, entries, k, rule, min_required, rules>>

WindowsDone ==
    /\ pc = "windows" /\ pos > LastWindow(rule.path)
    /\ pc' = "hops" /\ pos' = 1 /\ min_required' = 0
    /\ UNCHANGED <<dir, build, entries, k, rule, rules, error>>

CountOneHop(sum, step) == sum + 1
AddHops(sum, step) == sum + step.min_hops

AddMinHops(step) ==
    LET sum == AddHops(min_required, step)
    IN  IF sum < UsizeLimit
        THEN min_required' = sum /\ pos' = pos + 1 /\ UNCHANGED pc
        ELSE IF build = "debug"
             THEN pc' = "panicked" /\ UNCHANGED <<min_required, pos>>
             ELSE min_required' = sum % UsizeLimit /\ pos' = pos + 1 /\ UNCHANGED pc

HopRangeOK(step) == step.min_hops <= step.max_hops

CheckStep ==
    /\ pc = "hops" /\ pos <= Len(rule.path)
    /\ \/ /\ rule.path[pos].tag = "node"
          /\ pos' = pos + 1 /\ UNCHANGED <<pc, min_required, error>>
       \/ /\ rule.path[pos].tag = "edge" /\ ~HopRangeOK(rule.path[pos])
          /\ Fail("InvalidHopRange") /\ UNCHANGED <<pos, min_required>>
       \/ /\ rule.path[pos].tag = "edge" /\ HopRangeOK(rule.path[pos])
          /\ AddMinHops(rule.path[pos]) /\ UNCHANGED error
    /\ UNCHANGED <<dir, build, entries, k, rule, rules>>

FitsTotal(r) == min_required <= r.max_total_hops

AcceptRule ==
    /\ pc = "hops" /\ pos > Len(rule.path)
    /\ IF FitsTotal(rule)
       THEN rules' = Append(rules, rule) /\ k' = k + 1 /\ pc' = "file" /\ UNCHANGED error
       ELSE Fail("MaxTotalHopsTooSmall") /\ UNCHANGED <<rules, k>>
    /\ UNCHANGED <<dir, build, entries, rule, pos, min_required>>

AllLoaded ==
    /\ pc = "file" /\ k > Len(entries)
    /\ pc' = "loaded"
    /\ UNCHANGED <<dir, build, entries, k, rule, pos, min_required, rules, error>>

Next ==
    \/ ListDir \/ ParseFile \/ CheckEnds \/ CheckWindow \/ WindowsDone
    \/ CheckStep \/ AcceptRule \/ AllLoaded

Spec == Init /\ [][Next]_vars

-----------------------------------------------------------------------------
(* Properties.                                                             *)

(* The types of load_dir's and validate's locals.                          *)
TypeOK ==
    /\ dir \in Dirs
    /\ build \in {"debug", "release"}
    /\ pc \in {"list", "file", "ends", "windows", "hops", "loaded", "failed", "panicked"}
    /\ entries \in Seq(File)
    /\ k \in 1..(Len(entries) + 1)
    /\ pos \in Nat \ {0}
    /\ min_required \in Usize
    /\ rules \in Seq(Rule)
    /\ pc \in {"ends", "windows", "hops"} => rule \in Rule
    /\ pc \in {"windows", "hops"} => pos <= Len(rule.path) + 1
    /\ (pc = "failed") = (error # "none")

(* Every rule handed to the matcher starts and ends on a node step and     *)
(* alternates strictly: the two unreachable! of run_rule (matcher.rs:45    *)
(* and :63) are unreachable.                                               *)
LoadedAlternates == \A i \in 1..Len(rules) : Alternates(rules[i].path)

EdgeSteps(path) == {i \in 1..Len(path) : path[i].tag = "edge"}

(* f[1] + ... + f[n]                                                       *)
SumTo(f, n) ==
    LET sum[i \in 0..n] == IF i = 0 THEN 0 ELSE sum[i - 1] + f[i]
    IN  sum[n]

MinHops(path) == [i \in 1..Len(path) |-> IF path[i].tag = "edge" THEN path[i].min_hops ELSE 0]
MinTotal(path) == SumTo(MinHops(path), Len(path))

(* What is wrong with a rule and with a file, without the loops: the first *)
(* complaint in the order a reader of the errors expects.                  *)
RuleVerdict(r) ==
    IF r.path = <<>> THEN "PathEmpty"
    ELSE IF "edge" \in {Head(r.path).tag, Last(r.path).tag} THEN "PathMustStartAndEndWithNode"
    ELSE IF ~Alternates(r.path) THEN "PathMustAlternate"
    ELSE IF \E i \in EdgeSteps(r.path) : r.path[i].min_hops > r.path[i].max_hops
         THEN "InvalidHopRange"
    ELSE IF MinTotal(r.path) > r.max_total_hops THEN "MaxTotalHopsTooSmall"
    ELSE "none"

Verdict(f) ==
    IF ~f.readable THEN "panic"
    ELSE IF f.text = NotARule THEN "Yaml"
    ELSE RuleVerdict(Parsed(f.text))

SumFits(f) == f.text # NotARule => MinTotal(Parsed(f.text).path) < UsizeLimit
SumsFit == \A f \in RuleFiles : SumFits(f)

(* Loading is all or nothing and does not depend on the order in which the *)
(* directory is listed: with no bad file every rule is loaded, in name     *)
(* order, and otherwise the bad file of the smallest name decides how the  *)
(* load fails.  Minimum hops whose sum leaves usize are excluded here.     *)
FirstBadFileDecides ==
    dir # MissingDir /\ SumsFit =>
        LET bad == {f \in RuleFiles : Verdict(f) # "none"}
            first == CHOOSE f \in bad : \A g \in bad : f.name <= g.name
        IN  /\ pc = "loaded" =>
                  /\ bad = {}
                  /\ Len(rules) = Cardinality(RuleFiles)
                  /\ \A f \in RuleFiles :
                        rules[Cardinality({g \in RuleFiles : g.name <= f.name})] = Parsed(f.text)
            /\ pc = "failed" => bad # {} /\ error = Verdict(first)
            /\ pc = "panicked" => bad # {} /\ Verdict(first) = "panic"

(* Some choice of hop counts satisfies every edge step of the rule and its *)
(* total: the rule could match some graph.  The matcher never counts an    *)
(* edge step as taken with no hop.                                         *)
CouldMatch(r) ==
    LET n == PairCount(r.path)
    IN  \E lens \in [1..n -> 1..r.max_total_hops] :
            /\ \A i \in 1..n : /\ lens[i] >= EdgeStepOf(r.path, i).min_hops
                               /\ lens[i] <= EdgeStepOf(r.path, i).max_hops
            /\ SumTo(lens, n) <= r.max_total_hops

(* A rule whose edge steps all ask for at least one hop, and whose minimum *)
(* hops do not leave usize, is loaded only if it could match something.    *)
LoadedCanMatch ==
    \A i \in 1..Len(rules) :
        /\ \A j \in EdgeSteps(rules[i].path) : rules[i].path[j].min_hops >= 1
        /\ MinTotal(rules[i].path) < UsizeLimit
        => CouldMatch(rules[i])

=============================================================================
