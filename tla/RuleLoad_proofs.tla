-------------------------- MODULE RuleLoad_proofs --------------------------
(***************************************************************************)
(* Proofs about RuleLoad: for any rule directories, any rules in them and  *)
(* any width of usize, load_dir and validate keep to their types, every    *)
(* rule they accept alternates, which is what module RuleMatcher assumes   *)
(* of the rules it runs, the bad file of the smallest name decides how a   *)
(* load fails, and an accepted rule can be satisfied by some hop counts.   *)
(*                                                                         *)
(* The windows of two neighbours say nothing of a path by themselves; the  *)
(* invariant WindowsOK adds that the path starts with a node, so that the  *)
(* tags of the steps behind the window follow the parity of their places.  *)
(* That alone gives LoadedAlternates.  For the rest, LoadInv ties the      *)
(* locals of the loops to the verdict that the declarative RuleVerdict     *)
(* gives of the file at hand, and every accepted rule to its file.         *)
(***************************************************************************)
EXTENDS RuleLoad, SeqLemmas, FiniteSetTheorems

(* The first n steps of a path take turns, starting with a node.           *)
TakesTurns(path, n) == \A j \in 1..n : path[j].tag = "node" <=> j % 2 = 1

WindowsOK ==
    /\ pc = "list" => k = 1
    /\ pc \in {"ends", "windows", "hops"} => k <= Len(entries)
    /\ pc \in {"windows", "hops"} => rule.path # <<>> /\ EndsOnNodes(rule.path)
    /\ pc = "windows" => pos <= Len(rule.path) /\ TakesTurns(rule.path, pos)
    /\ pc = "hops" => TakesTurns(rule.path, Len(rule.path))

IInv == TypeOK /\ WindowsOK /\ LoadedAlternates

-----------------------------------------------------------------------------
(* Filling in the defaults of an edge step yields a step of a rule.        *)
LEMMA DefaultsTyped ==
    ASSUME NEW step \in NodeStep \cup EdgeStepText
    PROVE  WithDefaults(step) \in PathStep
<1>1. CASE step \in NodeStep
  BY <1>1 DEF NodeStep, PathStep, WithDefaults
<1>2. CASE step \in EdgeStepText
  <2>1. step.tag # "node"
    BY <1>2 DEF EdgeStepText
  <2>2. OrOne(step.min_hops) \in Nat /\ OrOne(step.max_hops) \in Nat
    BY <1>2, UsizeAssumption DEF EdgeStepText, Usize, OrOne
  <2>3. WithDefaults(step) =
           [step EXCEPT !.min_hops = OrOne(step.min_hops), !.max_hops = OrOne(step.max_hops)]
    BY <1>2, <2>1 DEF WithDefaults, EdgeStepText
  <2>4. WithDefaults(step) \in EdgeStep
    BY <1>2, <2>2, <2>3 DEF EdgeStepText, EdgeStep
  <2> QED
    BY <2>4 DEF PathStep
<1> QED
  BY <1>1, <1>2

LEMMA ParsedTyped == ASSUME NEW text \in RuleText PROVE Parsed(text) \in Rule
<1> DEFINE path == [i \in 1..Len(text.path) |-> WithDefaults(text.path[i])]
<1>1. text.path \in Seq(NodeStep \cup EdgeStepText)
  BY DEF RuleText
<1>2. Len(text.path) \in Nat
  BY <1>1
<1>3. ASSUME NEW i \in 1..Len(text.path) PROVE WithDefaults(text.path[i]) \in PathStep
  <2>1. text.path[i] \in NodeStep \cup EdgeStepText
    BY <1>1, ElementOfSeq
  <2> QED
    BY <2>1, DefaultsTyped
<1>4. path \in Seq(PathStep)
  BY <1>2, <1>3, SeqDef
<1>5. text.max_total_hops \in Nat
  BY UsizeAssumption DEF RuleText, Usize
<1>6. Parsed(text) = [text EXCEPT !.path = path]
  BY DEF Parsed, RuleText
<1> HIDE DEF path
<1> QED
  BY <1>4, <1>5, <1>6 DEF RuleText, Rule

LEMMA OddHalf ==
    ASSUME NEW n \in Nat, n % 2 = 1
    PROVE  (n - 1) \div 2 \in Nat /\ n = 2 * ((n - 1) \div 2) + 1
<1>1. PICK q \in Int : n = 2 * q + 1
  <2>1. n \div 2 \in Int /\ n = 2 * (n \div 2) + (n % 2)
    OBVIOUS
  <2> QED
    BY <2>1
<1>2. (n - 1) \div 2 = q
  BY <1>1
<1> QED
  BY <1>1, <1>2

(* A rule whose steps take turns and which ends on a node alternates.      *)
LEMMA TurnsAlternate ==
    ASSUME NEW r \in Rule, r.path # <<>>, EndsOnNodes(r.path), TakesTurns(r.path, Len(r.path))
    PROVE  Alternates(r.path)
<1>1. r.path \in Seq(PathStep)
  BY DEF Rule
<1>2. Len(r.path) \in Nat /\ Len(r.path) > 0
  BY <1>1, EmptySeq
<1>3. ASSUME NEW j \in 1..Len(r.path)
      PROVE  r.path[j] \in NodeStep \cup EdgeStep /\ (r.path[j].tag = "node" <=> j % 2 = 1)
  BY <1>1, ElementOfSeq DEF TakesTurns, PathStep
<1>4. Len(r.path) % 2 = 1
  <2>1. Len(r.path) \in 1..Len(r.path)
    BY <1>2
  <2>2. r.path[Len(r.path)].tag = "node"
    BY DEF EndsOnNodes
  <2> QED
    BY <1>3, <2>1, <2>2
<1>5. PairCount(r.path) \in Nat /\ Len(r.path) = 2 * PairCount(r.path) + 1
  BY <1>2, <1>4, OddHalf DEF PairCount
<1>6. ASSUME NEW i \in 0..PairCount(r.path) PROVE NodeStepOf(r.path, i) \in NodeStep
  <2>1. 2 * i + 1 \in 1..Len(r.path) /\ (2 * i + 1) % 2 = 1
    BY <1>5
  <2>2. r.path[2 * i + 1] \in NodeStep \cup EdgeStep /\ r.path[2 * i + 1].tag = "node"
    BY <1>3, <2>1
  <2> QED
    BY <2>2 DEF NodeStepOf, EdgeStep
<1>7. ASSUME NEW i \in 1..PairCount(r.path) PROVE EdgeStepOf(r.path, i) \in EdgeStep
  <2>1. 2 * i \in 1..Len(r.path) /\ (2 * i) % 2 # 1
    BY <1>5
  <2>2. r.path[2 * i] \in NodeStep \cup EdgeStep /\ r.path[2 * i].tag # "node"
    BY <1>3, <2>1
  <2> QED
    BY <2>2 DEF EdgeStepOf, NodeStep
<1> QED
  BY <1>5, <1>6, <1>7 DEF Alternates

-----------------------------------------------------------------------------
LEMMA InitInv == Init => IInv
<1> SUFFICES ASSUME Init PROVE IInv
  OBVIOUS
<1>1. <<>> \in Seq(File) /\ <<>> \in Seq(Rule) /\ Len(<<>>) = 0
  BY EmptySeq
<1>2. 0 \in Usize
  BY UsizeAssumption DEF Usize
<1>3. TypeOK
  BY <1>1, <1>2 DEF Init, TypeOK
<1>4. WindowsOK
  BY DEF Init, WindowsOK
<1>5. LoadedAlternates
  BY <1>1 DEF Init, LoadedAlternates
<1> QED
  BY <1>3, <1>4, <1>5 DEF IInv

LEMMA ListDirInv == ASSUME IInv, ListDir PROVE IInv'
<1> USE DEF IInv
<1>1. CASE dir = MissingDir
  BY <1>1 DEF ListDir, TypeOK, WindowsOK, LoadedAlternates
<1>2. CASE dir # MissingDir
  <2>1. RuleFiles \subseteq File /\ IsFiniteSet(RuleFiles)
    <3>1. dir \subseteq File /\ IsFiniteSet(dir)
      BY <1>2, DirsAssumption DEF TypeOK
    <3>2. RuleFiles \subseteq dir
      BY DEF RuleFiles
    <3> QED
      BY <3>1, <3>2, FS_Subset
  <2>2. Cardinality(RuleFiles) \in Nat
    BY <2>1, FS_CardinalityType
  <2>3. entries' \in [1..Cardinality(RuleFiles) -> File]
    BY <1>2, <2>1 DEF ListDir
  <2>4. entries' \in Seq(File)
    BY <2>2, <2>3, SeqDef
  <2>5. Len(entries') \in Nat
    BY <2>4
  <2>6. pc' = "file" /\ UNCHANGED <<dir, build, k, rule, pos, min_required, rules, error>> /\ k = 1
    BY <1>2 DEF ListDir, WindowsOK
  <2> QED
    BY <2>4, <2>5, <2>6 DEF ListDir, TypeOK, WindowsOK, LoadedAlternates
<1> QED
  BY <1>1, <1>2

LEMMA ParseFileInv == ASSUME IInv, ParseFile PROVE IInv'
<1> USE DEF IInv
<1>1. ASSUME rule' = Parsed(entries[k].text), entries[k].text # NotARule PROVE rule' \in Rule
  <2>1. k \in 1..Len(entries) /\ entries \in Seq(File)
    BY DEF TypeOK, ParseFile
  <2>2. entries[k] \in File
    BY <2>1, ElementOfSeq
  <2>3. entries[k].text \in RuleText
    BY <1>1, <2>2 DEF File
  <2> QED
    BY <1>1, <2>3, ParsedTyped
<1>2. TypeOK'
  BY <1>1 DEF TypeOK, ParseFile, Fail
<1>3. WindowsOK'
  BY DEF TypeOK, WindowsOK, ParseFile, Fail
<1>4. LoadedAlternates'
  BY DEF LoadedAlternates, ParseFile
<1> QED
  BY <1>2, <1>3, <1>4

LEMMA CheckEndsInv == ASSUME IInv, CheckEnds PROVE IInv'
<1> USE DEF IInv
<1>1. rule \in Rule /\ rule' = rule /\ pc = "ends"
  BY DEF TypeOK, CheckEnds
<1>2. rule.path \in Seq(PathStep) /\ Len(rule.path) \in Nat
  BY <1>1 DEF Rule
<1>3. CASE rule.path = <<>> \/ ~EndsOnNodes(rule.path)
  BY <1>1, <1>3 DEF CheckEnds, Fail, TypeOK, WindowsOK, LoadedAlternates
<1>4. CASE rule.path # <<>> /\ EndsOnNodes(rule.path)
  <2>1. pc' = "windows" /\ pos' = 1 /\ Len(rule.path) > 0
    BY <1>2, <1>4, EmptySeq DEF CheckEnds
  <2>2. TakesTurns(rule.path, 1)
    BY <1>4 DEF TakesTurns, EndsOnNodes
  <2>3. UNCHANGED <<dir, build, entries, k, rule, min_required, rules, error>>
    BY <1>4 DEF CheckEnds
  <2> QED
    BY <1>1, <1>2, <1>4, <2>1, <2>2, <2>3 DEF TypeOK, WindowsOK, LoadedAlternates
<1> QED
  BY <1>3, <1>4

LEMMA CheckWindowInv == ASSUME IInv, CheckWindow PROVE IInv'
<1> USE DEF IInv
<1>1. pc = "windows" /\ rule \in Rule /\ pos \in Nat \ {0}
  BY DEF TypeOK, CheckWindow
<1>2. rule.path \in Seq(PathStep) /\ Len(rule.path) \in Nat
  BY <1>1 DEF Rule
<1>3. pos + 1 <= Len(rule.path)
  BY <1>1, <1>2 DEF CheckWindow, LastWindow
<1>4. UNCHANGED <<dir, build, entries, k, rule, min_required, rules>>
  BY DEF CheckWindow
<1>5. CASE rule.path[pos].tag = rule.path[pos + 1].tag
  BY <1>1, <1>5 DEF CheckWindow, Fail, TypeOK, WindowsOK, LoadedAlternates
<1>6. CASE rule.path[pos].tag # rule.path[pos + 1].tag
  <2>1. pos' = pos + 1 /\ pc' = pc /\ error' = error
    BY <1>6 DEF CheckWindow
  <2>2. TakesTurns(rule.path, pos + 1)
    <3>1. TakesTurns(rule.path, pos)
      BY <1>1 DEF WindowsOK
    <3>2. rule.path[pos] \in PathStep /\ rule.path[pos + 1] \in PathStep
      BY <1>1, <1>2, <1>3, ElementOfSeq
    <3>3. rule.path[pos].tag \in {"node", "edge"} /\ rule.path[pos + 1].tag \in {"node", "edge"}
      BY <3>2 DEF PathStep, NodeStep, EdgeStep
    <3>4. rule.path[pos].tag = "node" <=> pos % 2 = 1
      BY <1>1, <3>1 DEF TakesTurns
    <3>5. pos % 2 = 1 <=> (pos + 1) % 2 # 1
      BY <1>1
    <3>6. rule.path[pos + 1].tag = "node" <=> (pos + 1) % 2 = 1
      BY <1>6, <3>3, <3>4, <3>5
    <3> SUFFICES ASSUME NEW j \in 1..pos + 1
                 PROVE  rule.path[j].tag = "node" <=> j % 2 = 1
      BY DEF TakesTurns
    <3>7. j \in 1..pos \/ j = pos + 1
      BY <1>1
    <3> QED
      BY <3>1, <3>6, <3>7 DEF TakesTurns
  <2> QED
    BY <1>1, <1>2, <1>3, <1>4, <2>1, <2>2 DEF TypeOK, WindowsOK, LoadedAlternates
<1> QED
  BY <1>5, <1>6

LEMMA WindowsDoneInv == ASSUME IInv, WindowsDone PROVE IInv'
<1> USE DEF IInv
<1>1. pc = "windows" /\ rule \in Rule /\ pos \in Nat \ {0}
  BY DEF TypeOK, WindowsDone
<1>2. rule.path \in Seq(PathStep) /\ Len(rule.path) \in Nat
  BY <1>1 DEF Rule
<1>3. pos = Len(rule.path) /\ TakesTurns(rule.path, pos)
  BY <1>1, <1>2 DEF WindowsDone, WindowsOK, LastWindow
<1>4. 0 \in Usize
  BY UsizeAssumption DEF Usize
<1> QED
  BY <1>1, <1>2, <1>3, <1>4 DEF WindowsDone, TypeOK, WindowsOK, LoadedAlternates

(* A sum is taken only where it fits, or wrapped to where it does.         *)
LEMMA AddMinHopsTyped ==
    ASSUME min_required \in Usize, NEW step \in EdgeStep, AddMinHops(step)
    PROVE  /\ min_required' \in Usize
           /\ \/ pc' = pc /\ pos' = pos + 1
              \/ pc' = "panicked" /\ pos' = pos
<1>1. AddHops(min_required, step) \in Nat
  BY UsizeAssumption DEF Usize, EdgeStep, AddHops
<1>2. AddHops(min_required, step) % UsizeLimit \in 0..(UsizeLimit - 1)
  BY <1>1, UsizeAssumption
<1> QED
  BY <1>1, <1>2, UsizeAssumption DEF AddMinHops, Usize

LEMMA CheckStepInv == ASSUME IInv, CheckStep PROVE IInv'
<1> USE DEF IInv
<1>1. pc = "hops" /\ rule \in Rule /\ pos \in Nat \ {0} /\ min_required \in Usize
  BY DEF TypeOK, CheckStep
<1>2. rule.path \in Seq(PathStep) /\ Len(rule.path) \in Nat
  BY <1>1 DEF Rule
<1>3. pos <= Len(rule.path) /\ UNCHANGED <<dir, build, entries, k, rule, rules>>
  BY DEF CheckStep
<1>4. rule.path[pos].tag = "edge" => rule.path[pos] \in EdgeStep
  <2>1. rule.path[pos] \in PathStep
    BY <1>1, <1>2, <1>3, ElementOfSeq
  <2> QED
    BY <2>1 DEF PathStep, NodeStep
<1>5. /\ min_required' \in Usize
      /\ \/ pc' = pc /\ pos' = pos + 1 /\ error' = error
         \/ pc' = "panicked" /\ pos' = pos /\ error' = error
         \/ pc' = "failed" /\ pos' = pos /\ error' = "InvalidHopRange"
  BY <1>1, <1>4, AddMinHopsTyped DEF CheckStep, Fail
<1> QED
  BY <1>1, <1>2, <1>3, <1>5 DEF TypeOK, WindowsOK, LoadedAlternates

LEMMA AcceptRuleInv == ASSUME IInv, AcceptRule PROVE IInv'
<1> USE DEF IInv
<1>1. pc = "hops" /\ rule \in Rule /\ rules \in Seq(Rule) /\ Len(rules) \in Nat
  BY DEF TypeOK, AcceptRule
<1>2. CASE ~FitsTotal(rule)
  BY <1>1, <1>2 DEF AcceptRule, Fail, TypeOK, WindowsOK, LoadedAlternates
<1>3. CASE FitsTotal(rule)
  <2>1. rules' = Append(rules, rule) /\ k' = k + 1 /\ pc' = "file"
        /\ UNCHANGED <<dir, build, entries, rule, pos, min_required, error>>
    BY <1>3 DEF AcceptRule
  <2>2. rules' \in Seq(Rule) /\ Len(rules') = Len(rules) + 1
    BY <1>1, <2>1, AppendProperties
  <2>3. \A i \in 1..Len(rules') : rules'[i] = IF i = Len(rules) + 1 THEN rule ELSE rules[i]
    BY <1>1, <2>1, <2>2, AppendProperties
  <2>4. Alternates(rule.path)
    BY <1>1, TurnsAlternate DEF WindowsOK
  <2>5. LoadedAlternates'
    <3> SUFFICES ASSUME NEW i \in 1..Len(rules') PROVE Alternates(rules'[i].path)
      BY DEF LoadedAlternates
    <3>1. CASE i = Len(rules) + 1
      BY <2>3, <2>4, <3>1
    <3>2. CASE i # Len(rules) + 1
      <4>1. i \in 1..Len(rules)
        BY <1>1, <2>2, <3>2
      <4>2. rules'[i] = rules[i]
        BY <2>3, <3>2
      <4> QED
        BY <4>1, <4>2 DEF LoadedAlternates
    <3> QED
      BY <3>1, <3>2
  <2>6. k' \in 1..(Len(entries') + 1)
    <3>1. Len(entries) \in Nat
      BY DEF TypeOK
    <3> QED
      BY <1>1, <2>1, <3>1 DEF TypeOK, WindowsOK
  <2> QED
    BY <1>1, <2>1, <2>2, <2>5, <2>6 DEF TypeOK, WindowsOK
<1> QED
  BY <1>2, <1>3

LEMMA AllLoadedInv == ASSUME IInv, AllLoaded PROVE IInv'
BY DEF IInv, AllLoaded, TypeOK, WindowsOK, LoadedAlternates

LEMMA NextInv == ASSUME IInv, [Next]_vars PROVE IInv'
<1>1. CASE UNCHANGED vars
  BY <1>1 DEF vars, IInv, TypeOK, WindowsOK, LoadedAlternates
<1> QED
  BY <1>1, ListDirInv, ParseFileInv, CheckEndsInv, CheckWindowInv, WindowsDoneInv,
     CheckStepInv, AcceptRuleInv, AllLoadedInv DEF Next

THEOREM Invariance == Spec => []IInv
<1>1. Init => IInv
  BY InitInv
<1>2. IInv /\ [Next]_vars => IInv'
  BY NextInv
<1> QED
  BY <1>1, <1>2, PTL DEF Spec

(* The locals of load_dir and validate keep their types, the running sum   *)
(* of minimum hops stays within usize.                                     *)
THEOREM TypeCorrect == Spec => []TypeOK
<1>1. IInv => TypeOK
  BY DEF IInv
<1> QED
  BY <1>1, Invariance, PTL

(* validate lets a path of any length through only if it alternates: the   *)
(* unreachable! arms of run_rule are unreachable.                          *)
THEOREM LoadedRulesAlternate == Spec => []LoadedAlternates
<1>1. IInv => LoadedAlternates
  BY DEF IInv
<1> QED
  BY <1>1, Invariance, PTL

-----------------------------------------------------------------------------
(* Sums of sequences of numbers.                                           *)

(* The numbers the definition of SumTo(f, n) chooses.                      *)
Sums(f, n, g) == g = [i \in 0..n |-> IF i = 0 THEN 0 ELSE g[i - 1] + f[i]]

LEMMA SumsStep ==
    ASSUME NEW n \in Nat, NEW f, NEW g, Sums(f, n, g)
    PROVE  /\ g[0] = 0
           /\ \A i \in 0..(n - 1) : g[i + 1] = g[i] + f[i + 1]
<1>1. \A i \in 0..n : g[i] = IF i = 0 THEN 0 ELSE g[i - 1] + f[i]
  BY DEF Sums
<1>2. g[0] = 0
  BY <1>1
<1>3. ASSUME NEW i \in 0..(n - 1) PROVE g[i + 1] = g[i] + f[i + 1]
  <2>1. i + 1 \in 0..n /\ i + 1 # 0 /\ (i + 1) - 1 = i
    OBVIOUS
  <2> QED BY <1>1, <2>1
<1> QED BY <1>2, <1>3

LEMMA SumsFrom ==
    ASSUME NEW n \in Nat, NEW f, NEW g \in [0..n -> Nat],
           \A i \in 0..n : g[i] = IF i = 0 THEN 0 ELSE g[i - 1] + f[i]
    PROVE  Sums(f, n, g)
BY DEF Sums

LEMMA SumsExist ==
    ASSUME NEW n \in Nat, NEW f \in [1..n -> Nat]
    PROVE  \E g \in [0..n -> Nat] : Sums(f, n, g)
<1> DEFINE Solves(g, m) == \A i \in 0..m : g[i] = IF i = 0 THEN 0 ELSE g[i - 1] + f[i]
<1> DEFINE S == {m \in 0..n : \E g \in [0..m -> Nat] : Solves(g, m)}
<1>1. 0 \in S
  <2> DEFINE g == [i \in 0..0 |-> 0]
  <2>1. g \in [0..0 -> Nat] /\ Solves(g, 0)
    OBVIOUS
  <2> HIDE DEF g
  <2>2. \E h \in [0..0 -> Nat] : Solves(h, 0)
    BY <2>1
  <2> QED BY <2>2
<1>2. ASSUME NEW m \in 0..(n - 1), m \in S PROVE m + 1 \in S
  <2>1. PICK g \in [0..m -> Nat] : Solves(g, m)
    BY <1>2
  <2> DEFINE h == [i \in 0..(m + 1) |-> IF i = m + 1 THEN g[m] + f[m + 1] ELSE g[i]]
  <2>2. g[m] + f[m + 1] \in Nat
    <3>1. m \in 0..m /\ m + 1 \in 1..n
      OBVIOUS
    <3> QED BY <2>1, <3>1
  <2>3. h \in [0..(m + 1) -> Nat]
    BY <2>1, <2>2
  <2>4. Solves(h, m + 1)
    <3> SUFFICES ASSUME NEW i \in 0..(m + 1)
                 PROVE  h[i] = IF i = 0 THEN 0 ELSE h[i - 1] + f[i]
      OBVIOUS
    <3>1. CASE i = m + 1
      <4>1. h[i] = g[m] + f[m + 1] /\ h[m] = g[m] /\ i - 1 = m /\ i # 0
        BY <3>1
      <4> QED BY <3>1, <4>1
    <3>2. CASE i # m + 1
      <4>1. i \in 0..m /\ h[i] = g[i]
        BY <3>2
      <4>2. i # 0 => h[i - 1] = g[i - 1]
        BY <4>1
      <4> QED BY <2>1, <4>1, <4>2
    <3> QED BY <3>1, <3>2
  <2> HIDE DEF h
  <2>5. \E q \in [0..(m + 1) -> Nat] : Solves(q, m + 1)
    BY <2>3, <2>4
  <2>6. m + 1 \in 0..n
    OBVIOUS
  <2> HIDE DEF Solves
  <2> QED BY <2>5, <2>6, Zenon
<1>3. n \in S
  <2>1. \A m \in 0..(n - 1) : m \in S => m + 1 \in S
    BY <1>2
  <2> HIDE DEF S
  <2>2. \A m \in 0..n : m \in S
    BY <1>1, <2>1, InductionUpTo
  <2> QED BY <2>2
<1>4. PICK g \in [0..n -> Nat] : Solves(g, n)
  BY <1>3
<1>5. Sums(f, n, g)
  BY <1>4, SumsFrom
<1> QED BY <1>5

LEMMA SumsUnique ==
    ASSUME NEW n \in Nat, NEW m \in Nat, n <= m, NEW f, NEW g, NEW h,
           Sums(f, n, g), Sums(f, m, h)
    PROVE  \A q \in 0..n : g[q] = h[q]
<1> SUFFICES ASSUME NEW q \in 0..n PROVE g[q] = h[q]
  OBVIOUS
<1> DEFINE S == {i \in 0..q : g[i] = h[i]}
<1>1. /\ g[0] = 0 /\ \A i \in 0..(n - 1) : g[i + 1] = g[i] + f[i + 1]
      /\ h[0] = 0 /\ \A i \in 0..(m - 1) : h[i + 1] = h[i] + f[i + 1]
  BY SumsStep
<1>2. 0 \in S
  BY <1>1
<1>3. \A i \in 0..(q - 1) : i \in S => i + 1 \in S
  <2> SUFFICES ASSUME NEW i \in 0..(q - 1), i \in S PROVE i + 1 \in S
    OBVIOUS
  <2>1. i \in 0..(n - 1) /\ i \in 0..(m - 1) /\ i + 1 \in 0..q
    OBVIOUS
  <2>2. g[i + 1] = g[i] + f[i + 1] /\ h[i + 1] = h[i] + f[i + 1]
    BY <1>1, <2>1
  <2> QED BY <2>1, <2>2
<1>4. q \in S
  <2> HIDE DEF S
  <2>1. q \in Nat
    OBVIOUS
  <2>2. \A i \in 0..q : i \in S
    BY <1>2, <1>3, <2>1, InductionUpTo
  <2> QED BY <2>1, <2>2
<1> QED BY <1>4

LEMMA SumsExtend ==
    ASSUME NEW i \in Nat, NEW f, NEW g, NEW h, Sums(f, i, h), Sums(f, i + 1, g)
    PROVE  g[i + 1] = h[i] + f[i + 1]
<1>1. i + 1 \in Nat /\ i <= i + 1
  OBVIOUS
<1>2. \A q \in 0..i : h[q] = g[q]
  BY <1>1, SumsUnique
<1>3. g[i + 1] = g[i] + f[i + 1]
  <2>1. i \in 0..((i + 1) - 1)
    OBVIOUS
  <2> QED BY <1>1, <2>1, SumsStep
<1> QED BY <1>2, <1>3

(* SumTo is the last of them.                                              *)
LEMMA SumSolves ==
    ASSUME NEW n \in Nat, NEW f \in [1..n -> Nat], NEW m \in 0..n
    PROVE  \E g \in [0..m -> Nat] : Sums(f, m, g) /\ SumTo(f, m) = g[m]
<1> DEFINE sum == CHOOSE g : Sums(f, m, g)
           h == [i \in 1..m |-> f[i]]
<1>1. SumTo(f, m) = sum[m]
  BY DEF SumTo, Sums
<1>2. \E g \in [0..m -> Nat] : Sums(f, m, g)
  <2>1. h \in [1..m -> Nat] /\ m \in Nat
    OBVIOUS
  <2>2. \A i \in 1..m : h[i] = f[i]
    OBVIOUS
  <2> HIDE DEF h
  <2>3. PICK g \in [0..m -> Nat] : Sums(h, m, g)
    BY <2>1, SumsExist
  <2>4. \A i \in 0..m : g[i] = IF i = 0 THEN 0 ELSE g[i - 1] + h[i]
    BY <2>3 DEF Sums
  <2>5. \A i \in 0..m : g[i] = IF i = 0 THEN 0 ELSE g[i - 1] + f[i]
    BY <2>2, <2>4
  <2>6. Sums(f, m, g)
    BY <2>1, <2>5, SumsFrom
  <2> QED BY <2>6
<1>3. Sums(f, m, sum)
  BY <1>2
<1> HIDE DEF sum
<1>4. PICK g \in [0..m -> Nat] : Sums(f, m, g)
  BY <1>2
<1>5. g[m] = sum[m]
  <2>1. m \in Nat /\ m \in 0..m /\ m <= m
    OBVIOUS
  <2> QED BY <1>3, <1>4, <2>1, SumsUnique
<1> QED BY <1>1, <1>4, <1>5

(* The sum of no numbers, and of one number more.                          *)
LEMMA SumSteps ==
    ASSUME NEW n \in Nat, NEW f \in [1..n -> Nat]
    PROVE  /\ SumTo(f, 0) = 0
           /\ \A i \in 0..n : SumTo(f, i) \in Nat
           /\ \A i \in 0..(n - 1) : SumTo(f, i + 1) = SumTo(f, i) + f[i + 1]
<1>1. SumTo(f, 0) = 0
  <2>1. 0 \in 0..n /\ 0 \in Nat /\ 0 \in 0..0
    OBVIOUS
  <2>2. PICK g \in [0..0 -> Nat] : Sums(f, 0, g) /\ SumTo(f, 0) = g[0]
    BY <2>1, SumSolves
  <2>3. g[0] = 0
    BY <2>1, <2>2, SumsStep
  <2> QED BY <2>2, <2>3
<1>2. ASSUME NEW i \in 0..n PROVE SumTo(f, i) \in Nat
  <2>1. PICK g \in [0..i -> Nat] : Sums(f, i, g) /\ SumTo(f, i) = g[i]
    BY SumSolves
  <2> QED BY <2>1
<1>3. ASSUME NEW i \in 0..(n - 1) PROVE SumTo(f, i + 1) = SumTo(f, i) + f[i + 1]
  <2>1. /\ i \in 0..n /\ i + 1 \in 0..n /\ i \in Nat /\ i + 1 \in Nat
        /\ i \in 0..i /\ i <= i + 1 /\ i + 1 \in 0..(i + 1)
    OBVIOUS
  <2>2. PICK h \in [0..i -> Nat] : Sums(f, i, h) /\ SumTo(f, i) = h[i]
    BY <2>1, SumSolves
  <2>3. PICK g \in [0..(i + 1) -> Nat] : Sums(f, i + 1, g) /\ SumTo(f, i + 1) = g[i + 1]
    BY <2>1, SumSolves
  <2>4. Sums(f, i, h) /\ Sums(f, i + 1, g)
    BY <2>2, <2>3
  <2>5. g[i + 1] = h[i] + f[i + 1]
    BY <2>1, <2>4, SumsExtend
  <2> QED BY <2>2, <2>3, <2>5
<1> QED BY <1>1, <1>2, <1>3

(* Sums grow, and are at least as large as each of the numbers.            *)
LEMMA SumGrows ==
    ASSUME NEW n \in Nat, NEW f \in [1..n -> Nat], NEW m \in 0..n
    PROVE  /\ SumTo(f, m) <= SumTo(f, n)
           /\ m # 0 => f[m] <= SumTo(f, n)
<1> DEFINE S == {i \in 0..n : m <= i => SumTo(f, m) <= SumTo(f, i)}
<1>1. /\ \A i \in 0..n : SumTo(f, i) \in Nat
      /\ \A i \in 0..(n - 1) : SumTo(f, i + 1) = SumTo(f, i) + f[i + 1]
  BY SumSteps
<1>2. 0 \in S
  BY <1>1
<1>3. ASSUME NEW i \in 0..(n - 1), i \in S PROVE i + 1 \in S
  <2>1. i \in 0..n /\ i + 1 \in 0..n /\ i + 1 \in 1..n
    OBVIOUS
  <2>2. SumTo(f, i) \in Nat /\ SumTo(f, m) \in Nat /\ f[i + 1] \in Nat
        /\ SumTo(f, i + 1) = SumTo(f, i) + f[i + 1]
    BY <1>1, <2>1
  <2>3. CASE m = i + 1
    BY <2>1, <2>2, <2>3
  <2>4. CASE m # i + 1
    <3>1. m <= i + 1 => m <= i
      BY <2>4
    <3> QED BY <1>3, <2>1, <2>2, <3>1
  <2> QED BY <2>3, <2>4
<1>4. n \in S
  <2>1. \A i \in 0..(n - 1) : i \in S => i + 1 \in S
    BY <1>3
  <2> HIDE DEF S
  <2>2. \A i \in 0..n : i \in S
    BY <1>2, <2>1, InductionUpTo
  <2> QED BY <2>2
<1>5. SumTo(f, m) <= SumTo(f, n)
  BY <1>4
<1>6. ASSUME m # 0 PROVE f[m] <= SumTo(f, n)
  <2>1. m - 1 \in 0..(n - 1) /\ (m - 1) + 1 = m /\ m - 1 \in 0..n /\ m \in 1..n
    BY <1>6
  <2>2. SumTo(f, m) = SumTo(f, m - 1) + f[m]
    BY <1>1, <2>1
  <2>3. SumTo(f, m - 1) \in Nat /\ SumTo(f, n) \in Nat /\ SumTo(f, m) \in Nat /\ f[m] \in Nat
    BY <1>1, <2>1
  <2> QED BY <1>5, <2>2, <2>3
<1> QED BY <1>5, <1>6

-----------------------------------------------------------------------------
(* Paths, their sums, and the verdict on a rule.                           *)

(* The minimum hops of a path's steps, a node step counting as none.       *)
LEMMA MinHopsTyped ==
    ASSUME NEW path \in Seq(PathStep)
    PROVE  /\ Len(path) \in Nat
           /\ MinHops(path) \in [1..Len(path) -> Nat]
           /\ \A i \in 1..Len(path) :
                 MinHops(path)[i] = IF path[i].tag = "edge" THEN path[i].min_hops ELSE 0
<1>1. ASSUME NEW i \in 1..Len(path) PROVE path[i].tag = "edge" => path[i].min_hops \in Nat
  <2>1. path[i] \in PathStep
    BY ElementOfSeq
  <2> QED BY <2>1 DEF PathStep, NodeStep, EdgeStep
<1> QED BY <1>1 DEF MinHops

(* One step further along the path adds that step's minimum hops, and no   *)
(* part of the sum exceeds the whole.                                      *)
LEMMA MinHopsStep ==
    ASSUME NEW path \in Seq(PathStep), NEW p \in 1..Len(path)
    PROVE  /\ SumTo(MinHops(path), 0) = 0
           /\ SumTo(MinHops(path), p - 1) \in Nat
           /\ SumTo(MinHops(path), p) \in Nat
           /\ MinTotal(path) \in Nat
           /\ SumTo(MinHops(path), p) <= MinTotal(path)
           /\ path[p].tag = "edge" =>
                 SumTo(MinHops(path), p) = SumTo(MinHops(path), p - 1) + path[p].min_hops
           /\ path[p].tag # "edge" =>
                 SumTo(MinHops(path), p) = SumTo(MinHops(path), p - 1)
<1> DEFINE f == MinHops(path)
           n == Len(path)
<1>1. /\ n \in Nat /\ f \in [1..n -> Nat]
      /\ f[p] = IF path[p].tag = "edge" THEN path[p].min_hops ELSE 0
  BY MinHopsTyped
<1>2. f[p] \in Nat
  BY <1>1
<1>3. MinTotal(path) = SumTo(f, n)
  BY DEF MinTotal
<1>4. p \in 0..n /\ p - 1 \in 0..(n - 1) /\ p - 1 \in 0..n /\ (p - 1) + 1 = p /\ n \in 0..n
  BY <1>1
<1> HIDE DEF f, n
<1>5. /\ SumTo(f, 0) = 0
      /\ \A i \in 0..n : SumTo(f, i) \in Nat
      /\ \A i \in 0..(n - 1) : SumTo(f, i + 1) = SumTo(f, i) + f[i + 1]
  BY <1>1, SumSteps
<1>6. SumTo(f, p) <= SumTo(f, n)
  BY <1>1, <1>4, SumGrows
<1>7. SumTo(f, p) = SumTo(f, p - 1) + f[p]
  BY <1>4, <1>5
<1>8. SumTo(f, p - 1) \in Nat /\ SumTo(f, p) \in Nat /\ MinTotal(path) \in Nat
  BY <1>3, <1>4, <1>5
<1> QED BY <1>1, <1>2, <1>3, <1>5, <1>6, <1>7, <1>8 DEF f

(* The steps of a path that alternates take turns.                         *)
LEMMA AlternateTurns ==
    ASSUME NEW path \in Seq(PathStep), Alternates(path)
    PROVE  TakesTurns(path, Len(path)) /\ path # <<>> /\ EndsOnNodes(path)
<1>1. /\ Len(path) \in Nat /\ Len(path) = 2 * PairCount(path) + 1
      /\ \A i \in 0..PairCount(path) : NodeStepOf(path, i) \in NodeStep
      /\ \A i \in 1..PairCount(path) : EdgeStepOf(path, i) \in EdgeStep
  BY LenProperties DEF Alternates
<1>2. PairCount(path) \in Int
  BY <1>1 DEF PairCount
<1>3. PairCount(path) \in Nat /\ Len(path) >= 1
  BY <1>1, <1>2
<1>4. ASSUME NEW j \in 1..Len(path) PROVE path[j].tag = "node" <=> j % 2 = 1
  <2>1. j \in Nat /\ j = 2 * (j \div 2) + (j % 2) /\ j \div 2 \in Int /\ j % 2 \in {0, 1}
    OBVIOUS
  <2>2. CASE j % 2 = 1
    <3>1. j \div 2 \in 0..PairCount(path) /\ j = 2 * (j \div 2) + 1
      BY <1>1, <1>3, <2>1, <2>2
    <3>2. path[j] \in NodeStep
      BY <1>1, <3>1 DEF NodeStepOf
    <3> QED BY <2>2, <3>2 DEF NodeStep
  <2>3. CASE j % 2 = 0
    <3>1. j \div 2 \in 1..PairCount(path) /\ j = 2 * (j \div 2)
      BY <1>1, <1>3, <2>1, <2>3
    <3>2. path[j] \in EdgeStep
      BY <1>1, <3>1 DEF EdgeStepOf
    <3> QED BY <2>3, <3>2 DEF EdgeStep
  <2> QED BY <2>1, <2>2, <2>3
<1>5. TakesTurns(path, Len(path))
  BY <1>4 DEF TakesTurns
<1>6. 0 \in 0..PairCount(path) /\ PairCount(path) \in 0..PairCount(path)
  BY <1>3
<1>7. path[1] \in NodeStep /\ path[Len(path)] \in NodeStep
  BY <1>1, <1>2, <1>6 DEF NodeStepOf
<1>8. path # <<>>
  BY <1>3, EmptySeq
<1> QED BY <1>5, <1>7, <1>8 DEF EndsOnNodes, NodeStep

-----------------------------------------------------------------------------
(* What the verdict on a rule is, from what the loops of validate find.    *)
LEMMA EmptyVerdict ==
    ASSUME NEW r, r.path = <<>> PROVE RuleVerdict(r) = "PathEmpty"
BY DEF RuleVerdict

LEMMA EndsVerdict ==
    ASSUME NEW r \in Rule, r.path # <<>>
    PROVE  /\ Head(r.path) = r.path[1] /\ Last(r.path) = r.path[Len(r.path)]
           /\ "edge" \notin {Head(r.path).tag, Last(r.path).tag} <=> EndsOnNodes(r.path)
           /\ ~EndsOnNodes(r.path) => RuleVerdict(r) = "PathMustStartAndEndWithNode"
<1>1. r.path \in Seq(PathStep) /\ Len(r.path) \in Nat /\ Len(r.path) > 0
  BY EmptySeq, LenProperties DEF Rule
<1>2. Head(r.path) = r.path[1] /\ Last(r.path) = r.path[Len(r.path)]
  BY <1>1 DEF Last
<1>3. r.path[1] \in PathStep /\ r.path[Len(r.path)] \in PathStep
  BY <1>1, ElementOfSeq
<1>4. r.path[1].tag \in {"node", "edge"} /\ r.path[Len(r.path)].tag \in {"node", "edge"}
  BY <1>3 DEF PathStep, NodeStep, EdgeStep
<1>5. "edge" \notin {Head(r.path).tag, Last(r.path).tag} <=> EndsOnNodes(r.path)
  BY <1>2, <1>4 DEF EndsOnNodes
<1> QED BY <1>2, <1>5 DEF RuleVerdict

LEMMA WindowVerdict ==
    ASSUME NEW r \in Rule, r.path # <<>>, EndsOnNodes(r.path),
           NEW p \in 1..(Len(r.path) - 1), r.path[p].tag = r.path[p + 1].tag
    PROVE  RuleVerdict(r) = "PathMustAlternate"
<1>1. r.path \in Seq(PathStep) /\ Len(r.path) \in Nat
  BY LenProperties DEF Rule
<1>2. ASSUME Alternates(r.path) PROVE FALSE
  <2>1. TakesTurns(r.path, Len(r.path))
    BY <1>1, <1>2, AlternateTurns
  <2>2. p \in 1..Len(r.path) /\ p + 1 \in 1..Len(r.path) /\ (p % 2 = 1 <=> (p + 1) % 2 # 1)
    BY <1>1
  <2> QED BY <2>1, <2>2 DEF TakesTurns
<1> QED BY <1>2, EndsVerdict DEF RuleVerdict

LEMMA HopsVerdict ==
    ASSUME NEW r \in Rule, r.path # <<>>, EndsOnNodes(r.path), TakesTurns(r.path, Len(r.path))
    PROVE  /\ Alternates(r.path)
           /\ \A p \in EdgeSteps(r.path) :
                 ~HopRangeOK(r.path[p]) => RuleVerdict(r) = "InvalidHopRange"
           /\ (\A p \in EdgeSteps(r.path) : HopRangeOK(r.path[p])) =>
                 RuleVerdict(r) = IF MinTotal(r.path) > r.max_total_hops
                                  THEN "MaxTotalHopsTooSmall" ELSE "none"
<1>1. Alternates(r.path)
  BY TurnsAlternate
<1>2. "edge" \notin {Head(r.path).tag, Last(r.path).tag}
  BY EndsVerdict
<1>3. r.path \in Seq(PathStep) /\ Len(r.path) \in Nat
  BY LenProperties DEF Rule
<1>4. \A p \in EdgeSteps(r.path) :
         /\ r.path[p].min_hops \in Nat /\ r.path[p].max_hops \in Nat
         /\ HopRangeOK(r.path[p]) <=> ~(r.path[p].min_hops > r.path[p].max_hops)
  <2> SUFFICES ASSUME NEW p \in EdgeSteps(r.path)
               PROVE  /\ r.path[p].min_hops \in Nat /\ r.path[p].max_hops \in Nat
                      /\ HopRangeOK(r.path[p]) <=> ~(r.path[p].min_hops > r.path[p].max_hops)
    OBVIOUS
  <2>1. p \in 1..Len(r.path) /\ r.path[p].tag = "edge"
    BY DEF EdgeSteps
  <2>2. r.path[p] \in PathStep
    BY <1>3, <2>1, ElementOfSeq
  <2>3. r.path[p].min_hops \in Nat /\ r.path[p].max_hops \in Nat
    BY <2>1, <2>2 DEF PathStep, NodeStep, EdgeStep
  <2> QED BY <2>3 DEF HopRangeOK
<1>5. ASSUME NEW p \in EdgeSteps(r.path), ~HopRangeOK(r.path[p])
      PROVE  RuleVerdict(r) = "InvalidHopRange"
  <2>1. r.path[p].min_hops > r.path[p].max_hops
    BY <1>4, <1>5
  <2> QED BY <1>1, <1>2, <2>1 DEF RuleVerdict
<1>6. ASSUME \A p \in EdgeSteps(r.path) : HopRangeOK(r.path[p])
      PROVE  RuleVerdict(r) = IF MinTotal(r.path) > r.max_total_hops
                                  THEN "MaxTotalHopsTooSmall" ELSE "none"
  BY <1>1, <1>2, <1>4, <1>6 DEF RuleVerdict
<1> QED BY <1>1, <1>5, <1>6

(* And what a rule is like in which nothing is wrong.                      *)
LEMMA NothingWrong ==
    ASSUME NEW r \in Rule, RuleVerdict(r) = "none"
    PROVE  /\ Alternates(r.path)
           /\ \A p \in EdgeSteps(r.path) : HopRangeOK(r.path[p])
           /\ MinTotal(r.path) <= r.max_total_hops
<1>1. r.path # <<>>
  BY DEF RuleVerdict
<1>2. "edge" \notin {Head(r.path).tag, Last(r.path).tag}
  BY <1>1 DEF RuleVerdict
<1>3. Alternates(r.path)
  BY <1>1, <1>2 DEF RuleVerdict
<1>4. r.path \in Seq(PathStep) /\ r.max_total_hops \in Nat
  BY DEF Rule
<1>5. TakesTurns(r.path, Len(r.path)) /\ EndsOnNodes(r.path)
  BY <1>3, <1>4, AlternateTurns
<1>6. \A p \in EdgeSteps(r.path) : HopRangeOK(r.path[p])
  BY <1>1, <1>5, HopsVerdict
<1>7. ~(MinTotal(r.path) > r.max_total_hops)
  BY <1>1, <1>5, <1>6, HopsVerdict
<1>8. MinTotal(r.path) \in Nat
  <2>1. 1 \in 1..Len(r.path)
    BY <1>1, <1>4, EmptySeq, LenProperties
  <2> QED BY <1>4, <2>1, MinHopsStep
<1> QED BY <1>3, <1>4, <1>6, <1>7, <1>8

-----------------------------------------------------------------------------
(* The invariant of the load.                                              *)

(* The entries are the rule files in the order of their names.             *)
Listing ==
    /\ pc = "list" => rules = <<>>
    /\ dir = MissingDir => pc \in {"list", "panicked"}
    /\ dir # MissingDir /\ pc # "list" =>
          /\ ToSet(entries) = RuleFiles
          /\ Sorted(entries)
          /\ Len(entries) = Cardinality(RuleFiles)

(* Rule r is what file f says, and nothing is wrong with it.  If its       *)
(* minimum hops leave usize, the check of their sum says nothing.          *)
Accepted(f, r) ==
    /\ f.readable /\ f.text # NotARule
    /\ r = Parsed(f.text)
    /\ MinTotal(r.path) < UsizeLimit => RuleVerdict(r) = "none"

(* The files before the one at hand were accepted, one rule each.          *)
Progress ==
    /\ Len(rules) = k - 1
    /\ \A i \in 1..(k - 1) : Accepted(entries[i], rules[i])

(* The rule at hand is that of its file; the steps behind the hop loop are *)
(* in order and their minimum hops are summed up.                          *)
Current ==
    /\ pc \in {"ends", "windows", "hops"} =>
          /\ entries[k].readable /\ entries[k].text # NotARule
          /\ rule = Parsed(entries[k].text)
    /\ pc = "hops" =>
          /\ \A i \in EdgeSteps(rule.path) : i < pos => HopRangeOK(rule.path[i])
          /\ MinTotal(rule.path) < UsizeLimit =>
                min_required = SumTo(MinHops(rule.path), pos - 1)

(* The load ends after the last file or with what is wrong with the file   *)
(* at hand.                                                                *)
Stopped ==
    /\ pc = "loaded" => k = Len(entries) + 1
    /\ pc = "failed" => /\ k <= Len(entries)
                        /\ SumFits(entries[k]) => error = Verdict(entries[k])
    /\ pc = "panicked" /\ dir # MissingDir =>
          /\ k <= Len(entries)
          /\ SumFits(entries[k]) => Verdict(entries[k]) = "panic"

LoadInv == Listing /\ Progress /\ Current /\ Stopped

(* The three parts that only some of the variables decide.                 *)
LEMMA FileRead ==
    ASSUME TypeOK, WindowsOK, Current, pc \in {"ends", "windows", "hops"}
    PROVE  /\ k \in 1..Len(entries) /\ Len(entries) \in Nat /\ entries[k] \in File
           /\ entries[k].readable /\ entries[k].text # NotARule
           /\ rule = Parsed(entries[k].text)
           /\ rule \in Rule /\ rule.path \in Seq(PathStep) /\ Len(rule.path) \in Nat
           /\ Verdict(entries[k]) = RuleVerdict(rule)
           /\ SumFits(entries[k]) <=> MinTotal(rule.path) < UsizeLimit
<1>1. k \in 1..Len(entries) /\ Len(entries) \in Nat /\ rule \in Rule
  BY LenProperties DEF TypeOK, WindowsOK
<1>2. entries[k] \in File
  BY <1>1, ElementOfSeq DEF TypeOK
<1>3. rule.path \in Seq(PathStep) /\ Len(rule.path) \in Nat
  BY <1>1, LenProperties DEF Rule
<1>4. entries[k].readable /\ entries[k].text # NotARule /\ rule = Parsed(entries[k].text)
  BY DEF Current
<1> QED BY <1>1, <1>2, <1>3, <1>4 DEF Verdict, SumFits

LEMMA LoadInit == Init => LoadInv
<1> SUFFICES ASSUME Init PROVE LoadInv
  OBVIOUS
<1>1. Len(rules) = 0
  BY EmptySeq DEF Init
<1> QED BY <1>1 DEF Init, LoadInv, Listing, Progress, Current, Stopped

LEMMA ListDirLoad == ASSUME IInv, LoadInv, ListDir PROVE LoadInv'
<1>1. /\ pc = "list" /\ k = 1 /\ rules = <<>>
      /\ UNCHANGED <<dir, build, k, rule, pos, min_required, rules, error>>
      /\ pc' \in {"panicked", "file"}
  BY DEF ListDir, IInv, WindowsOK, LoadInv, Listing
<1>2. RuleFiles' = RuleFiles
  BY <1>1 DEF RuleFiles
<1>3. Progress'
  BY <1>1 DEF LoadInv, Progress
<1>4. Current'
  BY <1>1 DEF Current
<1>5. CASE dir = MissingDir
  <2>1. pc' = "panicked"
    BY <1>5 DEF ListDir
  <2> QED BY <1>1, <1>3, <1>4, <1>5, <2>1 DEF LoadInv, Listing, Stopped
<1>6. CASE dir # MissingDir
  <2>1. /\ pc' = "file" /\ entries' \in [1..Cardinality(RuleFiles) -> RuleFiles]
        /\ ToSet(entries') = RuleFiles /\ Sorted(entries')
    BY <1>6 DEF ListDir
  <2>2. entries' \in Seq(File)
    BY <1>6, ListDirInv DEF IInv, TypeOK
  <2>3. Cardinality(RuleFiles) \in Nat
    <3>1. IsFiniteSet(dir)
      BY <1>6, DirsAssumption DEF IInv, TypeOK
    <3>2. RuleFiles \subseteq dir
      BY DEF RuleFiles
    <3> QED BY <3>1, <3>2, FS_Subset, FS_CardinalityType
  <2>4. Len(entries') = Cardinality(RuleFiles)
    <3>1. DOMAIN entries' = 1..Len(entries') /\ Len(entries') \in Nat
      BY <2>2, LenProperties
    <3>2. DOMAIN entries' = 1..Cardinality(RuleFiles)
      BY <2>1
    <3> QED BY <2>3, <3>1, <3>2
  <2>5. Listing' /\ Stopped'
    BY <1>1, <1>2, <1>6, <2>1, <2>4 DEF Listing, Stopped
  <2> QED BY <1>3, <1>4, <2>5 DEF LoadInv
<1> QED BY <1>5, <1>6

(* A step that only moves on in the handling of one file leaves the        *)
(* listing and the rules accepted so far alone.                            *)
LEMMA SameFile ==
    ASSUME LoadInv, UNCHANGED <<dir, entries, k, rules>>, pc # "list", pc' # "list",
           dir # MissingDir
    PROVE  Listing' /\ Progress'
<1>1. RuleFiles' = RuleFiles
  BY DEF RuleFiles
<1>2. Listing'
  BY <1>1 DEF LoadInv, Listing, Sorted
<1>3. Progress'
  BY DEF LoadInv, Progress
<1> QED BY <1>2, <1>3

LEMMA AtWork ==
    ASSUME LoadInv, pc \notin {"list", "panicked"} PROVE dir # MissingDir
BY DEF LoadInv, Listing

LEMMA ParseFileLoad == ASSUME IInv, LoadInv, ParseFile PROVE LoadInv'
<1>1. /\ pc = "file" /\ UNCHANGED <<dir, build, entries, k, pos, min_required, rules>>
      /\ k <= Len(entries) /\ pc' \in {"panicked", "failed", "ends"}
  BY DEF ParseFile, Fail
<1>2. Listing' /\ Progress'
  BY <1>1, AtWork, SameFile
<1>3. Current'
  BY <1>1 DEF Current, ParseFile, Fail
<1>4. Stopped'
  <2>1. CASE ~entries[k].readable
    <3>1. Verdict(entries[k]) = "panic" /\ pc' = "panicked"
      BY <2>1 DEF ParseFile, Verdict
    <3> QED BY <1>1, <3>1 DEF Stopped
  <2>2. CASE entries[k].readable /\ entries[k].text = NotARule
    <3>1. Verdict(entries[k]) = "Yaml" /\ pc' = "failed" /\ error' = "Yaml"
      BY <2>2 DEF ParseFile, Verdict, Fail
    <3> QED BY <1>1, <3>1 DEF Stopped
  <2>3. CASE entries[k].readable /\ entries[k].text # NotARule
    <3>1. pc' = "ends"
      BY <2>3 DEF ParseFile
    <3> QED BY <3>1 DEF Stopped
  <2> QED BY <2>1, <2>2, <2>3
<1> QED BY <1>2, <1>3, <1>4 DEF LoadInv

(* A complaint about the rule at hand is the verdict on its file.          *)
LEMMA RuleFails ==
    ASSUME IInv, LoadInv, pc \in {"ends", "windows", "hops"},
           UNCHANGED <<dir, entries, k, rule, rules>>, pc' = "failed",
           MinTotal(rule.path) < UsizeLimit => error' = RuleVerdict(rule)
    PROVE  LoadInv'
<1>1. Listing' /\ Progress'
  BY AtWork, SameFile
<1>2. Current'
  BY DEF Current
<1>3. Stopped'
  <2>1. /\ k \in 1..Len(entries) /\ Len(entries) \in Nat
        /\ Verdict(entries[k]) = RuleVerdict(rule)
        /\ SumFits(entries[k]) <=> MinTotal(rule.path) < UsizeLimit
    BY FileRead DEF IInv, LoadInv
  <2> QED BY <2>1 DEF Stopped
<1> QED BY <1>1, <1>2, <1>3 DEF LoadInv

LEMMA CheckEndsLoad == ASSUME IInv, LoadInv, CheckEnds PROVE LoadInv'
<1>1. pc = "ends" /\ UNCHANGED <<dir, build, entries, k, rule, min_required, rules>>
  BY DEF CheckEnds
<1>2. rule \in Rule
  BY <1>1 DEF IInv, TypeOK
<1>3. CASE rule.path = <<>>
  <2>1. pc' = "failed" /\ error' = RuleVerdict(rule)
    BY <1>3, EmptyVerdict DEF CheckEnds, Fail
  <2> QED BY <1>1, <2>1, RuleFails
<1>4. CASE rule.path # <<>> /\ ~EndsOnNodes(rule.path)
  <2>1. pc' = "failed" /\ error' = RuleVerdict(rule)
    BY <1>2, <1>4, EndsVerdict DEF CheckEnds, Fail
  <2> QED BY <1>1, <2>1, RuleFails
<1>5. CASE rule.path # <<>> /\ EndsOnNodes(rule.path)
  <2>1. pc' = "windows"
    BY <1>5 DEF CheckEnds
  <2>2. Listing' /\ Progress'
    BY <1>1, <2>1, AtWork, SameFile
  <2>3. Current' /\ Stopped'
    BY <1>1, <2>1 DEF LoadInv, Current, Stopped
  <2> QED BY <2>2, <2>3 DEF LoadInv
<1> QED BY <1>3, <1>4, <1>5

LEMMA CheckWindowLoad == ASSUME IInv, LoadInv, CheckWindow PROVE LoadInv'
<1>1. pc = "windows" /\ UNCHANGED <<dir, build, entries, k, rule, min_required, rules>>
  BY DEF CheckWindow
<1>2. /\ rule \in Rule /\ pos \in Nat \ {0} /\ rule.path # <<>> /\ EndsOnNodes(rule.path)
      /\ Len(rule.path) \in Nat
  BY <1>1, FileRead DEF IInv, TypeOK, WindowsOK, LoadInv
<1>3. CASE rule.path[pos].tag = rule.path[pos + 1].tag
  <2>1. pos \in 1..(Len(rule.path) - 1)
    BY <1>2 DEF CheckWindow, LastWindow
  <2>2. pc' = "failed" /\ error' = "PathMustAlternate"
    BY <1>3 DEF CheckWindow, Fail
  <2>3. RuleVerdict(rule) = "PathMustAlternate"
    BY <1>2, <1>3, <2>1, WindowVerdict
  <2> QED BY <1>1, <2>2, <2>3, RuleFails
<1>4. CASE rule.path[pos].tag # rule.path[pos + 1].tag
  <2>1. pc' = "windows"
    BY <1>1, <1>4 DEF CheckWindow
  <2>2. Listing' /\ Progress'
    BY <1>1, <2>1, AtWork, SameFile
  <2>3. Current' /\ Stopped'
    BY <1>1, <2>1 DEF LoadInv, Current, Stopped
  <2> QED BY <2>2, <2>3 DEF LoadInv
<1> QED BY <1>3, <1>4

LEMMA WindowsDoneLoad == ASSUME IInv, LoadInv, WindowsDone PROVE LoadInv'
<1>1. /\ pc = "windows" /\ UNCHANGED <<dir, build, entries, k, rule, rules, error>>
      /\ pc' = "hops" /\ pos' = 1 /\ min_required' = 0
  BY DEF WindowsDone
<1>2. Listing' /\ Progress'
  BY <1>1, AtWork, SameFile
<1>3. /\ rule.path \in Seq(PathStep) /\ rule.path # <<>> /\ Len(rule.path) \in Nat
  BY <1>1, FileRead DEF IInv, WindowsOK, LoadInv
<1>4. SumTo(MinHops(rule.path), 0) = 0
  <2>1. 1 \in 1..Len(rule.path)
    BY <1>3, EmptySeq
  <2> QED BY <1>3, <2>1, MinHopsStep
<1>5. \A i \in EdgeSteps(rule.path) : ~(i < 1)
  BY <1>3 DEF EdgeSteps
<1>6. Current'
  BY <1>1, <1>4, <1>5 DEF LoadInv, Current
<1>7. Stopped'
  BY <1>1 DEF Stopped
<1> QED BY <1>2, <1>6, <1>7 DEF LoadInv

(* Where the whole sum fits usize, every part of it is kept exactly.       *)
LEMMA SumKept ==
    ASSUME NEW path \in Seq(PathStep), pos \in 1..Len(path), path[pos].tag = "edge",
           MinTotal(path) < UsizeLimit, min_required = SumTo(MinHops(path), pos - 1),
           AddMinHops(path[pos])
    PROVE  pc' = pc /\ pos' = pos + 1 /\ min_required' = SumTo(MinHops(path), pos)
<1>1. /\ SumTo(MinHops(path), pos) = min_required + path[pos].min_hops
      /\ SumTo(MinHops(path), pos) \in Nat /\ MinTotal(path) \in Nat
      /\ SumTo(MinHops(path), pos) <= MinTotal(path)
  BY MinHopsStep
<1>2. AddHops(min_required, path[pos]) < UsizeLimit
  BY <1>1, UsizeAssumption DEF AddHops
<1> QED BY <1>1, <1>2 DEF AddMinHops, AddHops

LEMMA CheckStepLoad == ASSUME IInv, LoadInv, CheckStep PROVE LoadInv'
<1>1. pc = "hops" /\ pos <= Len(rule.path) /\ UNCHANGED <<dir, build, entries, k, rule, rules>>
  BY DEF CheckStep
<1>2. /\ rule \in Rule /\ rule.path \in Seq(PathStep) /\ Len(rule.path) \in Nat
      /\ k \in 1..Len(entries) /\ Len(entries) \in Nat
      /\ SumFits(entries[k]) <=> MinTotal(rule.path) < UsizeLimit
  BY <1>1, FileRead DEF IInv, LoadInv
<1>3. /\ rule.path # <<>> /\ EndsOnNodes(rule.path) /\ TakesTurns(rule.path, Len(rule.path))
      /\ pos \in 1..Len(rule.path)
  BY <1>1, <1>2 DEF IInv, TypeOK, WindowsOK
<1>4. /\ \A i \in EdgeSteps(rule.path) : i < pos => HopRangeOK(rule.path[i])
      /\ MinTotal(rule.path) < UsizeLimit => min_required = SumTo(MinHops(rule.path), pos - 1)
  BY <1>1 DEF LoadInv, Current
<1>5. /\ entries[k].readable /\ entries[k].text # NotARule /\ rule = Parsed(entries[k].text)
  BY <1>1 DEF LoadInv, Current
<1>6. ASSUME pc' = "hops", pos' = pos + 1,
             rule.path[pos].tag = "edge" => HopRangeOK(rule.path[pos]),
             MinTotal(rule.path) < UsizeLimit => min_required' = SumTo(MinHops(rule.path), pos)
      PROVE  LoadInv'
  <2>1. Listing' /\ Progress'
    BY <1>1, <1>6, AtWork, SameFile
  <2>2. \A i \in EdgeSteps(rule.path) : i < pos + 1 => HopRangeOK(rule.path[i])
    <3> SUFFICES ASSUME NEW i \in EdgeSteps(rule.path), i < pos + 1 PROVE HopRangeOK(rule.path[i])
      OBVIOUS
    <3>1. i \in 1..Len(rule.path) /\ rule.path[i].tag = "edge"
      BY DEF EdgeSteps
    <3>2. i < pos \/ i = pos
      BY <1>3, <3>1
    <3> QED BY <1>4, <1>6, <3>1, <3>2
  <2>3. pos' - 1 = pos
    BY <1>3, <1>6
  <2>4. Current'
    <3>1. entries'[k'].readable /\ entries'[k'].text # NotARule /\ rule' = Parsed(entries'[k'].text)
      BY <1>1, <1>5
    <3>2. \A i \in EdgeSteps(rule'.path) : i < pos' => HopRangeOK(rule'.path[i])
      BY <1>1, <1>6, <2>2
    <3>3. MinTotal(rule'.path) < UsizeLimit => min_required' = SumTo(MinHops(rule'.path), pos' - 1)
      BY <1>1, <1>6, <2>3
    <3> QED BY <3>1, <3>2, <3>3 DEF Current
  <2>5. Stopped'
    BY <1>6 DEF Stopped
  <2> QED BY <2>1, <2>4, <2>5 DEF LoadInv
<1>7. CASE rule.path[pos].tag = "node"
  <2>1. pc' = "hops" /\ pos' = pos + 1 /\ min_required' = min_required
    BY <1>1, <1>7 DEF CheckStep
  <2>2. SumTo(MinHops(rule.path), pos) = SumTo(MinHops(rule.path), pos - 1)
    BY <1>2, <1>3, <1>7, MinHopsStep
  <2> QED BY <1>4, <1>6, <1>7, <2>1, <2>2
<1>8. CASE rule.path[pos].tag = "edge" /\ ~HopRangeOK(rule.path[pos])
  <2>1. pc' = "failed" /\ error' = "InvalidHopRange"
    BY <1>8 DEF CheckStep, Fail
  <2>2. pos \in EdgeSteps(rule.path)
    BY <1>3, <1>8 DEF EdgeSteps
  <2>3. RuleVerdict(rule) = "InvalidHopRange"
    BY <1>2, <1>3, <1>8, <2>2, HopsVerdict
  <2> QED BY <1>1, <2>1, <2>3, RuleFails
<1>9. CASE rule.path[pos].tag = "edge" /\ HopRangeOK(rule.path[pos])
  <2>1. AddMinHops(rule.path[pos])
    BY <1>9 DEF CheckStep
  <2>2. CASE MinTotal(rule.path) < UsizeLimit
    <3>1. pc' = pc /\ pos' = pos + 1 /\ min_required' = SumTo(MinHops(rule.path), pos)
      BY <1>2, <1>3, <1>4, <1>9, <2>1, <2>2, SumKept
    <3> QED BY <1>1, <1>6, <1>9, <3>1
  <2>3. CASE ~(MinTotal(rule.path) < UsizeLimit)
    <3>1. CASE pc' = pc /\ pos' = pos + 1
      BY <1>1, <1>6, <1>9, <2>3, <3>1
    <3>2. CASE pc' = "panicked"
      <4>1. Listing' /\ Progress'
        BY <1>1, <3>2, AtWork, SameFile
      <4>2. Current'
        BY <3>2 DEF Current
      <4>3. Stopped'
        <5>1. k <= Len(entries) /\ ~SumFits(entries[k])
          BY <1>2, <2>3
        <5> QED BY <1>1, <3>2, <5>1 DEF Stopped
      <4> QED BY <4>1, <4>2, <4>3 DEF LoadInv
    <3> QED BY <2>1, <3>1, <3>2 DEF AddMinHops
  <2> QED BY <2>2, <2>3
<1>10. rule.path[pos].tag \in {"node", "edge"}
  BY DEF CheckStep
<1> QED BY <1>7, <1>8, <1>9, <1>10

LEMMA AcceptRuleLoad == ASSUME IInv, LoadInv, AcceptRule PROVE LoadInv'
<1>1. /\ pc = "hops" /\ pos > Len(rule.path)
      /\ UNCHANGED <<dir, build, entries, rule, pos, min_required>>
  BY DEF AcceptRule
<1>2. /\ rule \in Rule /\ rule.path \in Seq(PathStep) /\ Len(rule.path) \in Nat
      /\ k \in 1..Len(entries) /\ Len(entries) \in Nat
      /\ entries[k].readable /\ entries[k].text # NotARule /\ rule = Parsed(entries[k].text)
  BY <1>1, FileRead DEF IInv, LoadInv
<1>3. /\ rule.path # <<>> /\ EndsOnNodes(rule.path) /\ TakesTurns(rule.path, Len(rule.path))
      /\ pos = Len(rule.path) + 1
  BY <1>1, <1>2 DEF IInv, TypeOK, WindowsOK
<1>4. \A i \in EdgeSteps(rule.path) : HopRangeOK(rule.path[i])
  <2>1. \A i \in EdgeSteps(rule.path) : i < pos
    BY <1>2, <1>3 DEF EdgeSteps
  <2> QED BY <1>1, <2>1 DEF LoadInv, Current
<1>5. RuleVerdict(rule) = IF MinTotal(rule.path) > rule.max_total_hops
                          THEN "MaxTotalHopsTooSmall" ELSE "none"
  BY <1>2, <1>3, <1>4, HopsVerdict
<1>6. MinTotal(rule.path) < UsizeLimit => min_required = MinTotal(rule.path)
  <2>1. pos - 1 = Len(rule.path)
    BY <1>2, <1>3
  <2> QED BY <1>1, <2>1 DEF LoadInv, Current, MinTotal
<1>7. min_required \in Nat /\ rule.max_total_hops \in Nat
  BY <1>2, UsizeAssumption DEF IInv, TypeOK, Usize, Rule
<1>8. CASE ~FitsTotal(rule)
  <2>1. pc' = "failed" /\ error' = "MaxTotalHopsTooSmall" /\ UNCHANGED <<rules, k>>
    BY <1>8 DEF AcceptRule, Fail
  <2>2. min_required > rule.max_total_hops
    BY <1>7, <1>8 DEF FitsTotal
  <2> QED BY <1>1, <1>5, <1>6, <2>1, <2>2, RuleFails
<1>9. CASE FitsTotal(rule)
  <2>1. rules' = Append(rules, rule) /\ k' = k + 1 /\ pc' = "file"
    BY <1>9 DEF AcceptRule
  <2>2. Accepted(entries[k], rule)
    <3>1. MinTotal(rule.path) < UsizeLimit => RuleVerdict(rule) = "none"
      BY <1>5, <1>6, <1>7, <1>9 DEF FitsTotal
    <3> QED BY <1>2, <3>1 DEF Accepted
  <2>3. Len(rules) = k - 1 /\ \A i \in 1..(k - 1) : Accepted(entries[i], rules[i])
    BY DEF LoadInv, Progress
  <2>4. rules \in Seq(Rule)
    BY DEF IInv, TypeOK
  <2>5. /\ Len(rules') = k
        /\ \A i \in 1..k : rules'[i] = IF i = k THEN rule ELSE rules[i]
    BY <1>2, <2>1, <2>3, <2>4, AppendProperties
  <2>6. Progress'
    <3>1. \A i \in 1..k : Accepted(entries[i], rules'[i])
      BY <1>2, <2>2, <2>3, <2>5
    <3>2. k' - 1 = k
      BY <1>2, <2>1
    <3> QED BY <1>1, <2>5, <3>1, <3>2 DEF Progress
  <2>7. Listing'
    <3>1. dir # MissingDir
      BY <1>1, AtWork
    <3>2. RuleFiles' = RuleFiles
      BY <1>1 DEF RuleFiles
    <3> QED BY <1>1, <2>1, <3>1, <3>2 DEF LoadInv, Listing, Sorted
  <2>8. Current' /\ Stopped'
    BY <2>1 DEF Current, Stopped
  <2> QED BY <2>6, <2>7, <2>8 DEF LoadInv
<1> QED BY <1>8, <1>9

LEMMA AllLoadedLoad == ASSUME IInv, LoadInv, AllLoaded PROVE LoadInv'
<1>1. /\ pc = "file" /\ pc' = "loaded" /\ k > Len(entries)
      /\ UNCHANGED <<dir, build, entries, k, rule, pos, min_required, rules, error>>
  BY DEF AllLoaded
<1>2. Listing' /\ Progress'
  BY <1>1, AtWork, SameFile
<1>3. k = Len(entries) + 1
  <2>1. Len(entries) \in Nat /\ k \in 1..(Len(entries) + 1)
    BY LenProperties DEF IInv, TypeOK
  <2> QED BY <1>1, <2>1
<1>4. Current' /\ Stopped'
  BY <1>1, <1>3 DEF Current, Stopped
<1> QED BY <1>2, <1>4 DEF LoadInv

LEMMA LoadNext == ASSUME IInv, LoadInv, [Next]_vars PROVE LoadInv'
<1>1. CASE UNCHANGED vars
  <2>1. RuleFiles' = RuleFiles
    BY <1>1 DEF vars, RuleFiles
  <2> QED BY <1>1, <2>1 DEF vars, LoadInv, Listing, Progress, Current, Stopped
<1> QED
  BY <1>1, ListDirLoad, ParseFileLoad, CheckEndsLoad, CheckWindowLoad, WindowsDoneLoad,
     CheckStepLoad, AcceptRuleLoad, AllLoadedLoad DEF Next

THEOREM LoadInvariance == Spec => [](IInv /\ LoadInv)
<1>1. Init => IInv /\ LoadInv
  BY InitInv, LoadInit
<1>2. IInv /\ LoadInv /\ [Next]_vars => IInv' /\ LoadInv'
  BY NextInv, LoadNext
<1> QED BY <1>1, <1>2, PTL DEF Spec

-----------------------------------------------------------------------------
(* What follows from it.                                                   *)

(* The place of a rule file in the order of names is its place in the      *)
(* listing.                                                                *)
LEMMA PlaceByName ==
    ASSUME NEW s \in Seq(File), NEW D, ToSet(s) = D, Sorted(s), NEW i \in 1..Len(s)
    PROVE  Cardinality({g \in D : g.name <= s[i].name}) = i
<1> DEFINE T == {g \in D : g.name <= s[i].name}
           f == [j \in 1..i |-> s[j]]
<1>1. Len(s) \in Nat /\ D = {s[j] : j \in 1..Len(s)}
  BY LenProperties DEF ToSet
<1>2. ASSUME NEW j \in 1..Len(s) PROVE s[j].name \in Nat
  <2>1. s[j] \in File
    BY ElementOfSeq
  <2> QED BY <2>1 DEF File
<1>3. \A a, b \in 1..Len(s) : a < b => s[a].name < s[b].name
  BY DEF Sorted
<1>4. ASSUME NEW j \in 1..Len(s) PROVE s[j].name <= s[i].name <=> j <= i
  <2>1. s[j].name \in Nat /\ s[i].name \in Nat
    BY <1>2
  <2>2. j < i => s[j].name < s[i].name
    BY <1>3
  <2>3. i < j => s[i].name < s[j].name
    BY <1>3
  <2> QED BY <1>1, <2>1, <2>2, <2>3
<1>5. f \in [1..i -> T]
  <2>1. \A j \in 1..i : j \in 1..Len(s) /\ j <= i
    BY <1>1
  <2> QED BY <1>1, <1>4, <2>1
<1>6. ASSUME NEW a \in 1..i, NEW b \in 1..i, f[a] = f[b] PROVE a = b
  <2>1. a \in 1..Len(s) /\ b \in 1..Len(s) /\ s[a] = s[b]
    BY <1>1, <1>6
  <2>2. s[a].name \in Nat
    BY <1>2, <2>1
  <2>3. ~(a < b) /\ ~(b < a)
    BY <1>3, <2>1, <2>2
  <2> QED BY <2>3
<1>7. ASSUME NEW g \in T PROVE \E a \in 1..i : f[a] = g
  <2>1. PICK j \in 1..Len(s) : g = s[j]
    BY <1>1
  <2>2. j \in 1..i
    BY <1>1, <1>4, <2>1
  <2> QED BY <2>1, <2>2
<1>8. f \in Bijection(1..i, T)
  <2> HIDE DEF f, T
  <2> QED BY <1>5, <1>6, <1>7, BijectionIs
<1>9. IsFiniteSet(1..i) /\ Cardinality(1..i) = i
  BY <1>1, FS_Interval
<1>10. ExistsBijection(1..i, T)
  BY <1>8 DEF ExistsBijection
<1> HIDE DEF f, T
<1>11. Cardinality(T) = i
  BY <1>9, <1>10, FS_Bijection
<1> QED BY <1>11 DEF T

(* An accepted file is not a bad one.                                      *)
LEMMA AcceptedGood ==
    ASSUME NEW f, NEW r, Accepted(f, r), SumFits(f)
    PROVE  Verdict(f) = "none" /\ r = Parsed(f.text)
BY DEF Accepted, SumFits, Verdict

(* The file at which the load stops is the bad file of the smallest name.  *)
LEMMA StoppedAtFirst ==
    ASSUME IInv, LoadInv, dir # MissingDir, SumsFit, pc # "list",
           k <= Len(entries), Verdict(entries[k]) # "none",
           NEW bad, bad = {f \in RuleFiles : Verdict(f) # "none"}
    PROVE  /\ bad # {}
           /\ entries[k] = CHOOSE f \in bad : \A g \in bad : f.name <= g.name
<1>1. /\ ToSet(entries) = RuleFiles /\ Sorted(entries)
      /\ \A i \in 1..(k - 1) : Accepted(entries[i], rules[i])
  BY DEF LoadInv, Listing, Progress
<1>2. entries \in Seq(File) /\ Len(entries) \in Nat /\ k \in 1..Len(entries)
  BY LenProperties DEF IInv, TypeOK
<1>3. RuleFiles = {entries[j] : j \in 1..Len(entries)}
  BY <1>1, <1>2, LenProperties DEF ToSet
<1>4. entries[k] \in bad
  BY <1>2, <1>3
<1>5. ASSUME NEW j \in 1..Len(entries) PROVE entries[j].name \in Nat
  <2>1. entries[j] \in File
    BY <1>2, ElementOfSeq
  <2> QED BY <2>1 DEF File
<1>6. ASSUME NEW g \in bad PROVE entries[k].name <= g.name
  <2>1. PICK j \in 1..Len(entries) : g = entries[j]
    BY <1>3
  <2>2. ~(j < k)
    <3> SUFFICES ASSUME j < k PROVE FALSE
      OBVIOUS
    <3>1. Accepted(g, rules[j])
      BY <1>1, <1>2, <2>1
    <3>2. SumFits(g)
      BY DEF SumsFit
    <3> QED BY <3>1, <3>2, AcceptedGood
  <2>3. k < j => entries[k].name < entries[j].name
    BY <1>1, <1>2 DEF Sorted
  <2>4. entries[k].name \in Nat /\ entries[j].name \in Nat
    BY <1>2, <1>5
  <2> QED BY <1>2, <2>1, <2>2, <2>3, <2>4
<1>7. ASSUME NEW f \in bad, \A g \in bad : f.name <= g.name PROVE f = entries[k]
  <2>1. f.name <= entries[k].name /\ entries[k].name <= f.name
    BY <1>4, <1>6, <1>7
  <2>2. PICK j \in 1..Len(entries) : f = entries[j]
    BY <1>3
  <2>3. f.name \in Nat /\ entries[k].name \in Nat
    BY <1>2, <1>5, <2>2
  <2>4. f.name = entries[k].name
    BY <2>1, <2>3
  <2>5. f \in dir /\ entries[k] \in dir
    BY <1>4 DEF RuleFiles
  <2> QED BY <2>4, <2>5, DirsAssumption DEF IInv, TypeOK
<1> DEFINE P(f) == f \in bad /\ \A g \in bad : f.name <= g.name
<1>8. P(entries[k]) /\ \A f : P(f) => f = entries[k]
  BY <1>4, <1>6, <1>7
<1>9. (CHOOSE f : P(f)) = entries[k]
  <2> HIDE DEF P
  <2> QED BY <1>8
<1> QED BY <1>4, <1>9

LEMMA FirstBad == ASSUME IInv, LoadInv PROVE FirstBadFileDecides
<1> DEFINE bad == {f \in RuleFiles : Verdict(f) # "none"}
           first == CHOOSE f \in bad : \A g \in bad : f.name <= g.name
<1> SUFFICES ASSUME dir # MissingDir, SumsFit
             PROVE  /\ pc = "loaded" =>
                          /\ bad = {}
                          /\ Len(rules) = Cardinality(RuleFiles)
                          /\ \A f \in RuleFiles :
                                rules[Cardinality({g \in RuleFiles : g.name <= f.name})] = Parsed(f.text)
                    /\ pc = "failed" => bad # {} /\ error = Verdict(first)
                    /\ pc = "panicked" => bad # {} /\ Verdict(first) = "panic"
  BY DEF FirstBadFileDecides
<1>1. entries \in Seq(File) /\ Len(entries) \in Nat /\ k \in 1..(Len(entries) + 1)
  BY LenProperties DEF IInv, TypeOK
<1>2. ASSUME pc = "loaded"
      PROVE  /\ bad = {}
             /\ Len(rules) = Cardinality(RuleFiles)
             /\ \A f \in RuleFiles :
                   rules[Cardinality({g \in RuleFiles : g.name <= f.name})] = Parsed(f.text)
  <2>1. /\ ToSet(entries) = RuleFiles /\ Sorted(entries) /\ Len(entries) = Cardinality(RuleFiles)
        /\ k = Len(entries) + 1 /\ Len(rules) = k - 1
        /\ \A i \in 1..(k - 1) : Accepted(entries[i], rules[i])
    BY <1>2 DEF LoadInv, Listing, Progress, Stopped
  <2>2. RuleFiles = {entries[j] : j \in 1..Len(entries)}
    BY <1>1, <2>1, LenProperties DEF ToSet
  <2>3. ASSUME NEW f \in RuleFiles
        PROVE  /\ Verdict(f) = "none"
               /\ rules[Cardinality({g \in RuleFiles : g.name <= f.name})] = Parsed(f.text)
    <3>1. PICK i \in 1..Len(entries) : f = entries[i]
      BY <2>2
    <3>2. Accepted(f, rules[i])
      BY <1>1, <2>1, <3>1
    <3>3. SumFits(f)
      BY DEF SumsFit
    <3>4. Verdict(f) = "none" /\ rules[i] = Parsed(f.text)
      BY <3>2, <3>3, AcceptedGood
    <3>5. Cardinality({g \in RuleFiles : g.name <= entries[i].name}) = i
      BY <1>1, <2>1, PlaceByName
    <3> QED BY <3>1, <3>4, <3>5
  <2>4. bad = {}
    BY <2>3
  <2>5. Len(rules) = Cardinality(RuleFiles)
    <3>1. (Len(entries) + 1) - 1 = Len(entries)
      BY <1>1
    <3> QED BY <2>1, <3>1
  <2> QED BY <2>3, <2>4, <2>5
<1>3. ASSUME pc = "failed" PROVE bad # {} /\ error = Verdict(first)
  <2>1. k <= Len(entries) /\ (SumFits(entries[k]) => error = Verdict(entries[k])) /\ error # "none"
    BY <1>3 DEF LoadInv, Stopped, IInv, TypeOK
  <2>2. entries[k] \in RuleFiles
    BY <1>1, <1>3, <2>1, LenProperties DEF LoadInv, Listing, ToSet
  <2>3. error = Verdict(entries[k])
    BY <2>1, <2>2 DEF SumsFit
  <2>4. bad # {} /\ entries[k] = first
    <3> HIDE DEF bad
    <3>1. bad = {f \in RuleFiles : Verdict(f) # "none"}
      BY DEF bad
    <3> QED BY <1>3, <2>1, <2>3, <3>1, StoppedAtFirst
  <2> QED BY <2>3, <2>4
<1>4. ASSUME pc = "panicked" PROVE bad # {} /\ Verdict(first) = "panic"
  <2>1. k <= Len(entries) /\ (SumFits(entries[k]) => Verdict(entries[k]) = "panic")
    BY <1>4 DEF LoadInv, Stopped
  <2>2. entries[k] \in RuleFiles
    BY <1>1, <1>4, <2>1, LenProperties DEF LoadInv, Listing, ToSet
  <2>3. Verdict(entries[k]) = "panic"
    BY <2>1, <2>2 DEF SumsFit
  <2>4. bad # {} /\ entries[k] = first
    <3> HIDE DEF bad
    <3>1. bad = {f \in RuleFiles : Verdict(f) # "none"}
      BY DEF bad
    <3> QED BY <1>4, <2>1, <2>3, <3>1, StoppedAtFirst
  <2> QED BY <2>3, <2>4
<1> QED BY <1>2, <1>3, <1>4

-----------------------------------------------------------------------------
(* The minimum hops of the edge steps alone add up to those of the path.   *)
LEMMA EdgeSums ==
    ASSUME NEW path \in Seq(PathStep), Alternates(path), NEW n, n = PairCount(path),
           NEW lens \in [1..n -> Nat], \A i \in 1..n : lens[i] = EdgeStepOf(path, i).min_hops
    PROVE  SumTo(lens, n) <= MinTotal(path) /\ SumTo(lens, n) \in Nat
<1>1. /\ Len(path) \in Nat /\ n \in Int /\ Len(path) = 2 * n + 1
      /\ \A i \in 0..n : path[2 * i + 1] \in NodeStep
      /\ \A i \in 1..n : path[2 * i] \in EdgeStep /\ lens[i] = path[2 * i].min_hops
  <2>1. Len(path) \in Nat
    BY LenProperties
  <2>2. n \in Int
    BY <2>1 DEF PairCount
  <2>3. /\ Len(path) = 2 * n + 1
        /\ \A i \in 0..n : NodeStepOf(path, i) \in NodeStep
        /\ \A i \in 1..n : EdgeStepOf(path, i) \in EdgeStep
    BY DEF Alternates
  <2> QED BY <2>1, <2>2, <2>3 DEF NodeStepOf, EdgeStepOf
<1>2. n \in Nat
  BY <1>1
<1>3. /\ SumTo(lens, 0) = 0
      /\ \A i \in 0..n : SumTo(lens, i) \in Nat
      /\ \A i \in 0..(n - 1) : SumTo(lens, i + 1) = SumTo(lens, i) + lens[i + 1]
  BY <1>2, SumSteps
<1> DEFINE S == {i \in 0..n : SumTo(lens, i) = SumTo(MinHops(path), 2 * i + 1)}
<1>4. 0 \in S
  <2>1. 1 \in 1..Len(path) /\ path[1] \in NodeStep /\ 1 - 1 = 0
    BY <1>1, <1>2
  <2>2. path[1].tag # "edge"
    BY <2>1 DEF NodeStep
  <2>3. SumTo(MinHops(path), 1) = 0
    BY <2>1, <2>2, MinHopsStep
  <2> QED BY <1>2, <1>3, <2>3
<1>5. ASSUME NEW i \in 0..(n - 1), i \in S PROVE i + 1 \in S
  <2>1. /\ i + 1 \in 1..n /\ i + 1 \in 0..n
        /\ 2 * i + 2 \in 1..Len(path) /\ 2 * i + 3 \in 1..Len(path)
        /\ 2 * (i + 1) = 2 * i + 2 /\ 2 * (i + 1) + 1 = 2 * i + 3
        /\ (2 * i + 2) - 1 = 2 * i + 1 /\ (2 * i + 3) - 1 = 2 * i + 2
    BY <1>1, <1>2
  <2>2. path[2 * i + 2] \in EdgeStep /\ lens[i + 1] = path[2 * i + 2].min_hops
    BY <1>1, <2>1
  <2>3. path[2 * i + 3] \in NodeStep
    BY <1>1, <2>1
  <2>4. path[2 * i + 2].tag = "edge" /\ path[2 * i + 3].tag # "edge"
    BY <2>2, <2>3 DEF EdgeStep, NodeStep
  <2>5. SumTo(MinHops(path), 2 * i + 2) = SumTo(MinHops(path), 2 * i + 1) + path[2 * i + 2].min_hops
    BY <2>1, <2>4, MinHopsStep
  <2>6. SumTo(MinHops(path), 2 * i + 3) = SumTo(MinHops(path), 2 * i + 2)
    BY <2>1, <2>4, MinHopsStep
  <2>7. SumTo(lens, i + 1) = SumTo(lens, i) + lens[i + 1]
    BY <1>3
  <2> QED BY <1>5, <2>1, <2>2, <2>5, <2>6, <2>7
<1>6. n \in S
  <2>1. \A i \in 0..(n - 1) : i \in S => i + 1 \in S
    BY <1>5
  <2> HIDE DEF S
  <2>2. \A i \in 0..n : i \in S
    BY <1>2, <1>4, <2>1, InductionUpTo
  <2> QED BY <1>2, <2>2
<1>7. SumTo(lens, n) = MinTotal(path)
  BY <1>1, <1>6 DEF MinTotal
<1>8. SumTo(lens, n) \in Nat
  BY <1>2, <1>3
<1> QED BY <1>7, <1>8

(* A rule in which nothing is wrong and whose edge steps ask for a hop     *)
(* each is satisfied by the smallest hop counts it allows.                 *)
LEMMA SmallestFit ==
    ASSUME NEW r \in Rule, RuleVerdict(r) = "none",
           \A j \in EdgeSteps(r.path) : r.path[j].min_hops >= 1
    PROVE  CouldMatch(r)
<1> DEFINE n == PairCount(r.path)
           lens == [i \in 1..n |-> EdgeStepOf(r.path, i).min_hops]
<1>1. /\ Alternates(r.path) /\ MinTotal(r.path) <= r.max_total_hops
      /\ \A p \in EdgeSteps(r.path) : HopRangeOK(r.path[p])
  BY NothingWrong
<1>2. r.path \in Seq(PathStep) /\ r.max_total_hops \in Nat
  BY DEF Rule
<1>3. /\ Len(r.path) \in Nat /\ n \in Int /\ Len(r.path) = 2 * n + 1
      /\ \A i \in 1..n : r.path[2 * i] \in EdgeStep
  <2>1. Len(r.path) \in Nat
    BY <1>2, LenProperties
  <2>2. n \in Int
    BY <2>1 DEF PairCount
  <2>3. Len(r.path) = 2 * n + 1 /\ \A i \in 1..n : EdgeStepOf(r.path, i) \in EdgeStep
    BY <1>1 DEF Alternates
  <2> QED BY <2>1, <2>2, <2>3 DEF EdgeStepOf
<1>4. n \in Nat
  BY <1>3
<1>5. ASSUME NEW i \in 1..n
      PROVE  /\ lens[i] = EdgeStepOf(r.path, i).min_hops /\ lens[i] \in Nat /\ lens[i] >= 1
             /\ lens[i] <= EdgeStepOf(r.path, i).max_hops
  <2>1. 2 * i \in 1..Len(r.path) /\ r.path[2 * i] \in EdgeStep
    BY <1>3
  <2>2. 2 * i \in EdgeSteps(r.path)
    BY <2>1 DEF EdgeSteps, EdgeStep
  <2>3. HopRangeOK(r.path[2 * i]) /\ r.path[2 * i].min_hops >= 1
    BY <1>1, <2>2
  <2> QED BY <2>1, <2>3 DEF EdgeStepOf, EdgeStep, HopRangeOK
<1>6. lens \in [1..n -> Nat]
  BY <1>5
<1>7. SumTo(lens, n) <= MinTotal(r.path) /\ SumTo(lens, n) \in Nat /\ MinTotal(r.path) \in Nat
  <2>1. \A i \in 1..n : lens[i] = EdgeStepOf(r.path, i).min_hops
    BY <1>5
  <2>2. 1 \in 1..Len(r.path)
    BY <1>3, <1>4
  <2>3. MinTotal(r.path) \in Nat
    BY <1>2, <2>2, MinHopsStep
  <2>4. n = PairCount(r.path)
    OBVIOUS
  <2> HIDE DEF lens, n
  <2>5. SumTo(lens, n) <= MinTotal(r.path) /\ SumTo(lens, n) \in Nat
    BY <1>1, <1>2, <1>6, <2>1, <2>4, EdgeSums
  <2> QED BY <2>3, <2>5
<1>8. SumTo(lens, n) <= r.max_total_hops
  BY <1>1, <1>2, <1>7
<1>9. ASSUME NEW i \in 1..n PROVE lens[i] \in 1..r.max_total_hops
  <2>1. i \in 0..n /\ i # 0 /\ i \in 1..n
    BY <1>4
  <2>2. lens[i] <= SumTo(lens, n)
    <3> HIDE DEF lens, n
    <3> QED BY <1>4, <1>6, <2>1, SumGrows
  <2> QED BY <1>2, <1>5, <1>7, <1>8, <2>2
<1>10. lens \in [1..n -> 1..r.max_total_hops]
  BY <1>6, <1>9
<1>11. \A i \in 1..n : /\ lens[i] >= EdgeStepOf(r.path, i).min_hops
                      /\ lens[i] <= EdgeStepOf(r.path, i).max_hops
  BY <1>5
<1> HIDE DEF lens
<1> QED BY <1>8, <1>10, <1>11 DEF CouldMatch

LEMMA CanMatch == ASSUME IInv, LoadInv PROVE LoadedCanMatch
<1> SUFFICES ASSUME NEW i \in 1..Len(rules),
                    \A j \in EdgeSteps(rules[i].path) : rules[i].path[j].min_hops >= 1,
                    MinTotal(rules[i].path) < UsizeLimit
             PROVE  CouldMatch(rules[i])
  BY DEF LoadedCanMatch
<1>1. rules \in Seq(Rule) /\ Len(rules) = k - 1
  BY DEF IInv, TypeOK, LoadInv, Progress
<1>2. rules[i] \in Rule
  BY <1>1, ElementOfSeq
<1>3. Accepted(entries[i], rules[i])
  BY <1>1 DEF LoadInv, Progress
<1>4. RuleVerdict(rules[i]) = "none"
  BY <1>3 DEF Accepted
<1> QED BY <1>2, <1>4, SmallestFit

-----------------------------------------------------------------------------
(* Loading is all or nothing: with no bad file every rule is there, in the *)
(* order of the file names, and otherwise the bad file of the smallest     *)
(* name decides the error load_dir returns, for any directory.             *)
THEOREM LoadDecidedByFirstBadFile == Spec => []FirstBadFileDecides
<1> QED BY LoadInvariance, FirstBad, PTL

(* validate accepts a rule whose edge steps ask for at least one hop only  *)
(* if some hop counts satisfy every step and the total.                    *)
THEOREM LoadedRulesCanMatch == Spec => []LoadedCanMatch
<1> QED BY LoadInvariance, CanMatch, PTL

=============================================================================
