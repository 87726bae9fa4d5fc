# A TLA+ model of PolicyLens

PolicyLens (`policylens-graph`, `policylens-rules`, `policylens-cli`) reads a
flat directory of Terraform files, builds a graph of its resources, derives
facts and semantic edges from it, lays the linear path patterns of its rules
over the graph and reports every chain it finds, worst first.  This directory
models it in TLA+, checks the models with TLC and proves most of what they say
with TLAPS.  File and line references are to the repository.

One process is sequential; all that runs share is the directories they read and
the report file they write.  What is hardest to test is therefore not
concurrency but long sequences of legal steps over shapes of data nobody wrote a
fixture for: cyclic graphs, repeated edge steps, hop budgets
shared by several steps, rules that are individually acceptable and jointly
ambiguous, a failure in the middle of a stage.  The models therefore take every
loop one iteration at a time, run it over all small graphs, rules and
directories of a bounded universe, and compare the result with a definition that
does not mention the loop.

## The system

| Part | Source | State it keeps | Operations | What makes it correct | Hard because |
|---|---|---|---|---|---|
| parser | `policylens-graph/src/parser.rs` | files parsed so far | list, sort, read and parse each file | all or nothing, in name order | order of listing, failure half-way |
| expressions | `policylens-graph/src/expr.rs` | none | attribute to JSON, references of an attribute | every reference to a resource is found, every unresolved value flagged | recursion over templates, objects, calls |
| graph | `policylens-graph/src/graph.rs` | nodes, id index, `References` edges | node pass, edge pass | ids unique, edges only between known resources, independent of declaration order | forward references, duplicates, order of edges |
| classification | `policylens-rules/src/classify.rs` | `_derived` facts, semantic edges | four fact passes, three edge passes | each fact and edge follows from nodes and references alone | passes read what others append, first matching edge decides |
| predicates | `policylens-rules/src/predicate.rs` | none | parse, evaluate | a conjunction holds iff each clause does | operators inside literals, missing paths |
| rule loading | `policylens-rules/src/rule.rs` | rules accepted so far | list, parse, validate each file | accepted rules alternate and can match | loop bounds, overflow, first error wins |
| matcher | `policylens-rules/src/matcher.rs` | frontier of partial matches, walk stack, findings | seed, expand a pair, bounded walk, emit | exactly the chains of the path, within the budget, and it ends | cycles, parallel edges, shared budget |
| scoring | `policylens-rules/src/scoring.rs` | none | score, label | severity of the rule dominates, longer is never worse | cap, bonuses and clamp interact |
| report | `policylens-rules/src/report.rs` | reports, counts, text | build, sort, count, render | a stable permutation of the findings with their own rule and chain | rule looked up again by id, zip of unequal lengths |
| command line | `policylens-cli/src/main.rs` | the JSON report on disk | scan, debug-graph, find rules directory | exit 0 means printed and written, the nearest rules are used | stages fail, panic or are killed in between, two runs share the file |

The parts call one another in one direction: `run_scan` builds the graph, lets
`classify` extend it, loads the rules, gives both to the matcher, the findings
to the report, and writes the report last.  Within a process the graph is the
only shared state and is not changed after classification.  Between processes it
is the file `policylens-report.json` in the working directory, which is
truncated and rewritten without a lock.

## The modules

`RuleModel` holds the data all modules share.  A where-predicate is a
conjunction of clauses evaluated on one node or one edge, so a predicate is a
set of clauses and a node or edge carries the set of clauses that hold of it;
the value `Malformed` stands for a clause text the predicate parser rejects.
This keeps the control flow of the matcher, which can only ask whether a
predicate holds, and leaves the JSON out; what parsing and evaluating a text
does is the subject of `Predicate`.  Nodes and edges are numbered in the
order they were added, as petgraph numbers them.

`Walks` says what it means that a chain of edges satisfies a rule (`Satisfies`:
there is a way to cut the chain into the path's edge steps) and which chains of
a graph do (`Walks`, `FindingBag`).  It follows no algorithm.

`PathSearch` is the abstract specification of the matcher: for each rule, in
order, the whole bag of its findings appears in one step, or the scan panics
because a predicate that does not parse is reached.  It is a bag because one
chain can satisfy a path with repeated edge steps in several ways and the code
then reports it once for each.

`RuleMatcher` is `matcher.rs` step by step.  `ri`, `si` and `fi` are the
positions of the three nested loops (rule, pair of steps, partial match);
`frontier` and `next_frontier` are the vectors of the same names; `trail` and
`cursor` are the recursion stack of `dfs`: the edges pushed so far and how far
the innermost call's loop over outgoing edges has come.  petgraph returns the
outgoing edges of a node from the last added to the first, which is why `cursor`
counts down.  `StartRule`..`SeedDone` are lines 43-56, `BeginPair` 60-66,
`BeginWalk` is the head of `walk_bounded_hops` (141-146) and its call of `dfs`,
`Descend` and `Return` are `dfs`, `WalkDone` the `retain` at the end,
`TakeResult` and `CollectDone` lines 70-86, `EndPair` 87-91, `EmitFindings`
93-103.

`RuleLoad` is `RuleSet::load_dir` and `validate` with both loops unrolled into
steps.  Hop counts are machine integers: `UsizeLimit` is the constant that
stands for 2^64, and the unchecked sum of minimum hops wraps in a release build
and panics in a debug build.  Absent `min_hops`/`max_hops` become 1 when a file
is parsed.

`Scoring` holds the formula of `scoring.rs` with its constants.  `Report` is
`build_report` and the chain part of `render_human`; its input is a scan whose
findings satisfy a loaded rule of their id, which is what `RuleMatcher`
establishes.

`HclExpr` holds the functions of `expr.rs` and of the end of `graph.rs` as
recursive operators over a recursive data type: an expression is a record whose
tag is the variant of hcl's `Expression`.  `CollectTraversals` walks the
sub-expressions `Walked` names, in the order of the code and with its path
segments; `Json` and `Unresolved` are the two results of `expr_to_json`;
`HasInterpolation` is whether the text of a template contains `${`, be it in an
interpolation, in the escape `$${` or in a header of a directive;
`BodyToJson` folds attributes and nested blocks into an object;
`PromoteEmbeddedJson` opens JSON texts, where the constant `Embedded` says which
texts are JSON.

`GraphBuild` is `parse_directory` and `build_graph`.  What the expressions of a
block come to is a parameter: `BodyRefs`, `BodyAttrs` and `BodyUnresolved` stand
for the three results of `expr.rs` that `graph.rs` stores.  `ResourceGraph` gives
them the definitions of `HclExpr` and states the properties that look into
expressions; TLC runs `GraphBuild` only so.  `entries`, `files`, `nodes`, `edges`, `index_of` and
`first_seen` are the locals of the two functions, `k` the structure a pass is at.
`ListDir`, `ParseFile` and `AllParsed` are the parser: listing can fail for any
directory, an entry the listing gives as an error is passed over; `NodePass` and `EdgePass`
are one iteration each of the two passes.

`Predicate` is `predicate.rs`.  The parser searches text, and what can go wrong
is that it finds something where it was not meant; a text is therefore a sequence
of pieces: the letters of operators, quotes, brackets, dots, spaces, `&&`, the
words the parser looks for, and other words and numerals as wholes.  The constant
`Piece` is this alphabet; it has to contain the symbols of the language and may
contain any words.
`SplitSource` is the check for an empty text and `split_top_level_and`,
`CompileClause` one turn of the loop of `parse` (`ParseClause`, `ParsePath`,
`ParseLiteral`), `TestClause` one turn of `all()` in `evaluate`.  `Spell` is the
grammar at the head of the file: it says how a clause is written, and the
properties compare what `parse` makes of a spelling with the clause spelt.

`Classify` is `classify.rs`.  `pc` is the pass, `at` the node it is at, `derived`
the `_derived` objects, `pending` the edge vectors that `classify` collects before
it adds any of them.  Each of `DeriveBucket`, `DeriveRoleTrust`,
`DeriveSecurityGroup`, `DeriveLambda`, `ComputeGrants`, `ComputeNetwork` and
`ComputeAttached` is one iteration of the pass of that name, and `Panic` the
`unwrap` of `set_derived` on a resource that has an attribute `_derived` of its own
which is no object.  Action strings
become pairs of service and name, with the marker lists as sets of names; of an
`attr_path` only the top attribute, the statement number and the ending are
kept, which is what the code tests it for.

`Scan` composes: `Classify` runs, its graph is turned into what the predicates of
rules can see of it (`RuleGraph`: the facts that are true, the facts of an edge,
whether a reference is in the attribute `role`), and the five rules of `rules/`
are searched by `PathSearch`, which `RuleMatcher` implements.

`ScanCli` is `main.rs`: processes that run `scan` or `debug-graph` from one
working directory while the owners of the scanned directory and of the `rules`
directories may edit them (`Edit`, at most `MaxEdits` times).  What a stage
computes is a constant here: which accounts cannot be built, on which `classify`
panics, which rulebooks are refused, on which pairs the matcher panics.  `Start` is
`main`; `BuildToScan` lines 64-65 and `BuildToShow` 28-32, `CurrentDir` and
`Search` are `find_rules_dir`, `Load` is 67-69, with the panics on a directory
that cannot be listed and a file that cannot be read, `Match` 71-77, `PrintReport`
the `println!` of line 79 and `PrintGraph` lines 34-61 of `debug_graph`.  `fs::write` is not atomic: `Open` creates or
truncates, each `Write` writes one part at the offset this process has reached,
and a write past the end of a file someone truncated leaves a hole.  `Confirm` is
the last `println!`.  `println!` panics when stdout is closed, the file
operations return errors, and `Kill` ends a process anywhere.  `disturbed` is a
history variable: the processes after whose opening of the file another one
opened or wrote it.

The modules whose names start with `MC` give the constants values for TLC, those
that end in `_proofs` hold proofs, and `SeqLemmas` the lemmas
about numbers and sequences they share.

## What TLC checks

| Run | Instance | What it shows |
|---|---|---|
| `matcher` | all graphs of two nodes and up to three edges out of six (self-loops, parallel edges, two kinds), a diamond, a three-cycle, a fan, the empty graph; eleven rule lists | types, `HopBudget`, `FindingsConform`, refinement of `PathSearch`, termination |
| `load` | every path shape up to five steps, hop bounds and totals 0..3 on one and two edge steps, directories of up to four files mixing good, bad, unreadable and other files | accepted rules alternate and can match; loading is all or nothing and the first bad file in name order decides |
| `report` | two rules of every pair of severities and four path shapes, one of them a single node, with one id or two, on four graphs with sensitive and exposed nodes; chains of up to six edges; 2048 scans | a stable worst-first permutation with counts that agree; two levels of severity outweigh everything else; chains of single hops printed whole and with the bonuses of all their nodes |
| `graph` | every pair of 14 blocks in one file and in two, with forward, backward, self, repeated and dangling references; three files each good, unreadable, garbled, not listed or with duplicates; every expression of depth three around a reference; blocks and attributes that share a name | the graph is the declaration, numbered by name, and the first fault decides; every mention of a resource in a value is an edge, and the evidence of every edge leads back to such a mention; an unflagged body is literal; embedded JSON is opened; no block is lost |
| `predicate` | every clause over seven paths, nine operators and eight literals in two spacings, pairs of clauses, 24 texts off the grammar; seventeen JSON values | what is accepted is what was written, nothing of a text is dropped, and evaluation gives it its meaning |
| `scan` | 870 graphs in seven families (`MCGraphFamilies`: buckets, inline and attached policies, networks, functions, trust policies, an attribute `_derived`), references in several orders; 372 variants of an account with all kinds of resources the built-in rules speak of; 75,916 states | facts and edges follow from attributes and references; no grant is misattributed, lost or repeated; two passes agree on open groups; an instance gets the role of its profile; each rule reports exactly the tuples of resources that attributes and references make a chain |
| `cli` | two processes, each free to scan or debug, a working directory one level below the root, four accounts, three rulebooks, one edit anywhere, reports of one and two parts; 205,783 states | an undisturbed file is a prefix of its last opener's report, a disturbed one is made of pieces in their places; exit 0 means printed and written; nothing is touched before something is printed; the nearest rules are used; every run ends |

The bounds are enough for what the properties are about.  A hop budget needs two
repeated edge steps to be shared and a cycle to be exceeded: both are in the
`matcher` instance, with totals below, at and above the sum of the steps' own
bounds.  The load run has all paths in which each window of two steps can be the
only bad one.  Six edges are past the cap of the hop penalty.  With `UsizeLimit`
at 4, two edge steps of the grid overflow.  A directory of three files is needed
for a fault to have a fault before and after it in the order of names; depth three
puts every form of expression inside and around every other.  The predicates
have a name that ends in `not` and one that is only `not`, an index after an index, `==` and `&&` inside
strings, the empty string, and texts that stop in the middle.  A policy of two
statements is needed for a grant to be attributed to the wrong one, two
attachments for a policy to be attached to two roles or twice to one, and two
users of a bucket for one to override the other.  Two processes are the fewest
that disturb each other, two parts the fewest of which one can be missing, one
edit is what it takes to remove a directory between its discovery and its
listing; the theorems about `ScanCli` have no such bounds.

Five runs are there to be violated.  Each states what a comment or the README
says and TLC shows a state of the program that disagrees:

| Run | Claim | What the code does |
|---|---|---|
| `report_ids` | severity is declared per rule (`README.md:233`) | ids are not checked to be unique and `report.rs:102` takes the first rule of an id: the finding of a mild rule is reported as critical, or the other way round |
| `report_hops` | every hop of a chain is shown (`report.rs:3`) | edges are zipped with step nodes; repeated steps lose edges and show wrong nodes |
| `graph_silent` | what is not evaluated is always visible (`README.md:285`) | a template with directives only has no `${` in it, and object keys are not looked into: such a block does not count as unresolved |
| `classify_lists` | jsonencoded policies get precise resource resolution (`README.md:289`) | `Resource = [a.arn]` is dropped altogether |
| `scan_self` | start and end of the escalation pattern are the same physical resource (`rules/iam-role-self-privilege-escalation.yaml:4`) | `bind` is never read, so two roles of which one may change the other are reported as one role's own escalation |

Disagreements between comments and code that have no run of their own:

* a bad where-clause is not caught at load time (`matcher.rs:194`): `parse_one`
  never parses it, and the scan panics later, if the search reaches the step;
* a hop budget that cannot be met is not always refused (`README.md:218`):
  `max_hops: 0` with `min_hops: 0`, or a total of 0, is accepted and never
  matches, and in release builds the sum of minimums wraps; `max_hops` may exceed
  `max_total_hops` (`matcher.rs:130`) and `min_hops` may be 0 (`matcher.rs:184`);
* the grammar of predicates (`predicate.rs:8-14`) is not all that `parse` decides
  by: an index after an index (`a[0][1]`) is in it and is refused, as are a string
  that holds an operator (`a != "p==q"`) and `not exists` of a name `not`, and
  `a.knot exists` is read as `a.k not exists` (line 129).  `ParsedAsWritten`
  names these as its exceptions, and shows that there are no others;
* a policy written as one interpolated string does not "fall back to any Resource
  reference anywhere in this policy" (`README.md:289`, `classify.rs:399`): all its
  references are collected under the path `policy`, in which `classify.rs:419`
  looks for "Resource" in vain, so such a policy grants nothing.  The fallback
  only applies to references under a `Resource` without a statement number;
* nodes inside a repeated edge step earn no bonus (`README.md:235`);
* `unresolved_node_count` counts resources, not attributes (`graph.rs:42`), and
  an interpolated text is counted but carries no `unresolved:` marker
  (`types.rs:95`);
* a grant leaves from whatever the last `role` reference leads to, role or not
  (`classify.rs:302`); the action of a Lambda permission is not read
  (`classify.rs:258`); a `"*"` under any key of `Principal` is wildcard trust
  (`classify.rs:216`), where the comment has it alone or under `AWS`
  (`classify.rs:171`), and `SingleGrants` is stated for roles without the others;
* the variants `UnterminatedString` and `EmptyPath` of the predicate error are
  never returned: an unterminated string is a bad literal.

The built-in rules use single hops, distinct ids and predicates that parse, and
the fixtures write one resource per statement, as a single string, one role with
wildcard trust and `role` as a direct reference, so none of these shows in the
repository's own test corpus.

Deadlock checking is off in every run because each program ends: its last state
has no successor.

Fairness is assumed in two places.  In `RuleMatcher` it is weak fairness of
`Next`: the matcher is one thread that runs until it returns, nothing can stop it
from taking its next step, and `Termination` says the steps come to an end.  In
`ScanCli` it is weak fairness of `Step(p)` for each process: the operating system
runs a process that can go on, no stage waits for another process, and the calls
that can fail return.  Starting, being killed and edits are not fair: they need
not happen.  `EveryRunEnds` says that whatever started ends, whoever edits the
directories and whatever the other process does.

## What is proved

Eight modules hold proofs: seven about the components and one with the lemmas
they share.  They assume only the `ASSUME`s of the modules they are about, which
TLC checks on each instance.

| Module | Theorems |
|---|---|
| `RuleMatcher_proofs` | `TypeCorrect`, `HopBudgetHolds`, `FindingsSound`, `MatcherImplementsSearch` |
| `RuleLoad_proofs` | `TypeCorrect`, `LoadedRulesAlternate`, `LoadInvariance`, `LoadDecidedByFirstBadFile`, `LoadedRulesCanMatch` |
| `GraphBuild_proofs` | `GraphInvariance`, `GraphTypes`, `GraphDeclared`, `GraphFirstFault` |
| `Predicate_proofs` | `PredicateInvariance`, `PredicateTypes`, `PredicateEvaluates`, `PredicateNothingIgnored`, `PredicateParsed` |
| `Classify_proofs` | `ClassifyInvariance`, `ClassifyTypes`, `ClassifyFacts`, `ClassifyGrants`, `ClassifyNetwork`, `ClassifyAttached`; of `Scan`: `ScanInvariance`, `ScanChains`, `ScanGrants` |
| `Report_proofs` | `TypeCorrect`, `SortedWorstFirst`, `SeverityDominates`, `SingleHopsPrinted`, `BonusesExact` |
| `ScanCli_proofs` | `TypeCorrect`, `FilePrefix`, `PiecesInPlace`, `SuccessWritten`, `StaleUntilPrinted`, `NearestFound` |
| `SeqLemmas` | lemmas only |

`SeqLemmas` is where induction comes from.  The induction theorems of the library
take a predicate as a parameter, which the provers cannot instantiate; that every
non-empty set of numbers has a least member, stated for a set, they can
(`LeastNat`, `InductionUpTo`), and a property of all numbers up to n becomes the
set of numbers that have it.  From it follow what `FlattenSeq` returns, at which
place of it each part lies (`FlattenPlaces`), that it turns concatenation into
concatenation (`FlattenConcat`), and `Count`, the number of places of a sequence that hold a member of a set: it adds
up over concatenation (`CountConcat`) and over the parts of a flattened sequence
(`CountFlatten`).

### The matcher

`RuleMatcher_proofs`, for every graph and every list of rules in which edges run
between nodes of the graph and paths alternate:

- `TypeCorrect`: `Spec => []TypeOK`, types and index ranges.
- `HopBudgetHolds`: `Spec => []HopBudget`.
- `FindingsSound`: `Spec => []FindingsConform`.

Neither of the last two is inductive.  The inductive invariant `IInv` says what
each loop has established so far: every entry of `frontier` is a partial match
of the first `si - 1` pairs (`PartialOK`: its edges can be cut into those steps,
its ids are the nodes at the cuts, its hop count is the number of edges and
within the total), every entry of `next_frontier` one of the first `si` pairs,
the trail and every collected result is a connected chain of edges the edge step
accepts, no longer than the walk's bound (`ChainOK`).  The lemma that carries
the argument is `ExtendSatisfies`: adding a non-empty chain of one edge step to
a partial match of j pairs gives one of j + 1.  The bound of a walk is at most
what the total leaves (`EffectiveMaxFacts`), which is why the budget holds for
the extended match.

`MatcherImplementsSearch` says that every behaviour of the
matcher is, with `findings`, `ri` and the panic seen through the mapping, one of
`PathSearch`.  The steps inside a rule are stutters, and `EmitFindings` has to
produce exactly the bag of the rule's walks: soundness, completeness and how
often a chain is reported at once.  So the invariant `CInv` numbers what the
matcher holds.

- `FrontierComplete`: there is a bijection from the positions of `frontier` to
  the walks over the pairs handled so far.
- `ResultsComplete`: no chain is collected twice, and a chain has been collected
  if and only if it is one of the walk's chains and the walk has pushed it.  What
  has been pushed is decided by the order in which a depth-first walk visits
  chains (`Seen`): those it stands on an extension of, and those that, where they
  first differ from the trail, take an edge the loop has already been at.
- `NextComplete`: `next_frontier` stands in the same way for the extensions
  looked at, pairs of a partial match and a chain.
- `PredicatesParse`: no malformed predicate has been met, which ties the panic of
  the matcher to that of `PathSearch`.

A walk over one pair more is a walk over the pairs before it with one chain, in
exactly one way, so the numbering of extensions is a numbering of the longer
walks when the pair ends.  That `Trails`, the chains of a length in
`Walks`, are those `ChainOK` describes is an induction over the length.

### Rule loading

`RuleLoad_proofs`, for every set of directories whose files have distinct names,
rules of any length and any width of `usize`:

- `TypeCorrect`: `Spec => []TypeOK`; the running sum of hops stays in `usize`.
- `LoadedRulesAlternate`: `Spec => []LoadedAlternates`, which is what the
  `unreachable!` arms of the matcher rely on and what `RuleMatcher` assumes of
  its rules.
- `LoadDecidedByFirstBadFile`: `Spec => []FirstBadFileDecides`.
- `LoadedRulesCanMatch`: `Spec => []LoadedCanMatch`.

The loop over windows only compares neighbours, so `LoadedAlternates` needs an
invariant that ties windows to places: `WindowsOK` adds that the path starts and
ends with a node and that up to the window at `pos` the tags follow the parity of
their places (`TakesTurns`).  When the windows are done this covers the path, and
`TurnsAlternate` turns parity into the pairs of the matcher.  The last two rest on
`LoadInv`: the entries are the rule files in name order (`Listing`), each file
before the one at hand gave its rule and has no fault (`Progress`), the checks the
rule at hand has passed are passed and `min_required` is the sum of the minimum
hops so far (`Current`), and a load that stopped did so for the fault of the file
it was at (`Stopped`).  The sum is a recursive function, so a lemma first shows
that the function its definition chooses exists; that hop counts equal to the
minimums meet the total is then one more sum.  Both properties exclude sums that
leave `usize`: the code does not keep them there.

### The graph

`GraphBuild_proofs`, for every directory with finitely many entries of distinct
names, and whatever the expressions of a body come to, as long as each reference
has a path (`BodyAssumption`: it is collected under the attribute or block it
stands in):

- `GraphTypes` (`TypeOK`), `GraphDeclared` (`GraphIsDeclaration`) and
  `GraphFirstFault` (`FirstFaultDecides`), each as `Spec => []...`.

The two passes go over the structures of all files in one row, so the invariant
`GInv` numbers structures.  `NodesOK`: the nodes are those of the resource blocks
among the structures gone by, numbered in their order, and `index_of` and
`first_seen` know exactly their addresses.  `EdgesOK`: every edge is that of a
reference gone by, in the order of the sources, and there are as many edges alike
as the block has references alike, self-references and unknown targets apart
(`EdgesOfBlock`); that equal counts are equal cardinalities is `SameSize`.  `FailedParsing` and `FailedTwice` name the file or
the two blocks a failure is about.  The properties speak of files and blocks;
`FlattenPlaces` says at which block of which file each number stands, and that
the order of numbers is the order of files, then of blocks (`BlocksInOrder`).

### Predicates

`Predicate_proofs`, for any alphabet of texts that holds the symbols of the
language, and any JSON values:

- `PredicateTypes`: `Spec => []TypeOK`.  Places found in a text are places in it,
  so what is cut out at them is a text, so what `ParseSegment`, `ParsePath`,
  `ParseLiteral` and `ParseClause` make of it are segments, paths, literals and
  clauses, with a literal exactly where the operator takes one.
- `PredicateEvaluates`: `Spec => []EvaluatesAsWritten`.  `Resolve` stays within the
  value it starts from, by induction along the path, so what it finds is absent
  or a value of one of the six kinds; on these the operators are compared case by
  case.  That the verdict is that of all clauses needs the invariant `Tested`:
  the first `held` clauses hold, and a verdict "false" names a clause that does not.
- `PredicateNothingIgnored`: `Spec => []NothingIgnored`.  The invariant is that the
  clauses compiled so far are those of the parts in order (`FromParts`).  Then each
  function of the parser, written back, has to be the text it was given, up to
  what a compiled clause does not keep: spaces, dots before an index, and the
  writing of a number.  What `Ink` leaves of a text depends on what stands around
  it (a dot is before an index or not), so the relation that carries the argument
  is `Same(s, t)`: written between any two other texts, s and t leave the same
  ink.  It is a congruence of concatenation (`SameConcat`), relates a text to
  itself trimmed (`SameTrim`), `.[` to `[` (`SameDotIndex`) and two numerals of one
  number (`SameNumeral`).  Cutting a text at separators and writing the parts one
  after the other with the separators between gives the text (`SplitRejoins`), for
  the dots of a path and for the `&&` of a predicate; so the relation goes up from
  segments (`SegmentSame`) over paths, literals and clauses (`PathSame`,
  `LiteralSame`, `ClauseSame`) to the conjunction (`AllSame`).  Dots before an index
  belong to what is forgotten because `parse_path` skips the empty field before
  a bracket: it reads `a..[0] exists` as `a.[0] exists`.
- `PredicateParsed`: `Spec => []ParsedAsWritten`, the other direction: what was
  written is what is parsed, with the exceptions the property names and no others.
  It assumes of what an author writes what the grammar says of it
  (`WrittenAssumption`: identifiers hold none of the marks of the language, but may
  hold its words; string literals hold no quote and anything else; spacing is of
  spaces), and that what stands for absence is no clause (`MissingAssumption`).
  `FromParts` is the invariant again, here with what it says of a rejected text: its
  next part is no clause.  The rest is about what each search of the parser finds in
  a spelling.  The dots and brackets of a spelt path are those between its segments,
  so `ParsePath` reads it back unless an index follows an index (`Reads`).  The places
  of an operator text in a clause are its own or lie within the string literal
  (`OpPlaces`); that `Ops` is searched in this order settles which of `>`, `>=`, `=` is
  found, and the clause cut there is the clause written.  A clause of a word
  (`WordClause`) ends in `exists`, and in `not exists` only if it says so or its path
  ends in "not"; then the path that is left lacks that word (`TruncatedParsed`), which
  is refused when nothing is left.  Together this is `ReadsBack`, clause by clause.
  Finally, every clause holds both quotes of its string and no `&&` outside
  (`Neat`), so the top-level `&&` of a conjunction are those between its clauses, by
  induction over the clauses (`CutInto`).

### Classification

`Classify_proofs`, for every graph that `build_graph` can leave
(`GraphsAssumption`: references between different nodes of the graph):

- `ClassifyTypes` (`TypeOK`), `ClassifyFacts` (`FactsAsDeclared`),
  `ClassifyGrants` (`GrantsAsWritten`), `ClassifyNetwork` (`ReachableIffOpen`) and
  `ClassifyAttached` (`AttachedThroughProfile`), each as `Spec => []...`.

The properties speak of the graph after the last pass, and all but the first part
of `GrantsAsWritten` say nothing before it, so the invariant `IInv` has to say
what each pass leaves, as long as no fact pass has panicked (`Going`; after a panic
there are no semantic edges).  That can be said of each node as a function of the nodes
and references alone, which no step changes: a node has its facts
once its pass is through with it and none before (`FactsSoFar`); every pending
edge is one the code may add (`Sound`); and for any two ends (and for grants any
statement) as many edges are pending as the references call for once the pass is
through with the node they are computed at, and none before (`GrantsCounted`,
`ReachesCounted`, `AttachedCounted`).  `Merged` says that the edges of the graph
are the references with the pending edges added so far behind them, so that in
the end the counts of pending edges are the cardinalities the properties speak
of.  What a step adds is a flattened sequence, over the statements of a policy and
its attachments, or over the groups of an instance and their open rules; the count
of a flattened sequence is the sum of the counts of its parts, and all parts that
matter count the same: that sum is the product in the properties.

### The scan

`Classify_proofs` also proves, for every graph that `build_graph` can leave:

- `ScanInvariance`: classification is over before the first rule runs, and what is
  found is what the rules that have run find (`ScanInv`).
- `ScanChains` (`LongChainsAsWritten`) and `ScanGrants` (`SingleGrants`): each of
  the five rules reports exactly the tuples of resources of which the files say
  what the rule is about.

Both are stated under `WrittenPlainly`: an argument that takes one resource names
one, and what a policy says of a resource is a reference of its own in the
`Resource` of a statement.  `SingleGrants` adds `TrustsPlainly`: in a trust policy
"*" stands alone or under `AWS`.  Of the escalation rule it says which roles are
reported with themselves, and nothing of the pairs of roles that the rule also
reports and should not (`scan_self`).  Where the code reads a file that is not plain, it does
something else (the last of two roles counts, a list of resources is dropped), and
the findings above say so; under the hypothesis the facts and edges that the
invariant of `Classify` gives can be translated into attributes and references.
The built-in rules have single hops, so a walk that satisfies one is a row of nodes
in which each is joined to the next by an edge of the step; the lemmas about
`Walks` turn the one into the other, and the rest is one equivalence per edge kind
and per fact.

### Report and command line

`Report_proofs`, for any rules and any number of findings of chains of any
length, each of which satisfies a loaded rule of its id (what `FindingsSound`
proves of the matcher):

- `TypeCorrect`, `SortedWorstFirst` (`WorstFirst`), `SeverityDominates`
  (`TwoLevelsApartInOrder`),
  `SingleHopsPrinted` (`SingleHopChainsRendered`) and `BonusesExact`
  (`BonusesOfWholeChain`), each as `Spec => []...`.

What a report says is settled when it is built, so `IInv` only keeps that every
report is `FindingReport` of its finding (`ReportsOK`), that after the sort they
are in order and all there (`SortedOK`), that the counts are those of the reports
counted so far (`CountsOK`) and that what is printed is what is to be printed
(`RenderedOK`).  Three lemmas carry the argument.  `Placing`: `PlaceOf` counts
what comes before a report in a strict total order, so it is injective from
places to places and, the places being finite, reaches each of them.
`ScoreBounds`: whatever bonuses, penalty and clamp do, a score is at most 20 below
and 18 above its severity's base, and two levels are 40 apart.  `SingleHopChain`:
when no edge step may be repeated, cut after cut grows by one, so the nodes of a
finding are the ends of its edges one by one.  The smallest index at which a cut
would differ takes the place of an induction (`LeastElement`).

`ScanCli_proofs`, for any number of processes, any depth of the working
directory, any number of edits and reports of any number of parts:

- `TypeCorrect`, `FilePrefix` (`UndisturbedFileIsPrefix`), `PiecesInPlace`
  (`PartsInPlace`), `SuccessWritten` (`SuccessMeansWritten`), `StaleUntilPrinted` (`OldUntilPrinted`) and
  `NearestFound` (`NearestRules`), each as `Spec => []...`.

`IInv` adds to the three properties of the file what each place in the program
knows: `StageOK`,
that a stage is entered only with the results of those before it, that nothing
is opened before it is printed and how many parts are written when; and
`SearchOK`, that every level the search has left had no `rules` directory.

### What stays with TLC

- Liveness (`Termination`, `EveryRunEnds`): it needs fairness and ENABLED, which
  the prover does not handle.
- The five properties of `ResourceGraph` (`EveryReferenceIsEdge`, `EvidenceLeadsBack`,
  `UnflaggedIsLiteral`, `EmbeddedJsonOpened`, `BlocksKept`): they are about the
  functions of `HclExpr`, which are recursive over expressions.  What they compute
  for every expression is an induction over data, and a module that reaches a
  RECURSIVE operator loses the arithmetic backend.  This is why `GraphBuild` has
  their results as parameters.

## What is not modelled

* HCL syntax, JSON and YAML texts, and the wording of messages and reports: the
  libraries `hcl-rs`, `serde_json`, `serde_yaml` and formatting.  How a text is
  rendered matters in two places, both by what the code looks for in it: `${` in a
  template, and object keys that are expressions, whose text is never a plain
  name.
* Numbers of predicates are small integers; the literals `inf`, `nan` and
  fractions that Rust's `f64` parser takes as well are left out.
* In `Classify`, `Scan` and the matcher a node holds facts instead of JSON.  That a
  clause holds of a node is decided by `Predicate` on JSON values of its own; the
  two are not composed: every predicate in `rules/` is one comparison of a fact or
  of `attr_path` with a literal.
* In `ScanCli` a stage reads its directory in one step; an edit during the
  listing of one directory is left out.
* `types.rs`: the table from Terraform types to kinds is a match without state.
  Kinds that no pass reads (`S3BucketPolicy`, `SecurityGroupRule`) are `Other`;
  `IamTrust` edges are declared there and created nowhere.
* The test code and the Terraform corpora: single instances of what the runs
  enumerate, read as documentation of intent.

## Plan

Everything planned for modelling is done.  What would add most next, in order:

1. That accepted rules are rules the matcher assumes, and its findings what the
   report assumes, as theorems that compose the modules.
2. Composing `Predicate` with `Classify`: attributes as JSON values, and the
   predicates of `rules/` evaluated on them, in place of sets of facts.
3. `ScanCli` with directories that are edited while a stage lists them.
