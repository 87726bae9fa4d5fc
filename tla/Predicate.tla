----------------------------- MODULE Predicate -----------------------------
(***************************************************************************)
(* The where-predicates of the rule language,                              *)
(* policylens-rules/src/predicate.rs: parse, one clause at a time, and     *)
(* evaluate, one clause at a time on one JSON value.                       *)
(*                                                                         *)
(* The parser works on text, and what can go wrong in it is that a search  *)
(* for some text finds it where it was not meant.  A text is a sequence of *)
(* pieces here: the letters of the operators, quotes, brackets, dots,      *)
(* spaces and `&&`, the words the parser looks for, and other words and    *)
(* numerals as wholes.  An identifier is a sequence of words: the one that *)
(* ends in the letters "not" is <<"k", "not">>.                            *)
(*                                                                         *)
(* Module RuleModel takes a predicate as a set of clauses and a node as    *)
(* the set of those that hold; here is what that leaves out.               *)
(***************************************************************************)
EXTENDS Integers, Sequences, FiniteSets, SequencesExt, FiniteSetsExt

CONSTANTS
    Piece,      \* what texts are made of
    Inputs,     \* predicates as their author meant them, and how they are
                \*   spaced; for a text that is no predicate, the text
    Values,     \* JSON values to evaluate on
    NumberOf,   \* the numbers that numerals stand for
    Missing     \* what is not there

Quote == "\""
Space == " "

Numeral == DOMAIN NumberOf
Spelled == {NumberOf[n] : n \in Numeral}

(* What the parser looks for by name.                                      *)
Symbols ==
    {Quote, Space, ".", "[", "]", "&&", "=", "!", "<", ">", "contains", "exists", "not", "true",
     "false"}

ASSUME PieceAssumption == Symbols \subseteq Piece
ASSUME NumeralAssumption ==
    Numeral \subseteq Piece /\ Numeral \cap Symbols = {} /\ Spelled \subseteq Nat

-----------------------------------------------------------------------------
(* Clauses.                                                                *)

Field(name) == [seg |-> "field", name |-> name]
Index(i) == [seg |-> "index", at |-> i]

Op == {"Eq", "Ne", "Gt", "Ge", "Lt", "Le", "Contains", "Exists", "NotExists"}

Bool(b) == [tag |-> "bool", bool |-> b]
Number(n) == [tag |-> "num", num |-> n]
String(s) == [tag |-> "str", chars |-> s]

Clause(path, op, literal) == [path |-> path, op |-> op, literal |-> literal]

Segment == [seg : {"field"}, name : Seq(Piece)] \cup [seg : {"index"}, at : Spelled]
Literal == [tag : {"bool"}, bool : BOOLEAN] \cup [tag : {"num"}, num : Spelled]
               \cup [tag : {"str"}, chars : Seq(Piece)]
NoLiteral == {"Exists", "NotExists"}
ClauseText == [path : Seq(Segment), op : Op, literal : Literal \cup {Missing}]

(* What is not there is no path, no literal and no clause.                 *)
ASSUME MissingAssumption ==
    Missing \notin Seq(Segment) /\ Missing \notin Literal /\ Missing \notin ClauseText

ASSUME InputsAssumption ==
    \A in \in Inputs :
        /\ in.text \in Seq(Piece) /\ in.gap \in Seq(Piece)
        /\ in.written \in Seq(ClauseText)
        /\ \A i \in 1..Len(in.written) :
              in.written[i].op \in NoLiteral <=> in.written[i].literal = Missing

(* What an author writes is by the grammar: identifiers hold none of the   *)
(* marks of the language (but may hold its words), string literals no      *)
(* quote, and spacing is of spaces.                                        *)
Marks == {Quote, Space, ".", "[", "]", "&&", "=", "!", "<", ">"}
Identifier == {name \in Seq(Piece) : name # <<>> /\ \A i \in 1..Len(name) : name[i] \notin Marks}

WellWritten(clause) ==
    /\ clause.path # <<>> /\ clause.path[1].seg = "field"
    /\ \A i \in 1..Len(clause.path) : clause.path[i].seg = "field" => clause.path[i].name \in Identifier
    /\ clause.op \notin NoLiteral /\ clause.literal.tag = "str" =>
          \A i \in 1..Len(clause.literal.chars) : clause.literal.chars[i] # Quote

ASSUME WrittenAssumption ==
    \A in \in Inputs :
        /\ \A i \in 1..Len(in.gap) : in.gap[i] = Space
        /\ \A i \in 1..Len(in.written) : WellWritten(in.written[i])

(* A part of a value is a value.  What is read as a number is an integer.  *)
ASSUME ValuesAssumption ==
    /\ Missing \notin Values
    /\ \A v \in Values :
          /\ v.tag \in {"null", "bool", "num", "str", "arr", "obj"}
          /\ v.tag = "num" => v.num \in Int /\ v = Number(v.num)
          /\ v.tag = "arr" => v.items \in Seq(Values)
          /\ v.tag = "obj" => \A name \in DOMAIN v.map : v.map[name] \in Values

-----------------------------------------------------------------------------
(* Searching a text, as the methods of str do.                             *)

PlacesOf(t, s) == {i \in 1..(Len(s) - Len(t) + 1) : SubSeq(s, i, i + Len(t) - 1) = t}

Trim(s) ==
    LET inked == {i \in 1..Len(s) : s[i] # Space}
    IN  IF inked = {} THEN <<>> ELSE SubSeq(s, Min(inked), Max(inked))

(* The text between the places in `cuts`, which fall away.                 *)
Split(s, cuts) ==
    LET n == Cardinality(cuts)
        Cut(i) == CHOOSE c \in cuts : Cardinality({d \in cuts : d <= c}) = i
    IN  [i \in 1..(n + 1) |->
            SubSeq(s, IF i = 1 THEN 1 ELSE Cut(i - 1) + 1, IF i > n THEN Len(s) ELSE Cut(i) - 1)]

StripSuffix(s, suffix) == SubSeq(s, 1, Len(s) - Len(suffix))

-----------------------------------------------------------------------------
(* parse.                                                                  *)

(* split_top_level_and is inside a string after an odd number of quotes.   *)
TopLevelAnds(s) ==
    {i \in 1..Len(s) : s[i] = "&&" /\ Cardinality({j \in 1..i : s[j] = Quote}) % 2 = 0}

(* One part of a path between dots: a field, or an index with or without   *)
(* one.                                                                    *)
ParseSegment(raw) ==
    IF raw = <<>> \/ Last(raw) # "]" THEN <<Field(raw)>>
    ELSE LET open == PlacesOf(<<"[">>, raw)
             index == SubSeq(raw, Min(open) + 1, Len(raw) - 1)
         IN  IF open = {} THEN Missing
             ELSE IF Len(index) # 1 \/ index[1] \notin Numeral THEN Missing
             ELSE (IF Min(open) = 1 THEN <<>> ELSE <<Field(SubSeq(raw, 1, Min(open) - 1))>>)
                  \o <<Index(NumberOf[index[1]])>>

Segments(s) ==
    LET raws == Split(s, {i \in 1..Len(s) : s[i] = "."})
    IN  [i \in 1..Len(raws) |-> ParseSegment(raws[i])]

ParsePath(s) ==
    IF s = <<>> \/ Missing \in ToSet(Segments(s)) THEN Missing ELSE FlattenSeq(Segments(s))

ParseLiteralUnterminated(s) ==
    IF s = <<"true">> THEN Bool(TRUE)
    ELSE IF s = <<"false">> THEN Bool(FALSE)
    ELSE IF s # <<>> /\ s[1] = Quote
         THEN String(SubSeq(s, 2, Len(s) - (IF Last(s) = Quote THEN 1 ELSE 0)))
    ELSE IF Len(s) = 1 /\ s[1] \in Numeral THEN Number(NumberOf[s[1]])
    ELSE Missing
ParseLiteral(s) ==
    IF s = <<"true">> THEN Bool(TRUE)
    ELSE IF s = <<"false">> THEN Bool(FALSE)
    ELSE IF Len(s) >= 2 /\ s[1] = Quote /\ Last(s) = Quote THEN String(SubSeq(s, 2, Len(s) - 1))
    ELSE IF Len(s) = 1 /\ s[1] \in Numeral THEN Number(NumberOf[s[1]])
    ELSE Missing

(* OPS, in the order they are searched for.                                *)
Ops ==
    <<[text |-> <<"=", "=">>, op |-> "Eq"], [text |-> <<"!", "=">>, op |-> "Ne"],
      [text |-> <<">", "=">>, op |-> "Ge"], [text |-> <<"<", "=">>, op |-> "Le"],
      [text |-> <<">">>, op |-> "Gt"], [text |-> <<"<">>, op |-> "Lt"],
      [text |-> <<Space, "contains", Space>>, op |-> "Contains"]>>

(* The clause at the first place of the operator's text.                   *)
AtOperatorAnyLiteral(s, o) ==
    LET at == Min(PlacesOf(o.text, s))
        path == ParsePath(Trim(SubSeq(s, 1, at - 1)))
        literal == ParseLiteral(Trim(SubSeq(s, at + Len(o.text), Len(s))))
    IN  IF path = Missing THEN Missing ELSE Clause(path, o.op, literal)
AtOperator(s, o) ==
    LET at == Min(PlacesOf(o.text, s))
        path == ParsePath(Trim(SubSeq(s, 1, at - 1)))
        literal == ParseLiteral(Trim(SubSeq(s, at + Len(o.text), Len(s))))
    IN  IF path = Missing \/ literal = Missing THEN Missing ELSE Clause(path, o.op, literal)

WithoutLiteral(s, suffix, op) ==
    LET path == ParsePath(Trim(StripSuffix(s, suffix)))
    IN  IF path = Missing THEN Missing ELSE Clause(path, op, Missing)

ParseClauseExistsFirst(s) ==
    IF IsSuffix(<<"exists">>, s) THEN WithoutLiteral(s, <<"exists">>, "Exists")
    ELSE IF IsSuffix(<<"not", Space, "exists">>, s)
    THEN WithoutLiteral(s, <<"not", Space, "exists">>, "NotExists")
    ELSE LET o == SelectInSeq(Ops, LAMBDA x : PlacesOf(x.text, s) # {})
         IN  IF o = 0 THEN Missing ELSE AtOperator(s, Ops[o])
ParseClause(s) ==
    IF IsSuffix(<<"not", Space, "exists">>, s)
    THEN WithoutLiteral(s, <<"not", Space, "exists">>, "NotExists")
    ELSE IF IsSuffix(<<"exists">>, s) THEN WithoutLiteral(s, <<"exists">>, "Exists")
    ELSE LET o == SelectInSeq(Ops, LAMBDA x : PlacesOf(x.text, s) # {})
         IN  IF o = 0 THEN Missing ELSE AtOperator(s, Ops[o])

-----------------------------------------------------------------------------
(* evaluate.                                                               *)

Get(value, segment) ==
    IF value = Missing THEN Missing
    ELSE IF segment.seg = "field" /\ value.tag = "obj" /\ segment.name \in DOMAIN value.map
         THEN value.map[segment.name]
         ELSE IF segment.seg = "index" /\ value.tag = "arr" /\ segment.at < Len(value.items)
              THEN value.items[segment.at + 1] ELSE Missing

Resolve(root, path) ==
    LET at[i \in 0..Len(path)] == IF i = 0 THEN root ELSE Get(at[i - 1], path[i])
    IN  at[Len(path)]

ValueEqLiteral(value, literal) ==
    value.tag \in {"bool", "str", "num"} /\ value = literal

Ordered(op, a, b) ==
    CASE op = "Gt" -> a > b [] op = "Ge" -> a >= b [] op = "Lt" -> a < b [] op = "Le" -> a <= b

ContainsLiteral(value, literal) ==
    CASE value.tag = "arr" -> \E i \in 1..Len(value.items) : ValueEqLiteral(value.items[i], literal)
      [] value.tag = "str" /\ literal.tag = "str" -> PlacesOf(literal.chars, value.chars) # {}
      [] OTHER -> FALSE

Compare(op, value, literal) ==
    CASE op = "Contains" -> ContainsLiteral(value, literal)
      [] op = "Eq" -> ValueEqLiteral(value, literal)
      [] op = "Ne" -> ~ValueEqLiteral(value, literal)
      [] op \in {"Gt", "Ge", "Lt", "Le"} ->
            value.tag = "num" /\ literal.tag = "num" /\ Ordered(op, value.num, literal.num)

NeOnMissing(clause, root) ==
    LET found == Resolve(root, clause.path)
    IN  CASE clause.op = "Exists" -> found # Missing
          [] clause.op = "NotExists" -> found = Missing
          [] OTHER -> IF found = Missing THEN clause.op = "Ne"
                      ELSE Compare(clause.op, found, clause.literal)
EvaluateClause(clause, root) ==
    LET found == Resolve(root, clause.path)
    IN  CASE clause.op = "Exists" -> found # Missing
          [] clause.op = "NotExists" -> found = Missing
          [] OTHER -> found # Missing /\ Compare(clause.op, found, clause.literal)

-----------------------------------------------------------------------------
(* The grammar at the head of the file: how a clause is written.  The      *)
(* spaces around operators may be left out; those around words may not.    *)

SpellPath(path) ==
    FlattenSeq([i \in 1..Len(path) |->
        IF path[i].seg = "index"
        THEN <<"[", CHOOSE n \in Numeral : NumberOf[n] = path[i].at, "]">>
        ELSE (IF i = 1 THEN <<>> ELSE <<".">>) \o path[i].name])

SpellLiteral(literal) ==
    CASE literal.tag = "bool" -> IF literal.bool THEN <<"true">> ELSE <<"false">>
      [] literal.tag = "str" -> <<Quote>> \o literal.chars \o <<Quote>>
      [] literal.tag = "num" -> <<CHOOSE n \in Numeral : NumberOf[n] = literal.num>>

Sign == [Eq |-> <<"=", "=">>, Ne |-> <<"!", "=">>, Gt |-> <<">">>, Ge |-> <<">", "=">>,
         Lt |-> <<"<">>, Le |-> <<"<", "=">>]

Spell(clause, gap) ==
    SpellPath(clause.path) \o
    CASE clause.op = "Exists" -> <<Space, "exists">>
      [] clause.op = "NotExists" -> <<Space, "not", Space, "exists">>
      [] clause.op = "Contains" -> <<Space, "contains", Space>> \o SpellLiteral(clause.literal)
      [] OTHER -> gap \o Sign[clause.op] \o gap \o SpellLiteral(clause.literal)

SpellAll(clauses, gap) ==
    FlattenSeq([i \in 1..Len(clauses) |->
        (IF i = 1 THEN <<>> ELSE gap \o <<"&&">> \o gap) \o Spell(clauses[i], gap)])

SourceOf(in) ==
    IF in.written = <<>> THEN in.text ELSE SpellAll(in.written, in.gap)

-----------------------------------------------------------------------------
VARIABLES
    input,      \* the predicate given to parse
    pc,         \* "split", "clauses", "parsed", "rejected", "evaluate",
                \*   and the verdicts "true" and "false"
    parts,      \* what split_top_level_and returned
    compiled,   \* the clauses parsed so far
    subject,    \* the value evaluate runs on
    held        \* how many clauses all() has found to hold

vars == <<input, pc, parts, compiled, subject, held>>

Init ==
    /\ input \in Inputs
    /\ pc = "split" /\ parts = <<>> /\ compiled = <<>>
    /\ subject = Missing /\ held = 0

SplitSource ==
    LET trimmed == Trim(SourceOf(input))
    IN  /\ pc = "split"
        /\ IF trimmed = <<>>
           THEN pc' = "rejected" /\ UNCHANGED parts
           ELSE pc' = "clauses" /\ parts' = Split(trimmed, TopLevelAnds(trimmed))
        /\ UNCHANGED <<input, compiled, subject, held>>

(* One turn of parse's loop; the first bad clause ends it.                 *)
CompileClause ==
    LET clause == ParseClause(Trim(parts[Len(compiled) + 1]))
    IN  /\ pc = "clauses" /\ Len(compiled) < Len(parts)
        /\ IF clause = Missing
           THEN pc' = "rejected" /\ UNCHANGED compiled
           ELSE UNCHANGED pc /\ compiled' = Append(compiled, clause)
        /\ UNCHANGED <<input, parts, subject, held>>

Parsed ==
    /\ pc = "clauses" /\ Len(compiled) = Len(parts)
    /\ pc' = "parsed"
    /\ UNCHANGED <<input, parts, compiled, subject, held>>

Evaluate ==
    /\ pc = "parsed"
    /\ \E value \in Values : subject' = value
    /\ pc' = "evaluate"
    /\ UNCHANGED <<input, parts, compiled, held>>

(* One turn of all(): the first clause that does not hold ends it.         *)
TestClause ==
    /\ pc = "evaluate"
    /\ IF held = Len(compiled) THEN pc' = "true" /\ UNCHANGED held
       ELSE IF EvaluateClause(compiled[held + 1], subject) THEN UNCHANGED pc /\ held' = held + 1
       ELSE pc' = "false" /\ UNCHANGED held
    /\ UNCHANGED <<input, parts, compiled, subject>>

Next == SplitSource \/ CompileClause \/ Parsed \/ Evaluate \/ TestClause

Spec == Init /\ [][Next]_vars

-----------------------------------------------------------------------------
(* Properties.                                                             *)

Accepted == pc \in {"parsed", "evaluate", "true", "false"}

(* Every clause of a Predicate has a path of fields and indices, an        *)
(* operator of the enumeration, and a literal exactly when the operator    *)
(* takes one.                                                              *)
TypeOK ==
    /\ input \in Inputs /\ subject \in Values \cup {Missing}
    /\ pc \in {"split", "clauses", "parsed", "rejected", "evaluate", "true", "false"}
    /\ held \in 0..Len(compiled) /\ Len(compiled) <= Len(parts)
    /\ parts \in Seq(Seq(Piece)) /\ compiled \in Seq(ClauseText)
    /\ \A i \in 1..Len(compiled) :
          compiled[i].literal = Missing <=> compiled[i].op \in NoLiteral

(* What the text searches of the parser cannot tell from an operator: a    *)
(* name that ends in "not" before `exists`, which leaves nothing of a path *)
(* that is only "not"; the letters of another operator inside a string     *)
(* literal; and what parse_path refuses, a second index on a field.        *)
EndsInNot(clause) ==
    /\ clause.op = "Exists"
    /\ Last(clause.path).seg = "field" /\ Last(Last(clause.path).name) = "not"
IsOnlyNot(clause) == clause.op = "Exists" /\ clause.path = <<Field(<<"not">>)>>
HoldsOperator(clause) ==
    /\ clause.op \notin NoLiteral /\ clause.literal.tag = "str"
    /\ \E o \in ToSet(Ops) : PlacesOf(o.text, clause.literal.chars) # {}
IndexOnIndex(clause) ==
    \E i \in 2..Len(clause.path) : clause.path[i - 1].seg = "index" /\ clause.path[i].seg = "index"

(* A predicate of the grammar, in either spacing and with `&&` in its      *)
(* strings too, is refused only if a string literal holds an operator, an  *)
(* index follows an index or a path before `exists` is only "not"; and it  *)
(* compiled to the clauses that were written unless a name ends in "not"   *)
(* before `exists`: there is no other way to be misread.                   *)
ParsedAsWritten ==
    input.written # <<>> =>
        /\ pc = "rejected" =>
              \E c \in ToSet(input.written) : HoldsOperator(c) \/ IndexOnIndex(c) \/ IsOnlyNot(c)
        /\ Accepted /\ (\A c \in ToSet(input.written) : ~EndsInNot(c)) => compiled = input.written

(* A compiled clause does not keep how many dots there were before an      *)
(* index, nor which numeral a number was written with.                     *)
BeforeIndex(s, i) ==
    \E j \in (i + 1)..Len(s) : s[j] = "[" /\ \A k \in i..(j - 1) : s[k] \in {Space, "."}

Mark(piece) ==
    IF piece \in Numeral THEN CHOOSE n \in Numeral : NumberOf[n] = NumberOf[piece] ELSE piece

Ink(s) ==
    FlattenSeq([i \in 1..Len(s) |->
        IF s[i] = Space \/ (s[i] = "." /\ BeforeIndex(s, i)) THEN <<>> ELSE <<Mark(s[i])>>])

(* Written back, what parse accepted is the text it was given, up to       *)
(* spaces, dots before an index and the writing of a number: whatever the  *)
(* text, no part of it is dropped, and no quote is taken as closed that is *)
(* not.                                                                    *)
NothingIgnored ==
    pc = "parsed" => Ink(SpellAll(compiled, <<>>)) = Ink(SourceOf(input))

Comparisons == {"Eq", "Ne", "Gt", "Ge", "Lt", "Le"}

(* The verdict is that of all clauses as written, however all() was left;  *)
(* of `path == x`, `path != x` and `path not exists` exactly one holds of  *)
(* any value, so that no comparison holds of what is absent; and any two   *)
(* numbers are in order one way or both, > and < being that order without  *)
(* equality and with the attribute on the left, while no order holds of    *)
(* anything else, a number written as a string included.                   *)
EvaluatesAsWritten ==
    subject # Missing =>
        /\ pc \in {"true", "false"} =>
              (pc = "true" <=> \A c \in ToSet(compiled) : EvaluateClause(c, subject))
        /\ \A c \in {d \in ToSet(compiled) : d.op \in Comparisons} :
              LET Is(op) == EvaluateClause(Clause(c.path, op, c.literal), subject)
                  found == Resolve(subject, c.path)
              IN  /\ \E only \in {"Eq", "Ne", "NotExists"} :
                        \A op \in {"Eq", "Ne", "NotExists"} : Is(op) <=> op = only
                  /\ Is("Gt") <=> Is("Ge") /\ ~Is("Eq")
                  /\ Is("Lt") <=> Is("Le") /\ ~Is("Eq")
                  /\ Is("Gt") => found.num > c.literal.num
                  /\ Is("Lt") => found.num < c.literal.num
                  /\ Is("Ge") \/ Is("Le")
                        <=> c.literal.tag = "num" /\ found # Missing /\ found.tag = "num"

=============================================================================
