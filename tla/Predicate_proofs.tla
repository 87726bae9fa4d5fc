-------------------------- MODULE Predicate_proofs --------------------------
(***************************************************************************)
(* Proofs about Predicate: for any texts over any words, and for any JSON  *)
(* values, parse yields clauses of the rule language, with a literal where *)
(* the operator takes one, and evaluate gives them their meaning.          *)
(*                                                                         *)
(* The types go through the parser function by function: places found in a *)
(* text are places in it, so what is cut out at them is a text, so what    *)
(* ParseSegment, ParsePath and ParseLiteral make of it are segments, paths *)
(* and literals.  Resolve stays within the value it starts from, by        *)
(* induction along the path; the invariant Tested says which clauses all() *)
(* has found to hold when it stops.                                        *)
(*                                                                         *)
(* That nothing of a text is ignored goes by a relation on texts: Same     *)
(* relates two that Ink cannot tell apart wherever they are written.  It   *)
(* is kept by concatenation, relates a text to itself trimmed, a dot       *)
(* before an index to no dot and two writings of a number; so every        *)
(* function of the parser, written back, is the Same as the text it was    *)
(* given, from segments up to the conjunction of all clauses.              *)
(*                                                                         *)
(* That what was written is what is parsed goes the other way, from what   *)
(* Spell writes to what each search of the parser finds in it: the dots of *)
(* a path are those between its segments (Reads), an operator is found at  *)
(* its own place or within the string literal (OpPlaces), `exists` is      *)
(* taken for `not exists` behind a name that ends in "not" (WordClause),   *)
(* and the top-level `&&` are those between clauses, since every clause    *)
(* has both quotes of its string (Neat).  By clause that is ReadsBack; for *)
(* all of them the text is cut into the clauses it was put together from   *)
(* (CutInto), by induction over the clauses.                               *)
(***************************************************************************)
EXTENDS Predicate, SeqLemmas, FiniteSetTheorems

(* Texts.                                                                  *)
Text == Seq(Piece)

LEMMA TextLen == ASSUME NEW s \in Text PROVE Len(s) \in Nat /\ \A i \in 1..Len(s) : s[i] \in Piece
BY LenProperties, ElementOfSeq DEF Text

(* Part of a text is a text.                                               *)
LEMMA PartOfText ==
    ASSUME NEW s \in Text, NEW m \in Int, NEW n \in Int, m >= 1, n <= Len(s)
    PROVE  SubSeq(s, m, n) \in Text /\ Len(SubSeq(s, m, n)) \in Nat
<1>1. Len(s) \in Nat /\ \A i \in 1..Len(s) : s[i] \in Piece
  BY TextLen
<1>2. \A i \in m..n : s[i] \in Piece
  <2>1. \A i \in m..n : i \in 1..Len(s)
    BY <1>1
  <2> QED BY <1>1, <2>1
<1> QED BY <1>2, SubSeqProperties, TextLen DEF Text

LEMMA TrimTyped == ASSUME NEW s \in Text PROVE Trim(s) \in Text
<1> DEFINE inked == {i \in 1..Len(s) : s[i] # Space}
<1>1. Len(s) \in Nat
  BY TextLen
<1>2. CASE inked = {}
  BY <1>2, EmptySeq DEF Trim, Text
<1>3. CASE inked # {}
  <2>0. inked \subseteq 1..Len(s)
    OBVIOUS
  <2>1. inked \subseteq Nat /\ inked \subseteq 1..Len(s)
    <3> HIDE DEF inked
    <3> QED BY <1>1, <2>0
  <2>2. Min(inked) \in 1..Len(s) /\ Max(inked) \in 1..Len(s)
    <3> HIDE DEF inked
    <3>1. Min(inked) \in inked
      BY <1>3, <2>1, MinOf
    <3>2. Max(inked) \in inked
      BY <1>1, <1>3, <2>1, MaxOf
    <3> QED BY <2>1, <3>1, <3>2
  <2>3. Trim(s) = SubSeq(s, Min(inked), Max(inked))
    BY <1>3 DEF Trim
  <2> HIDE DEF inked
  <2>4. Min(inked) \in Int /\ Max(inked) \in Int /\ Min(inked) >= 1 /\ Max(inked) <= Len(s)
    BY <1>1, <2>2
  <2> QED BY <2>3, <2>4, PartOfText
<1> QED BY <1>2, <1>3

LEMMA SplitTyped ==
    ASSUME NEW s \in Text, NEW cuts, cuts \subseteq 1..Len(s)
    PROVE  Split(s, cuts) \in Seq(Text) /\ Len(Split(s, cuts)) \in Nat
<1> DEFINE n == Cardinality(cuts)
           Cut(i) == CHOOSE c \in cuts : Cardinality({d \in cuts : d <= c}) = i
           part(i) == SubSeq(s, IF i = 1 THEN 1 ELSE Cut(i - 1) + 1, IF i > n THEN Len(s) ELSE Cut(i) - 1)
<1>1. Len(s) \in Nat
  BY TextLen
<1>2. IsFiniteSet(cuts) /\ n \in Nat
  <2>1. IsFiniteSet(1..Len(s))
    BY <1>1, FS_Interval
  <2> QED BY <2>1, FS_Subset, FS_CardinalityType
<1>3. ASSUME NEW i \in 1..n PROVE Cut(i) \in 1..Len(s)
  <2>1. cuts \subseteq Int
    BY <1>1
  <2>2. \E c \in cuts : Cardinality({d \in cuts : d <= c}) = i
    BY <1>2, <2>1, RankExists
  <2>3. Cut(i) \in cuts
    BY <2>2
  <2> QED BY <2>3
<1>4. ASSUME NEW i \in 1..(n + 1) PROVE part(i) \in Text
  <2> DEFINE a == IF i = 1 THEN 1 ELSE Cut(i - 1) + 1
             b == IF i > n THEN Len(s) ELSE Cut(i) - 1
  <2>1. a \in Int /\ a >= 1
    <3>1. CASE i = 1
      BY <3>1
    <3>2. CASE i # 1
      <4>1. i - 1 \in 1..n
        BY <1>2, <3>2
      <4>2. Cut(i - 1) \in 1..Len(s)
        BY <1>3, <4>1
      <4> HIDE DEF Cut
      <4> QED BY <1>1, <3>2, <4>2
    <3> QED BY <3>1, <3>2
  <2>2. b \in Int /\ b <= Len(s)
    <3>1. CASE i > n
      BY <1>1, <3>1
    <3>2. CASE ~(i > n)
      <4>1. i \in 1..n
        BY <1>2, <3>2
      <4>2. Cut(i) \in 1..Len(s)
        BY <1>3, <4>1
      <4> HIDE DEF Cut
      <4> QED BY <1>1, <3>2, <4>2
    <3> QED BY <3>1, <3>2
  <2>3. part(i) = SubSeq(s, a, b)
    OBVIOUS
  <2> HIDE DEF a, b, part
  <2> QED BY <2>1, <2>2, <2>3, PartOfText
<1>5. Split(s, cuts) = [i \in 1..(n + 1) |-> part(i)]
  BY DEF Split
<1> HIDE DEF part, n
<1>6. [i \in 1..(n + 1) |-> part(i)] \in Seq(Text)
  <2>1. n + 1 \in Nat
    BY <1>2
  <2> QED BY <1>4, <2>1, SeqDef
<1> QED BY <1>5, <1>6, LenProperties

LEMMA LastIs == ASSUME NEW s PROVE Last(s) = s[Len(s)]
BY DEF Last

LEMMA PlacesIn ==
    ASSUME NEW s \in Text, NEW t, Len(t) \in Nat, Len(t) >= 1
    PROVE  /\ PlacesOf(t, s) \subseteq 1..Len(s) /\ PlacesOf(t, s) \subseteq Nat
           /\ \A i \in PlacesOf(t, s) : i + Len(t) - 1 <= Len(s)
<1>1. Len(s) \in Nat
  BY TextLen
<1>2. ASSUME NEW i \in PlacesOf(t, s) PROVE i \in 1..Len(s) /\ i \in Nat /\ i + Len(t) - 1 <= Len(s)
  <2>1. i \in 1..(Len(s) - Len(t) + 1)
    BY DEF PlacesOf
  <2> QED BY <1>1, <2>1
<1> QED BY <1>2

-----------------------------------------------------------------------------
(* What is parsed has the type it is parsed to.                            *)

LEMMA OneSegment ==
    ASSUME NEW x \in Segment PROVE <<x>> \in Seq(Segment)
OBVIOUS

LEMMA FieldTyped == ASSUME NEW s \in Text PROVE Field(s) \in Segment
BY DEF Text, Field, Segment

LEMMA IndexTyped == ASSUME NEW n \in Numeral PROVE Index(NumberOf[n]) \in Segment
BY DEF Index, Segment, Spelled

LEMMA SegmentTyped ==
    ASSUME NEW raw \in Text, ParseSegment(raw) # Missing
    PROVE  ParseSegment(raw) \in Seq(Segment)
<1> DEFINE open == PlacesOf(<<"[">>, raw)
           index == SubSeq(raw, Min(open) + 1, Len(raw) - 1)
           front == IF Min(open) = 1 THEN <<>> ELSE <<Field(SubSeq(raw, 1, Min(open) - 1))>>
<1>1. CASE raw = <<>> \/ Last(raw) # "]"
  BY <1>1, FieldTyped, OneSegment DEF ParseSegment
<1>2. CASE ~(raw = <<>> \/ Last(raw) # "]")
  <2>1. open # {} /\ ~(Len(index) # 1 \/ index[1] \notin Numeral)
    BY <1>2 DEF ParseSegment
  <2>2. ParseSegment(raw) = front \o <<Index(NumberOf[index[1]])>>
    BY <1>2, <2>1 DEF ParseSegment
  <2>3. Index(NumberOf[index[1]]) \in Segment
    <3> HIDE DEF index
    <3> QED BY <2>1, IndexTyped
  <2>4. Min(open) \in 1..Len(raw)
    <3>1. open \subseteq 1..Len(raw) /\ open \subseteq Nat
      <4>1. Len(<<"[">>) = 1
        OBVIOUS
      <4> QED BY <4>1, PlacesIn
    <3> HIDE DEF open
    <3> QED BY <2>1, <3>1, MinOf
  <2>5. front \in Seq(Segment)
    <3>1. CASE Min(open) = 1
      BY <3>1, EmptySeq
    <3>2. CASE Min(open) # 1
      <4> HIDE DEF open
      <4>1. Len(raw) \in Nat
        BY TextLen
      <4>2. Min(open) - 1 \in Int /\ Min(open) - 1 <= Len(raw) /\ 1 \in Int /\ 1 >= 1
        BY <2>4, <4>1
      <4>3. SubSeq(raw, 1, Min(open) - 1) \in Text
        BY <4>2, PartOfText
      <4>4. front = <<Field(SubSeq(raw, 1, Min(open) - 1))>>
        BY <3>2
      <4> QED BY <4>3, <4>4, FieldTyped, OneSegment
    <3> QED BY <3>1, <3>2
  <2>6. <<Index(NumberOf[index[1]])>> \in Seq(Segment)
    BY <2>3, OneSegment
  <2> HIDE DEF front, index
  <2> QED BY <2>2, <2>5, <2>6, ConcatProperties
<1> QED BY <1>1, <1>2

LEMMA PathTyped ==
    ASSUME NEW s \in Text, ParsePath(s) # Missing
    PROVE  ParsePath(s) \in Seq(Segment)
<1> DEFINE cuts == {i \in 1..Len(s) : s[i] = "."}
           raws == Split(s, cuts)
           segments == Segments(s)
<1>1. raws \in Seq(Text) /\ Len(raws) \in Nat
  <2>1. cuts \subseteq 1..Len(s)
    OBVIOUS
  <2> HIDE DEF cuts
  <2> QED BY <2>1, SplitTyped
<1>2. segments = [i \in 1..Len(raws) |-> ParseSegment(raws[i])]
  BY DEF Segments
<1>3. ParsePath(s) = FlattenSeq(segments) /\ Missing \notin ToSet(segments)
  BY DEF ParsePath
<1> HIDE DEF raws, segments
<1>4. ASSUME NEW i \in 1..Len(raws) PROVE ParseSegment(raws[i]) \in Seq(Segment)
  <2>1. raws[i] \in Text
    BY <1>1, ElementOfSeq
  <2>2. ParseSegment(raws[i]) # Missing
    BY <1>2, <1>3 DEF ToSet
  <2> QED BY <2>1, <2>2, SegmentTyped
<1>5. segments \in Seq(Seq(Segment))
  BY <1>1, <1>2, <1>4, SeqDef
<1> QED BY <1>3, <1>5, InFlatten

LEMMA LiteralTyped ==
    ASSUME NEW s \in Text, ParseLiteral(s) # Missing
    PROVE  ParseLiteral(s) \in Literal
<1>1. Len(s) \in Nat
  BY TextLen
<1>2. CASE s = <<"true">> \/ s = <<"false">>
  BY <1>2 DEF ParseLiteral, Literal, Bool
<1>3. CASE s # <<"true">> /\ s # <<"false">> /\ Len(s) >= 2 /\ s[1] = Quote /\ Last(s) = Quote
  <2>1. ParseLiteral(s) = String(SubSeq(s, 2, Len(s) - 1))
    BY <1>3 DEF ParseLiteral
  <2>2. SubSeq(s, 2, Len(s) - 1) \in Text
    <3>1. 2 \in Int /\ Len(s) - 1 \in Int /\ 2 >= 1 /\ Len(s) - 1 <= Len(s)
      BY <1>1
    <3> QED BY <3>1, PartOfText
  <2> QED BY <2>1, <2>2 DEF String, Literal, Text
<1>4. CASE /\ s # <<"true">> /\ s # <<"false">>
           /\ ~(Len(s) >= 2 /\ s[1] = Quote /\ Last(s) = Quote)
  <2>1. s[1] \in Numeral /\ ParseLiteral(s) = Number(NumberOf[s[1]])
    BY <1>4 DEF ParseLiteral
  <2> QED BY <2>1 DEF Number, Literal, Spelled
<1> QED BY <1>2, <1>3, <1>4

LEMMA OpsTyped ==
    \A o \in 1..Len(Ops) : /\ Ops[o].op \in Op \ NoLiteral
                           /\ Len(Ops[o].text) \in Nat /\ Len(Ops[o].text) >= 1
<1>1. Len(Ops) = 7
  BY DEF Ops
<1>2. Ops[1].op \in Op \ NoLiteral /\ Len(Ops[1].text) = 2
  BY DEF Ops, Op, NoLiteral
<1>3. Ops[2].op \in Op \ NoLiteral /\ Len(Ops[2].text) = 2
  BY DEF Ops, Op, NoLiteral
<1>4. Ops[3].op \in Op \ NoLiteral /\ Len(Ops[3].text) = 2
  BY DEF Ops, Op, NoLiteral
<1>5. Ops[4].op \in Op \ NoLiteral /\ Len(Ops[4].text) = 2
  BY DEF Ops, Op, NoLiteral
<1>6. Ops[5].op \in Op \ NoLiteral /\ Len(Ops[5].text) = 1
  BY DEF Ops, Op, NoLiteral
<1>7. Ops[6].op \in Op \ NoLiteral /\ Len(Ops[6].text) = 1
  BY DEF Ops, Op, NoLiteral
<1>8. Ops[7].op \in Op \ NoLiteral /\ Len(Ops[7].text) = 3
  BY DEF Ops, Op, NoLiteral
<1> SUFFICES ASSUME NEW o \in 1..Len(Ops)
             PROVE  /\ Ops[o].op \in Op \ NoLiteral
                    /\ Len(Ops[o].text) \in Nat /\ Len(Ops[o].text) >= 1
  OBVIOUS
<1>9. o = 1 \/ o = 2 \/ o = 3 \/ o = 4 \/ o = 5 \/ o = 6 \/ o = 7
  BY <1>1
<1>10. CASE o = 1
  BY <1>2, <1>10, SMTT(20)
<1>11. CASE o = 2
  BY <1>3, <1>11
<1>12. CASE o = 3
  BY <1>4, <1>12
<1>13. CASE o = 4
  BY <1>5, <1>13, SMTT(20)
<1>14. CASE o = 5
  BY <1>6, <1>14, SMTT(20)
<1>15. CASE o = 6
  <2>1. Ops[o] = Ops[6]
    BY <1>15, Zenon
  <2>2. Len(Ops[6].text) \in Nat /\ Len(Ops[6].text) >= 1
    BY <1>7
  <2> QED BY <1>7, <2>1, <2>2, Zenon
<1>16. CASE o = 7
  BY <1>8, <1>16, SMTT(20)
<1> QED BY <1>9, <1>10, <1>11, <1>12, <1>13, <1>14, <1>15, <1>16

(* A clause that parse accepts is one of the rule language.                *)
IsClause(c) == c \in ClauseText /\ (c.literal = Missing <=> c.op \in NoLiteral)

LEMMA AtOperatorTyped ==
    ASSUME NEW s \in Text, NEW o \in 1..Len(Ops), PlacesOf(Ops[o].text, s) # {},
           AtOperator(s, Ops[o]) # Missing
    PROVE  IsClause(AtOperator(s, Ops[o]))
<1> DEFINE text == Ops[o].text
           at == Min(PlacesOf(text, s))
           left == SubSeq(s, 1, at - 1)
           right == SubSeq(s, at + Len(text), Len(s))
           path == ParsePath(Trim(left))
           literal == ParseLiteral(Trim(right))
<1>1. Ops[o].op \in Op \ NoLiteral /\ Len(text) \in Nat /\ Len(text) >= 1
  BY OpsTyped
<1>2. Len(s) \in Nat
  BY TextLen
<1>3. at \in 1..Len(s)
  <2> HIDE DEF text
  <2>1. PlacesOf(text, s) \subseteq 1..Len(s) /\ PlacesOf(text, s) \subseteq Nat
    BY <1>1, PlacesIn
  <2>2. PlacesOf(text, s) # {}
    BY DEF text
  <2> QED BY <2>1, <2>2, MinOf
<1>4. path # Missing /\ literal # Missing /\ AtOperator(s, Ops[o]) = Clause(path, Ops[o].op, literal)
  BY DEF AtOperator
<1> HIDE DEF at, text
<1>5. left \in Text /\ right \in Text
  <2>1. /\ 1 \in Int /\ at - 1 \in Int /\ 1 >= 1 /\ at - 1 <= Len(s)
        /\ at + Len(text) \in Int /\ at + Len(text) >= 1 /\ Len(s) \in Int /\ Len(s) <= Len(s)
    BY <1>1, <1>2, <1>3
  <2> QED BY <2>1, PartOfText
<1> HIDE DEF left, right
<1>6. Trim(left) \in Text /\ Trim(right) \in Text
  BY <1>5, TrimTyped
<1>7. path \in Seq(Segment) /\ literal \in Literal
  BY <1>4, <1>6, PathTyped, LiteralTyped
<1> HIDE DEF path, literal
<1> QED BY <1>1, <1>4, <1>7 DEF IsClause, ClauseText, Clause

LEMMA WithoutLiteralTyped ==
    ASSUME NEW s \in Text, NEW suffix, Len(suffix) \in Nat, NEW op \in NoLiteral,
           WithoutLiteral(s, suffix, op) # Missing
    PROVE  IsClause(WithoutLiteral(s, suffix, op))
<1> DEFINE path == ParsePath(Trim(StripSuffix(s, suffix)))
<1>1. Len(s) \in Nat
  BY TextLen
<1>2. StripSuffix(s, suffix) \in Text
  <2>1. /\ 1 \in Int /\ Len(s) - Len(suffix) \in Int /\ 1 >= 1
        /\ Len(s) - Len(suffix) <= Len(s)
    BY <1>1
  <2> QED BY <2>1, PartOfText DEF StripSuffix
<1>3. path # Missing /\ WithoutLiteral(s, suffix, op) = Clause(path, op, Missing)
  BY DEF WithoutLiteral
<1>4. path \in Seq(Segment)
  BY <1>2, <1>3, TrimTyped, PathTyped
<1>5. op \in Op
  BY DEF NoLiteral, Op
<1> HIDE DEF path
<1> QED BY <1>3, <1>4, <1>5 DEF IsClause, ClauseText, Clause

LEMMA AtOneOperator ==
    ASSUME NEW s \in Text, ParseClause(s) # Missing,
           ~IsSuffix(<<"not", Space, "exists">>, s), ~IsSuffix(<<"exists">>, s)
    PROVE  \E o \in 1..Len(Ops) :
               PlacesOf(Ops[o].text, s) # {} /\ ParseClause(s) = AtOperator(s, Ops[o])
<1> DEFINE I == {i \in 1..Len(Ops) : PlacesOf(Ops[i].text, s) # {}}
           o == IF I # {} THEN Min(I) ELSE 0
<1>1. ParseClause(s) = IF o = 0 THEN Missing ELSE AtOperator(s, Ops[o])
  BY DEF ParseClause, SelectInSeq
<1>2. I # {} /\ o # 0
  BY <1>1
<1>3. o \in I
  <2>1. I \subseteq Nat
    <3>1. Len(Ops) = 7
      BY DEF Ops
    <3>2. I \subseteq 1..7
      BY <3>1
    <3> HIDE DEF I
    <3> QED BY <3>2
  <2>2. o = Min(I)
    BY <1>2
  <2> HIDE DEF I, o
  <2> QED BY <1>2, <2>1, <2>2, MinOf
<1>4. o \in 1..Len(Ops) /\ PlacesOf(Ops[o].text, s) # {} /\ ParseClause(s) = AtOperator(s, Ops[o])
  BY <1>1, <1>2, <1>3
<1> HIDE DEF o
<1> QED BY <1>4

LEMMA ClauseTyped ==
    ASSUME NEW s \in Text, ParseClause(s) # Missing
    PROVE  IsClause(ParseClause(s))
<1>1. CASE IsSuffix(<<"not", Space, "exists">>, s)
  <2>1. ParseClause(s) = WithoutLiteral(s, <<"not", Space, "exists">>, "NotExists")
    BY <1>1 DEF ParseClause
  <2>2. Len(<<"not", Space, "exists">>) \in Nat /\ "NotExists" \in NoLiteral
    BY DEF NoLiteral
  <2> QED BY <2>1, <2>2, WithoutLiteralTyped
<1>2. CASE ~IsSuffix(<<"not", Space, "exists">>, s) /\ IsSuffix(<<"exists">>, s)
  <2>1. ParseClause(s) = WithoutLiteral(s, <<"exists">>, "Exists")
    BY <1>2 DEF ParseClause
  <2>2. Len(<<"exists">>) \in Nat /\ "Exists" \in NoLiteral
    BY DEF NoLiteral
  <2> QED BY <2>1, <2>2, WithoutLiteralTyped
<1>3. CASE ~IsSuffix(<<"not", Space, "exists">>, s) /\ ~IsSuffix(<<"exists">>, s)
  <2>1. PICK o \in 1..Len(Ops) : PlacesOf(Ops[o].text, s) # {} /\ ParseClause(s) = AtOperator(s, Ops[o])
    BY <1>3, AtOneOperator
  <2> QED BY <2>1, AtOperatorTyped
<1> QED BY <1>1, <1>2, <1>3
-----------------------------------------------------------------------------
(***************************************************************************)
(* The text of a predicate that was written.                               *)
(***************************************************************************)

LEMMA SymbolTexts ==
    /\ <<>> \in Text /\ <<".">> \in Text /\ <<"&&">> \in Text /\ <<Quote>> \in Text
    /\ <<"true">> \in Text /\ <<"false">> \in Text
    /\ <<Space, "exists">> \in Text /\ <<Space, "contains", Space>> \in Text
    /\ <<Space, "not", Space, "exists">> \in Text
<1>1. /\ Space \in Piece /\ "." \in Piece /\ "&&" \in Piece /\ Quote \in Piece
      /\ "exists" \in Piece /\ "contains" \in Piece /\ "not" \in Piece
      /\ "true" \in Piece /\ "false" \in Piece
  BY PieceAssumption DEF Symbols
<1> QED BY <1>1, EmptySeq, Words1, Words2, Words3, Words4, Zenon DEF Text

LEMMA SignTyped == \A op \in DOMAIN Sign : Sign[op] \in Text
<1>1. "=" \in Piece /\ "!" \in Piece /\ ">" \in Piece /\ "<" \in Piece
  BY PieceAssumption DEF Symbols
<1>2. /\ <<"=", "=">> \in Text /\ <<"!", "=">> \in Text /\ <<">">> \in Text
      /\ <<">", "=">> \in Text /\ <<"<">> \in Text /\ <<"<", "=">> \in Text
  BY <1>1, Words1, Words2, Zenon DEF Text
<1> QED BY <1>2 DEF Sign

LEMMA ConcatText ==
    ASSUME NEW s \in Text, NEW u \in Text PROVE s \o u \in Text
BY ConcatProperties DEF Text

LEMMA FlattenText ==
    ASSUME NEW n \in Nat, NEW seqs, DOMAIN seqs = 1..n, seqs = [i \in 1..n |-> seqs[i]],
           \A i \in 1..n : seqs[i] \in Text
    PROVE  FlattenSeq(seqs) \in Text
<1>1. seqs \in Seq(Seq(Piece))
  BY SeqDef DEF Text
<1> QED BY <1>1, InFlatten DEF Text

LEMMA NumeralOf ==
    ASSUME NEW x \in Spelled
    PROVE  (CHOOSE n \in Numeral : NumberOf[n] = x) \in Piece
<1>1. \E n \in Numeral : NumberOf[n] = x
  BY DEF Spelled
<1>2. (CHOOSE n \in Numeral : NumberOf[n] = x) \in Numeral
  BY <1>1
<1> QED BY <1>2, NumeralAssumption

LEMMA SpellPathTyped ==
    ASSUME NEW path \in Seq(Segment) PROVE SpellPath(path) \in Text
<1> DEFINE piece(i) == IF path[i].seg = "index"
                       THEN <<"[", CHOOSE n \in Numeral : NumberOf[n] = path[i].at, "]">>
                       ELSE (IF i = 1 THEN <<>> ELSE <<".">>) \o path[i].name
           pieces == [i \in 1..Len(path) |-> piece(i)]
<1>1. Len(path) \in Nat
  BY LenProperties
<1>2. ASSUME NEW i \in 1..Len(path) PROVE piece(i) \in Text
  <2>1. path[i] \in Segment
    BY ElementOfSeq
  <2>2. CASE path[i].seg = "index"
    <3>1. path[i].at \in Spelled
      BY <2>1, <2>2 DEF Segment
    <3> DEFINE n == CHOOSE m \in Numeral : NumberOf[m] = path[i].at
    <3>2. n \in Piece
      BY <3>1, NumeralOf
    <3>3. piece(i) = <<"[", n, "]">>
      BY <2>2
    <3> HIDE DEF n
    <3>4. <<"[", n, "]">> \in Seq(Piece)
      <4>1. "[" \in Piece /\ "]" \in Piece
        BY PieceAssumption DEF Symbols
      <4> QED BY <3>2, <4>1, Words3, Zenon
    <3> QED BY <3>3, <3>4 DEF Text
  <2>3. CASE path[i].seg # "index"
    <3>1. path[i].name \in Text
      BY <2>1, <2>3 DEF Segment, Text
    <3> DEFINE dot == IF i = 1 THEN <<>> ELSE <<".">>
    <3>2. dot \in Text
      BY SymbolTexts
    <3>3. piece(i) = dot \o path[i].name
      BY <2>3
    <3> HIDE DEF dot
    <3> QED BY <3>1, <3>2, <3>3, ConcatText
  <2> QED BY <2>2, <2>3
<1>3. SpellPath(path) = FlattenSeq(pieces)
  BY DEF SpellPath
<1> HIDE DEF piece
<1>4. /\ DOMAIN pieces = 1..Len(path) /\ pieces = [i \in 1..Len(path) |-> pieces[i]]
      /\ \A i \in 1..Len(path) : pieces[i] \in Text
  BY <1>2
<1> HIDE DEF pieces
<1> QED BY <1>1, <1>3, <1>4, FlattenText

LEMMA SpellLiteralTyped ==
    ASSUME NEW literal \in Literal PROVE SpellLiteral(literal) \in Text
<1>1. CASE literal.tag = "bool"
  BY <1>1, SymbolTexts DEF SpellLiteral
<1>2. CASE literal.tag = "num"
  <2>1. literal.num \in Spelled
    BY <1>2 DEF Literal
  <2> DEFINE n == CHOOSE m \in Numeral : NumberOf[m] = literal.num
  <2>2. n \in Piece
    BY <2>1, NumeralOf
  <2>3. SpellLiteral(literal) = <<n>>
    BY <1>2 DEF SpellLiteral
  <2> HIDE DEF n
  <2> QED BY <2>2, <2>3, Words1, Zenon DEF Text
<1>3. CASE literal.tag = "str"
  <2>1. literal.chars \in Text
    BY <1>3 DEF Literal, Text
  <2>2. SpellLiteral(literal) = <<Quote>> \o literal.chars \o <<Quote>>
    BY <1>3 DEF SpellLiteral
  <2>3. <<Quote>> \in Text
    BY SymbolTexts
  <2>4. <<Quote>> \o literal.chars \in Text
    BY <2>1, <2>3, ConcatText
  <2>5. (<<Quote>> \o literal.chars) \o <<Quote>> \in Text
    BY <2>3, <2>4, ConcatText
  <2> QED BY <2>2, <2>5
<1> QED BY <1>1, <1>2, <1>3 DEF Literal

LEMMA SpellTyped ==
    ASSUME NEW clause, IsClause(clause), NEW gap \in Text
    PROVE  Spell(clause, gap) \in Text
<1> DEFINE rest == CASE clause.op = "Exists" -> <<Space, "exists">>
                     [] clause.op = "NotExists" -> <<Space, "not", Space, "exists">>
                     [] clause.op = "Contains" -> <<Space, "contains", Space>> \o SpellLiteral(clause.literal)
                     [] OTHER -> gap \o Sign[clause.op] \o gap \o SpellLiteral(clause.literal)
<1>1. clause.path \in Seq(Segment) /\ clause.op \in Op
      /\ (clause.op \notin NoLiteral => clause.literal \in Literal)
  BY DEF IsClause, ClauseText
<1>2. SpellPath(clause.path) \in Text
  BY <1>1, SpellPathTyped
<1>3. CASE clause.op = "Exists"
  <2>1. rest = <<Space, "exists">>
    BY <1>3
  <2> QED BY <1>2, <2>1, SymbolTexts, ConcatText DEF Spell
<1>4. CASE clause.op = "NotExists"
  <2>1. rest = <<Space, "not", Space, "exists">>
    BY <1>4
  <2> QED BY <1>2, <2>1, SymbolTexts, ConcatText DEF Spell
<1>5. CASE clause.op \notin NoLiteral
  <2> DEFINE lit == SpellLiteral(clause.literal)
             sign == Sign[clause.op]
  <2>1. lit \in Text
    BY <1>1, <1>5, SpellLiteralTyped
  <2>2. CASE clause.op = "Contains"
    <3>1. rest = <<Space, "contains", Space>> \o lit
      BY <2>2
    <3>2. <<Space, "contains", Space>> \in Text
      BY SymbolTexts
    <3>3. rest \in Text
      <4> HIDE DEF rest, lit
      <4> QED BY <2>1, <3>1, <3>2, ConcatText
    <3>4. Spell(clause, gap) = SpellPath(clause.path) \o rest
      BY DEF Spell
    <3> HIDE DEF rest
    <3> QED BY <1>2, <3>3, <3>4, ConcatText
  <2>3. CASE clause.op # "Contains"
    <3>1. clause.op \in {"Eq", "Ne", "Gt", "Ge", "Lt", "Le"}
      BY <1>1, <1>5, <2>3 DEF Op, NoLiteral
    <3>2. sign \in Text
      BY <3>1, SignTyped DEF Sign
    <3>3. rest = gap \o sign \o gap \o lit
      BY <3>1
    <3>4. rest \in Text
      <4> HIDE DEF rest, lit, sign
      <4>1. gap \o sign \in Text
        BY <3>2, ConcatText
      <4>2. gap \o sign \o gap \in Text
        BY <4>1, ConcatText
      <4>3. gap \o sign \o gap \o lit \in Text
        BY <2>1, <4>2, ConcatText
      <4> QED BY <3>3, <4>3
    <3>5. Spell(clause, gap) = SpellPath(clause.path) \o rest
      BY DEF Spell
    <3> HIDE DEF rest
    <3> QED BY <1>2, <3>4, <3>5, ConcatText
  <2> QED BY <2>2, <2>3
<1> QED BY <1>3, <1>4, <1>5 DEF NoLiteral

LEMMA SourceTyped == ASSUME NEW in \in Inputs PROVE SourceOf(in) \in Text
<1>1. /\ in.text \in Text /\ in.gap \in Text /\ in.written \in Seq(ClauseText)
      /\ \A i \in 1..Len(in.written) : in.written[i].op \in NoLiteral <=> in.written[i].literal = Missing
  BY InputsAssumption DEF Text
<1>2. CASE in.written = <<>>
  BY <1>1, <1>2 DEF SourceOf
<1>3. CASE in.written # <<>>
  <2> DEFINE lead(i) == IF i = 1 THEN <<>> ELSE in.gap \o <<"&&">> \o in.gap
             piece(i) == lead(i) \o Spell(in.written[i], in.gap)
             pieces == [i \in 1..Len(in.written) |-> piece(i)]
  <2>1. Len(in.written) \in Nat
    BY <1>1, LenProperties
  <2>2. ASSUME NEW i \in 1..Len(in.written) PROVE piece(i) \in Text
    <3>1. IsClause(in.written[i])
      BY <1>1, ElementOfSeq DEF IsClause
    <3>2. Spell(in.written[i], in.gap) \in Text
      BY <1>1, <3>1, SpellTyped
    <3>3. lead(i) \in Text
      <4>1. CASE i = 1
        BY <4>1, EmptySeq DEF Text
      <4>2. CASE i # 1
        <5>1. <<"&&">> \in Text
          BY SymbolTexts
        <5>2. in.gap \o <<"&&">> \in Text
          BY <1>1, <5>1, ConcatText
        <5>3. in.gap \o <<"&&">> \o in.gap \in Text
          BY <1>1, <5>2, ConcatText
        <5> QED BY <4>2, <5>3
      <4> QED BY <4>1, <4>2
    <3> HIDE DEF lead
    <3> QED BY <3>2, <3>3, ConcatText
  <2>3. SourceOf(in) = FlattenSeq(pieces)
    BY <1>3 DEF SourceOf, SpellAll
  <2> HIDE DEF piece
  <2>4. /\ DOMAIN pieces = 1..Len(in.written) /\ pieces = [i \in 1..Len(in.written) |-> pieces[i]]
        /\ \A i \in 1..Len(in.written) : pieces[i] \in Text
    BY <2>2
  <2> HIDE DEF pieces
  <2> QED BY <2>1, <2>3, <2>4, FlattenText
<1> QED BY <1>2, <1>3
-----------------------------------------------------------------------------
(***************************************************************************)
(* What a path leads to is a part of the value, or nothing.                *)
(***************************************************************************)
Found == Values \cup {Missing}

LEMMA GetTyped ==
    ASSUME NEW v \in Found, NEW segment \in Segment PROVE Get(v, segment) \in Found
<1>1. CASE v = Missing
  BY <1>1 DEF Get, Found
<1>2. CASE v # Missing /\ segment.seg = "field"
  <2>1. v \in Values
    BY <1>2 DEF Found
  <2>2. CASE v.tag = "obj" /\ segment.name \in DOMAIN v.map
    <3>1. Get(v, segment) = v.map[segment.name]
      BY <1>2, <2>2 DEF Get
    <3>2. v.map[segment.name] \in Values
      BY <2>1, <2>2, ValuesAssumption
    <3> QED BY <3>1, <3>2 DEF Found
  <2>3. CASE ~(v.tag = "obj" /\ segment.name \in DOMAIN v.map)
    BY <1>2, <2>3 DEF Get, Found
  <2> QED BY <2>2, <2>3
<1>3. CASE v # Missing /\ segment.seg # "field"
  <2>1. v \in Values
    BY <1>3 DEF Found
  <2>2. CASE segment.seg = "index" /\ v.tag = "arr" /\ segment.at < Len(v.items)
    <3>1. Get(v, segment) = v.items[segment.at + 1]
      BY <1>3, <2>2 DEF Get
    <3>2. v.items \in Seq(Values)
      BY <2>1, <2>2, ValuesAssumption
    <3>3. segment.at \in Nat
      BY <1>3, NumeralAssumption DEF Segment
    <3>4. Len(v.items) \in Nat
      BY <3>2, LenProperties
    <3>5. segment.at + 1 \in 1..Len(v.items)
      BY <2>2, <3>3, <3>4
    <3>6. v.items[segment.at + 1] \in Values
      BY <3>2, <3>5, ElementOfSeq
    <3> QED BY <3>1, <3>6 DEF Found
  <2>3. CASE ~(segment.seg = "index" /\ v.tag = "arr" /\ segment.at < Len(v.items))
    BY <1>3, <2>3 DEF Get, Found
  <2> QED BY <2>2, <2>3
<1> QED BY <1>2, <1>1, <1>3

(* The values on the way along a path.                                     *)
Leads(root, path, n, g) == g = [i \in 0..n |-> IF i = 0 THEN root ELSE Get(g[i - 1], path[i])]

LEMMA LeadsFrom ==
    ASSUME NEW root, NEW path, NEW n \in Nat, NEW V, NEW g \in [0..n -> V],
           \A i \in 0..n : g[i] = IF i = 0 THEN root ELSE Get(g[i - 1], path[i])
    PROVE  Leads(root, path, n, g)
BY DEF Leads

LEMMA LeadsExist ==
    ASSUME NEW root \in Found, NEW n \in Nat, NEW path \in [1..n -> Segment]
    PROVE  \E g \in [0..n -> Found] : Leads(root, path, n, g)
<1> DEFINE Solves(g, m) == \A i \in 0..m : g[i] = IF i = 0 THEN root ELSE Get(g[i - 1], path[i])
           T == {m \in 0..n : \E g \in [0..m -> Found] : Solves(g, m)}
<1>1. 0 \in T
  <2> DEFINE g == [i \in 0..0 |-> root]
  <2>1. g \in [0..0 -> Found] /\ Solves(g, 0)
    OBVIOUS
  <2> HIDE DEF g
  <2>2. \E h \in [0..0 -> Found] : Solves(h, 0)
    BY <2>1
  <2>3. 0 \in 0..n
    OBVIOUS
  <2> HIDE DEF Solves
  <2> QED BY <2>2, <2>3, Zenon
<1>2. ASSUME NEW m \in 0..(n - 1), m \in T PROVE m + 1 \in T
  <2>1. PICK g \in [0..m -> Found] : Solves(g, m)
    BY <1>2
  <2> DEFINE last == Get(g[m], path[m + 1])
             h == [i \in 0..(m + 1) |-> IF i = m + 1 THEN last ELSE g[i]]
  <2>2. last \in Found
    <3>1. g[m] \in Found /\ path[m + 1] \in Segment
      BY <2>1
    <3> QED BY <3>1, GetTyped
  <2>3. h \in [0..(m + 1) -> Found]
    <3> HIDE DEF last
    <3> QED BY <2>1, <2>2
  <2>4. Solves(h, m + 1)
    <3> SUFFICES ASSUME NEW i \in 0..(m + 1)
                 PROVE  h[i] = IF i = 0 THEN root ELSE Get(h[i - 1], path[i])
      OBVIOUS
    <3>1. CASE i = m + 1
      <4>1. i - 1 = m /\ m \in 0..(m + 1) /\ m # m + 1 /\ i # 0
        BY <3>1
      <4>2. h[m] = g[m] /\ h[i] = last
        <5> HIDE DEF last
        <5> QED BY <3>1, <4>1
      <4> HIDE DEF h
      <4> QED BY <3>1, <4>1, <4>2
    <3>2. CASE i # m + 1
      <4>1. i \in 0..m /\ h[i] = g[i]
        <5> HIDE DEF last
        <5> QED BY <3>2
      <4>2. i # 0 => h[i - 1] = g[i - 1]
        <5> HIDE DEF last
        <5> QED BY <4>1
      <4>3. g[i] = IF i = 0 THEN root ELSE Get(g[i - 1], path[i])
        BY <2>1, <4>1
      <4> HIDE DEF h
      <4> QED BY <4>1, <4>2, <4>3
    <3> QED BY <3>1, <3>2
  <2> HIDE DEF h
  <2>5. \E q \in [0..(m + 1) -> Found] : Solves(q, m + 1)
    BY <2>3, <2>4
  <2>6. m + 1 \in 0..n
    OBVIOUS
  <2> HIDE DEF Solves
  <2> QED BY <2>5, <2>6, Zenon
<1>3. n \in T
  <2>1. \A m \in 0..(n - 1) : m \in T => m + 1 \in T
    BY <1>2
  <2> HIDE DEF T
  <2>2. \A m \in 0..n : m \in T
    BY <1>1, <2>1, InductionUpTo
  <2> QED BY <2>2
<1>4. PICK g \in [0..n -> Found] : Solves(g, n)
  BY <1>3
<1>5. Leads(root, path, n, g)
  BY <1>4, LeadsFrom
<1> QED BY <1>5

(* The function the definition of Resolve chooses is one of those.         *)
LEMMA LeadsUnique ==
    ASSUME NEW root, NEW n \in Nat, NEW path, NEW f, NEW g,
           Leads(root, path, n, f), Leads(root, path, n, g)
    PROVE  f[n] = g[n]
<1> DEFINE T == {m \in 0..n : f[m] = g[m]}
<1>1. /\ \A i \in 0..n : f[i] = IF i = 0 THEN root ELSE Get(f[i - 1], path[i])
      /\ \A i \in 0..n : g[i] = IF i = 0 THEN root ELSE Get(g[i - 1], path[i])
  BY DEF Leads
<1>2. 0 \in T
  BY <1>1
<1>3. ASSUME NEW m \in 0..(n - 1), m \in T PROVE m + 1 \in T
  <2>1. m + 1 \in 0..n /\ m + 1 # 0 /\ (m + 1) - 1 = m
    OBVIOUS
  <2> QED BY <1>1, <1>3, <2>1
<1>4. \A m \in 0..(n - 1) : m \in T => m + 1 \in T
  BY <1>3
<1> HIDE DEF T
<1>5. \A m \in 0..n : m \in T
  BY <1>2, <1>4, InductionUpTo
<1> QED BY <1>5 DEF T

LEMMA ResolveTyped ==
    ASSUME NEW root \in Found, NEW path \in Seq(Segment)
    PROVE  Resolve(root, path) \in Found
<1> DEFINE n == Len(path)
           at == CHOOSE g : Leads(root, path, n, g)
<1>1. n \in Nat /\ path \in [1..n -> Segment]
  BY LenProperties
<1>2. Resolve(root, path) = at[n]
  BY DEF Resolve, Leads
<1> HIDE DEF n
<1>3. PICK g \in [0..n -> Found] : Leads(root, path, n, g)
  BY <1>1, LeadsExist
<1>4. Leads(root, path, n, at)
  BY <1>3
<1> HIDE DEF at
<1>7. at[n] = g[n]
  BY <1>1, <1>3, <1>4, LeadsUnique
<1> QED BY <1>1, <1>2, <1>3, <1>7

-----------------------------------------------------------------------------
(* The comparisons of one value with one literal.                          *)

LEMMA NumberIs ==
    /\ \A v \in Values : v.tag = "num" => v.num \in Int /\ v = Number(v.num)
    /\ \A l \in Literal : l.tag = "num" => l.num \in Int /\ l = Number(l.num)
<1>1. ASSUME NEW l \in Literal, l.tag = "num" PROVE l.num \in Int /\ l = Number(l.num)
  <2>1. l \in [tag : {"num"}, num : Spelled]
    BY <1>1 DEF Literal
  <2>2. l = [tag |-> "num", num |-> l.num] /\ l.num \in Spelled
    BY <2>1
  <2> QED BY <2>2, NumeralAssumption DEF Number
<1> QED BY <1>1, ValuesAssumption

LEMMA NumbersEqual ==
    ASSUME NEW a \in Int, NEW b \in Int PROVE Number(a) = Number(b) <=> a = b
BY DEF Number

(* What the comparison operators say of one value and one literal.         *)
LEMMA Compared ==
    ASSUME NEW v \in Values, NEW l \in Literal
    PROVE  /\ Compare("Ne", v, l) <=> ~Compare("Eq", v, l)
           /\ Compare("Gt", v, l) <=> Compare("Ge", v, l) /\ ~Compare("Eq", v, l)
           /\ Compare("Lt", v, l) <=> Compare("Le", v, l) /\ ~Compare("Eq", v, l)
           /\ Compare("Gt", v, l) => v.num > l.num
           /\ Compare("Lt", v, l) => v.num < l.num
           /\ Compare("Ge", v, l) \/ Compare("Le", v, l) <=> l.tag = "num" /\ v.tag = "num"
<1>1. /\ Compare("Eq", v, l) <=> ValueEqLiteral(v, l)
      /\ Compare("Ne", v, l) <=> ~ValueEqLiteral(v, l)
  BY DEF Compare
<1>2. /\ Compare("Gt", v, l) <=> v.tag = "num" /\ l.tag = "num" /\ v.num > l.num
      /\ Compare("Ge", v, l) <=> v.tag = "num" /\ l.tag = "num" /\ v.num >= l.num
      /\ Compare("Lt", v, l) <=> v.tag = "num" /\ l.tag = "num" /\ v.num < l.num
      /\ Compare("Le", v, l) <=> v.tag = "num" /\ l.tag = "num" /\ v.num <= l.num
  BY DEF Compare, Ordered
<1>3. CASE l.tag = "num" /\ v.tag = "num"
  <2>1. v.num \in Int /\ v = Number(v.num) /\ l.num \in Int /\ l = Number(l.num)
    BY <1>3, NumberIs
  <2>2. ValueEqLiteral(v, l) <=> v.num = l.num
    <3>1. ValueEqLiteral(v, l) <=> v = l
      BY <1>3 DEF ValueEqLiteral
    <3>2. v = l <=> Number(v.num) = Number(l.num)
      BY <2>1
    <3>3. Number(v.num) = Number(l.num) <=> v.num = l.num
      BY <2>1, NumbersEqual
    <3> QED BY <3>1, <3>2, <3>3
  <2> QED BY <1>1, <1>2, <1>3, <2>1, <2>2
<1>4. CASE ~(l.tag = "num" /\ v.tag = "num")
  BY <1>1, <1>2, <1>4
<1> QED BY <1>3, <1>4
-----------------------------------------------------------------------------
(* What parse and all() have done so far.                                  *)
Tested ==
    /\ pc = "split" => compiled = <<>>
    /\ subject # Missing <=> pc \in {"evaluate", "true", "false"}
    /\ subject = Missing => held = 0
    /\ \A i \in 1..held : EvaluateClause(compiled[i], subject)
    /\ pc = "true" => held = Len(compiled)
    /\ pc = "false" => held < Len(compiled) /\ ~EvaluateClause(compiled[held + 1], subject)

IInv == TypeOK /\ Tested

-----------------------------------------------------------------------------
LEMMA InitInv == Init => IInv
<1> SUFFICES ASSUME Init PROVE IInv
  OBVIOUS
<1>1. <<>> \in Seq(Seq(Piece)) /\ <<>> \in Seq(ClauseText) /\ Len(<<>>) = 0
  BY EmptySeq
<1>2. TypeOK
  BY <1>1 DEF Init, TypeOK
<1>3. Tested
  BY DEF Init, Tested
<1> QED BY <1>2, <1>3 DEF IInv

LEMMA SplitSourceInv == ASSUME IInv, SplitSource PROVE IInv'
<1> DEFINE trimmed == Trim(SourceOf(input))
           cut == Split(trimmed, TopLevelAnds(trimmed))
<1>1. cut \in Seq(Seq(Piece)) /\ Len(cut) \in Nat
  <2>1. input \in Inputs
    BY DEF IInv, TypeOK
  <2>2. trimmed \in Text
    BY <2>1, SourceTyped, TrimTyped
  <2>3. TopLevelAnds(trimmed) \subseteq 1..Len(trimmed)
    BY DEF TopLevelAnds
  <2> HIDE DEF trimmed
  <2>4. cut \in Seq(Text) /\ Len(cut) \in Nat
    BY <2>2, <2>3, SplitTyped
  <2> QED BY <2>4 DEF Text
<1>2. /\ pc = "split" /\ pc' \in {"rejected", "clauses"} /\ (parts' = parts \/ parts' = cut)
      /\ UNCHANGED <<input, compiled, subject, held>>
  BY DEF SplitSource
<1> HIDE DEF cut
<1>3. subject = Missing /\ held = 0
  BY <1>2 DEF IInv, Tested
<1>4. Len(compiled) = 0
  BY <1>2, EmptySeq DEF IInv, Tested
<1>5. TypeOK'
  BY <1>1, <1>2, <1>3, <1>4 DEF IInv, TypeOK
<1>6. Tested'
  BY <1>2, <1>3 DEF IInv, Tested
<1> QED BY <1>5, <1>6 DEF IInv

LEMMA CompileClauseInv == ASSUME IInv, CompileClause PROVE IInv'
<1> DEFINE clause == ParseClause(Trim(parts[Len(compiled) + 1]))
<1>1. /\ pc = "clauses" /\ Len(compiled) < Len(parts)
      /\ UNCHANGED <<input, parts, subject, held>>
      /\ clause = Missing => pc' = "rejected" /\ UNCHANGED compiled
      /\ clause # Missing => pc' = pc /\ compiled' = Append(compiled, clause)
  BY DEF CompileClause
<1>2. /\ parts \in Seq(Seq(Piece)) /\ Len(parts) \in Nat
      /\ compiled \in Seq(ClauseText) /\ Len(compiled) \in Nat
      /\ \A i \in 1..Len(compiled) : compiled[i].literal = Missing <=> compiled[i].op \in NoLiteral
  BY LenProperties DEF IInv, TypeOK
<1>3. subject = Missing /\ held = 0
  BY <1>1 DEF IInv, Tested
<1>4. CASE clause = Missing
  <2>1. TypeOK'
    BY <1>1, <1>4 DEF IInv, TypeOK
  <2>2. Tested'
    BY <1>1, <1>3, <1>4 DEF Tested
  <2> QED BY <2>1, <2>2 DEF IInv
<1>5. CASE clause # Missing
  <2>1. IsClause(clause)
    <3>1. Len(compiled) + 1 \in 1..Len(parts)
      BY <1>1, <1>2
    <3>2. parts[Len(compiled) + 1] \in Text
      BY <1>2, <3>1, ElementOfSeq DEF Text
    <3> QED BY <1>5, <3>2, TrimTyped, ClauseTyped
  <2> HIDE DEF clause
  <2>2. clause \in ClauseText /\ (clause.literal = Missing <=> clause.op \in NoLiteral)
    BY <2>1 DEF IsClause
  <2>3. /\ compiled' \in Seq(ClauseText) /\ Len(compiled') = Len(compiled) + 1
        /\ \A i \in 1..Len(compiled) : compiled'[i] = compiled[i]
        /\ compiled'[Len(compiled) + 1] = clause
    <3>1. compiled' = Append(compiled, clause)
      BY <1>1, <1>5
    <3>2. compiled \in Seq(ClauseText) /\ clause \in ClauseText
      BY <1>2, <2>2
    <3> HIDE DEF ClauseText
    <3> QED BY <3>1, <3>2, AppendProperties
  <2>4. \A i \in 1..Len(compiled') : compiled'[i].literal = Missing <=> compiled'[i].op \in NoLiteral
    <3> SUFFICES ASSUME NEW i \in 1..Len(compiled')
                 PROVE  compiled'[i].literal = Missing <=> compiled'[i].op \in NoLiteral
      OBVIOUS
    <3>1. i \in 1..Len(compiled) \/ i = Len(compiled) + 1
      BY <1>2, <2>3
    <3> QED BY <1>2, <2>2, <2>3, <3>1
  <2>5. held' \in 0..Len(compiled') /\ Len(compiled') <= Len(parts')
    BY <1>1, <1>2, <1>3, <2>3
  <2>6. TypeOK'
    BY <1>1, <1>5, <2>3, <2>4, <2>5 DEF IInv, TypeOK
  <2>7. Tested'
    BY <1>1, <1>3, <1>5 DEF Tested
  <2> QED BY <2>6, <2>7 DEF IInv
<1> QED BY <1>4, <1>5

LEMMA ParsedInv == ASSUME IInv, Parsed PROVE IInv'
<1>1. TypeOK'
  BY DEF Parsed, IInv, TypeOK
<1>2. Tested'
  BY DEF Parsed, IInv, Tested
<1> QED BY <1>1, <1>2 DEF IInv

LEMMA EvaluateInv == ASSUME IInv, Evaluate PROVE IInv'
<1>1. subject' \in Values /\ subject' # Missing
  BY ValuesAssumption DEF Evaluate
<1>2. TypeOK'
  BY <1>1 DEF Evaluate, IInv, TypeOK
<1>3. Tested'
  BY <1>1 DEF Evaluate, IInv, Tested
<1> QED BY <1>2, <1>3 DEF IInv

LEMMA TestClauseInv == ASSUME IInv, TestClause PROVE IInv'
<1>1. /\ Len(compiled) \in Nat /\ held \in 0..Len(compiled)
  BY LenProperties DEF IInv, TypeOK
<1>2. pc = "evaluate" /\ UNCHANGED <<input, parts, compiled, subject>>
  BY DEF TestClause
<1>3. subject # Missing /\ \A i \in 1..held : EvaluateClause(compiled[i], subject)
  BY <1>2 DEF IInv, Tested
<1>4. CASE held = Len(compiled)
  <2>1. pc' = "true" /\ held' = held
    BY <1>4 DEF TestClause
  <2>2. TypeOK'
    BY <1>2, <2>1 DEF IInv, TypeOK
  <2>3. Tested'
    BY <1>2, <1>3, <1>4, <2>1 DEF Tested
  <2> QED BY <2>2, <2>3 DEF IInv
<1>5. CASE held # Len(compiled) /\ EvaluateClause(compiled[held + 1], subject)
  <2>1. pc' = pc /\ held' = held + 1
    BY <1>5 DEF TestClause
  <2>2. held' \in 0..Len(compiled)
    BY <1>1, <1>5, <2>1
  <2>3. TypeOK'
    BY <1>2, <2>1, <2>2 DEF IInv, TypeOK
  <2>4. \A i \in 1..(held + 1) : i \in 1..held \/ i = held + 1
    BY <1>1
  <2>5. Tested'
    BY <1>2, <1>3, <1>5, <2>1, <2>4 DEF Tested
  <2> QED BY <2>3, <2>5 DEF IInv
<1>6. CASE held # Len(compiled) /\ ~EvaluateClause(compiled[held + 1], subject)
  <2>1. pc' = "false" /\ held' = held
    BY <1>6 DEF TestClause
  <2>2. held < Len(compiled)
    BY <1>1, <1>6
  <2>3. TypeOK'
    BY <1>2, <2>1 DEF IInv, TypeOK
  <2>4. Tested'
    BY <1>2, <1>3, <1>6, <2>1, <2>2 DEF Tested
  <2> QED BY <2>3, <2>4 DEF IInv
<1> QED BY <1>4, <1>5, <1>6

(* The inductive invariant of parse and evaluate.                          *)
THEOREM PredicateInvariance == Spec => []IInv
<1>1. Init => IInv
  BY InitInv
<1>2. IInv /\ [Next]_vars => IInv'
  <2> SUFFICES ASSUME IInv, [Next]_vars PROVE IInv'
    OBVIOUS
  <2>1. CASE SplitSource
    BY <2>1, SplitSourceInv
  <2>2. CASE CompileClause
    BY <2>2, CompileClauseInv
  <2>3. CASE Parsed
    BY <2>3, ParsedInv
  <2>4. CASE Evaluate
    BY <2>4, EvaluateInv
  <2>5. CASE TestClause
    BY <2>5, TestClauseInv
  <2>6. CASE UNCHANGED vars
    BY <2>6 DEF vars, IInv, TypeOK, Tested
  <2> QED BY <2>1, <2>2, <2>3, <2>4, <2>5, <2>6 DEF Next
<1> QED BY <1>1, <1>2, PTL DEF Spec

(* Whatever text parse is given, and whatever value evaluate: the clauses  *)
(* it accepts are those of the enumeration, with a literal exactly where   *)
(* the operator takes one, and never more of them than there are parts.    *)
THEOREM PredicateTypes == Spec => []TypeOK
<1>1. IInv => TypeOK
  BY DEF IInv
<1> QED BY <1>1, PredicateInvariance, PTL

-----------------------------------------------------------------------------
(* What one clause says of a value and what the other operators would.     *)
LEMMA OneClause ==
    ASSUME IInv, subject # Missing, NEW c \in ToSet(compiled), c.op \in Comparisons
    PROVE  LET Is(op) == EvaluateClause(Clause(c.path, op, c.literal), subject)
               found == Resolve(subject, c.path)
           IN  /\ \E only \in {"Eq", "Ne", "NotExists"} :
                     \A op \in {"Eq", "Ne", "NotExists"} : Is(op) <=> op = only
               /\ Is("Gt") <=> Is("Ge") /\ ~Is("Eq")
               /\ Is("Lt") <=> Is("Le") /\ ~Is("Eq")
               /\ Is("Gt") => found.num > c.literal.num
               /\ Is("Lt") => found.num < c.literal.num
               /\ Is("Ge") \/ Is("Le")
                     <=> c.literal.tag = "num" /\ found # Missing /\ found.tag = "num"
<1> DEFINE Is(op) == EvaluateClause(Clause(c.path, op, c.literal), subject)
           found == Resolve(subject, c.path)
<1>1. c.path \in Seq(Segment) /\ c.literal \in Literal
  <2>1. PICK i \in 1..Len(compiled) : c = compiled[i]
    BY DEF ToSet
  <2>2. c \in ClauseText
    BY <2>1, ElementOfSeq DEF IInv, TypeOK
  <2>3. c.op \notin NoLiteral
    BY DEF Comparisons, NoLiteral
  <2>4. c.literal # Missing
    BY <2>1, <2>3 DEF IInv, TypeOK
  <2> QED BY <2>2, <2>4 DEF ClauseText
<1>2. found \in Found
  BY <1>1, ResolveTyped DEF IInv, TypeOK, Found
<1>3. /\ Is("NotExists") <=> found = Missing
      /\ \A op \in Comparisons : Is(op) <=> found # Missing /\ Compare(op, found, c.literal)
  BY DEF EvaluateClause, Clause, Comparisons
<1> HIDE DEF Is, found
<1>4. {"Eq", "Ne", "Gt", "Ge", "Lt", "Le"} = Comparisons
  BY DEF Comparisons
<1>5. CASE found = Missing
  <2>1. \A op \in {"Eq", "Ne", "Gt", "Ge", "Lt", "Le"} : ~Is(op)
    BY <1>3, <1>4, <1>5
  <2>2. \A op \in {"Eq", "Ne", "NotExists"} : Is(op) <=> op = "NotExists"
    BY <1>3, <1>5, <2>1
  <2> QED BY <1>5, <2>1, <2>2 DEF Is, found
<1>6. CASE found # Missing
  <2>1. found \in Values
    BY <1>2, <1>6 DEF Found
  <2>2. \A op \in {"Eq", "Ne", "Gt", "Ge", "Lt", "Le"} : Is(op) <=> Compare(op, found, c.literal)
    BY <1>3, <1>4, <1>6
  <2>3. ~Is("NotExists")
    BY <1>3, <1>6
  <2>4. /\ Is("Ne") <=> ~Is("Eq")
        /\ Is("Gt") <=> Is("Ge") /\ ~Is("Eq")
        /\ Is("Lt") <=> Is("Le") /\ ~Is("Eq")
        /\ Is("Gt") => found.num > c.literal.num
        /\ Is("Lt") => found.num < c.literal.num
        /\ Is("Ge") \/ Is("Le") <=> c.literal.tag = "num" /\ found.tag = "num"
    BY <1>1, <2>1, <2>2, Compared
  <2>5. CASE Is("Eq")
    <3>1. \A op \in {"Eq", "Ne", "NotExists"} : Is(op) <=> op = "Eq"
      BY <2>3, <2>4, <2>5
    <3> QED BY <1>6, <2>4, <3>1 DEF Is, found
  <2>6. CASE ~Is("Eq")
    <3>1. \A op \in {"Eq", "Ne", "NotExists"} : Is(op) <=> op = "Ne"
      BY <2>3, <2>4, <2>6
    <3> QED BY <1>6, <2>4, <3>1 DEF Is, found
  <2> QED BY <2>5, <2>6
<1> QED BY <1>5, <1>6

(* The verdict of evaluate is that of all clauses as written; of a path,   *)
(* ==, != and `not exists` exclude each other and one of them holds, so    *)
(* that nothing absent compares with anything; and the orders of numbers   *)
(* agree with each other and hold of nothing else.                         *)
THEOREM PredicateEvaluates == Spec => []EvaluatesAsWritten
<1>1. ASSUME IInv PROVE EvaluatesAsWritten
  <2>1. ASSUME subject # Missing, pc = "true"
        PROVE  \A c \in ToSet(compiled) : EvaluateClause(c, subject)
    <3>1. held = Len(compiled) /\ \A i \in 1..held : EvaluateClause(compiled[i], subject)
      BY <1>1, <2>1 DEF IInv, Tested
    <3> QED BY <3>1 DEF ToSet
  <2>2. ASSUME subject # Missing, pc = "false"
        PROVE  \E c \in ToSet(compiled) : ~EvaluateClause(c, subject)
    <3>1. held < Len(compiled) /\ ~EvaluateClause(compiled[held + 1], subject)
      BY <1>1, <2>2 DEF IInv, Tested
    <3>2. Len(compiled) \in Nat /\ held \in 0..Len(compiled)
      BY <1>1, LenProperties DEF IInv, TypeOK
    <3>3. held + 1 \in 1..Len(compiled)
      BY <3>1, <3>2
    <3>4. DOMAIN compiled = 1..Len(compiled)
      BY <1>1, LenProperties DEF IInv, TypeOK
    <3> QED BY <3>1, <3>3, <3>4 DEF ToSet
  <2>3. ASSUME subject # Missing, pc \in {"true", "false"}
        PROVE  pc = "true" <=> \A c \in ToSet(compiled) : EvaluateClause(c, subject)
    BY <2>1, <2>2, <2>3
  <2> QED BY <1>1, <2>3, OneClause DEF EvaluatesAsWritten
<1>2. IInv => EvaluatesAsWritten
  BY <1>1
<1> QED BY <1>2, PredicateInvariance, PTL

-----------------------------------------------------------------------------
(***************************************************************************)
(* What Ink leaves of a text.  Two texts are the same to it when one can   *)
(* stand for the other wherever it is written.                             *)
(***************************************************************************)
Soft == {Space, "."}

Kept(s, i) ==
    IF s[i] = Space \/ (s[i] = "." /\ BeforeIndex(s, i)) THEN <<>> ELSE <<Mark(s[i])>>
AllKept(s) == [i \in 1..Len(s) |-> Kept(s, i)]

Same(s, t) == \A x, y \in Text : Ink((x \o s) \o y) = Ink((x \o t) \o y)

LEMMA TextAssoc ==
    ASSUME NEW a \in Text, NEW b \in Text, NEW c \in Text
    PROVE  (a \o b) \o c = a \o (b \o c)
BY ConcatAssoc DEF Text

LEMMA TextEmpty == ASSUME NEW a \in Text PROVE a \o <<>> = a /\ <<>> \o a = a
BY ConcatEmptySeq DEF Text

LEMMA TextOne == ASSUME NEW c \in Piece PROVE <<c>> \in Text /\ Len(<<c>>) = 1 /\ <<c>>[1] = c
BY Words1 DEF Text

LEMMA ConcatAt ==
    ASSUME NEW a \in Text, NEW b \in Text
    PROVE  /\ a \o b \in Text /\ Len(a \o b) = Len(a) + Len(b)
           /\ \A i \in 1..(Len(a) + Len(b)) : (a \o b)[i] = IF i <= Len(a) THEN a[i] ELSE b[i - Len(a)]
BY ConcatProperties DEF Text

LEMMA TextEqual ==
    ASSUME NEW s \in Text, NEW t \in Text, Len(s) = Len(t), \A i \in 1..Len(s) : s[i] = t[i]
    PROVE  s = t
BY SeqEqual DEF Text

LEMMA MarkTyped == ASSUME NEW c \in Piece PROVE Mark(c) \in Piece
<1>1. CASE c \in Numeral
  <2>1. NumberOf[c] \in Spelled
    BY <1>1 DEF Spelled
  <2> QED BY <1>1, <2>1, NumeralOf DEF Mark
<1> QED BY <1>1 DEF Mark

LEMMA AllKeptTyped ==
    ASSUME NEW s \in Text PROVE AllKept(s) \in Seq(Text) /\ Len(AllKept(s)) = Len(s)
<1>1. Len(s) \in Nat /\ \A i \in 1..Len(s) : s[i] \in Piece
  BY TextLen
<1>2. ASSUME NEW i \in 1..Len(s) PROVE Kept(s, i) \in Text
  <2>1. Mark(s[i]) \in Piece
    BY <1>1, MarkTyped
  <2> QED BY <2>1, TextOne, SymbolTexts DEF Kept
<1>3. AllKept(s) \in Seq(Text)
  BY <1>1, <1>2, SeqDef DEF AllKept
<1> QED BY <1>1, <1>3 DEF AllKept

LEMMA InkIs == ASSUME NEW s \in Text PROVE Ink(s) = FlattenSeq(AllKept(s))
BY DEF Ink, AllKept, Kept

(* A text with one piece more.                                             *)
Inserted(all, short, p, c) ==
    /\ p \in 1..Len(all) /\ Len(all) = Len(short) + 1 /\ all[p] = c
    /\ \A i \in 1..(p - 1) : all[i] = short[i]
    /\ \A i \in p..Len(short) : all[i + 1] = short[i]

(* A space or a dot more does not change which dots are before an index.   *)
LEMMA BeforeIndexInserted ==
    ASSUME NEW all, NEW short, NEW p, NEW c \in Soft, Len(short) \in Nat,
           Inserted(all, short, p, c)
    PROVE  /\ \A i \in 1..(p - 1) : BeforeIndex(all, i) <=> BeforeIndex(short, i)
           /\ \A i \in p..Len(short) : BeforeIndex(all, i + 1) <=> BeforeIndex(short, i)
<1>1. /\ Len(all) \in Nat /\ Len(all) = Len(short) + 1 /\ p \in 1..Len(all) /\ all[p] = c
      /\ \A i \in 1..(p - 1) : all[i] = short[i]
      /\ \A i \in p..Len(short) : all[i + 1] = short[i]
  BY DEF Inserted
<1>0. c # "["
  BY DEF Soft, Space
<1> DEFINE Gap(s, i, j) == \A k \in i..(j - 1) : s[k] \in Soft
<1>2. ASSUME NEW i \in 1..(p - 1), BeforeIndex(all, i) PROVE BeforeIndex(short, i)
  <2>1. PICK j \in (i + 1)..Len(all) : all[j] = "[" /\ Gap(all, i, j)
    BY <1>2 DEF BeforeIndex, Soft
  <2>2. j # p
    BY <1>0, <1>1, <2>1
  <2>3. CASE j < p
    <3>1. j \in (i + 1)..Len(short) /\ short[j] = "["
      BY <1>1, <2>1, <2>3
    <3>2. Gap(short, i, j)
      <4> SUFFICES ASSUME NEW k \in i..(j - 1) PROVE short[k] \in Soft
        OBVIOUS
      <4>1. all[k] = short[k]
        BY <1>1, <2>3
      <4> QED BY <2>1, <4>1
    <3> QED BY <3>1, <3>2 DEF BeforeIndex, Soft
  <2>4. CASE j > p
    <3>1. j - 1 \in (i + 1)..Len(short) /\ short[j - 1] = "["
      <4>1. j - 1 \in p..Len(short) /\ (j - 1) + 1 = j /\ j - 1 \in (i + 1)..Len(short)
        BY <1>1, <2>1, <2>4
      <4>2. all[(j - 1) + 1] = short[j - 1]
        BY <1>1, <4>1
      <4> QED BY <2>1, <4>1, <4>2
    <3>2. Gap(short, i, j - 1)
      <4> SUFFICES ASSUME NEW k \in i..((j - 1) - 1) PROVE short[k] \in Soft
        OBVIOUS
      <4>1. CASE k < p
        <5>1. all[k] = short[k] /\ k \in i..(j - 1)
          BY <1>1, <4>1, <2>1
        <5> QED BY <2>1, <5>1
      <4>2. CASE k >= p
        <5>1. k \in p..Len(short) /\ k + 1 \in i..(j - 1)
          BY <1>1, <2>1, <4>2
        <5>2. all[k + 1] = short[k]
          BY <1>1, <5>1
        <5> QED BY <2>1, <5>1, <5>2
      <4> QED BY <1>1, <4>1, <4>2
    <3> QED BY <3>1, <3>2 DEF BeforeIndex, Soft
  <2> QED BY <1>1, <2>1, <2>2, <2>3, <2>4
<1>3. ASSUME NEW i \in 1..(p - 1), BeforeIndex(short, i) PROVE BeforeIndex(all, i)
  <2>1. PICK j \in (i + 1)..Len(short) : short[j] = "[" /\ Gap(short, i, j)
    BY <1>3 DEF BeforeIndex, Soft
  <2>2. CASE j < p
    <3>1. j \in (i + 1)..Len(all) /\ all[j] = "["
      BY <1>1, <2>1, <2>2
    <3>2. Gap(all, i, j)
      <4> SUFFICES ASSUME NEW k \in i..(j - 1) PROVE all[k] \in Soft
        OBVIOUS
      <4>1. all[k] = short[k]
        BY <1>1, <2>2
      <4> QED BY <2>1, <4>1
    <3> QED BY <3>1, <3>2 DEF BeforeIndex, Soft
  <2>3. CASE j >= p
    <3>1. j + 1 \in (i + 1)..Len(all) /\ all[j + 1] = "["
      <4>1. j \in p..Len(short) /\ j + 1 \in (i + 1)..Len(all)
        BY <1>1, <2>1, <2>3
      <4>2. all[j + 1] = short[j]
        BY <1>1, <4>1
      <4> QED BY <2>1, <4>1, <4>2
    <3>2. Gap(all, i, j + 1)
      <4> SUFFICES ASSUME NEW k \in i..((j + 1) - 1) PROVE all[k] \in Soft
        OBVIOUS
      <4>1. CASE k < p
        <5>1. all[k] = short[k] /\ k \in i..(j - 1)
          BY <1>1, <4>1, <2>1, <2>3
        <5> QED BY <2>1, <5>1
      <4>2. CASE k = p
        BY <1>1, <4>2
      <4>3. CASE k > p
        <5>1. k - 1 \in p..Len(short) /\ (k - 1) + 1 = k /\ k - 1 \in i..(j - 1)
          BY <1>1, <2>1, <4>3
        <5>2. all[(k - 1) + 1] = short[k - 1]
          BY <1>1, <5>1
        <5> QED BY <2>1, <5>1, <5>2
      <4> QED BY <1>1, <4>1, <4>2, <4>3
    <3> QED BY <3>1, <3>2 DEF BeforeIndex, Soft
  <2> QED BY <1>1, <2>1, <2>2, <2>3
<1>4. ASSUME NEW i \in p..Len(short), BeforeIndex(all, i + 1) PROVE BeforeIndex(short, i)
  <2>1. PICK j \in ((i + 1) + 1)..Len(all) : all[j] = "[" /\ Gap(all, i + 1, j)
    BY <1>4 DEF BeforeIndex, Soft
  <2>2. j - 1 \in p..Len(short) /\ (j - 1) + 1 = j /\ j - 1 \in (i + 1)..Len(short)
    BY <1>1, <2>1
  <2>3. short[j - 1] = "["
    <3>1. all[(j - 1) + 1] = short[j - 1]
      BY <1>1, <2>2
    <3> QED BY <2>1, <2>2, <3>1
  <2>4. Gap(short, i, j - 1)
    <3> SUFFICES ASSUME NEW k \in i..((j - 1) - 1) PROVE short[k] \in Soft
      OBVIOUS
    <3>1. k \in p..Len(short) /\ k + 1 \in (i + 1)..(j - 1)
      BY <1>1, <2>1
    <3>2. all[k + 1] = short[k]
      BY <1>1, <3>1
    <3> QED BY <2>1, <3>1, <3>2
  <2> QED BY <2>2, <2>3, <2>4 DEF BeforeIndex, Soft
<1>5. ASSUME NEW i \in p..Len(short), BeforeIndex(short, i) PROVE BeforeIndex(all, i + 1)
  <2>1. PICK j \in (i + 1)..Len(short) : short[j] = "[" /\ Gap(short, i, j)
    BY <1>5 DEF BeforeIndex, Soft
  <2>2. j \in p..Len(short) /\ j + 1 \in ((i + 1) + 1)..Len(all)
    BY <1>1, <2>1
  <2>3. all[j + 1] = "["
    BY <1>1, <2>1, <2>2
  <2>4. Gap(all, i + 1, j + 1)
    <3> SUFFICES ASSUME NEW k \in (i + 1)..((j + 1) - 1) PROVE all[k] \in Soft
      OBVIOUS
    <3>1. k - 1 \in p..Len(short) /\ (k - 1) + 1 = k /\ k - 1 \in i..(j - 1)
      BY <1>1, <2>1
    <3>2. all[(k - 1) + 1] = short[k - 1]
      BY <1>1, <3>1
    <3> QED BY <2>1, <3>1, <3>2
  <2> QED BY <2>2, <2>3, <2>4 DEF BeforeIndex, Soft
<1> QED BY <1>2, <1>3, <1>4, <1>5

(* What Ink drops may be left out.                                         *)
LEMMA InkDrop ==
    ASSUME NEW x \in Text, NEW y \in Text, NEW c \in Soft,
           c = "." => BeforeIndex((x \o <<c>>) \o y, Len(x) + 1)
    PROVE  Ink((x \o <<c>>) \o y) = Ink(x \o y)
<1> DEFINE all == (x \o <<c>>) \o y
           short == x \o y
           p == Len(x) + 1
<1>1. Len(x) \in Nat /\ Len(y) \in Nat
  BY TextLen
<1>2. c \in Piece
  BY PieceAssumption DEF Symbols, Soft
<1>3. <<c>> \in Text /\ Len(<<c>>) = 1 /\ <<c>>[1] = c
  BY <1>2, TextOne
<1> DEFINE one == <<c>>
<1>4. one \in Text /\ Len(one) = 1 /\ one[1] = c
  BY <1>3
<1> HIDE DEF one
<1>5. /\ x \o one \in Text /\ Len(x \o one) = Len(x) + 1
      /\ \A i \in 1..(Len(x) + 1) : (x \o one)[i] = IF i <= Len(x) THEN x[i] ELSE one[i - Len(x)]
  <2>1. /\ x \o one \in Text /\ Len(x \o one) = Len(x) + Len(one)
        /\ \A i \in 1..(Len(x) + Len(one)) :
              (x \o one)[i] = IF i <= Len(x) THEN x[i] ELSE one[i - Len(x)]
    BY <1>4, ConcatAt
  <2> QED BY <1>4, <2>1, Zenon
<1> DEFINE xc == x \o one
<1> HIDE DEF xc
<1>6. /\ all \in Text /\ Len(all) = Len(x) + 1 + Len(y)
      /\ \A i \in 1..(Len(x) + 1 + Len(y)) : all[i] = IF i <= Len(x) + 1 THEN xc[i] ELSE y[i - (Len(x) + 1)]
  <2>1. all = xc \o y
    BY DEF xc, one
  <2> HIDE DEF all
  <2>2. xc \in Text /\ Len(xc) = Len(x) + 1
    BY <1>5 DEF xc
  <2>3. /\ xc \o y \in Text /\ Len(xc \o y) = Len(xc) + Len(y)
        /\ \A i \in 1..(Len(xc) + Len(y)) : (xc \o y)[i] = IF i <= Len(xc) THEN xc[i] ELSE y[i - Len(xc)]
    BY <2>2, ConcatAt
  <2> QED BY <2>1, <2>2, <2>3
<1>7. /\ short \in Text /\ Len(short) = Len(x) + Len(y)
      /\ \A i \in 1..(Len(x) + Len(y)) : short[i] = IF i <= Len(x) THEN x[i] ELSE y[i - Len(x)]
  BY ConcatAt
<1>8. \A i \in 1..(Len(x) + 1) : xc[i] = IF i <= Len(x) THEN x[i] ELSE one[i - Len(x)]
  BY <1>5 DEF xc
<1> HIDE DEF all, short
<1>9. Inserted(all, short, p, c)
  <2>1. p \in 1..Len(all) /\ Len(all) = Len(short) + 1
    BY <1>1, <1>6, <1>7
  <2>2. all[p] = c
    BY <1>1, <1>4, <1>6, <1>8
  <2>3. ASSUME NEW i \in 1..(p - 1) PROVE all[i] = short[i]
    <3>1. i <= Len(x) /\ i \in 1..(Len(x) + 1) /\ i \in 1..(Len(x) + Len(y)) /\ i \in 1..(Len(x) + 1 + Len(y))
      BY <1>1
    <3> QED BY <1>6, <1>7, <1>8, <3>1
  <2>4. ASSUME NEW i \in p..Len(short) PROVE all[i + 1] = short[i]
    <3>1. /\ i + 1 \in 1..(Len(x) + 1 + Len(y)) /\ ~(i + 1 <= Len(x) + 1) /\ (i + 1) - (Len(x) + 1) = i - Len(x)
          /\ i \in 1..(Len(x) + Len(y)) /\ ~(i <= Len(x))
      BY <1>1, <1>7
    <3>2. all[i + 1] = y[(i + 1) - (Len(x) + 1)]
      BY <1>6, <3>1
    <3>3. short[i] = y[i - Len(x)]
      BY <1>7, <3>1
    <3> QED BY <3>1, <3>2, <3>3
  <2> QED BY <2>1, <2>2, <2>3, <2>4 DEF Inserted
<1>10. c = "." => BeforeIndex(all, p)
  BY DEF all
<1> HIDE DEF p
<1>11. Len(short) \in Nat /\ Len(all) \in Nat /\ p \in 1..Len(all) /\ Len(all) = Len(short) + 1 /\ all[p] = c
  BY <1>6, <1>7, <1>9, TextLen DEF Inserted
<1>12. /\ \A i \in 1..(p - 1) : BeforeIndex(all, i) <=> BeforeIndex(short, i)
       /\ \A i \in p..Len(short) : BeforeIndex(all, i + 1) <=> BeforeIndex(short, i)
  BY <1>9, <1>11, BeforeIndexInserted
<1>13. AllKept(all)[p] = <<>>
  BY <1>10, <1>11 DEF AllKept, Kept, Soft
<1>14. ASSUME NEW i \in 1..(p - 1) PROVE AllKept(all)[i] = AllKept(short)[i]
  <2>1. i \in 1..Len(all) /\ i \in 1..Len(short) /\ all[i] = short[i]
    BY <1>9, <1>11 DEF Inserted
  <2> QED BY <1>12, <2>1 DEF AllKept, Kept
<1>15. ASSUME NEW i \in p..Len(short) PROVE AllKept(all)[i + 1] = AllKept(short)[i]
  <2>1. i + 1 \in 1..Len(all) /\ i \in 1..Len(short) /\ all[i + 1] = short[i]
    BY <1>9, <1>11 DEF Inserted
  <2> QED BY <1>12, <2>1 DEF AllKept, Kept
<1>16. /\ AllKept(all) \in Seq(Text) /\ Len(AllKept(all)) = Len(all)
       /\ AllKept(short) \in Seq(Text) /\ Len(AllKept(short)) = Len(short)
  BY <1>6, <1>7, AllKeptTyped
<1>17. EmptyAt(AllKept(all), AllKept(short), p)
  BY <1>11, <1>13, <1>14, <1>15, <1>16 DEF EmptyAt
<1>18. FlattenSeq(AllKept(all)) = FlattenSeq(AllKept(short))
  BY <1>16, <1>17, FlattenWithEmpty DEF Text
<1>19. Ink(all) = Ink(short)
  BY <1>6, <1>7, <1>18, InkIs
<1> QED BY <1>19 DEF all, short

-----------------------------------------------------------------------------
(***************************************************************************)
(* Texts that are the same to Ink.                                         *)
(***************************************************************************)
LEMMA SameRefl == ASSUME NEW s PROVE Same(s, s)
BY DEF Same

LEMMA SameTrans ==
    ASSUME NEW s, NEW t, NEW u, Same(s, t), Same(t, u) PROVE Same(s, u)
BY DEF Same

LEMMA SameConcat ==
    ASSUME NEW s \in Text, NEW t \in Text, NEW u \in Text, NEW v \in Text, Same(s, t), Same(u, v)
    PROVE  Same(s \o u, t \o v)
<1> SUFFICES ASSUME NEW x \in Text, NEW y \in Text
             PROVE  Ink((x \o (s \o u)) \o y) = Ink((x \o (t \o v)) \o y)
  BY DEF Same
<1>1. Ink((x \o (s \o u)) \o y) = Ink((x \o s) \o (u \o y))
  <2>1. x \o (s \o u) = (x \o s) \o u
    BY TextAssoc, ZenonT(40)
  <2>2. x \o s \in Text
    BY ConcatText
  <2>3. ((x \o s) \o u) \o y = (x \o s) \o (u \o y)
    BY <2>2, TextAssoc, ZenonT(40)
  <2> QED BY <2>1, <2>3
<1>2. Ink((x \o s) \o (u \o y)) = Ink((x \o t) \o (u \o y))
  <2>1. u \o y \in Text
    BY ConcatText
  <2> QED BY <2>1 DEF Same
<1>3. Ink((x \o t) \o (u \o y)) = Ink(((x \o t) \o u) \o y)
  <2>1. x \o t \in Text
    BY ConcatText
  <2> QED BY <2>1, TextAssoc, ZenonT(40)
<1>4. Ink(((x \o t) \o u) \o y) = Ink(((x \o t) \o v) \o y)
  <2>1. x \o t \in Text
    BY ConcatText
  <2> QED BY <2>1 DEF Same
<1>5. (x \o t) \o v = x \o (t \o v)
  BY TextAssoc, ZenonT(40)
<1> QED BY <1>1, <1>2, <1>3, <1>4, <1>5

LEMMA SameSpace == <<Space>> \in Text /\ Same(<<Space>>, <<>>)
<1>1. Space \in Piece /\ Space \in {Space, "."} /\ Space # "."
  BY PieceAssumption DEF Symbols, Space
<1>2. <<Space>> \in Text
  BY <1>1, TextOne
<1>3. ASSUME NEW x \in Text, NEW y \in Text
      PROVE  Ink((x \o <<Space>>) \o y) = Ink((x \o <<>>) \o y)
  <2>1. Ink((x \o <<Space>>) \o y) = Ink(x \o y)
    BY <1>1, InkDrop DEF Soft
  <2>2. x \o <<>> = x
    BY TextEmpty
  <2> QED BY <2>1, <2>2
<1> QED BY <1>2, <1>3 DEF Same

LEMMA SameDotIndex ==
    /\ <<".">> \in Text /\ <<"[">> \in Text
    /\ Same(<<".">> \o <<"[">>, <<"[">>)
<1>1. "." \in Piece /\ "[" \in Piece /\ "." \in Soft
  BY PieceAssumption DEF Symbols, Soft
<1>2. <<".">> \in Text /\ <<"[">> \in Text
  BY <1>1, TextOne
<1>3. ASSUME NEW x \in Text, NEW y \in Text
      PROVE  Ink((x \o (<<".">> \o <<"[">>)) \o y) = Ink((x \o <<"[">>) \o y)
  <2> DEFINE dot == <<".">>
             open == <<"[">>
             rest == open \o y
             all == (x \o dot) \o rest
  <2>1. /\ dot \in Text /\ Len(dot) = 1 /\ dot[1] = "."
        /\ open \in Text /\ Len(open) = 1 /\ open[1] = "["
    BY <1>1, TextOne
  <2> HIDE DEF dot, open
  <2>2. rest \in Text /\ x \o dot \in Text
    BY <2>1, ConcatText
  <2>3. (x \o (dot \o open)) \o y = all
    <3>1. x \o (dot \o open) = (x \o dot) \o open
      BY <2>1, TextAssoc
    <3>2. ((x \o dot) \o open) \o y = (x \o dot) \o (open \o y)
      <4> DEFINE xd == x \o dot
      <4>1. xd \in Text
        BY <2>2
      <4> HIDE DEF xd
      <4>2. (xd \o open) \o y = xd \o (open \o y)
        BY <2>1, <4>1, TextAssoc
      <4> QED BY <4>2 DEF xd
    <3> QED BY <3>1, <3>2
  <2>4. Len(x) \in Nat /\ Len(y) \in Nat
    BY TextLen
  <2>5. rest[1] = "[" /\ Len(rest) = 1 + Len(y)
    <3>1. /\ Len(open \o y) = Len(open) + Len(y)
          /\ \A i \in 1..(Len(open) + Len(y)) :
                (open \o y)[i] = IF i <= Len(open) THEN open[i] ELSE y[i - Len(open)]
      BY <2>1, ConcatAt
    <3> HIDE DEF rest
    <3>2. /\ Len(rest) = Len(open) + Len(y)
          /\ \A i \in 1..(Len(open) + Len(y)) :
                rest[i] = IF i <= Len(open) THEN open[i] ELSE y[i - Len(open)]
      BY <3>1 DEF rest
    <3> QED BY <2>1, <2>4, <3>2
  <2> DEFINE xd == x \o dot
  <2>6. xd \in Text /\ Len(xd) = Len(x) + 1 /\ xd[Len(x) + 1] = "."
    <3>1. /\ Len(x \o dot) = Len(x) + Len(dot)
          /\ \A i \in 1..(Len(x) + Len(dot)) :
                (x \o dot)[i] = IF i <= Len(x) THEN x[i] ELSE dot[i - Len(x)]
      BY <2>1, ConcatAt
    <3> HIDE DEF xd
    <3>2. /\ xd \in Text /\ Len(xd) = Len(x) + Len(dot)
          /\ \A i \in 1..(Len(x) + Len(dot)) : xd[i] = IF i <= Len(x) THEN x[i] ELSE dot[i - Len(x)]
      BY <2>2, <3>1 DEF xd
    <3> QED BY <2>1, <2>4, <3>2
  <2>7. all = xd \o rest
    OBVIOUS
  <2> HIDE DEF xd, rest
  <2>8. /\ Len(xd \o rest) = Len(xd) + Len(rest)
        /\ \A i \in 1..(Len(xd) + Len(rest)) :
              (xd \o rest)[i] = IF i <= Len(xd) THEN xd[i] ELSE rest[i - Len(xd)]
    BY <2>2, <2>6, ConcatAt DEF rest
  <2>9. all = (x \o dot) \o rest
    BY DEF rest
  <2> HIDE DEF all
  <2>10. /\ Len(all) = Len(xd) + Len(rest)
         /\ \A i \in 1..(Len(xd) + Len(rest)) :
               all[i] = IF i <= Len(xd) THEN xd[i] ELSE rest[i - Len(xd)]
    BY <2>7, <2>8
  <2>11. all[Len(x) + 1] = "." /\ all[Len(x) + 2] = "[" /\ Len(x) + 2 <= Len(all)
    BY <2>4, <2>5, <2>6, <2>10
  <2>12. BeforeIndex(all, Len(x) + 1)
    <3>1. Len(x) + 2 \in ((Len(x) + 1) + 1)..Len(all)
      BY <2>4, <2>5, <2>6, <2>10
    <3>2. \A k \in (Len(x) + 1)..((Len(x) + 2) - 1) : all[k] \in Soft
      BY <1>1, <2>4, <2>11
    <3> QED BY <2>11, <3>1, <3>2 DEF BeforeIndex, Soft
  <2>13. Ink(all) = Ink(x \o rest)
    <3>1. BeforeIndex((x \o <<".">>) \o rest, Len(x) + 1)
      BY <2>9, <2>12 DEF dot
    <3>2. rest \in Text
      BY <2>2 DEF rest
    <3>3. Ink((x \o <<".">>) \o rest) = Ink(x \o rest)
      BY <1>1, <3>1, <3>2, InkDrop
    <3> QED BY <2>9, <3>3 DEF dot
  <2>14. x \o rest = (x \o open) \o y
    BY <2>1, TextAssoc DEF rest
  <2> QED BY <2>3, <2>13, <2>14 DEF dot, open, all
<1> QED BY <1>2, <1>3 DEF Same

(* Numerals of the same number.                                            *)
LEMMA SameNumeral ==
    ASSUME NEW m \in Numeral, NEW n \in Numeral, NumberOf[m] = NumberOf[n]
    PROVE  <<m>> \in Text /\ <<n>> \in Text /\ Same(<<m>>, <<n>>)
<1>1. m \in Piece /\ n \in Piece
  BY NumeralAssumption
<1>2. /\ m # Space /\ m # "." /\ m # "[" /\ n # Space /\ n # "." /\ n # "["
  BY NumeralAssumption DEF Symbols
<1>3. Mark(m) = Mark(n)
  BY DEF Mark
<1> DEFINE one(c) == <<c>>
<1>4. /\ one(m) \in Text /\ Len(one(m)) = 1 /\ one(m)[1] = m
      /\ one(n) \in Text /\ Len(one(n)) = 1 /\ one(n)[1] = n
  BY <1>1, TextOne
<1> HIDE DEF one
<1>5. ASSUME NEW x \in Text, NEW y \in Text PROVE Ink((x \o one(m)) \o y) = Ink((x \o one(n)) \o y)
  <2> DEFINE p == Len(x) + 1
             all(c) == (x \o one(c)) \o y
  <2>1. Len(x) \in Nat /\ Len(y) \in Nat
    BY TextLen
  <2>2. ASSUME NEW c \in {m, n}
        PROVE  /\ all(c) \in Text /\ Len(all(c)) = Len(x) + 1 + Len(y)
               /\ all(c)[p] = c
               /\ \A i \in 1..Len(x) : all(c)[i] = x[i]
               /\ \A i \in (p + 1)..(Len(x) + 1 + Len(y)) : all(c)[i] = y[i - p]
    <3> DEFINE o == one(c)
               xo == x \o o
               w == xo \o y
    <3>1. o \in Text /\ Len(o) = 1 /\ o[1] = c
      BY <1>4
    <3> HIDE DEF o
    <3>2. /\ xo \in Text /\ Len(xo) = Len(x) + Len(o)
          /\ \A i \in 1..(Len(x) + Len(o)) : xo[i] = IF i <= Len(x) THEN x[i] ELSE o[i - Len(x)]
      BY <3>1, ConcatAt
    <3> HIDE DEF xo
    <3>3. /\ w \in Text /\ Len(w) = Len(xo) + Len(y)
          /\ \A i \in 1..(Len(xo) + Len(y)) : w[i] = IF i <= Len(xo) THEN xo[i] ELSE y[i - Len(xo)]
      BY <3>2, ConcatAt
    <3>4. all(c) = w
      BY DEF xo, o
    <3> HIDE DEF w, all
    <3>5. w[p] = c
      BY <2>1, <3>1, <3>2, <3>3
    <3>6. \A i \in 1..Len(x) : w[i] = x[i]
      BY <2>1, <3>1, <3>2, <3>3
    <3>7. \A i \in (p + 1)..(Len(x) + 1 + Len(y)) : w[i] = y[i - p]
      BY <2>1, <3>1, <3>2, <3>3
    <3>8. Len(w) = Len(x) + 1 + Len(y)
      BY <2>1, <3>1, <3>2, <3>3
    <3> QED BY <3>3, <3>4, <3>5, <3>6, <3>7, <3>8
  <2>3. m \in {m, n} /\ n \in {m, n}
    OBVIOUS
  <2> DEFINE am == all(m)
             an == all(n)
             len == Len(x) + 1 + Len(y)
  <2>4. /\ am \in Text /\ Len(am) = len /\ am[p] = m
        /\ an \in Text /\ Len(an) = len /\ an[p] = n
        /\ \A i \in 1..Len(x) : am[i] = x[i] /\ an[i] = x[i]
        /\ \A i \in (p + 1)..len : am[i] = y[i - p] /\ an[i] = y[i - p]
    <3> HIDE DEF all
    <3> QED BY <2>2, <2>3
  <2>5. len \in Nat /\ p \in 1..len
    BY <2>1
  <2> HIDE DEF am, an
  <2>6. \A i \in 1..len : am[i] = an[i] \/ (i = p /\ am[i] = m /\ an[i] = n)
    BY <2>1, <2>4
  <2> HIDE DEF len, p
  <2>7. ASSUME NEW i \in 1..len PROVE BeforeIndex(am, i) <=> BeforeIndex(an, i)
    <3>1. \A j \in 1..len : /\ am[j] = "[" <=> an[j] = "["
                            /\ am[j] \in {Space, "."} <=> an[j] \in {Space, "."}
      BY <1>2, <2>6
    <3>2. \A j \in (i + 1)..len : j \in 1..len /\ \A k \in i..(j - 1) : k \in 1..len
      BY <2>5
    <3>3. ASSUME BeforeIndex(am, i) PROVE BeforeIndex(an, i)
      <4>1. PICK j \in (i + 1)..len : am[j] = "[" /\ \A k \in i..(j - 1) : am[k] \in {Space, "."}
        BY <2>4, <3>3 DEF BeforeIndex
      <4>2. an[j] = "[" /\ \A k \in i..(j - 1) : an[k] \in {Space, "."}
        BY <3>1, <3>2, <4>1
      <4> QED BY <2>4, <4>2 DEF BeforeIndex
    <3>4. ASSUME BeforeIndex(an, i) PROVE BeforeIndex(am, i)
      <4>1. PICK j \in (i + 1)..len : an[j] = "[" /\ \A k \in i..(j - 1) : an[k] \in {Space, "."}
        BY <2>4, <3>4 DEF BeforeIndex
      <4>2. am[j] = "[" /\ \A k \in i..(j - 1) : am[k] \in {Space, "."}
        BY <3>1, <3>2, <4>1
      <4> QED BY <2>4, <4>2 DEF BeforeIndex
    <3> QED BY <3>3, <3>4
  <2>8. ASSUME NEW i \in 1..len PROVE Kept(am, i) = Kept(an, i)
    <3>1. CASE am[i] = an[i]
      BY <2>7, <3>1 DEF Kept
    <3>2. CASE am[i] = m /\ an[i] = n
      BY <1>2, <1>3, <3>2 DEF Kept
    <3> QED BY <2>6, <3>1, <3>2
  <2>9. AllKept(am) = AllKept(an)
    BY <2>4, <2>8 DEF AllKept
  <2>10. Ink(am) = Ink(an)
    BY <2>4, <2>9, InkIs
  <2> QED BY <2>10 DEF am, an
<1>6. Same(one(m), one(n))
  BY <1>5 DEF Same
<1> QED BY <1>4, <1>6 DEF one

-----------------------------------------------------------------------------
(***************************************************************************)
(* Cutting a text up: what is trimmed off is spaces, and what was split    *)
(* was joined at the cuts.                                                 *)
(***************************************************************************)
LEMMA SameSym == ASSUME NEW s, NEW t, Same(s, t) PROVE Same(t, s)
BY DEF Same

LEMMA AdjacentTexts ==
    ASSUME NEW s \in Text, NEW m \in Int, NEW k \in Int, NEW n \in Int,
           1 <= m, m <= k + 1, k <= n, n <= Len(s)
    PROVE  /\ SubSeq(s, m, k) \in Text /\ SubSeq(s, k + 1, n) \in Text
           /\ SubSeq(s, m, k) \o SubSeq(s, k + 1, n) = SubSeq(s, m, n)
<1>1. Len(s) \in Nat
  BY TextLen
<1>2. m \in 1..(Len(s) + 1) /\ k \in (m - 1)..Len(s) /\ n \in k..Len(s)
  BY <1>1
<1>3. SubSeq(s, m, k) \o SubSeq(s, k + 1, n) = SubSeq(s, m, n)
  BY <1>2, ConcatAdjacentSubSeq DEF Text
<1>4. SubSeq(s, m, k) \in Text /\ SubSeq(s, k + 1, n) \in Text
  <2>1. m >= 1 /\ k <= Len(s) /\ k + 1 \in Int /\ k + 1 >= 1 /\ n <= Len(s)
    BY <1>1
  <2> QED BY <2>1, PartOfText
<1> QED BY <1>3, <1>4

LEMMA WholeText == ASSUME NEW s \in Text PROVE SubSeq(s, 1, Len(s)) = s
BY SubSeqFull DEF Text

LEMMA OneOfText ==
    ASSUME NEW s \in Text, NEW k \in 1..Len(s)
    PROVE  /\ SubSeq(s, k, k) = <<s[k]>> /\ <<s[k]>> \in Text
           /\ SubSeq(s, 1, k) = SubSeq(s, 1, k - 1) \o <<s[k]>>
<1>1. Len(s) \in Nat /\ s[k] \in Piece
  BY TextLen
<1>2. <<s[k]>> \in Text /\ Len(<<s[k]>>) = 1 /\ <<s[k]>>[1] = s[k]
  BY <1>1, TextOne
<1>3. SubSeq(s, k, k) = <<s[k]>>
  <2>1. k \in Int /\ k <= k /\ \A i \in k..k : s[i] \in Piece
    BY <1>1
  <2>2. /\ SubSeq(s, k, k) \in Seq(Piece)
        /\ Len(SubSeq(s, k, k)) = IF k <= k THEN k - k + 1 ELSE 0
        /\ \A i \in 1..(k - k + 1) : SubSeq(s, k, k)[i] = s[k + i - 1]
    BY <2>1, SubSeqProperties
  <2> DEFINE u == SubSeq(s, k, k)
             v == <<s[k]>>
  <2>3. u \in Text /\ Len(u) = 1 /\ u[1] = s[k]
    <3> HIDE DEF u
    <3>1. u \in Seq(Piece) /\ Len(u) = IF k <= k THEN k - k + 1 ELSE 0
      BY <2>2 DEF u
    <3>2. \A i \in 1..(k - k + 1) : u[i] = s[k + i - 1]
      BY <2>2 DEF u
    <3>3. u[1] = s[k]
      BY <3>2
    <3> QED BY <3>1, <3>3 DEF Text
  <2>4. v \in Text /\ Len(v) = 1 /\ v[1] = s[k]
    BY <1>2
  <2> HIDE DEF u, v
  <2>5. u = v
    <3>1. \A i \in 1..Len(u) : u[i] = v[i]
      BY <2>3, <2>4
    <3> QED BY <2>3, <2>4, <3>1, TextEqual
  <2> QED BY <2>5 DEF u, v
<1>4. SubSeq(s, 1, k - 1) \o SubSeq(s, k, k) = SubSeq(s, 1, k)
  <2>1. /\ k - 1 \in Int /\ 1 <= (k - 1) + 1 /\ k - 1 <= k /\ k <= Len(s) /\ (k - 1) + 1 = k
    BY <1>1
  <2>2. SubSeq(s, 1, k - 1) \o SubSeq(s, (k - 1) + 1, k) = SubSeq(s, 1, k)
    BY <2>1, AdjacentTexts
  <2> QED BY <2>1, <2>2
<1> QED BY <1>2, <1>3, <1>4

LEMMA SameSpaces ==
    ASSUME NEW u \in Text, \A i \in 1..Len(u) : u[i] = Space
    PROVE  Same(u, <<>>)
<1> DEFINE T == {n \in 0..Len(u) : Same(SubSeq(u, 1, n), <<>>)}
<1>1. Len(u) \in Nat
  BY TextLen
<1>2. 0 \in T
  <2>1. SubSeq(u, 1, 0) = <<>>
    BY SubSeqEmpty
  <2>2. Same(SubSeq(u, 1, 0), <<>>)
    BY <2>1, SameRefl
  <2> QED BY <1>1, <2>2
<1>3. ASSUME NEW n \in 0..(Len(u) - 1), n \in T PROVE n + 1 \in T
  <2>1. n + 1 \in 1..Len(u) /\ n + 1 \in 0..Len(u) /\ (n + 1) - 1 = n
    BY <1>1
  <2>2. SubSeq(u, 1, n + 1) = SubSeq(u, 1, n) \o <<Space>>
    <3>1. u[n + 1] = Space
      BY <2>1
    <3> QED BY <2>1, <3>1, OneOfText
  <2>3. SubSeq(u, 1, n) \in Text
    <3>1. n \in Int /\ 1 >= 1 /\ n <= Len(u)
      BY <1>1
    <3> QED BY <3>1, PartOfText
  <2>4. Same(SubSeq(u, 1, n) \o <<Space>>, <<>> \o <<>>)
    BY <1>3, <2>3, SameSpace, SameConcat, SymbolTexts
  <2>5. <<>> \o <<>> = <<>>
    BY TextEmpty, SymbolTexts
  <2> QED BY <2>1, <2>2, <2>4, <2>5
<1>4. \A n \in 0..Len(u) : n \in T
  <2>1. \A n \in 0..(Len(u) - 1) : n \in T => n + 1 \in T
    BY <1>3
  <2> HIDE DEF T
  <2> QED BY <1>1, <1>2, <2>1, InductionUpTo
<1>5. Same(SubSeq(u, 1, Len(u)), <<>>)
  BY <1>1, <1>4
<1> QED BY <1>5, WholeText

LEMMA SameTrim == ASSUME NEW s \in Text PROVE Same(Trim(s), s)
<1> DEFINE inked == {i \in 1..Len(s) : s[i] # Space}
           a == Min(inked)
           b == Max(inked)
<1>1. Len(s) \in Nat
  BY TextLen
<1>2. CASE inked = {}
  <2>1. Trim(s) = <<>>
    BY <1>2 DEF Trim
  <2>2. Same(s, <<>>)
    BY <1>2, SameSpaces
  <2> QED BY <2>1, <2>2, SameSym
<1>3. CASE inked # {}
  <2>1. inked \subseteq 1..Len(s)
    OBVIOUS
  <2>2. /\ a \in inked /\ \A x \in inked : a <= x
        /\ b \in inked /\ \A x \in inked : x <= b
    <3> HIDE DEF inked
    <3>1. inked \subseteq Nat
      BY <1>1, <2>1
    <3>2. Min(inked) \in inked /\ \A x \in inked : Min(inked) <= x
      BY <1>3, <3>1, MinOf
    <3>3. Max(inked) \in inked /\ \A x \in inked : x <= Max(inked)
      BY <1>1, <1>3, <2>1, MaxIs
    <3> QED BY <3>2, <3>3
  <2>3. Trim(s) = SubSeq(s, a, b)
    BY <1>3 DEF Trim
  <2> HIDE DEF a, b
  <2>4. a \in 1..Len(s) /\ b \in 1..Len(s) /\ a <= b
    BY <2>2
  <2>5. \A i \in 1..Len(s) : i < a \/ i > b => s[i] = Space
    <3> SUFFICES ASSUME NEW i \in 1..Len(s), i < a \/ i > b, s[i] # Space PROVE FALSE
      OBVIOUS
    <3>1. a <= i /\ i <= b
      BY <2>2
    <3> QED BY <2>4, <3>1
  <2> HIDE DEF inked
  <2> DEFINE before == SubSeq(s, 1, a - 1)
             mid == SubSeq(s, a, b)
             after == SubSeq(s, b + 1, Len(s))
             head == SubSeq(s, 1, b)
  <2>6. /\ before \in Text /\ mid \in Text /\ before \o mid = head
    <3> DEFINE k == a - 1
    <3>1. k \in Int /\ 1 <= k + 1 /\ k <= b /\ b <= Len(s) /\ k + 1 = a /\ b \in Int
      BY <1>1, <2>4
    <3>2. before = SubSeq(s, 1, k)
      OBVIOUS
    <3> HIDE DEF k, before, mid, head
    <3>3. /\ SubSeq(s, 1, k) \in Text /\ SubSeq(s, k + 1, b) \in Text
          /\ SubSeq(s, 1, k) \o SubSeq(s, k + 1, b) = SubSeq(s, 1, b)
      BY <3>1, AdjacentTexts
    <3> QED BY <3>1, <3>2, <3>3 DEF mid, head
  <2>7. head \in Text /\ after \in Text /\ head \o after = s
    <3> DEFINE n == Len(s)
    <3>1. b \in Int /\ 1 <= b + 1 /\ b <= n /\ n \in Int /\ n <= Len(s)
      BY <1>1, <2>4
    <3>2. SubSeq(s, 1, n) = s /\ after = SubSeq(s, b + 1, n)
      BY WholeText
    <3> HIDE DEF n, head, after
    <3>3. /\ SubSeq(s, 1, b) \in Text /\ SubSeq(s, b + 1, n) \in Text
          /\ SubSeq(s, 1, b) \o SubSeq(s, b + 1, n) = SubSeq(s, 1, n)
      BY <3>1, AdjacentTexts
    <3> QED BY <3>2, <3>3 DEF head
  <2>8. Same(before, <<>>)
    <3>1. /\ Len(SubSeq(s, 1, a - 1)) = IF 1 <= a - 1 THEN (a - 1) - 1 + 1 ELSE 0
          /\ \A i \in 1..((a - 1) - 1 + 1) : SubSeq(s, 1, a - 1)[i] = s[1 + i - 1]
      <4>1. a - 1 \in Int /\ \A i \in 1..(a - 1) : s[i] \in Piece
        BY <1>1, <2>4, TextLen
      <4> QED BY <4>1, SubSeqProperties
    <3> HIDE DEF before
    <3>2. \A i \in 1..Len(before) : before[i] = Space
      <4>1. Len(before) = a - 1
        BY <2>4, <3>1 DEF before
      <4>2. \A i \in 1..((a - 1) - 1 + 1) : before[i] = s[1 + i - 1]
        BY <3>1 DEF before
      <4>3. \A i \in 1..(a - 1) : i \in 1..((a - 1) - 1 + 1) /\ 1 + i - 1 = i /\ i \in 1..Len(s) /\ i < a
        BY <1>1, <2>4
      <4> QED BY <2>5, <4>1, <4>2, <4>3
    <3> QED BY <2>6, <3>2, SameSpaces
  <2>9. Same(after, <<>>)
    <3>1. /\ Len(SubSeq(s, b + 1, Len(s))) = IF b + 1 <= Len(s) THEN Len(s) - (b + 1) + 1 ELSE 0
          /\ \A i \in 1..(Len(s) - (b + 1) + 1) : SubSeq(s, b + 1, Len(s))[i] = s[(b + 1) + i - 1]
      <4>1. b + 1 \in Int /\ Len(s) \in Int /\ \A i \in (b + 1)..Len(s) : s[i] \in Piece
        BY <1>1, <2>4, TextLen
      <4> QED BY <4>1, SubSeqProperties
    <3> HIDE DEF after
    <3>2. \A i \in 1..Len(after) : after[i] = Space
      <4>1. Len(after) = Len(s) - b
        BY <1>1, <2>4, <3>1 DEF after
      <4>2. \A i \in 1..(Len(s) - (b + 1) + 1) : after[i] = s[(b + 1) + i - 1]
        BY <3>1 DEF after
      <4>3. \A i \in 1..(Len(s) - b) : /\ i \in 1..(Len(s) - (b + 1) + 1) /\ (b + 1) + i - 1 = b + i
                                       /\ b + i \in 1..Len(s) /\ b + i > b
        BY <1>1, <2>4
      <4> QED BY <2>5, <4>1, <4>2, <4>3
    <3> QED BY <2>7, <3>2, SameSpaces
  <2> HIDE DEF before, mid, after, head
  <2>10. Same(before \o mid, <<>> \o mid)
    BY <2>6, <2>8, SameRefl, SameConcat, SymbolTexts
  <2>11. <<>> \o mid = mid /\ mid \o <<>> = mid
    BY <2>6, TextEmpty
  <2>12. Same(head, mid)
    BY <2>6, <2>10, <2>11
  <2>13. Same(head \o after, mid \o <<>>)
    BY <2>6, <2>7, <2>9, <2>12, SameConcat, SymbolTexts
  <2>14. Same(mid, s)
    BY <2>7, <2>11, <2>13, SameSym
  <2> QED BY <2>3, <2>14 DEF mid
<1> QED BY <1>2, <1>3

(* What holds of the first part, and of the parts up to each cut if up to  *)
(* the one before, holds of the text.                                      *)
LEMMA SplitRejoins ==
    ASSUME NEW s \in Text, NEW cuts, cuts \subseteq 1..Len(s), NEW sep, \A c \in cuts : s[c] = sep,
           NEW Q, <<1, Split(s, cuts)[1]>> \in Q,
           \A i \in 1..(Len(Split(s, cuts)) - 1) : \A t \in Text :
               <<i, t>> \in Q => <<i + 1, (t \o <<sep>>) \o Split(s, cuts)[i + 1]>> \in Q
    PROVE  Len(Split(s, cuts)) \in Nat \ {0} /\ <<Len(Split(s, cuts)), s>> \in Q
<1> DEFINE n == Cardinality(cuts)
           upto(c) == {d \in cuts : d <= c}
           Cut(i) == CHOOSE c \in cuts : Cardinality(upto(c)) = i
           first(i) == IF i = 1 THEN 1 ELSE Cut(i - 1) + 1
           last(i) == IF i > n THEN Len(s) ELSE Cut(i) - 1
           parts_ == Split(s, cuts)
           T == {j \in 0..n : <<j + 1, SubSeq(s, 1, last(j + 1))>> \in Q}
<1>1. Len(s) \in Nat
  BY TextLen
<1>2. IsFiniteSet(cuts) /\ n \in Nat
  <2>1. IsFiniteSet(1..Len(s))
    BY <1>1, FS_Interval
  <2> QED BY <2>1, FS_Subset, FS_CardinalityType
<1>3. ASSUME NEW i \in 1..n PROVE Cut(i) \in cuts /\ Cardinality(upto(Cut(i))) = i /\ Cut(i) \in 1..Len(s)
  <2>1. cuts \subseteq Int
    BY <1>1
  <2>2. \E c \in cuts : Cardinality({d \in cuts : d <= c}) = i
    BY <1>2, <2>1, RankExists
  <2>3. \E c \in cuts : Cardinality(upto(c)) = i
    BY <2>2
  <2> HIDE DEF upto
  <2> QED BY <2>3
<1>4. ASSUME NEW i \in 1..(n - 1) PROVE Cut(i) < Cut(i + 1)
  <2>1. i \in 1..n /\ i + 1 \in 1..n
    BY <1>2
  <2> DEFINE c == Cut(i)
             d == Cut(i + 1)
  <2>2. /\ c \in cuts /\ Cardinality(upto(c)) = i /\ c \in 1..Len(s)
        /\ d \in cuts /\ Cardinality(upto(d)) = i + 1 /\ d \in 1..Len(s)
    BY <1>3, <2>1
  <2> HIDE DEF c, d
  <2>3. ASSUME d <= c PROVE FALSE
    <3>1. upto(d) \subseteq upto(c)
      <4>1. cuts \subseteq Int /\ c \in Int /\ d \in Int
        BY <1>1, <2>2
      <4>2. ASSUME NEW x \in cuts, x <= d PROVE x <= c
        BY <2>3, <4>1, <4>2
      <4> QED BY <4>2
    <3>2. IsFiniteSet(upto(c))
      BY <1>2, FS_Subset
    <3> HIDE DEF upto
    <3>3. Cardinality(upto(d)) <= Cardinality(upto(c))
      BY <3>1, <3>2, FS_Subset
    <3> QED BY <2>2, <3>3
  <2>4. c < d
    BY <2>2, <2>3
  <2> QED BY <2>4 DEF c, d
<1> HIDE DEF Cut
<1>5. parts_ = [i \in 1..(n + 1) |-> SubSeq(s, first(i), last(i))] /\ Len(parts_) = n + 1
  <2>1. parts_ = [i \in 1..(n + 1) |-> SubSeq(s, first(i), last(i))]
    BY DEF Split, Cut
  <2> QED BY <1>2, <2>1
<1> HIDE DEF n
<1>6. 0 \in T
  <2>1. 1 \in 1..(n + 1) /\ first(1) = 1 /\ 0 + 1 = 1 /\ 0 \in 0..n
    BY <1>2
  <2>2. parts_[1] = SubSeq(s, 1, last(1))
    <3> HIDE DEF parts_, last
    <3> QED BY <1>5, <2>1
  <2>3. <<1, SubSeq(s, 1, last(1))>> \in Q
    BY <2>2
  <2> HIDE DEF last
  <2> QED BY <2>1, <2>3
<1>7. ASSUME NEW j \in 0..(n - 1), j \in T PROVE j + 1 \in T
  <2> DEFINE i == j + 1
             c == Cut(i)
             e == last(i + 1)
  <2>1. i \in 1..n /\ i + 1 \in 1..(n + 1) /\ i \in 1..(Len(parts_) - 1) /\ i \in 0..n
    <3> HIDE DEF parts_
    <3> QED BY <1>2, <1>5
  <2>2. c \in cuts /\ c \in 1..Len(s) /\ s[c] = sep
    BY <1>3, <2>1
  <2>3. last(i) = c - 1 /\ first(i + 1) = c + 1
    BY <1>2, <2>1
  <2>4. e \in Int /\ c <= e /\ e <= Len(s)
    <3>1. CASE i + 1 > n
      BY <1>1, <2>2, <3>1
    <3>2. CASE ~(i + 1 > n)
      <4>1. i \in 1..(n - 1) /\ i + 1 \in 1..n
        BY <1>2, <2>1, <3>2
      <4>2. c < Cut(i + 1) /\ Cut(i + 1) \in 1..Len(s)
        BY <1>3, <1>4, <4>1
      <4>3. e = Cut(i + 1) - 1
        BY <3>2
      <4> HIDE DEF c, e
      <4> QED BY <1>1, <2>2, <4>2, <4>3
    <3> QED BY <3>1, <3>2
  <2>5. parts_[i + 1] = SubSeq(s, c + 1, e)
    <3>1. parts_[i + 1] = SubSeq(s, first(i + 1), last(i + 1))
      <4> HIDE DEF parts_, first, last, i
      <4> QED BY <1>5, <2>1
    <3> QED BY <2>3, <3>1
  <2>6. <<i, SubSeq(s, 1, c - 1)>> \in Q
    BY <1>7, <2>3
  <2>7. SubSeq(s, 1, c - 1) \in Text
    <3>1. c - 1 \in Int /\ 1 >= 1 /\ c - 1 <= Len(s)
      BY <1>1, <2>2
    <3> HIDE DEF c
    <3> QED BY <3>1, PartOfText
  <2>8. <<i + 1, (SubSeq(s, 1, c - 1) \o <<sep>>) \o parts_[i + 1]>> \in Q
    <3> HIDE DEF c
    <3> QED BY <2>1, <2>6, <2>7
  <2>9. (SubSeq(s, 1, c - 1) \o <<sep>>) \o parts_[i + 1] = SubSeq(s, 1, e)
    <3> HIDE DEF c, e
    <3>1. SubSeq(s, 1, c) = SubSeq(s, 1, c - 1) \o <<sep>>
      BY <2>2, OneOfText
    <3>2. SubSeq(s, 1, c) \o SubSeq(s, c + 1, e) = SubSeq(s, 1, e)
      <4>1. c \in Int /\ 1 <= c + 1
        BY <2>2
      <4> QED BY <2>4, <4>1, AdjacentTexts
    <3> QED BY <2>5, <3>1, <3>2, Zenon
  <2> HIDE DEF c, e, last
  <2>10. <<i + 1, SubSeq(s, 1, last(i + 1))>> \in Q
    BY <2>8, <2>9 DEF e
  <2> QED BY <2>1, <2>10
<1>8. n \in T
  <2>1. \A j \in 0..(n - 1) : j \in T => j + 1 \in T
    BY <1>7
  <2> HIDE DEF T
  <2>2. \A j \in 0..n : j \in T
    BY <1>2, <1>6, <2>1, InductionUpTo
  <2> QED BY <1>2, <2>2
<1>9. SubSeq(s, 1, last(n + 1)) = s
  <2>1. last(n + 1) = Len(s)
    BY <1>2
  <2> QED BY <2>1, WholeText
<1>10. <<n + 1, s>> \in Q
  <2>1. <<n + 1, SubSeq(s, 1, last(n + 1))>> \in Q
    BY <1>8
  <2> QED BY <1>9, <2>1
<1>11. n + 1 \in Nat \ {0} /\ Len(parts_) = n + 1
  BY <1>2, <1>5
<1> HIDE DEF parts_
<1> QED BY <1>10, <1>11 DEF parts_

-----------------------------------------------------------------------------
(***************************************************************************)
(* What is parsed, written back, is the same text.                         *)
(***************************************************************************)
SpellOne(x, first) ==
    IF x.seg = "index"
    THEN <<"[", CHOOSE n \in Numeral : NumberOf[n] = x.at, "]">>
    ELSE (IF first THEN <<>> ELSE <<".">>) \o x.name

PathPieces(path) == [i \in 1..Len(path) |-> SpellOne(path[i], i = 1)]

LEMMA SpellOneTyped ==
    ASSUME NEW x \in Segment, NEW first PROVE SpellOne(x, first) \in Text
<1>1. CASE x.seg = "index"
  <2> DEFINE n == CHOOSE m \in Numeral : NumberOf[m] = x.at
  <2>1. x.at \in Spelled
    BY <1>1 DEF Segment
  <2>2. n \in Piece
    BY <2>1, NumeralOf
  <2>3. SpellOne(x, first) = <<"[", n, "]">>
    BY <1>1 DEF SpellOne
  <2> HIDE DEF n
  <2>4. "[" \in Piece /\ "]" \in Piece
    BY PieceAssumption DEF Symbols
  <2> QED BY <2>2, <2>3, <2>4, Words3, Zenon DEF Text
<1>2. CASE x.seg # "index"
  <2>1. x.name \in Text
    BY <1>2 DEF Segment, Text
  <2>2. SpellOne(x, first) = (IF first THEN <<>> ELSE <<".">>) \o x.name
    BY <1>2 DEF SpellOne
  <2>3. CASE first
    BY <2>1, <2>2, <2>3, SymbolTexts, ConcatText
  <2>4. CASE ~first
    BY <2>1, <2>2, <2>4, SymbolTexts, ConcatText
  <2> QED BY <2>3, <2>4
<1> QED BY <1>1, <1>2

LEMMA PathPiecesTyped ==
    ASSUME NEW path \in Seq(Segment)
    PROVE  PathPieces(path) \in Seq(Text) /\ SpellPath(path) = FlattenSeq(PathPieces(path))
<1>1. Len(path) \in Nat
  BY LenProperties
<1>2. \A i \in 1..Len(path) : SpellOne(path[i], i = 1) \in Text
  BY ElementOfSeq, SpellOneTyped
<1>3. PathPieces(path) \in Seq(Text)
  BY <1>1, <1>2, SeqDef DEF PathPieces
<1>4. SpellPath(path) = FlattenSeq(PathPieces(path))
  BY DEF SpellPath, PathPieces, SpellOne
<1> QED BY <1>3, <1>4

(* A path with one more segment.                                           *)
LEMMA SpellMore ==
    ASSUME NEW path \in Seq(Segment), NEW x \in Segment
    PROVE  /\ Append(path, x) \in Seq(Segment) /\ Append(path, x) # <<>>
           /\ SpellPath(Append(path, x)) = SpellPath(path) \o SpellOne(x, path = <<>>)
<1> DEFINE all == Append(path, x)
           n == Len(path)
           u == SpellOne(x, path = <<>>)
<1>1. n \in Nat
  BY LenProperties
<1>2. all \in Seq(Segment) /\ Len(all) = n + 1 /\ all[n + 1] = x /\ \A i \in 1..n : all[i] = path[i]
  BY AppendProperties
<1>3. all # <<>>
  <2>1. Len(all) # 0
    BY <1>1, <1>2
  <2> HIDE DEF all
  <2> QED BY <2>1, EmptySeq
<1> HIDE DEF all
<1>4. u \in Text
  BY SpellOneTyped
<1>5. SpellOne(all[n + 1], n + 1 = 1) = u
  <2>1. CASE path = <<>>
    <3>1. n = 0
      BY <2>1, EmptySeq
    <3> QED BY <1>2, <2>1, <3>1
  <2>2. CASE path # <<>>
    <3>1. n # 0
      BY <2>2, EmptySeq
    <3>2. ~(n + 1 = 1)
      BY <1>1, <3>1
    <3> QED BY <1>2, <2>2, <3>2 DEF SpellOne
  <2> QED BY <2>1, <2>2
<1> HIDE DEF u
<1>6. PathPieces(path) \in Seq(Text) /\ PathPieces(all) \in Seq(Text)
  BY <1>2, PathPiecesTyped
<1>7. PathPieces(all) = Append(PathPieces(path), u)
  <2> DEFINE p == PathPieces(path)
             a == PathPieces(all)
             w == Append(p, u)
  <2>1. Len(p) = n /\ Len(a) = n + 1
    BY <1>1, <1>2 DEF PathPieces
  <2>2. \A i \in 1..n : p[i] = SpellOne(path[i], i = 1)
    BY DEF PathPieces
  <2>3. \A i \in 1..(n + 1) : a[i] = SpellOne(all[i], i = 1)
    BY <1>2 DEF PathPieces
  <2>4. p \in Seq(Text) /\ a \in Seq(Text)
    BY <1>6
  <2> HIDE DEF p, a
  <2>5. w \in Seq(Text) /\ Len(w) = Len(p) + 1 /\ w[Len(p) + 1] = u /\ \A i \in 1..Len(p) : w[i] = p[i]
    BY <1>4, <2>4, AppendProperties
  <2> HIDE DEF w
  <2>6. ASSUME NEW i \in 1..(n + 1) PROVE a[i] = w[i]
    <3>1. CASE i = n + 1
      BY <1>5, <2>1, <2>3, <2>5, <3>1
    <3>2. CASE i # n + 1
      <4>1. i \in 1..n
        BY <1>1, <3>2
      <4> QED BY <1>2, <2>1, <2>2, <2>3, <2>5, <4>1
    <3> QED BY <3>1, <3>2
  <2>7. a = w
    <3>1. Len(a) = Len(w) /\ \A i \in 1..Len(a) : a[i] = w[i]
      BY <2>1, <2>5, <2>6
    <3> QED BY <2>4, <2>5, <3>1, SeqEqual
  <2> QED BY <2>7 DEF a, w, p
<1>8. SpellPath(all) = SpellPath(path) \o u
  <2>1. PathPieces(path) \in Seq(Seq(Piece)) /\ u \in Seq(Piece)
    BY <1>4, <1>6 DEF Text
  <2>2. FlattenSeq(Append(PathPieces(path), u)) = FlattenSeq(PathPieces(path)) \o u
    BY <2>1, FlattenAppend
  <2> QED BY <1>2, <1>7, <2>2, PathPiecesTyped
<1> QED BY <1>2, <1>3, <1>8 DEF all, u

LEMMA SpellNone == SpellPath(<<>>) = <<>>
<1>1. <<>> \in Seq(Segment) /\ Len(<<>>) = 0
  BY EmptySeq
<1>2. PathPieces(<<>>) = <<>>
  <2>1. PathPieces(<<>>) \in Seq(Text) /\ Len(PathPieces(<<>>)) = 0
    BY <1>1, PathPiecesTyped DEF PathPieces
  <2> QED BY <2>1, EmptySeq
<1> QED BY <1>1, <1>2, PathPiecesTyped, FlattenNone

(* An index is written in one way only.                                    *)
Bracketed(n) == (<<"[">> \o <<n>>) \o <<"]">>

LEMMA BracketedIs ==
    ASSUME NEW n \in Piece PROVE <<"[", n, "]">> = Bracketed(n) /\ Bracketed(n) \in Text
<1>1. "[" \in Piece /\ "]" \in Piece
  BY PieceAssumption DEF Symbols
<1>2. <<"[">> \in Text /\ <<n>> \in Text /\ <<"]">> \in Text
  BY <1>1, TextOne
<1>3. Bracketed(n) \in Text
  BY <1>2, ConcatText DEF Bracketed
<1> QED BY <1>3 DEF Bracketed

LEMMA SpellIndex ==
    ASSUME NEW n \in Numeral, NEW first
    PROVE  /\ Index(NumberOf[n]) \in Segment
           /\ SpellOne(Index(NumberOf[n]), first) \in Text /\ Bracketed(n) \in Text
           /\ Same(SpellOne(Index(NumberOf[n]), first), Bracketed(n))
           /\ Same(<<".">> \o Bracketed(n), Bracketed(n))
<1> DEFINE m == CHOOSE k \in Numeral : NumberOf[k] = NumberOf[n]
           open == <<"[">>
           close == <<"]">>
           dot == <<".">>
<1>1. m \in Numeral /\ NumberOf[m] = NumberOf[n]
  OBVIOUS
<1>2. SpellOne(Index(NumberOf[n]), first) = <<"[", m, "]">>
  BY DEF SpellOne, Index
<1>3. Index(NumberOf[n]) \in Segment
  BY IndexTyped
<1> HIDE DEF m
<1>4. <<m>> \in Text /\ <<n>> \in Text /\ Same(<<m>>, <<n>>)
  BY <1>1, SameNumeral
<1>5. m \in Piece /\ n \in Piece
  BY <1>1, NumeralAssumption
<1>6. "[" \in Piece /\ "]" \in Piece /\ "." \in Piece
  BY PieceAssumption DEF Symbols
<1>7. open \in Text /\ close \in Text /\ dot \in Text
  BY <1>6, TextOne
<1>8. Same(dot \o open, open)
  BY SameDotIndex
<1>9. /\ Bracketed(m) = (open \o <<m>>) \o close
      /\ Bracketed(n) = (open \o <<n>>) \o close
  BY DEF Bracketed
<1>10. /\ SpellOne(Index(NumberOf[n]), first) = Bracketed(m)
       /\ Bracketed(m) \in Text /\ Bracketed(n) \in Text
  BY <1>2, <1>5, BracketedIs
<1> DEFINE om == open \o <<m>>
           on == open \o <<n>>
<1> HIDE DEF open, close, dot
<1>11. om \in Text /\ on \in Text /\ Same(om, on)
  BY <1>4, <1>7, ConcatText, SameRefl, SameConcat
<1>12. Same(om \o close, on \o close)
  <2> HIDE DEF om, on
  <2> QED BY <1>7, <1>11, SameRefl, SameConcat
<1>13. Same(dot \o Bracketed(n), Bracketed(n))
  <2> DEFINE tail == <<n>> \o close
  <2>1. tail \in Text
    BY <1>4, <1>7, ConcatText
  <2>2. Bracketed(n) = open \o tail
    <3>1. (open \o <<n>>) \o close = open \o (<<n>> \o close)
      BY <1>4, <1>7, TextAssoc
    <3> QED BY <1>9, <3>1
  <2> HIDE DEF tail
  <2>3. dot \o (open \o tail) = (dot \o open) \o tail
    BY <1>7, <2>1, TextAssoc
  <2>4. Same((dot \o open) \o tail, open \o tail)
    <3> DEFINE both == dot \o open
    <3>1. both \in Text /\ Same(both, open)
      BY <1>7, <1>8, ConcatText
    <3> HIDE DEF both
    <3>2. Same(both \o tail, open \o tail)
      BY <1>7, <2>1, <3>1, SameRefl, SameConcat
    <3> QED BY <3>2 DEF both
  <2> QED BY <2>2, <2>3, <2>4
<1> QED BY <1>3, <1>9, <1>10, <1>12, <1>13 DEF om, on, dot

LEMMA TwoConcat == ASSUME NEW a, NEW b PROVE <<a>> \o <<b>> = <<a, b>>
<1> DEFINE S == {a, b}
           u == <<a>>
           v == <<b>>
           w == <<a, b>>
<1>1. /\ u \in Seq(S) /\ Len(u) = 1 /\ u[1] = a
      /\ v \in Seq(S) /\ Len(v) = 1 /\ v[1] = b
      /\ w \in Seq(S) /\ Len(w) = 2 /\ w[1] = a /\ w[2] = b
  OBVIOUS
<1> HIDE DEF S, u, v, w
<1>2. /\ u \o v \in Seq(S) /\ Len(u \o v) = Len(u) + Len(v)
      /\ \A i \in 1..(Len(u) + Len(v)) : (u \o v)[i] = IF i <= Len(u) THEN u[i] ELSE v[i - Len(u)]
  BY <1>1, ConcatProperties
<1> DEFINE all == u \o v
<1>3. /\ all \in Seq(S) /\ Len(all) = 2
      /\ \A i \in 1..2 : all[i] = IF i <= 1 THEN u[i] ELSE v[i - 1]
  <2> HIDE DEF all
  <2> QED BY <1>1, <1>2 DEF all
<1> HIDE DEF all
<1>4. all[1] = a /\ all[2] = b
  BY <1>1, <1>3
<1>5. \A i \in 1..Len(all) : all[i] = w[i]
  <2>1. \A i \in 1..2 : i = 1 \/ i = 2
    OBVIOUS
  <2> QED BY <1>1, <1>3, <1>4, <2>1
<1>6. all = w
  BY <1>1, <1>3, <1>5, SeqEqual
<1> QED BY <1>6 DEF all, u, v, w

(* What ParseSegment makes of a part, and how the part was written.        *)
LEMMA SegmentCases ==
    ASSUME NEW raw \in Text, ParseSegment(raw) # Missing
    PROVE  \/ ParseSegment(raw) = <<Field(raw)>>
           \/ \E n \in Numeral :
                 ParseSegment(raw) = <<Index(NumberOf[n])>> /\ raw = Bracketed(n)
           \/ \E n \in Numeral, f \in Text :
                 ParseSegment(raw) = <<Field(f), Index(NumberOf[n])>> /\ raw = f \o Bracketed(n)
<1> DEFINE open == PlacesOf(<<"[">>, raw)
           index == SubSeq(raw, Min(open) + 1, Len(raw) - 1)
           m == Min(open)
<1>1. CASE raw = <<>> \/ Last(raw) # "]"
  BY <1>1 DEF ParseSegment
<1>2. CASE ~(raw = <<>> \/ Last(raw) # "]")
  <2>1. open # {} /\ ~(Len(index) # 1 \/ index[1] \notin Numeral)
    BY <1>2 DEF ParseSegment
  <2>2. ParseSegment(raw) = (IF m = 1 THEN <<>> ELSE <<Field(SubSeq(raw, 1, m - 1))>>)
                                \o <<Index(NumberOf[index[1]])>>
    BY <1>2, <2>1 DEF ParseSegment
  <2>3. Len(raw) \in Nat /\ m \in 1..Len(raw) /\ m \in open
    <3>1. open \subseteq 1..Len(raw) /\ open \subseteq Nat
      <4>1. Len(<<"[">>) = 1
        OBVIOUS
      <4> QED BY <4>1, PlacesIn
    <3>2. m \in open
      <4> HIDE DEF open
      <4> QED BY <2>1, <3>1, MinOf
    <3> HIDE DEF open, m
    <3> QED BY <3>1, <3>2, TextLen
  <2>4. raw[m] = "["
    <3>1. SubSeq(raw, m, m + Len(<<"[">>) - 1) = <<"[">>
      BY <2>3 DEF PlacesOf
    <3> HIDE DEF m, open
    <3>2. m + Len(<<"[">>) - 1 = m
      BY <2>3
    <3>3. SubSeq(raw, m, m) = <<raw[m]>>
      BY <2>3, OneOfText
    <3>4. <<raw[m]>> = <<"[">>
      BY <3>1, <3>2, <3>3
    <3> QED BY <3>4
  <2>5. raw[Len(raw)] = "]"
    BY <1>2, LastIs
  <2> HIDE DEF m, open
  <2>6. m + 1 = Len(raw) - 1 /\ index[1] = raw[m + 1]
    <3>1. index = SubSeq(raw, m + 1, Len(raw) - 1)
      BY DEF m
    <3>2. m + 1 \in Int /\ Len(raw) - 1 \in Int /\ \A i \in (m + 1)..(Len(raw) - 1) : raw[i] \in Piece
      BY <2>3, TextLen
    <3>3. /\ Len(SubSeq(raw, m + 1, Len(raw) - 1))
                = IF m + 1 <= Len(raw) - 1 THEN (Len(raw) - 1) - (m + 1) + 1 ELSE 0
          /\ \A i \in 1..((Len(raw) - 1) - (m + 1) + 1) :
                SubSeq(raw, m + 1, Len(raw) - 1)[i] = raw[(m + 1) + i - 1]
      BY <3>2, SubSeqProperties
    <3> HIDE DEF index
    <3>4. /\ Len(index) = IF m + 1 <= Len(raw) - 1 THEN (Len(raw) - 1) - (m + 1) + 1 ELSE 0
          /\ \A i \in 1..((Len(raw) - 1) - (m + 1) + 1) : index[i] = raw[(m + 1) + i - 1]
      BY <3>1, <3>3
    <3>5. m + 1 = Len(raw) - 1
      BY <2>1, <2>3, <3>4
    <3>6. 1 \in 1..((Len(raw) - 1) - (m + 1) + 1) /\ (m + 1) + 1 - 1 = m + 1
      BY <2>3, <3>5
    <3>7. index[1] = raw[(m + 1) + 1 - 1]
      BY <3>4, <3>6
    <3> QED BY <3>5, <3>6, <3>7
  <2> DEFINE n == index[1]
             front == SubSeq(raw, 1, m - 1)
  <2>7. n \in Numeral /\ raw[m + 1] = n
    BY <2>1, <2>6
  <2> HIDE DEF index, n
  <2>8. front \in Text
    <3>1. m - 1 \in Int /\ 1 >= 1 /\ m - 1 <= Len(raw)
      BY <2>3
    <3> QED BY <3>1, PartOfText
  <2>9. raw = front \o Bracketed(n)
    <3> DEFINE o == <<"[">>
               d == <<n>>
               c == <<"]">>
    <3>1. /\ m \in 1..Len(raw) /\ m + 1 \in 1..Len(raw) /\ m + 2 \in 1..Len(raw) /\ m + 2 = Len(raw)
          /\ (m + 1) - 1 = m /\ (m + 2) - 1 = m + 1
      BY <2>3, <2>6
    <3>2. SubSeq(raw, 1, m) = front \o o /\ o \in Text
      BY <2>4, <3>1, OneOfText
    <3>3. SubSeq(raw, 1, m + 1) = SubSeq(raw, 1, m) \o d /\ d \in Text
      BY <2>7, <3>1, OneOfText
    <3>4. SubSeq(raw, 1, m + 2) = SubSeq(raw, 1, m + 1) \o c /\ c \in Text
      BY <2>5, <3>1, OneOfText
    <3>5. SubSeq(raw, 1, m + 2) = raw
      BY <3>1, WholeText
    <3>6. Bracketed(n) = (o \o d) \o c
      BY DEF Bracketed
    <3> HIDE DEF o, d, c, front
    <3>7. raw = ((front \o o) \o d) \o c
      BY <3>2, <3>3, <3>4, <3>5, Zenon
    <3>8. (front \o o) \o d = front \o (o \o d)
      BY <2>8, <3>2, <3>3, TextAssoc
    <3> DEFINE od == o \o d
    <3>9. od \in Text
      BY <3>2, <3>3, ConcatText
    <3> HIDE DEF od
    <3>10. (front \o od) \o c = front \o (od \o c)
      BY <2>8, <3>4, <3>9, TextAssoc
    <3> QED BY <3>6, <3>7, <3>8, <3>10, Zenon DEF od
  <2>10. CASE m = 1
    <3>1. ParseSegment(raw) = <<>> \o <<Index(NumberOf[n])>>
      BY <2>2, <2>10 DEF n
    <3>2. <<>> \o <<Index(NumberOf[n])>> = <<Index(NumberOf[n])>>
      OBVIOUS
    <3>3. front = <<>>
      <4>1. m - 1 < 1 /\ m - 1 \in Int
        BY <2>10
      <4> QED BY <4>1, SubSeqEmpty
    <3>4. raw = Bracketed(n)
      <4>1. Bracketed(n) \in Text
        BY <2>7, NumeralAssumption, BracketedIs
      <4> QED BY <2>9, <3>3, <4>1, TextEmpty
    <3> QED BY <2>7, <3>1, <3>2, <3>4
  <2>11. CASE m # 1
    <3>1. ParseSegment(raw) = <<Field(front)>> \o <<Index(NumberOf[n])>>
      BY <2>2, <2>11 DEF n
    <3>2. <<Field(front)>> \o <<Index(NumberOf[n])>> = <<Field(front), Index(NumberOf[n])>>
      BY TwoConcat
    <3> HIDE DEF front
    <3> QED BY <2>7, <2>8, <2>9, <3>1, <3>2
  <2> QED BY <2>10, <2>11
<1> QED BY <1>1, <1>2

Lead(path) == IF path = <<>> THEN <<>> ELSE <<".">>

LEMMA SegmentSame ==
    ASSUME NEW path \in Seq(Segment), NEW raw \in Text, ParseSegment(raw) # Missing
    PROVE  /\ path \o ParseSegment(raw) \in Seq(Segment) /\ path \o ParseSegment(raw) # <<>>
           /\ Same(SpellPath(path \o ParseSegment(raw)), SpellPath(path) \o (Lead(path) \o raw))
<1> DEFINE base == SpellPath(path)
           lead == Lead(path)
           first == path = <<>>
<1>1. base \in Text /\ lead \in Text
  BY SpellPathTyped, SymbolTexts DEF Lead
<1>2. ASSUME NEW f \in Text PROVE Field(f) \in Segment /\ SpellOne(Field(f), first) = lead \o f
  BY FieldTyped DEF SpellOne, Field, Lead
<1>3. ASSUME NEW x \in Segment PROVE path \o <<x>> = Append(path, x)
  BY AppendIsConcat
<1> HIDE DEF lead, base
<1>4. CASE ParseSegment(raw) = <<Field(raw)>>
  <2> DEFINE x == Field(raw)
  <2>1. x \in Segment /\ SpellOne(x, first) = lead \o raw
    BY <1>2
  <2>2. ParseSegment(raw) = <<x>>
    BY <1>4
  <2> HIDE DEF x
  <2>3. path \o ParseSegment(raw) = Append(path, x)
    BY <1>3, <2>1, <2>2
  <2>4. /\ Append(path, x) \in Seq(Segment) /\ Append(path, x) # <<>>
        /\ SpellPath(Append(path, x)) = base \o (lead \o raw)
    BY <2>1, SpellMore DEF base
  <2> QED BY <2>3, <2>4, SameRefl DEF base, lead
<1>5. ASSUME NEW n \in Numeral, ParseSegment(raw) = <<Index(NumberOf[n])>>, raw = Bracketed(n)
      PROVE  /\ path \o ParseSegment(raw) \in Seq(Segment) /\ path \o ParseSegment(raw) # <<>>
             /\ Same(SpellPath(path \o ParseSegment(raw)), base \o (lead \o raw))
  <2> DEFINE x == Index(NumberOf[n])
             u == SpellOne(x, first)
  <2>1. /\ x \in Segment /\ u \in Text /\ Same(u, raw) /\ Same(<<".">> \o raw, raw)
    BY <1>5, SpellIndex
  <2>2. ParseSegment(raw) = <<x>>
    BY <1>5
  <2> HIDE DEF x
  <2>3. path \o ParseSegment(raw) = Append(path, x)
    BY <1>3, <2>1, <2>2
  <2>4. /\ Append(path, x) \in Seq(Segment) /\ Append(path, x) # <<>>
        /\ SpellPath(Append(path, x)) = base \o u
    BY <2>1, SpellMore DEF base
  <2> HIDE DEF u
  <2>5. Same(raw, lead \o raw)
    <3>1. CASE first
      <4>1. lead \o raw = raw
        BY <3>1, TextEmpty DEF lead, Lead
      <4> QED BY <4>1, SameRefl
    <3>2. CASE ~first
      <4>1. lead = <<".">>
        BY <3>2 DEF lead, Lead
      <4> QED BY <2>1, <4>1, SameSym
    <3> QED BY <3>1, <3>2
  <2>6. Same(u, lead \o raw)
    BY <2>1, <2>5, SameTrans
  <2>7. Same(base \o u, base \o (lead \o raw))
    <3> DEFINE v == lead \o raw
    <3>1. v \in Text /\ Same(u, v)
      BY <1>1, <2>6, ConcatText
    <3> HIDE DEF v
    <3>2. Same(base \o u, base \o v)
      BY <1>1, <2>1, <3>1, SameRefl, SameConcat
    <3> QED BY <3>2 DEF v
  <2> QED BY <2>3, <2>4, <2>7
<1>6. ASSUME NEW n \in Numeral, NEW f \in Text,
             ParseSegment(raw) = <<Field(f), Index(NumberOf[n])>>, raw = f \o Bracketed(n)
      PROVE  /\ path \o ParseSegment(raw) \in Seq(Segment) /\ path \o ParseSegment(raw) # <<>>
             /\ Same(SpellPath(path \o ParseSegment(raw)), base \o (lead \o raw))
  <2> DEFINE x == Field(f)
             y == Index(NumberOf[n])
             longer == Append(path, x)
             all == Append(longer, y)
             u == SpellOne(y, longer = <<>>)
             b == Bracketed(n)
  <2>1. /\ x \in Segment /\ SpellOne(x, first) = lead \o f
        /\ y \in Segment /\ u \in Text /\ b \in Text /\ Same(u, b)
    BY <1>2, SpellIndex
  <2>2. ParseSegment(raw) = <<x, y>> /\ raw = f \o b
    BY <1>6
  <2> HIDE DEF x, y, b
  <2>3. longer \in Seq(Segment) /\ SpellPath(longer) = base \o (lead \o f)
    BY <2>1, SpellMore DEF base
  <2>4. path \o ParseSegment(raw) = all
    <3>1. <<x, y>> = <<x>> \o <<y>>
      BY TwoConcat
    <3>2. longer = path \o <<x>>
      BY <1>3, <2>1
    <3>3. all = longer \o <<y>>
      <4> HIDE DEF longer
      <4> QED BY <2>1, <2>3, AppendIsConcat
    <3>4. (path \o <<x>>) \o <<y>> = path \o (<<x>> \o <<y>>)
      <4> DEFINE S == Segment
                 v == <<x>>
                 w == <<y>>
      <4>1. v \in Seq(S) /\ w \in Seq(S) /\ path \in Seq(S)
        BY <2>1, OneSegment
      <4> HIDE DEF v, w, S
      <4>2. (path \o v) \o w = path \o (v \o w)
        BY <4>1, ConcatAssoc
      <4> QED BY <4>2 DEF v, w
    <3> QED BY <2>2, <3>1, <3>2, <3>3, <3>4, Zenon
  <2> HIDE DEF longer
  <2>5. all \in Seq(Segment) /\ all # <<>> /\ SpellPath(all) = SpellPath(longer) \o u
    BY <2>1, <2>3, SpellMore
  <2> HIDE DEF all, u
  <2> DEFINE lf == lead \o f
             blf == base \o lf
  <2>6. lf \in Text /\ blf \in Text
    BY <1>1, ConcatText
  <2>7. SpellPath(all) = blf \o u
    BY <2>3, <2>5
  <2>8. base \o (lead \o raw) = blf \o b
    <3>1. (lead \o f) \o b = lead \o (f \o b)
      BY <1>1, <2>1, TextAssoc, SMTT(20)
    <3>2. (base \o lf) \o b = base \o (lf \o b)
      <4>1. lf \in Text /\ b \in Text
        BY <2>1, <2>6
      <4> HIDE DEF lf
      <4> QED BY <1>1, <4>1, TextAssoc, SMTT(20)
    <3> QED BY <2>2, <3>1, <3>2, Zenon DEF lf, blf
  <2> HIDE DEF lf, blf
  <2>9. Same(blf \o u, blf \o b)
    BY <2>1, <2>6, SameRefl, SameConcat
  <2> QED BY <2>4, <2>5, <2>7, <2>8, <2>9
<1> QED BY <1>4, <1>5, <1>6, SegmentCases DEF base, lead

(* One more part, at the end.                                              *)
LEMMA FlattenMore ==
    ASSUME NEW S, NEW seqs \in Seq(Seq(S)), NEW i \in 0..(Len(seqs) - 1)
    PROVE  /\ seqs[i + 1] \in Seq(S)
           /\ FlattenSeq(SubSeq(seqs, 1, i)) \in Seq(S) /\ FlattenSeq(SubSeq(seqs, 1, i + 1)) \in Seq(S)
           /\ FlattenSeq(SubSeq(seqs, 1, i + 1)) = FlattenSeq(SubSeq(seqs, 1, i)) \o seqs[i + 1]
<1> DEFINE U == Seq(S)
           front == SubSeq(seqs, 1, i)
           more == SubSeq(seqs, 1, i + 1)
           x == seqs[i + 1]
<1>1. Len(seqs) \in Nat
  BY LenProperties
<1>2. x \in U
  <2>1. i + 1 \in 1..Len(seqs)
    BY <1>1
  <2> QED BY <2>1, ElementOfSeq
<1>3. /\ <<>> \o SubSeq(seqs, 1, i) \in Seq(U)
      /\ <<>> \o SubSeq(seqs, 1, i + 1) = Append(<<>> \o SubSeq(seqs, 1, i), seqs[i + 1])
  <2>1. <<>> \in Seq(U) /\ seqs \in Seq(U) /\ i \in 0..(Len(seqs) - 1)
    BY EmptySeq
  <2> HIDE DEF U
  <2> QED BY <2>1, ConcatFront
<1>4. SubSeq(seqs, 1, i) \in Seq(U) /\ SubSeq(seqs, 1, i + 1) \in Seq(U)
  <2>1. i \in Int /\ i + 1 \in Int /\ \A k \in 1..i : seqs[k] \in U
    <3>1. \A k \in 1..i : k \in 1..Len(seqs)
      BY <1>1
    <3> QED BY <3>1, ElementOfSeq
  <2>2. \A k \in 1..(i + 1) : seqs[k] \in U
    <3>1. \A k \in 1..(i + 1) : k \in 1..Len(seqs)
      BY <1>1
    <3> QED BY <3>1, ElementOfSeq
  <2> HIDE DEF U
  <2> QED BY <2>1, <2>2, SubSeqProperties
<1>5. more = Append(front, x)
  <2> HIDE DEF U
  <2>1. /\ <<>> \o SubSeq(seqs, 1, i) = SubSeq(seqs, 1, i)
        /\ <<>> \o SubSeq(seqs, 1, i + 1) = SubSeq(seqs, 1, i + 1)
    BY <1>4, ConcatEmptySeq
  <2> QED BY <1>3, <2>1, Zenon
<1>6. front \in Seq(Seq(S)) /\ more \in Seq(Seq(S)) /\ x \in Seq(S)
  BY <1>2, <1>4
<1> HIDE DEF front, more, x, U
<1>7. FlattenSeq(Append(front, x)) = FlattenSeq(front) \o x
  BY <1>6, FlattenAppend
<1>8. FlattenSeq(front) \in Seq(S) /\ FlattenSeq(more) \in Seq(S)
  BY <1>6, InFlatten
<1> QED BY <1>5, <1>6, <1>7, <1>8 DEF front, more, x

LEMMA SplitSome ==
    ASSUME NEW s \in Text, NEW cuts, cuts \subseteq 1..Len(s)
    PROVE  Len(Split(s, cuts)) # 0
<1> DEFINE raws == Split(s, cuts)
<1>1. Cardinality(cuts) \in Nat
  <2>1. IsFiniteSet(1..Len(s))
    BY TextLen, FS_Interval
  <2> QED BY <2>1, FS_Subset, FS_CardinalityType
<1>2. 1 \in DOMAIN raws
  <2>1. 1 \in 1..(Cardinality(cuts) + 1)
    BY <1>1
  <2> QED BY <2>1 DEF Split
<1>3. raws \in Seq(Text) /\ Len(raws) \in Nat
  BY SplitTyped
<1> HIDE DEF raws
<1>4. DOMAIN raws = 1..Len(raws)
  BY <1>3, LenProperties
<1> QED BY <1>2, <1>4 DEF raws

LEMMA PathSame ==
    ASSUME NEW s \in Text, ParsePath(s) # Missing
    PROVE  Same(SpellPath(ParsePath(s)), s)
<1> DEFINE cuts == {i \in 1..Len(s) : s[i] = "."}
           raws == Split(s, cuts)
           segments == Segments(s)
           upto(i) == FlattenSeq(SubSeq(segments, 1, i))
           Q == {p \in Nat \X Text :
                    /\ p[1] \in 1..Len(raws) /\ upto(p[1]) \in Seq(Segment) /\ upto(p[1]) # <<>>
                    /\ Same(SpellPath(upto(p[1])), p[2])}
<1>1. cuts \subseteq 1..Len(s) /\ \A c \in cuts : s[c] = "."
  OBVIOUS
<1>2. segments = [i \in 1..Len(raws) |-> ParseSegment(raws[i])]
  BY DEF Segments
<1>3. ParsePath(s) = FlattenSeq(segments) /\ Missing \notin ToSet(segments)
  BY DEF ParsePath
<1> HIDE DEF cuts
<1>4. raws \in Seq(Text) /\ Len(raws) \in Nat
  BY <1>1, SplitTyped
<1> HIDE DEF raws, segments
<1>5. ASSUME NEW i \in 1..Len(raws) PROVE ParseSegment(raws[i]) # Missing /\ raws[i] \in Text
  <2>1. raws[i] \in Text
    BY <1>4, ElementOfSeq
  <2>2. ParseSegment(raws[i]) # Missing
    BY <1>2, <1>3 DEF ToSet
  <2> QED BY <2>1, <2>2
<1>6. segments \in Seq(Seq(Segment)) /\ Len(segments) = Len(raws)
  <2>1. \A i \in 1..Len(raws) : ParseSegment(raws[i]) \in Seq(Segment)
    BY <1>5, SegmentTyped
  <2>2. segments \in Seq(Seq(Segment))
    BY <1>2, <1>4, <2>1, SeqDef
  <2> QED BY <1>2, <1>4, <2>2
<1>7. ASSUME NEW i \in 0..(Len(raws) - 1), upto(i) \in Seq(Segment)
      PROVE  /\ upto(i + 1) = upto(i) \o ParseSegment(raws[i + 1])
             /\ upto(i + 1) \in Seq(Segment) /\ upto(i + 1) # <<>>
             /\ Same(SpellPath(upto(i + 1)), SpellPath(upto(i)) \o (Lead(upto(i)) \o raws[i + 1]))
  <2>1. i + 1 \in 1..Len(raws)
    BY <1>4
  <2>2. segments[i + 1] = ParseSegment(raws[i + 1])
    BY <1>2, <2>1
  <2>3. upto(i + 1) = upto(i) \o segments[i + 1]
    <3>1. i \in 0..(Len(segments) - 1)
      BY <1>6
    <3> QED BY <1>6, <3>1, FlattenMore
  <2>4. upto(i + 1) = upto(i) \o ParseSegment(raws[i + 1])
    BY <2>2, <2>3, Zenon
  <2> DEFINE p == upto(i)
             q == upto(i + 1)
             raw == raws[i + 1]
  <2>5. p \in Seq(Segment) /\ raw \in Text /\ ParseSegment(raw) # Missing /\ q = p \o ParseSegment(raw)
    BY <1>5, <1>7, <2>1, <2>4
  <2> HIDE DEF p, q, raw
  <2>6. /\ q \in Seq(Segment) /\ q # <<>>
        /\ Same(SpellPath(q), SpellPath(p) \o (Lead(p) \o raw))
    BY <2>5, SegmentSame
  <2> QED BY <2>5, <2>6 DEF p, q, raw
<1>8. Len(raws) # 0 => <<1, raws[1]>> \in Q
  <2> SUFFICES ASSUME Len(raws) # 0 PROVE <<1, raws[1]>> \in Q
    OBVIOUS
  <2>1. 0 \in 0..(Len(raws) - 1) /\ 0 + 1 = 1 /\ 1 \in 1..Len(raws)
    BY <1>4
  <2>2. upto(0) = <<>>
    <3>1. SubSeq(segments, 1, 0) = <<>>
      BY SubSeqEmpty
    <3> QED BY <3>1, FlattenNone
  <2>3. upto(0) \in Seq(Segment)
    BY <2>2, EmptySeq
  <2> DEFINE one == upto(1)
  <2>4. /\ one \in Seq(Segment) /\ one # <<>>
        /\ Same(SpellPath(one), SpellPath(<<>>) \o (Lead(<<>>) \o raws[1]))
    <3> HIDE DEF upto
    <3>1. /\ upto(0 + 1) \in Seq(Segment) /\ upto(0 + 1) # <<>>
          /\ Same(SpellPath(upto(0 + 1)), SpellPath(upto(0)) \o (Lead(upto(0)) \o raws[0 + 1]))
      BY <1>7, <2>1, <2>3
    <3> QED BY <2>1, <2>2, <3>1
  <2>5. SpellPath(<<>>) \o (Lead(<<>>) \o raws[1]) = raws[1] /\ raws[1] \in Text
    BY <1>5, <2>1, SpellNone, TextEmpty DEF Lead
  <2> HIDE DEF one
  <2>6. one \in Seq(Segment) /\ one # <<>> /\ Same(SpellPath(one), raws[1])
    BY <2>4, <2>5
  <2> QED BY <2>1, <2>5, <2>6 DEF one
<1>9. ASSUME NEW i \in 1..(Len(raws) - 1), NEW t \in Text, <<i, t>> \in Q
      PROVE  <<i + 1, (t \o <<".">>) \o raws[i + 1]>> \in Q
  <2> DEFINE p == upto(i)
             q == upto(i + 1)
             raw == raws[i + 1]
             dot == <<".">>
  <2>1. i \in 0..(Len(raws) - 1) /\ i + 1 \in 1..Len(raws) /\ i + 1 \in Nat
    BY <1>4
  <2>2. p \in Seq(Segment) /\ p # <<>> /\ Same(SpellPath(p), t)
    BY <1>9
  <2>3. q \in Seq(Segment) /\ q # <<>> /\ Same(SpellPath(q), SpellPath(p) \o (Lead(p) \o raw))
    BY <1>7, <2>1, <2>2
  <2>4. raw \in Text /\ dot \in Text
    BY <1>5, <2>1, SymbolTexts
  <2>5. Lead(p) = dot
    BY <2>2 DEF Lead
  <2> HIDE DEF p, q, raw, dot
  <2>6. SpellPath(p) \in Text
    BY <2>2, SpellPathTyped
  <2> DEFINE dr == dot \o raw
  <2>7. dr \in Text
    BY <2>4, ConcatText
  <2>8. (t \o dot) \o raw = t \o dr
    BY <2>4, TextAssoc
  <2> HIDE DEF dr
  <2>9. Same(SpellPath(p) \o dr, t \o dr)
    BY <2>2, <2>6, <2>7, SameRefl, SameConcat
  <2>10. Same(SpellPath(q), (t \o dot) \o raw)
    BY <2>3, <2>5, <2>8, <2>9, SameTrans DEF dr
  <2>11. (t \o dot) \o raw \in Text
    BY <2>7, <2>8, ConcatText
  <2> DEFINE w == (t \o dot) \o raw
  <2> HIDE DEF w
  <2>12. <<i + 1, w>> \in Q
    BY <2>1, <2>3, <2>10, <2>11 DEF q, w
  <2> QED BY <2>12 DEF w, dot, raw
<1> HIDE DEF Q
<1>10. Len(raws) \in Nat \ {0} /\ <<Len(raws), s>> \in Q
  <2>1. \A i \in 1..(Len(raws) - 1) : \A t \in Text :
            <<i, t>> \in Q => <<i + 1, (t \o <<".">>) \o raws[i + 1]>> \in Q
    BY <1>9
  <2>2. Len(raws) # 0
    BY <1>1, SplitSome DEF raws
  <2>3. <<1, raws[1]>> \in Q
    BY <1>8, <2>2
  <2> QED BY <1>1, <2>1, <2>3, SplitRejoins DEF raws
<1>11. upto(Len(raws)) = ParsePath(s)
  <2>1. SubSeq(segments, 1, Len(segments)) = segments
    BY <1>6, SubSeqFull
  <2> QED BY <1>3, <1>6, <2>1
<1> HIDE DEF upto
<1>12. Same(SpellPath(upto(Len(raws))), s)
  BY <1>10 DEF Q
<1> QED BY <1>11, <1>12

LEMMA LiteralSame ==
    ASSUME NEW s \in Text, ParseLiteral(s) # Missing
    PROVE  Same(SpellLiteral(ParseLiteral(s)), s)
<1>1. Len(s) \in Nat
  BY TextLen
<1>2. CASE s = <<"true">>
  <2>1. ParseLiteral(s) = Bool(TRUE)
    BY <1>2 DEF ParseLiteral
  <2>2. SpellLiteral(Bool(TRUE)) = <<"true">>
    BY DEF SpellLiteral, Bool
  <2> QED BY <1>2, <2>1, <2>2, SameRefl
<1>3. CASE s # <<"true">> /\ s = <<"false">>
  <2>1. ParseLiteral(s) = Bool(FALSE)
    BY <1>3 DEF ParseLiteral
  <2>2. SpellLiteral(Bool(FALSE)) = <<"false">>
    BY DEF SpellLiteral, Bool
  <2> QED BY <1>3, <2>1, <2>2, SameRefl
<1>4. CASE s # <<"true">> /\ s # <<"false">> /\ Len(s) >= 2 /\ s[1] = Quote /\ Last(s) = Quote
  <2> DEFINE n == Len(s)
             mid == SubSeq(s, 2, n - 1)
             q == <<Quote>>
             front == SubSeq(s, 1, n - 1)
  <2>1. ParseLiteral(s) = String(mid)
    BY <1>4 DEF ParseLiteral
  <2>2. SpellLiteral(String(mid)) = q \o mid \o q
    BY DEF SpellLiteral, String
  <2>3. n \in Nat /\ n >= 2 /\ 1 \in 1..n /\ n \in 1..n /\ s[1] = Quote /\ s[n] = Quote
    BY <1>1, <1>4, LastIs
  <2>4. SubSeq(s, 1, 1) = q /\ s = front \o q
    <3>1. SubSeq(s, 1, 1) = <<s[1]>>
      BY <2>3, OneOfText
    <3>2. SubSeq(s, 1, n) = SubSeq(s, 1, n - 1) \o <<s[n]>>
      BY <2>3, OneOfText
    <3> QED BY <2>3, <3>1, <3>2, WholeText
  <2>5. front = q \o mid
    <3> DEFINE k == n - 1
    <3>1. 1 \in Int /\ k \in Int /\ 1 <= 1 + 1 /\ 1 <= k /\ k <= Len(s) /\ 1 + 1 = 2
      BY <2>3
    <3> HIDE DEF k, n
    <3>2. SubSeq(s, 1, 1) \o SubSeq(s, 1 + 1, k) = SubSeq(s, 1, k)
      BY <3>1, AdjacentTexts
    <3> QED BY <2>4, <3>1, <3>2 DEF k
  <2> HIDE DEF front, mid, q
  <2>6. SpellLiteral(ParseLiteral(s)) = s
    BY <2>1, <2>2, <2>4, <2>5, Zenon
  <2> QED BY <2>6, SameRefl
<1>5. CASE /\ s # <<"true">> /\ s # <<"false">>
           /\ ~(Len(s) >= 2 /\ s[1] = Quote /\ Last(s) = Quote)
  <2> DEFINE n == s[1]
             m == CHOOSE k \in Numeral : NumberOf[k] = NumberOf[n]
  <2>1. Len(s) = 1 /\ n \in Numeral /\ ParseLiteral(s) = Number(NumberOf[n])
    BY <1>5 DEF ParseLiteral
  <2>2. SpellLiteral(Number(NumberOf[n])) = <<m>>
    BY DEF SpellLiteral, Number
  <2>3. m \in Numeral /\ NumberOf[m] = NumberOf[n]
    BY <2>1
  <2> HIDE DEF m
  <2>4. s = <<n>>
    <3>1. 1 \in 1..Len(s)
      BY <2>1
    <3>2. SubSeq(s, 1, 1) = <<s[1]>>
      BY <3>1, OneOfText
    <3> QED BY <2>1, <3>2, WholeText
  <2>5. Same(<<m>>, <<n>>)
    BY <2>1, <2>3, SameNumeral
  <2> QED BY <2>1, <2>2, <2>4, <2>5
<1> QED BY <1>2, <1>3, <1>4, <1>5

-----------------------------------------------------------------------------
(* A clause written without more spaces than it needs.                     *)
LEMMA SuffixIs ==
    ASSUME NEW s \in Text, NEW t \in Text, IsSuffix(t, s)
    PROVE  StripSuffix(s, t) \in Text /\ s = StripSuffix(s, t) \o t
<1> DEFINE n == Len(s)
           m == Len(t)
           rs == Reverse(s)
           rt == Reverse(t)
           tail == SubSeq(s, (n - m) + 1, n)
<1>1. n \in Nat /\ m \in Nat /\ (\A i \in 1..n : s[i] \in Piece) /\ (\A i \in 1..m : t[i] \in Piece)
  BY TextLen
<1>2. /\ rs = [i \in 1..n |-> s[(n - i) + 1]] /\ rt = [i \in 1..m |-> t[(m - i) + 1]]
      /\ Len(rt) <= Len(rs) /\ SubSeq(rt, 1, Len(rt)) = SubSeq(rs, 1, Len(rt))
  BY DEF IsSuffix, IsPrefix, Reverse
<1>3. rs \in Text /\ rt \in Text /\ Len(rs) = n /\ Len(rt) = m
  <2>1. \A i \in 1..n : (n - i) + 1 \in 1..n
    BY <1>1
  <2>2. \A i \in 1..m : (m - i) + 1 \in 1..m
    BY <1>1
  <2> HIDE DEF n, m
  <2>3. rs \in [1..n -> Piece] /\ rt \in [1..m -> Piece]
    BY <1>1, <1>2, <2>1, <2>2
  <2> HIDE DEF rs, rt
  <2> QED BY <1>1, <2>3 DEF Text
<1> HIDE DEF rs, rt
<1>4. m <= n /\ \A k \in 1..m : rt[k] = rs[k]
  <2>1. m <= n
    BY <1>2, <1>3
  <2>2. SubSeq(rt, 1, m) = SubSeq(rs, 1, m)
    BY <1>2, <1>3
  <2>3. \A k \in 1..m : SubSeq(rt, 1, m)[k] = rt[k] /\ SubSeq(rs, 1, m)[k] = rs[k]
    BY <1>1, <1>3, <2>1 DEF Text
  <2> QED BY <2>1, <2>2, <2>3
<1>5. ASSUME NEW i \in 1..m PROVE t[i] = s[(n - m) + i]
  <2> DEFINE k == (m - i) + 1
  <2>1. k \in 1..m /\ k \in 1..n /\ (m - k) + 1 = i /\ (n - k) + 1 = (n - m) + i
    BY <1>1, <1>4
  <2> HIDE DEF k
  <2>2. rt[k] = t[i] /\ rs[k] = s[(n - m) + i]
    BY <1>2, <2>1
  <2> QED BY <1>4, <2>1, <2>2
<1>6. /\ 1 \in Int /\ n - m \in Int /\ n \in Int /\ 1 <= 1 /\ 1 <= (n - m) + 1 /\ n - m <= n /\ n <= n
      /\ n - m \in Nat
  BY <1>1, <1>4
<1>7. SubSeq(s, 1, n - m) \in Text /\ tail \in Text /\ SubSeq(s, 1, n - m) \o tail = SubSeq(s, 1, n)
  <2> DEFINE k == n - m
  <2> HIDE DEF k
  <2>1. k \in Int /\ 1 <= k + 1 /\ k <= n
    BY <1>6 DEF k
  <2>2. SubSeq(s, 1, k) \in Text /\ SubSeq(s, k + 1, n) \in Text
        /\ SubSeq(s, 1, k) \o SubSeq(s, k + 1, n) = SubSeq(s, 1, n)
    BY <1>6, <2>1, AdjacentTexts
  <2> QED BY <2>2 DEF k
<1>8. tail = t
  <2>1. Len(tail) = m /\ \A i \in 1..m : tail[i] = s[(n - m) + i]
    BY <1>1, <1>4 DEF Text
  <2> HIDE DEF tail
  <2> QED BY <1>1, <1>5, <1>7, <2>1, TextEqual
<1>9. StripSuffix(s, t) = SubSeq(s, 1, n - m)
  BY DEF StripSuffix
<1> QED BY <1>7, <1>8, <1>9, WholeText

LEMMA WithoutLiteralSame ==
    ASSUME NEW s \in Text, NEW suffix \in Text, NEW tail \in Text, IsSuffix(suffix, s),
           Same(tail, suffix), ParsePath(Trim(StripSuffix(s, suffix))) # Missing
    PROVE  Same(SpellPath(ParsePath(Trim(StripSuffix(s, suffix)))) \o tail, s)
<1> DEFINE front == StripSuffix(s, suffix)
           spelled == SpellPath(ParsePath(Trim(front)))
<1>1. front \in Text /\ s = front \o suffix
  BY SuffixIs
<1> HIDE DEF front
<1>2. Trim(front) \in Text /\ Same(Trim(front), front)
  BY <1>1, TrimTyped, SameTrim
<1>3. ParsePath(Trim(front)) # Missing
  BY DEF front
<1>4. spelled \in Text /\ Same(spelled, Trim(front))
  BY <1>2, <1>3, PathTyped, SpellPathTyped, PathSame
<1> HIDE DEF spelled
<1>5. Same(spelled, front)
  BY <1>2, <1>4, SameTrans
<1>6. Same(spelled \o tail, front \o suffix)
  BY <1>1, <1>4, <1>5, SameConcat
<1> QED BY <1>1, <1>6 DEF spelled, front

(* What is searched for is what is written.                                *)
IsSign(o) ==
    \/ o.op = "Contains" /\ o.text = <<Space, "contains", Space>>
    \/ /\ o.op \in DOMAIN Sign /\ o.text = Sign[o.op]
       /\ o.op # "Contains" /\ o.op # "Exists" /\ o.op # "NotExists"

LEMMA OpsWritten == \A o \in 1..Len(Ops) : Ops[o].text \in Text /\ IsSign(Ops[o])
<1>1. Len(Ops) = 7
  BY DEF Ops
<1>2. Ops[1].op = "Eq" /\ Ops[1].text = <<"=", "=">>
  BY DEF Ops
<1>3. Ops[2].op = "Ne" /\ Ops[2].text = <<"!", "=">>
  BY DEF Ops
<1>4. Ops[3].op = "Ge" /\ Ops[3].text = <<">", "=">>
  BY DEF Ops
<1>5. Ops[4].op = "Le" /\ Ops[4].text = <<"<", "=">>
  BY DEF Ops
<1>6. Ops[5].op = "Gt" /\ Ops[5].text = <<">">>
  BY DEF Ops
<1>7. Ops[6].op = "Lt" /\ Ops[6].text = <<"<">>
  BY DEF Ops
<1>8. Ops[7].op = "Contains" /\ Ops[7].text = <<Space, "contains", Space>>
  BY DEF Ops
<1>9. /\ DOMAIN Sign = {"Eq", "Ne", "Gt", "Ge", "Lt", "Le"}
      /\ Sign["Eq"] = <<"=", "=">> /\ Sign["Ne"] = <<"!", "=">> /\ Sign["Ge"] = <<">", "=">>
      /\ Sign["Le"] = <<"<", "=">> /\ Sign["Gt"] = <<">">> /\ Sign["Lt"] = <<"<">>
  BY DEF Sign
<1>10. ASSUME NEW o, o.op \in DOMAIN Sign, o.text = Sign[o.op]
       PROVE  o.text \in Text /\ IsSign(o)
  <2>1. o.text \in Text
    BY <1>10, SignTyped
  <2>2. o.op # "Contains" /\ o.op # "Exists" /\ o.op # "NotExists"
    BY <1>9, <1>10
  <2> QED BY <1>10, <2>1, <2>2 DEF IsSign
<1>11. Ops[1].text \in Text /\ IsSign(Ops[1])
  <2>1. Ops[1].op \in DOMAIN Sign /\ Ops[1].text = Sign[Ops[1].op]
    BY <1>2, <1>9
  <2> QED BY <1>10, <2>1
<1>12. Ops[2].text \in Text /\ IsSign(Ops[2])
  <2>1. Ops[2].op \in DOMAIN Sign /\ Ops[2].text = Sign[Ops[2].op]
    BY <1>3, <1>9
  <2> QED BY <1>10, <2>1
<1>13. Ops[3].text \in Text /\ IsSign(Ops[3])
  <2>1. Ops[3].op \in DOMAIN Sign /\ Ops[3].text = Sign[Ops[3].op]
    BY <1>4, <1>9
  <2> QED BY <1>10, <2>1
<1>14. Ops[4].text \in Text /\ IsSign(Ops[4])
  <2>1. Ops[4].op \in DOMAIN Sign /\ Ops[4].text = Sign[Ops[4].op]
    BY <1>5, <1>9
  <2> QED BY <1>10, <2>1
<1>15. Ops[5].text \in Text /\ IsSign(Ops[5])
  <2>1. Ops[5].op \in DOMAIN Sign /\ Ops[5].text = Sign[Ops[5].op]
    BY <1>6, <1>9
  <2> QED BY <1>10, <2>1
<1>16. Ops[6].text \in Text /\ IsSign(Ops[6])
  <2>1. Ops[6].op \in DOMAIN Sign /\ Ops[6].text = Sign[Ops[6].op]
    BY <1>7, <1>9
  <2> QED BY <1>10, <2>1
<1>17. Ops[7].text \in Text /\ IsSign(Ops[7])
  BY <1>8, SymbolTexts DEF IsSign
<1> SUFFICES ASSUME NEW o \in 1..Len(Ops) PROVE Ops[o].text \in Text /\ IsSign(Ops[o])
  OBVIOUS
<1>18. o = 1 \/ o = 2 \/ o = 3 \/ o = 4 \/ o = 5 \/ o = 6 \/ o = 7
  BY <1>1
<1> QED BY <1>11, <1>12, <1>13, <1>14, <1>15, <1>16, <1>17, <1>18, Zenon

(* A clause with a literal, written back.                                  *)
LEMMA SpellAtOperator ==
    ASSUME NEW path \in Seq(Segment), NEW literal \in Literal, NEW o \in 1..Len(Ops)
    PROVE  Spell(Clause(path, Ops[o].op, literal), <<>>)
               = SpellPath(path) \o (Ops[o].text \o SpellLiteral(literal))
<1> DEFINE op == Ops[o].op
           text == Ops[o].text
           lit == SpellLiteral(literal)
           rest == CASE op = "Exists" -> <<Space, "exists">>
                     [] op = "NotExists" -> <<Space, "not", Space, "exists">>
                     [] op = "Contains" -> <<Space, "contains", Space>> \o lit
                     [] OTHER -> <<>> \o Sign[op] \o <<>> \o lit
<1>1. text \in Text /\ IsSign(Ops[o])
  BY OpsWritten
<1>2. lit \in Text
  BY SpellLiteralTyped
<1>3. Spell(Clause(path, op, literal), <<>>) = SpellPath(path) \o rest
  BY DEF Spell, Clause
<1> HIDE DEF op, text, lit
<1>4. CASE op = "Contains" /\ text = <<Space, "contains", Space>>
  <2>1. rest = text \o lit
    BY <1>4
  <2> QED BY <1>3, <2>1 DEF op, text, lit
<1>5. CASE op \in DOMAIN Sign /\ text = Sign[op] /\ op # "Contains" /\ op # "Exists" /\ op # "NotExists"
  <2>1. rest = <<>> \o text \o <<>> \o lit
    BY <1>5
  <2>2. <<>> \o text = text /\ text \o <<>> = text
    BY <1>1, TextEmpty
  <2>3. rest = text \o lit
    BY <2>1, <2>2
  <2> HIDE DEF rest
  <2> QED BY <1>3, <2>3 DEF op, text, lit
<1> QED BY <1>1, <1>4, <1>5 DEF IsSign, op, text

LEMMA AtOperatorSame ==
    ASSUME NEW s \in Text, NEW o \in 1..Len(Ops), PlacesOf(Ops[o].text, s) # {},
           AtOperator(s, Ops[o]) # Missing
    PROVE  Same(Spell(AtOperator(s, Ops[o]), <<>>), s)
<1> DEFINE text == Ops[o].text
           at == Min(PlacesOf(text, s))
           left == SubSeq(s, 1, at - 1)
           right == SubSeq(s, at + Len(text), Len(s))
           path == ParsePath(Trim(left))
           literal == ParseLiteral(Trim(right))
<1>1. Len(text) \in Nat /\ Len(text) >= 1 /\ text \in Text
  BY OpsTyped, OpsWritten
<1>2. Len(s) \in Nat
  BY TextLen
<1>3. /\ at \in 1..Len(s) /\ (at - 1) + Len(text) <= Len(s)
      /\ SubSeq(s, at, at + Len(text) - 1) = text
  <2> HIDE DEF text
  <2>1. /\ PlacesOf(text, s) \subseteq 1..Len(s) /\ PlacesOf(text, s) \subseteq Nat
        /\ \A i \in PlacesOf(text, s) : i + Len(text) - 1 <= Len(s)
    BY <1>1, PlacesIn
  <2>2. PlacesOf(text, s) # {}
    BY DEF text
  <2>3. at \in PlacesOf(text, s)
    BY <2>1, <2>2, MinOf
  <2>4. SubSeq(s, at, at + Len(text) - 1) = text
    BY <2>3 DEF PlacesOf
  <2> HIDE DEF at
  <2> QED BY <1>1, <1>2, <2>1, <2>3, <2>4
<1>4. path # Missing /\ literal # Missing /\ AtOperator(s, Ops[o]) = Clause(path, Ops[o].op, literal)
  BY DEF AtOperator
<1> HIDE DEF at, text
<1> DEFINE before == at - 1
           end == before + Len(text)
<1>5. /\ 1 \in Int /\ before \in Int /\ end \in Int /\ Len(s) \in Int
      /\ 1 <= 1 /\ 1 <= before + 1 /\ before <= end /\ before <= Len(s) /\ 1 <= end + 1 /\ end <= Len(s)
      /\ Len(s) <= Len(s) /\ before + 1 = at /\ end + 1 = at + Len(text) /\ end = at + Len(text) - 1
      /\ end \in Nat
  BY <1>1, <1>2, <1>3
<1> HIDE DEF before, end
<1>6. /\ SubSeq(s, 1, before) \in Text /\ SubSeq(s, before + 1, end) \in Text
      /\ SubSeq(s, 1, before) \o SubSeq(s, before + 1, end) = SubSeq(s, 1, end)
  <2>1. 1 \in Int /\ before \in Int /\ end \in Int
    BY <1>5
  <2>2. 1 <= 1 /\ 1 <= before + 1 /\ before <= end /\ end <= Len(s)
    BY <1>5
  <2> QED BY <2>1, <2>2, AdjacentTexts
<1>7. /\ SubSeq(s, 1, end) \in Text /\ SubSeq(s, end + 1, Len(s)) \in Text
      /\ SubSeq(s, 1, end) \o SubSeq(s, end + 1, Len(s)) = SubSeq(s, 1, Len(s))
  BY <1>5, AdjacentTexts, ZenonT(40)
<1>8. SubSeq(s, before + 1, end) = text
  BY <1>3, <1>5
<1>9. left = SubSeq(s, 1, before) /\ right = SubSeq(s, end + 1, Len(s))
  BY <1>5 DEF before
<1>10. left \in Text /\ right \in Text /\ s = (left \o text) \o right
  BY <1>6, <1>7, <1>8, <1>9, WholeText
<1> HIDE DEF left, right
<1>11. /\ Trim(left) \in Text /\ Same(Trim(left), left)
       /\ Trim(right) \in Text /\ Same(Trim(right), right)
  BY <1>10, TrimTyped, SameTrim
<1>12. /\ path \in Seq(Segment) /\ literal \in Literal
       /\ Same(SpellPath(path), Trim(left)) /\ Same(SpellLiteral(literal), Trim(right))
  BY <1>4, <1>11, PathTyped, LiteralTyped, PathSame, LiteralSame
<1> HIDE DEF path, literal
<1> DEFINE p == SpellPath(path)
           lit == SpellLiteral(literal)
<1>13. p \in Text /\ lit \in Text /\ Same(p, left) /\ Same(lit, right)
  BY <1>11, <1>12, SpellPathTyped, SpellLiteralTyped, SameTrans
<1>14. Spell(AtOperator(s, Ops[o]), <<>>) = p \o (text \o lit)
  BY <1>4, <1>12, SpellAtOperator DEF text
<1> HIDE DEF p, lit
<1>15. Same(text \o lit, text \o right)
  BY <1>1, <1>10, <1>13, SameRefl, SameConcat
<1>16. text \o lit \in Text /\ text \o right \in Text
  BY <1>1, <1>10, <1>13, ConcatText
<1>17. Same(p \o (text \o lit), left \o (text \o right))
  BY <1>10, <1>13, <1>15, <1>16, SameConcat
<1>18. left \o (text \o right) = s
  BY <1>1, <1>10, TextAssoc, ZenonT(40)
<1> QED BY <1>14, <1>17, <1>18

LEMMA OneThreeConcat ==
    ASSUME NEW a, NEW b, NEW c, NEW d PROVE <<a>> \o <<b, c, d>> = <<a, b, c, d>>
<1> DEFINE S == {a, b, c, d}
           u == <<a>>
           v == <<b, c, d>>
           w == <<a, b, c, d>>
<1>1. /\ u \in Seq(S) /\ Len(u) = 1 /\ u[1] = a
      /\ v \in Seq(S) /\ Len(v) = 3 /\ v[1] = b /\ v[2] = c /\ v[3] = d
      /\ w \in Seq(S) /\ Len(w) = 4 /\ w[1] = a /\ w[2] = b /\ w[3] = c /\ w[4] = d
  BY Words1, Words3, Words4
<1> HIDE DEF S, u, v, w
<1> DEFINE all == u \o v
<1>2. /\ all \in Seq(S) /\ Len(all) = Len(u) + Len(v)
      /\ \A i \in 1..(Len(u) + Len(v)) : all[i] = IF i <= Len(u) THEN u[i] ELSE v[i - Len(u)]
  BY <1>1, ConcatProperties
<1> HIDE DEF all
<1>3. all[1] = a /\ all[2] = b /\ all[3] = c /\ all[4] = d
  BY <1>1, <1>2
<1>4. \A i \in 1..Len(all) : all[i] = w[i]
  <2>1. \A i \in 1..4 : i = 1 \/ i = 2 \/ i = 3 \/ i = 4
    OBVIOUS
  <2> QED BY <1>1, <1>2, <1>3, <2>1
<1>5. all = w
  <2>1. Len(all) = Len(w)
    BY <1>1, <1>2
  <2> QED BY <1>1, <1>2, <1>4, <2>1, SeqEqual
<1> QED BY <1>5 DEF all, u, v, w

LEMMA SpaceBefore == ASSUME NEW t \in Text PROVE <<Space>> \o t \in Text /\ Same(<<Space>> \o t, t)
<1>1. <<Space>> \in Text /\ Same(<<Space>>, <<>>) /\ <<>> \in Text
  BY SameSpace, SymbolTexts
<1>2. Same(<<Space>> \o t, <<>> \o t)
  BY <1>1, SameRefl, SameConcat
<1> QED BY <1>1, <1>2, ConcatText, TextEmpty

LEMMA ClauseSame ==
    ASSUME NEW s \in Text, ParseClause(s) # Missing
    PROVE  Same(Spell(ParseClause(s), <<>>), s)
<1> DEFINE notExists == <<"not", Space, "exists">>
           exists == <<"exists">>
<1>1. CASE IsSuffix(notExists, s)
  <2> DEFINE path == ParsePath(Trim(StripSuffix(s, notExists)))
             tail == <<Space, "not", Space, "exists">>
  <2>1. path # Missing /\ ParseClause(s) = Clause(path, "NotExists", Missing)
    BY <1>1 DEF ParseClause, WithoutLiteral
  <2>2. Spell(Clause(path, "NotExists", Missing), <<>>) = SpellPath(path) \o tail
    BY DEF Spell, Clause
  <2>3. notExists \in Text /\ tail \in Text
    <3>1. "not" \in Piece /\ Space \in Piece /\ "exists" \in Piece
      BY PieceAssumption DEF Symbols
    <3> QED BY <3>1, SymbolTexts, Words3 DEF Text
  <2>4. <<Space>> \o notExists = tail
    BY OneThreeConcat, Zenon
  <2> HIDE DEF notExists, tail
  <2>5. Same(tail, notExists)
    BY <2>3, <2>4, SpaceBefore
  <2>6. Same(SpellPath(path) \o tail, s)
    BY <1>1, <2>1, <2>3, <2>5, WithoutLiteralSame
  <2> QED BY <2>1, <2>2, <2>6
<1>2. CASE ~IsSuffix(notExists, s) /\ IsSuffix(exists, s)
  <2> DEFINE path == ParsePath(Trim(StripSuffix(s, exists)))
             tail == <<Space, "exists">>
  <2>1. path # Missing /\ ParseClause(s) = Clause(path, "Exists", Missing)
    BY <1>2 DEF ParseClause, WithoutLiteral
  <2>2. Spell(Clause(path, "Exists", Missing), <<>>) = SpellPath(path) \o tail
    BY DEF Spell, Clause
  <2>3. exists \in Text /\ tail \in Text
    <3>1. "exists" \in Piece
      BY PieceAssumption DEF Symbols
    <3> QED BY <3>1, SymbolTexts, Words1 DEF Text
  <2>4. <<Space>> \o exists = tail
    BY TwoConcat, Zenon
  <2> HIDE DEF exists, tail
  <2>5. Same(tail, exists)
    BY <2>3, <2>4, SpaceBefore
  <2>6. Same(SpellPath(path) \o tail, s)
    BY <1>2, <2>1, <2>3, <2>5, WithoutLiteralSame
  <2> QED BY <2>1, <2>2, <2>6
<1>3. CASE ~IsSuffix(notExists, s) /\ ~IsSuffix(exists, s)
  <2>1. PICK o \in 1..Len(Ops) : PlacesOf(Ops[o].text, s) # {} /\ ParseClause(s) = AtOperator(s, Ops[o])
    BY <1>3, AtOneOperator
  <2> QED BY <2>1, AtOperatorSame
<1> QED BY <1>1, <1>2, <1>3

-----------------------------------------------------------------------------
(* All clauses, written back: split at each top-level `&&`, the parts and  *)
(* the `&&` between them are the text again.                               *)
LEMMA AllSame ==
    ASSUME NEW s \in Text, NEW clauses \in Seq(ClauseText),
           NEW texts, texts = Split(s, TopLevelAnds(s)), Len(clauses) = Len(texts),
           \A i \in 1..Len(clauses) :
               ParseClause(Trim(texts[i])) # Missing /\ clauses[i] = ParseClause(Trim(texts[i]))
    PROVE  SpellAll(clauses, <<>>) \in Text /\ Same(SpellAll(clauses, <<>>), s)
<1> DEFINE n == Len(clauses)
           cuts == TopLevelAnds(s)
           and == <<"&&">>
           written(i) == Spell(clauses[i], <<>>)
           piece(i) == (IF i = 1 THEN <<>> ELSE <<>> \o and \o <<>>) \o written(i)
           pieces == [i \in 1..n |-> piece(i)]
           upto(i) == FlattenSeq(SubSeq(pieces, 1, i))
           Q == {p \in Nat \X Text :
                    p[1] \in 1..n /\ upto(p[1]) \in Text /\ Same(upto(p[1]), p[2])}
<1>1. cuts \subseteq 1..Len(s) /\ \A c \in cuts : s[c] = "&&"
  BY DEF TopLevelAnds
<1>2. SpellAll(clauses, <<>>) = FlattenSeq(pieces)
  BY DEF SpellAll
<1> HIDE DEF cuts
<1>3. texts \in Seq(Text) /\ n \in Nat /\ n # 0 /\ n = Len(texts)
  BY <1>1, SplitTyped, SplitSome DEF cuts
<1>4. and \in Text /\ <<>> \in Text
  BY SymbolTexts
<1> HIDE DEF n, and
<1>5. ASSUME NEW i \in 1..n
      PROVE  written(i) \in Text /\ texts[i] \in Text /\ Same(written(i), texts[i])
  <2>1. texts[i] \in Text
    BY <1>3, ElementOfSeq
  <2>2. Trim(texts[i]) \in Text /\ Same(Trim(texts[i]), texts[i])
    BY <2>1, TrimTyped, SameTrim
  <2>3. ParseClause(Trim(texts[i])) # Missing /\ clauses[i] = ParseClause(Trim(texts[i]))
    BY DEF n
  <2>4. written(i) \in Text /\ Same(written(i), Trim(texts[i]))
    BY <1>4, <2>2, <2>3, ClauseTyped, SpellTyped, ClauseSame
  <2> QED BY <2>1, <2>2, <2>4, SameTrans
<1> HIDE DEF written
<1>6. ASSUME NEW i \in 1..n
      PROVE  /\ piece(i) \in Text
             /\ i = 1 => piece(i) = written(i)
             /\ i # 1 => piece(i) = and \o written(i)
  <2>1. written(i) \in Text
    BY <1>5
  <2>2. CASE i = 1
    <3>1. piece(i) = <<>> \o written(i)
      BY <2>2
    <3> QED BY <2>1, <2>2, <3>1, TextEmpty
  <2>3. CASE i # 1
    <3>1. piece(i) = (<<>> \o and \o <<>>) \o written(i)
      BY <2>3
    <3>2. <<>> \o and \o <<>> = and
      BY <1>4, TextEmpty
    <3>3. piece(i) = and \o written(i)
      BY <3>1, <3>2, Zenon
    <3> QED BY <1>4, <2>1, <2>3, <3>3, ConcatText
  <2> QED BY <2>2, <2>3
<1> HIDE DEF piece
<1>7. pieces \in Seq(Text) /\ Len(pieces) = n /\ \A i \in 1..n : pieces[i] = piece(i)
  <2>1. \A i \in 1..n : piece(i) \in Text
    BY <1>6
  <2>2. pieces \in Seq(Text)
    BY <1>3, <2>1, SeqDef
  <2> QED BY <1>3, <2>2
<1> HIDE DEF pieces
<1>8. ASSUME NEW i \in 0..(n - 1)
      PROVE  upto(i + 1) = upto(i) \o piece(i + 1) /\ upto(i) \in Text /\ upto(i + 1) \in Text
  <2>1. i \in 0..(Len(pieces) - 1) /\ i + 1 \in 1..n
    BY <1>3, <1>7
  <2>2. pieces \in Seq(Seq(Piece))
    BY <1>7 DEF Text
  <2>3. upto(i + 1) = upto(i) \o pieces[i + 1] /\ upto(i) \in Seq(Piece) /\ upto(i + 1) \in Seq(Piece)
    BY <2>1, <2>2, FlattenMore
  <2> QED BY <1>7, <2>1, <2>3 DEF Text
<1>9. <<1, texts[1]>> \in Q
  <2>1. 1 \in 1..n /\ 0 \in 0..(n - 1) /\ 0 + 1 = 1 /\ 1 \in Nat
    BY <1>3
  <2>2. upto(0) = <<>>
    <3>1. SubSeq(pieces, 1, 0) = <<>>
      BY SubSeqEmpty
    <3> QED BY <3>1, FlattenNone
  <2> HIDE DEF upto
  <2>3. upto(1) = upto(0) \o piece(1)
    BY <1>8, <2>1
  <2>4. piece(1) = written(1) /\ written(1) \in Text /\ texts[1] \in Text /\ Same(written(1), texts[1])
    BY <1>5, <1>6, <2>1
  <2>5. upto(1) = written(1)
    BY <2>2, <2>3, <2>4, TextEmpty
  <2>6. upto(1) \in Text /\ Same(upto(1), texts[1]) /\ texts[1] \in Text
    BY <2>4, <2>5
  <2> QED BY <2>1, <2>6
<1>10. ASSUME NEW i \in 1..(n - 1), NEW t \in Text, <<i, t>> \in Q
       PROVE  <<i + 1, (t \o and) \o texts[i + 1]>> \in Q
  <2> DEFINE p == upto(i)
             q == upto(i + 1)
             w == written(i + 1)
             text == texts[i + 1]
  <2>1. i \in 0..(n - 1) /\ i + 1 \in 1..n /\ i + 1 \in Nat /\ i + 1 # 1
    BY <1>3
  <2>2. p \in Text /\ Same(p, t)
    BY <1>10
  <2>3. q \in Text /\ q = p \o piece(i + 1)
    BY <1>8, <2>1
  <2>4. w \in Text /\ text \in Text /\ Same(w, text) /\ piece(i + 1) = and \o w
    BY <1>5, <1>6, <2>1
  <2> HIDE DEF p, q, w, text
  <2>5. q = p \o (and \o w)
    BY <2>3, <2>4
  <2> DEFINE aw == and \o w
             at == and \o text
  <2>6. aw \in Text /\ at \in Text /\ Same(aw, at)
    BY <1>4, <2>4, ConcatText, SameRefl, SameConcat
  <2>7. (t \o and) \o text = t \o at
    BY <1>4, <2>4, TextAssoc
  <2>8. q = p \o aw
    BY <2>5
  <2> HIDE DEF aw, at
  <2>9. Same(p \o aw, t \o at) /\ t \o at \in Text
    BY <2>2, <2>6, SameConcat, ConcatText
  <2> DEFINE all == (t \o and) \o text
  <2>10. all \in Text /\ Same(q, all)
    BY <2>7, <2>8, <2>9
  <2> HIDE DEF all
  <2>11. <<i + 1, all>> \in Q
    BY <2>1, <2>3, <2>10 DEF q
  <2> QED BY <2>11 DEF all, text
<1> HIDE DEF Q
<1>11. Len(texts) \in Nat \ {0} /\ <<Len(texts), s>> \in Q
  <2>1. \A i \in 1..(Len(texts) - 1) : \A t \in Text :
            <<i, t>> \in Q => <<i + 1, (t \o <<"&&">>) \o texts[i + 1]>> \in Q
    BY <1>3, <1>10 DEF and
  <2>2. texts = Split(s, cuts)
    BY DEF cuts
  <2> QED BY <1>1, <1>9, <2>1, <2>2, SplitRejoins
<1>12. upto(n) \in Text /\ Same(upto(n), s)
  BY <1>3, <1>11 DEF Q
<1>13. upto(n) = FlattenSeq(pieces)
  <2>1. SubSeq(pieces, 1, Len(pieces)) = pieces
    BY <1>7, SubSeqFull
  <2> QED BY <1>7, <2>1
<1> HIDE DEF upto
<1> QED BY <1>2, <1>12, <1>13

-----------------------------------------------------------------------------
(* The clauses there are come from the parts in order; what is rejected is *)
(* nothing but spaces, or its next part is no clause.                      *)
FromParts ==
    pc # "split" =>
        \/ pc = "rejected" /\ Trim(SourceOf(input)) = <<>>
        \/ /\ parts = Split(Trim(SourceOf(input)), TopLevelAnds(Trim(SourceOf(input))))
           /\ \A i \in 1..Len(compiled) :
                 /\ ParseClause(Trim(parts[i])) # Missing
                 /\ compiled[i] = ParseClause(Trim(parts[i]))
           /\ pc = "rejected" =>
                 Len(compiled) < Len(parts) /\ ParseClause(Trim(parts[Len(compiled) + 1])) = Missing
           /\ Accepted => Len(compiled) = Len(parts)

LEMMA FromPartsKept == ASSUME IInv, FromParts, Next PROVE FromParts'
<1>1. CASE SplitSource
  <2>1. Len(compiled) = 0
    BY <1>1, EmptySeq DEF SplitSource, IInv, Tested
  <2> QED BY <1>1, <2>1 DEF SplitSource, FromParts, Accepted
<1>2. CASE CompileClause
  <2> DEFINE n == Len(compiled)
             clause == ParseClause(Trim(parts[n + 1]))
             source == Trim(SourceOf(input))
  <2>1. /\ pc = "clauses" /\ UNCHANGED <<input, parts>> /\ n < Len(parts)
        /\ clause = Missing => pc' = "rejected" /\ compiled' = compiled
        /\ clause # Missing => pc' = "clauses" /\ compiled' = Append(compiled, clause)
    BY <1>2 DEF CompileClause
  <2>2. /\ parts = Split(source, TopLevelAnds(source))
        /\ \A i \in 1..n :
              ParseClause(Trim(parts[i])) # Missing /\ compiled[i] = ParseClause(Trim(parts[i]))
    BY <2>1 DEF FromParts
  <2>3. CASE clause = Missing
    BY <2>1, <2>2, <2>3 DEF FromParts, Accepted
  <2>4. CASE clause # Missing
    <3>1. compiled \in Seq(ClauseText) /\ n \in Nat
      BY LenProperties DEF IInv, TypeOK
    <3>2. compiled' = Append(compiled, clause)
      BY <2>1, <2>4
    <3> HIDE DEF clause
    <3>3. /\ Len(compiled') = n + 1 /\ compiled'[n + 1] = clause
          /\ \A i \in 1..n : compiled'[i] = compiled[i]
      BY <3>1, <3>2
    <3>4. \A i \in 1..Len(compiled') : i \in 1..n \/ i = n + 1
      BY <3>1, <3>3
    <3>5. ParseClause(Trim(parts[n + 1])) # Missing /\ clause = ParseClause(Trim(parts[n + 1]))
      BY <2>4 DEF clause
    <3> HIDE DEF n, source
    <3>6. \A i \in 1..Len(compiled') :
              ParseClause(Trim(parts[i])) # Missing /\ compiled'[i] = ParseClause(Trim(parts[i]))
      BY <2>2, <3>3, <3>4, <3>5
    <3>7. pc' = "clauses" /\ parts' = parts /\ input' = input
      BY <2>1, <2>4
    <3> QED BY <2>2, <3>6, <3>7 DEF FromParts, Accepted, source
  <2> QED BY <2>3, <2>4
<1>3. CASE Parsed
  BY <1>3 DEF Parsed, FromParts, Accepted
<1>4. CASE Evaluate
  BY <1>4 DEF Evaluate, FromParts, Accepted
<1>5. CASE TestClause
  BY <1>5 DEF TestClause, FromParts, Accepted
<1> QED BY <1>1, <1>2, <1>3, <1>4, <1>5 DEF Next

LEMMA PredicateFromParts == Spec => []FromParts
<1>1. Init => FromParts
  BY DEF Init, FromParts
<1>2. IInv /\ FromParts /\ [Next]_vars => FromParts'
  <2>1. ASSUME IInv, FromParts, UNCHANGED vars PROVE FromParts'
    BY <2>1 DEF vars, FromParts, Accepted
  <2> QED BY <2>1, FromPartsKept
<1> QED BY <1>1, <1>2, PredicateInvariance, PTL DEF Spec

(* Whatever text parse accepts, written back it is that text, up to        *)
(* spaces, the dots before an index and the writing of a number: no part   *)
(* of the text is dropped on the way to clauses.                           *)
THEOREM PredicateNothingIgnored == Spec => []NothingIgnored
<1>1. IInv /\ FromParts => NothingIgnored
  <2> SUFFICES ASSUME IInv, FromParts, pc = "parsed"
               PROVE  Ink(SpellAll(compiled, <<>>)) = Ink(SourceOf(input))
    BY DEF NothingIgnored
  <2> DEFINE source == SourceOf(input)
             s == Trim(source)
             spelled == SpellAll(compiled, <<>>)
  <2>1. source \in Text /\ compiled \in Seq(ClauseText)
    BY SourceTyped DEF IInv, TypeOK
  <2>2. /\ parts = Split(s, TopLevelAnds(s)) /\ Len(compiled) = Len(parts)
        /\ \A i \in 1..Len(compiled) :
              ParseClause(Trim(parts[i])) # Missing /\ compiled[i] = ParseClause(Trim(parts[i]))
    BY DEF FromParts, Accepted
  <2> HIDE DEF source
  <2>3. s \in Text /\ Same(s, source)
    BY <2>1, TrimTyped, SameTrim
  <2> HIDE DEF s
  <2>4. spelled \in Text /\ Same(spelled, s)
    BY <2>1, <2>2, <2>3, AllSame
  <2> HIDE DEF spelled
  <2>5. Same(spelled, source)
    BY <2>3, <2>4, SameTrans
  <2>6. Ink((<<>> \o spelled) \o <<>>) = Ink((<<>> \o source) \o <<>>)
    BY <2>5, SymbolTexts DEF Same
  <2>7. (<<>> \o spelled) \o <<>> = spelled /\ (<<>> \o source) \o <<>> = source
    BY <2>1, <2>4, TextEmpty
  <2> QED BY <2>6, <2>7 DEF spelled, source
<1> QED BY <1>1, PredicateInvariance, PredicateFromParts, PTL

-----------------------------------------------------------------------------
(***************************************************************************)
(* What was written is what is parsed: searching and cutting a text of     *)
(* known parts.                                                            *)
(***************************************************************************)
Blank(g) == \A i \in 1..Len(g) : g[i] = Space

(* A text whose ends are not blank.                                        *)
Solid(t) == t \in Text /\ t # <<>> /\ t[1] # Space /\ t[Len(t)] # Space

LEMMA SomeText == ASSUME NEW t \in Text PROVE t # <<>> <=> Len(t) \in Nat /\ Len(t) >= 1
<1>1. Len(t) \in Nat /\ (Len(t) = 0 <=> t = <<>>)
  BY TextLen, EmptySeq DEF Text
<1> QED BY <1>1

LEMMA MinIs ==
    ASSUME NEW T, T \subseteq Nat, NEW m \in T, \A x \in T : m <= x
    PROVE  Min(T) = m
<1>1. T # {}
  OBVIOUS
<1>2. Min(T) \in T /\ Min(T) <= m
  BY <1>1, MinOf
<1>3. m <= Min(T) /\ m \in Nat /\ Min(T) \in Nat
  BY <1>2
<1> QED BY <1>2, <1>3

LEMMA SubTextAt ==
    ASSUME NEW s \in Text, NEW a \in Nat, NEW b \in Int, 1 <= a, a <= b + 1, b <= Len(s)
    PROVE  /\ SubSeq(s, a, b) \in Text /\ Len(SubSeq(s, a, b)) = (b - a) + 1
           /\ \A i \in 1..((b - a) + 1) : SubSeq(s, a, b)[i] = s[(a + i) - 1]
<1>1. Len(s) \in Nat
  BY TextLen
<1>2. SubSeq(s, a, b) \in Text
  BY <1>1, PartOfText
<1>3. \A i \in a..b : s[i] \in Piece
  <2>1. \A i \in a..b : i \in 1..Len(s)
    BY <1>1
  <2> QED BY <2>1, TextLen
<1>4. /\ Len(SubSeq(s, a, b)) = IF a <= b THEN (b - a) + 1 ELSE 0
      /\ \A i \in 1..((b - a) + 1) : SubSeq(s, a, b)[i] = s[(a + i) - 1]
  BY <1>3, SubSeqProperties
<1>5. Len(SubSeq(s, a, b)) = (b - a) + 1
  BY <1>1, <1>4
<1> QED BY <1>2, <1>4, <1>5

(* What lies between the ends of a text of three parts.                    *)
LEMMA MiddleText ==
    ASSUME NEW g \in Text, NEW t \in Text, NEW h \in Text
    PROVE  /\ (g \o t) \o h \in Text /\ Len((g \o t) \o h) = (Len(g) + Len(t)) + Len(h)
           /\ \A i \in 1..((Len(g) + Len(t)) + Len(h)) :
                 ((g \o t) \o h)[i] = IF i <= Len(g) THEN g[i]
                                      ELSE IF i <= Len(g) + Len(t) THEN t[i - Len(g)]
                                      ELSE h[i - (Len(g) + Len(t))]
           /\ SubSeq((g \o t) \o h, Len(g) + 1, Len(g) + Len(t)) = t
<1> DEFINE u == g \o t
           s == u \o h
           m == SubSeq(s, Len(g) + 1, Len(g) + Len(t))
<1>1. Len(g) \in Nat /\ Len(t) \in Nat /\ Len(h) \in Nat
  BY TextLen
<1>2. /\ u \in Text /\ Len(u) = Len(g) + Len(t)
      /\ \A i \in 1..(Len(g) + Len(t)) : u[i] = IF i <= Len(g) THEN g[i] ELSE t[i - Len(g)]
  BY ConcatAt
<1> HIDE DEF u
<1>3. /\ s \in Text /\ Len(s) = Len(u) + Len(h)
      /\ \A i \in 1..(Len(u) + Len(h)) : s[i] = IF i <= Len(u) THEN u[i] ELSE h[i - Len(u)]
  BY <1>2, ConcatAt
<1> HIDE DEF s
<1>4. ASSUME NEW i \in 1..((Len(g) + Len(t)) + Len(h))
      PROVE  s[i] = IF i <= Len(g) THEN g[i]
                    ELSE IF i <= Len(g) + Len(t) THEN t[i - Len(g)]
                    ELSE h[i - (Len(g) + Len(t))]
  <2>1. s[i] = IF i <= Len(u) THEN u[i] ELSE h[i - Len(u)]
    BY <1>2, <1>3
  <2>2. CASE i <= Len(u)
    <3>1. i \in 1..(Len(g) + Len(t))
      BY <1>1, <1>2, <2>2
    <3>2. u[i] = IF i <= Len(g) THEN g[i] ELSE t[i - Len(g)]
      BY <1>2, <3>1
    <3> QED BY <1>1, <1>2, <2>1, <2>2, <3>2
  <2>3. CASE ~(i <= Len(u))
    BY <1>1, <1>2, <2>1, <2>3
  <2> QED BY <2>2, <2>3
<1>5. /\ m \in Text /\ Len(m) = Len(t)
      /\ \A i \in 1..Len(t) : m[i] = s[Len(g) + i]
  <2> DEFINE a == Len(g) + 1
             b == Len(g) + Len(t)
  <2>1. a \in Nat /\ b \in Int /\ 1 <= a /\ a <= b + 1 /\ b <= Len(s) /\ (b - a) + 1 = Len(t)
        /\ \A i \in 1..Len(t) : (a + i) - 1 = Len(g) + i
    BY <1>1, <1>2, <1>3
  <2> HIDE DEF a, b
  <2>2. /\ SubSeq(s, a, b) \in Text /\ Len(SubSeq(s, a, b)) = (b - a) + 1
        /\ \A i \in 1..((b - a) + 1) : SubSeq(s, a, b)[i] = s[(a + i) - 1]
    BY <1>3, <2>1, SubTextAt
  <2> QED BY <2>1, <2>2 DEF a, b
<1> HIDE DEF m
<1>6. m = t
  <2>1. ASSUME NEW i \in 1..Len(t) PROVE m[i] = t[i]
    <3>1. /\ Len(g) + i \in 1..((Len(g) + Len(t)) + Len(h)) /\ ~(Len(g) + i <= Len(g))
          /\ Len(g) + i <= Len(g) + Len(t) /\ (Len(g) + i) - Len(g) = i
      BY <1>1
    <3> QED BY <1>4, <1>5, <3>1
  <2> QED BY <1>5, <2>1, TextEqual
<1> QED BY <1>2, <1>3, <1>4, <1>6 DEF m, s, u

LEMMA TrimBlank ==
    ASSUME NEW g \in Text, NEW h \in Text, NEW t, Blank(g), Blank(h), Solid(t)
    PROVE  Trim((g \o t) \o h) = t
<1> DEFINE s == (g \o t) \o h
           inked == {i \in 1..Len(s) : s[i] # Space}
           first == Len(g) + 1
           last == Len(g) + Len(t)
<1>1. Len(g) \in Nat /\ Len(t) \in Nat /\ Len(t) >= 1 /\ Len(h) \in Nat
  BY TextLen, SomeText DEF Solid
<1>2. /\ s \in Text /\ Len(s) = last + Len(h)
      /\ \A i \in 1..(last + Len(h)) :
            s[i] = IF i <= Len(g) THEN g[i] ELSE IF i <= last THEN t[i - Len(g)] ELSE h[i - last]
      /\ SubSeq(s, first, last) = t
  BY MiddleText DEF Solid
<1>3. Trim(s) = IF inked = {} THEN <<>> ELSE SubSeq(s, Min(inked), Max(inked))
  BY DEF Trim
<1> HIDE DEF s
<1>4. first \in inked /\ last \in inked
  <2>1. /\ first \in 1..(last + Len(h)) /\ ~(first <= Len(g)) /\ first <= last /\ first - Len(g) = 1
        /\ last \in 1..(last + Len(h)) /\ ~(last <= Len(g)) /\ last <= last /\ last - Len(g) = Len(t)
    BY <1>1
  <2>2. s[first] = t[1] /\ s[last] = t[Len(t)]
    BY <1>2, <2>1
  <2> QED BY <1>2, <2>1, <2>2 DEF Solid
<1>5. ASSUME NEW i \in inked PROVE first <= i /\ i <= last
  <2>1. i \in 1..(last + Len(h)) /\ s[i] # Space
    BY <1>2
  <2>2. ~(i <= Len(g))
    <3> SUFFICES ASSUME i <= Len(g) PROVE FALSE
      OBVIOUS
    <3>1. i \in 1..Len(g)
      BY <1>1, <2>1
    <3> QED BY <1>2, <2>1, <3>1 DEF Blank
  <2>3. i <= last
    <3> SUFFICES ASSUME ~(i <= last) PROVE FALSE
      OBVIOUS
    <3>1. i - last \in 1..Len(h)
      BY <1>1, <2>1
    <3> QED BY <1>2, <2>1, <2>2, <3>1 DEF Blank
  <2> QED BY <1>1, <2>1, <2>2, <2>3
<1>6. inked \subseteq 1..Len(s) /\ inked \subseteq Nat /\ inked # {} /\ Len(s) \in Nat
  BY <1>1, <1>2, <1>4
<1> HIDE DEF inked, first, last
<1>7. Min(inked) = first
  BY <1>4, <1>5, <1>6, MinIs
<1>8. Max(inked) = last
  <2>1. Max(inked) \in inked /\ last <= Max(inked)
    BY <1>4, <1>6, MaxIs
  <2>2. Max(inked) <= last /\ Max(inked) \in Nat /\ last \in Nat
    BY <1>4, <1>5, <1>6, <2>1
  <2> QED BY <2>1, <2>2
<1> QED BY <1>2, <1>3, <1>6, <1>7, <1>8 DEF s

-----------------------------------------------------------------------------
(* The cut that has as many cuts up to it as its number.                   *)
Rank(cuts, c) == Cardinality({d \in cuts : d <= c})
CutOf(cuts, i) == CHOOSE c \in cuts : Rank(cuts, c) = i

LEMMA CutFacts ==
    ASSUME NEW cuts, IsFiniteSet(cuts), cuts \subseteq Nat, NEW i \in 1..Cardinality(cuts)
    PROVE  /\ CutOf(cuts, i) \in cuts /\ Rank(cuts, CutOf(cuts, i)) = i
           /\ \A c \in cuts : Rank(cuts, c) = i => CutOf(cuts, i) = c
<1>1. \E c \in cuts : Rank(cuts, c) = i
  <2>1. cuts \subseteq Int
    OBVIOUS
  <2> QED BY <2>1, RankExists DEF Rank
<1>2. CutOf(cuts, i) \in cuts /\ Rank(cuts, CutOf(cuts, i)) = i
  BY <1>1 DEF CutOf
<1>3. ASSUME NEW c \in cuts, NEW d \in cuts, c < d PROVE Rank(cuts, c) # Rank(cuts, d)
  <2> DEFINE C == {e \in cuts : e <= c}
             D == {e \in cuts : e <= d}
  <2>1. \A e \in C : e \in D
    <3> SUFFICES ASSUME NEW e \in cuts, e <= c PROVE e <= d
      OBVIOUS
    <3>1. e \in Nat /\ c \in Nat /\ d \in Nat
      OBVIOUS
    <3> QED BY <1>3, <3>1
  <2>2. d \in D /\ d \notin C
    <3>1. c \in Nat /\ d \in Nat
      OBVIOUS
    <3>2. d <= d /\ ~(d <= c)
      BY <1>3, <3>1
    <3> QED BY <3>2
  <2>3. C \subseteq D /\ C # D
    BY <2>1, <2>2
  <2>4. IsFiniteSet(D)
    BY FS_Subset
  <2>5. Rank(cuts, c) = Cardinality(C) /\ Rank(cuts, d) = Cardinality(D)
    BY DEF Rank
  <2> HIDE DEF C, D
  <2> QED BY <2>3, <2>4, <2>5, FS_Subset
<1>4. ASSUME NEW c \in cuts, Rank(cuts, c) = i PROVE CutOf(cuts, i) = c
  <2> DEFINE d == CutOf(cuts, i)
  <2>1. d \in cuts /\ Rank(cuts, d) = Rank(cuts, c)
    BY <1>2, <1>4
  <2> HIDE DEF d
  <2>2. ~(c < d) /\ ~(d < c)
    BY <1>3, <2>1
  <2>3. c \in Nat /\ d \in Nat
    BY <2>1
  <2> QED BY <2>2, <2>3 DEF d
<1> QED BY <1>2, <1>4

LEMMA CutsFinite ==
    ASSUME NEW s \in Text, NEW cuts, cuts \subseteq 1..Len(s)
    PROVE  IsFiniteSet(cuts) /\ Cardinality(cuts) \in Nat /\ cuts \subseteq Nat /\ Len(s) \in Nat
<1>1. Len(s) \in Nat
  BY TextLen
<1>2. IsFiniteSet(1..Len(s))
  BY <1>1, FS_Interval
<1>3. IsFiniteSet(cuts)
  BY <1>2, FS_Subset
<1>4. Cardinality(cuts) \in Nat
  BY <1>3, FS_CardinalityType
<1>5. cuts \subseteq Nat
  BY <1>1
<1> QED BY <1>1, <1>3, <1>4, <1>5

(* Where a part begins and ends.                                           *)
PartFrom(cuts, i) == IF i = 1 THEN 1 ELSE CutOf(cuts, i - 1) + 1
PartTo(s, cuts, i) == IF i > Cardinality(cuts) THEN Len(s) ELSE CutOf(cuts, i) - 1

LEMMA SplitIs ==
    ASSUME NEW s \in Text, NEW cuts, cuts \subseteq 1..Len(s)
    PROVE  /\ Split(s, cuts) \in Seq(Text) /\ Len(Split(s, cuts)) = Cardinality(cuts) + 1
           /\ \A i \in 1..(Cardinality(cuts) + 1) :
                 /\ Split(s, cuts)[i] = SubSeq(s, PartFrom(cuts, i), PartTo(s, cuts, i))
                 /\ Split(s, cuts)[i] \in Text
<1> DEFINE n == Cardinality(cuts)
           all == Split(s, cuts)
<1>1. n \in Nat
  BY CutsFinite
<1>2. all = [i \in 1..(n + 1) |-> SubSeq(s, PartFrom(cuts, i), PartTo(s, cuts, i))]
  BY DEF Split, PartFrom, PartTo, CutOf, Rank
<1>3. all \in Seq(Text)
  BY SplitTyped
<1> HIDE DEF n
<1>4. Len(all) = n + 1
  BY <1>1, <1>2
<1>5. \A i \in 1..(n + 1) : all[i] = SubSeq(s, PartFrom(cuts, i), PartTo(s, cuts, i))
  BY <1>2
<1> HIDE DEF all
<1>6. \A i \in 1..(n + 1) : all[i] \in Text
  BY <1>3, <1>4, ElementOfSeq
<1> QED BY <1>3, <1>4, <1>5, <1>6 DEF all, n

LEMMA PartEnds ==
    ASSUME NEW s \in Text, NEW cuts, cuts \subseteq 1..Len(s), NEW i \in 1..(Cardinality(cuts) + 1)
    PROVE  /\ PartFrom(cuts, i) \in Nat /\ PartTo(s, cuts, i) \in Int /\ 1 <= PartFrom(cuts, i)
           /\ PartFrom(cuts, i) <= PartTo(s, cuts, i) + 1 /\ PartTo(s, cuts, i) <= Len(s)
<1> DEFINE n == Cardinality(cuts)
           a == PartFrom(cuts, i)
           b == PartTo(s, cuts, i)
<1>1. IsFiniteSet(cuts) /\ n \in Nat /\ cuts \subseteq Nat /\ Len(s) \in Nat
  BY CutsFinite
<1>2. ASSUME NEW j \in 1..n
      PROVE  CutOf(cuts, j) \in cuts /\ CutOf(cuts, j) \in 1..Len(s) /\ Rank(cuts, CutOf(cuts, j)) = j
  BY <1>1, CutFacts
<1>3. a = 1 \/ (i # 1 /\ a = CutOf(cuts, i - 1) + 1 /\ i - 1 \in 1..n)
  BY <1>1 DEF PartFrom
<1>4. (i = n + 1 /\ b = Len(s)) \/ (i \in 1..n /\ b = CutOf(cuts, i) - 1)
  <2> HIDE DEF n
  <2>1. b = IF i > n THEN Len(s) ELSE CutOf(cuts, i) - 1
    BY DEF PartTo, n
  <2>2. (i > n <=> i = n + 1) /\ (~(i > n) <=> i \in 1..n)
    BY <1>1 DEF n
  <2> QED BY <2>1, <2>2
<1> HIDE DEF a, b
<1>5. a \in Nat /\ 1 <= a /\ a <= Len(s) + 1
  <2>1. CASE a = 1
    BY <1>1, <2>1
  <2>2. CASE i # 1 /\ a = CutOf(cuts, i - 1) + 1 /\ i - 1 \in 1..n
    <3> DEFINE c == CutOf(cuts, i - 1)
    <3>1. c \in 1..Len(s) /\ a = c + 1
      BY <1>2, <2>2
    <3> HIDE DEF c
    <3> QED BY <1>1, <3>1
  <2> QED BY <1>3, <2>1, <2>2
<1>6. b \in Int /\ b <= Len(s) /\ b >= 0
  <2>1. CASE b = Len(s)
    BY <1>1, <2>1
  <2>2. CASE i \in 1..n /\ b = CutOf(cuts, i) - 1
    <3> DEFINE c == CutOf(cuts, i)
    <3>1. c \in 1..Len(s) /\ b = c - 1
      BY <1>2, <2>2
    <3> HIDE DEF c
    <3> QED BY <1>1, <3>1
  <2> QED BY <1>4, <2>1, <2>2
<1>7. a <= b + 1
  <2>1. CASE a = 1
    BY <1>6, <2>1
  <2>2. CASE b = Len(s)
    BY <1>5, <2>2
  <2>3. CASE /\ i # 1 /\ a = CutOf(cuts, i - 1) + 1 /\ i - 1 \in 1..n
             /\ i \in 1..n /\ b = CutOf(cuts, i) - 1
    <3> DEFINE c == CutOf(cuts, i - 1)
               d == CutOf(cuts, i)
    <3>1. /\ c \in cuts /\ c \in Nat /\ Rank(cuts, c) = i - 1 /\ a = c + 1
          /\ d \in cuts /\ d \in Nat /\ Rank(cuts, d) = i /\ b = d - 1
      BY <1>1, <1>2, <2>3
    <3> HIDE DEF c, d
    <3>2. ~(d <= c)
      <4> SUFFICES ASSUME d <= c PROVE FALSE
        OBVIOUS
      <4> DEFINE D == {e \in cuts : e <= d}
                 C == {e \in cuts : e <= c}
      <4>1. \A e \in D : e \in C
        <5> SUFFICES ASSUME NEW e \in cuts, e <= d PROVE e <= c
          OBVIOUS
        <5>1. e \in Nat
          BY <1>1
        <5> QED BY <3>1, <5>1
      <4>2. IsFiniteSet(C) /\ D \subseteq C
        BY <1>1, <4>1, FS_Subset
      <4>3. Cardinality(D) = i /\ Cardinality(C) = i - 1
        BY <3>1 DEF Rank
      <4> HIDE DEF C, D
      <4>4. Cardinality(D) <= Cardinality(C)
        BY <4>2, FS_Subset
      <4> QED BY <4>3, <4>4
    <3> QED BY <3>1, <3>2
  <2> QED BY <1>3, <1>4, <2>1, <2>2, <2>3
<1> QED BY <1>5, <1>6, <1>7 DEF a, b

LEMMA SplitNone ==
    ASSUME NEW s \in Text
    PROVE  Split(s, {}) \in Seq(Text) /\ Len(Split(s, {})) = 1 /\ Split(s, {})[1] = s
<1>1. Cardinality({}) = 0
  BY FS_EmptySet
<1>2. {} \subseteq 1..Len(s)
  OBVIOUS
<1>3. /\ Split(s, {}) \in Seq(Text) /\ Len(Split(s, {})) = 0 + 1
      /\ \A i \in 1..(0 + 1) : Split(s, {})[i] = SubSeq(s, PartFrom({}, i), PartTo(s, {}, i))
  BY <1>1, <1>2, SplitIs
<1>4. PartFrom({}, 1) = 1 /\ PartTo(s, {}, 1) = Len(s)
  BY <1>1 DEF PartFrom, PartTo
<1>5. 1 \in 1..(0 + 1) /\ 0 + 1 = 1
  OBVIOUS
<1>6. Split(s, {})[1] = SubSeq(s, 1, Len(s))
  <2>1. Split(s, {})[1] = SubSeq(s, PartFrom({}, 1), PartTo(s, {}, 1))
    BY <1>3, <1>5
  <2> QED BY <1>4, <2>1, Zenon
<1> QED BY <1>3, <1>5, <1>6, WholeText

(* A part of the first of two texts is that part of both.                  *)
LEMMA SubSeqLeft ==
    ASSUME NEW s \in Text, NEW t \in Text, NEW a \in Nat, NEW b \in Int,
           1 <= a, a <= b + 1, b <= Len(s)
    PROVE  SubSeq(s \o t, a, b) = SubSeq(s, a, b)
<1> DEFINE w == s \o t
           x == SubSeq(w, a, b)
           y == SubSeq(s, a, b)
<1>1. Len(s) \in Nat /\ Len(t) \in Nat
  BY TextLen
<1>2. /\ w \in Text /\ Len(w) = Len(s) + Len(t)
      /\ \A i \in 1..(Len(s) + Len(t)) : w[i] = IF i <= Len(s) THEN s[i] ELSE t[i - Len(s)]
  BY ConcatAt
<1> HIDE DEF w
<1>3. b <= Len(w)
  BY <1>1, <1>2
<1>4. /\ x \in Text /\ Len(x) = (b - a) + 1 /\ \A i \in 1..((b - a) + 1) : x[i] = w[(a + i) - 1]
      /\ y \in Text /\ Len(y) = (b - a) + 1 /\ \A i \in 1..((b - a) + 1) : y[i] = s[(a + i) - 1]
  BY <1>2, <1>3, SubTextAt
<1> HIDE DEF x, y
<1>5. ASSUME NEW i \in 1..((b - a) + 1) PROVE x[i] = y[i]
  <2>1. (a + i) - 1 \in 1..(Len(s) + Len(t)) /\ (a + i) - 1 <= Len(s)
    BY <1>1
  <2> QED BY <1>2, <1>4, <2>1
<1>6. x = y
  BY <1>4, <1>5, TextEqual
<1> QED BY <1>6 DEF x, y, w

(* Parts with one more, and with more of the last.                         *)
OnePartMore(old, all, u) ==
    /\ Len(old) \in Nat /\ Len(old) >= 1 /\ all \in Seq(Text)
    /\ Len(all) = Len(old) + 1 /\ all[Len(old) + 1] = u
    /\ \A i \in 1..Len(old) : all[i] = old[i]
LastPartLonger(old, all, u) ==
    /\ Len(old) \in Nat /\ Len(old) >= 1 /\ all \in Seq(Text)
    /\ Len(all) = Len(old) /\ old[Len(old)] \in Text /\ all[Len(old)] = old[Len(old)] \o u
    /\ \A i \in 1..(Len(old) - 1) : all[i] = old[i]

(* A text cut once more behind its end.                                    *)
LEMMA SplitAppend ==
    ASSUME NEW s \in Text, NEW u \in Text, NEW sep \in Piece, NEW cuts, cuts \subseteq 1..Len(s)
    PROVE  /\ cuts \cup {Len(s) + 1} \subseteq 1..Len((s \o <<sep>>) \o u)
           /\ OnePartMore(Split(s, cuts), Split((s \o <<sep>>) \o u, cuts \cup {Len(s) + 1}), u)
<1> DEFINE m == Len(s) + 1
           more == cuts \cup {m}
           w == (s \o <<sep>>) \o u
           k == Cardinality(cuts)
<1>1. Len(s) \in Nat /\ Len(u) \in Nat /\ IsFiniteSet(cuts) /\ k \in Nat /\ cuts \subseteq Nat
  BY CutsFinite, TextLen
<1>2. <<sep>> \in Text /\ Len(<<sep>>) = 1
  BY TextOne
<1>3. w \in Text /\ Len(w) = m + Len(u) /\ SubSeq(w, m + 1, Len(w)) = u
  <2> DEFINE a == s \o <<sep>>
  <2>1. a \in Text /\ Len(a) = m
    BY <1>2, ConcatAt
  <2> HIDE DEF a
  <2> DEFINE e == <<>>
             au == a \o u
  <2>2. e \in Text
    BY SymbolTexts
  <2>3. au \in Text /\ Len(au) = m + Len(u)
    BY <1>1, <2>1, ConcatAt
  <2>4. au \o e = au
    BY <2>3, TextEmpty
  <2> HIDE DEF e
  <2>5. SubSeq((a \o u) \o e, Len(a) + 1, Len(a) + Len(u)) = u
    BY <2>1, <2>2, MiddleText
  <2>6. SubSeq(au, m + 1, m + Len(u)) = u
    BY <2>1, <2>4, <2>5
  <2> QED BY <2>3, <2>6 DEF a
<1>4. more \subseteq 1..Len(w) /\ m \notin cuts
  <2> HIDE DEF w
  <2>1. \A c \in cuts : c \in 1..Len(s) /\ c \in 1..Len(w) /\ c # m
    BY <1>1, <1>3
  <2>2. m \in 1..Len(w)
    BY <1>1, <1>3
  <2> HIDE DEF m
  <2> QED BY <2>1, <2>2
<1>5. Cardinality(more) = k + 1 /\ IsFiniteSet(more) /\ more \subseteq Nat
  BY <1>1, <1>4, FS_AddElement
<1>6. ASSUME NEW c \in cuts PROVE Rank(more, c) = Rank(cuts, c)
  <2>1. c <= Len(s) /\ c \in Nat
    BY <1>1
  <2>2. {d \in more : d <= c} = {d \in cuts : d <= c}
    BY <1>1, <2>1
  <2> QED BY <2>2 DEF Rank
<1>7. Rank(more, m) = k + 1
  <2>1. \A d \in more : d <= m
    <3>1. m <= m /\ \A d \in cuts : d \in 1..Len(s) /\ d <= m
      BY <1>1
    <3> HIDE DEF m
    <3> QED BY <3>1
  <2> HIDE DEF more
  <2>2. {d \in more : d <= m} = more
    BY <2>1
  <2> QED BY <1>5, <2>2 DEF Rank
<1>8. ASSUME NEW i \in 1..k PROVE CutOf(more, i) = CutOf(cuts, i) /\ CutOf(cuts, i) \in cuts
  <2>1. CutOf(cuts, i) \in cuts /\ Rank(cuts, CutOf(cuts, i)) = i
    BY <1>1, CutFacts
  <2>2. i \in 1..Cardinality(more)
    BY <1>1, <1>5
  <2> DEFINE c == CutOf(cuts, i)
  <2>3. c \in more /\ Rank(more, c) = i
    BY <1>6, <2>1
  <2> HIDE DEF more, c
  <2>4. CutOf(more, i) = c
    BY <1>5, <2>2, <2>3, CutFacts
  <2> QED BY <2>1, <2>4 DEF c
<1>9. CutOf(more, k + 1) = m
  <2>1. m \in more
    OBVIOUS
  <2>2. k + 1 \in 1..Cardinality(more)
    BY <1>1, <1>5
  <2> DEFINE j == k + 1
  <2> HIDE DEF more, m, j
  <2>3. Rank(more, m) = j /\ j \in 1..Cardinality(more)
    BY <1>7, <2>2 DEF j
  <2>4. CutOf(more, j) = m
    BY <1>5, <2>1, <2>3, CutFacts
  <2> QED BY <2>4 DEF j
<1>10. /\ Split(s, cuts) \in Seq(Text) /\ Len(Split(s, cuts)) = k + 1
       /\ \A i \in 1..(k + 1) :
             Split(s, cuts)[i] = SubSeq(s, PartFrom(cuts, i), PartTo(s, cuts, i))
  BY SplitIs
<1>11. /\ Split(w, more) \in Seq(Text) /\ Len(Split(w, more)) = (k + 1) + 1
       /\ \A i \in 1..((k + 1) + 1) :
             Split(w, more)[i] = SubSeq(w, PartFrom(more, i), PartTo(w, more, i))
  <2> HIDE DEF w, more
  <2> QED BY <1>3, <1>4, <1>5, SplitIs
<1>12. ASSUME NEW i \in 1..(k + 1) PROVE Split(w, more)[i] = Split(s, cuts)[i]
  <2> DEFINE a == PartFrom(cuts, i)
             b == PartTo(s, cuts, i)
  <2>1. PartFrom(more, i) = a
    <3>1. CASE i = 1
      BY <3>1 DEF PartFrom
    <3>2. CASE i # 1
      <4>1. i - 1 \in 1..k
        BY <1>1, <3>2
      <4> QED BY <1>8, <3>2, <4>1 DEF PartFrom
    <3> QED BY <3>1, <3>2
  <2>2. PartTo(w, more, i) = b
    <3>1. ~(i > Cardinality(more))
      BY <1>1, <1>5
    <3>2. PartTo(w, more, i) = CutOf(more, i) - 1
      BY <3>1 DEF PartTo
    <3>3. CASE i = k + 1
      <4>1. b = Len(s)
        BY <1>1, <3>3 DEF PartTo
      <4> QED BY <1>1, <1>9, <3>2, <3>3, <4>1
    <3>4. CASE i # k + 1
      <4>1. i \in 1..k /\ ~(i > k)
        BY <1>1, <3>4
      <4> QED BY <1>8, <3>2, <4>1 DEF PartTo
    <3> QED BY <3>3, <3>4
  <2>3. a \in Nat /\ b \in Int /\ 1 <= a /\ a <= b + 1 /\ b <= Len(s)
    BY PartEnds
  <2>4. Split(w, more)[i] = SubSeq(w, a, b)
    <3>1. i \in 1..((k + 1) + 1)
      BY <1>1
    <3> QED BY <1>11, <2>1, <2>2, <3>1
  <2> HIDE DEF a, b
  <2>5. SubSeq(s \o (<<sep>> \o u), a, b) = SubSeq(s, a, b)
    BY <1>2, <2>3, ConcatText, SubSeqLeft
  <2>6. w = s \o (<<sep>> \o u)
    BY <1>2, TextAssoc
  <2> QED BY <1>10, <2>4, <2>5, <2>6 DEF a, b
<1>13. Split(w, more)[(k + 1) + 1] = u
  <2> DEFINE i == (k + 1) + 1
  <2>1. i \in 1..((k + 1) + 1) /\ i # 1 /\ i - 1 = k + 1 /\ i > Cardinality(more)
    BY <1>1, <1>5
  <2> HIDE DEF i
  <2>2. PartFrom(more, i) = m + 1 /\ PartTo(w, more, i) = Len(w)
    BY <1>9, <2>1 DEF PartFrom, PartTo
  <2>3. Split(w, more)[i] = SubSeq(w, m + 1, Len(w))
    BY <1>11, <2>1, <2>2
  <2> QED BY <1>3, <2>3 DEF i
<1> DEFINE n == Len(Split(s, cuts))
<1>14. n = k + 1 /\ n \in Nat /\ n >= 1
  BY <1>1, <1>10
<1> HIDE DEF more, w, k, n
<1>15. /\ Split(w, more) \in Seq(Text) /\ Len(Split(w, more)) = n + 1 /\ Split(w, more)[n + 1] = u
       /\ \A i \in 1..n : Split(w, more)[i] = Split(s, cuts)[i]
  BY <1>11, <1>12, <1>13, <1>14
<1>16. more \subseteq 1..Len(w)
  BY <1>4
<1>17. OnePartMore(Split(s, cuts), Split(w, more), u)
  BY <1>14, <1>15 DEF OnePartMore, n
<1> QED BY <1>16, <1>17 DEF more, w, m

LEMMA TailText ==
    ASSUME NEW s \in Text, NEW t \in Text
    PROVE  SubSeq(s \o t, Len(s) + 1, Len(s) + Len(t)) = t
<1> DEFINE e == <<>>
           w == s \o t
<1>1. e \in Text
  BY SymbolTexts
<1>2. w \in Text
  BY ConcatText
<1>3. w \o e = w
  BY <1>2, TextEmpty
<1> HIDE DEF e
<1>4. SubSeq((s \o t) \o e, Len(s) + 1, Len(s) + Len(t)) = t
  BY <1>1, MiddleText
<1> QED BY <1>3, <1>4

(* A text made longer behind its last cut.                                 *)
LEMMA SplitExtend ==
    ASSUME NEW s \in Text, NEW t \in Text, NEW cuts, cuts \subseteq 1..Len(s)
    PROVE  /\ cuts \subseteq 1..Len(s \o t)
           /\ LastPartLonger(Split(s, cuts), Split(s \o t, cuts), t)
<1> DEFINE w == s \o t
           k == Cardinality(cuts)
<1>1. Len(s) \in Nat /\ Len(t) \in Nat /\ k \in Nat
  BY CutsFinite, TextLen
<1>2. w \in Text /\ Len(w) = Len(s) + Len(t)
  BY ConcatAt
<1>3. cuts \subseteq 1..Len(w)
  <2> HIDE DEF w
  <2> QED BY <1>1, <1>2
<1>4. /\ Split(s, cuts) \in Seq(Text) /\ Len(Split(s, cuts)) = k + 1
      /\ \A i \in 1..(k + 1) :
            /\ Split(s, cuts)[i] = SubSeq(s, PartFrom(cuts, i), PartTo(s, cuts, i))
            /\ Split(s, cuts)[i] \in Text
  BY SplitIs
<1>5. /\ Split(w, cuts) \in Seq(Text) /\ Len(Split(w, cuts)) = k + 1
      /\ \A i \in 1..(k + 1) : Split(w, cuts)[i] = SubSeq(w, PartFrom(cuts, i), PartTo(w, cuts, i))
  <2> HIDE DEF w
  <2> QED BY <1>2, <1>3, SplitIs
<1>6. ASSUME NEW i \in 1..k PROVE Split(w, cuts)[i] = Split(s, cuts)[i]
  <2> DEFINE a == PartFrom(cuts, i)
             b == PartTo(s, cuts, i)
  <2>1. i \in 1..(k + 1) /\ ~(i > k)
    BY <1>1
  <2>2. PartTo(w, cuts, i) = b
    BY <2>1 DEF PartTo
  <2>3. a \in Nat /\ b \in Int /\ 1 <= a /\ a <= b + 1 /\ b <= Len(s)
    BY <2>1, PartEnds
  <2>4. Split(w, cuts)[i] = SubSeq(w, a, b) /\ Split(s, cuts)[i] = SubSeq(s, a, b)
    <3> HIDE DEF w
    <3> QED BY <1>4, <1>5, <2>1, <2>2
  <2> HIDE DEF a, b
  <2>5. SubSeq(s \o t, a, b) = SubSeq(s, a, b)
    BY <2>3, SubSeqLeft
  <2> QED BY <2>4, <2>5
<1>7. Split(w, cuts)[k + 1] = Split(s, cuts)[k + 1] \o t
  <2> DEFINE i == k + 1
             a == PartFrom(cuts, i)
             m == Len(s)
             z == Len(w)
  <2>1. i \in 1..(k + 1) /\ i > k
    BY <1>1
  <2>2. PartTo(w, cuts, i) = z /\ PartTo(s, cuts, i) = m
    BY <2>1 DEF PartTo
  <2>3. a \in Nat /\ 1 <= a /\ a <= m + 1
    <3> HIDE DEF i
    <3> QED BY <2>1, <2>2, PartEnds
  <2>4. Split(w, cuts)[i] = SubSeq(w, a, z) /\ Split(s, cuts)[i] = SubSeq(s, a, m)
    <3> HIDE DEF w, i
    <3> QED BY <1>4, <1>5, <2>1, <2>2
  <2>5. m \in Int /\ m <= m /\ z \in Int /\ m <= z /\ z <= Len(w) /\ a \in Int
    BY <1>1, <1>2, <2>3
  <2>6. SubSeq(w, m + 1, z) = t
    BY <1>2, TailText
  <2> HIDE DEF a, z, w, m, i
  <2>7. SubSeq(w, a, m) \o SubSeq(w, m + 1, z) = SubSeq(w, a, z)
    BY <1>2, <2>3, <2>5, AdjacentTexts
  <2>8. SubSeq(w, a, m) = SubSeq(s, a, m)
    <3>1. m <= Len(s)
      BY <2>5 DEF m
    <3> QED BY <2>3, <2>5, <3>1, SubSeqLeft DEF w
  <2>9. Split(w, cuts)[i] = Split(s, cuts)[i] \o t
    BY <2>4, <2>6, <2>7, <2>8
  <2> QED BY <2>9 DEF i
<1> DEFINE n == Len(Split(s, cuts))
<1>8. n = k + 1 /\ n \in Nat /\ n >= 1 /\ n - 1 = k
  BY <1>1, <1>4
<1> HIDE DEF w, k, n
<1>9. n \in 1..(k + 1)
  BY <1>8
<1>10. /\ Split(w, cuts) \in Seq(Text) /\ Len(Split(w, cuts)) = n
       /\ Split(s, cuts)[n] \in Text /\ Split(w, cuts)[n] = Split(s, cuts)[n] \o t
       /\ \A i \in 1..(n - 1) : Split(w, cuts)[i] = Split(s, cuts)[i]
  BY <1>4, <1>5, <1>6, <1>7, <1>8, <1>9
<1>11. LastPartLonger(Split(s, cuts), Split(w, cuts), t)
  BY <1>8, <1>10 DEF LastPartLonger, n
<1> QED BY <1>3, <1>11 DEF w

(* A place of a text in another, piece by piece.                           *)
LEMMA PlacesAt ==
    ASSUME NEW s \in Text, NEW t \in Text, t # <<>>, NEW i
    PROVE  i \in PlacesOf(t, s) <=>
              /\ i \in Nat /\ i >= 1 /\ (i + Len(t)) - 1 <= Len(s)
              /\ \A k \in 1..Len(t) : s[(i + k) - 1] = t[k]
<1>1. Len(s) \in Nat /\ Len(t) \in Nat /\ Len(t) >= 1
  BY TextLen, SomeText
<1>2. i \in PlacesOf(t, s) <=>
         i \in 1..((Len(s) - Len(t)) + 1) /\ SubSeq(s, i, (i + Len(t)) - 1) = t
  BY DEF PlacesOf
<1>3. i \in 1..((Len(s) - Len(t)) + 1) <=> i \in Nat /\ i >= 1 /\ (i + Len(t)) - 1 <= Len(s)
  <2> DEFINE m == Len(s)
             n == Len(t)
  <2> HIDE DEF m, n
  <2>1. m \in Nat /\ n \in Nat
    BY <1>1 DEF m, n
  <2>2. i \in 1..((m - n) + 1) <=> i \in Nat /\ i >= 1 /\ (i + n) - 1 <= m
    BY <2>1
  <2> QED BY <2>2 DEF m, n
<1>4. ASSUME i \in Nat, i >= 1, (i + Len(t)) - 1 <= Len(s)
      PROVE  SubSeq(s, i, (i + Len(t)) - 1) = t <=> \A k \in 1..Len(t) : s[(i + k) - 1] = t[k]
  <2> DEFINE n == Len(t)
             b == (i + n) - 1
             u == SubSeq(s, i, b)
  <2>1. b \in Int /\ i <= b + 1 /\ b <= Len(s) /\ (b - i) + 1 = n /\ n \in Nat
    BY <1>1, <1>4
  <2> HIDE DEF b, n
  <2>2. u \in Text /\ Len(u) = n /\ \A k \in 1..n : u[k] = s[(i + k) - 1]
    BY <1>4, <2>1, SubTextAt
  <2> HIDE DEF u
  <2>3. u = t <=> \A k \in 1..n : u[k] = t[k]
    BY <2>2, TextEqual DEF n
  <2>4. u = t <=> \A k \in 1..n : s[(i + k) - 1] = t[k]
    BY <2>2, <2>3
  <2> QED BY <2>4 DEF u, b, n
<1> QED BY <1>2, <1>3, <1>4

LEMMA OnePlaces ==
    ASSUME NEW s \in Text, NEW c \in Piece, NEW i
    PROVE  i \in PlacesOf(<<c>>, s) <=> i \in 1..Len(s) /\ s[i] = c
<1> DEFINE t == <<c>>
<1>1. t \in Text /\ Len(t) = 1 /\ t[1] = c /\ Len(s) \in Nat
  BY TextOne, TextLen
<1>2. t # <<>>
  OBVIOUS
<1> HIDE DEF t
<1>3. i \in PlacesOf(t, s) <=>
         /\ i \in Nat /\ i >= 1 /\ (i + Len(t)) - 1 <= Len(s)
         /\ \A k \in 1..Len(t) : s[(i + k) - 1] = t[k]
  BY <1>1, <1>2, PlacesAt
<1>4. ASSUME i \in Nat PROVE (\A k \in 1..Len(t) : s[(i + k) - 1] = t[k]) <=> s[i] = c
  <2>1. \A k \in 1..Len(t) : k = 1 /\ (i + k) - 1 = i
    BY <1>1, <1>4
  <2>2. 1 \in 1..Len(t)
    BY <1>1
  <2> QED BY <1>1, <2>1, <2>2
<1>5. i \in PlacesOf(t, s) <=> i \in 1..Len(s) /\ s[i] = c
  BY <1>1, <1>3, <1>4
<1> QED BY <1>5 DEF t

(* A name with something in brackets behind it.                            *)
LEMMA BracketSegment ==
    ASSUME NEW name \in Text, name # <<>>, \A i \in 1..Len(name) : name[i] # "[", NEW x \in Text
    PROVE  LET raw == ((name \o <<"[">>) \o x) \o <<"]">>
           IN  /\ raw \in Text
               /\ ParseSegment(raw) =
                     IF Len(x) # 1 \/ x[1] \notin Numeral THEN Missing
                     ELSE <<Field(name)>> \o <<Index(NumberOf[x[1]])>>
<1> DEFINE b == <<"[">>
           e == <<"]">>
           g == name \o b
           raw == (g \o x) \o e
           open == PlacesOf(b, raw)
           at == Len(name) + 1
<1>1. Len(name) \in Nat /\ Len(name) >= 1 /\ Len(x) \in Nat
  BY TextLen, SomeText
<1>2. b \in Text /\ Len(b) = 1 /\ b[1] = "[" /\ e \in Text /\ Len(e) = 1 /\ e[1] = "]" /\ "[" \in Piece
  BY TextOne, PieceAssumption DEF Symbols
<1>3. /\ g \in Text /\ Len(g) = at
      /\ \A i \in 1..at : g[i] = IF i <= Len(name) THEN name[i] ELSE b[i - Len(name)]
  <2> HIDE DEF b
  <2>1. /\ g \in Text /\ Len(g) = Len(name) + Len(b)
        /\ \A i \in 1..(Len(name) + Len(b)) : g[i] = IF i <= Len(name) THEN name[i] ELSE b[i - Len(name)]
    BY <1>2, ConcatAt
  <2>2. Len(b) = 1
    BY <1>2
  <2> HIDE DEF g
  <2> QED BY <2>1, <2>2
<1>4. open = PlacesOf(<<"[">>, raw)
  OBVIOUS
<1> HIDE DEF b, e, g
<1>5. /\ raw \in Text /\ Len(raw) = (at + Len(x)) + 1
      /\ \A i \in 1..((at + Len(x)) + 1) :
            raw[i] = IF i <= at THEN g[i] ELSE IF i <= at + Len(x) THEN x[i - at] ELSE e[i - (at + Len(x))]
      /\ SubSeq(raw, at + 1, at + Len(x)) = x
  <2>1. /\ raw \in Text /\ Len(raw) = (Len(g) + Len(x)) + Len(e)
        /\ \A i \in 1..((Len(g) + Len(x)) + Len(e)) :
              raw[i] = IF i <= Len(g) THEN g[i] ELSE IF i <= Len(g) + Len(x) THEN x[i - Len(g)]
                       ELSE e[i - (Len(g) + Len(x))]
        /\ SubSeq(raw, Len(g) + 1, Len(g) + Len(x)) = x
    <3>1. g \in Text /\ e \in Text
      BY <1>2, <1>3
    <3> QED BY <3>1, MiddleText
  <2>2. Len(g) = at /\ Len(e) = 1
    BY <1>2, <1>3
  <2> HIDE DEF raw, at
  <2> QED BY <2>1, <2>2
<1> HIDE DEF raw
<1>6. raw[at] = "[" /\ raw[Len(raw)] = "]" /\ \A i \in 1..Len(name) : raw[i] = name[i]
  <2>1. at \in 1..((at + Len(x)) + 1) /\ at <= at /\ at \in 1..at /\ ~(at <= Len(name)) /\ at - Len(name) = 1
    BY <1>1
  <2>2. /\ Len(raw) \in 1..((at + Len(x)) + 1) /\ ~(Len(raw) <= at) /\ ~(Len(raw) <= at + Len(x))
        /\ Len(raw) - (at + Len(x)) = 1
    BY <1>1, <1>5
  <2>3. \A i \in 1..Len(name) : i \in 1..((at + Len(x)) + 1) /\ i <= at /\ i \in 1..at /\ i <= Len(name)
    BY <1>1
  <2> HIDE DEF at
  <2>4. raw[at] = "["
    BY <1>2, <1>3, <1>5, <2>1
  <2>5. raw[Len(raw)] = "]"
    BY <1>2, <1>5, <2>2
  <2>6. \A i \in 1..Len(name) : raw[i] = name[i]
    BY <1>3, <1>5, <2>3
  <2> QED BY <2>4, <2>5, <2>6
<1>7. open \subseteq Nat /\ at \in open /\ \A i \in open : at <= i
  <2>1. \A i : i \in open <=> i \in 1..Len(raw) /\ raw[i] = "["
    BY <1>2, <1>4, <1>5, OnePlaces
  <2>2. at \in 1..Len(raw) /\ Len(raw) \in Nat
    BY <1>1, <1>5
  <2> HIDE DEF open
  <2>3. ASSUME NEW i \in open PROVE i \in Nat /\ at <= i
    <3>1. i \in 1..Len(raw) /\ raw[i] = "["
      BY <2>1
    <3>2. i \notin 1..Len(name)
      BY <1>6, <3>1
    <3> QED BY <1>1, <2>2, <3>1, <3>2
  <2> QED BY <1>6, <2>1, <2>2, <2>3
<1>8. Min(open) = at /\ open # {}
  <2> HIDE DEF open, at
  <2> QED BY <1>7, MinIs
<1>9. raw # <<>> /\ Last(raw) = "]"
  <2>1. Len(raw) >= 1
    BY <1>1, <1>5
  <2> QED BY <1>5, <1>6, <2>1, SomeText, LastIs
<1>10. SubSeq(raw, Min(open) + 1, Len(raw) - 1) = x
  <2>1. Len(raw) - 1 = at + Len(x)
    BY <1>1, <1>5
  <2> QED BY <1>5, <1>8, <2>1
<1>11. SubSeq(raw, 1, Min(open) - 1) = name
  <2> DEFINE u == SubSeq(raw, 1, Len(name))
  <2>1. Min(open) - 1 = Len(name)
    BY <1>1, <1>8
  <2>2. /\ Len(name) \in Int /\ 1 \in Nat /\ 1 <= 1 /\ 1 <= Len(name) + 1 /\ Len(name) <= Len(raw)
        /\ (Len(name) - 1) + 1 = Len(name)
    BY <1>1, <1>5
  <2>3. u \in Text /\ Len(u) = Len(name) /\ \A i \in 1..Len(name) : u[i] = raw[(1 + i) - 1]
    <3> DEFINE n == Len(name)
    <3> HIDE DEF n
    <3>1. n \in Int /\ 1 <= n + 1 /\ n <= Len(raw) /\ (n - 1) + 1 = n
      BY <2>2 DEF n
    <3>2. SubSeq(raw, 1, n) \in Text /\ Len(SubSeq(raw, 1, n)) = (n - 1) + 1
          /\ \A i \in 1..((n - 1) + 1) : SubSeq(raw, 1, n)[i] = raw[(1 + i) - 1]
      BY <1>5, <3>1, SubTextAt
    <3> QED BY <3>1, <3>2 DEF n
  <2> HIDE DEF u
  <2>4. \A i \in 1..Len(u) : u[i] = name[i]
    <3>1. \A i \in 1..Len(name) : (1 + i) - 1 = i
      BY <1>1
    <3> QED BY <1>6, <2>3, <3>1
  <2>5. u = name
    BY <2>3, <2>4, TextEqual
  <2> QED BY <2>1, <2>5 DEF u
<1>12. Min(open) # 1
  BY <1>1, <1>8
<1>13. ParseSegment(raw) =
          IF raw = <<>> \/ Last(raw) # "]" THEN <<Field(raw)>>
          ELSE IF open = {} THEN Missing
          ELSE IF Len(SubSeq(raw, Min(open) + 1, Len(raw) - 1)) # 1
                     \/ SubSeq(raw, Min(open) + 1, Len(raw) - 1)[1] \notin Numeral THEN Missing
          ELSE (IF Min(open) = 1 THEN <<>> ELSE <<Field(SubSeq(raw, 1, Min(open) - 1))>>)
                  \o <<Index(NumberOf[SubSeq(raw, Min(open) + 1, Len(raw) - 1)[1]])>>
  BY <1>4 DEF ParseSegment
<1> HIDE DEF open
<1>14. ParseSegment(raw) =
          IF Len(x) # 1 \/ x[1] \notin Numeral THEN Missing
          ELSE <<Field(name)>> \o <<Index(NumberOf[x[1]])>>
  BY <1>8, <1>9, <1>10, <1>11, <1>12, <1>13, Zenon
<1> QED BY <1>5, <1>14 DEF raw, g, b, e

-----------------------------------------------------------------------------
(* A path, as it is written, is read as it was meant unless an index       *)
(* follows an index.                                                       *)
Free(t, S) == \A i \in 1..Len(t) : t[i] \notin S
Dots(s) == {i \in 1..Len(s) : s[i] = "."}

LEMMA FreeConcat ==
    ASSUME NEW S, NEW s \in Text, NEW t \in Text
    PROVE  Free(s \o t, S) <=> Free(s, S) /\ Free(t, S)
<1> DEFINE w == s \o t
<1>1. Len(s) \in Nat /\ Len(t) \in Nat
  BY TextLen
<1>2. /\ Len(w) = Len(s) + Len(t)
      /\ \A i \in 1..(Len(s) + Len(t)) : w[i] = IF i <= Len(s) THEN s[i] ELSE t[i - Len(s)]
  BY ConcatAt
<1> HIDE DEF w
<1>3. ASSUME Free(s, S), Free(t, S), NEW i \in 1..Len(w) PROVE w[i] \notin S
  <2>1. CASE i <= Len(s)
    <3>1. i \in 1..Len(s) /\ w[i] = s[i]
      BY <1>1, <1>2, <2>1
    <3> QED BY <1>3, <3>1 DEF Free
  <2>2. CASE ~(i <= Len(s))
    <3>1. i - Len(s) \in 1..Len(t) /\ w[i] = t[i - Len(s)]
      BY <1>1, <1>2, <2>2
    <3> QED BY <1>3, <3>1 DEF Free
  <2> QED BY <2>1, <2>2
<1>4. ASSUME Free(w, S), NEW i \in 1..Len(s) PROVE s[i] \notin S
  <2>1. i \in 1..Len(w) /\ w[i] = s[i]
    BY <1>1, <1>2
  <2> QED BY <1>4, <2>1 DEF Free
<1>5. ASSUME Free(w, S), NEW i \in 1..Len(t) PROVE t[i] \notin S
  <2>1. i + Len(s) \in 1..Len(w) /\ w[i + Len(s)] = t[i]
    BY <1>1, <1>2
  <2> QED BY <1>5, <2>1 DEF Free
<1> QED BY <1>3, <1>4, <1>5 DEF Free, w

LEMMA FreeOne ==
    ASSUME NEW S, NEW c \in Piece, c \notin S PROVE Free(<<c>>, S)
<1> DEFINE t == <<c>>
<1>1. Len(t) = 1 /\ t[1] = c
  BY TextOne
<1> HIDE DEF t
<1>2. \A i \in 1..Len(t) : t[i] \notin S
  BY <1>1
<1> QED BY <1>2 DEF Free, t

LEMMA DotsMore ==
    ASSUME NEW s \in Text, NEW u \in Text, Free(u, {"."})
    PROVE  Dots(s \o u) = Dots(s) /\ Dots((s \o <<".">>) \o u) = Dots(s) \cup {Len(s) + 1}
<1>1. ASSUME NEW a \in Text PROVE Dots(a \o u) = Dots(a)
  <2> DEFINE w == a \o u
  <2>1. Len(a) \in Nat /\ Len(u) \in Nat
    BY TextLen
  <2>2. /\ Len(w) = Len(a) + Len(u)
        /\ \A i \in 1..(Len(a) + Len(u)) : w[i] = IF i <= Len(a) THEN a[i] ELSE u[i - Len(a)]
    BY ConcatAt
  <2> HIDE DEF w
  <2>3. ASSUME NEW i PROVE i \in Dots(w) <=> i \in Dots(a)
    <3>1. i \in Dots(w) <=> i \in 1..Len(w) /\ w[i] = "."
      BY DEF Dots
    <3>2. i \in Dots(a) <=> i \in 1..Len(a) /\ a[i] = "."
      BY DEF Dots
    <3>3. CASE i \in 1..Len(a)
      <4>1. i \in 1..Len(w) /\ w[i] = a[i]
        BY <2>1, <2>2, <3>3
      <4> QED BY <3>1, <3>2, <3>3, <4>1
    <3>4. CASE i \in 1..Len(w) /\ i \notin 1..Len(a)
      <4>1. i - Len(a) \in 1..Len(u) /\ w[i] = u[i - Len(a)]
        BY <2>1, <2>2, <3>4
      <4>2. w[i] # "."
        BY <4>1 DEF Free
      <4> QED BY <3>1, <3>2, <3>4, <4>2
    <3> QED BY <3>1, <3>2, <3>3, <3>4
  <2> QED BY <2>3 DEF w
<1>2. Dots(s \o <<".">>) = Dots(s) \cup {Len(s) + 1}
  <2> DEFINE d == <<".">>
             w == s \o d
             m == Len(s) + 1
  <2>1. Len(s) \in Nat /\ d \in Text /\ Len(d) = 1 /\ d[1] = "."
    BY TextLen, TextOne, PieceAssumption DEF Symbols
  <2> HIDE DEF d
  <2>2. /\ Len(w) = Len(s) + Len(d)
        /\ \A i \in 1..(Len(s) + Len(d)) : w[i] = IF i <= Len(s) THEN s[i] ELSE d[i - Len(s)]
    BY <2>1, ConcatAt
  <2> HIDE DEF w
  <2>3. w[m] = "." /\ m \in 1..Len(w) /\ m \notin 1..Len(s)
    BY <2>1, <2>2
  <2>4. ASSUME NEW i PROVE i \in Dots(w) <=> i \in Dots(s) \cup {m}
    <3>1. i \in Dots(w) <=> i \in 1..Len(w) /\ w[i] = "."
      BY DEF Dots
    <3>2. i \in Dots(s) <=> i \in 1..Len(s) /\ s[i] = "."
      BY DEF Dots
    <3>3. CASE i \in 1..Len(s)
      <4>1. i \in 1..Len(w) /\ w[i] = s[i] /\ i # m
        BY <2>1, <2>2, <3>3
      <4> HIDE DEF m
      <4> QED BY <3>1, <3>2, <3>3, <4>1
    <3>4. CASE i \notin 1..Len(s)
      <4>1. i \in 1..Len(w) <=> i = m
        BY <2>1, <2>2, <3>4
      <4> HIDE DEF m
      <4> QED BY <2>3, <3>1, <3>2, <3>4, <4>1
    <3> QED BY <3>3, <3>4
  <2> HIDE DEF m
  <2> QED BY <2>4 DEF w, d, m
<1>3. s \o <<".">> \in Text
  BY SymbolTexts, ConcatText
<1> QED BY <1>1, <1>2, <1>3

LEMMA SegmentsAre ==
    ASSUME NEW s \in Text
    PROVE  LET raws == Split(s, Dots(s)) n == Len(raws)
           IN  /\ Dots(s) \subseteq 1..Len(s)
               /\ raws \in Seq(Text) /\ n \in Nat /\ n >= 1
               /\ DOMAIN Segments(s) = 1..n
               /\ \A i \in 1..n : raws[i] \in Text /\ Segments(s)[i] = ParseSegment(raws[i])
               /\ Missing \in ToSet(Segments(s)) <=> \E i \in 1..n : ParseSegment(raws[i]) = Missing
               /\ Missing \notin ToSet(Segments(s)) =>
                     Segments(s) \in Seq(Seq(Segment)) /\ Len(Segments(s)) = n
<1> DEFINE raws == Split(s, Dots(s))
           n == Len(raws)
<1>1. Dots(s) \subseteq 1..Len(s)
  BY DEF Dots
<1>2. raws \in Seq(Text) /\ n = Cardinality(Dots(s)) + 1 /\ Cardinality(Dots(s)) \in Nat
  BY <1>1, SplitIs, CutsFinite
<1>3. Segments(s) = [i \in 1..n |-> ParseSegment(raws[i])]
  BY DEF Segments, Dots
<1> HIDE DEF raws, n
<1>4. n \in Nat /\ n >= 1
  BY <1>2
<1>5. DOMAIN Segments(s) = 1..n /\ \A i \in 1..n : Segments(s)[i] = ParseSegment(raws[i])
  BY <1>3
<1>6. \A i \in 1..n : raws[i] \in Text
  BY <1>2, ElementOfSeq DEF n
<1>7. Missing \in ToSet(Segments(s)) <=> \E i \in 1..n : ParseSegment(raws[i]) = Missing
  BY <1>5 DEF ToSet
<1>8. ASSUME Missing \notin ToSet(Segments(s))
      PROVE  Segments(s) \in Seq(Seq(Segment)) /\ Len(Segments(s)) = n
  <2>1. \A i \in 1..n : ParseSegment(raws[i]) \in Seq(Segment)
    BY <1>6, <1>7, <1>8, SegmentTyped
  <2>2. Segments(s) \in Seq(Seq(Segment))
    BY <1>3, <1>4, <2>1, SeqDef
  <2> QED BY <1>3, <1>4, <2>2
<1> QED BY <1>1, <1>2, <1>4, <1>5, <1>6, <1>7, <1>8 DEF raws, n

Doubled(path) == \E i \in 2..Len(path) : path[i - 1].seg = "index" /\ path[i].seg = "index"

(* What Segments makes of a text that spells the path, and its last part.  *)
Reads(path, s) ==
    IF Doubled(path) THEN Missing \in ToSet(Segments(s))
    ELSE Missing \notin ToSet(Segments(s)) /\ FlattenSeq(Segments(s)) = path
LastRaw(s) == Split(s, Dots(s))[Len(Split(s, Dots(s)))]

LEMMA DoubledMore ==
    ASSUME NEW path \in Seq(Segment), path # <<>>, NEW x \in Segment
    PROVE  Doubled(Append(path, x)) <=>
              Doubled(path) \/ (Last(path).seg = "index" /\ x.seg = "index")
<1> DEFINE all == Append(path, x)
           n == Len(path)
<1>1. n \in Nat /\ n >= 1
  BY LenProperties, EmptySeq
<1>2. Len(all) = n + 1 /\ all[n + 1] = x /\ \A i \in 1..n : all[i] = path[i]
  BY AppendProperties
<1> HIDE DEF all
<1>3. Last(path) = path[n]
  BY LastIs
<1>4. ASSUME Doubled(path) PROVE Doubled(all)
  <2>1. PICK i \in 2..n : path[i - 1].seg = "index" /\ path[i].seg = "index"
    BY <1>4 DEF Doubled
  <2>2. i \in 1..n /\ i - 1 \in 1..n /\ i \in 2..Len(all)
    BY <1>1, <1>2
  <2>3. all[i - 1].seg = "index" /\ all[i].seg = "index"
    BY <1>2, <2>1, <2>2
  <2> QED BY <2>2, <2>3 DEF Doubled
<1>5. ASSUME path[n].seg = "index", x.seg = "index" PROVE Doubled(all)
  <2>1. n + 1 \in 2..Len(all) /\ (n + 1) - 1 = n /\ n \in 1..n
    BY <1>1, <1>2
  <2>2. all[(n + 1) - 1].seg = "index" /\ all[n + 1].seg = "index"
    BY <1>2, <1>5, <2>1
  <2> QED BY <2>1, <2>2 DEF Doubled
<1>6. ASSUME Doubled(all) PROVE Doubled(path) \/ (path[n].seg = "index" /\ x.seg = "index")
  <2>1. PICK i \in 2..Len(all) : all[i - 1].seg = "index" /\ all[i].seg = "index"
    BY <1>6 DEF Doubled
  <2>2. CASE i = n + 1
    <3>1. i - 1 = n /\ n \in 1..n
      BY <1>1, <2>2
    <3> QED BY <1>2, <2>1, <2>2, <3>1
  <2>3. CASE i # n + 1
    <3>1. i \in 2..n /\ i \in 1..n /\ i - 1 \in 1..n
      BY <1>1, <1>2, <2>3
    <3>2. path[i - 1].seg = "index" /\ path[i].seg = "index"
      BY <1>2, <2>1, <3>1
    <3> QED BY <3>1, <3>2 DEF Doubled
  <2> QED BY <2>2, <2>3
<1> QED BY <1>3, <1>4, <1>5, <1>6 DEF all

(* A name is one part, and read as a field.                                *)
LEMMA NameSegment ==
    ASSUME NEW name \in Text, Free(name, Marks)
    PROVE  Free(name, {"."}) /\ Field(name) \in Segment /\ ParseSegment(name) = <<Field(name)>>
<1>1. Free(name, {"."})
  BY DEF Free, Marks
<1>2. Field(name) \in Segment
  BY FieldTyped
<1>3. name = <<>> \/ Last(name) # "]"
  <2> SUFFICES ASSUME name # <<>> PROVE Last(name) # "]"
    OBVIOUS
  <2>1. Len(name) \in 1..Len(name)
    BY SomeText
  <2> QED BY <2>1, LastIs DEF Free, Marks
<1> QED BY <1>1, <1>2, <1>3 DEF ParseSegment

LEMMA ReadName ==
    ASSUME NEW name \in Text, Free(name, Marks)
    PROVE  Reads(<<Field(name)>>, name) /\ LastRaw(name) = name
<1> DEFINE f == Field(name)
           path == <<f>>
           raws == Split(name, Dots(name))
           n == Len(raws)
<1>1. f \in Segment /\ ParseSegment(name) = <<f>>
  BY NameSegment
<1>2. Dots(name) = {}
  BY NameSegment DEF Dots, Free
<1>3. n = 1 /\ raws[1] = name
  BY <1>2, SplitNone
<1>4. /\ Missing \in ToSet(Segments(name)) <=> \E i \in 1..n : ParseSegment(raws[i]) = Missing
      /\ Missing \notin ToSet(Segments(name)) =>
            Segments(name) \in Seq(Seq(Segment)) /\ Len(Segments(name)) = n
      /\ \A i \in 1..n : Segments(name)[i] = ParseSegment(raws[i])
  BY SegmentsAre
<1> HIDE DEF raws, n, f
<1>5. path \in Seq(Segment) /\ path # Missing /\ Len(path) = 1
  <2>1. path \in Seq(Segment) /\ Len(path) = 1
    BY <1>1
  <2> HIDE DEF path
  <2> QED BY <2>1, MissingAssumption, Zenon
<1>6. 1 \in 1..n /\ \A i \in 1..n : i = 1
  BY <1>3
<1>7. Missing \notin ToSet(Segments(name))
  BY <1>1, <1>3, <1>4, <1>5, <1>6
<1>8. FlattenSeq(Segments(name)) = path
  <2> DEFINE segs == Segments(name)
  <2>1. segs \in Seq(Seq(Segment)) /\ Len(segs) = 1 /\ segs[1] = path
    BY <1>1, <1>3, <1>4, <1>6, <1>7
  <2> HIDE DEF segs, path
  <2>2. segs = Append(<<>>, path)
    <3> DEFINE e == <<>>
    <3>1. e \in Seq(Seq(Segment)) /\ Len(e) = 0
      BY EmptySeq
    <3> HIDE DEF e
    <3>2. Append(e, path) \in Seq(Seq(Segment)) /\ Len(Append(e, path)) = 0 + 1 /\ Append(e, path)[0 + 1] = path
      BY <1>5, <3>1, AppendProperties
    <3> DEFINE w == Append(e, path)
    <3>3. w \in Seq(Seq(Segment)) /\ Len(w) = 1 /\ w[1] = path
      BY <3>2
    <3> HIDE DEF w
    <3>4. \A i \in 1..Len(segs) : segs[i] = w[i]
      <4>1. \A i \in 1..1 : i = 1
        OBVIOUS
      <4> QED BY <2>1, <3>3, <4>1
    <3>5. segs = w
      BY <2>1, <3>3, <3>4, SeqEqual
    <3> QED BY <3>5 DEF w, e
  <2>3. <<>> \in Seq(Seq(Segment))
    BY EmptySeq
  <2>4. FlattenSeq(Append(<<>>, path)) = FlattenSeq(<<>>) \o path
    BY <1>5, <2>3, FlattenAppend
  <2>5. FlattenSeq(Append(<<>>, path)) = path
    BY <1>5, <2>4, FlattenNone, ConcatEmptySeq
  <2> QED BY <2>2, <2>5 DEF segs
<1>9. ~Doubled(path)
  <2> HIDE DEF path
  <2> QED BY <1>5 DEF Doubled
<1> QED BY <1>3, <1>7, <1>8, <1>9 DEF Reads, LastRaw, raws, n, f

(* One more field.                                                         *)
LEMMA ReadField ==
    ASSUME NEW path \in Seq(Segment), path # <<>>, NEW s \in Text, Reads(path, s),
           NEW name \in Text, Free(name, Marks)
    PROVE  LET w == (s \o <<".">>) \o name
           IN  w \in Text /\ Reads(Append(path, Field(name)), w) /\ LastRaw(w) = name
<1> DEFINE w == (s \o <<".">>) \o name
           f == Field(name)
           all == Append(path, f)
           rs == Split(s, Dots(s))
           rw == Split(w, Dots(w))
           n == Len(rs)
           one == <<f>>
<1>1. f \in Segment /\ ParseSegment(name) = one /\ Free(name, {"."})
  BY NameSegment
<1>2. "." \in Piece /\ <<".">> \in Text
  BY PieceAssumption, TextOne DEF Symbols
<1>3. w \in Text
  BY <1>2, ConcatText
<1>4. Dots(w) = Dots(s) \cup {Len(s) + 1}
  BY <1>1, DotsMore
<1>5. /\ n \in Nat /\ n >= 1 /\ Len(rw) = n + 1 /\ rw[n + 1] = name
      /\ \A i \in 1..n : rw[i] = rs[i]
  <2> DEFINE sep == "."
             cuts == Dots(s)
             more == cuts \cup {Len(s) + 1}
             v == (s \o <<sep>>) \o name
  <2>1. cuts \subseteq 1..Len(s)
    BY SegmentsAre
  <2>2. sep \in Piece
    BY <1>2
  <2> HIDE DEF cuts, sep
  <2>3. OnePartMore(Split(s, cuts), Split(v, more), name)
    BY <2>1, <2>2, SplitAppend
  <2>4. v = w /\ more = Dots(w) /\ cuts = Dots(s)
    BY <1>4 DEF sep, cuts
  <2> HIDE DEF v, w, more
  <2>5. OnePartMore(rs, rw, name)
    BY <2>3, <2>4
  <2> HIDE DEF rs, rw
  <2> QED BY <2>5 DEF OnePartMore
<1>6. /\ Missing \in ToSet(Segments(s)) <=> \E i \in 1..n : ParseSegment(rs[i]) = Missing
      /\ Missing \notin ToSet(Segments(s)) =>
            Segments(s) \in Seq(Seq(Segment)) /\ Len(Segments(s)) = n
      /\ \A i \in 1..n : Segments(s)[i] = ParseSegment(rs[i])
  BY SegmentsAre
<1>7. /\ Missing \in ToSet(Segments(w)) <=> \E i \in 1..(n + 1) : ParseSegment(rw[i]) = Missing
      /\ Missing \notin ToSet(Segments(w)) =>
            Segments(w) \in Seq(Seq(Segment)) /\ Len(Segments(w)) = n + 1
      /\ \A i \in 1..(n + 1) : Segments(w)[i] = ParseSegment(rw[i])
  <2> HIDE DEF w
  <2>1. /\ Missing \in ToSet(Segments(w)) <=> \E i \in 1..Len(rw) : ParseSegment(rw[i]) = Missing
        /\ Missing \notin ToSet(Segments(w)) =>
              Segments(w) \in Seq(Seq(Segment)) /\ Len(Segments(w)) = Len(rw)
        /\ \A i \in 1..Len(rw) : Segments(w)[i] = ParseSegment(rw[i])
    BY <1>3, SegmentsAre
  <2>2. Len(rw) = n + 1
    BY <1>5
  <2> HIDE DEF rw, n
  <2> QED BY <2>1, <2>2
<1> HIDE DEF rs, rw, n, w, f
<1>8. one \in Seq(Segment) /\ one # Missing
  <2>1. one \in Seq(Segment)
    BY <1>1
  <2> HIDE DEF one
  <2> QED BY <2>1, MissingAssumption, Zenon
<1> HIDE DEF one
<1>9. \A i \in 1..(n + 1) : i \in 1..n \/ i = n + 1
  BY <1>5
<1>10. (\A i \in 1..n : i \in 1..(n + 1)) /\ n + 1 \in 1..(n + 1)
  BY <1>5
<1>11. Missing \in ToSet(Segments(w)) <=> Missing \in ToSet(Segments(s))
  BY <1>1, <1>5, <1>6, <1>7, <1>8, <1>9, <1>10
<1>12. Doubled(all) <=> Doubled(path)
  <2>1. f.seg # "index"
    BY DEF f, Field
  <2> QED BY <1>1, <2>1, DoubledMore
<1>13. ASSUME Missing \notin ToSet(Segments(s)) PROVE FlattenSeq(Segments(w)) = FlattenSeq(Segments(s)) \o one
  <2> DEFINE ss == Segments(s)
             sw == Segments(w)
             a == Append(ss, one)
  <2>1. /\ ss \in Seq(Seq(Segment)) /\ Len(ss) = n /\ sw \in Seq(Seq(Segment)) /\ Len(sw) = n + 1
        /\ sw[n + 1] = one /\ \A i \in 1..n : sw[i] = ss[i]
    BY <1>1, <1>5, <1>6, <1>7, <1>10, <1>11, <1>13
  <2> HIDE DEF ss, sw
  <2>2. a \in Seq(Seq(Segment)) /\ Len(a) = n + 1 /\ a[n + 1] = one /\ \A i \in 1..n : a[i] = ss[i]
    <3>1. /\ a \in Seq(Seq(Segment)) /\ Len(a) = Len(ss) + 1 /\ a[Len(ss) + 1] = one
          /\ \A i \in 1..Len(ss) : a[i] = ss[i]
      BY <1>8, <2>1, AppendProperties
    <3> HIDE DEF a
    <3> QED BY <2>1, <3>1
  <2> HIDE DEF a
  <2>3. sw = a
    <3>1. \A i \in 1..Len(sw) : sw[i] = a[i]
      BY <1>9, <2>1, <2>2
    <3> QED BY <2>1, <2>2, <3>1, SeqEqual
  <2>4. FlattenSeq(Append(ss, one)) = FlattenSeq(ss) \o one
    BY <1>8, <2>1, FlattenAppend
  <2> QED BY <2>3, <2>4 DEF ss, sw, a
<1>14. path \o one = all
  <2>1. Append(path, f) = path \o <<f>>
    BY <1>1, AppendIsConcat
  <2> QED BY <2>1 DEF one
<1>15. Reads(all, w)
  BY <1>11, <1>12, <1>13, <1>14 DEF Reads
<1>16. LastRaw(w) = name
  BY <1>5 DEF LastRaw, rw
<1> QED BY <1>3, <1>15, <1>16 DEF w, f

(* What the last part of a text is that spells the path.                   *)
Bracket(name, x) == ((name \o <<"[">>) \o x) \o <<"]">>

Ends(path, s) ==
    IF Last(path).seg = "index"
    THEN \E name \in Text, x \in Text :
            name # <<>> /\ Free(name, Marks) /\ x # <<>> /\ LastRaw(s) = Bracket(name, x)
    ELSE LastRaw(s) # <<>> /\ Free(LastRaw(s), Marks)

LEMMA NumeralPlain ==
    ASSUME NEW n \in Numeral
    PROVE  n \in Piece /\ n \notin Symbols /\ n \notin Marks /\ n # "." /\ n # Quote /\ n # Space
<1>1. n \in Piece /\ n \notin Symbols
  BY NumeralAssumption
<1>2. Marks \subseteq Symbols /\ "." \in Symbols /\ Quote \in Symbols /\ Space \in Symbols
  BY DEF Marks, Symbols
<1> QED BY <1>1, <1>2

LEMMA BracketedFree ==
    ASSUME NEW n \in Numeral PROVE Bracketed(n) \in Text /\ Free(Bracketed(n), {"."})
<1> DEFINE b == <<"[">>
           e == <<"]">>
           m == <<n>>
           D == {"."}
<1>1. n \in Piece /\ n # "." /\ "[" \in Piece /\ "]" \in Piece
  BY NumeralPlain, PieceAssumption DEF Symbols
<1>2. b \in Text /\ e \in Text /\ m \in Text
  BY <1>1, TextOne
<1>3. Free(b, D) /\ Free(e, D) /\ Free(m, D)
  <2>1. "[" \notin D /\ "]" \notin D /\ n \notin D
    BY <1>1
  <2> HIDE DEF D
  <2> QED BY <1>1, <2>1, FreeOne
<1> HIDE DEF b, e, m, D
<1> DEFINE bm == b \o m
<1>4. bm \in Text /\ Free(bm, D)
  BY <1>2, <1>3, ConcatText, FreeConcat
<1> HIDE DEF bm
<1>5. bm \o e \in Text /\ Free(bm \o e, D)
  BY <1>2, <1>3, <1>4, ConcatText, FreeConcat
<1> QED BY <1>5 DEF Bracketed, bm, b, m, e, D

LEMMA BracketMore ==
    ASSUME NEW name \in Text, NEW x \in Text, NEW n \in Numeral
    PROVE  /\ name \o Bracketed(n) = Bracket(name, <<n>>) /\ <<n>> \in Text
           /\ \E y \in Text : /\ Bracket(name, x) \o Bracketed(n) = Bracket(name, y)
                              /\ Len(y) = Len(x) + 3 /\ y # <<>>
<1> DEFINE b == <<"[">>
           e == <<"]">>
           m == <<n>>
<1>1. n \in Piece /\ "[" \in Piece /\ "]" \in Piece
  BY NumeralPlain, PieceAssumption DEF Symbols
<1>2. b \in Text /\ e \in Text /\ m \in Text /\ Len(b) = 1 /\ Len(e) = 1 /\ Len(m) = 1
  BY <1>1, TextOne
<1>3. Bracketed(n) = (b \o m) \o e /\ \A u : Bracket(name, u) = ((name \o b) \o u) \o e
  BY DEF Bracketed, Bracket
<1> HIDE DEF b, e, m
<1> DEFINE bm == b \o m
           g == name \o b
           xe == x \o e
           xeb == xe \o b
           y == xeb \o m
           gx == g \o x
           A == gx \o e
<1>4. bm \in Text /\ g \in Text /\ xe \in Text /\ Len(xe) = Len(x) + 1
  BY <1>2, ConcatAt, ZenonT(40)
<1>5. name \o (bm \o e) = (name \o bm) \o e
  <2>1. name \in Text /\ bm \in Text /\ e \in Text
    BY <1>2, <1>4
  <2> HIDE DEF bm
  <2> QED BY <2>1, TextAssoc
<1>6. name \o bm = g \o m
  <2>1. name \in Text /\ b \in Text /\ m \in Text
    BY <1>2
  <2> QED BY <2>1, TextAssoc
<1>7. name \o Bracketed(n) = Bracket(name, m)
  BY <1>3, <1>5, <1>6
<1> HIDE DEF bm, g, xe
<1>8. xeb \in Text /\ Len(xeb) = Len(x) + 2 /\ gx \in Text
  <2>1. Len(x) \in Nat
    BY TextLen
  <2>2. xe \in Text /\ b \in Text /\ g \in Text
    BY <1>2, <1>4
  <2>3. xeb \in Text /\ Len(xeb) = Len(xe) + Len(b) /\ gx \in Text
    BY <2>2, ConcatAt
  <2> HIDE DEF xeb
  <2> QED BY <1>2, <1>4, <2>1, <2>3
<1> HIDE DEF xeb, gx
<1>9. y \in Text /\ Len(y) = Len(x) + 3 /\ A \in Text
  <2>1. Len(x) \in Nat
    BY TextLen
  <2>2. xeb \in Text /\ m \in Text /\ gx \in Text /\ e \in Text
    BY <1>2, <1>8
  <2>3. y \in Text /\ Len(y) = Len(xeb) + Len(m) /\ A \in Text
    BY <2>2, ConcatAt
  <2> HIDE DEF y
  <2> QED BY <1>2, <1>8, <2>1, <2>3
<1>10. A = g \o xe
  BY <1>2, <1>4, TextAssoc, SMTT(20) DEF gx, xe
<1> HIDE DEF A, y
<1>11. A \o (bm \o e) = (A \o bm) \o e
  <2>1. A \in Text /\ bm \in Text /\ e \in Text
    BY <1>2, <1>4, <1>9
  <2> QED BY <2>1, TextAssoc, ZenonT(40)
<1>12. A \o bm = (A \o b) \o m
  <2>1. A \in Text /\ b \in Text /\ m \in Text
    BY <1>2, <1>9
  <2>2. A \o (b \o m) = (A \o b) \o m
    BY <2>1, TextAssoc, SMTT(20)
  <2> QED BY <2>2 DEF bm
<1>13. A \o b = g \o xeb
  <2>1. (g \o xe) \o b = g \o (xe \o b)
    BY <1>2, <1>4, TextAssoc, SMTT(20)
  <2> QED BY <1>10, <2>1 DEF xeb
<1>14. (g \o xeb) \o m = g \o y
  <2>1. g \in Text /\ xeb \in Text /\ m \in Text
    BY <1>2, <1>4, <1>8
  <2>2. (g \o xeb) \o m = g \o (xeb \o m)
    BY <2>1, TextAssoc
  <2> QED BY <2>2 DEF y
<1>15. Bracket(name, x) = A /\ Bracket(name, y) = (g \o y) \o e
  BY <1>3 DEF A, gx, g
<1>16. Bracket(name, x) \o Bracketed(n) = Bracket(name, y)
  <2>1. Bracketed(n) = bm \o e
    BY <1>3 DEF bm
  <2>2. A \o bm = g \o y
    BY <1>12, <1>13, <1>14
  <2> QED BY <1>11, <1>15, <2>1, <2>2
<1>17. y # <<>>
  <2>1. Len(x) \in Nat
    BY TextLen
  <2>2. Len(y) >= 1 /\ Len(y) \in Nat
    BY <1>9, <2>1
  <2> QED BY <1>9, <2>2, SomeText
<1> QED BY <1>2, <1>7, <1>9, <1>16, <1>17 DEF m

LEMMA BracketRead ==
    ASSUME NEW name \in Text, name # <<>>, Free(name, Marks), NEW x \in Text
    PROVE  /\ Bracket(name, x) \in Text
           /\ ParseSegment(Bracket(name, x)) =
                 IF Len(x) # 1 \/ x[1] \notin Numeral THEN Missing
                 ELSE <<Field(name)>> \o <<Index(NumberOf[x[1]])>>
<1>1. \A i \in 1..Len(name) : name[i] # "["
  BY DEF Free, Marks
<1> QED BY <1>1, BracketSegment DEF Bracket

(* One more index.                                                         *)
LEMMA ReadIndex ==
    ASSUME NEW path \in Seq(Segment), path # <<>>, NEW s \in Text, Reads(path, s), Ends(path, s),
           NEW n \in Numeral
    PROVE  LET all == Append(path, Index(NumberOf[n]))
               w == s \o Bracketed(n)
           IN  w \in Text /\ Reads(all, w) /\ Ends(all, w)
<1> DEFINE w == s \o Bracketed(n)
           x == Index(NumberOf[n])
           all == Append(path, x)
           rs == Split(s, Dots(s))
           rw == Split(w, Dots(w))
           k == Len(rs)
           i1 == <<x>>
<1>1. Bracketed(n) \in Text /\ Free(Bracketed(n), {"."})
  BY BracketedFree
<1>2. w \in Text /\ Dots(w) = Dots(s)
  BY <1>1, ConcatText, DotsMore
<1>3. LastPartLonger(rs, rw, Bracketed(n))
  <2> DEFINE t == Bracketed(n)
             cuts == Dots(s)
  <2>1. t \in Text /\ cuts \subseteq 1..Len(s)
    BY <1>1, SegmentsAre
  <2> HIDE DEF t, cuts
  <2>2. LastPartLonger(Split(s, cuts), Split(s \o t, cuts), t)
    BY <2>1, SplitExtend
  <2> QED BY <1>2, <2>2 DEF t, cuts
<1>4. /\ k \in Nat /\ k >= 1 /\ Len(rw) = k /\ rs[k] \in Text /\ rw[k] = rs[k] \o Bracketed(n)
      /\ \A i \in 1..(k - 1) : rw[i] = rs[i]
  <2> HIDE DEF rs, rw
  <2> QED BY <1>3 DEF LastPartLonger
<1>5. /\ Missing \in ToSet(Segments(s)) <=> \E i \in 1..k : ParseSegment(rs[i]) = Missing
      /\ Missing \notin ToSet(Segments(s)) =>
            Segments(s) \in Seq(Seq(Segment)) /\ Len(Segments(s)) = k
      /\ \A i \in 1..k : Segments(s)[i] = ParseSegment(rs[i])
  BY SegmentsAre
<1>6. /\ Missing \in ToSet(Segments(w)) <=> \E i \in 1..k : ParseSegment(rw[i]) = Missing
      /\ Missing \notin ToSet(Segments(w)) =>
            Segments(w) \in Seq(Seq(Segment)) /\ Len(Segments(w)) = k
      /\ \A i \in 1..k : Segments(w)[i] = ParseSegment(rw[i])
  <2> HIDE DEF w
  <2>1. /\ Missing \in ToSet(Segments(w)) <=> \E i \in 1..Len(rw) : ParseSegment(rw[i]) = Missing
        /\ Missing \notin ToSet(Segments(w)) =>
              Segments(w) \in Seq(Seq(Segment)) /\ Len(Segments(w)) = Len(rw)
        /\ \A i \in 1..Len(rw) : Segments(w)[i] = ParseSegment(rw[i])
    BY <1>2, SegmentsAre
  <2>2. Len(rw) = k
    BY <1>4
  <2> HIDE DEF rw, k
  <2> QED BY <2>1, <2>2
<1>7. LastRaw(s) = rs[k] /\ LastRaw(w) = rw[k]
  BY <1>4 DEF LastRaw
<1>8. x \in Segment /\ x.seg = "index"
  BY IndexTyped DEF Index
<1>9. all \in Seq(Segment) /\ Last(all).seg = "index"
  <2>1. all \in Seq(Segment) /\ Len(all) = Len(path) + 1 /\ all[Len(path) + 1] = x
    BY <1>8, AppendProperties
  <2> HIDE DEF all
  <2> QED BY <1>8, <2>1, LastIs
<1>10. Doubled(all) <=> Doubled(path) \/ Last(path).seg = "index"
  BY <1>8, DoubledMore
<1>11. k \in 1..k /\ \A i \in 1..k : i = k \/ i \in 1..(k - 1)
  BY <1>4
<1>12. \A i \in 1..(k - 1) : i \in 1..k
  BY <1>4
<1> HIDE DEF w, rs, rw, k, x
<1>13. CASE Last(path).seg = "index"
  <2>1. PICK name \in Text : \E u \in Text :
            name # <<>> /\ Free(name, Marks) /\ u # <<>> /\ rs[k] = Bracket(name, u)
    BY <1>7, <1>13 DEF Ends
  <2>2. PICK u \in Text : u # <<>> /\ rs[k] = Bracket(name, u)
    BY <2>1
  <2>3. PICK y \in Text : /\ Bracket(name, u) \o Bracketed(n) = Bracket(name, y)
                          /\ Len(y) = Len(u) + 3 /\ y # <<>>
    BY BracketMore
  <2>4. rw[k] = Bracket(name, y)
    BY <1>4, <2>2, <2>3
  <2>5. Len(y) # 1
    BY <2>3, TextLen
  <2>6. ParseSegment(rw[k]) = Missing
    BY <2>1, <2>4, <2>5, BracketRead
  <2>7. Missing \in ToSet(Segments(w))
    BY <1>6, <1>11, <2>6
  <2>8. Reads(all, w)
    BY <1>10, <1>13, <2>7 DEF Reads
  <2>9. Ends(all, w)
    BY <1>7, <1>9, <2>1, <2>3, <2>4 DEF Ends
  <2> QED BY <1>2, <2>8, <2>9 DEF w, x
<1>14. CASE Last(path).seg # "index"
  <2> DEFINE name == rs[k]
             one == <<Field(name)>>
             front == SubSeq(Segments(s), 1, k - 1)
  <2>1. name \in Text /\ name # <<>> /\ Free(name, Marks)
    BY <1>4, <1>7, <1>14 DEF Ends
  <2>2. Field(name) \in Segment /\ ParseSegment(name) = one
    BY <2>1, NameSegment
  <2>3. one \in Seq(Segment) /\ i1 \in Seq(Segment)
    BY <1>8, <2>2, OneSegment
  <2>4. rw[k] = Bracket(name, <<n>>) /\ <<n>> \in Text
    BY <1>4, <2>1, BracketMore
  <2>5. ParseSegment(rw[k]) = one \o i1
    <3>1. Len(<<n>>) = 1 /\ <<n>>[1] = n
      OBVIOUS
    <3> DEFINE m == <<n>>
    <3>2. m \in Text /\ Len(m) = 1 /\ m[1] = n
      BY <2>4, <3>1
    <3>3. rw[k] = Bracket(name, m)
      BY <2>4
    <3> HIDE DEF m, name
    <3>4. ParseSegment(Bracket(name, m)) =
             IF Len(m) # 1 \/ m[1] \notin Numeral THEN Missing
             ELSE <<Field(name)>> \o <<Index(NumberOf[m[1]])>>
      BY <2>1, <3>2, BracketRead
    <3> QED BY <3>2, <3>3, <3>4 DEF x
  <2> HIDE DEF name, one, i1
  <2>6. one \o i1 \in Seq(Segment)
    BY <2>3, ConcatProperties
  <2>7. one # Missing /\ one \o i1 # Missing
    BY <2>3, <2>6, MissingAssumption, Zenon
  <2>8. \A i \in 1..(k - 1) : ParseSegment(rw[i]) = ParseSegment(rs[i])
    BY <1>4
  <2>9. ParseSegment(rs[k]) = one
    BY <2>2 DEF name
  <2>10. Missing \in ToSet(Segments(w)) <=> Missing \in ToSet(Segments(s))
    BY <1>5, <1>6, <1>11, <1>12, <2>5, <2>7, <2>8, <2>9
  <2>11. ASSUME Missing \notin ToSet(Segments(s)), FlattenSeq(Segments(s)) = path
         PROVE  FlattenSeq(Segments(w)) = all
    <3> DEFINE ss == Segments(s)
               sw == Segments(w)
               fs == SubSeq(ss, 1, k - 1)
               fw == SubSeq(sw, 1, k - 1)
               flat == FlattenSeq(fs)
    <3>1. ss \in Seq(Seq(Segment)) /\ sw \in Seq(Seq(Segment)) /\ Len(ss) = k /\ Len(sw) = k
      BY <1>5, <1>6, <2>10, <2>11
    <3>2. ss[k] = one /\ sw[k] = one \o i1 /\ \A i \in 1..(k - 1) : sw[i] = ss[i]
      BY <1>5, <1>6, <1>11, <1>12, <2>5, <2>8, <2>9
    <3> HIDE DEF ss, sw
    <3>3. k - 1 \in 0..(k - 1) /\ (k - 1) + 1 = k /\ k - 1 \in Int /\ k - 1 \in 0..k
      BY <1>4
    <3>4. /\ FlattenSeq(SubSeq(ss, 1, k - 1)) \in Seq(Segment)
          /\ FlattenSeq(SubSeq(ss, 1, (k - 1) + 1)) = FlattenSeq(SubSeq(ss, 1, k - 1)) \o ss[(k - 1) + 1]
      BY <3>1, <3>3, FlattenMore
    <3>5. /\ FlattenSeq(SubSeq(sw, 1, (k - 1) + 1)) = FlattenSeq(SubSeq(sw, 1, k - 1)) \o sw[(k - 1) + 1]
      BY <3>1, <3>3, FlattenMore
    <3>6. SubSeq(ss, 1, k) = ss /\ SubSeq(sw, 1, k) = sw
      BY <3>1, SubSeqFull
    <3>7. fw = fs
      <4> DEFINE T == Seq(Segment)
      <4>1. \A i \in 1..(k - 1) : ss[i] \in T /\ sw[i] \in T
        <5>1. \A i \in 1..k : ss[i] \in T /\ sw[i] \in T
          <6> HIDE DEF T
          <6>1. ss \in Seq(T) /\ sw \in Seq(T)
            BY <3>1 DEF T
          <6> QED BY <3>1, <6>1, ElementOfSeq
        <5> QED BY <1>12, <5>1
      <4> HIDE DEF T
      <4>2. /\ fs \in Seq(T) /\ fw \in Seq(T)
            /\ Len(fs) = (IF 1 <= k - 1 THEN (k - 1) - 1 + 1 ELSE 0)
            /\ Len(fw) = (IF 1 <= k - 1 THEN (k - 1) - 1 + 1 ELSE 0)
            /\ \A i \in 1..((k - 1) - 1 + 1) : fs[i] = ss[1 + i - 1] /\ fw[i] = sw[1 + i - 1]
        BY <3>3, <4>1, SubSeqProperties
      <4> HIDE DEF fs, fw
      <4>3. Len(fs) = k - 1 /\ Len(fw) = k - 1
        BY <1>4, <4>2
      <4>4. \A i \in 1..(k - 1) : fs[i] = ss[i] /\ fw[i] = sw[i]
        <5>1. \A i \in 1..(k - 1) : i \in 1..((k - 1) - 1 + 1) /\ 1 + i - 1 = i
          BY <1>4
        <5> QED BY <4>2, <5>1
      <4>5. \A i \in 1..Len(fw) : fw[i] = fs[i]
        BY <3>2, <4>3, <4>4
      <4> QED BY <4>2, <4>3, <4>5, SeqEqual
    <3> HIDE DEF fs, fw
    <3>8. flat \in Seq(Segment)
      BY <3>4 DEF fs
    <3>9. FlattenSeq(ss) = flat \o one
      BY <3>2, <3>3, <3>4, <3>6 DEF fs
    <3>10. FlattenSeq(sw) = flat \o (one \o i1)
      BY <3>2, <3>3, <3>5, <3>6, <3>7 DEF fs, fw
    <3> HIDE DEF flat
    <3>11. (flat \o one) \o i1 = flat \o (one \o i1)
      BY <2>3, <3>8, ConcatAssoc
    <3>12. FlattenSeq(sw) = path \o i1
      BY <2>11, <3>9, <3>10, <3>11 DEF ss
    <3>13. Append(path, x) = path \o i1
      BY <1>8, AppendIsConcat DEF i1
    <3> QED BY <3>12, <3>13 DEF sw
  <2>12. Reads(all, w)
    BY <1>10, <1>14, <2>10, <2>11 DEF Reads
  <2>13. Ends(all, w)
    <3> DEFINE m == <<n>>
    <3>1. m \in Text /\ m # <<>> /\ rw[k] = Bracket(name, m)
      BY <2>4
    <3> HIDE DEF m
    <3> QED BY <1>7, <1>9, <2>1, <3>1 DEF Ends
  <2> QED BY <1>2, <2>12, <2>13 DEF w, x
<1> QED BY <1>13, <1>14

(* A path as it may be written, and what its text is like.                 *)
PathWritten(path) ==
    /\ path \in Seq(Segment) /\ path # <<>> /\ path[1].seg = "field"
    /\ \A i \in 1..Len(path) : path[i].seg = "field" => path[i].name \in Identifier

Loud == {Quote, Space, "&&", "=", "!", "<", ">"}

Spelt(path) ==
    /\ path \in Seq(Segment) /\ path # <<>>
    /\ SpellPath(path) \in Text /\ SpellPath(path) # <<>> /\ Free(SpellPath(path), Loud)
    /\ Reads(path, SpellPath(path)) /\ Ends(path, SpellPath(path))
    /\ Last(SpellPath(path)) = IF Last(path).seg = "index" THEN "]" ELSE Last(Last(path).name)

LEMMA LastOfConcat ==
    ASSUME NEW a \in Text, NEW b \in Text, b # <<>>
    PROVE  a \o b \in Text /\ a \o b # <<>> /\ Last(a \o b) = Last(b)
<1> DEFINE w == a \o b
<1>1. Len(a) \in Nat /\ Len(b) \in Nat /\ Len(b) >= 1
  BY TextLen, SomeText
<1>2. /\ w \in Text /\ Len(w) = Len(a) + Len(b)
      /\ \A i \in 1..(Len(a) + Len(b)) : w[i] = IF i <= Len(a) THEN a[i] ELSE b[i - Len(a)]
  BY ConcatAt
<1> HIDE DEF w
<1>3. Len(w) \in 1..(Len(a) + Len(b)) /\ ~(Len(w) <= Len(a)) /\ Len(w) - Len(a) = Len(b) /\ Len(w) >= 1
  BY <1>1, <1>2
<1>4. w[Len(w)] = b[Len(b)]
  BY <1>2, <1>3
<1>5. w # <<>>
  BY <1>2, <1>3, SomeText
<1> QED BY <1>2, <1>4, <1>5, LastIs DEF w

LEMMA IdentifierIs ==
    ASSUME NEW name \in Identifier
    PROVE  name \in Text /\ name # <<>> /\ Free(name, Marks) /\ Free(name, Loud)
<1>1. name \in Text /\ name # <<>> /\ Free(name, Marks)
  BY DEF Identifier, Free, Text
<1>2. Loud \subseteq Marks
  BY DEF Loud, Marks
<1> QED BY <1>1, <1>2 DEF Free

LEMMA SegmentIs ==
    ASSUME NEW x \in Segment
    PROVE  \/ x.seg = "field" /\ x.name \in Text /\ x = Field(x.name)
           \/ x.seg = "index" /\ x.at \in Spelled /\ x = Index(x.at)
<1>1. CASE x \in [seg : {"field"}, name : Seq(Piece)]
  BY <1>1 DEF Field, Text
<1>2. CASE x \in [seg : {"index"}, at : Spelled]
  BY <1>2 DEF Index
<1> QED BY <1>1, <1>2 DEF Segment

LEMMA PrefixAppend ==
    ASSUME NEW S, NEW s \in Seq(S), NEW i \in 0..(Len(s) - 1)
    PROVE  /\ SubSeq(s, 1, i) \in Seq(S) /\ s[i + 1] \in S /\ Len(SubSeq(s, 1, i)) = i
           /\ SubSeq(s, 1, i + 1) = Append(SubSeq(s, 1, i), s[i + 1])
<1>1. Len(s) \in Nat
  BY LenProperties
<1>2. i + 1 \in 1..Len(s) /\ i \in Int /\ \A k \in 1..i : k \in 1..Len(s)
  BY <1>1
<1>3. s[i + 1] \in S /\ \A k \in 1..i : s[k] \in S
  BY <1>2, ElementOfSeq
<1>4. /\ SubSeq(s, 1, i) \in Seq(S)
      /\ Len(SubSeq(s, 1, i)) = IF 1 <= i THEN i - 1 + 1 ELSE 0
  BY <1>2, <1>3, SubSeqProperties
<1>5. SubSeq(s, 1, i + 1) = SubSeq(s, 1, i) \o <<s[i + 1]>>
  <2>1. SubSeq(s, 1, i + 1) = SubSeq(s, 1, (i + 1) - 1) \o <<s[i + 1]>>
    BY <1>1, <1>2, SubSeqRecursiveSecond
  <2>2. (i + 1) - 1 = i
    BY <1>2
  <2> QED BY <2>1, <2>2
<1> DEFINE u == SubSeq(s, 1, i)
           x == s[i + 1]
<1>6. u \in Seq(S) /\ x \in S
  BY <1>3, <1>4
<1>7. Len(u) = i
  <2> HIDE DEF u
  <2> QED BY <1>2, <1>4 DEF u
<1> HIDE DEF u, x
<1>8. Append(u, x) = u \o <<x>>
  BY <1>6, AppendIsConcat
<1> QED BY <1>3, <1>4, <1>5, <1>7, <1>8 DEF u, x

LEMMA SpeltOne ==
    ASSUME NEW name \in Identifier
    PROVE  Spelt(<<Field(name)>>) /\ SpellPath(<<Field(name)>>) = name
<1> DEFINE f == Field(name)
           path == <<f>>
           e == <<>>
<1>1. name \in Text /\ name # <<>> /\ Free(name, Marks) /\ Free(name, Loud)
  BY IdentifierIs
<1>2. f \in Segment /\ f.seg = "field" /\ f.name = name
  BY <1>1, FieldTyped DEF Field
<1>3. Reads(path, name) /\ LastRaw(name) = name
  BY <1>1, ReadName
<1> HIDE DEF f
<1>4. e \in Seq(Segment) /\ SpellPath(e) = <<>>
  BY EmptySeq, SpellNone
<1>5. path = Append(e, f)
  OBVIOUS
<1>6. /\ Append(e, f) \in Seq(Segment) /\ Append(e, f) # <<>>
      /\ SpellPath(Append(e, f)) = SpellPath(e) \o SpellOne(f, e = <<>>)
  BY <1>2, <1>4, SpellMore
<1>7. SpellOne(f, e = <<>>) = <<>> \o name
  BY <1>2 DEF SpellOne
<1>8. SpellPath(path) = name
  BY <1>1, <1>4, <1>5, <1>6, <1>7, TextEmpty
<1>9. Last(path) = f
  BY LastIs
<1>10. path \in Seq(Segment) /\ path # <<>>
  BY <1>5, <1>6
<1> HIDE DEF path
<1>11. Ends(path, name)
  BY <1>1, <1>2, <1>3, <1>9 DEF Ends
<1> QED BY <1>1, <1>2, <1>3, <1>8, <1>9, <1>10, <1>11 DEF Spelt, path, f

LEMMA SpeltField ==
    ASSUME NEW path, Spelt(path), NEW name \in Identifier
    PROVE  /\ Spelt(Append(path, Field(name)))
           /\ SpellPath(Append(path, Field(name))) = (SpellPath(path) \o <<".">>) \o name
<1> DEFINE f == Field(name)
           all == Append(path, f)
           s == SpellPath(path)
           d == <<".">>
           sd == s \o d
           w == sd \o name
<1>1. name \in Text /\ name # <<>> /\ Free(name, Marks) /\ Free(name, Loud)
  BY IdentifierIs
<1>2. f \in Segment /\ f.seg = "field" /\ f.name = name
  BY <1>1, FieldTyped DEF Field
<1>3. path \in Seq(Segment) /\ path # <<>> /\ s \in Text /\ Reads(path, s) /\ Free(s, Loud)
  BY DEF Spelt
<1>4. d \in Text /\ Free(d, Loud)
  <2>1. "." \in Piece /\ "." \in Symbols /\ "." \notin {"&&", "=", "!", "<", ">"}
    BY PieceAssumption DEF Symbols
  <2>2. "." # Quote /\ "." # Space
    BY Zenon DEF Quote, Space
  <2>3. "." \notin Loud
    BY <2>1, <2>2 DEF Loud
  <2> QED BY <2>1, <2>3, TextOne, FreeOne
<1>5. w \in Text /\ Reads(all, w) /\ LastRaw(w) = name
  BY <1>1, <1>3, ReadField
<1> HIDE DEF s, d
<1>6. /\ all \in Seq(Segment) /\ all # <<>>
      /\ SpellPath(all) = s \o SpellOne(f, path = <<>>)
  BY <1>2, <1>3, SpellMore DEF s
<1>7. SpellOne(f, path = <<>>) = d \o name
  BY <1>2, <1>3 DEF SpellOne, d
<1>8. s \o (d \o name) = w
  BY <1>1, <1>3, <1>4, TextAssoc
<1>9. SpellPath(all) = w
  BY <1>6, <1>7, <1>8
<1>10. sd \in Text /\ Free(sd, Loud)
  BY <1>3, <1>4, ConcatText, FreeConcat
<1> HIDE DEF sd
<1>11. Free(w, Loud) /\ w # <<>> /\ Last(w) = Last(name)
  BY <1>1, <1>10, FreeConcat, LastOfConcat
<1>12. Last(all) = f
  <2>1. all \in Seq(Segment) /\ Len(all) = Len(path) + 1 /\ all[Len(path) + 1] = f
    BY <1>2, <1>3, AppendProperties
  <2> HIDE DEF all
  <2> QED BY <2>1, LastIs
<1> HIDE DEF w, all, f
<1>13. Ends(all, w)
  BY <1>1, <1>2, <1>5, <1>12 DEF Ends
<1>14. Spelt(all)
  BY <1>2, <1>5, <1>6, <1>9, <1>11, <1>12, <1>13 DEF Spelt
<1> QED BY <1>9, <1>14 DEF all, w, sd, s, d, f

LEMMA SpeltIndex ==
    ASSUME NEW path, Spelt(path), NEW i \in Spelled PROVE Spelt(Append(path, Index(i)))
<1> DEFINE x == Index(i)
           all == Append(path, x)
           s == SpellPath(path)
           n == CHOOSE k \in Numeral : NumberOf[k] = i
           b == Bracketed(n)
           w == s \o b
<1>1. n \in Numeral /\ NumberOf[n] = i
  <2>1. \E k \in Numeral : NumberOf[k] = i
    BY DEF Spelled
  <2> QED BY <2>1
<1>2. x.seg = "index" /\ x.at = i
  BY DEF Index
<1>3. path \in Seq(Segment) /\ path # <<>> /\ s \in Text /\ Reads(path, s) /\ Ends(path, s) /\ Free(s, Loud)
  BY DEF Spelt
<1>4. SpellOne(x, FALSE) = <<"[", n, "]">>
  BY <1>2 DEF SpellOne
<1> HIDE DEF n
<1>5. x = Index(NumberOf[n]) /\ x \in Segment
  BY <1>1, IndexTyped
<1>6. n \in Piece /\ n \notin Symbols
  BY <1>1, NumeralPlain
<1>7. b = <<"[", n, "]">> /\ b \in Text
  BY <1>6, BracketedIs
<1>8. w \in Text /\ Reads(all, w) /\ Ends(all, w)
  BY <1>1, <1>3, <1>5, ReadIndex
<1>9. Free(b, Loud) /\ b # <<>> /\ Last(b) = "]"
  <2> DEFINE o == <<"[">>
             m == <<n>>
             e == <<"]">>
             om == o \o m
  <2>1. "[" \in Piece /\ "]" \in Piece
    BY PieceAssumption DEF Symbols
  <2>2. "[" \notin Loud /\ "]" \notin Loud
    <3>1. "[" \notin {"&&", "=", "!", "<", ">"} /\ "]" \notin {"&&", "=", "!", "<", ">"}
      OBVIOUS
    <3>2. "[" # Quote /\ "[" # Space /\ "]" # Quote /\ "]" # Space
      BY Zenon DEF Quote, Space
    <3> QED BY <3>1, <3>2 DEF Loud
  <2>3. n \notin Loud
    <3>1. Loud \subseteq Symbols
      BY DEF Loud, Symbols
    <3> QED BY <1>6, <3>1
  <2>4. o \in Text /\ m \in Text /\ e \in Text /\ Len(e) = 1 /\ e[1] = "]"
    BY <1>6, <2>1, TextOne
  <2>5. Free(o, Loud) /\ Free(m, Loud) /\ Free(e, Loud)
    BY <1>6, <2>1, <2>2, <2>3, FreeOne
  <2>6. e # <<>> /\ Last(e) = "]"
    BY <2>4, LastIs
  <2>7. b = om \o e
    BY DEF Bracketed
  <2> HIDE DEF o, m, e, b
  <2>8. om \in Text /\ Free(om, Loud)
    BY <2>4, <2>5, ConcatText, FreeConcat
  <2> HIDE DEF om
  <2>9. Free(om \o e, Loud) /\ om \o e # <<>> /\ Last(om \o e) = "]"
    BY <2>4, <2>5, <2>6, <2>8, FreeConcat, LastOfConcat
  <2> QED BY <2>7, <2>9
<1> HIDE DEF x, s, b
<1>10. /\ all \in Seq(Segment) /\ all # <<>>
       /\ SpellPath(all) = s \o SpellOne(x, path = <<>>)
  BY <1>3, <1>5, SpellMore DEF s
<1>11. SpellPath(all) = w
  <2>1. SpellOne(x, path = <<>>) = SpellOne(x, FALSE)
    BY <1>3
  <2> QED BY <1>4, <1>7, <1>10, <2>1
<1>12. Free(w, Loud) /\ w # <<>> /\ Last(w) = "]"
  BY <1>3, <1>7, <1>9, FreeConcat, LastOfConcat
<1>13. Last(all) = x
  <2>1. all \in Seq(Segment) /\ Len(all) = Len(path) + 1 /\ all[Len(path) + 1] = x
    BY <1>3, <1>5, AppendProperties
  <2> HIDE DEF all
  <2> QED BY <2>1, LastIs
<1> HIDE DEF w, all
<1>14. Spelt(all)
  BY <1>2, <1>8, <1>10, <1>11, <1>12, <1>13 DEF Spelt
<1> QED BY <1>14 DEF all, x

LEMMA PathSpelt ==
    ASSUME NEW path, PathWritten(path)
    PROVE  Len(path) \in Nat /\ Len(path) >= 1 /\ \A i \in 1..Len(path) : Spelt(SubSeq(path, 1, i))
<1> DEFINE n == Len(path)
           S == {i \in 0..(n - 1) : Spelt(SubSeq(path, 1, i + 1))}
<1>1. path \in Seq(Segment) /\ path # <<>> /\ path[1].seg = "field"
      /\ \A i \in 1..n : path[i].seg = "field" => path[i].name \in Identifier
  BY DEF PathWritten
<1>2. n \in Nat /\ n >= 1
  BY <1>1, LenProperties, EmptySeq
<1>3. \A i \in 1..n : path[i] \in Segment
  BY <1>1, ElementOfSeq
<1> HIDE DEF n
<1>4. 0 \in S
  <2> DEFINE x == path[1]
  <2>1. 0 \in 0..(n - 1) /\ 1 \in 1..n /\ 0 + 1 = 1
    BY <1>2
  <2>2. x \in Segment /\ x.seg = "field" /\ x.name \in Identifier
    BY <1>1, <1>3, <2>1
  <2>3. x = Field(x.name)
    BY <2>2, SegmentIs
  <2>4. SubSeq(path, 1, 1) = <<x>>
    <3>1. SubSeq(path, 1, 0) = <<>>
      BY SubSeqEmpty
    <3>2. SubSeq(path, 1, 0 + 1) = Append(SubSeq(path, 1, 0), path[0 + 1])
      BY <1>1, <2>1, PrefixAppend DEF n
    <3>3. Append(<<>>, x) = <<x>>
      OBVIOUS
    <3> QED BY <2>1, <3>1, <3>2, <3>3
  <2> HIDE DEF x
  <2>5. Spelt(<<Field(x.name)>>)
    BY <2>2, SpeltOne
  <2>6. Spelt(SubSeq(path, 1, 0 + 1))
    BY <2>1, <2>3, <2>4, <2>5
  <2> QED BY <2>1, <2>6
<1>5. ASSUME NEW i \in 0..((n - 1) - 1), i \in S PROVE i + 1 \in S
  <2> DEFINE j == i + 1
             p == SubSeq(path, 1, j)
             x == path[j + 1]
  <2>1. j \in 0..(n - 1) /\ j + 1 \in 1..n
    BY <1>2
  <2>2. Spelt(p)
    BY <1>5
  <2>3. SubSeq(path, 1, j + 1) = Append(p, x)
    <3> HIDE DEF j
    <3> QED BY <1>1, <2>1, PrefixAppend DEF n
  <2>4. x \in Segment /\ (x.seg = "field" => x.name \in Identifier)
    BY <1>1, <1>3, <2>1
  <2> HIDE DEF p, x, j
  <2>5. CASE x.seg = "field"
    <3>1. x = Field(x.name)
      BY <2>4, <2>5, SegmentIs
    <3>2. Spelt(Append(p, Field(x.name)))
      BY <2>2, <2>4, <2>5, SpeltField
    <3>3. Spelt(SubSeq(path, 1, j + 1))
      BY <2>3, <3>1, <3>2
    <3> QED BY <2>1, <3>3 DEF j
  <2>6. CASE x.seg = "index"
    <3>1. x = Index(x.at) /\ x.at \in Spelled
      BY <2>4, <2>6, SegmentIs
    <3>2. Spelt(Append(p, Index(x.at)))
      BY <2>2, <3>1, SpeltIndex
    <3>3. Spelt(SubSeq(path, 1, j + 1))
      BY <2>3, <3>1, <3>2
    <3> QED BY <2>1, <3>3 DEF j
  <2> QED BY <2>4, <2>5, <2>6, SegmentIs
<1>6. \A i \in 0..(n - 1) : i \in S
  <2>1. n - 1 \in Nat
    BY <1>2
  <2> HIDE DEF S
  <2> QED BY <1>4, <1>5, <2>1, InductionUpTo
<1>7. ASSUME NEW i \in 1..n PROVE Spelt(SubSeq(path, 1, i))
  <2>1. i - 1 \in 0..(n - 1) /\ (i - 1) + 1 = i
    BY <1>2
  <2>2. Spelt(SubSeq(path, 1, (i - 1) + 1))
    BY <1>6, <2>1
  <2> QED BY <2>1, <2>2
<1> QED BY <1>2, <1>7 DEF n

LEMMA FreeSolid ==
    ASSUME NEW s \in Text, s # <<>>, Free(s, {Space}) PROVE Solid(s)
<1>1. Len(s) \in Nat /\ Len(s) >= 1
  BY SomeText
<1>2. 1 \in 1..Len(s) /\ Len(s) \in 1..Len(s)
  BY <1>1
<1> QED BY <1>2 DEF Free, Solid

LEMMA ReadsParsed ==
    ASSUME NEW path \in Seq(Segment), NEW s \in Text, s # <<>>, Reads(path, s)
    PROVE  ParsePath(s) = (IF Doubled(path) THEN Missing ELSE path) /\ path # Missing
<1>1. path # Missing
  BY MissingAssumption
<1> QED BY <1>1 DEF Reads, ParsePath

LEMMA PathParsed ==
    ASSUME NEW path, PathWritten(path)
    PROVE  /\ Spelt(path) /\ Solid(SpellPath(path)) /\ path # Missing
           /\ ParsePath(SpellPath(path)) = IF Doubled(path) THEN Missing ELSE path
<1> DEFINE n == Len(path)
<1>1. path \in Seq(Segment)
  BY DEF PathWritten
<1>2. n \in 1..n /\ \A i \in 1..n : Spelt(SubSeq(path, 1, i))
  BY PathSpelt
<1>3. SubSeq(path, 1, n) = path
  BY <1>1, SubSeqFull
<1>4. Spelt(path)
  BY <1>2, <1>3
<1>5. SpellPath(path) \in Text /\ SpellPath(path) # <<>> /\ Reads(path, SpellPath(path))
      /\ Free(SpellPath(path), {Space})
  BY <1>4 DEF Spelt, Free, Loud
<1> QED BY <1>1, <1>4, <1>5, FreeSolid, ReadsParsed

(* What is left of a path when its last `not` is taken for the operator's. *)
LEMMA TruncatedParsed ==
    ASSUME NEW path, PathWritten(path), Last(path).seg = "field", NEW p \in Text,
           SpellPath(path) = p \o <<"not">>
    PROVE  /\ p = <<>> => path = <<Field(<<"not">>)>>
           /\ p # <<>> => Solid(p) /\ (~Doubled(path) => ParsePath(p) # Missing)
<1> DEFINE n == Len(path)
           x == path[n]
           name == x.name
           m == Len(name)
           short == SubSeq(name, 1, m - 1)
           tail == <<"not">>
           front == SubSeq(path, 1, n - 1)
           sd == SpellPath(front) \o <<".">>
           f == Field(short)
           all == Append(front, f)
<1>1. path \in Seq(Segment) /\ path # <<>>
      /\ \A i \in 1..n : path[i].seg = "field" => path[i].name \in Identifier
  BY DEF PathWritten
<1>2. n \in Nat /\ n >= 1 /\ \A i \in 1..n : Spelt(SubSeq(path, 1, i))
  BY PathSpelt
<1>3. x \in Segment /\ x.seg = "field" /\ name \in Identifier /\ x = Field(name)
  <2>1. n \in 1..n /\ Last(path) = x
    BY <1>2, LastIs
  <2>2. x \in Segment /\ x.seg = "field" /\ name \in Identifier
    <3> HIDE DEF n
    <3> QED BY <1>1, <2>1, ElementOfSeq DEF n
  <2> QED BY <2>2, SegmentIs
<1>4. name \in Text /\ name # <<>> /\ Free(name, Marks) /\ Free(name, Loud)
  BY <1>3, IdentifierIs
<1>5. tail \in Text /\ "not" \in Piece
  BY TextOne, PieceAssumption DEF Symbols
<1>6. path = Append(front, x) /\ front \in Seq(Segment)
  <2>1. n - 1 \in 0..(n - 1) /\ (n - 1) + 1 = n
    BY <1>2
  <2>2. front \in Seq(Segment) /\ SubSeq(path, 1, (n - 1) + 1) = Append(front, path[(n - 1) + 1])
    BY <1>1, <2>1, PrefixAppend
  <2>3. SubSeq(path, 1, n) = path
    BY <1>1, SubSeqFull
  <2> QED BY <2>1, <2>2, <2>3
<1>7. m \in Nat /\ m >= 1 /\ short \in Text /\ name = short \o <<name[m]>> /\ name[m] \in Piece
  <2>1. m \in Nat /\ m >= 1
    BY <1>4, SomeText
  <2>2. m \in 1..m
    BY <2>1
  <2>3. SubSeq(name, 1, m) = short \o <<name[m]>>
    BY <1>4, <2>2, OneOfText
  <2>4. SubSeq(name, 1, m) = name
    BY <1>4, WholeText
  <2>5. short \in Text
    BY <1>4, <2>1, PartOfText
  <2> QED BY <1>4, <2>1, <2>2, <2>3, <2>4, <2>5, TextLen
<1> HIDE DEF n, x, front, short
<1>8. CASE front = <<>>
  <2>1. path = <<Field(name)>>
    BY <1>3, <1>6, <1>8
  <2>2. SpellPath(path) = name
    BY <1>3, <2>1, SpeltOne
  <2>3. ASSUME p = <<>> PROVE path = <<Field(<<"not">>)>>
    <3>1. p \o tail = tail
      BY <1>5, <2>3, TextEmpty
    <3> QED BY <2>1, <2>2, <3>1
  <2>4. ASSUME p # <<>> PROVE Solid(p) /\ ParsePath(p) # Missing
    <3>1. Free(p, Marks)
      <4>1. Free(p \o tail, Marks)
        BY <1>4, <2>2
      <4> HIDE DEF tail
      <4> QED BY <1>5, <4>1, FreeConcat
    <3>2. Reads(<<Field(p)>>, p)
      BY <3>1, ReadName
    <3>3. Field(p) \in Segment
      BY FieldTyped
    <3> DEFINE one == <<Field(p)>>
    <3>4. one \in Seq(Segment) /\ Len(one) = 1
      BY <3>3, OneSegment
    <3>5. ~Doubled(one)
      <4> HIDE DEF one
      <4> QED BY <3>4 DEF Doubled
    <3> HIDE DEF one
    <3>6. ParsePath(p) # Missing
      BY <2>4, <3>2, <3>4, <3>5, ReadsParsed DEF one
    <3>7. Free(p, {Space})
      BY <3>1 DEF Free, Marks
    <3> QED BY <2>4, <3>6, <3>7, FreeSolid
  <2> QED BY <2>3, <2>4
<1>9. CASE front # <<>>
  <2>1. n - 1 \in 1..n
    <3>1. n # 1
      <4> SUFFICES ASSUME n = 1 PROVE FALSE
        OBVIOUS
      <4>1. SubSeq(path, 1, 0) = <<>>
        BY SubSeqEmpty
      <4> QED BY <1>9, <4>1 DEF front
    <3> QED BY <1>2, <3>1
  <2>2. Spelt(front)
    BY <1>2, <2>1 DEF front
  <2>3. SpellPath(path) = sd \o name
    BY <1>3, <1>6, <2>2, SpeltField
  <2>4. sd \in Text /\ Free(sd, {Space}) /\ sd # <<>>
    <3> DEFINE s == SpellPath(front)
               d == <<".">>
    <3>1. s \in Text /\ Free(s, {Space})
      BY <2>2 DEF Spelt, Free, Loud
    <3>2. "." \in Piece /\ "." \notin {Space}
      <4>1. "." # Space
        BY Zenon DEF Space
      <4> QED BY <4>1, PieceAssumption DEF Symbols
    <3>3. d \in Text /\ Free(d, {Space}) /\ d # <<>>
      BY <3>2, TextOne, FreeOne
    <3> HIDE DEF s, d
    <3>4. s \o d \in Text /\ s \o d # <<>> /\ Free(s \o d, {Space})
      BY <3>1, <3>3, FreeConcat, LastOfConcat
    <3> QED BY <3>4 DEF s, d
  <2> HIDE DEF sd
  <2>5. p = sd \o short
    <3> DEFINE u == sd \o short
               c == name[m]
               cc == <<c>>
    <3>1. cc \in Text /\ c \in Piece
      BY <1>7, TextOne
    <3>2. u \in Text
      BY <1>7, <2>4, ConcatText
    <3>3. u \o cc = sd \o name
      <4>1. name = short \o cc
        BY <1>7
      <4> HIDE DEF cc, u
      <4>2. (sd \o short) \o cc = sd \o (short \o cc)
        BY <1>7, <2>4, <3>1, TextAssoc
      <4> QED BY <4>1, <4>2 DEF u
    <3>4. Append(u, c) = u \o cc /\ Append(p, "not") = p \o tail
      <4> HIDE DEF u, c
      <4> QED BY <1>5, <3>1, <3>2, AppendIsConcat DEF Text
    <3>5. Append(u, c) = Append(p, "not")
      BY <2>3, <3>3, <3>4
    <3> HIDE DEF u, c
    <3>6. u = p
      BY <1>5, <3>1, <3>2, <3>5, AppendInjective DEF Text
    <3> QED BY <3>6 DEF u
  <2>6. p # <<>>
    <3>1. Len(p) = Len(sd) + Len(short) /\ Len(sd) \in Nat /\ Len(sd) >= 1 /\ Len(short) \in Nat
      BY <1>7, <2>4, <2>5, ConcatAt, SomeText, TextLen
    <3>2. Len(p) >= 1 /\ Len(p) \in Nat
      BY <3>1
    <3> QED BY <3>2, SomeText
  <2>7. Free(short, Marks)
    <3> DEFINE cc == <<name[m]>>
    <3>1. cc \in Text /\ name = short \o cc
      BY <1>7, TextOne
    <3> HIDE DEF cc
    <3> QED BY <1>4, <1>7, <3>1, FreeConcat
  <2>8. Free(p, {Space})
    <3>1. Free(short, {Space})
      BY <2>7 DEF Free, Marks
    <3> QED BY <1>7, <2>4, <2>5, <3>1, FreeConcat
  <2>9. Reads(all, p)
    <3>1. front \in Seq(Segment) /\ SpellPath(front) \in Text /\ Reads(front, SpellPath(front))
      BY <2>2 DEF Spelt
    <3>2. Reads(Append(front, Field(short)), (SpellPath(front) \o <<".">>) \o short)
      BY <1>7, <1>9, <2>7, <3>1, ReadField
    <3> QED BY <2>5, <3>2 DEF sd
  <2>10. Doubled(all) <=> Doubled(path)
    <3>1. f \in Segment /\ f.seg # "index"
      BY <1>7, FieldTyped DEF Field
    <3>2. x.seg # "index"
      BY <1>3
    <3> HIDE DEF f
    <3>3. Doubled(all) <=> Doubled(front)
      BY <1>6, <1>9, <3>1, DoubledMore
    <3>4. Doubled(path) <=> Doubled(front)
      BY <1>3, <1>6, <1>9, <3>2, DoubledMore
    <3> QED BY <3>3, <3>4
  <2>11. all \in Seq(Segment)
    <3>1. f \in Segment
      BY <1>7, FieldTyped
    <3> HIDE DEF f
    <3> QED BY <1>6, <3>1, AppendProperties
  <2>12. ~Doubled(path) => ParsePath(p) # Missing
    <3> HIDE DEF all
    <3> QED BY <2>6, <2>9, <2>10, <2>11, ReadsParsed
  <2> QED BY <2>6, <2>8, <2>12, FreeSolid
<1> QED BY <1>8, <1>9

-----------------------------------------------------------------------------
(* A literal, as it is written, is read as it was meant, and what begins   *)
(* within it is no literal.                                                *)
OpPieces == {"=", "!", ">", "<", Space, "contains"}

LiteralText(s) ==
    /\ s \in Text /\ s # <<>> /\ s[1] \notin OpPieces /\ s[1] # Space /\ s[Len(s)] # Space
    /\ Last(s) # "exists"
    /\ Len(s) # 1 => /\ Len(s) >= 2 /\ s[1] = Quote /\ s[Len(s)] = Quote
                     /\ \A i \in 2..(Len(s) - 1) : s[i] # Quote

LEMMA SpaceApart ==
    /\ Space # "=" /\ Space # "!" /\ Space # ">" /\ Space # "<" /\ Space # "contains"
    /\ Space # "exists" /\ Space # "true" /\ Space # "false" /\ Space # "&&" /\ Space # "not"
    /\ Quote # "=" /\ Quote # "!" /\ Quote # ">" /\ Quote # "<" /\ Quote # "contains"
    /\ Quote # "exists" /\ Quote # "true" /\ Quote # "false" /\ Quote # "&&" /\ Quote # "not"
    /\ Quote # Space
BY Zenon DEF Quote, Space

LEMMA QuotedIs ==
    ASSUME NEW chars \in Text, \A i \in 1..Len(chars) : chars[i] # Quote
    PROVE  LET s == (<<Quote>> \o chars) \o <<Quote>>
           IN  /\ LiteralText(s) /\ Len(s) = Len(chars) + 2 /\ s[1] = Quote /\ Last(s) = Quote
               /\ SubSeq(s, 2, Len(s) - 1) = chars
<1> DEFINE q == <<Quote>>
           s == (q \o chars) \o q
           m == Len(chars)
<1>1. q \in Text /\ Len(q) = 1 /\ q[1] = Quote
  BY TextOne, PieceAssumption DEF Symbols
<1>2. m \in Nat
  BY TextLen
<1> HIDE DEF q
<1>3. /\ s \in Text /\ Len(s) = (Len(q) + m) + Len(q)
      /\ \A i \in 1..((Len(q) + m) + Len(q)) :
            s[i] = IF i <= Len(q) THEN q[i]
                   ELSE IF i <= Len(q) + m THEN chars[i - Len(q)] ELSE q[i - (Len(q) + m)]
      /\ SubSeq(s, Len(q) + 1, Len(q) + m) = chars
  <2>1. q \in Text /\ chars \in Text
    BY <1>1
  <2> QED BY <2>1, MiddleText
<1> HIDE DEF s, m
<1>4. Len(s) = m + 2 /\ Len(s) >= 2
  BY <1>1, <1>2, <1>3
<1>5. s[1] = Quote /\ s[Len(s)] = Quote
  <2>1. 1 \in 1..((Len(q) + m) + Len(q)) /\ 1 <= Len(q)
    BY <1>1, <1>2
  <2>2. /\ Len(s) \in 1..((Len(q) + m) + Len(q)) /\ ~(Len(s) <= Len(q)) /\ ~(Len(s) <= Len(q) + m)
        /\ Len(s) - (Len(q) + m) = 1
    BY <1>1, <1>2, <1>4
  <2> QED BY <1>1, <1>3, <2>1, <2>2
<1>6. ASSUME NEW i \in 2..(Len(s) - 1) PROVE s[i] # Quote
  <2>1. /\ i \in 1..((Len(q) + m) + Len(q)) /\ ~(i <= Len(q)) /\ i <= Len(q) + m
        /\ i - Len(q) \in 1..m
    BY <1>1, <1>2, <1>4
  <2>2. s[i] = chars[i - Len(q)]
    BY <1>3, <2>1
  <2> QED BY <2>1, <2>2 DEF m
<1>7. SubSeq(s, 2, Len(s) - 1) = chars
  <2>1. Len(q) + 1 = 2 /\ Len(q) + m = Len(s) - 1
    BY <1>1, <1>2, <1>4
  <2> QED BY <1>3, <2>1
<1>8. LiteralText(s)
  <2>1. Quote \notin OpPieces /\ Quote # Space /\ Quote # "exists"
    BY SpaceApart DEF OpPieces
  <2>2. s # <<>>
    BY <1>3, <1>4, SomeText
  <2>3. Last(s) = Quote
    BY <1>5, LastIs
  <2> QED BY <1>3, <1>4, <1>5, <1>6, <2>1, <2>2, <2>3 DEF LiteralText
<1> QED BY <1>4, <1>5, <1>7, <1>8, LastIs DEF s, q, m

LEMMA OneLiteralText ==
    ASSUME NEW c \in Piece, c \notin OpPieces, c # "exists"
    PROVE  LiteralText(<<c>>) /\ Len(<<c>>) = 1 /\ <<c>>[1] = c
<1> DEFINE s == <<c>>
<1>1. s \in Text /\ Len(s) = 1 /\ s[1] = c
  BY TextOne
<1> HIDE DEF s
<1>2. s # <<>> /\ Last(s) = c
  BY <1>1, SomeText, LastIs, SMTT(20)
<1>3. c # Space
  BY DEF OpPieces
<1> QED BY <1>1, <1>2, <1>3 DEF LiteralText, s

LEMMA LiteralParsed ==
    ASSUME NEW literal \in Literal,
           literal.tag = "str" => \A i \in 1..Len(literal.chars) : literal.chars[i] # Quote
    PROVE  LET s == SpellLiteral(literal)
           IN  /\ LiteralText(s) /\ ParseLiteral(s) = literal /\ literal # Missing
               /\ Len(s) # 1 => /\ literal.tag = "str" /\ literal.chars \in Text
                                /\ SubSeq(s, 2, Len(s) - 1) = literal.chars
<1> DEFINE s == SpellLiteral(literal)
<1>0. literal # Missing
  BY MissingAssumption
<1>1. CASE literal \in [tag : {"bool"}, bool : BOOLEAN]
  <2>1. CASE literal.bool
    <3>1. s = <<"true">> /\ ParseLiteral(s) = Bool(TRUE)
      BY <1>1, <2>1 DEF SpellLiteral, ParseLiteral
    <3>2. literal = Bool(TRUE)
      BY <1>1, <2>1 DEF Bool
    <3>3. "true" \in Piece /\ "true" \notin OpPieces /\ "true" # "exists"
      BY SpaceApart, PieceAssumption DEF OpPieces, Symbols
    <3>4. LiteralText(<<"true">>) /\ Len(<<"true">>) = 1
      BY <3>3, OneLiteralText
    <3> QED BY <1>0, <3>1, <3>2, <3>4
  <2>2. CASE ~literal.bool
    <3>1. s = <<"false">> /\ ParseLiteral(s) = Bool(FALSE)
      BY <1>1, <2>2 DEF SpellLiteral, ParseLiteral
    <3>2. literal = Bool(FALSE)
      BY <1>1, <2>2 DEF Bool
    <3>3. "false" \in Piece /\ "false" \notin OpPieces /\ "false" # "exists"
      BY SpaceApart, PieceAssumption DEF OpPieces, Symbols
    <3>4. LiteralText(<<"false">>) /\ Len(<<"false">>) = 1
      BY <3>3, OneLiteralText
    <3> QED BY <1>0, <3>1, <3>2, <3>4
  <2> QED BY <2>1, <2>2
<1>2. CASE literal \in [tag : {"num"}, num : Spelled]
  <2> DEFINE n == CHOOSE k \in Numeral : NumberOf[k] = literal.num
  <2>1. n \in Numeral /\ NumberOf[n] = literal.num
    <3>1. \E k \in Numeral : NumberOf[k] = literal.num
      BY <1>2 DEF Spelled
    <3> QED BY <3>1
  <2>2. s = <<n>>
    BY <1>2 DEF SpellLiteral
  <2> HIDE DEF n
  <2>3. n \in Piece /\ n \notin Symbols
    BY <2>1, NumeralPlain
  <2>4. n \notin OpPieces /\ n # "exists" /\ n # "true" /\ n # "false"
    BY <2>3 DEF OpPieces, Symbols
  <2>5. LiteralText(<<n>>) /\ Len(<<n>>) = 1 /\ <<n>>[1] = n
    BY <2>3, <2>4, OneLiteralText
  <2>6. ParseLiteral(<<n>>) = Number(NumberOf[n])
    <3> DEFINE u == <<n>>
    <3>1. u # <<"true">> /\ u # <<"false">> /\ Len(u) = 1 /\ u[1] = n
      BY <2>4, <2>5
    <3> HIDE DEF u
    <3>2. ~(Len(u) >= 2)
      BY <3>1
    <3> QED BY <2>1, <3>1, <3>2 DEF ParseLiteral, u
  <2>7. literal = Number(literal.num)
    BY <1>2 DEF Number
  <2> QED BY <1>0, <2>1, <2>2, <2>5, <2>6, <2>7
<1>3. CASE literal \in [tag : {"str"}, chars : Seq(Piece)]
  <2> DEFINE chars == literal.chars
  <2>1. literal.tag = "str" /\ chars \in Text /\ \A i \in 1..Len(chars) : chars[i] # Quote
    BY <1>3 DEF Text
  <2>2. s = (<<Quote>> \o chars) \o <<Quote>>
    BY <1>3 DEF SpellLiteral
  <2>3. literal = String(chars)
    BY <1>3 DEF String
  <2> HIDE DEF chars
  <2>4. /\ LiteralText(s) /\ Len(s) = Len(chars) + 2 /\ s[1] = Quote /\ Last(s) = Quote
        /\ SubSeq(s, 2, Len(s) - 1) = chars
    BY <2>1, <2>2, QuotedIs
  <2>5. Len(s) >= 2
    BY <2>1, <2>4, TextLen
  <2> HIDE DEF s
  <2>6. s # <<"true">> /\ s # <<"false">>
    <3>1. Quote # "true" /\ Quote # "false"
      BY SpaceApart
    <3> QED BY <2>4, <3>1
  <2>7. ParseLiteral(s) = String(chars)
    BY <2>4, <2>5, <2>6 DEF ParseLiteral
  <2> QED BY <1>0, <2>1, <2>3, <2>4, <2>7 DEF chars, s
<1> QED BY <1>1, <1>2, <1>3 DEF Literal

(* The end of a string literal alone is none.                              *)
LEMMA TailMissing ==
    ASSUME NEW u \in Text, u # <<>>, u[Len(u)] = Quote, \A i \in 1..(Len(u) - 1) : u[i] # Quote
    PROVE  ParseLiteral(Trim(u)) = Missing
<1> DEFINE inked == {i \in 1..Len(u) : u[i] # Space}
           a == Min(inked)
           b == Len(u)
           t == SubSeq(u, a, b)
<1>1. b \in Nat /\ b >= 1
  BY SomeText
<1>2. b \in inked /\ inked \subseteq 1..b /\ inked \subseteq Nat /\ inked # {} /\ \A i \in inked : i <= b
  <2>1. b \in 1..b /\ Quote # Space
    BY <1>1, SpaceApart
  <2>2. b \in inked
    BY <2>1
  <2>3. \A i \in inked : i \in 1..b /\ i \in Nat /\ i <= b
    BY <1>1
  <2> HIDE DEF inked
  <2> QED BY <2>2, <2>3
<1>3. Trim(u) = IF inked = {} THEN <<>> ELSE SubSeq(u, Min(inked), Max(inked))
  BY DEF Trim
<1> HIDE DEF inked, b
<1>4. Max(inked) = b
  <2>1. Max(inked) \in inked /\ b <= Max(inked)
    BY <1>1, <1>2, MaxIs DEF b
  <2>2. Max(inked) <= b /\ Max(inked) \in Nat
    BY <1>2, <2>1
  <2> QED BY <1>1, <2>1, <2>2
<1>5. a \in 1..b /\ a \in Nat
  BY <1>2, MinOf
<1>6. Trim(u) = t
  BY <1>2, <1>3, <1>4
<1> HIDE DEF a
<1>7. /\ t \in Text /\ Len(t) = (b - a) + 1
      /\ \A i \in 1..((b - a) + 1) : t[i] = u[(a + i) - 1]
  <2>1. b \in Int /\ 1 <= a /\ a <= b + 1 /\ b <= Len(u)
    BY <1>1, <1>5 DEF b
  <2> QED BY <1>5, <2>1, SubTextAt
<1> HIDE DEF t
<1>8. Len(t) \in Nat /\ Len(t) >= 1 /\ Last(t) = Quote
  <2>1. Len(t) \in 1..((b - a) + 1) /\ (a + Len(t)) - 1 = b
    BY <1>1, <1>5, <1>7
  <2>2. t[Len(t)] = u[b]
    BY <1>7, <2>1
  <2> QED BY <2>1, <2>2, LastIs DEF b
<1>9. Len(t) >= 2 => t[1] # Quote
  <2> SUFFICES ASSUME Len(t) >= 2 PROVE t[1] # Quote
    OBVIOUS
  <2>1. 1 \in 1..((b - a) + 1) /\ (a + 1) - 1 = a /\ a \in 1..(b - 1)
    BY <1>1, <1>5, <1>7
  <2>2. t[1] = u[a]
    BY <1>7, <2>1
  <2> QED BY <2>1, <2>2 DEF b
<1>10. t # <<"true">> /\ t # <<"false">>
  <2> DEFINE x == <<"true">>
             y == <<"false">>
  <2>1. Last(x) = "true" /\ Last(y) = "false"
    BY LastIs
  <2>2. Quote # "true" /\ Quote # "false"
    BY SpaceApart
  <2> HIDE DEF x, y
  <2> QED BY <1>8, <2>1, <2>2 DEF x, y
<1>11. ~(Len(t) = 1 /\ t[1] \in Numeral)
  <2> SUFFICES ASSUME Len(t) = 1, t[1] \in Numeral PROVE FALSE
    OBVIOUS
  <2>1. t[1] = Quote
    BY <1>8, LastIs
  <2>2. Quote \in Symbols
    BY DEF Symbols
  <2> QED BY <2>1, <2>2, NumeralPlain
<1> QED BY <1>6, <1>8, <1>9, <1>10, <1>11 DEF ParseLiteral

-----------------------------------------------------------------------------
(* Where the operators are found in a clause with a literal: at its own,   *)
(* none of those searched for before it, or within its string.             *)
LEMMA OpShapes ==
    ASSUME NEW o \in 1..7
    PROVE  LET t == Ops[o].text
           IN  /\ t \in Text /\ t # <<>>
               /\ o = 1 => Len(t) = 2 /\ t[1] = "=" /\ t[2] = "="
               /\ o = 2 => Len(t) = 2 /\ t[1] = "!" /\ t[2] = "="
               /\ o = 3 => Len(t) = 2 /\ t[1] = ">" /\ t[2] = "="
               /\ o = 4 => Len(t) = 2 /\ t[1] = "<" /\ t[2] = "="
               /\ o = 5 => Len(t) = 1 /\ t[1] = ">"
               /\ o = 6 => Len(t) = 1 /\ t[1] = "<"
               /\ o = 7 => Len(t) = 3 /\ t[1] = Space /\ t[2] = "contains" /\ t[3] = Space
<1>1. Ops[1].text = <<"=", "=">> /\ Ops[2].text = <<"!", "=">>
  BY DEF Ops
<1>2. Ops[3].text = <<">", "=">> /\ Ops[4].text = <<"<", "=">>
  BY DEF Ops
<1>3. Ops[5].text = <<">">> /\ Ops[6].text = <<"<">>
  BY DEF Ops
<1>4. Ops[7].text = <<Space, "contains", Space>>
  BY DEF Ops
<1>5. Ops[o].text \in Text /\ Len(Ops[o].text) \in Nat /\ Len(Ops[o].text) >= 1
  <2>1. Len(Ops) = 7
    BY DEF Ops
  <2> QED BY <2>1, OpsWritten, OpsTyped
<1>6. Ops[o].text # <<>>
  BY <1>5, SomeText
<1> DEFINE t == Ops[o].text
<1>7. o = 1 => Len(t) = 2 /\ t[1] = "=" /\ t[2] = "="
  BY <1>1
<1>8. o = 2 => Len(t) = 2 /\ t[1] = "!" /\ t[2] = "="
  BY <1>1
<1>9. o = 3 => Len(t) = 2 /\ t[1] = ">" /\ t[2] = "="
  BY <1>2
<1>10. o = 4 => Len(t) = 2 /\ t[1] = "<" /\ t[2] = "="
  BY <1>2
<1>11. o = 5 => Len(t) = 1 /\ t[1] = ">"
  BY <1>3
<1>12. o = 6 => Len(t) = 1 /\ t[1] = "<"
  BY <1>3
<1>13. o = 7 => Len(t) = 3 /\ t[1] = Space /\ t[2] = "contains" /\ t[3] = Space
  BY <1>4
<1> QED BY <1>5, <1>6, <1>7, <1>8, <1>9, <1>10, <1>11, <1>12, <1>13

(* What lies around the operator's text in a clause.                       *)
AroundOp(s, a, t, b, lit) ==
    /\ s \in Text /\ a \in Nat /\ b \in Nat /\ a + Len(t) <= b /\ Len(s) = b + Len(lit)
    /\ \A i \in 1..a : s[i] \in Loud => \A q \in i..a : s[q] = Space
    /\ \A i \in 1..Len(t) : s[a + i] = t[i]
    /\ \A i \in (a + Len(t) + 1)..b : s[i] = Space
    /\ \A i \in 1..Len(lit) : s[b + i] = lit[i]

LEMMA OpPlaces ==
    ASSUME NEW s, NEW a, NEW b, NEW lit, NEW own \in 1..7, NEW o \in 1..7,
           AroundOp(s, a, Ops[own].text, b, lit), LiteralText(lit),
           NEW i \in PlacesOf(Ops[o].text, s)
    PROVE  \/ i = a + 1 /\ o >= own
           \/ /\ Len(lit) # 1 /\ i > b + 1
              /\ i \in Nat /\ i + (Len(Ops[o].text) - 1) < Len(s)
<1> DEFINE T == Ops[own].text
           t == Ops[o].text
           m == Len(T)
           n == Len(t)
           k == Len(lit)
           z == Len(s)
<1>1. /\ s \in Text /\ a \in Nat /\ b \in Nat /\ a + m <= b /\ z = b + k
      /\ \A x \in 1..a : s[x] \in Loud => \A q \in x..a : s[q] = Space
      /\ \A x \in 1..m : s[a + x] = T[x]
      /\ \A x \in (a + m + 1)..b : s[x] = Space
      /\ \A x \in 1..k : s[b + x] = lit[x]
  BY DEF AroundOp
<1>2. /\ lit \in Text /\ k \in Nat /\ k >= 1 /\ lit[1] \notin OpPieces
      /\ k # 1 => lit[k] = Quote
  BY SomeText DEF LiteralText
<1>3. t \in Text /\ t # <<>> /\ n \in 1..3 /\ m \in 1..3
  <2>1. \A x \in 1..7 : x = 1 \/ x = 2 \/ x = 3 \/ x = 4 \/ x = 5 \/ x = 6 \/ x = 7
    OBVIOUS
  <2>2. n \in 1..3
    <3> HIDE DEF n
    <3>1. n = 1 \/ n = 2 \/ n = 3
      BY <2>1, OpShapes DEF n
    <3> QED BY <3>1
  <2>3. m \in 1..3
    <3> HIDE DEF m
    <3>1. m = 1 \/ m = 2 \/ m = 3
      BY <2>1, OpShapes DEF m
    <3> QED BY <3>1
  <2> QED BY <2>2, <2>3, OpShapes
<1>4. i \in Nat /\ i >= 1 /\ (i + n) - 1 <= z /\ \A x \in 1..n : s[(i + x) - 1] = t[x]
  <2>1. s \in Text /\ t \in Text /\ t # <<>> /\ i \in PlacesOf(t, s)
    BY <1>1, <1>3
  <2> HIDE DEF t
  <2> QED BY <2>1, PlacesAt
<1> DEFINE j == i + 1
           c == s[i]
           d == s[j]
<1>5. c = t[1] /\ (n >= 2 => d = t[2] /\ j <= z)
  <2>1. 1 \in 1..n /\ (i + 1) - 1 = i
    BY <1>3, <1>4
  <2>2. n >= 2 => 2 \in 1..n /\ (i + 2) - 1 = j /\ j <= z
    BY <1>1, <1>2, <1>3, <1>4
  <2> HIDE DEF n, j, z
  <2>3. c = t[1]
    BY <1>4, <2>1
  <2>4. ASSUME n >= 2 PROVE d = t[2] /\ j <= z
    BY <1>4, <2>2, <2>4
  <2> QED BY <2>3, <2>4
<1>6. /\ o = 1 => c = "=" /\ d = "=" /\ j <= z
      /\ o = 2 => c = "!" /\ d = "=" /\ j <= z
      /\ o = 3 => c = ">" /\ d = "=" /\ j <= z
      /\ o = 4 => c = "<" /\ d = "=" /\ j <= z
      /\ o = 5 => c = ">"
      /\ o = 6 => c = "<"
      /\ o = 7 => c = Space /\ d = "contains" /\ j <= z
  <2>1. n = 2 => n >= 2
    BY <1>3
  <2>2. n = 3 => n >= 2
    BY <1>3
  <2> HIDE DEF c, d, j, z
  <2> QED BY <1>5, <2>1, <2>2, OpShapes
<1>7. o = 1 \/ o = 2 \/ o = 3 \/ o = 4 \/ o = 5 \/ o = 6 \/ o = 7
  OBVIOUS
<1>8. c \in Loud /\ c \in OpPieces /\ c # "contains" /\ (c = Space <=> o = 7) /\ (c = "=" <=> o = 1)
  <2> HIDE DEF c, d, j, z
  <2> QED BY <1>6, <1>7, SpaceApart DEF Loud, OpPieces
<1>9. /\ own = 1 => m = 2 /\ T[1] = "=" /\ T[2] = "="
      /\ own = 2 => m = 2 /\ T[1] = "!" /\ T[2] = "="
      /\ own = 3 => m = 2 /\ T[1] = ">" /\ T[2] = "="
      /\ own = 4 => m = 2 /\ T[1] = "<" /\ T[2] = "="
      /\ own = 5 => m = 1 /\ T[1] = ">"
      /\ own = 6 => m = 1 /\ T[1] = "<"
      /\ own = 7 => m = 3 /\ T[1] = Space /\ T[2] = "contains" /\ T[3] = Space
  BY OpShapes
<1>10. own = 1 \/ own = 2 \/ own = 3 \/ own = 4 \/ own = 5 \/ own = 6 \/ own = 7
  OBVIOUS
<1> HIDE DEF T, t, m, n, k, z
<1>11. ASSUME NEW q \in Nat, a + m + 1 <= q, q <= b + 1
       PROVE  s[q] # "=" /\ s[q] # "contains"
  <2>1. CASE q <= b
    <3>1. q \in (a + m + 1)..b
      BY <1>1, <1>3, <1>11, <2>1
    <3>2. s[q] = Space
      BY <1>1, <3>1
    <3> QED BY <3>2, SpaceApart
  <2>2. CASE ~(q <= b)
    <3>1. q = b + 1 /\ 1 \in 1..k
      BY <1>1, <1>2, <1>11, <2>2
    <3>2. s[q] = lit[1]
      BY <1>1, <3>1
    <3> QED BY <1>2, <3>2 DEF OpPieces
  <2> QED BY <2>1, <2>2
<1>12. CASE i <= a
  <2>1. i \in 1..a /\ i \in i..a
    BY <1>1, <1>4, <1>12
  <2>2. c = Space /\ \A q \in i..a : s[q] = Space
    BY <1>1, <1>8, <2>1
  <2>3. d = "contains"
    <3> HIDE DEF c, d
    <3> QED BY <1>6, <1>8, <2>2
  <2>4. CASE j <= a
    <3>1. j \in i..a
      BY <1>1, <1>4, <2>4
    <3> QED BY <2>2, <2>3, <3>1, SpaceApart
  <2>5. CASE ~(j <= a)
    <3>1. j = a + 1 /\ 1 \in 1..m
      BY <1>1, <1>3, <1>4, <1>12, <2>5
    <3>2. d = T[1]
      BY <1>1, <3>1
    <3>3. T[1] # "contains"
      BY <1>9, <1>10, SpaceApart
    <3> QED BY <2>3, <3>2, <3>3
  <2> QED BY <2>4, <2>5
<1>13. CASE i = a + 1
  <2>1. c = T[1]
    <3>1. 1 \in 1..m
      BY <1>3
    <3> QED BY <1>1, <1>13, <3>1
  <2>2. ASSUME own = 5 \/ own = 6 PROVE d # "="
    <3>1. m = 1
      BY <1>9, <2>2
    <3>2. j \in Nat /\ a + m + 1 <= j /\ j <= b + 1
      BY <1>1, <1>4, <1>13, <3>1
    <3> HIDE DEF j
    <3> QED BY <1>11, <3>2
  <2> HIDE DEF c, d, j
  <2>3. /\ own = 1 => o = 1
        /\ own = 2 => o = 2
        /\ own = 3 => o = 3 \/ o = 5
        /\ own = 4 => o = 4 \/ o = 6
        /\ own = 5 => o = 5
        /\ own = 6 => o = 6
        /\ own = 7 => o = 7
    BY <1>6, <1>7, <1>9, <2>1, <2>2, SpaceApart
  <2>4. o >= own
    BY <1>10, <2>3
  <2> QED BY <1>13, <2>4
<1>14. CASE a + 1 < i /\ i <= a + m
  <2>1. CASE i = a + 2
    <3>1. 2 \in 1..m /\ c = T[2]
      <4>1. 2 \in 1..m
        BY <1>1, <1>3, <1>14, <2>1
      <4> QED BY <1>1, <2>1, <4>1
    <3>2. own # 5 /\ own # 6
      BY <1>9, <3>1
    <3>3. own # 7
      <4> HIDE DEF c, d
      <4> QED BY <1>8, <1>9, <3>1
    <3>4. m = 2 /\ c = "="
      <4> HIDE DEF c, d
      <4> QED BY <1>9, <1>10, <3>1, <3>2, <3>3
    <3>5. d = "="
      <4> HIDE DEF c, d
      <4> QED BY <1>6, <1>8, <3>4
    <3>6. j \in Nat /\ a + m + 1 <= j /\ j <= b + 1
      BY <1>1, <1>4, <2>1, <3>4
    <3> HIDE DEF j
    <3> QED BY <1>11, <3>5, <3>6
  <2>2. CASE i # a + 2
    <3>1. i = a + 3 /\ m = 3
      BY <1>1, <1>3, <1>4, <1>14, <2>2
    <3>2. own = 7
      BY <1>9, <1>10, <3>1
    <3>3. c = T[3]
      <4>1. 3 \in 1..m
        BY <3>1
      <4> QED BY <1>1, <3>1, <4>1
    <3>4. d = "contains"
      <4> HIDE DEF c, d
      <4> QED BY <1>6, <1>8, <1>9, <3>2, <3>3
    <3>5. j \in Nat /\ a + m + 1 <= j /\ j <= b + 1
      BY <1>1, <1>4, <3>1
    <3> HIDE DEF j
    <3> QED BY <1>11, <3>4, <3>5
  <2> QED BY <2>1, <2>2
<1>15. CASE a + m < i /\ i <= b
  <2>1. i \in (a + m + 1)..b
    BY <1>1, <1>3, <1>4, <1>15
  <2>2. c = Space
    BY <1>1, <2>1
  <2>3. d = "contains"
    <3> HIDE DEF c, d
    <3> QED BY <1>6, <1>8, <2>2
  <2>4. j \in Nat /\ a + m + 1 <= j /\ j <= b + 1
    BY <1>1, <1>3, <1>4, <1>15
  <2> HIDE DEF j
  <2> QED BY <1>11, <2>3, <2>4
<1>16. CASE i = b + 1
  <2>1. 1 \in 1..k
    BY <1>2
  <2>2. c = lit[1]
    BY <1>1, <1>16, <2>1
  <2> QED BY <1>2, <1>8, <2>2
<1>17. CASE i > b + 1
  <2>1. i \in Nat /\ (i + n) - 1 <= z /\ n \in 1..3
    BY <1>3, <1>4
  <2>2. k # 1
    BY <1>1, <1>2, <1>17, <2>1
  <2>3. s[z] = Quote
    <3>1. k \in 1..k /\ z = b + k
      BY <1>1, <1>2
    <3> QED BY <1>1, <1>2, <2>2, <3>1
  <2>4. (i + n) - 1 # z
    <3> SUFFICES ASSUME (i + n) - 1 = z PROVE FALSE
      OBVIOUS
    <3>1. n \in 1..n
      BY <2>1
    <3>2. t[n] = Quote
      BY <1>4, <2>3, <3>1
    <3>3. t[n] # Quote
      <4>1. /\ o = 1 => n = 2 /\ t[2] = "="
            /\ o = 2 => n = 2 /\ t[2] = "="
            /\ o = 3 => n = 2 /\ t[2] = "="
            /\ o = 4 => n = 2 /\ t[2] = "="
            /\ o = 5 => n = 1 /\ t[1] = ">"
            /\ o = 6 => n = 1 /\ t[1] = "<"
            /\ o = 7 => n = 3 /\ t[3] = Space
        BY OpShapes DEF t, n
      <4>2. t[n] \in {"=", ">", "<", Space}
        BY <1>7, <4>1
      <4>3. Quote \notin {"=", ">", "<", Space}
        BY SpaceApart DEF Quote
      <4> QED BY <4>2, <4>3
    <3> QED BY <3>2, <3>3
  <2>5. i + (n - 1) < z
    BY <1>1, <1>2, <2>1, <2>4
  <2> QED BY <1>17, <2>1, <2>2, <2>5 DEF k, n, t, z
<1>18. i <= a \/ i = a + 1 \/ (a + 1 < i /\ i <= a + m) \/ (a + m < i /\ i <= b) \/ i = b + 1 \/ i > b + 1
  BY <1>1, <1>3, <1>4
<1> QED BY <1>12, <1>13, <1>14, <1>15, <1>16, <1>17, <1>18

LEMMA NoWord ==
    ASSUME NEW s \in Text, Last(s) # "exists"
    PROVE  ~IsSuffix(<<"not", Space, "exists">>, s) /\ ~IsSuffix(<<"exists">>, s)
<1> DEFINE notExists == <<"not", Space, "exists">>
           exists == <<"exists">>
<1>1. "not" \in Piece /\ Space \in Piece /\ "exists" \in Piece
  BY PieceAssumption DEF Symbols
<1>2. notExists \in Text /\ exists \in Text
  BY <1>1, SymbolTexts, Words1, Words3 DEF Text
<1>3. Last(notExists) = "exists" /\ Last(exists) = "exists" /\ notExists # <<>> /\ exists # <<>>
  <2>1. Len(notExists) = 3 /\ notExists[3] = "exists" /\ Len(exists) = 1 /\ exists[1] = "exists"
    OBVIOUS
  <2>2. notExists # <<>> /\ exists # <<>>
    OBVIOUS
  <2> QED BY <2>1, <2>2, LastIs
<1> HIDE DEF notExists, exists
<1>4. ASSUME NEW t \in Text, t # <<>>, Last(t) = "exists" PROVE ~IsSuffix(t, s)
  <2> DEFINE front == StripSuffix(s, t)
  <2> SUFFICES ASSUME IsSuffix(t, s) PROVE FALSE
    OBVIOUS
  <2>1. front \in Text /\ s = front \o t
    BY SuffixIs
  <2> HIDE DEF front
  <2>2. Last(front \o t) = Last(t)
    BY <1>4, <2>1, LastOfConcat
  <2> QED BY <1>4, <2>1, <2>2
<1>5. ~IsSuffix(notExists, s) /\ ~IsSuffix(exists, s)
  BY <1>2, <1>3, <1>4
<1> QED BY <1>5 DEF notExists, exists

LEMMA OwnPlace ==
    ASSUME NEW s, NEW a, NEW b, NEW lit, NEW own \in 1..7,
           AroundOp(s, a, Ops[own].text, b, lit), LiteralText(lit)
    PROVE  a + 1 \in PlacesOf(Ops[own].text, s)
<1> DEFINE t == Ops[own].text
           i == a + 1
<1>1. t \in Text /\ t # <<>>
  BY OpShapes
<1>2. lit \in Text /\ Len(lit) \in Nat
  BY TextLen DEF LiteralText
<1>3. /\ s \in Text /\ a \in Nat /\ b \in Nat /\ a + Len(t) <= b /\ Len(s) = b + Len(lit)
      /\ \A k \in 1..Len(t) : s[a + k] = t[k]
  BY DEF AroundOp
<1> HIDE DEF t
<1>4. Len(t) \in Nat
  BY <1>1, TextLen
<1>5. i \in Nat /\ i >= 1 /\ (i + Len(t)) - 1 <= Len(s) /\ \A k \in 1..Len(t) : (i + k) - 1 = a + k
  BY <1>2, <1>3, <1>4
<1> HIDE DEF i
<1>6. \A k \in 1..Len(t) : s[(i + k) - 1] = t[k]
  BY <1>3, <1>5
<1>7. i \in PlacesOf(t, s)
  BY <1>1, <1>3, <1>5, <1>6, PlacesAt
<1> QED BY <1>7 DEF i, t

(* A place within the string of a clause is one of the string itself.      *)
LEMMA WithinString ==
    ASSUME NEW s, NEW a, NEW b, NEW lit, NEW own \in 1..7, NEW o \in 1..7,
           AroundOp(s, a, Ops[own].text, b, lit), LiteralText(lit), Len(lit) # 1,
           NEW i \in PlacesOf(Ops[o].text, s), i > b + 1, (i + Len(Ops[o].text)) - 1 < Len(s)
    PROVE  PlacesOf(Ops[o].text, SubSeq(lit, 2, Len(lit) - 1)) # {}
<1> DEFINE t == Ops[o].text
           k == Len(lit)
           body == SubSeq(lit, 2, k - 1)
           j == i - (b + 1)
<1>1. t \in Text /\ t # <<>>
  BY OpShapes
<1>2. s \in Text /\ b \in Nat /\ Len(s) = b + k /\ \A x \in 1..k : s[b + x] = lit[x]
  BY DEF AroundOp
<1>3. lit \in Text /\ k \in Nat /\ k >= 2
  BY SomeText DEF LiteralText
<1>4. i \in Nat /\ \A x \in 1..Len(t) : s[(i + x) - 1] = t[x]
  <2>1. s \in Text /\ t \in Text /\ t # <<>> /\ i \in PlacesOf(t, s)
    BY <1>1, <1>2
  <2> HIDE DEF t
  <2> QED BY <2>1, PlacesAt
<1>5. body \in Text /\ Len(body) = k - 2 /\ \A x \in 1..(k - 2) : body[x] = lit[(2 + x) - 1]
  <2>1. 2 \in Nat /\ k - 1 \in Int /\ 1 <= 2 /\ 2 <= (k - 1) + 1 /\ k - 1 <= Len(lit) /\ ((k - 1) - 2) + 1 = k - 2
    BY <1>3
  <2> HIDE DEF k
  <2> QED BY <1>3, <2>1, SubTextAt
<1> HIDE DEF t, k, body
<1>6. Len(t) \in Nat /\ Len(t) >= 1
  BY <1>1, SomeText
<1>7. (i + Len(t)) - 1 < b + k /\ i > b + 1
  BY <1>2 DEF t
<1>8. j \in Nat /\ j >= 1 /\ (j + Len(t)) - 1 <= Len(body)
  BY <1>2, <1>3, <1>4, <1>5, <1>6, <1>7
<1>9. ASSUME NEW x \in 1..Len(t) PROVE body[(j + x) - 1] = t[x]
  <2> DEFINE y == (j + x) - 1
             q == (2 + y) - 1
  <2>1. y \in 1..(k - 2) /\ q \in 1..k /\ b + q = (i + x) - 1
    BY <1>2, <1>3, <1>4, <1>5, <1>6, <1>7, <1>8, SMTT(20)
  <2> HIDE DEF y, q, j
  <2>2. body[y] = lit[q]
    BY <1>5, <2>1 DEF q
  <2>3. lit[q] = s[b + q]
    BY <1>2, <2>1
  <2>4. s[b + q] = t[x]
    BY <1>4, <2>1
  <2> QED BY <2>2, <2>3, <2>4 DEF y
<1> HIDE DEF j
<1>10. j \in PlacesOf(t, body)
  BY <1>1, <1>5, <1>8, <1>9, PlacesAt
<1> QED BY <1>10 DEF t, k, body

(* What follows a place within the string is no literal.                   *)
LEMMA AfterString ==
    ASSUME NEW s, NEW a, NEW b, NEW lit, NEW own \in 1..7,
           AroundOp(s, a, Ops[own].text, b, lit), LiteralText(lit), Len(lit) # 1,
           NEW f \in Nat, f > b + 1, f <= Len(s)
    PROVE  ParseLiteral(Trim(SubSeq(s, f, Len(s)))) = Missing
<1> DEFINE k == Len(lit)
           z == Len(s)
           u == SubSeq(s, f, z)
<1>1. s \in Text /\ b \in Nat /\ z = b + k /\ \A x \in 1..k : s[b + x] = lit[x]
  BY DEF AroundOp
<1>2. /\ lit \in Text /\ k \in Nat /\ k >= 2 /\ lit[k] = Quote
      /\ \A x \in 2..(k - 1) : lit[x] # Quote
  BY SomeText DEF LiteralText
<1>3. f \in Nat /\ f > b + 1 /\ f <= z
  OBVIOUS
<1>4. u \in Text /\ Len(u) = (z - f) + 1 /\ \A x \in 1..((z - f) + 1) : u[x] = s[(f + x) - 1]
  <2>1. z \in Int /\ 1 <= f /\ f <= z + 1 /\ z <= Len(s)
    BY <1>1, <1>2, <1>3
  <2> HIDE DEF z
  <2> QED BY <1>1, <1>3, <2>1, SubTextAt
<1> HIDE DEF k, z, u
<1>5. Len(u) \in 1..((z - f) + 1) /\ (f + Len(u)) - 1 = z /\ u # <<>>
  <2>1. Len(u) \in 1..((z - f) + 1) /\ (f + Len(u)) - 1 = z /\ Len(u) >= 1 /\ Len(u) \in Nat
    BY <1>1, <1>2, <1>3, <1>4
  <2> QED BY <1>4, <2>1, SomeText
<1>6. u[Len(u)] = Quote
  <2>1. u[Len(u)] = s[z]
    BY <1>4, <1>5
  <2>2. k \in 1..k
    BY <1>2
  <2> QED BY <1>1, <1>2, <2>1, <2>2
<1>7. ASSUME NEW x \in 1..(Len(u) - 1) PROVE u[x] # Quote
  <2> DEFINE q == ((f + x) - 1) - b
  <2>1. x \in 1..((z - f) + 1) /\ q \in 1..k /\ q \in 2..(k - 1) /\ b + q = (f + x) - 1
    BY <1>1, <1>2, <1>3, <1>5
  <2> HIDE DEF q
  <2>2. u[x] = s[b + q]
    BY <1>4, <2>1
  <2>3. s[b + q] = lit[q]
    BY <1>1, <2>1
  <2> QED BY <1>2, <2>1, <2>2, <2>3
<1>8. ParseLiteral(Trim(u)) = Missing
  BY <1>4, <1>5, <1>6, <1>7, TailMissing
<1> QED BY <1>8 DEF u, z

(* How a clause with a literal is read: at its operator, or not at all     *)
(* when its string holds one.                                              *)
OpRead(s, own, p, lit) ==
    \/ ParseClause(s) = IF ParsePath(p) = Missing THEN Missing
                        ELSE Clause(ParsePath(p), Ops[own].op, ParseLiteral(lit))
    \/ /\ ParseClause(s) = Missing /\ Len(lit) # 1
       /\ \E o \in 1..7 : PlacesOf(Ops[o].text, SubSeq(lit, 2, Len(lit) - 1)) # {}

LEMMA OpParsed ==
    ASSUME NEW s, NEW a, NEW b, NEW lit, NEW own \in 1..7, NEW p,
           AroundOp(s, a, Ops[own].text, b, lit), LiteralText(lit), ParseLiteral(lit) # Missing,
           Trim(SubSeq(s, 1, a)) = p,
           Trim(SubSeq(s, (a + 1) + Len(Ops[own].text), Len(s))) = lit
    PROVE  OpRead(s, own, p, lit)
<1> DEFINE I == {i \in 1..Len(Ops) : PlacesOf(Ops[i].text, s) # {}}
           o == IF I # {} THEN Min(I) ELSE 0
<1>1. /\ s \in Text /\ a \in Nat /\ b \in Nat /\ Len(s) = b + Len(lit)
      /\ \A x \in 1..Len(lit) : s[b + x] = lit[x]
  BY DEF AroundOp
<1>2. ~IsSuffix(<<"not", Space, "exists">>, s) /\ ~IsSuffix(<<"exists">>, s)
  <2>1. lit \in Text /\ lit # <<>> /\ Last(lit) # "exists"
    BY DEF LiteralText
  <2>2. Len(lit) \in Nat /\ Len(lit) >= 1
    BY <2>1, SomeText
  <2>3. Len(lit) \in 1..Len(lit)
    BY <2>2
  <2>4. s[Len(s)] = lit[Len(lit)]
    BY <1>1, <2>3
  <2>5. Last(s) # "exists"
    BY <2>1, <2>4, LastIs
  <2> QED BY <1>1, <2>5, NoWord
<1>3. ParseClause(s) = IF o = 0 THEN Missing ELSE AtOperator(s, Ops[o])
  BY <1>2 DEF ParseClause, SelectInSeq
<1>4. I \subseteq 1..7 /\ own \in I
  <2>1. Len(Ops) = 7
    BY DEF Ops
  <2>2. a + 1 \in PlacesOf(Ops[own].text, s)
    BY OwnPlace
  <2> QED BY <2>1, <2>2
<1>5. o \in 1..7 /\ o <= own /\ o # 0 /\ PlacesOf(Ops[o].text, s) # {}
  <2>1. I \subseteq Nat /\ I # {}
    <3> HIDE DEF I
    <3> QED BY <1>4
  <2>2. o = Min(I)
    BY <2>1
  <2>3. o \in I /\ o <= own
    <3> HIDE DEF I, o
    <3> QED BY <1>4, <2>1, <2>2, MinOf
  <2>4. PlacesOf(Ops[o].text, s) # {}
    <3> HIDE DEF o
    <3> QED BY <2>3
  <2>5. o \in 1..7
    <3> HIDE DEF I, o
    <3> QED BY <1>4, <2>3
  <2> HIDE DEF o
  <2> QED BY <2>3, <2>4, <2>5
<1> HIDE DEF I, o
<1>6. ParseClause(s) = AtOperator(s, Ops[o])
  BY <1>3, <1>5
<1> DEFINE t == Ops[o].text
           places == PlacesOf(t, s)
           at == Min(places)
           path == ParsePath(Trim(SubSeq(s, 1, at - 1)))
           literal == ParseLiteral(Trim(SubSeq(s, at + Len(t), Len(s))))
<1>7. AtOperator(s, Ops[o]) = IF path = Missing \/ literal = Missing THEN Missing
                              ELSE Clause(path, Ops[o].op, literal)
  BY DEF AtOperator
<1>8. t \in Text /\ t # <<>> /\ Len(t) \in Nat /\ Len(t) >= 1
  BY <1>5, OpShapes, SomeText
<1>9. places \subseteq Nat /\ places # {}
  BY <1>1, <1>5, <1>8, PlacesIn
<1>10. at \in places /\ at \in Nat /\ \A i \in places : at <= i
  <2> HIDE DEF places
  <2> QED BY <1>9, MinOf
<1>11. CASE o = own
  <2>1. a + 1 \in places /\ \A i \in places : a + 1 <= i
    <3>1. a + 1 \in places
      BY <1>11, OwnPlace
    <3>2. ASSUME NEW i \in places PROVE a + 1 <= i
      <4>1. i = a + 1 \/ i > b + 1
        BY <1>5, OpPlaces
      <4>2. a <= b
        <5>1. a + Len(t) <= b
          BY <1>11 DEF AroundOp
        <5> QED BY <1>1, <1>8, <5>1
      <4>3. i \in Nat
        BY <1>9
      <4> HIDE DEF places
      <4> QED BY <1>1, <4>1, <4>2, <4>3
    <3> QED BY <3>1, <3>2
  <2>2. at = a + 1
    <3> HIDE DEF places
    <3> QED BY <1>9, <2>1, MinIs
  <2> HIDE DEF at
  <2>3. at - 1 = a
    BY <1>1, <2>2
  <2>4. path = ParsePath(p) /\ literal = ParseLiteral(lit)
    BY <1>11, <2>2, <2>3
  <2> HIDE DEF path, literal
  <2>5. ParseClause(s) = IF ParsePath(p) = Missing THEN Missing
                         ELSE Clause(ParsePath(p), Ops[own].op, ParseLiteral(lit))
    BY <1>6, <1>7, <1>11, <2>4
  <2> QED BY <2>5 DEF OpRead
<1>12. CASE o # own
  <2>1. Len(lit) # 1 /\ at > b + 1 /\ at + (Len(t) - 1) < Len(s)
    <3>1. ~(o >= own)
      BY <1>5, <1>12
    <3> HIDE DEF at
    <3> QED BY <1>5, <1>10, <3>1, OpPlaces
  <2> DEFINE f == at + Len(t)
  <2> HIDE DEF at, places
  <2>2. f \in Nat /\ f > b + 1 /\ f <= Len(s) /\ (at + Len(t)) - 1 < Len(s)
    <3> DEFINE n == Len(t)
    <3>1. Len(s) \in Nat
      BY <1>1, TextLen
    <3>2. n \in Nat /\ n >= 1 /\ at + (n - 1) < Len(s)
      BY <1>8, <2>1
    <3> HIDE DEF n
    <3>3. at + n \in Nat /\ at + n > b + 1 /\ at + n <= Len(s) /\ (at + n) - 1 < Len(s)
      BY <1>1, <1>10, <2>1, <3>1, <3>2
    <3> QED BY <3>3 DEF n
  <2> HIDE DEF f
  <2>3. ParseLiteral(Trim(SubSeq(s, f, Len(s)))) = Missing
    BY <2>1, <2>2, AfterString
  <2>4. literal = Missing
    BY <2>3 DEF f
  <2> HIDE DEF literal, path
  <2>5. ParseClause(s) = Missing
    BY <1>6, <1>7, <2>4
  <2>6. PlacesOf(Ops[o].text, SubSeq(lit, 2, Len(lit) - 1)) # {}
    BY <1>5, <1>10, <2>1, <2>2, WithinString DEF places
  <2> QED BY <1>5, <2>1, <2>5, <2>6 DEF OpRead
<1> QED BY <1>11, <1>12

LEMMA HeadText ==
    ASSUME NEW s \in Text, NEW t \in Text
    PROVE  SubSeq(s \o t, 1, Len(s)) = s
<1> DEFINE n == Len(s)
<1>1. n \in Nat /\ 1 \in Nat /\ n \in Int /\ 1 <= 1 /\ 1 <= n + 1 /\ n <= Len(s)
  BY TextLen
<1>2. SubSeq(s, 1, n) = s
  BY WholeText
<1> HIDE DEF n
<1>3. SubSeq(s \o t, 1, n) = SubSeq(s, 1, n)
  BY <1>1, SubSeqLeft
<1> QED BY <1>2, <1>3 DEF n

LEMMA TrimEnds ==
    ASSUME NEW g \in Text, NEW t, Blank(g), Solid(t)
    PROVE  Trim(g \o t) = t /\ Trim(t \o g) = t /\ Trim(t) = t
<1> DEFINE e == <<>>
<1>1. e \in Text /\ Blank(e) /\ t \in Text
  BY SymbolTexts DEF Text, Blank, Solid
<1> HIDE DEF e
<1>2. Trim((g \o t) \o e) = t /\ Trim((e \o t) \o g) = t /\ Trim((e \o t) \o e) = t
  BY <1>1, TrimBlank
<1>3. g \o t \in Text
  BY <1>1, ConcatText
<1>4. (g \o t) \o e = g \o t /\ e \o t = t /\ t \o e = t
  BY <1>1, <1>3, TextEmpty DEF e
<1> QED BY <1>2, <1>4

(* A clause as it is spelled: path, spacing, operator, spacing, literal.   *)
Surrounded(s, p, t, lit) ==
    \E a, b : /\ AroundOp(s, a, t, b, lit)
              /\ Trim(SubSeq(s, 1, a)) = p /\ Trim(SubSeq(s, (a + 1) + Len(t), Len(s))) = lit

LEMMA AroundSpelled ==
    ASSUME NEW p, NEW g \in Text, NEW h \in Text, NEW lit, NEW own \in 1..7,
           Solid(p), Free(p, Loud), Blank(g), Blank(h), LiteralText(lit),
           NEW whole, whole = p \o (((g \o Ops[own].text) \o h) \o lit)
    PROVE  Surrounded(whole, p, Ops[own].text, lit)
<1> DEFINE t == Ops[own].text
           a == Len(p) + Len(g)
           b == a + (Len(t) + Len(h))
           u == p \o g
           v == u \o t
           w == h \o lit
           s == v \o w
<1>1. t \in Text /\ p \in Text /\ lit \in Text
  BY OpShapes DEF Solid, LiteralText
<1> HIDE DEF t
<1>2. p \o (((g \o t) \o h) \o lit) = s
  <2> DEFINE x == g \o t
  <2>1. x \in Text /\ w \in Text
    BY <1>1, ConcatText
  <2>2. p \in Text /\ g \in Text /\ t \in Text
    BY <1>1
  <2>3. p \o x = u \o t
    BY <2>2, TextAssoc, SMTT(20)
  <2> HIDE DEF x
  <2>4. x \in Text /\ h \in Text /\ lit \in Text
    BY <1>1, <2>1
  <2>5. (x \o h) \o lit = x \o w
    BY <2>4, TextAssoc
  <2> HIDE DEF w
  <2>6. p \in Text /\ x \in Text /\ w \in Text
    BY <1>1, <2>1
  <2>7. p \o (x \o w) = (p \o x) \o w
    BY <2>6, TextAssoc, ZenonT(40)
  <2>8. p \o ((x \o h) \o lit) = (p \o x) \o w
    BY <2>5, <2>7
  <2>9. p \o ((x \o h) \o lit) = s
    BY <2>3, <2>8
  <2> QED BY <2>9 DEF x
<1>3. /\ Len(p) \in Nat /\ Len(g) \in Nat /\ Len(t) \in Nat /\ Len(h) \in Nat /\ Len(lit) \in Nat
      /\ a \in Nat /\ b \in Nat
  BY <1>1, TextLen
<1>4. /\ u \in Text /\ Len(u) = a
      /\ \A i \in 1..a : u[i] = IF i <= Len(p) THEN p[i] ELSE g[i - Len(p)]
  BY <1>1, ConcatAt
<1> HIDE DEF u
<1>5. /\ v \in Text /\ Len(v) = a + Len(t)
      /\ \A i \in 1..(a + Len(t)) : v[i] = IF i <= a THEN u[i] ELSE t[i - a]
  <2> HIDE DEF a
  <2>1. /\ v \in Text /\ Len(v) = Len(u) + Len(t)
        /\ \A i \in 1..(Len(u) + Len(t)) : v[i] = IF i <= Len(u) THEN u[i] ELSE t[i - Len(u)]
    BY <1>1, <1>4, ConcatAt
  <2> QED BY <1>4, <2>1
<1> HIDE DEF v
<1>6. /\ w \in Text /\ Len(w) = Len(h) + Len(lit)
      /\ \A i \in 1..(Len(h) + Len(lit)) : w[i] = IF i <= Len(h) THEN h[i] ELSE lit[i - Len(h)]
  BY <1>1, ConcatAt
<1>7. Trim(w) = lit /\ Trim(u) = p
  <2>1. Solid(lit)
    BY DEF Solid, LiteralText
  <2> QED BY <2>1, TrimEnds DEF u
<1> HIDE DEF w
<1> DEFINE c == a + Len(t)
           d == Len(h) + Len(lit)
<1>8. c \in Nat /\ d \in Nat /\ b = c + Len(h) /\ a <= c
  BY <1>3
<1>9. s \in Text /\ Len(s) = c + d /\ \A i \in 1..(c + d) : s[i] = IF i <= c THEN v[i] ELSE w[i - c]
  <2> HIDE DEF c, d
  <2>1. Len(v) = c /\ Len(w) = d
    BY <1>5, <1>6 DEF c, d
  <2>2. /\ s \in Text /\ Len(s) = Len(v) + Len(w)
        /\ \A i \in 1..(Len(v) + Len(w)) : s[i] = IF i <= Len(v) THEN v[i] ELSE w[i - Len(v)]
    BY <1>5, <1>6, ConcatAt
  <2> QED BY <2>1, <2>2
<1>10. SubSeq(s, 1, a) = u /\ SubSeq(s, (a + 1) + Len(t), Len(s)) = w
  <2> HIDE DEF a, b
  <2>1. SubSeq(s, c + 1, c + d) = w
    <3>1. SubSeq(s, Len(v) + 1, Len(v) + Len(w)) = w
      BY <1>5, <1>6, TailText
    <3>2. Len(v) = c /\ Len(w) = d
      BY <1>5, <1>6
    <3> HIDE DEF c, d, s
    <3> QED BY <3>1, <3>2
  <2>2. SubSeq(s, 1, a) = SubSeq(v, 1, a)
    <3>1. a \in Nat /\ a \in Int /\ 1 \in Nat /\ 1 <= 1 /\ 1 <= a + 1 /\ a <= Len(v)
      BY <1>3, <1>5
    <3> QED BY <1>5, <1>6, <3>1, SubSeqLeft
  <2>3. SubSeq(v, 1, a) = u
    <3>1. SubSeq(v, 1, Len(u)) = u
      BY <1>1, <1>4, HeadText DEF v
    <3> QED BY <1>4, <3>1
  <2>4. (a + 1) + Len(t) = c + 1
    BY <1>3
  <2> HIDE DEF c, d
  <2> QED BY <1>9, <2>1, <2>2, <2>3, <2>4
<1> HIDE DEF s, a, b, c, d
<1>11. a + Len(t) <= b /\ Len(s) = b + Len(lit) /\ a = Len(p) + Len(g)
  BY <1>3, <1>8, <1>9 DEF a, b, c, d
<1>12. \A i \in 1..a : s[i] = u[i]
  <2>1. \A i \in 1..a : i \in 1..(c + d) /\ i <= c /\ i <= a /\ i \in 1..(a + Len(t))
    BY <1>3, <1>8 DEF c
  <2> QED BY <1>5, <1>9, <2>1
<1>13. ASSUME NEW i \in 1..a, s[i] \in Loud, NEW q \in i..a PROVE s[q] = Space
  <2>1. i > Len(p)
    <3> SUFFICES ASSUME i <= Len(p) PROVE FALSE
      BY <1>3
    <3>1. i \in 1..Len(p)
      BY <1>3
    <3>2. s[i] = p[i]
      BY <1>4, <1>12
    <3> QED BY <1>13, <3>1, <3>2 DEF Free
  <2>2. q \in 1..a /\ ~(q <= Len(p)) /\ q - Len(p) \in 1..Len(g)
    BY <1>3, <1>11, <2>1
  <2>3. s[q] = g[q - Len(p)]
    BY <1>4, <1>12, <2>2
  <2> QED BY <2>2, <2>3 DEF Blank
<1>14. ASSUME NEW i \in 1..Len(t) PROVE s[a + i] = t[i]
  <2> DEFINE q == a + i
  <2>1. q \in 1..(c + d) /\ q <= c /\ ~(q <= a) /\ q \in 1..(a + Len(t)) /\ q - a = i
    BY <1>3, <1>8 DEF c
  <2> HIDE DEF q
  <2>2. s[q] = v[q]
    BY <1>9, <2>1
  <2>3. v[q] = t[q - a]
    BY <1>5, <2>1
  <2> QED BY <2>1, <2>2, <2>3 DEF q
<1>15. ASSUME NEW i \in (a + Len(t) + 1)..b PROVE s[i] = Space
  <2> DEFINE q == i - c
  <2>1. i \in 1..(c + d) /\ ~(i <= c) /\ q \in 1..Len(h) /\ q \in 1..(Len(h) + Len(lit)) /\ q <= Len(h)
    BY <1>3, <1>8 DEF c, d
  <2>2. s[i] = w[q]
    BY <1>9, <2>1
  <2> HIDE DEF q
  <2>3. w[q] = h[q]
    BY <1>6, <2>1
  <2> QED BY <2>1, <2>2, <2>3 DEF Blank
<1>16. ASSUME NEW i \in 1..Len(lit) PROVE s[b + i] = lit[i]
  <2> DEFINE q == b + i
             r == q - c
  <2>1. /\ q \in 1..(c + d) /\ ~(q <= c) /\ r \in 1..(Len(h) + Len(lit)) /\ ~(r <= Len(h))
        /\ r - Len(h) = i
    BY <1>3, <1>8 DEF d
  <2> HIDE DEF q
  <2>2. s[q] = w[r]
    BY <1>9, <2>1
  <2> HIDE DEF r
  <2>3. w[r] = lit[r - Len(h)]
    BY <1>6, <2>1
  <2> QED BY <2>1, <2>2, <2>3 DEF q
<1>17. AroundOp(s, a, t, b, lit)
  BY <1>3, <1>9, <1>11, <1>13, <1>14, <1>15, <1>16 DEF AroundOp
<1>18. Trim(SubSeq(s, 1, a)) = p /\ Trim(SubSeq(s, (a + 1) + Len(t), Len(s))) = lit
  BY <1>7, <1>10
<1>19. whole = s
  BY <1>2 DEF t
<1>20. Surrounded(whole, p, t, lit)
  BY <1>17, <1>18, <1>19 DEF Surrounded
<1> QED BY <1>20 DEF t

LEMMA SolidConcat ==
    ASSUME NEW p, NEW w \in Text, Solid(p), w # <<>>, Last(w) # Space
    PROVE  Solid(p \o w)
<1> DEFINE s == p \o w
<1>1. p \in Text /\ p # <<>> /\ p[1] # Space
  BY DEF Solid
<1>2. Len(p) \in Nat /\ Len(p) >= 1 /\ Len(w) \in Nat /\ Len(w) >= 1
  BY <1>1, SomeText
<1>3. /\ s \in Text /\ Len(s) = Len(p) + Len(w)
      /\ \A i \in 1..(Len(p) + Len(w)) : s[i] = IF i <= Len(p) THEN p[i] ELSE w[i - Len(p)]
  BY <1>1, ConcatAt
<1>4. s # <<>> /\ Last(s) = Last(w)
  BY <1>1, LastOfConcat
<1> HIDE DEF s
<1>5. 1 \in 1..(Len(p) + Len(w)) /\ 1 <= Len(p)
  BY <1>2
<1>6. s[1] = p[1]
  BY <1>3, <1>5
<1>7. s[Len(s)] # Space
  BY <1>4, LastIs
<1>8. Solid(s)
  BY <1>1, <1>3, <1>4, <1>6, <1>7 DEF Solid
<1> QED BY <1>8 DEF s

LEMMA OwnOp ==
    ASSUME NEW op \in Op, op \notin NoLiteral
    PROVE  \E own \in 1..7 :
              /\ Ops[own].op = op
              /\ Ops[own].text = IF op = "Contains" THEN <<Space, "contains", Space>> ELSE Sign[op]
<1>1. op \in {"Eq", "Ne", "Gt", "Ge", "Lt", "Le", "Contains"}
  BY DEF Op, NoLiteral
<1>2. /\ Ops[1].op = "Eq" /\ Ops[2].op = "Ne" /\ Ops[3].op = "Ge" /\ Ops[4].op = "Le"
      /\ Ops[5].op = "Gt" /\ Ops[6].op = "Lt" /\ Ops[7].op = "Contains"
  BY DEF Ops
<1>3. Len(Ops) = 7
  BY DEF Ops
<1>4. \A own \in 1..7 : IsSign(Ops[own])
  BY <1>3, OpsWritten
<1>5. PICK own \in 1..7 : Ops[own].op = op
  BY <1>1, <1>2
<1>6. Ops[own].text = IF op = "Contains" THEN <<Space, "contains", Space>> ELSE Sign[op]
  <2>1. IsSign(Ops[own])
    BY <1>4
  <2> QED BY <1>5, <2>1 DEF IsSign
<1> QED BY <1>5, <1>6

(* What Spell writes of a clause with a literal.                           *)
LEMMA LiteralSpelled ==
    ASSUME NEW c, IsClause(c), c.op \notin NoLiteral, NEW gap \in Text, Blank(gap),
           SpellLiteral(c.literal) \in Text
    PROVE  \E own \in 1..7 : \E g \in Text :
              /\ Blank(g) /\ Ops[own].op = c.op
              /\ Spell(c, gap) = SpellPath(c.path)
                                    \o (((g \o Ops[own].text) \o g) \o SpellLiteral(c.literal))
<1> DEFINE lit == SpellLiteral(c.literal)
           e == <<>>
<1>1. c.op \in Op
  BY DEF IsClause, ClauseText
<1>2. PICK own \in 1..7 :
              /\ Ops[own].op = c.op
              /\ Ops[own].text = IF c.op = "Contains" THEN <<Space, "contains", Space>> ELSE Sign[c.op]
  BY <1>1, OwnOp
<1>3. c.op # "Exists" /\ c.op # "NotExists"
  BY DEF NoLiteral
<1>4. CASE c.op = "Contains"
  <2> DEFINE t == <<Space, "contains", Space>>
  <2>1. t = Ops[own].text /\ t \in Text /\ e \in Text /\ Blank(e)
    <3>1. t = Ops[own].text /\ Ops[own].text \in Text
      BY <1>2, <1>4, OpShapes
    <3>2. e \in Text /\ Blank(e)
      BY SymbolTexts DEF Text, Blank
    <3> QED BY <3>1, <3>2
  <2>2. Spell(c, gap) = SpellPath(c.path) \o (t \o lit)
    BY <1>4 DEF Spell
  <2> HIDE DEF t, lit
  <2>3. e \o t = t /\ t \o e = t
    BY <2>1, TextEmpty
  <2> HIDE DEF e
  <2>4. Spell(c, gap) = SpellPath(c.path) \o (((e \o t) \o e) \o lit)
    BY <2>2, <2>3
  <2>5. Spell(c, gap) = SpellPath(c.path) \o (((e \o Ops[own].text) \o e) \o lit)
    BY <2>1, <2>4
  <2> QED BY <1>2, <2>1, <2>5 DEF lit
<1>5. CASE c.op # "Contains"
  <2>1. Ops[own].text = Sign[c.op]
    BY <1>2, <1>5
  <2>2. Spell(c, gap) = SpellPath(c.path) \o (((gap \o Sign[c.op]) \o gap) \o lit)
    BY <1>3, <1>5 DEF Spell
  <2> QED BY <1>2, <2>1, <2>2
<1> QED BY <1>4, <1>5

(* What is to be shown of every clause.                                    *)
ReadsBack(c, s) ==
    /\ Solid(s)
    /\ ParseClause(s) = Missing => HoldsOperator(c) \/ Doubled(c.path) \/ IsOnlyNot(c)
    /\ ParseClause(s) # Missing /\ ~EndsInNot(c) => ParseClause(s) = c

LEMMA LiteralClause ==
    ASSUME NEW c, IsClause(c), WellWritten(c), c.op \notin NoLiteral, NEW gap \in Text, Blank(gap)
    PROVE  ReadsBack(c, Spell(c, gap))
<1> DEFINE path == c.path
           literal == c.literal
           p == SpellPath(path)
           lit == SpellLiteral(literal)
           s == Spell(c, gap)
<1>1. PathWritten(path)
  BY DEF PathWritten, WellWritten, IsClause, ClauseText
<1>2. literal \in Literal /\ c = Clause(path, c.op, literal)
  BY DEF IsClause, ClauseText, Clause
<1>3. /\ Solid(p) /\ Free(p, Loud) /\ path # Missing
      /\ ParsePath(p) = IF Doubled(path) THEN Missing ELSE path
  BY <1>1, PathParsed DEF Spelt
<1>4. /\ LiteralText(lit) /\ ParseLiteral(lit) = literal /\ literal # Missing
      /\ Len(lit) # 1 => literal.tag = "str" /\ SubSeq(lit, 2, Len(lit) - 1) = literal.chars
  <2>1. literal.tag = "str" => \A i \in 1..Len(literal.chars) : literal.chars[i] # Quote
    BY DEF WellWritten
  <2> HIDE DEF literal
  <2> QED BY <1>2, <2>1, LiteralParsed
<1>5. lit \in Text /\ lit # <<>> /\ Last(lit) # Space
  BY <1>4, LastIs DEF LiteralText
<1>6. PICK own \in 1..7 : \E g \in Text :
              Blank(g) /\ Ops[own].op = c.op /\ s = p \o (((g \o Ops[own].text) \o g) \o lit)
  BY <1>5, LiteralSpelled
<1>7. PICK g \in Text :
              Blank(g) /\ Ops[own].op = c.op /\ s = p \o (((g \o Ops[own].text) \o g) \o lit)
  BY <1>6
<1> DEFINE t == Ops[own].text
           x == (g \o t) \o g
           w == x \o lit
<1>8. t \in Text
  BY OpShapes
<1> HIDE DEF p, lit, path, literal, s
<1>9. Solid(s)
  <2>1. x \in Text
    <3> DEFINE y == g \o t
    <3>1. y \in Text
      BY <1>8, ConcatText
    <3> HIDE DEF y
    <3> QED BY <3>1, ConcatText DEF y
  <2> HIDE DEF x
  <2>2. w \in Text /\ w # <<>> /\ Last(w) = Last(lit)
    BY <1>5, <2>1, LastOfConcat
  <2>3. s = p \o w
    BY <1>7 DEF x
  <2> HIDE DEF w
  <2> QED BY <1>3, <1>5, <2>2, <2>3, SolidConcat
<1>10. PICK a, b : /\ AroundOp(s, a, t, b, lit) /\ Trim(SubSeq(s, 1, a)) = p
                   /\ Trim(SubSeq(s, (a + 1) + Len(t), Len(s))) = lit
  <2>1. Solid(p) /\ Free(p, Loud) /\ LiteralText(lit) /\ Blank(g)
        /\ s = p \o (((g \o Ops[own].text) \o g) \o lit)
    BY <1>3, <1>4, <1>7
  <2>2. Surrounded(s, p, Ops[own].text, lit)
    BY <2>1, AroundSpelled
  <2> QED BY <2>2 DEF Surrounded
<1>11. OpRead(s, own, p, lit)
  BY <1>2, <1>4, <1>10, OpParsed
<1>12. CASE ParseClause(s) = IF ParsePath(p) = Missing THEN Missing
                             ELSE Clause(ParsePath(p), Ops[own].op, ParseLiteral(lit))
  <2>1. Doubled(path) => ParseClause(s) = Missing
    BY <1>3, <1>12
  <2>2. ~Doubled(path) => ParseClause(s) = c
    BY <1>2, <1>3, <1>4, <1>7, <1>12
  <2>3. c # Missing
    BY MissingAssumption DEF IsClause
  <2> QED BY <1>9, <2>1, <2>2, <2>3 DEF ReadsBack, s, path
<1>13. CASE /\ ParseClause(s) = Missing /\ Len(lit) # 1
            /\ \E o \in 1..7 : PlacesOf(Ops[o].text, SubSeq(lit, 2, Len(lit) - 1)) # {}
  <2>1. PICK o \in 1..7 : PlacesOf(Ops[o].text, literal.chars) # {}
    BY <1>4, <1>13
  <2>2. Ops[o] \in ToSet(Ops)
    <3>1. Len(Ops) = 7
      BY DEF Ops
    <3> QED BY <3>1 DEF ToSet
  <2>3. HoldsOperator(c)
    <3>1. \E r \in ToSet(Ops) : PlacesOf(r.text, literal.chars) # {}
      BY <2>1, <2>2
    <3> QED BY <1>4, <1>13, <3>1 DEF HoldsOperator, literal
  <2> QED BY <1>9, <1>13, <2>3 DEF ReadsBack, s
<1> QED BY <1>11, <1>12, <1>13 DEF OpRead

LEMMA SuffixOf ==
    ASSUME NEW u \in Text, NEW t \in Text
    PROVE  IsSuffix(t, u \o t) /\ StripSuffix(u \o t, t) = u
<1> DEFINE s == u \o t
           n == Len(s)
           m == Len(t)
           rs == Reverse(s)
           rt == Reverse(t)
<1>1. /\ s \in Text /\ n = Len(u) + m /\ Len(u) \in Nat /\ m \in Nat
      /\ \A i \in 1..(Len(u) + m) : s[i] = IF i <= Len(u) THEN u[i] ELSE t[i - Len(u)]
  BY ConcatAt, TextLen
<1>2. (\A i \in 1..n : s[i] \in Piece) /\ (\A i \in 1..m : t[i] \in Piece)
  BY <1>1, TextLen
<1>3. rs = [i \in 1..n |-> s[(n - i) + 1]] /\ rt = [i \in 1..m |-> t[(m - i) + 1]]
  BY DEF Reverse
<1>4. StripSuffix(s, t) = u
  <2>1. n - m = Len(u)
    BY <1>1
  <2>2. SubSeq(s, 1, Len(u)) = u
    BY HeadText
  <2> QED BY <2>1, <2>2 DEF StripSuffix
<1> HIDE DEF s, n, m
<1>5. rs \in Text /\ rt \in Text /\ Len(rs) = n /\ Len(rt) = m
  <2>1. \A i \in 1..n : (n - i) + 1 \in 1..n
    BY <1>1
  <2>2. \A i \in 1..m : (m - i) + 1 \in 1..m
    BY <1>1
  <2>3. rs \in [1..n -> Piece] /\ rt \in [1..m -> Piece]
    BY <1>2, <1>3, <2>1, <2>2
  <2>4. n \in Nat /\ m \in Nat
    BY <1>1
  <2> HIDE DEF rs, rt
  <2> QED BY <2>3, <2>4 DEF Text
<1>6. ASSUME NEW k \in 1..m PROVE rt[k] = rs[k]
  <2> DEFINE i == (n - k) + 1
             j == (m - k) + 1
  <2>1. /\ k \in 1..n /\ i \in 1..(Len(u) + m) /\ ~(i <= Len(u)) /\ i - Len(u) = j
    BY <1>1
  <2>2. rs[k] = s[i] /\ rt[k] = t[j]
    BY <1>3, <2>1
  <2> HIDE DEF i, j
  <2>3. s[i] = t[i - Len(u)]
    BY <1>1, <2>1
  <2> QED BY <2>1, <2>2, <2>3
<1> HIDE DEF rs, rt
<1>7. SubSeq(rt, 1, m) = SubSeq(rs, 1, m)
  <2> DEFINE p == SubSeq(rt, 1, m)
             q == SubSeq(rs, 1, m)
  <2>1. /\ 1 \in Nat /\ m \in Int /\ 1 <= 1 /\ 1 <= m + 1 /\ m <= Len(rt) /\ m <= Len(rs)
        /\ (m - 1) + 1 = m
    BY <1>1, <1>5
  <2>2. /\ p \in Text /\ Len(p) = m /\ \A k \in 1..m : p[k] = rt[(1 + k) - 1]
        /\ q \in Text /\ Len(q) = m /\ \A k \in 1..m : q[k] = rs[(1 + k) - 1]
    BY <1>5, <2>1, SubTextAt
  <2> HIDE DEF p, q
  <2>3. \A k \in 1..m : (1 + k) - 1 = k
    OBVIOUS
  <2>4. \A k \in 1..m : p[k] = q[k]
    BY <1>6, <2>2, <2>3
  <2>5. p = q
    BY <2>2, <2>4, TextEqual
  <2> QED BY <2>5 DEF p, q
<1>8. Len(rt) <= Len(rs)
  BY <1>1, <1>5
<1>9. IsSuffix(t, s)
  BY <1>5, <1>7, <1>8 DEF IsSuffix, IsPrefix, rs, rt
<1> QED BY <1>4, <1>9 DEF s

(* What precedes the word `not`, when it is found, ends in it.             *)
LEMMA EndsBefore ==
    ASSUME NEW p \in Text, NEW front \in Text,
           p \o <<Space, "exists">> = front \o <<"not", Space, "exists">>
    PROVE  p = front \o <<"not">>
<1> DEFINE two == <<Space, "exists">>
           three == <<"not", Space, "exists">>
           one == <<"not">>
           s == p \o two
           r == front \o one
<1>1. "not" \in Piece /\ Space \in Piece /\ "exists" \in Piece
  BY PieceAssumption DEF Symbols
<1>2. two \in Text /\ three \in Text /\ one \in Text
  BY <1>1, SymbolTexts, Words1, Words3 DEF Text
<1>3. Len(two) = 2 /\ Len(three) = 3 /\ Len(one) = 1 /\ three[1] = "not" /\ one[1] = "not"
  OBVIOUS
<1> HIDE DEF two, three, one
<1>4. Len(p) \in Nat /\ Len(front) \in Nat
  BY TextLen
<1>5. Len(s) = Len(p) + 2 /\ \A i \in 1..(Len(p) + 2) : i <= Len(p) => s[i] = p[i]
  BY <1>2, <1>3, ConcatAt, ZenonT(40)
<1>6. s = front \o three
  BY DEF two, three
<1> HIDE DEF s
<1>7. /\ Len(s) = Len(front) + 3
      /\ \A i \in 1..(Len(front) + 3) : s[i] = IF i <= Len(front) THEN front[i] ELSE three[i - Len(front)]
  <2>1. /\ Len(front \o three) = Len(front) + Len(three)
        /\ \A i \in 1..(Len(front) + Len(three)) :
              (front \o three)[i] = IF i <= Len(front) THEN front[i] ELSE three[i - Len(front)]
    BY <1>2, ConcatAt
  <2> QED BY <1>3, <1>6, <2>1
<1>8. /\ r \in Text /\ Len(r) = Len(front) + 1
      /\ \A i \in 1..(Len(front) + 1) : r[i] = IF i <= Len(front) THEN front[i] ELSE one[i - Len(front)]
  <2>1. /\ r \in Text /\ Len(r) = Len(front) + Len(one)
        /\ \A i \in 1..(Len(front) + Len(one)) :
              r[i] = IF i <= Len(front) THEN front[i] ELSE one[i - Len(front)]
    BY <1>2, ConcatAt
  <2> HIDE DEF r
  <2> QED BY <1>3, <2>1
<1> HIDE DEF r
<1>9. Len(p) = Len(front) + 1
  BY <1>4, <1>5, <1>7
<1>10. ASSUME NEW i \in 1..Len(p) PROVE p[i] = r[i]
  <2>1. i \in 1..(Len(p) + 2) /\ i \in 1..(Len(front) + 3) /\ i \in 1..(Len(front) + 1)
    BY <1>4, <1>9
  <2>2. CASE i <= Len(front)
    BY <1>5, <1>7, <1>8, <2>1, <2>2
  <2>3. CASE ~(i <= Len(front))
    <3>1. i - Len(front) = 1
      BY <1>4, <1>9, <2>3
    <3> QED BY <1>3, <1>5, <1>7, <1>8, <2>1, <2>3, <3>1
  <2> QED BY <2>2, <2>3
<1>11. p = r
  BY <1>8, <1>9, <1>10, TextEqual
<1> QED BY <1>11 DEF r, one

(* A path and a word that ends the clause.                                 *)
WordRead(s, p, suffix, op) ==
    /\ IsSuffix(suffix, s)
    /\ WithoutLiteral(s, suffix, op) =
          IF ParsePath(p) = Missing THEN Missing ELSE Clause(ParsePath(p), op, Missing)

LEMMA WordParsed ==
    ASSUME NEW p, Solid(p), NEW suffix \in Text, NEW tail \in Text, <<Space>> \o suffix = tail, NEW op
    PROVE  WordRead(p \o tail, p, suffix, op)
<1> DEFINE g == <<Space>>
           u == p \o g
           s == p \o tail
<1>1. g \in Text /\ Blank(g) /\ p \in Text
  <2>1. Space \in Piece
    BY PieceAssumption DEF Symbols
  <2>2. g \in Text /\ Len(g) = 1 /\ g[1] = Space
    BY <2>1, TextOne
  <2> HIDE DEF g
  <2> QED BY <2>2 DEF Blank, Solid
<1> HIDE DEF g
<1>2. u \in Text /\ Trim(u) = p
  BY <1>1, ConcatText, TrimEnds
<1>3. u \o suffix = s
  <2>1. p \in Text /\ g \in Text /\ suffix \in Text
    BY <1>1
  <2>2. (p \o g) \o suffix = p \o (g \o suffix)
    BY <2>1, TextAssoc, SMTT(20)
  <2> QED BY <2>2 DEF g
<1> HIDE DEF u
<1>4. IsSuffix(suffix, u \o suffix) /\ StripSuffix(u \o suffix, suffix) = u
  BY <1>2, SuffixOf
<1> HIDE DEF s
<1>5. IsSuffix(suffix, s) /\ StripSuffix(s, suffix) = u
  BY <1>3, <1>4
<1>6. WithoutLiteral(s, suffix, op) =
         IF ParsePath(p) = Missing THEN Missing ELSE Clause(ParsePath(p), op, Missing)
  BY <1>2, <1>5 DEF WithoutLiteral
<1> QED BY <1>5, <1>6 DEF s, WordRead

LEMMA WordClause ==
    ASSUME NEW c, IsClause(c), WellWritten(c), c.op \in NoLiteral, NEW gap \in Text
    PROVE  ReadsBack(c, Spell(c, gap))
<1> DEFINE path == c.path
           p == SpellPath(path)
           s == Spell(c, gap)
           one == <<"not">>
           exists == <<"exists">>
           notExists == <<"not", Space, "exists">>
           sExists == <<Space, "exists">>
           sNotExists == <<Space, "not", Space, "exists">>
<1>1. PathWritten(path)
  BY DEF PathWritten, WellWritten, IsClause, ClauseText
<1>2. path \in Seq(Segment) /\ c = Clause(path, c.op, Missing) /\ c # Missing
  BY MissingAssumption DEF IsClause, ClauseText, Clause
<1>3. /\ Solid(p) /\ path # Missing /\ p \in Text
      /\ ParsePath(p) = IF Doubled(path) THEN Missing ELSE path
      /\ Last(p) = IF Last(path).seg = "index" THEN "]" ELSE Last(Last(path).name)
  BY <1>1, PathParsed DEF Spelt
<1>4. /\ one \in Text /\ exists \in Text /\ notExists \in Text /\ sExists \in Text /\ sNotExists \in Text
      /\ <<Space>> \o exists = sExists /\ <<Space>> \o notExists = sNotExists
  <2>1. "not" \in Piece /\ Space \in Piece /\ "exists" \in Piece
    BY PieceAssumption DEF Symbols
  <2>2. <<Space>> \o exists = sExists
    BY TwoConcat, Zenon
  <2>3. <<Space>> \o notExists = sNotExists
    BY OneThreeConcat, Zenon
  <2> QED BY <2>1, <2>2, <2>3, SymbolTexts, Words1, Words3 DEF Text
<1>5. /\ sExists # <<>> /\ Last(sExists) # Space /\ sNotExists # <<>> /\ Last(sNotExists) # Space
      /\ one # <<>> /\ Last(one) = "not"
  <2>1. Len(sExists) = 2 /\ sExists[2] = "exists" /\ Len(sNotExists) = 4 /\ sNotExists[4] = "exists"
        /\ Len(one) = 1 /\ one[1] = "not"
    OBVIOUS
  <2>2. sExists # <<>> /\ sNotExists # <<>> /\ one # <<>>
    OBVIOUS
  <2> HIDE DEF sExists, sNotExists, one
  <2> QED BY <2>1, <2>2, LastIs, SpaceApart
<1>6. /\ c.op = "Exists" => s = p \o sExists
      /\ c.op = "NotExists" => s = p \o sNotExists
      /\ c.op = "Exists" \/ c.op = "NotExists"
  BY DEF Spell, NoLiteral
<1>7. ParseClause(s) =
         IF IsSuffix(notExists, s) THEN WithoutLiteral(s, notExists, "NotExists")
         ELSE IF IsSuffix(exists, s) THEN WithoutLiteral(s, exists, "Exists")
         ELSE LET o == SelectInSeq(Ops, LAMBDA x : PlacesOf(x.text, s) # {})
              IN  IF o = 0 THEN Missing ELSE AtOperator(s, Ops[o])
  BY DEF ParseClause
<1> HIDE DEF path, p, s, one, exists, notExists, sExists, sNotExists
<1>8. CASE c.op = "NotExists"
  <2>1. s = p \o sNotExists
    BY <1>6, <1>8
  <2>2. Solid(s)
    BY <1>3, <1>4, <1>5, <2>1, SolidConcat
  <2>3. WordRead(p \o sNotExists, p, notExists, "NotExists")
    BY <1>3, <1>4, WordParsed
  <2>4. ParseClause(s) =
           IF ParsePath(p) = Missing THEN Missing ELSE Clause(ParsePath(p), "NotExists", Missing)
    BY <1>7, <2>1, <2>3 DEF WordRead
  <2>5. Doubled(path) => ParseClause(s) = Missing
    BY <1>3, <2>4
  <2>6. ~Doubled(path) => ParseClause(s) = c
    BY <1>2, <1>3, <1>8, <2>4
  <2> QED BY <1>2, <2>2, <2>5, <2>6 DEF ReadsBack, s, path
<1>9. CASE c.op = "Exists"
  <2>1. s = p \o sExists
    BY <1>6, <1>9
  <2>2. Solid(s) /\ s \in Text
    BY <1>3, <1>4, <1>5, <2>1, SolidConcat DEF Solid
  <2>3. CASE ~IsSuffix(notExists, s)
    <3>1. WordRead(p \o sExists, p, exists, "Exists")
      BY <1>3, <1>4, WordParsed
    <3>2. ParseClause(s) =
             IF ParsePath(p) = Missing THEN Missing ELSE Clause(ParsePath(p), "Exists", Missing)
      BY <1>7, <2>1, <2>3, <3>1 DEF WordRead
    <3>3. Doubled(path) => ParseClause(s) = Missing
      BY <1>3, <3>2
    <3>4. ~Doubled(path) => ParseClause(s) = c
      BY <1>2, <1>3, <1>9, <3>2
    <3> QED BY <1>2, <2>2, <3>3, <3>4 DEF ReadsBack, s, path
  <2>4. CASE IsSuffix(notExists, s)
    <3> DEFINE front == StripSuffix(s, notExists)
    <3>1. front \in Text /\ s = front \o notExists
      BY <1>4, <2>2, <2>4, SuffixIs
    <3>2. ParseClause(s) = IF ParsePath(Trim(front)) = Missing THEN Missing
                           ELSE Clause(ParsePath(Trim(front)), "NotExists", Missing)
      BY <1>7, <2>4 DEF WithoutLiteral
    <3> HIDE DEF front
    <3>3. p = front \o one
      <4>1. p \o sExists = front \o notExists
        BY <2>1, <3>1
      <4> QED BY <1>3, <3>1, <4>1, EndsBefore DEF sExists, notExists, one
    <3>4. Last(p) = "not"
      BY <1>4, <1>5, <3>1, <3>3, LastOfConcat
    <3>5. Last(path).seg = "field" /\ Last(Last(path).name) = "not"
      <4>1. Last(path).seg # "index"
        BY <1>3, <3>4
      <4>2. Last(path) \in Segment
        <5>1. Len(path) \in Nat /\ Len(path) >= 1
          BY <1>1, PathSpelt
        <5>2. path[Len(path)] \in Segment
          BY <1>2, <5>1, ElementOfSeq
        <5> QED BY <5>2, LastIs
      <4>3. Last(path).seg = "field" \/ Last(path).seg = "index"
        BY <4>2 DEF Segment
      <4> QED BY <1>3, <3>4, <4>1, <4>3
    <3>6. EndsInNot(c)
      BY <1>9, <3>5 DEF EndsInNot, path
    <3>7. /\ front = <<>> => path = <<Field(<<"not">>)>>
          /\ front # <<>> => Solid(front) /\ (~Doubled(path) => ParsePath(front) # Missing)
      BY <1>1, <3>1, <3>3, <3>5, TruncatedParsed DEF p, one
    <3>8. CASE front = <<>>
      <4>1. IsOnlyNot(c)
        BY <1>9, <3>7, <3>8 DEF IsOnlyNot, path
      <4> QED BY <2>2, <3>6, <4>1 DEF ReadsBack, s
    <3>9. CASE front # <<>>
      <4>1. Trim(front) = front
        <5>1. <<>> \in Text /\ Blank(<<>>)
          BY SymbolTexts DEF Blank
        <5> QED BY <3>7, <3>9, <5>1, TrimEnds
      <4>2. ASSUME ~Doubled(path) PROVE ParseClause(s) # Missing
        <5>1. ParsePath(front) # Missing
          BY <3>7, <3>9, <4>2
        <5>2. ParsePath(front) \in Seq(Segment)
          BY <3>1, <5>1, PathTyped
        <5>3. Clause(ParsePath(front), "NotExists", Missing) \in ClauseText
          BY <5>2 DEF Clause, ClauseText, Op
        <5>4. Clause(ParsePath(front), "NotExists", Missing) # Missing
          BY <5>3, MissingAssumption
        <5> QED BY <3>2, <4>1, <5>1, <5>4
      <4> QED BY <2>2, <3>6, <4>2 DEF ReadsBack, s, path
    <3> QED BY <3>8, <3>9
  <2> QED BY <2>3, <2>4
<1> QED BY <1>6, <1>8, <1>9

(* Every clause of the grammar is read as it was written, or for one of    *)
(* the reasons named is not.                                               *)
LEMMA ClauseParsed ==
    ASSUME NEW c, IsClause(c), WellWritten(c), NEW gap \in Text, Blank(gap)
    PROVE  ReadsBack(c, Spell(c, gap))
BY LiteralClause, WordClause

-----------------------------------------------------------------------------
(* Where the top-level `&&` of a text of parts are.                        *)
Even(s) == Count(s, {Quote}) % 2 = 0

LEMMA EvenSum ==
    ASSUME NEW a \in Nat, NEW b \in Nat, a % 2 = 0
    PROVE  (a + b) % 2 = 0 <=> b % 2 = 0
OBVIOUS

LEMMA AndsAre ==
    ASSUME NEW s \in Text
    PROVE  TopLevelAnds(s) = {i \in 1..Len(s) : s[i] = "&&" /\ Even(SubSeq(s, 1, i))}
<1>1. ASSUME NEW i \in 1..Len(s)
      PROVE  Cardinality({j \in 1..i : s[j] = Quote}) = Count(SubSeq(s, 1, i), {Quote})
  <2> DEFINE h == SubSeq(s, 1, i)
  <2>1. /\ 1 \in Nat /\ i \in Int /\ 1 <= 1 /\ 1 <= i + 1 /\ i <= Len(s) /\ (i - 1) + 1 = i
    BY TextLen
  <2>2. h \in Text /\ Len(h) = i /\ \A j \in 1..i : h[j] = s[(1 + j) - 1]
    BY <2>1, SubTextAt
  <2>3. \A j \in 1..i : (1 + j) - 1 = j
    OBVIOUS
  <2> HIDE DEF h
  <2>4. {j \in 1..i : s[j] = Quote} = {j \in 1..Len(h) : h[j] \in {Quote}}
    BY <2>2, <2>3
  <2> QED BY <2>4 DEF Count, Places, h
<1>2. \A i \in 1..Len(s) :
          Cardinality({j \in 1..i : s[j] = Quote}) % 2 = 0 <=> Even(SubSeq(s, 1, i))
  BY <1>1 DEF Even
<1> QED BY <1>2 DEF TopLevelAnds

LEMMA SubSeqAcross ==
    ASSUME NEW s \in Text, NEW t \in Text, NEW k \in 0..Len(t)
    PROVE  SubSeq(s \o t, 1, Len(s) + k) = s \o SubSeq(t, 1, k) /\ SubSeq(t, 1, k) \in Text
<1> DEFINE a == SubSeq(t, 1, k)
           b == SubSeq(t, k + 1, Len(t))
<1>1. Len(s) \in Nat /\ Len(t) \in Nat
  BY TextLen
<1>2. a \in Text /\ b \in Text /\ a \o b = t
  <2> DEFINE n == Len(t)
  <2>1. 1 \in Int /\ k \in Int /\ n \in Int /\ 1 <= 1 /\ 1 <= k + 1 /\ k <= n /\ n <= Len(t)
    BY <1>1
  <2> HIDE DEF n
  <2>2. SubSeq(t, 1, k) \in Text /\ SubSeq(t, k + 1, n) \in Text
        /\ SubSeq(t, 1, k) \o SubSeq(t, k + 1, n) = SubSeq(t, 1, n)
    BY <2>1, AdjacentTexts
  <2> QED BY <2>2, WholeText DEF n
<1>3. Len(a) = k
  <2>1. 1 \in Nat /\ k \in Int /\ 1 <= 1 /\ 1 <= k + 1 /\ k <= Len(t) /\ (k - 1) + 1 = k
    BY <1>1
  <2> QED BY <2>1, SubTextAt
<1> HIDE DEF a, b
<1> DEFINE u == s \o a
<1>4. u \in Text /\ Len(u) = Len(s) + k
  BY <1>2, <1>3, ConcatAt
<1>5. s \o t = u \o b
  BY <1>2, TextAssoc
<1> HIDE DEF u
<1>6. SubSeq(u \o b, 1, Len(u)) = u
  BY <1>2, <1>4, HeadText
<1>7. SubSeq(s \o t, 1, Len(s) + k) = u
  BY <1>4, <1>5, <1>6
<1> QED BY <1>2, <1>7 DEF u, a

LEMMA EvenConcat ==
    ASSUME NEW s \in Text, NEW t \in Text, Even(s)
    PROVE  Even(s \o t) <=> Even(t)
<1>1. s \in Seq(Piece) /\ t \in Seq(Piece)
  BY DEF Text
<1>2. Count(s \o t, {Quote}) = Count(s, {Quote}) + Count(t, {Quote})
  BY <1>1, CountConcat
<1>3. Count(s, {Quote}) \in Nat /\ Count(t, {Quote}) \in Nat
  BY <1>1, CountTyped
<1> DEFINE a == Count(s, {Quote})
           b == Count(t, {Quote})
<1>4. a \in Nat /\ b \in Nat /\ a % 2 = 0
  BY <1>3 DEF Even
<1> HIDE DEF a, b
<1>5. (a + b) % 2 = 0 <=> b % 2 = 0
  BY <1>4, EvenSum
<1> QED BY <1>2, <1>5 DEF Even, a, b

LEMMA AndsConcat ==
    ASSUME NEW s \in Text, NEW t \in Text, Even(s)
    PROVE  \A i : i \in TopLevelAnds(s \o t) <=>
                     i \in TopLevelAnds(s) \/ (i - Len(s) \in TopLevelAnds(t) /\ i \in Nat)
<1> DEFINE w == s \o t
<1>1. Len(s) \in Nat /\ Len(t) \in Nat
  BY TextLen
<1>2. /\ w \in Text /\ Len(w) = Len(s) + Len(t)
      /\ \A i \in 1..(Len(s) + Len(t)) : w[i] = IF i <= Len(s) THEN s[i] ELSE t[i - Len(s)]
  BY ConcatAt
<1>3. ASSUME NEW i \in 1..Len(s)
      PROVE  w[i] = s[i] /\ SubSeq(w, 1, i) = SubSeq(s, 1, i)
  <2>1. i \in 1..(Len(s) + Len(t)) /\ i <= Len(s)
    BY <1>1
  <2>2. 1 \in Nat /\ i \in Int /\ 1 <= 1 /\ 1 <= i + 1 /\ i <= Len(s)
    BY <1>1
  <2>3. SubSeq(s \o t, 1, i) = SubSeq(s, 1, i)
    BY <2>2, SubSeqLeft
  <2>4. w[i] = s[i]
    <3> HIDE DEF w
    <3> QED BY <1>2, <2>1
  <2> QED BY <2>3, <2>4
<1>4. ASSUME NEW k \in 1..Len(t)
      PROVE  w[Len(s) + k] = t[k] /\ (Even(SubSeq(w, 1, Len(s) + k)) <=> Even(SubSeq(t, 1, k)))
  <2> DEFINE i == Len(s) + k
             h == SubSeq(t, 1, k)
  <2>1. i \in 1..(Len(s) + Len(t)) /\ ~(i <= Len(s)) /\ i - Len(s) = k /\ k \in 0..Len(t)
    BY <1>1
  <2>2. h \in Text /\ SubSeq(s \o t, 1, i) = s \o h
    BY <2>1, SubSeqAcross
  <2> HIDE DEF h, i
  <2>3. w[i] = t[k]
    <3> HIDE DEF w
    <3> QED BY <1>2, <2>1
  <2>4. Even(s \o h) <=> Even(h)
    BY <2>2, EvenConcat
  <2> QED BY <2>2, <2>3, <2>4 DEF h, i
<1>5. /\ TopLevelAnds(w) = {i \in 1..Len(w) : w[i] = "&&" /\ Even(SubSeq(w, 1, i))}
      /\ TopLevelAnds(s) = {i \in 1..Len(s) : s[i] = "&&" /\ Even(SubSeq(s, 1, i))}
      /\ TopLevelAnds(t) = {i \in 1..Len(t) : t[i] = "&&" /\ Even(SubSeq(t, 1, i))}
  <2> HIDE DEF w
  <2> QED BY <1>2, AndsAre
<1> HIDE DEF w
<1>6. ASSUME NEW i
      PROVE  i \in TopLevelAnds(w) <=>
                 i \in TopLevelAnds(s) \/ (i - Len(s) \in TopLevelAnds(t) /\ i \in Nat)
  <2>1. CASE i \in 1..Len(s)
    <3>1. i \in 1..Len(w) /\ ~(i - Len(s) \in 1..Len(t))
      BY <1>1, <1>2, <2>1
    <3>2. i \in TopLevelAnds(w) <=> i \in TopLevelAnds(s)
      BY <1>3, <1>5, <2>1, <3>1
    <3>3. ~(i - Len(s) \in TopLevelAnds(t))
      BY <1>5, <3>1
    <3> QED BY <3>2, <3>3
  <2>2. CASE i \in Nat /\ i > Len(s)
    <3> DEFINE k == i - Len(s)
    <3>1. i = Len(s) + k /\ k \in Nat /\ (i \in 1..Len(w) <=> k \in 1..Len(t)) /\ ~(i \in 1..Len(s))
      BY <1>1, <1>2, <2>2
    <3> HIDE DEF k
    <3>2. ASSUME k \in 1..Len(t) PROVE i \in TopLevelAnds(w) <=> k \in TopLevelAnds(t)
      BY <1>4, <1>5, <3>1, <3>2
    <3>3. ASSUME ~(k \in 1..Len(t)) PROVE ~(i \in TopLevelAnds(w)) /\ ~(k \in TopLevelAnds(t))
      BY <1>5, <3>1, <3>3
    <3>4. ~(i \in TopLevelAnds(s))
      BY <1>5, <3>1
    <3> QED BY <2>2, <3>2, <3>3, <3>4 DEF k
  <2>3. CASE ~(i \in 1..Len(s)) /\ ~(i \in Nat /\ i > Len(s))
    <3>1. ~(i \in 1..Len(w)) /\ ~(i - Len(s) \in 1..Len(t) /\ i \in Nat)
      BY <1>1, <1>2, <2>3
    <3> QED BY <1>5, <2>3, <3>1
  <2> QED BY <2>1, <2>2, <2>3
<1> QED BY <1>6 DEF w

(* A text that is cut nowhere, and leaves what follows it as it is.        *)
Neat(t) == t \in Text /\ Even(t) /\ TopLevelAnds(t) = {}

LEMMA NeatAfter ==
    ASSUME NEW s \in Text, NEW t, Even(s), Neat(t)
    PROVE  s \o t \in Text /\ Even(s \o t) /\ TopLevelAnds(s \o t) = TopLevelAnds(s)
<1> DEFINE w == s \o t
<1>1. t \in Text /\ Even(t) /\ TopLevelAnds(t) = {}
  BY DEF Neat
<1>2. w \in Text /\ Even(w)
  BY <1>1, ConcatText, EvenConcat
<1>3. \A i : i \in TopLevelAnds(w) <=>
                i \in TopLevelAnds(s) \/ (i - Len(s) \in TopLevelAnds(t) /\ i \in Nat)
  BY <1>1, AndsConcat
<1> HIDE DEF w
<1>4. \A i : i \in TopLevelAnds(w) <=> i \in TopLevelAnds(s)
  BY <1>1, <1>3
<1>5. TopLevelAnds(w) = TopLevelAnds(s)
  BY <1>4
<1> QED BY <1>2, <1>5 DEF w

LEMMA NeatConcat ==
    ASSUME NEW s, NEW t, Neat(s), Neat(t) PROVE Neat(s \o t)
<1>1. s \in Text /\ Even(s) /\ TopLevelAnds(s) = {}
  BY DEF Neat
<1>2. s \o t \in Text /\ Even(s \o t) /\ TopLevelAnds(s \o t) = TopLevelAnds(s)
  BY <1>1, NeatAfter
<1> QED BY <1>1, <1>2 DEF Neat

LEMMA UnquotedEven ==
    ASSUME NEW t \in Text, Free(t, {Quote}) PROVE Even(t)
<1>1. Places(t, {Quote}) = {}
  BY DEF Places, Free
<1>2. Count(t, {Quote}) = 0
  BY <1>1, FS_EmptySet DEF Count
<1> QED BY <1>2 DEF Even

LEMMA FreeNeat ==
    ASSUME NEW t \in Text, Free(t, {Quote, "&&"}) PROVE Neat(t)
<1>1. Free(t, {Quote}) /\ \A i \in 1..Len(t) : t[i] # "&&"
  BY DEF Free
<1>2. Even(t)
  BY <1>1, UnquotedEven
<1>3. TopLevelAnds(t) = {}
  BY <1>1 DEF TopLevelAnds
<1> QED BY <1>2, <1>3 DEF Neat

LEMMA AndAfter ==
    ASSUME NEW s \in Text, Even(s)
    PROVE  LET w == s \o <<"&&">>
           IN  w \in Text /\ Even(w) /\ TopLevelAnds(w) = TopLevelAnds(s) \cup {Len(s) + 1}
<1> DEFINE and == <<"&&">>
           w == s \o and
<1>1. and \in Text /\ Len(and) = 1 /\ and[1] = "&&"
  BY SymbolTexts
<1> HIDE DEF and
<1>2. Free(and, {Quote})
  <2>1. \A i \in 1..Len(and) : and[i] = "&&"
    BY <1>1
  <2> QED BY <2>1, SpaceApart DEF Free
<1>3. Even(and)
  BY <1>1, <1>2, UnquotedEven
<1>4. TopLevelAnds(and) = {1}
  <2>1. TopLevelAnds(and) = {i \in 1..Len(and) : and[i] = "&&" /\ Even(SubSeq(and, 1, i))}
    BY <1>1, AndsAre
  <2>2. SubSeq(and, 1, 1) = and
    BY <1>1, WholeText
  <2>3. \A i : i \in 1..Len(and) <=> i = 1
    BY <1>1
  <2>4. \A i : i \in TopLevelAnds(and) <=> i = 1
    BY <1>1, <1>3, <2>1, <2>2, <2>3
  <2> QED BY <2>4
<1>5. w \in Text /\ Even(w)
  BY <1>1, <1>3, ConcatText, EvenConcat
<1>6. \A i : i \in TopLevelAnds(w) <=>
                i \in TopLevelAnds(s) \/ (i - Len(s) \in TopLevelAnds(and) /\ i \in Nat)
  BY <1>1, AndsConcat
<1> HIDE DEF w
<1>7. Len(s) \in Nat /\ Len(w) \in Nat /\ TopLevelAnds(w) \subseteq Nat
  <2>1. TopLevelAnds(w) \subseteq 1..Len(w)
    BY DEF TopLevelAnds
  <2> QED BY <1>5, <2>1, TextLen
<1> DEFINE n == Len(s) + 1
<1>8. \A i \in Nat : i - Len(s) = 1 <=> i = n
  BY <1>7
<1>9. n \in Nat
  BY <1>7
<1> HIDE DEF n
<1>10. \A i : i \in TopLevelAnds(w) <=> i \in TopLevelAnds(s) \cup {n}
  <2>1. \A i : i - Len(s) \in TopLevelAnds(and) <=> i - Len(s) = 1
    BY <1>4
  <2> QED BY <1>6, <1>8, <1>9, <2>1
<1>11. TopLevelAnds(w) = TopLevelAnds(s) \cup {n}
  BY <1>10
<1> QED BY <1>5, <1>11 DEF w, n, and

(* A string literal: what is between its quotes is no top level.           *)
LEMMA QuotedNeat ==
    ASSUME NEW t \in Text, Len(t) >= 2, t[1] = Quote, t[Len(t)] = Quote,
           \A i \in 2..(Len(t) - 1) : t[i] # Quote
    PROVE  Neat(t)
<1> DEFINE n == Len(t)
<1>1. n \in Nat /\ n >= 2 /\ Quote # "&&"
  BY TextLen, SpaceApart
<1> HIDE DEF n
<1>2. t[1] = Quote /\ t[n] = Quote /\ \A i \in 2..(n - 1) : t[i] # Quote
  BY DEF n
<1>3. {j \in 1..n : t[j] = Quote} = {1, n}
  <2>1. \A j \in 1..n : j = 1 \/ j = n \/ j \in 2..(n - 1)
    BY <1>1
  <2>2. 1 \in 1..n /\ n \in 1..n
    BY <1>1
  <2> QED BY <1>2, <2>1, <2>2
<1>4. Even(t)
  <2>1. Places(t, {Quote}) = {1, n}
    BY <1>3 DEF Places, n
  <2>2. Cardinality({1, n}) = 2
    <3>1. IsFiniteSet({1}) /\ Cardinality({1}) = 1
      BY FS_Singleton
    <3>2. n \notin {1}
      BY <1>1
    <3>3. Cardinality({1} \cup {n}) = 1 + 1
      BY <3>1, <3>2, FS_AddElement
    <3>4. {1} \cup {n} = {1, n}
      OBVIOUS
    <3> QED BY <3>3, <3>4, SMTT(20)
  <2>3. Count(t, {Quote}) = 2
    BY <2>1, <2>2 DEF Count
  <2> QED BY <2>3 DEF Even
<1>5. ASSUME NEW i \in 1..n, t[i] = "&&" PROVE Cardinality({j \in 1..i : t[j] = Quote}) % 2 # 0
  <2>1. i # n /\ i # 1
    BY <1>1, <1>2, <1>5
  <2>2. 1 \in 1..i /\ \A j \in 1..i : j = 1 \/ j \in 2..(n - 1)
    BY <1>1, <2>1
  <2>3. {j \in 1..i : t[j] = Quote} = {1}
    BY <1>2, <2>2
  <2>4. Cardinality({j \in 1..i : t[j] = Quote}) = 1
    BY <2>3, FS_Singleton
  <2> QED BY <2>4
<1>6. TopLevelAnds(t) = {}
  BY <1>5 DEF TopLevelAnds, n
<1> QED BY <1>4, <1>6 DEF Neat

LEMMA OneNeat ==
    ASSUME NEW c \in Piece, c # Quote, c # "&&" PROVE Neat(<<c>>)
<1> DEFINE t == <<c>>
<1>1. t \in Text /\ Len(t) = 1 /\ t[1] = c
  BY TextOne
<1> HIDE DEF t
<1>2. Free(t, {Quote, "&&"})
  BY <1>1 DEF Free
<1>3. Neat(t)
  BY <1>1, <1>2, FreeNeat
<1> QED BY <1>3 DEF t

LEMMA NeatLiteral ==
    ASSUME NEW literal \in Literal,
           literal.tag = "str" => \A i \in 1..Len(literal.chars) : literal.chars[i] # Quote
    PROVE  Neat(SpellLiteral(literal))
<1> DEFINE lit == SpellLiteral(literal)
<1>1. CASE literal.tag = "bool"
  <2>1. lit = <<"true">> \/ lit = <<"false">>
    BY <1>1 DEF SpellLiteral
  <2>2. Neat(<<"true">>) /\ Neat(<<"false">>)
    <3>1. "true" \in Piece /\ "false" \in Piece
      BY PieceAssumption DEF Symbols
    <3>2. "true" # Quote /\ "true" # "&&" /\ "false" # Quote /\ "false" # "&&"
      BY SpaceApart
    <3> QED BY <3>1, <3>2, OneNeat
  <2> QED BY <2>1, <2>2
<1>2. CASE literal.tag = "num"
  <2> DEFINE m == CHOOSE n \in Numeral : NumberOf[n] = literal.num
  <2>1. lit = <<m>>
    BY <1>2 DEF SpellLiteral
  <2>2. literal.num \in Spelled
    BY <1>2 DEF Literal
  <2>3. m \in Numeral
    <3>1. \E n \in Numeral : NumberOf[n] = literal.num
      BY <2>2 DEF Spelled
    <3> QED BY <3>1
  <2> HIDE DEF m
  <2>4. m \in Piece /\ m # Quote /\ m # "&&"
    BY <2>3, NumeralAssumption DEF Symbols
  <2> QED BY <2>1, <2>4, OneNeat
<1>3. CASE literal.tag = "str"
  <2>1. lit = (<<Quote>> \o literal.chars) \o <<Quote>>
    BY <1>3 DEF SpellLiteral
  <2>2. literal.chars \in Text /\ \A i \in 1..Len(literal.chars) : literal.chars[i] # Quote
    BY <1>3 DEF Literal, Text
  <2>3. LiteralText(lit) /\ Len(lit) = Len(literal.chars) + 2
    BY <2>1, <2>2, QuotedIs
  <2> HIDE DEF lit
  <2>4. Len(lit) # 1
    BY <2>2, <2>3, TextLen
  <2>5. /\ lit \in Text /\ Len(lit) >= 2 /\ lit[1] = Quote /\ lit[Len(lit)] = Quote
        /\ \A i \in 2..(Len(lit) - 1) : lit[i] # Quote
    BY <2>3, <2>4 DEF LiteralText
  <2>6. Neat(lit)
    BY <2>5, QuotedNeat
  <2> QED BY <2>6 DEF lit
<1>4. literal.tag = "bool" \/ literal.tag = "num" \/ literal.tag = "str"
  BY DEF Literal
<1> QED BY <1>1, <1>2, <1>3, <1>4

LEMMA OpNeat == ASSUME NEW o \in 1..7 PROVE Neat(Ops[o].text)
<1> DEFINE t == Ops[o].text
<1>1. t \in Text
  BY OpShapes
<1>2. Free(t, {Quote, "&&"})
  <2>1. o = 1 \/ o = 2 \/ o = 3 \/ o = 4 \/ o = 5 \/ o = 6 \/ o = 7
    OBVIOUS
  <2>2. \/ Len(t) = 1 /\ t[1] \in {">", "<"}
        \/ Len(t) = 2 /\ t[1] \in {"=", "!", ">", "<"} /\ t[2] = "="
        \/ Len(t) = 3 /\ t[1] = Space /\ t[2] = "contains" /\ t[3] = Space
    BY <2>1, OpShapes
  <2> HIDE DEF t
  <2>3. \A i \in 1..Len(t) : t[i] \in {">", "<", "=", "!", Space, "contains"}
    <3>1. CASE Len(t) = 1 /\ t[1] \in {">", "<"}
      <4>1. \A i \in 1..Len(t) : i = 1
        BY <3>1
      <4> QED BY <3>1, <4>1
    <3>2. CASE Len(t) = 2 /\ t[1] \in {"=", "!", ">", "<"} /\ t[2] = "="
      <4>1. \A i \in 1..Len(t) : i = 1 \/ i = 2
        BY <3>2
      <4> QED BY <3>2, <4>1
    <3>3. CASE Len(t) = 3 /\ t[1] = Space /\ t[2] = "contains" /\ t[3] = Space
      <4>1. \A i \in 1..Len(t) : i = 1 \/ i = 2 \/ i = 3
        BY <3>3
      <4> QED BY <3>3, <4>1
    <3> QED BY <2>2, <3>1, <3>2, <3>3
  <2>4. Quote \notin {">", "<", "=", "!", Space, "contains"}
        /\ "&&" \notin {">", "<", "=", "!", Space, "contains"}
    BY SpaceApart
  <2> QED BY <2>3, <2>4 DEF Free
<1>3. Neat(t)
  BY <1>1, <1>2, FreeNeat
<1> QED BY <1>3

LEMMA BlankNeat == ASSUME NEW g \in Text, Blank(g) PROVE Neat(g)
<1>1. Space # Quote /\ Space # "&&"
  BY SpaceApart
<1>2. Free(g, {Quote, "&&"})
  BY <1>1 DEF Free, Blank
<1> QED BY <1>2, FreeNeat

LEMMA ClauseNeat ==
    ASSUME NEW c, IsClause(c), WellWritten(c), NEW gap \in Text, Blank(gap)
    PROVE  Neat(Spell(c, gap))
<1> DEFINE p == SpellPath(c.path)
           s == Spell(c, gap)
<1>1. Neat(p)
  <2>1. PathWritten(c.path)
    BY DEF PathWritten, WellWritten, IsClause, ClauseText
  <2>2. p \in Text /\ Free(p, Loud)
    BY <2>1, PathParsed DEF Spelt
  <2>3. Free(p, {Quote, "&&"})
    BY <2>2 DEF Free, Loud
  <2> QED BY <2>2, <2>3, FreeNeat
<1> HIDE DEF p
<1>2. CASE c.op \in NoLiteral
  <2> DEFINE one == <<Space, "exists">>
             four == <<Space, "not", Space, "exists">>
  <2>1. /\ s = p \o one \/ s = p \o four
    BY <1>2 DEF Spell, NoLiteral, p
  <2>2. /\ one \in Text /\ Len(one) = 2 /\ one[1] = Space /\ one[2] = "exists"
        /\ four \in Text /\ Len(four) = 4 /\ four[1] = Space /\ four[2] = "not"
        /\ four[3] = Space /\ four[4] = "exists"
    BY SymbolTexts
  <2> HIDE DEF one, four, s
  <2>3. (\A i \in 1..Len(one) : i = 1 \/ i = 2)
        /\ (\A i \in 1..Len(four) : i = 1 \/ i = 2 \/ i = 3 \/ i = 4)
    BY <2>2
  <2>4. Free(one, {Quote, "&&"}) /\ Free(four, {Quote, "&&"})
    BY <2>2, <2>3, SpaceApart DEF Free
  <2>5. Neat(one) /\ Neat(four)
    BY <2>2, <2>4, FreeNeat
  <2>6. Neat(p \o one) /\ Neat(p \o four)
    BY <1>1, <2>5, NeatConcat
  <2>7. Neat(s)
    BY <2>1, <2>6
  <2> QED BY <2>7 DEF s
<1>3. CASE c.op \notin NoLiteral
  <2> DEFINE lit == SpellLiteral(c.literal)
  <2>1. Neat(lit)
    <3>1. c.literal \in Literal
      BY <1>3 DEF IsClause, ClauseText
    <3>2. c.literal.tag = "str" => \A i \in 1..Len(c.literal.chars) : c.literal.chars[i] # Quote
      BY <1>3 DEF WellWritten
    <3> QED BY <3>1, <3>2, NeatLiteral
  <2>2. lit \in Text
    BY <2>1 DEF Neat
  <2>3. PICK own \in 1..7 : \E g \in Text :
              Blank(g) /\ Ops[own].op = c.op /\ s = p \o (((g \o Ops[own].text) \o g) \o lit)
    BY <1>3, <2>2, LiteralSpelled DEF p
  <2>4. PICK g \in Text :
              Blank(g) /\ Ops[own].op = c.op /\ s = p \o (((g \o Ops[own].text) \o g) \o lit)
    BY <2>3
  <2> DEFINE t == Ops[own].text
             x == g \o t
             y == x \o g
             z == y \o lit
  <2> HIDE DEF lit, s
  <2>5. Neat(g) /\ Neat(t)
    BY <2>4, BlankNeat, OpNeat
  <2> HIDE DEF t
  <2>6. Neat(x)
    BY <2>5, NeatConcat
  <2> HIDE DEF x
  <2>7. Neat(y)
    BY <2>5, <2>6, NeatConcat
  <2> HIDE DEF y
  <2>8. Neat(z)
    BY <2>1, <2>7, NeatConcat
  <2>9. s = p \o z
    BY <2>4 DEF x, y, t
  <2> HIDE DEF z
  <2>10. Neat(s)
    BY <1>1, <2>8, <2>9, NeatConcat
  <2> QED BY <2>10 DEF s
<1> QED BY <1>2, <1>3

(* A text whose parts are, up to spaces, the first n of those in w.        *)
CutInto(u, w, n) ==
    /\ Solid(u) /\ Even(u) /\ Len(Split(u, TopLevelAnds(u))) = n
    /\ \A i \in 1..n : Trim(Split(u, TopLevelAnds(u))[i]) = w[i]
    /\ \E h \in Text : Blank(h) /\ Split(u, TopLevelAnds(u))[n] = h \o w[n]

LEMMA CutFirst ==
    ASSUME NEW w, Solid(w[1]), Neat(w[1]) PROVE CutInto(w[1], w, 1)
<1> DEFINE u == w[1]
<1> HIDE DEF u
<1>1. Solid(u) /\ u \in Text /\ Even(u) /\ TopLevelAnds(u) = {}
  BY DEF u, Neat
<1>2. Len(Split(u, {})) = 1 /\ Split(u, {})[1] = u
  BY <1>1, SplitNone
<1>3. <<>> \in Text /\ Blank(<<>>)
  BY SymbolTexts DEF Blank
<1>4. Trim(u) = u
  BY <1>1, <1>3, TrimEnds
<1>5. <<>> \o u = u
  BY <1>1, TextEmpty
<1>6. \A i \in 1..1 : i = 1
  OBVIOUS
<1> DEFINE cutUp == Split(u, TopLevelAnds(u))
<1>7. Len(cutUp) = 1 /\ cutUp[1] = u
  BY <1>1, <1>2
<1> HIDE DEF cutUp
<1>8. \A i \in 1..1 : Trim(cutUp[i]) = w[i]
  BY <1>4, <1>6, <1>7 DEF u
<1>9. \E h \in Text : Blank(h) /\ cutUp[1] = h \o w[1]
  BY <1>3, <1>5, <1>7 DEF u
<1>10. CutInto(u, w, 1)
  BY <1>1, <1>7, <1>8, <1>9 DEF CutInto, cutUp
<1> QED BY <1>10 DEF u

LEMMA CutMore ==
    ASSUME NEW w, NEW n \in Nat, n >= 1, NEW u, NEW gap \in Text, CutInto(u, w, n), Blank(gap),
           Solid(w[n]), Solid(w[n + 1]), Neat(w[n + 1])
    PROVE  CutInto(u \o (((gap \o <<"&&">>) \o gap) \o w[n + 1]), w, n + 1)
<1> DEFINE t == w[n + 1]
           and == <<"&&">>
           v == u \o gap
           cuts == TopLevelAnds(u)
           va == v \o and
           m == Len(v) + 1
           gt == gap \o t
           all == va \o gt
           p == Split(u, cuts)
           q == Split(v, cuts)
           more == cuts \cup {m}
           r == Split(all, more)
<1>1. /\ Solid(u) /\ u \in Text /\ Even(u) /\ Len(p) = n
      /\ \A i \in 1..n : Trim(p[i]) = w[i]
  BY DEF CutInto, Solid
<1>2. PICK h \in Text : Blank(h) /\ p[n] = h \o w[n]
  BY DEF CutInto
<1>3. Solid(t) /\ Neat(t) /\ t \in Text /\ and \in Text /\ "&&" \in Piece
  BY SymbolTexts, PieceAssumption DEF Solid, Symbols
<1>4. cuts \subseteq 1..Len(u)
  BY DEF TopLevelAnds
<1> HIDE DEF cuts, t, and, p
<1>5. v \in Text /\ Even(v) /\ TopLevelAnds(v) = cuts
  BY <1>1, BlankNeat, NeatAfter DEF cuts
<1>6. cuts \subseteq 1..Len(v) /\ LastPartLonger(p, q, gap)
  BY <1>1, <1>4, SplitExtend DEF p
<1>7. u \o (((gap \o and) \o gap) \o t) = all
  <2> DEFINE ga == gap \o and
  <2>1. ga \in Text /\ gt \in Text /\ va \in Text
    BY <1>3, <1>5, ConcatText
  <2>2. gap \in Text /\ and \in Text /\ t \in Text /\ u \in Text
    BY <1>1, <1>3
  <2>3. u \o ga = va
    BY <2>2, TextAssoc, SMTT(20)
  <2> HIDE DEF ga, va
  <2>4. (ga \o gap) \o t = ga \o gt
    <3>1. ga \in Text /\ gap \in Text /\ t \in Text
      BY <2>1, <2>2
    <3> QED BY <3>1, TextAssoc, SMTT(20)
  <2> HIDE DEF gt
  <2>5. u \o (ga \o gt) = (u \o ga) \o gt
    <3>1. u \in Text /\ ga \in Text /\ gt \in Text
      BY <2>1, <2>2
    <3> QED BY <3>1, TextAssoc, ZenonT(40)
  <2>6. u \o ((ga \o gap) \o t) = all
    BY <2>3, <2>4, <2>5
  <2> QED BY <2>6 DEF ga
<1> HIDE DEF v, q
<1>8. va \in Text /\ Even(va) /\ TopLevelAnds(va) = more
  BY <1>5, AndAfter DEF and
<1>9. Neat(gt) /\ gt \in Text
  <2>1. Neat(gt)
    BY <1>3, BlankNeat, NeatConcat
  <2> QED BY <2>1 DEF Neat
<1> HIDE DEF gt
<1>10. /\ more \subseteq 1..Len(all)
       /\ OnePartMore(q, r, gt)
  BY <1>3, <1>5, <1>6, <1>9, SplitAppend DEF and, q
<1> HIDE DEF va, m, more
<1>11. all \in Text /\ Even(all) /\ TopLevelAnds(all) = more
  BY <1>8, <1>9, NeatAfter
<1> DEFINE rest == ((gap \o and) \o gap) \o t
<1>12. Solid(all)
  <2>1. rest \in Text /\ rest # <<>> /\ Last(rest) # Space
    <3> DEFINE ga == gap \o and
               gag == ga \o gap
    <3>1. ga \in Text
      BY <1>3, ConcatText
    <3> HIDE DEF ga
    <3>2. gag \in Text
      BY <3>1, ConcatText
    <3> HIDE DEF gag
    <3>3. t # <<>> /\ Last(t) # Space
      BY <1>3, LastIs DEF Solid
    <3>4. gag \o t \in Text /\ gag \o t # <<>> /\ Last(gag \o t) = Last(t)
      BY <1>3, <3>2, <3>3, LastOfConcat
    <3> QED BY <3>3, <3>4 DEF gag, ga
  <2>2. all = u \o rest
    BY <1>7
  <2> HIDE DEF all, rest
  <2> QED BY <1>1, <2>1, <2>2, SolidConcat
<1> HIDE DEF r, all
<1>13. Len(q) = n /\ q[n] = p[n] \o gap /\ \A i \in 1..(n - 1) : q[i] = p[i]
  BY <1>1, <1>6 DEF LastPartLonger
<1>14. Len(r) = n + 1 /\ r[n + 1] = gt /\ \A i \in 1..n : r[i] = q[i]
  BY <1>10, <1>13 DEF OnePartMore
<1>15. ASSUME NEW i \in 1..(n + 1) PROVE Trim(r[i]) = w[i]
  <2>1. CASE i = n + 1
    <3>1. Trim(gt) = t
      BY <1>3, TrimEnds DEF gt
    <3> QED BY <1>14, <2>1, <3>1 DEF t
  <2>2. CASE i = n
    <3>1. Trim((h \o w[n]) \o gap) = w[n]
      BY <1>2, TrimBlank
    <3>2. r[n] = (h \o w[n]) \o gap
      <4>1. n \in 1..n
        OBVIOUS
      <4> QED BY <1>2, <1>13, <1>14, <4>1
    <3> QED BY <2>2, <3>1, <3>2
  <2>3. CASE i # n /\ i # n + 1
    <3>1. i \in 1..n /\ i \in 1..(n - 1)
      BY <2>3
    <3> QED BY <1>1, <1>13, <1>14, <3>1
  <2> QED BY <2>1, <2>2, <2>3
<1>16. r = Split(all, TopLevelAnds(all))
  BY <1>11 DEF r
<1>17. \E g \in Text : Blank(g) /\ r[n + 1] = g \o w[n + 1]
  BY <1>14 DEF gt, t
<1>18. CutInto(all, w, n + 1)
  BY <1>11, <1>12, <1>14, <1>15, <1>16, <1>17 DEF CutInto
<1> QED BY <1>7, <1>18 DEF t, and

LEMMA AllCut ==
    ASSUME NEW clauses \in Seq(ClauseText), clauses # <<>>, NEW gap \in Text, Blank(gap),
           \A i \in 1..Len(clauses) : IsClause(clauses[i]) /\ WellWritten(clauses[i])
    PROVE  LET s == SpellAll(clauses, gap)
           IN  /\ Solid(s) /\ Len(Split(s, TopLevelAnds(s))) = Len(clauses)
               /\ \A i \in 1..Len(clauses) :
                     Trim(Split(s, TopLevelAnds(s))[i]) = Spell(clauses[i], gap)
<1> DEFINE n == Len(clauses)
           w == [i \in 1..n |-> Spell(clauses[i], gap)]
           sep == (gap \o <<"&&">>) \o gap
           piece(i) == (IF i = 1 THEN <<>> ELSE sep) \o Spell(clauses[i], gap)
           pieces == [i \in 1..n |-> piece(i)]
           upto(i) == FlattenSeq(SubSeq(pieces, 1, i))
           S == {i \in 0..(n - 1) : CutInto(upto(i + 1), w, i + 1)}
<1>1. n \in Nat /\ n >= 1
  <2>1. n \in Nat /\ (n = 0 <=> clauses = <<>>)
    BY LenProperties, EmptySeq
  <2> QED BY <2>1
<1>2. SpellAll(clauses, gap) = FlattenSeq(pieces)
  BY DEF SpellAll
<1>3. sep \in Text
  <2> DEFINE a == gap \o <<"&&">>
  <2>1. a \in Text
    BY SymbolTexts, ConcatText
  <2> HIDE DEF a
  <2> QED BY <2>1, ConcatText DEF a
<1> HIDE DEF n, sep
<1>4. ASSUME NEW i \in 1..n
      PROVE  /\ Spell(clauses[i], gap) \in Text /\ Solid(Spell(clauses[i], gap))
             /\ Neat(Spell(clauses[i], gap))
  <2>1. IsClause(clauses[i]) /\ WellWritten(clauses[i])
    BY DEF n
  <2>2. ReadsBack(clauses[i], Spell(clauses[i], gap))
    BY <2>1, ClauseParsed
  <2>3. Neat(Spell(clauses[i], gap))
    BY <2>1, ClauseNeat
  <2> QED BY <2>2, <2>3 DEF ReadsBack, Solid
<1>5. ASSUME NEW i \in 1..n PROVE w[i] \in Text /\ Solid(w[i]) /\ Neat(w[i])
  BY <1>4
<1>6. ASSUME NEW i \in 1..n
      PROVE  /\ piece(i) \in Text
             /\ i = 1 => piece(i) = w[i]
             /\ i # 1 => piece(i) = sep \o w[i]
  <2> DEFINE x == Spell(clauses[i], gap)
  <2>1. x \in Text /\ w[i] = x
    BY <1>4
  <2> HIDE DEF w, x
  <2>2. CASE i = 1
    <3>1. piece(i) = <<>> \o x
      BY <2>2 DEF x
    <3> QED BY <2>1, <2>2, <3>1, TextEmpty
  <2>3. CASE i # 1
    <3>1. piece(i) = sep \o x
      BY <2>3 DEF x
    <3> QED BY <1>3, <2>1, <2>3, <3>1, ConcatText
  <2> QED BY <2>2, <2>3
<1>7. w \in [1..n -> Text] /\ \A i \in 1..n : w[i] = Spell(clauses[i], gap)
  BY <1>4
<1> HIDE DEF piece, w
<1>8. pieces \in Seq(Text) /\ Len(pieces) = n /\ \A i \in 1..n : pieces[i] = piece(i)
  <2>1. pieces \in Seq(Text)
    BY <1>1, <1>6, SeqDef
  <2> QED BY <1>1, <2>1
<1> HIDE DEF pieces
<1>9. ASSUME NEW i \in 0..(n - 1) PROVE upto(i + 1) = upto(i) \o piece(i + 1) /\ upto(i) \in Text
  <2>1. i \in 0..(Len(pieces) - 1) /\ i + 1 \in 1..n
    BY <1>1, <1>8
  <2>2. pieces \in Seq(Seq(Piece))
    BY <1>8 DEF Text
  <2>3. upto(i + 1) = upto(i) \o pieces[i + 1] /\ upto(i) \in Seq(Piece)
    BY <2>1, <2>2, FlattenMore
  <2> QED BY <1>8, <2>1, <2>3 DEF Text
<1>10. 0 \in S
  <2>1. 1 \in 1..n /\ 0 \in 0..(n - 1) /\ 0 + 1 = 1
    BY <1>1
  <2>2. upto(0) = <<>>
    <3>1. SubSeq(pieces, 1, 0) = <<>>
      BY SubSeqEmpty
    <3> QED BY <3>1, FlattenNone
  <2> HIDE DEF upto
  <2>3. upto(0 + 1) = upto(0) \o piece(0 + 1)
    BY <1>9, <2>1
  <2>4. piece(1) = w[1] /\ w[1] \in Text /\ Solid(w[1]) /\ Neat(w[1])
    BY <1>5, <1>6, <2>1
  <2>5. upto(1) = w[1]
    BY <2>1, <2>2, <2>3, <2>4, TextEmpty
  <2>6. CutInto(upto(1), w, 1)
    BY <2>4, <2>5, CutFirst
  <2> QED BY <2>1, <2>6
<1>11. ASSUME NEW i \in 0..((n - 1) - 1), i \in S PROVE i + 1 \in S
  <2> DEFINE j == i + 1
             u == upto(j)
  <2>1. j \in 0..(n - 1) /\ j \in 1..n /\ j + 1 \in 1..n /\ j + 1 # 1 /\ j \in Nat /\ j >= 1
    BY <1>1
  <2>2. CutInto(u, w, j)
    BY <1>11
  <2>3. upto(j + 1) = u \o piece(j + 1)
    <3> HIDE DEF j, upto
    <3> QED BY <1>9, <2>1
  <2> HIDE DEF j, u
  <2>4. piece(j + 1) = sep \o w[j + 1]
    BY <1>6, <2>1
  <2>5. Solid(w[j]) /\ Solid(w[j + 1]) /\ Neat(w[j + 1])
    BY <1>5, <2>1
  <2>6. CutInto(u \o (sep \o w[j + 1]), w, j + 1)
    BY <2>1, <2>2, <2>5, CutMore DEF sep
  <2>7. CutInto(upto(j + 1), w, j + 1)
    BY <2>3, <2>4, <2>6
  <2> QED BY <2>1, <2>7 DEF j
<1>12. \A i \in 0..(n - 1) : i \in S
  <2>1. n - 1 \in Nat
    BY <1>1
  <2> HIDE DEF S
  <2> QED BY <1>10, <1>11, <2>1, InductionUpTo
<1>13. CutInto(upto(n), w, n)
  <2>1. n - 1 \in 0..(n - 1) /\ (n - 1) + 1 = n
    BY <1>1
  <2>2. CutInto(upto((n - 1) + 1), w, (n - 1) + 1)
    BY <1>12, <2>1
  <2> HIDE DEF upto
  <2> QED BY <2>1, <2>2
<1>14. upto(n) = SpellAll(clauses, gap)
  <2>1. SubSeq(pieces, 1, Len(pieces)) = pieces
    BY <1>8, SubSeqFull
  <2> QED BY <1>2, <1>8, <2>1
<1> HIDE DEF upto
<1>15. CutInto(SpellAll(clauses, gap), w, n)
  BY <1>13, <1>14
<1> QED BY <1>7, <1>15 DEF CutInto, n

-----------------------------------------------------------------------------
(* A predicate of the grammar, however spaced and with `&&` and the words  *)
(* of the language in its names and strings, is refused only for an        *)
(* operator within a string, an index on an index or a path before         *)
(* `exists` that is only "not"; and what it compiles to are the clauses    *)
(* that were written, unless a name ends in "not" before `exists`.         *)
THEOREM PredicateParsed == Spec => []ParsedAsWritten
<1>1. IInv /\ FromParts => ParsedAsWritten
  <2> SUFFICES ASSUME IInv, FromParts, input.written # <<>>
               PROVE  /\ pc = "rejected" =>
                            \E c \in ToSet(input.written) :
                                HoldsOperator(c) \/ IndexOnIndex(c) \/ IsOnlyNot(c)
                      /\ Accepted /\ (\A c \in ToSet(input.written) : ~EndsInNot(c)) =>
                            compiled = input.written
    BY DEF ParsedAsWritten
  <2> DEFINE clauses == input.written
             gap == input.gap
             n == Len(clauses)
             source == SourceOf(input)
             s == Trim(source)
             all == Split(s, TopLevelAnds(s))
  <2>1. input \in Inputs /\ compiled \in Seq(ClauseText)
    BY DEF IInv, TypeOK
  <2>2. clauses \in Seq(ClauseText) /\ clauses # <<>> /\ gap \in Text /\ Blank(gap) /\ n \in Nat
    <3>1. clauses \in Seq(ClauseText) /\ gap \in Text /\ Blank(gap)
      BY <2>1, InputsAssumption, WrittenAssumption DEF Text, Blank
    <3> QED BY <3>1, LenProperties
  <2>3. \A i \in 1..n : IsClause(clauses[i]) /\ WellWritten(clauses[i])
    <3>1. \A i \in 1..n : /\ clauses[i].op \in NoLiteral <=> clauses[i].literal = Missing
                          /\ WellWritten(clauses[i])
      BY <2>1, InputsAssumption, WrittenAssumption
    <3> HIDE DEF clauses
    <3>2. \A i \in 1..n : clauses[i] \in ClauseText
      BY <2>2, ElementOfSeq
    <3> QED BY <3>1, <3>2 DEF IsClause
  <2>4. source = SpellAll(clauses, gap)
    BY DEF SourceOf
  <2> HIDE DEF clauses, gap, source, n
  <2>5. /\ Solid(source) /\ Len(Split(source, TopLevelAnds(source))) = n
        /\ \A i \in 1..n : Trim(Split(source, TopLevelAnds(source))[i]) = Spell(clauses[i], gap)
    BY <2>2, <2>3, <2>4, AllCut DEF n
  <2>6. s = source /\ source # <<>>
    <3>1. <<>> \in Text /\ Blank(<<>>)
      BY SymbolTexts DEF Blank
    <3> QED BY <2>5, <3>1, TrimEnds DEF Solid
  <2>7. Len(all) = n /\ \A i \in 1..n : Trim(all[i]) = Spell(clauses[i], gap)
    BY <2>5, <2>6
  <2>8. \A i \in 1..n : ReadsBack(clauses[i], Trim(all[i]))
    BY <2>2, <2>3, <2>7, ClauseParsed
  <2>9. \A i \in 1..n : clauses[i] \in ToSet(clauses)
    BY DEF ToSet, n
  <2>10. pc # "split" => \/ pc = "rejected" /\ s = <<>>
                         \/ /\ parts = all
                            /\ \A i \in 1..Len(compiled) : compiled[i] = ParseClause(Trim(parts[i]))
                                                           /\ ParseClause(Trim(parts[i])) # Missing
                            /\ pc = "rejected" => /\ Len(compiled) < Len(parts)
                                                  /\ ParseClause(Trim(parts[Len(compiled) + 1])) = Missing
                            /\ Accepted => Len(compiled) = Len(parts)
    BY DEF FromParts, source
  <2> HIDE DEF all, s
  <2>11. ASSUME pc = "rejected"
         PROVE  \E c \in ToSet(clauses) : HoldsOperator(c) \/ IndexOnIndex(c) \/ IsOnlyNot(c)
    <3> DEFINE i == Len(compiled) + 1
    <3>1. parts = all /\ Len(compiled) < Len(parts) /\ ParseClause(Trim(parts[i])) = Missing
      BY <2>6, <2>10, <2>11
    <3>2. i \in 1..n
      <4>1. Len(compiled) \in Nat
        BY <2>1, LenProperties
      <4> QED BY <2>2, <2>7, <3>1, <4>1
    <3> HIDE DEF i
    <3>3. ReadsBack(clauses[i], Trim(all[i])) /\ clauses[i] \in ToSet(clauses)
      BY <2>8, <2>9, <3>2
    <3> DEFINE c == clauses[i]
    <3>4. HoldsOperator(c) \/ Doubled(c.path) \/ IsOnlyNot(c)
      BY <3>1, <3>3 DEF ReadsBack
    <3>5. Doubled(c.path) <=> IndexOnIndex(c)
      BY DEF Doubled, IndexOnIndex
    <3> QED BY <3>3, <3>4, <3>5
  <2>12. ASSUME Accepted, \A c \in ToSet(clauses) : ~EndsInNot(c)
         PROVE  compiled = clauses
    <3>1. pc # "split" /\ pc # "rejected"
      BY <2>12 DEF Accepted
    <3>2. parts = all /\ Len(compiled) = Len(parts)
      BY <2>10, <2>12, <3>1
    <3>3. Len(compiled) = n
      BY <2>7, <3>2
    <3>4. ASSUME NEW i \in 1..n PROVE compiled[i] = clauses[i]
      <4>1. compiled[i] = ParseClause(Trim(all[i])) /\ ParseClause(Trim(all[i])) # Missing
        BY <2>10, <3>1, <3>2, <3>3
      <4>2. ReadsBack(clauses[i], Trim(all[i])) /\ ~EndsInNot(clauses[i])
        BY <2>8, <2>9, <2>12
      <4> QED BY <4>1, <4>2 DEF ReadsBack
    <3> QED BY <2>1, <2>2, <3>3, <3>4, SeqEqual DEF n
  <2> QED BY <2>11, <2>12 DEF clauses
<1> QED BY <1>1, PredicateInvariance, PredicateFromParts, PTL

=============================================================================
