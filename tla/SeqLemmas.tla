----------------------------- MODULE SeqLemmas -----------------------------
(***************************************************************************)
(* Induction and what it gives about sequences, for the proofs about the   *)
(* other modules.  The induction theorems of the library are stated for a  *)
(* predicate; here a set of numbers takes its place, which the provers can *)
(* handle.                                                                 *)
(***************************************************************************)
EXTENDS Integers, Sequences, SequencesExt, SequenceTheorems, FunctionTheorems,
        FiniteSetTheorems, WellFoundedInduction, TLAPS

(* Every set of natural numbers that is not empty has a least member.      *)
LEMMA LeastNat ==
    ASSUME NEW T, T \subseteq Nat, T # {}
    PROVE  \E x \in T : \A y \in T : x <= y
<1>1. PICK R : IsWellFoundedOn(R, Nat) /\ \A x, y \in Nat : x < y => <<x, y>> \in R
  <2> DEFINE R == OpToRel(<, Nat)
  <2>1. IsWellFoundedOn(R, Nat)
    BY NatLessThanWellFounded
  <2>2. \A x, y \in Nat : x < y => <<x, y>> \in R
    BY DEF OpToRel
  <2> HIDE DEF R
  <2> QED
    BY <2>1, <2>2
<1>2. IsWellFoundedOn(R, Nat)
  BY <1>1
<1>3. \E x \in T : \A y \in T : ~(<<y, x>> \in R)
  BY <1>2, WFMin
<1>4. PICK x \in T : \A y \in T : ~(<<y, x>> \in R)
  BY <1>3
<1>5. \A y \in T : ~(y < x)
  BY <1>1, <1>4
<1> QED
  BY <1>5

(* A set that has 0 and, up to n, with every number the next one.          *)
LEMMA InductionUpTo ==
    ASSUME NEW n \in Nat, NEW S, 0 \in S, \A i \in 0..(n - 1) : i \in S => i + 1 \in S
    PROVE  \A i \in 0..n : i \in S
<1> SUFFICES ASSUME NEW j \in 0..n, j \notin S PROVE FALSE
  OBVIOUS
<1> DEFINE T == (0..n) \ S
<1>1. T \subseteq Nat /\ T # {}
  OBVIOUS
<1>2. \E x \in T : \A y \in T : x <= y
  <2> HIDE DEF T
  <2> QED
    BY <1>1, LeastNat
<1>3. PICK x \in T : \A y \in T : x <= y
  BY <1>2
<1>4. x # 0 /\ x - 1 \in 0..(n - 1)
  OBVIOUS
<1>5. x - 1 \in S
  BY <1>3, <1>4
<1> QED
  BY <1>4, <1>5

-----------------------------------------------------------------------------
(* Members of a sequence.                                                  *)

In(t, s) == \E j \in 1..Len(s) : s[j] = t

Distinct(s) == \A i, j \in 1..Len(s) : s[i] = s[j] => i = j

(* The members of a sequence with one more.                                *)
LEMMA InAppend ==
    ASSUME NEW S, NEW s \in Seq(S), NEW u \in S
    PROVE  /\ \A x : In(x, Append(s, u)) <=> In(x, s) \/ x = u
           /\ Distinct(s) /\ ~In(u, s) => Distinct(Append(s, u))
<1> DEFINE n == Len(s)
           all == Append(s, u)
<1>1. /\ n \in Nat /\ Len(all) = n + 1
      /\ \A i \in 1..n : all[i] = s[i]
      /\ all[n + 1] = u
  BY AppendProperties, LenProperties
<1>2. Len(s) = n
  OBVIOUS
<1> HIDE DEF n, all
<1>3. ASSUME NEW x PROVE In(x, all) <=> In(x, s) \/ x = u
  <2>1. ASSUME In(x, all) PROVE In(x, s) \/ x = u
    <3>1. PICK i \in 1..(n + 1) : all[i] = x
      BY <1>1, <2>1 DEF In
    <3>2. CASE i = n + 1
      BY <3>1, <3>2, <1>1
    <3>3. CASE i # n + 1
      <4>1. i \in 1..n
        BY <1>1, <3>3
      <4> QED BY <4>1, <3>1, <1>1, <1>2 DEF In
    <3> QED BY <3>2, <3>3
  <2>2. ASSUME In(x, s) PROVE In(x, all)
    <3>1. PICK i \in 1..n : s[i] = x
      BY <1>2, <2>2 DEF In
    <3>2. i \in 1..(n + 1)
      BY <1>1
    <3> QED BY <3>1, <3>2, <1>1 DEF In
  <2>3. ASSUME x = u PROVE In(x, all)
    <3>1. n + 1 \in 1..(n + 1)
      BY <1>1
    <3> QED BY <3>1, <2>3, <1>1 DEF In
  <2> QED BY <2>1, <2>2, <2>3
<1>4. ASSUME Distinct(s), ~In(u, s), NEW i \in 1..(n + 1), NEW j \in 1..(n + 1), all[i] = all[j]
      PROVE  i = j
  <2>1. \A q \in 1..n : s[q] # u
    BY <1>2, <1>4 DEF In
  <2>2. ASSUME NEW q \in 1..(n + 1), q # n + 1 PROVE q \in 1..n
    BY <1>1, <2>2
  <2>3. CASE i = n + 1 /\ j = n + 1
    BY <2>3
  <2>4. CASE i = n + 1 /\ j # n + 1
    BY <2>1, <2>2, <2>4, <1>1, <1>4
  <2>5. CASE i # n + 1 /\ j = n + 1
    BY <2>1, <2>2, <2>5, <1>1, <1>4
  <2>6. CASE i # n + 1 /\ j # n + 1
    <3>1. i \in 1..n /\ j \in 1..n /\ s[i] = s[j]
      BY <2>2, <2>6, <1>1, <1>4
    <3> QED BY <3>1, <1>2, <1>4 DEF Distinct
  <2> QED BY <2>3, <2>4, <2>5, <2>6
<1>5. Distinct(s) /\ ~In(u, s) => Distinct(all)
  BY <1>1, <1>4 DEF Distinct
<1> QED BY <1>3, <1>5 DEF all

(* The members of the rest of a sequence without repetition.               *)
LEMMA InTail ==
    ASSUME NEW S, NEW s \in Seq(S), s # <<>>, Distinct(s)
    PROVE  /\ \A x : In(x, Tail(s)) <=> In(x, s) /\ x # Head(s)
           /\ Distinct(Tail(s))
           /\ In(Head(s), s)
<1> DEFINE n == Len(s)
           rest == Tail(s)
           h == Head(s)
<1>1. /\ n \in Nat /\ n >= 1 /\ Len(rest) = n - 1 /\ h = s[1]
      /\ \A i \in 1..(n - 1) : rest[i] = s[i + 1]
  <2>1. n \in Nat /\ n # 0
    BY LenProperties, EmptySeq
  <2> QED BY <2>1, HeadTailProperties
<1>2. /\ Len(s) = n
      /\ \A i, j \in 1..n : s[i] = s[j] => i = j
  BY DEF Distinct
<1> HIDE DEF n, rest, h
<1>3. 1 \in 1..n
  BY <1>1
<1>4. ASSUME NEW x PROVE In(x, rest) <=> In(x, s) /\ x # h
  <2>1. ASSUME In(x, rest) PROVE In(x, s) /\ x # h
    <3>1. PICK i \in 1..(n - 1) : s[i + 1] = x
      BY <1>1, <2>1 DEF In
    <3>2. i + 1 \in 1..n /\ i + 1 # 1
      BY <1>1
    <3> QED BY <3>1, <3>2, <1>1, <1>2, <1>3 DEF In
  <2>2. ASSUME In(x, s), x # h PROVE In(x, rest)
    <3>1. PICK i \in 1..n : s[i] = x
      BY <1>2, <2>2 DEF In
    <3>2. i # 1
      BY <1>1, <2>2, <3>1
    <3>3. i - 1 \in 1..(n - 1) /\ (i - 1) + 1 = i
      BY <1>1, <3>2
    <3> QED BY <3>1, <3>3, <1>1 DEF In
  <2> QED BY <2>1, <2>2
<1>5. Distinct(rest)
  <2> SUFFICES ASSUME NEW i \in 1..(n - 1), NEW j \in 1..(n - 1), rest[i] = rest[j] PROVE i = j
    BY <1>1 DEF Distinct
  <2>1. i + 1 \in 1..n /\ j + 1 \in 1..n /\ s[i + 1] = s[j + 1]
    BY <1>1
  <2>2. i + 1 = j + 1
    BY <2>1, <1>2
  <2> QED BY <2>2
<1>6. In(h, s)
  BY <1>1, <1>2, <1>3 DEF In
<1> QED BY <1>4, <1>5, <1>6 DEF rest, h

-----------------------------------------------------------------------------
(* Numbering the members of a set, and counting those of a sequence.      *)

(* A bijection, spelled out.                                               *)
LEMMA BijectionIs ==
    ASSUME NEW S, NEW T, NEW f
    PROVE  f \in Bijection(S, T) <=>
              /\ f \in [S -> T]
              /\ \A a, b \in S : f[a] = f[b] => a = b
              /\ \A y \in T : \E a \in S : f[a] = y
BY Fun_IsBij, Fun_BijectionProperties

(* Two sets have as many members as each other when they can be paired.    *)
LEMMA SameSize ==
    ASSUME NEW S, NEW T, IsFiniteSet(T), NEW f \in [S -> T],
           \A a, b \in S : f[a] = f[b] => a = b,
           \A y \in T : \E a \in S : f[a] = y
    PROVE  IsFiniteSet(S) /\ Cardinality(S) = Cardinality(T)
<1>1. f \in Bijection(S, T)
  BY BijectionIs
<1>2. f \in Injection(S, T) /\ f \in Surjection(S, T)
  BY <1>1 DEF Bijection
<1> QED BY <1>2, FS_Injection

(* The next number goes to a new member.                                   *)
LEMMA NumberOneMore ==
    ASSUME NEW n \in Nat, NEW T, NEW f \in Bijection(1..n, T), NEW x, x \notin T
    PROVE  [i \in 1..(n + 1) |-> IF i = n + 1 THEN x ELSE f[i]]
                \in Bijection(1..(n + 1), T \cup {x})
<1> DEFINE h == [i \in 1..(n + 1) |-> IF i = n + 1 THEN x ELSE f[i]]
           U == T \cup {x}
<1>1. /\ f \in [1..n -> T]
      /\ \A a, b \in 1..n : f[a] = f[b] => a = b
      /\ \A y \in T : \E a \in 1..n : f[a] = y
  BY BijectionIs
<1>2. /\ h[n + 1] = x /\ n + 1 \in 1..(n + 1)
      /\ \A i \in 1..n : h[i] = f[i] /\ i \in 1..(n + 1)
      /\ \A i \in 1..(n + 1) : i = n + 1 \/ i \in 1..n
  OBVIOUS
<1>3. h \in [1..(n + 1) -> U]
  BY <1>1
<1> HIDE DEF h
<1>4. ASSUME NEW a \in 1..(n + 1), NEW b \in 1..(n + 1), h[a] = h[b] PROVE a = b
  BY <1>1, <1>2, <1>4
<1>5. ASSUME NEW y \in U PROVE \E a \in 1..(n + 1) : h[a] = y
  BY <1>1, <1>2, <1>5
<1> HIDE DEF U
<1>6. h \in Bijection(1..(n + 1), U)
  BY <1>3, <1>4, <1>5, BijectionIs
<1> QED BY <1>6 DEF h, U

(* The empty numbering.                                                    *)
LEMMA NumberNone ==
    ASSUME NEW f
    PROVE  [i \in 1..0 |-> f[i]] \in Bijection(1..0, {})
<1> DEFINE h == [i \in 1..0 |-> f[i]]
<1>1. /\ h \in [1..0 -> {}]
      /\ \A a, b \in 1..0 : h[a] = h[b] => a = b
      /\ \A y \in {} : \E a \in 1..0 : h[a] = y
  OBVIOUS
<1> HIDE DEF h
<1>2. h \in Bijection(1..0, {})
  BY <1>1, BijectionIs
<1> QED BY <1>2 DEF h

Positions(s, x) == {i \in DOMAIN s : s[i] = x}

(* The bag of a sequence counts the positions of each member.              *)
LEMMA BagIs ==
    ASSUME NEW S, NEW s \in Seq(S)
    PROVE  /\ DOMAIN ToBag(s) = {s[i] : i \in 1..Len(s)}
           /\ \A x \in DOMAIN ToBag(s) : ToBag(s)[x] = Cardinality(Positions(s, x))
           /\ \A x : x \notin DOMAIN ToBag(s) => Positions(s, x) = {}
           /\ \A x : IsFiniteSet(Positions(s, x)) /\ Cardinality(Positions(s, x)) \in Nat
<1>1. DOMAIN s = 1..Len(s) /\ Len(s) \in Nat
  BY LenProperties
<1>2. DOMAIN ToBag(s) = {s[i] : i \in 1..Len(s)}
  BY <1>1 DEF ToBag, Range
<1>3. \A x \in DOMAIN ToBag(s) : ToBag(s)[x] = Cardinality(Positions(s, x))
  BY DEF ToBag, Positions
<1>4. \A x : x \notin DOMAIN ToBag(s) => Positions(s, x) = {}
  BY <1>1, <1>2 DEF Positions
<1>5. ASSUME NEW x PROVE IsFiniteSet(Positions(s, x)) /\ Cardinality(Positions(s, x)) \in Nat
  <2>1. IsFiniteSet(1..Len(s))
    BY <1>1, FS_Interval
  <2>2. Positions(s, x) \in SUBSET (1..Len(s))
    BY <1>1 DEF Positions
  <2>3. IsFiniteSet(Positions(s, x))
    BY <2>1, <2>2, FS_Subset
  <2> QED BY <2>3, FS_CardinalityType
<1> QED BY <1>2, <1>3, <1>4, <1>5

(* Concatenation adds up how often a member occurs.                        *)
LEMMA PositionsOfConcat ==
    ASSUME NEW S, NEW s \in Seq(S), NEW u \in Seq(S), NEW x
    PROVE  Cardinality(Positions(s \o u, x))
              = Cardinality(Positions(s, x)) + Cardinality(Positions(u, x))
<1> DEFINE n == Len(s)
           A == Positions(s, x)
           B == Positions(u, x)
           C == {n + j : j \in B}
           f == [j \in B |-> n + j]
<1>1. /\ n \in Nat /\ Len(u) \in Nat /\ DOMAIN s = 1..n /\ DOMAIN u = 1..Len(u)
      /\ s \o u \in Seq(S) /\ Len(s \o u) = n + Len(u) /\ DOMAIN (s \o u) = 1..(n + Len(u))
      /\ \A i \in 1..(n + Len(u)) : (s \o u)[i] = IF i <= n THEN s[i] ELSE u[i - n]
  <2>1. /\ s \o u \in Seq(S) /\ Len(s \o u) = Len(s) + Len(u)
        /\ \A i \in 1..(Len(s) + Len(u)) : (s \o u)[i] = IF i <= Len(s) THEN s[i] ELSE u[i - Len(s)]
    BY ConcatProperties
  <2> QED BY <2>1, LenProperties
<1>2. A \subseteq 1..n /\ B \subseteq 1..Len(u)
  BY <1>1 DEF Positions
<1> HIDE DEF n
<1>3. Positions(s \o u, x) = A \cup C
  <2>1. ASSUME NEW i \in Positions(s \o u, x) PROVE i \in A \cup C
    <3>1. i \in 1..(n + Len(u)) /\ (s \o u)[i] = x
      BY <1>1, <2>1 DEF Positions
    <3>2. CASE i <= n
      BY <3>1, <3>2, <1>1 DEF Positions
    <3>3. CASE ~(i <= n)
      <4>1. i - n \in 1..Len(u) /\ n + (i - n) = i
        BY <3>1, <3>3, <1>1
      <4>2. u[i - n] = x
        BY <3>1, <3>3, <1>1
      <4>3. i - n \in B
        BY <4>1, <4>2, <1>1 DEF Positions
      <4> HIDE DEF B
      <4> QED BY <4>1, <4>3
    <3> QED BY <3>2, <3>3
  <2>2. ASSUME NEW i \in A PROVE i \in Positions(s \o u, x)
    <3>1. i \in 1..n /\ s[i] = x
      BY <1>1, <2>2 DEF Positions
    <3>2. i \in 1..(n + Len(u)) /\ i <= n
      BY <3>1, <1>1
    <3> QED BY <3>1, <3>2, <1>1 DEF Positions
  <2>3. ASSUME NEW i \in C PROVE i \in Positions(s \o u, x)
    <3>1. PICK j \in B : i = n + j
      BY <2>3
    <3>2. j \in 1..Len(u) /\ u[j] = x
      BY <1>1, <3>1 DEF Positions
    <3>3. i \in 1..(n + Len(u)) /\ ~(i <= n) /\ i - n = j
      BY <3>1, <3>2, <1>1
    <3> QED BY <3>2, <3>3, <1>1 DEF Positions
  <2> HIDE DEF A, C
  <2> QED BY <2>1, <2>2, <2>3
<1>4. IsFiniteSet(A) /\ IsFiniteSet(B) /\ Cardinality(A) \in Nat /\ Cardinality(B) \in Nat
  BY BagIs
<1> HIDE DEF A, B
<1>5. f \in Bijection(B, C)
  <2>1. f \in [B -> C] /\ \A y \in C : \E j \in B : f[j] = y
    OBVIOUS
  <2>2. ASSUME NEW a \in B, NEW b \in B, f[a] = f[b] PROVE a = b
    <3>1. n + a = n + b /\ a \in Nat /\ b \in Nat
      BY <1>2, <1>1, <2>2
    <3> QED BY <3>1, <1>1
  <2> HIDE DEF f, C
  <2> QED BY <2>1, <2>2, BijectionIs
<1>6. IsFiniteSet(C) /\ Cardinality(C) = Cardinality(B)
  <2> HIDE DEF f, C
  <2>1. ExistsBijection(B, C)
    BY <1>5, Fun_ExistsBij
  <2> QED BY <1>4, <2>1, FS_Bijection
<1>7. A \cap C = {}
  <2>1. ASSUME NEW i \in A, i \in C PROVE FALSE
    <3>1. PICK j \in B : i = n + j
      BY <2>1
    <3>2. i \in 1..n /\ j \in 1..Len(u)
      BY <1>2, <3>1
    <3> QED BY <3>1, <3>2, <1>1
  <2> QED BY <2>1
<1> HIDE DEF C
<1>8. Cardinality(A \cup C) = Cardinality(A) + Cardinality(C) - Cardinality(A \cap C)
  BY <1>4, <1>6, FS_Union
<1>9. Cardinality(A \cap C) = 0
  BY <1>7, FS_EmptySet
<1> QED BY <1>3, <1>4, <1>6, <1>8, <1>9 DEF A, B

(* Appending a sequence to another adds up how often they hold a value.    *)
LEMMA BagOfConcat ==
    ASSUME NEW S, NEW s \in Seq(S), NEW u \in Seq(S)
    PROVE  ToBag(s \o u) = (ToBag(s) (+) ToBag(u))
<1> DEFINE count(x) == (IF x \in DOMAIN ToBag(s) THEN ToBag(s)[x] ELSE 0)
                        + (IF x \in DOMAIN ToBag(u) THEN ToBag(u)[x] ELSE 0)
           all == s \o u
<1>1. all \in Seq(S) /\ Len(all) = Len(s) + Len(u)
      /\ \A i \in 1..(Len(s) + Len(u)) : all[i] = IF i <= Len(s) THEN s[i] ELSE u[i - Len(s)]
  BY ConcatProperties
<1>2. Len(s) \in Nat /\ Len(u) \in Nat
  BY LenProperties
<1>3. \A x : Cardinality(Positions(all, x)) = Cardinality(Positions(s, x)) + Cardinality(Positions(u, x))
  BY PositionsOfConcat
<1> HIDE DEF all
<1>4. DOMAIN ToBag(all) = (DOMAIN ToBag(s)) \cup (DOMAIN ToBag(u))
  <2>1. /\ DOMAIN ToBag(all) = {all[i] : i \in 1..Len(all)}
        /\ DOMAIN ToBag(s) = {s[i] : i \in 1..Len(s)}
        /\ DOMAIN ToBag(u) = {u[i] : i \in 1..Len(u)}
    BY <1>1, BagIs
  <2>2. ASSUME NEW i \in 1..Len(all)
        PROVE  all[i] \in {s[j] : j \in 1..Len(s)} \cup {u[j] : j \in 1..Len(u)}
    <3>1. CASE i <= Len(s)
      <4>1. i \in 1..Len(s) /\ all[i] = s[i]
        BY <3>1, <1>1, <1>2
      <4> QED BY <4>1
    <3>2. CASE ~(i <= Len(s))
      <4>1. i - Len(s) \in 1..Len(u) /\ all[i] = u[i - Len(s)]
        BY <3>2, <1>1, <1>2
      <4> QED BY <4>1
    <3> QED BY <3>1, <3>2
  <2>3. ASSUME NEW i \in 1..Len(s) PROVE s[i] \in {all[j] : j \in 1..Len(all)}
    <3>1. i \in 1..Len(all) /\ all[i] = s[i]
      BY <1>1, <1>2
    <3> QED BY <3>1
  <2>4. ASSUME NEW i \in 1..Len(u) PROVE u[i] \in {all[j] : j \in 1..Len(all)}
    <3>1. Len(s) + i \in 1..Len(all) /\ ~(Len(s) + i <= Len(s)) /\ (Len(s) + i) - Len(s) = i
      BY <1>1, <1>2
    <3>2. all[Len(s) + i] = u[i]
      BY <1>1, <3>1
    <3> QED BY <3>1, <3>2
  <2> QED BY <2>1, <2>2, <2>3, <2>4
<1>5. ASSUME NEW x \in DOMAIN ToBag(all) PROVE ToBag(all)[x] = count(x)
  <2>1. ToBag(all)[x] = Cardinality(Positions(all, x))
    BY <1>1, BagIs
  <2>2. Cardinality({}) = 0
    BY FS_EmptySet
  <2>3. ASSUME NEW v \in Seq(S)
        PROVE  Cardinality(Positions(v, x)) = IF x \in DOMAIN ToBag(v) THEN ToBag(v)[x] ELSE 0
    <3>1. CASE x \in DOMAIN ToBag(v)
      BY <3>1, BagIs
    <3>2. CASE x \notin DOMAIN ToBag(v)
      <4>1. Positions(v, x) = {}
        BY <3>2, BagIs
      <4> QED BY <2>2, <3>2, <4>1
    <3> QED BY <3>1, <3>2
  <2>4. /\ Cardinality(Positions(s, x)) = IF x \in DOMAIN ToBag(s) THEN ToBag(s)[x] ELSE 0
        /\ Cardinality(Positions(u, x)) = IF x \in DOMAIN ToBag(u) THEN ToBag(u)[x] ELSE 0
    BY <2>3
  <2> QED BY <1>3, <2>1, <2>4
<1>6. ToBag(all) = [x \in DOMAIN ToBag(all) |-> ToBag(all)[x]]
  BY DEF ToBag
<1>7. (ToBag(s) (+) ToBag(u)) = [x \in (DOMAIN ToBag(s)) \cup (DOMAIN ToBag(u)) |-> count(x)]
  BY DEF (+)
<1> HIDE DEF count
<1>8. ToBag(all) = [x \in DOMAIN ToBag(all) |-> count(x)]
  BY <1>5, <1>6
<1> QED BY <1>4, <1>7, <1>8 DEF all

-----------------------------------------------------------------------------
(* Numbers in order.                                                       *)

(* The places of the members of a finite set of numbers in their order are *)
(* all the numbers up to its cardinality.                                  *)
LEMMA RankExists ==
    ASSUME NEW C, IsFiniteSet(C), C \subseteq Int, NEW i \in 1..Cardinality(C)
    PROVE  \E c \in C : Cardinality({d \in C : d <= c}) = i
<1> DEFINE n == Cardinality(C)
           upto(c) == {d \in C : d <= c}
           rank == [c \in C |-> Cardinality(upto(c))]
<1>1. n \in Nat
  BY FS_CardinalityType
<1>2. ASSUME NEW c \in C
      PROVE  /\ IsFiniteSet(upto(c)) /\ Cardinality(upto(c)) \in Nat
             /\ Cardinality(upto(c)) <= n /\ Cardinality(upto(c)) # 0
  <2>1. upto(c) \subseteq C /\ c \in upto(c)
    OBVIOUS
  <2>2. upto(c) # {}
    BY <2>1
  <2> HIDE DEF upto
  <2> QED BY <2>1, <2>2, FS_Subset, FS_CardinalityType, FS_EmptySet
<1>3. ASSUME NEW c \in C, NEW d \in C, c < d PROVE Cardinality(upto(c)) # Cardinality(upto(d))
  <2>1. upto(c) \subseteq upto(d) /\ d \in upto(d) /\ d \notin upto(c)
    <3>1. c \in Int /\ d \in Int
      OBVIOUS
    <3>2. \A e \in upto(c) : e \in upto(d)
      <4> SUFFICES ASSUME NEW e \in upto(c) PROVE e \in upto(d)
        OBVIOUS
      <4>1. e \in C /\ e \in Int /\ e <= c
        OBVIOUS
      <4>2. e <= d
        BY <1>3, <3>1, <4>1
      <4> QED BY <4>1, <4>2
    <3>3. d <= d /\ ~(d <= c)
      BY <1>3, <3>1
    <3> QED BY <3>2, <3>3
  <2>2. upto(c) # upto(d)
    BY <2>1
  <2>3. IsFiniteSet(upto(d))
    BY <1>2
  <2> HIDE DEF upto
  <2> QED BY <2>1, <2>2, <2>3, FS_Subset
<1>4. rank \in [C -> 1..n]
  BY <1>1, <1>2
<1>5. ASSUME NEW c \in C, NEW d \in C, rank[c] = rank[d] PROVE c = d
  <2>1. ~(c < d) /\ ~(d < c)
    BY <1>3, <1>5
  <2> QED BY <2>1
<1>6. IsFiniteSet(1..n) /\ Cardinality(1..n) = n
  BY <1>1, FS_Interval
<1>7. rank \in Injection(C, 1..n)
  BY <1>4, <1>5 DEF Injection, IsInjective
<1>8. rank \in Surjection(C, 1..n)
  <2> HIDE DEF rank, n
  <2>1. Cardinality(C) = Cardinality(1..n)
    BY <1>6 DEF n
  <2> QED BY <1>6, <1>7, <2>1, FS_Injection
<1>9. \E c \in C : rank[c] = i
  BY <1>8 DEF Surjection
<1> QED BY <1>9

(* Min and Max of FiniteSetsExt, of a set of numbers.                      *)
LEMMA MinOf ==
    ASSUME NEW T, T \subseteq Nat, T # {}
    PROVE  Min(T) \in T /\ \A x \in T : Min(T) <= x
<1>1. \E x \in T : \A y \in T : x <= y
  BY LeastNat
<1>2. Min(T) = CHOOSE x \in T : \A y \in T : x <= y
  BY DEF Min
<1> QED BY <1>1, <1>2

LEMMA MaxOf ==
    ASSUME NEW n \in Nat, NEW T, T \subseteq 1..n, T # {}
    PROVE  Max(T) \in T
<1> DEFINE U == {u \in 0..n : n - u \in T}
<1>1. U \subseteq Nat /\ U # {}
  <2>1. PICK t \in T : TRUE
    OBVIOUS
  <2>2. n - t \in 0..n /\ n - (n - t) = t
    BY <2>1
  <2>3. n - t \in U
    BY <2>1, <2>2
  <2>4. U \subseteq Nat
    OBVIOUS
  <2> QED BY <2>3, <2>4
<1>2. PICK u \in U : \A y \in U : u <= y
  <2> HIDE DEF U
  <2> QED BY <1>1, LeastNat
<1>3. \A y \in T : n - u >= y
  <2> SUFFICES ASSUME NEW y \in T PROVE n - u >= y
    OBVIOUS
  <2>1. y \in 1..n /\ n - y \in 0..n /\ n - (n - y) = y
    OBVIOUS
  <2>2. n - y \in U
    BY <2>1
  <2> QED BY <1>2, <2>1, <2>2
<1>4. \E x \in T : \A y \in T : x >= y
  BY <1>2, <1>3
<1> QED BY <1>4 DEF Max

-----------------------------------------------------------------------------
(* Short tuples are sequences.                                             *)
LEMMA Words1 == ASSUME NEW S, NEW a \in S PROVE <<a>> \in Seq(S)
OBVIOUS
LEMMA Words2 == ASSUME NEW S, NEW a \in S, NEW b \in S PROVE <<a, b>> \in Seq(S)
OBVIOUS
LEMMA Words3 ==
    ASSUME NEW S, NEW a \in S, NEW b \in S, NEW c \in S PROVE <<a, b, c>> \in Seq(S)
OBVIOUS
LEMMA Words4 ==
    ASSUME NEW S, NEW a \in S, NEW b \in S, NEW c \in S, NEW d \in S
    PROVE  <<a, b, c, d>> \in Seq(S)
OBVIOUS

(* The prefixes FlattenSeq(seqs) is built from, one sequence at a time.    *)
Flattens(seqs, n, g) == g = [i \in 1..n |-> IF i = 1 THEN seqs[i] ELSE g[i - 1] \o seqs[i]]

LEMMA FlattensFrom ==
    ASSUME NEW n \in Nat, NEW seqs, NEW V, NEW g \in [1..n -> V],
           \A i \in 1..n : g[i] = IF i = 1 THEN seqs[i] ELSE g[i - 1] \o seqs[i]
    PROVE  Flattens(seqs, n, g)
BY DEF Flattens

LEMMA FlattensStep ==
    ASSUME NEW n \in Nat, NEW seqs, NEW g, Flattens(seqs, n, g)
    PROVE  /\ n >= 1 => g[1] = seqs[1]
           /\ \A i \in 1..(n - 1) : g[i + 1] = g[i] \o seqs[i + 1]
<1>1. \A i \in 1..n : g[i] = IF i = 1 THEN seqs[i] ELSE g[i - 1] \o seqs[i]
  BY DEF Flattens
<1>2. n >= 1 => g[1] = seqs[1]
  BY <1>1
<1>3. ASSUME NEW i \in 1..(n - 1) PROVE g[i + 1] = g[i] \o seqs[i + 1]
  <2>1. i + 1 \in 1..n /\ i + 1 # 1 /\ (i + 1) - 1 = i
    OBVIOUS
  <2> QED BY <1>1, <2>1
<1> QED BY <1>2, <1>3

LEMMA FlattensExist ==
    ASSUME NEW S, NEW n \in Nat, NEW seqs \in [1..n -> Seq(S)]
    PROVE  \E g \in [1..n -> Seq(S)] : Flattens(seqs, n, g)
<1> DEFINE Solves(g, m) == \A i \in 1..m : g[i] = IF i = 1 THEN seqs[i] ELSE g[i - 1] \o seqs[i]
           T == {m \in 0..n : \E g \in [1..m -> Seq(S)] : Solves(g, m)}
<1>1. 0 \in T
  <2> DEFINE g == [i \in 1..0 |-> <<>>]
  <2>1. g \in [1..0 -> Seq(S)] /\ Solves(g, 0)
    OBVIOUS
  <2> HIDE DEF g
  <2>2. \E h \in [1..0 -> Seq(S)] : Solves(h, 0)
    BY <2>1
  <2>3. 0 \in 0..n
    OBVIOUS
  <2> HIDE DEF Solves
  <2> QED BY <2>2, <2>3, Zenon
<1>2. ASSUME NEW m \in 0..(n - 1), m \in T PROVE m + 1 \in T
  <2>1. PICK g \in [1..m -> Seq(S)] : Solves(g, m)
    BY <1>2
  <2> DEFINE last == IF m = 0 THEN seqs[1] ELSE g[m] \o seqs[m + 1]
             h == [i \in 1..(m + 1) |-> IF i = m + 1 THEN last ELSE g[i]]
  <2>2. last \in Seq(S)
    <3>1. m + 1 \in 1..n
      OBVIOUS
    <3>2. seqs[m + 1] \in Seq(S)
      BY <3>1
    <3>3. CASE m = 0
      BY <3>2, <3>3
    <3>4. CASE m # 0
      <4>1. g[m] \in Seq(S)
        BY <2>1, <3>4
      <4>2. g[m] \o seqs[m + 1] \in Seq(S)
        BY <3>2, <4>1, ConcatProperties
      <4> QED BY <3>4, <4>2
    <3> QED BY <3>3, <3>4
  <2>3. h \in [1..(m + 1) -> Seq(S)]
    BY <2>1, <2>2
  <2>4. Solves(h, m + 1)
    <3> SUFFICES ASSUME NEW i \in 1..(m + 1)
                 PROVE  h[i] = IF i = 1 THEN seqs[i] ELSE h[i - 1] \o seqs[i]
      OBVIOUS
    <3>1. CASE i = m + 1
      <4>1. CASE m = 0
        BY <3>1, <4>1
      <4>2. CASE m # 0
        <5>0. last = g[m] \o seqs[m + 1]
          BY <4>2
        <5>1. last = g[m] \o seqs[m + 1] /\ m \in 1..(m + 1) /\ m # m + 1
          <6> HIDE DEF last
          <6> QED BY <4>2, <5>0
        <5>2. h[m] = g[m] /\ h[i] = last
          <6> HIDE DEF last
          <6> QED BY <3>1, <5>1
        <5>3. i - 1 = m /\ i # 1
          BY <3>1, <4>2
        <5> QED BY <3>1, <5>1, <5>2, <5>3
      <4> QED BY <4>1, <4>2
    <3>2. CASE i # m + 1
      <4>1. i \in 1..m /\ h[i] = g[i]
        BY <3>2
      <4>2. i # 1 => h[i - 1] = g[i - 1]
        BY <4>1
      <4> QED BY <2>1, <4>1, <4>2
    <3> QED BY <3>1, <3>2
  <2> HIDE DEF h
  <2>5. \E q \in [1..(m + 1) -> Seq(S)] : Solves(q, m + 1)
    BY <2>3, <2>4
  <2>6. m + 1 \in 0..n
    OBVIOUS
  <2> HIDE DEF Solves
  <2> QED BY <2>5, <2>6, Zenon
<1>3. n \in T
  <2>1. \A m \in 0..(n - 1) : m \in T => m + 1 \in T
    BY <1>2
  <2> HIDE DEF T
  <2>2. \A m \in 0..n : m \in T
    BY <1>1, <2>1, InductionUpTo
  <2> QED BY <2>2
<1>4. PICK g \in [1..n -> Seq(S)] : Solves(g, n)
  BY <1>3
<1>5. Flattens(seqs, n, g)
  BY <1>4, FlattensFrom
<1> QED BY <1>5

(* A property that FlattenSeq(seqs) has if the empty sequence and the      *)
(* first of seqs have it and one more of seqs keeps it.                    *)
LEMMA FlattenHas ==
    ASSUME NEW S, NEW seqs \in Seq(Seq(S)), NEW P,
           <<0, <<>> >> \in P,
           \A i \in 0..(Len(seqs) - 1) : \A s \in Seq(S) :
               <<i, s>> \in P => <<i + 1, s \o seqs[i + 1]>> \in P
    PROVE  FlattenSeq(seqs) \in Seq(S) /\ <<Len(seqs), FlattenSeq(seqs)>> \in P
<1> DEFINE n == Len(seqs)
           flatten == CHOOSE g : Flattens(seqs, n, g)
<1>1. n \in Nat /\ seqs \in [1..n -> Seq(S)]
  BY LenProperties
<1>2. CASE n = 0
  <2>1. FlattenSeq(seqs) = seqs /\ seqs = <<>>
    BY <1>2, EmptySeq DEF FlattenSeq
  <2> QED BY <1>2, <2>1, EmptySeq
<1>3. CASE n # 0
  <2>1. FlattenSeq(seqs) = flatten[n]
    BY <1>3 DEF FlattenSeq, Flattens
  <2>2. Flattens(seqs, n, flatten)
    <3> HIDE DEF n
    <3>1. \E g \in [1..n -> Seq(S)] : Flattens(seqs, n, g)
      BY <1>1, FlattensExist
    <3> QED BY <3>1
  <2> HIDE DEF flatten, n
  <2>3. /\ flatten[1] = seqs[1]
        /\ \A i \in 1..(n - 1) : flatten[i + 1] = flatten[i] \o seqs[i + 1]
    <3>1. /\ n >= 1 => flatten[1] = seqs[1]
          /\ \A i \in 1..(n - 1) : flatten[i + 1] = flatten[i] \o seqs[i + 1]
      BY <1>1, <2>2, FlattensStep
    <3>2. n >= 1
      BY <1>1, <1>3
    <3> QED BY <3>1, <3>2
  <2> DEFINE T == {i \in 0..n : i # 0 => flatten[i] \in Seq(S) /\ <<i, flatten[i]>> \in P}
  <2>4. 0 \in T
    BY <1>1
  <2>5. ASSUME NEW i \in 0..(n - 1), i \in T PROVE i + 1 \in T
    <3>1. i + 1 \in 1..n /\ i + 1 \in 0..n
      BY <1>1
    <3>2. seqs[i + 1] \in Seq(S)
      BY <1>1, <3>1
    <3>3. \A s \in Seq(S) : <<i, s>> \in P => <<i + 1, s \o seqs[i + 1]>> \in P
      BY DEF n
    <3>4. CASE i = 0
      <4>1. <<>> \o seqs[1] = seqs[1] /\ <<>> \in Seq(S) /\ i + 1 = 1
        BY <3>2, <3>4, ConcatEmptySeq, EmptySeq
      <4>2. <<1, <<>> \o seqs[1]>> \in P
        BY <3>3, <3>4, <4>1
      <4> QED BY <2>3, <3>1, <3>2, <3>4, <4>1, <4>2
    <3>5. CASE i # 0
      <4>1. flatten[i] \in Seq(S) /\ <<i, flatten[i]>> \in P
        BY <2>5, <3>5
      <4>2. flatten[i + 1] = flatten[i] \o seqs[i + 1]
        <5>1. i \in 1..(n - 1)
          BY <1>1, <3>5
        <5> QED BY <2>3, <5>1
      <4>3. flatten[i + 1] \in Seq(S)
        BY <3>2, <4>1, <4>2, ConcatProperties
      <4>4. <<i + 1, flatten[i + 1]>> \in P
        BY <3>3, <4>1, <4>2
      <4> QED BY <3>1, <4>3, <4>4
    <3> QED BY <3>4, <3>5
  <2>6. n \in T
    <3>1. \A i \in 0..(n - 1) : i \in T => i + 1 \in T
      BY <2>5
    <3> HIDE DEF T
    <3>2. \A i \in 0..n : i \in T
      BY <1>1, <2>4, <3>1, InductionUpTo
    <3> QED BY <1>1, <3>2
  <2> QED BY <1>1, <1>3, <2>1, <2>6 DEF n
<1> QED BY <1>2, <1>3

(* What is in a concatenation is in one of its parts.                      *)
LEMMA InConcat ==
    ASSUME NEW S, NEW s \in Seq(S), NEW u \in Seq(S)
    PROVE  \A x : In(x, s \o u) <=> In(x, s) \/ In(x, u)
<1> DEFINE all == s \o u
           n == Len(s)
           m == Len(u)
<1>1. n \in Nat /\ m \in Nat /\ Len(all) = n + m
      /\ \A i \in 1..(n + m) : all[i] = IF i <= n THEN s[i] ELSE u[i - n]
  BY ConcatProperties, LenProperties
<1>2. Len(s) = n /\ Len(u) = m
  OBVIOUS
<1> HIDE DEF all, n, m
<1>3. ASSUME NEW x, In(x, all) PROVE In(x, s) \/ In(x, u)
  <2>1. PICK i \in 1..(n + m) : all[i] = x
    BY <1>1, <1>3 DEF In
  <2>2. CASE i <= n
    <3>1. i \in 1..n /\ s[i] = x
      BY <1>1, <2>1, <2>2
    <3> QED BY <1>2, <3>1 DEF In
  <2>3. CASE ~(i <= n)
    <3>1. i - n \in 1..m /\ u[i - n] = x
      BY <1>1, <2>1, <2>3
    <3> QED BY <1>2, <3>1 DEF In
  <2> QED BY <2>2, <2>3
<1>4. ASSUME NEW x, In(x, s) PROVE In(x, all)
  <2>1. PICK i \in 1..n : s[i] = x
    BY <1>2, <1>4 DEF In
  <2>2. i \in 1..(n + m) /\ all[i] = x
    BY <1>1, <2>1
  <2> QED BY <1>1, <2>2 DEF In
<1>5. ASSUME NEW x, In(x, u) PROVE In(x, all)
  <2>1. PICK i \in 1..m : u[i] = x
    BY <1>2, <1>5 DEF In
  <2>2. n + i \in 1..(n + m) /\ ~(n + i <= n) /\ (n + i) - n = i
    BY <1>1, <2>1
  <2>3. all[n + i] = x
    BY <1>1, <2>1, <2>2
  <2> QED BY <1>1, <2>2, <2>3 DEF In
<1> QED BY <1>3, <1>4, <1>5 DEF all

(* What is in a flattened sequence is in one of its parts.                 *)
LEMMA InFlatten ==
    ASSUME NEW S, NEW seqs \in Seq(Seq(S))
    PROVE  /\ FlattenSeq(seqs) \in Seq(S)
           /\ \A x : In(x, FlattenSeq(seqs)) <=> \E i \in 1..Len(seqs) : In(x, seqs[i])
<1> DEFINE P == {p \in Nat \X Seq(S) :
                   \A x \in S : In(x, p[2]) <=> \E j \in 1..p[1] : In(x, seqs[j])}
<1>1. <<0, <<>> >> \in P
  <2>1. <<>> \in Seq(S) /\ Len(<<>>) = 0
    BY EmptySeq
  <2>2. <<0, <<>> >> \in Nat \X Seq(S)
    BY EmptySeq, 0 \in Nat, Zenon
  <2>3. \A x : ~In(x, <<>>)
    BY <2>1 DEF In
  <2> HIDE DEF In
  <2> QED BY <2>2, <2>3
<1>2. Len(seqs) \in Nat
  BY LenProperties
<1>3. ASSUME NEW i \in 0..(Len(seqs) - 1), NEW s \in Seq(S), <<i, s>> \in P
      PROVE  <<i + 1, s \o seqs[i + 1]>> \in P
  <2>1. i \in Nat /\ i + 1 \in Nat /\ i + 1 \in 1..Len(seqs) /\ i + 1 \in 1..(i + 1)
    BY <1>2
  <2>2. seqs[i + 1] \in Seq(S)
    BY <2>1, ElementOfSeq
  <2>3. s \o seqs[i + 1] \in Seq(S)
    BY <2>2, ConcatProperties
  <2>4. \A x : In(x, s \o seqs[i + 1]) <=> In(x, s) \/ In(x, seqs[i + 1])
    BY <2>2, InConcat
  <2>5. \A x \in S : In(x, s) <=> \E j \in 1..i : In(x, seqs[j])
    BY <1>3
  <2>6. ASSUME NEW x \in S
        PROVE In(x, s \o seqs[i + 1]) <=> \E j \in 1..(i + 1) : In(x, seqs[j])
    <3>1. \A j \in 1..(i + 1) : j \in 1..i \/ j = i + 1
      BY <2>1
    <3>2. \A j \in 1..i : j \in 1..(i + 1)
      BY <2>1
    <3> QED BY <2>1, <2>4, <2>5, <3>1, <3>2
  <2> QED BY <2>1, <2>3, <2>6
<1>4. FlattenSeq(seqs) \in Seq(S) /\ <<Len(seqs), FlattenSeq(seqs)>> \in P
  <2>1. \A i \in 0..(Len(seqs) - 1) : \A s \in Seq(S) :
           <<i, s>> \in P => <<i + 1, s \o seqs[i + 1]>> \in P
    BY <1>3
  <2> HIDE DEF P
  <2> QED BY <1>1, <2>1, FlattenHas
<1>5. \A x \in S : In(x, FlattenSeq(seqs)) <=> \E i \in 1..Len(seqs) : In(x, seqs[i])
  BY <1>4
<1>6. ASSUME NEW x, In(x, FlattenSeq(seqs)) PROVE x \in S
  BY <1>4, <1>6, ElementOfSeq DEF In
<1>7. ASSUME NEW x, NEW i \in 1..Len(seqs), In(x, seqs[i]) PROVE x \in S
  <2>1. seqs[i] \in Seq(S)
    BY ElementOfSeq
  <2> QED BY <1>7, <2>1, ElementOfSeq DEF In
<1> QED BY <1>4, <1>5, <1>6, <1>7

(* Where the members of a flattened sequence come from: each place of it   *)
(* is one place of one part, and goes by parts first and by places in the  *)
(* part then.                                                              *)
Lays(part, place, s, seqs, p) ==
    /\ part \in [1..Len(s) -> 1..p] /\ place \in [1..Len(s) -> Nat]
    /\ \A n \in 1..Len(s) : place[n] \in 1..Len(seqs[part[n]]) /\ s[n] = seqs[part[n]][place[n]]
    /\ \A m, n \in 1..Len(s) :
          m < n => part[m] < part[n] \/ (part[m] = part[n] /\ place[m] < place[n])
    /\ \A i \in 1..p : \A c \in 1..Len(seqs[i]) : \E n \in 1..Len(s) : part[n] = i /\ place[n] = c

LEMMA LaysOneMore ==
    ASSUME NEW S, NEW seqs \in Seq(Seq(S)), NEW i \in 0..(Len(seqs) - 1), NEW s \in Seq(S),
           NEW part, NEW place, Lays(part, place, s, seqs, i)
    PROVE  \E q, r : Lays(q, r, s \o seqs[i + 1], seqs, i + 1)
<1> DEFINE u == seqs[i + 1]
           n == Len(s)
           m == Len(u)
           all == s \o u
           q == [j \in 1..(n + m) |-> IF j <= n THEN part[j] ELSE i + 1]
           r == [j \in 1..(n + m) |-> IF j <= n THEN place[j] ELSE j - n]
<1>1. i \in Nat /\ i + 1 \in 1..Len(seqs) /\ u \in Seq(S)
  BY LenProperties, ElementOfSeq
<1>2. /\ n \in Nat /\ m \in Nat /\ Len(all) = n + m
      /\ \A j \in 1..(n + m) : all[j] = IF j <= n THEN s[j] ELSE u[j - n]
  BY <1>1, ConcatProperties, LenProperties
<1>3. /\ part \in [1..n -> 1..i] /\ place \in [1..n -> Nat]
      /\ \A j \in 1..n : place[j] \in 1..Len(seqs[part[j]]) /\ s[j] = seqs[part[j]][place[j]]
      /\ \A j, l \in 1..n :
            j < l => part[j] < part[l] \/ (part[j] = part[l] /\ place[j] < place[l])
      /\ \A a \in 1..i : \A c \in 1..Len(seqs[a]) : \E j \in 1..n : part[j] = a /\ place[j] = c
  BY DEF Lays
<1> HIDE DEF n, m, all, u
<1>4. q \in [1..(n + m) -> 1..(i + 1)] /\ r \in [1..(n + m) -> Nat]
  BY <1>1, <1>2, <1>3
<1>9. /\ \A j \in 1..n : j \in 1..(n + m) /\ q[j] = part[j] /\ r[j] = place[j] /\ part[j] \in 1..i
      /\ \A j \in 1..(n + m) : ~(j <= n) => q[j] = i + 1 /\ r[j] = j - n /\ j - n \in 1..m
      /\ \A j \in 1..(n + m) : j <= n => j \in 1..n
  BY <1>2, <1>3
<1> HIDE DEF q, r
<1>5. \A j \in 1..(n + m) : r[j] \in 1..Len(seqs[q[j]]) /\ all[j] = seqs[q[j]][r[j]]
  <2> TAKE j \in 1..(n + m)
  <2>1. CASE j <= n
    BY <1>2, <1>3, <1>9, <2>1
  <2>2. CASE ~(j <= n)
    <3>1. q[j] = i + 1 /\ r[j] = j - n /\ j - n \in 1..m
      BY <1>9, <2>2
    <3>2. seqs[q[j]] = u /\ Len(u) = m
      BY <3>1 DEF u, m
    <3> QED BY <1>2, <2>2, <3>1, <3>2
  <2> QED BY <2>1, <2>2
<1>6. \A j, l \in 1..(n + m) :
         j < l => q[j] < q[l] \/ (q[j] = q[l] /\ r[j] < r[l])
  <2> TAKE j, l \in 1..(n + m)
  <2> HAVE j < l
  <2>1. CASE l <= n
    <3>1. j \in 1..n /\ l \in 1..n
      BY <1>2, <2>1
    <3> QED BY <1>3, <1>9, <3>1
  <2>2. CASE ~(l <= n) /\ j <= n
    <3>1. q[j] \in 1..i /\ q[l] = i + 1
      BY <1>9, <2>2
    <3> QED BY <1>1, <3>1
  <2>3. CASE ~(l <= n) /\ ~(j <= n)
    <3>1. q[j] = i + 1 /\ q[l] = i + 1 /\ r[j] = j - n /\ r[l] = l - n
      BY <1>9, <2>3
    <3> QED BY <1>2, <3>1
  <2> QED BY <2>1, <2>2, <2>3
<1>7. ASSUME NEW a \in 1..(i + 1), NEW c \in 1..Len(seqs[a])
      PROVE  \E j \in 1..(n + m) : q[j] = a /\ r[j] = c
  <2>1. CASE a \in 1..i
    <3>1. PICK j \in 1..n : part[j] = a /\ place[j] = c
      BY <1>3, <2>1
    <3>2. j \in 1..(n + m) /\ j <= n
      BY <1>2
    <3> QED BY <1>9, <3>1, <3>2
  <2>2. CASE a = i + 1
    <3>1. c \in 1..m
      BY <2>2 DEF u, m
    <3>2. n + c \in 1..(n + m) /\ ~(n + c <= n) /\ (n + c) - n = c
      BY <1>2, <3>1
    <3> QED BY <1>9, <2>2, <3>2
  <2> QED BY <1>1, <2>1, <2>2
<1>8. Lays(q, r, all, seqs, i + 1)
  <2> QED BY <1>2, <1>4, <1>5, <1>6, <1>7 DEF Lays
<1> QED BY <1>8 DEF all, u

LEMMA FlattenPlaces ==
    ASSUME NEW S, NEW seqs \in Seq(Seq(S))
    PROVE  \E part, place : Lays(part, place, FlattenSeq(seqs), seqs, Len(seqs))
<1> DEFINE P == {p \in Nat \X Seq(S) : \E q, r : Lays(q, r, p[2], seqs, p[1])}
<1>1. Len(seqs) \in Nat
  BY LenProperties
<1>2. <<0, <<>> >> \in P
  <2>1. <<>> \in Seq(S) /\ Len(<<>>) = 0
    BY EmptySeq
  <2>2. <<0, <<>> >> \in Nat \X Seq(S)
    BY EmptySeq, 0 \in Nat, Zenon
  <2>3. Lays([j \in 1..0 |-> 0], [j \in 1..0 |-> 0], <<>>, seqs, 0)
    BY <2>1 DEF Lays
  <2> QED BY <2>2, <2>3
<1>3. ASSUME NEW i \in 0..(Len(seqs) - 1), NEW s \in Seq(S), <<i, s>> \in P
      PROVE  <<i + 1, s \o seqs[i + 1]>> \in P
  <2>1. i \in Nat /\ i + 1 \in Nat /\ seqs[i + 1] \in Seq(S)
    BY <1>1, ElementOfSeq
  <2>2. s \o seqs[i + 1] \in Seq(S)
    BY <2>1, ConcatProperties
  <2>3. PICK part, place : Lays(part, place, s, seqs, i)
    BY <1>3
  <2>4. \E q, r : Lays(q, r, s \o seqs[i + 1], seqs, i + 1)
    BY <2>3, LaysOneMore
  <2> QED BY <2>1, <2>2, <2>4
<1>4. <<Len(seqs), FlattenSeq(seqs)>> \in P
  <2>1. \A i \in 0..(Len(seqs) - 1) : \A s \in Seq(S) :
           <<i, s>> \in P => <<i + 1, s \o seqs[i + 1]>> \in P
    BY <1>3
  <2> HIDE DEF P
  <2> QED BY <1>2, <2>1, FlattenHas
<1> QED BY <1>4

-----------------------------------------------------------------------------
(* Counting the members of a sequence that are in a set.                   *)

(* How many members of a sequence are in a set.                            *)
Places(s, P) == {k \in 1..Len(s) : s[k] \in P}
Count(s, P) == Cardinality(Places(s, P))

LEMMA CountTyped ==
    ASSUME NEW s, Len(s) \in Nat, NEW P
    PROVE  IsFiniteSet(Places(s, P)) /\ Count(s, P) \in Nat
<1>1. IsFiniteSet(1..Len(s))
  BY FS_Interval
<1>2. Places(s, P) \subseteq 1..Len(s)
  BY DEF Places
<1> QED BY <1>1, <1>2, FS_Subset, FS_CardinalityType DEF Count

LEMMA CountNone ==
    ASSUME NEW s, NEW P, \A k \in 1..Len(s) : s[k] \notin P
    PROVE  Count(s, P) = 0
<1>1. Places(s, P) = {}
  BY DEF Places
<1> QED BY <1>1, FS_EmptySet DEF Count

LEMMA CountAll ==
    ASSUME NEW s, Len(s) \in Nat, NEW P, \A k \in 1..Len(s) : s[k] \in P
    PROVE  Count(s, P) = Len(s)
<1>1. Places(s, P) = 1..Len(s)
  BY DEF Places
<1> DEFINE n == Len(s)
<1>2. n \in Nat /\ Count(s, P) = Cardinality(1..n)
  BY <1>1 DEF Count
<1> HIDE DEF n
<1>3. Cardinality(1..n) = n
  BY <1>2, FS_Interval
<1> QED BY <1>2, <1>3 DEF n

(* Moving a finite set of numbers does not change its cardinality.         *)
Shift(n, B) == {n + j : j \in B}

LEMMA Shifted ==
    ASSUME NEW B, IsFiniteSet(B), B \subseteq Int, NEW n \in Int
    PROVE  IsFiniteSet(Shift(n, B)) /\ Cardinality(Shift(n, B)) = Cardinality(B)
<1> DEFINE C == {n + j : j \in B}
           f == [j \in B |-> n + j]
<1>1. f \in [B -> C] /\ \A y \in C : \E j \in B : f[j] = y
  OBVIOUS
<1>2. ASSUME NEW a \in B, NEW b \in B, f[a] = f[b] PROVE a = b
  <2>1. n + a = n + b /\ a \in Int /\ b \in Int
    BY <1>2
  <2> QED BY <2>1
<1> HIDE DEF f, C
<1>3. f \in Bijection(B, C)
  BY <1>1, <1>2, BijectionIs
<1>4. ExistsBijection(B, C)
  BY <1>3, Fun_ExistsBij
<1>5. IsFiniteSet(C) /\ Cardinality(C) = Cardinality(B)
  BY <1>4, FS_Bijection
<1>6. C = Shift(n, B)
  BY DEF C, Shift
<1> QED BY <1>5, <1>6

LEMMA CountConcat ==
    ASSUME NEW S, NEW s \in Seq(S), NEW u \in Seq(S), NEW P
    PROVE  Count(s \o u, P) = Count(s, P) + Count(u, P)
<1> DEFINE n == Len(s)
           A == Places(s, P)
           B == Places(u, P)
           C == Shift(n, B)
<1>1. /\ n \in Nat /\ Len(u) \in Nat /\ Len(s \o u) = n + Len(u)
      /\ \A i \in 1..(n + Len(u)) : (s \o u)[i] = IF i <= n THEN s[i] ELSE u[i - n]
  BY ConcatProperties, LenProperties
<1>2. A = {i \in 1..n : s[i] \in P} /\ B = {i \in 1..Len(u) : u[i] \in P}
  BY DEF Places
<1>3. /\ IsFiniteSet(A) /\ IsFiniteSet(B) /\ Cardinality(A) \in Nat /\ Cardinality(B) \in Nat
      /\ Cardinality(A) = Count(s, P) /\ Cardinality(B) = Count(u, P)
  BY <1>1, CountTyped DEF Count
<1> HIDE DEF n
<1>4. Places(s \o u, P) = A \cup C
  <2>1. ASSUME NEW i \in Places(s \o u, P) PROVE i \in A \cup C
    <3>1. i \in 1..(n + Len(u)) /\ (s \o u)[i] \in P
      BY <1>1, <2>1 DEF Places
    <3>2. CASE i <= n
      BY <3>1, <3>2, <1>1, <1>2
    <3>3. CASE ~(i <= n)
      <4>1. i - n \in 1..Len(u) /\ n + (i - n) = i
        BY <3>1, <3>3, <1>1
      <4>2. u[i - n] \in P
        BY <3>1, <3>3, <1>1
      <4>3. i - n \in B
        BY <4>1, <4>2, <1>2
      <4> HIDE DEF B
      <4> QED BY <4>1, <4>3 DEF Shift
    <3> QED BY <3>2, <3>3
  <2>2. ASSUME NEW i \in A PROVE i \in Places(s \o u, P)
    <3>1. i \in 1..n /\ s[i] \in P
      BY <1>2, <2>2
    <3>2. i \in 1..(n + Len(u)) /\ i <= n
      BY <3>1, <1>1
    <3> QED BY <3>1, <3>2, <1>1 DEF Places
  <2>3. ASSUME NEW i \in C PROVE i \in Places(s \o u, P)
    <3>1. PICK j \in B : i = n + j
      BY <2>3 DEF Shift
    <3>2. j \in 1..Len(u) /\ u[j] \in P
      BY <1>2, <3>1
    <3>3. i \in 1..(n + Len(u)) /\ ~(i <= n) /\ i - n = j
      BY <3>1, <3>2, <1>1
    <3> QED BY <3>2, <3>3, <1>1 DEF Places
  <2> HIDE DEF A, C
  <2> QED BY <2>1, <2>2, <2>3
<1> HIDE DEF A, B
<1>5. IsFiniteSet(C) /\ Cardinality(C) = Cardinality(B)
  <2>1. B \subseteq Int
    BY <1>2
  <2>2. n \in Int /\ IsFiniteSet(B)
    BY <1>1, <1>3
  <2> QED BY <2>1, <2>2, Shifted
<1>6. A \cap C = {}
  <2>1. ASSUME NEW i \in A, i \in C PROVE FALSE
    <3>1. PICK j \in B : i = n + j
      BY <2>1 DEF Shift
    <3>2. i \in 1..n /\ j \in 1..Len(u)
      BY <1>2, <3>1
    <3> QED BY <3>1, <3>2, <1>1
  <2> QED BY <2>1
<1> HIDE DEF C
<1>7. Cardinality(A \cup C) = Cardinality(A) + Cardinality(C) - Cardinality(A \cap C)
  BY <1>3, <1>5, FS_Union
<1>8. Cardinality(A \cap C) = 0
  BY <1>6, FS_EmptySet
<1> QED BY <1>3, <1>4, <1>5, <1>7, <1>8 DEF Count

(* A sequence that is another one behind b members outside a set.          *)
Behind(s, u, b, P) ==
    /\ Len(s) = b + Len(u) /\ \A k \in 1..Len(u) : s[b + k] = u[k]
    /\ \A k \in 1..b : s[k] \notin P

LEMMA CountBehind ==
    ASSUME NEW s, NEW u, NEW b \in Nat, Len(u) \in Nat, NEW P, Behind(s, u, b, P)
    PROVE  Count(s, P) = Count(u, P)
<1>0. /\ Len(s) = b + Len(u) /\ \A k \in 1..Len(u) : s[b + k] = u[k]
      /\ \A k \in 1..b : s[k] \notin P
  BY DEF Behind
<1> DEFINE B == Places(u, P)
           C == Shift(b, B)
<1>1. B = {i \in 1..Len(u) : u[i] \in P} /\ IsFiniteSet(B) /\ Cardinality(B) = Count(u, P)
  BY CountTyped DEF Places, Count
<1>2. Places(s, P) = C
  <2>1. ASSUME NEW i \in Places(s, P) PROVE i \in C
    <3>1. i \in 1..(b + Len(u)) /\ s[i] \in P
      BY <1>0 DEF Places
    <3>2. ~(i \in 1..b)
      BY <1>0, <3>1
    <3>3. i - b \in 1..Len(u) /\ b + (i - b) = i
      BY <3>1, <3>2
    <3>4. u[i - b] \in P
      BY <1>0, <3>1, <3>3
    <3>5. i - b \in B
      BY <1>1, <3>3, <3>4
    <3> HIDE DEF B
    <3> QED BY <3>3, <3>5 DEF Shift
  <2>2. ASSUME NEW i \in C PROVE i \in Places(s, P)
    <3>1. PICK j \in B : i = b + j
      BY <2>2 DEF Shift
    <3>2. j \in 1..Len(u) /\ u[j] \in P
      BY <1>1, <3>1
    <3>3. i \in 1..(b + Len(u)) /\ s[i] = u[j]
      BY <1>0, <3>1, <3>2
    <3> QED BY <1>0, <3>2, <3>3 DEF Places
  <2> HIDE DEF C
  <2> QED BY <2>1, <2>2
<1> HIDE DEF B
<1>3. Cardinality(C) = Cardinality(B)
  <2>1. B \subseteq Int
    BY <1>1
  <2> QED BY <1>1, <2>1, Shifted
<1> QED BY <1>1, <1>2, <1>3 DEF Count

(* The members of a set up to a number.                                    *)
Below(T, i) == {j \in T : j <= i}

LEMMA BelowEnds ==
    ASSUME NEW n \in Nat, NEW T, T \subseteq 1..n
    PROVE  Below(T, 0) = {} /\ Below(T, n) = T
<1>1. \A j \in T : j <= n /\ ~(j <= 0)
  OBVIOUS
<1> QED BY <1>1, Zenon DEF Below

LEMMA BelowFinite ==
    ASSUME NEW n \in Nat, NEW T, T \subseteq 1..n, NEW i
    PROVE  IsFiniteSet(Below(T, i)) /\ Cardinality(Below(T, i)) \in Nat
<1>1. IsFiniteSet(1..n)
  BY FS_Interval
<1>2. Below(T, i) \subseteq 1..n
  BY DEF Below
<1> QED BY <1>1, <1>2, FS_Subset, FS_CardinalityType

LEMMA BelowNext ==
    ASSUME NEW n \in Nat, NEW T, T \subseteq 1..n, NEW i \in Nat
    PROVE  /\ i + 1 \in T => Cardinality(Below(T, i + 1)) = Cardinality(Below(T, i)) + 1
           /\ i + 1 \notin T => Below(T, i + 1) = Below(T, i)
<1>1. \A j \in T : j <= i + 1 <=> j <= i \/ j = i + 1
  OBVIOUS
<1>2. ~(i + 1 <= i) /\ i + 1 <= i + 1
  OBVIOUS
<1>3. ASSUME i + 1 \in T PROVE Cardinality(Below(T, i + 1)) = Cardinality(Below(T, i)) + 1
  <2>1. Below(T, i + 1) = Below(T, i) \cup {i + 1} /\ i + 1 \notin Below(T, i)
    BY <1>1, <1>2, <1>3 DEF Below
  <2>2. IsFiniteSet(Below(T, i))
    BY BelowFinite
  <2> QED BY <2>1, <2>2, FS_AddElement
<1>4. i + 1 \notin T => Below(T, i + 1) = Below(T, i)
  BY <1>1, <1>2 DEF Below
<1> QED BY <1>3, <1>4

(* A flattened sequence, where some parts count c times and the others not *)
(* at all.                                                                 *)
PartsCount(seqs, P, T, c) ==
    \A i \in 1..Len(seqs) : Count(seqs[i], P) = IF i \in T THEN c ELSE 0

LEMMA CountFlatten ==
    ASSUME NEW S, NEW seqs \in Seq(Seq(S)), NEW P, NEW c \in Nat, NEW T, T \subseteq 1..Len(seqs),
           PartsCount(seqs, P, T, c)
    PROVE  Count(FlattenSeq(seqs), P) = Cardinality(T) * c
<1> DEFINE Upto(i) == Below(T, i)
           Q == {p \in Nat \X Seq(S) : Count(p[2], P) = Cardinality(Upto(p[1])) * c}
<1>1. Len(seqs) \in Nat
  BY LenProperties
<1>2. T \subseteq 1..Len(seqs)
  OBVIOUS
<1> HIDE DEF Upto
<1>3. <<0, <<>> >> \in Q
  <2>1. Len(<<>>) = 0
    BY EmptySeq
  <2>2. <<0, <<>> >> \in Nat \X Seq(S)
    BY EmptySeq, 0 \in Nat, Zenon
  <2>3. Count(<<>>, P) = 0
    <3>1. \A k \in 1..Len(<<>>) : <<>>[k] \notin P
      BY <2>1
    <3> QED BY <3>1, CountNone
  <2>5. Cardinality(Upto(0)) * c = 0
    <3>1. Cardinality(Upto(0)) = 0
      BY <1>1, <1>2, BelowEnds, FS_EmptySet DEF Upto
    <3> QED BY <3>1
  <2> QED BY <2>2, <2>3, <2>5
<1>4. ASSUME NEW i \in 0..(Len(seqs) - 1), NEW s \in Seq(S), <<i, s>> \in Q
      PROVE  <<i + 1, s \o seqs[i + 1]>> \in Q
  <2>1. i \in Nat /\ i + 1 \in Nat /\ i + 1 \in 1..Len(seqs)
    BY <1>1
  <2>2. seqs[i + 1] \in Seq(S)
    BY <2>1, ElementOfSeq
  <2>3. s \o seqs[i + 1] \in Seq(S)
    BY <2>2, ConcatProperties
  <2>4. Count(s \o seqs[i + 1], P) = Count(s, P) + Count(seqs[i + 1], P)
    BY <2>2, CountConcat
  <2>5. Count(s, P) = Cardinality(Upto(i)) * c
    <3> QED BY <1>4
  <2>6. Count(seqs[i + 1], P) = IF i + 1 \in T THEN c ELSE 0
    BY <2>1 DEF PartsCount
  <2> DEFINE m == Cardinality(Upto(i))
  <2>9. /\ m \in Nat
        /\ i + 1 \in T => Cardinality(Upto(i + 1)) = m + 1
        /\ i + 1 \notin T => Cardinality(Upto(i + 1)) = m
    BY <1>1, <1>2, <2>1, BelowFinite, BelowNext DEF Upto
  <2> HIDE DEF m
  <2>7. CASE i + 1 \in T
    <3>3. Cardinality(Upto(i + 1)) * c = m * c + c
      BY <2>9, <2>7
    <3>4. Count(s \o seqs[i + 1], P) = Cardinality(Upto(i + 1)) * c
      BY <2>4, <2>5, <2>6, <2>7, <3>3 DEF m
    <3>5. <<i + 1, s \o seqs[i + 1]>> \in Nat \X Seq(S)
      BY <2>1, <2>3
    <3> QED BY <3>4, <3>5
  <2>8. CASE i + 1 \notin T
    <3>1. Cardinality(Upto(i + 1)) = m /\ m * c \in Nat
      BY <2>8, <2>9
    <3>4. Count(s \o seqs[i + 1], P) = Cardinality(Upto(i + 1)) * c
      BY <2>4, <2>5, <2>6, <2>8, <3>1 DEF m
    <3>5. <<i + 1, s \o seqs[i + 1]>> \in Nat \X Seq(S)
      BY <2>1, <2>3
    <3> QED BY <3>4, <3>5
  <2> QED BY <2>7, <2>8
<1>5. <<Len(seqs), FlattenSeq(seqs)>> \in Q
  <2>1. \A i \in 0..(Len(seqs) - 1) : \A s \in Seq(S) :
           <<i, s>> \in Q => <<i + 1, s \o seqs[i + 1]>> \in Q
    BY <1>4
  <2> HIDE DEF Q
  <2> QED BY <1>3, <2>1, FlattenHas
<1>6. Upto(Len(seqs)) = T
  BY <1>1, <1>2, BelowEnds DEF Upto
<1> QED BY <1>5, <1>6

-----------------------------------------------------------------------------
(***************************************************************************)
(* What is flattened can be flattened in two parts.                        *)
(***************************************************************************)
LEMMA ConcatAssoc ==
    ASSUME NEW S, NEW a \in Seq(S), NEW b \in Seq(S), NEW c \in Seq(S)
    PROVE  (a \o b) \o c = a \o (b \o c)
OBVIOUS

LEMMA ConcatFront ==
    ASSUME NEW S, NEW a \in Seq(S), NEW b \in Seq(S), NEW i \in 0..(Len(b) - 1)
    PROVE  /\ a \o SubSeq(b, 1, i) \in Seq(S)
           /\ a \o SubSeq(b, 1, i + 1) = Append(a \o SubSeq(b, 1, i), b[i + 1])
<1> DEFINE u == SubSeq(b, 1, i)
           x == b[i + 1]
<1>1. Len(b) \in Nat
  BY LenProperties
<1>2. i + 1 \in 1..Len(b) /\ 1 \in 1..Len(b) /\ (i + 1) - 1 = i /\ i + 1 \in 1..(i + 1)
  BY <1>1
<1>3. x \in S
  BY <1>2, ElementOfSeq
<1>4. u \in Seq(S)
  <2>1. \A k \in 1..i : b[k] \in S
    <3>1. \A k \in 1..i : k \in 1..Len(b)
      BY <1>1
    <3> QED BY <3>1, ElementOfSeq
  <2> QED BY <2>1, SubSeqProperties
<1>5. SubSeq(b, 1, i + 1) = u \o <<x>>
  <2>1. SubSeq(b, 1, i + 1) = SubSeq(b, 1, (i + 1) - 1) \o <<b[i + 1]>>
    BY <1>1, <1>2, SubSeqRecursiveSecond
  <2> QED BY <1>2, <2>1
<1> HIDE DEF u, x
<1>6. <<x>> \in Seq(S)
  BY <1>3, Words1
<1> DEFINE w == <<x>>
<1>7. w \in Seq(S)
  BY <1>6
<1>8. a \o u \in Seq(S) /\ Append(a \o u, x) = (a \o u) \o w
  <2>1. a \o u \in Seq(S)
    BY <1>4, ConcatProperties
  <2> DEFINE v == a \o u
  <2> HIDE DEF v
  <2>2. Append(v, x) = v \o <<x>>
    BY <1>3, <2>1, AppendIsConcat DEF v
  <2> QED BY <2>1, <2>2 DEF v
<1>9. SubSeq(b, 1, i + 1) = u \o w
  BY <1>5
<1> HIDE DEF w
<1>10. (a \o u) \o w = a \o (u \o w)
  BY <1>4, <1>7, ConcatAssoc
<1> QED BY <1>8, <1>9, <1>10, Zenon DEF u, x

LEMMA FlattenNone == FlattenSeq(<<>>) = <<>>
BY DEF FlattenSeq

LEMMA FlattenAppend ==
    ASSUME NEW S, NEW seqs \in Seq(Seq(S)), NEW u \in Seq(S)
    PROVE  FlattenSeq(Append(seqs, u)) = FlattenSeq(seqs) \o u
<1> DEFINE n == Len(seqs)
           all == Append(seqs, u)
           f == CHOOSE g : Flattens(seqs, n, g)
           h == CHOOSE g : Flattens(all, n + 1, g)
           T == {i \in 0..n : i # 0 => h[i] = f[i]}
<1>1. n \in Nat /\ seqs \in [1..n -> Seq(S)]
  BY LenProperties
<1>2. /\ all \in Seq(Seq(S)) /\ Len(all) = n + 1 /\ all[n + 1] = u
      /\ \A i \in 1..n : all[i] = seqs[i]
  BY AppendProperties
<1>3. all \in [1..(n + 1) -> Seq(S)]
  BY <1>2, LenProperties
<1> HIDE DEF n, all
<1>4. Flattens(seqs, n, f) /\ Flattens(all, n + 1, h)
  <2>1. \E g \in [1..n -> Seq(S)] : Flattens(seqs, n, g)
    BY <1>1, FlattensExist
  <2>2. n + 1 \in Nat
    BY <1>1
  <2>3. \E g \in [1..(n + 1) -> Seq(S)] : Flattens(all, n + 1, g)
    BY <1>3, <2>2, FlattensExist
  <2> QED BY <2>1, <2>3
<1>5. FlattenSeq(all) = h[n + 1]
  <2>1. n + 1 # 0
    BY <1>1
  <2> QED BY <1>2, <2>1 DEF FlattenSeq, Flattens
<1>6. n # 0 => FlattenSeq(seqs) = f[n]
  BY DEF FlattenSeq, Flattens, n
<1> HIDE DEF f, h
<1>7. /\ n >= 1 => f[1] = seqs[1]
      /\ \A i \in 1..(n - 1) : f[i + 1] = f[i] \o seqs[i + 1]
  BY <1>1, <1>4, FlattensStep
<1>8. /\ h[1] = all[1]
      /\ \A i \in 1..n : h[i + 1] = h[i] \o all[i + 1]
  <2>1. n + 1 \in Nat /\ n + 1 >= 1 /\ (n + 1) - 1 = n
    BY <1>1
  <2>2. /\ n + 1 >= 1 => h[1] = all[1]
        /\ \A i \in 1..((n + 1) - 1) : h[i + 1] = h[i] \o all[i + 1]
    BY <1>4, <2>1, FlattensStep
  <2> QED BY <2>1, <2>2
<1>9. n \in T
  <2>1. 0 \in T
    BY <1>1
  <2>2. ASSUME NEW i \in 0..(n - 1), i \in T PROVE i + 1 \in T
    <3>1. i + 1 \in 1..n /\ i + 1 \in 0..n
      BY <1>1
    <3>2. CASE i = 0
      BY <1>1, <1>2, <1>7, <1>8, <3>1, <3>2
    <3>3. CASE i # 0
      <4>1. i \in 1..(n - 1) /\ i \in 1..n
        BY <1>1, <3>3
      <4>2. h[i] = f[i]
        BY <2>2, <3>3
      <4> QED BY <1>2, <1>7, <1>8, <3>1, <4>1, <4>2
    <3> QED BY <3>2, <3>3
  <2>3. \A i \in 0..(n - 1) : i \in T => i + 1 \in T
    BY <2>2
  <2> HIDE DEF T
  <2>4. \A i \in 0..n : i \in T
    BY <1>1, <2>1, <2>3, InductionUpTo
  <2> QED BY <1>1, <2>4
<1>10. CASE n = 0
  <2>1. FlattenSeq(seqs) = <<>>
    <3>1. seqs = <<>>
      BY <1>10, EmptySeq DEF n
    <3> QED BY <3>1, FlattenNone
  <2>2. FlattenSeq(all) = u
    BY <1>2, <1>5, <1>8, <1>10
  <2> QED BY <2>1, <2>2, ConcatEmptySeq DEF all
<1>11. CASE n # 0
  <2>1. n \in 1..n
    BY <1>1, <1>11
  <2>2. h[n] = f[n]
    BY <1>9, <1>11
  <2>3. h[n + 1] = h[n] \o u
    BY <1>2, <1>8, <2>1
  <2> QED BY <1>5, <1>6, <1>11, <2>2, <2>3 DEF all
<1> QED BY <1>10, <1>11

LEMMA FlattenConcat ==
    ASSUME NEW S, NEW seqs \in Seq(Seq(S)), NEW more \in Seq(Seq(S))
    PROVE  FlattenSeq(seqs \o more) = FlattenSeq(seqs) \o FlattenSeq(more)
<1> DEFINE n == Len(more)
           front(i) == seqs \o SubSeq(more, 1, i)
           P == {p \in (0..n) \X Seq(S) : FlattenSeq(front(p[1])) = FlattenSeq(seqs) \o p[2]}
<1>1. n \in Nat
  BY LenProperties
<1>2. FlattenSeq(seqs) \in Seq(S)
  BY InFlatten
<1>3. <<0, <<>> >> \in P
  <2>1. SubSeq(more, 1, 0) = <<>>
    BY SubSeqEmpty
  <2>2. front(0) = seqs
    BY <2>1, ConcatEmptySeq
  <2>3. FlattenSeq(seqs) \o <<>> = FlattenSeq(seqs)
    BY <1>2, ConcatEmptySeq
  <2>4. <<0, <<>> >> \in (0..n) \X Seq(S)
    <3>1. <<>> \in Seq(S) /\ 0 \in 0..n
      BY <1>1, EmptySeq
    <3> QED BY <3>1
  <2> QED BY <2>2, <2>3, <2>4
<1>4. ASSUME NEW i \in 0..(n - 1), NEW s \in Seq(S), <<i, s>> \in P
      PROVE  <<i + 1, s \o more[i + 1]>> \in P
  <2>1. i + 1 \in 1..n /\ i + 1 \in 0..n /\ i \in 0..n /\ (i + 1) - 1 = i
    BY <1>1
  <2>2. more[i + 1] \in Seq(S)
    BY <2>1, ElementOfSeq
  <2>5. front(i + 1) = Append(front(i), more[i + 1]) /\ front(i) \in Seq(Seq(S))
    BY ConcatFront
  <2>6. FlattenSeq(front(i + 1)) = FlattenSeq(front(i)) \o more[i + 1]
    <3> HIDE DEF front
    <3> QED BY <2>2, <2>5, FlattenAppend
  <2>7. FlattenSeq(front(i)) = FlattenSeq(seqs) \o s
    BY <1>4
  <2>8. FlattenSeq(front(i + 1)) = FlattenSeq(seqs) \o (s \o more[i + 1])
    <3>1. FlattenSeq(seqs) \o s \o more[i + 1] = FlattenSeq(seqs) \o (s \o more[i + 1])
      <4> DEFINE a == FlattenSeq(seqs)
                 c == more[i + 1]
      <4> HIDE DEF a, c
      <4>1. a \in Seq(S) /\ c \in Seq(S)
        BY <1>2, <2>2 DEF a, c
      <4>2. (a \o s) \o c = a \o (s \o c)
        BY <4>1, ConcatAssoc
      <4> QED BY <4>2 DEF a, c
    <3> QED BY <2>6, <2>7, <3>1, Zenon
  <2>9. s \o more[i + 1] \in Seq(S)
    BY <2>2, ConcatProperties
  <2> HIDE DEF front
  <2> QED BY <2>1, <2>8, <2>9
<1>5. <<n, FlattenSeq(more)>> \in P
  <2>1. \A i \in 0..(n - 1) : \A s \in Seq(S) : <<i, s>> \in P => <<i + 1, s \o more[i + 1]>> \in P
    BY <1>4
  <2> HIDE DEF P
  <2> QED BY <1>3, <2>1, FlattenHas
<1>6. front(n) = seqs \o more
  BY SubSeqFull
<1> HIDE DEF front
<1> QED BY <1>5, <1>6

LEMMA MaxIs ==
    ASSUME NEW n \in Nat, NEW T, T \subseteq 1..n, T # {}
    PROVE  Max(T) \in T /\ \A x \in T : x <= Max(T)
<1>1. Max(T) \in T
  BY MaxOf
<1> DEFINE U == {u \in 0..n : n - u \in T}
<1>2. \E x \in T : \A y \in T : x >= y
  <2>1. PICK t \in T : TRUE
    OBVIOUS
  <2>2. n - t \in U
    <3>1. n - t \in 0..n /\ n - (n - t) = t
      BY <2>1
    <3> QED BY <2>1, <3>1
  <2>3. PICK u \in U : \A y \in U : u <= y
    <3>1. U \subseteq Nat /\ U # {}
      <4>1. U \subseteq Nat
        OBVIOUS
      <4> HIDE DEF U
      <4> QED BY <2>2, <4>1
    <3> HIDE DEF U
    <3> QED BY <3>1, LeastNat
  <2>4. ASSUME NEW y \in T PROVE n - u >= y
    <3>1. y \in 1..n /\ n - y \in 0..n /\ n - (n - y) = y
      OBVIOUS
    <3>2. n - y \in U
      BY <3>1
    <3>3. u \in 0..n /\ u <= n - y
      <4> HIDE DEF U
      <4>1. u <= n - y
        BY <2>3, <3>2
      <4>2. u \in 0..n
        BY <2>3 DEF U
      <4> QED BY <4>1, <4>2
    <3> QED BY <3>1, <3>3
  <2> QED BY <2>3, <2>4
<1>3. \A y \in T : Max(T) >= y
  BY <1>2 DEF Max
<1> QED BY <1>1, <1>3

(* An empty part leaves no trace.                                          *)
EmptyAt(a, b, p) ==
    /\ p \in 1..Len(a) /\ Len(a) = Len(b) + 1 /\ a[p] = <<>>
    /\ \A i \in 1..(p - 1) : a[i] = b[i]
    /\ \A i \in p..Len(b) : a[i + 1] = b[i]

LEMMA FlattenWithEmpty ==
    ASSUME NEW S, NEW a \in Seq(Seq(S)), NEW b \in Seq(Seq(S)), NEW p, EmptyAt(a, b, p)
    PROVE  FlattenSeq(a) = FlattenSeq(b)
<1> DEFINE U == Seq(S)
           P == SubSeq(b, 1, p - 1)
           Q == SubSeq(b, p, Len(b))
           PE == Append(P, <<>>)
<1>1. Len(a) \in Nat /\ Len(b) \in Nat /\ p \in Nat /\ p >= 1 /\ p - 1 <= Len(b)
  BY LenProperties DEF EmptyAt
<1>2. <<>> \in U
  BY EmptySeq
<1>3. \A i \in 1..Len(b) : b[i] \in U
  BY ElementOfSeq
<1>4. a \in Seq(U) /\ b \in Seq(U)
  OBVIOUS
<1> HIDE DEF U
<1>5. /\ P \in Seq(U) /\ Len(P) = p - 1
      /\ \A i \in 1..(p - 1) : P[i] = b[i]
  <2>1. \A i \in 1..(p - 1) : b[i] \in U
    BY <1>1, <1>3
  <2>2. /\ SubSeq(b, 1, p - 1) \in Seq(U)
        /\ Len(SubSeq(b, 1, p - 1)) = IF 1 <= p - 1 THEN (p - 1) - 1 + 1 ELSE 0
        /\ \A i \in 1..((p - 1) - 1 + 1) : SubSeq(b, 1, p - 1)[i] = b[1 + i - 1]
    BY <1>1, <2>1, SubSeqProperties
  <2> HIDE DEF P
  <2>3. P \in Seq(U) /\ Len(P) = p - 1
    BY <1>1, <2>2 DEF P
  <2>4. ASSUME NEW i \in 1..(p - 1) PROVE P[i] = b[i]
    <3>1. i \in 1..((p - 1) - 1 + 1) /\ 1 + i - 1 = i
      BY <1>1
    <3>2. P[i] = b[1 + i - 1]
      BY <2>2, <3>1 DEF P
    <3> QED BY <3>1, <3>2
  <2> QED BY <2>3, <2>4
<1>6. /\ Q \in Seq(U) /\ Len(Q) = Len(b) - p + 1
      /\ \A i \in 1..(Len(b) - p + 1) : Q[i] = b[p + i - 1]
  <2>1. \A i \in p..Len(b) : b[i] \in U
    BY <1>1, <1>3
  <2>2. /\ SubSeq(b, p, Len(b)) \in Seq(U)
        /\ Len(SubSeq(b, p, Len(b))) = IF p <= Len(b) THEN Len(b) - p + 1 ELSE 0
        /\ \A i \in 1..(Len(b) - p + 1) : SubSeq(b, p, Len(b))[i] = b[p + i - 1]
    BY <1>1, <2>1, SubSeqProperties
  <2>3. (IF p <= Len(b) THEN Len(b) - p + 1 ELSE 0) = Len(b) - p + 1
    BY <1>1
  <2> QED BY <2>2, <2>3
<1> HIDE DEF P, Q
<1>7. /\ PE \in Seq(U) /\ Len(PE) = p /\ PE[p] = <<>>
      /\ \A i \in 1..(p - 1) : PE[i] = P[i]
  <2>1. /\ Append(P, <<>>) \in Seq(U) /\ Len(Append(P, <<>>)) = Len(P) + 1
        /\ Append(P, <<>>)[Len(P) + 1] = <<>>
        /\ \A i \in 1..Len(P) : Append(P, <<>>)[i] = P[i]
    BY <1>2, <1>5, AppendProperties
  <2>2. Len(P) + 1 = p
    BY <1>1, <1>5
  <2> QED BY <1>5, <2>1, <2>2
<1> HIDE DEF PE
<1>8. b = P \o Q
  <2>1. /\ P \o Q \in Seq(U) /\ Len(P \o Q) = Len(P) + Len(Q)
        /\ \A i \in 1..(Len(P) + Len(Q)) : (P \o Q)[i] = IF i <= Len(P) THEN P[i] ELSE Q[i - Len(P)]
    BY <1>5, <1>6, ConcatProperties
  <2> DEFINE R == P \o Q
  <2> HIDE DEF R
  <2>2. Len(b) = Len(R)
    BY <1>1, <1>5, <1>6, <2>1 DEF R
  <2>3. ASSUME NEW i \in 1..Len(b) PROVE b[i] = R[i]
    <3>1. CASE i <= p - 1
      BY <1>1, <1>5, <1>6, <2>1, <3>1 DEF R
    <3>2. CASE ~(i <= p - 1)
      <4>1. i - (p - 1) \in 1..(Len(b) - p + 1) /\ p + (i - (p - 1)) - 1 = i
        BY <1>1, <3>2
      <4>2. Q[i - (p - 1)] = b[i]
        BY <1>6, <4>1
      <4>3. i \in 1..(Len(P) + Len(Q)) /\ ~(i <= Len(P))
        BY <1>1, <1>5, <1>6, <3>2
      <4>4. R[i] = Q[i - Len(P)]
        BY <2>1, <4>3 DEF R
      <4> QED BY <1>5, <4>2, <4>4
    <3> QED BY <3>1, <3>2
  <2> QED BY <1>4, <2>1, <2>2, <2>3, SeqEqual DEF R
<1>9. a = PE \o Q
  <2>1. /\ PE \o Q \in Seq(U) /\ Len(PE \o Q) = Len(PE) + Len(Q)
        /\ \A i \in 1..(Len(PE) + Len(Q)) : (PE \o Q)[i] = IF i <= Len(PE) THEN PE[i] ELSE Q[i - Len(PE)]
    BY <1>6, <1>7, ConcatProperties
  <2> DEFINE R == PE \o Q
  <2> HIDE DEF R
  <2>2. Len(a) = Len(R)
    BY <1>1, <1>6, <1>7, <2>1 DEF R, EmptyAt
  <2>3. ASSUME NEW i \in 1..Len(a) PROVE a[i] = R[i]
    <3>0. i \in 1..(Len(PE) + Len(Q))
      BY <1>1, <1>6, <1>7 DEF EmptyAt
    <3>1. CASE i <= p - 1
      <4>1. i \in 1..(p - 1) /\ i <= p
        BY <1>1, <3>1
      <4>2. R[i] = PE[i]
        BY <1>7, <2>1, <3>0, <4>1 DEF R
      <4>3. PE[i] = b[i] /\ a[i] = b[i]
        BY <1>5, <1>7, <4>1 DEF EmptyAt
      <4> QED BY <4>2, <4>3
    <3>2. CASE i = p
      <4>1. R[i] = PE[i]
        BY <1>1, <1>7, <2>1, <3>0, <3>2 DEF R
      <4> QED BY <1>7, <3>2, <4>1 DEF EmptyAt
    <3>3. CASE i > p
      <4>1. i - p \in 1..(Len(b) - p + 1) /\ p + (i - p) - 1 = i - 1 /\ i - 1 \in p..Len(b) /\ (i - 1) + 1 = i
        BY <1>1, <3>3 DEF EmptyAt
      <4>2. Q[i - p] = b[i - 1]
        BY <1>6, <4>1
      <4>3. a[(i - 1) + 1] = b[i - 1]
        BY <4>1 DEF EmptyAt
      <4>4. R[i] = Q[i - p]
        BY <1>1, <1>7, <2>1, <3>0, <3>3 DEF R
      <4> QED BY <4>1, <4>2, <4>3, <4>4
    <3> QED BY <1>1, <3>1, <3>2, <3>3
  <2> QED BY <1>4, <2>1, <2>2, <2>3, SeqEqual DEF R
<1>10. FlattenSeq(b) = FlattenSeq(P) \o FlattenSeq(Q) /\ FlattenSeq(a) = FlattenSeq(PE) \o FlattenSeq(Q)
  <2>1. P \in Seq(Seq(S)) /\ Q \in Seq(Seq(S)) /\ PE \in Seq(Seq(S))
    BY <1>5, <1>6, <1>7 DEF U
  <2> QED BY <1>8, <1>9, <2>1, FlattenConcat
<1>11. FlattenSeq(PE) = FlattenSeq(P)
  <2>1. P \in Seq(Seq(S)) /\ <<>> \in Seq(S)
    BY <1>2, <1>5 DEF U
  <2>2. FlattenSeq(PE) = FlattenSeq(P) \o <<>>
    BY <2>1, FlattenAppend DEF PE
  <2>3. FlattenSeq(P) \in Seq(S)
    BY <2>1, InFlatten
  <2> QED BY <2>2, <2>3, ConcatEmptySeq
<1> QED BY <1>10, <1>11

=============================================================================
