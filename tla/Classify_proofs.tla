-------------------------- MODULE Classify_proofs --------------------------
(***************************************************************************)
(* What is proved of Classify.  The passes read nothing but the nodes and  *)
(* the references, which no step changes, so what a pass has left behind   *)
(* for a node can be said in terms of them: the invariant says it of every *)
(* node a pass is through with, and of no other.  For the passes that      *)
(* compute edges this is a count: as many pending edges of this kind and   *)
(* with these ends as the references call for.  AddEdge puts the pending   *)
(* edges behind the references, one by one.                                *)
(*                                                                         *)
(* And of Scan, where the classified graph is searched by the rules of the *)
(* rules directory: their paths have single hops, so what satisfies one is *)
(* a row of nodes, each joined to the next by an edge of its step, and the *)
(* facts and derived edges that join them are put back into the words of   *)
(* the files.                                                              *)
(***************************************************************************)
EXTENDS Scan, SeqLemmas, FiniteSetTheorems, TLAPS

(* The numbers of the passes, and whether a pass is through with a node.   *)
PassNumber == [buckets |-> 1, roles |-> 2, groups |-> 3, lambdas |-> 4, grants |-> 5,
               network |-> 6, attached |-> 7, add |-> 8, done |-> 9]
Past(pass, n) == PassNumber[pc] > PassNumber[pass] \/ (pc = pass /\ at > n)

(* What the facts about a node are, from the references alone.             *)
PublicByRefs(n) == \E e \in References : edges[e].dst = n /\ Exposes(edges[e].src)
DeclaredFacts(n) ==
    CASE nodes[n].kind = "S3Bucket" ->
            [sensitive |-> is_tagged_sensitive(nodes[n].attrs), public |-> PublicByRefs(n)]
      [] nodes[n].kind = "IamRole" -> RoleFacts(n)
      [] nodes[n].kind = "SecurityGroup" -> GroupFacts(n)
      [] nodes[n].kind = "LambdaFunction" -> LambdaFacts(n)

FactPass == [S3Bucket |-> "buckets", IamRole |-> "roles", SecurityGroup |-> "groups",
             LambdaFunction |-> "lambdas"]
Due(n) == nodes[n].kind \in DOMAIN FactPass /\ Past(FactPass[nodes[n].kind], n)

FactsSoFar == \A n \in 1..Len(nodes) : derived[n] = IF Due(n) THEN DeclaredFacts(n) ELSE <<>>

(* The edges of the graph are the references and the pending edges added.  *)
AddedSoFar == IF pc \in {"add", "done"} THEN at - 1 ELSE 0
Base == Len(edges) - AddedSoFar
Merged ==
    /\ Base \in Nat
    /\ \A e \in 1..Base : edges[e].kind = "References"
    /\ \A k \in 1..AddedSoFar : edges[Base + k] = pending[k]
    /\ pc = "done" => at = Len(pending) + 1
    /\ pc \notin {"grants", "network", "attached", "add", "done"} => pending = <<>>

(* What one edge says is written.                                          *)

ProfileOf(i) == referenced_node(i, "iam_instance_profile")
Attachable(i) ==
    /\ nodes[i].kind = "Instance" /\ IsProfile(ProfileOf(i))
    /\ referenced_node(ProfileOf(i), "role") # NoNode

IsSound(e) ==
    \/ e.kind = "IamGrants" /\ IsWritten(e)
    \/ /\ e.kind = "NetworkReachable"
       /\ \E k \in ingress_rules_with_open_cidr(e.src) : e.from_port = nodes[e.src].attrs.ingress[k].port
    \/ e.kind = "Attached" /\ Attachable(e.src) /\ e.dst = referenced_node(ProfileOf(e.src), "role")

Sound == \A k \in 1..Len(pending) : IsSound(pending[k])

(* How often an edge is pending.                                           *)

GrantsOf(policy, role, target, i) ==
    {e \in Edge : /\ e.kind = "IamGrants" /\ e.src = role /\ e.dst = target
                  /\ e.holder = policy /\ e.path.stmt = i}
Reaches(g, i) == {e \in Edge : e.kind = "NetworkReachable" /\ e.src = g /\ e.dst = i}
AttachedTo(i) == {e \in Edge : e.kind = "Attached" /\ e.src = i}

GrantsCounted ==
    \A policy, role, target \in 1..Len(nodes) : \A i \in 1..Len(nodes[policy].attrs.policy) :
        Written(policy, target, i) # {} /\ Grants(nodes[policy].attrs.policy[i]) =>
            Count(pending, GrantsOf(policy, role, target, i)) =
                IF Past("grants", policy)
                THEN Cardinality(Links(policy, role)) * Cardinality(Written(policy, target, i)) ELSE 0
ReachesCounted ==
    \A g, i \in 1..Len(nodes) :
        nodes[g].kind = "SecurityGroup" /\ nodes[i].kind = "Instance" =>
            Count(pending, Reaches(g, i)) =
                IF Past("network", i)
                THEN Cardinality(Uses(i, g)) * Cardinality(ingress_rules_with_open_cidr(g)) ELSE 0
AttachedCounted ==
    \A i \in 1..Len(nodes) :
        Count(pending, AttachedTo(i)) = IF Past("attached", i) /\ Attachable(i) THEN 1 ELSE 0

Going ==
    /\ TypeOK /\ FactsSoFar /\ Merged
    /\ Sound /\ GrantsCounted /\ ReachesCounted /\ AttachedCounted

(* The inductive invariant.  A panic ends the pass where it is, before any *)
(* edge is added.                                                          *)
IInv == TypeOK /\ IF pc = "panicked" THEN Added("IamGrants") = {} ELSE Going

-----------------------------------------------------------------------------
(* A sequence lists a set if each member of the set is in it, once.        *)
Lists(s, S) ==
    /\ s \in Seq(S)
    /\ \A x \in S : \E k \in 1..Len(s) : s[k] = x
    /\ \A j, k \in 1..Len(s) : s[j] = s[k] => j = k

LEMMA InOrderLists ==
    ASSUME NEW S, IsFiniteSet(S), S \subseteq Int
    PROVE  Lists(InOrder(S), S)
<1> DEFINE n == Cardinality(S)
           Rank(x) == Cardinality({y \in S : y <= x})
           s == InOrder(S)
<1>1. n \in Nat
  BY FS_CardinalityType
<1>2. s = [k \in 1..n |-> CHOOSE x \in S : Rank(x) = k]
  BY DEF InOrder
<1>3. ASSUME NEW k \in 1..n PROVE s[k] \in S /\ Rank(s[k]) = k
  <2>1. \E x \in S : Rank(x) = k
    BY RankExists
  <2> HIDE DEF Rank, s
  <2> QED BY <1>2, <2>1
<1>4. ASSUME NEW x \in S PROVE Rank(x) \in 1..n
  <2> DEFINE B == {y \in S : y <= x}
  <2>1. B \subseteq S /\ x \in B
    OBVIOUS
  <2>2. Rank(x) = Cardinality(B)
    OBVIOUS
  <2> HIDE DEF B, Rank
  <2>3. IsFiniteSet(B) /\ Cardinality(B) <= n /\ Cardinality(B) \in Nat /\ Cardinality(B) # 0
    BY <2>1, FS_Subset, FS_CardinalityType, FS_EmptySet
  <2> QED BY <1>1, <2>2, <2>3
<1>5. ASSUME NEW x \in S, NEW y \in S, x < y PROVE Rank(x) # Rank(y)
  <2> DEFINE B == {z \in S : z <= x}
             C == {z \in S : z <= y}
  <2>1. B \subseteq C /\ y \in C /\ y \notin B /\ C \subseteq S
    <3>1. x \in Int /\ y \in Int /\ y <= y /\ ~(y <= x)
      BY <1>5
    <3>2. \A z \in S : z <= x => z <= y
      BY <1>5, <3>1
    <3> QED BY <3>1, <3>2
  <2>2. Rank(x) = Cardinality(B) /\ Rank(y) = Cardinality(C)
    OBVIOUS
  <2> HIDE DEF B, C, Rank
  <2>3. IsFiniteSet(C) /\ B # C
    BY <2>1, FS_Subset
  <2> QED BY <2>1, <2>2, <2>3, FS_Subset
<1>6. ASSUME NEW x \in S, NEW y \in S, Rank(x) = Rank(y) PROVE x = y
  <2>1. ~(x < y) /\ ~(y < x)
    BY <1>5, <1>6
  <2> QED BY <2>1
<1> HIDE DEF Rank, s
<1>7. Len(s) = n /\ s \in Seq(S)
  <2>1. s \in [1..n -> S]
    BY <1>2, <1>3
  <2> QED BY <1>1, <2>1, SeqDef, LenProperties
<1>8. \A x \in S : \E k \in 1..n : s[k] = x
  <2> SUFFICES ASSUME NEW x \in S PROVE \E k \in 1..n : s[k] = x
    OBVIOUS
  <2>1. s[Rank(x)] = x
    BY <1>3, <1>4, <1>6
  <2> QED BY <1>4, <2>1
<1>9. \A j, k \in 1..n : s[j] = s[k] => j = k
  BY <1>3
<1> QED BY <1>7, <1>8, <1>9 DEF Lists, s

LEMMA ReverseLists ==
    ASSUME NEW s, NEW S, Lists(s, S) PROVE Lists(Reverse(s), S)
<1> DEFINE n == Len(s)
           r == Reverse(s)
<1>1. /\ n \in Nat /\ \A k \in 1..n : s[k] \in S
      /\ \A x \in S : \E k \in 1..n : s[k] = x
      /\ \A j, k \in 1..n : s[j] = s[k] => j = k
  BY LenProperties, ElementOfSeq DEF Lists
<1>2. r = [k \in 1..n |-> s[(n - k) + 1]]
  BY DEF Reverse
<1> HIDE DEF n, r
<1>3. \A k \in 1..n : (n - k) + 1 \in 1..n /\ (n - ((n - k) + 1)) + 1 = k
  BY <1>1
<1>4. r \in [1..n -> S]
  BY <1>1, <1>2, <1>3
<1>5. r \in Seq(S) /\ Len(r) = n
  BY <1>1, <1>4, SeqDef, LenProperties
<1>6. \A x \in S : \E k \in 1..n : r[k] = x
  <2> SUFFICES ASSUME NEW x \in S PROVE \E k \in 1..n : r[k] = x
    OBVIOUS
  <2>1. PICK k \in 1..n : s[k] = x
    BY <1>1
  <2>2. r[(n - k) + 1] = x
    BY <1>2, <1>3, <2>1
  <2> QED BY <1>3, <2>2
<1>7. ASSUME NEW j \in 1..n, NEW k \in 1..n, r[j] = r[k] PROVE j = k
  <2>1. s[(n - j) + 1] = s[(n - k) + 1]
    BY <1>2, <1>7
  <2>2. (n - j) + 1 = (n - k) + 1
    BY <1>1, <1>3, <2>1
  <2> QED BY <1>1, <2>2
<1> QED BY <1>5, <1>6, <1>7 DEF Lists, r

LEMMA LastFirstLists ==
    ASSUME NEW S, IsFiniteSet(S), S \subseteq Int
    PROVE  Lists(LastFirst(S), S)
BY InOrderLists, ReverseLists DEF LastFirst

LEMMA ListsMembers ==
    ASSUME NEW s, NEW S, Lists(s, S)
    PROVE  /\ Len(s) \in Nat /\ \A k \in 1..Len(s) : s[k] \in S
           /\ \A x \in S : \E k \in 1..Len(s) : s[k] = x
           /\ \A j, k \in 1..Len(s) : s[j] = s[k] => j = k
BY LenProperties, ElementOfSeq DEF Lists

(* A list has as many places of members of T as the set has.               *)
LEMMA ListsCount ==
    ASSUME NEW s, NEW S, Lists(s, S), NEW T, T \subseteq S
    PROVE  /\ IsFiniteSet(T) /\ Cardinality(T) \in Nat
           /\ Cardinality({k \in 1..Len(s) : s[k] \in T}) = Cardinality(T)
<1> DEFINE K == {k \in 1..Len(s) : s[k] \in T}
           f == [k \in K |-> s[k]]
<1>1. /\ Len(s) \in Nat /\ \A x \in S : \E k \in 1..Len(s) : s[k] = x
      /\ \A j, k \in 1..Len(s) : s[j] = s[k] => j = k
  BY ListsMembers
<1>2. IsFiniteSet(K)
  <2>1. K \subseteq 1..Len(s) /\ IsFiniteSet(1..Len(s))
    BY <1>1, FS_Interval
  <2> HIDE DEF K
  <2> QED BY <2>1, FS_Subset
<1>3. f \in [K -> T]
  OBVIOUS
<1>4. \A j, k \in K : f[j] = f[k] => j = k
  BY <1>1
<1>5. \A x \in T : \E k \in K : f[k] = x
  <2> SUFFICES ASSUME NEW x \in T PROVE \E k \in K : f[k] = x
    OBVIOUS
  <2>1. PICK k \in 1..Len(s) : s[k] = x
    BY <1>1
  <2> QED BY <2>1
<1> HIDE DEF f, K
<1>6. ExistsBijection(K, T)
  <2>1. f \in Bijection(K, T)
    BY <1>3, <1>4, <1>5, BijectionIs
  <2> QED BY <2>1, Fun_ExistsBij
<1>7. IsFiniteSet(T) /\ Cardinality(T) = Cardinality(K)
  BY <1>2, <1>6, FS_Bijection
<1>8. Cardinality(T) \in Nat
  BY <1>7, FS_CardinalityType
<1> QED BY <1>7, <1>8 DEF K

-----------------------------------------------------------------------------
(* The references of a node.                                               *)

LEMMA Lengths ==
    ASSUME TypeOK
    PROVE  /\ Len(nodes) \in Nat /\ Len(edges) \in Nat /\ Len(pending) \in Nat
           /\ \A n \in 1..Len(nodes) : nodes[n] \in Node
           /\ \A e \in 1..Len(edges) :
                 /\ edges[e] \in Edge
                 /\ {edges[e].src, edges[e].dst, edges[e].holder} \subseteq 1..Len(nodes)
           /\ \A k \in 1..Len(pending) :
                 /\ pending[k] \in Edge
                 /\ {pending[k].src, pending[k].dst, pending[k].holder} \subseteq 1..Len(nodes)
<1>1. nodes \in Seq(Node) /\ edges \in Seq(Edge) /\ pending \in Seq(Edge)
  BY DEF TypeOK
<1>2. /\ \A n \in 1..Len(nodes) : nodes[n] \in Node
      /\ \A e \in 1..Len(edges) : edges[e] \in Edge
      /\ \A k \in 1..Len(pending) : pending[k] \in Edge
  BY <1>1, ElementOfSeq
<1>3. \A e \in 1..Len(edges) : edges[e] \in ToSet(edges)
  <2>1. DOMAIN edges = 1..Len(edges)
    BY <1>1, LenProperties
  <2> QED BY <2>1 DEF ToSet
<1>4. \A k \in 1..Len(pending) : pending[k] \in ToSet(pending)
  <2>1. DOMAIN pending = 1..Len(pending)
    BY <1>1, LenProperties
  <2> QED BY <2>1 DEF ToSet
<1>5. \A e \in ToSet(edges) \cup ToSet(pending) : {e.src, e.dst, e.holder} \subseteq 1..Len(nodes)
  BY DEF TypeOK
<1> QED BY <1>1, <1>2, <1>3, <1>4, <1>5, LenProperties

LEMMA RefsFound ==
    ASSUME TypeOK, NEW n
    PROVE  /\ OutRefs(n) \subseteq 1..Len(edges) /\ IsFiniteSet(OutRefs(n))
           /\ OutRefs(n) = {r \in References : edges[r].src = n}
           /\ IsFiniteSet(References)
<1>1. OutRefs(n) \subseteq 1..Len(edges) /\ References \subseteq 1..Len(edges) /\ IsFiniteSet(1..Len(edges))
  <2>1. IsFiniteSet(1..Len(edges))
    BY Lengths, FS_Interval
  <2> QED BY <2>1 DEF OutRefs, References
<1>2. OutRefs(n) = {r \in References : edges[r].src = n}
  BY DEF OutRefs, References
<1> QED BY <1>1, <1>2, FS_Subset

AttrRefs(n, attr) == {e \in OutRefs(n) : IsAttr(edges[e].path, attr)}

LEMMA ReferencedIs ==
    ASSUME NEW n, NEW attr
    PROVE  referenced_node(n, attr)
             = IF AttrRefs(n, attr) = {} THEN NoNode ELSE edges[Max(AttrRefs(n, attr))].dst
BY DEF referenced_node, AttrRefs

LEMMA LastRef ==
    ASSUME TypeOK, NEW n, NEW attr, AttrRefs(n, attr) # {}
    PROVE  /\ Max(AttrRefs(n, attr)) \in References
           /\ edges[Max(AttrRefs(n, attr))].src = n
           /\ IsAttr(edges[Max(AttrRefs(n, attr))].path, attr)
<1>1. AttrRefs(n, attr) \subseteq 1..Len(edges) /\ Len(edges) \in Nat
  BY RefsFound, Lengths DEF AttrRefs
<1>2. Max(AttrRefs(n, attr)) \in AttrRefs(n, attr)
  BY <1>1, MaxOf
<1> QED BY <1>2, RefsFound DEF AttrRefs

LEMMA Referenced ==
    ASSUME TypeOK, NEW n, NEW attr, referenced_node(n, attr) # NoNode
    PROVE  /\ referenced_node(n, attr) \in 1..Len(nodes)
           /\ Refers(n, referenced_node(n, attr), attr)
<1>1. AttrRefs(n, attr) # {} /\ referenced_node(n, attr) = edges[Max(AttrRefs(n, attr))].dst
  BY ReferencedIs
<1> DEFINE r == Max(AttrRefs(n, attr))
<1>2. r \in References /\ edges[r].src = n /\ IsAttr(edges[r].path, attr)
  BY <1>1, LastRef
<1> HIDE DEF r
<1>3. edges[r].dst \in 1..Len(nodes)
  BY <1>2, Lengths DEF References
<1>4. Refers(n, edges[r].dst, attr)
  BY <1>2 DEF Refers
<1> QED BY <1>1, <1>3, <1>4 DEF r

LEMMA ReferencedType ==
    ASSUME TypeOK, NEW n, NEW attr
    PROVE  referenced_node(n, attr) \in 0..Len(nodes)
BY Referenced, Lengths DEF NoNode

-----------------------------------------------------------------------------
(* Adding an edge that is not a reference changes no reference, nor what   *)
(* is read off the references.                                             *)

Kept == nodes' = nodes /\ References' = References /\ \A e \in References : edges'[e] = edges[e]

LEMMA RefsKept ==
    ASSUME TypeOK, TypeOK', Kept, NEW n
    PROVE  OutRefs(n)' = OutRefs(n)
<1>1. OutRefs(n) = {r \in References : edges[r].src = n}
  BY RefsFound
<1>2. OutRefs(n)' = {r \in References' : edges'[r].src = n}
  BY DEF OutRefs, References
<1> QED BY <1>1, <1>2 DEF Kept

LEMMA ReferencedKept ==
    ASSUME TypeOK, TypeOK', Kept, NEW n, NEW attr
    PROVE  referenced_node(n, attr)' = referenced_node(n, attr)
<1>1. AttrRefs(n, attr)' = AttrRefs(n, attr)
  <2>1. OutRefs(n)' = OutRefs(n) /\ OutRefs(n) \subseteq References
    BY RefsKept, RefsFound
  <2> QED BY <2>1 DEF AttrRefs, Kept
<1>2. referenced_node(n, attr)'
        = IF AttrRefs(n, attr)' = {} THEN NoNode ELSE edges'[Max(AttrRefs(n, attr)')].dst
  BY DEF referenced_node, AttrRefs
<1>3. AttrRefs(n, attr) # {} => Max(AttrRefs(n, attr)) \in References
  BY LastRef
<1> QED BY <1>1, <1>2, <1>3, ReferencedIs DEF Kept

LEMMA WrittenKept ==
    ASSUME TypeOK, TypeOK', Kept
    PROVE  /\ \A p, t, i : Written(p, t, i)' = Written(p, t, i)
           /\ \A p, r : Links(p, r)' = Links(p, r)
           /\ \A i, g : Uses(i, g)' = Uses(i, g)
           /\ \A g : ingress_rules_with_open_cidr(g)' = ingress_rules_with_open_cidr(g)
<1>1. ASSUME NEW p, NEW t, NEW i PROVE Written(p, t, i)' = Written(p, t, i)
  BY DEF Written, Kept
<1>2. ASSUME NEW p, NEW r PROVE Links(p, r)' = Links(p, r)
  <2>1. \A v : /\ referenced_node(v, "role")' = referenced_node(v, "role")
               /\ referenced_node(v, "policy_arn")' = referenced_node(v, "policy_arn")
    BY ReferencedKept
  <2> QED BY <2>1 DEF Links, Kept
<1>3. ASSUME NEW i, NEW g PROVE Uses(i, g)' = Uses(i, g)
  BY DEF Uses, Kept
<1>4. ASSUME NEW g PROVE ingress_rules_with_open_cidr(g)' = ingress_rules_with_open_cidr(g)
  BY DEF ingress_rules_with_open_cidr, Kept
<1> QED BY <1>1, <1>2, <1>3, <1>4

LEMMA FactsKept ==
    ASSUME TypeOK, TypeOK', Kept, NEW n
    PROVE  DeclaredFacts(n)' = DeclaredFacts(n)
<1>1. PublicByRefs(n)' = PublicByRefs(n)
  <2>1. \A m : Exposes(m)' = Exposes(m)
    BY DEF Exposes, Kept
  <2> QED BY <2>1 DEF PublicByRefs, Kept
<1>2. RoleFacts(n)' = RoleFacts(n) /\ GroupFacts(n)' = GroupFacts(n)
  BY DEF RoleFacts, GroupFacts, Kept
<1>3. LambdaFacts(n)' = LambdaFacts(n)
  <2>1. \A p : InvokableByAnyone(p, n)' = InvokableByAnyone(p, n)
    BY ReferencedKept DEF InvokableByAnyone, Kept
  <2> QED BY <2>1 DEF LambdaFacts, Kept
<1> HIDE DEF PublicByRefs, RoleFacts, GroupFacts, LambdaFacts
<1> QED BY <1>1, <1>2, <1>3 DEF DeclaredFacts, Kept

LEMMA SoundKept ==
    ASSUME TypeOK, TypeOK', Kept, NEW e
    PROVE  IsSound(e) => IsSound(e)'
<1>1. IsWritten(e) => IsWritten(e)'
  <2>1. \A a, b, attr : Refers(a, b, attr)' = Refers(a, b, attr)
    BY DEF Refers, Kept
  <2>2. Nodes("IamRolePolicyAttachment")' = Nodes("IamRolePolicyAttachment")
    BY DEF Nodes, Kept
  <2> QED BY <2>1, <2>2 DEF IsWritten, Kept
<1>2. \A m : ProfileOf(m)' = ProfileOf(m)
  BY ReferencedKept DEF ProfileOf
<1>3. \A m : referenced_node(m, "role")' = referenced_node(m, "role")
  BY ReferencedKept
<1>4. \A m : Attachable(m)' = Attachable(m)
  BY <1>2, <1>3 DEF Attachable, IsProfile, Kept
<1>5. \A g : ingress_rules_with_open_cidr(g)' = ingress_rules_with_open_cidr(g)
  BY DEF ingress_rules_with_open_cidr, Kept
<1>6. ASSUME e.kind = "IamGrants", IsWritten(e) PROVE IsSound(e)'
  BY <1>1, <1>6 DEF IsSound
<1>7. ASSUME e.kind = "NetworkReachable",
             \E k \in ingress_rules_with_open_cidr(e.src) : e.from_port = nodes[e.src].attrs.ingress[k].port
      PROVE  IsSound(e)'
  BY <1>5, <1>7 DEF IsSound, Kept
<1>8. ASSUME e.kind = "Attached", Attachable(e.src), e.dst = referenced_node(ProfileOf(e.src), "role")
      PROVE  IsSound(e)'
  BY <1>2, <1>3, <1>4, <1>8 DEF IsSound
<1> QED BY <1>6, <1>7, <1>8 DEF IsSound

-----------------------------------------------------------------------------
(* The edges one iteration computes.                                       *)

LEMMA PolicyType ==
    ASSUME TypeOK, NEW n \in 1..Len(nodes)
    PROVE  /\ nodes[n].attrs.policy \in Seq(Statement) /\ Len(nodes[n].attrs.policy) \in Nat
           /\ \A i \in 1..Len(nodes[n].attrs.policy) : nodes[n].attrs.policy[i].actions \in Seq(Action)
           /\ \A r \in 1..Len(nodes[n].attrs.ingress) : nodes[n].attrs.ingress[r].port \in Nat
           /\ Len(nodes[n].attrs.ingress) \in Nat
<1> DEFINE Rule == [cidrs : SUBSET (OpenCidr \cup {"10.0.0.0/8"}), port : Nat]
<1>1. nodes[n] \in Node
  BY Lengths
<1>2. nodes[n].attrs \in Attrs
  BY <1>1 DEF Node
<1>3. nodes[n].attrs.policy \in Seq(Statement) /\ nodes[n].attrs.ingress \in Seq(Rule)
  BY <1>2 DEF Attrs
<1> HIDE DEF Rule
<1>4. /\ Len(nodes[n].attrs.policy) \in Nat /\ Len(nodes[n].attrs.ingress) \in Nat
      /\ \A i \in 1..Len(nodes[n].attrs.policy) : nodes[n].attrs.policy[i] \in Statement
      /\ \A r \in 1..Len(nodes[n].attrs.ingress) : nodes[n].attrs.ingress[r] \in Rule
  BY <1>3, ElementOfSeq, LenProperties
<1>5. \A i \in 1..Len(nodes[n].attrs.policy) : nodes[n].attrs.policy[i].actions \in Seq(Action)
  BY <1>4 DEF Statement
<1>6. \A r \in 1..Len(nodes[n].attrs.ingress) : nodes[n].attrs.ingress[r].port \in Nat
  BY <1>4 DEF Rule
<1> QED BY <1>3, <1>4, <1>5, <1>6

LEMMA GrantEdgeType ==
    ASSUME TypeOK, NEW holder \in 1..Len(nodes), NEW i \in 1..Len(nodes[holder].attrs.policy),
           NEW role \in 1..Len(nodes), NEW target \in 1..Len(nodes)
    PROVE  GrantEdge(holder, i, role, target) \in Edge
<1>1. nodes[holder].attrs.policy[i].actions \in Seq(Action)
  BY PolicyType
<1>2. Len(nodes[holder].attrs.policy) \in Nat /\ Len(nodes) \in Nat
  BY PolicyType, Lengths
<1>3. holder \in Nat /\ i \in Nat /\ role \in Nat /\ target \in Nat
  BY <1>2
<1>4. [attr |-> "policy", stmt |-> i, rest |-> ""] \in AttrPath
  BY <1>3 DEF AttrPath
<1> HIDE DEF AttrPath
<1> QED BY <1>1, <1>3, <1>4 DEF GrantEdge, Edge

LEMMA TargetsAre ==
    ASSUME TypeOK, NEW holder, NEW i
    PROVE  /\ Targets(holder, i) \subseteq OutRefs(holder)
           /\ \A r \in Targets(holder, i) : NamesResource(edges[r].path) /\ edges[r].path.stmt \in {0, i}
           /\ Lists(LastFirst(Targets(holder, i)), Targets(holder, i))
<1>1. Precise(holder, i) \subseteq OutRefs(holder)
  BY DEF Precise
<1>2. \A r \in Precise(holder, i) : NamesResource(edges[r].path) /\ edges[r].path.stmt = i
  BY DEF Precise, NamesResource
<1>3. TargetsAnywhere(holder, i) \subseteq OutRefs(holder)
  BY DEF TargetsAnywhere
<1>4. NoIndexedEvidence(holder) => \A r \in TargetsAnywhere(holder, i) :
         NamesResource(edges[r].path) /\ edges[r].path.stmt = 0
  BY DEF TargetsAnywhere, NoIndexedEvidence
<1>5. /\ Targets(holder, i) \subseteq OutRefs(holder)
      /\ \A r \in Targets(holder, i) : NamesResource(edges[r].path) /\ edges[r].path.stmt \in {0, i}
  BY <1>1, <1>2, <1>3, <1>4 DEF Targets
<1>6. IsFiniteSet(Targets(holder, i)) /\ Targets(holder, i) \subseteq Int
  <2>1. OutRefs(holder) \subseteq 1..Len(edges) /\ IsFiniteSet(OutRefs(holder))
    BY RefsFound
  <2>2. OutRefs(holder) \subseteq Int
    BY <2>1
  <2> QED BY <1>5, <2>1, <2>2, FS_Subset
<1> QED BY <1>5, <1>6, LastFirstLists

(* A grant of a statement goes to what a reference of its resources names. *)
IsGrantOf(e, holder, i, role) ==
    /\ Grants(nodes[holder].attrs.policy[i])
    /\ \E r \in Targets(holder, i) : e = GrantEdge(holder, i, role, edges[r].dst)

LEMMA StatementGrants ==
    ASSUME TypeOK, NEW holder \in 1..Len(nodes), NEW i \in 1..Len(nodes[holder].attrs.policy),
           NEW role \in 1..Len(nodes)
    PROVE  /\ grants_of_statement(holder, i, role) \in Seq(Edge)
           /\ \A e : In(e, grants_of_statement(holder, i, role)) => IsGrantOf(e, holder, i, role)
<1> DEFINE targets == LastFirst(Targets(holder, i))
           m == Len(targets)
           s == [t \in 1..m |-> GrantEdge(holder, i, role, edges[targets[t]].dst)]
<1>1. m \in Nat /\ \A t \in 1..m : targets[t] \in Targets(holder, i)
  BY TargetsAre, ListsMembers
<1>2. grants_of_statement(holder, i, role) = IF Grants(nodes[holder].attrs.policy[i]) THEN s ELSE <<>>
  BY DEF grants_of_statement
<1>3. \A r \in Targets(holder, i) : edges[r].dst \in 1..Len(nodes)
  BY TargetsAre, RefsFound, Lengths
<1> HIDE DEF targets, m
<1>4. \A t \in 1..m : GrantEdge(holder, i, role, edges[targets[t]].dst) \in Edge
  BY <1>1, <1>3, GrantEdgeType
<1>5. s \in Seq(Edge) /\ Len(s) = m
  <2>1. s \in [1..m -> Edge]
    BY <1>4
  <2> HIDE DEF s
  <2> QED BY <1>1, <2>1, SeqDef, LenProperties
<1>6. CASE Grants(nodes[holder].attrs.policy[i])
  <2>1. ASSUME NEW e, In(e, s) PROVE IsGrantOf(e, holder, i, role)
    <3>1. PICK t \in 1..m : e = GrantEdge(holder, i, role, edges[targets[t]].dst)
      BY <1>5, <2>1 DEF In
    <3> QED BY <1>1, <1>6, <3>1 DEF IsGrantOf
  <2> HIDE DEF s
  <2> QED BY <1>2, <1>5, <1>6, <2>1
<1>7. CASE ~Grants(nodes[holder].attrs.policy[i])
  <2>1. grants_of_statement(holder, i, role) = <<>>
    BY <1>2, <1>7
  <2>2. \A e : ~In(e, <<>>)
    BY DEF In
  <2> QED BY <2>1, <2>2
<1> QED BY <1>6, <1>7

LEMMA HolderGrants ==
    ASSUME TypeOK, NEW holder \in 1..Len(nodes), NEW role \in 1..Len(nodes)
    PROVE  /\ grants_from_policy_holder(holder, role) \in Seq(Edge)
           /\ \A e : In(e, grants_from_policy_holder(holder, role)) =>
                 \E i \in 1..Len(nodes[holder].attrs.policy) : IsGrantOf(e, holder, i, role)
<1> DEFINE m == Len(nodes[holder].attrs.policy)
           parts == [i \in 1..m |-> grants_of_statement(holder, i, role)]
<1>1. m \in Nat
  BY PolicyType
<1>2. \A i \in 1..m : /\ grants_of_statement(holder, i, role) \in Seq(Edge)
                      /\ \A e : In(e, grants_of_statement(holder, i, role)) => IsGrantOf(e, holder, i, role)
  BY StatementGrants
<1>3. FlattenSeq(parts) = grants_from_policy_holder(holder, role)
  BY DEF grants_from_policy_holder
<1>4. parts \in [1..m -> Seq(Edge)] /\ \A i \in 1..m : parts[i] = grants_of_statement(holder, i, role)
  BY <1>2
<1> HIDE DEF parts
<1>5. parts \in Seq(Seq(Edge)) /\ Len(parts) = m
  <2> HIDE DEF m
  <2> QED BY <1>1, <1>4, SeqDef, LenProperties
<1> QED BY <1>2, <1>3, <1>4, <1>5, InFlatten

LEMMA IsGrantSound ==
    ASSUME TypeOK, NEW holder \in 1..Len(nodes), NEW i \in 1..Len(nodes[holder].attrs.policy),
           NEW role \in 1..Len(nodes), NEW e, IsGrantOf(e, holder, i, role),
           \/ nodes[holder].kind = "IamRolePolicy" /\ Refers(holder, role, "role")
           \/ /\ nodes[holder].kind = "IamPolicy"
              /\ \E a \in Nodes("IamRolePolicyAttachment") :
                    Refers(a, holder, "policy_arn") /\ Refers(a, role, "role")
    PROVE  /\ e.kind = "IamGrants" /\ IsSound(e) /\ e.holder = holder
           /\ {e.src, e.dst, e.holder} \subseteq 1..Len(nodes)
<1>1. PICK r \in Targets(holder, i) : e = GrantEdge(holder, i, role, edges[r].dst)
  BY DEF IsGrantOf
<1>2. /\ r \in References /\ edges[r].src = holder
      /\ NamesResource(edges[r].path) /\ edges[r].path.stmt \in {0, i}
  BY TargetsAre, RefsFound
<1>3. edges[r].dst \in 1..Len(nodes)
  BY <1>2, Lengths DEF References
<1>4. /\ e.kind = "IamGrants" /\ e.src = role /\ e.dst = edges[r].dst /\ e.holder = holder
      /\ e.path.stmt = i /\ e.actions = nodes[holder].attrs.policy[i].actions
  BY <1>1 DEF GrantEdge
<1>5. nodes[holder].attrs.policy[i].effect = "Allow" /\ e.actions # <<>>
  BY <1>4 DEF IsGrantOf, Grants
<1>6. \E q \in References : /\ edges[q].src = e.holder /\ edges[q].dst = e.dst
                            /\ NamesResource(edges[q].path) /\ edges[q].path.stmt \in {0, e.path.stmt}
  BY <1>2, <1>4
<1>7. IsWritten(e)
  BY <1>4, <1>5, <1>6 DEF IsWritten
<1> QED BY <1>3, <1>4, <1>7 DEF IsSound

(* What computing the grants of a node adds.                               *)
LEMMA AttachmentsAre ==
    ASSUME TypeOK, NEW n
    PROVE  /\ Lists(InOrder(Attachments(n)), Attachments(n))
           /\ \A a \in Attachments(n) :
                 /\ a \in Nodes("IamRolePolicyAttachment")
                 /\ n = NoNode \/ Refers(a, n, "policy_arn")
                 /\ referenced_node(a, "role") \in 1..Len(nodes)
                 /\ Refers(a, referenced_node(a, "role"), "role")
<1>1. Attachments(n) \subseteq 1..Len(nodes)
  BY DEF Attachments
<1>2. IsFiniteSet(Attachments(n)) /\ Attachments(n) \subseteq Int
  <2>1. IsFiniteSet(1..Len(nodes)) /\ 1..Len(nodes) \subseteq Int
    BY Lengths, FS_Interval
  <2> QED BY <1>1, <2>1, FS_Subset
<1>3. \A a \in Attachments(n) :
         /\ a \in Nodes("IamRolePolicyAttachment")
         /\ referenced_node(a, "policy_arn") = n /\ referenced_node(a, "role") # NoNode
  BY DEF Attachments, Holds, Nodes
<1>4. \A a \in Attachments(n) : n = NoNode \/ Refers(a, n, "policy_arn")
  BY <1>3, Referenced
<1>5. \A a \in Attachments(n) : /\ referenced_node(a, "role") \in 1..Len(nodes)
                                /\ Refers(a, referenced_node(a, "role"), "role")
  BY <1>3, Referenced
<1> QED BY <1>2, <1>3, <1>4, <1>5, InOrderLists

IsFrom(e, kind, n) ==
    /\ e.kind = kind /\ IsSound(e) /\ {e.src, e.dst, e.holder} \subseteq 1..Len(nodes)
    /\ n = IF kind = "IamGrants" THEN e.holder ELSE IF kind = "NetworkReachable" THEN e.dst ELSE e.src

LEMMA GrantEdgesAre ==
    ASSUME TypeOK, NEW n \in 1..Len(nodes)
    PROVE  GrantEdges(n) \in Seq(Edge) /\ \A e : In(e, GrantEdges(n)) => IsFrom(e, "IamGrants", n)
<1>1. CASE nodes[n].kind = "IamRolePolicy" /\ referenced_node(n, "role") # NoNode
  <2> DEFINE role == referenced_node(n, "role")
  <2>1. role \in 1..Len(nodes) /\ Refers(n, role, "role")
    BY <1>1, Referenced
  <2>2. GrantEdges(n) = grants_from_policy_holder(n, role)
    BY <1>1 DEF GrantEdges
  <2> HIDE DEF role
  <2>3. GrantEdges(n) \in Seq(Edge)
    BY <2>1, <2>2, HolderGrants
  <2>4. ASSUME NEW e, In(e, GrantEdges(n)) PROVE IsFrom(e, "IamGrants", n)
    <3>1. PICK i \in 1..Len(nodes[n].attrs.policy) : IsGrantOf(e, n, i, role)
      BY <2>1, <2>2, <2>4, HolderGrants
    <3>2. /\ e.kind = "IamGrants" /\ IsSound(e) /\ e.holder = n
          /\ {e.src, e.dst, e.holder} \subseteq 1..Len(nodes)
      BY <1>1, <2>1, <3>1, IsGrantSound
    <3> QED BY <3>2 DEF IsFrom
  <2> QED BY <2>3, <2>4
<1>2. CASE nodes[n].kind = "IamPolicy"
  <2> DEFINE attached == InOrder(Attachments(n))
             m == Len(attached)
             parts == [a \in 1..m |-> grants_from_policy_holder(n, referenced_node(attached[a], "role"))]
  <2>1. m \in Nat /\ \A a \in 1..m : attached[a] \in Attachments(n)
    BY AttachmentsAre, ListsMembers
  <2>2. GrantEdges(n) = FlattenSeq(parts)
    BY <1>2 DEF GrantEdges
  <2> HIDE DEF attached, m
  <2>3. n # NoNode
    BY Lengths DEF NoNode
  <2>4. \A a \in 1..m :
           /\ attached[a] \in Nodes("IamRolePolicyAttachment") /\ Refers(attached[a], n, "policy_arn")
           /\ referenced_node(attached[a], "role") \in 1..Len(nodes)
           /\ Refers(attached[a], referenced_node(attached[a], "role"), "role")
    BY <2>1, <2>3, AttachmentsAre
  <2>5. \A a \in 1..m : grants_from_policy_holder(n, referenced_node(attached[a], "role")) \in Seq(Edge)
    BY <2>4, HolderGrants
  <2>6. parts \in [1..m -> Seq(Edge)]
        /\ \A a \in 1..m : parts[a] = grants_from_policy_holder(n, referenced_node(attached[a], "role"))
    BY <2>5
  <2> HIDE DEF parts
  <2>7. parts \in Seq(Seq(Edge)) /\ Len(parts) = m
    BY <2>1, <2>6, SeqDef, LenProperties
  <2>8. ASSUME NEW e, In(e, FlattenSeq(parts)) PROVE IsFrom(e, "IamGrants", n)
    <3>1. PICK a \in 1..m : In(e, parts[a])
      BY <2>7, <2>8, InFlatten
    <3> DEFINE role == referenced_node(attached[a], "role")
    <3>2. role \in 1..Len(nodes) /\ In(e, grants_from_policy_holder(n, role))
      BY <2>4, <2>6, <3>1
    <3>3. \E b \in Nodes("IamRolePolicyAttachment") : Refers(b, n, "policy_arn") /\ Refers(b, role, "role")
      BY <2>4
    <3> HIDE DEF role
    <3>4. PICK i \in 1..Len(nodes[n].attrs.policy) : IsGrantOf(e, n, i, role)
      BY <3>2, HolderGrants
    <3>5. /\ e.kind = "IamGrants" /\ IsSound(e) /\ e.holder = n
          /\ {e.src, e.dst, e.holder} \subseteq 1..Len(nodes)
      BY <1>2, <3>2, <3>3, <3>4, IsGrantSound
    <3> QED BY <3>5 DEF IsFrom
  <2> QED BY <2>2, <2>7, <2>8, InFlatten
<1>3. CASE ~(nodes[n].kind = "IamRolePolicy" /\ referenced_node(n, "role") # NoNode)
           /\ nodes[n].kind # "IamPolicy"
  <2>1. GrantEdges(n) = <<>>
    BY <1>3 DEF GrantEdges
  <2>2. \A e : ~In(e, <<>>)
    BY DEF In
  <2> QED BY <2>1, <2>2
<1> QED BY <1>1, <1>2, <1>3

LEMMA OpenFinite ==
    ASSUME TypeOK, NEW g \in 1..Len(nodes)
    PROVE  Lists(InOrder(ingress_rules_with_open_cidr(g)), ingress_rules_with_open_cidr(g))
<1> DEFINE m == Len(nodes[g].attrs.ingress)
<1>1. m \in Nat
  BY PolicyType
<1>2. ingress_rules_with_open_cidr(g) \subseteq 1..m
  BY DEF ingress_rules_with_open_cidr
<1> HIDE DEF m
<1>3. IsFiniteSet(1..m) /\ 1..m \subseteq Int
  BY <1>1, FS_Interval
<1>4. IsFiniteSet(ingress_rules_with_open_cidr(g)) /\ ingress_rules_with_open_cidr(g) \subseteq Int
  BY <1>2, <1>3, FS_Subset
<1> QED BY <1>4, InOrderLists

LEMMA ReachEdgeType ==
    ASSUME TypeOK, NEW g \in 1..Len(nodes), NEW n \in 1..Len(nodes), NEW port \in Nat
    PROVE  ReachEdge(g, n, port) \in Edge
<1>1. g \in Nat /\ n \in Nat
  BY Lengths
<1>2. [attr |-> "ingress", stmt |-> 0, rest |-> ""] \in AttrPath
  BY DEF AttrPath
<1>3. <<>> \in Seq(Action)
  OBVIOUS
<1> HIDE DEF AttrPath
<1> QED BY <1>1, <1>2, <1>3 DEF ReachEdge, Edge

LEMMA AttachedEdgeType ==
    ASSUME TypeOK, NEW i \in 1..Len(nodes), NEW r \in 1..Len(nodes)
    PROVE  AttachedEdge(i, r) \in Edge
<1>1. i \in Nat /\ r \in Nat
  BY Lengths
<1>2. [attr |-> "iam_instance_profile", stmt |-> 0, rest |-> ""] \in AttrPath
  BY DEF AttrPath
<1>3. <<>> \in Seq(Action)
  OBVIOUS
<1> HIDE DEF AttrPath
<1> QED BY <1>1, <1>2, <1>3 DEF AttachedEdge, Edge

(* The edges through one use of a group.                                   *)
LEMMA ThroughIs ==
    ASSUME TypeOK, NEW g \in 1..Len(nodes), NEW n \in 1..Len(nodes)
    PROVE  /\ Through(g, n) \in Seq(Edge)
           /\ Len(Through(g, n)) = Cardinality(ingress_rules_with_open_cidr(g))
           /\ \A k \in 1..Len(Through(g, n)) :
                 \E r \in ingress_rules_with_open_cidr(g) :
                     Through(g, n)[k] = ReachEdge(g, n, nodes[g].attrs.ingress[r].port)
<1> DEFINE O == ingress_rules_with_open_cidr(g)
           open == InOrder(O)
           m == Len(open)
           s == [k \in 1..m |-> ReachEdge(g, n, nodes[g].attrs.ingress[open[k]].port)]
<1>1. m \in Nat /\ \A k \in 1..m : open[k] \in O
  BY OpenFinite, ListsMembers
<1>2. m = Cardinality(O)
  <2>1. Cardinality({k \in 1..m : open[k] \in O}) = Cardinality(O)
    BY OpenFinite, ListsCount
  <2>2. {k \in 1..m : open[k] \in O} = 1..m
    BY <1>1
  <2> HIDE DEF m, O, open
  <2>3. Cardinality(1..m) = m
    BY <1>1, FS_Interval
  <2> QED BY <2>1, <2>2, <2>3
<1>3. Through(g, n) = s
  BY DEF Through
<1>4. O \subseteq 1..Len(nodes[g].attrs.ingress)
  BY DEF ingress_rules_with_open_cidr
<1> HIDE DEF open, m, O
<1>5. \A k \in 1..m : ReachEdge(g, n, nodes[g].attrs.ingress[open[k]].port) \in Edge
  <2>1. \A k \in 1..m : nodes[g].attrs.ingress[open[k]].port \in Nat
    BY <1>1, <1>4, PolicyType
  <2> QED BY <2>1, ReachEdgeType
<1>6. s \in [1..m -> Edge] /\ \A k \in 1..m : s[k] = ReachEdge(g, n, nodes[g].attrs.ingress[open[k]].port)
  BY <1>5
<1> HIDE DEF s
<1>7. s \in Seq(Edge) /\ Len(s) = m
  BY <1>1, <1>6, SeqDef, LenProperties
<1> QED BY <1>1, <1>2, <1>3, <1>6, <1>7 DEF O

UsesBy(n, attr) ==
    {e \in OutRefs(n) : edges[e].path.attr = attr /\ nodes[edges[e].dst].kind = "SecurityGroup"}

LEMMA GroupsAre ==
    ASSUME TypeOK, NEW n, NEW attr
    PROVE  /\ Lists(GroupsOf(n, attr), UsesBy(n, attr))
           /\ GroupsOf(n, attr) \in Seq(1..Len(edges))
           /\ UsesBy(n, attr) \subseteq 1..Len(edges) /\ IsFiniteSet(UsesBy(n, attr))
<1>1. UsesBy(n, attr) \subseteq OutRefs(n)
  BY DEF UsesBy
<1>2. OutRefs(n) \subseteq 1..Len(edges) /\ IsFiniteSet(OutRefs(n))
  BY RefsFound
<1>3. UsesBy(n, attr) \subseteq Int /\ IsFiniteSet(UsesBy(n, attr)) /\ UsesBy(n, attr) \subseteq 1..Len(edges)
  BY <1>1, <1>2, FS_Subset, Lengths
<1>4. GroupsOf(n, attr) = LastFirst(UsesBy(n, attr))
  BY DEF GroupsOf, UsesBy
<1>5. Lists(GroupsOf(n, attr), UsesBy(n, attr))
  BY <1>3, <1>4, LastFirstLists
<1>6. GroupsOf(n, attr) \in Seq(UsesBy(n, attr))
  BY <1>5 DEF Lists
<1>7. GroupsOf(n, attr) \in Seq(1..Len(edges))
  BY <1>3, <1>6
<1> QED BY <1>3, <1>5, <1>7

GroupUses(n) == GroupsOf(n, "vpc_security_group_ids") \o GroupsOf(n, "security_groups")
ThroughEach(n) == [u \in 1..Len(GroupUses(n)) |-> Through(edges[GroupUses(n)[u]].dst, n)]

LEMMA NetworkParts ==
    ASSUME TypeOK, NEW n \in 1..Len(nodes)
    PROVE  /\ GroupUses(n) \in Seq(1..Len(edges)) /\ Len(GroupUses(n)) \in Nat
           /\ \A u \in 1..Len(GroupUses(n)) :
                 GroupUses(n)[u] \in 1..Len(edges) /\ edges[GroupUses(n)[u]].dst \in 1..Len(nodes)
           /\ ThroughEach(n) \in Seq(Seq(Edge)) /\ Len(ThroughEach(n)) = Len(GroupUses(n))
           /\ \A u \in 1..Len(GroupUses(n)) : ThroughEach(n)[u] = Through(edges[GroupUses(n)[u]].dst, n)
<1>1. GroupUses(n) \in Seq(1..Len(edges)) /\ Len(GroupUses(n)) \in Nat
  <2>1. /\ GroupsOf(n, "vpc_security_group_ids") \in Seq(1..Len(edges))
        /\ GroupsOf(n, "security_groups") \in Seq(1..Len(edges))
    BY GroupsAre
  <2>2. GroupUses(n) \in Seq(1..Len(edges))
    BY <2>1, ConcatProperties DEF GroupUses
  <2> QED BY <2>2, LenProperties
<1>2. \A u \in 1..Len(GroupUses(n)) : GroupUses(n)[u] \in 1..Len(edges)
  BY <1>1, ElementOfSeq
<1>3. \A u \in 1..Len(GroupUses(n)) : edges[GroupUses(n)[u]].dst \in 1..Len(nodes)
  BY <1>2, Lengths
<1>4. \A u \in 1..Len(GroupUses(n)) : Through(edges[GroupUses(n)[u]].dst, n) \in Seq(Edge)
  BY <1>3, ThroughIs
<1> DEFINE m == Len(GroupUses(n))
           parts == ThroughEach(n)
<1>5. m \in Nat /\ parts \in [1..m -> Seq(Edge)]
  BY <1>1, <1>4 DEF ThroughEach
<1>6. \A u \in 1..m : parts[u] = Through(edges[GroupUses(n)[u]].dst, n)
  BY DEF ThroughEach
<1> HIDE DEF m, parts
<1>7. parts \in Seq(Seq(Edge)) /\ Len(parts) = m
  BY <1>5, SeqDef, LenProperties
<1> QED BY <1>1, <1>2, <1>3, <1>6, <1>7 DEF m, parts

LEMMA NetworkEdgesAre ==
    ASSUME TypeOK, NEW n \in 1..Len(nodes)
    PROVE  NetworkEdges(n) \in Seq(Edge) /\ \A e : In(e, NetworkEdges(n)) => IsFrom(e, "NetworkReachable", n)
<1>1. CASE nodes[n].kind = "Instance"
  <2>1. NetworkEdges(n) = FlattenSeq(ThroughEach(n))
    BY <1>1 DEF NetworkEdges, ThroughEach, GroupUses
  <2>2. ASSUME NEW e, In(e, FlattenSeq(ThroughEach(n))) PROVE IsFrom(e, "NetworkReachable", n)
    <3>1. PICK u \in 1..Len(ThroughEach(n)) : In(e, ThroughEach(n)[u])
      BY <2>2, NetworkParts, InFlatten
    <3> DEFINE g == edges[GroupUses(n)[u]].dst
    <3>2. g \in 1..Len(nodes) /\ In(e, Through(g, n))
      BY <3>1, NetworkParts
    <3> HIDE DEF g
    <3>3. PICK r \in ingress_rules_with_open_cidr(g) : e = ReachEdge(g, n, nodes[g].attrs.ingress[r].port)
      BY <3>2, ThroughIs DEF In
    <3>4. /\ e.kind = "NetworkReachable" /\ e.src = g /\ e.dst = n /\ e.holder = g
          /\ e.from_port = nodes[g].attrs.ingress[r].port
      BY <3>3 DEF ReachEdge
    <3>5. IsSound(e)
      BY <3>4 DEF IsSound
    <3> QED BY <3>2, <3>4, <3>5 DEF IsFrom
  <2> QED BY <2>1, <2>2, NetworkParts, InFlatten
<1>2. CASE nodes[n].kind # "Instance"
  <2>1. NetworkEdges(n) = <<>>
    BY <1>2 DEF NetworkEdges
  <2>2. \A e : ~In(e, <<>>)
    BY DEF In
  <2> QED BY <2>1, <2>2
<1> QED BY <1>1, <1>2

LEMMA AttachedEdgesIs ==
    ASSUME TypeOK, NEW n \in 1..Len(nodes)
    PROVE  AttachedEdges(n) = IF Attachable(n) THEN <<AttachedEdge(n, referenced_node(ProfileOf(n), "role"))>> ELSE <<>>
BY DEF AttachedEdges, Attachable, ProfileOf

LEMMA AttachedEdgesAre ==
    ASSUME TypeOK, NEW n \in 1..Len(nodes)
    PROVE  AttachedEdges(n) \in Seq(Edge) /\ \A e : In(e, AttachedEdges(n)) => IsFrom(e, "Attached", n)
<1>1. CASE Attachable(n)
  <2> DEFINE role == referenced_node(ProfileOf(n), "role")
             e == AttachedEdge(n, role)
  <2>1. role \in 1..Len(nodes)
    BY <1>1, Referenced DEF Attachable
  <2>2. AttachedEdges(n) = <<e>> /\ e \in Edge
    BY <1>1, <2>1, AttachedEdgesIs, AttachedEdgeType
  <2>3. e.kind = "Attached" /\ e.src = n /\ e.holder = n /\ e.dst = role
    BY DEF AttachedEdge
  <2>4. IsSound(e)
    BY <1>1, <2>3 DEF IsSound
  <2>5. IsFrom(e, "Attached", n)
    BY <2>1, <2>3, <2>4 DEF IsFrom
  <2> HIDE DEF e
  <2>6. \A f : In(f, <<e>>) => f = e
    BY DEF In
  <2> QED BY <2>2, <2>5, <2>6
<1>2. CASE ~Attachable(n)
  <2>1. AttachedEdges(n) = <<>>
    BY <1>2, AttachedEdgesIs
  <2>2. \A e : ~In(e, <<>>)
    BY DEF In
  <2> QED BY <2>1, <2>2
<1> QED BY <1>1, <1>2

-----------------------------------------------------------------------------
(* How often one iteration computes an edge.                               *)

LEMMA CountOfNone ==
    ASSUME NEW s, NEW P, \A e : In(e, s) => e \notin P
    PROVE  Count(s, P) = 0
<1>1. \A k \in 1..Len(s) : s[k] \notin P
  BY DEF In
<1> QED BY <1>1, CountNone

LEMMA CountOfEmpty == ASSUME NEW P PROVE Count(<<>>, P) = 0
<1>1. \A e : ~In(e, <<>>)
  BY DEF In
<1> QED BY <1>1, CountOfNone

(* A grant is counted once for each reference it is written by.            *)
LEMMA StatementCount ==
    ASSUME TypeOK,
           NEW policy \in 1..Len(nodes), NEW role \in 1..Len(nodes), NEW target \in 1..Len(nodes),
           NEW i \in 1..Len(nodes[policy].attrs.policy),
           Written(policy, target, i) # {}, Grants(nodes[policy].attrs.policy[i]),
           NEW j \in 1..Len(nodes[policy].attrs.policy), NEW r \in 1..Len(nodes)
    PROVE  Count(grants_of_statement(policy, j, r), GrantsOf(policy, role, target, i))
             = IF r = role /\ j = i THEN Cardinality(Written(policy, target, i)) ELSE 0
<1> DEFINE P == GrantsOf(policy, role, target, i)
           W == Written(policy, target, i)
<1>1. CASE ~(r = role /\ j = i)
  <2>1. ASSUME NEW e, In(e, grants_of_statement(policy, j, r)) PROVE e \notin P
    <3>1. IsGrantOf(e, policy, j, r)
      BY <2>1, StatementGrants
    <3>2. PICK q \in Targets(policy, j) : e = GrantEdge(policy, j, r, edges[q].dst)
      BY <3>1 DEF IsGrantOf
    <3>3. e.src = r /\ e.path.stmt = j
      BY <3>2 DEF GrantEdge
    <3> QED BY <1>1, <3>3 DEF GrantsOf
  <2> HIDE DEF P
  <2>2. Count(grants_of_statement(policy, j, r), P) = 0
    BY <2>1, CountOfNone
  <2> QED BY <1>1, <2>2 DEF P
<1>2. CASE r = role /\ j = i
  <2> DEFINE targets == LastFirst(Targets(policy, i))
             m == Len(targets)
             s == [t \in 1..m |-> GrantEdge(policy, i, role, edges[targets[t]].dst)]
  <2>1. grants_of_statement(policy, i, role) = s
    BY DEF grants_of_statement
  <2>2. W = {e \in Precise(policy, i) : edges[e].dst = target}
    <3>1. \A e : e \in W <=> e \in References /\ edges[e].src = policy /\ edges[e].dst = target
                             /\ edges[e].path.stmt = i /\ edges[e].path.rest = "Resource"
      BY DEF Written
    <3>2. \A e : e \in Precise(policy, i) <=> e \in References /\ edges[e].src = policy
                             /\ edges[e].path.stmt = i /\ edges[e].path.rest = "Resource"
      BY RefsFound DEF Precise
    <3> HIDE DEF W
    <3> QED BY <3>1, <3>2
  <2>3. Targets(policy, i) = Precise(policy, i)
    BY <2>2 DEF Targets
  <2>4. Lists(targets, Targets(policy, i)) /\ m \in Nat /\ \A t \in 1..m : targets[t] \in Targets(policy, i)
    BY TargetsAre, ListsMembers
  <2> HIDE DEF W
  <2>5. Cardinality({t \in 1..m : targets[t] \in W}) = Cardinality(W)
    <3>1. W \subseteq Targets(policy, i)
      BY <2>2, <2>3
    <3> HIDE DEF targets
    <3> QED BY <2>4, <3>1, ListsCount
  <2> HIDE DEF targets, m
  <2>6. \A t \in 1..m : s[t] \in P <=> targets[t] \in W
    <3> SUFFICES ASSUME NEW t \in 1..m PROVE s[t] \in P <=> targets[t] \in W
      OBVIOUS
    <3>1. s[t] = GrantEdge(policy, i, role, edges[targets[t]].dst)
      OBVIOUS
    <3> HIDE DEF s
    <3>2. edges[targets[t]].dst \in 1..Len(nodes)
      BY <2>4, TargetsAre, RefsFound, Lengths
    <3>3. s[t] \in Edge
      BY <3>1, <3>2, GrantEdgeType
    <3>4. /\ s[t].kind = "IamGrants" /\ s[t].src = role /\ s[t].dst = edges[targets[t]].dst
          /\ s[t].holder = policy /\ s[t].path.stmt = i
      <4> DEFINE e == s[t]
                 d == edges[targets[t]].dst
      <4>1. e = GrantEdge(policy, i, role, d)
        BY <3>1
      <4> HIDE DEF e, d
      <4>2. /\ e.kind = "IamGrants" /\ e.src = role /\ e.dst = d
            /\ e.holder = policy /\ e.path.stmt = i
        BY <4>1 DEF GrantEdge
      <4> QED BY <4>2 DEF e, d
    <3>5. s[t] \in P <=> edges[targets[t]].dst = target
      BY <3>3, <3>4 DEF GrantsOf
    <3> QED BY <2>2, <2>3, <2>4, <3>5
  <2>7. Len(s) = m
    BY <2>4, LenProperties
  <2> HIDE DEF s, P
  <2>8. Places(s, P) = {t \in 1..m : targets[t] \in W}
    BY <2>6, <2>7 DEF Places
  <2> QED BY <1>2, <2>1, <2>5, <2>8 DEF Count, P, W
<1> QED BY <1>1, <1>2

LEMMA WrittenFinite ==
    ASSUME TypeOK, NEW p, NEW t, NEW i
    PROVE  IsFiniteSet(Written(p, t, i)) /\ Cardinality(Written(p, t, i)) \in Nat
<1>1. Written(p, t, i) \subseteq References
  BY DEF Written
<1> QED BY <1>1, RefsFound, FS_Subset, FS_CardinalityType

LEMMA HolderCount ==
    ASSUME TypeOK,
           NEW policy \in 1..Len(nodes), NEW role \in 1..Len(nodes), NEW target \in 1..Len(nodes),
           NEW i \in 1..Len(nodes[policy].attrs.policy),
           Written(policy, target, i) # {}, Grants(nodes[policy].attrs.policy[i]),
           NEW r \in 1..Len(nodes)
    PROVE  Count(grants_from_policy_holder(policy, r), GrantsOf(policy, role, target, i))
             = IF r = role THEN Cardinality(Written(policy, target, i)) ELSE 0
<1> DEFINE P == GrantsOf(policy, role, target, i)
           c == Cardinality(Written(policy, target, i))
           m == Len(nodes[policy].attrs.policy)
           T == IF r = role THEN {i} ELSE {}
           parts == [j \in 1..m |-> grants_of_statement(policy, j, r)]
<1>1. m \in Nat /\ c \in Nat /\ i \in 1..m
  BY PolicyType, WrittenFinite
<1>2. \A j \in 1..m : grants_of_statement(policy, j, r) \in Seq(Edge)
  BY StatementGrants
<1>3. \A j \in 1..m : Count(grants_of_statement(policy, j, r), P) = IF r = role /\ j = i THEN c ELSE 0
  BY StatementCount
<1>4. grants_from_policy_holder(policy, r) = FlattenSeq(parts)
  BY DEF grants_from_policy_holder
<1> HIDE DEF P, c, m
<1>5. parts \in [1..m -> Seq(Edge)] /\ \A j \in 1..m : parts[j] = grants_of_statement(policy, j, r)
  BY <1>2
<1> HIDE DEF parts
<1>6. parts \in Seq(Seq(Edge)) /\ Len(parts) = m
  BY <1>1, <1>5, SeqDef, LenProperties
<1>7. T \subseteq 1..Len(parts)
  BY <1>1, <1>6
<1>8. PartsCount(parts, P, T, c)
  BY <1>3, <1>5, <1>6 DEF PartsCount
<1>9. Cardinality(T) = IF r = role THEN 1 ELSE 0
  BY FS_Singleton, FS_EmptySet
<1> HIDE DEF T
<1>10. Count(FlattenSeq(parts), P) = Cardinality(T) * c
  BY <1>1, <1>6, <1>7, <1>8, CountFlatten
<1>11. 1 * c = c /\ 0 * c = 0
  BY <1>1
<1>12. Count(FlattenSeq(parts), P) = IF r = role THEN c ELSE 0
  BY <1>9, <1>10, <1>11
<1> QED BY <1>4, <1>12 DEF P, c

LEMMA GrantsCount ==
    ASSUME TypeOK,
           NEW policy \in 1..Len(nodes), NEW role \in 1..Len(nodes), NEW target \in 1..Len(nodes),
           NEW i \in 1..Len(nodes[policy].attrs.policy),
           Written(policy, target, i) # {}, Grants(nodes[policy].attrs.policy[i]),
           NEW n \in 1..Len(nodes)
    PROVE  Count(GrantEdges(n), GrantsOf(policy, role, target, i))
             = IF n = policy
               THEN Cardinality(Links(policy, role)) * Cardinality(Written(policy, target, i)) ELSE 0
<1> DEFINE P == GrantsOf(policy, role, target, i)
           c == Cardinality(Written(policy, target, i))
           L == Links(policy, role)
<1>1. CASE n # policy
  <2>1. \A e : In(e, GrantEdges(n)) => e \notin P
    BY <1>1, GrantEdgesAre DEF GrantsOf, IsFrom
  <2> HIDE DEF P
  <2>2. Count(GrantEdges(n), P) = 0
    BY <2>1, CountOfNone
  <2> QED BY <1>1, <2>2 DEF P
<1>2. CASE n = policy
  <2>1. c \in Nat /\ role # NoNode
    BY WrittenFinite, Lengths DEF NoNode
  <2>2. CASE nodes[policy].kind = "IamRolePolicy"
    <3>1. L = IF referenced_node(policy, "role") = role THEN {policy} ELSE {}
      <4>1. \A v : v \in L <=> v = policy /\ referenced_node(v, "role") = role
        BY <2>2 DEF Links
      <4> HIDE DEF L
      <4> QED BY <4>1
    <3>2. Cardinality(L) = IF referenced_node(policy, "role") = role THEN 1 ELSE 0
      BY <3>1, FS_Singleton, FS_EmptySet
    <3> DEFINE r == referenced_node(policy, "role")
    <3>3. CASE r = NoNode
      <4>1. GrantEdges(policy) = <<>>
        BY <2>2, <3>3 DEF GrantEdges
      <4>2. Cardinality(L) = 0
        BY <2>1, <3>2, <3>3
      <4>3. Count(GrantEdges(policy), P) = 0
        BY <4>1, CountOfEmpty
      <4>4. 0 * c = 0
        BY <2>1
      <4> QED BY <1>2, <4>2, <4>3, <4>4
    <3>4. CASE r # NoNode
      <4>1. GrantEdges(policy) = grants_from_policy_holder(policy, r) /\ r \in 1..Len(nodes)
        BY <2>2, <3>4, Referenced DEF GrantEdges
      <4>2. Cardinality(L) = IF r = role THEN 1 ELSE 0
        BY <3>2
      <4> HIDE DEF r
      <4>3. Count(GrantEdges(policy), P) = IF r = role THEN c ELSE 0
        <5>1. Count(grants_from_policy_holder(policy, r), P) = IF r = role THEN c ELSE 0
          BY <4>1, HolderCount
        <5> QED BY <4>1, <5>1
      <4>4. 1 * c = c /\ 0 * c = 0
        BY <2>1
      <4> HIDE DEF c, L, P
      <4>5. Count(GrantEdges(policy), P) = Cardinality(L) * c
        BY <4>2, <4>3, <4>4
      <4> QED BY <1>2, <4>5 DEF P, L, c
    <3> QED BY <3>3, <3>4
  <2>3. CASE nodes[policy].kind = "IamPolicy"
    <3> DEFINE attached == InOrder(Attachments(policy))
               m == Len(attached)
               parts == [a \in 1..m |-> grants_from_policy_holder(policy, referenced_node(attached[a], "role"))]
               T == {a \in 1..m : attached[a] \in L}
    <3>1. Lists(attached, Attachments(policy)) /\ m \in Nat /\ \A a \in 1..m : attached[a] \in Attachments(policy)
      BY AttachmentsAre, ListsMembers
    <3>2. GrantEdges(policy) = FlattenSeq(parts)
      BY <2>3 DEF GrantEdges
    <3>3. L = {v \in Attachments(policy) : referenced_node(v, "role") = role}
      <4>1. \A v : v \in L <=> /\ v \in 1..Len(nodes) /\ nodes[v].kind = "IamRolePolicyAttachment"
                               /\ referenced_node(v, "policy_arn") = policy
                               /\ referenced_node(v, "role") = role
        <5>1. \A v : ~(v = policy /\ nodes[v].kind = "IamRolePolicy")
          BY <2>3
        <5> QED BY <2>3, <5>1 DEF Links
      <4>2. \A v : v \in Attachments(policy) <=>
                /\ v \in 1..Len(nodes) /\ nodes[v].kind = "IamRolePolicyAttachment"
                /\ referenced_node(v, "policy_arn") = policy /\ referenced_node(v, "role") # NoNode
        BY DEF Attachments, Holds
      <4> HIDE DEF L
      <4> QED BY <2>1, <4>1, <4>2
    <3> HIDE DEF attached, L
    <3>4. Cardinality(T) = Cardinality(L)
      <4>1. L \subseteq Attachments(policy)
        BY <3>3
      <4> QED BY <3>1, <4>1, ListsCount
    <3> HIDE DEF m
    <3>5. \A a \in 1..m : /\ referenced_node(attached[a], "role") \in 1..Len(nodes)
                          /\ a \in T <=> referenced_node(attached[a], "role") = role
      BY <3>1, <3>3, AttachmentsAre
    <3>6. \A a \in 1..m : grants_from_policy_holder(policy, referenced_node(attached[a], "role")) \in Seq(Edge)
      BY <3>5, HolderGrants
    <3>7. parts \in [1..m -> Seq(Edge)]
          /\ \A a \in 1..m : parts[a] = grants_from_policy_holder(policy, referenced_node(attached[a], "role"))
      BY <3>6
    <3> HIDE DEF parts
    <3>8. parts \in Seq(Seq(Edge)) /\ Len(parts) = m
      BY <3>1, <3>7, SeqDef, LenProperties
    <3>9. \A a \in 1..m : Count(parts[a], P)
             = IF referenced_node(attached[a], "role") = role THEN c ELSE 0
      <4> SUFFICES ASSUME NEW a \in 1..m
                   PROVE  Count(parts[a], P)
                            = IF referenced_node(attached[a], "role") = role THEN c ELSE 0
        OBVIOUS
      <4> DEFINE r == referenced_node(attached[a], "role")
      <4>1. r \in 1..Len(nodes) /\ parts[a] = grants_from_policy_holder(policy, r)
        BY <3>5, <3>7
      <4> HIDE DEF r
      <4>2. Count(grants_from_policy_holder(policy, r), P) = IF r = role THEN c ELSE 0
        BY <4>1, HolderCount
      <4> QED BY <4>1, <4>2 DEF r
    <3>10. T \subseteq 1..Len(parts)
      BY <3>8
    <3> HIDE DEF T, P, c
    <3>11. PartsCount(parts, P, T, c)
      BY <3>5, <3>8, <3>9 DEF PartsCount
    <3>12. Count(FlattenSeq(parts), P) = Cardinality(T) * c
      BY <2>1, <3>8, <3>10, <3>11, CountFlatten
    <3> QED BY <1>2, <3>2, <3>4, <3>12 DEF P, c, L
  <2>4. CASE nodes[policy].kind # "IamRolePolicy" /\ nodes[policy].kind # "IamPolicy"
    <3>1. GrantEdges(policy) = <<>>
      BY <2>4 DEF GrantEdges
    <3>2. L = {}
      BY <2>4 DEF Links
    <3>3. Cardinality(L) = 0 /\ Count(GrantEdges(policy), P) = 0
      BY <3>1, <3>2, CountOfEmpty, FS_EmptySet
    <3>4. 0 * c = 0
      BY <2>1
    <3> QED BY <1>2, <3>3, <3>4
  <2> QED BY <2>2, <2>3, <2>4
<1> QED BY <1>1, <1>2

LEMMA OpenCardinal ==
    ASSUME TypeOK, NEW g \in 1..Len(nodes)
    PROVE  Cardinality(ingress_rules_with_open_cidr(g)) \in Nat
BY OpenFinite, ListsCount

LEMMA ThroughCount ==
    ASSUME TypeOK, NEW d \in 1..Len(nodes), NEW n \in 1..Len(nodes), NEW g \in 1..Len(nodes)
    PROVE  Count(Through(d, n), Reaches(g, n))
             = IF d = g THEN Cardinality(ingress_rules_with_open_cidr(g)) ELSE 0
<1> DEFINE s == Through(d, n)
           P == Reaches(g, n)
<1>1. Len(s) \in Nat /\ Len(s) = Cardinality(ingress_rules_with_open_cidr(d)) /\ s \in Seq(Edge)
  BY ThroughIs, OpenCardinal
<1>2. ASSUME NEW k \in 1..Len(s) PROVE s[k] \in P <=> d = g
  <2>1. PICK r \in ingress_rules_with_open_cidr(d) : s[k] = ReachEdge(d, n, nodes[d].attrs.ingress[r].port)
    BY ThroughIs
  <2>2. s[k] \in Edge
    BY <1>1, ElementOfSeq
  <2> HIDE DEF s
  <2>3. s[k].kind = "NetworkReachable" /\ s[k].src = d /\ s[k].dst = n
    <3> DEFINE e == s[k]
               p == nodes[d].attrs.ingress[r].port
    <3>1. e = ReachEdge(d, n, p)
      BY <2>1
    <3> HIDE DEF e, p
    <3>2. e.kind = "NetworkReachable" /\ e.src = d /\ e.dst = n
      BY <3>1 DEF ReachEdge
    <3> QED BY <3>2 DEF e
  <2> QED BY <2>2, <2>3 DEF Reaches
<1> HIDE DEF s, P
<1>3. CASE d = g
  <2>1. \A k \in 1..Len(s) : s[k] \in P
    BY <1>2, <1>3
  <2>2. Count(s, P) = Len(s)
    BY <1>1, <2>1, CountAll
  <2> QED BY <1>1, <1>3, <2>2 DEF s, P
<1>4. CASE d # g
  <2>1. \A k \in 1..Len(s) : s[k] \notin P
    BY <1>2, <1>4
  <2>2. Count(s, P) = 0
    BY <2>1, CountNone
  <2> QED BY <1>4, <2>2 DEF s, P
<1> QED BY <1>3, <1>4

LEMMA GroupsCount ==
    ASSUME TypeOK, NEW n, NEW attr, NEW U
    PROVE  Count(GroupsOf(n, attr), U) = Cardinality(U \cap UsesBy(n, attr))
<1> DEFINE s == GroupsOf(n, attr)
           T == U \cap UsesBy(n, attr)
<1>1. Lists(s, UsesBy(n, attr))
  BY GroupsAre
<1>2. T \subseteq UsesBy(n, attr)
  OBVIOUS
<1> HIDE DEF s, T
<1>3. Cardinality({k \in 1..Len(s) : s[k] \in T}) = Cardinality(T)
  BY <1>1, <1>2, ListsCount
<1>4. \A k \in 1..Len(s) : s[k] \in UsesBy(n, attr)
  BY <1>1, ListsMembers
<1>5. Places(s, U) = {k \in 1..Len(s) : s[k] \in T}
  BY <1>4 DEF Places, T
<1> QED BY <1>3, <1>5 DEF Count, s, T

LEMMA UsesSplit ==
    ASSUME TypeOK, NEW n \in 1..Len(nodes), NEW g \in 1..Len(nodes), nodes[g].kind = "SecurityGroup"
    PROVE  /\ Count(GroupUses(n), Uses(n, g)) = Cardinality(Uses(n, g))
           /\ \A u \in 1..Len(GroupUses(n)) :
                 GroupUses(n)[u] \in Uses(n, g) <=> edges[GroupUses(n)[u]].dst = g
<1> DEFINE U == Uses(n, g)
           A == U \cap UsesBy(n, "vpc_security_group_ids")
           B == U \cap UsesBy(n, "security_groups")
<1>1. /\ GroupsOf(n, "vpc_security_group_ids") \in Seq(1..Len(edges))
      /\ GroupsOf(n, "security_groups") \in Seq(1..Len(edges))
  BY GroupsAre
<1>2. IsFiniteSet(A) /\ IsFiniteSet(B) /\ Cardinality(A) \in Nat /\ Cardinality(B) \in Nat
  BY GroupsAre, FS_Intersection, FS_CardinalityType
<1>3. A \cup B = U
  <2>1. \A e \in U : /\ e \in OutRefs(n) /\ nodes[edges[e].dst].kind = "SecurityGroup"
                     /\ edges[e].path.attr \in {"vpc_security_group_ids", "security_groups"}
    BY RefsFound DEF Uses
  <2>2. \A e \in U : e \in UsesBy(n, "vpc_security_group_ids") \/ e \in UsesBy(n, "security_groups")
    BY <2>1 DEF UsesBy
  <2> HIDE DEF U
  <2> QED BY <2>2
<1>4. A \cap B = {}
  BY DEF UsesBy
<1>5. /\ Count(GroupsOf(n, "vpc_security_group_ids"), U) = Cardinality(A)
      /\ Count(GroupsOf(n, "security_groups"), U) = Cardinality(B)
  BY GroupsCount
<1> HIDE DEF U
<1>6. Count(GroupUses(n), U) = Cardinality(A) + Cardinality(B)
  BY <1>1, <1>5, CountConcat DEF GroupUses
<1> HIDE DEF A, B
<1>7. Cardinality(A \cup B) = Cardinality(A) + Cardinality(B)
  <2>1. Cardinality(A \cup B) = Cardinality(A) + Cardinality(B) - Cardinality(A \cap B)
    BY <1>2, FS_Union
  <2>2. Cardinality(A \cap B) = 0
    BY <1>4, FS_EmptySet
  <2> QED BY <1>2, <2>1, <2>2
<1>8. ASSUME NEW u \in 1..Len(GroupUses(n))
      PROVE  GroupUses(n)[u] \in U <=> edges[GroupUses(n)[u]].dst = g
  <2> DEFINE e == GroupUses(n)[u]
  <2>1. In(e, GroupUses(n))
    BY DEF In
  <2>2. In(e, GroupsOf(n, "vpc_security_group_ids")) \/ In(e, GroupsOf(n, "security_groups"))
    BY <1>1, <2>1, InConcat DEF GroupUses
  <2> HIDE DEF e
  <2>3. e \in UsesBy(n, "vpc_security_group_ids") \/ e \in UsesBy(n, "security_groups")
    BY <2>2, GroupsAre, ListsMembers DEF In
  <2>4. e \in References /\ edges[e].src = n
        /\ edges[e].path.attr \in {"vpc_security_group_ids", "security_groups"}
    BY <2>3, RefsFound DEF UsesBy
  <2>5. e \in U <=> edges[e].dst = g
    BY <2>4 DEF U, Uses
  <2> QED BY <2>5 DEF e
<1> QED BY <1>3, <1>6, <1>7, <1>8 DEF U

LEMMA UsesFinite ==
    ASSUME TypeOK, NEW n, NEW g
    PROVE  IsFiniteSet(Uses(n, g)) /\ Cardinality(Uses(n, g)) \in Nat
<1>1. Uses(n, g) \subseteq References
  BY DEF Uses
<1> QED BY <1>1, RefsFound, FS_Subset, FS_CardinalityType

LEMMA NetworkCount ==
    ASSUME TypeOK, NEW g \in 1..Len(nodes), NEW i \in 1..Len(nodes), NEW n \in 1..Len(nodes),
           nodes[g].kind = "SecurityGroup", nodes[i].kind = "Instance"
    PROVE  Count(NetworkEdges(n), Reaches(g, i))
             = IF n = i THEN Cardinality(Uses(i, g)) * Cardinality(ingress_rules_with_open_cidr(g)) ELSE 0
<1> DEFINE P == Reaches(g, i)
           c == Cardinality(ingress_rules_with_open_cidr(g))
<1>1. CASE n # i
  <2>1. \A e : In(e, NetworkEdges(n)) => e \notin P
    BY <1>1, NetworkEdgesAre DEF Reaches, IsFrom
  <2> HIDE DEF P
  <2>2. Count(NetworkEdges(n), P) = 0
    BY <2>1, CountOfNone
  <2> QED BY <1>1, <2>2 DEF P
<1>2. CASE n = i
  <2> DEFINE s == GroupUses(i)
             parts == ThroughEach(i)
             T == Places(s, Uses(i, g))
  <2>1. NetworkEdges(i) = FlattenSeq(parts)
    BY DEF NetworkEdges, ThroughEach, GroupUses
  <2>2. parts \in Seq(Seq(Edge)) /\ Len(parts) = Len(s)
    BY NetworkParts
  <2>3. T \subseteq 1..Len(s) /\ c \in Nat
    BY OpenCardinal DEF Places
  <2>4. PartsCount(parts, P, T, c)
    <3>1. ASSUME NEW u \in 1..Len(parts) PROVE Count(parts[u], P) = IF u \in T THEN c ELSE 0
      <4> DEFINE d == edges[s[u]].dst
      <4>1. u \in 1..Len(s) /\ d \in 1..Len(nodes) /\ parts[u] = Through(d, i)
        BY <2>2, NetworkParts
      <4>2. s[u] \in Uses(i, g) <=> d = g
        BY <4>1, UsesSplit
      <4>3. u \in T <=> d = g
        BY <4>1, <4>2 DEF Places
      <4> HIDE DEF d, parts
      <4>4. Count(Through(d, i), P) = IF d = g THEN c ELSE 0
        BY <4>1, ThroughCount
      <4> QED BY <4>1, <4>3, <4>4
    <3> HIDE DEF parts, P, T, c
    <3> QED BY <3>1 DEF PartsCount
  <2>5. Cardinality(T) = Cardinality(Uses(i, g))
    BY UsesSplit DEF Count
  <2> HIDE DEF parts, T, P, c
  <2>6. Count(FlattenSeq(parts), P) = Cardinality(T) * c
    <3>1. T \subseteq 1..Len(parts)
      BY <2>2, <2>3
    <3> QED BY <2>2, <2>3, <2>4, <3>1, CountFlatten
  <2> QED BY <1>2, <2>1, <2>5, <2>6 DEF P, c
<1> QED BY <1>1, <1>2

LEMMA AttachedCount ==
    ASSUME TypeOK, NEW i \in 1..Len(nodes), NEW n \in 1..Len(nodes)
    PROVE  Count(AttachedEdges(n), AttachedTo(i)) = IF n = i /\ Attachable(i) THEN 1 ELSE 0
<1> DEFINE P == AttachedTo(i)
<1>1. CASE Attachable(n)
  <2> DEFINE role == referenced_node(ProfileOf(n), "role")
             e == AttachedEdge(n, role)
  <2>1. role \in 1..Len(nodes)
    BY <1>1, Referenced DEF Attachable
  <2>2. AttachedEdges(n) = <<e>> /\ e \in Edge
    BY <1>1, <2>1, AttachedEdgesIs, AttachedEdgeType
  <2>3. e.kind = "Attached" /\ e.src = n
    BY DEF AttachedEdge
  <2> HIDE DEF e
  <2>4. e \in P <=> n = i
    BY <2>2, <2>3 DEF AttachedTo
  <2>5. Len(<<e>>) = 1 /\ <<e>>[1] = e
    OBVIOUS
  <2> HIDE DEF P
  <2>6. CASE n = i
    <3>1. \A k \in 1..Len(<<e>>) : <<e>>[k] \in P
      BY <2>4, <2>5, <2>6
    <3>2. Count(<<e>>, P) = Len(<<e>>)
      BY <2>5, <3>1, CountAll
    <3> QED BY <1>1, <2>2, <2>5, <2>6, <3>2 DEF P
  <2>7. CASE n # i
    <3>1. \A k \in 1..Len(<<e>>) : <<e>>[k] \notin P
      BY <2>4, <2>5, <2>7
    <3>2. Count(<<e>>, P) = 0
      BY <3>1, CountNone
    <3> QED BY <1>1, <2>2, <2>7, <3>2 DEF P
  <2> QED BY <2>6, <2>7
<1>2. CASE ~Attachable(n)
  <2>1. AttachedEdges(n) = <<>>
    BY <1>2, AttachedEdgesIs
  <2> QED BY <1>2, <2>1, CountOfEmpty
<1> QED BY <1>1, <1>2

(* Edges of one kind are not counted with those of another.                *)
LEMMA OtherCounts ==
    ASSUME NEW s, NEW kind, NEW n, \A e : In(e, s) => IsFrom(e, kind, n)
    PROVE  /\ kind # "IamGrants" => \A p, r, t, i : Count(s, GrantsOf(p, r, t, i)) = 0
           /\ kind # "NetworkReachable" => \A g, i : Count(s, Reaches(g, i)) = 0
           /\ kind # "Attached" => \A i : Count(s, AttachedTo(i)) = 0
<1>1. \A e : In(e, s) => e.kind = kind
  BY DEF IsFrom
<1>2. ASSUME kind # "IamGrants", NEW p, NEW r, NEW t, NEW i PROVE Count(s, GrantsOf(p, r, t, i)) = 0
  <2>1. \A e : In(e, s) => e \notin GrantsOf(p, r, t, i)
    BY <1>1, <1>2 DEF GrantsOf
  <2> QED BY <2>1, CountOfNone
<1>3. ASSUME kind # "NetworkReachable", NEW g, NEW i PROVE Count(s, Reaches(g, i)) = 0
  <2>1. \A e : In(e, s) => e \notin Reaches(g, i)
    BY <1>1, <1>3 DEF Reaches
  <2> QED BY <2>1, CountOfNone
<1>4. ASSUME kind # "Attached", NEW i PROVE Count(s, AttachedTo(i)) = 0
  <2>1. \A e : In(e, s) => e \notin AttachedTo(i)
    BY <1>1, <1>4 DEF AttachedTo
  <2> QED BY <2>1, CountOfNone
<1> QED BY <1>2, <1>3, <1>4

-----------------------------------------------------------------------------
(* How far the passes are.                                                 *)

Passes == {"buckets", "roles", "groups", "lambdas", "grants", "network", "attached"}

LEMMA PassesAre == DOMAIN NextPass = Passes
BY DEF NextPass, Passes

LEMMA NoneIsPast ==
    ASSUME pc = "buckets", at = 1, NEW pass \in Passes, NEW n \in Nat, n >= 1
    PROVE  ~Past(pass, n)
BY DEF Past, PassNumber, Passes

LEMMA AllArePast ==
    ASSUME pc \in {"add", "done"}, NEW pass \in Passes, NEW n PROVE Past(pass, n)
BY DEF Past, PassNumber, Passes

LEMMA NotYetPast ==
    ASSUME at \in Nat, NEW pass \in Passes, pc = pass PROVE ~Past(pass, at)
BY DEF Past, PassNumber, Passes

LEMMA PastNext ==
    ASSUME at \in Nat, pc \in Passes, pc' = pc, at' = at + 1, NEW pass \in Passes, NEW n \in Nat
    PROVE  Past(pass, n)' <=> Past(pass, n) \/ (pc = pass /\ n = at)
BY DEF Past, PassNumber, Passes

LEMMA PastDone ==
    ASSUME TypeOK, PassDone, NEW pass \in Passes, NEW n \in 1..Len(nodes)
    PROVE  Past(pass, n)' <=> Past(pass, n)
<1>1. /\ pc \in Passes /\ at > Len(nodes) /\ pc' = NextPass[pc] /\ at' = 1
      /\ Len(nodes) \in Nat /\ at \in Nat /\ at > n /\ ~(1 > n)
  <2>1. Len(nodes) \in Nat /\ Len(pending) \in Nat
    BY Lengths
  <2>2. at \in Nat
    BY <2>1 DEF TypeOK
  <2>3. pc \in Passes /\ at > Len(nodes) /\ pc' = NextPass[pc] /\ at' = 1
    BY PassesAre DEF PassDone
  <2> QED BY <2>1, <2>2, <2>3
<1>2. PassNumber[pc'] = PassNumber[pc] + 1
  BY <1>1 DEF NextPass, PassNumber, Passes
<1>3. PassNumber[pc] + 1 > PassNumber[pass] <=> PassNumber[pc] > PassNumber[pass] \/ pc = pass
  BY <1>1 DEF PassNumber, Passes
<1>4. Past(pass, n)' <=> PassNumber[pc'] > PassNumber[pass] \/ (pc' = pass /\ at' > n)
  BY DEF Past
<1>5. Past(pass, n) <=> PassNumber[pc] > PassNumber[pass] \/ (pc = pass /\ at > n)
  BY DEF Past
<1> QED BY <1>1, <1>2, <1>3, <1>4, <1>5

LEMMA PastSame ==
    ASSUME pc' = pc, at' = at, NEW pass, NEW n PROVE Past(pass, n)' <=> Past(pass, n)
BY DEF Past

-----------------------------------------------------------------------------
(* The steps.                                                              *)

Derived(pass, kind, facts) ==
    /\ pc = pass /\ at <= Len(nodes)
    /\ derived' = IF nodes[at].kind = kind THEN [derived EXCEPT ![at] = facts] ELSE derived
    /\ at' = at + 1 /\ nodes' = nodes /\ edges' = edges /\ pc' = pc /\ pending' = pending

Computed(pass, kind, new) ==
    /\ pc = pass /\ at <= Len(nodes)
    /\ new \in Seq(Edge) /\ \A e : In(e, new) => IsFrom(e, kind, at)
    /\ pending' = pending \o new
    /\ at' = at + 1 /\ nodes' = nodes /\ edges' = edges /\ derived' = derived /\ pc' = pc

LEMMA AtNode == ASSUME TypeOK, pc \in Passes, at <= Len(nodes) PROVE at \in 1..Len(nodes) /\ at \in Nat
<1>1. Len(nodes) \in Nat /\ Len(pending) \in Nat
  BY Lengths
<1> QED BY <1>1 DEF TypeOK

LEMMA AtType == ASSUME TypeOK PROVE at \in Nat /\ at >= 1
<1>1. Len(nodes) \in Nat /\ Len(pending) \in Nat
  BY Lengths
<1> QED BY <1>1 DEF TypeOK

LEMMA AllReferences ==
    ASSUME TypeOK, Merged, pc \in Passes
    PROVE  References = 1..Len(edges)
<1>1. AddedSoFar = 0
  BY DEF AddedSoFar, Passes
<1>2. Len(edges) \in Nat
  BY Lengths
<1>3. Base = Len(edges)
  BY <1>1, <1>2 DEF Base
<1> QED BY <1>3 DEF Merged, References

LEMMA BucketIs ==
    ASSUME TypeOK, Merged, DeriveBucket
    PROVE  Derived("buckets", "S3Bucket",
               [sensitive |-> is_tagged_sensitive(nodes[at].attrs), public |-> PublicByRefs(at)])
<1>1. pc = "buckets" /\ pc \in Passes
  BY DEF DeriveBucket, DeriveFacts, Passes
<1>2. IsPublic(at) = PublicByRefs(at)
  BY <1>1, AllReferences DEF IsPublic, PublicByRefs, Incoming
<1>3. BucketFacts(at) = [sensitive |-> is_tagged_sensitive(nodes[at].attrs), public |-> PublicByRefs(at)]
  BY <1>2 DEF BucketFacts
<1> HIDE DEF BucketFacts
<1> QED BY <1>3 DEF DeriveBucket, DeriveFacts, set_derived, Derived

LEMMA RolesIs == ASSUME DeriveRoleTrust PROVE Derived("roles", "IamRole", RoleFacts(at))
BY DEF DeriveRoleTrust, DeriveFacts, set_derived, Derived
LEMMA GroupsIs == ASSUME DeriveSecurityGroup PROVE Derived("groups", "SecurityGroup", GroupFacts(at))
BY DEF DeriveSecurityGroup, DeriveFacts, set_derived, Derived
LEMMA LambdasIs == ASSUME DeriveLambda PROVE Derived("lambdas", "LambdaFunction", LambdaFacts(at))
BY DEF DeriveLambda, DeriveFacts, set_derived, Derived

LEMMA GrantsIs ==
    ASSUME TypeOK, ComputeGrants
    PROVE  Computed("grants", "IamGrants", GrantEdges(at)) /\ at \in 1..Len(nodes)
<1>1. pc = "grants" /\ pc \in Passes /\ at <= Len(nodes)
  BY DEF ComputeGrants, ComputeEdges, Passes
<1>2. at \in 1..Len(nodes)
  BY <1>1, AtNode
<1>3. GrantEdges(at) \in Seq(Edge) /\ \A e : In(e, GrantEdges(at)) => IsFrom(e, "IamGrants", at)
  BY <1>2, GrantEdgesAre
<1> QED BY <1>2, <1>3 DEF ComputeGrants, ComputeEdges, Computed

LEMMA NetworkIs ==
    ASSUME TypeOK, ComputeNetwork
    PROVE  Computed("network", "NetworkReachable", NetworkEdges(at)) /\ at \in 1..Len(nodes)
<1>1. pc = "network" /\ pc \in Passes /\ at <= Len(nodes)
  BY DEF ComputeNetwork, ComputeEdges, Passes
<1>2. at \in 1..Len(nodes)
  BY <1>1, AtNode
<1>3. NetworkEdges(at) \in Seq(Edge) /\ \A e : In(e, NetworkEdges(at)) => IsFrom(e, "NetworkReachable", at)
  BY <1>2, NetworkEdgesAre
<1> QED BY <1>2, <1>3 DEF ComputeNetwork, ComputeEdges, Computed

LEMMA AttachedIs ==
    ASSUME TypeOK, ComputeAttached
    PROVE  Computed("attached", "Attached", AttachedEdges(at)) /\ at \in 1..Len(nodes)
<1>1. pc = "attached" /\ pc \in Passes /\ at <= Len(nodes)
  BY DEF ComputeAttached, ComputeEdges, Passes
<1>2. at \in 1..Len(nodes)
  BY <1>1, AtNode
<1>3. AttachedEdges(at) \in Seq(Edge) /\ \A e : In(e, AttachedEdges(at)) => IsFrom(e, "Attached", at)
  BY <1>2, AttachedEdgesAre
<1> QED BY <1>2, <1>3 DEF ComputeAttached, ComputeEdges, Computed

Facts(facts) == \A f \in DOMAIN facts : facts[f] \in BOOLEAN

LEMMA DerivedTypes ==
    ASSUME TypeOK, NEW pass \in Passes, NEW kind, NEW facts, Derived(pass, kind, facts), Facts(facts)
    PROVE  TypeOK' /\ Kept
<1>1. Kept
  BY DEF Kept, References, Derived
<1>2. pc \in Passes /\ at \in 1..Len(nodes) /\ at' \in 1..(Len(nodes) + 1)
  <2>1. pc \in Passes /\ at \in 1..Len(nodes)
    BY AtNode DEF Derived
  <2>2. at' = at + 1 /\ Len(nodes) \in Nat
    BY Lengths DEF Derived
  <2> QED BY <2>1, <2>2
<1>3. DOMAIN derived' = 1..Len(nodes) /\ \A n \in 1..Len(nodes) : Facts(derived'[n])
  <2>1. DOMAIN derived = 1..Len(nodes) /\ \A n \in 1..Len(nodes) : Facts(derived[n])
    BY DEF TypeOK, Facts
  <2>2. derived' = IF nodes[at].kind = kind THEN [derived EXCEPT ![at] = facts] ELSE derived
    BY DEF Derived
  <2> HIDE DEF Facts
  <2> QED BY <2>1, <2>2
<1>4. nodes' = nodes /\ edges' = edges /\ pending' = pending /\ pc' = pc
  BY DEF Derived
<1>5. pc' \notin {"add", "done"} /\ pc' \in DOMAIN NextPass
  BY <1>2, <1>4, PassesAre DEF Passes
<1> QED BY <1>1, <1>2, <1>3, <1>4, <1>5 DEF TypeOK, Facts

LEMMA ComputedTypes ==
    ASSUME TypeOK, NEW pass \in Passes, NEW kind, NEW new, Computed(pass, kind, new)
    PROVE  TypeOK' /\ Kept
<1>1. Kept
  BY DEF Kept, References, Computed
<1>2. pc \in Passes /\ at \in 1..Len(nodes) /\ at' \in 1..(Len(nodes) + 1)
  <2>1. pc \in Passes /\ at \in 1..Len(nodes)
    BY AtNode DEF Computed
  <2>2. at' = at + 1 /\ Len(nodes) \in Nat
    BY Lengths DEF Computed
  <2> QED BY <2>1, <2>2
<1>3. nodes' = nodes /\ edges' = edges /\ derived' = derived /\ pc' = pc
  BY DEF Computed
<1>4. pc' \notin {"add", "done"} /\ pc' \in DOMAIN NextPass
  BY <1>2, <1>3, PassesAre DEF Passes
<1>5. pending' = pending \o new /\ pending \in Seq(Edge) /\ new \in Seq(Edge)
      /\ \A e : In(e, new) => IsFrom(e, kind, at)
  BY DEF Computed, TypeOK
<1>6. pending' \in Seq(Edge)
  BY <1>5, ConcatProperties
<1>7. ASSUME NEW e \in ToSet(pending') PROVE {e.src, e.dst, e.holder} \subseteq 1..Len(nodes)
  <2>1. DOMAIN pending' = 1..Len(pending') /\ DOMAIN pending = 1..Len(pending)
    BY <1>5, <1>6, LenProperties
  <2>2. In(e, pending \o new)
    BY <1>5, <1>7, <2>1 DEF ToSet, In
  <2>3. In(e, pending) \/ In(e, new)
    BY <1>5, <2>2, InConcat
  <2>4. In(e, pending) => e \in ToSet(pending)
    BY <2>1 DEF ToSet, In
  <2> QED BY <1>5, <2>3, <2>4 DEF TypeOK, IsFrom
<1> QED BY <1>2, <1>3, <1>4, <1>6, <1>7, <1>1 DEF TypeOK

LEMMA PassDoneTypes ==
    ASSUME TypeOK, PassDone PROVE TypeOK' /\ Kept
<1>1. Kept
  BY DEF Kept, References, PassDone
<1>2. Len(nodes) \in Nat /\ Len(pending) \in Nat
  BY Lengths
<1>3. pc \in Passes /\ pc' = NextPass[pc] /\ at' = 1
  BY PassesAre DEF PassDone
<1>4. pc' \in Passes \cup {"add", "done"}
  BY <1>3 DEF Passes, NextPass
<1>5. nodes' = nodes /\ edges' = edges /\ derived' = derived /\ pending' = pending
  BY DEF PassDone
<1>6. at' \in 1..(IF pc' \in {"add", "done"} THEN Len(pending') + 1 ELSE Len(nodes') + 1)
  BY <1>2, <1>3, <1>5
<1> QED BY <1>1, <1>4, <1>5, <1>6, PassesAre DEF TypeOK

(* The edge an iteration of the last pass adds.                            *)
LEMMA Adds ==
    ASSUME TypeOK, Merged, Sound, AddEdge
    PROVE  /\ at \in 1..Len(pending) /\ at \in Nat /\ Len(edges) \in Nat
           /\ pending[at] \in Edge /\ pending[at].kind # "References"
           /\ Len(edges') = Len(edges) + 1 /\ edges' \in Seq(Edge)
           /\ \A e \in 1..Len(edges) : edges'[e] = edges[e]
           /\ edges'[Len(edges) + 1] = pending[at]
<1>1. Len(pending) \in Nat /\ Len(edges) \in Nat /\ Len(nodes) \in Nat
  BY Lengths
<1>2. at \in 1..Len(pending) /\ at \in Nat
  BY <1>1 DEF AddEdge, TypeOK
<1>3. pending[at] \in Edge
  BY <1>2, Lengths
<1>4. pending[at].kind # "References"
  <2>1. IsSound(pending[at])
    BY <1>2 DEF Sound
  <2> QED BY <2>1 DEF IsSound
<1>5. edges \in Seq(Edge) /\ edges' = Append(edges, pending[at])
  BY DEF TypeOK, AddEdge
<1> DEFINE x == pending[at]
<1> HIDE DEF x
<1>6. x \in Edge /\ edges' = Append(edges, x)
  BY <1>3, <1>5 DEF x
<1>7. /\ Len(edges') = Len(edges) + 1 /\ edges' \in Seq(Edge)
      /\ \A e \in 1..Len(edges) : edges'[e] = edges[e]
      /\ edges'[Len(edges) + 1] = x
  BY <1>5, <1>6, AppendProperties
<1> QED BY <1>1, <1>2, <1>3, <1>4, <1>7 DEF x

LEMMA AddEdgeTypes ==
    ASSUME TypeOK, Merged, Sound, AddEdge PROVE TypeOK' /\ Kept
<1>1. nodes' = nodes /\ derived' = derived /\ pending' = pending /\ pc' = "add" /\ pc = "add" /\ at' = at + 1
  BY DEF AddEdge
<1>2. Kept
  <2>1. \A e : e \in 1..(Len(edges) + 1) <=> e \in 1..Len(edges) \/ e = Len(edges) + 1
    BY Adds
  <2>2. References' = {e \in 1..(Len(edges) + 1) : edges'[e].kind = "References"}
    BY Adds DEF References
  <2>3. \A e : e \in References' <=> e \in References
    BY <2>1, <2>2, Adds DEF References
  <2>4. \A e \in References : edges'[e] = edges[e]
    BY Adds DEF References
  <2> QED BY <1>1, <2>3, <2>4 DEF Kept
<1>3. at' \in 1..(Len(pending) + 1)
  <2>1. Len(pending) \in Nat
    BY Lengths
  <2> QED BY <1>1, <2>1, Adds
<1>4. ASSUME NEW e \in ToSet(edges') PROVE {e.src, e.dst, e.holder} \subseteq 1..Len(nodes)
  <2>1. PICK k \in 1..(Len(edges) + 1) : e = edges'[k]
    <3>1. DOMAIN edges' = 1..(Len(edges) + 1)
      BY Adds, LenProperties
    <3> QED BY <1>4, <3>1 DEF ToSet
  <2>2. CASE k \in 1..Len(edges)
    BY <2>1, <2>2, Adds, Lengths
  <2>3. CASE k = Len(edges) + 1
    BY <2>1, <2>3, Adds, Lengths
  <2> QED BY <2>1, <2>2, <2>3, Adds
<1> QED BY <1>1, <1>2, <1>3, <1>4, Adds DEF TypeOK

LEMMA AllAddedTypes ==
    ASSUME TypeOK, AllAdded PROVE TypeOK' /\ Kept
<1>1. Kept
  BY DEF Kept, References, AllAdded
<1> QED BY <1>1 DEF AllAdded, TypeOK

LEMMA SameTypes ==
    ASSUME TypeOK, UNCHANGED vars PROVE TypeOK' /\ Kept
BY DEF vars, TypeOK, Kept, References

-----------------------------------------------------------------------------
(* The derived facts are Booleans.                                         *)

LEMMA FactsAreBoolean ==
    ASSUME NEW n
    PROVE  /\ Facts([sensitive |-> is_tagged_sensitive(nodes[n].attrs), public |-> PublicByRefs(n)])
           /\ Facts(RoleFacts(n)) /\ Facts(GroupFacts(n)) /\ Facts(LambdaFacts(n))
<1> DEFINE a == is_tagged_sensitive(nodes[n].attrs)
           b == PublicByRefs(n)
           c == \E s \in ToSet(nodes[n].attrs.assume_role_policy) : statement_has_wildcard_principal(s)
           d == \E r \in ToSet(nodes[n].attrs.ingress) : r.cidrs \cap OpenCidr # {}
           f == \E p \in 1..Len(nodes) : InvokableByAnyone(p, n)
<1>1. a \in BOOLEAN /\ b \in BOOLEAN
  BY DEF is_tagged_sensitive, PublicByRefs
<1>2. c \in BOOLEAN /\ d \in BOOLEAN /\ f \in BOOLEAN
  OBVIOUS
<1>3. /\ RoleFacts(n) = [wildcard_trust |-> c] /\ GroupFacts(n) = [open_ingress |-> d]
      /\ LambdaFacts(n) = [publicly_invokable |-> f]
  BY DEF RoleFacts, GroupFacts, LambdaFacts
<1> HIDE DEF a, b, c, d, f
<1>4. Facts([sensitive |-> a, public |-> b])
  BY <1>1 DEF Facts
<1>5. Facts([wildcard_trust |-> c]) /\ Facts([open_ingress |-> d]) /\ Facts([publicly_invokable |-> f])
  BY <1>2 DEF Facts
<1> QED BY <1>3, <1>4, <1>5 DEF a, b

-----------------------------------------------------------------------------
(* What the passes have found so far, step by step.                        *)

(* No step but its own changes which facts are due.                        *)
LEMMA DueKinds ==
    /\ DOMAIN FactPass = {"S3Bucket", "IamRole", "SecurityGroup", "LambdaFunction"}
    /\ FactPass.S3Bucket = "buckets" /\ FactPass.IamRole = "roles"
    /\ FactPass.SecurityGroup = "groups" /\ FactPass.LambdaFunction = "lambdas"
    /\ \A k \in DOMAIN FactPass : FactPass[k] \in Passes
    /\ \A j, k \in DOMAIN FactPass : FactPass[j] = FactPass[k] => j = k
BY DEF FactPass, Passes

LEMMA FactsWhenDue ==
    ASSUME NEW kind \in DOMAIN FactPass, NEW n \in 1..Len(nodes), nodes[n].kind = kind
    PROVE  Due(n) <=> Past(FactPass[kind], n)
BY DEF Due

LEMMA FactsUnchanged ==
    ASSUME TypeOK, TypeOK', Kept, FactsSoFar, derived' = derived,
           \A pass \in Passes : \A n \in 1..Len(nodes) :
              pass \in {"buckets", "roles", "groups", "lambdas"} => Past(pass, n)' = Past(pass, n)
    PROVE  FactsSoFar'
<1>1. ASSUME NEW n \in 1..Len(nodes) PROVE derived'[n] = IF Due(n)' THEN DeclaredFacts(n)' ELSE <<>>
  <2>1. derived[n] = IF Due(n) THEN DeclaredFacts(n) ELSE <<>>
    BY DEF FactsSoFar
  <2>2. DeclaredFacts(n)' = DeclaredFacts(n)
    BY FactsKept
  <2>3. Due(n)' <=> Due(n)
    <3>1. nodes[n].kind \in DOMAIN FactPass => FactPass[nodes[n].kind] \in Passes
             /\ FactPass[nodes[n].kind] \in {"buckets", "roles", "groups", "lambdas"}
      BY DEF FactPass, Passes
    <3> QED BY <3>1 DEF Due, Kept
  <2> QED BY <2>1, <2>2, <2>3
<1> QED BY <1>1 DEF FactsSoFar, Kept

LEMMA FactsDerived ==
    ASSUME TypeOK, TypeOK', Kept, FactsSoFar, NEW kind \in DOMAIN FactPass, NEW facts,
           Derived(FactPass[kind], kind, facts), nodes[at].kind = kind => facts = DeclaredFacts(at)
    PROVE  FactsSoFar'
<1>1. pc = FactPass[kind] /\ pc \in Passes /\ at \in 1..Len(nodes) /\ at \in Nat /\ pc' = pc /\ at' = at + 1
  BY DueKinds, AtNode DEF Derived
<1>2. derived' = IF nodes[at].kind = kind THEN [derived EXCEPT ![at] = facts] ELSE derived
  BY DEF Derived
<1>3. ASSUME NEW n \in 1..Len(nodes) PROVE derived'[n] = IF Due(n)' THEN DeclaredFacts(n)' ELSE <<>>
  <2>1. derived[n] = IF Due(n) THEN DeclaredFacts(n) ELSE <<>>
    BY DEF FactsSoFar
  <2>2. DeclaredFacts(n)' = DeclaredFacts(n)
    BY FactsKept
  <2>3. n \in Nat
    BY Lengths
  <2>4. Due(n)' <=> Due(n) \/ (n = at /\ nodes[n].kind = kind)
    <3>1. CASE nodes[n].kind \in DOMAIN FactPass
      <4>1. FactPass[nodes[n].kind] \in Passes /\ (FactPass[nodes[n].kind] = pc <=> nodes[n].kind = kind)
        BY <1>1, <3>1, DueKinds
      <4>2. Past(FactPass[nodes[n].kind], n)'
               <=> Past(FactPass[nodes[n].kind], n) \/ (pc = FactPass[nodes[n].kind] /\ n = at)
        <5> DEFINE pass == FactPass[nodes[n].kind]
        <5>1. pass \in Passes
          BY <4>1
        <5>2. pass' = pass
          BY DEF Kept, FactPass
        <5> HIDE DEF pass
        <5>3. Past(pass, n)' <=> Past(pass, n) \/ (pc = pass /\ n = at)
          BY <1>1, <2>3, <5>1, <5>2, PastNext
        <5> QED BY <5>3 DEF pass
      <4> QED BY <3>1, <4>1, <4>2 DEF Due, Kept
    <3>2. CASE nodes[n].kind \notin DOMAIN FactPass
      BY <3>2 DEF Due, Kept
    <3> QED BY <3>1, <3>2
  <2>5. DOMAIN derived = 1..Len(nodes)
    BY DEF TypeOK
  <2> QED BY <1>2, <2>1, <2>2, <2>4, <2>5
<1> QED BY <1>3 DEF FactsSoFar, Kept

LEMMA AttachableKept ==
    ASSUME TypeOK, TypeOK', Kept, NEW i
    PROVE  Attachable(i)' <=> Attachable(i)
<1>1. \A m : ProfileOf(m)' = ProfileOf(m)
  BY ReferencedKept DEF ProfileOf
<1>2. \A m : referenced_node(m, "role")' = referenced_node(m, "role")
  BY ReferencedKept
<1> QED BY <1>1, <1>2 DEF Attachable, IsProfile, Kept

(* Where nothing is added and no pass gets on, the counts stay.            *)
SamePast ==
    \A pass \in {"grants", "network", "attached"} : \A n \in 1..Len(nodes) : Past(pass, n)' <=> Past(pass, n)

Counted == GrantsCounted /\ ReachesCounted /\ AttachedCounted

LEMMA CountsSame ==
    ASSUME TypeOK, TypeOK', Kept, SamePast, pending' = pending, Counted
    PROVE  Counted'
<1>1. GrantsCounted'
  <2> SUFFICES ASSUME NEW policy \in 1..Len(nodes), NEW role \in 1..Len(nodes), NEW target \in 1..Len(nodes),
                      NEW i \in 1..Len(nodes[policy].attrs.policy),
                      Written(policy, target, i)' # {}, Grants(nodes[policy].attrs.policy[i])
               PROVE  Count(pending', GrantsOf(policy, role, target, i)) =
                        IF Past("grants", policy)'
                        THEN Cardinality(Links(policy, role)') * Cardinality(Written(policy, target, i)') ELSE 0
    BY DEF GrantsCounted, Kept
  <2>1. Written(policy, target, i)' = Written(policy, target, i) /\ Links(policy, role)' = Links(policy, role)
    BY WrittenKept
  <2>2. Past("grants", policy)' <=> Past("grants", policy)
    BY DEF SamePast, Passes
  <2> QED BY <2>1, <2>2 DEF Counted, GrantsCounted
<1>2. ReachesCounted'
  <2> SUFFICES ASSUME NEW g \in 1..Len(nodes), NEW i \in 1..Len(nodes),
                      nodes[g].kind = "SecurityGroup", nodes[i].kind = "Instance"
               PROVE  Count(pending', Reaches(g, i)) =
                        IF Past("network", i)'
                        THEN Cardinality(Uses(i, g)') * Cardinality(ingress_rules_with_open_cidr(g)') ELSE 0
    BY DEF ReachesCounted, Kept
  <2>1. Uses(i, g)' = Uses(i, g) /\ ingress_rules_with_open_cidr(g)' = ingress_rules_with_open_cidr(g)
    BY WrittenKept
  <2>2. Past("network", i)' <=> Past("network", i)
    BY DEF SamePast, Passes
  <2> QED BY <2>1, <2>2 DEF Counted, ReachesCounted
<1>3. AttachedCounted'
  <2> SUFFICES ASSUME NEW i \in 1..Len(nodes)
               PROVE  Count(pending', AttachedTo(i)) = IF Past("attached", i)' /\ Attachable(i)' THEN 1 ELSE 0
    BY DEF AttachedCounted, Kept
  <2>1. Attachable(i)' <=> Attachable(i)
    BY AttachableKept
  <2>2. Past("attached", i)' <=> Past("attached", i)
    BY DEF SamePast, Passes
  <2> QED BY <2>1, <2>2 DEF Counted, AttachedCounted
<1> QED BY <1>1, <1>2, <1>3 DEF Counted

(* What one iteration of a computing pass adds to the counts.              *)
LEMMA ComputedCounts ==
    ASSUME TypeOK, NEW pass \in Passes, NEW kind, NEW new, Computed(pass, kind, new)
    PROVE  /\ \A P : Count(pending', P) = Count(pending, P) + Count(new, P)
           /\ \A P : Count(pending, P) \in Nat
           /\ at \in 1..Len(nodes)
           /\ \A p \in Passes : \A n \in 1..Len(nodes) : Past(p, n)' <=> Past(p, n) \/ (pass = p /\ n = at)
           /\ ~Past(pass, at)
<1>1. pending \in Seq(Edge) /\ new \in Seq(Edge) /\ pending' = pending \o new
  BY DEF TypeOK, Computed
<1>2. \A P : Count(pending', P) = Count(pending, P) + Count(new, P)
  BY <1>1, CountConcat
<1>3. \A P : Count(pending, P) \in Nat
  BY <1>1, LenProperties, CountTyped
<1>4. pc = pass /\ at \in 1..Len(nodes) /\ at \in Nat /\ pc' = pc /\ at' = at + 1
  BY AtNode DEF Computed
<1>5. ASSUME NEW p \in Passes, NEW n \in 1..Len(nodes)
      PROVE  Past(p, n)' <=> Past(p, n) \/ (pass = p /\ n = at)
  <2>1. n \in Nat
    BY Lengths
  <2> QED BY <1>4, <2>1, PastNext
<1>6. ~Past(pass, at)
  BY <1>4, NotYetPast
<1> QED BY <1>2, <1>3, <1>4, <1>5, <1>6

LEMMA GrantsStay ==
    ASSUME TypeOK, TypeOK', Kept, NEW pass \in Passes, pass # "grants", NEW kind, kind # "IamGrants", NEW new,
           Computed(pass, kind, new), GrantsCounted
    PROVE  GrantsCounted'
<1> SUFFICES ASSUME NEW policy \in 1..Len(nodes), NEW role \in 1..Len(nodes), NEW target \in 1..Len(nodes),
                    NEW i \in 1..Len(nodes[policy].attrs.policy),
                    Written(policy, target, i)' # {}, Grants(nodes[policy].attrs.policy[i])
             PROVE  Count(pending', GrantsOf(policy, role, target, i)) =
                      IF Past("grants", policy)'
                      THEN Cardinality(Links(policy, role)') * Cardinality(Written(policy, target, i)') ELSE 0
  BY DEF GrantsCounted, Kept
<1>1. Written(policy, target, i)' = Written(policy, target, i) /\ Links(policy, role)' = Links(policy, role)
  BY WrittenKept
<1>2. Past("grants", policy)' <=> Past("grants", policy)
  BY ComputedCounts DEF Passes
<1>3. Count(new, GrantsOf(policy, role, target, i)) = 0
  <2>1. \A e : In(e, new) => IsFrom(e, kind, at)
    BY DEF Computed
  <2> QED BY <2>1, OtherCounts
<1>4. Count(pending', GrantsOf(policy, role, target, i)) = Count(pending, GrantsOf(policy, role, target, i))
  BY <1>3, ComputedCounts
<1> QED BY <1>1, <1>2, <1>4 DEF GrantsCounted

LEMMA ReachesStay ==
    ASSUME TypeOK, TypeOK', Kept, NEW pass \in Passes, pass # "network", NEW kind, kind # "NetworkReachable",
           NEW new, Computed(pass, kind, new), ReachesCounted
    PROVE  ReachesCounted'
<1> SUFFICES ASSUME NEW g \in 1..Len(nodes), NEW i \in 1..Len(nodes),
                    nodes[g].kind = "SecurityGroup", nodes[i].kind = "Instance"
             PROVE  Count(pending', Reaches(g, i)) =
                      IF Past("network", i)'
                      THEN Cardinality(Uses(i, g)') * Cardinality(ingress_rules_with_open_cidr(g)') ELSE 0
  BY DEF ReachesCounted, Kept
<1>1. Uses(i, g)' = Uses(i, g) /\ ingress_rules_with_open_cidr(g)' = ingress_rules_with_open_cidr(g)
  BY WrittenKept
<1>2. Past("network", i)' <=> Past("network", i)
  BY ComputedCounts DEF Passes
<1>3. Count(new, Reaches(g, i)) = 0
  <2>1. \A e : In(e, new) => IsFrom(e, kind, at)
    BY DEF Computed
  <2> QED BY <2>1, OtherCounts
<1>4. Count(pending', Reaches(g, i)) = Count(pending, Reaches(g, i))
  BY <1>3, ComputedCounts
<1> QED BY <1>1, <1>2, <1>4 DEF ReachesCounted

LEMMA AttachedStay ==
    ASSUME TypeOK, TypeOK', Kept, NEW pass \in Passes, pass # "attached", NEW kind, kind # "Attached",
           NEW new, Computed(pass, kind, new), AttachedCounted
    PROVE  AttachedCounted'
<1> SUFFICES ASSUME NEW i \in 1..Len(nodes)
             PROVE  Count(pending', AttachedTo(i)) = IF Past("attached", i)' /\ Attachable(i)' THEN 1 ELSE 0
  BY DEF AttachedCounted, Kept
<1>1. Attachable(i)' <=> Attachable(i)
  BY AttachableKept
<1>2. Past("attached", i)' <=> Past("attached", i)
  BY ComputedCounts DEF Passes
<1>3. Count(new, AttachedTo(i)) = 0
  <2>1. \A e : In(e, new) => IsFrom(e, kind, at)
    BY DEF Computed
  <2> QED BY <2>1, OtherCounts
<1>4. Count(pending', AttachedTo(i)) = Count(pending, AttachedTo(i))
  BY <1>3, ComputedCounts
<1> QED BY <1>1, <1>2, <1>4 DEF AttachedCounted

LEMMA LinksFinite ==
    ASSUME TypeOK, NEW p, NEW r
    PROVE  IsFiniteSet(Links(p, r)) /\ Cardinality(Links(p, r)) \in Nat
<1>1. Links(p, r) \subseteq 1..Len(nodes)
  BY DEF Links
<1>2. IsFiniteSet(1..Len(nodes))
  BY Lengths, FS_Interval
<1> QED BY <1>1, <1>2, FS_Subset, FS_CardinalityType

LEMMA GrantsStep ==
    ASSUME TypeOK, TypeOK', Kept, Computed("grants", "IamGrants", GrantEdges(at)), Counted
    PROVE  Counted'
<1>0. "grants" \in Passes
  BY DEF Passes
<1>1. GrantsCounted'
  <2> SUFFICES ASSUME NEW policy \in 1..Len(nodes), NEW role \in 1..Len(nodes), NEW target \in 1..Len(nodes),
                      NEW i \in 1..Len(nodes[policy].attrs.policy),
                      Written(policy, target, i)' # {}, Grants(nodes[policy].attrs.policy[i])
               PROVE  Count(pending', GrantsOf(policy, role, target, i)) =
                        IF Past("grants", policy)'
                        THEN Cardinality(Links(policy, role)') * Cardinality(Written(policy, target, i)') ELSE 0
    BY DEF GrantsCounted, Kept
  <2> DEFINE P == GrantsOf(policy, role, target, i)
             c == Cardinality(Links(policy, role)) * Cardinality(Written(policy, target, i))
  <2>1. Written(policy, target, i)' = Written(policy, target, i) /\ Links(policy, role)' = Links(policy, role)
    BY WrittenKept
  <2>2. at \in 1..Len(nodes) /\ ~Past("grants", at)
        /\ (Past("grants", policy)' <=> Past("grants", policy) \/ policy = at)
    BY <1>0, ComputedCounts
  <2>3. Count(pending, P) = IF Past("grants", policy) THEN c ELSE 0
    BY <2>1 DEF Counted, GrantsCounted
  <2>4. Count(GrantEdges(at), P) = IF at = policy THEN c ELSE 0
    <3>1. Written(policy, target, i) # {} /\ at \in 1..Len(nodes)
      BY <2>1, <2>2
    <3>2. Count(GrantEdges(at), GrantsOf(policy, role, target, i))
            = IF at = policy
              THEN Cardinality(Links(policy, role)) * Cardinality(Written(policy, target, i)) ELSE 0
      <4> DEFINE n == at
      <4>1. n \in 1..Len(nodes)
        BY <3>1
      <4> HIDE DEF n
      <4>2. Count(GrantEdges(n), GrantsOf(policy, role, target, i))
              = IF n = policy
                THEN Cardinality(Links(policy, role)) * Cardinality(Written(policy, target, i)) ELSE 0
        BY <3>1, <4>1, GrantsCount, SMTT(60)
      <4> QED BY <4>2 DEF n
    <3> QED BY <3>2
  <2>5. Count(pending', P) = Count(pending, P) + Count(GrantEdges(at), P) /\ Count(pending, P) \in Nat
    BY <1>0, ComputedCounts
  <2> HIDE DEF P, c
  <2>7. c \in Nat
    BY LinksFinite, WrittenFinite DEF c
  <2>6. Count(pending', P) = IF Past("grants", policy)' THEN c ELSE 0
    <3>1. CASE at = policy
      BY <2>2, <2>3, <2>4, <2>5, <2>7, <3>1
    <3>2. CASE at # policy
      BY <2>2, <2>3, <2>4, <2>5, <2>7, <3>2
    <3> QED BY <3>1, <3>2
  <2> QED BY <2>1, <2>6 DEF P, c
<1>2. ReachesCounted' /\ AttachedCounted'
  BY <1>0, ReachesStay, AttachedStay DEF Counted
<1> QED BY <1>1, <1>2 DEF Counted

LEMMA NetworkStep ==
    ASSUME TypeOK, TypeOK', Kept, Computed("network", "NetworkReachable", NetworkEdges(at)), Counted
    PROVE  Counted'
<1>0. "network" \in Passes
  BY DEF Passes
<1>1. ReachesCounted'
  <2> SUFFICES ASSUME NEW g \in 1..Len(nodes), NEW i \in 1..Len(nodes),
                      nodes[g].kind = "SecurityGroup", nodes[i].kind = "Instance"
               PROVE  Count(pending', Reaches(g, i)) =
                        IF Past("network", i)'
                        THEN Cardinality(Uses(i, g)') * Cardinality(ingress_rules_with_open_cidr(g)') ELSE 0
    BY DEF ReachesCounted, Kept
  <2> DEFINE P == Reaches(g, i)
             c == Cardinality(Uses(i, g)) * Cardinality(ingress_rules_with_open_cidr(g))
  <2>1. Uses(i, g)' = Uses(i, g) /\ ingress_rules_with_open_cidr(g)' = ingress_rules_with_open_cidr(g)
    BY WrittenKept
  <2>2. at \in 1..Len(nodes) /\ ~Past("network", at)
        /\ (Past("network", i)' <=> Past("network", i) \/ i = at)
    BY <1>0, ComputedCounts
  <2>3. Count(pending, P) = IF Past("network", i) THEN c ELSE 0
    BY DEF Counted, ReachesCounted
  <2>4. Count(NetworkEdges(at), P) = IF at = i THEN c ELSE 0
    BY <2>2, NetworkCount
  <2>5. Count(pending', P) = Count(pending, P) + Count(NetworkEdges(at), P) /\ Count(pending, P) \in Nat
    BY <1>0, ComputedCounts
  <2>6. c \in Nat
    BY UsesFinite, OpenCardinal
  <2> HIDE DEF P, c
  <2>7. Count(pending', P) = IF Past("network", i)' THEN c ELSE 0
    <3>1. CASE at = i
      BY <2>2, <2>3, <2>4, <2>5, <2>6, <3>1
    <3>2. CASE at # i
      BY <2>2, <2>3, <2>4, <2>5, <2>6, <3>2
    <3> QED BY <3>1, <3>2
  <2> QED BY <2>1, <2>7 DEF P, c
<1>2. GrantsCounted' /\ AttachedCounted'
  BY <1>0, GrantsStay, AttachedStay DEF Counted
<1> QED BY <1>1, <1>2 DEF Counted

LEMMA AttachedStep ==
    ASSUME TypeOK, TypeOK', Kept, Computed("attached", "Attached", AttachedEdges(at)), Counted
    PROVE  Counted'
<1>0. "attached" \in Passes
  BY DEF Passes
<1>1. AttachedCounted'
  <2> SUFFICES ASSUME NEW i \in 1..Len(nodes)
               PROVE  Count(pending', AttachedTo(i)) = IF Past("attached", i)' /\ Attachable(i)' THEN 1 ELSE 0
    BY DEF AttachedCounted, Kept
  <2> DEFINE P == AttachedTo(i)
  <2>1. Attachable(i)' <=> Attachable(i)
    BY AttachableKept
  <2>2. at \in 1..Len(nodes) /\ ~Past("attached", at)
        /\ (Past("attached", i)' <=> Past("attached", i) \/ i = at)
    BY <1>0, ComputedCounts
  <2>3. Count(pending, P) = IF Past("attached", i) /\ Attachable(i) THEN 1 ELSE 0
    BY DEF Counted, AttachedCounted
  <2>4. Count(AttachedEdges(at), P) = IF at = i /\ Attachable(i) THEN 1 ELSE 0
    BY <2>2, AttachedCount
  <2>5. Count(pending', P) = Count(pending, P) + Count(AttachedEdges(at), P) /\ Count(pending, P) \in Nat
    BY <1>0, ComputedCounts
  <2> HIDE DEF P
  <2>6. Count(pending', P) = IF Past("attached", i)' /\ Attachable(i) THEN 1 ELSE 0
    <3>1. CASE at = i
      BY <2>2, <2>3, <2>4, <2>5, <3>1
    <3>2. CASE at # i
      BY <2>2, <2>3, <2>4, <2>5, <3>2
    <3> QED BY <3>1, <3>2
  <2> QED BY <2>1, <2>6 DEF P
<1>2. GrantsCounted' /\ ReachesCounted'
  BY <1>0, GrantsStay, ReachesStay DEF Counted
<1> QED BY <1>1, <1>2 DEF Counted

-----------------------------------------------------------------------------
(* What is pending is written, and the edges are the references and what   *)
(* is added of it.                                                         *)

LEMMA SoundSame ==
    ASSUME TypeOK, TypeOK', Kept, Sound, pending' = pending PROVE Sound'
<1>1. \A k \in 1..Len(pending) : IsSound(pending[k])'
  <2> SUFFICES ASSUME NEW k \in 1..Len(pending) PROVE IsSound(pending[k])'
    OBVIOUS
  <2> DEFINE e == pending[k]
  <2>1. IsSound(e) /\ e' = e
    BY DEF Sound
  <2> HIDE DEF e
  <2>2. IsSound(e)'
    BY <2>1, SoundKept
  <2> QED BY <2>2 DEF e
<1> QED BY <1>1 DEF Sound

LEMMA SoundStep ==
    ASSUME TypeOK, TypeOK', Kept, Sound, NEW pass, NEW kind, NEW new, Computed(pass, kind, new)
    PROVE  Sound'
<1>1. /\ pending \in Seq(Edge) /\ new \in Seq(Edge) /\ pending' = pending \o new
      /\ \A e : In(e, new) => IsSound(e)
  BY DEF TypeOK, Computed, IsFrom
<1>2. ASSUME NEW k \in 1..Len(pending') PROVE IsSound(pending[k])'
  <2>1. PICK e : e = pending'[k]
    OBVIOUS
  <2>2. In(e, pending \o new)
    BY <1>1, <2>1 DEF In
  <2>3. In(e, pending) \/ In(e, new)
    BY <1>1, <2>2, InConcat
  <2>4. In(e, pending) => IsSound(e)
    BY DEF In, Sound
  <2>5. IsSound(e)'
    BY <1>1, <2>3, <2>4, SoundKept
  <2> QED BY <2>1, <2>5
<1> QED BY <1>2 DEF Sound

LEMMA MergedSame ==
    ASSUME Merged, edges' = edges, pending' = pending, pc' \in Passes, pc \in Passes,
           pc' \in {"buckets", "roles", "groups", "lambdas"} => pc \in {"buckets", "roles", "groups", "lambdas"}
    PROVE  Merged'
<1>1. AddedSoFar = 0 /\ AddedSoFar' = 0
  BY DEF AddedSoFar, Passes
<1>2. Base' = Base
  BY <1>1 DEF Base
<1>3. pc \in {"buckets", "roles", "groups", "lambdas"} => pending = <<>>
  BY DEF Merged
<1>4. pc' \notin {"grants", "network", "attached", "add", "done"} => pc' \in {"buckets", "roles", "groups", "lambdas"}
  BY DEF Passes
<1>5. pc' # "done"
  BY DEF Passes
<1> QED BY <1>1, <1>2, <1>3, <1>4, <1>5 DEF Merged

LEMMA MergedComputed ==
    ASSUME Merged, edges' = edges, pc' = pc, pc \in {"grants", "network", "attached"}
    PROVE  Merged'
<1>1. AddedSoFar = 0 /\ AddedSoFar' = 0
  BY DEF AddedSoFar
<1>2. Base' = Base
  BY <1>1 DEF Base
<1> QED BY <1>1, <1>2 DEF Merged

LEMMA MergedToAdd ==
    ASSUME Merged, edges' = edges, pc \in Passes, pc' = "add", at' = 1
    PROVE  Merged'
<1>1. AddedSoFar = 0 /\ AddedSoFar' = 0
  BY DEF AddedSoFar, Passes
<1>2. Base' = Base
  BY <1>1 DEF Base
<1> QED BY <1>1, <1>2 DEF Merged

LEMMA MergedPassDone ==
    ASSUME TypeOK, Merged, PassDone PROVE Merged'
<1>1. pc \in Passes /\ pc' = NextPass[pc] /\ at' = 1 /\ edges' = edges /\ pending' = pending
  BY PassesAre DEF PassDone
<1>2. CASE pc = "attached"
  <2>1. pc' = "add"
    BY <1>1, <1>2 DEF NextPass
  <2> QED BY <1>1, <2>1, MergedToAdd
<1>3. CASE pc # "attached"
  <2>1. pc' \in Passes
    BY <1>1, <1>3 DEF NextPass, Passes
  <2>2. pc' \in {"buckets", "roles", "groups", "lambdas"} => pc \in {"buckets", "roles", "groups", "lambdas"}
    BY <1>1, <1>3 DEF NextPass, Passes
  <2> QED BY <1>1, <2>1, <2>2, MergedSame
<1> QED BY <1>2, <1>3

LEMMA MergedAddEdge ==
    ASSUME TypeOK, Merged, Sound, AddEdge PROVE Merged'
<1>1. pc = "add" /\ pc' = "add" /\ at' = at + 1 /\ pending' = pending
  BY DEF AddEdge
<1>2. at \in Nat /\ at >= 1 /\ Len(edges) \in Nat /\ Len(edges') = Len(edges) + 1
  BY AtType, Adds
<1>3. AddedSoFar = at - 1 /\ AddedSoFar' = at
  BY <1>1, <1>2 DEF AddedSoFar
<1>4. Base' = Base /\ Base = Len(edges) - (at - 1) /\ Base + at = Len(edges) + 1
  BY <1>2, <1>3 DEF Base
<1>5. Base \in Nat /\ \A e \in 1..Base : edges[e].kind = "References"
  BY DEF Merged
<1> DEFINE b == Base
<1> HIDE DEF b
<1>6. b \in Nat /\ b + at = Len(edges) + 1
  BY <1>4, <1>5 DEF b
<1>7. \A e \in 1..b : edges'[e].kind = "References"
  <2>1. \A e \in 1..b : e \in 1..Len(edges)
    BY <1>2, <1>6
  <2>2. \A e \in 1..b : edges[e].kind = "References"
    BY <1>5 DEF b
  <2> QED BY <2>1, <2>2, Adds
<1>8. ASSUME NEW k \in 1..at PROVE edges'[b + k] = pending[k]
  <2>1. CASE k = at
    BY <2>1, <1>6, Adds
  <2>2. CASE k # at
    <3>1. k \in 1..(at - 1) /\ b + k \in 1..Len(edges)
      BY <1>2, <1>6, <2>2
    <3>2. edges[b + k] = pending[k]
      BY <1>3, <3>1 DEF Merged, b
    <3> QED BY <3>1, <3>2, Adds
  <2> QED BY <2>1, <2>2
<1> QED BY <1>1, <1>3, <1>4, <1>6, <1>7, <1>8 DEF Merged, b

LEMMA MergedAllAdded ==
    ASSUME TypeOK, Merged, AllAdded PROVE Merged'
<1>1. pc = "add" /\ pc' = "done" /\ at' = at /\ edges' = edges /\ pending' = pending /\ at > Len(pending)
  BY DEF AllAdded
<1>2. at = Len(pending) + 1
  <2>1. Len(pending) \in Nat
    BY Lengths
  <2>2. at \in 1..(Len(pending) + 1)
    BY <1>1 DEF TypeOK
  <2> QED BY <1>1, <2>1, <2>2
<1>3. AddedSoFar' = AddedSoFar
  BY <1>1 DEF AddedSoFar
<1>4. Base' = Base
  BY <1>1, <1>3 DEF Base
<1> QED BY <1>1, <1>2, <1>3, <1>4 DEF Merged

LEMMA MergedUnchanged ==
    ASSUME Merged, UNCHANGED vars PROVE Merged'
BY DEF Merged, vars, Base, AddedSoFar

-----------------------------------------------------------------------------
(* The inductive invariant.                                                *)

LEMMA StartGoing == Init => Going
<1> SUFFICES ASSUME NEW g \in Graphs,
                    nodes = g.nodes, edges = g.edges, derived = [n \in 1..Len(g.nodes) |-> <<>>],
                    pc = "buckets", at = 1, pending = <<>>
             PROVE  Going
  BY DEF Init
<1>1. IsBuiltGraph(g)
  BY GraphsAssumption
<1>2. nodes \in Seq(Node) /\ edges \in Seq(Edge) /\ Len(nodes) \in Nat /\ Len(edges) \in Nat
  BY <1>1, LenProperties DEF IsBuiltGraph
<1>3. /\ \A e \in 1..Len(edges) :
           /\ edges[e].kind = "References"
           /\ {edges[e].src, edges[e].dst, edges[e].holder} \subseteq 1..Len(nodes)
  BY <1>1 DEF IsBuiltGraph
<1>4. pending \in Seq(Edge) /\ Len(pending) = 0 /\ ToSet(pending) = {}
  <2>1. <<>> \in Seq(Edge) /\ Len(<<>>) = 0 /\ DOMAIN <<>> = {}
    OBVIOUS
  <2> QED BY <2>1 DEF ToSet
<1>5. \A e \in ToSet(edges) : {e.src, e.dst, e.holder} \subseteq 1..Len(nodes)
  <2>1. DOMAIN edges = 1..Len(edges)
    BY <1>2, LenProperties
  <2> QED BY <1>3, <2>1 DEF ToSet
<1>6. \A n \in 1..Len(nodes) : derived[n] = <<>> /\ Facts(derived[n])
  <2>1. DOMAIN <<>> = {}
    OBVIOUS
  <2> QED BY <2>1 DEF Facts
<1>7. TypeOK
  <2>1. DOMAIN derived = 1..Len(nodes)
    OBVIOUS
  <2>2. pc \in DOMAIN NextPass /\ pc \notin {"add", "done"}
    BY PassesAre DEF Passes
  <2>3. at \in 1..(Len(nodes) + 1)
    BY <1>2
  <2> QED BY <1>2, <1>4, <1>5, <1>6, <2>1, <2>2, <2>3 DEF TypeOK, Facts
<1>8. \A pass \in Passes : \A n \in 1..Len(nodes) : ~Past(pass, n)
  BY <1>2, NoneIsPast
<1>9. FactsSoFar
  <2>1. \A n \in 1..Len(nodes) : ~Due(n)
    BY <1>8, DueKinds DEF Due
  <2> QED BY <1>6, <2>1 DEF FactsSoFar
<1>10. Merged
  <2>1. AddedSoFar = 0
    BY DEF AddedSoFar
  <2>2. Base = Len(edges)
    BY <1>2, <2>1 DEF Base
  <2> QED BY <1>2, <1>3, <2>1, <2>2 DEF Merged
<1>11. Sound
  BY <1>4 DEF Sound
<1>12. \A P : Count(pending, P) = 0
  BY CountOfEmpty
<1>13. GrantsCounted
  <2>1. "grants" \in Passes
    BY DEF Passes
  <2> QED BY <1>8, <1>12, <2>1 DEF GrantsCounted
<1>14. ReachesCounted
  <2>1. "network" \in Passes
    BY DEF Passes
  <2> QED BY <1>8, <1>12, <2>1 DEF ReachesCounted
<1>15. AttachedCounted
  <2>1. "attached" \in Passes
    BY DEF Passes
  <2> QED BY <1>8, <1>12, <2>1 DEF AttachedCounted
<1> QED BY <1>7, <1>9, <1>10, <1>11, <1>13, <1>14, <1>15 DEF Going

LEMMA DerivedKeeps ==
    ASSUME Going, NEW kind \in DOMAIN FactPass, NEW facts, Derived(FactPass[kind], kind, facts),
           Facts(facts), nodes[at].kind = kind => facts = DeclaredFacts(at)
    PROVE  Going'
<1>1. TypeOK /\ FactsSoFar /\ Merged /\ Sound /\ Counted
  BY DEF Going, Counted
<1>2. FactPass[kind] \in Passes
  BY DueKinds
<1>3. TypeOK' /\ Kept
  BY <1>1, <1>2, DerivedTypes
<1>4. FactsSoFar'
  BY <1>1, <1>3, FactsDerived
<1>5. /\ pc = FactPass[kind] /\ pc' = pc /\ edges' = edges /\ pending' = pending /\ at' = at + 1
      /\ at <= Len(nodes)
  BY DEF Derived
<1>6. Merged'
  BY <1>1, <1>2, <1>5, MergedSame
<1>7. Sound'
  BY <1>1, <1>3, <1>5, SoundSame
<1>8. at \in Nat
  BY <1>1, AtType
<1>9. pc \in {"buckets", "roles", "groups", "lambdas"}
  BY <1>5 DEF FactPass
<1>10. Counted'
  <2>1. SamePast
    <3> SUFFICES ASSUME NEW pass \in {"grants", "network", "attached"}, NEW n \in 1..Len(nodes)
                 PROVE  Past(pass, n)' <=> Past(pass, n)
      BY DEF SamePast
    <3>1. n \in Nat /\ pass \in Passes /\ pc # pass
      BY <1>1, <1>9, Lengths DEF Passes
    <3> QED BY <1>2, <1>5, <1>8, <3>1, PastNext
  <2> QED BY <1>1, <1>3, <1>5, <2>1, CountsSame
<1> QED BY <1>3, <1>4, <1>6, <1>7, <1>10 DEF Going, Counted

(* The passes whose facts there are, and those whose edges.                *)
SameFactPast ==
    \A pass \in Passes : \A n \in 1..Len(nodes) :
        pass \in {"buckets", "roles", "groups", "lambdas"} => Past(pass, n)' = Past(pass, n)

LEMMA PastIsBoolean == ASSUME NEW pass, NEW n PROVE Past(pass, n) \in BOOLEAN /\ Past(pass, n)' \in BOOLEAN
BY DEF Past

LEMMA ComputedKeeps ==
    ASSUME Going, NEW pass \in {"grants", "network", "attached"}, NEW kind, NEW new,
           Computed(pass, kind, new)
    PROVE  TypeOK' /\ Kept /\ FactsSoFar' /\ Merged' /\ Sound'
<1>1. TypeOK /\ FactsSoFar /\ Merged /\ Sound /\ pass \in Passes
  BY DEF Going, Passes
<1>2. TypeOK' /\ Kept
  BY <1>1, ComputedTypes
<1>3. pc = pass /\ pc' = pc /\ edges' = edges /\ derived' = derived /\ at' = at + 1 /\ at \in Nat /\ pc \in Passes
  BY <1>1, AtType DEF Computed
<1>4. SameFactPast
  <2> SUFFICES ASSUME NEW p \in Passes, NEW n \in 1..Len(nodes), p \in {"buckets", "roles", "groups", "lambdas"}
               PROVE  Past(p, n)' = Past(p, n)
    BY DEF SameFactPast
  <2>1. n \in Nat /\ pc # p
    BY <1>1, <1>3, Lengths
  <2>2. Past(p, n)' <=> Past(p, n)
    BY <1>3, <2>1, PastNext
  <2> QED BY <2>2, PastIsBoolean
<1>5. FactsSoFar'
  BY <1>1, <1>2, <1>3, <1>4, FactsUnchanged DEF SameFactPast
<1>6. Merged'
  BY <1>1, <1>3, MergedComputed
<1>7. Sound'
  BY <1>1, <1>2, SoundStep
<1> QED BY <1>2, <1>5, <1>6, <1>7

(* The other steps derive and compute nothing.                             *)
LEMMA OtherKeeps ==
    ASSUME Going, TypeOK', Kept, derived' = derived, pending' = pending, Merged',
           \A pass \in Passes : \A n \in 1..Len(nodes) : Past(pass, n)' <=> Past(pass, n)
    PROVE  Going'
<1>1. TypeOK /\ FactsSoFar /\ Sound /\ Counted
  BY DEF Going, Counted
<1>2. FactsSoFar'
  <2>1. SameFactPast
    <3> SUFFICES ASSUME NEW p \in Passes, NEW n \in 1..Len(nodes), p \in {"buckets", "roles", "groups", "lambdas"}
                 PROVE  Past(p, n)' = Past(p, n)
      BY DEF SameFactPast
    <3>1. Past(p, n)' <=> Past(p, n)
      OBVIOUS
    <3> QED BY <3>1, PastIsBoolean
  <2> QED BY <1>1, <2>1, FactsUnchanged DEF SameFactPast
<1>3. Sound'
  BY <1>1, SoundSame
<1>4. Counted'
  <2>1. SamePast
    BY DEF SamePast, Passes
  <2> QED BY <1>1, <2>1, CountsSame
<1> QED BY <1>2, <1>3, <1>4 DEF Going, Counted

LEMMA DoneIsPast ==
    ASSUME pc \in {"add", "done"}, pc' \in {"add", "done"}
    PROVE  \A pass \in Passes : \A n \in 1..Len(nodes) : Past(pass, n)' <=> Past(pass, n)
BY DEF Past, PassNumber, Passes

LEMMA GoingOn == Going /\ [Next]_vars /\ ~Panic => Going'
<1> SUFFICES ASSUME Going, [Next]_vars, ~Panic PROVE Going'
  OBVIOUS
<1>0. TypeOK /\ FactsSoFar /\ Merged /\ Sound /\ Counted
  BY DEF Going, Counted
<1>1. CASE DeriveBucket
  <2> DEFINE facts == [sensitive |-> is_tagged_sensitive(nodes[at].attrs), public |-> PublicByRefs(at)]
  <2>1. "S3Bucket" \in DOMAIN FactPass /\ FactPass["S3Bucket"] = "buckets"
    BY DueKinds
  <2>2. Derived("buckets", "S3Bucket", facts)
    BY <1>0, <1>1, BucketIs
  <2>3. Facts(facts)
    BY FactsAreBoolean
  <2>4. nodes[at].kind = "S3Bucket" => facts = DeclaredFacts(at)
    BY DEF DeclaredFacts
  <2> HIDE DEF facts
  <2> QED BY <2>1, <2>2, <2>3, <2>4, DerivedKeeps
<1>2. CASE DeriveRoleTrust
  <2>1. "IamRole" \in DOMAIN FactPass /\ FactPass["IamRole"] = "roles"
    BY DueKinds
  <2>2. nodes[at].kind = "IamRole" => RoleFacts(at) = DeclaredFacts(at)
    BY DEF DeclaredFacts
  <2> QED BY <1>2, <2>1, <2>2, RolesIs, FactsAreBoolean, DerivedKeeps
<1>3. CASE DeriveSecurityGroup
  <2>1. "SecurityGroup" \in DOMAIN FactPass /\ FactPass["SecurityGroup"] = "groups"
    BY DueKinds
  <2>2. nodes[at].kind = "SecurityGroup" => GroupFacts(at) = DeclaredFacts(at)
    BY DEF DeclaredFacts
  <2> QED BY <1>3, <2>1, <2>2, GroupsIs, FactsAreBoolean, DerivedKeeps
<1>4. CASE DeriveLambda
  <2>1. "LambdaFunction" \in DOMAIN FactPass /\ FactPass["LambdaFunction"] = "lambdas"
    BY DueKinds
  <2>2. nodes[at].kind = "LambdaFunction" => LambdaFacts(at) = DeclaredFacts(at)
    BY DEF DeclaredFacts
  <2> QED BY <1>4, <2>1, <2>2, LambdasIs, FactsAreBoolean, DerivedKeeps
<1>5. CASE ComputeGrants
  <2>1. Computed("grants", "IamGrants", GrantEdges(at))
    BY <1>0, <1>5, GrantsIs
  <2>2. TypeOK' /\ Kept /\ FactsSoFar' /\ Merged' /\ Sound'
    BY <2>1, ComputedKeeps
  <2>3. Counted'
    BY <1>0, <2>1, <2>2, GrantsStep
  <2> QED BY <2>2, <2>3 DEF Going, Counted
<1>6. CASE ComputeNetwork
  <2>1. Computed("network", "NetworkReachable", NetworkEdges(at))
    BY <1>0, <1>6, NetworkIs
  <2>2. TypeOK' /\ Kept /\ FactsSoFar' /\ Merged' /\ Sound'
    BY <2>1, ComputedKeeps
  <2>3. Counted'
    BY <1>0, <2>1, <2>2, NetworkStep
  <2> QED BY <2>2, <2>3 DEF Going, Counted
<1>7. CASE ComputeAttached
  <2>1. Computed("attached", "Attached", AttachedEdges(at))
    BY <1>0, <1>7, AttachedIs
  <2>2. TypeOK' /\ Kept /\ FactsSoFar' /\ Merged' /\ Sound'
    BY <2>1, ComputedKeeps
  <2>3. Counted'
    BY <1>0, <2>1, <2>2, AttachedStep
  <2> QED BY <2>2, <2>3 DEF Going, Counted
<1>8. CASE PassDone
  <2>1. TypeOK' /\ Kept /\ Merged'
    BY <1>0, <1>8, PassDoneTypes, MergedPassDone
  <2>2. \A pass \in Passes : \A n \in 1..Len(nodes) : Past(pass, n)' <=> Past(pass, n)
    BY <1>0, <1>8, PastDone
  <2>3. derived' = derived /\ pending' = pending
    BY <1>8 DEF PassDone
  <2> QED BY <2>1, <2>2, <2>3, OtherKeeps
<1>9. CASE AddEdge
  <2>1. TypeOK' /\ Kept /\ Merged'
    BY <1>0, <1>9, AddEdgeTypes, MergedAddEdge
  <2>2. \A pass \in Passes : \A n \in 1..Len(nodes) : Past(pass, n)' <=> Past(pass, n)
    <3>1. pc \in {"add", "done"} /\ pc' \in {"add", "done"}
      BY <1>9 DEF AddEdge
    <3> QED BY <3>1, DoneIsPast
  <2>3. derived' = derived /\ pending' = pending
    BY <1>9 DEF AddEdge
  <2> QED BY <2>1, <2>2, <2>3, OtherKeeps
<1>10. CASE AllAdded
  <2>1. TypeOK' /\ Kept /\ Merged'
    BY <1>0, <1>10, AllAddedTypes, MergedAllAdded
  <2>2. \A pass \in Passes : \A n \in 1..Len(nodes) : Past(pass, n)' <=> Past(pass, n)
    <3>1. pc \in {"add", "done"} /\ pc' \in {"add", "done"}
      BY <1>10 DEF AllAdded
    <3> QED BY <3>1, DoneIsPast
  <2>3. derived' = derived /\ pending' = pending
    BY <1>10 DEF AllAdded
  <2> QED BY <2>1, <2>2, <2>3, OtherKeeps
<1>11. CASE UNCHANGED vars
  <2>1. TypeOK' /\ Kept /\ Merged'
    BY <1>0, <1>11, SameTypes, MergedUnchanged
  <2>2. \A pass \in Passes : \A n \in 1..Len(nodes) : Past(pass, n)' <=> Past(pass, n)
    BY <1>11, PastSame DEF vars
  <2>3. derived' = derived /\ pending' = pending
    BY <1>11 DEF vars
  <2> QED BY <2>1, <2>2, <2>3, OtherKeeps
<1> QED BY <1>1, <1>2, <1>3, <1>4, <1>5, <1>6, <1>7, <1>8, <1>9, <1>10, <1>11 DEF Next

LEMMA PanicHalts ==
    ASSUME Going, Panic PROVE TypeOK' /\ pc' = "panicked" /\ (Added("IamGrants") = {})'
<1>1. /\ pc \in DOMAIN KindOfPass /\ pc' = "panicked" /\ at' = at /\ nodes' = nodes /\ edges' = edges
      /\ derived' = derived /\ pending' = pending
  BY DEF Panic
<1>2. pc \in Passes
  BY <1>1 DEF KindOfPass, Passes
<1>3. TypeOK /\ Merged
  BY DEF Going
<1>4. at \in 1..(Len(nodes) + 1)
  BY <1>2, <1>3 DEF TypeOK, Passes
<1>5. TypeOK'
  BY <1>1, <1>3, <1>4 DEF TypeOK
<1>6. References = 1..Len(edges)
  BY <1>2, <1>3, AllReferences
<1>7. Added("IamGrants") = {}
  BY <1>6 DEF References, Added
<1> QED BY <1>1, <1>5, <1>7 DEF Added

LEMMA Halted == ASSUME pc = "panicked", [Next]_vars PROVE UNCHANGED vars
<1>1. pc \notin DOMAIN NextPass /\ pc \notin DOMAIN KindOfPass
  BY PassesAre DEF Passes, KindOfPass
<1> QED BY <1>1 DEF Next, DeriveBucket, DeriveRoleTrust, DeriveSecurityGroup, DeriveLambda, DeriveFacts, Panic,
              ComputeGrants, ComputeNetwork, ComputeAttached, ComputeEdges, PassDone, AddEdge, AllAdded

LEMMA StartInvariant == Init => IInv
<1> SUFFICES ASSUME Init PROVE IInv
  OBVIOUS
<1>1. Going /\ pc # "panicked"
  BY StartGoing DEF Init
<1> QED BY <1>1 DEF IInv, Going

LEMMA NotPanicked ==
    ASSUME [Next]_vars, ~Panic, TypeOK, pc # "panicked" PROVE pc' # "panicked"
<1>1. ASSUME PassDone PROVE pc' # "panicked"
  BY <1>1, PassesAre DEF PassDone, NextPass, Passes
<1> QED BY <1>1 DEF Next, DeriveBucket, DeriveRoleTrust, DeriveSecurityGroup, DeriveLambda, DeriveFacts,
              ComputeGrants, ComputeNetwork, ComputeAttached, ComputeEdges, AddEdge, AllAdded, vars

LEMMA StepInvariant == IInv /\ [Next]_vars => IInv'
<1> SUFFICES ASSUME IInv, [Next]_vars PROVE IInv'
  OBVIOUS
<1>1. CASE pc = "panicked"
  <2>1. UNCHANGED vars
    BY <1>1, Halted
  <2>2. TypeOK' /\ pc' = "panicked"
    BY <1>1, <2>1, SameTypes DEF IInv, vars
  <2>3. (Added("IamGrants") = {})'
    BY <1>1, <2>1 DEF IInv, Added, vars
  <2> QED BY <2>2, <2>3 DEF IInv
<1>2. CASE pc # "panicked" /\ Panic
  <2>1. Going
    BY <1>2 DEF IInv
  <2> QED BY <1>2, <2>1, PanicHalts DEF IInv
<1>3. CASE pc # "panicked" /\ ~Panic
  <2>1. Going /\ TypeOK
    BY <1>3 DEF IInv
  <2>2. Going' /\ pc' # "panicked"
    BY <1>3, <2>1, GoingOn, NotPanicked
  <2> QED BY <2>2 DEF IInv, Going
<1> QED BY <1>1, <1>2, <1>3

(* In every state: what the references call for, at the nodes the passes   *)
(* are through with, and nothing for the others.                           *)
THEOREM ClassifyInvariance == Spec => []IInv
BY StartInvariant, StepInvariant, PTL DEF Spec

-----------------------------------------------------------------------------
(* What the invariant says of the graph the passes leave.                  *)

LEMMA Origin ==
    ASSUME Going, NEW e \in 1..Len(edges), edges[e].kind # "References"
    PROVE  IsSound(edges[e])
<1>1. TypeOK /\ Merged /\ Sound
  BY DEF Going
<1>2. Len(edges) \in Nat /\ Len(pending) \in Nat /\ at \in Nat /\ at >= 1
  BY <1>1, Lengths, AtType
<1>3. AddedSoFar \in Nat /\ AddedSoFar <= Len(pending)
  <2>1. pc \in {"add", "done"} => at \in 1..(Len(pending) + 1)
    BY <1>1 DEF TypeOK
  <2> QED BY <1>2, <2>1 DEF AddedSoFar
<1> DEFINE b == Base
           a == AddedSoFar
<1>4. b \in Nat /\ b + a = Len(edges) /\ a \in Nat /\ a <= Len(pending)
  BY <1>1, <1>2, <1>3 DEF Merged, Base
<1>5. /\ \A k \in 1..b : edges[k].kind = "References"
      /\ \A k \in 1..a : edges[b + k] = pending[k]
  BY <1>1 DEF Merged
<1> HIDE DEF a, b
<1>6. ~(e \in 1..b)
  BY <1>5
<1>7. e - b \in 1..a /\ b + (e - b) = e
  BY <1>4, <1>6
<1>8. edges[e] = pending[e - b] /\ e - b \in 1..Len(pending)
  BY <1>2, <1>4, <1>5, <1>7
<1> QED BY <1>1, <1>8 DEF Sound

(* At the end an edge is counted in the graph as often as it was pending.  *)
LEMMA CountedInGraph ==
    ASSUME Going, pc = "done", NEW P, \A e \in P : e.kind # "References"
    PROVE  Count(edges, P) = Count(pending, P)
<1>1. TypeOK /\ Merged
  BY DEF Going
<1>2. Len(edges) \in Nat /\ Len(pending) \in Nat
  BY <1>1, Lengths
<1>3. AddedSoFar = Len(pending)
  BY <1>1, <1>2 DEF AddedSoFar, Merged
<1> DEFINE b == Base
<1>4. b \in Nat /\ Len(edges) = b + Len(pending)
  BY <1>1, <1>2, <1>3 DEF Merged, Base
<1>5. /\ \A k \in 1..b : edges[k].kind = "References"
      /\ \A k \in 1..Len(pending) : edges[b + k] = pending[k]
  BY <1>1, <1>3 DEF Merged
<1> HIDE DEF b
<1>6. \A k \in 1..b : edges[k] \notin P
  BY <1>5
<1>7. Behind(edges, pending, b, P)
  BY <1>4, <1>5, <1>6 DEF Behind
<1> QED BY <1>2, <1>4, <1>7, CountBehind

(* A resource of this kind that refers to bucket n exposes it.             *)
ExposedBy(kind, n) ==
    \E m \in Nodes(kind) : /\ \E e \in References : edges[e].src = m /\ edges[e].dst = n
                          /\ Exposes(m)

LEMMA PublicAsDeclared ==
    ASSUME TypeOK, NEW n \in 1..Len(nodes)
    PROVE  PublicByRefs(n) <=> ExposedBy("S3BucketPublicAccessBlock", n) \/ ExposedBy("S3BucketAcl", n)
<1>1. \A e \in References : edges[e].src \in 1..Len(nodes)
  BY Lengths DEF References
<1>2. ASSUME NEW e \in References, edges[e].dst = n, Exposes(edges[e].src)
      PROVE  ExposedBy("S3BucketPublicAccessBlock", n) \/ ExposedBy("S3BucketAcl", n)
  <2> DEFINE m == edges[e].src
  <2>1. m \in 1..Len(nodes) /\ Exposes(m) /\ \E d \in References : edges[d].src = m /\ edges[d].dst = n
    BY <1>1, <1>2
  <2>2. nodes[m].kind \in {"S3BucketPublicAccessBlock", "S3BucketAcl"}
    BY <1>2 DEF Exposes
  <2> HIDE DEF m
  <2>3. m \in Nodes(nodes[m].kind)
    BY <2>1 DEF Nodes
  <2>4. ExposedBy(nodes[m].kind, n)
    BY <2>1, <2>3 DEF ExposedBy
  <2> QED BY <2>2, <2>4
<1>3. ASSUME NEW kind, ExposedBy(kind, n) PROVE PublicByRefs(n)
  BY <1>3 DEF ExposedBy, PublicByRefs
<1> QED BY <1>2, <1>3 DEF PublicByRefs

LEMMA ExposedAsDeclared ==
    ASSUME TypeOK, NEW n
    PROVE  /\ ExposedBy("S3BucketPublicAccessBlock", n) <=>
                 \E m \in {m \in Nodes("S3BucketPublicAccessBlock") :
                               \E e \in References : edges[e].src = m /\ edges[e].dst = n} :
                     nodes[m].attrs.turned_off # {}
           /\ ExposedBy("S3BucketAcl", n) <=>
                 \E m \in {m \in Nodes("S3BucketAcl") :
                               \E e \in References : edges[e].src = m /\ edges[e].dst = n} :
                     nodes[m].attrs.acl \in PublicAcl
<1>1. \A m \in Nodes("S3BucketPublicAccessBlock") : Exposes(m) <=> nodes[m].attrs.turned_off # {}
  BY DEF Exposes, Nodes
<1>2. \A m \in Nodes("S3BucketAcl") : Exposes(m) <=> nodes[m].attrs.acl \in PublicAcl
  BY DEF Exposes, Nodes
<1>3. ExposedBy("S3BucketPublicAccessBlock", n) <=>
         \E m \in {m \in Nodes("S3BucketPublicAccessBlock") :
                       \E e \in References : edges[e].src = m /\ edges[e].dst = n} :
             nodes[m].attrs.turned_off # {}
  BY <1>1 DEF ExposedBy
<1>4. ExposedBy("S3BucketAcl", n) <=>
         \E m \in {m \in Nodes("S3BucketAcl") :
                       \E e \in References : edges[e].src = m /\ edges[e].dst = n} :
             nodes[m].attrs.acl \in PublicAcl
  BY <1>2 DEF ExposedBy
<1> QED BY <1>3, <1>4

LEMMA SensitiveAsDeclared ==
    ASSUME TypeOK, NEW n \in 1..Len(nodes)
    PROVE  is_tagged_sensitive(nodes[n].attrs)
              <=> [key |-> "sensitive", truthy |-> TRUE] \in nodes[n].attrs.tags
<1>1. nodes[n].attrs.tags \subseteq [key : {"sensitive", "other"}, truthy : BOOLEAN]
  <2>1. nodes[n] \in Node
    BY Lengths
  <2>2. nodes[n].attrs \in Attrs
    BY <2>1 DEF Node
  <2> QED BY <2>2 DEF Attrs
<1> DEFINE tags == nodes[n].attrs.tags
<1>2. is_tagged_sensitive(nodes[n].attrs) <=> \E t \in tags : t.key = "sensitive" /\ t.truthy
  BY DEF is_tagged_sensitive
<1> HIDE DEF tags
<1>3. ASSUME NEW t \in tags, t.key = "sensitive", t.truthy
      PROVE  [key |-> "sensitive", truthy |-> TRUE] \in tags
  <2>1. t \in [key : {"sensitive", "other"}, truthy : BOOLEAN]
    BY <1>1 DEF tags
  <2>2. t = [key |-> "sensitive", truthy |-> TRUE]
    BY <1>3, <2>1
  <2> QED BY <2>2
<1>4. [key |-> "sensitive", truthy |-> TRUE] \in tags => \E t \in tags : t.key = "sensitive" /\ t.truthy
  OBVIOUS
<1> QED BY <1>2, <1>3, <1>4 DEF tags

LEMMA OpenedByOne ==
    ASSUME TypeOK, NEW m \in 1..Len(nodes), NEW n,
           {edges[e].dst : e \in {r \in References :
                edges[r].src = m /\ IsAttr(edges[r].path, "function_name")}} = {n}
    PROVE  referenced_node(m, "function_name") = n
<1> DEFINE R == {r \in References : edges[r].src = m /\ IsAttr(edges[r].path, "function_name")}
<1>1. AttrRefs(m, "function_name") = R
  BY RefsFound DEF AttrRefs
<1>2. R # {} /\ \A r \in R : edges[r].dst = n
  <2>1. \A r \in R : edges[r].dst \in {n}
    OBVIOUS
  <2>2. \E r \in R : TRUE
    OBVIOUS
  <2> QED BY <2>1, <2>2
<1>3. Max(AttrRefs(m, "function_name")) \in R
  BY <1>1, <1>2, LastRef
<1> HIDE DEF R
<1> QED BY <1>1, <1>2, <1>3, ReferencedIs

LEMMA FactsDeclared == Going => FactsAsDeclared
<1> SUFFICES ASSUME Going, pc = "done", NEW n \in 1..Len(nodes)
             PROVE  LET From(kind) == {m \in Nodes(kind) : \E e \in References : edges[e].src = m /\ edges[e].dst = n}
                    IN  CASE nodes[n].kind = "S3Bucket" ->
                                /\ derived[n].public =
                                      \/ \E m \in From("S3BucketPublicAccessBlock") :
                                            nodes[m].attrs.turned_off # {}
                                      \/ \E m \in From("S3BucketAcl") : nodes[m].attrs.acl \in PublicAcl
                                /\ derived[n].sensitive = ([key |-> "sensitive", truthy |-> TRUE] \in nodes[n].attrs.tags)
                          [] nodes[n].kind = "LambdaFunction" ->
                                /\ derived[n].publicly_invokable => From("LambdaPermission") # {}
                                /\ \A m \in Nodes("LambdaPermission") :
                                      LET named == {edges[e].dst : e \in {r \in References :
                                            edges[r].src = m /\ IsAttr(edges[r].path, "function_name")}}
                                      IN  /\ named = {n}
                                          /\ nodes[m].attrs.principal = "*" /\ ~nodes[m].attrs.source_arn
                                          => derived[n].publicly_invokable
                          [] nodes[n].kind = "IamRole" ->
                                derived[n] = [wildcard_trust |->
                                    \E i \in 1..Len(nodes[n].attrs.assume_role_policy) :
                                       LET statement == nodes[n].attrs.assume_role_policy[i]
                                       IN  /\ statement.effect = "Allow"
                                           /\ {p \in statement.principals : p.value = "*"} # {}]
                          [] nodes[n].kind = "SecurityGroup" ->
                                derived[n] = [open_ingress |->
                                    \E k \in 1..Len(nodes[n].attrs.ingress) :
                                       OpenCidr \cap nodes[n].attrs.ingress[k].cidrs # {}]
                          [] OTHER -> derived[n] = <<>>
  BY DEF FactsAsDeclared
<1>1. TypeOK /\ FactsSoFar
  BY DEF Going
<1>2. derived[n] = IF nodes[n].kind \in DOMAIN FactPass THEN DeclaredFacts(n) ELSE <<>>
  <2>1. nodes[n].kind \in DOMAIN FactPass => Due(n)
    BY DueKinds, AllArePast DEF Due
  <2> QED BY <1>1, <2>1 DEF FactsSoFar, Due
<1>3. CASE nodes[n].kind = "S3Bucket"
  <2> DEFINE a == is_tagged_sensitive(nodes[n].attrs)
             b == PublicByRefs(n)
  <2>1. derived[n] = [sensitive |-> a, public |-> b]
    BY <1>2, <1>3, DueKinds DEF DeclaredFacts
  <2>2. a \in BOOLEAN /\ b \in BOOLEAN
    BY DEF is_tagged_sensitive, PublicByRefs
  <2> DEFINE c == \/ \E m \in {m \in Nodes("S3BucketPublicAccessBlock") :
                                  \E e \in References : edges[e].src = m /\ edges[e].dst = n} :
                        nodes[m].attrs.turned_off # {}
                  \/ \E m \in {m \in Nodes("S3BucketAcl") :
                                  \E e \in References : edges[e].src = m /\ edges[e].dst = n} :
                        nodes[m].attrs.acl \in PublicAcl
             d == [key |-> "sensitive", truthy |-> TRUE] \in nodes[n].attrs.tags
  <2>3. b <=> c
    <3>1. b <=> ExposedBy("S3BucketPublicAccessBlock", n) \/ ExposedBy("S3BucketAcl", n)
      BY <1>1, PublicAsDeclared
    <3> QED BY <1>1, <3>1, ExposedAsDeclared
  <2>4. a <=> d
    BY <1>1, SensitiveAsDeclared
  <2>5. c \in BOOLEAN /\ d \in BOOLEAN
    OBVIOUS
  <2>6. derived[n].public = c /\ derived[n].sensitive = d
    <3> HIDE DEF a, b, c, d
    <3>1. derived[n].public = b /\ derived[n].sensitive = a
      BY <2>1
    <3>2. b = c /\ a = d
      BY <2>2, <2>3, <2>4, <2>5
    <3> QED BY <3>1, <3>2
  <2> QED BY <1>3, <2>6
<1>4. CASE nodes[n].kind = "LambdaFunction"
  <2> DEFINE f == \E p \in 1..Len(nodes) : InvokableByAnyone(p, n)
  <2>1. derived[n].publicly_invokable = f
    <3>1. derived[n] = [publicly_invokable |-> f]
      BY <1>2, <1>4, DueKinds DEF DeclaredFacts, LambdaFacts
    <3> HIDE DEF f
    <3> QED BY <3>1
  <2>2. ASSUME f
        PROVE  {m \in Nodes("LambdaPermission") : \E e \in References : edges[e].src = m /\ edges[e].dst = n} # {}
    <3>1. PICK p \in 1..Len(nodes) : InvokableByAnyone(p, n)
      BY <2>2
    <3>2. referenced_node(p, "function_name") = n /\ nodes[p].kind = "LambdaPermission"
      BY <3>1 DEF InvokableByAnyone
    <3>3. n # NoNode
      BY <1>1, Lengths DEF NoNode
    <3>4. Refers(p, n, "function_name")
      BY <1>1, <3>2, <3>3, Referenced
    <3> QED BY <3>2, <3>4 DEF Refers, Nodes
  <2>3. ASSUME NEW m \in Nodes("LambdaPermission"),
               {edges[e].dst : e \in {r \in References :
                    edges[r].src = m /\ IsAttr(edges[r].path, "function_name")}} = {n},
               nodes[m].attrs.principal = "*", ~nodes[m].attrs.source_arn
        PROVE  f
    <3>1. m \in 1..Len(nodes) /\ nodes[m].kind = "LambdaPermission"
      BY DEF Nodes
    <3>2. referenced_node(m, "function_name") = n
      BY <1>1, <2>3, <3>1, OpenedByOne
    <3> QED BY <2>3, <3>1, <3>2 DEF InvokableByAnyone
  <2> HIDE DEF f
  <2> QED BY <1>4, <2>1, <2>2, <2>3
<1>0. nodes[n] \in Node
  BY <1>1, Lengths
<1>5. CASE nodes[n].kind = "IamRole"
  <2> DEFINE policy == nodes[n].attrs.assume_role_policy
             a == \E s \in ToSet(policy) : statement_has_wildcard_principal(s)
             b == \E i \in 1..Len(policy) :
                     LET statement == policy[i]
                     IN  /\ statement.effect = "Allow"
                         /\ {p \in statement.principals : p.value = "*"} # {}
  <2>1. derived[n] = [wildcard_trust |-> a]
    BY <1>2, <1>5, DueKinds DEF DeclaredFacts, RoleFacts
  <2>2. a = b
    <3>1. policy \in Seq(Statement)
      BY <1>0 DEF Node, Attrs
    <3> HIDE DEF policy
    <3>2. DOMAIN policy = 1..Len(policy)
      BY <3>1, LenProperties
    <3>3. a <=> \E i \in 1..Len(policy) : statement_has_wildcard_principal(policy[i])
      BY <3>2 DEF ToSet
    <3> QED BY <3>3 DEF statement_has_wildcard_principal
  <2> HIDE DEF a
  <2> QED BY <1>5, <2>1, <2>2
<1>6. CASE nodes[n].kind = "SecurityGroup"
  <2> DEFINE ingress == nodes[n].attrs.ingress
             a == \E r \in ToSet(ingress) : r.cidrs \cap OpenCidr # {}
             b == \E k \in 1..Len(ingress) : OpenCidr \cap ingress[k].cidrs # {}
  <2>1. derived[n] = [open_ingress |-> a]
    BY <1>2, <1>6, DueKinds DEF DeclaredFacts, GroupFacts
  <2>2. a = b
    <3>1. ingress \in Seq([cidrs : SUBSET (OpenCidr \cup {"10.0.0.0/8"}), port : Nat])
      BY <1>0 DEF Node, Attrs
    <3> HIDE DEF ingress
    <3>2. DOMAIN ingress = 1..Len(ingress)
      BY <3>1, LenProperties
    <3>3. a <=> \E k \in 1..Len(ingress) : ingress[k].cidrs \cap OpenCidr # {}
      BY <3>2 DEF ToSet
    <3> QED BY <3>3
  <2> HIDE DEF a
  <2> QED BY <1>6, <2>1, <2>2
<1>7. CASE nodes[n].kind \notin {"S3Bucket", "LambdaFunction", "IamRole", "SecurityGroup"}
  BY <1>2, <1>7, DueKinds
<1> QED BY <1>3, <1>4, <1>5, <1>6, <1>7

LEMMA GrantsFound == Going => GrantsAsWritten
<1> SUFFICES ASSUME Going PROVE GrantsAsWritten
  OBVIOUS
<1>1. TypeOK /\ GrantsCounted
  BY DEF Going
<1>2. NoGrantMisattributed
  <2> SUFFICES ASSUME NEW e \in Added("IamGrants") PROVE IsWritten(edges[e])
    BY DEF NoGrantMisattributed
  <2>1. e \in 1..Len(edges) /\ edges[e].kind = "IamGrants"
    BY DEF Added
  <2>2. IsSound(edges[e])
    BY <2>1, Origin
  <2> QED BY <2>1, <2>2 DEF IsSound
<1>3. EachGrantFound
  <2> SUFFICES ASSUME pc = "done",
                      NEW policy \in 1..Len(nodes), NEW role \in 1..Len(nodes), NEW target \in 1..Len(nodes),
                      NEW i \in 1..Len(nodes[policy].attrs.policy)
               PROVE  LET made == {e \in Added("IamGrants") :
                               /\ edges[e].src = role /\ edges[e].dst = target
                               /\ edges[e].holder = policy /\ edges[e].path.stmt = i}
                      IN  Written(policy, target, i) # {} /\ Grants(nodes[policy].attrs.policy[i]) =>
                             Cardinality(made) = Cardinality(Links(policy, role) \X Written(policy, target, i))
    BY Zenon DEF EachGrantFound
  <2> SUFFICES ASSUME Written(policy, target, i) # {}, Grants(nodes[policy].attrs.policy[i])
               PROVE  Cardinality({e \in Added("IamGrants") :
                               /\ edges[e].src = role /\ edges[e].dst = target
                               /\ edges[e].holder = policy /\ edges[e].path.stmt = i})
                        = Cardinality(Links(policy, role) \X Written(policy, target, i))
    OBVIOUS
  <2> DEFINE made == {e \in Added("IamGrants") :
                          /\ edges[e].src = role /\ edges[e].dst = target
                          /\ edges[e].holder = policy /\ edges[e].path.stmt = i}
             P == GrantsOf(policy, role, target, i)
  <2>1. made = Places(edges, P)
    <3>1. \A e \in 1..Len(edges) : edges[e] \in Edge
      BY <1>1, Lengths
    <3> QED BY <3>1 DEF Places, Added, GrantsOf
  <2>2. \A e \in P : e.kind # "References"
    BY DEF GrantsOf
  <2>3. Past("grants", policy)
    BY AllArePast DEF Passes
  <2>4. Count(pending, P) = Cardinality(Links(policy, role)) * Cardinality(Written(policy, target, i))
    BY <1>1, <2>3 DEF GrantsCounted
  <2> HIDE DEF P, made
  <2>5. Cardinality(made) = Count(pending, P)
    BY <2>1, <2>2, CountedInGraph DEF Count
  <2>6. IsFiniteSet(Links(policy, role)) /\ IsFiniteSet(Written(policy, target, i))
    BY <1>1, LinksFinite, WrittenFinite
  <2>7. Cardinality(Links(policy, role) \X Written(policy, target, i))
          = Cardinality(Links(policy, role)) * Cardinality(Written(policy, target, i))
    BY <2>6, FS_Product
  <2> QED BY <2>4, <2>5, <2>7 DEF made
<1> QED BY <1>2, <1>3 DEF GrantsAsWritten

LEMMA NetworkFound == Going => ReachableIffOpen
<1> SUFFICES ASSUME Going, pc = "done", NEW g \in Nodes("SecurityGroup"), NEW i \in Nodes("Instance")
             PROVE  LET open == {k \in 1..Len(nodes[g].attrs.ingress) :
                                    nodes[g].attrs.ingress[k].cidrs \cap OpenCidr # {}}
                        made == {e \in Added("NetworkReachable") : edges[e].src = g /\ edges[e].dst = i}
                    IN  /\ (made # {}) = (derived[g].open_ingress /\ Uses(i, g) # {})
                        /\ Cardinality(made) = Cardinality(Uses(i, g) \X open)
                        /\ {edges[e].from_port : e \in made} \subseteq {nodes[g].attrs.ingress[k].port : k \in open}
  BY Zenon DEF ReachableIffOpen
<1>1. /\ TypeOK /\ FactsSoFar /\ ReachesCounted
      /\ g \in 1..Len(nodes) /\ nodes[g].kind = "SecurityGroup"
      /\ i \in 1..Len(nodes) /\ nodes[i].kind = "Instance"
  BY DEF Going, Nodes
<1> DEFINE open == {k \in 1..Len(nodes[g].attrs.ingress) :
                       nodes[g].attrs.ingress[k].cidrs \cap OpenCidr # {}}
           made == {e \in Added("NetworkReachable") : edges[e].src = g /\ edges[e].dst = i}
           P == Reaches(g, i)
<1>2. open = ingress_rules_with_open_cidr(g)
  BY DEF ingress_rules_with_open_cidr
<1>3. made = Places(edges, P)
  <2>1. \A e \in 1..Len(edges) : edges[e] \in Edge
    BY <1>1, Lengths
  <2> QED BY <2>1 DEF Places, Added, Reaches
<1>4. Cardinality(made) = Cardinality(Uses(i, g)) * Cardinality(open)
  <2>1. \A e \in P : e.kind # "References"
    BY DEF Reaches
  <2>2. Past("network", i)
    BY AllArePast DEF Passes
  <2>3. Count(pending, P) = Cardinality(Uses(i, g)) * Cardinality(ingress_rules_with_open_cidr(g))
    BY <1>1, <2>2 DEF ReachesCounted
  <2> HIDE DEF P, made, open
  <2>4. Cardinality(made) = Count(pending, P)
    BY <1>3, <2>1, CountedInGraph DEF Count
  <2> QED BY <1>2, <2>3, <2>4
<1>5. IsFiniteSet(Uses(i, g)) /\ IsFiniteSet(open) /\ Cardinality(Uses(i, g)) \in Nat /\ Cardinality(open) \in Nat
  BY <1>1, <1>2, UsesFinite, OpenFinite, ListsCount
<1>6. IsFiniteSet(made)
  BY <1>1, <1>3, Lengths, CountTyped
<1>7. Cardinality(made) = Cardinality(Uses(i, g) \X open)
  <2> HIDE DEF open, made
  <2>1. Cardinality(Uses(i, g) \X open) = Cardinality(Uses(i, g)) * Cardinality(open)
    BY <1>5, FS_Product
  <2> QED BY <1>4, <2>1
<1>8. made # {} <=> Uses(i, g) # {} /\ open # {}
  <2> HIDE DEF open, made
  <2> DEFINE u == Cardinality(Uses(i, g))
             o == Cardinality(open)
  <2>1. (made = {} <=> u * o = 0) /\ (Uses(i, g) = {} <=> u = 0) /\ (open = {} <=> o = 0)
    BY <1>4, <1>5, <1>6, FS_EmptySet
  <2>2. u \in Nat /\ o \in Nat
    BY <1>5
  <2> HIDE DEF u, o
  <2>3. u * o = 0 <=> u = 0 \/ o = 0
    BY <2>2
  <2> QED BY <2>1, <2>3
<1>9. derived[g].open_ingress <=> open # {}
  <2> DEFINE d == \E r \in ToSet(nodes[g].attrs.ingress) : r.cidrs \cap OpenCidr # {}
  <2>1. derived[g] = DeclaredFacts(g)
    <3>1. Due(g)
      BY <1>1, DueKinds, AllArePast DEF Due
    <3> QED BY <1>1, <3>1 DEF FactsSoFar
  <2>2. derived[g] = [open_ingress |-> d]
    BY <1>1, <2>1 DEF DeclaredFacts, GroupFacts
  <2>3. derived[g].open_ingress = d
    <3> HIDE DEF d
    <3> QED BY <2>2
  <2>4. DOMAIN nodes[g].attrs.ingress = 1..Len(nodes[g].attrs.ingress)
    <3>1. nodes[g] \in Node
      BY <1>1, Lengths
    <3>2. nodes[g].attrs.ingress \in Seq([cidrs : SUBSET (OpenCidr \cup {"10.0.0.0/8"}), port : Nat])
      BY <3>1 DEF Node, Attrs
    <3> QED BY <3>2, LenProperties
  <2>5. d <=> open # {}
    BY <2>4 DEF ToSet
  <2> QED BY <2>3, <2>5
<1>10. derived[g].open_ingress \in BOOLEAN
  <2>1. Due(g)
    BY <1>1, DueKinds, AllArePast DEF Due
  <2>2. derived[g] = GroupFacts(g)
    BY <1>1, <2>1 DEF FactsSoFar, DeclaredFacts
  <2>3. "open_ingress" \in DOMAIN derived[g]
    BY <2>2 DEF GroupFacts
  <2> QED BY <1>1, <2>3 DEF TypeOK
<1>11. {edges[e].from_port : e \in made} \subseteq {nodes[g].attrs.ingress[k].port : k \in open}
  <2> SUFFICES ASSUME NEW e \in made PROVE edges[e].from_port \in {nodes[g].attrs.ingress[k].port : k \in open}
    OBVIOUS
  <2>1. e \in 1..Len(edges) /\ edges[e].kind = "NetworkReachable" /\ edges[e].src = g
    BY DEF Added
  <2>2. IsSound(edges[e])
    BY <2>1, Origin
  <2>3. \E k \in ingress_rules_with_open_cidr(g) : edges[e].from_port = nodes[g].attrs.ingress[k].port
    BY <2>1, <2>2 DEF IsSound
  <2> HIDE DEF open
  <2> QED BY <1>2, <2>3
<1>12. (made # {}) = (derived[g].open_ingress /\ Uses(i, g) # {})
  <2> HIDE DEF made, open
  <2> QED BY <1>8, <1>9, <1>10
<1> QED BY <1>7, <1>11, <1>12

(* First in terms of referenced_node.                                      *)
AttachedByLast ==
    \A i \in 1..Len(nodes) :
        LET mine == {e \in Added("Attached") : edges[e].src = i}
            profile == referenced_node(i, "iam_instance_profile")
        IN  /\ Cardinality(mine) <= 1
            /\ \A d, e \in mine : d = e
            /\ mine # {} => nodes[i].kind = "Instance" /\ profile \in Nodes("IamInstanceProfile")
            /\ nodes[i].kind = "Instance" /\ profile \in Nodes("IamInstanceProfile") =>
                  {edges[e].dst : e \in mine} = {referenced_node(profile, "role")} \ {NoNode}

LEMMA AttachedLast == ASSUME Going, pc = "done" PROVE AttachedByLast
<1> SUFFICES ASSUME NEW i \in 1..Len(nodes)
             PROVE  LET mine == {e \in Added("Attached") : edges[e].src = i}
                        profile == referenced_node(i, "iam_instance_profile")
                    IN  /\ Cardinality(mine) <= 1
                        /\ \A d, e \in mine : d = e
                        /\ mine # {} => nodes[i].kind = "Instance" /\ profile \in Nodes("IamInstanceProfile")
                        /\ nodes[i].kind = "Instance" /\ profile \in Nodes("IamInstanceProfile") =>
                              {edges[e].dst : e \in mine} = {referenced_node(profile, "role")} \ {NoNode}
  BY Zenon DEF AttachedByLast
<1>1. TypeOK /\ AttachedCounted
  BY DEF Going
<1> DEFINE mine == {e \in Added("Attached") : edges[e].src = i}
           profile == referenced_node(i, "iam_instance_profile")
           role == referenced_node(profile, "role")
           P == AttachedTo(i)
<1>2. mine = Places(edges, P)
  <2>1. \A e \in 1..Len(edges) : edges[e] \in Edge
    BY <1>1, Lengths
  <2> QED BY <2>1 DEF Places, Added, AttachedTo
<1>3. Cardinality(mine) = IF Attachable(i) THEN 1 ELSE 0
  <2>1. \A e \in P : e.kind # "References"
    BY DEF AttachedTo
  <2>2. Past("attached", i)
    BY AllArePast DEF Passes
  <2>3. Count(pending, P) = IF Attachable(i) THEN 1 ELSE 0
    BY <1>1, <2>2 DEF AttachedCounted
  <2> HIDE DEF P, mine
  <2>4. Cardinality(mine) = Count(pending, P)
    BY <1>2, <2>1, CountedInGraph DEF Count
  <2> QED BY <2>3, <2>4
<1>4. IsFiniteSet(mine)
  BY <1>1, <1>2, Lengths, CountTyped
<1>5. mine # {} <=> Attachable(i)
  <2> HIDE DEF mine
  <2> QED BY <1>3, <1>4, FS_EmptySet
<1>6. Attachable(i) <=> nodes[i].kind = "Instance" /\ profile \in Nodes("IamInstanceProfile") /\ role # NoNode
  <2>1. profile # NoNode => profile \in 1..Len(nodes)
    BY <1>1, Referenced
  <2>2. profile \in 1..Len(nodes) => profile # NoNode
    BY <1>1, Lengths DEF NoNode
  <2> QED BY <2>1, <2>2 DEF Attachable, ProfileOf, IsProfile, Nodes
<1>7. \A e \in mine : edges[e].dst = role
  <2> SUFFICES ASSUME NEW e \in mine PROVE edges[e].dst = role
    OBVIOUS
  <2>1. e \in 1..Len(edges) /\ edges[e].kind = "Attached" /\ edges[e].src = i
    BY DEF Added
  <2>2. IsSound(edges[e])
    BY <2>1, Origin
  <2> QED BY <2>1, <2>2 DEF IsSound, ProfileOf
<1> HIDE DEF mine
<1>8. ASSUME nodes[i].kind = "Instance", profile \in Nodes("IamInstanceProfile")
      PROVE  {edges[e].dst : e \in mine} = {role} \ {NoNode}
  <2> HIDE DEF profile, role
  <2>1. mine # {} <=> role # NoNode
    BY <1>5, <1>6, <1>8
  <2> QED BY <1>7, <2>1
<1>9. Cardinality(mine) <= 1
  BY <1>3
<1>11. \A d, e \in mine : d = e
  <2>1. CASE mine = {}
    BY <2>1
  <2>2. CASE Cardinality(mine) = 1
    <3>1. PICK x : mine = {x}
      BY <1>4, <2>2, FS_Singleton
    <3> QED BY <3>1
  <2> QED BY <1>3, <1>5, <2>1, <2>2
<1>10. mine # {} => nodes[i].kind = "Instance" /\ profile \in Nodes("IamInstanceProfile")
  BY <1>5, <1>6
<1> QED BY <1>8, <1>9, <1>10, <1>11, Zenon DEF mine

(* Where an argument names one resource alone, that one is found.          *)
LEMMA OnlyIs ==
    ASSUME TypeOK, NEW n \in 1..Len(nodes), NEW m \in 1..Len(nodes), NEW attr, Only(n, m, attr)
    PROVE  referenced_node(n, attr) = m
<1>1. PICK r \in References : edges[r].src = n /\ edges[r].dst = m /\ IsAttr(edges[r].path, attr)
  BY DEF Only, Refers
<1>2. r \in AttrRefs(n, attr)
  BY <1>1, RefsFound DEF AttrRefs
<1> DEFINE l == Max(AttrRefs(n, attr))
<1>3. l \in References /\ edges[l].src = n /\ IsAttr(edges[l].path, attr)
  BY <1>2, LastRef
<1>4. referenced_node(n, attr) = edges[l].dst
  BY <1>2, ReferencedIs
<1>5. edges[l].dst \in 1..Len(nodes)
  BY <1>3, Lengths DEF References
<1> HIDE DEF l
<1>6. Refers(n, edges[l].dst, attr)
  BY <1>3 DEF Refers
<1> QED BY <1>4, <1>5, <1>6 DEF Only

LEMMA AttachedFound == Going => AttachedThroughProfile
<1> SUFFICES ASSUME Going, pc = "done" PROVE AttachedThroughProfile
  BY DEF AttachedThroughProfile
<1>1. TypeOK /\ AttachedByLast
  BY AttachedLast DEF Going
<1>2. ASSUME NEW e \in Added("Attached")
      PROVE  /\ edges[e].src \in Nodes("Instance")
             /\ \E p \in Nodes("IamInstanceProfile") :
                   Refers(edges[e].src, p, "iam_instance_profile") /\ Refers(p, edges[e].dst, "role")
  <2> DEFINE i == edges[e].src
             p == ProfileOf(i)
  <2>1. e \in 1..Len(edges) /\ edges[e].kind = "Attached"
    BY <1>2 DEF Added
  <2>2. IsSound(edges[e])
    BY <2>1, Origin
  <2>3. Attachable(i) /\ edges[e].dst = referenced_node(p, "role")
    BY <2>1, <2>2 DEF IsSound
  <2>4. i \in 1..Len(nodes) /\ edges[e].dst \in 1..Len(nodes)
    BY <1>1, <2>1, Lengths
  <2>5. nodes[i].kind = "Instance" /\ p # NoNode /\ nodes[p].kind = "IamInstanceProfile"
        /\ edges[e].dst # NoNode
    BY <2>3 DEF Attachable, IsProfile
  <2>6. Refers(i, p, "iam_instance_profile") /\ p \in 1..Len(nodes)
    BY <1>1, <2>5, Referenced DEF ProfileOf
  <2>7. Refers(p, edges[e].dst, "role")
    BY <1>1, <2>3, <2>5, Referenced
  <2> HIDE DEF i, p
  <2>8. i \in Nodes("Instance") /\ p \in Nodes("IamInstanceProfile")
    BY <2>4, <2>5, <2>6 DEF Nodes
  <2> QED BY <2>6, <2>7, <2>8 DEF i
<1>3. ASSUME NEW d \in Added("Attached"), NEW e \in Added("Attached"), edges[d].src = edges[e].src
      PROVE  d = e
  <2>1. edges[e].src \in 1..Len(nodes)
    BY <1>2 DEF Nodes
  <2> DEFINE mine == {f \in Added("Attached") : edges[f].src = edges[e].src}
  <2>2. \A f, g \in mine : f = g
    BY <1>1, <2>1 DEF AttachedByLast
  <2> QED BY <1>3, <2>2
<1>4. ASSUME NEW i \in Nodes("Instance"), NEW p \in Nodes("IamInstanceProfile"), NEW r \in 1..Len(nodes),
             Only(i, p, "iam_instance_profile"), Only(p, r, "role")
      PROVE  \E e \in Added("Attached") : edges[e].src = i /\ edges[e].dst = r
  <2>1. i \in 1..Len(nodes) /\ nodes[i].kind = "Instance" /\ p \in 1..Len(nodes)
    BY DEF Nodes
  <2>2. referenced_node(i, "iam_instance_profile") = p /\ referenced_node(p, "role") = r
    BY <1>1, <1>4, <2>1, OnlyIs
  <2> DEFINE mine == {e \in Added("Attached") : edges[e].src = i}
  <2>3. {edges[e].dst : e \in mine} = {r} \ {NoNode}
    BY <1>1, <2>1, <2>2 DEF AttachedByLast
  <2>4. r # NoNode
    BY <1>1, Lengths DEF NoNode
  <2>5. r \in {edges[e].dst : e \in mine}
    BY <2>3, <2>4
  <2> QED BY <2>5
<1> QED BY <1>2, <1>3, <1>4 DEF AttachedThroughProfile

-----------------------------------------------------------------------------
(* Types, for the code's graph and the locals of classify: every edge, of  *)
(* the graph or pending, joins nodes of the graph, and a fact is a Boolean.*)
THEOREM ClassifyTypes == Spec => []TypeOK
<1>1. IInv => TypeOK
  BY DEF IInv
<1> QED BY <1>1, ClassifyInvariance, PTL

(* Whatever order resources and references come in, the derived facts are  *)
(* those the Terraform files declare: the derive passes of classify.       *)
THEOREM ClassifyFacts == Spec => []FactsAsDeclared
<1>1. IInv => FactsAsDeclared
  BY FactsDeclared DEF IInv, FactsAsDeclared
<1> QED BY <1>1, ClassifyInvariance, PTL

(* compute_iam_grant_edges grants what a statement of a policy allows to   *)
(* the role it is attached to, nothing else, and each grant as often as it *)
(* is written.                                                             *)
THEOREM ClassifyGrants == Spec => []GrantsAsWritten
<1>1. IInv => GrantsAsWritten
  <2> SUFFICES ASSUME IInv PROVE GrantsAsWritten
    OBVIOUS
  <2>1. CASE pc = "panicked"
    <3>1. NoGrantMisattributed
      BY <2>1 DEF IInv, NoGrantMisattributed
    <3>2. EachGrantFound
      BY <2>1 DEF EachGrantFound
    <3> QED BY <3>1, <3>2 DEF GrantsAsWritten
  <2>2. CASE pc # "panicked"
    BY <2>2, GrantsFound DEF IInv
  <2> QED BY <2>1, <2>2
<1> QED BY <1>1, ClassifyInvariance, PTL

(* compute_network_reachable_edges agrees with derive_security_group_facts *)
(* on which groups are open, for every instance that uses them.            *)
THEOREM ClassifyNetwork == Spec => []ReachableIffOpen
<1>1. IInv => ReachableIffOpen
  BY NetworkFound DEF IInv, ReachableIffOpen
<1> QED BY <1>1, ClassifyInvariance, PTL

(* compute_attached_edges follows two references and keeps their ends: an  *)
(* instance runs under at most one role, one that a profile it refers to   *)
(* names, and under the only one where the arguments leave no choice.      *)
THEOREM ClassifyAttached == Spec => []AttachedThroughProfile
<1>1. IInv => AttachedThroughProfile
  BY AttachedFound DEF IInv, AttachedThroughProfile
<1> QED BY <1>1, ClassifyInvariance, PTL

-----------------------------------------------------------------------------
(* The search of a scan.  Every edge step of the built-in rules is a       *)
(* single edge, so a walk is known by its nodes: which edges join them     *)
(* does not show in them.                                                  *)

OneMore(g, start, m, ts) ==
    UNION {{Append(t, e) : e \in {d \in DOMAIN g.edges :
                                     g.edges[d].src = Search!Visited(g, start, t, m - 1)}}
           : t \in ts}

(* The recursion of Trails, unrolled as far as the built-in rules go.      *)
Unrolled(g, start, n, ts) ==
    /\ Search!Trails(g, start, n) = ts[n] /\ ts[0] = {<<>>}
    /\ \A m \in 1..n : ts[m] = OneMore(g, start, m, ts[m - 1])

LEMMA TrailsUnrolled ==
    ASSUME NEW g, NEW start, NEW n \in 0..3
    PROVE  \E ts : Unrolled(g, start, n, ts)
<1> DEFINE trails[m \in 0..n] ==
              IF m = 0 THEN {<<>>}
              ELSE UNION {{Append(t, e) : e \in {d \in DOMAIN g.edges :
                                g.edges[d].src = Search!Visited(g, start, t, m - 1)}}
                          : t \in trails[m - 1]}
           F(f) == [m \in 0..n |-> IF m = 0 THEN {<<>>} ELSE OneMore(g, start, m, f[m - 1])]
           h1 == OneMore(g, start, 1, {<<>>})
           h2 == OneMore(g, start, 2, h1)
           h3 == OneMore(g, start, 3, h2)
           h == [m \in 0..n |-> IF m = 0 THEN {<<>>} ELSE IF m = 1 THEN h1 ELSE IF m = 2 THEN h2 ELSE h3]
<1>1. Search!Trails(g, start, n) = trails[n]
  BY DEF Search!Trails
<1>2. h = F(h)
  <2>1. ASSUME NEW m \in 0..n
        PROVE  h[m] = IF m = 0 THEN {<<>>} ELSE OneMore(g, start, m, h[m - 1])
    <3>1. m = 0 \/ m = 1 \/ m = 2 \/ m = 3
      OBVIOUS
    <3>2. m # 0 => m - 1 \in 0..n
      OBVIOUS
    <3> HIDE DEF h1, h2, h3
    <3>3. CASE m = 0
      BY <3>3
    <3>4. CASE m = 1
      BY <3>4, <3>2 DEF h1
    <3>5. CASE m = 2
      BY <3>5, <3>2 DEF h2
    <3>6. CASE m = 3
      BY <3>6, <3>2 DEF h3
    <3> QED BY <3>1, <3>3, <3>4, <3>5, <3>6
  <2>2. h = [m \in 0..n |-> h[m]]
    OBVIOUS
  <2> HIDE DEF h
  <2> QED BY <2>1, <2>2
<1> HIDE DEF h
<1>3. trails = F(trails)
  <2>1. \E f : f = F(f)
    BY <1>2
  <2>2. trails = CHOOSE f : f = F(f)
    BY DEF OneMore
  <2> HIDE DEF trails
  <2> QED BY <2>1, <2>2
<1> HIDE DEF trails
<1>4. trails[0] = {<<>>} /\ \A m \in 1..n : trails[m] = OneMore(g, start, m, trails[m - 1])
  <2>1. 0 \in 0..n /\ \A m \in 1..n : m \in 0..n /\ m # 0
    OBVIOUS
  <2> QED BY <1>3, <2>1
<1> QED BY <1>1, <1>4 DEF Unrolled

LEMMA TrailsAreChains ==
    ASSUME NEW g, NEW start, NEW n \in 0..3, NEW t \in Search!Trails(g, start, n)
    PROVE  t \in Seq(DOMAIN g.edges) /\ Len(t) = n
<1>0. PICK ts : Unrolled(g, start, n, ts)
  BY TrailsUnrolled
<1>1. /\ Search!Trails(g, start, n) = ts[n] /\ ts[0] = {<<>>}
      /\ \A m \in 1..n : ts[m] = OneMore(g, start, m, ts[m - 1])
  BY <1>0 DEF Unrolled
<1> DEFINE S == {m \in 0..n : \A u \in ts[m] : u \in Seq(DOMAIN g.edges) /\ Len(u) = m}
<1>2. 0 \in S
  <2>1. 0 \in 0..n /\ \A u \in ts[0] : u = <<>>
    BY <1>1
  <2>2. \A u \in ts[0] : u \in Seq(DOMAIN g.edges) /\ Len(u) = 0
    BY <2>1, EmptySeq
  <2> QED BY <2>1, <2>2
<1>3. ASSUME NEW m \in 0..(n - 1), m \in S PROVE m + 1 \in S
  <2>1. m + 1 \in 1..n /\ (m + 1) - 1 = m
    OBVIOUS
  <2>2. ts[m + 1] = OneMore(g, start, m + 1, ts[m])
    BY <1>1, <2>1
  <2>3. ASSUME NEW u \in ts[m + 1] PROVE u \in Seq(DOMAIN g.edges) /\ Len(u) = m + 1
    <3>1. PICK v \in ts[m], e \in DOMAIN g.edges : u = Append(v, e)
      BY <2>2 DEF OneMore
    <3>2. v \in Seq(DOMAIN g.edges) /\ Len(v) = m
      BY <1>3
    <3> QED BY <3>1, <3>2, AppendProperties
  <2> QED BY <2>1, <2>3
<1>4. n \in S
  <2> HIDE DEF S
  <2> QED BY <1>2, <1>3, InductionUpTo
<1> QED BY <1>1, <1>4

(* Chains of one to three edges.                                           *)
IsChain(g, start, n, e) ==
    /\ e \in [1..n -> DOMAIN g.edges] /\ g.edges[e[1]].src = start
    /\ \A j \in 2..n : g.edges[e[j]].src = g.edges[e[j - 1]].dst

IsTrailOf(g, start, n, e, t) ==
    /\ t \in Search!Trails(g, start, n) /\ t \in Seq(DOMAIN g.edges) /\ Len(t) = n
    /\ \A j \in 1..n : t[j] = e[j]

LEMMA ChainsAreTrails ==
    ASSUME NEW g, NEW start, NEW n \in 1..3, NEW e, IsChain(g, start, n, e)
    PROVE  \E t : IsTrailOf(g, start, n, e, t)
<1> /\ e \in [1..n -> DOMAIN g.edges] /\ g.edges[e[1]].src = start
    /\ \A j \in 2..n : g.edges[e[j]].src = g.edges[e[j - 1]].dst
  BY DEF IsChain
<1>0. n \in 0..3
  OBVIOUS
<1> PICK ts : Unrolled(g, start, n, ts)
  BY <1>0, TrailsUnrolled
<1>1. /\ Search!Trails(g, start, n) = ts[n] /\ ts[0] = {<<>>}
      /\ \A m \in 1..n : ts[m] = OneMore(g, start, m, ts[m - 1])
  BY DEF Unrolled
<1> DEFINE Is(m, t) == /\ t \in ts[m] /\ t \in Seq(DOMAIN g.edges) /\ Len(t) = m
                       /\ \A j \in 1..m : t[j] = e[j]
           S == {m \in 0..n : \E t : Is(m, t)}
<1>2. 0 \in S
  <2>1. Is(0, <<>>)
    BY <1>1, EmptySeq
  <2>2. 0 \in 0..n
    BY <1>0
  <2> HIDE DEF Is
  <2> QED BY <2>1, <2>2
<1>3. ASSUME NEW m \in 0..(n - 1), m \in S PROVE m + 1 \in S
  <2>1. m + 1 \in 1..n /\ (m + 1) - 1 = m
    OBVIOUS
  <2>2. PICK t : Is(m, t)
    BY <1>3
  <2>3. ts[m + 1] = OneMore(g, start, m + 1, ts[m])
    BY <1>1, <2>1
  <2>4. e[m + 1] \in DOMAIN g.edges
    BY <2>1
  <2>5. g.edges[e[m + 1]].src = Search!Visited(g, start, t, (m + 1) - 1)
    <3>1. CASE m = 0
      BY <3>1 DEF Search!Visited
    <3>2. CASE m # 0
      <4>1. m + 1 \in 2..n /\ m \in 1..m
        BY <3>2
      <4>2. t[m] = e[m]
        BY <2>2, <4>1
      <4> QED BY <2>1, <3>2, <4>1, <4>2 DEF Search!Visited
    <3> QED BY <3>1, <3>2
  <2> DEFINE d == e[m + 1]
             u == Append(t, d)
  <2>6. u \in ts[m + 1]
    <3>1. t \in ts[m]
      BY <2>2
    <3>2. d \in {c \in DOMAIN g.edges : g.edges[c].src = Search!Visited(g, start, t, (m + 1) - 1)}
      BY <2>4, <2>5
    <3> HIDE DEF d
    <3> QED BY <2>3, <3>1, <3>2 DEF OneMore
  <2>7. u \in Seq(DOMAIN g.edges) /\ Len(u) = m + 1 /\ u[m + 1] = e[m + 1] /\ \A j \in 1..m : u[j] = t[j]
    <3>1. d \in DOMAIN g.edges /\ t \in Seq(DOMAIN g.edges) /\ Len(t) = m
      BY <2>2, <2>4
    <3> HIDE DEF d, Is
    <3>2. Append(t, d) \in Seq(DOMAIN g.edges) /\ Len(Append(t, d)) = m + 1 /\ Append(t, d)[m + 1] = d
          /\ \A j \in 1..m : Append(t, d)[j] = t[j]
      BY <3>1, AppendProperties
    <3>3. d = e[m + 1]
      BY DEF d
    <3> QED BY <3>2, <3>3
  <2> HIDE DEF u, d
  <2>8. ASSUME NEW j \in 1..(m + 1) PROVE u[j] = e[j]
    <3>1. j = m + 1 \/ j \in 1..m
      OBVIOUS
    <3> QED BY <2>2, <2>7, <3>1
  <2>9. Is(m + 1, u)
    BY <2>6, <2>7, <2>8
  <2> HIDE DEF Is
  <2> QED BY <2>1, <2>9
<1>4. n \in S
  <2> HIDE DEF S
  <2> QED BY <1>2, <1>3, InductionUpTo
<1> QED BY <1>1, <1>4 DEF IsTrailOf

(* What the search needs of a graph, and what a row of nodes needs to be   *)
(* reported: the nodes satisfy the node steps, and an edge that satisfies  *)
(* the edge step in between joins each to the next.                        *)
Joined(g) ==
    /\ Len(g.edges) \in Nat /\ DOMAIN g.edges = 1..Len(g.edges)
    /\ Len(g.nodes) \in Nat /\ DOMAIN g.nodes = 1..Len(g.nodes)
    /\ \A e \in DOMAIN g.edges :
          g.edges[e].src \in DOMAIN g.nodes /\ g.edges[e].dst \in DOMAIN g.nodes

HopFits(g, path, i, from, to, e) ==
    /\ e \in DOMAIN g.edges /\ g.edges[e].src = from /\ g.edges[e].dst = to
    /\ Search!EdgeMatches(g.edges[e], Search!EdgeStepOf(path, i))

IsRow(g, path, k, ids) ==
    /\ ids \in [1..(k + 1) -> DOMAIN g.nodes]
    /\ \A i \in 0..k : Search!NodeMatches(g.nodes[ids[i + 1]], Search!NodeStepOf(path, i))
    /\ \A i \in 1..k : \E e : HopFits(g, path, i, ids[i], ids[i + 1], e)

SingleHops(r, k) ==
    /\ k \in 1..3 /\ r.max_total_hops \in k..3
    /\ \A i \in 1..k : /\ Search!EdgeStepOf(r.path, i).min_hops = 1
                      /\ Search!EdgeStepOf(r.path, i).max_hops = 1

(* A walk, taken out of the set.                                           *)
WalkFrom(g, r, k, start, n, es, cut, w) ==
    /\ start \in DOMAIN g.nodes /\ n \in 0..r.max_total_hops
    /\ es \in Search!Trails(g, start, n) /\ cut \in [0..k -> 0..Len(es)]
    /\ Search!Satisfies(g, r.path, k, Search!WalkIds(g, start, es, cut, k), es, cut)
    /\ w = [ids |-> Search!WalkIds(g, start, es, cut, k), edges |-> es, cut |-> cut]

LEMMA WalksFrom ==
    ASSUME NEW g, NEW r, NEW k, NEW w
    PROVE  w \in Search!Walks(g, r, k) <=>
              \E start, n, es, cut : WalkFrom(g, r, k, start, n, es, cut, w)
<1> DEFINE cuts(start, es) ==
              {c \in [0..k -> 0..Len(es)] :
                  Search!Satisfies(g, r.path, k, Search!WalkIds(g, start, es, c, k), es, c)}
           from(start, es) ==
              {[ids |-> Search!WalkIds(g, start, es, c, k), edges |-> es, cut |-> c]
               : c \in cuts(start, es)}
           all(start) == UNION {Search!Trails(g, start, n) : n \in 0..r.max_total_hops}
           here(start) == UNION {from(start, es) : es \in all(start)}
<1>1. Search!Walks(g, r, k) = UNION {here(start) : start \in DOMAIN g.nodes}
  BY DEF Search!Walks, Search!Cuts
<1>2. ASSUME NEW start, NEW es
      PROVE  w \in from(start, es) <=>
                \E c \in cuts(start, es) :
                   w = [ids |-> Search!WalkIds(g, start, es, c, k), edges |-> es, cut |-> c]
  OBVIOUS
<1>3. ASSUME NEW start
      PROVE  w \in here(start) <=> \E es \in all(start) : w \in from(start, es)
  <2> HIDE DEF from, all
  <2> QED OBVIOUS
<1>4. ASSUME NEW start, NEW es
      PROVE  es \in all(start) <=> \E n \in 0..r.max_total_hops : es \in Search!Trails(g, start, n)
  OBVIOUS
<1>5. w \in Search!Walks(g, r, k) <=> \E start \in DOMAIN g.nodes : w \in here(start)
  <2> HIDE DEF here
  <2> QED BY <1>1
<1>6. ASSUME NEW start, NEW es, NEW c
      PROVE  c \in cuts(start, es) <=>
                /\ c \in [0..k -> 0..Len(es)]
                /\ Search!Satisfies(g, r.path, k, Search!WalkIds(g, start, es, c, k), es, c)
  OBVIOUS
<1> HIDE DEF cuts, from, all, here
<1> QED BY <1>2, <1>3, <1>4, <1>5, <1>6 DEF WalkFrom

(* Every walk of such a rule is over such a row.                           *)
LEMMA WalkIsRow ==
    ASSUME NEW g, Joined(g), NEW r, NEW k, SingleHops(r, k), NEW w \in Search!Walks(g, r, k)
    PROVE  IsRow(g, r.path, k, w.ids)
<1>1. PICK start, n, es, cut : WalkFrom(g, r, k, start, n, es, cut, w)
  BY WalksFrom
<1> DEFINE ids == Search!WalkIds(g, start, es, cut, k)
<1>2. Search!Satisfies(g, r.path, k, ids, es, cut) /\ w.ids = ids
  BY <1>1 DEF WalkFrom
<1>3. k \in 1..3 /\ n \in 0..3 /\ start \in DOMAIN g.nodes
  BY <1>1 DEF WalkFrom, SingleHops
<1>4. es \in Seq(DOMAIN g.edges) /\ Len(es) = n
  BY <1>1, <1>3, TrailsAreChains DEF WalkFrom
<1>5. cut \in [0..k -> 0..n]
  BY <1>1, <1>4 DEF WalkFrom
<1>6. cut[0] = 0 /\ cut[k] = n
  BY <1>2, <1>4 DEF Search!Satisfies
<1>7. \A i \in 1..k : cut[i] = cut[i - 1] + 1
  <2> SUFFICES ASSUME NEW i \in 1..k PROVE cut[i] = cut[i - 1] + 1
    OBVIOUS
  <2>1. Search!IsSegment(g, es, cut[i - 1], cut[i], Search!EdgeStepOf(r.path, i))
    BY <1>2 DEF Search!Satisfies
  <2>2. cut[i] - cut[i - 1] >= 1 /\ cut[i] - cut[i - 1] <= 1
    BY <2>1 DEF Search!IsSegment, SingleHops
  <2>3. cut[i] \in Int /\ cut[i - 1] \in Int
    BY <1>3, <1>5
  <2> QED BY <2>2, <2>3
<1>8. \A i \in 0..k : cut[i] = i
  <2>1. k = 1 \/ k = 2 \/ k = 3
    BY <1>3
  <2> QED BY <1>6, <1>7, <2>1
<1>9. n = k
  BY <1>3, <1>6, <1>8
<1>10. ids = [i \in 1..(k + 1) |-> Search!Visited(g, start, es, i - 1)]
  <2>1. ASSUME NEW i \in 1..(k + 1) PROVE cut[i - 1] = i - 1
    BY <1>3, <1>8
  <2> QED BY <2>1 DEF Search!WalkIds
<1> HIDE DEF ids
<1>11. ids[1] = start
  BY <1>3, <1>10 DEF Search!Visited
<1>12. \A i \in 1..k : es[i] \in DOMAIN g.edges /\ ids[i + 1] = g.edges[es[i]].dst
  <2> SUFFICES ASSUME NEW i \in 1..k PROVE es[i] \in DOMAIN g.edges /\ ids[i + 1] = g.edges[es[i]].dst
    OBVIOUS
  <2>1. i + 1 \in 1..(k + 1) /\ (i + 1) - 1 = i /\ i # 0
    BY <1>3
  <2>2. es[i] \in DOMAIN g.edges
    BY <1>4, <1>9, ElementOfSeq
  <2> QED BY <1>10, <2>1, <2>2 DEF Search!Visited
<1>13. \A i \in 1..k : ids[i] = g.edges[es[i]].src
  <2> SUFFICES ASSUME NEW i \in 1..k PROVE ids[i] = g.edges[es[i]].src
    OBVIOUS
  <2>1. Search!IsTrail(g, start, es)
    BY <1>2, <1>11 DEF Search!Satisfies
  <2>2. g.edges[es[i]].src = Search!Visited(g, start, es, i - 1)
    BY <1>4, <1>9, <2>1 DEF Search!IsTrail
  <2>3. i \in 1..(k + 1)
    BY <1>3
  <2> QED BY <1>10, <2>2, <2>3
<1>14. ids \in [1..(k + 1) -> DOMAIN g.nodes]
  <2>1. ASSUME NEW i \in 1..(k + 1) PROVE ids[i] \in DOMAIN g.nodes
    <3>1. CASE i = 1
      BY <1>3, <1>11, <3>1
    <3>2. CASE i # 1
      <4>1. i - 1 \in 1..k /\ (i - 1) + 1 = i
        BY <1>3, <3>2
      <4> QED BY <1>12, <4>1 DEF Joined
    <3> QED BY <3>1, <3>2
  <2> QED BY <1>10, <2>1
<1>15. \A i \in 0..k : Search!NodeMatches(g.nodes[ids[i + 1]], Search!NodeStepOf(r.path, i))
  BY <1>2 DEF Search!Satisfies
<1>16. \A i \in 1..k : HopFits(g, r.path, i, ids[i], ids[i + 1], es[i])
  <2> SUFFICES ASSUME NEW i \in 1..k PROVE HopFits(g, r.path, i, ids[i], ids[i + 1], es[i])
    OBVIOUS
  <2>1. Search!IsSegment(g, es, cut[i - 1], cut[i], Search!EdgeStepOf(r.path, i))
    BY <1>2 DEF Search!Satisfies
  <2>2. i \in (cut[i - 1] + 1)..cut[i]
    BY <1>3, <1>8
  <2>3. Search!EdgeMatches(g.edges[es[i]], Search!EdgeStepOf(r.path, i))
    BY <2>1, <2>2 DEF Search!IsSegment
  <2> QED BY <1>12, <1>13, <2>3 DEF HopFits
<1> QED BY <1>2, <1>14, <1>15, <1>16 DEF IsRow

(* And over every such row there is a walk.                                *)
LEMMA RowIsWalk ==
    ASSUME NEW g, Joined(g), NEW r, NEW k, SingleHops(r, k), NEW ids, IsRow(g, r.path, k, ids)
    PROVE  \E w \in Search!Walks(g, r, k) : w.ids = ids
<1>1. k \in 1..3 /\ k \in 0..r.max_total_hops
  BY DEF SingleHops
<1> DEFINE e == [i \in 1..k |-> CHOOSE d : HopFits(g, r.path, i, ids[i], ids[i + 1], d)]
           start == ids[1]
           cut == [i \in 0..k |-> i]
<1>2. \A i \in 1..k : HopFits(g, r.path, i, ids[i], ids[i + 1], e[i])
  BY DEF IsRow
<1> HIDE DEF e
<1>3. e \in [1..k -> DOMAIN g.edges]
  <2>1. \A i \in 1..k : e[i] \in DOMAIN g.edges
    BY <1>2 DEF HopFits
  <2> QED BY <2>1 DEF e
<1>4. g.edges[e[1]].src = start
  BY <1>1, <1>2 DEF HopFits
<1>5. \A j \in 2..k : g.edges[e[j]].src = g.edges[e[j - 1]].dst
  <2> SUFFICES ASSUME NEW j \in 2..k PROVE g.edges[e[j]].src = g.edges[e[j - 1]].dst
    OBVIOUS
  <2>1. j \in 1..k /\ j - 1 \in 1..k /\ (j - 1) + 1 = j
    BY <1>1
  <2> QED BY <1>2, <2>1 DEF HopFits
<1>6. start \in DOMAIN g.nodes
  BY <1>1 DEF IsRow
<1> HIDE DEF start
<1>0. PICK es : IsTrailOf(g, start, k, e, es)
  <2>1. k \in 1..3 /\ IsChain(g, start, k, e)
    BY <1>1, <1>3, <1>4, <1>5 DEF IsChain
  <2> QED BY <2>1, ChainsAreTrails
<1>7. /\ es \in Search!Trails(g, start, k) /\ es \in Seq(DOMAIN g.edges) /\ Len(es) = k
      /\ \A j \in 1..k : es[j] = e[j]
  BY <1>0 DEF IsTrailOf
<1>8. cut \in [0..k -> 0..Len(es)]
  BY <1>1, <1>7
<1>9. \A i \in 0..k : Search!Visited(g, start, es, i) = ids[i + 1]
  <2> SUFFICES ASSUME NEW i \in 0..k PROVE Search!Visited(g, start, es, i) = ids[i + 1]
    OBVIOUS
  <2>1. CASE i = 0
    BY <2>1 DEF Search!Visited, start
  <2>2. CASE i # 0
    <3>1. i \in 1..k
      BY <2>2
    <3> QED BY <1>2, <1>7, <2>2, <3>1 DEF Search!Visited, HopFits
  <2> QED BY <2>1, <2>2
<1>10. Search!WalkIds(g, start, es, cut, k) = ids
  <2>1. ASSUME NEW i \in 1..(k + 1) PROVE Search!Visited(g, start, es, cut[i - 1]) = ids[i]
    <3>1. i - 1 \in 0..k /\ (i - 1) + 1 = i
      BY <1>1
    <3>2. cut[i - 1] = i - 1
      BY <3>1
    <3> QED BY <1>9, <3>1, <3>2
  <2>2. ids = [i \in 1..(k + 1) |-> ids[i]]
    BY DEF IsRow
  <2> QED BY <2>1, <2>2 DEF Search!WalkIds
<1>11. \A i \in 0..k : cut[i] = i
  OBVIOUS
<1> HIDE DEF cut
<1>12. Search!Satisfies(g, r.path, k, ids, es, cut)
  <2>1. cut[0] = 0 /\ cut[k] = Len(es)
    BY <1>1, <1>7, <1>11
  <2>2. ids \in Seq(DOMAIN g.nodes) /\ Len(ids) = k + 1
    <3>1. k + 1 \in Nat /\ ids \in [1..(k + 1) -> DOMAIN g.nodes]
      BY <1>1 DEF IsRow
    <3>2. ids \in Seq(DOMAIN g.nodes)
      BY <3>1, SeqDef
    <3> QED BY <3>1, <3>2, LenProperties
  <2>3. ids[1] \in 1..Len(g.nodes)
    BY <1>6 DEF start, Joined
  <2>4. Search!IsTrail(g, ids[1], es)
    <3> SUFFICES ASSUME NEW j \in 1..k
                 PROVE  /\ es[j] \in 1..Len(g.edges)
                        /\ g.edges[es[j]].src = Search!Visited(g, start, es, j - 1)
      BY <1>7 DEF Search!IsTrail, start
    <3>1. j - 1 \in 0..k /\ (j - 1) + 1 = j
      BY <1>1
    <3> QED BY <1>2, <1>7, <1>9, <3>1 DEF HopFits, Joined
  <2>5. \A i \in 0..k : /\ ids[i + 1] = Search!Visited(g, ids[1], es, cut[i])
                       /\ Search!NodeMatches(g.nodes[ids[i + 1]], Search!NodeStepOf(r.path, i))
    BY <1>9, <1>11 DEF start, IsRow
  <2>6. \A i \in 1..k : Search!IsSegment(g, es, cut[i - 1], cut[i], Search!EdgeStepOf(r.path, i))
    <3> SUFFICES ASSUME NEW i \in 1..k
                 PROVE  Search!IsSegment(g, es, cut[i - 1], cut[i], Search!EdgeStepOf(r.path, i))
      OBVIOUS
    <3>1. cut[i - 1] = i - 1 /\ cut[i] = i
      BY <1>1, <1>11
    <3>2. Search!EdgeStepOf(r.path, i).min_hops = 1 /\ Search!EdgeStepOf(r.path, i).max_hops = 1
      BY DEF SingleHops
    <3>3. \A n \in (cut[i - 1] + 1)..cut[i] : n = i
      BY <1>1, <3>1
    <3>4. Search!EdgeMatches(g.edges[es[i]], Search!EdgeStepOf(r.path, i))
      BY <1>2, <1>7 DEF HopFits
    <3>5. cut[i] - cut[i - 1] = 1
      BY <1>1, <3>1
    <3> QED BY <3>2, <3>3, <3>4, <3>5 DEF Search!IsSegment
  <2> QED BY <2>1, <2>2, <2>3, <2>4, <2>5, <2>6 DEF Search!Satisfies
<1> DEFINE w == [ids |-> ids, edges |-> es, cut |-> cut]
<1>13. WalkFrom(g, r, k, start, k, es, cut, w)
  BY <1>1, <1>6, <1>7, <1>8, <1>10, <1>12 DEF WalkFrom, cut
<1>14. w \in Search!Walks(g, r, k)
  BY <1>13, WalksFrom
<1>15. w.ids = ids
  OBVIOUS
<1> HIDE DEF w
<1> QED BY <1>14, <1>15

-----------------------------------------------------------------------------
(* The steps of the built-in rules over the classified graph.              *)

Joins(kind, where, from, to) ==
    \E e \in Added(kind) : /\ edges[e].src = from /\ edges[e].dst = to
                          /\ where \subseteq EdgeClauses(edges[e])

LEMMA RuleGraphIs ==
    ASSUME TypeOK
    PROVE  /\ Joined(RuleGraph)
           /\ DOMAIN RuleGraph.nodes = 1..Len(nodes) /\ DOMAIN RuleGraph.edges = 1..Len(edges)
           /\ \A n \in 1..Len(nodes) :
                 RuleGraph.nodes[n] = [kind |-> nodes[n].kind, holds |-> TrueIn(derived[n])]
           /\ \A e \in 1..Len(edges) :
                 RuleGraph.edges[e] = [src |-> edges[e].src, dst |-> edges[e].dst,
                                       kind |-> edges[e].kind, holds |-> EdgeClauses(edges[e])]
<1> DEFINE N1 == [n \in 1..Len(nodes) |-> [kind |-> nodes[n].kind, holds |-> TrueIn(derived[n])]]
           E1 == [e \in 1..Len(edges) |-> [src |-> edges[e].src, dst |-> edges[e].dst,
                                           kind |-> edges[e].kind, holds |-> EdgeClauses(edges[e])]]
<1>1. RuleGraph.nodes = N1 /\ RuleGraph.edges = E1
  BY DEF RuleGraph
<1>2. Len(nodes) \in Nat /\ Len(edges) \in Nat
  BY Lengths
<1>3. DOMAIN N1 = 1..Len(nodes) /\ DOMAIN E1 = 1..Len(edges)
  OBVIOUS
<1>4. \A n \in 1..Len(nodes) : N1[n] = [kind |-> nodes[n].kind, holds |-> TrueIn(derived[n])]
  OBVIOUS
<1>5. \A e \in 1..Len(edges) : E1[e] = [src |-> edges[e].src, dst |-> edges[e].dst,
                                        kind |-> edges[e].kind, holds |-> EdgeClauses(edges[e])]
  OBVIOUS
<1> HIDE DEF N1, E1
<1>6. Len(N1) = Len(nodes) /\ Len(E1) = Len(edges)
  <2>1. N1 \in Seq({N1[n] : n \in 1..Len(nodes)}) /\ E1 \in Seq({E1[e] : e \in 1..Len(edges)})
    <3>1. N1 = [n \in 1..Len(nodes) |-> N1[n]] /\ E1 = [e \in 1..Len(edges) |-> E1[e]]
      BY DEF N1, E1
    <3>2. N1 \in [1..Len(nodes) -> {N1[n] : n \in 1..Len(nodes)}]
      BY <3>1
    <3>3. E1 \in [1..Len(edges) -> {E1[e] : e \in 1..Len(edges)}]
      BY <3>1
    <3> QED BY <1>2, <3>2, <3>3, SeqDef
  <2> QED BY <1>2, <1>3, <2>1, LenProperties
<1>7. \A e \in 1..Len(edges) : edges[e].src \in 1..Len(nodes) /\ edges[e].dst \in 1..Len(nodes)
  BY Lengths
<1>8. Joined(RuleGraph)
  BY <1>1, <1>2, <1>3, <1>5, <1>6, <1>7 DEF Joined
<1> QED BY <1>1, <1>3, <1>4, <1>5, <1>8

LEMMA NodeStepIs ==
    ASSUME TypeOK, NEW n \in 1..Len(nodes), NEW kind, kind # "any", NEW where
    PROVE  Search!NodeMatches(RuleGraph.nodes[n], N(kind, where))
              <=> n \in Nodes(kind) /\ where \subseteq TrueIn(derived[n])
<1>1. RuleGraph.nodes[n] = [kind |-> nodes[n].kind, holds |-> TrueIn(derived[n])]
  BY RuleGraphIs
<1>2. N(kind, where).kind = kind /\ N(kind, where).where = where
  BY DEF N
<1> QED BY <1>1, <1>2 DEF Search!NodeMatches, Nodes

LEMMA EdgeStepIs ==
    ASSUME TypeOK, NEW path, NEW i, NEW kind, NEW where, Search!EdgeStepOf(path, i) = E(kind, where),
           NEW from, NEW to
    PROVE  (\E e : HopFits(RuleGraph, path, i, from, to, e)) <=> Joins(kind, where, from, to)
<1>1. E(kind, where).kind = kind /\ E(kind, where).where = where
  BY DEF E
<1>2. ASSUME NEW e
      PROVE  HopFits(RuleGraph, path, i, from, to, e)
                <=> /\ e \in Added(kind) /\ edges[e].src = from /\ edges[e].dst = to
                    /\ where \subseteq EdgeClauses(edges[e])
  <2> DEFINE step == Search!EdgeStepOf(path, i)
             x == RuleGraph.edges[e]
  <2>1. step.kind = kind /\ step.where = where
    BY <1>1
  <2>2. DOMAIN RuleGraph.edges = 1..Len(edges)
    BY RuleGraphIs
  <2>3. e \in 1..Len(edges) => /\ x.src = edges[e].src /\ x.dst = edges[e].dst /\ x.kind = edges[e].kind
                               /\ x.holds = EdgeClauses(edges[e])
    <3> SUFFICES ASSUME e \in 1..Len(edges)
                 PROVE  /\ x.src = edges[e].src /\ x.dst = edges[e].dst /\ x.kind = edges[e].kind
                        /\ x.holds = EdgeClauses(edges[e])
      OBVIOUS
    <3>1. x = [src |-> edges[e].src, dst |-> edges[e].dst,
               kind |-> edges[e].kind, holds |-> EdgeClauses(edges[e])]
      BY RuleGraphIs
    <3> HIDE DEF x
    <3> QED BY <3>1
  <2>4. HopFits(RuleGraph, path, i, from, to, e)
           <=> /\ e \in 1..Len(edges) /\ x.src = from /\ x.dst = to
               /\ x.kind = step.kind /\ step.where \subseteq x.holds
    BY <2>2 DEF HopFits, Search!EdgeMatches
  <2> HIDE DEF step, x
  <2> QED BY <2>1, <2>3, <2>4 DEF Added
<1> QED BY <1>2 DEF Joins

LEMMA PathOfOne ==
    ASSUME NEW a, NEW e, NEW b, NEW path, path = <<a, e, b>>
    PROVE  /\ Search!PairCount(path) = 1 /\ Search!EdgeStepOf(path, 1) = e
           /\ Search!NodeStepOf(path, 0) = a /\ Search!NodeStepOf(path, 1) = b
BY DEF Search!PairCount, Search!EdgeStepOf, Search!NodeStepOf

LEMMA PathOfTwo ==
    ASSUME NEW a, NEW e, NEW b, NEW f, NEW c, NEW path, path = <<a, e, b, f, c>>
    PROVE  /\ Search!PairCount(path) = 2 /\ Search!EdgeStepOf(path, 1) = e /\ Search!EdgeStepOf(path, 2) = f
           /\ Search!NodeStepOf(path, 0) = a /\ Search!NodeStepOf(path, 1) = b
           /\ Search!NodeStepOf(path, 2) = c
BY DEF Search!PairCount, Search!EdgeStepOf, Search!NodeStepOf

LEMMA PathOfThree ==
    ASSUME NEW a, NEW e, NEW b, NEW f, NEW c, NEW h, NEW d, NEW path, path = <<a, e, b, f, c, h, d>>
    PROVE  /\ Search!PairCount(path) = 3 /\ Search!EdgeStepOf(path, 1) = e
           /\ Search!EdgeStepOf(path, 2) = f /\ Search!EdgeStepOf(path, 3) = h
           /\ Search!NodeStepOf(path, 0) = a /\ Search!NodeStepOf(path, 1) = b
           /\ Search!NodeStepOf(path, 2) = c /\ Search!NodeStepOf(path, 3) = d
BY DEF Search!PairCount, Search!EdgeStepOf, Search!NodeStepOf

(* The rows of a rule of one edge.                                         *)
LEMMA RowOfOne ==
    ASSUME TypeOK, NEW k1, NEW k2, k1 # "any", k2 # "any", NEW w1, NEW w2, NEW ek, NEW ew,
           NEW path, path = <<N(k1, w1), E(ek, ew), N(k2, w2)>>, NEW c
    PROVE  IsRow(RuleGraph, path, 1, c) <=>
              /\ c \in Nodes(k1) \X Nodes(k2)
              /\ w1 \subseteq TrueIn(derived[c[1]]) /\ w2 \subseteq TrueIn(derived[c[2]])
              /\ Joins(ek, ew, c[1], c[2])
<1>1. DOMAIN RuleGraph.nodes = 1..Len(nodes)
  BY RuleGraphIs
<1>2. /\ Search!EdgeStepOf(path, 1) = E(ek, ew)
      /\ Search!NodeStepOf(path, 0) = N(k1, w1) /\ Search!NodeStepOf(path, 1) = N(k2, w2)
  BY PathOfOne
<1> DEFINE S == 1..Len(nodes)
<1>3. Nodes(k1) \subseteq S /\ Nodes(k2) \subseteq S
  BY DEF Nodes
<1> HIDE DEF S
<1>4. c \in Nodes(k1) \X Nodes(k2) => c \in [1..2 -> S]
  BY <1>3
<1>5. c \in [1..2 -> S] => (c \in Nodes(k1) \X Nodes(k2) <=> c[1] \in Nodes(k1) /\ c[2] \in Nodes(k2))
  OBVIOUS
<1>6. ASSUME c \in [1..2 -> S]
      PROVE  (\A i \in 0..1 : Search!NodeMatches(RuleGraph.nodes[c[i + 1]], Search!NodeStepOf(path, i)))
                <=> /\ c[1] \in Nodes(k1) /\ w1 \subseteq TrueIn(derived[c[1]])
                    /\ c[2] \in Nodes(k2) /\ w2 \subseteq TrueIn(derived[c[2]])
  <2>1. c[1] \in 1..Len(nodes) /\ c[2] \in 1..Len(nodes)
    BY <1>6 DEF S
  <2>2. Search!NodeMatches(RuleGraph.nodes[c[1]], N(k1, w1))
           <=> c[1] \in Nodes(k1) /\ w1 \subseteq TrueIn(derived[c[1]])
    BY <2>1, NodeStepIs
  <2>3. Search!NodeMatches(RuleGraph.nodes[c[2]], N(k2, w2))
           <=> c[2] \in Nodes(k2) /\ w2 \subseteq TrueIn(derived[c[2]])
    BY <2>1, NodeStepIs
  <2>4. (\A i \in 0..1 : Search!NodeMatches(RuleGraph.nodes[c[i + 1]], Search!NodeStepOf(path, i)))
           <=> /\ Search!NodeMatches(RuleGraph.nodes[c[1]], N(k1, w1))
               /\ Search!NodeMatches(RuleGraph.nodes[c[2]], N(k2, w2))
    <3>1. \A i \in 0..1 : (i = 0 /\ i + 1 = 1) \/ (i = 1 /\ i + 1 = 2)
      OBVIOUS
    <3> QED BY <1>2, <3>1
  <2> QED BY <2>2, <2>3, <2>4
<1>7. (\A i \in 1..1 : \E e : HopFits(RuleGraph, path, i, c[i], c[i + 1], e)) <=> Joins(ek, ew, c[1], c[2])
  <2>1. (\E e : HopFits(RuleGraph, path, 1, c[1], c[2], e)) <=> Joins(ek, ew, c[1], c[2])
    BY <1>2, EdgeStepIs
  <2>2. \A i \in 1..1 : i = 1 /\ i + 1 = 2
    OBVIOUS
  <2> QED BY <2>1, <2>2
<1>8. IsRow(RuleGraph, path, 1, c) <=>
         /\ c \in [1..2 -> S]
         /\ \A i \in 0..1 : Search!NodeMatches(RuleGraph.nodes[c[i + 1]], Search!NodeStepOf(path, i))
         /\ \A i \in 1..1 : \E e : HopFits(RuleGraph, path, i, c[i], c[i + 1], e)
  BY <1>1 DEF IsRow, S
<1> QED BY <1>4, <1>5, <1>6, <1>7, <1>8

(* The rows of a rule of two edges.                                      *)
LEMMA RowOfTwo ==
    ASSUME TypeOK, NEW k1, NEW k2, NEW k3, k1 # "any", k2 # "any", k3 # "any",
           NEW w1, NEW w2, NEW w3, NEW e1, NEW v1, NEW e2, NEW v2,
           NEW path, path = <<N(k1, w1), E(e1, v1), N(k2, w2), E(e2, v2), N(k3, w3)>>, NEW c
    PROVE  IsRow(RuleGraph, path, 2, c) <=>
              /\ c \in Nodes(k1) \X Nodes(k2) \X Nodes(k3)
              /\ w1 \subseteq TrueIn(derived[c[1]])
              /\ w2 \subseteq TrueIn(derived[c[2]])
              /\ w3 \subseteq TrueIn(derived[c[3]])
              /\ Joins(e1, v1, c[1], c[2])
              /\ Joins(e2, v2, c[2], c[3])
<1>1. DOMAIN RuleGraph.nodes = 1..Len(nodes)
  BY RuleGraphIs
<1>2. /\ Search!EdgeStepOf(path, 1) = E(e1, v1) /\ Search!EdgeStepOf(path, 2) = E(e2, v2)
      /\ Search!NodeStepOf(path, 0) = N(k1, w1)
      /\ Search!NodeStepOf(path, 1) = N(k2, w2)
      /\ Search!NodeStepOf(path, 2) = N(k3, w3)
  BY PathOfTwo
<1> DEFINE S == 1..Len(nodes)
<1>3. Nodes(k1) \subseteq S /\ Nodes(k2) \subseteq S /\ Nodes(k3) \subseteq S
  BY DEF Nodes
<1> HIDE DEF S
<1>4. c \in Nodes(k1) \X Nodes(k2) \X Nodes(k3) => c \in [1..3 -> S]
  BY <1>3
<1>5. c \in [1..3 -> S] =>
         (c \in Nodes(k1) \X Nodes(k2) \X Nodes(k3) <=>
             c[1] \in Nodes(k1) /\ c[2] \in Nodes(k2) /\ c[3] \in Nodes(k3))
  OBVIOUS
<1>6. ASSUME c \in [1..3 -> S]
      PROVE  (\A i \in 0..2 : Search!NodeMatches(RuleGraph.nodes[c[i + 1]], Search!NodeStepOf(path, i)))
                <=> /\ c[1] \in Nodes(k1) /\ w1 \subseteq TrueIn(derived[c[1]])
                    /\ c[2] \in Nodes(k2) /\ w2 \subseteq TrueIn(derived[c[2]])
                    /\ c[3] \in Nodes(k3) /\ w3 \subseteq TrueIn(derived[c[3]])
  <2>1. c[1] \in 1..Len(nodes) /\ c[2] \in 1..Len(nodes) /\ c[3] \in 1..Len(nodes)
    BY <1>6 DEF S
  <2>2. Search!NodeMatches(RuleGraph.nodes[c[1]], N(k1, w1))
           <=> c[1] \in Nodes(k1) /\ w1 \subseteq TrueIn(derived[c[1]])
    BY <2>1, NodeStepIs
  <2>3. Search!NodeMatches(RuleGraph.nodes[c[2]], N(k2, w2))
           <=> c[2] \in Nodes(k2) /\ w2 \subseteq TrueIn(derived[c[2]])
    BY <2>1, NodeStepIs
  <2>4. Search!NodeMatches(RuleGraph.nodes[c[3]], N(k3, w3))
           <=> c[3] \in Nodes(k3) /\ w3 \subseteq TrueIn(derived[c[3]])
    BY <2>1, NodeStepIs
  <2>5. (\A i \in 0..2 : Search!NodeMatches(RuleGraph.nodes[c[i + 1]], Search!NodeStepOf(path, i)))
           <=> /\ Search!NodeMatches(RuleGraph.nodes[c[1]], N(k1, w1))
               /\ Search!NodeMatches(RuleGraph.nodes[c[2]], N(k2, w2))
               /\ Search!NodeMatches(RuleGraph.nodes[c[3]], N(k3, w3))
    <3>1. \A i \in 0..2 : (i = 0 /\ i + 1 = 1) \/ (i = 1 /\ i + 1 = 2) \/ (i = 2 /\ i + 1 = 3)
      OBVIOUS
    <3> QED BY <1>2, <3>1
  <2> QED BY <2>2, <2>3, <2>4, <2>5
<1>7. (\A i \in 1..2 : \E e : HopFits(RuleGraph, path, i, c[i], c[i + 1], e))
         <=> /\ Joins(e1, v1, c[1], c[2])
             /\ Joins(e2, v2, c[2], c[3])
  <2>1. (\E e : HopFits(RuleGraph, path, 1, c[1], c[2], e)) <=> Joins(e1, v1, c[1], c[2])
    BY <1>2, EdgeStepIs
  <2>2. (\E e : HopFits(RuleGraph, path, 2, c[2], c[3], e)) <=> Joins(e2, v2, c[2], c[3])
    BY <1>2, EdgeStepIs
  <2>3. \A i \in 1..2 : (i = 1 /\ i + 1 = 2) \/ (i = 2 /\ i + 1 = 3)
    OBVIOUS
  <2> QED BY <2>1, <2>2, <2>3
<1>8. IsRow(RuleGraph, path, 2, c) <=>
         /\ c \in [1..3 -> S]
         /\ \A i \in 0..2 : Search!NodeMatches(RuleGraph.nodes[c[i + 1]], Search!NodeStepOf(path, i))
         /\ \A i \in 1..2 : \E e : HopFits(RuleGraph, path, i, c[i], c[i + 1], e)
  BY <1>1 DEF IsRow, S
<1> QED BY <1>4, <1>5, <1>6, <1>7, <1>8

(* The rows of a rule of three edges.                                    *)
LEMMA RowOfThree ==
    ASSUME TypeOK, NEW k1, NEW k2, NEW k3, NEW k4, k1 # "any", k2 # "any", k3 # "any", k4 # "any",
           NEW w1, NEW w2, NEW w3, NEW w4, NEW e1, NEW v1, NEW e2, NEW v2, NEW e3, NEW v3,
           NEW path, path = <<N(k1, w1), E(e1, v1), N(k2, w2), E(e2, v2), N(k3, w3), E(e3, v3), N(k4, w4)>>, NEW c
    PROVE  IsRow(RuleGraph, path, 3, c) <=>
              /\ c \in Nodes(k1) \X Nodes(k2) \X Nodes(k3) \X Nodes(k4)
              /\ w1 \subseteq TrueIn(derived[c[1]])
              /\ w2 \subseteq TrueIn(derived[c[2]])
              /\ w3 \subseteq TrueIn(derived[c[3]])
              /\ w4 \subseteq TrueIn(derived[c[4]])
              /\ Joins(e1, v1, c[1], c[2])
              /\ Joins(e2, v2, c[2], c[3])
              /\ Joins(e3, v3, c[3], c[4])
<1>1. DOMAIN RuleGraph.nodes = 1..Len(nodes)
  BY RuleGraphIs
<1>2. /\ Search!EdgeStepOf(path, 1) = E(e1, v1) /\ Search!EdgeStepOf(path, 2) = E(e2, v2) /\ Search!EdgeStepOf(path, 3) = E(e3, v3)
      /\ Search!NodeStepOf(path, 0) = N(k1, w1)
      /\ Search!NodeStepOf(path, 1) = N(k2, w2)
      /\ Search!NodeStepOf(path, 2) = N(k3, w3)
      /\ Search!NodeStepOf(path, 3) = N(k4, w4)
  BY PathOfThree
<1> DEFINE S == 1..Len(nodes)
<1>3. Nodes(k1) \subseteq S /\ Nodes(k2) \subseteq S /\ Nodes(k3) \subseteq S /\ Nodes(k4) \subseteq S
  BY DEF Nodes
<1> HIDE DEF S
<1>4. c \in Nodes(k1) \X Nodes(k2) \X Nodes(k3) \X Nodes(k4) => c \in [1..4 -> S]
  BY <1>3
<1>5. c \in [1..4 -> S] =>
         (c \in Nodes(k1) \X Nodes(k2) \X Nodes(k3) \X Nodes(k4) <=>
             c[1] \in Nodes(k1) /\ c[2] \in Nodes(k2) /\ c[3] \in Nodes(k3) /\ c[4] \in Nodes(k4))
  OBVIOUS
<1>6. ASSUME c \in [1..4 -> S]
      PROVE  (\A i \in 0..3 : Search!NodeMatches(RuleGraph.nodes[c[i + 1]], Search!NodeStepOf(path, i)))
                <=> /\ c[1] \in Nodes(k1) /\ w1 \subseteq TrueIn(derived[c[1]])
                    /\ c[2] \in Nodes(k2) /\ w2 \subseteq TrueIn(derived[c[2]])
                    /\ c[3] \in Nodes(k3) /\ w3 \subseteq TrueIn(derived[c[3]])
                    /\ c[4] \in Nodes(k4) /\ w4 \subseteq TrueIn(derived[c[4]])
  <2>1. c[1] \in 1..Len(nodes) /\ c[2] \in 1..Len(nodes) /\ c[3] \in 1..Len(nodes) /\ c[4] \in 1..Len(nodes)
    BY <1>6 DEF S
  <2>2. Search!NodeMatches(RuleGraph.nodes[c[1]], N(k1, w1))
           <=> c[1] \in Nodes(k1) /\ w1 \subseteq TrueIn(derived[c[1]])
    BY <2>1, NodeStepIs
  <2>3. Search!NodeMatches(RuleGraph.nodes[c[2]], N(k2, w2))
           <=> c[2] \in Nodes(k2) /\ w2 \subseteq TrueIn(derived[c[2]])
    BY <2>1, NodeStepIs
  <2>4. Search!NodeMatches(RuleGraph.nodes[c[3]], N(k3, w3))
           <=> c[3] \in Nodes(k3) /\ w3 \subseteq TrueIn(derived[c[3]])
    BY <2>1, NodeStepIs
  <2>5. Search!NodeMatches(RuleGraph.nodes[c[4]], N(k4, w4))
           <=> c[4] \in Nodes(k4) /\ w4 \subseteq TrueIn(derived[c[4]])
    BY <2>1, NodeStepIs
  <2>6. (\A i \in 0..3 : Search!NodeMatches(RuleGraph.nodes[c[i + 1]], Search!NodeStepOf(path, i)))
           <=> /\ Search!NodeMatches(RuleGraph.nodes[c[1]], N(k1, w1))
               /\ Search!NodeMatches(RuleGraph.nodes[c[2]], N(k2, w2))
               /\ Search!NodeMatches(RuleGraph.nodes[c[3]], N(k3, w3))
               /\ Search!NodeMatches(RuleGraph.nodes[c[4]], N(k4, w4))
    <3>1. \A i \in 0..3 : (i = 0 /\ i + 1 = 1) \/ (i = 1 /\ i + 1 = 2) \/ (i = 2 /\ i + 1 = 3) \/ (i = 3 /\ i + 1 = 4)
      OBVIOUS
    <3> QED BY <1>2, <3>1
  <2> QED BY <2>2, <2>3, <2>4, <2>5, <2>6
<1>7. (\A i \in 1..3 : \E e : HopFits(RuleGraph, path, i, c[i], c[i + 1], e))
         <=> /\ Joins(e1, v1, c[1], c[2])
             /\ Joins(e2, v2, c[2], c[3])
             /\ Joins(e3, v3, c[3], c[4])
  <2>1. (\E e : HopFits(RuleGraph, path, 1, c[1], c[2], e)) <=> Joins(e1, v1, c[1], c[2])
    BY <1>2, EdgeStepIs
  <2>2. (\E e : HopFits(RuleGraph, path, 2, c[2], c[3], e)) <=> Joins(e2, v2, c[2], c[3])
    BY <1>2, EdgeStepIs
  <2>3. (\E e : HopFits(RuleGraph, path, 3, c[3], c[4], e)) <=> Joins(e3, v3, c[3], c[4])
    BY <1>2, EdgeStepIs
  <2>4. \A i \in 1..3 : (i = 1 /\ i + 1 = 2) \/ (i = 2 /\ i + 1 = 3) \/ (i = 3 /\ i + 1 = 4)
    OBVIOUS
  <2> QED BY <2>1, <2>2, <2>3, <2>4
<1>8. IsRow(RuleGraph, path, 3, c) <=>
         /\ c \in [1..4 -> S]
         /\ \A i \in 0..3 : Search!NodeMatches(RuleGraph.nodes[c[i + 1]], Search!NodeStepOf(path, i))
         /\ \A i \in 1..3 : \E e : HopFits(RuleGraph, path, i, c[i], c[i + 1], e)
  BY <1>1 DEF IsRow, S
<1> QED BY <1>4, <1>5, <1>6, <1>7, <1>8

-----------------------------------------------------------------------------
(* Facts and edges in the words of the files.                              *)

LEMMA FactsWhenDone ==
    ASSUME Going, pc = "done", NEW n \in 1..Len(nodes), nodes[n].kind \in DOMAIN FactPass
    PROVE  derived[n] = DeclaredFacts(n)
<1>1. Due(n)
  BY DueKinds, AllArePast DEF Due
<1> QED BY <1>1 DEF Going, FactsSoFar

LEMMA OneFact ==
    ASSUME NEW name, NEW facts, name \in DOMAIN facts
    PROVE  {name} \subseteq TrueIn(facts) <=> facts[name]
BY DEF TrueIn

LEMMA OpenIs ==
    ASSUME Going, pc = "done", NEW g \in Nodes("SecurityGroup")
    PROVE  {"open_ingress"} \subseteq TrueIn(derived[g]) <=> IsOpen(g)
<1>1. g \in 1..Len(nodes) /\ nodes[g].kind = "SecurityGroup" /\ TypeOK
  BY DEF Nodes, Going
<1> DEFINE d == \E r \in ToSet(nodes[g].attrs.ingress) : r.cidrs \cap OpenCidr # {}
<1>2. derived[g] = [open_ingress |-> d]
  BY <1>1, DueKinds, FactsWhenDone DEF DeclaredFacts, GroupFacts
<1>3. d <=> IsOpen(g)
  <2>1. nodes[g] \in Node
    BY <1>1, Lengths
  <2>2. nodes[g].attrs.ingress \in Seq([cidrs : SUBSET (OpenCidr \cup {"10.0.0.0/8"}), port : Nat])
    BY <2>1 DEF Node, Attrs
  <2>3. DOMAIN nodes[g].attrs.ingress = 1..Len(nodes[g].attrs.ingress)
    BY <2>2, LenProperties
  <2> QED BY <2>3 DEF ToSet, IsOpen
<1> HIDE DEF d
<1>4. "open_ingress" \in DOMAIN derived[g] /\ derived[g].open_ingress = d
  BY <1>2
<1> QED BY <1>3, <1>4, OneFact

LEMMA TrustingIs ==
    ASSUME Going, pc = "done", TrustsPlainly, NEW r \in Nodes("IamRole")
    PROVE  {"wildcard_trust"} \subseteq TrueIn(derived[r]) <=> Trusting(r)
<1>1. r \in 1..Len(nodes) /\ nodes[r].kind = "IamRole"
  BY DEF Nodes
<1> DEFINE d == \E s \in ToSet(nodes[r].attrs.assume_role_policy) : statement_has_wildcard_principal(s)
<1>2. derived[r] = [wildcard_trust |-> d]
  BY <1>1, DueKinds, FactsWhenDone DEF DeclaredFacts, RoleFacts
<1>3. d <=> Trusting(r)
  BY DEF Trusting, TrustsPlainly, statement_has_wildcard_principal
<1> HIDE DEF d
<1>4. "wildcard_trust" \in DOMAIN derived[r] /\ derived[r].wildcard_trust = d
  BY <1>2
<1> QED BY <1>3, <1>4, OneFact

LEMMA BucketIsAs ==
    ASSUME Going, pc = "done", NEW b \in Nodes("S3Bucket")
    PROVE  /\ {"sensitive"} \subseteq TrueIn(derived[b]) <=> Sensitive(b)
           /\ {"public"} \subseteq TrueIn(derived[b]) <=> Public(b)
<1>1. b \in 1..Len(nodes) /\ nodes[b].kind = "S3Bucket" /\ TypeOK
  BY DEF Nodes, Going
<1> DEFINE s == is_tagged_sensitive(nodes[b].attrs)
           p == PublicByRefs(b)
<1>2. derived[b] = [sensitive |-> s, public |-> p]
  BY <1>1, DueKinds, FactsWhenDone DEF DeclaredFacts
<1>3. s <=> Sensitive(b)
  BY <1>1, SensitiveAsDeclared DEF Sensitive
<1>4. p <=> Public(b)
  <2>1. \A e \in References : edges[e].src \in 1..Len(nodes)
    BY <1>1, Lengths DEF References
  <2> QED BY <2>1 DEF PublicByRefs, Public, Exposes, PublicAcl
<1> HIDE DEF s, p
<1>5. {"sensitive", "public"} \subseteq DOMAIN derived[b] /\ derived[b].sensitive = s /\ derived[b].public = p
  BY <1>2
<1> QED BY <1>3, <1>4, <1>5, OneFact

(* Where an argument names one resource, referenced_node finds it.         *)
LEMMA NamedIs ==
    ASSUME TypeOK, NEW n \in 1..Len(nodes), NEW attr, NamesOne(attr), NEW m \in 1..Len(nodes)
    PROVE  Refers(n, m, attr) <=> referenced_node(n, attr) = m
<1>1. m # NoNode
  BY Lengths DEF NoNode
<1>2. ASSUME referenced_node(n, attr) = m PROVE Refers(n, m, attr)
  BY <1>1, <1>2, Referenced
<1>3. ASSUME Refers(n, m, attr) PROVE referenced_node(n, attr) = m
  <2>1. PICK r \in References : edges[r].src = n /\ edges[r].dst = m /\ IsAttr(edges[r].path, attr)
    BY <1>3 DEF Refers
  <2>2. r \in AttrRefs(n, attr)
    BY <2>1, RefsFound DEF AttrRefs
  <2> DEFINE l == Max(AttrRefs(n, attr))
  <2>4. l \in References /\ edges[l].src = n /\ IsAttr(edges[l].path, attr)
    BY <2>2, LastRef
  <2>5. referenced_node(n, attr) = edges[l].dst
    BY <2>2, ReferencedIs
  <2> HIDE DEF l
  <2> QED BY <2>1, <2>4, <2>5 DEF NamesOne
<1> QED BY <1>2, <1>3

LEMMA InvokableIs ==
    ASSUME Going, pc = "done", NamesOne("function_name"), NEW f \in Nodes("LambdaFunction")
    PROVE  {"publicly_invokable"} \subseteq TrueIn(derived[f]) <=>
              \E p \in Nodes("LambdaPermission") :
                 /\ Refers(p, f, "function_name")
                 /\ nodes[p].attrs.principal = "*" /\ ~nodes[p].attrs.source_arn
<1>1. f \in 1..Len(nodes) /\ nodes[f].kind = "LambdaFunction" /\ TypeOK
  BY DEF Nodes, Going
<1> DEFINE d == \E p \in 1..Len(nodes) : InvokableByAnyone(p, f)
<1>2. derived[f] = [publicly_invokable |-> d]
  BY <1>1, DueKinds, FactsWhenDone DEF DeclaredFacts, LambdaFacts
<1>3. \A p \in 1..Len(nodes) : Refers(p, f, "function_name") <=> referenced_node(p, "function_name") = f
  BY <1>1, NamedIs
<1>4. d <=> \E p \in Nodes("LambdaPermission") :
               /\ Refers(p, f, "function_name")
               /\ nodes[p].attrs.principal = "*" /\ ~nodes[p].attrs.source_arn
  BY <1>3 DEF InvokableByAnyone, Nodes
<1> HIDE DEF d
<1>5. "publicly_invokable" \in DOMAIN derived[f] /\ derived[f].publicly_invokable = d
  BY <1>2
<1> QED BY <1>4, <1>5, OneFact

LEMMA ReferenceJoins ==
    ASSUME NEW from, NEW to
    PROVE  Joins("References", {"attr_path_is_role"}, from, to) <=> Refers(from, to, "role")
<1>1. ASSUME NEW e \in Added("References")
      PROVE  {"attr_path_is_role"} \subseteq EdgeClauses(edges[e]) <=> IsAttr(edges[e].path, "role")
  <2>1. EdgeFacts(edges[e]) = <<>>
    BY DEF Added, EdgeFacts
  <2>2. TrueIn(<<>>) = {}
    BY DEF TrueIn
  <2> QED BY <2>1, <2>2 DEF EdgeClauses
<1>2. Added("References") = References
  BY DEF Added, References
<1> QED BY <1>1, <1>2 DEF Joins, Refers

LEMMA NetworkJoins ==
    ASSUME Going, pc = "done", NEW g \in Nodes("SecurityGroup"), NEW i \in Nodes("Instance")
    PROVE  Joins("NetworkReachable", {}, g, i) <=>
              {"open_ingress"} \subseteq TrueIn(derived[g]) /\ Uses(i, g) # {}
<1>1. ReachableIffOpen
  BY NetworkFound
<1> DEFINE made == {e \in Added("NetworkReachable") : edges[e].src = g /\ edges[e].dst = i}
<1>2. (made # {}) = (derived[g].open_ingress /\ Uses(i, g) # {})
  BY <1>1 DEF ReachableIffOpen
<1>3. Joins("NetworkReachable", {}, g, i) <=> made # {}
  BY DEF Joins
<1>4. "open_ingress" \in DOMAIN derived[g]
  <2>1. g \in 1..Len(nodes) /\ nodes[g].kind = "SecurityGroup"
    BY DEF Nodes
  <2>2. derived[g] = GroupFacts(g)
    BY <2>1, DueKinds, FactsWhenDone DEF DeclaredFacts
  <2> QED BY <2>2 DEF GroupFacts
<1>5. {"open_ingress"} \subseteq TrueIn(derived[g]) <=> derived[g].open_ingress
  BY <1>4, OneFact
<1> HIDE DEF made
<1> QED BY <1>2, <1>3, <1>5

LEMMA AttachedJoins ==
    ASSUME Going, pc = "done", NamesOne("role"), NamesOne("iam_instance_profile"),
           NEW i \in Nodes("Instance"), NEW r \in 1..Len(nodes)
    PROVE  Joins("Attached", {}, i, r) <=>
              \E p \in Nodes("IamInstanceProfile") :
                 Refers(i, p, "iam_instance_profile") /\ Refers(p, r, "role")
<1>1. AttachedByLast /\ TypeOK
  BY AttachedLast DEF Going
<1> DEFINE mine == {e \in Added("Attached") : edges[e].src = i}
           profile == referenced_node(i, "iam_instance_profile")
<1>2. i \in 1..Len(nodes) /\ nodes[i].kind = "Instance"
  BY DEF Nodes
<1>3. /\ mine # {} => profile \in Nodes("IamInstanceProfile")
      /\ profile \in Nodes("IamInstanceProfile") =>
            {edges[e].dst : e \in mine} = {referenced_node(profile, "role")} \ {NoNode}
  BY <1>1, <1>2 DEF AttachedByLast
<1>4. Joins("Attached", {}, i, r) <=> r \in {edges[e].dst : e \in mine}
  BY DEF Joins
<1>5. r # NoNode
  BY <1>1, Lengths DEF NoNode
<1> HIDE DEF mine, profile
<1>6. Joins("Attached", {}, i, r) <=>
         profile \in Nodes("IamInstanceProfile") /\ referenced_node(profile, "role") = r
  BY <1>3, <1>4, <1>5
<1>7. ASSUME NEW p \in Nodes("IamInstanceProfile")
      PROVE  /\ Refers(i, p, "iam_instance_profile") <=> profile = p
             /\ Refers(p, r, "role") <=> referenced_node(p, "role") = r
  <2>1. p \in 1..Len(nodes)
    BY DEF Nodes
  <2> QED BY <1>1, <1>2, <2>1, NamedIs DEF profile
<1> QED BY <1>6, <1>7

(* What a policy is attached to, and what it says.                         *)
MeetsRole(policy, role) ==
    \/ nodes[policy].kind = "IamRolePolicy" /\ Refers(policy, role, "role")
    \/ /\ nodes[policy].kind = "IamPolicy"
       /\ \E a \in Nodes("IamRolePolicyAttachment") :
             Refers(a, policy, "policy_arn") /\ Refers(a, role, "role")

Says(policy, target, stmt) ==
    \E r \in References : /\ edges[r].src = policy /\ edges[r].dst = target
                          /\ edges[r].path.rest = "Resource" /\ edges[r].path.stmt = stmt

Allows(policy, stmt, actions) ==
    LET statement == nodes[policy].attrs.policy[stmt]
    IN  statement.effect = "Allow" /\ statement.actions = actions /\ ToSet(actions) # {}

GrantedBy(role, target, actions) ==
    \E policy \in 1..Len(nodes) : \E stmt :
       /\ MeetsRole(policy, role) /\ Says(policy, target, stmt) /\ Allows(policy, stmt, actions)

LEMMA StatementType ==
    ASSUME TypeOK, NEW n \in 1..Len(nodes), NEW i \in 1..Len(nodes[n].attrs.policy)
    PROVE  /\ nodes[n].attrs.policy[i].actions \in Seq(Action)
           /\ ToSet(nodes[n].attrs.policy[i].actions) = {} <=> nodes[n].attrs.policy[i].actions = <<>>
<1>1. nodes[n] \in Node
  BY Lengths
<1>2. nodes[n].attrs.policy \in Seq(Statement)
  BY <1>1 DEF Node, Attrs
<1>3. nodes[n].attrs.policy[i] \in Statement
  BY <1>2, ElementOfSeq
<1> DEFINE s == nodes[n].attrs.policy[i].actions
<1>4. s \in Seq(Action)
  BY <1>3 DEF Statement
<1> HIDE DEF s
<1>5. ToSet(s) = {} <=> s = <<>>
  <2>1. DOMAIN s = 1..Len(s) /\ Len(s) \in Nat
    BY <1>4, LenProperties
  <2>2. s # <<>> => 1 \in DOMAIN s
    BY <1>4, <2>1, EmptySeq
  <2>3. s = <<>> => DOMAIN s = {}
    BY <2>1, EmptySeq
  <2> QED BY <2>2, <2>3 DEF ToSet
<1> QED BY <1>4, <1>5 DEF s

(* A grant stands for what a policy of the role says ...                   *)
LEMMA GrantIsSaid ==
    ASSUME Going, pc = "done", WrittenPlainly, NEW e \in Added("IamGrants")
    PROVE  GrantedBy(edges[e].src, edges[e].dst, edges[e].actions)
<1>1. TypeOK /\ IsWritten(edges[e])
  BY GrantsFound DEF Going, GrantsAsWritten, NoGrantMisattributed
<1> DEFINE policy == edges[e].holder
           stmt == edges[e].path.stmt
<1>2. e \in 1..Len(edges) /\ policy \in 1..Len(nodes)
  BY <1>1, Lengths DEF Added
<1>3. /\ stmt \in 1..Len(nodes[policy].attrs.policy)
      /\ nodes[policy].attrs.policy[stmt].effect = "Allow"
      /\ nodes[policy].attrs.policy[stmt].actions = edges[e].actions /\ edges[e].actions # <<>>
  BY <1>1 DEF IsWritten
<1>4. MeetsRole(policy, edges[e].src)
  BY <1>1 DEF IsWritten, MeetsRole
<1>5. Says(policy, edges[e].dst, stmt)
  <2>1. PICK r \in References :
           /\ edges[r].src = policy /\ edges[r].dst = edges[e].dst
           /\ NamesResource(edges[r].path) /\ edges[r].path.stmt \in {0, stmt}
    BY <1>1 DEF IsWritten
  <2>2. edges[r].path.rest = "Resource" /\ edges[r].path.stmt \in 1..Len(nodes[edges[r].src].attrs.policy)
    BY <2>1 DEF WrittenPlainly
  <2>3. edges[r].path.stmt # 0
    <3>1. Len(nodes[policy].attrs.policy) \in Nat
      BY <1>1, <1>2, PolicyType
    <3> QED BY <2>1, <2>2, <3>1
  <2> QED BY <2>1, <2>2, <2>3 DEF Says
<1>6. ToSet(edges[e].actions) # {}
  BY <1>1, <1>2, <1>3, StatementType
<1> QED BY <1>2, <1>3, <1>4, <1>5, <1>6 DEF GrantedBy, Allows

(* ... and what a policy of the role says is granted.                      *)
LEMMA SaidIsGranted ==
    ASSUME Going, pc = "done", WrittenPlainly, NEW role \in 1..Len(nodes), NEW target \in 1..Len(nodes),
           NEW actions, GrantedBy(role, target, actions)
    PROVE  \E e \in Added("IamGrants") :
              edges[e].src = role /\ edges[e].dst = target /\ edges[e].actions = actions
<1>0. PICK policy \in 1..Len(nodes) : \E stmt :
         /\ MeetsRole(policy, role) /\ Says(policy, target, stmt) /\ Allows(policy, stmt, actions)
  BY DEF GrantedBy
<1>1. PICK stmt : MeetsRole(policy, role) /\ Says(policy, target, stmt) /\ Allows(policy, stmt, actions)
  BY <1>0
<1>2. TypeOK /\ EachGrantFound
  BY GrantsFound DEF Going, GrantsAsWritten
<1>3. PICK r \in References : /\ edges[r].src = policy /\ edges[r].dst = target
                              /\ edges[r].path.rest = "Resource" /\ edges[r].path.stmt = stmt
  BY <1>1 DEF Says
<1>4. stmt \in 1..Len(nodes[policy].attrs.policy)
  BY <1>3 DEF WrittenPlainly, NamesResource
<1>5. r \in Written(policy, target, stmt)
  BY <1>3 DEF Written
<1>6. Grants(nodes[policy].attrs.policy[stmt])
  BY <1>1, <1>2, <1>4, StatementType DEF Allows, Grants
<1>7. Links(policy, role) # {}
  <2>1. NamesOne("role") /\ NamesOne("policy_arn")
    BY DEF WrittenPlainly
  <2>2. CASE nodes[policy].kind = "IamRolePolicy" /\ Refers(policy, role, "role")
    <3>1. referenced_node(policy, "role") = role
      BY <1>2, <2>1, <2>2, NamedIs
    <3> QED BY <2>2, <3>1 DEF Links
  <2>3. CASE /\ nodes[policy].kind = "IamPolicy"
             /\ \E a \in Nodes("IamRolePolicyAttachment") :
                   Refers(a, policy, "policy_arn") /\ Refers(a, role, "role")
    <3>1. PICK a \in Nodes("IamRolePolicyAttachment") :
             Refers(a, policy, "policy_arn") /\ Refers(a, role, "role")
      BY <2>3
    <3>2. a \in 1..Len(nodes) /\ nodes[a].kind = "IamRolePolicyAttachment"
      BY DEF Nodes
    <3>3. referenced_node(a, "policy_arn") = policy /\ referenced_node(a, "role") = role
      BY <1>2, <2>1, <3>1, <3>2, NamedIs
    <3> QED BY <2>3, <3>2, <3>3 DEF Links
  <2> QED BY <1>1, <2>2, <2>3 DEF MeetsRole
<1> DEFINE made == {e \in Added("IamGrants") :
                       /\ edges[e].src = role /\ edges[e].dst = target
                       /\ edges[e].holder = policy /\ edges[e].path.stmt = stmt}
           L == Links(policy, role)
           W == Written(policy, target, stmt)
<1>8. Cardinality(made) = Cardinality(L \X W)
  <2> DEFINE M(p, q, t, i) == {e \in Added("IamGrants") :
                                 /\ edges[e].src = q /\ edges[e].dst = t
                                 /\ edges[e].holder = p /\ edges[e].path.stmt = i}
  <2>1. \A p, q, t \in 1..Len(nodes) : \A i \in 1..Len(nodes[p].attrs.policy) :
           Written(p, t, i) # {} /\ Grants(nodes[p].attrs.policy[i]) =>
              Cardinality(M(p, q, t, i)) = Cardinality(Links(p, q) \X Written(p, t, i))
    BY <1>2 DEF EachGrantFound
  <2>2. made = M(policy, role, target, stmt)
    OBVIOUS
  <2> HIDE DEF M, made
  <2>3. Written(policy, target, stmt) # {}
    BY <1>5
  <2>4. policy \in 1..Len(nodes) /\ role \in 1..Len(nodes) /\ target \in 1..Len(nodes)
    OBVIOUS
  <2>5. \A i \in 1..Len(nodes[policy].attrs.policy) :
           Written(policy, target, i) # {} /\ Grants(nodes[policy].attrs.policy[i]) =>
              Cardinality(M(policy, role, target, i)) = Cardinality(Links(policy, role) \X Written(policy, target, i))
    BY <2>1, <2>4, Zenon
  <2>6. Cardinality(M(policy, role, target, stmt)) = Cardinality(Links(policy, role) \X Written(policy, target, stmt))
    BY <1>4, <1>6, <2>3, <2>5, Zenon
  <2> QED BY <2>2, <2>6
<1>9. made # {}
  <2>1. IsFiniteSet(L) /\ IsFiniteSet(W) /\ L # {} /\ W # {}
    BY <1>2, <1>5, <1>7, LinksFinite, WrittenFinite
  <2> HIDE DEF made, L, W
  <2>2. Cardinality(L \X W) = Cardinality(L) * Cardinality(W)
    BY <2>1, FS_Product
  <2> DEFINE l == Cardinality(L)
             w == Cardinality(W)
  <2>3. l \in Nat /\ w \in Nat /\ l # 0 /\ w # 0
    BY <2>1, FS_CardinalityType, FS_EmptySet
  <2> HIDE DEF l, w
  <2>4. l * w # 0
    BY <2>3
  <2>5. Cardinality(made) # 0
    BY <1>8, <2>2, <2>4 DEF l, w
  <2> QED BY <2>5, FS_EmptySet
<1>10. PICK e \in Added("IamGrants") : /\ edges[e].src = role /\ edges[e].dst = target
                                       /\ edges[e].holder = policy /\ edges[e].path.stmt = stmt
  BY <1>9
<1>11. IsWritten(edges[e])
  BY GrantsFound DEF GrantsAsWritten, NoGrantMisattributed
<1>12. edges[e].actions = actions
  BY <1>1, <1>10, <1>11 DEF IsWritten, Allows
<1> QED BY <1>10, <1>12

LEMMA MayDoIs ==
    ASSUME TypeOK, WrittenPlainly, NEW role, NEW target, NEW wanted
    PROVE  MayDo(role, wanted, target) <=>
              \E actions : GrantedBy(role, target, actions) /\ ToSet(actions) \cap wanted # {}
<1>1. ASSUME MayDo(role, wanted, target)
      PROVE  \E actions : GrantedBy(role, target, actions) /\ ToSet(actions) \cap wanted # {}
  <2>1. PICK policy \in Nodes("IamRolePolicy") \cup Nodes("IamPolicy") :
           /\ MeetsRole(policy, role)
           /\ \E r \in References :
                LET statement == nodes[policy].attrs.policy[edges[r].path.stmt]
                IN  /\ edges[r].src = policy /\ edges[r].dst = target
                    /\ edges[r].path.rest = "Resource"
                    /\ statement.effect = "Allow"
                    /\ ToSet(statement.actions) \cap wanted # {}
    BY <1>1 DEF MayDo, MeetsRole
  <2>2. PICK r \in References :
           LET statement == nodes[policy].attrs.policy[edges[r].path.stmt]
           IN  /\ edges[r].src = policy /\ edges[r].dst = target
               /\ edges[r].path.rest = "Resource"
               /\ statement.effect = "Allow"
               /\ ToSet(statement.actions) \cap wanted # {}
    BY <2>1
  <2> DEFINE stmt == edges[r].path.stmt
             actions == nodes[policy].attrs.policy[stmt].actions
  <2>3. Says(policy, target, stmt)
    BY <2>2 DEF Says
  <2>4. Allows(policy, stmt, actions) /\ ToSet(actions) \cap wanted # {}
    BY <2>2 DEF Allows
  <2>5. policy \in 1..Len(nodes)
    BY DEF Nodes
  <2> HIDE DEF stmt, actions
  <2> QED BY <2>1, <2>3, <2>4, <2>5 DEF GrantedBy
<1>2. ASSUME NEW actions, GrantedBy(role, target, actions), ToSet(actions) \cap wanted # {}
      PROVE  MayDo(role, wanted, target)
  <2>0. PICK policy \in 1..Len(nodes) : \E stmt :
           /\ MeetsRole(policy, role) /\ Says(policy, target, stmt) /\ Allows(policy, stmt, actions)
    BY <1>2 DEF GrantedBy
  <2>1. PICK stmt : MeetsRole(policy, role) /\ Says(policy, target, stmt) /\ Allows(policy, stmt, actions)
    BY <2>0
  <2>2. PICK r \in References : /\ edges[r].src = policy /\ edges[r].dst = target
                                /\ edges[r].path.rest = "Resource" /\ edges[r].path.stmt = stmt
    BY <2>1 DEF Says
  <2>3. policy \in Nodes("IamRolePolicy") \cup Nodes("IamPolicy")
    BY <2>1 DEF MeetsRole, Nodes
  <2>4. /\ nodes[policy].attrs.policy[edges[r].path.stmt].effect = "Allow"
        /\ ToSet(nodes[policy].attrs.policy[edges[r].path.stmt].actions) \cap wanted # {}
    BY <1>2, <2>1, <2>2 DEF Allows
  <2> QED BY <2>1, <2>2, <2>3, <2>4 DEF MayDo, MeetsRole
<1> QED BY <1>1, <1>2

(* The clauses the built-in rules ask of a grant, of its actions.          *)
Clauses == {"grants_write", "grants_wildcard", "grants_iam_escalation"}
Wanted(clause) ==
    CASE clause = "grants_write" -> Writing
      [] clause = "grants_wildcard" -> Everything
      [] clause = "grants_iam_escalation" -> Escalating

LEMMA GrantClauses ==
    ASSUME TypeOK, NEW e \in Added("IamGrants"), NEW clause \in Clauses
    PROVE  {clause} \subseteq EdgeClauses(edges[e]) <=> ToSet(edges[e].actions) \cap Wanted(clause) # {}
<1>1. edges[e] \in Edge /\ edges[e].kind = "IamGrants"
  BY Lengths DEF Added
<1> DEFINE s == edges[e].actions
           w == \E a \in ToSet(s) : a = AnyAction \/ a.name \in WriteName
           v == \E a \in ToSet(s) : a = AnyAction \/ a.name = "*"
           x == \E a \in ToSet(s) : a = AnyAction \/ (a.service = "iam" /\ a.name \in EscalationName \cup {"*"})
           facts == [grants_write |-> w, grants_wildcard |-> v, grants_iam_escalation |-> x]
<1>2. EdgeFacts(edges[e]) = facts
  BY <1>1 DEF EdgeFacts
<1>3. \A a \in ToSet(s) : a \in Action
  <2>1. s \in Seq(Action)
    BY <1>1 DEF Edge
  <2>2. DOMAIN s = 1..Len(s) /\ \A i \in 1..Len(s) : s[i] \in Action
    BY <2>1, LenProperties, ElementOfSeq
  <2> HIDE DEF s
  <2> QED BY <2>2 DEF ToSet
<1>4. \A a \in Action : a = AnyAction \/ a \in [service : Service, name : {"*"} \cup WriteName \cup EscalationName \cup ReadName]
  BY DEF Action
<1>5. AnyAction \in Action /\ AnyAction.name = "*"
  BY DEF Action, AnyAction
<1> HIDE DEF s
<1>6. w <=> ToSet(s) \cap Writing # {}
  BY <1>3 DEF Writing
<1>7. v <=> ToSet(s) \cap Everything # {}
  BY <1>3, <1>5 DEF Everything
<1>8. x <=> ToSet(s) \cap Escalating # {}
  <2>1. ASSUME NEW a \in ToSet(s), a # AnyAction
        PROVE  (a.service = "iam" /\ a.name \in EscalationName \cup {"*"})
                  <=> a \in [service : {"iam"}, name : EscalationName \cup {"*"}]
    <3>1. a \in [service : Service, name : {"*"} \cup WriteName \cup EscalationName \cup ReadName]
      BY <1>3, <1>4, <2>1
    <3> QED BY <3>1
  <2> QED BY <2>1 DEF Escalating
<1> HIDE DEF w, v, x
<1>9. {clause} \subseteq EdgeClauses(edges[e]) <=> clause \in TrueIn(facts)
  BY <1>2 DEF EdgeClauses, Clauses
<1>10. clause \in DOMAIN facts
  BY DEF Clauses
<1>11. clause \in TrueIn(facts) <=> facts[clause]
  BY <1>10 DEF TrueIn
<1>12. /\ facts["grants_write"] = w /\ facts["grants_wildcard"] = v
       /\ facts["grants_iam_escalation"] = x
  OBVIOUS
<1>13. /\ Wanted("grants_write") = Writing /\ Wanted("grants_wildcard") = Everything
       /\ Wanted("grants_iam_escalation") = Escalating
  BY DEF Wanted
<1> HIDE DEF facts
<1> QED BY <1>6, <1>7, <1>8, <1>9, <1>11, <1>12, <1>13 DEF Clauses, s

LEMMA GrantJoins ==
    ASSUME Going, pc = "done", WrittenPlainly, NEW role \in 1..Len(nodes), NEW target \in 1..Len(nodes)
    PROVE  /\ Joins("IamGrants", {}, role, target) <=> MayDo(role, Action, target)
           /\ \A clause \in Clauses :
                 Joins("IamGrants", {clause}, role, target) <=> MayDo(role, Wanted(clause), target)
<1>1. TypeOK
  BY DEF Going
<1>2. ASSUME NEW where, NEW wanted,
             \A e \in Added("IamGrants") :
                where \subseteq EdgeClauses(edges[e]) <=> ToSet(edges[e].actions) \cap wanted # {}
      PROVE  Joins("IamGrants", where, role, target) <=> MayDo(role, wanted, target)
  <2>1. ASSUME Joins("IamGrants", where, role, target) PROVE MayDo(role, wanted, target)
    <3>1. PICK e \in Added("IamGrants") : /\ edges[e].src = role /\ edges[e].dst = target
                                          /\ where \subseteq EdgeClauses(edges[e])
      BY <2>1 DEF Joins
    <3>2. GrantedBy(role, target, edges[e].actions)
      BY <3>1, GrantIsSaid
    <3>3. ToSet(edges[e].actions) \cap wanted # {}
      BY <1>2, <3>1
    <3> QED BY <1>1, <3>2, <3>3, MayDoIs
  <2>2. ASSUME MayDo(role, wanted, target) PROVE Joins("IamGrants", where, role, target)
    <3>1. PICK actions : GrantedBy(role, target, actions) /\ ToSet(actions) \cap wanted # {}
      BY <1>1, <2>2, MayDoIs
    <3>2. PICK e \in Added("IamGrants") :
             edges[e].src = role /\ edges[e].dst = target /\ edges[e].actions = actions
      BY <3>1, SaidIsGranted
    <3>3. where \subseteq EdgeClauses(edges[e])
      BY <1>2, <3>1, <3>2
    <3> QED BY <3>2, <3>3 DEF Joins
  <2> QED BY <2>1, <2>2
<1>3. ASSUME NEW e \in Added("IamGrants") PROVE ToSet(edges[e].actions) \cap Action # {}
  <2>1. GrantedBy(edges[e].src, edges[e].dst, edges[e].actions)
    BY GrantIsSaid
  <2>2. ToSet(edges[e].actions) # {}
    BY <2>1 DEF GrantedBy, Allows
  <2>3. edges[e] \in Edge
    BY <1>1, Lengths DEF Added
  <2> DEFINE s == edges[e].actions
  <2>4. s \in Seq(Action)
    BY <2>3 DEF Edge
  <2> HIDE DEF s
  <2>5. DOMAIN s = 1..Len(s) /\ \A i \in 1..Len(s) : s[i] \in Action
    BY <2>4, LenProperties, ElementOfSeq
  <2>6. ToSet(s) \subseteq Action
    BY <2>5 DEF ToSet
  <2> QED BY <2>2, <2>6 DEF s
<1>4. Joins("IamGrants", {}, role, target) <=> MayDo(role, Action, target)
  BY <1>2, <1>3
<1>5. ASSUME NEW clause \in Clauses
      PROVE  Joins("IamGrants", {clause}, role, target) <=> MayDo(role, Wanted(clause), target)
  <2>1. \A e \in Added("IamGrants") :
           {clause} \subseteq EdgeClauses(edges[e]) <=> ToSet(edges[e].actions) \cap Wanted(clause) # {}
    BY <1>1, GrantClauses
  <2> QED BY <1>2, <2>1
<1> QED BY <1>4, <1>5

-----------------------------------------------------------------------------
(* The scan: once the rules run nothing changes the graph, and the         *)
(* findings are those of the rules that have run.                          *)

FoundBy(g, n) == UNION {DOMAIN Search!FindingBag(g, BuiltinRules[j]) : j \in 1..n}

ScanInv ==
    /\ IInv /\ status \in {"classifying", "running", "done"}
    /\ status = "classifying" => ri = 1 /\ found = EmptyBag
    /\ status # "classifying" =>
          /\ pc = "done" /\ graph = RuleGraph /\ rules = BuiltinRules
          /\ ri \in 1..6 /\ DOMAIN found = FoundBy(graph, ri - 1)
          /\ status = "done" => ri = 6

LEMMA ScanGoes == ASSUME ScanInv, status # "classifying" PROVE Going /\ pc = "done"
BY DEF ScanInv, IInv

LEMMA DoneStays == ASSUME pc = "done", [Next]_vars PROVE UNCHANGED vars
<1>1. pc \notin DOMAIN NextPass /\ pc \notin DOMAIN KindOfPass
  BY PassesAre DEF Passes, KindOfPass
<1> QED BY <1>1 DEF Next, DeriveBucket, DeriveRoleTrust, DeriveSecurityGroup, DeriveLambda, DeriveFacts, Panic,
              ComputeGrants, ComputeNetwork, ComputeAttached, ComputeEdges, PassDone, AddEdge, AllAdded

LEMMA SameGraph == ASSUME UNCHANGED vars PROVE RuleGraph' = RuleGraph
BY DEF RuleGraph, vars, TrueIn, EdgeClauses, EdgeFacts

LEMMA FoundByNext ==
    ASSUME NEW g, NEW n \in Nat
    PROVE  FoundBy(g, n + 1) = FoundBy(g, n) \cup DOMAIN Search!FindingBag(g, BuiltinRules[n + 1])
<1> DEFINE D(j) == DOMAIN Search!FindingBag(g, BuiltinRules[j])
<1>1. FoundBy(g, n + 1) = UNION {D(j) : j \in 1..(n + 1)} /\ FoundBy(g, n) = UNION {D(j) : j \in 1..n}
  BY DEF FoundBy
<1>2. 1..(n + 1) = 1..n \cup {n + 1}
  OBVIOUS
<1> HIDE DEF D
<1>3. UNION {D(j) : j \in 1..(n + 1)} = (UNION {D(j) : j \in 1..n}) \cup D(n + 1)
  BY <1>2
<1> QED BY <1>1, <1>3 DEF D

LEMMA FoundByNone == ASSUME NEW g PROVE FoundBy(g, 0) = {}
<1>1. 1..0 = {}
  OBVIOUS
<1> QED BY <1>1 DEF FoundBy

LEMMA ScanInvInit == ScanInit => ScanInv
BY StartInvariant DEF ScanInit, ScanInv

LEMMA ScanInvStep == ScanInv /\ [ScanNext]_<<vars, search_vars>> => ScanInv'
<1> SUFFICES ASSUME ScanInv, [ScanNext]_<<vars, search_vars>> PROVE ScanInv'
  OBVIOUS
<1>1. [Next]_vars
  BY DEF ScanNext, ClassifyStep, RunRules, RunRule, Finish, vars, search_vars
<1>2. IInv'
  BY <1>1, StepInvariant DEF ScanInv
<1>3. status # "classifying" => UNCHANGED vars /\ RuleGraph' = RuleGraph
  BY <1>1, DoneStays, SameGraph DEF ScanInv
<1>4. CASE UNCHANGED search_vars
  <2>1. /\ status' = status /\ ri' = ri /\ found' = found /\ graph' = graph /\ rules' = rules
    BY <1>4 DEF search_vars
  <2>2. status # "classifying" => pc' = pc
    BY <1>3 DEF vars
  <2>3. EmptyBag' = EmptyBag /\ BuiltinRules' = BuiltinRules
    OBVIOUS
  <2> QED BY <1>2, <1>3, <2>1, <2>2, <2>3 DEF ScanInv
<1>5. CASE RunRules
  <2>1. /\ status = "classifying" /\ pc = "done" /\ status' = "running" /\ graph' = RuleGraph
        /\ rules' = BuiltinRules /\ ri' = ri /\ found' = found /\ UNCHANGED vars
    BY <1>5 DEF RunRules
  <2>2. RuleGraph' = RuleGraph /\ pc' = pc
    BY <2>1, SameGraph DEF vars
  <2>3. ri = 1 /\ found = EmptyBag
    BY <2>1 DEF ScanInv
  <2>4. DOMAIN found' = FoundBy(graph', ri' - 1)
    <3>1. DOMAIN EmptyBag = {}
      BY DEF EmptyBag, SetToBag
    <3>2. ri' - 1 = 0
      BY <2>1, <2>3
    <3> QED BY <2>1, <2>3, <3>1, <3>2, FoundByNone
  <2> QED BY <1>2, <2>1, <2>2, <2>3, <2>4 DEF ScanInv
<1>6. CASE RunRule
  <2>1. /\ status = "running" /\ ri <= Len(rules) /\ ri' = ri + 1
        /\ found' = found (+) Search!FindingBag(graph, rules[ri])
        /\ graph' = graph /\ rules' = rules /\ status' = status /\ UNCHANGED vars
    <3>1. \A A, B : Search!(+)(A, B) = (A (+) B)
      BY DEF Search!(+), (+)
    <3> QED BY <1>6, <3>1 DEF RunRule, Search!RunRule
  <2>2. /\ pc = "done" /\ graph = RuleGraph /\ rules = BuiltinRules /\ ri \in 1..6
        /\ DOMAIN found = FoundBy(graph, ri - 1)
    BY <2>1 DEF ScanInv
  <2>3. Len(BuiltinRules) = 5
    BY DEF BuiltinRules
  <2>4. ri \in 1..5 /\ ri' \in 1..6 /\ ri' - 1 = ri
    BY <2>1, <2>2, <2>3
  <2>5. DOMAIN found' = DOMAIN found \cup DOMAIN Search!FindingBag(graph, BuiltinRules[ri])
    BY <2>1, <2>2 DEF (+)
  <2>6. ri - 1 \in Nat /\ (ri - 1) + 1 = ri
    BY <2>4
  <2>7. DOMAIN found' = FoundBy(graph, ri)
    BY <2>2, <2>5, <2>6, FoundByNext
  <2>8. DOMAIN found' = FoundBy(graph', ri' - 1)
    BY <2>1, <2>4, <2>7
  <2>9. pc' = "done" /\ graph' = RuleGraph' /\ rules' = BuiltinRules
    BY <1>3, <2>1, <2>2 DEF vars
  <2> QED BY <1>2, <2>1, <2>4, <2>8, <2>9 DEF ScanInv
<1>7. CASE Finish
  <2>1. /\ status = "running" /\ ri > Len(rules) /\ status' = "done" /\ graph' = graph
        /\ rules' = rules /\ ri' = ri /\ found' = found /\ UNCHANGED vars
    BY <1>7 DEF Finish, Search!Finish
  <2>2. Len(BuiltinRules) = 5
    BY DEF BuiltinRules
  <2>3. rules = BuiltinRules /\ ri \in 1..6
    BY <2>1 DEF ScanInv
  <2>5. ri = 6
    <3>1. ri > Len(BuiltinRules)
      BY <2>1, <2>3
    <3>2. ri > 5
      BY <2>2, <3>1
    <3> QED BY <2>3, <3>2
  <2>4. pc' = pc
    BY <2>1 DEF vars
  <2> QED BY <1>2, <1>3, <2>1, <2>3, <2>4, <2>5 DEF ScanInv
<1> QED BY <1>4, <1>5, <1>6, <1>7 DEF ScanNext, ClassifyStep, search_vars

(* What is reported at the end.                                            *)
LEMMA RuleIds ==
    \A i, j \in 1..5 : BuiltinRules[i].id = BuiltinRules[j].id => i = j
<1>1. /\ BuiltinRules[1] = EscalationRule /\ BuiltinRules[2] = OpenGroupRule /\ BuiltinRules[3] = PermissiveRule
      /\ BuiltinRules[4] = PublicStorageRule /\ BuiltinRules[5] = ComputeSecretRule
  BY DEF BuiltinRules
<1>2. /\ EscalationRule.id = "iam-role-self-privilege-escalation"
      /\ OpenGroupRule.id = "open-security-group-to-data-store"
      /\ PermissiveRule.id = "overly-permissive-role-sensitive-access"
      /\ PublicStorageRule.id = "public-storage-writable-by-untrusted-role"
      /\ ComputeSecretRule.id = "unauthenticated-compute-secret-access"
  BY DEF EscalationRule, OpenGroupRule, PermissiveRule, PublicStorageRule, ComputeSecretRule
<1>3. \A i \in 1..5 : i = 1 \/ i = 2 \/ i = 3 \/ i = 4 \/ i = 5
  OBVIOUS
<1> QED BY <1>1, <1>2, <1>3

LEMMA ReportedRows ==
    ASSUME ScanInv, status = "done", NEW j \in 1..5, NEW rule, rule = BuiltinRules[j],
           NEW k, k = Search!PairCount(rule.path), SingleHops(rule, k), NEW c
    PROVE  c \in Reported(rule) <=> IsRow(RuleGraph, rule.path, k, c)
<1>1. Joined(RuleGraph)
  BY RuleGraphIs DEF ScanInv, IInv
<1>2. DOMAIN found = FoundBy(RuleGraph, 5)
  BY DEF ScanInv
<1>3. ASSUME NEW i, NEW f
      PROVE  f \in DOMAIN Search!FindingBag(RuleGraph, BuiltinRules[i]) <=>
                \E w \in Search!Walks(RuleGraph, BuiltinRules[i], Search!PairCount(BuiltinRules[i].path)) :
                   f = [rule_id |-> BuiltinRules[i].id, node_ids |-> w.ids, edges |-> w.edges]
  BY DEF Search!FindingBag, Search!FindingOf
<1>4. ASSUME c \in Reported(rule) PROVE IsRow(RuleGraph, rule.path, k, c)
  <2>1. PICK f \in FoundBy(RuleGraph, 5) : f.rule_id = rule.id /\ c = f.node_ids
    BY <1>2, <1>4 DEF Reported
  <2>2. PICK i \in 1..5 : f \in DOMAIN Search!FindingBag(RuleGraph, BuiltinRules[i])
    BY DEF FoundBy
  <2>3. PICK w \in Search!Walks(RuleGraph, BuiltinRules[i], Search!PairCount(BuiltinRules[i].path)) :
           f = [rule_id |-> BuiltinRules[i].id, node_ids |-> w.ids, edges |-> w.edges]
    BY <1>3, <2>2
  <2>4. i = j /\ c = w.ids
    BY <2>1, <2>3, RuleIds
  <2> QED BY <1>1, <2>3, <2>4, WalkIsRow
<1>5. ASSUME IsRow(RuleGraph, rule.path, k, c) PROVE c \in Reported(rule)
  <2>1. PICK w \in Search!Walks(RuleGraph, rule, k) : w.ids = c
    BY <1>1, <1>5, RowIsWalk
  <2> DEFINE f == [rule_id |-> rule.id, node_ids |-> w.ids, edges |-> w.edges]
  <2>2. f \in DOMAIN Search!FindingBag(RuleGraph, BuiltinRules[j])
    BY <1>3
  <2>3. f \in FoundBy(RuleGraph, 5)
    <3> HIDE DEF f
    <3> QED BY <2>2 DEF FoundBy
  <2>4. f.rule_id = rule.id /\ f.node_ids = c
    BY <2>1
  <2> HIDE DEF f
  <2> QED BY <1>2, <2>3, <2>4 DEF Reported
<1> QED BY <1>4, <1>5

-----------------------------------------------------------------------------
(* Each of the built-in rules.                                             *)

LEMMA GrantWhenDone ==
    ASSUME Going, pc = "done", WrittenPlainly, NEW role \in 1..Len(nodes), NEW target \in 1..Len(nodes)
    PROVE  /\ Joins("IamGrants", {}, role, target) <=> MayDo(role, Action, target)
           /\ Joins("IamGrants", {"grants_write"}, role, target) <=> MayDo(role, Writing, target)
           /\ Joins("IamGrants", {"grants_wildcard"}, role, target) <=> MayDo(role, Everything, target)
           /\ Joins("IamGrants", {"grants_iam_escalation"}, role, target) <=> MayDo(role, Escalating, target)
<1>1. /\ Wanted("grants_write") = Writing /\ Wanted("grants_wildcard") = Everything
      /\ Wanted("grants_iam_escalation") = Escalating
  BY DEF Wanted
<1>2. {"grants_write", "grants_wildcard", "grants_iam_escalation"} \subseteq Clauses
  BY DEF Clauses
<1>3. /\ Joins("IamGrants", {}, role, target) <=> MayDo(role, Action, target)
      /\ \A clause \in Clauses :
            Joins("IamGrants", {clause}, role, target) <=> MayDo(role, Wanted(clause), target)
  BY GrantJoins
<1> QED BY <1>1, <1>2, <1>3

OnePair(k1, w1, ek, ew, k2, w2) == <<N(k1, w1), E(ek, ew), N(k2, w2)>>
TwoPairs(k1, w1, e1, v1, k2, w2, e2, v2, k3, w3) ==
    <<N(k1, w1), E(e1, v1), N(k2, w2), E(e2, v2), N(k3, w3)>>
ThreePairs(k1, w1, e1, v1, k2, w2, e2, v2, k3, w3, e3, v3, k4, w4) ==
    <<N(k1, w1), E(e1, v1), N(k2, w2), E(e2, v2), N(k3, w3), E(e3, v3), N(k4, w4)>>

Triples(k1, k2, k3) == Nodes(k1) \X Nodes(k2) \X Nodes(k3)
Quadruples(k1, k2, k3, k4) == Nodes(k1) \X Nodes(k2) \X Nodes(k3) \X Nodes(k4)

LEMMA OnePairRules ==
    ASSUME ScanInv, status = "done", NEW j \in 1..5, NEW rule, rule = BuiltinRules[j],
           NEW k1, NEW k2, k1 # "any", k2 # "any", NEW w1, NEW w2, NEW ek, NEW ew,
           rule.path = OnePair(k1, w1, ek, ew, k2, w2), rule.max_total_hops \in 1..3, NEW c
    PROVE  c \in Reported(rule) <=>
              /\ c \in Nodes(k1) \X Nodes(k2)
              /\ w1 \subseteq TrueIn(derived[c[1]]) /\ w2 \subseteq TrueIn(derived[c[2]])
              /\ Joins(ek, ew, c[1], c[2])
<1>0. rule.path = <<N(k1, w1), E(ek, ew), N(k2, w2)>>
  BY DEF OnePair
<1>1. Search!PairCount(rule.path) = 1 /\ Search!EdgeStepOf(rule.path, 1) = E(ek, ew)
  BY <1>0, PathOfOne
<1>2. E(ek, ew).min_hops = 1 /\ E(ek, ew).max_hops = 1
  BY DEF E
<1>3. SingleHops(rule, 1)
  <2>1. \A i \in 1..1 : i = 1
    OBVIOUS
  <2> QED BY <1>1, <1>2, <2>1 DEF SingleHops
<1>4. c \in Reported(rule) <=> IsRow(RuleGraph, rule.path, 1, c)
  BY <1>1, <1>3, ReportedRows
<1>5. TypeOK
  BY DEF ScanInv, IInv
<1> QED BY <1>0, <1>4, <1>5, RowOfOne

LEMMA TwoPairRules ==
    ASSUME ScanInv, status = "done", NEW j \in 1..5, NEW rule, rule = BuiltinRules[j],
           NEW k1, NEW k2, NEW k3, k1 # "any", k2 # "any", k3 # "any", NEW w1, NEW w2, NEW w3,
           NEW e1, NEW v1, NEW e2, NEW v2,
           rule.path = TwoPairs(k1, w1, e1, v1, k2, w2, e2, v2, k3, w3), rule.max_total_hops = 2, NEW c
    PROVE  c \in Reported(rule) <=>
              /\ c \in Triples(k1, k2, k3)
              /\ w1 \subseteq TrueIn(derived[c[1]])
              /\ w2 \subseteq TrueIn(derived[c[2]])
              /\ w3 \subseteq TrueIn(derived[c[3]])
              /\ Joins(e1, v1, c[1], c[2])
              /\ Joins(e2, v2, c[2], c[3])
<1>1. rule.path = <<N(k1, w1), E(e1, v1), N(k2, w2), E(e2, v2), N(k3, w3)>>
  BY DEF TwoPairs
<1>2. /\ Search!PairCount(rule.path) = 2 /\ Search!EdgeStepOf(rule.path, 1) = E(e1, v1)
      /\ Search!EdgeStepOf(rule.path, 2) = E(e2, v2)
  BY <1>1, PathOfTwo
<1>3. \A kind, where : E(kind, where).min_hops = 1 /\ E(kind, where).max_hops = 1
  BY DEF E
<1>4. SingleHops(rule, 2)
  <2>1. \A i \in 1..2 : i = 1 \/ i = 2
    OBVIOUS
  <2> QED BY <1>2, <1>3, <2>1 DEF SingleHops
<1>5. c \in Reported(rule) <=> IsRow(RuleGraph, rule.path, 2, c)
  BY <1>2, <1>4, ReportedRows
<1>6. TypeOK
  BY DEF ScanInv, IInv
<1> QED BY <1>1, <1>5, <1>6, RowOfTwo DEF Triples

LEMMA ThreePairRules ==
    ASSUME ScanInv, status = "done", NEW j \in 1..5, NEW rule, rule = BuiltinRules[j],
           NEW k1, NEW k2, NEW k3, NEW k4, k1 # "any", k2 # "any", k3 # "any", k4 # "any",
           NEW w1, NEW w2, NEW w3, NEW w4, NEW e1, NEW v1, NEW e2, NEW v2, NEW e3, NEW v3,
           rule.path = ThreePairs(k1, w1, e1, v1, k2, w2, e2, v2, k3, w3, e3, v3, k4, w4),
           rule.max_total_hops = 3, NEW c
    PROVE  c \in Reported(rule) <=>
              /\ c \in Quadruples(k1, k2, k3, k4)
              /\ w1 \subseteq TrueIn(derived[c[1]])
              /\ w2 \subseteq TrueIn(derived[c[2]])
              /\ w3 \subseteq TrueIn(derived[c[3]])
              /\ w4 \subseteq TrueIn(derived[c[4]])
              /\ Joins(e1, v1, c[1], c[2])
              /\ Joins(e2, v2, c[2], c[3])
              /\ Joins(e3, v3, c[3], c[4])
<1>1. rule.path = <<N(k1, w1), E(e1, v1), N(k2, w2), E(e2, v2), N(k3, w3), E(e3, v3), N(k4, w4)>>
  BY DEF ThreePairs
<1>2. /\ Search!PairCount(rule.path) = 3 /\ Search!EdgeStepOf(rule.path, 1) = E(e1, v1)
      /\ Search!EdgeStepOf(rule.path, 2) = E(e2, v2) /\ Search!EdgeStepOf(rule.path, 3) = E(e3, v3)
  BY <1>1, PathOfThree
<1>3. \A kind, where : E(kind, where).min_hops = 1 /\ E(kind, where).max_hops = 1
  BY DEF E
<1>4. SingleHops(rule, 3)
  <2>1. \A i \in 1..3 : i = 1 \/ i = 2 \/ i = 3
    OBVIOUS
  <2> QED BY <1>2, <1>3, <2>1 DEF SingleHops
<1>5. c \in Reported(rule) <=> IsRow(RuleGraph, rule.path, 3, c)
  BY <1>2, <1>4, ReportedRows
<1>6. TypeOK
  BY DEF ScanInv, IInv
<1> QED BY <1>1, <1>5, <1>6, RowOfThree DEF Quadruples

LEMMA EscalationReported ==
    ASSUME ScanInv, status = "done", WrittenPlainly, TrustsPlainly, NEW c
    PROVE  c \in Reported(EscalationRule) <=>
              /\ c \in Nodes("IamRole") \X Nodes("IamRole")
              /\ Trusting(c[1]) /\ MayDo(c[1], Escalating, c[2]) /\ Trusting(c[2])
<1>1. Going /\ pc = "done"
  BY ScanGoes
<1>2. EscalationRule = BuiltinRules[1]
  BY DEF BuiltinRules
<1>3. /\ EscalationRule.path = OnePair("IamRole", {"wildcard_trust"}, "IamGrants", {"grants_iam_escalation"}, "IamRole", {"wildcard_trust"})
      /\ EscalationRule.max_total_hops \in 1..3
  BY DEF EscalationRule, OnePair
<1>4. c \in Reported(EscalationRule) <=>
         /\ c \in Nodes("IamRole") \X Nodes("IamRole")
         /\ {"wildcard_trust"} \subseteq TrueIn(derived[c[1]]) /\ {"wildcard_trust"} \subseteq TrueIn(derived[c[2]])
         /\ Joins("IamGrants", {"grants_iam_escalation"}, c[1], c[2])
  <2> DEFINE rule == EscalationRule
             k == "IamRole"
             w == {"wildcard_trust"}
             v == {"grants_iam_escalation"}
             g == "IamGrants"
  <2>1. 1 \in 1..5 /\ rule = BuiltinRules[1] /\ k # "any"
    BY <1>2
  <2>2. rule.path = OnePair(k, w, g, v, k, w) /\ rule.max_total_hops \in 1..3
    BY <1>3
  <2> HIDE DEF rule, k, w, v, g
  <2>3. c \in Reported(rule) <=>
           /\ c \in Nodes(k) \X Nodes(k)
           /\ w \subseteq TrueIn(derived[c[1]]) /\ w \subseteq TrueIn(derived[c[2]])
           /\ Joins(g, v, c[1], c[2])
    BY <2>1, <2>2, OnePairRules
  <2> QED BY <2>3 DEF rule, k, w, v, g
<1>5. ASSUME c \in Nodes("IamRole") \X Nodes("IamRole")
      PROVE  /\ {"wildcard_trust"} \subseteq TrueIn(derived[c[1]]) <=> Trusting(c[1])
             /\ {"wildcard_trust"} \subseteq TrueIn(derived[c[2]]) <=> Trusting(c[2])
             /\ Joins("IamGrants", {"grants_iam_escalation"}, c[1], c[2]) <=> MayDo(c[1], Escalating, c[2])
  <2>1. c[1] \in Nodes("IamRole") /\ c[2] \in Nodes("IamRole")
    BY <1>5
  <2>2. c[1] \in 1..Len(nodes) /\ c[2] \in 1..Len(nodes)
    BY <2>1 DEF Nodes
  <2> QED BY <1>1, <2>1, <2>2, TrustingIs, GrantWhenDone
<1> QED BY <1>4, <1>5

LEMMA PermissiveReported ==
    ASSUME ScanInv, status = "done", WrittenPlainly, NEW c
    PROVE  c \in Reported(PermissiveRule) <=>
              /\ c \in Nodes("IamRole") \X Nodes("S3Bucket")
              /\ MayDo(c[1], Everything, c[2]) /\ Sensitive(c[2])
<1>1. Going /\ pc = "done"
  BY ScanGoes
<1>2. PermissiveRule = BuiltinRules[3]
  BY DEF BuiltinRules
<1>3. /\ PermissiveRule.path = OnePair("IamRole", {}, "IamGrants", {"grants_wildcard"}, "S3Bucket", {"sensitive"})
      /\ PermissiveRule.max_total_hops \in 1..3
  BY DEF PermissiveRule, OnePair
<1>4. c \in Reported(PermissiveRule) <=>
         /\ c \in Nodes("IamRole") \X Nodes("S3Bucket")
         /\ {} \subseteq TrueIn(derived[c[1]]) /\ {"sensitive"} \subseteq TrueIn(derived[c[2]])
         /\ Joins("IamGrants", {"grants_wildcard"}, c[1], c[2])
  BY <1>2, <1>3, OnePairRules
<1>5. ASSUME c \in Nodes("IamRole") \X Nodes("S3Bucket")
      PROVE  /\ {"sensitive"} \subseteq TrueIn(derived[c[2]]) <=> Sensitive(c[2])
             /\ Joins("IamGrants", {"grants_wildcard"}, c[1], c[2]) <=> MayDo(c[1], Everything, c[2])
  <2>1. c[1] \in Nodes("IamRole") /\ c[2] \in Nodes("S3Bucket")
    BY <1>5
  <2>2. c[1] \in 1..Len(nodes) /\ c[2] \in 1..Len(nodes)
    BY <2>1 DEF Nodes
  <2> QED BY <1>1, <2>1, <2>2, BucketIsAs, GrantWhenDone
<1> QED BY <1>4, <1>5

LEMMA PublicStorageReported ==
    ASSUME ScanInv, status = "done", WrittenPlainly, TrustsPlainly, NEW c
    PROVE  c \in Reported(PublicStorageRule) <=>
              /\ c \in Nodes("IamRole") \X Nodes("S3Bucket")
              /\ Trusting(c[1]) /\ MayDo(c[1], Writing, c[2]) /\ Public(c[2])
<1>1. Going /\ pc = "done"
  BY ScanGoes
<1>2. PublicStorageRule = BuiltinRules[4]
  BY DEF BuiltinRules
<1>3. /\ PublicStorageRule.path = OnePair("IamRole", {"wildcard_trust"}, "IamGrants", {"grants_write"}, "S3Bucket", {"public"})
      /\ PublicStorageRule.max_total_hops \in 1..3
  BY DEF PublicStorageRule, OnePair
<1>4. c \in Reported(PublicStorageRule) <=>
         /\ c \in Nodes("IamRole") \X Nodes("S3Bucket")
         /\ {"wildcard_trust"} \subseteq TrueIn(derived[c[1]]) /\ {"public"} \subseteq TrueIn(derived[c[2]])
         /\ Joins("IamGrants", {"grants_write"}, c[1], c[2])
  BY <1>2, <1>3, OnePairRules
<1>5. ASSUME c \in Nodes("IamRole") \X Nodes("S3Bucket")
      PROVE  /\ {"wildcard_trust"} \subseteq TrueIn(derived[c[1]]) <=> Trusting(c[1])
             /\ {"public"} \subseteq TrueIn(derived[c[2]]) <=> Public(c[2])
             /\ Joins("IamGrants", {"grants_write"}, c[1], c[2]) <=> MayDo(c[1], Writing, c[2])
  <2>1. c[1] \in Nodes("IamRole") /\ c[2] \in Nodes("S3Bucket")
    BY <1>5
  <2>2. c[1] \in 1..Len(nodes) /\ c[2] \in 1..Len(nodes)
    BY <2>1 DEF Nodes
  <2> QED BY <1>1, <2>1, <2>2, TrustingIs, BucketIsAs, GrantWhenDone
<1> QED BY <1>4, <1>5

LEMMA GroupReported ==
    ASSUME ScanInv, status = "done", WrittenPlainly, NEW c
    PROVE  c \in Reported(OpenGroupRule) <=>
              /\ c \in Nodes("SecurityGroup") \X Nodes("Instance") \X Nodes("IamRole") \X Nodes("S3Bucket")
              /\ IsOpen(c[1]) /\ Uses(c[2], c[1]) # {}
              /\ \E p \in Nodes("IamInstanceProfile") :
                    Refers(c[2], p, "iam_instance_profile") /\ Refers(p, c[3], "role")
              /\ MayDo(c[3], Action, c[4]) /\ Sensitive(c[4])
<1> DEFINE C == Quadruples("SecurityGroup", "Instance", "IamRole", "S3Bucket")
<1>1. Going /\ pc = "done" /\ TypeOK /\ NamesOne("role") /\ NamesOne("iam_instance_profile")
  BY ScanGoes DEF Going, WrittenPlainly
<1>2. BuiltinRules[2] = OpenGroupRule
  BY DEF BuiltinRules
<1>3. /\ OpenGroupRule.path = ThreePairs("SecurityGroup", {"open_ingress"}, "NetworkReachable", {}, "Instance", {},
                                         "Attached", {}, "IamRole", {}, "IamGrants", {}, "S3Bucket", {"sensitive"})
      /\ OpenGroupRule.max_total_hops = 3
  BY DEF OpenGroupRule, ThreePairs
<1>4. c \in Reported(OpenGroupRule) <=>
         /\ c \in C
         /\ {"open_ingress"} \subseteq TrueIn(derived[c[1]])
         /\ {} \subseteq TrueIn(derived[c[2]])
         /\ {} \subseteq TrueIn(derived[c[3]])
         /\ {"sensitive"} \subseteq TrueIn(derived[c[4]])
         /\ Joins("NetworkReachable", {}, c[1], c[2])
         /\ Joins("Attached", {}, c[2], c[3])
         /\ Joins("IamGrants", {}, c[3], c[4])
  BY <1>2, <1>3, ThreePairRules
<1>5. c \in C => /\ c[1] \in Nodes("SecurityGroup") /\ c[2] \in Nodes("Instance")
                 /\ c[3] \in Nodes("IamRole") /\ c[4] \in Nodes("S3Bucket")
  BY DEF Quadruples
<1> HIDE DEF C
<1>6. ASSUME c \in C
      PROVE  /\ {"open_ingress"} \subseteq TrueIn(derived[c[1]]) <=> IsOpen(c[1])
             /\ {"sensitive"} \subseteq TrueIn(derived[c[4]]) <=> Sensitive(c[4])
             /\ Joins("NetworkReachable", {}, c[1], c[2]) <=>
                   {"open_ingress"} \subseteq TrueIn(derived[c[1]]) /\ Uses(c[2], c[1]) # {}
             /\ Joins("Attached", {}, c[2], c[3]) <=>
                   \E p \in Nodes("IamInstanceProfile") :
                      Refers(c[2], p, "iam_instance_profile") /\ Refers(p, c[3], "role")
             /\ Joins("IamGrants", {}, c[3], c[4]) <=> MayDo(c[3], Action, c[4])
  <2>1. /\ c[1] \in Nodes("SecurityGroup") /\ c[2] \in Nodes("Instance")
        /\ c[3] \in Nodes("IamRole") /\ c[4] \in Nodes("S3Bucket")
    BY <1>5, <1>6
  <2>2. c[3] \in 1..Len(nodes) /\ c[4] \in 1..Len(nodes)
    BY <2>1 DEF Nodes
  <2>3. {"open_ingress"} \subseteq TrueIn(derived[c[1]]) <=> IsOpen(c[1])
    BY <1>1, <2>1, OpenIs
  <2>4. {"sensitive"} \subseteq TrueIn(derived[c[4]]) <=> Sensitive(c[4])
    BY <1>1, <2>1, BucketIsAs
  <2>5. Joins("NetworkReachable", {}, c[1], c[2]) <=>
           {"open_ingress"} \subseteq TrueIn(derived[c[1]]) /\ Uses(c[2], c[1]) # {}
    BY <1>1, <2>1, NetworkJoins
  <2>6. Joins("Attached", {}, c[2], c[3]) <=>
           \E p \in Nodes("IamInstanceProfile") :
              Refers(c[2], p, "iam_instance_profile") /\ Refers(p, c[3], "role")
    BY <1>1, <2>1, <2>2, AttachedJoins
  <2>7. Joins("IamGrants", {}, c[3], c[4]) <=> MayDo(c[3], Action, c[4])
    BY <1>1, <2>2, GrantWhenDone
  <2> QED BY <2>3, <2>4, <2>5, <2>6, <2>7
<1> QED BY <1>4, <1>6 DEF C, Quadruples

LEMMA SecretReported ==
    ASSUME ScanInv, status = "done", WrittenPlainly, NEW c
    PROVE  c \in Reported(ComputeSecretRule) <=>
              /\ c \in Nodes("LambdaFunction") \X Nodes("IamRole") \X Nodes("SecretsManagerSecret")
              /\ \E p \in Nodes("LambdaPermission") :
                    /\ Refers(p, c[1], "function_name")
                    /\ nodes[p].attrs.principal = "*" /\ ~nodes[p].attrs.source_arn
              /\ Refers(c[1], c[2], "role") /\ MayDo(c[2], Action, c[3])
<1> DEFINE C == Triples("LambdaFunction", "IamRole", "SecretsManagerSecret")
<1>1. Going /\ pc = "done" /\ TypeOK /\ NamesOne("function_name")
  BY ScanGoes DEF Going, WrittenPlainly
<1>2. BuiltinRules[5] = ComputeSecretRule
  BY DEF BuiltinRules
<1>3. /\ ComputeSecretRule.path = TwoPairs("LambdaFunction", {"publicly_invokable"}, "References", {"attr_path_is_role"},
                                           "IamRole", {}, "IamGrants", {}, "SecretsManagerSecret", {})
      /\ ComputeSecretRule.max_total_hops = 2
  BY DEF ComputeSecretRule, TwoPairs
<1>4. c \in Reported(ComputeSecretRule) <=>
         /\ c \in C
         /\ {"publicly_invokable"} \subseteq TrueIn(derived[c[1]])
         /\ {} \subseteq TrueIn(derived[c[2]])
         /\ {} \subseteq TrueIn(derived[c[3]])
         /\ Joins("References", {"attr_path_is_role"}, c[1], c[2])
         /\ Joins("IamGrants", {}, c[2], c[3])
  BY <1>2, <1>3, TwoPairRules
<1>5. c \in C => /\ c[1] \in Nodes("LambdaFunction") /\ c[2] \in Nodes("IamRole")
                 /\ c[3] \in Nodes("SecretsManagerSecret")
  BY DEF Triples
<1> HIDE DEF C
<1>6. ASSUME c \in C
      PROVE  /\ {"publicly_invokable"} \subseteq TrueIn(derived[c[1]]) <=>
                   \E p \in Nodes("LambdaPermission") :
                      /\ Refers(p, c[1], "function_name")
                      /\ nodes[p].attrs.principal = "*" /\ ~nodes[p].attrs.source_arn
             /\ Joins("References", {"attr_path_is_role"}, c[1], c[2]) <=> Refers(c[1], c[2], "role")
             /\ Joins("IamGrants", {}, c[2], c[3]) <=> MayDo(c[2], Action, c[3])
  <2>1. /\ c[1] \in Nodes("LambdaFunction") /\ c[2] \in Nodes("IamRole")
        /\ c[3] \in Nodes("SecretsManagerSecret")
    BY <1>5, <1>6
  <2>2. c[2] \in 1..Len(nodes) /\ c[3] \in 1..Len(nodes)
    BY <2>1 DEF Nodes
  <2>3. {"publicly_invokable"} \subseteq TrueIn(derived[c[1]]) <=>
           \E p \in Nodes("LambdaPermission") :
              /\ Refers(p, c[1], "function_name")
              /\ nodes[p].attrs.principal = "*" /\ ~nodes[p].attrs.source_arn
    BY <1>1, <2>1, InvokableIs
  <2>4. Joins("References", {"attr_path_is_role"}, c[1], c[2]) <=> Refers(c[1], c[2], "role")
    BY ReferenceJoins
  <2>5. Joins("IamGrants", {}, c[2], c[3]) <=> MayDo(c[2], Action, c[3])
    BY <1>1, <2>2, GrantWhenDone
  <2> QED BY <2>3, <2>4, <2>5
<1> QED BY <1>4, <1>6 DEF C, Triples

-----------------------------------------------------------------------------
(* The theorems about a scan.                                              *)

(* A scan classifies the whole graph before the first rule runs, nothing   *)
(* changes the graph after that, and what has been found is what the rules *)
(* that have run find in it (run_scan of policylens-cli/src/main.rs).      *)
THEOREM ScanInvariance == ScanSpec => []ScanInv
BY ScanInvInit, ScanInvStep, PTL DEF ScanSpec

(* The rules open-security-group-to-data-store and                         *)
(* unauthenticated-compute-secret-access, whose chains run over edges      *)
(* three passes of classify.rs derive, report exactly the groups,          *)
(* instances, roles and buckets, and the functions, roles and secrets,     *)
(* between which the files say it.                                         *)
THEOREM ScanChains == ScanSpec => []LongChainsAsWritten
<1>1. ScanInv => DataBehindOpenGroups
  <2> SUFFICES ASSUME ScanInv, status = "done", WrittenPlainly
               PROVE  DataBehindOpenGroups
    BY DEF DataBehindOpenGroups
  <2> QED BY GroupReported DEF DataBehindOpenGroups
<1>2. ScanInv => SecretsBehindFunctions
  <2> SUFFICES ASSUME ScanInv, status = "done", WrittenPlainly
               PROVE  SecretsBehindFunctions
    BY DEF SecretsBehindFunctions
  <2> QED BY SecretReported DEF SecretsBehindFunctions
<1> QED BY <1>1, <1>2, ScanInvariance, PTL DEF LongChainsAsWritten

(* Of the rules of one grant, overly-permissive-role-sensitive-access and  *)
(* public-storage-writable-by-untrusted-role report exactly the pairs      *)
(* whose own conditions hold and between which a policy allows what the    *)
(* rule is about, and iam-role-self-privilege-escalation reports, as a     *)
(* chain from a role to itself, exactly the roles its text describes.      *)
THEOREM ScanGrants == ScanSpec => []SingleGrants
<1>1. ScanInv => SingleGrants
  <2> SUFFICES ASSUME ScanInv, status = "done", WrittenPlainly, TrustsPlainly
               PROVE  SingleGrants
    BY DEF SingleGrants
  <2>1. ASSUME NEW r \in 1..Len(nodes)
        PROVE  <<r, r>> \in Reported(EscalationRule) <=>
                   r \in Nodes("IamRole") /\ Trusting(r) /\ MayDo(r, Escalating, r)
    <3> DEFINE c == <<r, r>>
    <3>1. c[1] = r /\ c[2] = r /\ (c \in Nodes("IamRole") \X Nodes("IamRole") <=> r \in Nodes("IamRole"))
      OBVIOUS
    <3> HIDE DEF c
    <3>2. c \in Reported(EscalationRule) <=>
             /\ c \in Nodes("IamRole") \X Nodes("IamRole")
             /\ Trusting(c[1]) /\ MayDo(c[1], Escalating, c[2]) /\ Trusting(c[2])
      BY EscalationReported
    <3> QED BY <3>1, <3>2 DEF c
  <2>2. Reported(PermissiveRule) =
           {c \in Nodes("IamRole") \X Nodes("S3Bucket") :
               MayDo(c[1], Everything, c[2]) /\ Sensitive(c[2])}
    BY PermissiveReported
  <2>3. Reported(PublicStorageRule) =
           {c \in Nodes("IamRole") \X Nodes("S3Bucket") :
               Trusting(c[1]) /\ MayDo(c[1], Writing, c[2]) /\ Public(c[2])}
    BY PublicStorageReported
  <2> QED BY <2>1, <2>2, <2>3 DEF SingleGrants
<1> QED BY <1>1, ScanInvariance, PTL

=============================================================================
