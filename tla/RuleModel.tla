----------------------------- MODULE RuleModel -----------------------------
(***************************************************************************)
(* The data every stage of PolicyLens works on, reduced to what its        *)
(* control flow can tell apart: the resource graph built from a Terraform  *)
(* directory, the rules read from the YAML rule files, and the two tests   *)
(* by which a step of a rule accepts a node or an edge of the graph.       *)
(*                                                                         *)
(* A `where:` predicate of the DSL is a conjunction of clauses without     *)
(* negation of the whole (predicate.rs), evaluated on the JSON attributes  *)
(* of one node or one edge.  A clause is a member of Clause here, and a    *)
(* node or edge carries the set `holds` of the clauses that are true of    *)
(* its attributes.  A clause text the predicate parser rejects is the      *)
(* value Malformed.  An absent `where:` is the empty set.                  *)
(***************************************************************************)
EXTENDS Integers, Sequences

CONSTANTS
    ResourceKind,   \* Terraform resource kinds
    EdgeKind,       \* kinds of edges between resources
    Clause,         \* clauses of where-predicates
    RuleId,         \* values of a rule's `id:` field
    AnyKind,        \* a node step without `kind:`
    Malformed       \* a clause that predicate::parse rejects

ASSUME KindAssumption ==
    /\ AnyKind \notin ResourceKind
    /\ Malformed \notin Clause

-----------------------------------------------------------------------------
(* The graph.  Nodes and edges are numbered in the order they were added,  *)
(* as petgraph numbers them.                                               *)

NodeWeight == [kind : ResourceKind, holds : SUBSET Clause]
EdgeWeight == [src : Nat, dst : Nat, kind : EdgeKind, holds : SUBSET Clause]

IsGraph(g) ==
    /\ g \in [nodes : Seq(NodeWeight), edges : Seq(EdgeWeight)]
    /\ \A e \in 1..Len(g.edges) :
          /\ g.edges[e].src \in 1..Len(g.nodes)
          /\ g.edges[e].dst \in 1..Len(g.nodes)

-----------------------------------------------------------------------------
(* The rules.  `tag` tells the two variants of the enum PathStep apart.    *)

Where == SUBSET (Clause \cup {Malformed})

NodeStep == [tag : {"node"}, kind : ResourceKind \cup {AnyKind}, where : Where]
EdgeStep == [tag : {"edge"}, kind : EdgeKind, where : Where,
             min_hops : Nat, max_hops : Nat]
PathStep == NodeStep \cup EdgeStep

Severity == {"low", "medium", "high", "critical"}

Rule == [id : RuleId, severity_base : Severity, max_total_hops : Nat,
         path : Seq(PathStep)]

(* The number of (edge step, node step) pairs after the first node step,   *)
(* and the two members of the k-th pair.                                   *)
PairCount(path) == (Len(path) - 1) \div 2
EdgeStepOf(path, k) == path[2 * k]
NodeStepOf(path, k) == path[2 * k + 1]

(* The shape the matcher relies on: node, edge, node, ..., node.           *)
Alternates(path) ==
    /\ Len(path) = 2 * PairCount(path) + 1
    /\ \A k \in 0..PairCount(path) : NodeStepOf(path, k) \in NodeStep
    /\ \A k \in 1..PairCount(path) : EdgeStepOf(path, k) \in EdgeStep

Parses(where) == Malformed \notin where

-----------------------------------------------------------------------------
(* When a step accepts a node or an edge.                                  *)

NodeMatches(node, step) ==
    /\ step.kind \in {AnyKind, node.kind}
    /\ step.where \subseteq node.holds

EdgeMatches(edge, step) ==
    /\ edge.kind = step.kind
    /\ step.where \subseteq edge.holds

=============================================================================
