------------------------------ MODULE Classify ------------------------------
(***************************************************************************)
(* The classification pass, policylens-rules/src/classify.rs: facts about  *)
(* single resources (the `_derived` attributes) and semantic edges on top  *)
(* of the References edges build_graph found.  Four passes over the nodes  *)
(* derive facts, three compute edges, and only then are the edges added to *)
(* the graph.  An action is one iteration of a pass.                       *)
(*                                                                         *)
(* Attributes are reduced to what the passes ask of them.  The path of a   *)
(* reference (its attr_path) keeps the top attribute, the number of the    *)
(* Statement[..] it is in, counted from 1 and 0 where there is none, and   *)
(* what it ends with: "Resource" for `Resource = a.arn`, "Resource[]" for  *)
(* an element of a list, `Resource = [a.arn]`.                             *)
(***************************************************************************)
EXTENDS Integers, Sequences, FiniteSets, SequencesExt, FiniteSetsExt

CONSTANTS
    Graphs,         \* the graphs to classify, as build_graph leaves them
    Service,        \* services actions belong to, "iam" among them
    WriteName,      \* action names that contain one of WRITE_ACTION_MARKERS
    EscalationName, \* names of IAM_ESCALATION_ACTIONS
    ReadName        \* other action names

Kind == {"S3Bucket", "S3BucketPublicAccessBlock", "S3BucketAcl", "IamRole", "IamPolicy",
         "IamRolePolicy", "IamRolePolicyAttachment", "IamInstanceProfile", "LambdaFunction",
         "LambdaPermission", "SecurityGroup", "Instance", "SecretsManagerSecret", "Other"}

(* The actions "*", "service:*" and "service:Name".                        *)
AnyAction == [service |-> "*", name |-> "*"]
Action == {AnyAction} \cup
          [service : Service, name : {"*"} \cup WriteName \cup EscalationName \cup ReadName]

(* A Principal is a string (key "") or a map with values under keys.       *)
Principal == [key : {"", "AWS", "Service", "Federated"}, value : {"*", "scoped"}]

(* `actions` is normalize_string_or_array of the Action field.             *)
Statement == [effect : {"Allow", "Deny"}, principals : SUBSET Principal, actions : Seq(Action)]

Protection == {"block_public_acls", "block_public_policy", "ignore_public_acls",
               "restrict_public_buckets"}
OpenCidr == {"0.0.0.0/0", "::/0"}
PublicAcl == {"public-read", "public-read-write"}

Attrs == [tags : SUBSET [key : {"sensitive", "other"}, truthy : BOOLEAN],
          turned_off : SUBSET Protection,
          acl : PublicAcl \cup {"private", "absent"},
          assume_role_policy : Seq(Statement),
          policy : Seq(Statement),
          ingress : Seq([cidrs : SUBSET (OpenCidr \cup {"10.0.0.0/8"}), port : Nat]),
          principal : {"*", "scoped", "absent"},
          source_arn : BOOLEAN,
          derived_taken : BOOLEAN]    \* an attribute `_derived` that is not an object

Node == [kind : Kind, attrs : Attrs]

AttrPath == [attr : {"bucket", "role", "policy_arn", "policy", "function_name",
                     "iam_instance_profile", "vpc_security_group_ids", "security_groups",
                     "ingress", "environment"},
             stmt : Nat,
             rest : {"", "[]", "Resource", "Resource[]", "NotResource", "Condition"}]

(* `holder` is the resource the evidence of an edge names; actions and     *)
(* from_port are fields of the edge kinds IamGrants and NetworkReachable.  *)
Edge == [kind : {"References", "IamGrants", "NetworkReachable", "Attached"},
         src : Nat, dst : Nat, holder : Nat, path : AttrPath,
         actions : Seq(Action), from_port : Nat]

IsBuiltGraph(g) ==
    /\ g.nodes \in Seq(Node) /\ g.edges \in Seq(Edge)
    /\ \A e \in 1..Len(g.edges) :
          /\ g.edges[e].kind = "References"
          /\ {g.edges[e].src, g.edges[e].dst} \subseteq 1..Len(g.nodes)
          /\ g.edges[e].src # g.edges[e].dst /\ g.edges[e].holder = g.edges[e].src

ASSUME NameAssumption ==
    /\ "iam" \in Service /\ "*" \notin Service \cup WriteName \cup EscalationName \cup ReadName
    /\ ReadName \cap (WriteName \cup EscalationName) = {}
ASSUME GraphsAssumption == \A g \in Graphs : IsBuiltGraph(g)

VARIABLES
    nodes, edges,   \* the graph
    derived,        \* per node: its facts, a function from their names
    pc,             \* the pass, or "done", or "panicked"
    at,             \* the node (or, in "add", the pending edge) a pass is at
    pending         \* the edges computed so far

vars == <<nodes, edges, derived, pc, at, pending>>

Init ==
    \E g \in Graphs :
        /\ nodes = g.nodes /\ edges = g.edges
        /\ derived = [n \in 1..Len(g.nodes) |-> <<>>]
        /\ pc = "buckets" /\ at = 1 /\ pending = <<>>

NextPass == [buckets |-> "roles", roles |-> "groups", groups |-> "lambdas", lambdas |-> "grants",
             grants |-> "network", network |-> "attached", attached |-> "add"]

PassDone ==
    /\ pc \in DOMAIN NextPass /\ at > Len(nodes)
    /\ pc' = NextPass[pc] /\ at' = 1
    /\ UNCHANGED <<nodes, edges, derived, pending>>

-----------------------------------------------------------------------------
(* References.  edges_directed iterates the edges of a node, the last      *)
(* added first.                                                            *)

InOrder(S) == [k \in 1..Cardinality(S) |-> CHOOSE x \in S : Cardinality({y \in S : y <= x}) = k]
LastFirst(S) == Reverse(InOrder(S))

OutRefs(n) == {e \in 1..Len(edges) : edges[e].src = n /\ edges[e].kind = "References"}

NoNode == 0
IsAttr(path, attr) == path = [attr |-> attr, stmt |-> 0, rest |-> ""]

referenced_node(n, attr) ==
    LET refs == {e \in OutRefs(n) : IsAttr(edges[e].path, attr)}
    IN  IF refs = {} THEN NoNode ELSE edges[Max(refs)].dst

-----------------------------------------------------------------------------
(* Facts.                                                                  *)

(* `_derived` is inserted into the attributes of a resource, unless they   *)
(* have an attribute of that name which cannot hold the facts.             *)
set_derived(n, facts) == ~nodes[n].attrs.derived_taken /\ derived' = [derived EXCEPT ![n] = facts]

DeriveFacts(pass, kind, FactsOf(_)) ==
    /\ pc = pass /\ at <= Len(nodes)
    /\ IF nodes[at].kind = kind THEN set_derived(at, FactsOf(at)) ELSE UNCHANGED derived
    /\ at' = at + 1
    /\ UNCHANGED <<nodes, edges, pc, pending>>

KindOfPass == [buckets |-> "S3Bucket", roles |-> "IamRole", groups |-> "SecurityGroup",
               lambdas |-> "LambdaFunction"]

(* The unwrap of set_derived, which ends the program.                      *)
Panic ==
    /\ pc \in DOMAIN KindOfPass /\ at <= Len(nodes)
    /\ nodes[at].kind = KindOfPass[pc] /\ nodes[at].attrs.derived_taken
    /\ pc' = "panicked"
    /\ UNCHANGED <<nodes, edges, derived, at, pending>>

is_tagged_sensitive(a) == \E t \in a.tags : t.key = "sensitive" /\ t.truthy

Exposes(n) ==
    \/ nodes[n].kind = "S3BucketPublicAccessBlock" /\ nodes[n].attrs.turned_off # {}
    \/ nodes[n].kind = "S3BucketAcl" /\ nodes[n].attrs.acl \in PublicAcl

Incoming(n) == {e \in 1..Len(edges) : edges[e].dst = n}

(* Only the resource that refers to the bucket last.                       *)
IsPublicByLast(n) == Incoming(n) # {} /\ Exposes(edges[Max(Incoming(n))].src)
IsPublic(n) == \E e \in Incoming(n) : Exposes(edges[e].src)

BucketFacts(n) == [sensitive |-> is_tagged_sensitive(nodes[n].attrs), public |-> IsPublic(n)]

statement_has_wildcard_principal(s) ==
    s.effect = "Allow" /\ \E p \in s.principals : p.value = "*"

RoleFacts(n) ==
    [wildcard_trust |-> \E s \in ToSet(nodes[n].attrs.assume_role_policy) :
                            statement_has_wildcard_principal(s)]

GroupFacts(n) ==
    [open_ingress |-> \E r \in ToSet(nodes[n].attrs.ingress) : r.cidrs \cap OpenCidr # {}]

InvokableByAnyone(permission, lambda) ==
    /\ nodes[permission].kind = "LambdaPermission"
    /\ referenced_node(permission, "function_name") = lambda
    /\ nodes[permission].attrs.principal = "*"
    /\ ~nodes[permission].attrs.source_arn

LambdaFacts(n) ==
    [publicly_invokable |-> \E p \in 1..Len(nodes) : InvokableByAnyone(p, n)]

DeriveBucket == DeriveFacts("buckets", "S3Bucket", BucketFacts)
DeriveRoleTrust == DeriveFacts("roles", "IamRole", RoleFacts)
DeriveSecurityGroup == DeriveFacts("groups", "SecurityGroup", GroupFacts)
DeriveLambda == DeriveFacts("lambdas", "LambdaFunction", LambdaFacts)

-----------------------------------------------------------------------------
(* IamGrants edges.                                                        *)

NoIndexedEvidence(holder) == \A e \in OutRefs(holder) : edges[e].path.stmt = 0

NamesResource(path) == path.rest \in {"Resource", "Resource[]", "NotResource"}

TargetsAnywhere(holder, i) == {e \in OutRefs(holder) : NamesResource(edges[e].path)}

(* The references of the i-th statement's Resource, or if no reference of  *)
(* the policy is known to be in any statement, of any Resource.            *)
Precise(holder, i) ==
    {e \in OutRefs(holder) : edges[e].path.stmt = i /\ edges[e].path.rest = "Resource"}
Targets(holder, i) ==
    IF Precise(holder, i) # {} THEN Precise(holder, i)
    ELSE IF NoIndexedEvidence(holder) THEN TargetsAnywhere(holder, i)
    ELSE {}

GrantsAnyEffect(statement) == statement.actions # <<>>
Grants(statement) == statement.effect = "Allow" /\ statement.actions # <<>>

GrantEdge(holder, i, role, target) ==
    [kind |-> "IamGrants", src |-> role, dst |-> target, holder |-> holder,
     path |-> [attr |-> "policy", stmt |-> i, rest |-> ""],
     actions |-> nodes[holder].attrs.policy[i].actions, from_port |-> 0]

grants_of_statement(holder, i, role) ==
    LET targets == LastFirst(Targets(holder, i))
    IN  IF Grants(nodes[holder].attrs.policy[i])
        THEN [t \in 1..Len(targets) |-> GrantEdge(holder, i, role, edges[targets[t]].dst)]
        ELSE <<>>

grants_from_policy_holder(holder, role) ==
    FlattenSeq([i \in 1..Len(nodes[holder].attrs.policy) |-> grants_of_statement(holder, i, role)])

HoldsAny(attachment, policy) ==
    /\ nodes[attachment].kind = "IamRolePolicyAttachment"
    /\ referenced_node(attachment, "policy_arn") = policy
Holds(attachment, policy) ==
    /\ nodes[attachment].kind = "IamRolePolicyAttachment"
    /\ referenced_node(attachment, "policy_arn") = policy
    /\ referenced_node(attachment, "role") # NoNode

Attachments(policy) == {n \in 1..Len(nodes) : Holds(n, policy)}

GrantEdges(n) ==
    LET attached == InOrder(Attachments(n))
    IN  CASE nodes[n].kind = "IamRolePolicy" /\ referenced_node(n, "role") # NoNode ->
                grants_from_policy_holder(n, referenced_node(n, "role"))
          [] nodes[n].kind = "IamPolicy" ->
                FlattenSeq([a \in 1..Len(attached) |->
                    grants_from_policy_holder(n, referenced_node(attached[a], "role"))])
          [] OTHER -> <<>>

-----------------------------------------------------------------------------
(* NetworkReachable and Attached edges.                                    *)

EveryRule(group) == 1..Len(nodes[group].attrs.ingress)
ingress_rules_with_open_cidr(group) ==
    {r \in 1..Len(nodes[group].attrs.ingress) :
        nodes[group].attrs.ingress[r].cidrs \cap OpenCidr # {}}

GroupsOf(instance, attr) ==
    LastFirst({e \in OutRefs(instance) : /\ edges[e].path.attr = attr
                                         /\ nodes[edges[e].dst].kind = "SecurityGroup"})

ReachEdge(group, instance, port) ==
    [kind |-> "NetworkReachable", src |-> group, dst |-> instance, holder |-> group,
     path |-> [attr |-> "ingress", stmt |-> 0, rest |-> ""],
     actions |-> <<>>, from_port |-> port]

Through(group, instance) ==
    LET open == InOrder(ingress_rules_with_open_cidr(group))
    IN  [k \in 1..Len(open) |->
            ReachEdge(group, instance, nodes[group].attrs.ingress[open[k]].port)]

NetworkEdges(n) ==
    LET uses == GroupsOf(n, "vpc_security_group_ids") \o GroupsOf(n, "security_groups")
    IN  IF nodes[n].kind = "Instance"
        THEN FlattenSeq([u \in 1..Len(uses) |-> Through(edges[uses[u]].dst, n)])
        ELSE <<>>

IsAnyNode(n) == n # NoNode
IsProfile(n) == n # NoNode /\ nodes[n].kind = "IamInstanceProfile"

AttachedEdge(instance, role) ==
    [kind |-> "Attached", src |-> instance, dst |-> role, holder |-> instance,
     path |-> [attr |-> "iam_instance_profile", stmt |-> 0, rest |-> ""],
     actions |-> <<>>, from_port |-> 0]

AttachedEdges(n) ==
    LET profile == referenced_node(n, "iam_instance_profile")
        role == referenced_node(profile, "role")
    IN  IF nodes[n].kind = "Instance" /\ IsProfile(profile) /\ role # NoNode
        THEN <<AttachedEdge(n, role)>> ELSE <<>>

ComputeEdges(pass, EdgesOf(_)) ==
    /\ pc = pass /\ at <= Len(nodes)
    /\ pending' = pending \o EdgesOf(at)
    /\ at' = at + 1
    /\ UNCHANGED <<nodes, edges, derived, pc>>

ComputeGrants == ComputeEdges("grants", GrantEdges)
ComputeNetwork == ComputeEdges("network", NetworkEdges)
ComputeAttached == ComputeEdges("attached", AttachedEdges)

AddEdge ==
    /\ pc = "add" /\ at <= Len(pending)
    /\ edges' = Append(edges, pending[at])
    /\ at' = at + 1
    /\ UNCHANGED <<nodes, derived, pc, pending>>

AllAdded ==
    /\ pc = "add" /\ at > Len(pending)
    /\ pc' = "done"
    /\ UNCHANGED <<nodes, edges, derived, at, pending>>

Next ==
    \/ DeriveBucket \/ DeriveRoleTrust \/ DeriveSecurityGroup \/ DeriveLambda \/ Panic
    \/ ComputeGrants \/ ComputeNetwork \/ ComputeAttached
    \/ PassDone \/ AddEdge \/ AllAdded

Spec == Init /\ [][Next]_vars

(* edge_derived_facts, which the matcher asks for when it tests an edge.   *)
EdgeFacts(e) ==
    LET Some(P(_)) == \E a \in ToSet(e.actions) : a = AnyAction \/ P(a)
        Writes(a) == a.name \in WriteName
        Wild(a) == a.name = "*"
        Escalates(a) == a.service = "iam" /\ a.name \in EscalationName \cup {"*"}
    IN  IF e.kind = "IamGrants"
        THEN [grants_write |-> Some(Writes), grants_wildcard |-> Some(Wild),
              grants_iam_escalation |-> Some(Escalates)]
        ELSE <<>>

-----------------------------------------------------------------------------
(* Properties.                                                             *)

References == {e \in 1..Len(edges) : edges[e].kind = "References"}
Added(kind) == {e \in 1..Len(edges) : edges[e].kind = kind}
Nodes(kind) == {n \in 1..Len(nodes) : nodes[n].kind = kind}

(* The types of the graph and of the locals of classify.                   *)
TypeOK ==
    /\ nodes \in Seq(Node) /\ edges \in Seq(Edge) /\ pending \in Seq(Edge)
    /\ pc \in DOMAIN NextPass \cup {"add", "done", "panicked"}
    /\ at \in 1..(IF pc \in {"add", "done"} THEN Len(pending) + 1 ELSE Len(nodes) + 1)
    /\ DOMAIN derived = 1..Len(nodes)
    /\ \A n \in 1..Len(nodes) : \A f \in DOMAIN derived[n] : derived[n][f] \in BOOLEAN
    /\ \A e \in ToSet(edges) \cup ToSet(pending) :
          {e.src, e.dst, e.holder} \subseteq 1..Len(nodes)

(* What the passes leave behind does not depend on the order the resources *)
(* and references come in: a bucket is public as soon as one resource that *)
(* refers to it turns a protection off or sets a public ACL, whatever      *)
(* others do; a function is invokable as soon as one permission opens it;  *)
(* a role trusts everyone as soon as one statement allows everyone, and a  *)
(* group is open as soon as one rule is; no other node gets a fact.        *)
FactsAsDeclared ==
    pc = "done" =>
        \A n \in 1..Len(nodes) :
            LET From(kind) == {m \in Nodes(kind) : \E e \in References : edges[e].src = m /\ edges[e].dst = n}
            IN  CASE nodes[n].kind = "S3Bucket" ->
                        /\ derived[n].public =
                              \/ \E m \in From("S3BucketPublicAccessBlock") :
                                    nodes[m].attrs.turned_off # {}
                              \/ \E m \in From("S3BucketAcl") : nodes[m].attrs.acl \in PublicAcl
                        /\ derived[n].sensitive = ([key |-> "sensitive", truthy |-> TRUE] \in nodes[n].attrs.tags)
                  [] nodes[n].kind = "LambdaFunction" ->
                        /\ derived[n].publicly_invokable => From("LambdaPermission") # {}
                        /\ \A m \in Nodes("LambdaPermission") :
                              LET named == {edges[e].dst : e \in {r \in References :
                                    edges[r].src = m /\ IsAttr(edges[r].path, "function_name")}}
                              IN  /\ named = {n}
                                  /\ nodes[m].attrs.principal = "*" /\ ~nodes[m].attrs.source_arn
                                  => derived[n].publicly_invokable
                  [] nodes[n].kind = "IamRole" ->
                        derived[n] = [wildcard_trust |->
                            \E i \in 1..Len(nodes[n].attrs.assume_role_policy) :
                               LET statement == nodes[n].attrs.assume_role_policy[i]
                               IN  /\ statement.effect = "Allow"
                                   /\ {p \in statement.principals : p.value = "*"} # {}]
                  [] nodes[n].kind = "SecurityGroup" ->
                        derived[n] = [open_ingress |->
                            \E k \in 1..Len(nodes[n].attrs.ingress) :
                               OpenCidr \cap nodes[n].attrs.ingress[k].cidrs # {}]
                  [] OTHER -> derived[n] = <<>>

(* A grant is never attributed to a statement, a role or a target that has *)
(* nothing to do with it: the policy has a statement that allows these     *)
(* very actions, it is the role's own or attached to it, and a reference   *)
(* of the policy names the target, in that statement if it is known which  *)
(* one it is in.                                                           *)
Refers(from, to, attr) ==
    \E r \in References : /\ edges[r].src = from /\ edges[r].dst = to
                          /\ IsAttr(edges[r].path, attr)

IsWritten(grant) ==
    LET policy == nodes[grant.holder]
    IN  /\ grant.path.stmt \in 1..Len(policy.attrs.policy)
        /\ LET statement == policy.attrs.policy[grant.path.stmt]
           IN  statement.effect = "Allow" /\ statement.actions = grant.actions /\ grant.actions # <<>>
        /\ \/ policy.kind = "IamRolePolicy" /\ Refers(grant.holder, grant.src, "role")
           \/ /\ policy.kind = "IamPolicy"
              /\ \E a \in Nodes("IamRolePolicyAttachment") :
                    Refers(a, grant.holder, "policy_arn") /\ Refers(a, grant.src, "role")
        /\ \E r \in References :
              /\ edges[r].src = grant.holder /\ edges[r].dst = grant.dst
              /\ NamesResource(edges[r].path) /\ edges[r].path.stmt \in {0, grant.path.stmt}

NoGrantMisattributed == \A e \in Added("IamGrants") : IsWritten(edges[e])

(* Every `Resource = a.arn` of a statement that allows something is        *)
(* granted, to a role of its own as to any other resource, as often as the *)
(* policy is the role's own or attached to it.                             *)
Links(policy, role) ==
    {v \in 1..Len(nodes) :
        /\ \/ v = policy /\ nodes[v].kind = "IamRolePolicy"
           \/ /\ nodes[v].kind = "IamRolePolicyAttachment" /\ nodes[policy].kind = "IamPolicy"
              /\ referenced_node(v, "policy_arn") = policy
        /\ referenced_node(v, "role") = role}

Written(policy, target, i) ==
    {r \in References : /\ edges[r].src = policy /\ edges[r].dst = target
                        /\ edges[r].path.stmt = i /\ edges[r].path.rest = "Resource"}

EachGrantFound ==
    pc = "done" =>
        \A policy, role, target \in 1..Len(nodes) : \A i \in 1..Len(nodes[policy].attrs.policy) :
            LET found == {e \in Added("IamGrants") :
                               /\ edges[e].src = role /\ edges[e].dst = target
                               /\ edges[e].holder = policy /\ edges[e].path.stmt = i}
            IN  Written(policy, target, i) # {} /\ Grants(nodes[policy].attrs.policy[i]) =>
                    Cardinality(found) = Cardinality(Links(policy, role) \X Written(policy, target, i))

(* What an IamGrants edge claims is written, and what is written is        *)
(* granted: the two statements above.                                      *)
GrantsAsWritten == NoGrantMisattributed /\ EachGrantFound

(* The references by which an instance uses a security group.              *)
Uses(instance, group) ==
    {r \in References : /\ edges[r].src = instance /\ edges[r].dst = group
                        /\ edges[r].path.attr \in {"vpc_security_group_ids", "security_groups"}}

(* Two passes decide independently whether a security group is open; they  *)
(* agree: a group has NetworkReachable edges if it has the fact            *)
(* open_ingress and an instance uses it, one for each use and each rule    *)
(* that opens it, and never without.                                       *)
ReachableIffOpen ==
    pc = "done" =>
        \A g \in Nodes("SecurityGroup"), i \in Nodes("Instance") :
            LET open == {k \in 1..Len(nodes[g].attrs.ingress) :
                            nodes[g].attrs.ingress[k].cidrs \cap OpenCidr # {}}
                found == {e \in Added("NetworkReachable") : edges[e].src = g /\ edges[e].dst = i}
            IN  /\ (found # {}) = (derived[g].open_ingress /\ Uses(i, g) # {})
                /\ Cardinality(found) = Cardinality(Uses(i, g) \X open)
                /\ {edges[e].from_port : e \in found} \subseteq {nodes[g].attrs.ingress[k].port : k \in open}

(* An instance runs under at most one role, one that an instance profile   *)
(* it refers to names, and where it refers to a single profile, and that   *)
(* profile to a single role, under that one: the pass that collapses the   *)
(* two references into an edge loses neither end.  That what the profile   *)
(* names is a role is Terraform's business: the pass does not look.        *)
Only(from, to, attr) ==
    Refers(from, to, attr) /\ \A other \in 1..Len(nodes) : Refers(from, other, attr) => other = to

AttachedThroughProfile ==
    pc = "done" =>
        /\ \A e \in Added("Attached") :
              /\ edges[e].src \in Nodes("Instance")
              /\ \E p \in Nodes("IamInstanceProfile") :
                    /\ Refers(edges[e].src, p, "iam_instance_profile")
                    /\ Refers(p, edges[e].dst, "role")
        /\ \A d, e \in Added("Attached") : edges[d].src = edges[e].src => d = e
        /\ \A i \in Nodes("Instance"), p \in Nodes("IamInstanceProfile"), r \in 1..Len(nodes) :
              Only(i, p, "iam_instance_profile") /\ Only(p, r, "role") =>
                 \E e \in Added("Attached") : edges[e].src = i /\ edges[e].dst = r

(* README.md:289: policies written via jsonencode receive precise          *)
(* per-statement resource resolution, so a reference in a list of          *)
(* resources is granted like one that stands alone.                        *)
ListedResourcesGranted ==
    pc = "done" =>
        \A r \in References :
            LET policy == edges[r].src
            IN  /\ edges[r].path.stmt # 0 /\ edges[r].path.rest = "Resource[]"
                /\ Grants(nodes[policy].attrs.policy[edges[r].path.stmt])
                => \A role \in 1..Len(nodes) : Links(policy, role) # {} =>
                      \E e \in Added("IamGrants") :
                         edges[e].src = role /\ edges[e].dst = edges[r].dst /\ edges[e].holder = policy

=============================================================================
