-------------------------------- MODULE Scan --------------------------------
(***************************************************************************)
(* A scan from the graph on: run_scan of policylens-cli/src/main.rs hands  *)
(* the graph to classify and the classified graph, with the rules loaded   *)
(* from rules/, to the matcher.  Classify is taken as it is; of the        *)
(* matcher, what PathSearch promises and RuleMatcher implements.           *)
(*                                                                         *)
(* The clauses of the built-in rules ask for a derived fact of a node or   *)
(* an edge, or for the attribute a reference is in.                        *)
(***************************************************************************)
EXTENDS Classify, Bags

VARIABLES
    graph,      \* run_rules: the classified graph, as predicates see it
    rules,      \* run_rules: the loaded rules
    ri,         \* run_rules: the rule whose turn it is
    found,      \* run_rules: the bag of findings so far
    status      \* "classifying", then that of the matcher

search_vars == <<graph, rules, ri, found, status>>

-----------------------------------------------------------------------------
(* The rules of rules/*.yaml in the order of their files.                  *)

N(kind, where) == [tag |-> "node", kind |-> kind, where |-> where]
E(kind, where) == [tag |-> "edge", kind |-> kind, where |-> where, min_hops |-> 1, max_hops |-> 1]

EscalationRule ==
    [id |-> "iam-role-self-privilege-escalation", severity_base |-> "critical", max_total_hops |-> 2,
     path |-> <<N("IamRole", {"wildcard_trust"}), E("IamGrants", {"grants_iam_escalation"}),
                N("IamRole", {"wildcard_trust"})>>]

OpenGroupRule ==
    [id |-> "open-security-group-to-data-store", severity_base |-> "high", max_total_hops |-> 3,
     path |-> <<N("SecurityGroup", {"open_ingress"}), E("NetworkReachable", {}), N("Instance", {}),
                E("Attached", {}), N("IamRole", {}), E("IamGrants", {}), N("S3Bucket", {"sensitive"})>>]

PermissiveRule ==
    [id |-> "overly-permissive-role-sensitive-access", severity_base |-> "medium", max_total_hops |-> 1,
     path |-> <<N("IamRole", {}), E("IamGrants", {"grants_wildcard"}), N("S3Bucket", {"sensitive"})>>]

PublicStorageRule ==
    [id |-> "public-storage-writable-by-untrusted-role", severity_base |-> "high", max_total_hops |-> 2,
     path |-> <<N("IamRole", {"wildcard_trust"}), E("IamGrants", {"grants_write"}),
                N("S3Bucket", {"public"})>>]

ComputeSecretRule ==
    [id |-> "unauthenticated-compute-secret-access", severity_base |-> "critical", max_total_hops |-> 2,
     path |-> <<N("LambdaFunction", {"publicly_invokable"}), E("References", {"attr_path_is_role"}),
                N("IamRole", {}), E("IamGrants", {}), N("SecretsManagerSecret", {})>>]

BuiltinRules == <<EscalationRule, OpenGroupRule, PermissiveRule, PublicStorageRule, ComputeSecretRule>>

-----------------------------------------------------------------------------
(* The classified graph as the predicates of the rules see it.             *)

TrueIn(facts) == {f \in DOMAIN facts : facts[f]}

EdgeClauses(e) ==
    TrueIn(EdgeFacts(e)) \cup (IF IsAttr(e.path, "role") THEN {"attr_path_is_role"} ELSE {})

RuleGraph ==
    [nodes |-> [n \in 1..Len(nodes) |-> [kind |-> nodes[n].kind, holds |-> TrueIn(derived[n])]],
     edges |-> [e \in 1..Len(edges) |-> [src |-> edges[e].src, dst |-> edges[e].dst,
                                          kind |-> edges[e].kind, holds |-> EdgeClauses(edges[e])]]]

Search ==
    INSTANCE PathSearch WITH
        ResourceKind <- Kind,
        EdgeKind <- {"References", "IamGrants", "NetworkReachable", "Attached"},
        Clause <- {"wildcard_trust", "open_ingress", "sensitive", "public", "publicly_invokable",
                   "grants_write", "grants_wildcard", "grants_iam_escalation", "attr_path_is_role"},
        RuleId <- {BuiltinRules[i].id : i \in 1..Len(BuiltinRules)},
        AnyKind <- "any", Malformed <- "malformed",
        Graphs <- {}, RuleLists <- {BuiltinRules}

ScanInit ==
    /\ Init
    /\ graph = [nodes |-> <<>>, edges |-> <<>>] /\ rules = <<>>
    /\ ri = 1 /\ found = EmptyBag /\ status = "classifying"

ClassifyStep == Next /\ UNCHANGED search_vars

RunRules ==
    /\ pc = "done" /\ status = "classifying"
    /\ status' = "running"
    /\ graph' = RuleGraph /\ rules' = BuiltinRules
    /\ UNCHANGED <<vars, ri, found>>

(* The predicates of the built-in rules parse, so the search cannot panic.  *)
RunRule == Search!RunRule /\ UNCHANGED vars
Finish == Search!Finish /\ UNCHANGED vars

ScanNext == ClassifyStep \/ RunRules \/ RunRule \/ Finish

ScanSpec == ScanInit /\ [][ScanNext]_<<vars, search_vars>>

-----------------------------------------------------------------------------
(* Properties.  They speak of attributes and references only, as a reader  *)
(* of the Terraform files would, not of facts and semantic edges.          *)

(* What the files mean is plain: an argument that takes one resource names *)
(* one, and what a policy says of a resource is said in the Resource of a  *)
(* statement, where the reference stands alone.  For a list of resources   *)
(* see ListedResourcesGranted.                                             *)
NamesOne(attr) ==
    \A r, s \in References :
        /\ IsAttr(edges[r].path, attr) /\ IsAttr(edges[s].path, attr)
        /\ edges[r].src = edges[s].src
        => edges[r].dst = edges[s].dst

WrittenPlainly ==
    /\ \A attr \in {"role", "policy_arn", "function_name", "iam_instance_profile"} : NamesOne(attr)
    /\ \A r \in References :
          NamesResource(edges[r].path) =>
              /\ edges[r].path.rest = "Resource"
              /\ edges[r].path.stmt \in 1..Len(nodes[edges[r].src].attrs.policy)

(* The policies of a role allow one of these actions on a resource.        *)
MayDo(role, actions, target) ==
    \E policy \in Nodes("IamRolePolicy") \cup Nodes("IamPolicy") :
        /\ \/ nodes[policy].kind = "IamRolePolicy" /\ Refers(policy, role, "role")
           \/ /\ nodes[policy].kind = "IamPolicy"
              /\ \E a \in Nodes("IamRolePolicyAttachment") :
                    Refers(a, policy, "policy_arn") /\ Refers(a, role, "role")
        /\ \E r \in References :
              LET statement == nodes[policy].attrs.policy[edges[r].path.stmt]
              IN  /\ edges[r].src = policy /\ edges[r].dst = target
                  /\ edges[r].path.rest = "Resource"
                  /\ statement.effect = "Allow"
                  /\ ToSet(statement.actions) \cap actions # {}

Everything == {a \in Action : a.name = "*"}
Writing == {AnyAction} \cup {a \in Action : a.name \in WriteName}
Escalating == {AnyAction} \cup [service : {"iam"}, name : EscalationName \cup {"*"}]

IsOpen(group) ==
    \E k \in 1..Len(nodes[group].attrs.ingress) : nodes[group].attrs.ingress[k].cidrs \cap OpenCidr # {}
Trusting(role) ==
    \E s \in ToSet(nodes[role].attrs.assume_role_policy) :
        s.effect = "Allow" /\ \E p \in s.principals : p.value = "*" /\ p.key \in {"", "AWS"}
Sensitive(bucket) == [key |-> "sensitive", truthy |-> TRUE] \in nodes[bucket].attrs.tags
Public(bucket) ==
    \E r \in References :
        LET m == nodes[edges[r].src]
        IN  /\ edges[r].dst = bucket
            /\ \/ m.kind = "S3BucketPublicAccessBlock" /\ m.attrs.turned_off # {}
               \/ m.kind = "S3BucketAcl" /\ m.attrs.acl \in {"public-read", "public-read-write"}

Reported(rule) == {f.node_ids : f \in {g \in DOMAIN found : g.rule_id = rule.id}}

(* A sensitive bucket is reported as reachable through a security group    *)
(* exactly if an instance in the group, the group being open to the world, *)
(* runs under a role whose policies allow something on the bucket.         *)
DataBehindOpenGroups ==
    status = "done" /\ WrittenPlainly =>
        Reported(OpenGroupRule) =
            {c \in Nodes("SecurityGroup") \X Nodes("Instance") \X Nodes("IamRole") \X Nodes("S3Bucket") :
                LET g == c[1]   i == c[2]   r == c[3]   b == c[4]
                IN  /\ IsOpen(g) /\ Uses(i, g) # {}
                    /\ \E p \in Nodes("IamInstanceProfile") :
                          Refers(i, p, "iam_instance_profile") /\ Refers(p, r, "role")
                    /\ MayDo(r, Action, b) /\ Sensitive(b)}

(* A secret is reported exactly if a function everyone may invoke runs     *)
(* under a role whose policies allow something on it; that the function's  *)
(* environment mentions the role is not enough.                            *)
SecretsBehindFunctions ==
    status = "done" /\ WrittenPlainly =>
        Reported(ComputeSecretRule) =
            {c \in Nodes("LambdaFunction") \X Nodes("IamRole") \X Nodes("SecretsManagerSecret") :
                LET f == c[1]   r == c[2]   s == c[3]
                IN  /\ \E p \in Nodes("LambdaPermission") :
                          /\ Refers(p, f, "function_name")
                          /\ nodes[p].attrs.principal = "*" /\ ~nodes[p].attrs.source_arn
                    /\ Refers(f, r, "role") /\ MayDo(r, Action, s)}

(* The two rules whose chains run over several derived edges, together.   *)
LongChainsAsWritten == DataBehindOpenGroups /\ SecretsBehindFunctions

(* In a trust policy "*" stands alone or under "AWS", as the comment above *)
(* derive_iam_role_trust_facts has it; the code takes it under any key.    *)
TrustsPlainly ==
    \A n \in Nodes("IamRole") : \A s \in ToSet(nodes[n].attrs.assume_role_policy) :
        \A p \in s.principals : p.value = "*" => p.key \in {"", "AWS"}

(* The rules of a single grant.  Two report exactly the roles and buckets  *)
(* whose own conditions hold and between which a policy allows what the    *)
(* rule is about.  The third reports, as a chain from a role to itself,    *)
(* exactly the roles that everyone may assume and whose policies let them  *)
(* change their own permissions; for its other chains see                  *)
(* EscalationOfOneRole.                                                    *)
SingleGrants ==
    status = "done" /\ WrittenPlainly /\ TrustsPlainly =>
        /\ \A r \in 1..Len(nodes) :
              <<r, r>> \in Reported(EscalationRule) <=>
                  r \in Nodes("IamRole") /\ Trusting(r) /\ MayDo(r, Escalating, r)
        /\ Reported(PermissiveRule) =
              {c \in Nodes("IamRole") \X Nodes("S3Bucket") :
                  MayDo(c[1], Everything, c[2]) /\ Sensitive(c[2])}
        /\ Reported(PublicStorageRule) =
              {c \in Nodes("IamRole") \X Nodes("S3Bucket") :
                  Trusting(c[1]) /\ MayDo(c[1], Writing, c[2]) /\ Public(c[2])}

(* rules/iam-role-self-privilege-escalation.yaml:4-8: the start and the    *)
(* end of the pattern are the same physical resource, as its two equal     *)
(* `bind` names say, so a chain it reports begins and ends at one role.    *)
EscalationOfOneRole ==
    status = "done" => \A c \in Reported(EscalationRule) : c[1] = c[Len(c)]

=============================================================================
