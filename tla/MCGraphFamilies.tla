-------------------------- MODULE MCGraphFamilies --------------------------
(***************************************************************************)
(* Small graphs for the classification pass, one family per kind of edge   *)
(* and fact.  In each the order of the References edges varies.            *)
(***************************************************************************)
EXTENDS Naturals, Sequences

NoAttrs == [tags |-> {}, turned_off |-> {}, acl |-> "absent", assume_role_policy |-> <<>>,
            policy |-> <<>>, ingress |-> <<>>, principal |-> "absent",
            source_arn |-> FALSE, derived_taken |-> FALSE]

Plain(kind) == [kind |-> kind, attrs |-> NoAttrs]

Path(attr, stmt, rest) == [attr |-> attr, stmt |-> stmt, rest |-> rest]
Ref(src, dst, path) ==
    [kind |-> "References", src |-> src, dst |-> dst, holder |-> src, path |-> path,
     actions |-> <<>>, from_port |-> 0]

Graph(ns, es) == [nodes |-> ns, edges |-> es]

(* Both orders of two edges, and each of them alone.                       *)
OneOrTwo(e, f) == {<<e>>, <<f>>, <<e, f>>, <<f, e>>}

-----------------------------------------------------------------------------
(* A bucket and two resources that may refer to it.                        *)

Bucket(tags) == [kind |-> "S3Bucket", attrs |-> [NoAttrs EXCEPT !.tags = tags]]
Block(off) == [kind |-> "S3BucketPublicAccessBlock", attrs |-> [NoAttrs EXCEPT !.turned_off = off]]
Acl(acl) == [kind |-> "S3BucketAcl", attrs |-> [NoAttrs EXCEPT !.acl = acl]]

BucketUsers == {Block({}), Block({"ignore_public_acls"}), Acl("private"), Acl("public-read"), Plain("Other")}
Tags == {{}, {[key |-> "sensitive", truthy |-> TRUE]},
         {[key |-> "sensitive", truthy |-> FALSE], [key |-> "other", truthy |-> TRUE]}}

BucketGraphs ==
    {Graph(<<a, Bucket(tags), b>>, es) :
        a \in BucketUsers, b \in BucketUsers, tags \in Tags,
        es \in OneOrTwo(Ref(1, 2, Path("bucket", 0, "")), Ref(3, 2, Path("bucket", 0, "")))
               \cup {<<Ref(2, 1, Path("bucket", 0, ""))>>}}

-----------------------------------------------------------------------------
(* Two roles (or a role and an instance profile), a bucket, and a policy   *)
(* of up to two statements that is inline in or attached to them.          *)

Act(service, name) == [service |-> service, name |-> name]
Allow(actions) == [effect |-> "Allow", principals |-> {}, actions |-> actions]
Deny(actions) == [effect |-> "Deny", principals |-> {}, actions |-> actions]

Policies ==
    {<<Allow(<<Act("s3", "PutObject")>>), Allow(<<Act("*", "*")>>)>>,
     <<Deny(<<Act("*", "*")>>), Allow(<<Act("iam", "PassRole"), Act("s3", "*")>>)>>,
     <<Allow(<<>>), Allow(<<Act("s3", "GetObject")>>)>>}

Holder(kind, policy) == [kind |-> kind, attrs |-> [NoAttrs EXCEPT !.policy = policy]]

(* What the policy, node 4, refers to: the bucket, node 3, and the role,   *)
(* node 1, in one statement or two, in a list, in a condition, or, where   *)
(* the statement is not in a list, without an index.                       *)
PolicyRefs ==
    {<<Ref(4, 3, Path("policy", 1, "Resource"))>>,
     <<Ref(4, 3, Path("policy", 1, "Resource")), Ref(4, 1, Path("policy", 2, "Resource"))>>,
     <<Ref(4, 3, Path("policy", 2, "Resource[]")), Ref(4, 1, Path("policy", 2, "Resource[]"))>>,
     <<Ref(4, 3, Path("policy", 1, "Condition")), Ref(4, 1, Path("policy", 2, "Resource"))>>,
     <<Ref(4, 3, Path("policy", 2, "Resource")), Ref(4, 3, Path("policy", 2, "Resource"))>>}

FlatRefs == {<<>>, <<Ref(4, 3, Path("policy", 0, "Resource"))>>,
             <<Ref(4, 1, Path("policy", 0, "Resource")), Ref(4, 3, Path("policy", 0, "NotResource"))>>}

Role(n, to) == Ref(n, to, Path("role", 0, ""))
Arn(n) == Ref(n, 4, Path("policy_arn", 0, ""))

Second == {Plain("IamRole"), Plain("IamInstanceProfile")}

InlineGraphs ==
    {Graph(<<Plain("IamRole"), second, Plain("S3Bucket"), Holder("IamRolePolicy", policy)>>, links \o refs) :
        second \in Second, policy \in Policies, refs \in PolicyRefs,
        links \in OneOrTwo(Role(4, 1), Role(4, 2)) \cup {<<>>}}
    \cup
    {Graph(<<Plain("IamRole"), Plain("IamRole"), Plain("S3Bucket"), Holder("IamRolePolicy", policy)>>,
           <<Role(4, 1)>> \o refs) :
        policy \in {<<Allow(<<Act("iam", "PassRole")>>)>>, <<Deny(<<Act("*", "*")>>)>>}, refs \in FlatRefs}

AttachedGraphs ==
    {Graph(<<Plain("IamRole"), Plain("IamRole"), Plain("S3Bucket"), Holder("IamPolicy", policy),
             Plain("IamRolePolicyAttachment"), Plain("IamRolePolicyAttachment")>>, links \o refs) :
        policy \in Policies, refs \in PolicyRefs,
        links \in {<<Role(5, 1), Arn(5)>>, <<Arn(5)>>, <<Arn(5), Role(6, 2)>>,
                   <<Arn(5), Role(5, 1), Role(6, 2), Arn(6)>>,
                   <<Arn(5), Role(5, 1), Role(6, 1), Arn(6)>>}}

-----------------------------------------------------------------------------
(* An instance, two security groups, and an instance profile that may have *)
(* a role.                                                                 *)

Rule(cidrs, port) == [cidrs |-> cidrs, port |-> port]
Group(ingress) == [kind |-> "SecurityGroup", attrs |-> [NoAttrs EXCEPT !.ingress = ingress]]

Ingresses ==
    {<<>>, <<Rule({"10.0.0.0/8"}, 22)>>, <<Rule({"0.0.0.0/0", "10.0.0.0/8"}, 443), Rule({}, 22)>>,
     <<Rule({"::/0"}, 80), Rule({"0.0.0.0/0"}, 443)>>}

Groups(n, rest) == Ref(3, n, Path("vpc_security_group_ids", 0, rest))
Classic(n) == Ref(3, n, Path("security_groups", 0, "[]"))
Profile(to) == Ref(3, to, Path("iam_instance_profile", 0, ""))

NetworkGraphs ==
    {Graph(<<Group(a), Group(b), Plain("Instance"), profile, Plain("IamRole")>>, groups \o roles) :
        a \in Ingresses, b \in {<<Rule({"0.0.0.0/0"}, 8080)>>},
        profile \in {Plain("IamInstanceProfile"), Plain("LambdaFunction")},
        groups \in {<<>>, <<Groups(1, "[]")>>, <<Groups(1, "[]"), Groups(2, "[]")>>,
                    <<Classic(1), Groups(1, "")>>, <<Groups(5, "[]")>>},
        roles \in {<<>>, <<Profile(4)>>, <<Profile(4), Role(4, 5)>>,
                   <<Role(4, 5), Profile(4), Profile(4)>>, <<Profile(4), Role(4, 5), Profile(5)>>}}

-----------------------------------------------------------------------------
(* Two functions and two permissions; roles with trust policies.           *)

Permission(principal, source_arn) ==
    [kind |-> "LambdaPermission",
     attrs |-> [NoAttrs EXCEPT !.principal = principal, !.source_arn = source_arn]]

Function(n, to) == Ref(n, to, Path("function_name", 0, ""))

LambdaGraphs ==
    {Graph(<<Plain("LambdaFunction"), Plain("LambdaFunction"), p,
             Permission("*", arn)>>, refs) :
        p \in {Permission("scoped", FALSE), Permission("*", FALSE), Permission("absent", TRUE)},
        arn \in BOOLEAN,
        refs \in OneOrTwo(Function(3, 1), Function(4, 1)) \cup OneOrTwo(Function(3, 2), Function(4, 1))
                 \cup {<<Function(3, 1), Function(3, 2)>>}}

Trust(key, value) == [key |-> key, value |-> value]
Trusting(policy) == [kind |-> "IamRole", attrs |-> [NoAttrs EXCEPT !.assume_role_policy = policy]]

RoleGraphs ==
    {Graph(<<Trusting(<<[effect |-> effect, principals |-> ps, actions |-> <<>>], Deny(<<>>)>>)>>, <<>>) :
        effect \in {"Allow", "Deny"},
        ps \in {{}, {Trust("", "*")}, {Trust("AWS", "*"), Trust("Service", "scoped")},
                {Trust("Service", "scoped")}, {Trust("Federated", "*")}}}

(* A resource whose facts cannot be stored, after one whose facts can.     *)
TakenGraphs ==
    {Graph(<<Plain(kind), [kind |-> kind, attrs |-> [NoAttrs EXCEPT !.derived_taken = TRUE]]>>, <<>>) :
        kind \in {"S3Bucket", "IamRole", "SecurityGroup", "LambdaFunction", "Instance"}}

AllFamilies ==
    BucketGraphs \cup InlineGraphs \cup AttachedGraphs \cup NetworkGraphs \cup LambdaGraphs
    \cup RoleGraphs \cup TakenGraphs \cup {Graph(<<>>, <<>>)}

=============================================================================
