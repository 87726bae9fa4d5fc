------------------------------- MODULE MCScan -------------------------------
(***************************************************************************)
(* One small account: a security group, an instance with its profile, two  *)
(* roles, a bucket, a secret, a function with its permission, and a policy *)
(* that is inline in one role or attached to one or both.  Each family of  *)
(* graphs varies what one kind of rule looks at, and what it must not.     *)
(***************************************************************************)
EXTENDS Scan

MCService == {"iam", "s3"}
MCWriteName == {"PutObject", "PutRolePolicy"}
MCEscalationName == {"PutRolePolicy", "PassRole"}
MCReadName == {"GetObject"}

NoAttrs == [tags |-> {}, turned_off |-> {}, acl |-> "absent", assume_role_policy |-> <<>>,
            policy |-> <<>>, ingress |-> <<>>, principal |-> "absent",
            source_arn |-> FALSE, derived_taken |-> FALSE]

Plain(kind) == [kind |-> kind, attrs |-> NoAttrs]

Statements(actions) ==
    [i \in 1..Len(actions) |->
        [effect |-> actions[i].effect, principals |-> {}, actions |-> actions[i].list]]

Group(cidrs) == [kind |-> "SecurityGroup",
                 attrs |-> [NoAttrs EXCEPT !.ingress = <<[cidrs |-> cidrs, port |-> 443]>>]]
Role(star) ==
    [kind |-> "IamRole",
     attrs |-> [NoAttrs EXCEPT !.assume_role_policy =
         <<[effect |-> "Allow", actions |-> <<>>,
            principals |-> {[key |-> "AWS", value |-> IF star THEN "*" ELSE "scoped"]}]>>]]
Bucket(sensitive) ==
    [kind |-> "S3Bucket",
     attrs |-> [NoAttrs EXCEPT !.tags = {[key |-> "sensitive", truthy |-> sensitive]}]]
Permission(principal, arn) ==
    [kind |-> "LambdaPermission",
     attrs |-> [NoAttrs EXCEPT !.principal = principal,
                               !.source_arn = arn]]
Policy(kind, statements) == [kind |-> kind, attrs |-> [NoAttrs EXCEPT !.policy = statements]]
Block(off) == [kind |-> "S3BucketPublicAccessBlock", attrs |-> [NoAttrs EXCEPT !.turned_off = off]]

Ref(src, dst, attr, stmt, rest) ==
    [kind |-> "References", src |-> src, dst |-> dst, holder |-> src,
     path |-> [attr |-> attr, stmt |-> stmt, rest |-> rest], actions |-> <<>>, from_port |-> 0]

(* Nodes 1..11 are the group, instance, profile, roles A and B, bucket,    *)
(* secret, function, permission, policy and public access block, an        *)
(* attachment is node 12.                                                  *)
Resource(i, target) == Ref(10, target, "policy", i, "Resource")

Inline == <<Ref(10, 4, "role", 0, "")>>
AttachedToA == <<Ref(12, 4, "role", 0, ""), Ref(12, 10, "policy_arn", 0, "")>>
AttachedToB == <<Ref(12, 10, "policy_arn", 0, ""), Ref(12, 5, "role", 0, "")>>

Account(group, a, b, bucket, permission, policy, block, refs) ==
    [nodes |-> <<group, Plain("Instance"), Plain("IamInstanceProfile"), a, b, bucket,
                 Plain("SecretsManagerSecret"), Plain("LambdaFunction"), permission, policy, block,
                 Plain("IamRolePolicyAttachment")>>,
     edges |-> refs]

Act(service, name) == [service |-> service, name |-> name]
S(effect, list) == [effect |-> effect, list |-> list]
Lists ==
    {<<S("Allow", <<Act("s3", "GetObject")>>), S("Deny", <<AnyAction>>)>>,
     <<S("Deny", <<Act("s3", "*")>>), S("Allow", <<Act("s3", "PutObject")>>)>>,
     <<S("Allow", <<Act("s3", "*"), Act("iam", "PassRole")>>), S("Allow", <<AnyAction>>)>>}

Closed == Group({"10.0.0.0/8"})
Open == Group({"0.0.0.0/0"})
Scoped == Permission("scoped", TRUE)

InstanceRefs(groups, role) ==
    <<Ref(2, 1, groups, 0, "[]"), Ref(2, 3, "iam_instance_profile", 0, ""),
      Ref(3, role, "role", 0, "")>>
FunctionRefs(role, attr) == <<Ref(8, role, attr, 0, ""), Ref(9, 8, "function_name", 0, "")>>

GroupAccounts ==
    {Account(group, Role(FALSE), Role(FALSE), Bucket(sensitive), Scoped,
             Policy("IamPolicy", Statements(list)), Block({}),
             InstanceRefs(groups, 4) \o links \o <<Resource(1, 6), Resource(2, second)>>) :
        group \in {Open, Closed}, sensitive \in BOOLEAN, list \in Lists,
        links \in {AttachedToA, AttachedToB, <<>>}, second \in {6, 7},
        groups \in {"vpc_security_group_ids", "security_groups"}}

FunctionAccounts ==
    {Account(Closed, Role(FALSE), Role(FALSE), Bucket(TRUE), permission,
             Policy("IamRolePolicy", Statements(list)), Block({}),
             Inline \o FunctionRefs(role, attr) \o <<Resource(2, 7)>>) :
        permission \in {Permission("*", FALSE), Permission("*", TRUE), Scoped}, list \in Lists,
        role \in {4, 5}, attr \in {"role", "environment"}}

GrantAccounts ==
    {Account(Closed, Role(a), Role(b), Bucket(sensitive), Scoped,
             Policy("IamRolePolicy", Statements(list)), Block(off),
             <<Ref(11, 6, "bucket", 0, "")>> \o Inline \o <<Resource(1, first), Resource(2, second)>>) :
        a \in BOOLEAN, b \in BOOLEAN, sensitive \in BOOLEAN, off \in {{}, {"block_public_acls"}},
        list \in Lists, first \in {4, 6}, second \in {5, 6}}

(* And the small graphs, classified and searched as well.                  *)
Families == INSTANCE MCGraphFamilies

MCGraphs == GroupAccounts \cup FunctionAccounts \cup GrantAccounts \cup Families!AllFamilies

=============================================================================
