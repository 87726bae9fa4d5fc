---------------------------- MODULE MCGraphBuild ----------------------------
(***************************************************************************)
(* Small Terraform directories: every pair of blocks in one file and in    *)
(* two, three files in which each may be faulty, duplicates across and     *)
(* within files, and a block with each expression of depth three.          *)
(***************************************************************************)
EXTENDS ResourceGraph

MCLabel == {"aws_iam_role", "aws_s3_bucket", "data", "log"}

DataId == <<"aws_s3_bucket", "data">>
LogId == <<"aws_s3_bucket", "log">>
RoleId == <<"aws_iam_role", "data">>

(* Expressions.                                                            *)
Scalar(v) == [tag |-> "scalar", value |-> v]
Text(s) == [tag |-> "string", text |-> s]
Name(v) == [tag |-> "variable", name |-> v]
GetAttr(n) == [tag |-> "attr", name |-> n]
RefTo(id) == [tag |-> "traversal", base |-> Name(id[1]), ops |-> <<GetAttr(id[2]), GetAttr("arn")>>]
Ask(v) == [tag |-> "traversal", base |-> Name("var"), ops |-> <<GetAttr(v)>>]
Each(id, e) ==
    [tag |-> "traversal", base |-> Name(id[1]), ops |-> <<GetAttr(id[2]), [tag |-> "index", expr |-> e]>>]
Arr(es) == [tag |-> "array", items |-> es]
Obj(pairs) == [tag |-> "object", entries |-> pairs]
Key(n, v) == [key |-> [tag |-> "ident", name |-> n], value |-> v]
ExprKey(e, v) == [key |-> e, value |-> v]
Call(f, args) == [tag |-> "call", name |-> f, args |-> args]
Paren(e) == [tag |-> "paren", inner |-> e]
Tmpl(s, els) == [tag |-> "template", text |-> s, elements |-> els]
Lit == [tag |-> "literal", escaped |-> FALSE]
Escaped == [tag |-> "literal", escaped |-> TRUE]
Interp(e) == [tag |-> "interpolation", expr |-> e]
If(c, a, b) == [tag |-> "if", test |-> c, then |-> a, else |-> b]
For(c, b) == [tag |-> "for", coll |-> c, body |-> b]
Cond(c, a, b) == [tag |-> "cond", test |-> c, then |-> a, else |-> b]
Op(es) == [tag |-> "operation", operands |-> es]
ForExpr(es) == [tag |-> "for", parts |-> es]

One == Scalar("1")

(* Every way to put an expression into another one.                        *)
Around(e) ==
    {Arr(<<One, e>>), Obj(<<Key("k", e)>>), Obj(<<Key("k", e), Key("k", One)>>),
     Call("f", <<One, e>>), Call("jsonencode", <<e>>), Call("jsonencode", <<One, e>>), Paren(e),
     Tmpl("in ${}", <<Lit, Interp(e)>>), Tmpl("%{ if }", <<If(e, <<Lit>>, <<>>)>>),
     Tmpl("%{ if }${}", <<If(One, <<Lit>>, <<Interp(e)>>)>>), Tmpl("%{ for }", <<For(e, <<Lit>>)>>),
     Tmpl("%{ if }$${}", <<If(e, <<Lit>>, <<>>), Escaped>>),
     Cond(e, One, One), Cond(One, e, One), Cond(One, One, e), Op(<<One, e>>), ForExpr(<<One, e>>),
     Each(LogId, e), Obj(<<ExprKey(e, One)>>)}

Leaves == {RefTo(DataId), Ask("bucket"), Text("{}"), One}
Nested(S) == UNION {Around(e) : e \in S}
Exprs == Leaves \cup Nested(Leaves) \cup Nested(Nested({RefTo(DataId)}))

(* JSON texts, one of which holds another, and a text that is none.        *)
MCEmbedded ==
    ("{}" :> [t |-> "object", map |-> (Ident("k") :> [t |-> "text", text |-> "[]"])])
    @@ ("[]" :> [t |-> "array", items |-> <<[t |-> "text", text |-> "plain"]>>])

-----------------------------------------------------------------------------
(* Blocks.                                                                 *)

A(key, e) == [key |-> key, expr |-> e]
In(attrs, blocks) == [attrs |-> attrs, blocks |-> blocks]
Sub(name, body) == [name |-> name, body |-> body]
Block(id, body) == [identifier |-> "resource", labels |-> id, body |-> body]
Nothing == In(<<>>, <<>>)

(* Bodies without references, with one to each kind of target (another     *)
(* block, the block itself, nothing known), with several, with blocks.     *)
Bodies ==
    {Nothing, In(<<A("bucket", RefTo(DataId))>>, <<>>),
     In(<<A("bucket", Arr(<<RefTo(DataId), RefTo(LogId)>>)), A("role", RefTo(RoleId))>>, <<>>),
     In(<<A("bucket", Obj(<<Key("a", RefTo(LogId)), Key("a", RefTo(LogId))>>))>>,
        <<Sub("rule", In(<<A("to", RefTo(LogId))>>, <<Sub("rule", In(<<A("in", Ask("x"))>>, <<>>))>>)),
          Sub("rule", In(<<A("to", One)>>, <<>>))>>)}

Blocks ==
    {Block(id, body) : id \in {DataId, LogId, RoleId}, body \in Bodies}
    \cup {[identifier |-> "other", labels |-> <<"data">>, body |-> Nothing],
          [identifier |-> "resource", labels |-> <<"data">>, body |-> Nothing]}

Plain(id) == Block(id, In(<<A("bucket", RefTo(LogId))>>, <<>>))

(* Attributes, arrays and blocks that share a name.                        *)
SharedNames ==
    {In(<<A("rule", e), A("other", Text("plain"))>>, blocks) :
        e \in {One, Arr(<<One, Text("[]")>>), Text("{}"), RefTo(LogId)},
        blocks \in {<<Sub("rule", Nothing)>>,
                    <<Sub("rule", Nothing), Sub("rule", In(<<A("to", Text("[]"))>>, <<>>)), Sub("x", Nothing)>>}}

ExprBodies == {In(<<A("bucket", e)>>, <<>>) : e \in Exprs}

MCBody == Bodies \cup SharedNames \cup ExprBodies \cup {Plain(DataId).body}

-----------------------------------------------------------------------------
(* Directories.                                                            *)

File(name, ext, readable, parses, body) ==
    [name |-> name, listed |-> TRUE, ext |-> ext, readable |-> readable, parses |-> parses, body |-> body]
Tf(name, body) == File(name, "tf", TRUE, TRUE, body)
Unreadable(name) == File(name, "tf", FALSE, FALSE, <<>>)
Garbled(name) == File(name, "tf", TRUE, FALSE, <<>>)
Other(name) == File(name, "other", FALSE, FALSE, <<>>)
Unlisted(f) == [f EXCEPT !.listed = FALSE]

PairDirs ==
    {{Tf(1, <<b, c>>)} : b \in Blocks, c \in Blocks}
    \cup {{Tf(1, <<b>>), Other(2), Tf(3, <<c, Plain(LogId)>>)} : b \in Blocks, c \in Blocks}

FaultyDirs ==
    {{f, g, h} : f \in {Tf(1, <<Plain(DataId)>>), Unreadable(1), Garbled(1)},
                 g \in {Tf(2, <<Plain(LogId), Plain(DataId)>>), Unreadable(2), Garbled(2)},
                 h \in {Tf(3, <<Plain(LogId)>>), Tf(3, <<>>), Garbled(3),
                         Unlisted(Tf(3, <<Plain(LogId)>>)), Unlisted(Garbled(3))}}

ExprDirs ==
    {{Tf(1, <<Block(RoleId, body), Block(DataId, Nothing), Block(LogId, Nothing)>>)} :
        body \in ExprBodies \cup SharedNames}

MCDirs == PairDirs \cup FaultyDirs \cup ExprDirs \cup {NotADir, {}, {Other(1)}}

=============================================================================
