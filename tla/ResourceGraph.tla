--------------------------- MODULE ResourceGraph ---------------------------
(***************************************************************************)
(* The resource graph of module GraphBuild with the expressions of its     *)
(* blocks: what the graph says of the references and values written in     *)
(* them.  An instance gives the parameters of GraphBuild the three         *)
(* definitions below.                                                      *)
(***************************************************************************)
EXTENDS GraphBuild, HclExpr

CollectedRefs(body) == RefsIn(body, <<>>)
PromotedAttrs(body) == PromoteEmbeddedJson(BodyToJson(body))
LeftUnresolved(body) == HasUnresolvedAttrs(body)

-----------------------------------------------------------------------------
(* Properties.                                                             *)

RECURSIVE Inside(_), InsideWithKeys(_), Written(_)
Inside(e) == {e} \cup UNION {Inside(p) : p \in Parts(e)}
InsideWithKeys(e) == {e} \cup UNION {InsideWithKeys(p) : p \in Parts(e) \cup KeyExprs(e)}

(* The expressions of the attributes of a body and of its nested blocks.   *)
Written(body) ==
    {a.expr : a \in ToSet(body.attrs)} \cup UNION {Written(b.body) : b \in ToSet(body.blocks)}
AllIn(body) == UNION {Inside(e) : e \in Written(body)}

Flagged(id) == nodes[index_of[id]].unresolved

IsLiteral(e) == e.tag \in {"scalar", "string", "array", "object", "template", "paren"} \/ IsJsonencode(e)

RECURSIVE ElementsIn(_)
ElementsIn(elements) ==
    LET els == ToSet(elements)
    IN  els \cup UNION {ElementsIn(el.then \o el.else) : el \in {x \in els : x.tag = "if"}}
            \cup UNION {ElementsIn(el.body) : el \in {x \in els : x.tag = "for"}}

(* A template that has directives only.                                    *)
InDirective(e, body) ==
    \E t \in AllIn(body) :
        /\ t.tag = "template" /\ \A el \in ElementsIn(t.elements) : el.tag # "interpolation"
        /\ e \in Inside(t)

(* The sub-expressions an attribute's value may come from or be built of:  *)
(* all but tests, operands, the parts of a for expression and indices.     *)
ValueParts(e) ==
    CASE e.tag = "cond" -> {e.then, e.else}
      [] e.tag = "traversal" -> {e.base}
      [] e.tag \in {"operation", "for"} -> {}
      [] OTHER -> Parts(e)

RECURSIVE ValueOf(_)
ValueOf(e) == {e} \cup UNION {ValueOf(p) : p \in ValueParts(e)}
ValuesOf(body) == UNION {ValueOf(e) : e \in Written(body)}

Mentions(t, id) ==
    /\ t.tag = "traversal" /\ t.base.tag = "variable" /\ t.base.name \notin RESERVED_ROOTS
    /\ Len(t.ops) > 0 /\ t.ops[1].tag = "attr"
    /\ id = <<t.base.name, t.ops[1].name>>

(* What there is at a path below an expression; parentheses, templates and *)
(* conditionals take no segment of it.                                     *)
Below(e, segment) ==
    CASE e.tag = "array" -> {e.items[i] : i \in {j \in 1..Len(e.items) : segment = <<"index", j - 1>>}}
      [] e.tag = "object" -> {x.value : x \in {y \in ToSet(e.entries) : KeyText(y.key) = segment}}
      [] e.tag = "call" -> {e.args[i] : i \in {j \in 1..Len(e.args) : segment = <<"arg", j - 1>>}}
      [] OTHER -> {}
RECURSIVE Follow(_, _), FollowBody(_, _)
Follow(e, path) ==
    (IF path = <<>> THEN {e} ELSE UNION {Follow(x, Tail(path)) : x \in Below(e, Head(path))})
    \cup (IF e.tag \in {"paren", "template", "cond", "traversal"}
          THEN UNION {Follow(x, path) : x \in ValueParts(e)} ELSE {})
FollowBody(body, path) ==
    IF path = <<>> THEN {} ELSE
    UNION {Follow(a.expr, Tail(path)) : a \in {x \in ToSet(body.attrs) : Ident(x.key) = Head(path)}}
    \cup UNION {FollowBody(b.body, Tail(path)) :
                    b \in {x \in ToSet(body.blocks) : Ident(x.name) = Head(path)}}

(* The evidence of an edge leads back to where it was read: at its         *)
(* attribute path, in the block it names, the target is referred to; it is *)
(* never a test, an operand, a part of a for expression or an index.       *)
EvidenceLeadsBack ==
    pc = "built" =>
        \A e \in 1..Len(edges) : \E b \in ResourceBlocks :
            /\ b[1].name = edges[e].evidence.file
            /\ IdOf(BlockAt(b)) = edges[e].evidence.resource_id
            /\ \E t \in FollowBody(BlockAt(b).body, edges[e].evidence.attr_path) :
                  Mentions(t, nodes[edges[e].dst].id)

(* And no other reference is lost: wherever in a block, its nested blocks  *)
(* included, an attribute's value mentions another resource, however deep  *)
(* in arrays, objects, arguments, templates and branches and whatever      *)
(* index follows (expr.rs:126), an edge joins the two at a path that leads *)
(* there.  The tests and operations passed over are a stated limitation    *)
(* (expr.rs:111-118).                                                      *)
EveryReferenceIsEdge ==
    pc = "built" =>
        \A b \in ResourceBlocks : LET from == IdOf(BlockAt(b)) IN
            \A t \in ValuesOf(BlockAt(b).body), to \in Declared \ {from} : Mentions(t, to) =>
                \E e \in 1..Len(edges) :
                    /\ nodes[edges[e].src].id = from /\ nodes[edges[e].dst].id = to
                    /\ t \in FollowBody(BlockAt(b).body, edges[e].evidence.attr_path)

(* The attributes of a resource that does not count as unresolved are what *)
(* was written, but for the headers of template directives and the keys    *)
(* of objects.                                                             *)
UnflaggedIsLiteral ==
    pc = "built" =>
        \A b \in ResourceBlocks : ~Flagged(IdOf(BlockAt(b))) =>
            \A e \in AllIn(BlockAt(b).body) : IsLiteral(e) \/ InDirective(e, BlockAt(b).body)

(* README.md:285 without those exceptions: what is not evaluated is always *)
(* visible rather than silent.                                             *)
UnresolvedAlwaysVisible ==
    pc = "built" =>
        \A b \in ResourceBlocks : ~Flagged(IdOf(BlockAt(b))) =>
            \A w \in Written(BlockAt(b).body) : \A e \in InsideWithKeys(w) : IsLiteral(e)

RECURSIVE ValuesIn(_)
ValuesIn(v) ==
    {v} \cup UNION {ValuesIn(x) : x \in CASE v.t = "array" -> ToSet(v.items)
                                           [] v.t = "object" -> {v.map[key] : key \in DOMAIN v.map}
                                           [] OTHER -> {}}

(* No JSON is left inside a text, however deep: a policy written as JSON   *)
(* text looks to the rules as one written with jsonencode (graph.rs:221).  *)
EmbeddedJsonOpened ==
    \A n \in 1..Len(nodes) : \A v \in ValuesIn(nodes[n].attrs) :
        v.t = "text" => v.text \notin DOMAIN Embedded

BlocksNamed(body, name) == SelectSeq(body.blocks, LAMBDA b : b.name = name)

(* Nested blocks of one name are all kept, in order, also next to an       *)
(* attribute of that name (graph.rs:200).                                  *)
BlocksKept ==
    pc = "built" =>
        \A b \in ResourceBlocks : LET body == BlockAt(b).body IN \A x \in ToSet(body.blocks) :
            LET named == BlocksNamed(body, x.name)
                kept == nodes[index_of[IdOf(BlockAt(b))]].attrs.map[Ident(x.name)].items
            IN  /\ Len(kept) >= Len(named)
                /\ \A i \in 1..Len(named) : kept[Len(kept) - Len(named) + i]
                                             = PromoteEmbeddedJson(BodyToJson(named[i].body))
                /\ x.name \in {a.key : a \in ToSet(body.attrs)} => Len(kept) > Len(named)

=============================================================================
