------------------------------ MODULE HclExpr ------------------------------
(***************************************************************************)
(* What becomes of the expressions of a resource block                     *)
(* (policylens-graph/src/expr.rs, and the end of graph.rs): the references *)
(* collect_traversals finds in them and the JSON value expr_to_json makes  *)
(* of them, for one expression and for a body of attributes and nested     *)
(* blocks.                                                                 *)
(*                                                                         *)
(* An expression is a record whose tag is the variant of hcl's Expression: *)
(*   scalar (null, a boolean, a number) with its value, string with its    *)
(*   text, array with items, object with entries of key and value, call    *)
(*   with name and args, paren with inner, template with its source text   *)
(*   and elements, cond with test, then and else, variable with a name,    *)
(*   traversal with a base and operators (attr with a name, index with an  *)
(*   expression), operation with operands, for with parts.                 *)
(* A template's elements are literal, escaped when its text holds the      *)
(* escape `$${`, interpolation with an expr, if with test, then and else,  *)
(* for with coll and body; a template that does not parse is one literal,  *)
(* escaped when its text holds `${`.  An object's key is an identifier or  *)
(* an expression.                                                          *)
(*                                                                         *)
(* Texts are names here.  Embedded says which of them are JSON objects or  *)
(* arrays once trimmed, and of which value.                                *)
(***************************************************************************)
EXTENDS Integers, Sequences, FiniteSets, SequencesExt, FiniteSetsExt

CONSTANT Embedded   \* a function from texts to JSON values

RESERVED_ROOTS ==
    {"var", "local", "data", "each", "count", "self", "path", "terraform", "module"}

-----------------------------------------------------------------------------
(* References.  A path is a sequence of segments: names, array positions   *)
(* and argument positions.                                                 *)

Ident(name) == <<"ident", name>>
IndexFromOne(i) == <<"index", i>>
Index(i) == <<"index", i - 1>>
Arg(i) == <<"arg", i - 1>>

(* object_key_to_string; the text of a key expression is never a plain     *)
(* name, a quoted one keeps its quotes.                                    *)
KeyText(key) == IF key.tag = "ident" THEN Ident(key.name) ELSE <<"text", key>>

(* traversal_root_and_path, up to the first index or splat.                *)
DottedWhole(t) ==
    IF t.base.tag # "variable" \/ \E op \in ToSet(t.ops) : op.tag # "attr" THEN <<>>
    ELSE <<t.base.name>> \o [i \in 1..Len(t.ops) |-> t.ops[i].name]

Dotted(t) ==
    LET stop == SelectInSeq(t.ops, LAMBDA op : op.tag # "attr")
        names == IF stop = 0 THEN t.ops ELSE SubSeq(t.ops, 1, stop - 1)
    IN  IF t.base.tag # "variable" THEN <<>>
        ELSE <<t.base.name>> \o [i \in 1..Len(names) |-> names[i].name]

(* The address a traversal refers to, if any.                              *)
Targets(t) ==
    IF Len(Dotted(t)) < 2 \/ Dotted(t)[1] \in RESERVED_ROOTS THEN <<>>
    ELSE << <<Dotted(t)[1], Dotted(t)[2]>> >>

OwnRefs(e, path) ==
    IF e.tag # "traversal" THEN <<>>
    ELSE [i \in 1..Len(Targets(e)) |-> [path |-> path, target |-> Targets(e)[i]]]

(* The expressions in a template's elements, in order: its interpolations, *)
(* the headers of its directives and what is in their branches.            *)
RECURSIVE ElementExprs(_)
ElementExprs(elements) ==
    FlattenSeq([i \in 1..Len(elements) |->
        LET el == elements[i]
        IN  CASE el.tag = "literal" -> <<>>
              [] el.tag = "interpolation" -> <<el.expr>>
              [] el.tag = "if" -> <<el.test>> \o ElementExprs(el.then) \o ElementExprs(el.else)
              [] el.tag = "for" -> <<el.coll>> \o ElementExprs(el.body)])

(* The sub-expressions collect_traversals goes on to, and under what path. *)
(* Tests of conditionals, operations, for expressions, index operators and *)
(* object keys are not among them.                                         *)
At(path, exprs) == [i \in 1..Len(exprs) |-> [expr |-> exprs[i], path |-> path]]

Walked(e, path) ==
    CASE e.tag = "traversal" -> At(path, <<e.base>>)
      [] e.tag = "array" -> [i \in 1..Len(e.items) |->
            [expr |-> e.items[i], path |-> Append(path, Index(i))]]
      [] e.tag = "object" -> [i \in 1..Len(e.entries) |->
            [expr |-> e.entries[i].value, path |-> Append(path, KeyText(e.entries[i].key))]]
      [] e.tag = "call" -> [i \in 1..Len(e.args) |->
            [expr |-> e.args[i], path |-> Append(path, Arg(i))]]
      [] e.tag = "paren" -> At(path, <<e.inner>>)
      [] e.tag = "template" -> At(path, ElementExprs(e.elements))
      [] e.tag = "cond" -> At(path, <<e.then, e.else>>)
      [] OTHER -> <<>>

RECURSIVE CollectTraversals(_, _)
CollectTraversals(e, path) ==
    LET subs == Walked(e, path)
    IN  OwnRefs(e, path) \o
        FlattenSeq([i \in 1..Len(subs) |-> CollectTraversals(subs[i].expr, subs[i].path)])

(* The attributes of a body in order, then those of its nested blocks      *)
(* (walk_nested_block).                                                    *)
RECURSIVE RefsIn(_, _)
RefsIn(body, prefix) ==
    FlattenSeq([i \in 1..Len(body.attrs) |->
        CollectTraversals(body.attrs[i].expr, Append(prefix, Ident(body.attrs[i].key)))])
    \o FlattenSeq([i \in 1..Len(body.blocks) |->
        RefsIn(body.blocks[i].body, Append(prefix, Ident(body.blocks[i].name)))])

-----------------------------------------------------------------------------
(* JSON: scalars, texts, arrays, objects, and the strings that start with  *)
(* "unresolved:", which hold the name of a call or the text of another     *)
(* expression.                                                             *)

(* All expressions in an expression, keys of objects apart.                *)
Parts(e) ==
    CASE e.tag = "traversal" -> {e.base} \cup {op.expr : op \in {o \in ToSet(e.ops) : o.tag = "index"}}
      [] e.tag = "array" -> ToSet(e.items)
      [] e.tag = "object" -> {entry.value : entry \in ToSet(e.entries)}
      [] e.tag = "call" -> ToSet(e.args)
      [] e.tag = "paren" -> {e.inner}
      [] e.tag = "template" -> ToSet(ElementExprs(e.elements))
      [] e.tag = "cond" -> {e.test, e.then, e.else}
      [] e.tag = "operation" -> ToSet(e.operands)
      [] e.tag = "for" -> ToSet(e.parts)
      [] OTHER -> {}
KeyExprs(e) ==
    IF e.tag # "object" THEN {}
    ELSE {entry.key : entry \in {x \in ToSet(e.entries) : x.key.tag # "ident"}}

(* The text of a template, its directives with their headers included,     *)
(* contains `${`.                                                          *)
HasInterpolationOnTop(elements) == \E i \in 1..Len(elements) : elements[i].tag = "interpolation"

RECURSIVE HasInterpolation(_), TextHasInterpolation(_)
TextHasInterpolation(e) ==
    \/ e.tag = "template" /\ HasInterpolation(e.elements)
    \/ \E p \in Parts(e) \cup KeyExprs(e) : TextHasInterpolation(p)
HasInterpolation(elements) ==
    \E i \in 1..Len(elements) :
        LET el == elements[i]
        IN  \/ el.tag = "interpolation"
            \/ el.tag = "literal" /\ el.escaped
            \/ /\ el.tag = "if"
               /\ \/ TextHasInterpolation(el.test)
                  \/ HasInterpolation(el.then) \/ HasInterpolation(el.else)
            \/ el.tag = "for" /\ (TextHasInterpolation(el.coll) \/ HasInterpolation(el.body))

IsJsonencode(e) == e.tag = "call" /\ e.name = "jsonencode" /\ Len(e.args) = 1

(* The second result of expr_to_json.                                      *)
RECURSIVE Unresolved(_)
Unresolved(e) ==
    CASE e.tag \in {"scalar", "string"} -> FALSE
      [] e.tag = "array" -> \E i \in 1..Len(e.items) : Unresolved(e.items[i])
      [] e.tag = "object" -> \E i \in 1..Len(e.entries) : Unresolved(e.entries[i].value)
      [] e.tag = "template" -> HasInterpolation(e.elements)
      [] e.tag = "paren" -> Unresolved(e.inner)
      [] IsJsonencode(e) -> Unresolved(e.args[1])
      [] OTHER -> TRUE

(* Later entries of a key replace earlier ones.                            *)
LastOf(entries, key) == Max({i \in 1..Len(entries) : KeyText(entries[i].key) = key})

(* The first result of expr_to_json.                                       *)
RECURSIVE Json(_)
Json(e) ==
    CASE e.tag = "scalar" -> [t |-> "scalar", value |-> e.value]
      [] e.tag \in {"string", "template"} -> [t |-> "text", text |-> e.text]
      [] e.tag = "array" -> [t |-> "array", items |-> [i \in 1..Len(e.items) |-> Json(e.items[i])]]
      [] e.tag = "object" ->
            [t |-> "object",
             map |-> [k \in {KeyText(e.entries[i].key) : i \in 1..Len(e.entries)} |->
                         Json(e.entries[LastOf(e.entries, k)].value)]]
      [] e.tag = "paren" -> Json(e.inner)
      [] IsJsonencode(e) -> Json(e.args[1])
      [] e.tag = "call" /\ ~IsJsonencode(e) -> [t |-> "unresolved", call |-> e.name]
      [] OTHER -> [t |-> "unresolved", expr |-> e]

(* A nested block joins those of its name, and an attribute of that name,  *)
(* in an array.                                                            *)
BlockOverwrites(map, name, json) == [k \in {name} |-> [t |-> "array", items |-> <<json>>]] @@ map

WithBlock(map, name, json) ==
    LET items == IF name \notin DOMAIN map THEN <<>>
                 ELSE IF map[name].t = "array" THEN map[name].items ELSE <<map[name]>>
    IN  [k \in {name} |-> [t |-> "array", items |-> Append(items, json)]] @@ map

RECURSIVE BodyToJson(_)
BodyToJson(body) ==
    LET keys == {body.attrs[i].key : i \in 1..Len(body.attrs)}
        ofAttrs == [k \in {Ident(key) : key \in keys} |->
                       Json(body.attrs[Max({i \in 1..Len(body.attrs) : body.attrs[i].key = k[2]})].expr)]
    IN  [t |-> "object",
         map |-> FoldLeft(LAMBDA map, b : WithBlock(map, Ident(b.name), BodyToJson(b.body)),
                          ofAttrs, body.blocks)]

RECURSIVE HasUnresolvedAttrs(_)
HasUnresolvedAttrs(body) ==
    \/ \E i \in 1..Len(body.attrs) : Unresolved(body.attrs[i].expr)
    \/ \E i \in 1..Len(body.blocks) : HasUnresolvedAttrs(body.blocks[i].body)

ParsedAsIs(text) == Embedded[text]

RECURSIVE PromoteEmbeddedJson(_)
Reparsed(text) == PromoteEmbeddedJson(Embedded[text])
PromoteEmbeddedJson(v) ==
    CASE v.t = "text" /\ v.text \in DOMAIN Embedded -> Reparsed(v.text)
      [] v.t = "array" -> [v EXCEPT !.items = [i \in DOMAIN @ |-> PromoteEmbeddedJson(@[i])]]
      [] v.t = "object" -> [v EXCEPT !.map = [k \in DOMAIN @ |-> PromoteEmbeddedJson(@[k])]]
      [] OTHER -> v

=============================================================================
