----------------------------- MODULE GraphBuild -----------------------------
(***************************************************************************)
(* From a directory of Terraform files to the resource graph:              *)
(* policylens-graph/src/parser.rs (parse_directory) and graph.rs           *)
(* (build_graph).  Files are listed and parsed first, then one pass adds   *)
(* the nodes and a second one, when all addresses are known, the edges.    *)
(* Both passes go over the structures of all files in order.               *)
(*                                                                         *)
(* What the expressions of a body come to is a parameter here; module      *)
(* ResourceGraph gives it with the definitions of HclExpr.                 *)
(***************************************************************************)
EXTENDS Integers, Sequences, FiniteSets, SequencesExt, FiniteSetsExt

CONSTANTS
    Dirs,               \* the directories to scan: sets of entries
    NotADir,            \* a path that is no directory
    Label,              \* block labels: resource types and names
    Body,               \* the bodies of blocks: sequences of attributes and
                        \*   of nested blocks
    BodyRefs(_),        \* the references of a body in the order in which they
                        \*   are collected, each a path and a target address
    BodyAttrs(_),       \* the attributes of a body as one JSON object
    BodyUnresolved(_)   \* whether anything in a body is left unresolved

(* The address type.name of a resource is the pair of its first two labels *)
(* (identifiers, so without dots of their own).                            *)
Address == Label \X Label

Structure == [identifier : {"resource", "other"}, labels : Seq(Label), body : Body]

(* `name` is the place of the file in the order of paths; an entry that is *)
(* not `listed` is an error of the iterator, which passes over it.         *)
Entry == [name : Nat, listed : BOOLEAN, ext : {"tf", "other"}, readable : BOOLEAN,
          parses : BOOLEAN, body : Seq(Structure)]

ASSUME DirsAssumption ==
    \A d \in Dirs : d = NotADir \/
        /\ d \subseteq Entry /\ IsFiniteSet(d)
        /\ \A f, g \in d : f.name = g.name => f = g

(* A reference is collected under the attribute or block it stands in.     *)
ASSUME BodyAssumption ==
    \A body \in Body :
        LET refs == BodyRefs(body) IN
        /\ Len(refs) \in Nat /\ refs = [i \in 1..Len(refs) |-> refs[i]]
        /\ \A i \in 1..Len(refs) :
              /\ refs[i] = [path |-> refs[i].path, target |-> refs[i].target]
              /\ refs[i].path # <<>>
        /\ BodyAttrs(body).t = "object"
        /\ BodyUnresolved(body) \in BOOLEAN

VARIABLES
    dir,            \* the directory being scanned
    pc,             \* where parse_directory and build_graph are
    entries,        \* parse_directory: the .tf files, sorted
    files,          \* parse_directory: the files parsed so far
    k,              \* build_graph: the structure a pass is at
    nodes,          \* the graph's nodes: address, file, attrs, has_unresolved_attrs
    edges,          \* the graph's edges with their evidence
    index_of,       \* the node number of an address
    first_seen,     \* build_graph: the file an address was first seen in
    error           \* the error returned, or NoError

vars == <<dir, pc, entries, files, k, nodes, edges, index_of, first_seen, error>>
graph == <<nodes, edges, index_of, first_seen>>

NoError == [tag |-> "none"]

Init ==
    /\ dir \in Dirs
    /\ pc = "list"
    /\ entries = <<>> /\ files = <<>> /\ k = 1
    /\ nodes = <<>> /\ edges = <<>> /\ index_of = <<>> /\ first_seen = <<>>
    /\ error = NoError

FailAndGoOn(e) == error' = e /\ UNCHANGED pc
Fail(e) == pc' = "failed" /\ error' = e

-----------------------------------------------------------------------------
(* parse_directory.                                                        *)

TfEntries == {f \in dir : f.listed /\ f.ext = "tf"}

Sorted(s) == \A i, j \in 1..Len(s) : i < j => s[i].name < s[j].name

ListDir ==
    /\ pc = "list"
    /\ \/ dir = NotADir /\ Fail([tag |-> "not a directory"]) /\ UNCHANGED entries
       \/ dir # NotADir /\ Fail([tag |-> "reading directory"]) /\ UNCHANGED entries
       \/ /\ dir # NotADir /\ TfEntries = {}
          /\ Fail([tag |-> "no .tf files"]) /\ UNCHANGED entries
       \/ /\ dir # NotADir /\ TfEntries # {}
          /\ pc' = "parse"
          /\ entries' \in [1..Cardinality(TfEntries) -> TfEntries]
          /\ ToSet(entries') = TfEntries
          /\ Sorted(entries')
          /\ UNCHANGED error
    /\ UNCHANGED <<dir, files, k, graph>>

next_entry == entries[Len(files) + 1]

ParseFile ==
    /\ pc = "parse" /\ Len(files) < Len(entries)
    /\ IF ~next_entry.readable
       THEN Fail([tag |-> "reading", file |-> next_entry.name]) /\ UNCHANGED files
       ELSE IF ~next_entry.parses
            THEN Fail([tag |-> "parsing", file |-> next_entry.name]) /\ UNCHANGED files
            ELSE files' = Append(files, next_entry) /\ UNCHANGED <<pc, error>>
    /\ UNCHANGED <<dir, entries, k, graph>>

AllParsed ==
    /\ pc = "parse" /\ Len(files) = Len(entries)
    /\ pc' = "nodes"
    /\ UNCHANGED <<dir, entries, files, k, graph, error>>

-----------------------------------------------------------------------------
(* build_graph.                                                            *)

(* The structures of the files in order, each with the file it is in.      *)
Structures(fs) ==
    FlattenSeq([i \in 1..Len(fs) |->
        [j \in 1..Len(fs[i].body) |-> [file |-> fs[i].name, block |-> fs[i].body[j]]]])

structures == Structures(files)
here == structures[k]

(* Other blocks, and resource blocks without two labels, are passed over.  *)
IsResource(block) == block.identifier = "resource" /\ Len(block.labels) >= 2

IdOf(block) == <<block.labels[1], block.labels[2]>>

SeenInSameFile(s) == IdOf(s.block) \in DOMAIN first_seen /\ first_seen[IdOf(s.block)] = s.file
AlreadySeen(s) == IdOf(s.block) \in DOMAIN first_seen

Extend(f, id, value) == [x \in DOMAIN f \cup {id} |-> IF x = id THEN value ELSE f[x]]

AddNode(s) ==
    LET id == IdOf(s.block)
    IN  /\ nodes' = Append(nodes, [id |-> id, file |-> s.file,
                                   attrs |-> BodyAttrs(s.block.body),
                                   unresolved |-> BodyUnresolved(s.block.body)])
        /\ index_of' = Extend(index_of, id, Len(nodes) + 1)
        /\ first_seen' = Extend(first_seen, id, s.file)
        /\ k' = k + 1

NodePass ==
    /\ pc = "nodes" /\ k <= Len(structures)
    /\ IF ~IsResource(here.block)
       THEN k' = k + 1 /\ UNCHANGED <<pc, graph, error>>
       ELSE IF AlreadySeen(here)
            THEN /\ Fail([tag |-> "duplicate", id |-> IdOf(here.block),
                          first_file |-> first_seen[IdOf(here.block)], second_file |-> here.file])
                 /\ UNCHANGED <<k, graph>>
            ELSE AddNode(here) /\ UNCHANGED <<pc, edges, error>>
    /\ UNCHANGED <<dir, entries, files>>

NodesDone ==
    /\ pc = "nodes" /\ k > Len(structures)
    /\ pc' = "edges" /\ k' = 1
    /\ UNCHANGED <<dir, entries, files, graph, error>>

(* References to itself and to what is no resource of the graph are        *)
(* dropped.                                                                *)
IsEdgeOrLoop(from, r) == r.target \in DOMAIN index_of
IsEdgeBackward(from, r) == r.target \in DOMAIN index_of /\ index_of[r.target] < index_of[from]
IsEdge(from, r) == r.target # from /\ r.target \in DOMAIN index_of

EdgeFor(s, r) ==
    [src |-> index_of[IdOf(s.block)], dst |-> index_of[r.target],
     evidence |-> [file |-> s.file, resource_id |-> IdOf(s.block), attr_path |-> r.path]]

EdgesOf(s) ==
    LET refs == BodyRefs(s.block.body)
    IN  FlattenSeq([i \in 1..Len(refs) |->
            IF IsEdge(IdOf(s.block), refs[i]) THEN <<EdgeFor(s, refs[i])>> ELSE <<>>])

EdgePass ==
    /\ pc = "edges" /\ k <= Len(structures)
    /\ edges' = IF IsResource(here.block) THEN edges \o EdgesOf(here) ELSE edges
    /\ k' = k + 1
    /\ UNCHANGED <<dir, pc, entries, files, nodes, index_of, first_seen, error>>

EdgesDone ==
    /\ pc = "edges" /\ k > Len(structures)
    /\ pc' = "built"
    /\ UNCHANGED <<dir, entries, files, k, graph, error>>

Next ==
    \/ ListDir \/ ParseFile \/ AllParsed
    \/ NodePass \/ NodesDone \/ EdgePass \/ EdgesDone

Spec == Init /\ [][Next]_vars

UnresolvedNodeCount == Cardinality({n \in 1..Len(nodes) : nodes[n].unresolved})

-----------------------------------------------------------------------------
(* Properties.                                                             *)


(* The types of the locals of parse_directory and build_graph: addresses   *)
(* are unique, the index leads from each node's address back to it, and    *)
(* every edge joins two different nodes and carries its source's address   *)
(* and file as evidence.                                                   *)
TypeOK ==
    /\ dir \in Dirs
    /\ pc \in {"list", "parse", "nodes", "edges", "built", "failed"}
    /\ entries \in Seq(Entry) /\ files \in Seq(Entry) /\ Len(files) <= Len(entries)
    /\ k \in 1..(Len(structures) + 1)
    /\ \A n \in 1..Len(nodes) :
          /\ DOMAIN nodes[n] = {"id", "file", "attrs", "unresolved"}
          /\ nodes[n].id \in Address /\ nodes[n].file \in Nat
          /\ nodes[n].attrs.t = "object" /\ nodes[n].unresolved \in BOOLEAN
    /\ DOMAIN index_of \subseteq Address /\ DOMAIN first_seen = DOMAIN index_of
    /\ (pc = "failed") = (error # NoError)
    /\ \A n \in 1..Len(nodes) :
          /\ nodes[n].id \in DOMAIN index_of /\ index_of[nodes[n].id] = n
          /\ first_seen[nodes[n].id] = nodes[n].file
    /\ \A id \in DOMAIN index_of : index_of[id] \in 1..Len(nodes) /\ nodes[index_of[id]].id = id
    /\ \A e \in 1..Len(edges) :
          /\ edges[e].src \in 1..Len(nodes) /\ edges[e].dst \in 1..Len(nodes)
          /\ edges[e].src # edges[e].dst
          /\ edges[e].evidence.attr_path # <<>>
          /\ edges[e].evidence.resource_id = nodes[edges[e].src].id
          /\ edges[e].evidence.file = nodes[edges[e].src].file

(* The resource blocks of the directory, by file and position.             *)
BlockAt(b) == b[1].body[b[2]]
ResourceBlocks ==
    {b \in UNION {{f} \X (1..Len(f.body)) : f \in TfEntries} : IsResource(BlockAt(b))}
Declared == {IdOf(BlockAt(b)) : b \in ResourceBlocks}
Before(b, c) == b[1].name < c[1].name \/ (b[1].name = c[1].name /\ b[2] < c[2])

(* The graph says what the files say and nothing about how they are laid   *)
(* out: one node per resource block, and between two addresses as many     *)
(* edges of an attribute path as the block of the one has references to    *)
(* the other there, whether that is declared before or after it, in the    *)
(* same file or another.  Nodes and edges are numbered in the order of the *)
(* sorted files and of the blocks in them, in whatever order the directory *)
(* is listed, and the count of unresolved nodes is of blocks in which      *)
(* anything is left unresolved.                                            *)
GraphIsDeclaration ==
    pc = "built" =>
        /\ {nodes[n].id : n \in 1..Len(nodes)} = Declared
        /\ Len(nodes) = Cardinality(ResourceBlocks)
        /\ \A m, n \in 1..Len(nodes) : m < n => nodes[m].file <= nodes[n].file
        /\ \A d, e \in 1..Len(edges) : d < e => edges[d].src <= edges[e].src
        /\ UnresolvedNodeCount =
              Cardinality({b \in ResourceBlocks : BodyUnresolved(BlockAt(b).body)})
        /\ \A b \in ResourceBlocks, to \in Declared :
              LET from == IdOf(BlockAt(b))
                  refs == BodyRefs(BlockAt(b).body)
              IN  \A path \in {refs[i].path : i \in 1..Len(refs)}
                                \cup {edges[e].evidence.attr_path : e \in 1..Len(edges)} :
                  Cardinality({e \in 1..Len(edges) :
                                 /\ edges[e].evidence.attr_path = path
                                 /\ nodes[edges[e].src].id = from
                                 /\ nodes[edges[e].dst].id = to})
                  = IF to = from THEN 0
                    ELSE Cardinality({i \in 1..Len(refs) : refs[i] = [path |-> path, target |-> to]})

(* A graph is built only of listed files without fault.  Otherwise, unless *)
(* the directory cannot be listed, the first fault in the order of names   *)
(* decides: any file that cannot be read or parsed before any duplicate,   *)
(* and of the duplicates the one whose second block comes first, reported  *)
(* with the files of both.                                                 *)
FirstFaultDecides ==
    dir # NotADir =>
        LET bad == {f \in TfEntries : ~f.readable \/ ~f.parses}
            twice == {p \in ResourceBlocks \X ResourceBlocks :
                         Before(p[1], p[2]) /\ IdOf(BlockAt(p[1])) = IdOf(BlockAt(p[2]))}
        IN  /\ pc = "built" => bad = {} /\ twice = {} /\ TfEntries # {}
            /\ error.tag \in {"reading", "parsing"} =>
                  \E f \in bad : /\ \A g \in bad : f.name <= g.name
                                 /\ error = [tag |-> IF f.readable THEN "parsing" ELSE "reading",
                                             file |-> f.name]
            /\ error.tag = "duplicate" =>
                  /\ bad = {}
                  /\ \E p \in twice :
                        /\ \A q \in twice : p[2] = q[2] \/ Before(p[2], q[2])
                        /\ \A q \in twice : p[2] = q[2] => p[1] = q[1] \/ Before(p[1], q[1])
                        /\ error = [tag |-> "duplicate", id |-> IdOf(BlockAt(p[1])),
                                    first_file |-> p[1][1].name, second_file |-> p[2][1].name]

=============================================================================
