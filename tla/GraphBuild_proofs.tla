------------------------- MODULE GraphBuild_proofs -------------------------
(***************************************************************************)
(* The graph that build_graph makes of a directory is the one its files    *)
(* declare, for every directory and whatever the expressions of its blocks *)
(* come to.                                                                *)
(*                                                                         *)
(* The invariant follows the two passes over the structures of the files:  *)
(* what has been seen so far has its node, in order, and its edges, as     *)
(* many of each kind as there are references.  Structures are numbered by  *)
(* the passes, and a lemma about FlattenSeq says at which block of which   *)
(* file each number stands.                                                *)
(***************************************************************************)
EXTENDS GraphBuild, SeqLemmas

(* The structures the node pass is done with, and those the edge pass is.  *)
NodesUpto == IF pc \in {"edges", "built"} THEN Len(structures) ELSE k - 1
EdgesUpto == IF pc \in {"edges", "built"} THEN k - 1 ELSE 0

Resources(m) == {j \in 1..m : IsResource(structures[j].block)}
IdAt(j) == IdOf(structures[j].block)
NumberAt(j) == index_of[IdAt(j)]

NodeFor(s) == [id |-> IdOf(s.block), file |-> s.file, attrs |-> BodyAttrs(s.block.body),
               unresolved |-> BodyUnresolved(s.block.body)]

Path == UNION {{BodyRefs(body)[i].path : i \in 1..Len(BodyRefs(body))} : body \in Body}
Node == [id : Address, file : Nat, attrs : {BodyAttrs(body) : body \in Body}, unresolved : BOOLEAN]
Edge == [src : Nat, dst : Nat,
         evidence : [file : Nat, resource_id : Address, attr_path : Path]]

PhaseOK ==
    /\ dir \in Dirs
    /\ pc \in {"list", "parse", "nodes", "edges", "built", "failed"}
    /\ k \in Nat \ {0}
    /\ pc # "failed" => error = NoError
    /\ pc = "failed" => error.tag # "none"
    /\ pc \in {"list", "parse"} => k = 1
    /\ pc = "list" => files = <<>>
    /\ pc = "built" => k = Len(structures) + 1

(* The files parsed so far come first in the order of names, and have no   *)
(* fault.                                                                  *)
Listed ==
    /\ entries \in [1..Cardinality(TfEntries) -> TfEntries]
    /\ \A f \in TfEntries : \E i \in 1..Len(entries) : entries[i] = f
    /\ Sorted(entries)
    /\ TfEntries # {}

ReadSoFar ==
    /\ entries \in Seq(Entry) /\ files \in Seq(Entry) /\ Len(files) <= Len(entries)
    /\ \A i \in 1..Len(files) : files[i] = entries[i] /\ files[i].readable /\ files[i].parses
    /\ pc \in {"parse", "nodes", "edges", "built"} => dir # NotADir /\ Listed
    /\ pc \in {"nodes", "edges", "built"} => Len(files) = Len(entries)

(* Every structure gone by has its node, numbered in their order.          *)
NodesOK ==
    /\ nodes \in Seq(Node)
    /\ NodesUpto <= Len(structures)
    /\ DOMAIN index_of = {IdAt(j) : j \in Resources(NodesUpto)}
    /\ DOMAIN first_seen = DOMAIN index_of
    /\ \A j \in Resources(NodesUpto) :
          /\ NumberAt(j) \in 1..Len(nodes)
          /\ nodes[NumberAt(j)] = NodeFor(structures[j])
          /\ first_seen[IdAt(j)] = structures[j].file
    /\ \A i, j \in Resources(NodesUpto) : i < j => NumberAt(i) < NumberAt(j)
    /\ \A n \in 1..Len(nodes) : \E j \in Resources(NodesUpto) : NumberAt(j) = n

(* Every edge is one of a reference gone by, in the order of its sources,  *)
(* and there are as many alike as there are references alike.              *)
RefsAt(j) == BodyRefs(structures[j].block.body)
Leads(j, i) == IsEdge(IdAt(j), RefsAt(j)[i])
EdgeAt(j, i) == EdgeFor(structures[j], RefsAt(j)[i])

EdgesOK ==
    /\ edges \in Seq(Edge)
    /\ EdgesUpto <= Len(structures)
    /\ \A d \in 1..Len(edges) : \E j \in Resources(EdgesUpto) : \E i \in 1..Len(RefsAt(j)) :
          Leads(j, i) /\ edges[d] = EdgeAt(j, i)
    /\ \A d, e \in 1..Len(edges) : d < e => edges[d].src <= edges[e].src
    /\ \A j \in Resources(EdgesUpto) : \A i \in 1..Len(RefsAt(j)) :
          Leads(j, i) => Count(edges, {EdgeAt(j, i)}) = Count(RefsAt(j), {RefsAt(j)[i]})

(* Why a build that failed did.                                            *)
FailedParsing ==
    error.tag \in {"reading", "parsing"} =>
        /\ Len(files) < Len(entries) /\ Listed
        /\ ~next_entry.readable \/ ~next_entry.parses
        /\ error = [tag |-> IF next_entry.readable THEN "parsing" ELSE "reading",
                    file |-> next_entry.name]

FailedTwice ==
    error.tag = "duplicate" =>
        /\ Len(files) = Len(entries) /\ Listed
        /\ k <= Len(structures) /\ IsResource(here.block)
        /\ \E j \in Resources(k - 1) :
              /\ IdAt(j) = IdAt(k)
              /\ error = [tag |-> "duplicate", id |-> IdAt(k),
                          first_file |-> structures[j].file, second_file |-> structures[k].file]

GInv == PhaseOK /\ ReadSoFar /\ NodesOK /\ EdgesOK /\ FailedParsing /\ FailedTwice

-----------------------------------------------------------------------------
(* Directories, and the structures of their files.                         *)

LEMMA DirFacts ==
    ASSUME dir \in Dirs, dir # NotADir
    PROVE  /\ TfEntries \subseteq Entry /\ IsFiniteSet(TfEntries)
           /\ \A f, g \in TfEntries : f.name = g.name => f = g
<1>1. /\ dir \subseteq Entry /\ IsFiniteSet(dir)
      /\ \A f, g \in dir : f.name = g.name => f = g
  BY DirsAssumption
<1>2. TfEntries \subseteq dir
  BY DEF TfEntries
<1> QED BY <1>1, <1>2, FS_Subset

Placed == [file : Nat, block : Structure]
OfFile(f) == [j \in 1..Len(f.body) |-> [file |-> f.name, block |-> f.body[j]]]
Listings(fs) == [i \in 1..Len(fs) |-> OfFile(fs[i])]

LEMMA StructuresAre ==
    ASSUME NEW fs
    PROVE  Structures(fs) = FlattenSeq(Listings(fs))
BY DEF Structures, Listings, OfFile

LEMMA ListingsTyped ==
    ASSUME NEW fs \in Seq(Entry)
    PROVE  /\ Listings(fs) \in Seq(Seq(Placed))
           /\ Len(Listings(fs)) = Len(fs)
           /\ \A i \in 1..Len(fs) :
                 /\ Listings(fs)[i] = OfFile(fs[i])
                 /\ Len(OfFile(fs[i])) = Len(fs[i].body)
                 /\ \A c \in 1..Len(fs[i].body) :
                       OfFile(fs[i])[c] = [file |-> fs[i].name, block |-> fs[i].body[c]]
<1>1. Len(fs) \in Nat
  BY LenProperties
<1>2. ASSUME NEW i \in 1..Len(fs)
      PROVE  /\ OfFile(fs[i]) \in Seq(Placed)
             /\ Len(OfFile(fs[i])) = Len(fs[i].body)
             /\ \A c \in 1..Len(fs[i].body) :
                   OfFile(fs[i])[c] = [file |-> fs[i].name, block |-> fs[i].body[c]]
  <2>1. fs[i] \in Entry
    BY ElementOfSeq
  <2>2. fs[i].name \in Nat /\ fs[i].body \in Seq(Structure)
    BY <2>1 DEF Entry
  <2>3. Len(fs[i].body) \in Nat /\ \A c \in 1..Len(fs[i].body) : fs[i].body[c] \in Structure
    BY <2>2, LenProperties, ElementOfSeq
  <2>4. OfFile(fs[i]) \in [1..Len(fs[i].body) -> Placed]
    BY <2>2, <2>3 DEF OfFile, Placed
  <2> QED BY <2>3, <2>4 DEF OfFile
<1>3. Listings(fs) \in [1..Len(fs) -> Seq(Placed)]
  BY <1>2 DEF Listings
<1> QED BY <1>1, <1>2, <1>3 DEF Listings

LEMMA StructuresTyped ==
    ASSUME NEW fs \in Seq(Entry)
    PROVE  /\ Structures(fs) \in Seq(Placed) /\ Len(Structures(fs)) \in Nat
           /\ \A j \in 1..Len(Structures(fs)) :
                 /\ Structures(fs)[j].file \in Nat
                 /\ Structures(fs)[j].block \in Structure
                 /\ Structures(fs)[j].block.body \in Body
                 /\ IsResource(Structures(fs)[j].block) => IdOf(Structures(fs)[j].block) \in Address
<1>1. Structures(fs) \in Seq(Placed)
  BY StructuresAre, ListingsTyped, InFlatten
<1>2. Len(Structures(fs)) \in Nat
  BY <1>1, LenProperties
<1>3. ASSUME NEW j \in 1..Len(Structures(fs))
      PROVE  /\ Structures(fs)[j].file \in Nat
             /\ Structures(fs)[j].block \in Structure
             /\ Structures(fs)[j].block.body \in Body
             /\ IsResource(Structures(fs)[j].block) => IdOf(Structures(fs)[j].block) \in Address
  <2>1. Structures(fs)[j] \in Placed
    BY <1>1, ElementOfSeq
  <2>2. Structures(fs)[j].file \in Nat /\ Structures(fs)[j].block \in Structure
    BY <2>1 DEF Placed
  <2>3. Structures(fs)[j].block.body \in Body /\ Structures(fs)[j].block.labels \in Seq(Label)
    BY <2>2 DEF Structure
  <2>4. ASSUME IsResource(Structures(fs)[j].block)
        PROVE  IdOf(Structures(fs)[j].block) \in Address
    <3> DEFINE labels == Structures(fs)[j].block.labels
    <3>1. Len(labels) >= 2 /\ Len(labels) \in Nat
      BY <2>3, <2>4, LenProperties DEF IsResource
    <3>2. labels[1] \in Label /\ labels[2] \in Label
      BY <2>3, <3>1, ElementOfSeq
    <3> QED BY <3>2 DEF IdOf, Address
  <2> QED BY <2>2, <2>3, <2>4
<1> QED BY <1>1, <1>2, <1>3

(* Each structure stands at one block of one file; the numbers of the      *)
(* structures go by files first and by places in the file then.            *)
Laid(part, place) ==
    /\ \A j \in 1..Len(structures) :
          /\ part[j] \in 1..Len(files)
          /\ place[j] \in Nat /\ place[j] \in 1..Len(files[part[j]].body)
          /\ structures[j].file = files[part[j]].name
          /\ structures[j].block = files[part[j]].body[place[j]]
    /\ \A i, j \in 1..Len(structures) :
          i < j => part[i] < part[j] \/ (part[i] = part[j] /\ place[i] < place[j])
    /\ \A i \in 1..Len(files) : \A c \in 1..Len(files[i].body) :
          \E j \in 1..Len(structures) : part[j] = i /\ place[j] = c

LEMMA StructuresLaid ==
    ASSUME files \in Seq(Entry)
    PROVE  \E part, place : Laid(part, place)
<1> DEFINE lists == Listings(files)
<1>1. /\ lists \in Seq(Seq(Placed)) /\ Len(lists) = Len(files)
      /\ \A i \in 1..Len(files) :
            /\ lists[i] = OfFile(files[i]) /\ Len(lists[i]) = Len(files[i].body)
            /\ \A c \in 1..Len(files[i].body) :
                  lists[i][c] = [file |-> files[i].name, block |-> files[i].body[c]]
  BY ListingsTyped
<1>2. structures = FlattenSeq(lists)
  BY StructuresAre DEF structures
<1> HIDE DEF lists
<1>3. PICK part, place : Lays(part, place, structures, lists, Len(files))
  BY <1>1, <1>2, FlattenPlaces
<1>4. ASSUME NEW j \in 1..Len(structures)
      PROVE  /\ part[j] \in 1..Len(files)
             /\ place[j] \in Nat /\ place[j] \in 1..Len(files[part[j]].body)
             /\ structures[j].file = files[part[j]].name
             /\ structures[j].block = files[part[j]].body[place[j]]
  <2>1. /\ part[j] \in 1..Len(files) /\ place[j] \in Nat
        /\ place[j] \in 1..Len(lists[part[j]]) /\ structures[j] = lists[part[j]][place[j]]
    BY <1>3 DEF Lays
  <2>2. lists[part[j]] = OfFile(files[part[j]]) /\ Len(lists[part[j]]) = Len(files[part[j]].body)
    BY <1>1, <2>1
  <2>3. place[j] \in 1..Len(files[part[j]].body)
    BY <2>1, <2>2
  <2>4. structures[j] = [file |-> files[part[j]].name, block |-> files[part[j]].body[place[j]]]
    BY <1>1, <2>1, <2>3
  <2> QED BY <2>1, <2>3, <2>4
<1>5. \A i, j \in 1..Len(structures) :
         i < j => part[i] < part[j] \/ (part[i] = part[j] /\ place[i] < place[j])
  BY <1>3 DEF Lays
<1>6. ASSUME NEW i \in 1..Len(files), NEW c \in 1..Len(files[i].body)
      PROVE  \E j \in 1..Len(structures) : part[j] = i /\ place[j] = c
  <2>1. c \in 1..Len(lists[i])
    BY <1>1
  <2> QED BY <1>3, <2>1 DEF Lays
<1>7. Laid(part, place)
  BY <1>4, <1>5, <1>6 DEF Laid
<1> QED BY <1>7

-----------------------------------------------------------------------------
(* The invariant: what a step that touches neither nodes nor edges leaves. *)

LEMMA SameNodes ==
    ASSUME NodesOK, UNCHANGED <<files, nodes, index_of, first_seen>>, NodesUpto' = NodesUpto
    PROVE  NodesOK'
<1>1. structures' = structures
  BY DEF structures
<1>2. \A m : Resources(m)' = Resources(m)
  BY <1>1 DEF Resources
<1>3. \A j : IdAt(j)' = IdAt(j)
  BY <1>1 DEF IdAt
<1>4. \A j : NumberAt(j)' = NumberAt(j)
  BY <1>3 DEF NumberAt
<1> QED BY <1>1, <1>2, <1>3, <1>4 DEF NodesOK

LEMMA SameEdges ==
    ASSUME EdgesOK, UNCHANGED <<files, edges, index_of>>, EdgesUpto' = EdgesUpto
    PROVE  EdgesOK'
<1>1. structures' = structures
  BY DEF structures
<1>2. \A m : Resources(m)' = Resources(m)
  BY <1>1 DEF Resources
<1>3. \A j : RefsAt(j)' = RefsAt(j)
  BY <1>1 DEF RefsAt
<1>4. \A j, i : Leads(j, i)' <=> Leads(j, i)
  BY <1>1, <1>3 DEF Leads, IdAt, IsEdge
<1>5. \A j, i : EdgeAt(j, i)' = EdgeAt(j, i)
  BY <1>1, <1>3 DEF EdgeAt, EdgeFor
<1> QED BY <1>1, <1>2, <1>3, <1>4, <1>5 DEF EdgesOK

LEMMA NoNodesYet ==
    ASSUME NodesOK, NodesUpto = 0, NodesUpto' = 0, UNCHANGED <<nodes, index_of, first_seen>>,
           Len(structures') \in Nat
    PROVE  NodesOK'
<1>1. Resources(0) = {} /\ Resources(0)' = {}
  BY DEF Resources
<1> QED BY <1>1 DEF NodesOK

LEMMA NoEdgesYet ==
    ASSUME EdgesOK, EdgesUpto = 0, EdgesUpto' = 0, edges' = edges, Len(structures') \in Nat
    PROVE  EdgesOK'
<1>1. Resources(0) = {} /\ Resources(0)' = {}
  BY DEF Resources
<1>2. edges \in Seq(Edge) /\ Len(edges) \in Nat /\ \A d \in 1..Len(edges) : FALSE
  BY <1>1, LenProperties DEF EdgesOK
<1> QED BY <1>1, <1>2 DEF EdgesOK

LEMMA InitG == Init => GInv
<1> SUFFICES ASSUME Init PROVE GInv
  OBVIOUS
<1> USE DEF Init
<1>1. /\ files \in Seq(Entry) /\ entries \in Seq(Entry) /\ Len(files) = 0 /\ Len(entries) = 0
      /\ nodes \in Seq(Node) /\ Len(nodes) = 0 /\ edges \in Seq(Edge) /\ Len(edges) = 0
  BY EmptySeq
<1>2. Len(structures) \in Nat
  BY <1>1, StructuresTyped DEF structures
<1>3. Resources(0) = {} /\ NodesUpto = 0 /\ EdgesUpto = 0
  BY DEF Resources, NodesUpto, EdgesUpto
<1>4. PhaseOK
  BY DEF PhaseOK, NoError
<1>5. ReadSoFar
  BY <1>1 DEF ReadSoFar
<1>6. NodesOK
  <2>1. DOMAIN index_of = {} /\ DOMAIN first_seen = {}
    OBVIOUS
  <2>2. {IdAt(j) : j \in Resources(NodesUpto)} = {}
    BY <1>3
  <2> QED BY <1>1, <1>2, <1>3, <2>1, <2>2 DEF NodesOK
<1>7. EdgesOK
  BY <1>1, <1>2, <1>3 DEF EdgesOK
<1>8. FailedParsing /\ FailedTwice
  BY DEF FailedParsing, FailedTwice, NoError
<1> QED BY <1>4, <1>5, <1>6, <1>7, <1>8 DEF GInv

LEMMA ListDirStep == GInv /\ ListDir => GInv'
<1> SUFFICES ASSUME GInv, ListDir PROVE GInv'
  OBVIOUS
<1>1. /\ PhaseOK /\ ReadSoFar /\ NodesOK /\ EdgesOK
      /\ pc = "list" /\ k = 1 /\ files = <<>> /\ error = NoError
      /\ UNCHANGED <<dir, files, k, nodes, edges, index_of, first_seen>>
  BY DEF GInv, ListDir, PhaseOK, graph
<1>2. pc' \in {"failed", "parse"}
  BY DEF ListDir, Fail
<1>3. NodesUpto' = NodesUpto /\ EdgesUpto' = EdgesUpto
  BY <1>1, <1>2 DEF NodesUpto, EdgesUpto
<1>4. NodesOK' /\ EdgesOK'
  BY <1>1, <1>3, SameNodes, SameEdges
<1>5. TfEntries' = TfEntries
  BY <1>1 DEF TfEntries
<1>6. Len(files) = 0 /\ files' = files
  BY <1>1, EmptySeq
<1>7. CASE pc' = "failed"
  <2>1. /\ entries' = entries
        /\ \/ error' = [tag |-> "not a directory"]
           \/ error' = [tag |-> "reading directory"]
           \/ error' = [tag |-> "no .tf files"]
    BY <1>7 DEF ListDir, Fail
  <2>2. error'.tag \notin {"none", "reading", "parsing", "duplicate"}
    <3>1. /\ [tag |-> "not a directory"].tag = "not a directory"
          /\ [tag |-> "reading directory"].tag = "reading directory"
          /\ [tag |-> "no .tf files"].tag = "no .tf files"
      OBVIOUS
    <3> QED BY <2>1, <3>1
  <2>3. PhaseOK'
    BY <1>1, <1>7, <2>2 DEF PhaseOK
  <2>4. ReadSoFar'
    BY <1>1, <1>6, <1>7, <2>1 DEF ReadSoFar
  <2>5. FailedParsing' /\ FailedTwice'
    BY <2>2 DEF FailedParsing, FailedTwice
  <2> QED BY <1>4, <2>3, <2>4, <2>5 DEF GInv
<1>8. CASE pc' = "parse"
  <2>1. /\ dir # NotADir /\ TfEntries # {} /\ error' = error
        /\ entries' \in [1..Cardinality(TfEntries) -> TfEntries]
        /\ ToSet(entries') = TfEntries /\ Sorted(entries')
    BY <1>8 DEF ListDir, Fail
  <2>2. TfEntries \subseteq Entry /\ Cardinality(TfEntries) \in Nat
    BY <1>1, <2>1, DirFacts, FS_CardinalityType DEF PhaseOK
  <2>3. entries' \in Seq(Entry) /\ Len(entries') = Cardinality(TfEntries)
    BY <2>1, <2>2
  <2>4. \A f \in TfEntries : \E i \in 1..Len(entries') : entries'[i] = f
    BY <2>1, <2>3 DEF ToSet
  <2>5. Listed'
    BY <1>5, <2>1, <2>4 DEF Listed
  <2>6. PhaseOK'
    BY <1>1, <1>8, <2>1 DEF PhaseOK
  <2>7. ReadSoFar'
    BY <1>1, <1>6, <1>8, <2>1, <2>2, <2>3, <2>5 DEF ReadSoFar
  <2>8. FailedParsing' /\ FailedTwice'
    BY <1>1, <2>1 DEF FailedParsing, FailedTwice, NoError
  <2> QED BY <1>4, <2>6, <2>7, <2>8 DEF GInv
<1> QED BY <1>2, <1>7, <1>8

LEMMA ParseFileStep == GInv /\ ParseFile => GInv'
<1> SUFFICES ASSUME GInv, ParseFile PROVE GInv'
  OBVIOUS
<1>1. /\ PhaseOK /\ ReadSoFar /\ NodesOK /\ EdgesOK
      /\ pc = "parse" /\ k = 1 /\ error = NoError /\ dir # NotADir /\ Listed
      /\ Len(files) < Len(entries)
      /\ UNCHANGED <<dir, entries, k, nodes, edges, index_of, first_seen>>
  BY DEF GInv, ParseFile, PhaseOK, ReadSoFar, graph
<1>2. /\ entries \in Seq(Entry) /\ files \in Seq(Entry) /\ Len(files) \in Nat /\ Len(entries) \in Nat
      /\ \A i \in 1..Len(files) : files[i] = entries[i] /\ files[i].readable /\ files[i].parses
  BY <1>1, LenProperties DEF ReadSoFar
<1>3. next_entry \in Entry
  BY <1>1, <1>2, ElementOfSeq DEF next_entry
<1>4. /\ pc' \in {"failed", "parse"}
      /\ files' = files \/ files' = Append(files, next_entry)
  BY <1>1 DEF ParseFile, Fail
<1>5. files' \in Seq(Entry)
  BY <1>2, <1>3, <1>4, AppendProperties
<1>6. Len(structures') \in Nat
  BY <1>5, StructuresTyped DEF structures
<1>7. NodesUpto = 0 /\ NodesUpto' = 0 /\ EdgesUpto = 0 /\ EdgesUpto' = 0
  BY <1>1, <1>4 DEF NodesUpto, EdgesUpto
<1>8. NodesOK' /\ EdgesOK'
  BY <1>1, <1>6, <1>7, NoNodesYet, NoEdgesYet
<1>9. TfEntries' = TfEntries
  BY <1>1 DEF TfEntries
<1>10. Listed'
  BY <1>1, <1>9 DEF Listed
<1>11. CASE ~next_entry.readable \/ ~next_entry.parses
  <2>1. /\ pc' = "failed" /\ files' = files
        /\ error' = [tag |-> IF next_entry.readable THEN "parsing" ELSE "reading",
                     file |-> next_entry.name]
    BY <1>11 DEF ParseFile, Fail
  <2>2. error'.tag \in {"parsing", "reading"}
    BY <2>1
  <2>3. PhaseOK'
    BY <1>1, <2>1, <2>2 DEF PhaseOK
  <2>4. ReadSoFar'
    BY <1>1, <1>2, <2>1 DEF ReadSoFar
  <2>5. next_entry' = next_entry
    BY <1>1, <2>1 DEF next_entry
  <2>6. FailedParsing'
    BY <1>1, <1>10, <1>11, <2>1, <2>5 DEF FailedParsing
  <2>7. FailedTwice'
    BY <2>2 DEF FailedTwice
  <2> QED BY <1>8, <2>3, <2>4, <2>6, <2>7 DEF GInv
<1>12. CASE next_entry.readable /\ next_entry.parses
  <2>1. pc' = pc /\ error' = error /\ files' = Append(files, next_entry)
    BY <1>12 DEF ParseFile
  <2>2. /\ Len(files') = Len(files) + 1
        /\ \A i \in 1..Len(files) : files'[i] = files[i]
        /\ files'[Len(files) + 1] = next_entry
    BY <1>2, <1>3, <2>1, AppendProperties
  <2>3. \A i \in 1..Len(files') : files'[i] = entries[i] /\ files'[i].readable /\ files'[i].parses
    <3> TAKE i \in 1..Len(files')
    <3>1. CASE i \in 1..Len(files)
      BY <1>2, <2>2, <3>1
    <3>2. CASE i = Len(files) + 1
      BY <1>12, <2>2, <3>2 DEF next_entry
    <3> QED BY <1>2, <2>2, <3>1, <3>2
  <2>4. PhaseOK'
    BY <1>1, <2>1 DEF PhaseOK
  <2>5. ReadSoFar'
    BY <1>1, <1>2, <1>5, <1>10, <2>1, <2>2, <2>3 DEF ReadSoFar
  <2>6. FailedParsing' /\ FailedTwice'
    BY <1>1, <2>1 DEF FailedParsing, FailedTwice, NoError
  <2> QED BY <1>8, <2>4, <2>5, <2>6 DEF GInv
<1> QED BY <1>11, <1>12

(* The steps that only go on to the next phase.                            *)
LEMMA PhaseStep == GInv /\ (AllParsed \/ NodesDone \/ EdgesDone) => GInv'
<1> SUFFICES ASSUME GInv, AllParsed \/ NodesDone \/ EdgesDone PROVE GInv'
  OBVIOUS
<1>1. /\ PhaseOK /\ ReadSoFar /\ NodesOK /\ EdgesOK
      /\ pc \in {"parse", "nodes", "edges"} /\ error = NoError
      /\ UNCHANGED <<dir, entries, files, nodes, edges, index_of, first_seen, error>>
      /\ pc = "parse" => Len(files) = Len(entries) /\ k' = k /\ pc' = "nodes"
      /\ pc = "nodes" => k > Len(structures) /\ k' = 1 /\ pc' = "edges"
      /\ pc = "edges" => k > Len(structures) /\ k' = k /\ pc' = "built"
  BY DEF GInv, AllParsed, NodesDone, EdgesDone, PhaseOK, graph
<1>2. files \in Seq(Entry) /\ Len(structures) \in Nat
  BY <1>1, StructuresTyped DEF ReadSoFar, structures
<1>3. k \in Nat \ {0} /\ NodesUpto <= Len(structures) /\ EdgesUpto <= Len(structures)
  BY <1>1 DEF PhaseOK, NodesOK, EdgesOK
<1>4. structures' = structures
  BY <1>1 DEF structures
<1>5. NodesUpto' = NodesUpto /\ EdgesUpto' = EdgesUpto
  BY <1>1, <1>2, <1>3, <1>4 DEF NodesUpto, EdgesUpto
<1>6. NodesOK' /\ EdgesOK'
  BY <1>1, <1>5, SameNodes, SameEdges
<1>7. TfEntries' = TfEntries
  BY <1>1 DEF TfEntries
<1>8. Listed /\ Listed'
  BY <1>1, <1>7 DEF Listed, ReadSoFar
<1>9. PhaseOK'
  BY <1>1, <1>2, <1>3, <1>4 DEF PhaseOK, EdgesUpto
<1>10. ReadSoFar'
  BY <1>1, <1>8 DEF ReadSoFar
<1>11. FailedParsing' /\ FailedTwice'
  BY <1>1 DEF FailedParsing, FailedTwice, NoError
<1> QED BY <1>6, <1>9, <1>10, <1>11 DEF GInv

-----------------------------------------------------------------------------
(* The node pass.                                                          *)

LEMMA NodePassContext ==
    ASSUME GInv, NodePass
    PROVE  /\ PhaseOK /\ ReadSoFar /\ NodesOK /\ EdgesOK /\ Listed
           /\ pc = "nodes" /\ error = NoError /\ Len(files) = Len(entries)
           /\ files \in Seq(Entry) /\ Len(structures) \in Nat
           /\ k \in 1..Len(structures) /\ NodesUpto = k - 1 /\ EdgesUpto = 0
           /\ UNCHANGED <<dir, entries, files>>
           /\ structures' = structures /\ TfEntries' = TfEntries /\ Listed'
<1>1. /\ PhaseOK /\ ReadSoFar /\ NodesOK /\ EdgesOK /\ Listed
      /\ pc = "nodes" /\ error = NoError /\ Len(files) = Len(entries)
      /\ k <= Len(structures) /\ k \in Nat \ {0} /\ files \in Seq(Entry)
      /\ UNCHANGED <<dir, entries, files>>
  BY DEF GInv, NodePass, PhaseOK, ReadSoFar
<1>2. Len(structures) \in Nat
  BY <1>1, StructuresTyped DEF structures
<1>3. structures' = structures /\ TfEntries' = TfEntries
  BY <1>1 DEF structures, TfEntries
<1>4. Listed'
  BY <1>1, <1>3 DEF Listed
<1> QED BY <1>1, <1>2, <1>3, <1>4 DEF NodesUpto, EdgesUpto

(* One structure more is one resource more or none.                        *)
LEMMA ResourcesNext ==
    ASSUME NEW m \in Nat
    PROVE  Resources(m + 1) = IF IsResource(structures[m + 1].block)
                              THEN Resources(m) \cup {m + 1} ELSE Resources(m)
<1>1. \A j : j \in 1..(m + 1) <=> j \in 1..m \/ j = m + 1
  OBVIOUS
<1> QED BY <1>1 DEF Resources

LEMMA PassOver ==
    ASSUME GInv, NodePass, ~IsResource(here.block)
    PROVE  GInv'
<1>1. /\ PhaseOK /\ ReadSoFar /\ NodesOK /\ EdgesOK /\ Listed
      /\ pc = "nodes" /\ error = NoError /\ Len(files) = Len(entries)
      /\ files \in Seq(Entry) /\ Len(structures) \in Nat
      /\ k \in 1..Len(structures) /\ NodesUpto = k - 1 /\ EdgesUpto = 0
      /\ UNCHANGED <<dir, entries, files>>
      /\ structures' = structures /\ TfEntries' = TfEntries /\ Listed'
  BY NodePassContext
<1>2. k' = k + 1 /\ UNCHANGED <<pc, nodes, edges, index_of, first_seen, error>>
  BY DEF NodePass, graph
<1>3. NodesUpto' = k /\ EdgesUpto' = 0
  BY <1>1, <1>2 DEF NodesUpto, EdgesUpto
<1>4. EdgesOK'
  BY <1>1, <1>2, <1>3, SameEdges
<1>5. Resources(k) = Resources(k - 1)
  <2>1. k - 1 \in Nat /\ (k - 1) + 1 = k
    BY <1>1
  <2> QED BY <2>1, ResourcesNext DEF here
<1>6. \A m : Resources(m)' = Resources(m)
  BY <1>1 DEF Resources
<1>7. \A j : IdAt(j)' = IdAt(j) /\ NumberAt(j)' = NumberAt(j)
  BY <1>1, <1>2 DEF IdAt, NumberAt
<1>8. NodesOK'
  BY <1>1, <1>2, <1>3, <1>5, <1>6, <1>7 DEF NodesOK
<1>9. PhaseOK' /\ ReadSoFar'
  BY <1>1, <1>2 DEF PhaseOK, ReadSoFar
<1>10. FailedParsing' /\ FailedTwice'
  BY <1>1, <1>2 DEF FailedParsing, FailedTwice, NoError
<1> QED BY <1>4, <1>8, <1>9, <1>10 DEF GInv

LEMMA FindDuplicate ==
    ASSUME GInv, NodePass, IsResource(here.block), AlreadySeen(here)
    PROVE  GInv'
<1>1. /\ PhaseOK /\ ReadSoFar /\ NodesOK /\ EdgesOK /\ Listed
      /\ pc = "nodes" /\ error = NoError /\ Len(files) = Len(entries)
      /\ files \in Seq(Entry) /\ Len(structures) \in Nat
      /\ k \in 1..Len(structures) /\ NodesUpto = k - 1 /\ EdgesUpto = 0
      /\ UNCHANGED <<dir, entries, files>>
      /\ structures' = structures /\ TfEntries' = TfEntries /\ Listed'
  BY NodePassContext
<1>2. /\ pc' = "failed" /\ UNCHANGED <<k, nodes, edges, index_of, first_seen>>
      /\ error' = [tag |-> "duplicate", id |-> IdOf(here.block),
                   first_file |-> first_seen[IdOf(here.block)], second_file |-> here.file]
  BY DEF NodePass, Fail, graph
<1>3. NodesUpto' = NodesUpto /\ EdgesUpto' = EdgesUpto
  BY <1>1, <1>2 DEF NodesUpto, EdgesUpto
<1>4. NodesOK' /\ EdgesOK'
  BY <1>1, <1>2, <1>3, SameNodes, SameEdges
<1>5. error'.tag = "duplicate"
  BY <1>2
<1>6. PhaseOK' /\ ReadSoFar'
  BY <1>1, <1>2, <1>5 DEF PhaseOK, ReadSoFar
<1>7. IdAt(k) = IdOf(here.block) /\ IdAt(k) \in DOMAIN first_seen
  BY DEF IdAt, here, AlreadySeen
<1>8. PICK j \in Resources(k - 1) : IdAt(j) = IdAt(k)
  BY <1>1, <1>7 DEF NodesOK
<1>9. first_seen[IdAt(j)] = structures[j].file
  BY <1>1 DEF NodesOK
<1>10. error' = [tag |-> "duplicate", id |-> IdAt(k),
                 first_file |-> structures[j].file, second_file |-> structures[k].file]
  BY <1>2, <1>7, <1>8, <1>9 DEF here
<1>11. \A i : Resources(i)' = Resources(i) /\ IdAt(i)' = IdAt(i)
  BY <1>1 DEF Resources, IdAt
<1>12. here' = here
  BY <1>1, <1>2 DEF here
<1>13. FailedTwice'
  BY <1>1, <1>2, <1>8, <1>10, <1>11, <1>12 DEF FailedTwice
<1>14. FailedParsing'
  BY <1>5 DEF FailedParsing
<1> QED BY <1>4, <1>6, <1>13, <1>14 DEF GInv

LEMMA AddNodeStep ==
    ASSUME GInv, NodePass, IsResource(here.block), ~AlreadySeen(here)
    PROVE  GInv'
<1>1. /\ PhaseOK /\ ReadSoFar /\ NodesOK /\ EdgesOK /\ Listed
      /\ pc = "nodes" /\ error = NoError /\ Len(files) = Len(entries)
      /\ files \in Seq(Entry) /\ Len(structures) \in Nat
      /\ k \in 1..Len(structures) /\ NodesUpto = k - 1 /\ EdgesUpto = 0
      /\ UNCHANGED <<dir, entries, files>>
      /\ structures' = structures /\ TfEntries' = TfEntries /\ Listed'
  BY NodePassContext
<1> DEFINE id == IdAt(k)
           n == Len(nodes)
           node == NodeFor(structures[k])
<1>2. /\ id = IdOf(here.block) /\ here = structures[k]
      /\ UNCHANGED <<pc, edges, error>>
      /\ k' = k + 1
      /\ nodes' = Append(nodes, node)
      /\ index_of' = Extend(index_of, id, n + 1)
      /\ first_seen' = Extend(first_seen, id, structures[k].file)
  BY DEF NodePass, AddNode, here, IdAt, NodeFor
<1>3. NodesUpto' = k /\ EdgesUpto' = 0
  BY <1>1, <1>2 DEF NodesUpto, EdgesUpto
<1>4. EdgesOK'
  BY <1>1, <1>2, <1>3, NoEdgesYet
<1>5. Resources(k) = Resources(k - 1) \cup {k}
  <2>1. k - 1 \in Nat /\ (k - 1) + 1 = k
    BY <1>1
  <2> QED BY <2>1, ResourcesNext DEF here
<1>6. /\ \A m : Resources(m)' = Resources(m)
      /\ \A j : IdAt(j)' = IdAt(j)
  BY <1>1 DEF Resources, IdAt
<1>7. /\ nodes \in Seq(Node) /\ n \in Nat
      /\ DOMAIN index_of = {IdAt(j) : j \in Resources(k - 1)}
      /\ DOMAIN first_seen = DOMAIN index_of
      /\ \A j \in Resources(k - 1) :
            /\ NumberAt(j) \in 1..n
            /\ nodes[NumberAt(j)] = NodeFor(structures[j])
            /\ first_seen[IdAt(j)] = structures[j].file
      /\ \A i, j \in Resources(k - 1) : i < j => NumberAt(i) < NumberAt(j)
      /\ \A m \in 1..n : \E j \in Resources(k - 1) : NumberAt(j) = m
  BY <1>1, LenProperties DEF NodesOK
<1>8. node \in Node
  <2>1. /\ structures[k].file \in Nat /\ structures[k].block.body \in Body
        /\ IdOf(structures[k].block) \in Address
    BY <1>1, <1>2, StructuresTyped DEF structures, here
  <2>2. BodyUnresolved(structures[k].block.body) \in BOOLEAN
    BY <2>1, BodyAssumption
  <2> QED BY <2>1, <2>2 DEF NodeFor, Node
<1> HIDE DEF node, n
<1>9. /\ nodes' \in Seq(Node) /\ Len(nodes') = n + 1
      /\ \A m \in 1..n : nodes'[m] = nodes[m]
      /\ nodes'[n + 1] = node
  BY <1>2, <1>7, <1>8, AppendProperties DEF n
<1>10. id \notin DOMAIN index_of
  BY <1>2, <1>7 DEF AlreadySeen
<1>11. \A j \in Resources(k - 1) : IdAt(j) # id /\ IdAt(j) \in DOMAIN index_of
  BY <1>7, <1>10
<1> DEFINE number(j) == index_of'[IdAt(j)]
<1>12. /\ DOMAIN index_of' = DOMAIN index_of \cup {id}
       /\ DOMAIN first_seen' = DOMAIN first_seen \cup {id}
       /\ number(k) = n + 1
       /\ first_seen'[id] = structures[k].file
       /\ \A j \in Resources(k - 1) : number(j) = NumberAt(j) /\ first_seen'[IdAt(j)] = first_seen[IdAt(j)]
  BY <1>2, <1>7, <1>11 DEF Extend, NumberAt
<1> HIDE DEF id
<1>13. \A j : NumberAt(j)' = number(j)
  BY <1>6 DEF NumberAt
<1> HIDE DEF number
<1>14. DOMAIN index_of' = {IdAt(j) : j \in Resources(k)} /\ DOMAIN first_seen' = DOMAIN index_of'
  BY <1>5, <1>7, <1>12 DEF id
<1>15. \A j \in Resources(k) :
          /\ number(j) \in 1..(n + 1)
          /\ nodes'[number(j)] = NodeFor(structures[j])
          /\ first_seen'[IdAt(j)] = structures[j].file
  <2> TAKE j \in Resources(k)
  <2>1. CASE j \in Resources(k - 1)
    <3>1. /\ number(j) = NumberAt(j) /\ NumberAt(j) \in 1..n
          /\ nodes[NumberAt(j)] = NodeFor(structures[j])
          /\ first_seen'[IdAt(j)] = structures[j].file
      BY <1>7, <1>12, <2>1
    <3> QED BY <1>7, <1>9, <3>1
  <2>2. CASE j = k
    BY <1>7, <1>9, <1>12, <2>2 DEF id, node
  <2> QED BY <1>5, <2>1, <2>2
<1>16. \A i, j \in Resources(k) : i < j => number(i) < number(j)
  <2> TAKE i, j \in Resources(k)
  <2> HAVE i < j
  <2>1. \A l \in Resources(k - 1) : l \in Nat /\ l < k
    BY <1>1 DEF Resources
  <2>2. i \in Resources(k - 1)
    BY <1>1, <1>5, <2>1
  <2>3. CASE j \in Resources(k - 1)
    BY <1>7, <1>12, <2>2, <2>3
  <2>4. CASE j = k
    BY <1>7, <1>12, <2>2, <2>4
  <2> QED BY <1>5, <2>3, <2>4
<1>17. \A m \in 1..(n + 1) : \E j \in Resources(k) : number(j) = m
  <2> TAKE m \in 1..(n + 1)
  <2>1. CASE m = n + 1
    BY <1>5, <1>12, <2>1
  <2>2. CASE m \in 1..n
    <3>1. PICK j \in Resources(k - 1) : NumberAt(j) = m
      BY <1>7, <2>2
    <3> QED BY <1>5, <1>12, <3>1
  <2> QED BY <1>7, <2>1, <2>2
<1>18. NodesOK'
  BY <1>1, <1>3, <1>6, <1>9, <1>13, <1>14, <1>15, <1>16, <1>17 DEF NodesOK
<1>19. PhaseOK' /\ ReadSoFar'
  BY <1>1, <1>2 DEF PhaseOK, ReadSoFar
<1>20. FailedParsing' /\ FailedTwice'
  BY <1>1, <1>2 DEF FailedParsing, FailedTwice, NoError
<1> QED BY <1>4, <1>18, <1>19, <1>20 DEF GInv

-----------------------------------------------------------------------------
(* The edge pass.                                                          *)

LEMMA RefsTyped ==
    ASSUME NEW body \in Body
    PROVE  /\ Len(BodyRefs(body)) \in Nat
           /\ BodyRefs(body) \in Seq({BodyRefs(body)[i] : i \in 1..Len(BodyRefs(body))})
           /\ \A i \in 1..Len(BodyRefs(body)) :
                 /\ BodyRefs(body)[i] = [path |-> BodyRefs(body)[i].path, target |-> BodyRefs(body)[i].target]
                 /\ BodyRefs(body)[i].path # <<>> /\ BodyRefs(body)[i].path \in Path
<1> DEFINE refs == BodyRefs(body)
<1>1. /\ Len(refs) \in Nat /\ refs = [i \in 1..Len(refs) |-> refs[i]]
      /\ \A i \in 1..Len(refs) :
            /\ refs[i] = [path |-> refs[i].path, target |-> refs[i].target]
            /\ refs[i].path # <<>>
  BY BodyAssumption
<1>2. \A i \in 1..Len(refs) : refs[i].path \in Path
  BY DEF Path
<1> HIDE DEF refs
<1>3. refs \in [1..Len(refs) -> {refs[i] : i \in 1..Len(refs)}]
  BY <1>1
<1>4. refs \in Seq({refs[i] : i \in 1..Len(refs)})
  BY <1>1, <1>3
<1> QED BY <1>1, <1>2, <1>4 DEF refs

(* When all nodes are known.                                               *)
NodesKnown == NodesOK /\ files \in Seq(Entry) /\ NodesUpto = Len(structures)

LEMMA KnownFacts ==
    ASSUME NodesKnown
    PROVE  /\ Len(structures) \in Nat /\ Len(nodes) \in Nat
           /\ \A j \in Resources(Len(structures)) :
                 /\ j \in 1..Len(structures) /\ j \in Nat
                 /\ IsResource(structures[j].block)
                 /\ structures[j].block.body \in Body /\ structures[j].file \in Nat
                 /\ IdAt(j) \in Address /\ IdAt(j) \in DOMAIN index_of
                 /\ NumberAt(j) \in 1..Len(nodes) /\ nodes[NumberAt(j)].id = IdAt(j)
                 /\ nodes[NumberAt(j)].file = structures[j].file
           /\ \A i, j \in Resources(Len(structures)) :
                 /\ i < j => NumberAt(i) < NumberAt(j)
                 /\ NumberAt(i) = NumberAt(j) => i = j
                 /\ IdAt(i) = IdAt(j) => i = j
           /\ \A id \in DOMAIN index_of : index_of[id] \in 1..Len(nodes) /\ nodes[index_of[id]].id = id
<1>1. Len(structures) \in Nat /\ Len(nodes) \in Nat
  BY StructuresTyped, LenProperties DEF NodesKnown, NodesOK, structures
<1>2. ASSUME NEW j \in Resources(Len(structures))
      PROVE  /\ j \in 1..Len(structures) /\ j \in Nat
             /\ IsResource(structures[j].block)
             /\ structures[j].block.body \in Body /\ structures[j].file \in Nat
             /\ IdAt(j) \in Address /\ IdAt(j) \in DOMAIN index_of
             /\ NumberAt(j) \in 1..Len(nodes) /\ nodes[NumberAt(j)].id = IdAt(j)
             /\ nodes[NumberAt(j)].file = structures[j].file
  <2>1. j \in 1..Len(structures) /\ IsResource(structures[j].block)
    BY DEF Resources
  <2>2. /\ structures[j].block.body \in Body /\ structures[j].file \in Nat
        /\ IdAt(j) \in Address
    BY <2>1, StructuresTyped DEF NodesKnown, structures, IdAt
  <2>3. /\ IdAt(j) \in DOMAIN index_of
        /\ NumberAt(j) \in 1..Len(nodes) /\ nodes[NumberAt(j)] = NodeFor(structures[j])
    BY DEF NodesKnown, NodesOK
  <2>4. NodeFor(structures[j]).id = IdAt(j) /\ NodeFor(structures[j]).file = structures[j].file
    BY DEF NodeFor, IdAt
  <2> QED BY <1>1, <2>1, <2>2, <2>3, <2>4
<1>3. \A i, j \in Resources(Len(structures)) : i < j => NumberAt(i) < NumberAt(j)
  BY DEF NodesKnown, NodesOK
<1>4. ASSUME NEW i \in Resources(Len(structures)), NEW j \in Resources(Len(structures)),
             NumberAt(i) = NumberAt(j)
      PROVE  i = j
  <2>1. i \in Nat /\ j \in Nat /\ NumberAt(i) \in Int /\ NumberAt(j) \in Int
    BY <1>1, <1>2
  <2>2. ~(i < j) /\ ~(j < i)
    BY <1>3, <1>4, <2>1
  <2> QED BY <2>1, <2>2
<1>5. ASSUME NEW i \in Resources(Len(structures)), NEW j \in Resources(Len(structures)),
             IdAt(i) = IdAt(j)
      PROVE  i = j
  BY <1>4, <1>5 DEF NumberAt
<1>6. ASSUME NEW id \in DOMAIN index_of
      PROVE  index_of[id] \in 1..Len(nodes) /\ nodes[index_of[id]].id = id
  <2>1. PICK j \in Resources(Len(structures)) : IdAt(j) = id
    BY DEF NodesKnown, NodesOK
  <2> QED BY <1>2, <2>1 DEF NumberAt
<1> QED BY <1>1, <1>2, <1>3, <1>4, <1>5, <1>6

(* What the edge of a reference tells: all but the text of the reference.  *)
LEMMA EdgeFields ==
    ASSUME NodesKnown, NEW j \in Resources(Len(structures)), NEW i \in 1..Len(RefsAt(j)), Leads(j, i)
    PROVE  /\ EdgeAt(j, i) \in Edge
           /\ EdgeAt(j, i).src = NumberAt(j)
           /\ EdgeAt(j, i).dst = index_of[RefsAt(j)[i].target]
           /\ EdgeAt(j, i).evidence.file = structures[j].file
           /\ EdgeAt(j, i).evidence.resource_id = IdAt(j)
           /\ EdgeAt(j, i).evidence.attr_path = RefsAt(j)[i].path
           /\ RefsAt(j)[i].path # <<>>
           /\ EdgeAt(j, i).dst \in 1..Len(nodes)
           /\ nodes[EdgeAt(j, i).dst].id = RefsAt(j)[i].target
           /\ RefsAt(j)[i].target # IdAt(j)
<1> DEFINE r == RefsAt(j)[i]
<1>1. r.target # IdAt(j) /\ r.target \in DOMAIN index_of
  BY DEF Leads, IsEdge
<1>2. index_of[r.target] \in 1..Len(nodes) /\ nodes[index_of[r.target]].id = r.target
  BY <1>1, KnownFacts
<1>3. /\ structures[j].block.body \in Body /\ structures[j].file \in Nat /\ IdAt(j) \in Address
      /\ NumberAt(j) \in 1..Len(nodes) /\ Len(nodes) \in Nat
  BY KnownFacts
<1>4. r.path \in Path /\ r.path # <<>>
  BY <1>3, RefsTyped DEF RefsAt
<1>5. EdgeAt(j, i) = [src |-> NumberAt(j), dst |-> index_of[r.target],
                      evidence |-> [file |-> structures[j].file, resource_id |-> IdAt(j), attr_path |-> r.path]]
  BY DEF EdgeAt, EdgeFor, IdAt, NumberAt
<1>6. NumberAt(j) \in Nat /\ index_of[r.target] \in Nat
  BY <1>2, <1>3
<1> HIDE DEF r
<1>7. EdgeAt(j, i) \in Edge
  BY <1>3, <1>4, <1>5, <1>6 DEF Edge
<1>8. /\ EdgeAt(j, i).src = NumberAt(j)
      /\ EdgeAt(j, i).dst = index_of[r.target]
      /\ EdgeAt(j, i).evidence.file = structures[j].file
      /\ EdgeAt(j, i).evidence.resource_id = IdAt(j)
      /\ EdgeAt(j, i).evidence.attr_path = r.path
  BY <1>5
<1> QED BY <1>1, <1>2, <1>4, <1>7, <1>8 DEF r

(* Different references of a block have different edges, and references of *)
(* different blocks do.                                                    *)
LEMMA EdgesDiffer ==
    ASSUME NodesKnown,
           NEW j \in Resources(Len(structures)), NEW i \in 1..Len(RefsAt(j)), Leads(j, i),
           NEW l \in Resources(Len(structures)), NEW h \in 1..Len(RefsAt(l)), Leads(l, h),
           EdgeAt(j, i) = EdgeAt(l, h)
    PROVE  j = l /\ RefsAt(j)[i] = RefsAt(l)[h]
<1>1. NumberAt(j) = NumberAt(l)
  <2>1. EdgeAt(j, i).src = NumberAt(j) /\ EdgeAt(l, h).src = NumberAt(l)
    BY EdgeFields
  <2> QED BY <2>1
<1>2. j = l
  BY <1>1, KnownFacts
<1>3. RefsAt(j)[i].path = RefsAt(l)[h].path /\ RefsAt(j)[i].target = RefsAt(l)[h].target
  <2>1. /\ EdgeAt(j, i).evidence.attr_path = RefsAt(j)[i].path
        /\ nodes[EdgeAt(j, i).dst].id = RefsAt(j)[i].target
    BY EdgeFields
  <2>2. /\ EdgeAt(l, h).evidence.attr_path = RefsAt(l)[h].path
        /\ nodes[EdgeAt(l, h).dst].id = RefsAt(l)[h].target
    BY EdgeFields
  <2> QED BY <2>1, <2>2
<1>4. /\ structures[j].block.body \in Body /\ structures[l].block.body \in Body
  BY KnownFacts
<1>5. RefsAt(j)[i] = [path |-> RefsAt(j)[i].path, target |-> RefsAt(j)[i].target]
  BY <1>4, RefsTyped DEF RefsAt
<1>6. RefsAt(l)[h] = [path |-> RefsAt(l)[h].path, target |-> RefsAt(l)[h].target]
  BY <1>4, RefsTyped DEF RefsAt
<1> QED BY <1>2, <1>3, <1>5, <1>6

LEMMA EdgesOfBlock ==
    ASSUME NodesKnown, NEW j \in Resources(Len(structures))
    PROVE  /\ EdgesOf(structures[j]) \in Seq(Edge)
           /\ \A d \in 1..Len(EdgesOf(structures[j])) : \E i \in 1..Len(RefsAt(j)) :
                 Leads(j, i) /\ EdgesOf(structures[j])[d] = EdgeAt(j, i)
           /\ \A i \in 1..Len(RefsAt(j)) : Leads(j, i) =>
                 Count(EdgesOf(structures[j]), {EdgeAt(j, i)}) = Count(RefsAt(j), {RefsAt(j)[i]})
<1> DEFINE refs == RefsAt(j)
           m == Len(refs)
           parts == [i \in 1..m |-> IF Leads(j, i) THEN <<EdgeAt(j, i)>> ELSE <<>>]
<1>1. m \in Nat
  BY KnownFacts, RefsTyped DEF RefsAt
<1>2. EdgesOf(structures[j]) = FlattenSeq(parts)
  BY DEF EdgesOf, RefsAt, Leads, EdgeAt, IdAt
<1> HIDE DEF refs, m
<1>3. /\ Len(parts) = m
      /\ \A i \in 1..m : /\ Leads(j, i) => parts[i] = <<EdgeAt(j, i)>>
                         /\ ~Leads(j, i) => parts[i] = <<>>
  BY <1>1
<1> HIDE DEF parts
<1>4. \A i \in 1..m : parts[i] \in Seq(Edge)
  <2> TAKE i \in 1..m
  <2>1. CASE Leads(j, i)
    <3>1. EdgeAt(j, i) \in Edge
      BY <2>1, EdgeFields DEF m, refs
    <3> QED BY <1>3, <2>1, <3>1, Words1
  <2>2. CASE ~Leads(j, i)
    BY <1>3, <2>2, EmptySeq
  <2> QED BY <2>1, <2>2
<1>5. parts \in Seq(Seq(Edge))
  <2>1. parts \in [1..m -> Seq(Edge)]
    BY <1>1, <1>4 DEF parts
  <2> QED BY <1>1, <2>1
<1>6. FlattenSeq(parts) \in Seq(Edge)
  BY <1>5, InFlatten
<1>7. ASSUME NEW d \in 1..Len(FlattenSeq(parts))
      PROVE  \E i \in 1..m : Leads(j, i) /\ FlattenSeq(parts)[d] = EdgeAt(j, i)
  <2>1. In(FlattenSeq(parts)[d], FlattenSeq(parts))
    BY DEF In
  <2>2. PICK i \in 1..m : In(FlattenSeq(parts)[d], parts[i])
    BY <1>3, <1>5, <2>1, InFlatten
  <2>3. PICK c \in 1..Len(parts[i]) : parts[i][c] = FlattenSeq(parts)[d]
    BY <2>2 DEF In
  <2>4. Leads(j, i)
    <3>1. Len(<<>>) = 0
      BY EmptySeq
    <3> QED BY <1>3, <2>3, <3>1
  <2>5. parts[i] = <<EdgeAt(j, i)>>
    BY <1>3, <2>4
  <2>6. c = 1
    BY <2>3, <2>5
  <2> QED BY <2>3, <2>4, <2>5, <2>6
<1>8. ASSUME NEW i \in 1..m, Leads(j, i)
      PROVE  Count(FlattenSeq(parts), {EdgeAt(j, i)}) = Count(refs, {refs[i]})
  <2> DEFINE P == {EdgeAt(j, i)}
             T == Places(refs, {refs[i]})
  <2>1. T \subseteq 1..m
    BY DEF Places, m
  <2>2. ASSUME NEW h \in 1..m
        PROVE  Count(parts[h], P) = IF h \in T THEN 1 ELSE 0
    <3>1. CASE h \in T
      <4>1. refs[h] = refs[i]
        BY <3>1 DEF Places
      <4>2. Leads(j, h) /\ EdgeAt(j, h) = EdgeAt(j, i)
        BY <1>8, <4>1 DEF Leads, EdgeAt, refs
      <4>3. parts[h] = <<EdgeAt(j, i)>>
        BY <1>3, <4>2
      <4>4. Len(parts[h]) = 1 /\ \A c \in 1..Len(parts[h]) : parts[h][c] \in P
        BY <4>3
      <4>5. Count(parts[h], P) = Len(parts[h])
        BY <4>4, CountAll, 1 \in Nat
      <4> QED BY <3>1, <4>4, <4>5
    <3>2. CASE h \notin T
      <4>1. refs[h] # refs[i]
        BY <2>1, <3>2 DEF Places, m
      <4>2. \A c \in 1..Len(parts[h]) : parts[h][c] \notin P
        <5>1. CASE Leads(j, h)
          <6>1. EdgeAt(j, h) # EdgeAt(j, i)
            BY <1>8, <4>1, <5>1, EdgesDiffer DEF refs, m
          <6>2. parts[h] = <<EdgeAt(j, h)>>
            BY <1>3, <5>1
          <6> QED BY <6>1, <6>2
        <5>2. CASE ~Leads(j, h)
          <6>1. parts[h] = <<>> /\ Len(<<>>) = 0
            BY <1>3, <5>2, EmptySeq
          <6> QED BY <6>1
        <5> QED BY <5>1, <5>2
      <4>3. Count(parts[h], P) = 0
        BY <4>2, CountNone
      <4> QED BY <3>2, <4>3
    <3> QED BY <3>1, <3>2
  <2>3. PartsCount(parts, P, T, 1)
    BY <1>3, <2>2 DEF PartsCount
  <2>4. T \subseteq 1..Len(parts)
    BY <1>3, <2>1
  <2> HIDE DEF P, T
  <2>5. Count(FlattenSeq(parts), P) = Cardinality(T) * 1
    BY <1>5, <2>3, <2>4, CountFlatten, 1 \in Nat
  <2>6. Cardinality(T) = Count(refs, {refs[i]})
    BY DEF T, Count
  <2>7. Count(refs, {refs[i]}) \in Nat
    BY <1>1, CountTyped DEF m
  <2> QED BY <2>5, <2>6, <2>7 DEF P
<1> QED BY <1>2, <1>6, <1>7, <1>8 DEF m, refs

LEMMA EdgePassContext ==
    ASSUME GInv, EdgePass
    PROVE  /\ PhaseOK /\ ReadSoFar /\ NodesOK /\ EdgesOK
           /\ pc = "edges" /\ error = NoError
           /\ Len(structures) \in Nat /\ NodesKnown
           /\ k \in 1..Len(structures) /\ EdgesUpto = k - 1 /\ EdgesUpto' = k /\ k' = k + 1
           /\ UNCHANGED <<dir, pc, entries, files, nodes, index_of, first_seen, error>>
           /\ structures' = structures /\ PhaseOK' /\ ReadSoFar' /\ NodesOK'
           /\ FailedParsing' /\ FailedTwice'
<1>1. /\ PhaseOK /\ ReadSoFar /\ NodesOK /\ EdgesOK
      /\ pc = "edges" /\ error = NoError /\ k' = k + 1
      /\ k <= Len(structures) /\ k \in Nat \ {0} /\ files \in Seq(Entry)
      /\ UNCHANGED <<dir, pc, entries, files, nodes, index_of, first_seen, error>>
  BY DEF GInv, EdgePass, PhaseOK, ReadSoFar
<1>2. Len(structures) \in Nat
  BY <1>1, StructuresTyped DEF structures
<1>3. structures' = structures /\ TfEntries' = TfEntries
  BY <1>1 DEF structures, TfEntries
<1>4. NodesUpto = Len(structures) /\ NodesUpto' = NodesUpto /\ EdgesUpto = k - 1 /\ EdgesUpto' = k
  BY <1>1, <1>3 DEF NodesUpto, EdgesUpto
<1>5. NodesOK'
  BY <1>1, <1>4, SameNodes
<1>6. Listed' <=> Listed
  BY <1>1, <1>3 DEF Listed
<1>7. PhaseOK' /\ ReadSoFar'
  BY <1>1, <1>6 DEF PhaseOK, ReadSoFar
<1>8. FailedParsing' /\ FailedTwice'
  BY <1>1 DEF FailedParsing, FailedTwice, NoError
<1> QED BY <1>1, <1>2, <1>3, <1>4, <1>5, <1>7, <1>8 DEF NodesKnown

LEMMA EdgePassStep == GInv /\ EdgePass => GInv'
<1> SUFFICES ASSUME GInv, EdgePass PROVE GInv'
  OBVIOUS
<1> DEFINE u == EdgesOf(structures[k])
           old == Resources(k - 1)
<1>1. /\ EdgesOK /\ Len(structures) \in Nat /\ NodesKnown
      /\ k \in 1..Len(structures) /\ EdgesUpto = k - 1 /\ EdgesUpto' = k
      /\ UNCHANGED <<index_of>> /\ structures' = structures
      /\ PhaseOK' /\ ReadSoFar' /\ NodesOK' /\ FailedParsing' /\ FailedTwice'
  BY EdgePassContext
<1>2. k - 1 \in Nat /\ (k - 1) + 1 = k
  BY <1>1
<1>3. Resources(k) = IF IsResource(here.block) THEN old \cup {k} ELSE old
  BY <1>2, ResourcesNext DEF here
<1>4. /\ \A m : Resources(m)' = Resources(m)
      /\ \A j : RefsAt(j)' = RefsAt(j)
      /\ \A j, i : Leads(j, i)' <=> Leads(j, i)
      /\ \A j, i : EdgeAt(j, i)' = EdgeAt(j, i)
  BY <1>1 DEF Resources, RefsAt, Leads, IdAt, IsEdge, EdgeAt, EdgeFor
<1>5. /\ edges \in Seq(Edge) /\ Len(edges) \in Nat
      /\ \A d \in 1..Len(edges) : \E j \in old : \E i \in 1..Len(RefsAt(j)) :
            Leads(j, i) /\ edges[d] = EdgeAt(j, i)
      /\ \A d, e \in 1..Len(edges) : d < e => edges[d].src <= edges[e].src
      /\ \A j \in old : \A i \in 1..Len(RefsAt(j)) :
            Leads(j, i) => Count(edges, {EdgeAt(j, i)}) = Count(RefsAt(j), {RefsAt(j)[i]})
  BY <1>1, LenProperties DEF EdgesOK
<1>6. \A j \in old : j \in Resources(Len(structures)) /\ j \in Nat /\ j < k
  BY <1>1 DEF Resources
<1>7. CASE ~IsResource(here.block)
  <2>1. edges' = edges /\ Resources(k) = old
    BY <1>3, <1>7 DEF EdgePass
  <2>2. EdgesOK'
    BY <1>1, <1>4, <1>5, <2>1 DEF EdgesOK
  <2> QED BY <1>1, <2>2 DEF GInv
<1>8. CASE IsResource(here.block)
  <2>1. edges' = edges \o u
    BY <1>8 DEF EdgePass, here
  <2>2. k \in Resources(Len(structures))
    BY <1>1, <1>8 DEF Resources, here
  <2>3. /\ u \in Seq(Edge) /\ Len(u) \in Nat
        /\ \A d \in 1..Len(u) : \E i \in 1..Len(RefsAt(k)) : Leads(k, i) /\ u[d] = EdgeAt(k, i)
        /\ \A i \in 1..Len(RefsAt(k)) : Leads(k, i) =>
              Count(u, {EdgeAt(k, i)}) = Count(RefsAt(k), {RefsAt(k)[i]})
    BY <1>1, <2>2, EdgesOfBlock, LenProperties
  <2> HIDE DEF u
  <2>4. /\ edges' \in Seq(Edge) /\ Len(edges') = Len(edges) + Len(u)
        /\ \A d \in 1..(Len(edges) + Len(u)) :
              edges'[d] = IF d <= Len(edges) THEN edges[d] ELSE u[d - Len(edges)]
    BY <1>5, <2>1, <2>3, ConcatProperties
  <2>5. ASSUME NEW d \in 1..Len(edges')
        PROVE  /\ d <= Len(edges) => \E j \in old : \E i \in 1..Len(RefsAt(j)) :
                                        Leads(j, i) /\ edges'[d] = EdgeAt(j, i)
               /\ ~(d <= Len(edges)) => \E i \in 1..Len(RefsAt(k)) :
                                        Leads(k, i) /\ edges'[d] = EdgeAt(k, i)
    <3>1. CASE d <= Len(edges)
      <4>1. d \in 1..Len(edges) /\ edges'[d] = edges[d]
        BY <1>5, <2>3, <2>4, <3>1
      <4> QED BY <1>5, <3>1, <4>1
    <3>2. CASE ~(d <= Len(edges))
      <4>1. d - Len(edges) \in 1..Len(u) /\ edges'[d] = u[d - Len(edges)]
        BY <1>5, <2>3, <2>4, <3>2
      <4> QED BY <2>3, <3>2, <4>1
    <3> QED BY <3>1, <3>2
  <2>6. \A d \in 1..Len(edges') : \E j \in Resources(k) : \E i \in 1..Len(RefsAt(j)) :
           Leads(j, i) /\ edges'[d] = EdgeAt(j, i)
    BY <1>3, <1>8, <2>5
  <2>7. \A j \in old \cup {k} : NumberAt(j) \in Nat
    BY <1>1, <1>6, <2>2, KnownFacts
  <2>8. \A j \in old : NumberAt(j) < NumberAt(k)
    BY <1>1, <1>6, <2>2, KnownFacts
  <2>9. ASSUME NEW d \in 1..Len(edges'), NEW e \in 1..Len(edges'), d < e
        PROVE  edges'[d].src <= edges'[e].src
    <3>1. CASE e <= Len(edges)
      <4>1. d \in 1..Len(edges) /\ e \in 1..Len(edges) /\ edges'[d] = edges[d] /\ edges'[e] = edges[e]
        BY <1>5, <2>3, <2>4, <2>9, <3>1
      <4> QED BY <1>5, <2>9, <4>1
    <3>2. CASE ~(e <= Len(edges))
      <4>1. edges'[e].src = NumberAt(k)
        <5>1. PICK i \in 1..Len(RefsAt(k)) : Leads(k, i) /\ edges'[e] = EdgeAt(k, i)
          BY <2>5, <3>2
        <5> QED BY <1>1, <2>2, <5>1, EdgeFields
      <4>2. \E j \in old \cup {k} : edges'[d].src = NumberAt(j)
        <5>1. PICK j \in old \cup {k} : \E i \in 1..Len(RefsAt(j)) :
                 Leads(j, i) /\ edges'[d] = EdgeAt(j, i)
          BY <2>5
        <5>2. PICK i \in 1..Len(RefsAt(j)) : Leads(j, i) /\ edges'[d] = EdgeAt(j, i)
          BY <5>1
        <5>3. j \in Resources(Len(structures))
          BY <1>6, <2>2
        <5> QED BY <1>1, <5>2, <5>3, EdgeFields
      <4> QED BY <2>7, <2>8, <4>1, <4>2
    <3> QED BY <3>1, <3>2
  <2>10. ASSUME NEW j \in Resources(k), NEW i \in 1..Len(RefsAt(j)), Leads(j, i)
         PROVE  Count(edges', {EdgeAt(j, i)}) = Count(RefsAt(j), {RefsAt(j)[i]})
    <3> DEFINE x == EdgeAt(j, i)
    <3>1. j \in Resources(Len(structures)) /\ j \in old \cup {k}
      BY <1>3, <1>6, <1>8, <2>2
    <3>2. Count(edges', {x}) = Count(edges, {x}) + Count(u, {x})
      BY <1>5, <2>1, <2>3, CountConcat
    <3>3. Len(RefsAt(j)) \in Nat
      BY <1>1, <3>1, KnownFacts, RefsTyped DEF RefsAt
    <3>4. Count(RefsAt(j), {RefsAt(j)[i]}) \in Nat
      BY <3>3, CountTyped
    <3>5. CASE j \in old
      <4>1. j # k
        BY <1>1, <1>6, <3>5
      <4>2. \A d \in 1..Len(u) : u[d] \notin {x}
        <5> TAKE d \in 1..Len(u)
        <5>1. PICK h \in 1..Len(RefsAt(k)) : Leads(k, h) /\ u[d] = EdgeAt(k, h)
          BY <2>3
        <5> QED BY <1>1, <2>2, <2>10, <3>1, <4>1, <5>1, EdgesDiffer
      <4>3. Count(u, {x}) = 0
        BY <4>2, CountNone
      <4>4. Count(edges, {x}) = Count(RefsAt(j), {RefsAt(j)[i]})
        BY <1>5, <2>10, <3>5
      <4> HIDE DEF x
      <4> QED BY <3>2, <3>4, <4>3, <4>4 DEF x
    <3>6. CASE j = k
      <4>1. \A d \in 1..Len(edges) : edges[d] \notin {x}
        <5> TAKE d \in 1..Len(edges)
        <5>1. PICK l \in old : \E h \in 1..Len(RefsAt(l)) : Leads(l, h) /\ edges[d] = EdgeAt(l, h)
          BY <1>5
        <5>2. PICK h \in 1..Len(RefsAt(l)) : Leads(l, h) /\ edges[d] = EdgeAt(l, h)
          BY <5>1
        <5>3. l \in Resources(Len(structures)) /\ l # j
          BY <1>1, <1>6, <3>6
        <5> QED BY <1>1, <2>10, <3>1, <5>2, <5>3, EdgesDiffer
      <4>2. Count(edges, {x}) = 0
        BY <4>1, CountNone
      <4>3. Count(u, {x}) = Count(RefsAt(j), {RefsAt(j)[i]})
        BY <2>3, <2>10, <3>6
      <4> HIDE DEF x
      <4> QED BY <3>2, <3>4, <4>2, <4>3 DEF x
    <3> QED BY <3>1, <3>5, <3>6
  <2>11. EdgesOK'
    <3>1. \A d \in 1..Len(edges') : \E j \in Resources(EdgesUpto)' : \E i \in 1..Len(RefsAt(j)') :
             Leads(j, i)' /\ edges'[d] = EdgeAt(j, i)'
      BY <1>1, <1>4, <2>6
    <3>2. \A j \in Resources(EdgesUpto)' : \A i \in 1..Len(RefsAt(j)') :
             Leads(j, i)' => Count(edges', {EdgeAt(j, i)'}) = Count(RefsAt(j)', {RefsAt(j)'[i]})
      BY <1>1, <1>4, <2>10
    <3>3. edges' \in Seq(Edge) /\ EdgesUpto' <= Len(structures')
      BY <1>1, <2>4
    <3>4. \A d, e \in 1..Len(edges') : d < e => edges'[d].src <= edges'[e].src
      BY <2>9
    <3> QED BY <3>1, <3>2, <3>3, <3>4 DEF EdgesOK
  <2> QED BY <1>1, <2>11 DEF GInv
<1> QED BY <1>7, <1>8

(* The inductive invariant holds of every reachable state.                 *)
LEMMA StepG == GInv /\ [Next]_vars => GInv'
<1> SUFFICES ASSUME GInv, [Next]_vars PROVE GInv'
  OBVIOUS
<1>1. CASE ListDir
  BY <1>1, ListDirStep
<1>2. CASE ParseFile
  BY <1>2, ParseFileStep
<1>3. CASE AllParsed \/ NodesDone \/ EdgesDone
  BY <1>3, PhaseStep
<1>4. CASE NodePass
  BY <1>4, PassOver, FindDuplicate, AddNodeStep
<1>5. CASE EdgePass
  BY <1>5, EdgePassStep
<1>6. CASE UNCHANGED vars
  <2>1. UNCHANGED <<dir, pc, entries, files, k, nodes, edges, index_of, first_seen, error>>
    BY <1>6 DEF vars
  <2>2. structures' = structures /\ TfEntries' = TfEntries /\ next_entry' = next_entry
    BY <2>1 DEF structures, TfEntries, next_entry
  <2>3. NodesUpto' = NodesUpto /\ EdgesUpto' = EdgesUpto
    BY <2>1, <2>2 DEF NodesUpto, EdgesUpto
  <2>4. NodesOK' /\ EdgesOK'
    BY <2>1, <2>3, SameNodes, SameEdges DEF GInv
  <2>5. Listed' <=> Listed
    BY <2>1, <2>2 DEF Listed
  <2>6. /\ here' = here
        /\ \A m : Resources(m)' = Resources(m) /\ IdAt(m)' = IdAt(m)
    BY <2>1, <2>2 DEF here, Resources, IdAt
  <2>7. PhaseOK' /\ ReadSoFar'
    BY <2>1, <2>2, <2>5 DEF GInv, PhaseOK, ReadSoFar
  <2>8. FailedParsing'
    BY <2>1, <2>2, <2>5 DEF GInv, FailedParsing
  <2>9. FailedTwice'
    BY <2>1, <2>2, <2>5, <2>6 DEF GInv, FailedTwice
  <2> QED BY <2>4, <2>7, <2>8, <2>9 DEF GInv
<1> QED BY <1>1, <1>2, <1>3, <1>4, <1>5, <1>6 DEF Next

(* At every step of build_graph: the nodes are those of the resource       *)
(* blocks gone by and the edges those of their references, in order, and a *)
(* failure was caused by the block or file at hand.                        *)
THEOREM GraphInvariance == Spec => []GInv
BY InitG, StepG, PTL DEF Spec

-----------------------------------------------------------------------------
(* Types.                                                                  *)

LEMMA TypesG == GInv => TypeOK
<1> SUFFICES ASSUME GInv PROVE TypeOK
  OBVIOUS
<1>1. PhaseOK /\ ReadSoFar /\ NodesOK /\ EdgesOK
  BY DEF GInv
<1>2. files \in Seq(Entry) /\ Len(structures) \in Nat /\ k \in Nat \ {0}
  BY <1>1, StructuresTyped DEF ReadSoFar, structures, PhaseOK
<1>3. /\ nodes \in Seq(Node) /\ Len(nodes) \in Nat /\ edges \in Seq(Edge)
      /\ \A n \in 1..Len(nodes) : nodes[n] \in Node
  BY <1>1, LenProperties, ElementOfSeq DEF NodesOK, EdgesOK
<1>4. k \in 1..(Len(structures) + 1)
  <2>1. NodesUpto <= Len(structures) /\ EdgesUpto <= Len(structures)
    BY <1>1 DEF NodesOK, EdgesOK
  <2> QED BY <1>2, <2>1 DEF NodesUpto, EdgesUpto
<1>5. \A n \in 1..Len(nodes) :
         /\ DOMAIN nodes[n] = {"id", "file", "attrs", "unresolved"}
         /\ nodes[n].id \in Address /\ nodes[n].file \in Nat
         /\ nodes[n].attrs.t = "object" /\ nodes[n].unresolved \in BOOLEAN
  <2> TAKE n \in 1..Len(nodes)
  <2>1. nodes[n] \in Node
    BY <1>3
  <2>2. /\ DOMAIN nodes[n] = {"id", "file", "attrs", "unresolved"}
        /\ nodes[n].id \in Address /\ nodes[n].file \in Nat /\ nodes[n].unresolved \in BOOLEAN
        /\ nodes[n].attrs \in {BodyAttrs(body) : body \in Body}
    BY <2>1 DEF Node
  <2>3. nodes[n].attrs.t = "object"
    BY <2>2, BodyAssumption
  <2> QED BY <2>2, <2>3
<1>6. ASSUME NEW j \in Resources(NodesUpto)
      PROVE  /\ IdAt(j) \in Address /\ IdAt(j) \in DOMAIN index_of /\ IdAt(j) \in DOMAIN first_seen
             /\ NumberAt(j) \in 1..Len(nodes) /\ nodes[NumberAt(j)].id = IdAt(j)
             /\ first_seen[IdAt(j)] = nodes[NumberAt(j)].file
  <2>1. /\ IdAt(j) \in DOMAIN index_of /\ DOMAIN first_seen = DOMAIN index_of
        /\ NumberAt(j) \in 1..Len(nodes)
        /\ nodes[NumberAt(j)] = NodeFor(structures[j])
        /\ first_seen[IdAt(j)] = structures[j].file
    BY <1>1 DEF NodesOK
  <2>2. NodeFor(structures[j]).id = IdAt(j) /\ NodeFor(structures[j]).file = structures[j].file
    BY DEF NodeFor, IdAt
  <2>3. nodes[NumberAt(j)].id \in Address
    BY <1>5, <2>1
  <2> QED BY <2>1, <2>2, <2>3
<1>7. DOMAIN index_of \subseteq Address /\ DOMAIN first_seen = DOMAIN index_of
  BY <1>1, <1>6 DEF NodesOK
<1>8. \A n \in 1..Len(nodes) :
         /\ nodes[n].id \in DOMAIN index_of /\ index_of[nodes[n].id] = n
         /\ first_seen[nodes[n].id] = nodes[n].file
  <2> TAKE n \in 1..Len(nodes)
  <2>1. PICK j \in Resources(NodesUpto) : NumberAt(j) = n
    BY <1>1 DEF NodesOK
  <2> QED BY <1>6, <2>1 DEF NumberAt
<1>9. \A id \in DOMAIN index_of : index_of[id] \in 1..Len(nodes) /\ nodes[index_of[id]].id = id
  <2> TAKE id \in DOMAIN index_of
  <2>1. PICK j \in Resources(NodesUpto) : IdAt(j) = id
    BY <1>1 DEF NodesOK
  <2> QED BY <1>6, <2>1 DEF NumberAt
<1>10. \A e \in 1..Len(edges) :
          /\ edges[e].src \in 1..Len(nodes) /\ edges[e].dst \in 1..Len(nodes)
          /\ edges[e].src # edges[e].dst
          /\ edges[e].evidence.attr_path # <<>>
          /\ edges[e].evidence.resource_id = nodes[edges[e].src].id
          /\ edges[e].evidence.file = nodes[edges[e].src].file
  <2> TAKE e \in 1..Len(edges)
  <2>1. PICK j \in Resources(EdgesUpto) : \E i \in 1..Len(RefsAt(j)) :
           Leads(j, i) /\ edges[e] = EdgeAt(j, i)
    BY <1>1 DEF EdgesOK
  <2>2. PICK i \in 1..Len(RefsAt(j)) : Leads(j, i) /\ edges[e] = EdgeAt(j, i)
    BY <2>1
  <2>3. pc \in {"edges", "built"}
    BY <2>1 DEF EdgesUpto, Resources
  <2>4. NodesKnown
    BY <1>1, <1>2, <2>3 DEF NodesKnown, NodesUpto
  <2>5. EdgesUpto \in Nat /\ EdgesUpto <= Len(structures)
    BY <1>1, <1>2, <2>3 DEF EdgesUpto, EdgesOK
  <2>6. j \in Resources(Len(structures))
    BY <1>2, <2>5 DEF Resources
  <2>7. /\ EdgeAt(j, i).src = NumberAt(j)
        /\ EdgeAt(j, i).evidence.file = structures[j].file
        /\ EdgeAt(j, i).evidence.resource_id = IdAt(j)
        /\ EdgeAt(j, i).evidence.attr_path # <<>>
        /\ EdgeAt(j, i).dst \in 1..Len(nodes)
        /\ nodes[EdgeAt(j, i).dst].id # IdAt(j)
    BY <2>2, <2>4, <2>6, EdgeFields
  <2>8. /\ NumberAt(j) \in 1..Len(nodes) /\ nodes[NumberAt(j)].id = IdAt(j)
        /\ nodes[NumberAt(j)].file = structures[j].file
    BY <2>4, <2>6, KnownFacts
  <2> QED BY <2>2, <2>7, <2>8
<1>11. (pc = "failed") = (error # NoError)
  BY <1>1 DEF PhaseOK, NoError
<1>12. /\ dir \in Dirs /\ pc \in {"list", "parse", "nodes", "edges", "built", "failed"}
       /\ entries \in Seq(Entry) /\ files \in Seq(Entry) /\ Len(files) <= Len(entries)
  BY <1>1 DEF PhaseOK, ReadSoFar
<1> QED BY <1>4, <1>5, <1>7, <1>8, <1>9, <1>10, <1>11, <1>12 DEF TypeOK

(* Types of the locals of parse_directory and build_graph: addresses are   *)
(* unique, the index leads back to every node, and every edge joins two    *)
(* different nodes with its source as evidence.                            *)
THEOREM GraphTypes == Spec => []TypeOK
<1>1. GInv => TypeOK
  BY TypesG
<1> QED BY <1>1, GraphInvariance, PTL

-----------------------------------------------------------------------------
(* The structures are the blocks of the directory in order.                *)

AllBlocks == UNION {{f} \X (1..Len(f.body)) : f \in TfEntries}

InOrder(at) ==
    /\ \A j \in 1..Len(structures) :
          /\ at[j] \in AllBlocks
          /\ structures[j].file = at[j][1].name /\ structures[j].block = BlockAt(at[j])
    /\ \A i, j \in 1..Len(structures) : i < j => Before(at[i], at[j])
    /\ \A b \in AllBlocks : \E j \in 1..Len(structures) : at[j] = b

LEMMA BlocksInOrder ==
    ASSUME GInv, dir # NotADir, Listed, Len(files) = Len(entries)
    PROVE  \E at : InOrder(at)
<1>1. /\ dir \in Dirs /\ files \in Seq(Entry) /\ Len(files) \in Nat
      /\ \A i \in 1..Len(files) : files[i] = entries[i]
  BY LenProperties DEF GInv, PhaseOK, ReadSoFar
<1>2. TfEntries \subseteq Entry /\ Cardinality(TfEntries) \in Nat
  BY <1>1, DirFacts, FS_CardinalityType
<1>3. /\ \A i \in 1..Len(files) : files[i] \in TfEntries
      /\ \A f \in TfEntries : \E i \in 1..Len(files) : files[i] = f
      /\ \A i, j \in 1..Len(files) : i < j => files[i].name < files[j].name
  <2>1. Len(entries) = Cardinality(TfEntries)
    BY <1>2 DEF Listed
  <2>2. \A i \in 1..Len(files) : entries[i] \in TfEntries
    BY <2>1 DEF Listed
  <2>3. \A i, j \in 1..Len(files) : i < j => entries[i].name < entries[j].name
    BY DEF Listed, Sorted
  <2>4. \A f \in TfEntries : \E i \in 1..Len(files) : entries[i] = f
    BY DEF Listed
  <2> QED BY <1>1, <2>2, <2>3, <2>4
<1>4. PICK part, place : Laid(part, place)
  BY <1>1, StructuresLaid
<1>5. /\ \A j \in 1..Len(structures) :
            /\ part[j] \in 1..Len(files)
            /\ place[j] \in Nat /\ place[j] \in 1..Len(files[part[j]].body)
            /\ structures[j].file = files[part[j]].name
            /\ structures[j].block = files[part[j]].body[place[j]]
      /\ \A i, j \in 1..Len(structures) :
            i < j => part[i] < part[j] \/ (part[i] = part[j] /\ place[i] < place[j])
      /\ \A i \in 1..Len(files) : \A c \in 1..Len(files[i].body) :
            \E j \in 1..Len(structures) : part[j] = i /\ place[j] = c
  BY <1>4 DEF Laid
<1> DEFINE at == [j \in 1..Len(structures) |-> <<files[part[j]], place[j]>>]
<1>6. \A j \in 1..Len(structures) :
         at[j] = <<files[part[j]], place[j]>> /\ at[j][1] = files[part[j]] /\ at[j][2] = place[j]
  OBVIOUS
<1> HIDE DEF at
<1>7. ASSUME NEW j \in 1..Len(structures)
      PROVE  /\ at[j] \in AllBlocks
             /\ structures[j].file = at[j][1].name /\ structures[j].block = BlockAt(at[j])
  <2> DEFINE f == files[part[j]]
             c == place[j]
  <2>1. /\ f \in TfEntries /\ c \in 1..Len(f.body)
        /\ structures[j].file = f.name /\ structures[j].block = f.body[c]
        /\ at[j] = <<f, c>> /\ at[j][1] = f /\ at[j][2] = c
    BY <1>3, <1>5, <1>6
  <2> HIDE DEF f, c
  <2>2. <<f, c>> \in {f} \X (1..Len(f.body))
    BY <2>1
  <2>3. at[j] \in AllBlocks
    BY <2>1, <2>2 DEF AllBlocks
  <2>4. BlockAt(at[j]) = f.body[c]
    BY <2>1 DEF BlockAt
  <2> QED BY <2>1, <2>3, <2>4
<1>8. ASSUME NEW i \in 1..Len(structures), NEW j \in 1..Len(structures), i < j
      PROVE  Before(at[i], at[j])
  <2>1. part[i] \in 1..Len(files) /\ part[j] \in 1..Len(files)
    BY <1>5
  <2>2. part[i] < part[j] \/ (part[i] = part[j] /\ place[i] < place[j])
    BY <1>5, <1>8
  <2>3. /\ at[i][1] = files[part[i]] /\ at[i][2] = place[i]
        /\ at[j][1] = files[part[j]] /\ at[j][2] = place[j]
    BY <1>6
  <2>4. part[i] < part[j] => files[part[i]].name < files[part[j]].name
    BY <1>3, <2>1
  <2>5. part[i] = part[j] => files[part[i]].name = files[part[j]].name
    OBVIOUS
  <2> DEFINE x == files[part[i]].name
             y == files[part[j]].name
  <2>6. (x < y) \/ (x = y /\ place[i] < place[j])
    BY <2>2, <2>4, <2>5
  <2>7. Before(at[i], at[j]) <=> (at[i][1].name < at[j][1].name)
                                 \/ (at[i][1].name = at[j][1].name /\ at[i][2] < at[j][2])
    BY DEF Before
  <2>8. at[i][1].name = x /\ at[j][1].name = y
    BY <2>3
  <2> QED BY <2>3, <2>6, <2>7, <2>8, Zenon
<1>9. ASSUME NEW b \in AllBlocks
      PROVE  \E j \in 1..Len(structures) : at[j] = b
  <2>1. PICK f \in TfEntries : b \in {f} \X (1..Len(f.body))
    BY DEF AllBlocks
  <2>2. PICK c \in 1..Len(f.body) : b = <<f, c>>
    BY <2>1
  <2>3. PICK i \in 1..Len(files) : files[i] = f
    BY <1>3
  <2>4. PICK j \in 1..Len(structures) : part[j] = i /\ place[j] = c
    BY <1>5, <2>3
  <2> QED BY <1>6, <2>2, <2>3, <2>4
<1>10. InOrder(at)
  BY <1>7, <1>8, <1>9 DEF InOrder
<1> QED BY <1>10

(* The blocks of a directory have one order.                               *)
LEMMA OrderFacts ==
    ASSUME dir \in Dirs, dir # NotADir, files \in Seq(Entry), NEW at, InOrder(at)
    PROVE  /\ \A b \in AllBlocks : ~Before(b, b) /\ b[1].name \in Nat
           /\ \A i, j \in 1..Len(structures) :
                 /\ Before(at[i], at[j]) => i < j
                 /\ at[i] = at[j] => i = j
           /\ \A j \in 1..Len(structures) :
                 IsResource(structures[j].block) <=> at[j] \in ResourceBlocks
           /\ \A b \in ResourceBlocks :
                 \E j \in Resources(Len(structures)) : at[j] = b /\ IdAt(j) = IdOf(BlockAt(b))
<1>1. Len(structures) \in Nat
  BY StructuresTyped DEF structures
<1>2. ASSUME NEW b \in AllBlocks
      PROVE  b[1].name \in Nat /\ b[2] \in Nat
  <2>1. PICK f \in TfEntries : b \in {f} \X (1..Len(f.body))
    BY DEF AllBlocks
  <2>2. f \in Entry
    BY DirFacts
  <2>3. f.name \in Nat
    BY <2>2 DEF Entry
  <2> QED BY <2>1, <2>3
<1>3. \A b \in AllBlocks : ~Before(b, b)
  BY <1>2 DEF Before
<1>4. ASSUME NEW i \in 1..Len(structures), NEW j \in 1..Len(structures), Before(at[i], at[j])
      PROVE  i < j
  <2>1. at[i] \in AllBlocks /\ at[j] \in AllBlocks
    BY DEF InOrder
  <2>2. ~Before(at[j], at[i])
    BY <1>2, <1>4, <2>1 DEF Before
  <2>3. i # j
    BY <1>3, <1>4, <2>1
  <2>4. ~(j < i)
    BY <2>2 DEF InOrder
  <2> QED BY <1>1, <2>3, <2>4
<1>5. ASSUME NEW i \in 1..Len(structures), NEW j \in 1..Len(structures), at[i] = at[j]
      PROVE  i = j
  <2>1. at[i] \in AllBlocks
    BY DEF InOrder
  <2>2. ~Before(at[i], at[j]) /\ ~Before(at[j], at[i])
    BY <1>3, <1>5, <2>1
  <2>3. ~(i < j) /\ ~(j < i)
    BY <2>2 DEF InOrder
  <2> QED BY <1>1, <2>3
<1>6. \A b : b \in ResourceBlocks <=> b \in AllBlocks /\ IsResource(BlockAt(b))
  BY DEF ResourceBlocks, AllBlocks
<1>7. \A j \in 1..Len(structures) :
         IsResource(structures[j].block) <=> at[j] \in ResourceBlocks
  BY <1>6 DEF InOrder
<1>8. ASSUME NEW b \in ResourceBlocks
      PROVE  \E j \in Resources(Len(structures)) : at[j] = b /\ IdAt(j) = IdOf(BlockAt(b))
  <2>1. PICK j \in 1..Len(structures) : at[j] = b
    BY <1>6 DEF InOrder
  <2>2. structures[j].block = BlockAt(b)
    BY <2>1 DEF InOrder
  <2> QED BY <1>7, <2>1, <2>2 DEF Resources, IdAt
<1> QED BY <1>2, <1>3, <1>4, <1>5, <1>7, <1>8

-----------------------------------------------------------------------------
(* The graph is what the files declare.                                    *)

LEMMA DeclaredG == GInv => GraphIsDeclaration
<1> SUFFICES ASSUME GInv, pc = "built" PROVE GraphIsDeclaration
  BY DEF GraphIsDeclaration
<1> DEFINE L == Len(structures)
           N == Len(nodes)
<1>1. /\ PhaseOK /\ ReadSoFar /\ NodesOK /\ EdgesOK
      /\ dir \in Dirs /\ dir # NotADir /\ Listed /\ Len(files) = Len(entries)
      /\ files \in Seq(Entry) /\ k = L + 1
  BY DEF GInv, PhaseOK, ReadSoFar
<1>2. L \in Nat /\ NodesUpto = L /\ EdgesUpto = L /\ NodesKnown
  BY <1>1, StructuresTyped DEF structures, NodesUpto, EdgesUpto, NodesKnown
<1>3. PICK at : InOrder(at)
  BY <1>1, BlocksInOrder
<1>4. /\ \A j \in 1..L : /\ at[j] \in AllBlocks
                         /\ structures[j].file = at[j][1].name /\ structures[j].block = BlockAt(at[j])
      /\ \A i, j \in 1..L : i < j => Before(at[i], at[j])
      /\ \A b \in AllBlocks : ~Before(b, b) /\ b[1].name \in Nat
      /\ \A i, j \in 1..L : at[i] = at[j] => i = j
      /\ \A j \in 1..L : IsResource(structures[j].block) <=> at[j] \in ResourceBlocks
      /\ \A b \in ResourceBlocks : \E j \in Resources(L) : at[j] = b /\ IdAt(j) = IdOf(BlockAt(b))
  BY <1>1, <1>3, OrderFacts DEF InOrder
<1>5. /\ N \in Nat
      /\ \A j \in Resources(L) :
            /\ j \in 1..L /\ j \in Nat /\ IsResource(structures[j].block)
            /\ structures[j].block.body \in Body
            /\ IdAt(j) \in DOMAIN index_of
            /\ NumberAt(j) \in 1..N /\ nodes[NumberAt(j)].id = IdAt(j)
            /\ nodes[NumberAt(j)].file = structures[j].file
      /\ \A i, j \in Resources(L) :
            /\ i < j => NumberAt(i) < NumberAt(j)
            /\ NumberAt(i) = NumberAt(j) => i = j
            /\ IdAt(i) = IdAt(j) => i = j
  BY <1>2, KnownFacts
<1>6. \A n \in 1..N : \E j \in Resources(L) : NumberAt(j) = n
  BY <1>1, <1>2 DEF NodesOK
<1>7. ASSUME NEW j \in Resources(L)
      PROVE  /\ at[j] \in ResourceBlocks /\ IdOf(BlockAt(at[j])) = IdAt(j)
             /\ nodes[NumberAt(j)].unresolved = BodyUnresolved(BlockAt(at[j]).body)
             /\ BodyRefs(BlockAt(at[j]).body) = RefsAt(j)
  <2>1. structures[j].block = BlockAt(at[j]) /\ at[j] \in ResourceBlocks
    BY <1>4, <1>5
  <2>2. nodes[NumberAt(j)] = NodeFor(structures[j])
    BY <1>1, <1>2 DEF NodesOK
  <2>3. NodeFor(structures[j]).unresolved = BodyUnresolved(structures[j].block.body)
    BY DEF NodeFor
  <2> QED BY <2>1, <2>2, <2>3 DEF IdAt, RefsAt
<1> HIDE DEF L, N
<1>8. {nodes[n].id : n \in 1..N} = Declared
  <2>1. \A n \in 1..N : nodes[n].id \in Declared
    <3> TAKE n \in 1..N
    <3>1. PICK j \in Resources(L) : NumberAt(j) = n
      BY <1>6
    <3> QED BY <1>5, <1>7, <3>1 DEF Declared
  <2>2. \A b \in ResourceBlocks : \E n \in 1..N : nodes[n].id = IdOf(BlockAt(b))
    <3> TAKE b \in ResourceBlocks
    <3>1. PICK j \in Resources(L) : at[j] = b /\ IdAt(j) = IdOf(BlockAt(b))
      BY <1>4
    <3> QED BY <1>5, <3>1
  <2> QED BY <2>1, <2>2 DEF Declared
<1> DEFINE number == [b \in ResourceBlocks |-> index_of[IdOf(BlockAt(b))]]
<1>9. \A j \in Resources(L) : number[at[j]] = NumberAt(j)
  BY <1>7 DEF NumberAt
<1>17. DOMAIN number = ResourceBlocks /\ number = [b \in ResourceBlocks |-> number[b]]
  OBVIOUS
<1> HIDE DEF number
<1>10. \A b \in ResourceBlocks : \E j \in Resources(L) : b = at[j] /\ number[b] = NumberAt(j)
  BY <1>4, <1>9
<1>11. /\ number \in [ResourceBlocks -> 1..N]
       /\ \A b, c \in ResourceBlocks : number[b] = number[c] => b = c
       /\ \A n \in 1..N : \E b \in ResourceBlocks : number[b] = n
  <2>1. \A b \in ResourceBlocks : number[b] \in 1..N
    BY <1>5, <1>10
  <2>2. \A b, c \in ResourceBlocks : number[b] = number[c] => b = c
    BY <1>5, <1>10
  <2>3. \A n \in 1..N : \E b \in ResourceBlocks : number[b] = n
    BY <1>6, <1>7, <1>9
  <2> QED BY <1>17, <2>1, <2>2, <2>3
<1>12. N = Cardinality(ResourceBlocks)
  <2>1. IsFiniteSet(1..N) /\ Cardinality(1..N) = N
    BY <1>5, FS_Interval
  <2> QED BY <1>11, <2>1, SameSize
<1>13. ASSUME NEW m \in 1..N, NEW n \in 1..N, m < n
       PROVE  nodes[m].file <= nodes[n].file
  <2>1. PICK i \in Resources(L) : NumberAt(i) = m
    BY <1>6
  <2>2. PICK j \in Resources(L) : NumberAt(j) = n
    BY <1>6
  <2>3. i < j
    <3>1. ~(j < i) /\ i # j
      BY <1>5, <1>13, <2>1, <2>2
    <3> QED BY <1>5, <3>1
  <2>4. Before(at[i], at[j])
    BY <1>4, <1>5, <2>3
  <2>5. at[i][1].name <= at[j][1].name
    <3>1. at[i][1].name \in Nat /\ at[j][1].name \in Nat
      BY <1>4, <1>5
    <3> QED BY <2>4, <3>1 DEF Before
  <2> QED BY <1>4, <1>5, <2>1, <2>2, <2>5
<1>14. UnresolvedNodeCount = Cardinality({b \in ResourceBlocks : BodyUnresolved(BlockAt(b).body)})
  <2> DEFINE S == {b \in ResourceBlocks : BodyUnresolved(BlockAt(b).body)}
             T == {n \in 1..N : nodes[n].unresolved}
             f == [b \in S |-> number[b]]
  <2>1. IsFiniteSet(T)
    <3>1. IsFiniteSet(1..N) /\ T \subseteq 1..N
      BY <1>5, FS_Interval
    <3> QED BY <3>1, FS_Subset
  <2>2. \A b \in ResourceBlocks : /\ number[b] \in 1..N
                                  /\ nodes[number[b]].unresolved = BodyUnresolved(BlockAt(b).body)
    BY <1>5, <1>7, <1>10
  <2>3. \A b \in S : b \in ResourceBlocks /\ f[b] = number[b] /\ number[b] \in T
    BY <2>2
  <2>4. ASSUME NEW n \in T
        PROVE  \E b \in S : f[b] = n
    <3>1. PICK b \in ResourceBlocks : number[b] = n
      BY <1>11
    <3>2. b \in S
      BY <2>2, <3>1
    <3> QED BY <2>3, <3>1, <3>2
  <2>5. \A b, c \in S : f[b] = f[c] => b = c
    BY <1>11, <2>3
  <2>6. f \in [S -> T]
    BY <2>3
  <2> HIDE DEF f, S
  <2>7. Cardinality(S) = Cardinality(T)
    <3> HIDE DEF T
    <3> QED BY <2>1, <2>4, <2>5, <2>6, SameSize
  <2> QED BY <2>7 DEF UnresolvedNodeCount, S, N
<1>15. \A d, e \in 1..Len(edges) : d < e => edges[d].src <= edges[e].src
  BY <1>1 DEF EdgesOK
<1>16. ASSUME NEW b \in ResourceBlocks, NEW to \in Declared, NEW path
       PROVE  Cardinality({e \in 1..Len(edges) :
                             /\ edges[e].evidence.attr_path = path
                             /\ nodes[edges[e].src].id = IdOf(BlockAt(b))
                             /\ nodes[edges[e].dst].id = to})
              = IF to = IdOf(BlockAt(b)) THEN 0
                ELSE Cardinality({i \in 1..Len(BodyRefs(BlockAt(b).body)) :
                                    BodyRefs(BlockAt(b).body)[i] = [path |-> path, target |-> to]})
  <2>1. PICK j \in Resources(L) : at[j] = b /\ IdAt(j) = IdOf(BlockAt(b))
    BY <1>4
  <2> DEFINE from == IdAt(j)
             refs == RefsAt(j)
             r == [path |-> path, target |-> to]
             S == {e \in 1..Len(edges) :
                     /\ edges[e].evidence.attr_path = path
                     /\ nodes[edges[e].src].id = from
                     /\ nodes[edges[e].dst].id = to}
             T == {i \in 1..Len(refs) : refs[i] = r}
  <2>2. BodyRefs(BlockAt(b).body) = refs /\ IdOf(BlockAt(b)) = from
    BY <1>7, <2>1
  <2>3. \A i \in 1..Len(refs) : refs[i] = [path |-> refs[i].path, target |-> refs[i].target]
    BY <1>5, RefsTyped DEF RefsAt
  <2>4. ASSUME NEW e \in S
        PROVE  \E i \in 1..Len(refs) : Leads(j, i) /\ edges[e] = EdgeAt(j, i) /\ refs[i] = r /\ to # from
    <3>1. PICK l \in Resources(L) : \E i \in 1..Len(RefsAt(l)) : Leads(l, i) /\ edges[e] = EdgeAt(l, i)
      BY <1>1, <1>2 DEF EdgesOK
    <3>2. PICK i \in 1..Len(RefsAt(l)) : Leads(l, i) /\ edges[e] = EdgeAt(l, i)
      BY <3>1
    <3>3. /\ edges[e].src = NumberAt(l)
          /\ edges[e].evidence.attr_path = RefsAt(l)[i].path
          /\ nodes[edges[e].dst].id = RefsAt(l)[i].target
          /\ RefsAt(l)[i].target # IdAt(l)
      BY <1>2, <3>2, EdgeFields DEF L
    <3>4. IdAt(l) = IdAt(j)
      BY <1>5, <3>3
    <3>5. l = j
      BY <1>5, <3>4
    <3>6. refs[i].path = path /\ refs[i].target = to
      BY <3>3, <3>5
    <3>7. refs[i] = r
      BY <2>3, <3>5, <3>6
    <3> QED BY <3>2, <3>3, <3>5, <3>6, <3>7
  <2>5. CASE to = from
    <3>1. S = {}
      BY <2>4, <2>5
    <3> HIDE DEF S
    <3> QED BY <2>2, <2>5, <3>1, FS_EmptySet DEF S
  <2>6. CASE to # from /\ T = {}
    <3>1. S = {}
      BY <2>4, <2>6
    <3> HIDE DEF S, T
    <3>2. Cardinality(S) = Cardinality(T)
      BY <2>6, <3>1
    <3> QED BY <2>2, <2>6, <3>2 DEF S, T
  <2>7. CASE to # from /\ T # {}
    <3>1. PICK i \in 1..Len(refs) : refs[i] = r
      BY <2>7
    <3>2. refs[i].target = to /\ refs[i].path = path
      BY <3>1
    <3>3. PICK c \in ResourceBlocks : IdOf(BlockAt(c)) = to
      BY DEF Declared
    <3>4. to \in DOMAIN index_of
      BY <1>4, <1>5, <3>3
    <3>5. Leads(j, i)
      BY <2>7, <3>2, <3>4 DEF Leads, IsEdge
    <3>6. \A e \in S : edges[e] = EdgeAt(j, i)
      <4> TAKE e \in S
      <4>1. PICK h \in 1..Len(refs) : edges[e] = EdgeAt(j, h) /\ refs[h] = r
        BY <2>4
      <4> QED BY <3>1, <4>1 DEF EdgeAt
    <3>7. /\ EdgeAt(j, i).src = NumberAt(j)
          /\ EdgeAt(j, i).evidence.attr_path = path
          /\ nodes[EdgeAt(j, i).dst].id = to
      BY <1>2, <3>2, <3>5, EdgeFields DEF L
    <3>8. \A e \in 1..Len(edges) : edges[e] = EdgeAt(j, i) => e \in S
      BY <1>5, <3>7
    <3>9. S = Places(edges, {EdgeAt(j, i)})
      BY <3>6, <3>8 DEF Places
    <3>10. T = Places(refs, {refs[i]})
      BY <3>1 DEF Places
    <3>11. Count(edges, {EdgeAt(j, i)}) = Count(refs, {refs[i]})
      BY <1>1, <1>2, <3>5 DEF EdgesOK
    <3> HIDE DEF S, T
    <3>12. Cardinality(S) = Cardinality(T)
      BY <3>9, <3>10, <3>11 DEF Count
    <3> QED BY <2>2, <2>7, <3>12 DEF S, T
  <2> QED BY <2>5, <2>6, <2>7
<1> QED BY <1>8, <1>12, <1>13, <1>14, <1>15, <1>16 DEF GraphIsDeclaration, N

(* A built graph has one node for each resource block and, between two     *)
(* addresses, as many edges of a path as the block has references, numbered*)
(* in the order of the sorted files.                                       *)
THEOREM GraphDeclared == Spec => []GraphIsDeclaration
<1>1. GInv => GraphIsDeclaration
  BY DeclaredG
<1> QED BY <1>1, GraphInvariance, PTL

-----------------------------------------------------------------------------
(* The first fault decides.                                                *)

Faulty == {f \in TfEntries : ~f.readable \/ ~f.parses}
Twice == {p \in ResourceBlocks \X ResourceBlocks :
             Before(p[1], p[2]) /\ IdOf(BlockAt(p[1])) = IdOf(BlockAt(p[2]))}

LEMMA AllRead ==
    ASSUME GInv, Listed, Len(files) = Len(entries)
    PROVE  Faulty = {}
<1>1. \A i \in 1..Len(files) : files[i] = entries[i] /\ files[i].readable /\ files[i].parses
  BY DEF GInv, ReadSoFar
<1>2. \A f \in TfEntries : \E i \in 1..Len(files) : entries[i] = f
  BY DEF Listed
<1> QED BY <1>1, <1>2 DEF Faulty

(* Two blocks with one address, at two structures.                         *)
LEMMA TwicePlaces ==
    ASSUME dir \in Dirs, dir # NotADir, files \in Seq(Entry), NEW at, InOrder(at), NEW p \in Twice
    PROVE  \E i, j \in Resources(Len(structures)) :
              i < j /\ p = <<at[i], at[j]>> /\ IdAt(i) = IdAt(j)
<1>1. /\ p[1] \in ResourceBlocks /\ p[2] \in ResourceBlocks /\ p = <<p[1], p[2]>>
      /\ Before(p[1], p[2]) /\ IdOf(BlockAt(p[1])) = IdOf(BlockAt(p[2]))
  BY DEF Twice
<1>2. PICK i \in Resources(Len(structures)) : at[i] = p[1] /\ IdAt(i) = IdOf(BlockAt(p[1]))
  BY <1>1, OrderFacts
<1>3. PICK j \in Resources(Len(structures)) : at[j] = p[2] /\ IdAt(j) = IdOf(BlockAt(p[2]))
  BY <1>1, OrderFacts
<1>4. i \in 1..Len(structures) /\ j \in 1..Len(structures)
  BY DEF Resources
<1>5. i < j
  BY <1>1, <1>2, <1>3, <1>4, OrderFacts
<1> QED BY <1>1, <1>2, <1>3, <1>5

LEMMA FirstFaultG == GInv => FirstFaultDecides
<1> SUFFICES ASSUME GInv, dir # NotADir
             PROVE  /\ pc = "built" => Faulty = {} /\ Twice = {} /\ TfEntries # {}
                    /\ error.tag \in {"reading", "parsing"} =>
                          \E f \in Faulty : /\ \A g \in Faulty : f.name <= g.name
                                            /\ error = [tag |-> IF f.readable THEN "parsing" ELSE "reading",
                                                        file |-> f.name]
                    /\ error.tag = "duplicate" =>
                          /\ Faulty = {}
                          /\ \E p \in Twice :
                                /\ \A q \in Twice : p[2] = q[2] \/ Before(p[2], q[2])
                                /\ \A q \in Twice : p[2] = q[2] => p[1] = q[1] \/ Before(p[1], q[1])
                                /\ error = [tag |-> "duplicate", id |-> IdOf(BlockAt(p[1])),
                                            first_file |-> p[1][1].name, second_file |-> p[2][1].name]
  BY DEF FirstFaultDecides, Faulty, Twice
<1>1. /\ PhaseOK /\ ReadSoFar /\ NodesOK /\ EdgesOK
      /\ dir \in Dirs /\ files \in Seq(Entry) /\ entries \in Seq(Entry)
      /\ Len(files) \in Nat /\ Len(entries) \in Nat /\ k \in Nat \ {0}
  BY LenProperties DEF GInv, PhaseOK, ReadSoFar
<1>2. Len(structures) \in Nat
  BY <1>1, StructuresTyped DEF structures
<1>3. ASSUME pc = "built"
      PROVE  Faulty = {} /\ Twice = {} /\ TfEntries # {}
  <2>1. Listed /\ Len(files) = Len(entries)
    BY <1>1, <1>3 DEF ReadSoFar
  <2>2. NodesKnown
    BY <1>1, <1>3 DEF NodesKnown, NodesUpto
  <2>3. PICK at : InOrder(at)
    BY <2>1, BlocksInOrder
  <2>4. ASSUME NEW p \in Twice PROVE FALSE
    <3>1. PICK i, j \in Resources(Len(structures)) : i < j /\ IdAt(i) = IdAt(j)
      BY <1>1, <2>3, TwicePlaces
    <3>2. i = j /\ i \in Nat
      BY <2>2, <3>1, KnownFacts
    <3> QED BY <3>1, <3>2
  <2> QED BY <2>1, <2>4, AllRead DEF Listed
<1>4. ASSUME error.tag \in {"reading", "parsing"}
      PROVE  \E f \in Faulty : /\ \A g \in Faulty : f.name <= g.name
                               /\ error = [tag |-> IF f.readable THEN "parsing" ELSE "reading",
                                           file |-> f.name]
  <2>1. /\ Len(files) < Len(entries) /\ Listed
        /\ ~next_entry.readable \/ ~next_entry.parses
        /\ error = [tag |-> IF next_entry.readable THEN "parsing" ELSE "reading",
                    file |-> next_entry.name]
    BY <1>4 DEF GInv, FailedParsing
  <2>2. Len(files) + 1 \in 1..Len(entries)
    BY <1>1, <2>1
  <2>3. TfEntries \subseteq Entry /\ Cardinality(TfEntries) \in Nat
    BY <1>1, DirFacts, FS_CardinalityType
  <2>4. Len(entries) = Cardinality(TfEntries) /\ \A i \in 1..Len(entries) : entries[i] \in TfEntries
    BY <2>1, <2>3 DEF Listed
  <2>5. next_entry \in Faulty
    BY <2>1, <2>2, <2>4 DEF Faulty, next_entry
  <2>6. ASSUME NEW g \in Faulty
        PROVE  next_entry.name <= g.name
    <3>1. g \in TfEntries /\ (~g.readable \/ ~g.parses)
      BY DEF Faulty
    <3>2. PICK i \in 1..Len(entries) : entries[i] = g
      BY <2>1, <3>1 DEF Listed
    <3>3. i \notin 1..Len(files)
      BY <1>1, <3>1, <3>2 DEF ReadSoFar
    <3>4. i = Len(files) + 1 \/ Len(files) + 1 < i
      BY <1>1, <3>3
    <3>5. g \in Entry /\ g.name \in Nat
      BY <2>3, <3>1 DEF Entry
    <3>6. CASE i = Len(files) + 1
      BY <3>2, <3>5, <3>6 DEF next_entry
    <3>7. CASE Len(files) + 1 < i
      <4>1. next_entry.name < g.name
        BY <2>1, <2>2, <3>2, <3>7 DEF Listed, Sorted, next_entry
      <4>2. next_entry \in TfEntries
        BY <2>5 DEF Faulty
      <4>3. next_entry.name \in Nat
        BY <2>3, <4>2 DEF Entry
      <4> QED BY <3>5, <4>1, <4>3
    <3> QED BY <3>4, <3>6, <3>7
  <2> QED BY <2>1, <2>5, <2>6
<1>5. ASSUME error.tag = "duplicate"
      PROVE  /\ Faulty = {}
             /\ \E p \in Twice :
                   /\ \A q \in Twice : p[2] = q[2] \/ Before(p[2], q[2])
                   /\ \A q \in Twice : p[2] = q[2] => p[1] = q[1] \/ Before(p[1], q[1])
                   /\ error = [tag |-> "duplicate", id |-> IdOf(BlockAt(p[1])),
                               first_file |-> p[1][1].name, second_file |-> p[2][1].name]
  <2>1. /\ Len(files) = Len(entries) /\ Listed
        /\ k <= Len(structures) /\ IsResource(here.block)
    BY <1>5 DEF GInv, FailedTwice
  <2>2. PICK j \in Resources(k - 1) :
           /\ IdAt(j) = IdAt(k)
           /\ error = [tag |-> "duplicate", id |-> IdAt(k),
                       first_file |-> structures[j].file, second_file |-> structures[k].file]
    BY <1>5 DEF GInv, FailedTwice
  <2>3. pc = "failed"
    BY <1>1, <1>5 DEF PhaseOK, NoError
  <2>4. NodesUpto = k - 1
    BY <2>3 DEF NodesUpto
  <2>5. \A i, l \in Resources(k - 1) : IdAt(i) = IdAt(l) => i = l
    <3> TAKE i, l \in Resources(k - 1)
    <3> HAVE IdAt(i) = IdAt(l)
    <3>1. NumberAt(i) = NumberAt(l) /\ NumberAt(i) \in Int
      BY <1>1, <2>4 DEF NumberAt, NodesOK
    <3>2. i \in Nat /\ l \in Nat
      BY DEF Resources
    <3>3. ~(i < l) /\ ~(l < i)
      BY <1>1, <2>4, <3>1 DEF NodesOK
    <3> QED BY <3>2, <3>3
  <2>6. PICK at : InOrder(at)
    BY <2>1, BlocksInOrder
  <2>7. k \in Resources(Len(structures)) /\ j \in Resources(Len(structures)) /\ j < k
    BY <1>1, <1>2, <2>1 DEF Resources, here
  <2>8. k \in 1..Len(structures) /\ j \in 1..Len(structures)
    BY <2>7 DEF Resources
  <2> DEFINE p == <<at[j], at[k]>>
  <2>9. /\ at[j] \in ResourceBlocks /\ at[k] \in ResourceBlocks /\ Before(at[j], at[k])
        /\ structures[j].file = at[j][1].name /\ structures[j].block = BlockAt(at[j])
        /\ structures[k].file = at[k][1].name /\ structures[k].block = BlockAt(at[k])
    <3>1. IsResource(structures[j].block) /\ IsResource(structures[k].block)
      BY <2>7 DEF Resources
    <3>2. at[j] \in ResourceBlocks /\ at[k] \in ResourceBlocks
      BY <1>1, <2>6, <2>8, <3>1, OrderFacts
    <3> QED BY <2>6, <2>7, <2>8, <3>2 DEF InOrder
  <2>10. p \in Twice /\ p[1] = at[j] /\ p[2] = at[k]
    BY <2>2, <2>9 DEF Twice, IdAt
  <2>11. ASSUME NEW q \in Twice
         PROVE  /\ p[2] = q[2] \/ Before(p[2], q[2])
                /\ p[2] = q[2] => p[1] = q[1]
    <3>1. PICK a, c \in Resources(Len(structures)) :
             a < c /\ q = <<at[a], at[c]>> /\ IdAt(a) = IdAt(c)
      BY <1>1, <2>6, TwicePlaces
    <3>2. a \in 1..Len(structures) /\ c \in 1..Len(structures)
      BY DEF Resources
    <3>3. ~(c < k)
      <4> SUFFICES ASSUME c < k PROVE FALSE
        OBVIOUS
      <4>1. a \in Resources(k - 1) /\ c \in Resources(k - 1)
        BY <1>1, <1>2, <3>1, <3>2 DEF Resources
      <4> QED BY <1>2, <2>5, <3>1, <3>2, <4>1
    <3>4. p[2] = q[2] \/ Before(p[2], q[2])
      <4>1. c = k \/ k < c
        BY <1>1, <1>2, <3>2, <3>3
      <4>2. k < c => Before(at[k], at[c])
        BY <2>6, <2>8, <3>2 DEF InOrder
      <4> QED BY <2>10, <3>1, <4>1, <4>2
    <3>5. ASSUME p[2] = q[2] PROVE p[1] = q[1]
      <4>1. c = k
        BY <1>1, <2>6, <2>8, <2>10, <3>1, <3>2, <3>5, OrderFacts
      <4>2. a \in Resources(k - 1)
        BY <1>1, <1>2, <3>1, <3>2, <4>1 DEF Resources
      <4>3. a = j
        BY <2>2, <2>5, <3>1, <4>1, <4>2
      <4> QED BY <2>10, <3>1, <4>3
    <3> QED BY <3>4, <3>5
  <2>12. error = [tag |-> "duplicate", id |-> IdOf(BlockAt(p[1])),
                  first_file |-> p[1][1].name, second_file |-> p[2][1].name]
    BY <2>2, <2>9, <2>10 DEF IdAt
  <2> HIDE DEF p
  <2>13. Faulty = {}
    BY <2>1, AllRead
  <2> QED BY <2>10, <2>11, <2>12, <2>13
<1> QED BY <1>3, <1>4, <1>5

(* A graph is built only of a directory without fault; otherwise the first *)
(* fault in the order of names decides, unreadable and unparsable files    *)
(* before duplicates, and the error names the files of the first pair.     *)
THEOREM GraphFirstFault == Spec => []FirstFaultDecides
<1>1. GInv => FirstFaultDecides
  BY FirstFaultG
<1> QED BY <1>1, GraphInvariance, PTL

=============================================================================
