----------------------- MODULE IncrementalIndexProofs -----------------------
(***************************************************************************)
(* What the passes of IncrementalIndex preserve, for every project: its    *)
(* files and their places, contents and numbers of edits and failures.     *)
(***************************************************************************)
EXTENDS IncrementalIndex, TLAPS, WellFoundedInduction, FiniteSetTheorems, SequenceTheorems

WellFormedGraph(g) == g \in Graph /\ NoDanglingEdge(g) /\ UniqueNames(g.nodes)

-----------------------------------------------------------------------------
(* Names.                                                                  *)

\* A name without its last part is a name.
LEMMA FrontIsName ==
    ASSUME NEW s \in QN, Len(s) > 1
    PROVE  Front(s) \in QN /\ Len(Front(s)) = Len(s) - 1
<1>1. s \in Seq(Segments) /\ Len(s) \in Nat
  BY DEF QN
<1>2. Front(s) \in Seq(Segments) /\ Len(Front(s)) = Len(s) - 1
  BY <1>1, SubSeqProperties DEF Front
<1> QED BY <1>1, <1>2 DEF QN

\* A name with one more part is a name, and one that tells its parts.
LEMMA AppendIsName ==
    ASSUME NEW s \in QN, NEW w \in Segments
    PROVE  /\ Append(s, w) \in QN /\ Append(s, w) # s /\ Len(Append(s, w)) > 1
           /\ Last(Append(s, w)) = w /\ Front(Append(s, w)) = s
           /\ \A v : Append(s, v) = Append(s, w) => v = w
<1>1. s \in Seq(Segments) /\ Len(s) \in Nat /\ Len(s) > 0
  BY EmptySeq DEF QN
<1>2. Append(s, w) \in Seq(Segments) /\ Len(Append(s, w)) = Len(s) + 1
      /\ Append(s, w)[Len(s) + 1] = w
  BY <1>1
<1>3. Front(Append(s, w)) = s
  <2>1. SubSeq(Append(s, w), 1, Len(s)) \in Seq(Segments)
        /\ Len(SubSeq(Append(s, w), 1, Len(s))) = Len(s)
    BY <1>1, <1>2, SubSeqProperties
  <2>2. \A i \in 1..Len(s) : SubSeq(Append(s, w), 1, Len(s))[i] = s[i]
    BY <1>1, <1>2, SubSeqProperties
  <2>3. SubSeq(Append(s, w), 1, Len(s)) = s
    BY <1>1, <2>1, <2>2, SeqEqual
  <2> QED BY <1>1, <1>2, <2>3 DEF Front
<1>4. ASSUME NEW v, Append(s, v) = Append(s, w) PROVE v = w
  <2>1. Append(s, v)[Len(s) + 1] = v
    BY <1>1
  <2> QED BY <1>2, <1>4, <2>1
<1> QED BY <1>1, <1>2, <1>3, <1>4 DEF QN, Last

LEMMA TrimIsName ==
    ASSUME NEW s \in QN, NEW w
    PROVE  Trim(s, w) \in QN
BY FrontIsName DEF Trim

\* The names the passes make up are names.
LEMMA NamesAreNames ==
    /\ Root \in QN
    /\ \A f \in Files : /\ ModuleQN(f) \in QN /\ FileQN(f) \in QN /\ DirOf(f) \in QN
                        /\ \A n \in Names : DefQN(f, n) \in QN
<1>1. Root \in QN
  BY IndexAssumption DEF Root, QN
<1>2. ASSUME NEW f \in Files
      PROVE  /\ ModuleQN(f) \in QN /\ FileQN(f) \in QN /\ DirOf(f) \in QN
             /\ \A n \in Names : DefQN(f, n) \in QN
  <2>1. Path[f] \in QN /\ Len(Path[f]) > 1
    BY IndexAssumption, EmptySeq DEF QN
  <2>2. ModuleQN(f) \in QN
    BY <2>1, TrimIsName DEF ModuleQN
  <2>3. FileMark \in Segments /\ Names \subseteq Segments
    BY IndexAssumption
  <2> QED BY <2>1, <2>2, <2>3, AppendIsName, FrontIsName DEF FileQN, DefQN, DirOf
<1> QED BY <1>1, <1>2

\* A file's names differ from each other.
LEMMA FileNamesDiffer ==
    ASSUME NEW f \in Files, NEW n \in Names
    PROVE  /\ ModuleQN(f) # FileQN(f) /\ ModuleQN(f) # DefQN(f, n) /\ FileQN(f) # DefQN(f, n)
           /\ \A m \in Names : DefQN(f, m) = DefQN(f, n) => m = n
           /\ Last(DefQN(f, n)) = n
<1>1. ModuleQN(f) \in QN /\ FileMark \in Segments /\ Names \subseteq Segments /\ FileMark # n
  BY NamesAreNames, IndexAssumption
<1> QED BY <1>1, AppendIsName DEF FileQN, DefQN

\* Directories are names, below others or the root.
LEMMA DirsAreNames ==
    ASSUME NEW fs \in SUBSET Files
    PROVE  /\ DirsOf(fs) \subseteq QN
           /\ \A d \in DirsOf(fs) : Front(d) \in QN /\ Front(d) \in {Root} \cup DirsOf(fs)
           /\ \A f \in fs : DirOf(f) \in {Root} \cup DirsOf(fs)
<1>1. ASSUME NEW f \in fs, NEW k \in 1..(Len(Path[f]) - 1)
      PROVE  /\ SubSeq(Path[f], 1, k) \in QN /\ Len(SubSeq(Path[f], 1, k)) = k
             /\ SubSeq(Path[f], 1, k) \in {Root} \cup DirsOf(fs)
  <2>1. /\ Path[f] \in Seq(Segments) /\ Len(Path[f]) \in Nat /\ k \in Nat /\ k >= 1
        /\ k < Len(Path[f]) /\ Path[f][1] = Project
    BY IndexAssumption
  <2>2. /\ SubSeq(Path[f], 1, k) \in Seq(Segments) /\ Len(SubSeq(Path[f], 1, k)) = k
        /\ SubSeq(Path[f], 1, k)[1] = Project
    BY <2>1, SubSeqProperties
  <2>3. SubSeq(Path[f], 1, k) \in QN
    BY <2>1, <2>2, EmptySeq DEF QN
  <2>4. CASE k = 1
    <3>1. Root \in Seq(Segments) /\ Len(Root) = 1 /\ Root[1] = Project
      BY IndexAssumption DEF Root
    <3>2. SubSeq(Path[f], 1, k) = Root
      BY <2>2, <2>4, <3>1, SeqEqual
    <3> QED BY <2>2, <2>3, <3>2
  <2>5. CASE k > 1
    <3>1. k \in 2..(Len(Path[f]) - 1)
      BY <2>1, <2>5
    <3> QED BY <2>2, <2>3, <3>1 DEF DirsOf
  <2> QED BY <2>1, <2>4, <2>5
<1>2. ASSUME NEW d \in DirsOf(fs)
      PROVE  d \in QN /\ Front(d) \in QN /\ Front(d) \in {Root} \cup DirsOf(fs)
  <2> PICK f \in fs : d \in {SubSeq(Path[f], 1, i) : i \in 2..(Len(Path[f]) - 1)}
    BY DEF DirsOf
  <2>1. PICK k \in 2..(Len(Path[f]) - 1) : d = SubSeq(Path[f], 1, k)
    OBVIOUS
  <2>2. Path[f] \in Seq(Segments) /\ Len(Path[f]) \in Nat
    BY IndexAssumption
  <2>3. k \in 1..(Len(Path[f]) - 1) /\ k - 1 \in 1..(Len(Path[f]) - 1) /\ k \in Nat
    BY <2>2
  <2>4. d \in QN /\ Len(d) = k
    BY <1>1, <2>1, <2>3
  <2>5. Front(d) = SubSeq(Path[f], 1, k - 1)
    <3>1. Front(d) = SubSeq(SubSeq(Path[f], 1, k), 1, k - 1)
      BY <2>1, <2>4 DEF Front
    <3>2. k - 1 \in 1..(k - 1 + 1) /\ 1 \in 1..(k - 1 + 1) /\ k \in 1..Len(Path[f])
          /\ 1 \in 1..Len(Path[f])
      BY <2>2, <2>3
    <3> QED BY <2>2, <3>1, <3>2, SubSeqOfSubSeq
  <2> QED BY <1>1, <2>3, <2>4, <2>5
<1>3. ASSUME NEW f \in fs PROVE DirOf(f) \in {Root} \cup DirsOf(fs)
  <2>1. Len(Path[f]) \in Nat /\ Len(Path[f]) > 1
    BY IndexAssumption
  <2> QED BY <1>1, <2>1 DEF DirOf, Front
<1> QED BY <1>2, <1>3

\* The root is not among the directories above files: they are below it.
LEMMA RootIsNoDir ==
    ASSUME NEW fs \in SUBSET Files
    PROVE  Root \notin DirsOf(fs)
<1> SUFFICES ASSUME NEW f \in fs, NEW k \in 2..(Len(Path[f]) - 1), Root = SubSeq(Path[f], 1, k)
             PROVE  FALSE
  BY DEF DirsOf
<1>1. Path[f] \in Seq(Segments) /\ Len(Path[f]) \in Nat /\ k \in Nat
  BY IndexAssumption
<1>2. Len(SubSeq(Path[f], 1, k)) = k
  BY <1>1, SubSeqProperties
<1> QED BY <1>1, <1>2 DEF Root

\* A file that shares no name has its names for itself.
LEMMA OwnNames ==
    ASSUME NEW f \in Own, NEW q \in NamesOf(f)
    PROVE  /\ f \in Files
           /\ \A h \in Files : q \in NamesOf(h) => h = f
           /\ q # Root
           /\ \A fs \in SUBSET Files : q \notin DirsOf(fs)
<1>1. \A fs \in SUBSET Files : DirsOf(fs) \subseteq DirsOf(Files)
  BY DEF DirsOf
<1> QED BY <1>1 DEF Own

-----------------------------------------------------------------------------
(* Nodes, and the rows of a batch.                                         *)

\* The passes only build nodes of the table's shape.
LEMMA NodesAreNodes ==
    /\ ProjectNode \in Node
    /\ \A d \in QN : DirNode(d) \in Node
    /\ \A f \in Files : FileNode(f) \in Node /\ ModuleNode(f) \in Node
    /\ \A f \in Files, n \in Names : DefNode(f, n) \in Node
BY NamesAreNames DEF ProjectNode, DirNode, FileNode, ModuleNode, DefNode, Node, Labels

\* A set of numbers has a least one.
LEMMA LeastNatural ==
    ASSUME NEW T \in SUBSET Nat, T # {}
    PROVE  \E x \in T : \A y \in T : ~(y < x)
<1>1. IsWellFoundedOn(OpToRel(<, Nat), Nat)
  BY NatLessThanWellFounded
<1>2. PICK x \in T : \A y \in T : ~(<<y, x>> \in OpToRel(<, Nat))
  BY <1>1, WFMin
<1> QED BY <1>2 DEF OpToRel

\* Of the rows that share a name one stays.
LEMMA LatestNames ==
    ASSUME NEW new, \A n \in new : n.path \in Files
    PROVE  Latest(new) \subseteq new /\ QNs(Latest(new)) = QNs(new)
<1>1. \A f \in Files : Order[f] \in Nat /\ Cardinality(Files) - Order[f] \in Nat
  BY IndexAssumption, FS_CardinalityType
<1>2. ASSUME NEW n \in new PROVE n.qn \in QNs(Latest(new))
  <2> DEFINE same == {m \in new : m.qn = n.qn}
             T == {Cardinality(Files) - Order[m.path] : m \in same}
  <2>1. T \in SUBSET Nat /\ T # {}
    BY <1>1
  <2>2. PICK r \in T : \A t \in T : ~(t < r)
    <3> HIDE DEF T
    <3> QED BY <2>1, LeastNatural
  <2>3. PICK m \in same : r = Cardinality(Files) - Order[m.path]
    OBVIOUS
  <2>4. ASSUME NEW k \in same PROVE Order[k.path] <= Order[m.path]
    <3>1. Cardinality(Files) - Order[k.path] \in T
      OBVIOUS
    <3>2. ~(Cardinality(Files) - Order[k.path] < r)
      BY <2>2, <3>1
    <3> QED BY <1>1, <2>3, <3>2, FS_CardinalityType, IndexAssumption
  <2>5. m \in Latest(new)
    BY <2>4 DEF Latest
  <2> QED BY <2>5 DEF QNs
<1> QED BY <1>2 DEF Latest, QNs

\* The rows of passDefinitions.
Rows(fs, src) == {ModuleNode(f) : f \in fs} \cup UNION {{DefNode(f, n) : n \in src[f].defs} : f \in fs}

LEMMA RowsAreNodes ==
    ASSUME NEW fs \in SUBSET Files, NEW src, \A f \in fs : src[f].defs \subseteq Names
    PROVE  /\ Rows(fs, src) \subseteq Node /\ Latest(Rows(fs, src)) \subseteq Rows(fs, src)
           /\ QNs(Latest(Rows(fs, src))) = QNs(Rows(fs, src))
           /\ UniqueNames(Latest(Rows(fs, src)))
<1> DEFINE new == Rows(fs, src)
<1>1. ASSUME NEW n \in new
      PROVE  /\ n \in Node /\ n.path \in fs
             /\ \/ n = ModuleNode(n.path)
                \/ \E d \in src[n.path].defs : n = DefNode(n.path, d)
  <2>1. CASE \E f \in fs : n = ModuleNode(f)
    BY <2>1, NodesAreNodes DEF ModuleNode
  <2>2. CASE \E f \in fs : \E d \in src[f].defs : n = DefNode(f, d)
    <3>1. PICK f \in fs : \E d \in src[f].defs : n = DefNode(f, d)
      BY <2>2
    <3>2. n.path = f
      BY <3>1 DEF DefNode
    <3> QED BY <3>1, <3>2, NodesAreNodes
  <2> QED BY <2>1, <2>2 DEF Rows
<1>2. Latest(new) \subseteq new /\ QNs(Latest(new)) = QNs(new)
  <2>1. \A n \in new : n.path \in Files
    BY <1>1
  <2> QED BY <2>1, LatestNames
<1>3. ASSUME NEW m \in Latest(new), NEW n \in Latest(new), m.qn = n.qn
      PROVE  m = n
  <2>1. Order[m.path] <= Order[n.path] /\ Order[n.path] <= Order[m.path]
    BY <1>3 DEF Latest
  <2>2. m \in new /\ n \in new /\ m.path \in Files /\ n.path \in Files
    BY <1>1, <1>2
  <2>3. m.path = n.path
    BY <2>1, <2>2, IndexAssumption, FS_CardinalityType
  <2>4. \A f, d : ModuleNode(f).qn = ModuleQN(f) /\ DefNode(f, d).qn = DefQN(f, d)
    BY DEF ModuleNode, DefNode
  <2>5. PICK f \in fs : f = m.path /\ f = n.path
    BY <1>1, <2>2, <2>3
  <2>6. /\ m = ModuleNode(f) \/ \E d \in Names : m = DefNode(f, d)
        /\ n = ModuleNode(f) \/ \E d \in Names : n = DefNode(f, d)
    BY <1>1, <2>2, <2>5
  <2> QED BY <1>3, <2>4, <2>5, <2>6, FileNamesDiffer
<1> QED BY <1>1, <1>2, <1>3 DEF UniqueNames

\* Those of the files in passStructure.
LEMMA FileRowsAreNodes ==
    ASSUME NEW fs \in SUBSET Files
    PROVE  LET new == {FileNode(f) : f \in fs} IN
           /\ new \subseteq Node /\ Latest(new) \subseteq new
           /\ QNs(Latest(new)) = QNs(new) /\ UniqueNames(Latest(new))
<1> DEFINE new == {FileNode(f) : f \in fs}
<1>1. \A f : FileNode(f).path = f
  BY DEF FileNode
<1>2. Latest(new) \subseteq new /\ QNs(Latest(new)) = QNs(new)
  BY <1>1, LatestNames
<1>3. ASSUME NEW m \in Latest(new), NEW n \in Latest(new), m.qn = n.qn
      PROVE  m = n
  <2>1. Order[m.path] <= Order[n.path] /\ Order[n.path] <= Order[m.path]
    BY <1>3 DEF Latest
  <2>2. PICK f \in fs, h \in fs : m = FileNode(f) /\ n = FileNode(h)
    BY <1>2
  <2> QED BY <1>1, <2>1, <2>2, IndexAssumption, FS_CardinalityType
<1> QED BY <1>2, <1>3, NodesAreNodes DEF UniqueNames

-----------------------------------------------------------------------------
(* The store's operations keep a graph well formed.                        *)

\* An upsert adds the names of the new nodes and loses none.
LEMMA UpsertNames ==
    ASSUME NEW g \in Graph, NEW new \in SUBSET Node
    PROVE  /\ Upsert(g, new) \in Graph
           /\ Upsert(g, new).edges = g.edges
           /\ Upsert(g, new).nodes = {n \in g.nodes : n.qn \notin QNs(new)} \cup new
           /\ QNs(Upsert(g, new).nodes) = QNs(g.nodes) \cup QNs(new)
BY DEF Upsert, Graph, QNs

\* Store.UpsertNodeBatch keeps names unique and takes no end from an edge.
LEMMA UpsertWellFormed ==
    ASSUME NEW g, WellFormedGraph(g), NEW new \in SUBSET Node, UniqueNames(new)
    PROVE  WellFormedGraph(Upsert(g, new))
<1>1. g \in Graph
  BY DEF WellFormedGraph
<1>2. NoDanglingEdge(Upsert(g, new))
  <2>1. /\ Upsert(g, new).edges = g.edges
        /\ QNs(g.nodes) \subseteq QNs(Upsert(g, new).nodes)
    BY DEF Upsert, QNs
  <2> QED BY <2>1 DEF NoDanglingEdge, WellFormedGraph
<1>3. UniqueNames(Upsert(g, new).nodes)
  BY <1>1, UpsertNames DEF UniqueNames, WellFormedGraph, QNs
<1> QED BY <1>1, <1>2, <1>3, UpsertNames DEF WellFormedGraph

\* Nor does a delete, for the foreign keys cascade to the edges.
LEMMA DeleteWellFormed ==
    ASSUME NEW g, WellFormedGraph(g), NEW dead
    PROVE  WellFormedGraph(Delete(g, dead))
<1>1. Delete(g, dead) \in Graph /\ UniqueNames(Delete(g, dead).nodes)
  BY DEF WellFormedGraph, Graph, Delete, UniqueNames
<1>2. ASSUME NEW q \in QNs(g.nodes), q \notin QNs(dead)
      PROVE  q \in QNs(Delete(g, dead).nodes)
  BY <1>2 DEF QNs, Delete
<1>3. NoDanglingEdge(Delete(g, dead))
  BY <1>2 DEF NoDanglingEdge, WellFormedGraph, Delete
<1> QED BY <1>1, <1>3 DEF WellFormedGraph

\* Store.InsertEdgeBatch adds only edges whose ends were looked up.
LEMMA InsertWellFormed ==
    ASSUME NEW g, WellFormedGraph(g), NEW es \in SUBSET Edge
    PROVE  /\ WellFormedGraph(InsertEdges(g, es))
           /\ InsertEdges(g, es).nodes = g.nodes
BY DEF WellFormedGraph, Graph, InsertEdges, NoDanglingEdge, UniqueNames

\* Store.DeleteEdgesBySourceFile removes edges and nothing else.
LEMMA DropCallsWellFormed ==
    ASSUME NEW g, WellFormedGraph(g), NEW fs
    PROVE  WellFormedGraph(DropCalls(g, fs)) /\ DropCalls(g, fs).nodes = g.nodes
BY DEF WellFormedGraph, Graph, DropCalls, NoDanglingEdge, UniqueNames

-----------------------------------------------------------------------------
(* And so do the passes.                                                   *)

\* passStructure: the directories have different names, and so have the rows
\* that stay of the files.
LEMMA StructureWellFormed ==
    ASSUME NEW g, WellFormedGraph(g), NEW fs \in SUBSET Files
    PROVE  WellFormedGraph(Structure(g, fs))
<1> DEFINE dirs == {ProjectNode} \cup {DirNode(d) : d \in DirsOf(fs)}
           files == {FileNode(f) : f \in fs}
           es == {ContainsEdge(Front(d), d) : d \in DirsOf(fs)}
                    \cup {ContainsEdge(DirOf(f), FileQN(f)) : f \in fs}
<1>1. DirsOf(fs) \subseteq QN /\ \A d \in DirsOf(fs) : Front(d) \in QN
  BY DirsAreNames
<1>2. dirs \in SUBSET Node
  BY <1>1, NodesAreNodes
<1>3. UniqueNames(dirs)
  <2>1. Root \notin DirsOf(fs)
    BY RootIsNoDir
  <2> QED BY <2>1 DEF UniqueNames, DirNode, ProjectNode
<1>4. WellFormedGraph(Upsert(g, dirs))
  BY <1>2, <1>3, UpsertWellFormed
<1>5. Latest(files) \in SUBSET Node /\ UniqueNames(Latest(files))
  BY FileRowsAreNodes
<1>6. WellFormedGraph(Upsert(Upsert(g, dirs), Latest(files)))
  BY <1>4, <1>5, UpsertWellFormed
<1>7. es \in SUBSET Edge
  BY <1>1, NamesAreNames DEF ContainsEdge, Edge
<1>8. WellFormedGraph(InsertEdges(Upsert(Upsert(g, dirs), Latest(files)), es))
  BY <1>6, <1>7, InsertWellFormed
<1> QED BY <1>8 DEF Structure

\* passDefinitions: of the rows of its files that share a name one stays.
LEMMA DefinitionsWellFormed ==
    ASSUME NEW g, WellFormedGraph(g), NEW fs \in SUBSET Files,
           NEW src, \A f \in fs : src[f] \in Source
    PROVE  WellFormedGraph(Definitions(g, fs, src))
<1> DEFINE es == UNION {{Defines(f, n) : n \in src[f].defs} : f \in fs}
<1>1. \A f \in fs : src[f].defs \subseteq Names
  BY DEF Source
<1>2. WellFormedGraph(Upsert(g, Latest(Rows(fs, src))))
  BY <1>1, RowsAreNodes, UpsertWellFormed
<1>3. es \in SUBSET Edge
  <2>1. ASSUME NEW f \in fs, NEW n \in src[f].defs PROVE Defines(f, n) \in Edge
    BY <1>1, NamesAreNames DEF Defines, Edge
  <2> QED BY <2>1
<1>4. WellFormedGraph(InsertEdges(Upsert(g, Latest(Rows(fs, src))), es))
  BY <1>2, <1>3, InsertWellFormed
<1> QED BY <1>4 DEF Definitions, Rows

\* The import map of a file's module is one of the files that share it.
LEMMA ImportMapTells ==
    ASSUME NEW m, NEW fs, NEW src, NEW t \in ImportMap(m, fs, src)
    PROVE  \E h \in fs : ModuleQN(h) = m /\ t \in src[h].imports
BY DEF ImportMap

\* passImports: an import is a name, in the graph or not.
LEMMA ImportsWellFormed ==
    ASSUME NEW g, WellFormedGraph(g), NEW fs \in SUBSET Files,
           NEW src, \A f \in fs : src[f] \in Source
    PROVE  /\ WellFormedGraph(Imports(g, fs, src))
           /\ Imports(g, fs, src).nodes = g.nodes
<1> DEFINE es == UNION {{ImportOf(f, t) : t \in ImportMap(ModuleQN(f), fs, src)} : f \in fs}
<1>1. ASSUME NEW f \in fs, NEW t \in ImportMap(ModuleQN(f), fs, src)
      PROVE  ImportOf(f, t) \in Edge
  <2>1. t \in QN
    BY ImportMapTells DEF Source
  <2> QED BY <2>1, NamesAreNames DEF ImportOf, Edge
<1>2. es \in SUBSET Edge
  BY <1>1
<1> QED BY <1>2, InsertWellFormed DEF Imports

\* Whatever candidate the resolution picks, the edge is one from the module of
\* a file that is resolved to a function.
LEMMA CallEdgesMake ==
    ASSUME NEW g \in Graph, NEW fs \in SUBSET Files, NEW ok, NEW src,
           NEW es \in CallEdges(g, fs, ok, src), NEW e \in es
    PROVE  e \in Edge /\ e.type = "CALLS" /\
           \E f \in fs, q \in Registry(g) : \E c \in src[f].calls :
              /\ e = CallOf(f, q)
              /\ q \in Targets(ModuleQN(f), c, ImportMap(ModuleQN(f), ok, src), Registry(g))
<1> DEFINE sites == Sites(g, fs, ok, src)
<1>1. PICK p \in [sites -> Registry(g)] :
        /\ \A s \in sites : p[s] \in Callees(g, s, ok, src)
        /\ es = {CallOf(s[1], p[s]) : s \in sites}
  BY DEF CallEdges
<1>2. PICK s \in sites : e = CallOf(s[1], p[s])
  BY <1>1
<1>3. PICK f \in fs : s \in {<<f, c>> : c \in src[f].calls}
  BY <1>2 DEF Sites
<1>4. PICK c \in src[f].calls : s = <<f, c>>
  BY <1>3
<1>5. e = CallOf(f, p[s]) /\ p[s] \in Registry(g)
  BY <1>1, <1>2, <1>4
<1>6. p[s] \in Targets(ModuleQN(f), c, ImportMap(ModuleQN(f), ok, src), Registry(g))
  BY <1>1, <1>2, <1>4 DEF Callees
<1>7. Registry(g) \subseteq QN
  BY DEF Registry, QNs, Graph, Node
<1> QED BY <1>3, <1>4, <1>5, <1>6, <1>7, NamesAreNames DEF CallOf, Edge

-----------------------------------------------------------------------------
(* The runs keep the graph well formed.                                    *)

\* What the runs read of the disk is what a file may hold.
LEMMA PresentAreSources ==
    TypeOK => /\ Present \in SUBSET Files
              /\ \A f \in Present : disk[f] \in Sources /\ disk[f] \in Source
              /\ ChangedFiles \subseteq Present /\ UnchangedFiles \subseteq Present
BY IndexAssumption DEF TypeOK, Present, ChangedFiles, UnchangedFiles

\* Resolving calls adds edges to functions that the graph has.
LEMMA ResolvedWellFormed ==
    ASSUME NEW g, WellFormedGraph(g), NEW fs \in SUBSET Files, NEW ok, NEW src,
           NEW es \in CallEdges(g, fs, ok, src)
    PROVE  WellFormedGraph(InsertEdges(g, es)) /\ InsertEdges(g, es).nodes = g.nodes
<1>1. es \in SUBSET Edge
  BY CallEdgesMake DEF WellFormedGraph
<1> QED BY <1>1, InsertWellFormed

LEMMA BufferedWellFormed ==
    ASSUME TypeOK, NEW ok \in SUBSET Present
    PROVE  WellFormedGraph(Buffered(ok))
<1>1. WellFormedGraph(Empty)
  BY DEF WellFormedGraph, Graph, Empty, NoDanglingEdge, UniqueNames
<1>2. WellFormedGraph(Structure(Empty, Present))
  BY <1>1, PresentAreSources, StructureWellFormed
<1>3. /\ ok \in SUBSET Files
      /\ \A f \in ok : disk[f] \in Source
  BY PresentAreSources
<1>4. WellFormedGraph(Definitions(Structure(Empty, Present), ok, disk))
  BY <1>2, <1>3, DefinitionsWellFormed
<1> QED BY <1>3, <1>4, ImportsWellFormed DEF Buffered

LEMMA PrunedWellFormed ==
    ASSUME TypeOK, WellFormed
    PROVE  WellFormedGraph(Pruned)
<1>1. WellFormedGraph(graph)
  BY DEF WellFormedGraph, TypeOK, WellFormed
<1>2. WellFormedGraph(Structure(graph, Present))
  BY <1>1, PresentAreSources, StructureWellFormed
<1>3. WellFormedGraph(RemoveDeleted(Structure(graph, Present), Present))
  BY <1>2, DeleteWellFormed DEF RemoveDeleted
<1> QED BY <1>3, DeleteWellFormed DEF Pruned, DeleteFiles

LEMMA ReparsedWellFormed ==
    ASSUME TypeOK, WellFormed, NEW ok \in SUBSET ChangedFiles
    PROVE  /\ WellFormedGraph(Reparsed(ok))
           /\ Reparsed(ok).nodes = Definitions(Pruned, ok, disk).nodes
<1>1. /\ ok \in SUBSET Files
      /\ \A f \in ok : disk[f] \in Source
  BY PresentAreSources
<1>2. WellFormedGraph(Definitions(Pruned, ok, disk))
  BY <1>1, PrunedWellFormed, DefinitionsWellFormed
<1> QED BY <1>1, <1>2, ImportsWellFormed DEF Reparsed

\* What a run commits, whichever extractions fail.
FullCommits(ok) ==
    /\ ok \in SUBSET Present
    /\ \E es \in CallEdges(Buffered(ok), ok, ok, disk) : graph' = InsertEdges(Buffered(ok), es)
    /\ parsed' = ok /\ resolved' = ok

IncrementalCommits(ok, found, again) ==
    LET toResolve == ChangedFiles \cup found
        g == DropCalls(Reparsed(ok), toResolve) IN
    /\ ok \in SUBSET ChangedFiles /\ found \in FoundDependents(ok)
    /\ again \in SUBSET (toResolve \ ok)
    /\ \E es \in CallEdges(g, ok \cup again, ok, disk) : graph' = InsertEdges(g, es)
    /\ parsed' = ok /\ resolved' = ok \cup again

LEMMA FullRunCommits ==
    ASSUME FullRun
    PROVE  \E ok : FullCommits(ok)
BY DEF FullRun, FullCommits

LEMMA IncrementalRunCommits ==
    ASSUME IncrementalRun
    PROVE  \E ok, found, again : IncrementalCommits(ok, found, again)
BY DEF IncrementalRun, IncrementalCommits

LEMMA FoundAreUnchanged ==
    ASSUME NEW ok, NEW found \in FoundDependents(ok)
    PROVE  found \subseteq UnchangedFiles
BY DEF FoundDependents, Dependents

\* The files a run parses and resolves are on disk, and the graph it commits
\* is well formed.
LEMMA FullRunKeepsForm ==
    ASSUME TypeOK, NEW ok, FullCommits(ok)
    PROVE  /\ WellFormedGraph(graph') /\ graph'.nodes = Buffered(ok).nodes
           /\ parsed' \subseteq Files /\ resolved' \subseteq Files
BY BufferedWellFormed, PresentAreSources, ResolvedWellFormed DEF FullCommits

LEMMA IncrementalRunKeepsForm ==
    ASSUME TypeOK, WellFormed, NEW ok, NEW found, NEW again, IncrementalCommits(ok, found, again)
    PROVE  /\ WellFormedGraph(graph') /\ graph'.nodes = Reparsed(ok).nodes
           /\ parsed' \subseteq Files /\ resolved' \subseteq Files
           /\ ok \cup again \subseteq ChangedFiles \cup found
           /\ ok \cup again \subseteq Present
<1> DEFINE g == DropCalls(Reparsed(ok), ChangedFiles \cup found)
<1>1. /\ ok \in SUBSET ChangedFiles /\ found \subseteq UnchangedFiles
      /\ again \subseteq ChangedFiles \cup found
  BY FoundAreUnchanged DEF IncrementalCommits
<1>2. ok \cup again \in SUBSET Files /\ ok \cup again \subseteq Present
  BY <1>1, PresentAreSources
<1>3. WellFormedGraph(g) /\ g.nodes = Reparsed(ok).nodes
  BY <1>1, ReparsedWellFormed, DropCallsWellFormed
<1>4. PICK es \in CallEdges(g, ok \cup again, ok, disk) : graph' = InsertEdges(g, es)
  BY DEF IncrementalCommits
<1>5. WellFormedGraph(graph') /\ graph'.nodes = Reparsed(ok).nodes
  BY <1>2, <1>3, <1>4, ResolvedWellFormed
<1> QED BY <1>1, <1>2, <1>5 DEF IncrementalCommits

\* How many extractions fail is a number.
LEMMA SomeFail ==
    ASSUME NEW fs \in SUBSET Files
    PROVE  Cardinality(fs) \in Nat
BY IndexAssumption, FS_Subset, FS_CardinalityType

\* Every edge joins two stored nodes and no qualified name has two nodes, in
\* every graph that a run commits (every step keeps that).
THEOREM TypeAndForm == Spec => [](TypeOK /\ WellFormed)
<1>1. Init => TypeOK /\ WellFormed
  BY IndexAssumption
     DEF Init, TypeOK, WellFormed, NoDanglingEdge, UniqueNames, Graph, Empty
<1>2. TypeOK /\ WellFormed /\ [Next]_vars => TypeOK' /\ WellFormed'
  <2> SUFFICES ASSUME TypeOK, WellFormed, [Next]_vars PROVE TypeOK' /\ WellFormed'
    OBVIOUS
  <2>1. ASSUME NEW f \in Files, NEW c \in Sources \cup {Absent}, Edit(f, c)
        PROVE  TypeOK' /\ WellFormed'
    BY <2>1, IndexAssumption DEF Edit, TypeOK, WellFormed
  <2>2. CASE FullRun
    <3>1. PICK ok : FullCommits(ok)
      BY <2>2, FullRunCommits
    <3>2. WellFormedGraph(graph') /\ parsed' \subseteq Files /\ resolved' \subseteq Files
      BY <3>1, FullRunKeepsForm
    <3>3. failures' \in 0..MaxFailures
      <4>1. PICK okk \in SUBSET Present : failures' = failures + Cardinality(Present \ okk)
        BY <2>2 DEF FullRun
      <4>2. Cardinality(Present \ okk) \in Nat
        BY SomeFail, PresentAreSources
      <4> QED BY <2>2, <4>1, <4>2, IndexAssumption DEF FullRun, TypeOK
    <3>4. hash' \in [Files -> Sources \cup {Absent}]
      BY <2>2 DEF FullRun, NewHash, TypeOK
    <3> QED BY <2>2, <3>2, <3>3, <3>4 DEF FullRun, TypeOK, WellFormed, WellFormedGraph
  <2>3. CASE NoOpRun
    BY <2>3 DEF NoOpRun, TypeOK, WellFormed
  <2>4. CASE IncrementalRun
    <3>1. PICK ok, found, again : IncrementalCommits(ok, found, again)
      BY <2>4, IncrementalRunCommits
    <3>2. WellFormedGraph(graph') /\ parsed' \subseteq Files /\ resolved' \subseteq Files
      BY <3>1, IncrementalRunKeepsForm
    <3>3. failures' \in 0..MaxFailures
      <4>1. PICK okk, fd, ag :
                /\ okk \subseteq ChangedFiles /\ fd \subseteq UnchangedFiles
                /\ failures' = failures + Cardinality(ChangedFiles \ okk)
                         + Cardinality((ChangedFiles \cup fd) \ (okk \cup ag))
                /\ failures' <= MaxFailures
        BY <2>4, FoundAreUnchanged DEF IncrementalRun
      <4>2. /\ Cardinality(ChangedFiles \ okk) \in Nat
            /\ Cardinality((ChangedFiles \cup fd) \ (okk \cup ag)) \in Nat
        <5>1. /\ ChangedFiles \ okk \in SUBSET Files
              /\ (ChangedFiles \cup fd) \ (okk \cup ag) \in SUBSET Files
          BY <4>1, PresentAreSources
        <5> QED BY <5>1, SomeFail
      <4> QED BY <4>1, <4>2, IndexAssumption DEF TypeOK
    <3>4. hash' \in [Files -> Sources \cup {Absent}]
      BY <2>4 DEF IncrementalRun, NewHash, TypeOK
    <3> QED BY <2>4, <3>2, <3>3, <3>4 DEF IncrementalRun, TypeOK, WellFormed, WellFormedGraph
  <2>5. CASE UNCHANGED vars
    BY <2>5 DEF vars, TypeOK, WellFormed
  <2> QED BY <2>1, <2>2, <2>3, <2>4, <2>5 DEF Next
<1> QED BY <1>1, <1>2, PTL DEF Spec

\* The tables keep their shape over any sequence of edits and runs.
THEOREM TypeCorrect == Spec => []TypeOK
BY TypeAndForm, PTL

-----------------------------------------------------------------------------
(* Whose nodes and names the passes make.                                  *)

\* A node that a run makes of the files fs with the contents src.
NodeOf(n, fs, src) ==
    \/ n = ProjectNode
    \/ \E d \in DirsOf(fs) : n = DirNode(d)
    \/ \E f \in fs : \/ n = FileNode(f)
                     \/ n = ModuleNode(f)
                     \/ \E d \in src[f].defs : n = DefNode(f, d)

NodesOf(g, fs, src) == \A n \in g.nodes : NodeOf(n, fs, src)

\* passStructure makes the nodes of the project, the directories, the files.
LEMMA StructureNodes ==
    ASSUME NEW g, WellFormedGraph(g), NEW fs \in SUBSET Files
    PROVE  /\ \A n \in Structure(g, fs).nodes :
                \/ n \in g.nodes \/ n = ProjectNode
                \/ \E d \in DirsOf(fs) : n = DirNode(d)
                \/ \E f \in fs : n = FileNode(f)
           /\ QNs(Structure(g, fs).nodes) =
                QNs(g.nodes) \cup {Root} \cup DirsOf(fs) \cup {FileQN(f) : f \in fs}
<1> DEFINE dirs == {ProjectNode} \cup {DirNode(d) : d \in DirsOf(fs)}
           files == {FileNode(f) : f \in fs}
           one == Upsert(g, dirs)
           rows == Latest(files)
           two == Upsert(one, rows)
<1>1. dirs \in SUBSET Node /\ g \in Graph
  BY DirsAreNames, NodesAreNodes DEF WellFormedGraph
<1>2. /\ one \in Graph /\ one.nodes = {n \in g.nodes : n.qn \notin QNs(dirs)} \cup dirs
      /\ QNs(one.nodes) = QNs(g.nodes) \cup QNs(dirs)
  BY <1>1, UpsertNames
<1>3. rows \in SUBSET Node /\ rows \subseteq files /\ QNs(rows) = QNs(files)
  BY FileRowsAreNodes
<1>4. QNs(dirs) = {Root} \cup DirsOf(fs) /\ QNs(files) = {FileQN(f) : f \in fs}
  <2>1. ProjectNode.qn = Root /\ \A d : DirNode(d).qn = d /\ FileNode(d).qn = FileQN(d)
    BY DEF ProjectNode, DirNode, FileNode
  <2> QED BY <2>1 DEF QNs
<1>5. Structure(g, fs).nodes = two.nodes
  BY DEF Structure, InsertEdges
<1> HIDE DEF one, rows
<1>6. /\ two.nodes = {n \in one.nodes : n.qn \notin QNs(rows)} \cup rows
      /\ QNs(two.nodes) = QNs(one.nodes) \cup QNs(rows)
  BY <1>2, <1>3, UpsertNames
<1> HIDE DEF two
<1>7. QNs(Structure(g, fs).nodes) = QNs(g.nodes) \cup {Root} \cup DirsOf(fs) \cup {FileQN(f) : f \in fs}
  BY <1>2, <1>3, <1>4, <1>5, <1>6
<1>8. ASSUME NEW n \in Structure(g, fs).nodes
      PROVE  n \in g.nodes \/ n \in dirs \/ n \in files
  BY <1>2, <1>3, <1>5, <1>6
<1> QED BY <1>7, <1>8

\* The names of the rows of passDefinitions.
LEMMA RowNames ==
    ASSUME NEW fs, NEW src
    PROVE  \A q : q \in QNs(Rows(fs, src)) <=>
              \E f \in fs : q = ModuleQN(f) \/ \E n \in src[f].defs : q = DefQN(f, n)
<1>1. \A f, n : ModuleNode(f).qn = ModuleQN(f) /\ DefNode(f, n).qn = DefQN(f, n)
  BY DEF ModuleNode, DefNode
<1>2. ASSUME NEW q, q \in QNs(Rows(fs, src))
      PROVE  \E f \in fs : q = ModuleQN(f) \/ \E n \in src[f].defs : q = DefQN(f, n)
  <2>1. PICK r \in Rows(fs, src) : q = r.qn
    BY <1>2 DEF QNs
  <2>2. CASE r \in {ModuleNode(f) : f \in fs}
    BY <1>1, <2>1, <2>2
  <2>3. CASE r \in UNION {{DefNode(f, n) : n \in src[f].defs} : f \in fs}
    <3>1. PICK f \in fs : r \in {DefNode(f, n) : n \in src[f].defs}
      BY <2>3
    <3> QED BY <1>1, <2>1, <3>1
  <2> QED BY <2>2, <2>3 DEF Rows
<1>3. ASSUME NEW f \in fs PROVE ModuleQN(f) \in QNs(Rows(fs, src))
  <2>1. ModuleNode(f) \in Rows(fs, src)
    BY DEF Rows
  <2> QED BY <1>1, <2>1 DEF QNs
<1>4. ASSUME NEW f \in fs, NEW n \in src[f].defs PROVE DefQN(f, n) \in QNs(Rows(fs, src))
  <2>1. DefNode(f, n) \in Rows(fs, src)
    BY DEF Rows
  <2> QED BY <1>1, <2>1 DEF QNs
<1> QED BY <1>2, <1>3, <1>4

\* passDefinitions makes those of modules and functions.
LEMMA DefinitionsNodes ==
    ASSUME NEW g, WellFormedGraph(g), NEW fs \in SUBSET Files,
           NEW src, \A f \in fs : src[f] \in Source
    PROVE  /\ \A n \in Definitions(g, fs, src).nodes :
                \/ n \in g.nodes /\ n.qn \notin QNs(Rows(fs, src))
                \/ n \in Rows(fs, src)
           /\ QNs(Definitions(g, fs, src).nodes) = QNs(g.nodes) \cup QNs(Rows(fs, src))
<1>1. \A f \in fs : src[f].defs \subseteq Names
  BY DEF Source
<1>2. /\ Latest(Rows(fs, src)) \in SUBSET Node /\ Latest(Rows(fs, src)) \subseteq Rows(fs, src)
      /\ QNs(Latest(Rows(fs, src))) = QNs(Rows(fs, src))
  BY <1>1, RowsAreNodes
<1>3. Definitions(g, fs, src).nodes = Upsert(g, Latest(Rows(fs, src))).nodes
  BY DEF Definitions, InsertEdges, Rows
<1>4. g \in Graph
  BY DEF WellFormedGraph
<1> QED BY <1>2, <1>3, <1>4, UpsertNames

\* The rows of a file's content are nodes of it.
LEMMA RowsAreOf ==
    ASSUME NEW fs, NEW src, NEW n \in Rows(fs, src)
    PROVE  \E f \in fs : n = ModuleNode(f) \/ \E d \in src[f].defs : n = DefNode(f, d)
<1>1. CASE n \in {ModuleNode(f) : f \in fs}
  BY <1>1
<1>2. CASE n \in UNION {{DefNode(f, d) : d \in src[f].defs} : f \in fs}
  <2>1. PICK f \in fs : n \in {DefNode(f, d) : d \in src[f].defs}
    BY <1>2
  <2> QED BY <2>1
<1> QED BY <1>1, <1>2 DEF Rows

\* A full run makes nodes of the working tree only.
LEMMA BufferedNodes ==
    ASSUME TypeOK, NEW ok \in SUBSET Present
    PROVE  /\ NodesOf(Buffered(ok), Present, disk)
           /\ QNs(Buffered(ok).nodes) =
                {Root} \cup DirsOf(Present) \cup {FileQN(f) : f \in Present} \cup QNs(Rows(ok, disk))
<1>1. WellFormedGraph(Empty)
  BY DEF WellFormedGraph, Graph, Empty, NoDanglingEdge, UniqueNames
<1>2. Present \in SUBSET Files /\ ok \in SUBSET Files /\ \A f \in ok : disk[f] \in Source
  BY PresentAreSources
<1>3. WellFormedGraph(Structure(Empty, Present))
  BY <1>1, <1>2, StructureWellFormed
<1>4. Buffered(ok).nodes = Definitions(Structure(Empty, Present), ok, disk).nodes
  BY DEF Buffered, Imports, InsertEdges
<1>5. QNs(Empty.nodes) = {} /\ Empty.nodes = {}
  BY DEF QNs, Empty
<1>6. QNs(Structure(Empty, Present).nodes) =
        QNs(Empty.nodes) \cup {Root} \cup DirsOf(Present) \cup {FileQN(f) : f \in Present}
  BY <1>1, <1>2, StructureNodes
<1>7. QNs(Buffered(ok).nodes) = QNs(Structure(Empty, Present).nodes) \cup QNs(Rows(ok, disk))
  BY <1>2, <1>3, <1>4, DefinitionsNodes
<1>8. NodesOf(Buffered(ok), Present, disk)
  <2> SUFFICES ASSUME NEW n \in Buffered(ok).nodes PROVE NodeOf(n, Present, disk)
    BY DEF NodesOf
  <2>1. CASE n \in Rows(ok, disk)
    BY <2>1, RowsAreOf DEF NodeOf
  <2>2. CASE n \in Structure(Empty, Present).nodes
    BY <1>1, <1>2, <1>5, <2>2, StructureNodes DEF NodeOf
  <2> QED BY <1>2, <1>3, <1>4, <2>1, <2>2, DefinitionsNodes
<1> QED BY <1>5, <1>6, <1>7, <1>8

\* The files that a graph is about.
Hashed == {f \in Files : hash[f] # Absent}

\* After the deletions of an incremental run the nodes left are the project's
\* and those of unchanged files.
LEMMA PrunedNodes ==
    ASSUME TypeOK, WellFormed, NodesOf(graph, Hashed, hash)
    PROVE  \A n \in Pruned.nodes : \/ n = ProjectNode
                                   \/ /\ n.path \in UnchangedFiles
                                      /\ NodeOf(n, UnchangedFiles, disk)
<1> SUFFICES ASSUME NEW n \in Pruned.nodes, n # ProjectNode
             PROVE  n.path \in UnchangedFiles /\ NodeOf(n, UnchangedFiles, disk)
  OBVIOUS
<1>1. WellFormedGraph(graph) /\ Present \in SUBSET Files
  BY PresentAreSources DEF WellFormedGraph, TypeOK, WellFormed
<1>2. /\ n \in Structure(graph, Present).nodes
      /\ n.path = Nothing \/ n.path \in Present
      /\ n.path \notin ChangedFiles
  BY DEF Pruned, DeleteFiles, RemoveDeleted, Delete
<1>3. \/ NodeOf(n, Hashed, hash)
      \/ \E d \in DirsOf(Present) : n = DirNode(d)
      \/ \E f \in Present : n = FileNode(f)
  BY <1>1, <1>2, StructureNodes DEF NodesOf
<1>4. ASSUME NEW fs \in SUBSET Files, NEW d \in DirsOf(fs), n = DirNode(d) PROVE FALSE
  <2>1. n.path = d /\ d \in QN
    BY <1>4, DirsAreNames DEF DirNode
  <2> QED BY <1>1, <1>2, <2>1, IndexAssumption
<1>5. PICK f \in Files : \/ n = FileNode(f)
                         \/ f \in Hashed /\ n = ModuleNode(f)
                         \/ f \in Hashed /\ \E d \in hash[f].defs : n = DefNode(f, d)
  BY <1>1, <1>3, <1>4 DEF NodeOf, Hashed
<1>6. n.path = f
  BY <1>5 DEF FileNode, ModuleNode, DefNode
<1>7. f \in UnchangedFiles /\ hash[f] = disk[f]
  BY <1>2, <1>6, IndexAssumption DEF ChangedFiles, UnchangedFiles
<1> QED BY <1>5, <1>6, <1>7 DEF NodeOf

\* An incremental run makes nodes of the working tree only, too.
LEMMA ReparsedNodes ==
    ASSUME TypeOK, WellFormed, NodesOf(graph, Hashed, hash), NEW ok \in SUBSET ChangedFiles
    PROVE  NodesOf(Reparsed(ok), Present, disk)
<1> SUFFICES ASSUME NEW n \in Reparsed(ok).nodes PROVE NodeOf(n, Present, disk)
  BY DEF NodesOf
<1>1. ok \in SUBSET Files /\ \A f \in ok : disk[f] \in Source
  BY PresentAreSources
<1>2. n \in Pruned.nodes \/ n \in Rows(ok, disk)
  BY <1>1, ReparsedWellFormed, PrunedWellFormed, DefinitionsNodes
<1>3. CASE n \in Rows(ok, disk)
  BY <1>3, RowsAreOf, PresentAreSources DEF NodeOf
<1>4. CASE n \in Pruned.nodes
  <2>1. n = ProjectNode \/ NodeOf(n, UnchangedFiles, disk)
    BY <1>4, PrunedNodes
  <2>2. DirsOf(UnchangedFiles) \subseteq DirsOf(Present) /\ UnchangedFiles \subseteq Present
    BY PresentAreSources DEF DirsOf
  <2> QED BY <2>1, <2>2 DEF NodeOf
<1> QED BY <1>2, <1>3, <1>4

-----------------------------------------------------------------------------
(* The names of a file that shares none.                                   *)

\* A node of such a name is one of the file.
LEMMA OwnNode ==
    ASSUME NEW f \in Own, NEW fs \in SUBSET Files, NEW src,
           \A h \in fs : src[h].defs \subseteq Names,
           NEW n, NodeOf(n, fs, src), n.qn \in NamesOf(f)
    PROVE  /\ f \in fs /\ n.path = f
           /\ \/ n = FileNode(f) \/ n = ModuleNode(f)
              \/ \E d \in src[f].defs : n = DefNode(f, d)
<1>1. n # ProjectNode /\ \A d \in DirsOf(fs) : n # DirNode(d)
  BY OwnNames DEF ProjectNode, DirNode
<1>2. PICK h \in fs : n = FileNode(h) \/ n = ModuleNode(h) \/ \E d \in src[h].defs : n = DefNode(h, d)
  BY <1>1 DEF NodeOf
<1>3. n.qn \in NamesOf(h) /\ n.path = h
  BY <1>2 DEF FileNode, ModuleNode, DefNode, NamesOf
<1>4. h = f
  BY <1>3, OwnNames
<1> QED BY <1>2, <1>3, <1>4

\* The module and the functions of such a file, by name.
Code(f) == {ModuleQN(f)} \cup {DefQN(f, n) : n \in Names}

LEMMA CodeIsNamed ==
    ASSUME NEW f \in Own, NEW q \in Code(f)
    PROVE  /\ f \in Files /\ q \in NamesOf(f) /\ q # Root
           /\ \A fs \in SUBSET Files : q \notin DirsOf(fs)
           /\ \A h \in Files : q # FileQN(h)
<1>1. f \in Files /\ q \in NamesOf(f)
  BY DEF Own, Code, NamesOf
<1>2. q # FileQN(f)
  <2>1. ModuleQN(f) \in QN /\ FileMark \in Segments
    BY <1>1, NamesAreNames, IndexAssumption
  <2>2. ModuleQN(f) # FileQN(f)
    BY <2>1, AppendIsName DEF FileQN
  <2> QED BY <1>1, <2>2, FileNamesDiffer DEF Code
<1>3. ASSUME NEW h \in Files, q = FileQN(h) PROVE FALSE
  <2>1. q \in NamesOf(h)
    BY <1>3 DEF NamesOf
  <2>2. h = f
    BY <1>1, <2>1, OwnNames
  <2> QED BY <1>2, <1>3, <2>2
<1> QED BY <1>1, <1>3, OwnNames

\* passStructure leaves them alone.
LEMMA StructureOwn ==
    ASSUME NEW g, WellFormedGraph(g), NEW fs \in SUBSET Files, NEW f \in Own, NEW q \in Code(f)
    PROVE  q \in QNs(Structure(g, fs).nodes) <=> q \in QNs(g.nodes)
BY StructureNodes, CodeIsNamed

\* passDefinitions adds those of its own files.
LEMMA RowsOwn ==
    ASSUME NEW fs \in SUBSET Files, NEW src, \A h \in fs : src[h].defs \subseteq Names, NEW f \in Own
    PROVE  /\ ModuleQN(f) \in QNs(Rows(fs, src)) <=> f \in fs
           /\ \A n \in Names :
                DefQN(f, n) \in QNs(Rows(fs, src)) <=> f \in fs /\ n \in src[f].defs
<1>1. f \in Files
  BY DEF Own
<1>2. ASSUME NEW q \in NamesOf(f), NEW h \in fs, q = ModuleQN(h) \/ \E n \in src[h].defs : q = DefQN(h, n)
      PROVE  h = f
  <2>1. q \in NamesOf(h)
    BY <1>2 DEF NamesOf
  <2> QED BY <2>1, OwnNames
<1>3. ModuleQN(f) \in NamesOf(f) /\ \A n \in Names : DefQN(f, n) \in NamesOf(f)
  BY DEF NamesOf
<1> QED BY <1>1, <1>2, <1>3, RowNames, FileNamesDiffer

\* The deletions take those of every file that has changed.
LEMMA PrunedOwn ==
    ASSUME TypeOK, WellFormed, NodesOf(graph, Hashed, hash), NEW f \in Own, NEW q \in Code(f)
    PROVE  q \in QNs(Pruned.nodes) <=> f \in UnchangedFiles /\ q \in QNs(graph.nodes)
<1>1. WellFormedGraph(graph) /\ Present \in SUBSET Files
  BY PresentAreSources DEF WellFormedGraph, TypeOK, WellFormed
<1>2. q \in NamesOf(f) /\ q # Root
  BY CodeIsNamed
<1>3. ASSUME q \in QNs(Pruned.nodes)
      PROVE  f \in UnchangedFiles /\ q \in QNs(graph.nodes)
  <2>1. PICK n \in Pruned.nodes : n.qn = q
    BY <1>3 DEF QNs
  <2>2. n \in Structure(graph, Present).nodes
    BY DEF Pruned, DeleteFiles, RemoveDeleted, Delete
  <2>3. q \in QNs(graph.nodes)
    <3>1. q \in QNs(Structure(graph, Present).nodes)
      BY <2>1, <2>2 DEF QNs
    <3> QED BY <1>1, <3>1, StructureOwn
  <2>4. n.path \in UnchangedFiles /\ NodeOf(n, UnchangedFiles, disk)
    BY <1>2, <2>1, PrunedNodes DEF ProjectNode
  <2>5. \A h \in UnchangedFiles : h \in Files /\ disk[h].defs \subseteq Names
    BY PresentAreSources DEF Source
  <2> QED BY <1>2, <2>1, <2>3, <2>4, <2>5, OwnNode
<1>4. ASSUME f \in UnchangedFiles, q \in QNs(graph.nodes)
      PROVE  q \in QNs(Pruned.nodes)
  <2>1. PICK n \in Structure(graph, Present).nodes : n.qn = q
    <3>1. q \in QNs(Structure(graph, Present).nodes)
      BY <1>1, <1>4, StructureOwn
    <3> QED BY <3>1 DEF QNs
  <2>2. n.path = f
    <3>1. CASE n \in graph.nodes
      <4>1. NodeOf(n, Hashed, hash) /\ \A h \in Hashed : h \in Files /\ hash[h].defs \subseteq Names
        BY <3>1, IndexAssumption DEF NodesOf, Hashed, TypeOK, Source
      <4> QED BY <1>2, <2>1, <4>1, OwnNode
    <3>2. CASE n \notin graph.nodes
      <4>1. n = ProjectNode \/ (\E d \in DirsOf(Present) : n = DirNode(d)) \/ (\E h \in Present : n = FileNode(h))
        BY <1>1, <3>2, StructureNodes
      <4> QED BY <1>1, <2>1, <4>1, CodeIsNamed DEF ProjectNode, DirNode, FileNode
    <3> QED BY <3>1, <3>2
  <2>3. f \in Present /\ f \notin ChangedFiles
    BY <1>4 DEF ChangedFiles, UnchangedFiles
  <2>4. n \in Pruned.nodes
    BY <2>1, <2>2, <2>3 DEF Pruned, DeleteFiles, RemoveDeleted, Delete
  <2> QED BY <2>1, <2>4 DEF QNs
<1> QED BY <1>3, <1>4

\* What a run leaves of such a file's names.
LEMMA BufferedOwn ==
    ASSUME TypeOK, NEW ok \in SUBSET Present, NEW f \in Own
    PROVE  /\ ModuleQN(f) \in QNs(Buffered(ok).nodes) <=> f \in ok
           /\ \A n \in Names : DefQN(f, n) \in QNs(Buffered(ok).nodes) <=> f \in ok /\ n \in disk[f].defs
<1>1. ok \in SUBSET Files /\ Present \in SUBSET Files /\ \A h \in ok : disk[h].defs \subseteq Names
  BY PresentAreSources DEF Source
<1>2. ModuleQN(f) \in Code(f) /\ \A n \in Names : DefQN(f, n) \in Code(f)
  BY DEF Code
<1>3. \A q \in Code(f) : q \in QNs(Buffered(ok).nodes) <=> q \in QNs(Rows(ok, disk))
  BY <1>1, BufferedNodes, CodeIsNamed
<1> QED BY <1>1, <1>2, <1>3, RowsOwn

LEMMA ReparsedOwn ==
    ASSUME TypeOK, WellFormed, NodesOf(graph, Hashed, hash), NEW ok \in SUBSET ChangedFiles, NEW f \in Own
    PROVE  /\ ModuleQN(f) \in QNs(Reparsed(ok).nodes) <=>
                f \in ok \/ (f \in UnchangedFiles /\ ModuleQN(f) \in QNs(graph.nodes))
           /\ \A n \in Names :
                DefQN(f, n) \in QNs(Reparsed(ok).nodes) <=>
                    \/ f \in ok /\ n \in disk[f].defs
                    \/ f \in UnchangedFiles /\ DefQN(f, n) \in QNs(graph.nodes)
<1>1. ok \in SUBSET Files /\ \A h \in ok : disk[h] \in Source /\ disk[h].defs \subseteq Names
  BY PresentAreSources DEF Source
<1>2. ModuleQN(f) \in Code(f) /\ \A n \in Names : DefQN(f, n) \in Code(f)
  BY DEF Code
<1>3. QNs(Reparsed(ok).nodes) = QNs(Pruned.nodes) \cup QNs(Rows(ok, disk))
  BY <1>1, ReparsedWellFormed, PrunedWellFormed, DefinitionsNodes
<1>4. \A q \in Code(f) : q \in QNs(Reparsed(ok).nodes) <=>
        \/ f \in UnchangedFiles /\ q \in QNs(graph.nodes)
        \/ q \in QNs(Rows(ok, disk))
  BY <1>3, PrunedOwn
<1>5. /\ ModuleQN(f) \in QNs(Rows(ok, disk)) <=> f \in ok
      /\ \A n \in Names : DefQN(f, n) \in QNs(Rows(ok, disk)) <=> f \in ok /\ n \in disk[f].defs
  BY <1>1, RowsOwn
<1> QED BY <1>2, <1>4, <1>5

-----------------------------------------------------------------------------
(* The nodes that are stored, over all runs.                               *)

DefsOf(g, f) == {n \in Names : DefQN(f, n) \in QNs(g.nodes)}

\* The functions a graph has of a file are those of the content c, or none.
Describes(g, f, c) ==
    IF ModuleQN(f) \in QNs(g.nodes) THEN c # Absent /\ DefsOf(g, f) = c.defs
                                    ELSE DefsOf(g, f) = {}

NodeInv ==
    /\ NodesOf(graph, Hashed, hash)
    /\ last \in {"full", "incremental"} => NodesOf(graph, Present, disk)
    /\ \A f \in Own : Describes(graph, f, hash[f])

\* Nodes of some files are nodes of more files.
LEMMA NodesOfMore ==
    ASSUME NEW g, NEW fs, NEW src, NodesOf(g, fs, src),
           NEW more, fs \subseteq more, NEW now, \A f \in fs : now[f] = src[f]
    PROVE  NodesOf(g, more, now)
<1>1. DirsOf(fs) \subseteq DirsOf(more)
  BY DEF DirsOf
<1> QED BY <1>1 DEF NodesOf, NodeOf

\* The hash of every file on disk is recorded, parsed or not.
LEMMA RunsRecord ==
    ASSUME TypeOK, FullRun \/ IncrementalRun
    PROVE  /\ disk' = disk /\ Present' = Present
           /\ \A f \in Present : hash'[f] = disk[f] /\ f \in Hashed'
           /\ last' \in {"full", "incremental"}
<1>1. /\ disk' = disk /\ last' \in {"full", "incremental"}
      /\ \E gone : hash' = NewHash(gone)
  BY DEF FullRun, IncrementalRun
<1>2. \A f \in Present : f \in Files /\ disk[f] # Absent
  BY DEF Present
<1> QED BY <1>1, <1>2 DEF NewHash, Present, Hashed

\* A run commits nodes of the working tree, and of each file that shares no
\* name all functions or none.
LEMMA FullRunNodes ==
    ASSUME TypeOK, NEW ok, FullCommits(ok)
    PROVE  /\ NodesOf(graph', Present, disk)
           /\ \A f \in Own : IF ModuleQN(f) \in QNs(graph'.nodes)
                             THEN f \in Present /\ DefsOf(graph', f) = disk[f].defs
                             ELSE DefsOf(graph', f) = {}
<1>1. ok \in SUBSET Present /\ graph'.nodes = Buffered(ok).nodes
  BY FullRunKeepsForm DEF FullCommits
<1>2. NodesOf(graph', Present, disk)
  BY <1>1, BufferedNodes DEF NodesOf
<1>3. \A f \in ok : disk[f].defs \subseteq Names
  BY <1>1, PresentAreSources DEF Source
<1> QED BY <1>1, <1>2, <1>3, BufferedOwn DEF DefsOf

LEMMA IncrementalRunNodes ==
    ASSUME TypeOK, WellFormed, NodeInv, NEW ok, NEW found, NEW again,
           IncrementalCommits(ok, found, again)
    PROVE  /\ NodesOf(graph', Present, disk)
           /\ \A f \in Own : IF ModuleQN(f) \in QNs(graph'.nodes)
                             THEN f \in Present /\ DefsOf(graph', f) = disk[f].defs
                             ELSE DefsOf(graph', f) = {}
<1>1. ok \in SUBSET ChangedFiles /\ graph'.nodes = Reparsed(ok).nodes
  BY IncrementalRunKeepsForm DEF IncrementalCommits
<1>2. NodesOf(graph, Hashed, hash)
  BY DEF NodeInv
<1>3. NodesOf(graph', Present, disk)
  BY <1>1, <1>2, ReparsedNodes DEF NodesOf
<1>4. \A f \in ok : disk[f].defs \subseteq Names /\ f \in Present
  BY <1>1, PresentAreSources DEF Source
<1>5. ASSUME NEW f \in Own
      PROVE  IF ModuleQN(f) \in QNs(graph'.nodes)
             THEN f \in Present /\ DefsOf(graph', f) = disk[f].defs
             ELSE DefsOf(graph', f) = {}
  <2>1. /\ ModuleQN(f) \in QNs(graph'.nodes) <=>
             f \in ok \/ (f \in UnchangedFiles /\ ModuleQN(f) \in QNs(graph.nodes))
        /\ \A n \in Names : n \in DefsOf(graph', f) <=>
             \/ f \in ok /\ n \in disk[f].defs
             \/ f \in UnchangedFiles /\ n \in DefsOf(graph, f)
    BY <1>1, <1>2, ReparsedOwn DEF DefsOf
  <2>2. DefsOf(graph', f) \subseteq Names
    BY DEF DefsOf
  <2>3. Describes(graph, f, hash[f])
    BY DEF NodeInv
  <2>4. CASE f \in ok
    <3>1. f \notin UnchangedFiles
      BY <1>1, <2>4 DEF ChangedFiles
    <3>2. disk[f].defs \subseteq Names /\ f \in Present
      BY <1>4, <2>4
    <3>3. \A n \in Names : n \in DefsOf(graph', f) <=> n \in disk[f].defs
      BY <2>1, <2>4, <3>1
    <3>4. DefsOf(graph', f) = disk[f].defs
      BY <2>2, <3>2, <3>3
    <3> QED BY <2>1, <2>4, <3>2, <3>4
  <2>5. CASE f \in UnchangedFiles
    <3>1. hash[f] = disk[f] /\ f \notin ok /\ f \in Present
      BY <1>1, <2>5 DEF UnchangedFiles, ChangedFiles
    <3>2. DefsOf(graph', f) = DefsOf(graph, f)
      BY <2>1, <2>2, <2>5, <3>1 DEF DefsOf
    <3> QED BY <2>1, <2>3, <2>5, <3>1, <3>2 DEF Describes
  <2>6. CASE f \notin ok /\ f \notin UnchangedFiles
    BY <2>1, <2>2, <2>6
  <2> QED BY <2>4, <2>5, <2>6
<1> QED BY <1>3, <1>5

LEMMA NodeInvHolds == Spec => []NodeInv
<1>1. Init => NodeInv
  BY DEF Init, NodeInv, NodesOf, Describes, DefsOf, QNs, Empty
<1>2. TypeOK /\ WellFormed /\ NodeInv /\ [Next]_vars => NodeInv'
  <2> SUFFICES ASSUME TypeOK, WellFormed, NodeInv, [Next]_vars PROVE NodeInv'
    OBVIOUS
  <2>1. CASE FullRun \/ IncrementalRun
    <3>1. /\ NodesOf(graph', Present, disk)
          /\ \A f \in Own : IF ModuleQN(f) \in QNs(graph'.nodes)
                            THEN f \in Present /\ DefsOf(graph', f) = disk[f].defs
                            ELSE DefsOf(graph', f) = {}
      BY <2>1, FullRunCommits, FullRunNodes, IncrementalRunCommits, IncrementalRunNodes
    <3>2. /\ disk' = disk /\ Present' = Present
          /\ \A f \in Present : hash'[f] = disk[f] /\ f \in Hashed'
      BY <2>1, RunsRecord
    <3>3. NodesOf(graph', Hashed', hash')
      BY <3>1, <3>2, NodesOfMore
    <3>4. \A f \in Own : Describes(graph', f, hash'[f])
      BY <3>1, <3>2 DEF Describes, Present
    <3> QED BY <3>1, <3>2, <3>3, <3>4 DEF NodeInv
  <2>2. CASE NoOpRun \/ \E f \in Files, c \in Sources \cup {Absent} : Edit(f, c)
    <3>1. UNCHANGED <<graph, hash>> /\ last' \notin {"full", "incremental"}
      BY <2>2 DEF NoOpRun, Edit
    <3> QED BY <3>1 DEF NodeInv, Hashed
  <2>3. CASE UNCHANGED vars
    BY <2>3 DEF vars, NodeInv, Hashed, Present
  <2> QED BY <2>1, <2>2, <2>3 DEF Next
<1> QED BY <1>1, <1>2, TypeAndForm, PTL DEF Spec

\* A module's or a function's node is one of the content that the hash of the
\* file at its path records, and the functions of a file that shares no name
\* are those of that content, or none, whatever runs built the graph.
THEOREM HashDescribes == Spec => []HashDescribesDefs
<1>1. TypeOK /\ NodeInv => HashDescribesDefs
  <2> SUFFICES ASSUME TypeOK, NodeInv PROVE HashDescribesDefs
    OBVIOUS
  <2>1. ASSUME NEW n \in graph.nodes, n.label \in {"Module", "Function"}
        PROVE  /\ n.path \in Files /\ hash[n.path] # Absent
               /\ \/ n = ModuleNode(n.path)
                  \/ \E d \in hash[n.path].defs : n = DefNode(n.path, d)
    <3>1. PICK f \in Hashed : n = ModuleNode(f) \/ \E d \in hash[f].defs : n = DefNode(f, d)
      BY <2>1 DEF NodeInv, NodesOf, NodeOf, ProjectNode, DirNode, FileNode
    <3>2. n.path = f
      BY <3>1 DEF ModuleNode, DefNode
    <3> QED BY <3>1, <3>2 DEF Hashed
  <2>2. \A f \in Own : Describes(graph, f, hash[f])
    BY DEF NodeInv
  <2> QED BY <2>1, <2>2 DEF HashDescribesDefs, Describes, DefsOf
<1> QED BY <1>1, TypeAndForm, NodeInvHolds, PTL

\* After a full or incremental run no node is left of a file that is gone.
THEOREM NothingIsLeft == Spec => []NothingOfTheGone
<1>1. NodeInv => NothingOfTheGone
  BY DEF NodeInv, NothingOfTheGone, NodesOf, NodeOf, ProjectNode, DirNode,
         FileNode, ModuleNode, DefNode
<1> QED BY <1>1, NodeInvHolds, PTL

-----------------------------------------------------------------------------
(* The edges that the passes make.                                         *)

\* Resolution finds functions of the name that is called.
LEMMA TargetsAreNamed ==
    ASSUME NEW m, NEW c, NEW imports, NEW reg, NEW q \in Targets(m, c, imports, reg)
    PROVE  q \in reg /\ Last(q) = c.name
<1> DEFINE named == {r \in reg : Last(r) = c.name}
           given == {t \in imports : Last(t) = c.via}
           tried == << {r \in named : IF c.via = Nothing THEN r \in imports ELSE Front(r) \in given},
                       {r \in named : \E t \in given : IsStrictPrefix(t, r)},
                       {r \in named : Front(r) = Append(m, c.via)},
                       {r \in named : Front(r) = m},
                       {r \in named : named = {r}},
                       {r \in named : Len(r) > 2 /\ Last(Front(r)) = c.via},
                       Best(m, named, imports) >>
<1>1. PICK k \in 1..7 : q \in tried[k]
  BY DEF Targets
<1>2. Best(m, named, imports) \subseteq named
  BY DEF Best
<1>3. \A i \in 1..6 : tried[i] \subseteq named
  OBVIOUS
<1>4. tried[7] = Best(m, named, imports)
  OBVIOUS
<1>5. q \in named
  <2> HIDE DEF tried, named
  <2> QED BY <1>1, <1>2, <1>3, <1>4
<1> QED BY <1>5

LEMMA StructureEdges ==
    ASSUME NEW g, NEW fs \in SUBSET Files, NEW e \in Structure(g, fs).edges
    PROVE  \/ e \in g.edges
           \/ \E d \in DirsOf(fs) : e = ContainsEdge(Front(d), d)
           \/ \E f \in fs : e = ContainsEdge(DirOf(f), FileQN(f))
BY DEF Structure, InsertEdges, Upsert

LEMMA DefinitionsEdges ==
    ASSUME NEW g, NEW fs, NEW src, NEW e \in Definitions(g, fs, src).edges
    PROVE  e \in g.edges \/ \E f \in fs : \E n \in src[f].defs : e = Defines(f, n)
<1>1. e \in g.edges \/ e \in UNION {{Defines(f, n) : n \in src[f].defs} : f \in fs}
  BY DEF Definitions, InsertEdges, Upsert
<1>2. ASSUME e \in UNION {{Defines(f, n) : n \in src[f].defs} : f \in fs}
      PROVE  \E f \in fs : \E n \in src[f].defs : e = Defines(f, n)
  <2>1. PICK f \in fs : e \in {Defines(f, n) : n \in src[f].defs}
    BY <1>2
  <2> QED BY <2>1
<1> QED BY <1>1, <1>2

LEMMA ImportsEdges ==
    ASSUME NEW g, NEW fs, NEW src, NEW e \in Imports(g, fs, src).edges
    PROVE  e \in g.edges \/ \E f \in fs : \E t \in ImportMap(ModuleQN(f), fs, src) : e = ImportOf(f, t)
<1>1. e \in g.edges \/ e \in UNION {{ImportOf(f, t) : t \in ImportMap(ModuleQN(f), fs, src)} : f \in fs}
  BY DEF Imports, InsertEdges
<1>2. ASSUME e \in UNION {{ImportOf(f, t) : t \in ImportMap(ModuleQN(f), fs, src)} : f \in fs}
      PROVE  \E f \in fs : \E t \in ImportMap(ModuleQN(f), fs, src) : e = ImportOf(f, t)
  <2>1. PICK f \in fs : e \in {ImportOf(f, t) : t \in ImportMap(ModuleQN(f), fs, src)}
    BY <1>2
  <2> QED BY <2>1
<1> QED BY <1>1, <1>2

\* What is left after the deletions was there before, or passStructure's.
LEMMA PrunedEdges ==
    ASSUME TypeOK, WellFormed, NEW e \in Pruned.edges
    PROVE  /\ \/ e \in graph.edges
              \/ \E d \in DirsOf(Present) : e = ContainsEdge(Front(d), d)
              \/ \E f \in Present : e = ContainsEdge(DirOf(f), FileQN(f))
           /\ e.src \in QNs(Pruned.nodes) /\ e.dst \in QNs(Pruned.nodes)
<1>1. e \in Structure(graph, Present).edges
  BY DEF Pruned, DeleteFiles, RemoveDeleted, Delete
<1>2. Present \in SUBSET Files
  BY PresentAreSources
<1> QED BY <1>1, <1>2, StructureEdges, PrunedWellFormed DEF WellFormedGraph, NoDanglingEdge

LEMMA ReparsedEdges ==
    ASSUME NEW ok, NEW e \in Reparsed(ok).edges
    PROVE  \/ e \in Pruned.edges
           \/ \E f \in ok : \E n \in disk[f].defs : e = Defines(f, n)
           \/ \E f \in ok : \E t \in ImportMap(ModuleQN(f), ok, disk) : e = ImportOf(f, t)
BY DefinitionsEdges, ImportsEdges DEF Reparsed

LEMMA BufferedEdges ==
    ASSUME TypeOK, NEW ok, NEW e \in Buffered(ok).edges
    PROVE  \/ \E d \in DirsOf(Present) : e = ContainsEdge(Front(d), d)
           \/ \E f \in Present : e = ContainsEdge(DirOf(f), FileQN(f))
           \/ \E f \in ok : \E n \in disk[f].defs : e = Defines(f, n)
           \/ \E f \in ok : \E t \in ImportMap(ModuleQN(f), ok, disk) : e = ImportOf(f, t)
<1>1. Present \in SUBSET Files
  BY PresentAreSources
<1>2. Empty.edges = {}
  BY DEF Empty
<1>3. \A x \in Structure(Empty, Present).edges :
        \/ \E d \in DirsOf(Present) : x = ContainsEdge(Front(d), d)
        \/ \E f \in Present : x = ContainsEdge(DirOf(f), FileQN(f))
  BY <1>1, <1>2, StructureEdges
<1> QED BY <1>3, DefinitionsEdges, ImportsEdges DEF Buffered

-----------------------------------------------------------------------------
(* What the search for dependents can find.                                *)

\* The search only finds files by a name that is shared: the edges to any
\* other changed module went with the nodes of the changed files.
THEOREM DependentSearchIsVain == Spec => []OnlySharedNamesAreFound
<1>1. TypeOK /\ WellFormed /\ NodeInv => OnlySharedNamesAreFound
  <2> SUFFICES ASSUME TypeOK, WellFormed, NodeInv,
                      NEW ok \in SUBSET ChangedFiles, NEW found \in FoundDependents(ok), NEW f \in found,
                      \A g \in ok : ModuleQN(g) # ModuleQN(f)
               PROVE  \E t \in ChangedModules(ChangedFiles) :
                         /\ ImportOf(f, t) \in graph.edges
                         /\ t = Root \/ \E g \in UnchangedFiles : t \in NamesOf(g)
    BY DEF OnlySharedNamesAreFound
  <2>1. ImportMap(ModuleQN(f), ok, disk) = {}
    BY ImportMapTells
  <2>2. PICK map \in Loaded(Reparsed(ok), ModuleQN(f)) : map \cap ChangedModules(ChangedFiles) # {}
    BY <2>1 DEF FoundDependents, Dependents
  <2>3. PICK t \in ChangedModules(ChangedFiles) : t \in map
    BY <2>2
  <2>4. PICK e \in Reparsed(ok).edges : e.type = "IMPORTS" /\ e.src = ModuleQN(f) /\ e.dst = t
    BY <2>3 DEF Loaded
  <2>5. e \in Edge
    BY <2>4, ReparsedWellFormed DEF WellFormedGraph, Graph
  <2>6. e = ImportOf(f, t)
    BY <2>4, <2>5 DEF Edge, ImportOf
  <2>7. e \in Pruned.edges
    BY <2>4, ReparsedEdges DEF Defines, ImportOf
  <2>8. e \in graph.edges /\ e.dst \in QNs(Pruned.nodes)
    BY <2>4, <2>7, PrunedEdges DEF ContainsEdge
  <2>9. PICK n \in Pruned.nodes : n.qn = t
    BY <2>4, <2>8 DEF QNs
  <2>10. CASE n = ProjectNode
    BY <2>3, <2>6, <2>8, <2>9, <2>10 DEF ProjectNode
  <2>11. CASE n # ProjectNode
    <3>1. n.path \in UnchangedFiles /\ NodeOf(n, UnchangedFiles, disk)
      BY <2>11, PrunedNodes DEF NodeInv
    <3>2. UnchangedFiles \in SUBSET Files /\ \A h \in UnchangedFiles : disk[h].defs \subseteq Names
      BY PresentAreSources DEF Source
    <3>3. \A d \in DirsOf(UnchangedFiles) : n # DirNode(d)
      <4>1. ASSUME NEW d \in DirsOf(UnchangedFiles), n = DirNode(d) PROVE FALSE
        <5>1. n.path = d /\ d \in QN
          BY <3>2, <4>1, DirsAreNames DEF DirNode
        <5> QED BY <3>1, <3>2, <5>1, IndexAssumption
      <4> QED BY <4>1
    <3>4. PICK h \in UnchangedFiles :
            n = FileNode(h) \/ n = ModuleNode(h) \/ \E d \in disk[h].defs : n = DefNode(h, d)
      BY <2>11, <3>1, <3>3 DEF NodeOf
    <3>5. t \in NamesOf(h)
      BY <2>9, <3>2, <3>4 DEF FileNode, ModuleNode, DefNode, NamesOf
    <3> QED BY <2>3, <2>6, <2>8, <3>5
  <2> QED BY <2>10, <2>11
<1> QED BY <1>1, TypeAndForm, NodeInvHolds, PTL

-----------------------------------------------------------------------------
(* The edges that are stored, over all runs.                               *)

EdgeShape(e) ==
    \/ \E d \in DirsOf(Files) : e = ContainsEdge(Front(d), d)
    \/ \E f \in Files : e = ContainsEdge(DirOf(f), FileQN(f))
    \/ \E f \in Files, n \in Names : e = Defines(f, n)
    \/ \E f \in Files : e.type \in {"IMPORTS", "CALLS"} /\ e.src = ModuleQN(f)

\* An edge out of the module of f is one of the content c.
Told(e, f, c) ==
    \/ e.type = "IMPORTS" /\ e.dst \in c.imports
    \/ e.type = "CALLS" /\ \E x \in c.calls : x.name = Last(e.dst)
    \/ e.type = "DEFINES" /\ \E n \in c.defs : e = Defines(f, n)

\* An edge that a run makes of the working tree.
Made(e) ==
    \/ \E d \in DirsOf(Present) : e = ContainsEdge(Front(d), d)
    \/ \E f \in Present : e = ContainsEdge(DirOf(f), FileQN(f))
    \/ \E f \in Present : \E n \in disk[f].defs : e = Defines(f, n)
    \/ \E f, h \in Present : \E t \in disk[h].imports :
            ModuleQN(h) = ModuleQN(f) /\ e = ImportOf(f, t)
    \/ \E f \in Present, q \in QN : \E c \in disk[f].calls :
            Last(q) = c.name /\ e = CallOf(f, q)

LEMMA MadeHasShape ==
    ASSUME TypeOK, NEW e, Made(e)
    PROVE  EdgeShape(e)
<1>1. Present \subseteq Files /\ \A f \in Present : disk[f].defs \subseteq Names
  BY PresentAreSources DEF Source
<1>2. DirsOf(Present) \subseteq DirsOf(Files)
  BY <1>1 DEF DirsOf
<1> QED BY <1>1, <1>2 DEF Made, EdgeShape, ImportOf, CallOf

\* Only a file that shares no name makes the edges at its names: its CONTAINS
\* edge and those out of its module.
LEMMA OwnEdge ==
    ASSUME NEW f \in Own, NEW e, EdgeShape(e)
    PROVE  /\ e.src \in NamesOf(f) => e.src = ModuleQN(f) /\ e.type # "CONTAINS"
           /\ e.dst \in NamesOf(f) /\ e.type \notin {"IMPORTS", "CALLS"} =>
                \/ e = ContainsEdge(DirOf(f), FileQN(f))
                \/ \E n \in Names : e = Defines(f, n)
<1>1. \A h \in Files : {ModuleQN(h), FileQN(h)} \cup {DefQN(h, n) : n \in Names} = NamesOf(h)
  BY DEF NamesOf
<1>2. CASE \E d \in DirsOf(Files) : e = ContainsEdge(Front(d), d)
  <2>1. PICK d \in DirsOf(Files) : e = ContainsEdge(Front(d), d)
    BY <1>2
  <2>2. e.src \in {Root} \cup DirsOf(Files) /\ e.dst \in DirsOf(Files)
    BY <2>1, DirsAreNames DEF ContainsEdge
  <2> QED BY <2>2, OwnNames
<1>3. CASE \E h \in Files : e = ContainsEdge(DirOf(h), FileQN(h))
  <2>1. PICK h \in Files : e = ContainsEdge(DirOf(h), FileQN(h))
    BY <1>3
  <2>2. e.src \in {Root} \cup DirsOf(Files) /\ e.dst = FileQN(h) /\ e.dst \in NamesOf(h)
    BY <1>1, <2>1, DirsAreNames DEF ContainsEdge
  <2>3. e.dst \in NamesOf(f) => h = f
    BY <2>2, OwnNames
  <2> QED BY <2>1, <2>2, <2>3, OwnNames
<1>4. CASE \E h \in Files, n \in Names : e = Defines(h, n)
  <2>1. PICK h \in Files, n \in Names : e = Defines(h, n)
    BY <1>4
  <2>2. e.src = ModuleQN(h) /\ e.src \in NamesOf(h) /\ e.dst \in NamesOf(h) /\ e.type = "DEFINES"
    BY <1>1, <2>1 DEF Defines
  <2>3. e.src \in NamesOf(f) \/ e.dst \in NamesOf(f) => h = f
    BY <2>2, OwnNames
  <2> QED BY <2>1, <2>2, <2>3
<1>5. CASE \E h \in Files : e.type \in {"IMPORTS", "CALLS"} /\ e.src = ModuleQN(h)
  <2>1. PICK h \in Files : e.type \in {"IMPORTS", "CALLS"} /\ e.src = ModuleQN(h)
    BY <1>5
  <2>2. e.src \in NamesOf(h)
    BY <1>1, <2>1
  <2>3. e.src \in NamesOf(f) => h = f
    BY <2>2, OwnNames
  <2> QED BY <2>1, <2>3
<1> QED BY <1>2, <1>3, <1>4, <1>5 DEF EdgeShape

\* What a run makes out of such a file's module tells the content on disk.
LEMMA MadeIsTold ==
    ASSUME TypeOK, NEW e, Made(e), NEW f \in Own, e.src = ModuleQN(f)
    PROVE  f \in Present /\ Told(e, f, disk[f])
<1>1. Present \subseteq Files /\ ModuleQN(f) \in NamesOf(f)
  BY PresentAreSources DEF NamesOf
<1>2. e.type # "CONTAINS"
  BY <1>1, MadeHasShape, OwnEdge
<1>3. ASSUME NEW h \in Present, ModuleQN(h) = ModuleQN(f) PROVE h = f
  <2>1. ModuleQN(f) \in NamesOf(h)
    BY <1>3 DEF NamesOf
  <2> QED BY <1>1, <2>1, OwnNames
<1>4. CASE \E h \in Present : \E n \in disk[h].defs : e = Defines(h, n)
  <2>1. PICK h \in Present : \E n \in disk[h].defs : e = Defines(h, n)
    BY <1>4
  <2>2. h = f /\ e.type = "DEFINES"
    BY <1>3, <2>1 DEF Defines
  <2> QED BY <2>1, <2>2 DEF Told
<1>5. CASE \E k, h \in Present : \E t \in disk[h].imports : ModuleQN(h) = ModuleQN(k) /\ e = ImportOf(k, t)
  <2>1. PICK k \in Present, h \in Present : \E t \in disk[h].imports : ModuleQN(h) = ModuleQN(k) /\ e = ImportOf(k, t)
    BY <1>5
  <2>2. ModuleQN(k) = ModuleQN(f) /\ ModuleQN(h) = ModuleQN(f) /\ e.type = "IMPORTS" /\ e.dst \in disk[h].imports
    BY <2>1 DEF ImportOf
  <2>3. h = f
    BY <1>3, <2>2
  <2> QED BY <2>2, <2>3 DEF Told
<1>6. CASE \E h \in Present, q \in QN : \E c \in disk[h].calls : Last(q) = c.name /\ e = CallOf(h, q)
  <2>1. PICK h \in Present, q \in QN : \E c \in disk[h].calls : Last(q) = c.name /\ e = CallOf(h, q)
    BY <1>6
  <2>2. h = f /\ e.type = "CALLS" /\ e.dst = q
    BY <1>3, <2>1 DEF CallOf
  <2> QED BY <2>1, <2>2 DEF Told
<1> QED BY <1>2, <1>4, <1>5, <1>6 DEF Made, ContainsEdge

\* The edges a run commits are made of the working tree, or were stored and
\* survived the deletions.
LEMMA ResolvedEdges ==
    ASSUME TypeOK, NEW g \in Graph, NEW fs \in SUBSET Present, NEW ok,
           NEW es \in CallEdges(g, fs, ok, disk), NEW e \in InsertEdges(g, es).edges
    PROVE  e \in g.edges \/ (e.type = "CALLS" /\ Made(e))
<1> SUFFICES ASSUME e \in es PROVE e.type = "CALLS" /\ Made(e)
  BY DEF InsertEdges
<1>1. fs \in SUBSET Files
  BY PresentAreSources
<1>2. PICK f \in fs, q \in Registry(g) : \E c \in disk[f].calls :
        /\ e = CallOf(f, q)
        /\ q \in Targets(ModuleQN(f), c, ImportMap(ModuleQN(f), ok, disk), Registry(g))
  BY <1>1, CallEdgesMake
<1>3. \E c \in disk[f].calls : Last(q) = c.name
  BY <1>2, TargetsAreNamed
<1>4. q \in QN
  BY DEF Registry, QNs, Graph, Node
<1> QED BY <1>2, <1>3, <1>4 DEF Made, CallOf

LEMMA ParsedIsMade ==
    ASSUME TypeOK, NEW ok \in SUBSET Present, NEW e,
           \/ \E f \in ok : \E n \in disk[f].defs : e = Defines(f, n)
           \/ \E f \in ok : \E t \in ImportMap(ModuleQN(f), ok, disk) : e = ImportOf(f, t)
    PROVE  Made(e)
<1>1. CASE \E f \in ok : \E n \in disk[f].defs : e = Defines(f, n)
  BY <1>1 DEF Made
<1>2. CASE \E f \in ok : \E t \in ImportMap(ModuleQN(f), ok, disk) : e = ImportOf(f, t)
  <2>1. PICK f \in ok : \E t \in ImportMap(ModuleQN(f), ok, disk) : e = ImportOf(f, t)
    BY <1>2
  <2>2. PICK t \in ImportMap(ModuleQN(f), ok, disk) : e = ImportOf(f, t)
    BY <2>1
  <2>3. PICK h \in ok : ModuleQN(h) = ModuleQN(f) /\ t \in disk[h].imports
    BY ImportMapTells
  <2> QED BY <2>2, <2>3 DEF Made
<1> QED BY <1>1, <1>2

LEMMA FullRunEdges ==
    ASSUME TypeOK, NEW ok, FullCommits(ok)
    PROVE  \A e \in graph'.edges : Made(e)
<1>1. ok \in SUBSET Present /\ Buffered(ok) \in Graph
  BY BufferedWellFormed DEF FullCommits, WellFormedGraph
<1>2. PICK es \in CallEdges(Buffered(ok), ok, ok, disk) : graph' = InsertEdges(Buffered(ok), es)
  BY DEF FullCommits
<1>3. ASSUME NEW e \in Buffered(ok).edges PROVE Made(e)
  <2>1. CASE \/ \E f \in ok : \E n \in disk[f].defs : e = Defines(f, n)
             \/ \E f \in ok : \E t \in ImportMap(ModuleQN(f), ok, disk) : e = ImportOf(f, t)
    BY <1>1, <2>1, ParsedIsMade
  <2> QED BY <2>1, BufferedEdges DEF Made
<1> QED BY <1>1, <1>2, <1>3, ResolvedEdges

LEMMA IncrementalRunEdges ==
    ASSUME TypeOK, WellFormed, NEW ok, NEW found, NEW again, IncrementalCommits(ok, found, again)
    PROVE  \A e \in graph'.edges :
              \/ Made(e)
              \/ e \in graph.edges /\ e \in Pruned.edges
<1> DEFINE g == DropCalls(Reparsed(ok), ChangedFiles \cup found)
<1>1. /\ ok \in SUBSET ChangedFiles /\ ok \in SUBSET Present
      /\ ok \cup again \in SUBSET Present
  BY IncrementalRunKeepsForm, PresentAreSources DEF IncrementalCommits
<1>2. WellFormedGraph(g) /\ g.edges \subseteq Reparsed(ok).edges
  BY <1>1, ReparsedWellFormed, DropCallsWellFormed DEF DropCalls
<1>3. PICK es \in CallEdges(g, ok \cup again, ok, disk) : graph' = InsertEdges(g, es)
  BY DEF IncrementalCommits
<1>4. ASSUME NEW e \in Reparsed(ok).edges
      PROVE  Made(e) \/ (e \in graph.edges /\ e \in Pruned.edges)
  <2>1. CASE \/ \E f \in ok : \E n \in disk[f].defs : e = Defines(f, n)
             \/ \E f \in ok : \E t \in ImportMap(ModuleQN(f), ok, disk) : e = ImportOf(f, t)
    BY <1>1, <2>1, ParsedIsMade
  <2>2. CASE e \in Pruned.edges
    BY <2>2, PrunedEdges DEF Made
  <2> QED BY <2>1, <2>2, ReparsedEdges
<1>5. \A e \in graph'.edges : e \in g.edges \/ Made(e)
  <2> HIDE DEF g
  <2> QED BY <1>1, <1>2, <1>3, ResolvedEdges DEF WellFormedGraph
<1> QED BY <1>2, <1>4, <1>5

\* A delete keeps the edges whose ends it leaves.
LEMMA DeleteKeeps ==
    ASSUME NEW g, WellFormedGraph(g), NEW dead \in SUBSET g.nodes, NEW e \in g.edges,
           e.src \in QNs(Delete(g, dead).nodes), e.dst \in QNs(Delete(g, dead).nodes)
    PROVE  e \in Delete(g, dead).edges
<1>1. \A q \in QNs(Delete(g, dead).nodes) : q \notin QNs(dead)
  BY DEF QNs, Delete, WellFormedGraph, UniqueNames
<1> QED BY <1>1 DEF Delete

LEMMA PrunedKeeps ==
    ASSUME TypeOK, WellFormed, NEW e \in graph.edges,
           e.src \in QNs(Pruned.nodes), e.dst \in QNs(Pruned.nodes)
    PROVE  e \in Pruned.edges
<1> DEFINE s == Structure(graph, Present)
           one == {n \in s.nodes : n.path # Nothing /\ n.path \notin Present}
           r == RemoveDeleted(s, Present)
           two == {n \in r.nodes : n.path \in ChangedFiles}
<1>1. WellFormedGraph(graph) /\ Present \in SUBSET Files
  BY PresentAreSources DEF WellFormedGraph, TypeOK, WellFormed
<1>2. WellFormedGraph(s) /\ e \in s.edges
  BY <1>1, StructureWellFormed DEF Structure, InsertEdges, Upsert
<1>3. r = Delete(s, one) /\ Pruned = Delete(r, two)
  BY DEF RemoveDeleted, Pruned, DeleteFiles
<1>4. Pruned.nodes \subseteq r.nodes
  BY <1>3 DEF Delete
<1>5. e.src \in QNs(r.nodes) /\ e.dst \in QNs(r.nodes)
  BY <1>4 DEF QNs
<1>6. one \in SUBSET s.nodes /\ two \in SUBSET r.nodes
  OBVIOUS
<1> HIDE DEF s, one, r, two
<1>7. WellFormedGraph(r) /\ e \in r.edges
  BY <1>2, <1>3, <1>5, <1>6, DeleteWellFormed, DeleteKeeps
<1> QED BY <1>3, <1>6, <1>7, DeleteKeeps

\* passDefinitions inserts the DEFINES edges of its files, and passImports the
\* IMPORTS edges whose targets the graph has.
LEMMA ParsingMakes ==
    ASSUME NEW g, WellFormedGraph(g), NEW fs \in SUBSET Files,
           NEW src, \A f \in fs : src[f] \in Source
    PROVE  LET d == Definitions(g, fs, src)
               i == Imports(d, fs, src) IN
           /\ g.edges \subseteq i.edges
           /\ \A f \in fs : ModuleQN(f) \in QNs(i.nodes)
           /\ \A f \in fs : \A n \in src[f].defs : Defines(f, n) \in i.edges
           /\ \A f \in fs : \A t \in ImportMap(ModuleQN(f), fs, src) :
                t \in QNs(i.nodes) => ImportOf(f, t) \in i.edges
<1> DEFINE d == Definitions(g, fs, src)
           i == Imports(d, fs, src)
           rows == QNs(Rows(fs, src))
<1>1. i.nodes = d.nodes /\ d.edges \subseteq i.edges /\ g.edges \subseteq d.edges
  BY DEF Imports, Definitions, InsertEdges, Upsert
<1>2. QNs(d.nodes) = QNs(g.nodes) \cup rows
  BY DefinitionsNodes
<1>3. \A f \in fs : ModuleQN(f) \in rows /\ \A n \in src[f].defs : DefQN(f, n) \in rows
  BY RowNames
<1>4. ASSUME NEW f \in fs, NEW n \in src[f].defs PROVE Defines(f, n) \in d.edges
  <2>1. Defines(f, n) \in UNION {{Defines(h, x) : x \in src[h].defs} : h \in fs}
    OBVIOUS
  <2>2. Defines(f, n).src \in QNs(d.nodes) /\ Defines(f, n).dst \in QNs(d.nodes)
    BY <1>2, <1>3 DEF Defines
  <2>3. d.nodes = Upsert(g, Latest(Rows(fs, src))).nodes
    BY DEF Definitions, InsertEdges, Rows
  <2> QED BY <2>1, <2>2, <2>3 DEF Definitions, InsertEdges, Rows
<1>5. ASSUME NEW f \in fs, NEW t \in ImportMap(ModuleQN(f), fs, src), t \in QNs(i.nodes)
      PROVE  ImportOf(f, t) \in i.edges
  <2>1. ImportOf(f, t) \in UNION {{ImportOf(h, x) : x \in ImportMap(ModuleQN(h), fs, src)} : h \in fs}
    OBVIOUS
  <2>2. ImportOf(f, t).src \in QNs(d.nodes) /\ ImportOf(f, t).dst \in QNs(d.nodes)
    BY <1>1, <1>2, <1>3, <1>5 DEF ImportOf
  <2> QED BY <2>1, <2>2 DEF Imports, InsertEdges
<1>6. \A f \in fs : ModuleQN(f) \in QNs(i.nodes)
  BY <1>1, <1>2, <1>3
<1> HIDE DEF d, i
<1>7. /\ g.edges \subseteq i.edges
      /\ \A f \in fs : \A n \in src[f].defs : Defines(f, n) \in i.edges
  BY <1>1, <1>4
<1> QED BY <1>5, <1>6, <1>7 DEF d, i

\* What a run leaves of the files it has parsed.
Linked(ok) ==
    /\ \A f \in ok : ModuleQN(f) \in QNs(graph'.nodes)
    /\ \A f \in ok : \A n \in disk[f].defs : Defines(f, n) \in graph'.edges
    /\ \A f \in ok : \A t \in ImportMap(ModuleQN(f), ok, disk) :
          t \in QNs(graph'.nodes) => ImportOf(f, t) \in graph'.edges

LEMMA FullRunLinks ==
    ASSUME TypeOK, NEW ok, FullCommits(ok)
    PROVE  Linked(ok)
<1>1. ok \in SUBSET Present /\ ok \in SUBSET Files /\ \A f \in ok : disk[f] \in Source
  BY PresentAreSources DEF FullCommits
<1>2. WellFormedGraph(Structure(Empty, Present))
  <2>1. WellFormedGraph(Empty)
    BY DEF WellFormedGraph, Graph, Empty, NoDanglingEdge, UniqueNames
  <2> QED BY <2>1, PresentAreSources, StructureWellFormed
<1>3. graph'.nodes = Buffered(ok).nodes /\ Buffered(ok).edges \subseteq graph'.edges
  BY FullRunKeepsForm DEF FullCommits, InsertEdges
<1>4. /\ \A f \in ok : ModuleQN(f) \in QNs(Buffered(ok).nodes)
      /\ \A f \in ok : \A n \in disk[f].defs : Defines(f, n) \in Buffered(ok).edges
      /\ \A f \in ok : \A t \in ImportMap(ModuleQN(f), ok, disk) :
            t \in QNs(Buffered(ok).nodes) => ImportOf(f, t) \in Buffered(ok).edges
  BY <1>1, <1>2, ParsingMakes DEF Buffered
<1> QED BY <1>3, <1>4 DEF Linked

LEMMA IncrementalRunLinks ==
    ASSUME TypeOK, WellFormed, NEW ok, NEW found, NEW again, IncrementalCommits(ok, found, again)
    PROVE  /\ Linked(ok)
           /\ \A e \in Pruned.edges : e.type # "CALLS" => e \in graph'.edges
<1>1. ok \in SUBSET ChangedFiles /\ ok \in SUBSET Files /\ \A f \in ok : disk[f] \in Source
  BY PresentAreSources DEF IncrementalCommits
<1>2. graph'.nodes = Reparsed(ok).nodes
  BY IncrementalRunKeepsForm
<1>3. \A e \in Reparsed(ok).edges : e.type # "CALLS" => e \in graph'.edges
  BY DEF IncrementalCommits, InsertEdges, DropCalls
<1>4. /\ Pruned.edges \subseteq Reparsed(ok).edges
      /\ \A f \in ok : ModuleQN(f) \in QNs(Reparsed(ok).nodes)
      /\ \A f \in ok : \A n \in disk[f].defs : Defines(f, n) \in Reparsed(ok).edges
      /\ \A f \in ok : \A t \in ImportMap(ModuleQN(f), ok, disk) :
            t \in QNs(Reparsed(ok).nodes) => ImportOf(f, t) \in Reparsed(ok).edges
  BY <1>1, PrunedWellFormed, ParsingMakes DEF Reparsed
<1>5. \A f, t : Defines(f, t).type # "CALLS" /\ ImportOf(f, t).type # "CALLS"
  BY DEF Defines, ImportOf
<1> QED BY <1>2, <1>3, <1>4, <1>5 DEF Linked

EdgeInv ==
    /\ \A e \in graph.edges : EdgeShape(e)
    /\ \A f \in Own, e \in graph.edges : e.src = ModuleQN(f) => Told(e, f, hash[f])
    /\ \A f \in Own : ModuleQN(f) \in QNs(graph.nodes) =>
            \A n \in hash[f].defs : Defines(f, n) \in graph.edges

\* What a run commits is a graph of the working tree: of a file that shares no
\* name the edges out of its module, and no fewer DEFINES edges.
OfTheTree ==
    /\ \A e \in graph'.edges : EdgeShape(e)
    /\ \A f \in Own, e \in graph'.edges : e.src = ModuleQN(f) => f \in Present /\ Told(e, f, disk[f])
    /\ \A f \in Own : ModuleQN(f) \in QNs(graph'.nodes) =>
            f \in Present /\ \A n \in disk[f].defs : Defines(f, n) \in graph'.edges

LEMMA FullRunOfTheTree ==
    ASSUME TypeOK, NEW ok, FullCommits(ok)
    PROVE  OfTheTree
<1>1. \A e \in graph'.edges : Made(e)
  BY FullRunEdges
<1>2. \A e \in graph'.edges : EdgeShape(e)
  BY <1>1, MadeHasShape
<1>3. \A f \in Own, e \in graph'.edges : e.src = ModuleQN(f) => f \in Present /\ Told(e, f, disk[f])
  BY <1>1, MadeIsTold
<1>4. ASSUME NEW f \in Own, ModuleQN(f) \in QNs(graph'.nodes)
      PROVE  f \in Present /\ \A n \in disk[f].defs : Defines(f, n) \in graph'.edges
  <2>1. ok \in SUBSET Present /\ graph'.nodes = Buffered(ok).nodes
    BY FullRunKeepsForm DEF FullCommits
  <2>2. f \in ok
    BY <1>4, <2>1, BufferedOwn
  <2> QED BY <2>1, <2>2, FullRunLinks DEF Linked
<1> QED BY <1>2, <1>3, <1>4 DEF OfTheTree

LEMMA IncrementalRunOfTheTree ==
    ASSUME TypeOK, WellFormed, NodeInv, EdgeInv, NEW ok, NEW found, NEW again,
           IncrementalCommits(ok, found, again)
    PROVE  OfTheTree
<1>1. \A e \in graph'.edges : Made(e) \/ (e \in graph.edges /\ e \in Pruned.edges)
  BY IncrementalRunEdges
<1>2. \A e \in graph'.edges : EdgeShape(e)
  BY <1>1, MadeHasShape DEF EdgeInv
<1>3. ASSUME NEW f \in Own, NEW e \in graph'.edges, e.src = ModuleQN(f)
      PROVE  f \in Present /\ Told(e, f, disk[f])
  <2>1. CASE Made(e)
    BY <1>3, <2>1, MadeIsTold
  <2>2. CASE e \in graph.edges /\ e \in Pruned.edges
    <3>1. ModuleQN(f) \in Code(f) /\ ModuleQN(f) \in QNs(Pruned.nodes)
      BY <1>3, <2>2, PrunedEdges DEF Code
    <3>2. f \in UnchangedFiles
      BY <3>1, PrunedOwn DEF NodeInv
    <3>3. f \in Present /\ hash[f] = disk[f]
      BY <3>2 DEF UnchangedFiles
    <3> QED BY <1>3, <2>2, <3>3 DEF EdgeInv
  <2> QED BY <1>1, <2>1, <2>2
<1>4. ASSUME NEW f \in Own, ModuleQN(f) \in QNs(graph'.nodes)
      PROVE  f \in Present /\ \A n \in disk[f].defs : Defines(f, n) \in graph'.edges
  <2>1. ok \in SUBSET ChangedFiles /\ graph'.nodes = Reparsed(ok).nodes
    BY IncrementalRunKeepsForm DEF IncrementalCommits
  <2>2. f \in ok \/ (f \in UnchangedFiles /\ ModuleQN(f) \in QNs(graph.nodes))
    BY <1>4, <2>1, ReparsedOwn DEF NodeInv
  <2>3. CASE f \in ok
    BY <2>1, <2>3, IncrementalRunLinks, PresentAreSources DEF Linked
  <2>4. CASE f \in UnchangedFiles /\ ModuleQN(f) \in QNs(graph.nodes)
    <3>1. f \in Present /\ hash[f] = disk[f] /\ disk[f].defs \subseteq Names
      BY <2>4, PresentAreSources DEF UnchangedFiles, Source
    <3>2. DefsOf(graph, f) = disk[f].defs
      BY <2>4, <3>1 DEF NodeInv, Describes
    <3>3. ASSUME NEW n \in disk[f].defs PROVE Defines(f, n) \in graph'.edges
      <4>1. Defines(f, n) \in graph.edges
        BY <2>4, <3>1 DEF EdgeInv
      <4>2. ModuleQN(f) \in Code(f) /\ DefQN(f, n) \in Code(f) /\ DefQN(f, n) \in QNs(graph.nodes)
        BY <3>1, <3>2 DEF Code, DefsOf
      <4>3. ModuleQN(f) \in QNs(Pruned.nodes) /\ DefQN(f, n) \in QNs(Pruned.nodes)
        BY <2>4, <4>2, PrunedOwn DEF NodeInv
      <4>4. Defines(f, n) \in Pruned.edges
        BY <4>1, <4>3, PrunedKeeps DEF Defines
      <4> QED BY <4>4, IncrementalRunLinks DEF Defines
    <3> QED BY <3>1, <3>3
  <2> QED BY <2>2, <2>3, <2>4
<1> QED BY <1>2, <1>3, <1>4 DEF OfTheTree

LEMMA EdgeInvHolds == Spec => []EdgeInv
<1>1. Init => EdgeInv
  BY DEF Init, EdgeInv, QNs, Empty
<1>2. TypeOK /\ WellFormed /\ NodeInv /\ EdgeInv /\ [Next]_vars => EdgeInv'
  <2> SUFFICES ASSUME TypeOK, WellFormed, NodeInv, EdgeInv, [Next]_vars PROVE EdgeInv'
    OBVIOUS
  <2>1. CASE FullRun \/ IncrementalRun
    <3>1. OfTheTree
      BY <2>1, FullRunCommits, FullRunOfTheTree, IncrementalRunCommits, IncrementalRunOfTheTree
    <3>2. \A f \in Present : hash'[f] = disk[f]
      BY <2>1, RunsRecord
    <3> QED BY <3>1, <3>2 DEF OfTheTree, EdgeInv
  <2>2. CASE NoOpRun \/ (\E f \in Files, c \in Sources \cup {Absent} : Edit(f, c)) \/ UNCHANGED vars
    <3>1. UNCHANGED <<graph, hash>>
      BY <2>2 DEF NoOpRun, Edit, vars
    <3> QED BY <3>1 DEF EdgeInv
  <2> QED BY <2>1, <2>2 DEF Next
<1> QED BY <1>1, <1>2, TypeAndForm, NodeInvHolds, PTL DEF Spec

\* Every edge out of the module of a file that shares no name is one of the
\* content that the file's hash records, whatever runs built the graph.
THEOREM NoneIsPhantom == Spec => []NoPhantomEdges
<1>1. EdgeInv => NoPhantomEdges
  <2> SUFFICES ASSUME EdgeInv, NEW f \in Own, NEW e \in graph.edges, e.src = ModuleQN(f)
               PROVE  CASE e.type = "IMPORTS" -> e.dst \in hash[f].imports
                        [] e.type = "CALLS" -> \E c \in hash[f].calls : c.name = Last(e.dst)
                        [] e.type = "DEFINES" -> \E n \in hash[f].defs : e = Defines(f, n)
                        [] e.type = "CONTAINS" -> FALSE
    BY DEF NoPhantomEdges
  <2>1. Told(e, f, hash[f])
    BY DEF EdgeInv
  <2> QED BY <2>1 DEF Told
<1> QED BY <1>1, EdgeInvHolds, PTL

-----------------------------------------------------------------------------
(* The graph of a full run of the same working tree.                       *)

\* The import map of a module that only one file has is that file's.
LEMMA OwnImportMap ==
    ASSUME NEW fs, NEW src, NEW f \in fs, \A h \in fs \ {f} : ModuleQN(h) # ModuleQN(f),
           Order[f] <= Order[f]
    PROVE  ImportMap(ModuleQN(f), fs, src) = src[f].imports
<1> DEFINE importing == {h \in fs : ModuleQN(h) = ModuleQN(f) /\ src[h].imports # {}}
           last1 == {h \in importing : \A k \in importing : Order[k] <= Order[h]}
<1>1. \A h \in importing : h = f
  OBVIOUS
<1>2. src[f].imports # {} => last1 = {f}
  BY <1>1
<1>3. src[f].imports = {} => last1 = {}
  BY <1>1
<1> QED BY <1>2, <1>3 DEF ImportMap

LEMMA OwnIsAlone ==
    ASSUME NEW f \in Own, NEW fs \in SUBSET Files
    PROVE  /\ \A h \in fs \ {f} : ModuleQN(h) # ModuleQN(f)
           /\ Order[f] <= Order[f]
<1>1. \A h \in fs : ModuleQN(h) \in NamesOf(h) /\ ModuleQN(f) \in NamesOf(f)
  BY DEF NamesOf
<1>2. \A h \in fs \ {f} : ModuleQN(h) # ModuleQN(f)
  BY <1>1, OwnNames
<1>3. f \in Files /\ Order[f] \in Int
  BY IndexAssumption, FS_CardinalityType DEF Own
<1> QED BY <1>2, <1>3

\* A full run in which no extraction fails makes all edges of the files that
\* share no name whose ends it makes.
LEMMA BufferedMakes ==
    ASSUME TypeOK, NEW f \in Present
    PROVE  LET full == Buffered(Present) IN
           /\ ContainsEdge(DirOf(f), FileQN(f)) \in full.edges
           /\ \A n \in disk[f].defs : Defines(f, n) \in full.edges
           /\ f \in Own => \A t \in disk[f].imports : t \in QNs(full.nodes) => ImportOf(f, t) \in full.edges
<1> DEFINE full == Buffered(Present)
           s == Structure(Empty, Present)
<1>1. Present \in SUBSET Files /\ \A h \in Present : disk[h] \in Source
  BY PresentAreSources
<1>2. WellFormedGraph(Empty)
  BY DEF WellFormedGraph, Graph, Empty, NoDanglingEdge, UniqueNames
<1>3. WellFormedGraph(s)
  BY <1>1, <1>2, StructureWellFormed
<1>4. ContainsEdge(DirOf(f), FileQN(f)) \in s.edges
  <2>1. DirOf(f) \in {Root} \cup DirsOf(Present)
    BY <1>1, DirsAreNames
  <2>2. DirOf(f) \in QNs(s.nodes) /\ FileQN(f) \in QNs(s.nodes)
    <3>1. QNs(s.nodes) = QNs(Empty.nodes) \cup {Root} \cup DirsOf(Present) \cup {FileQN(h) : h \in Present}
      BY <1>1, <1>2, StructureNodes
    <3> HIDE DEF s
    <3> QED BY <2>1, <3>1
  <2>3. QNs(s.nodes) = QNs(Upsert(Upsert(Empty, {ProjectNode} \cup {DirNode(d) : d \in DirsOf(Present)}),
                       Latest({FileNode(h) : h \in Present})).nodes)
    BY DEF Structure, InsertEdges
  <2>4. ContainsEdge(DirOf(f), FileQN(f)) \in {ContainsEdge(DirOf(h), FileQN(h)) : h \in Present}
    OBVIOUS
  <2>5. ContainsEdge(DirOf(f), FileQN(f)).src = DirOf(f) /\ ContainsEdge(DirOf(f), FileQN(f)).dst = FileQN(f)
    BY DEF ContainsEdge
  <2> QED BY <2>2, <2>3, <2>4, <2>5 DEF Structure, InsertEdges
<1> HIDE DEF s
<1>5. /\ s.edges \subseteq full.edges
      /\ \A h \in Present : \A n \in disk[h].defs : Defines(h, n) \in full.edges
      /\ \A h \in Present : \A t \in ImportMap(ModuleQN(h), Present, disk) :
            t \in QNs(full.nodes) => ImportOf(h, t) \in full.edges
  BY <1>1, <1>3, ParsingMakes DEF Buffered, s
<1>6. f \in Own => ImportMap(ModuleQN(f), Present, disk) = disk[f].imports
  BY <1>1, OwnIsAlone, OwnImportMap
<1> QED BY <1>4, <1>5, <1>6

\* A node of the working tree has a name that such a run makes.
LEMMA BufferedHas ==
    ASSUME TypeOK, NEW n, NodeOf(n, Present, disk)
    PROVE  n.qn \in QNs(Buffered(Present).nodes)
<1>1. QNs(Buffered(Present).nodes) =
        {Root} \cup DirsOf(Present) \cup {FileQN(f) : f \in Present} \cup QNs(Rows(Present, disk))
  BY BufferedNodes
<1>2. CASE \E f \in Present : n = ModuleNode(f) \/ \E d \in disk[f].defs : n = DefNode(f, d)
  BY <1>1, <1>2, RowNames DEF ModuleNode, DefNode
<1>3. CASE n = ProjectNode \/ (\E d \in DirsOf(Present) : n = DirNode(d)) \/ (\E f \in Present : n = FileNode(f))
  BY <1>1, <1>3 DEF ProjectNode, DirNode, FileNode
<1> QED BY <1>2, <1>3 DEF NodeOf

HashIsDisk == last \in {"full", "incremental"} => \A f \in Present : hash[f] = disk[f]

LEMMA HashIsDiskHolds == Spec => []HashIsDisk
<1>1. Init => HashIsDisk
  BY DEF Init, HashIsDisk
<1>2. TypeOK /\ HashIsDisk /\ [Next]_vars => HashIsDisk'
  <2> SUFFICES ASSUME TypeOK, HashIsDisk, [Next]_vars PROVE HashIsDisk'
    OBVIOUS
  <2>1. CASE FullRun \/ IncrementalRun
    BY <2>1, RunsRecord DEF HashIsDisk
  <2>2. CASE NoOpRun \/ \E f \in Files, c \in Sources \cup {Absent} : Edit(f, c)
    BY <2>2 DEF NoOpRun, Edit, HashIsDisk
  <2>3. CASE UNCHANGED vars
    BY <2>3 DEF vars, HashIsDisk, Present
  <2> QED BY <2>1, <2>2, <2>3 DEF Next
<1> QED BY <1>1, <1>2, TypeAndForm, PTL DEF Spec

\* After a full or incremental run the graph has no node that a full run of
\* the same working tree would not build, nor, of a file that shares no name,
\* an edge, the calls apart; and such a file that has its module node has
\* every DEFINES edge of that full run.
THEOREM IncrementalAgreesWithFull == Spec => []AgreesWithFullRun
<1>1. TypeOK /\ WellFormed /\ NodeInv /\ EdgeInv /\ HashIsDisk => AgreesWithFullRun
  <2> SUFFICES ASSUME TypeOK, WellFormed, NodeInv, EdgeInv, HashIsDisk, last \in {"full", "incremental"}
               PROVE  LET full == Buffered(Present) IN
                      /\ QNs(graph.nodes) \subseteq QNs(full.nodes)
                      /\ \A f \in Own, e \in graph.edges \ full.edges :
                            \/ e.type = "CALLS"
                            \/ e.src \notin NamesOf(f) /\ (e.type = "IMPORTS" \/ e.dst \notin NamesOf(f))
                      /\ \A f \in Own \cap Present : ModuleQN(f) \in QNs(graph.nodes) =>
                            \A n \in disk[f].defs : Defines(f, n) \in graph.edges
    BY DEF AgreesWithFullRun
  <2> DEFINE full == Buffered(Present)
  <2>1. NodesOf(graph, Present, disk) /\ \A f \in Present : hash[f] = disk[f]
    BY DEF NodeInv, HashIsDisk
  <2>2. QNs(graph.nodes) \subseteq QNs(full.nodes)
    BY <2>1, BufferedHas DEF NodesOf, QNs
  <2>3. ASSUME NEW f \in Own, NEW e \in graph.edges, e.type # "CALLS",
               e.src \in NamesOf(f) \/ (e.type # "IMPORTS" /\ e.dst \in NamesOf(f))
        PROVE  e \in full.edges
    <3>1. e \in Edge /\ EdgeShape(e) /\ e.src \in QNs(graph.nodes) /\ e.dst \in QNs(graph.nodes)
      BY DEF TypeOK, Graph, WellFormed, NoDanglingEdge, EdgeInv
    <3>2. f \in Present
      <4>1. PICK n \in graph.nodes : n.qn \in NamesOf(f)
        BY <2>3, <3>1 DEF QNs
      <4>2. \A h \in Present : h \in Files /\ disk[h].defs \subseteq Names
        BY PresentAreSources DEF Source
      <4> QED BY <2>1, <4>1, <4>2, OwnNode DEF NodesOf
    <3>3. \/ e.src = ModuleQN(f) /\ e.type # "CONTAINS"
          \/ e = ContainsEdge(DirOf(f), FileQN(f))
          \/ \E n \in Names : e = Defines(f, n)
      BY <2>3, <3>1, OwnEdge
    <3>4. CASE e = ContainsEdge(DirOf(f), FileQN(f))
      BY <3>2, <3>4, BufferedMakes
    <3>5. CASE e.src = ModuleQN(f)
      <4>1. Told(e, f, disk[f])
        BY <2>1, <3>2, <3>5 DEF EdgeInv
      <4>2. CASE \E n \in disk[f].defs : e = Defines(f, n)
        BY <3>2, <4>2, BufferedMakes
      <4>3. CASE e.type = "IMPORTS" /\ e.dst \in disk[f].imports
        <5>1. e = ImportOf(f, e.dst)
          BY <3>1, <3>5, <4>3 DEF Edge, ImportOf
        <5>2. e.dst \in QNs(full.nodes)
          BY <2>2, <3>1
        <5> QED BY <3>2, <4>3, <5>1, <5>2, BufferedMakes
      <4> QED BY <2>3, <4>1, <4>2, <4>3 DEF Told
    <3> QED BY <3>3, <3>4, <3>5 DEF Defines
  <2>4. \A f \in Own \cap Present : ModuleQN(f) \in QNs(graph.nodes) =>
            \A n \in disk[f].defs : Defines(f, n) \in graph.edges
    BY <2>1 DEF EdgeInv
  <2> QED BY <2>2, <2>3, <2>4
<1> QED BY <1>1, TypeAndForm, NodeInvHolds, EdgeInvHolds, HashIsDiskHolds, PTL

-----------------------------------------------------------------------------
(* Call resolution finds a callee whenever there is one of the name.       *)

\* A name that agrees with a module up to a part agrees up to any before it.
LEMMA SharedDown ==
    ASSUME NEW m \in QN, NEW q \in QN, NEW k \in Shared(q, m), NEW j \in 1..k
    PROVE  j \in Shared(q, m)
<1>1. /\ m \in Seq(Segments) /\ q \in Seq(Segments) /\ Len(m) \in Nat /\ Len(q) \in Nat
      /\ k \in 1..Len(m) /\ k \in Nat /\ j \in Nat /\ j <= k /\ 1 <= j /\ j \in 1..Len(m)
  BY DEF QN, Shared
<1>2. Len(SubSeq(m, 1, k)) = k /\ Len(SubSeq(m, 1, j)) = j
  BY <1>1, SubSeqProperties
<1>3. IsPrefix(SubSeq(m, 1, k), q)
  BY DEF Shared
<1>4. k <= Len(q) /\ SubSeq(SubSeq(m, 1, k), 1, k) = SubSeq(q, 1, k)
  BY <1>2, <1>3 DEF IsPrefix
<1>5. \A i \in 1..k : m[i] = q[i]
  <2>1. /\ SubSeq(m, 1, k) \in Seq(Segments)
        /\ \A i \in 1..k : SubSeq(m, 1, k)[i] = m[i]
    BY <1>1, SubSeqProperties
  <2>2. \A i \in 1..k : SubSeq(SubSeq(m, 1, k), 1, k)[i] = SubSeq(m, 1, k)[i]
    BY <1>1, <1>2, <2>1, SubSeqProperties
  <2>3. \A i \in 1..k : SubSeq(q, 1, k)[i] = q[i]
    BY <1>1, <1>4, SubSeqProperties
  <2> QED BY <1>4, <2>1, <2>2, <2>3
<1>6. SubSeq(SubSeq(m, 1, j), 1, j) = SubSeq(q, 1, j)
  <2>1. /\ SubSeq(m, 1, j) \in Seq(Segments)
        /\ \A i \in 1..j : SubSeq(m, 1, j)[i] = m[i]
    BY <1>1, SubSeqProperties
  <2>2. /\ SubSeq(SubSeq(m, 1, j), 1, j) \in Seq(Segments)
        /\ Len(SubSeq(SubSeq(m, 1, j), 1, j)) = j
        /\ \A i \in 1..j : SubSeq(SubSeq(m, 1, j), 1, j)[i] = SubSeq(m, 1, j)[i]
    BY <1>1, <1>2, <2>1, SubSeqProperties
  <2>3. /\ SubSeq(q, 1, j) \in Seq(Segments) /\ Len(SubSeq(q, 1, j)) = j
        /\ \A i \in 1..j : SubSeq(q, 1, j)[i] = q[i]
    BY <1>1, <1>4, SubSeqProperties
  <2>4. \A i \in 1..j : SubSeq(SubSeq(m, 1, j), 1, j)[i] = SubSeq(q, 1, j)[i]
    BY <1>1, <1>5, <2>1, <2>2, <2>3
  <2> QED BY <1>1, <2>2, <2>3, <2>4, SeqEqual
<1>7. IsPrefix(SubSeq(m, 1, j), q)
  BY <1>1, <1>2, <1>4, <1>6 DEF IsPrefix
<1> QED BY <1>1, <1>7 DEF Shared

\* pickBestCandidate picks one of the candidates.
LEMMA BestIsFound ==
    ASSUME NEW m \in QN, NEW cands \in SUBSET QN, cands # {}, NEW imports
    PROVE  Best(m, cands, imports) # {}
<1> DEFINE reached == {q \in cands : \E t \in imports : IsPrefix(t, Front(q)) \/ IsPrefix(Front(q), t)}
           pool == IF reached = {} THEN cands ELSE reached
           T == {x \in Nat : \E q \in pool : \E k \in 0..Len(m) :
                    x = Len(m) - k /\ (k = 0 \/ k \in Shared(q, m))}
<1>1. pool # {} /\ pool \subseteq QN /\ Len(m) \in Nat
  BY DEF QN
<1>2. \A q : Shared(q, m) \subseteq 1..Len(m)
  BY DEF Shared
<1>3. Len(m) \in T
  BY <1>1
<1>4. PICK x \in T : \A y \in T : ~(y < x)
  <2>1. T \in SUBSET Nat /\ T # {}
    BY <1>3
  <2> HIDE DEF T
  <2> QED BY <2>1, LeastNatural
<1>5. PICK q \in pool, k \in 0..Len(m) : x = Len(m) - k /\ (k = 0 \/ k \in Shared(q, m))
  OBVIOUS
<1>6. ASSUME NEW r \in pool, NEW j \in Shared(r, m) PROVE j \in Shared(q, m)
  <2>1. j \in 1..Len(m) /\ j \in 0..Len(m) /\ Len(m) - j \in Nat
    BY <1>1, <1>2
  <2>2. Len(m) - j \in T
    BY <2>1
  <2>3. j <= k
    BY <1>1, <1>4, <1>5, <2>1, <2>2
  <2>4. k \in Shared(q, m) /\ j \in 1..k
    BY <1>1, <1>5, <2>1, <2>3
  <2> QED BY <1>1, <2>4, SharedDown
<1>7. q \in {p \in pool : \A r \in pool : Shared(r, m) \subseteq Shared(p, m)}
  BY <1>6
<1> QED BY <1>7 DEF Best

\* So some strategy finds a callee if there is a function of the name.
LEMMA NamedIsFound ==
    ASSUME NEW m \in QN, NEW c, NEW imports, NEW reg \in SUBSET QN, NEW q \in reg, Last(q) = c.name
    PROVE  Targets(m, c, imports, reg) # {}
<1> DEFINE named == {r \in reg : Last(r) = c.name}
           given == {t \in imports : Last(t) = c.via}
           tried == << {r \in named : IF c.via = Nothing THEN r \in imports ELSE Front(r) \in given},
                       {r \in named : \E t \in given : IsStrictPrefix(t, r)},
                       {r \in named : Front(r) = Append(m, c.via)},
                       {r \in named : Front(r) = m},
                       {r \in named : named = {r}},
                       {r \in named : Len(r) > 2 /\ Last(Front(r)) = c.via},
                       Best(m, named, imports) >>
<1>1. tried[7] # {}
  <2>1. tried[7] = Best(m, named, imports)
    OBVIOUS
  <2>2. named \in SUBSET QN /\ named # {}
    OBVIOUS
  <2> HIDE DEF named
  <2> QED BY <2>1, <2>2, BestIsFound
<1>2. Targets(m, c, imports, reg) =
        UNION {tried[k] : k \in {j \in 1..7 : \A i \in 1..(j - 1) : tried[i] = {}}}
  BY DEF Targets
<1> HIDE DEF tried
<1>3. PICK k \in 1..7 : tried[k] # {} /\ \A i \in 1..(k - 1) : tried[i] = {}
  <2> DEFINE T == {k \in 1..7 : tried[k] # {}}
  <2>1. T \in SUBSET Nat /\ 7 \in T
    BY <1>1
  <2>2. PICK x \in T : \A y \in T : ~(y < x)
    <3> HIDE DEF T
    <3> QED BY <2>1, LeastNatural
  <2>3. ASSUME NEW i \in 1..(x - 1) PROVE tried[i] = {}
    <3>1. i \in 1..7 /\ i < x
      BY <2>1
    <3> QED BY <2>2, <3>1
  <2> QED BY <2>2, <2>3
<1> QED BY <1>2, <1>3

-----------------------------------------------------------------------------
(* What a run links.                                                       *)

\* A call gets its edge if the caller's module and a callee are in the graph.
LEMMA CallGetsLinked ==
    ASSUME NEW g, WellFormedGraph(g), NEW fs \in SUBSET Files, NEW ok, NEW src,
           NEW es \in CallEdges(g, fs, ok, src),
           NEW f \in fs, ModuleQN(f) \in QNs(g.nodes), NEW c \in src[f].calls,
           NEW q \in Registry(g), Last(q) = c.name
    PROVE  \E r \in Registry(g) : Last(r) = c.name /\ CallOf(f, r) \in InsertEdges(g, es).edges
<1> DEFINE sites == Sites(g, fs, ok, src)
           s == <<f, c>>
<1>1. PICK p \in [sites -> Registry(g)] :
        /\ \A x \in sites : p[x] \in Callees(g, x, ok, src)
        /\ es = {CallOf(x[1], p[x]) : x \in sites}
  BY DEF CallEdges
<1>2. Registry(g) \in SUBSET QN /\ Registry(g) \subseteq QNs(g.nodes)
  BY DEF Registry, QNs, WellFormedGraph, Graph, Node
<1>3. Callees(g, s, ok, src) =
        Targets(ModuleQN(f), c, ImportMap(ModuleQN(f), ok, src), Registry(g))
  BY DEF Callees
<1>4. Callees(g, s, ok, src) # {}
  BY <1>2, <1>3, NamesAreNames, NamedIsFound
<1>5. s \in UNION {{<<h, x>> : x \in src[h].calls} : h \in fs}
  OBVIOUS
<1>6. s \in sites
  BY <1>4, <1>5 DEF Sites
<1>7. p[s] \in Callees(g, s, ok, src) /\ p[s] \in Registry(g) /\ CallOf(s[1], p[s]) \in es
  <2> HIDE DEF sites, s
  <2> QED BY <1>1, <1>6
<1>8. Last(p[s]) = c.name /\ CallOf(f, p[s]) \in es
  BY <1>3, <1>7, TargetsAreNamed
<1>9. CallOf(f, p[s]).src \in QNs(g.nodes) /\ CallOf(f, p[s]).dst \in QNs(g.nodes)
  BY <1>2, <1>7 DEF CallOf
<1> QED BY <1>7, <1>8, <1>9 DEF InsertEdges

\* After a run every file resolved in it whose module the graph has.
LEMMA ResolvedAreLinked ==
    ASSUME NEW g, WellFormedGraph(g), NEW fs \in SUBSET Files, NEW ok,
           NEW es \in CallEdges(g, fs, ok, disk), graph' = InsertEdges(g, es), disk' = disk,
           NEW f \in fs, ModuleQN(f) \in QNs(g.nodes)
    PROVE  CallsLinked(f)'
<1>1. Registry(graph') = Registry(g)
  BY DEF Registry, InsertEdges
<1>2. ASSUME NEW c \in disk[f].calls, NEW q \in Registry(g), Last(q) = c.name
      PROVE  \E r \in Registry(g) : Last(r) = c.name /\ CallOf(f, r) \in InsertEdges(g, es).edges
  <2> DEFINE src == disk
  <2>1. es \in CallEdges(g, fs, ok, src) /\ c \in src[f].calls
    OBVIOUS
  <2> HIDE DEF src
  <2> QED BY <1>2, <2>1, CallGetsLinked
<1> QED BY <1>1, <1>2 DEF CallsLinked

\* The imports of a file that no other parsed file shares the module of.
LEMMA LinkedImports ==
    ASSUME NEW ok \in SUBSET Files, Linked(ok), NEW f \in ok,
           \A h \in ok \ {f} : ModuleQN(h) # ModuleQN(f),
           NEW t \in disk[f].imports, t \in QNs(graph'.nodes)
    PROVE  ImportOf(f, t) \in graph'.edges
<1>1. Order[f] \in Int
  BY IndexAssumption, FS_CardinalityType
<1>2. ImportMap(ModuleQN(f), ok, disk) = disk[f].imports
  BY <1>1, OwnImportMap
<1> QED BY <1>2 DEF Linked

\* After a full or incremental run every file it has parsed has an edge for
\* each call whose callee's name the graph has, and, if no other parsed file
\* has the same module, for each import whose target it has.
THEOREM ParsedIsLinked == Spec => []ParsedFilesAreLinked
<1>1. Init => ParsedFilesAreLinked
  BY DEF Init, ParsedFilesAreLinked
<1>2. TypeOK /\ WellFormed /\ ParsedFilesAreLinked /\ [Next]_vars => ParsedFilesAreLinked'
  <2> SUFFICES ASSUME TypeOK, WellFormed, ParsedFilesAreLinked, [Next]_vars
               PROVE  ParsedFilesAreLinked'
    OBVIOUS
  <2>1. CASE FullRun
    <3>1. PICK ok : FullCommits(ok)
      BY <2>1, FullRunCommits
    <3>2. disk' = disk /\ ok \in SUBSET Present /\ ok \in SUBSET Files /\ parsed' = ok
      BY <2>1, <3>1, PresentAreSources DEF FullRun, FullCommits
    <3>3. Linked(ok)
      BY <3>1, FullRunLinks
    <3>4. PICK es \in CallEdges(Buffered(ok), ok, ok, disk) : graph' = InsertEdges(Buffered(ok), es)
      BY <3>1 DEF FullCommits
    <3>5. WellFormedGraph(Buffered(ok)) /\ graph'.nodes = Buffered(ok).nodes
      BY <3>1, <3>2, FullRunKeepsForm, BufferedWellFormed
    <3>6. \A f \in ok : CallsLinked(f)'
      BY <3>2, <3>3, <3>4, <3>5, ResolvedAreLinked DEF Linked
    <3> QED BY <3>2, <3>3, <3>6, LinkedImports DEF ParsedFilesAreLinked
  <2>2. CASE IncrementalRun
    <3>1. PICK ok, found, again : IncrementalCommits(ok, found, again)
      BY <2>2, IncrementalRunCommits
    <3> DEFINE g == DropCalls(Reparsed(ok), ChangedFiles \cup found)
    <3>2. /\ disk' = disk /\ ok \in SUBSET ChangedFiles /\ ok \in SUBSET Files /\ parsed' = ok
          /\ ok \cup again \in SUBSET Files
      BY <2>2, <3>1, PresentAreSources, IncrementalRunKeepsForm DEF IncrementalRun, IncrementalCommits
    <3>3. Linked(ok)
      BY <3>1, IncrementalRunLinks
    <3>4. PICK es \in CallEdges(g, ok \cup again, ok, disk) : graph' = InsertEdges(g, es)
      BY <3>1 DEF IncrementalCommits
    <3>5. WellFormedGraph(g) /\ graph'.nodes = g.nodes
      BY <3>1, <3>2, IncrementalRunKeepsForm, ReparsedWellFormed, DropCallsWellFormed
    <3> HIDE DEF g
    <3>6. \A f \in ok : CallsLinked(f)'
      BY <3>2, <3>3, <3>4, <3>5, ResolvedAreLinked DEF Linked
    <3> QED BY <3>2, <3>3, <3>6, LinkedImports DEF ParsedFilesAreLinked
  <2>3. CASE NoOpRun \/ \E f \in Files, c \in Sources \cup {Absent} : Edit(f, c)
    BY <2>3 DEF NoOpRun, Edit, ParsedFilesAreLinked
  <2>4. CASE UNCHANGED vars
    BY <2>4 DEF vars, ParsedFilesAreLinked, CallsLinked
  <2> QED BY <2>1, <2>2, <2>3, <2>4 DEF Next
<1> QED BY <1>1, <1>2, TypeAndForm, PTL DEF Spec

\* A dependent that is found has a module in the graph: it shares that of a
\* parsed file, or has an import edge.
LEMMA FoundHasModule ==
    ASSUME TypeOK, WellFormed, NEW ok \in SUBSET ChangedFiles,
           NEW found \in FoundDependents(ok), NEW f \in found
    PROVE  ModuleQN(f) \in QNs(Reparsed(ok).nodes)
<1>1. CASE ImportMap(ModuleQN(f), ok, disk) # {}
  <2>1. PICK h \in ok : ModuleQN(h) = ModuleQN(f)
    BY <1>1, ImportMapTells
  <2>2. ok \in SUBSET Files /\ \A k \in ok : disk[k] \in Source
    BY PresentAreSources
  <2>3. ModuleQN(h) \in QNs(Reparsed(ok).nodes)
    BY <2>2, PrunedWellFormed, ParsingMakes DEF Reparsed
  <2> QED BY <2>1, <2>3
<1>2. CASE ImportMap(ModuleQN(f), ok, disk) = {}
  <2>1. PICK map \in Loaded(Reparsed(ok), ModuleQN(f)) : map # {}
    BY <1>2 DEF FoundDependents, Dependents
  <2>2. PICK e \in Reparsed(ok).edges : e.src = ModuleQN(f)
    BY <2>1 DEF Loaded
  <2> QED BY <2>2, ReparsedWellFormed DEF WellFormedGraph, NoDanglingEdge
<1> QED BY <1>1, <1>2

\* An incremental run leaves every dependent that it has found and extracted,
\* whose calls it has dropped, with an edge for each call whose callee's name
\* the graph has.
THEOREM DependentIsLinked == Spec => DependentsAreLinked
<1>1. TypeOK /\ WellFormed /\ [Next]_vars =>
        [last' = "incremental" => \A f \in UnchangedFiles \cap resolved' : CallsLinked(f)']_vars
  <2> SUFFICES ASSUME TypeOK, WellFormed, [Next]_vars, vars' # vars, last' = "incremental",
                      NEW f \in UnchangedFiles \cap resolved'
               PROVE  CallsLinked(f)'
    OBVIOUS
  <2>1. IncrementalRun
    BY DEF Next, FullRun, NoOpRun, Edit
  <2>2. PICK ok, found, again : IncrementalCommits(ok, found, again)
    BY <2>1, IncrementalRunCommits
  <2> DEFINE g == DropCalls(Reparsed(ok), ChangedFiles \cup found)
  <2>3. /\ ok \in SUBSET ChangedFiles /\ found \in FoundDependents(ok)
        /\ again \subseteq ChangedFiles \cup found /\ resolved' = ok \cup again
    BY <2>2 DEF IncrementalCommits
  <2>4. f \in found /\ f \in ok \cup again
    BY <2>3 DEF ChangedFiles
  <2>5. ok \cup again \in SUBSET Files
    BY <2>2, <2>3, IncrementalRunKeepsForm
  <2>6. WellFormedGraph(g) /\ g.nodes = Reparsed(ok).nodes
    BY <2>3, ReparsedWellFormed, DropCallsWellFormed
  <2>7. ModuleQN(f) \in QNs(g.nodes)
    BY <2>3, <2>4, <2>6, FoundHasModule
  <2>8. PICK es \in CallEdges(g, ok \cup again, ok, disk) : graph' = InsertEdges(g, es)
    BY <2>2 DEF IncrementalCommits
  <2>9. disk' = disk
    BY <2>1 DEF IncrementalRun
  <2> HIDE DEF g
  <2> QED BY <2>4, <2>5, <2>6, <2>7, <2>8, <2>9, ResolvedAreLinked
<1> QED BY <1>1, TypeAndForm, PTL DEF Spec, DependentsAreLinked
=============================================================================
