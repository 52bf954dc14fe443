-------------------------- MODULE IncrementalIndex --------------------------
(***************************************************************************)
(* What one run of the indexing pipeline does to the stored graph of a     *)
(* project (internal/pipeline/pipeline.go): the choice between a full run, *)
(* an incremental run and none, and the passes that build nodes and edges. *)
(* Each pass is an operator from graphs to graphs.  A run is one step: it  *)
(* is one SQLite transaction under indexMu (AutoSync has the interleaving  *)
(* of runs with edits and with each other).                                *)
(*                                                                         *)
(* A node is identified by its qualified name, as by the table's UNIQUE    *)
(* constraint.  Qualified names are those of internal/fqn: a file's is its *)
(* path without the extension, so that foo.c and foo.h, or the module foo  *)
(* and the folder foo, share a node.  Deleting a node deletes its edges,   *)
(* by the foreign keys.                                                    *)
(***************************************************************************)
EXTENDS Naturals, FiniteSets, SequencesExt

CONSTANTS
    Files,
    Segments,    \* what the names of files, functions and folders are made of
    Project,     \* the project's name
    Path,        \* a file's path: the project, its directories, and its base
                 \* name without the extension
    Order,       \* the place of a file in the walk of the working tree
    InitStem, IndexStem,  \* "__init__" and "index"
    FileMark,    \* "__file__"
    Names,       \* names of functions
    Nothing,     \* the empty string, no alias
    Sources,     \* the contents a file may have
    Absent,      \* no such file, no such row
    MaxEdits, MaxFailures    \* bound the edits and the failed extractions

\* Qualified names, the project's own among them.  A directory is written as
\* the qualified name of its node.
QN == Seq(Segments) \ {<<>>}
Root == <<Project>>

\* The last part of a path is dropped if it is w.
Trim(s, w) == IF Len(s) > 1 /\ Last(s) = w THEN Front(s) ELSE s

ModuleQN(f) == Trim(Trim(Path[f], InitStem), IndexStem)
FileQN(f) == Append(ModuleQN(f), FileMark)
DefQN(f, n) == Append(ModuleQN(f), n)
DirOf(f) == Front(Path[f])

\* The directories above some files, the root apart.
DirsOf(fs) == UNION {{SubSeq(Path[f], 1, k) : k \in 2..(Len(Path[f]) - 1)} : f \in fs}

\* A file defines functions, imports modules or folders, each under the last
\* part of its name, and calls functions by name, through an alias or not.
Calls == [via : Segments \cup {Nothing}, name : Names]
Source == [defs : SUBSET Names, imports : SUBSET QN, calls : SUBSET Calls]

ASSUME IndexAssumption ==
    /\ Names \cup {Project, FileMark} \subseteq Segments /\ FileMark \notin Names
    /\ Path \in [Files -> Seq(Segments)]
    /\ \A f \in Files : Len(Path[f]) > 1 /\ Path[f][1] = Project
    /\ IsFiniteSet(Files) /\ Order \in [Files -> 1..Cardinality(Files)]
    /\ \A f, g \in Files : Order[f] = Order[g] => f = g
    /\ Nothing \notin Segments \cup Files \cup QN /\ Files \cap QN = {}
    /\ Sources \subseteq Source /\ Absent \notin Sources
    /\ \A c \in Sources : \A t, u \in c.imports : Last(t) = Last(u) => t = u
    /\ MaxEdits \in Nat /\ MaxFailures \in Nat

Labels == {"Project", "Folder", "File", "Module", "Function"}
Node == [qn : QN, label : Labels, path : Files \cup QN \cup {Nothing}]
Edge == [src : QN, type : {"CONTAINS", "DEFINES", "IMPORTS", "CALLS"}, dst : QN]
Graph == [nodes : SUBSET Node, edges : SUBSET Edge]
Empty == [nodes |-> {}, edges |-> {}]

-----------------------------------------------------------------------------
(* The store's operations on nodes and edges.                              *)

QNs(nodes) == {n.qn : n \in nodes}

\* ON CONFLICT DO UPDATE: the row keeps its id, and with it its edges.
Upsert(g, new) ==
    [nodes |-> {n \in g.nodes : n.qn \notin QNs(new)} \cup new, edges |-> g.edges]

\* Of the rows of one batch that share a name the last file's stays.
Latest(nodes) ==
    {n \in nodes : \A m \in nodes : m.qn = n.qn => Order[m.path] <= Order[n.path]}

\* Mutant: no cascade, as with foreign keys off.
DeleteRowsOnly(g, dead) == [nodes |-> g.nodes \ dead, edges |-> g.edges]

\* Mutant: only the foreign key of an edge's target cascades.
DeleteByTarget(g, dead) ==
    [nodes |-> g.nodes \ dead, edges |-> {e \in g.edges : e.dst \notin QNs(dead)}]

Delete(g, dead) ==
    [nodes |-> g.nodes \ dead,
     edges |-> {e \in g.edges : e.src \notin QNs(dead) /\ e.dst \notin QNs(dead)}]

\* Mutant: an edge is inserted with the id 0 for an end that is not found.
InsertAnyway(g, es) == [nodes |-> g.nodes, edges |-> g.edges \cup es]

\* Edges whose ends the name lookup finds.
InsertEdges(g, es) ==
    [nodes |-> g.nodes,
     edges |-> g.edges \cup {e \in es : e.src \in QNs(g.nodes) /\ e.dst \in QNs(g.nodes)}]

-----------------------------------------------------------------------------
(* The passes.  fs is the set of files a pass works on, src the content of *)
(* every file.                                                             *)

ProjectNode == [qn |-> Root, label |-> "Project", path |-> Nothing]
DirNode(d) == [qn |-> d, label |-> "Folder", path |-> d]
FileNode(f) == [qn |-> FileQN(f), label |-> "File", path |-> f]
ModuleNode(f) == [qn |-> ModuleQN(f), label |-> "Module", path |-> f]
DefNode(f, n) == [qn |-> DefQN(f, n), label |-> "Function", path |-> f]

ContainsEdge(d, q) == [src |-> d, type |-> "CONTAINS", dst |-> q]
Defines(f, n) == [src |-> ModuleQN(f), type |-> "DEFINES", dst |-> DefQN(f, n)]
ImportOf(f, t) == [src |-> ModuleQN(f), type |-> "IMPORTS", dst |-> t]
CallOf(f, q) == [src |-> ModuleQN(f), type |-> "CALLS", dst |-> q]

\* passStructure: the project, the directories and the files.
Structure(g, fs) ==
    InsertEdges(Upsert(Upsert(g, {ProjectNode} \cup {DirNode(d) : d \in DirsOf(fs)}),
                       Latest({FileNode(f) : f \in fs})),
                {ContainsEdge(Front(d), d) : d \in DirsOf(fs)}
                    \cup {ContainsEdge(DirOf(f), FileQN(f)) : f \in fs})

\* Mutant: nothing is deleted.
KeepAll(g, fs) == g

\* removeDeletedFiles: the nodes of every path that is not a discovered file.
\* A folder's path is the folder, so its node is always among them.
RemoveDeleted(g, fs) ==
    Delete(g, {n \in g.nodes : n.path # Nothing /\ n.path \notin fs})

\* DeleteNodesByFile of each changed file, its File node included.
DeleteFiles(g, fs) == Delete(g, {n \in g.nodes : n.path \in fs})

\* passDefinitions: the module and the functions of each file.  A module may
\* take over the node of a folder, of a function or of another file's module.
Definitions(g, fs, src) ==
    InsertEdges(Upsert(g, Latest({ModuleNode(f) : f \in fs}
                                    \cup UNION {{DefNode(f, n) : n \in src[f].defs} : f \in fs})),
                UNION {{Defines(f, n) : n \in src[f].defs} : f \in fs})

\* importMaps: a module's is that of the last of its files that has one.
ImportMap(m, fs, src) ==
    LET importing == {f \in fs : ModuleQN(f) = m /\ src[f].imports # {}} IN
    UNION {src[f].imports : f \in {h \in importing : \A k \in importing : Order[k] <= Order[h]}}

\* Mutant: only imports among the files of the batch.
ImportsInBatch(g, fs, src) ==
    InsertEdges(g, UNION {{ImportOf(f, t) : t \in ImportMap(ModuleQN(f), fs, src)
                                                    \cap {ModuleQN(h) : h \in fs}} : f \in fs})

\* passImports: what the import maps of the parsed files name.
Imports(g, fs, src) ==
    InsertEdges(g, UNION {{ImportOf(f, t) : t \in ImportMap(ModuleQN(f), fs, src)} : f \in fs})

(* Call resolution (resolver.go).  reg is the set of names registered.     *)

Registry(g) == QNs({n \in g.nodes : n.label = "Function"})

\* How far a name agrees with the caller's module.
Shared(q, m) == {k \in 1..Len(m) : IsPrefix(SubSeq(m, 1, k), q)}

\* pickBestCandidate: those reachable through the imports, if any, and of
\* these the ones that agree the longest with the caller's module.  The code
\* takes the first in the order of the rows: any of them.
Best(m, cands, imports) ==
    LET reached == {q \in cands : \E t \in imports : IsPrefix(t, Front(q)) \/ IsPrefix(Front(q), t)}
        pool == IF reached = {} THEN cands ELSE reached IN
    {q \in pool : \A r \in pool : Shared(r, m) \subseteq Shared(q, m)}

\* Resolve, for a call c of the module m: the first strategy that finds any.
Targets(m, c, imports, reg) ==
    LET named == {q \in reg : Last(q) = c.name}
        given == {t \in imports : Last(t) = c.via}
        tried == << {q \in named : IF c.via = Nothing THEN q \in imports ELSE Front(q) \in given},
                    {q \in named : \E t \in given : IsStrictPrefix(t, q)},
                    {q \in named : Front(q) = Append(m, c.via)},
                    {q \in named : Front(q) = m},
                    {q \in named : named = {q}},
                    {q \in named : Len(q) > 2 /\ Last(Front(q)) = c.via},
                    Best(m, named, imports) >> IN
    UNION {tried[k] : k \in {j \in 1..7 : \A i \in 1..(j - 1) : tried[i] = {}}}

\* The callees of a call site: a file of which an extraction is at hand, and
\* a call in it.  Import maps exist for the files parsed in this run only.
Callees(g, s, ok, src) ==
    Targets(ModuleQN(s[1]), s[2], ImportMap(ModuleQN(s[1]), ok, src), Registry(g))

Sites(g, fs, ok, src) ==
    {s \in UNION {{<<f, c>> : c \in src[f].calls} : f \in fs} : Callees(g, s, ok, src) # {}}

\* Mutant: only the files parsed in this run are resolved.
CallEdgesOfParsed(g, fs, ok, src) ==
    LET sites == Sites(g, ok, ok, src)
        picks == {p \in [sites -> Registry(g)] :
                    \A s \in sites : p[s] \in Callees(g, s, ok, src)} IN
    {{CallOf(s[1], p[s]) : s \in sites} : p \in picks}

\* The sets of CALLS edges that resolving the calls of the files may give.
CallEdges(g, fs, ok, src) ==
    LET sites == Sites(g, fs, ok, src)
        picks == {p \in [sites -> Registry(g)] :
                    \A s \in sites : p[s] \in Callees(g, s, ok, src)} IN
    {{CallOf(s[1], p[s]) : s \in sites} : p \in picks}

\* findDependentFiles: the unchanged files that import the module or folder of
\* a changed file.
ChangedModules(changed) ==
    {ModuleQN(f) : f \in changed} \cup ({DirOf(f) : f \in changed} \ {Root})

\* loadImportMapFromDB: what a module's edges lead to.  Of two that have the
\* same alias the one read last stays.
Loaded(g, m) ==
    LET targets == {e.dst : e \in {d \in g.edges : d.type = "IMPORTS" /\ d.src = m}} IN
    {found \in SUBSET targets : \A t \in targets : \E u \in found :
        Last(u) = Last(t) /\ \A v \in found : Last(v) = Last(t) => v = u}

\* The sets of files that may be found, by the import map of this run or by
\* the stored one.
Dependents(g, ok, src, changed, unchanged) ==
    {found \in SUBSET unchanged : \A f \in unchanged :
        LET own == ImportMap(ModuleQN(f), ok, src) IN
        \E map \in IF own # {} THEN {own} ELSE Loaded(g, ModuleQN(f)) :
            f \in found <=> map \cap ChangedModules(changed) # {}}

\* DeleteEdgesBySourceFile of the files that are resolved again.
DropCalls(g, fs) ==
    [nodes |-> g.nodes,
     edges |-> {e \in g.edges :
        ~(e.type = "CALLS" /\ \E n \in g.nodes : n.qn = e.src /\ n.path \in fs)}]

-----------------------------------------------------------------------------
VARIABLES
    disk,     \* the working tree
    graph,    \* the project's nodes and edges
    hash,     \* table file_hashes: the content a file was last indexed with
    last,     \* what the last step was
    parsed,   \* the files that the last step parsed
    resolved, \* those whose calls it resolved
    edits, failures

vars == <<disk, graph, hash, last, parsed, resolved, edits, failures>>

Present == {f \in Files : disk[f] # Absent}
UnchangedFiles == {f \in Present : hash[f] = disk[f]}
ChangedFiles == Present \ UnchangedFiles

Init ==
    /\ disk \in [Files -> Sources]
    /\ graph = Empty
    /\ hash = [f \in Files |-> Absent]
    /\ last = "none" /\ parsed = {} /\ resolved = {}
    /\ edits = 0 /\ failures = 0

\* A file is written, created or removed.
Edit(f, c) ==
    /\ edits < MaxEdits /\ disk[f] # c
    /\ disk' = [disk EXCEPT ![f] = c]
    /\ edits' = edits + 1 /\ last' = "edit"
    /\ parsed' = {} /\ resolved' = {}
    /\ UNCHANGED <<graph, hash, failures>>

\* updateFileHashes after a run; gone is the set of files whose row
\* removeDeletedFiles has deleted.  A file that was not parsed has its hash
\* recorded like any other.
NewHash(gone) ==
    [f \in Files |-> IF f \in Present THEN disk[f] ELSE IF f \in gone THEN Absent ELSE hash[f]]

\* The buffer before the calls are resolved; of the files of ok the
\* extraction succeeds.
Buffered(ok) == Imports(Definitions(Structure(Empty, Present), ok, disk), ok, disk)

\* Nothing to go by: all passes on all files, into a buffer that replaces the
\* project's nodes and edges.  The hashes of other files stay.
FullRun ==
    /\ UnchangedFiles = {}
    /\ \E ok \in SUBSET Present :
          /\ \E es \in CallEdges(Buffered(ok), ok, ok, disk) :
                graph' = InsertEdges(Buffered(ok), es)
          /\ parsed' = ok /\ resolved' = ok
          /\ failures' = failures + Cardinality(Present \ ok)
    /\ failures' <= MaxFailures
    /\ hash' = NewHash({})
    /\ last' = "full"
    /\ UNCHANGED <<disk, edits>>

NoOpRun ==
    /\ UnchangedFiles # {} /\ ChangedFiles = {}
    /\ last' = "noop" /\ parsed' = {} /\ resolved' = {}
    /\ UNCHANGED <<disk, graph, hash, edits, failures>>

\* The graph after the nodes of deleted and changed files are gone.
Pruned == DeleteFiles(RemoveDeleted(Structure(graph, Present), Present), ChangedFiles)

\* The graph in which the dependents are looked for.
Reparsed(ok) == Imports(Definitions(Pruned, ok, disk), ok, disk)

FoundDependents(ok) == Dependents(Reparsed(ok), ok, disk, ChangedFiles, UnchangedFiles)

\* A file that passDefinitions has not parsed, a dependent or one whose
\* extraction has failed, is extracted for its calls, which may fail too.
IncrementalRun ==
    /\ UnchangedFiles # {} /\ ChangedFiles # {}
    /\ \E ok \in SUBSET ChangedFiles : \E found \in FoundDependents(ok) :
       \E again \in SUBSET ((ChangedFiles \cup found) \ ok) :
          LET toResolve == ChangedFiles \cup found
              g == DropCalls(Reparsed(ok), toResolve) IN
          /\ failures' = failures + Cardinality(ChangedFiles \ ok)
                                  + Cardinality(toResolve \ (ok \cup again))
          /\ failures' <= MaxFailures
          /\ \E es \in CallEdges(g, ok \cup again, ok, disk) : graph' = InsertEdges(g, es)
          /\ parsed' = ok /\ resolved' = ok \cup again
    /\ hash' = NewHash({f \in Files \ Present :
                          \E n \in Structure(graph, Present).nodes : n.path = f})
    /\ last' = "incremental"
    /\ UNCHANGED <<disk, edits>>

Next ==
    \/ \E f \in Files, c \in Sources \cup {Absent} : Edit(f, c)
    \/ FullRun \/ NoOpRun \/ IncrementalRun

Spec == Init /\ [][Next]_vars

-----------------------------------------------------------------------------
(* Invariants.                                                             *)

\* The state has the shape of the tables.
TypeOK ==
    /\ disk \in [Files -> Sources \cup {Absent}]
    /\ graph \in Graph
    /\ hash \in [Files -> Sources \cup {Absent}]
    /\ last \in {"none", "edit", "full", "noop", "incremental"}
    /\ parsed \subseteq Files /\ resolved \subseteq Files
    /\ edits \in 0..MaxEdits /\ failures \in 0..MaxFailures

\* Every edge joins two stored nodes, whatever order the passes delete and
\* insert in, and no qualified name has two nodes.
NoDanglingEdge(g) == \A e \in g.edges : e.src \in QNs(g.nodes) /\ e.dst \in QNs(g.nodes)
UniqueNames(nodes) == \A m, n \in nodes : m.qn = n.qn => m = n

WellFormed == NoDanglingEdge(graph) /\ UniqueNames(graph.nodes)

\* The files that share no name with a folder or with another file.
NamesOf(f) == {ModuleQN(f), FileQN(f)} \cup {DefQN(f, n) : n \in Names}

Own == {f \in Files :
          NamesOf(f) \cap ({Root} \cup DirsOf(Files)
                             \cup UNION {NamesOf(g) : g \in Files \ {f}}) = {}}

\* A function's node, or a module's, is one of the content that the hash of
\* the file at its path records, whoever shares the name.  Of a file that
\* shares no name the graph has all the functions of that content if it has
\* the module, and none if it has not (its extraction failed, or it was never
\* indexed), however many runs of whatever kind built the graph.
HashDescribesDefs ==
    /\ \A n \in graph.nodes : n.label \in {"Module", "Function"} =>
          /\ n.path \in Files /\ hash[n.path] # Absent
          /\ \/ n = ModuleNode(n.path)
             \/ \E d \in hash[n.path].defs : n = DefNode(n.path, d)
    /\ \A f \in Own :
          LET defs == {n \in Names : DefQN(f, n) \in QNs(graph.nodes)} IN
          IF ModuleQN(f) \in QNs(graph.nodes) THEN hash[f] # Absent /\ defs = hash[f].defs
                                              ELSE defs = {}

\* No edge out of the module of a file that shares no name is left over from a
\* content the file no longer had when it was last indexed.
NoPhantomEdges ==
    \A f \in Own, e \in graph.edges :
        e.src = ModuleQN(f) =>
            CASE e.type = "IMPORTS" -> e.dst \in hash[f].imports
              [] e.type = "CALLS" -> \E c \in hash[f].calls : c.name = Last(e.dst)
              [] e.type = "DEFINES" -> \E n \in hash[f].defs : e = Defines(f, n)
              [] e.type = "CONTAINS" -> FALSE

\* After a run that found something to do, no definition of a file that is
\* gone is left.
NothingOfTheGone ==
    last \in {"full", "incremental"} =>
        \A n \in graph.nodes : n.label \in {"File", "Module", "Function"} => n.path \in Present

\* After such a run the graph has no node that a full run of the same working
\* tree would not build, nor, of a file that shares no name, an edge, the calls
\* apart; and such a file that has its module node has every DEFINES edge of
\* that full run.
AgreesWithFullRun ==
    last \in {"full", "incremental"} =>
        LET full == Buffered(Present) IN
        /\ QNs(graph.nodes) \subseteq QNs(full.nodes)
        /\ \A f \in Own, e \in graph.edges \ full.edges :
              \/ e.type = "CALLS"
              \/ e.src \notin NamesOf(f) /\ (e.type = "IMPORTS" \/ e.dst \notin NamesOf(f))
        /\ \A f \in Own \cap Present : ModuleQN(f) \in QNs(graph.nodes) =>
              \A n \in disk[f].defs : Defines(f, n) \in graph.edges

CallsLinked(f) ==
    \A c \in disk[f].calls :
        (\E q \in Registry(graph) : Last(q) = c.name) =>
            \E q \in Registry(graph) : Last(q) = c.name /\ CallOf(f, q) \in graph.edges

\* After a run every file that was parsed in it has its edges: for each call
\* whose callee's name is in the graph, and, if no other parsed file has the
\* same module, for each import whose target is.
ParsedFilesAreLinked ==
    \A f \in parsed :
        /\ CallsLinked(f)
        /\ (\A h \in parsed \ {f} : ModuleQN(h) # ModuleQN(f)) =>
              \A t \in disk[f].imports \cap QNs(graph.nodes) : ImportOf(f, t) \in graph.edges

\* And so has, of its calls, every unchanged file that was found to depend on
\* a changed one and extracted, whose CALLS edges were dropped.
DependentsAreLinked ==
    [][last' = "incremental" => \A f \in UnchangedFiles \cap resolved' : CallsLinked(f)']_vars

\* The search for dependents only finds files by a name that is shared: the
\* file's module is also that of a changed file, or it imports the root or a
\* name of an unchanged file that a changed file or its folder has too.  The
\* edges to any other changed module went with the nodes of the changed files.
OnlySharedNamesAreFound ==
    \A ok \in SUBSET ChangedFiles : \A found \in FoundDependents(ok) : \A f \in found :
        \/ \E g \in ok : ModuleQN(g) = ModuleQN(f)
        \/ \E t \in ChangedModules(ChangedFiles) :
              /\ ImportOf(f, t) \in graph.edges
              /\ t = Root \/ \E g \in UnchangedFiles : t \in NamesOf(g)

-----------------------------------------------------------------------------
(* What the comments of the code promise of the incremental run.           *)

\* pipeline.go:406: the structure pass always runs on all files.
StructureComplete ==
    last \in {"full", "incremental"} =>
        \A f \in Present : {DirOf(f), FileQN(f)} \subseteq QNs(graph.nodes)

\* pipeline.go:442: the import edges of unchanged files still exist.
ImportsKept ==
    [][last' = "incremental" =>
        \A f \in UnchangedFiles \cap Own, g \in Present \cap Own :
            ImportOf(f, ModuleQN(g)) \in graph.edges => ImportOf(f, ModuleQN(g)) \in graph'.edges]_vars
=============================================================================
