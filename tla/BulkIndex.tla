----------------------------- MODULE BulkIndex -----------------------------
(***************************************************************************)
(* A full run against the database of its project: the journal mode it     *)
(* switches (store.go), the graph buffer with its temporary ids and its    *)
(* flush to rows (graph_buffer.go), the routes written after the flush     *)
(* (httplink.go), the transaction, its cancellation, and the end of the    *)
(* process at any point (main.go).                                         *)
(*                                                                         *)
(* SQLite and database/sql are external: a transaction is invisible until  *)
(* it is committed; its pages are written to the file itself when the      *)
(* journal is in memory, and then a process that ends between two of these *)
(* writes leaves a file that nothing can roll back; in WAL mode the file   *)
(* is left as it was. A mode is not switched while another process has     *)
(* the database open, and the code does not look at the error.             *)
(***************************************************************************)
EXTENDS Integers, FiniteSetsExt, SequencesExt

CONSTANTS Names,     \* qualified names of definitions
          Routes,    \* qualified names of routes
          Labels,    \* labels of definitions
          MaxOps,    \* bound: nodes and edges put into a buffer, in all runs
          MaxRoutes, \* bound: routes registered, in all runs
          MaxRuns    \* bound: runs

ASSUME BulkAssumption ==
  /\ Names \intersect Routes = {}
  /\ MaxOps \in Nat /\ MaxRoutes \in Nat /\ MaxRuns \in Nat

Route   == "Route"
Calls   == "CALLS"
Handles == "HANDLES"

VARIABLES
  phase,     \* where the run is
  cancelled, \* its context
  runs,      \* runs begun
  ops,       \* bound: nodes and edges put
  routed,    \* bound: routes registered
  buf,       \* GraphBuffer
  disk,      \* the rows committed
  torn,      \* the file is no database any more
  work,      \* the rows as the transaction sees them
  lastRow,   \* sqlite3_last_insert_rowid of the connection, 0 of a new one
  journal,   \* journal mode of the connection
  dirty,     \* pages of an unfinished transaction are written
  adr,       \* store_adr is in its own small transaction
  disturbed, \* since the journal last was WAL, a cancellation or a refused switch
  died       \* how the process ended that tore the file (not kept by the code)

counts  == <<runs, ops, routed>>
runVars == <<phase, cancelled, counts, buf>>
dbVars  == <<disk, torn, work, lastRow, journal, dirty>>
vars    == <<runVars, dbVars, adr, disturbed, died>>

-----------------------------------------------------------------------------
(* The graph buffer: nodes by name and by id, ids by label, edges in the   *)
(* order they came, by key and by source.                                  *)

Nothing == [x \in {} |-> 0]

\* The function f with the value y at x.
With(f, x, y) == [z \in DOMAIN f \union {x} |-> IF z = x THEN y ELSE f[z]]

EmptyBuffer == [next     |-> 1,
                byQN     |-> Nothing,
                node     |-> Nothing,
                byLabel  |-> [l \in Labels |-> <<>>],
                edges    |-> <<>>,
                byKey    |-> Nothing,
                bySource |-> Nothing]

\* Mutant: the last one goes, whichever was asked for.
DropLast(ids, id) == Front(ids)

\* removeFromLabelIndex: the last one takes the place of the one that goes.
RemoveFromLabelIndex(ids, id) ==
  IF \E i \in DOMAIN ids : ids[i] = id
    THEN LET i == CHOOSE i \in DOMAIN ids : ids[i] = id
         IN  Front([ids EXCEPT ![i] = Last(ids)])
    ELSE ids

Relabelled(b, id, l) ==
  LET old   == b.node[id].label
      left  == [b.byLabel EXCEPT ![old] = RemoveFromLabelIndex(@, id)]
      moved == [left EXCEPT ![l] = Append(@, id)]
  IN  [b EXCEPT !.node[id].label = l, !.byLabel = IF old = l THEN @ ELSE moved]

NewNode(b, q, l) ==
  [b EXCEPT !.next = @ + 1,
            !.byQN = With(@, q, b.next),
            !.node = With(@, b.next, [qn |-> q, label |-> l]),
            !.byLabel[l] = Append(@, b.next)]

UpsertNode(b, q, l) ==
  IF q \in DOMAIN b.byQN THEN Relabelled(b, b.byQN[q], l) ELSE NewNode(b, q, l)

InsertEdge(b, s, t) ==
  IF <<s, t>> \in DOMAIN b.byKey THEN b
  ELSE [b EXCEPT !.next = @ + 1,
                 !.edges = Append(@, [id |-> b.next, src |-> s, tgt |-> t]),
                 !.byKey = With(@, <<s, t>>, b.next),
                 !.bySource = With(@, s, Append(IF s \in DOMAIN @ THEN @[s] ELSE <<>>, b.next))]

-----------------------------------------------------------------------------
(* The rows. Ids are never used again (AUTOINCREMENT).                     *)

NoRows == [nodes |-> Nothing, edges |-> Nothing, nodeSeq |-> 0, edgeSeq |-> 0]

\* The id that a name has now (LoadNodeIDMap, FindNodeByQN), 0 without a row.
IdOf(w, q) ==
  IF \E i \in DOMAIN w.nodes : w.nodes[i].qn = q
    THEN CHOOSE i \in DOMAIN w.nodes : w.nodes[i].qn = q ELSE 0

\* Go's maps have no order: the buffer's nodes are inserted in any.
Orders(S) == {s \in [1 .. Cardinality(S) -> S] : IsInjective(s)}

InOrder(S) == CHOOSE s \in Orders(S) : \A i, j \in DOMAIN s : i < j => s[i] < s[j]

\* BulkInsertNodes
WithNodes(w, b, order) ==
  [w EXCEPT !.nodes = [i \in w.nodeSeq + 1 .. w.nodeSeq + Len(order) |->
                         b.node[order[i - w.nodeSeq]]],
            !.nodeSeq = @ + Len(order)]

\* Mutant: the order of the buffer is taken for the order of the rows.
RemappedByOrder(w, b) ==
  [i \in DOMAIN b.edges |->
     [src |-> b.edges[i].src + w.nodeSeq - Cardinality(DOMAIN b.byQN),
      tgt |-> b.edges[i].tgt + w.nodeSeq - Cardinality(DOMAIN b.byQN),
      type |-> Calls]]

\* FlushTo, steps 4 to 6: temporary ids to names, and names to rows.
Remapped(w, b) ==
  LET row(id) == IF id \in DOMAIN b.node THEN IdOf(w, b.node[id].qn) ELSE 0
      kept == InOrder({i \in DOMAIN b.edges : row(b.edges[i].src) # 0 /\ row(b.edges[i].tgt) # 0})
  IN  [i \in DOMAIN kept |->
         [src |-> row(b.edges[kept[i]].src), tgt |-> row(b.edges[kept[i]].tgt), type |-> Calls]]

\* BulkInsertEdges, InsertEdge
WithEdges(w, new) ==
  [w EXCEPT !.edges = [i \in DOMAIN @ \union (w.edgeSeq + 1 .. w.edgeSeq + Len(new)) |->
                         IF i > w.edgeSeq THEN new[i - w.edgeSeq] ELSE @[i]],
            !.edgeSeq = @ + Len(new)]

-----------------------------------------------------------------------------
(* The run.                                                                *)

Init ==
  /\ phase = "none" /\ cancelled = FALSE /\ runs = 0 /\ ops = 0 /\ routed = 0
  /\ buf = EmptyBuffer
  /\ disk = NoRows /\ torn = FALSE /\ work = NoRows /\ lastRow = 0
  /\ journal = "WAL" /\ dirty = FALSE
  /\ adr = FALSE /\ disturbed = FALSE /\ died = "no"

\* Pipeline.Run up to BeginBulkWrite. The connection is taken for each statement.
BeginBulkWrite ==
  /\ phase = "none" /\ ~ adr /\ ~ torn /\ runs < MaxRuns
  /\ runs' = runs + 1
  /\ phase' = "begun" /\ cancelled' = FALSE
  /\ journal' \in {"MEMORY", journal}
  /\ UNCHANGED <<ops, routed, buf, disk, torn, work, lastRow, dirty, adr, disturbed, died>>

\* WithTransaction and the start of runFullPasses.
BeginTx ==
  /\ phase = "begun" /\ ~ cancelled /\ ~ adr
  /\ phase' = "passes"
  /\ work' = disk
  /\ buf' = EmptyBuffer
  /\ UNCHANGED <<cancelled, counts, disk, torn, lastRow, journal, dirty, adr, disturbed, died>>

\* A pass puts a node into the buffer, or an edge between two it has found there.
PassNode(q, l) ==
  /\ phase = "passes" /\ ops < MaxOps
  /\ buf' = UpsertNode(buf, q, l)
  /\ ops' = ops + 1
  /\ UNCHANGED <<phase, cancelled, runs, routed, dbVars, adr, disturbed, died>>

PassEdge(q, r) ==
  /\ phase = "passes" /\ ops < MaxOps
  /\ {q, r} \subseteq DOMAIN buf.byQN
  /\ buf' = InsertEdge(buf, buf.byQN[q], buf.byQN[r])
  /\ ops' = ops + 1
  /\ UNCHANGED <<phase, cancelled, runs, routed, dbVars, adr, disturbed, died>>

\* FlushTo: the project's old rows go, the nodes come, in any order ...
FlushNodes ==
  /\ phase = "passes"
  /\ \E order \in Orders(DOMAIN buf.node) :
       work' = WithNodes([work EXCEPT !.nodes = Nothing, !.edges = Nothing], buf, order)
  /\ lastRow' = IF buf.node = Nothing THEN lastRow ELSE work'.nodeSeq
  /\ phase' = "edges"
  /\ UNCHANGED <<cancelled, counts, buf, disk, torn, journal, dirty, adr, disturbed, died>>

\* ... and then the edges.
FlushEdges ==
  /\ phase = "edges"
  /\ LET new == Remapped(work, buf)
     IN  /\ work' = WithEdges(work, new)
         /\ lastRow' = IF new = <<>> THEN lastRow ELSE work'.edgeSeq
  /\ phase' = "routes"
  /\ buf' = EmptyBuffer
  /\ UNCHANGED <<cancelled, counts, disk, torn, journal, dirty, adr, disturbed, died>>

\* Store.UpsertNode of a route. Of a row that it updated, the id it returns is
\* that of the last row inserted through the connection, be it a node's or an
\* edge's, unless there is none.
UpsertRoute(w, r) ==
  IF IdOf(w, r) = 0
    THEN [rows |-> [w EXCEPT !.nodes = With(@, w.nodeSeq + 1, [qn |-> r, label |-> Route]),
                             !.nodeSeq = @ + 1],
          id |-> w.nodeSeq + 1, last |-> w.nodeSeq + 1]
    ELSE [rows |-> w, id |-> IF lastRow = 0 THEN IdOf(w, r) ELSE lastRow, last |-> lastRow]

\* insertSingleRouteNode and linkHandlerToRoute: the edge is inserted if both
\* ends have rows (foreign keys) and it is not there yet.
RegisterRoute(h, r) ==
  /\ phase = "routes" /\ routed < MaxRoutes
  /\ routed' = routed + 1
  /\ LET up   == UpsertRoute(work, r)
         from == IdOf(work, h)
         edge == [src |-> from, tgt |-> up.id, type |-> Handles]
     IN  IF /\ {from, up.id} \subseteq DOMAIN up.rows.nodes
            /\ \A i \in DOMAIN up.rows.edges : up.rows.edges[i] # edge
           THEN work' = WithEdges(up.rows, <<edge>>) /\ lastRow' = work'.edgeSeq
           ELSE work' = up.rows /\ lastRow' = up.last
  /\ UNCHANGED <<phase, cancelled, runs, ops, buf, disk, torn, journal, dirty, adr, disturbed, died>>

\* The cache of the connection is full: it writes pages before the commit.
Spill ==
  /\ phase \in {"edges", "routes"} /\ ~ dirty
  /\ dirty' = TRUE
  /\ UNCHANGED <<runVars, disk, torn, work, lastRow, journal, adr, disturbed, died>>

\* tx.Commit, which does nothing but roll back once the context is cancelled.
StartCommit ==
  /\ phase = "routes" /\ ~ cancelled
  /\ phase' = "commit"
  /\ dirty' = TRUE
  /\ UNCHANGED <<cancelled, counts, buf, disk, torn, work, lastRow, journal, adr, disturbed, died>>

Commit ==
  /\ phase = "commit"
  /\ phase' = "ended"
  /\ disk' = work /\ work' = NoRows
  /\ dirty' = FALSE
  /\ UNCHANGED <<cancelled, counts, buf, torn, lastRow, journal, adr, disturbed, died>>

\* A pass, the flush or the commit fails, or the context is cancelled: then
\* database/sql rolls back on its own, and may drop the connection with it.
\* The next one is opened with the mode of the data source name.
RollBack ==
  /\ phase \in {"passes", "edges", "routes", "commit"}
  /\ phase' = "ended"
  /\ work' = NoRows /\ dirty' = FALSE
  /\ buf' = EmptyBuffer
  /\ \/ UNCHANGED <<lastRow, journal>>
     \/ cancelled /\ lastRow' = 0 /\ journal' = "WAL"
  /\ UNCHANGED <<cancelled, counts, disk, torn, adr, disturbed, died>>

\* BeginTx fails when the context is cancelled already.
NoTx ==
  /\ phase = "begun" /\ cancelled
  /\ phase' = "ended"
  /\ UNCHANGED <<cancelled, counts, buf, dbVars, adr, disturbed, died>>

\* Mutant: the mode is left as it is.
EndBulkWriteNot ==
  /\ phase = "ended" /\ ~ adr
  /\ phase' = "none"
  /\ UNCHANGED <<cancelled, counts, buf, dbVars, adr, disturbed, died>>

\* EndBulkWrite runs with the run's context: nothing happens once that is
\* cancelled, or when the switch is refused.
EndBulkWrite ==
  /\ phase = "ended" /\ ~ adr
  /\ phase' = "none"
  /\ \E refused \in BOOLEAN :
       /\ journal' = IF cancelled \/ refused THEN journal ELSE "WAL"
       /\ disturbed' = (cancelled \/ refused)
  /\ UNCHANGED <<cancelled, counts, buf, disk, torn, work, lastRow, dirty, adr, died>>

\* The client gives up, or the watcher's context ends.
Cancel ==
  /\ phase # "none" /\ ~ cancelled
  /\ cancelled' = TRUE
  /\ UNCHANGED <<phase, counts, buf, dbVars, adr, disturbed, died>>

\* Another tool writes through the same connection when no transaction has it:
\* StoreADR, in whatever mode the journal is. It changes no node and no edge.
StoreADR ==
  /\ phase \in {"none", "begun", "ended"} /\ ~ torn
  /\ adr' = ~ adr
  /\ dirty' = ~ adr
  /\ UNCHANGED <<runVars, disk, torn, work, lastRow, journal, disturbed, died>>

\* The process ends, killed or because main returns: CloseAll closes the
\* stores, but waits for no run, and nothing waits for the goroutines.
Die ==
  /\ \/ UNCHANGED <<disk, torn, died>>
     \/ /\ dirty /\ journal = "MEMORY"
        /\ disk' = NoRows /\ torn' = TRUE
        /\ died' = IF phase # "none" THEN "in a run"
                   ELSE IF disturbed THEN "after a disturbed run" ELSE "at rest"
  /\ phase' = "none" /\ cancelled' = FALSE /\ buf' = EmptyBuffer
  /\ work' = NoRows /\ lastRow' = 0 /\ journal' = "WAL" /\ dirty' = FALSE
  /\ adr' = FALSE /\ disturbed' = FALSE
  /\ UNCHANGED counts

\* Nothing reads a torn file; the project is deleted and indexed again.
Recreate ==
  /\ torn
  /\ torn' = FALSE /\ disk' = NoRows /\ died' = "no"
  /\ lastRow' = 0 /\ journal' = "WAL"
  /\ UNCHANGED <<runVars, work, dirty, adr, disturbed>>

Next ==
  \/ BeginBulkWrite \/ BeginTx \/ NoTx
  \/ \E q \in Names, l \in Labels : PassNode(q, l)
  \/ \E q, r \in Names : PassEdge(q, r)
  \/ FlushNodes \/ FlushEdges
  \/ \E h \in Names, r \in Routes : RegisterRoute(h, r)
  \/ Spill \/ StartCommit \/ Commit \/ RollBack \/ EndBulkWrite
  \/ Cancel \/ StoreADR \/ Die \/ Recreate

Spec == Init /\ [][Next]_vars

-----------------------------------------------------------------------------
(* What the rows and the buffer stand for.                                 *)

GraphOf(w) ==
  LET name(i) == w.nodes[i].qn
      id(q)   == IdOf(w, q)
  IN  [nodes |-> [q \in {name(i) : i \in DOMAIN w.nodes} |-> w.nodes[id(q)].label],
       edges |-> {<<name(w.edges[i].src), name(w.edges[i].tgt), w.edges[i].type>> :
                    i \in DOMAIN w.edges}]

BufferGraph ==
  [nodes |-> [q \in DOMAIN buf.byQN |-> buf.node[buf.byQN[q]].label],
   edges |-> {<<buf.node[buf.edges[i].src].qn, buf.node[buf.edges[i].tgt].qn, Calls>> :
                i \in DOMAIN buf.edges}]

Drafting == phase \in {"passes", "edges", "routes", "commit"}

Draft ==
  CASE phase \in {"passes", "edges"} -> BufferGraph
    [] phase \in {"routes", "commit"} -> GraphOf(work)
    [] OTHER -> GraphOf(NoRows)

Graph == INSTANCE GraphStore WITH
           Names <- Names \union Routes,
           stored <- GraphOf(disk),
           drafting <- Drafting,
           draft <- Draft

-----------------------------------------------------------------------------
(* Properties.                                                             *)

\* The indexes of the graph buffer describe the same nodes and edges: each name
\* has one node and each node its name, the index by label lists every node
\* once and under the label it has now, and every edge is found once by its
\* key and by its source (UpsertNode, removeFromLabelIndex, InsertEdge).
IndexesAgree ==
  LET ids == DOMAIN buf.node
      edgeIds == {buf.edges[i].id : i \in DOMAIN buf.edges}
  IN  /\ {buf.byQN[q] : q \in DOMAIN buf.byQN} = ids
      /\ \A q \in DOMAIN buf.byQN : buf.node[buf.byQN[q]].qn = q
      /\ \A l \in Labels :
           /\ ToSet(buf.byLabel[l]) = {id \in ids : buf.node[id].label = l}
           /\ IsInjective(buf.byLabel[l])
      /\ \A i \in DOMAIN buf.edges :
           LET e == buf.edges[i]
           IN  /\ buf.byKey[<<e.src, e.tgt>>] = e.id
               /\ e.id \in ToSet(buf.bySource[e.src])
      /\ Cardinality(DOMAIN buf.byKey) = Len(buf.edges)
      /\ ids \intersect edgeIds = {}

\* A run is an upsert of names and edges between names, published whole or not
\* at all: temporary ids, relabelled nodes, rows in any order, the deletion of
\* the old rows, a cancellation and the end of the process anywhere in between
\* make no difference, except that a process that ends in the wrong mode tears
\* the file, and that a route registered twice may get a wrong edge
\* (FlushTo, WithTransaction, insertSingleRouteNode).
GraphStoreSpec == Graph!GraphSpec

\* The comment of BeginBulkWrite calls the memory journal safe in a crash. It is
\* not, and this is when it is used: in a run, or after one that was cancelled
\* or could not switch back; only then does the end of the process tear the
\* file (BeginBulkWrite, EndBulkWrite, main).
OnlyBulkWritesTear ==
  /\ journal = "MEMORY" => phase # "none" \/ disturbed
  /\ torn => died \in {"in a run", "after a disturbed run"}
=============================================================================
