--------------------------- MODULE BulkIndexProofs ---------------------------
(***************************************************************************)
(* Safety of BulkIndex, and that it implements GraphStore, for any names,  *)
(* labels and routes and any number of runs.                               *)
(***************************************************************************)
EXTENDS BulkIndex, TLAPS, FiniteSetTheorems

-----------------------------------------------------------------------------
(* The strengthening that makes the invariants inductive.                  *)

\* The functions from some of S to T.
Maps(S, T) == UNION {[D -> T] : D \in SUBSET S}

NodeSet   == [qn : Names, label : Labels]
EdgeSet   == [id : Nat, src : Nat, tgt : Nat]
BufferSet == [next     : Nat \ {0},
              byQN     : Maps(Names, Nat),
              node     : Maps(Nat, NodeSet),
              byLabel  : [Labels -> Seq(Nat)],
              edges    : Seq(EdgeSet),
              byKey    : Maps(Nat \X Nat, Nat),
              bySource : Maps(Nat, Seq(Nat))]

\* Names and ids of nodes go both ways.
NamesInv(b) ==
  /\ \A q \in DOMAIN b.byQN : b.byQN[q] \in DOMAIN b.node /\ b.node[b.byQN[q]].qn = q
  /\ \A id \in DOMAIN b.node :
       /\ b.node[id].qn \in DOMAIN b.byQN /\ b.byQN[b.node[id].qn] = id
       /\ id \in 1 .. b.next - 1

\* The index by label has every node once, under its label.
LabelsInv(b) ==
  /\ \A l \in Labels : \A i \in DOMAIN b.byLabel[l] :
       b.byLabel[l][i] \in DOMAIN b.node /\ b.node[b.byLabel[l][i]].label = l
  /\ \A id \in DOMAIN b.node :
       \E i \in DOMAIN b.byLabel[b.node[id].label] : b.byLabel[b.node[id].label][i] = id
  /\ \A l \in Labels : \A i, j \in DOMAIN b.byLabel[l] :
       b.byLabel[l][i] = b.byLabel[l][j] => i = j

\* Edges are between nodes of the buffer, and found by key and by source.
EdgesInv(b) ==
  /\ \A i \in DOMAIN b.edges :
       LET e == b.edges[i]
       IN  /\ e.src \in DOMAIN b.node /\ e.tgt \in DOMAIN b.node
           /\ e.id \in 1 .. b.next - 1 /\ e.id \notin DOMAIN b.node
           /\ <<e.src, e.tgt>> \in DOMAIN b.byKey /\ b.byKey[<<e.src, e.tgt>>] = e.id
           /\ e.src \in DOMAIN b.bySource
           /\ \E k \in DOMAIN b.bySource[e.src] : b.bySource[e.src][k] = e.id
  /\ \A k \in DOMAIN b.byKey :
       \E i \in DOMAIN b.edges : k = <<b.edges[i].src, b.edges[i].tgt>>
  /\ IsFiniteSet(DOMAIN b.byKey)
  /\ Cardinality(DOMAIN b.byKey) = Len(b.edges)

BufferInv(b) == b \in BufferSet /\ NamesInv(b) /\ LabelsInv(b) /\ EdgesInv(b)

AllNames == Names \union Routes
RowSet   == [qn : AllNames, label : Labels \union {Route}]
LinkSet  == [src : Nat, tgt : Nat, type : {Calls, Handles}]
RowsSet  == [nodes : Maps(Nat \ {0}, RowSet), edges : Maps(Nat \ {0}, LinkSet),
             nodeSeq : Nat, edgeSeq : Nat]

\* No name has two rows, and no edge an end without one.
RowsInv(w) ==
  /\ w \in RowsSet
  /\ \A i \in DOMAIN w.nodes : i <= w.nodeSeq
  /\ \A i, j \in DOMAIN w.nodes : w.nodes[i].qn = w.nodes[j].qn => i = j
  /\ \A i \in DOMAIN w.nodes : w.nodes[i].qn \in Routes => w.nodes[i].label = Route
  /\ \A i \in DOMAIN w.edges :
       /\ i <= w.edgeSeq
       /\ w.edges[i].src \in DOMAIN w.nodes /\ w.edges[i].tgt \in DOMAIN w.nodes

\* Between the nodes and the edges of a flush, the rows are the buffer's nodes.
Flushed(w, b) ==
  /\ DOMAIN w.edges = {}
  /\ \A id \in DOMAIN b.node : \E i \in DOMAIN w.nodes : w.nodes[i] = b.node[id]
  /\ \A i \in DOMAIN w.nodes : \E id \in DOMAIN b.node : w.nodes[i] = b.node[id]

\* The edges of rows by the names of their ends, and the names.
Named(w, e) == <<w.nodes[e.src].qn, w.nodes[e.tgt].qn, e.type>>
Links(w)    == {Named(w, w.edges[i]) : i \in DOMAIN w.edges}
NamesOf(w)  == {w.nodes[i].qn : i \in DOMAIN w.nodes}

\* The edges of a buffer in the same way.
BufferLinks(b) ==
  {<<b.node[b.edges[i].src].qn, b.node[b.edges[i].tgt].qn, Calls>> : i \in DOMAIN b.edges}

Phases == {"none", "begun", "passes", "edges", "routes", "commit", "ended"}

JournalInv ==
  /\ phase \in Phases /\ journal \in {"WAL", "MEMORY"}
  /\ cancelled \in BOOLEAN /\ disturbed \in BOOLEAN /\ torn \in BOOLEAN
  /\ OnlyBulkWritesTear

GraphInv ==
  /\ BufferInv(buf)
  /\ RowsInv(disk) /\ RowsInv(work)
  /\ phase = "edges" => Flushed(work, buf)
  /\ torn => phase = "none"
  /\ lastRow \in Nat

-----------------------------------------------------------------------------
(* When the journal is in memory.                                          *)

LEMMA JournalInit == Init => JournalInv
BY DEF Init, JournalInv, OnlyBulkWritesTear, Phases

LEMMA JournalStep == JournalInv /\ [Next]_vars => JournalInv'
<1> SUFFICES ASSUME JournalInv, [Next]_vars PROVE JournalInv'
  OBVIOUS
<1> USE DEF JournalInv, OnlyBulkWritesTear, Phases
<1>1. CASE BeginBulkWrite
  BY <1>1 DEF BeginBulkWrite
<1>2. CASE BeginTx
  BY <1>2 DEF BeginTx
<1>3. CASE NoTx
  BY <1>3 DEF NoTx, dbVars
<1>4. ASSUME NEW q \in Names, NEW l \in Labels, PassNode(q, l) PROVE JournalInv'
  BY <1>4 DEF PassNode, dbVars
<1>5. ASSUME NEW q \in Names, NEW r \in Names, PassEdge(q, r) PROVE JournalInv'
  BY <1>5 DEF PassEdge, dbVars
<1>6. CASE FlushNodes
  BY <1>6 DEF FlushNodes
<1>7. CASE FlushEdges
  BY <1>7 DEF FlushEdges
<1>8. ASSUME NEW h \in Names, NEW r \in Routes, RegisterRoute(h, r) PROVE JournalInv'
  BY <1>8 DEF RegisterRoute
<1>9. CASE Spill
  BY <1>9 DEF Spill, runVars
<1>10. CASE StartCommit
  BY <1>10 DEF StartCommit
<1>11. CASE Commit
  BY <1>11 DEF Commit
<1>12. CASE RollBack
  BY <1>12 DEF RollBack
<1>13. CASE EndBulkWrite
  BY <1>13 DEF EndBulkWrite
<1>14. CASE Cancel
  BY <1>14 DEF Cancel, dbVars
<1>15. CASE StoreADR
  BY <1>15 DEF StoreADR, runVars
<1>16. CASE Die
  <2>1. phase' = "none" /\ cancelled' = FALSE /\ journal' = "WAL" /\ disturbed' = FALSE
    BY <1>16 DEF Die
  <2>2. CASE UNCHANGED <<torn, died>>
    BY <2>1, <2>2
  <2>3. CASE ~ UNCHANGED <<torn, died>>
    <3>1. journal = "MEMORY" /\ torn' = TRUE
      BY <1>16, <2>3 DEF Die
    <3>2. CASE phase # "none"
      <4>1. died' = "in a run"
        BY <1>16, <2>3, <3>2 DEF Die
      <4> QED BY <2>1, <3>1, <4>1
    <3>3. CASE phase = "none"
      <4>1. disturbed
        BY <3>1, <3>3
      <4>2. died' = "after a disturbed run"
        BY <1>16, <2>3, <3>3, <4>1 DEF Die
      <4> QED BY <2>1, <3>1, <4>2
    <3> QED BY <3>2, <3>3
  <2> QED BY <2>2, <2>3
<1>17. CASE Recreate
  BY <1>17 DEF Recreate, runVars
<1>18. CASE UNCHANGED vars
  BY <1>18 DEF vars, runVars, dbVars
<1> QED BY <1>1, <1>2, <1>3, <1>4, <1>5, <1>6, <1>7, <1>8, <1>9, <1>10, <1>11,
           <1>12, <1>13, <1>14, <1>15, <1>16, <1>17, <1>18 DEF Next

\* OnlyBulkWritesTear: the memory journal is in use only in a run or after one
\* that was disturbed, and only then does the end of the process tear the file.
THEOREM TornExplained == Spec => []OnlyBulkWritesTear
<1>1. JournalInv => OnlyBulkWritesTear
  BY DEF JournalInv
<1> QED BY <1>1, JournalInit, JournalStep, PTL DEF Spec

-----------------------------------------------------------------------------
(* The graph buffer.                                                       *)

\* A map with one more entry, or another value for one.
LEMMA WithMaps ==
  ASSUME NEW S, NEW T, NEW f \in Maps(S, T), NEW x \in S, NEW y \in T
  PROVE  With(f, x, y) \in Maps(S, T)
<1>1. PICK D \in SUBSET S : f \in [D -> T]
  BY DEF Maps
<1>2. With(f, x, y) \in [D \union {x} -> T]
  BY <1>1 DEF With
<1>3. D \union {x} \in SUBSET S
  OBVIOUS
<1> QED BY <1>2, <1>3 DEF Maps

\* removeFromLabelIndex takes out the id asked for, and no other.
LEMMA RemoveLemma ==
  ASSUME NEW ids \in Seq(Nat), NEW id,
         \A i, j \in DOMAIN ids : ids[i] = ids[j] => i = j
  PROVE  LET rest == RemoveFromLabelIndex(ids, id)
         IN  /\ rest \in Seq(Nat)
             /\ \A i, j \in DOMAIN rest : rest[i] = rest[j] => i = j
             /\ \A n : (\E i \in DOMAIN rest : rest[i] = n) <=>
                        (n # id /\ \E i \in DOMAIN ids : ids[i] = n)
<1> DEFINE rest == RemoveFromLabelIndex(ids, id)
<1>1. CASE ~ \E i \in DOMAIN ids : ids[i] = id
  <2>1. rest = ids
    BY <1>1 DEF RemoveFromLabelIndex
  <2> QED BY <2>1, <1>1
<1>2. CASE \E i \in DOMAIN ids : ids[i] = id
  <2> DEFINE at == CHOOSE i \in DOMAIN ids : ids[i] = id
             top == Len(ids)
  <2>1. at \in 1 .. top /\ ids[at] = id /\ top \in Nat \ {0}
    BY <1>2
  <2>2. rest = [i \in 1 .. top - 1 |-> IF i = at THEN ids[top] ELSE ids[i]]
    <3>1. rest = Front([ids EXCEPT ![at] = Last(ids)])
      BY <1>2 DEF RemoveFromLabelIndex
    <3>2. Len([ids EXCEPT ![at] = Last(ids)]) = top
      BY <2>1
    <3>3. Front([ids EXCEPT ![at] = Last(ids)]) =
            [i \in 1 .. top - 1 |-> [ids EXCEPT ![at] = Last(ids)][i]]
      BY <3>2 DEF Front
    <3>4. \A i \in 1 .. top - 1 :
            [ids EXCEPT ![at] = Last(ids)][i] = IF i = at THEN ids[top] ELSE ids[i]
      BY <2>1 DEF Last
    <3> QED BY <3>1, <3>3, <3>4
  <2>3. rest \in Seq(Nat) /\ DOMAIN rest = 1 .. top - 1
    BY <2>1, <2>2
  <2>4. \A i \in 1 .. top - 1 : rest[i] = IF i = at THEN ids[top] ELSE ids[i]
    BY <2>2
  <2> HIDE DEF rest, at, top
  <2>5. DOMAIN ids = 1 .. top
    BY DEF top
  <2>6. ASSUME NEW i \in DOMAIN rest, NEW j \in DOMAIN rest, rest[i] = rest[j] PROVE i = j
    <3> DEFINE from(k) == IF k = at THEN top ELSE k
    <3>1. from(i) \in DOMAIN ids /\ from(j) \in DOMAIN ids
      BY <2>1, <2>3, <2>5
    <3>2. rest[i] = ids[from(i)] /\ rest[j] = ids[from(j)]
      BY <2>3, <2>4
    <3>3. from(i) = from(j)
      BY <3>1, <3>2, <2>6
    <3> QED BY <3>3, <2>1, <2>3
  <2>7. ASSUME NEW i \in DOMAIN rest
        PROVE  rest[i] # id /\ \E k \in DOMAIN ids : ids[k] = rest[i]
    <3> DEFINE k == IF i = at THEN top ELSE i
    <3>1. k \in DOMAIN ids /\ k # at
      BY <2>1, <2>3, <2>5
    <3>2. rest[i] = ids[k]
      BY <2>3, <2>4
    <3>3. ids[k] # id
      BY <3>1, <2>1, <2>5
    <3> QED BY <3>1, <3>2, <3>3
  <2>8. ASSUME NEW k \in DOMAIN ids, ids[k] # id PROVE \E i \in DOMAIN rest : rest[i] = ids[k]
    <3>1. CASE k = top
      <4>1. at \in 1 .. top - 1
        BY <2>1, <2>8, <3>1
      <4> QED BY <4>1, <3>1, <2>3, <2>4
    <3>2. CASE k # top
      <4>1. k \in 1 .. top - 1 /\ k # at
        BY <2>1, <2>5, <2>8, <3>2
      <4> QED BY <4>1, <2>3, <2>4
    <3> QED BY <3>1, <3>2
  <2> QED BY <2>3, <2>6, <2>7, <2>8 DEF rest
<1> QED BY <1>1, <1>2

LEMMA NothingMaps == ASSUME NEW S, NEW T PROVE Nothing \in Maps(S, T) /\ DOMAIN Nothing = {}
<1>1. Nothing \in [{} -> T]
  BY DEF Nothing
<1> QED BY <1>1 DEF Maps

\* The fields of a map.
LEMMA MapsApply ==
  ASSUME NEW S, NEW T, NEW f \in Maps(S, T)
  PROVE  DOMAIN f \subseteq S /\ \A x \in DOMAIN f : f[x] \in T
BY DEF Maps

LEMMA EmptyBufferInv == BufferInv(EmptyBuffer)
<1>1. EmptyBuffer \in BufferSet
  BY NothingMaps DEF EmptyBuffer, BufferSet
<1>2. NamesInv(EmptyBuffer)
  BY NothingMaps DEF EmptyBuffer, NamesInv
<1>3. LabelsInv(EmptyBuffer)
  BY NothingMaps DEF EmptyBuffer, LabelsInv
<1>4. EdgesInv(EmptyBuffer)
  BY NothingMaps, FS_EmptySet DEF EmptyBuffer, EdgesInv
<1> QED BY <1>1, <1>2, <1>3, <1>4 DEF BufferInv

\* UpsertNode of a name that has a node: the label changes, and the index.
LEMMA RelabelledInv ==
  ASSUME NEW b, BufferInv(b), NEW id \in DOMAIN b.node, NEW l \in Labels
  PROVE  LET c == Relabelled(b, id, l)
         IN  /\ BufferInv(c)
             /\ c.byQN = b.byQN /\ c.edges = b.edges /\ DOMAIN c.node = DOMAIN b.node
             /\ c.node[id].label = l
             /\ \A z \in DOMAIN b.node : c.node[z].qn = b.node[z].qn
             /\ \A z \in DOMAIN b.node : z # id => c.node[z] = b.node[z]
<1> DEFINE old  == b.node[id].label
           c    == Relabelled(b, id, l)
           rest == RemoveFromLabelIndex(b.byLabel[old], id)
           left == [b.byLabel EXCEPT ![old] = RemoveFromLabelIndex(@, id)]
<1>1. /\ b \in BufferSet /\ NamesInv(b) /\ LabelsInv(b) /\ EdgesInv(b)
      /\ b.node \in Maps(Nat, NodeSet) /\ b.byLabel \in [Labels -> Seq(Nat)]
  BY DEF BufferInv, BufferSet
<1>2. id \in Nat /\ b.node[id] \in NodeSet /\ old \in Labels
  <2>1. id \in Nat /\ b.node[id] \in NodeSet
    BY <1>1, MapsApply
  <2> QED BY <2>1 DEF NodeSet
<1>3. c.node = With(b.node, id, [b.node[id] EXCEPT !.label = l])
  <2>1. c.node = [b.node EXCEPT ![id].label = l]
    BY <1>1 DEF Relabelled, BufferSet
  <2> QED BY <2>1, <1>1 DEF With, Maps
<1>4. [b.node[id] EXCEPT !.label = l] \in NodeSet
  BY <1>2 DEF NodeSet
<1>5. /\ c.node \in Maps(Nat, NodeSet) /\ DOMAIN c.node = DOMAIN b.node
      /\ c.node[id].label = l
      /\ \A z \in DOMAIN b.node : c.node[z].qn = b.node[z].qn
      /\ \A z \in DOMAIN b.node : z # id => c.node[z] = b.node[z]
  <2> DEFINE row == [b.node[id] EXCEPT !.label = l]
  <2>1. row.label = l /\ row.qn = b.node[id].qn
    BY <1>2 DEF NodeSet
  <2>2. row \in NodeSet
    BY <1>4
  <2> HIDE DEF row
  <2>3. c.node = With(b.node, id, row)
    BY <1>3 DEF row
  <2>4. /\ c.node \in Maps(Nat, NodeSet) /\ DOMAIN c.node = DOMAIN b.node
        /\ c.node[id] = row
        /\ \A z \in DOMAIN b.node : z # id => c.node[z] = b.node[z]
    <3>0. b.node \in Maps(Nat, NodeSet) /\ id \in Nat /\ row \in NodeSet
      BY <1>1, <1>2, <2>2
    <3>1. With(b.node, id, row) \in Maps(Nat, NodeSet)
      BY <3>0, WithMaps
    <3>2. /\ DOMAIN With(b.node, id, row) = DOMAIN b.node \union {id}
          /\ With(b.node, id, row)[id] = row
          /\ \A z \in DOMAIN b.node : z # id => With(b.node, id, row)[z] = b.node[z]
      BY DEF With
    <3> QED BY <2>3, <3>1, <3>2
  <2> QED BY <2>1, <2>4
<1>6. /\ c.next = b.next /\ c.byQN = b.byQN /\ c.edges = b.edges
      /\ c.byKey = b.byKey /\ c.bySource = b.bySource
      /\ c.byLabel = IF old = l THEN b.byLabel
                     ELSE [left EXCEPT ![l] = Append(@, id)]
  <2> DEFINE ls == IF old = l THEN b.byLabel ELSE [left EXCEPT ![l] = Append(@, id)]
  <2>1. c = [b EXCEPT !.node[id].label = l,
                      !.byLabel = IF old = l THEN @ ELSE [left EXCEPT ![l] = Append(@, id)]]
    BY DEF Relabelled
  <2> HIDE DEF c, rest, old, left
  <2> QED BY <1>1, <2>1 DEF BufferSet
<1> HIDE DEF c, rest, old, left
<1>7. /\ rest \in Seq(Nat)
      /\ \A i, j \in DOMAIN rest : rest[i] = rest[j] => i = j
      /\ \A n : (\E i \in DOMAIN rest : rest[i] = n) <=>
                 (n # id /\ \E i \in DOMAIN b.byLabel[old] : b.byLabel[old][i] = n)
  BY <1>1, <1>2, RemoveLemma DEF LabelsInv, rest
<1>8. c \in BufferSet
  <2>1. c.byLabel \in [Labels -> Seq(Nat)]
    <3>1. CASE old = l
      BY <3>1, <1>1, <1>6
    <3>2. CASE old # l
      <4>1. left \in [Labels -> Seq(Nat)]
        BY <1>1, <1>2, <1>7 DEF left, rest
      <4>2. Append(left[l], id) \in Seq(Nat)
        BY <4>1, <1>2
      <4> QED BY <4>1, <4>2, <3>2, <1>6
    <3> QED BY <3>1, <3>2
  <2>2. c = [b EXCEPT !.node = c.node, !.byLabel = c.byLabel]
    <3>1. \E f, g : c = [b EXCEPT !.node = f, !.byLabel = g]
      BY <1>1 DEF c, Relabelled
    <3> QED BY <1>1, <3>1 DEF BufferSet
  <2> QED BY <1>1, <1>5, <2>1, <2>2 DEF BufferSet
<1>9. NamesInv(c)
  <2>1. NamesInv(b) /\ DOMAIN c.node = DOMAIN b.node
        /\ (\A z \in DOMAIN b.node : c.node[z].qn = b.node[z].qn)
        /\ c.next = b.next /\ c.byQN = b.byQN
    BY <1>1, <1>5, <1>6
  <2> QED BY <2>1 DEF NamesInv
<1>10. LabelsInv(c)
  <2>1. CASE old = l
    <3>1. \A z \in DOMAIN b.node : c.node[z].label = b.node[z].label
      BY <1>5, <2>1 DEF old
    <3>2. LabelsInv(b) /\ DOMAIN c.node = DOMAIN b.node /\ c.byLabel = b.byLabel
      BY <1>1, <1>5, <1>6, <2>1
    <3> QED BY <3>1, <3>2 DEF LabelsInv
  <2>2. CASE old # l
    <3>1. /\ c.byLabel[old] = rest /\ c.byLabel[l] = Append(b.byLabel[l], id)
          /\ \A m \in Labels \ {old, l} : c.byLabel[m] = b.byLabel[m]
      <4>1. /\ left \in [Labels -> Seq(Nat)]
            /\ left[old] = rest /\ \A m \in Labels \ {old} : left[m] = b.byLabel[m]
        BY <1>1, <1>2, <1>7 DEF left, rest
      <4> QED BY <4>1, <1>1, <1>2, <1>6, <2>2
    <3> DEFINE ext == Append(b.byLabel[l], id)
               top == Len(b.byLabel[l])
    <3>2. /\ b.byLabel[l] \in Seq(Nat) /\ top \in Nat
          /\ DOMAIN b.byLabel[l] = 1 .. top
          /\ DOMAIN ext = 1 .. top + 1
          /\ ext[top + 1] = id /\ \A i \in 1 .. top : ext[i] = b.byLabel[l][i]
      BY <1>1
    <3>3. \A i \in 1 .. top : b.byLabel[l][i] \in DOMAIN b.node /\ b.byLabel[l][i] # id
      BY <1>1, <2>2, <3>2 DEF LabelsInv, old
    <3> HIDE DEF ext, top
    <3>4. ASSUME NEW m \in Labels, NEW i \in DOMAIN c.byLabel[m]
          PROVE  c.byLabel[m][i] \in DOMAIN c.node /\ c.node[c.byLabel[m][i]].label = m
      <4>1. CASE m = old
        <5>1. c.byLabel[m][i] # id /\ \E k \in DOMAIN b.byLabel[old] : b.byLabel[old][k] = c.byLabel[m][i]
          BY <4>1, <3>1, <1>7
        <5> QED BY <5>1, <4>1, <1>1, <1>2, <1>5 DEF LabelsInv
      <4>2. CASE m = l
        <5>1. c.byLabel[m] = ext
          BY <4>2, <3>1 DEF ext
        <5>2. CASE i = top + 1
          BY <5>1, <5>2, <4>2, <3>2, <1>5
        <5>3. CASE i # top + 1
          <6>1. i \in 1 .. top
            BY <5>1, <5>3, <3>2
          <6>2. c.byLabel[m][i] = b.byLabel[l][i]
            BY <5>1, <6>1, <3>2
          <6> QED BY <6>1, <6>2, <4>2, <3>2, <3>3, <1>1, <1>5 DEF LabelsInv
        <5> QED BY <5>2, <5>3
      <4>3. CASE m \notin {old, l}
        <5>1. c.byLabel[m] = b.byLabel[m]
          BY <4>3, <3>1
        <5>2. b.byLabel[m][i] \in DOMAIN b.node /\ b.node[b.byLabel[m][i]].label = m
          BY <5>1, <1>1 DEF LabelsInv
        <5>3. b.byLabel[m][i] # id
          BY <5>2, <4>3 DEF old
        <5> QED BY <5>1, <5>2, <5>3, <1>5
      <4> QED BY <4>1, <4>2, <4>3
    <3>5. ASSUME NEW z \in DOMAIN c.node
          PROVE  \E i \in DOMAIN c.byLabel[c.node[z].label] : c.byLabel[c.node[z].label][i] = z
      <4>1. CASE z = id
        <5>1. c.node[z].label = l /\ c.byLabel[l] = ext
          BY <4>1, <3>1, <1>5 DEF ext
        <5>2. top + 1 \in DOMAIN ext /\ ext[top + 1] = z
          BY <4>1, <3>2
        <5> QED BY <5>1, <5>2
      <4>2. CASE z # id
        <5> DEFINE m == b.node[z].label
        <5>1. c.node[z].label = m /\ z \in DOMAIN b.node
          BY <4>2, <1>5
        <5>2. PICK k \in DOMAIN b.byLabel[m] : b.byLabel[m][k] = z
          BY <5>1, <1>1 DEF LabelsInv
        <5>3. m \in Labels
          <6>1. b.node[z] \in NodeSet
            BY <5>1, <1>1, MapsApply
          <6> QED BY <6>1 DEF NodeSet
        <5>4. CASE m = old
          <6>1. \E i \in DOMAIN rest : rest[i] = z
            BY <5>2, <5>4, <4>2, <1>7
          <6> QED BY <6>1, <5>1, <5>4, <3>1
        <5>5. CASE m = l
          <6>1. c.byLabel[m] = ext
            BY <5>5, <3>1 DEF ext
          <6>2. k \in DOMAIN ext /\ ext[k] = z
            BY <5>2, <5>5, <3>2
          <6> QED BY <6>1, <6>2, <5>1
        <5>6. CASE m \notin {old, l}
          BY <5>1, <5>2, <5>3, <5>6, <3>1
        <5> QED BY <5>4, <5>5, <5>6
      <4> QED BY <4>1, <4>2
    <3>6. ASSUME NEW m \in Labels, NEW i \in DOMAIN c.byLabel[m], NEW j \in DOMAIN c.byLabel[m],
                 c.byLabel[m][i] = c.byLabel[m][j]
          PROVE  i = j
      <4>1. CASE m = old
        BY <4>1, <3>1, <3>6, <1>7
      <4>2. CASE m = l
        <5>1. c.byLabel[m] = ext
          BY <4>2, <3>1 DEF ext
        <5>2. \A x, y \in 1 .. top : b.byLabel[l][x] = b.byLabel[l][y] => x = y
          BY <3>2, <1>1 DEF LabelsInv
        <5>3. i \in 1 .. top + 1 /\ j \in 1 .. top + 1 /\ ext[i] = ext[j]
          BY <5>1, <3>2, <3>6
        <5> QED BY <5>2, <5>3, <3>2, <3>3
      <4>3. CASE m \notin {old, l}
        <5>1. c.byLabel[m] = b.byLabel[m]
          BY <4>3, <3>1
        <5> QED BY <5>1, <3>6, <1>1 DEF LabelsInv
      <4> QED BY <4>1, <4>2, <4>3
    <3> QED BY <3>4, <3>5, <3>6 DEF LabelsInv
  <2> QED BY <2>1, <2>2
<1>11. EdgesInv(c)
  <2>1. /\ EdgesInv(b) /\ DOMAIN c.node = DOMAIN b.node /\ c.next = b.next
        /\ c.edges = b.edges /\ c.byKey = b.byKey /\ c.bySource = b.bySource
    BY <1>1, <1>5, <1>6
  <2> QED BY <2>1 DEF EdgesInv
<1>12. BufferInv(c)
  BY <1>8, <1>9, <1>10, <1>11 DEF BufferInv
<1> QED BY <1>5, <1>6, <1>12 DEF c

\* UpsertNode of a new name.
LEMMA NewNodeInv ==
  ASSUME NEW b, BufferInv(b), NEW q \in Names, q \notin DOMAIN b.byQN, NEW l \in Labels
  PROVE  LET c == NewNode(b, q, l)
         IN  /\ BufferInv(c)
             /\ c.byQN = With(b.byQN, q, b.next) /\ c.edges = b.edges
             /\ c.node = With(b.node, b.next, [qn |-> q, label |-> l])
<1> DEFINE c   == NewNode(b, q, l)
           id  == b.next
           row == [qn |-> q, label |-> l]
<1>1. /\ b \in BufferSet /\ NamesInv(b) /\ LabelsInv(b) /\ EdgesInv(b)
      /\ b.node \in Maps(Nat, NodeSet) /\ b.byLabel \in [Labels -> Seq(Nat)]
      /\ b.byQN \in Maps(Names, Nat) /\ id \in Nat \ {0}
  BY DEF BufferInv, BufferSet
<1>2. row \in NodeSet /\ row.qn = q /\ row.label = l
  BY DEF NodeSet
<1>3. /\ c.next = id + 1 /\ c.byQN = With(b.byQN, q, id) /\ c.node = With(b.node, id, row)
      /\ c.byLabel = [b.byLabel EXCEPT ![l] = Append(@, id)]
      /\ c.edges = b.edges /\ c.byKey = b.byKey /\ c.bySource = b.bySource
  BY <1>1 DEF NewNode, BufferSet
<1>4. id \notin DOMAIN b.node
  BY <1>1 DEF NamesInv
<1>5. c \in BufferSet
  <2>1. With(b.byQN, q, id) \in Maps(Names, Nat)
    BY <1>1, WithMaps
  <2>2. With(b.node, id, row) \in Maps(Nat, NodeSet)
    <3>1. id \in Nat /\ row \in NodeSet
      BY <1>1, <1>2
    <3> HIDE DEF id, row
    <3> QED BY <1>1, <3>1, WithMaps
  <2>3. [b.byLabel EXCEPT ![l] = Append(@, id)] \in [Labels -> Seq(Nat)]
    BY <1>1
  <2>4. c = [b EXCEPT !.next = c.next, !.byQN = c.byQN, !.node = c.node, !.byLabel = c.byLabel]
    <3>1. \E n, f, g, h : c = [b EXCEPT !.next = n, !.byQN = f, !.node = g, !.byLabel = h]
      BY DEF NewNode
    <3> HIDE DEF c
    <3> QED BY <1>1, <3>1 DEF BufferSet
  <2> HIDE DEF c, id, row
  <2>5. c.next \in Nat \ {0}
    BY <1>1, <1>3
  <2> QED BY <1>1, <1>3, <2>1, <2>2, <2>3, <2>4, <2>5 DEF BufferSet
<1> HIDE DEF c, row, id
<1>6. /\ DOMAIN c.byQN = DOMAIN b.byQN \union {q} /\ c.byQN[q] = id
      /\ \A p \in DOMAIN b.byQN : c.byQN[p] = b.byQN[p]
  BY <1>3 DEF With
<1>7. /\ DOMAIN c.node = DOMAIN b.node \union {id} /\ c.node[id] = row
      /\ \A z \in DOMAIN b.node : c.node[z] = b.node[z]
  BY <1>3, <1>4 DEF With
<1>8. NamesInv(c)
  BY <1>1, <1>2, <1>3, <1>4, <1>6, <1>7 DEF NamesInv, id
<1>9. LabelsInv(c)
  <2> DEFINE top == Len(b.byLabel[l])
  <2>1. /\ \A m \in Labels \ {l} : c.byLabel[m] = b.byLabel[m]
        /\ top \in Nat /\ DOMAIN b.byLabel[l] = 1 .. top
        /\ DOMAIN c.byLabel[l] = 1 .. top + 1 /\ c.byLabel[l][top + 1] = id
        /\ \A i \in 1 .. top : c.byLabel[l][i] = b.byLabel[l][i]
    BY <1>1, <1>3
  <2> HIDE DEF top
  <2>2. ASSUME NEW m \in Labels, NEW i \in DOMAIN c.byLabel[m]
        PROVE  c.byLabel[m][i] \in DOMAIN c.node /\ c.node[c.byLabel[m][i]].label = m
    <3>1. CASE m = l /\ i = top + 1
      BY <3>1, <2>1, <1>2, <1>7
    <3>2. CASE m = l /\ i # top + 1
      <4>1. i \in DOMAIN b.byLabel[l] /\ c.byLabel[m][i] = b.byLabel[l][i]
        BY <3>2, <2>1
      <4> QED BY <4>1, <3>2, <1>1, <1>7 DEF LabelsInv
    <3>3. CASE m # l
      BY <3>3, <2>1, <1>1, <1>7 DEF LabelsInv
    <3> QED BY <3>1, <3>2, <3>3
  <2>3. ASSUME NEW z \in DOMAIN c.node
        PROVE  \E i \in DOMAIN c.byLabel[c.node[z].label] : c.byLabel[c.node[z].label][i] = z
    <3>1. CASE z = id
      <4>1. c.node[z].label = l /\ top + 1 \in DOMAIN c.byLabel[l] /\ c.byLabel[l][top + 1] = z
        BY <3>1, <2>1, <1>2, <1>7
      <4> QED BY <4>1
    <3>2. CASE z # id
      <4> DEFINE m == b.node[z].label
      <4>1. c.node[z].label = m /\ z \in DOMAIN b.node
        BY <3>2, <1>7
      <4>2. PICK k \in DOMAIN b.byLabel[m] : b.byLabel[m][k] = z
        BY <4>1, <1>1 DEF LabelsInv
      <4>3. m \in Labels
        <5>1. b.node[z] \in NodeSet
          BY <4>1, <1>1, MapsApply
        <5> QED BY <5>1 DEF NodeSet
      <4>4. k \in DOMAIN c.byLabel[m] /\ c.byLabel[m][k] = z
        BY <4>2, <4>3, <2>1
      <4> QED BY <4>1, <4>4
    <3> QED BY <3>1, <3>2
  <2>4. ASSUME NEW m \in Labels, NEW i \in DOMAIN c.byLabel[m], NEW j \in DOMAIN c.byLabel[m],
               c.byLabel[m][i] = c.byLabel[m][j]
        PROVE  i = j
    <3>1. CASE m = l
      <4>1. \A x, y \in 1 .. top : b.byLabel[l][x] = b.byLabel[l][y] => x = y
        BY <2>1, <1>1 DEF LabelsInv
      <4>2. \A x \in 1 .. top : b.byLabel[l][x] # id
        BY <2>1, <1>1, <1>4 DEF LabelsInv
      <4> QED BY <4>1, <4>2, <3>1, <2>1, <2>4
    <3>2. CASE m # l
      <4>1. c.byLabel[m] = b.byLabel[m]
        BY <3>2, <2>1
      <4> QED BY <4>1, <2>4, <1>1 DEF LabelsInv
    <3> QED BY <3>1, <3>2
  <2> QED BY <2>2, <2>3, <2>4 DEF LabelsInv
<1>10. EdgesInv(c)
  <2>1. /\ EdgesInv(b) /\ DOMAIN c.node = DOMAIN b.node \union {id} /\ c.next = id + 1
        /\ c.edges = b.edges /\ c.byKey = b.byKey /\ c.bySource = b.bySource
        /\ id \in Nat \ {0} /\ id = b.next
    BY <1>1, <1>3, <1>7 DEF id
  <2> QED BY <2>1 DEF EdgesInv
<1>11. BufferInv(c)
  BY <1>5, <1>8, <1>9, <1>10 DEF BufferInv
<1> QED BY <1>3, <1>11 DEF c, row, id

\* InsertEdge between two nodes of the buffer.
LEMMA InsertEdgeInv ==
  ASSUME NEW b, BufferInv(b), NEW s \in DOMAIN b.node, NEW t \in DOMAIN b.node
  PROVE  LET c == InsertEdge(b, s, t)
         IN  /\ BufferInv(c)
             /\ c.byQN = b.byQN /\ c.node = b.node
             /\ c.edges = IF <<s, t>> \in DOMAIN b.byKey THEN b.edges
                          ELSE Append(b.edges, [id |-> b.next, src |-> s, tgt |-> t])
<1> DEFINE c    == InsertEdge(b, s, t)
           id   == b.next
           key  == <<s, t>>
           e    == [id |-> id, src |-> s, tgt |-> t]
           olds == IF s \in DOMAIN b.bySource THEN b.bySource[s] ELSE <<>>
<1>1. CASE key \in DOMAIN b.byKey
  BY <1>1 DEF InsertEdge
<1>2. CASE key \notin DOMAIN b.byKey
  <2>1. /\ b \in BufferSet /\ NamesInv(b) /\ LabelsInv(b) /\ EdgesInv(b)
        /\ b.node \in Maps(Nat, NodeSet) /\ id \in Nat \ {0}
        /\ b.edges \in Seq(EdgeSet) /\ b.byKey \in Maps(Nat \X Nat, Nat)
        /\ b.bySource \in Maps(Nat, Seq(Nat))
    BY DEF BufferInv, BufferSet
  <2>2. s \in Nat /\ t \in Nat /\ key \in Nat \X Nat
    BY <2>1, MapsApply
  <2>3. olds \in Seq(Nat)
    BY <2>1, MapsApply
  <2>4. /\ c.next = id + 1 /\ c.edges = Append(b.edges, e)
        /\ c.byKey = With(b.byKey, key, id) /\ c.bySource = With(b.bySource, s, Append(olds, id))
        /\ c.byQN = b.byQN /\ c.node = b.node /\ c.byLabel = b.byLabel
    BY <1>2, <2>1 DEF InsertEdge, BufferSet
  <2>5. id \notin DOMAIN b.node
    BY <2>1 DEF NamesInv
  <2>6. c \in BufferSet
    <3>1. With(b.byKey, key, id) \in Maps(Nat \X Nat, Nat)
      <4> HIDE DEF key, id
      <4>1. id \in Nat
        BY <2>1
      <4> QED BY <4>1, <2>1, <2>2, WithMaps
    <3>2. With(b.bySource, s, Append(olds, id)) \in Maps(Nat, Seq(Nat))
      <4> DEFINE app == Append(olds, id)
      <4>1. app \in Seq(Nat)
        BY <2>1, <2>3
      <4> HIDE DEF app
      <4> QED BY <4>1, <2>1, <2>2, WithMaps DEF app
    <3>3. Append(b.edges, e) \in Seq(EdgeSet)
      BY <2>1, <2>2 DEF EdgeSet
    <3>4. c = [b EXCEPT !.next = c.next, !.edges = c.edges, !.byKey = c.byKey, !.bySource = c.bySource]
      <4>1. \E n, f, g, h : c = [b EXCEPT !.next = n, !.edges = f, !.byKey = g, !.bySource = h]
        BY <1>2 DEF InsertEdge
      <4> HIDE DEF c
      <4> QED BY <2>1, <4>1 DEF BufferSet
    <3> HIDE DEF c, e, key, id, olds
    <3>5. c.next \in Nat \ {0}
      BY <2>1, <2>4
    <3> QED BY <2>1, <2>4, <3>1, <3>2, <3>3, <3>4, <3>5 DEF BufferSet
  <2> HIDE DEF c, id, olds, key, e
  <2>7. /\ DOMAIN c.byKey = DOMAIN b.byKey \union {key} /\ c.byKey[key] = id
        /\ \A k \in DOMAIN b.byKey : c.byKey[k] = b.byKey[k]
    BY <1>2, <2>4 DEF With
  <2>8. /\ DOMAIN c.bySource = DOMAIN b.bySource \union {s}
        /\ c.bySource[s] = Append(olds, id)
        /\ \A z \in DOMAIN b.bySource : z # s => c.bySource[z] = b.bySource[z]
    BY <2>4 DEF With
  <2> DEFINE top == Len(b.edges)
  <2>9. /\ top \in Nat /\ DOMAIN b.edges = 1 .. top /\ DOMAIN c.edges = 1 .. top + 1
        /\ Len(c.edges) = top + 1 /\ c.edges[top + 1] = e
        /\ \A i \in 1 .. top : c.edges[i] = b.edges[i]
    <3>1. e \in EdgeSet
      BY <2>1, <2>2 DEF EdgeSet, e
    <3> QED BY <3>1, <2>1, <2>4
  <2>10. e.id = id /\ e.src = s /\ e.tgt = t
    BY DEF e
  <2> HIDE DEF top
  <2>11. NamesInv(c) /\ LabelsInv(c)
    <3>1. NamesInv(b) /\ b.next \in Nat /\ c.next = b.next + 1 /\ c.byQN = b.byQN /\ c.node = b.node
      BY <2>1, <2>4 DEF id
    <3>2. NamesInv(c)
      BY <3>1 DEF NamesInv
    <3> QED BY <3>2, <2>1, <2>4 DEF LabelsInv
  <2>12. EdgesInv(c)
    <3>1. ASSUME NEW i \in DOMAIN c.edges
          PROVE  LET f == c.edges[i]
                 IN  /\ f.src \in DOMAIN c.node /\ f.tgt \in DOMAIN c.node
                     /\ f.id \in 1 .. c.next - 1 /\ f.id \notin DOMAIN c.node
                     /\ <<f.src, f.tgt>> \in DOMAIN c.byKey /\ c.byKey[<<f.src, f.tgt>>] = f.id
                     /\ f.src \in DOMAIN c.bySource
                     /\ \E k \in DOMAIN c.bySource[f.src] : c.bySource[f.src][k] = f.id
      <4>1. CASE i = top + 1
        <5>1. c.edges[i] = e
          BY <4>1, <2>9
        <5>2. \E k \in DOMAIN c.bySource[s] : c.bySource[s][k] = id
          <6>1. /\ Len(olds) + 1 \in DOMAIN Append(olds, id)
                /\ Append(olds, id)[Len(olds) + 1] = id
            BY <2>3
          <6> QED BY <6>1, <2>8
        <5>3. id \in 1 .. c.next - 1
          BY <2>1, <2>4
        <5>4. key = <<s, t>>
          BY DEF key
        <5> QED BY <5>1, <5>2, <5>3, <5>4, <2>4, <2>5, <2>7, <2>8, <2>10
      <4>2. CASE i # top + 1
        <5> DEFINE f == b.edges[i]
        <5>1. i \in DOMAIN b.edges /\ c.edges[i] = f
          BY <4>2, <2>9
        <5>2. /\ f.src \in DOMAIN b.node /\ f.tgt \in DOMAIN b.node
              /\ f.id \in 1 .. b.next - 1 /\ f.id \notin DOMAIN b.node
              /\ <<f.src, f.tgt>> \in DOMAIN b.byKey /\ b.byKey[<<f.src, f.tgt>>] = f.id
              /\ f.src \in DOMAIN b.bySource
              /\ \E k \in DOMAIN b.bySource[f.src] : b.bySource[f.src][k] = f.id
          BY <5>1, <2>1 DEF EdgesInv
        <5>3. f.id \in 1 .. c.next - 1
          BY <5>2, <2>1, <2>4 DEF id
        <5>4. \E k \in DOMAIN c.bySource[f.src] : c.bySource[f.src][k] = f.id
          <6>1. CASE f.src # s
            BY <6>1, <5>2, <2>8
          <6>2. CASE f.src = s
            <7>1. PICK k \in DOMAIN olds : olds[k] = f.id
              BY <6>2, <5>2 DEF olds
            <7>2. k \in DOMAIN Append(olds, id) /\ Append(olds, id)[k] = f.id
              BY <7>1, <2>3
            <7> QED BY <7>2, <6>2, <2>8
          <6> QED BY <6>1, <6>2
        <5> HIDE DEF f
        <5> QED BY <5>1, <5>2, <5>3, <5>4, <2>4, <2>7, <2>8
      <4> QED BY <4>1, <4>2
    <3>2. ASSUME NEW k \in DOMAIN c.byKey
          PROVE  \E i \in DOMAIN c.edges : k = <<c.edges[i].src, c.edges[i].tgt>>
      <4>1. CASE k = key
        <5>1. top + 1 \in DOMAIN c.edges /\ key = <<c.edges[top + 1].src, c.edges[top + 1].tgt>>
          BY <2>9, <2>10 DEF key
        <5> QED BY <4>1, <5>1
      <4>2. CASE k # key
        <5>1. PICK i \in DOMAIN b.edges : k = <<b.edges[i].src, b.edges[i].tgt>>
          BY <4>2, <2>1, <2>7 DEF EdgesInv
        <5>2. i \in DOMAIN c.edges /\ c.edges[i] = b.edges[i]
          BY <5>1, <2>9
        <5> QED BY <5>1, <5>2
      <4> QED BY <4>1, <4>2
    <3>3. IsFiniteSet(DOMAIN c.byKey) /\ Cardinality(DOMAIN c.byKey) = Len(c.edges)
      <4>1. IsFiniteSet(DOMAIN b.byKey) /\ Cardinality(DOMAIN b.byKey) = top
        BY <2>1 DEF EdgesInv, top
      <4>2. DOMAIN c.byKey = DOMAIN b.byKey \union {key} /\ key \notin DOMAIN b.byKey
        BY <1>2, <2>7
      <4>3. /\ IsFiniteSet(DOMAIN b.byKey \union {key})
            /\ Cardinality(DOMAIN b.byKey \union {key}) = Cardinality(DOMAIN b.byKey) + 1
        BY <4>1, <4>2, FS_AddElement
      <4> QED BY <4>1, <4>2, <4>3, <2>9
    <3> QED BY <3>1, <3>2, <3>3 DEF EdgesInv
  <2>13. BufferInv(c)
    BY <2>6, <2>11, <2>12 DEF BufferInv
  <2> QED BY <1>2, <2>4, <2>13 DEF c, e, id, key
<1> QED BY <1>1, <1>2

\* A pass leaves the buffer in order, and its end leaves nothing of it.
LEMMA BufferStep == BufferInv(buf) /\ [Next]_vars => BufferInv(buf)'
<1> SUFFICES ASSUME BufferInv(buf), [Next]_vars PROVE BufferInv(buf')
  OBVIOUS
<1>1. CASE buf' = buf
  BY <1>1
<1>2. CASE buf' = EmptyBuffer
  BY <1>2, EmptyBufferInv
<1>3. ASSUME NEW q \in Names, NEW l \in Labels, PassNode(q, l) PROVE BufferInv(buf')
  <2>1. CASE q \in DOMAIN buf.byQN
    <3>1. buf.byQN[q] \in DOMAIN buf.node
      BY <2>1 DEF BufferInv, NamesInv
    <3>2. buf' = Relabelled(buf, buf.byQN[q], l)
      BY <1>3, <2>1 DEF PassNode, UpsertNode
    <3> QED BY <3>1, <3>2, RelabelledInv
  <2>2. CASE q \notin DOMAIN buf.byQN
    <3>1. buf' = NewNode(buf, q, l)
      BY <1>3, <2>2 DEF PassNode, UpsertNode
    <3> QED BY <2>2, <3>1, NewNodeInv
  <2> QED BY <2>1, <2>2
<1>4. ASSUME NEW q \in Names, NEW r \in Names, PassEdge(q, r) PROVE BufferInv(buf')
  <2>1. buf.byQN[q] \in DOMAIN buf.node /\ buf.byQN[r] \in DOMAIN buf.node
    BY <1>4 DEF PassEdge, BufferInv, NamesInv
  <2>2. buf' = InsertEdge(buf, buf.byQN[q], buf.byQN[r])
    BY <1>4 DEF PassEdge
  <2> QED BY <2>1, <2>2, InsertEdgeInv
<1>5. CASE BeginBulkWrite \/ NoTx \/ FlushNodes \/ Spill \/ StartCommit \/ Commit
           \/ EndBulkWrite \/ Cancel \/ StoreADR \/ Recreate \/ UNCHANGED vars
  BY <1>1, <1>5 DEF BeginBulkWrite, NoTx, FlushNodes, Spill, StartCommit, Commit,
       EndBulkWrite, Cancel, StoreADR, Recreate, vars, runVars
<1>6. ASSUME NEW h \in Names, NEW r \in Routes, RegisterRoute(h, r) PROVE BufferInv(buf')
  BY <1>1, <1>6 DEF RegisterRoute
<1>7. CASE BeginTx \/ FlushEdges \/ RollBack \/ Die
  BY <1>2, <1>7 DEF BeginTx, FlushEdges, RollBack, Die
<1> QED BY <1>3, <1>4, <1>5, <1>6, <1>7 DEF Next

LEMMA BufferAgrees == BufferInv(buf) => IndexesAgree
<1> SUFFICES ASSUME BufferInv(buf) PROVE IndexesAgree
  OBVIOUS
<1> DEFINE ids == DOMAIN buf.node
           edgeIds == {buf.edges[i].id : i \in DOMAIN buf.edges}
<1>1. /\ buf \in BufferSet /\ NamesInv(buf) /\ LabelsInv(buf) /\ EdgesInv(buf)
      /\ buf.byQN \in Maps(Names, Nat) /\ buf.bySource \in Maps(Nat, Seq(Nat))
      /\ buf.node \in Maps(Nat, NodeSet) /\ buf.byLabel \in [Labels -> Seq(Nat)]
  BY DEF BufferInv, BufferSet
<1>2. {buf.byQN[q] : q \in DOMAIN buf.byQN} = ids
  BY <1>1 DEF NamesInv
<1>3. \A q \in DOMAIN buf.byQN : buf.node[buf.byQN[q]].qn = q
  BY <1>1 DEF NamesInv
<1>4. ASSUME NEW l \in Labels
      PROVE  /\ ToSet(buf.byLabel[l]) = {id \in ids : buf.node[id].label = l}
             /\ IsInjective(buf.byLabel[l])
  <2>1. \A i \in DOMAIN buf.byLabel[l] :
          buf.byLabel[l][i] \in ids /\ buf.node[buf.byLabel[l][i]].label = l
    BY <1>1 DEF LabelsInv
  <2>2. \A id \in ids : buf.node[id].label = l =>
          \E i \in DOMAIN buf.byLabel[l] : buf.byLabel[l][i] = id
    BY <1>1 DEF LabelsInv
  <2>3. \A i, j \in DOMAIN buf.byLabel[l] : buf.byLabel[l][i] = buf.byLabel[l][j] => i = j
    BY <1>1 DEF LabelsInv
  <2> QED BY <2>1, <2>2, <2>3 DEF ToSet, IsInjective
<1>5. ASSUME NEW i \in DOMAIN buf.edges
      PROVE  LET e == buf.edges[i]
             IN  /\ buf.byKey[<<e.src, e.tgt>>] = e.id
                 /\ e.id \in ToSet(buf.bySource[e.src])
  <2> DEFINE e == buf.edges[i]
  <2>1. /\ buf.byKey[<<e.src, e.tgt>>] = e.id
        /\ \E k \in DOMAIN buf.bySource[e.src] : buf.bySource[e.src][k] = e.id
    BY <1>1 DEF EdgesInv
  <2> QED BY <2>1 DEF ToSet
<1>6. Cardinality(DOMAIN buf.byKey) = Len(buf.edges)
  BY <1>1 DEF EdgesInv
<1>7. ids \intersect edgeIds = {}
  BY <1>1 DEF EdgesInv
<1> QED BY <1>2, <1>3, <1>4, <1>5, <1>6, <1>7 DEF IndexesAgree

\* IndexesAgree: after any upserts of nodes, with the same or another label,
\* and any insertions of edges, the indexes of the buffer describe one graph.
THEOREM BufferIndexesAgree == Spec => []IndexesAgree
<1>1. Init => BufferInv(buf)
  BY EmptyBufferInv DEF Init
<1> QED BY <1>1, BufferStep, BufferAgrees, PTL DEF Spec

-----------------------------------------------------------------------------
(* The rows.                                                               *)

LEMMA RowsType ==
  ASSUME NEW w, RowsInv(w)
  PROVE  /\ w.nodes \in Maps(Nat \ {0}, RowSet) /\ w.edges \in Maps(Nat \ {0}, LinkSet)
         /\ w.nodeSeq \in Nat /\ w.edgeSeq \in Nat
         /\ \A i \in DOMAIN w.nodes : i \in Nat \ {0} /\ i <= w.nodeSeq /\ w.nodes[i] \in RowSet
         /\ \A i \in DOMAIN w.edges : i \in Nat \ {0} /\ i <= w.edgeSeq /\ w.edges[i] \in LinkSet
<1>1. /\ w.nodes \in Maps(Nat \ {0}, RowSet) /\ w.edges \in Maps(Nat \ {0}, LinkSet)
      /\ w.nodeSeq \in Nat /\ w.edgeSeq \in Nat
  BY DEF RowsInv, RowsSet
<1>2. \A i \in DOMAIN w.nodes : i \in Nat \ {0} /\ w.nodes[i] \in RowSet
  BY <1>1, MapsApply
<1>3. \A i \in DOMAIN w.edges : i \in Nat \ {0} /\ w.edges[i] \in LinkSet
  BY <1>1, MapsApply
<1> QED BY <1>1, <1>2, <1>3 DEF RowsInv

\* A name has one id, the one of its row.
LEMMA IdOfRow ==
  ASSUME NEW w, RowsInv(w), NEW i \in DOMAIN w.nodes
  PROVE  IdOf(w, w.nodes[i].qn) = i
<1> DEFINE q == w.nodes[i].qn
           k == CHOOSE j \in DOMAIN w.nodes : w.nodes[j].qn = q
<1>1. k \in DOMAIN w.nodes /\ w.nodes[k].qn = q
  OBVIOUS
<1>2. k = i
  BY <1>1 DEF RowsInv
<1>3. IdOf(w, q) = k
  BY DEF IdOf
<1> QED BY <1>2, <1>3

LEMMA IdOfAny ==
  ASSUME NEW w, RowsInv(w), NEW q
  PROVE  \/ IdOf(w, q) \in DOMAIN w.nodes /\ w.nodes[IdOf(w, q)].qn = q
         \/ IdOf(w, q) = 0 /\ 0 \notin DOMAIN w.nodes /\ \A i \in DOMAIN w.nodes : w.nodes[i].qn # q
<1>1. 0 \notin DOMAIN w.nodes
  BY RowsType
<1> QED BY <1>1 DEF IdOf

\* The nodes and the edges of the graph that rows stand for.
LEMMA GraphOfRows ==
  ASSUME NEW w, RowsInv(w)
  PROVE  /\ GraphOf(w) = [nodes |-> GraphOf(w).nodes, edges |-> GraphOf(w).edges]
         /\ GraphOf(w).nodes = [q \in DOMAIN GraphOf(w).nodes |-> GraphOf(w).nodes[q]]
         /\ DOMAIN GraphOf(w).nodes = NamesOf(w)
         /\ \A i \in DOMAIN w.nodes : GraphOf(w).nodes[w.nodes[i].qn] = w.nodes[i].label
         /\ GraphOf(w).edges = Links(w)
<1> DEFINE D == NamesOf(w)
<1>1. /\ GraphOf(w).nodes = [q \in D |-> w.nodes[IdOf(w, q)].label]
      /\ GraphOf(w) = [nodes |-> GraphOf(w).nodes, edges |-> GraphOf(w).edges]
  BY DEF GraphOf, NamesOf
<1>2. GraphOf(w).edges = Links(w)
  BY DEF GraphOf, Named, Links
<1>3. \A i \in DOMAIN w.nodes : GraphOf(w).nodes[w.nodes[i].qn] = w.nodes[i].label
  BY <1>1, IdOfRow DEF NamesOf
<1> HIDE DEF D
<1>4. DOMAIN GraphOf(w).nodes = D
  BY <1>1
<1>5. GraphOf(w).nodes = [q \in DOMAIN GraphOf(w).nodes |-> GraphOf(w).nodes[q]]
  BY <1>1
<1> QED BY <1>1, <1>2, <1>3, <1>4, <1>5 DEF D

\* To know the nodes and the edges of rows is to know their graph.
LEMMA GraphOfIs ==
  ASSUME NEW w, RowsInv(w), NEW f, NEW E,
         f = [q \in DOMAIN f |-> f[q]],
         DOMAIN f = NamesOf(w),
         \A i \in DOMAIN w.nodes : f[w.nodes[i].qn] = w.nodes[i].label,
         E = Links(w)
  PROVE  GraphOf(w) = [nodes |-> f, edges |-> E]
<1> DEFINE g == GraphOf(w).nodes
<1>1. ASSUME NEW q \in DOMAIN f PROVE g[q] = f[q]
  <2>1. PICK i \in DOMAIN w.nodes : q = w.nodes[i].qn
    BY DEF NamesOf
  <2>2. g[w.nodes[i].qn] = w.nodes[i].label
    BY GraphOfRows
  <2> QED BY <2>1, <2>2
<1>2. DOMAIN g = DOMAIN f /\ g = [q \in DOMAIN g |-> g[q]]
  BY GraphOfRows
<1> HIDE DEF g
<1>3. g = f
  BY <1>1, <1>2
<1>4. GraphOf(w) = [nodes |-> g, edges |-> E]
  BY GraphOfRows DEF g
<1> QED BY <1>3, <1>4

LEMMA NoRowsInv == RowsInv(NoRows) /\ GraphOf(NoRows) = Graph!EmptyGraph
<1>1. /\ NoRows.nodes = Nothing /\ NoRows.edges = Nothing
      /\ NoRows.nodeSeq = 0 /\ NoRows.edgeSeq = 0
  BY DEF NoRows
<1>2. NoRows \in RowsSet
  BY NothingMaps DEF NoRows, RowsSet
<1>3. RowsInv(NoRows)
  BY <1>1, <1>2, NothingMaps DEF RowsInv
<1>4. GraphOf(NoRows) = [nodes |-> [q \in {} |-> Route], edges |-> {}]
  <2>1. NamesOf(NoRows) = {}
    BY <1>1, NothingMaps DEF NamesOf
  <2>2. Links(NoRows) = {}
    BY <1>1, NothingMaps DEF Links
  <2> DEFINE f == [q \in {} |-> Route]
  <2>3. f = [q \in DOMAIN f |-> f[q]] /\ DOMAIN f = {}
    OBVIOUS
  <2>4. \A i \in DOMAIN NoRows.nodes : f[NoRows.nodes[i].qn] = NoRows.nodes[i].label
    BY <1>1, NothingMaps
  <2>5. DOMAIN f = NamesOf(NoRows)
    BY <2>1, <2>3
  <2> HIDE DEF f
  <2>6. GraphOf(NoRows) = [nodes |-> f, edges |-> {}]
    BY <1>3, <2>2, <2>3, <2>4, <2>5, GraphOfIs
  <2> QED BY <2>6 DEF f
<1> QED BY <1>3, <1>4 DEF Graph!EmptyGraph, Graph!Route, Route

\* BulkInsertEdges and InsertEdge add what they are given, and no id is used twice.
LEMMA WithEdgesRows ==
  ASSUME NEW w, RowsInv(w), NEW new \in Seq(LinkSet),
         \A i \in DOMAIN new : new[i].src \in DOMAIN w.nodes /\ new[i].tgt \in DOMAIN w.nodes
  PROVE  LET v == WithEdges(w, new)
         IN  /\ RowsInv(v)
             /\ v.edgeSeq \in Nat
             /\ GraphOf(v) = [nodes |-> GraphOf(w).nodes,
                              edges |-> GraphOf(w).edges \union {Named(w, new[i]) : i \in DOMAIN new}]
<1> DEFINE v  == WithEdges(w, new)
           n  == w.edgeSeq
           k  == Len(new)
           es == [i \in DOMAIN w.edges \union (n + 1 .. n + k) |->
                    IF i > n THEN new[i - n] ELSE w.edges[i]]
<1>1. /\ w \in RowsSet /\ w.edges \in Maps(Nat \ {0}, LinkSet) /\ n \in Nat /\ k \in Nat
      /\ w.nodeSeq \in Nat /\ DOMAIN new = 1 .. k
      /\ \A i \in DOMAIN w.edges : i \in Nat \ {0} /\ i <= n /\ w.edges[i] \in LinkSet
  BY RowsType DEF RowsInv
<1>2. v = [w EXCEPT !.edges = es, !.edgeSeq = n + k]
  BY DEF WithEdges
<1>3. /\ v.nodes = w.nodes /\ v.edges = es /\ v.nodeSeq = w.nodeSeq /\ v.edgeSeq = n + k
  <2> HIDE DEF v, es
  <2> QED BY <1>1, <1>2 DEF RowsSet
<1>4. /\ DOMAIN es = DOMAIN w.edges \union (n + 1 .. n + k)
      /\ \A i \in DOMAIN w.edges : es[i] = w.edges[i]
      /\ \A i \in 1 .. k : n + i \in DOMAIN es /\ es[n + i] = new[i]
      /\ \A i \in n + 1 .. n + k : i - n \in 1 .. k /\ es[i] = new[i - n]
  BY <1>1
<1>5. \A i \in DOMAIN es : i \in Nat \ {0} /\ i <= n + k /\ es[i] \in LinkSet
  <2> HIDE DEF es, n, k
  <2>1. ASSUME NEW i \in n + 1 .. n + k PROVE i \in Nat \ {0} /\ i <= n + k /\ es[i] \in LinkSet
    <3>1. i - n \in DOMAIN new /\ es[i] = new[i - n]
      BY <1>1, <1>4
    <3> QED BY <3>1, <1>1
  <2>2. ASSUME NEW i \in DOMAIN w.edges PROVE i \in Nat \ {0} /\ i <= n + k /\ es[i] \in LinkSet
    BY <1>1, <1>4
  <2> QED BY <2>1, <2>2, <1>4
<1>6. es \in Maps(Nat \ {0}, LinkSet)
  <2>1. es = [i \in DOMAIN es |-> es[i]]
    OBVIOUS
  <2> HIDE DEF es
  <2>2. es \in [DOMAIN es -> LinkSet] /\ DOMAIN es \in SUBSET (Nat \ {0})
    BY <2>1, <1>5
  <2> QED BY <2>2 DEF Maps
<1> HIDE DEF es, v, n, k
<1>7. v \in RowsSet
  <2>1. n + k \in Nat
    BY <1>1
  <2> QED BY <2>1, <1>1, <1>2, <1>6 DEF RowsSet
<1>8. ASSUME NEW i \in DOMAIN es PROVE es[i].src \in DOMAIN w.nodes /\ es[i].tgt \in DOMAIN w.nodes
  <2>1. CASE i \in DOMAIN w.edges
    BY <2>1, <1>4 DEF RowsInv
  <2>2. CASE i \in n + 1 .. n + k
    BY <2>2, <1>1, <1>4
  <2> QED BY <2>1, <2>2, <1>4
<1>9. RowsInv(v)
  <2>1. /\ v \in RowsSet /\ v.nodes = w.nodes /\ v.nodeSeq = w.nodeSeq /\ RowsInv(w)
        /\ v.edges = es /\ v.edgeSeq = n + k
    BY <1>3, <1>7
  <2>2. \A i \in DOMAIN v.edges : /\ i <= v.edgeSeq
           /\ v.edges[i].src \in DOMAIN v.nodes /\ v.edges[i].tgt \in DOMAIN v.nodes
    BY <2>1, <1>5, <1>8
  <2> QED BY <2>1, <2>2 DEF RowsInv
<1>10. Links(v) =
         GraphOf(w).edges \union {Named(w, new[i]) : i \in DOMAIN new}
  <2>1. GraphOf(w).edges = {Named(w, w.edges[i]) : i \in DOMAIN w.edges}
    BY GraphOfRows DEF Links
  <2>2. \A e : Named(v, e) = Named(w, e)
    BY <1>3 DEF Named
  <2>3. ASSUME NEW i \in DOMAIN es
        PROVE  Named(w, es[i]) \in GraphOf(w).edges \union {Named(w, new[j]) : j \in DOMAIN new}
    <3>1. CASE i \in DOMAIN w.edges
      BY <3>1, <2>1, <1>4
    <3>2. CASE i \in n + 1 .. n + k
      <4>1. i - n \in DOMAIN new /\ es[i] = new[i - n]
        BY <3>2, <1>1, <1>4
      <4> QED BY <4>1
    <3> QED BY <3>1, <3>2, <1>4
  <2>4. ASSUME NEW i \in DOMAIN w.edges
        PROVE  \E j \in DOMAIN es : Named(w, w.edges[i]) = Named(w, es[j])
    BY <1>4
  <2>5. ASSUME NEW i \in DOMAIN new
        PROVE  \E j \in DOMAIN es : Named(w, new[i]) = Named(w, es[j])
    <3>1. n + i \in DOMAIN es /\ es[n + i] = new[i]
      BY <1>1, <1>4
    <3> QED BY <3>1
  <2>6. Links(v) = {Named(w, es[i]) : i \in DOMAIN es}
    BY <1>3, <2>2 DEF Links
  <2> DEFINE A == {Named(w, es[i]) : i \in DOMAIN es}
             B == GraphOf(w).edges
             C == {Named(w, new[i]) : i \in DOMAIN new}
  <2>7. A \subseteq B \union C
    BY <2>3
  <2>8. B \subseteq A
    BY <2>1, <2>4
  <2>9. C \subseteq A
    BY <2>5
  <2> HIDE DEF A, B, C
  <2>10. A = B \union C
    BY <2>7, <2>8, <2>9
  <2> QED BY <2>6, <2>10 DEF A, B, C
<1>11. v.edgeSeq \in Nat
  BY <1>1, <1>3
<1>12. GraphOf(v) = [nodes |-> GraphOf(w).nodes,
                     edges |-> GraphOf(w).edges \union {Named(w, new[i]) : i \in DOMAIN new}]
  <2> DEFINE f == GraphOf(w).nodes
  <2>1. /\ f = [q \in DOMAIN f |-> f[q]]
        /\ DOMAIN f = NamesOf(v)
        /\ \A i \in DOMAIN v.nodes : f[v.nodes[i].qn] = v.nodes[i].label
    BY <1>3, GraphOfRows DEF NamesOf
  <2> HIDE DEF f
  <2>2. GraphOf(v) = [nodes |-> f, edges |-> Links(v)]
    BY <1>9, <2>1, GraphOfIs
  <2> QED BY <2>2, <1>10 DEF f
<1> QED BY <1>9, <1>11, <1>12 DEF v

\* An order of a finite set has every element, once.
LEMMA OrdersOnto ==
  ASSUME NEW S, IsFiniteSet(S), NEW order \in Orders(S)
  PROVE  /\ Cardinality(S) \in Nat /\ order \in [1 .. Cardinality(S) -> S]
         /\ \A x \in S : \E i \in 1 .. Cardinality(S) : order[i] = x
         /\ \A i, j \in 1 .. Cardinality(S) : order[i] = order[j] => i = j
<1> DEFINE k == Cardinality(S)
<1>1. k \in Nat
  BY FS_CardinalityType
<1>2. order \in [1 .. k -> S] /\ IsInjective(order)
  BY DEF Orders
<1>3. order \in Injection(1 .. k, S)
  BY <1>2 DEF Injection
<1>4. IsFiniteSet(1 .. k) /\ Cardinality(1 .. k) = k
  BY <1>1, FS_Interval
<1>5. order \in Surjection(1 .. k, S)
  BY <1>3, <1>4, FS_Injection
<1>6. \A x \in S : \E i \in 1 .. k : order[i] = x
  BY <1>5 DEF Surjection
<1>7. \A i, j \in 1 .. k : order[i] = order[j] => i = j
  BY <1>2 DEF IsInjective
<1> HIDE DEF k
<1> QED BY <1>1, <1>2, <1>6, <1>7 DEF k

\* The flush of the nodes leaves the rows of the buffer's nodes, whatever the order.
LEMMA FlushedRows ==
  ASSUME NEW b, BufferInv(b), NEW w, RowsInv(w), NEW order \in Orders(DOMAIN b.node)
  PROVE  LET v == WithNodes([w EXCEPT !.nodes = Nothing, !.edges = Nothing], b, order)
         IN  RowsInv(v) /\ Flushed(v, b) /\ v.nodeSeq \in Nat
<1> DEFINE S    == DOMAIN b.node
           u    == [w EXCEPT !.nodes = Nothing, !.edges = Nothing]
           v    == WithNodes(u, b, order)
           k    == Cardinality(S)
           n    == w.nodeSeq
           rows == [i \in n + 1 .. n + k |-> b.node[order[i - n]]]
<1>1. /\ b.node \in Maps(Nat, NodeSet) /\ w \in RowsSet /\ NamesInv(b)
      /\ n \in Nat /\ w.edgeSeq \in Nat /\ b.next \in Nat
  BY RowsType DEF BufferInv, BufferSet, RowsInv
<1>2. IsFiniteSet(S)
  <2>1. S \in SUBSET (1 .. b.next - 1)
    BY <1>1 DEF NamesInv
  <2>2. IsFiniteSet(1 .. b.next - 1)
    <3>1. 1 \in Int /\ b.next - 1 \in Int
      BY <1>1
    <3> QED BY <3>1, FS_Interval
  <2> HIDE DEF S
  <2> QED BY <2>1, <2>2, FS_Subset
<1>3. /\ k \in Nat /\ order \in [1 .. k -> S]
      /\ \A x \in S : \E i \in 1 .. k : order[i] = x
      /\ \A i, j \in 1 .. k : order[i] = order[j] => i = j
  <2> HIDE DEF S
  <2> QED BY <1>2, OrdersOnto DEF S
<1>4. Len(order) = k
  <2> HIDE DEF k
  <2> QED BY <1>3
<1>5. u \in RowsSet /\ u.nodeSeq = n /\ u.edges = Nothing /\ u.edgeSeq = w.edgeSeq
  <2>1. Nothing \in Maps(Nat \ {0}, RowSet) /\ Nothing \in Maps(Nat \ {0}, LinkSet)
    BY NothingMaps
  <2> QED BY <1>1, <2>1 DEF RowsSet
<1>6. /\ v = [u EXCEPT !.nodes = rows, !.nodeSeq = n + k]
      /\ v.nodes = rows /\ v.nodeSeq = n + k /\ v.edges = Nothing /\ v.edgeSeq = w.edgeSeq
  <2>1. v = [u EXCEPT !.nodes = rows, !.nodeSeq = n + k]
    BY <1>4, <1>5 DEF WithNodes
  <2> HIDE DEF v, u, rows
  <2> QED BY <1>5, <2>1 DEF RowsSet
<1> HIDE DEF S, u, v, k, n
<1>7. /\ DOMAIN rows = n + 1 .. n + k
      /\ \A i \in DOMAIN rows : i - n \in 1 .. k /\ rows[i] = b.node[order[i - n]]
      /\ \A j \in 1 .. k : n + j \in DOMAIN rows /\ rows[n + j] = b.node[order[j]]
  BY <1>1, <1>3
<1> HIDE DEF rows
<1>8. \A i \in DOMAIN rows : order[i - n] \in S /\ rows[i] \in NodeSet
  <2>1. \A z \in S : b.node[z] \in NodeSet
    BY <1>1, MapsApply DEF S
  <2>2. ASSUME NEW i \in DOMAIN rows PROVE order[i - n] \in S /\ rows[i] \in NodeSet
    <3>1. order[i - n] \in S
      BY <1>3, <1>7
    <3> QED BY <3>1, <2>1, <1>7
  <2> QED BY <2>2
<1>9. NodeSet \subseteq RowSet
  BY DEF NodeSet, RowSet, AllNames
<1>10. rows \in Maps(Nat \ {0}, RowSet)
  <2>1. rows = [i \in DOMAIN rows |-> rows[i]]
    BY DEF rows
  <2>2. DOMAIN rows \in SUBSET (Nat \ {0})
    BY <1>1, <1>3, <1>7
  <2>3. rows \in [DOMAIN rows -> RowSet]
    BY <2>1, <1>8, <1>9
  <2> QED BY <2>2, <2>3 DEF Maps
<1>11. v \in RowsSet
  <2>1. n + k \in Nat
    BY <1>1, <1>3
  <2> QED BY <2>1, <1>5, <1>6, <1>10 DEF RowsSet
<1>12. ASSUME NEW i \in DOMAIN rows, NEW j \in DOMAIN rows, rows[i].qn = rows[j].qn PROVE i = j
  <2>1. order[i - n] = order[j - n]
    <3>1. \A x, y \in S : b.node[x].qn = b.node[y].qn => x = y
      BY <1>1 DEF NamesInv, S
    <3> QED BY <3>1, <1>7, <1>8, <1>12
  <2>2. i - n = j - n
    BY <2>1, <1>3, <1>7
  <2> QED BY <2>2, <1>1, <1>3, <1>7
<1>13. \A i \in DOMAIN rows : i <= n + k /\ rows[i].qn \notin Routes
  <2>1. \A i \in DOMAIN rows : i <= n + k
    BY <1>1, <1>3, <1>7
  <2>2. \A i \in DOMAIN rows : rows[i].qn \in Names
    BY <1>8 DEF NodeSet
  <2> QED BY <2>1, <2>2, BulkAssumption
<1>14. RowsInv(v)
  BY <1>6, <1>11, <1>12, <1>13, NothingMaps DEF RowsInv
<1>15. Flushed(v, b)
  <2>1. ASSUME NEW id \in S PROVE \E i \in DOMAIN rows : rows[i] = b.node[id]
    BY <1>3, <1>7
  <2>2. ASSUME NEW i \in DOMAIN rows PROVE \E id \in S : rows[i] = b.node[id]
    BY <1>7, <1>8
  <2> QED BY <2>1, <2>2, <1>6, NothingMaps DEF Flushed, S
<1>16. v.nodeSeq \in Nat
  BY <1>1, <1>3, <1>6
<1> QED BY <1>14, <1>15, <1>16 DEF v, u

\* No edge is lost when it is found through names, and each gets its ends.
LEMMA RemappedEdges ==
  ASSUME NEW b, BufferInv(b), NEW w, RowsInv(w), Flushed(w, b)
  PROVE  LET new == Remapped(w, b)
         IN  /\ new \in Seq(LinkSet)
             /\ \A i \in DOMAIN new : new[i].src \in DOMAIN w.nodes /\ new[i].tgt \in DOMAIN w.nodes
             /\ {Named(w, new[i]) : i \in DOMAIN new} = BufferLinks(b)
<1> DEFINE row(id) == IF id \in DOMAIN b.node THEN IdOf(w, b.node[id].qn) ELSE 0
           K    == {i \in DOMAIN b.edges : row(b.edges[i].src) # 0 /\ row(b.edges[i].tgt) # 0}
           kept == InOrder(K)
           link(e) == [src |-> row(e.src), tgt |-> row(e.tgt), type |-> Calls]
           new  == Remapped(w, b)
           n    == Len(b.edges)
<1>1. /\ b.edges \in Seq(EdgeSet) /\ EdgesInv(b) /\ n \in Nat /\ DOMAIN b.edges = 1 .. n
  BY DEF BufferInv, BufferSet
<1>2. ASSUME NEW id \in DOMAIN b.node
      PROVE  row(id) \in DOMAIN w.nodes /\ row(id) \in Nat \ {0} /\ w.nodes[row(id)].qn = b.node[id].qn
  <2>1. PICK i \in DOMAIN w.nodes : w.nodes[i] = b.node[id]
    BY DEF Flushed
  <2>2. IdOf(w, w.nodes[i].qn) = i
    BY IdOfRow
  <2>3. i \in Nat \ {0}
    BY RowsType
  <2> QED BY <2>1, <2>2, <2>3
<1>3. new = [i \in DOMAIN kept |-> link(b.edges[kept[i]])]
  BY DEF Remapped
<1> HIDE DEF row
<1>4. \A i \in 1 .. n : b.edges[i].src \in DOMAIN b.node /\ b.edges[i].tgt \in DOMAIN b.node
  BY <1>1 DEF EdgesInv
<1>5. K = 1 .. n
  BY <1>1, <1>2, <1>4
<1>6. /\ kept \in [1 .. n -> 1 .. n]
      /\ \A x \in 1 .. n : \E i \in 1 .. n : kept[i] = x
  <2> DEFINE id == [i \in 1 .. n |-> i]
  <2>1. IsFiniteSet(1 .. n) /\ Cardinality(1 .. n) = n
    BY <1>1, FS_Interval
  <2> HIDE DEF n
  <2>2. id \in Orders(1 .. n)
    BY <2>1 DEF Orders, IsInjective
  <2>3. \A i, j \in DOMAIN id : i < j => id[i] < id[j]
    OBVIOUS
  <2> HIDE DEF id
  <2>4. InOrder(1 .. n) \in Orders(1 .. n)
    BY <2>2, <2>3 DEF InOrder
  <2>5. kept \in Orders(1 .. n)
    BY <2>4, <1>5
  <2> HIDE DEF kept
  <2> QED BY <2>1, <2>5, OrdersOnto
<1> HIDE DEF K, kept, n, new
<1>7. /\ DOMAIN new = 1 .. n
      /\ \A i \in 1 .. n : new[i] = link(b.edges[kept[i]])
  BY <1>3, <1>6
<1>8. ASSUME NEW x \in 1 .. n
      PROVE  /\ link(b.edges[x]) \in LinkSet
             /\ link(b.edges[x]).src \in DOMAIN w.nodes /\ link(b.edges[x]).tgt \in DOMAIN w.nodes
             /\ Named(w, link(b.edges[x])) =
                  <<b.node[b.edges[x].src].qn, b.node[b.edges[x].tgt].qn, Calls>>
  BY <1>2, <1>4 DEF Named, LinkSet
<1> HIDE DEF link
<1>9. \A i \in 1 .. n : kept[i] \in 1 .. n
  BY <1>6
<1>10. new \in Seq(LinkSet)
  <2>1. new = [i \in 1 .. n |-> new[i]]
    BY <1>3, <1>7
  <2>2. \A i \in 1 .. n : new[i] \in LinkSet
    BY <1>7, <1>8, <1>9
  <2>3. new \in [1 .. n -> LinkSet]
    BY <2>1, <2>2
  <2> QED BY <2>3, <1>1
<1>11. \A i \in DOMAIN new : new[i].src \in DOMAIN w.nodes /\ new[i].tgt \in DOMAIN w.nodes
  BY <1>7, <1>8, <1>9
<1>12. {Named(w, new[i]) : i \in DOMAIN new} = BufferLinks(b)
  <2> DEFINE name(x) == <<b.node[b.edges[x].src].qn, b.node[b.edges[x].tgt].qn, Calls>>
  <2>1. BufferLinks(b) = {name(x) : x \in 1 .. n}
    BY <1>1 DEF BufferLinks
  <2>2. \A i \in DOMAIN new : Named(w, new[i]) = name(kept[i]) /\ kept[i] \in 1 .. n
    BY <1>7, <1>8, <1>9
  <2> HIDE DEF name
  <2>3. ASSUME NEW x \in 1 .. n PROVE \E i \in DOMAIN new : name(x) = Named(w, new[i])
    <3>1. PICK i \in 1 .. n : kept[i] = x
      BY <1>6
    <3>2. i \in DOMAIN new /\ Named(w, new[i]) = name(x)
      BY <3>1, <1>7, <2>2
    <3> QED BY <3>2
  <2> QED BY <2>1, <2>2, <2>3
<1> QED BY <1>10, <1>11, <1>12 DEF new

\* UpsertNode of a route: its name has a row then, whatever id is returned.
LEMMA UpsertRouteRows ==
  ASSUME NEW r \in Routes, RowsInv(work), lastRow \in Nat
  PROVE  LET up == UpsertRoute(work, r)
         IN  /\ RowsInv(up.rows) /\ up.id \in Nat /\ up.last \in Nat
             /\ up.rows.edges = work.edges
             /\ DOMAIN work.nodes \subseteq DOMAIN up.rows.nodes
             /\ \A i \in DOMAIN work.nodes : up.rows.nodes[i] = work.nodes[i]
             /\ GraphOf(up.rows) = [nodes |-> With(GraphOf(work).nodes, r, Route),
                                    edges |-> GraphOf(work).edges]
             /\ r \notin DOMAIN GraphOf(work).nodes =>
                  up.id \in DOMAIN up.rows.nodes /\ up.rows.nodes[up.id].qn = r
             /\ r \in DOMAIN GraphOf(work).nodes => up.rows = work
<1> DEFINE up == UpsertRoute(work, r)
           n  == work.nodeSeq
           v  == up.rows
           f  == With(GraphOf(work).nodes, r, Route)
           E  == GraphOf(work).edges
<1>1. /\ work \in RowsSet /\ n \in Nat /\ work.nodes \in Maps(Nat \ {0}, RowSet)
      /\ \A i \in DOMAIN work.nodes : i \in Nat \ {0} /\ i <= n
  BY RowsType DEF RowsInv
<1>2. /\ DOMAIN GraphOf(work).nodes = NamesOf(work) /\ E = Links(work)
      /\ \A i \in DOMAIN work.nodes : GraphOf(work).nodes[work.nodes[i].qn] = work.nodes[i].label
  BY GraphOfRows
<1>3. /\ f = [q \in DOMAIN f |-> f[q]] /\ DOMAIN f = NamesOf(work) \union {r} /\ f[r] = Route
      /\ \A q \in NamesOf(work) : q # r => f[q] = GraphOf(work).nodes[q]
  BY <1>2 DEF With
<1>4. CASE IdOf(work, r) = 0
  <2> DEFINE node == [qn |-> r, label |-> Route]
             rows == With(work.nodes, n + 1, node)
  <2>1. v = [work EXCEPT !.nodes = rows, !.nodeSeq = n + 1] /\ up.id = n + 1 /\ up.last = n + 1
    BY <1>4 DEF UpsertRoute
  <2>2. \A i \in DOMAIN work.nodes : work.nodes[i].qn # r
    <3>1. 0 \notin DOMAIN work.nodes
      BY <1>1
    <3> QED BY <3>1, <1>4, IdOfAny
  <2>3. node \in RowSet /\ node.qn = r /\ node.label = Route
    BY DEF RowSet, AllNames
  <2>4. n + 1 \in Nat \ {0} /\ n + 1 \notin DOMAIN work.nodes
    BY <1>1
  <2> HIDE DEF node, v
  <2>5. rows \in Maps(Nat \ {0}, RowSet)
    BY <1>1, <2>3, <2>4, WithMaps
  <2>6. /\ DOMAIN rows = DOMAIN work.nodes \union {n + 1} /\ rows[n + 1] = node
        /\ \A i \in DOMAIN work.nodes : rows[i] = work.nodes[i]
    BY <2>4 DEF With
  <2> HIDE DEF rows
  <2>7. /\ v \in RowsSet /\ v.nodes = rows /\ v.nodeSeq = n + 1
        /\ v.edges = work.edges /\ v.edgeSeq = work.edgeSeq
    BY <1>1, <2>1, <2>4, <2>5 DEF RowsSet
  <2>8. RowsInv(v)
    <3>1. \A i \in DOMAIN rows : i <= n + 1
      BY <1>1, <2>6
    <3>2. ASSUME NEW i \in DOMAIN rows, NEW j \in DOMAIN rows, rows[i].qn = rows[j].qn PROVE i = j
      BY <3>2, <2>2, <2>3, <2>6 DEF RowsInv
    <3>3. ASSUME NEW i \in DOMAIN rows, rows[i].qn \in Routes PROVE rows[i].label = Route
      BY <3>3, <2>3, <2>6 DEF RowsInv
    <3>4. \A i \in DOMAIN work.edges : /\ i <= work.edgeSeq
             /\ work.edges[i].src \in DOMAIN rows /\ work.edges[i].tgt \in DOMAIN rows
      BY <2>6 DEF RowsInv
    <3> QED BY <3>1, <3>2, <3>3, <3>4, <2>7 DEF RowsInv
  <2>9. NamesOf(v) = NamesOf(work) \union {r}
    BY <2>3, <2>6, <2>7 DEF NamesOf
  <2>10. \A i \in DOMAIN v.nodes : f[v.nodes[i].qn] = v.nodes[i].label
    <3>1. \A i \in DOMAIN work.nodes : work.nodes[i].qn \in NamesOf(work)
      BY DEF NamesOf
    <3> HIDE DEF f
    <3> QED BY <3>1, <1>2, <1>3, <2>2, <2>3, <2>6, <2>7
  <2>11. Links(v) = E
    <3>1. \A i \in DOMAIN work.edges : Named(v, work.edges[i]) = Named(work, work.edges[i])
      BY <2>6, <2>7 DEF RowsInv, Named
    <3> QED BY <3>1, <1>2, <2>7 DEF Links
  <2>12. GraphOf(v) = [nodes |-> f, edges |-> E]
    <3> HIDE DEF f, E
    <3> QED BY <1>3, <2>8, <2>9, <2>10, <2>11, GraphOfIs
  <2>13. r \notin NamesOf(work)
    BY <2>2 DEF NamesOf
  <2> QED BY <1>1, <1>2, <2>1, <2>3, <2>4, <2>6, <2>7, <2>8, <2>12, <2>13 DEF v
<1>5. CASE IdOf(work, r) # 0
  <2> DEFINE k == IdOf(work, r)
  <2>1. k \in DOMAIN work.nodes /\ work.nodes[k].qn = r /\ k \in Nat
    BY <1>1, <1>5, IdOfAny
  <2>2. v = work /\ up.id \in Nat /\ up.last \in Nat
    BY <1>5, <2>1 DEF UpsertRoute
  <2>3. r \in NamesOf(work)
    BY <2>1 DEF NamesOf
  <2>4. GraphOf(work).nodes[r] = Route
    BY <1>2, <2>1 DEF RowsInv
  <2>5. f = GraphOf(work).nodes
    <3>1. GraphOf(work).nodes = [q \in DOMAIN GraphOf(work).nodes |-> GraphOf(work).nodes[q]]
      BY GraphOfRows
    <3> QED BY <3>1, <1>2, <1>3, <2>3, <2>4
  <2>6. GraphOf(work) = [nodes |-> GraphOf(work).nodes, edges |-> GraphOf(work).edges]
    BY GraphOfRows
  <2> QED BY <1>2, <2>2, <2>3, <2>5, <2>6
<1> QED BY <1>4, <1>5

\* A route and its handler, as GraphStore allows it.
RoutePut(h, r, e) ==
  LET known == r \in DOMAIN GraphOf(work).nodes
      ends  == IF known THEN DOMAIN GraphOf(work).nodes ELSE {r}
  IN  /\ e \in {{}} \union {{<<h, t, Handles>>} : t \in ends}
      /\ (~ known /\ h \in DOMAIN GraphOf(work).nodes) => e # {}
      /\ h \notin DOMAIN GraphOf(work).nodes => e = {}
      /\ GraphOf(work') = [nodes |-> With(GraphOf(work).nodes, r, Route),
                           edges |-> GraphOf(work).edges \union e]

LEMMA RegisterRows ==
  ASSUME NEW h \in Names, NEW r \in Routes, RowsInv(work), lastRow \in Nat, RegisterRoute(h, r)
  PROVE  RowsInv(work') /\ lastRow' \in Nat /\ \E e : RoutePut(h, r, e)
<1> DEFINE up    == UpsertRoute(work, r)
           v     == up.rows
           from  == IdOf(work, h)
           edge  == [src |-> from, tgt |-> up.id, type |-> Handles]
           names == DOMAIN GraphOf(work).nodes
           f     == With(GraphOf(work).nodes, r, Route)
           E     == GraphOf(work).edges
           name  == v.nodes[up.id].qn
           there == {from, up.id} \subseteq DOMAIN v.nodes
           new   == \A i \in DOMAIN v.edges : v.edges[i] # edge
<1>1. /\ RowsInv(v) /\ up.id \in Nat /\ up.last \in Nat /\ v.edges = work.edges
      /\ DOMAIN work.nodes \subseteq DOMAIN v.nodes
      /\ \A i \in DOMAIN work.nodes : v.nodes[i] = work.nodes[i]
      /\ GraphOf(v) = [nodes |-> f, edges |-> E]
      /\ r \notin names => up.id \in DOMAIN v.nodes /\ name = r
      /\ r \in names => v = work
  BY UpsertRouteRows
<1>2. IF there /\ new THEN work' = WithEdges(v, <<edge>>) /\ lastRow' = work'.edgeSeq
                      ELSE work' = v /\ lastRow' = up.last
  BY DEF RegisterRoute
<1>3. /\ h \in names => from \in DOMAIN work.nodes /\ work.nodes[from].qn = h
      /\ h \notin names => from = 0
  <2>1. names = NamesOf(work)
    BY GraphOfRows
  <2> QED BY <2>1, IdOfAny DEF NamesOf
<1>4. 0 \notin DOMAIN v.nodes /\ \A i \in DOMAIN v.nodes : i \in Nat
  BY <1>1, RowsType
<1>5. r \in names => \A i \in DOMAIN v.nodes : v.nodes[i].qn \in names
  <2>1. names = NamesOf(work)
    BY GraphOfRows
  <2> QED BY <1>1, <2>1 DEF NamesOf
<1>6. there => /\ h \in names /\ from \in DOMAIN work.nodes /\ v.nodes[from].qn = h
               /\ from \in DOMAIN v.nodes /\ up.id \in DOMAIN v.nodes
               /\ name \in IF r \in names THEN names ELSE {r}
  BY <1>1, <1>3, <1>4, <1>5
<1>7. Named(v, edge) = <<v.nodes[from].qn, name, Handles>>
  BY DEF Named
<1>8. edge.src = from /\ edge.tgt = up.id /\ edge.type = Handles
  OBVIOUS
<1> HIDE DEF up, v, from, edge, names, f, E, name
<1>9. CASE there /\ new
  <2>1. <<edge>> \in Seq(LinkSet)
    <3>1. edge \in LinkSet
      BY <1>1, <1>4, <1>6, <1>9 DEF LinkSet, edge
    <3> QED BY <3>1
  <2>2. DOMAIN <<edge>> = {1} /\ <<edge>>[1] = edge
    OBVIOUS
  <2>3. \A i \in DOMAIN <<edge>> : <<edge>>[i].src \in DOMAIN v.nodes /\ <<edge>>[i].tgt \in DOMAIN v.nodes
    BY <2>2, <1>6, <1>8, <1>9
  <2> DEFINE one == <<edge>>
             put == {Named(v, one[i]) : i \in DOMAIN one}
  <2>4. put = {Named(v, edge)}
    BY <2>2
  <2> HIDE DEF one
  <2>5. /\ RowsInv(WithEdges(v, one)) /\ WithEdges(v, one).edgeSeq \in Nat
        /\ GraphOf(WithEdges(v, one)) = [nodes |-> GraphOf(v).nodes, edges |-> GraphOf(v).edges \union put]
    BY <1>1, <2>1, <2>3, WithEdgesRows DEF one
  <2> HIDE DEF put
  <2>6. /\ RowsInv(work') /\ lastRow' \in Nat
        /\ GraphOf(work') = [nodes |-> f, edges |-> E \union put]
    BY <1>1, <1>2, <1>9, <2>5 DEF one
  <2>7. put = {<<h, name, Handles>>}
    BY <1>6, <1>7, <1>9, <2>4
  <2>8. RoutePut(h, r, put)
    BY <1>6, <1>9, <2>6, <2>7 DEF RoutePut, names, f, E
  <2> QED BY <2>6, <2>8
<1>10. CASE there /\ ~ new
  <2> DEFINE e == {<<h, name, Handles>>}
  <2>1. work' = v /\ lastRow' \in Nat
    BY <1>1, <1>2, <1>10
  <2>2. <<h, name, Handles>> \in Links(v)
    BY <1>6, <1>7, <1>10 DEF Links
  <2>3. Links(v) = E
    <3>1. GraphOf(v).edges = Links(v)
      BY <1>1, GraphOfRows
    <3> QED BY <3>1, <1>1
  <2>4. E \union e = E
    BY <2>2, <2>3
  <2>5. GraphOf(work') = [nodes |-> f, edges |-> E \union e]
    BY <1>1, <2>1, <2>4
  <2>6. RoutePut(h, r, e)
    BY <1>6, <1>10, <2>5 DEF RoutePut, names, f, E
  <2> QED BY <2>1, <2>6, <1>1
<1>11. CASE ~ there
  <2>1. work' = v /\ lastRow' \in Nat
    BY <1>1, <1>2, <1>11
  <2>2. ~ (r \notin names /\ h \in names)
    BY <1>1, <1>3, <1>11
  <2>3. GraphOf(work') = [nodes |-> f, edges |-> E \union {}]
    BY <1>1, <2>1
  <2>4. RoutePut(h, r, {})
    BY <2>2, <2>3 DEF RoutePut, names, f, E
  <2> QED BY <2>1, <2>4, <1>1
<1> QED BY <1>9, <1>10, <1>11

-----------------------------------------------------------------------------
(* What the buffer stands for.                                             *)

LEMMA BufferGraphIs ==
  BufferGraph = [nodes |-> [q \in DOMAIN buf.byQN |-> buf.node[buf.byQN[q]].label],
                 edges |-> BufferLinks(buf)]
BY DEF BufferGraph, BufferLinks

LEMMA PutNodeGraph ==
  ASSUME BufferInv(buf), NEW q \in Names, NEW l \in Labels, PassNode(q, l)
  PROVE  BufferGraph' = [nodes |-> With(BufferGraph.nodes, q, l), edges |-> BufferGraph.edges]
<1> DEFINE f == BufferGraph.nodes
           g == [p \in DOMAIN buf'.byQN |-> buf'.node[buf'.byQN[p]].label]
<1>1. BufferGraph' = [nodes |-> g, edges |-> BufferLinks(buf')]
  BY DEF BufferGraph, BufferLinks
<1>2. /\ NamesInv(buf) /\ EdgesInv(buf)
      /\ f = [p \in DOMAIN buf.byQN |-> buf.node[buf.byQN[p]].label]
      /\ BufferGraph.edges = BufferLinks(buf)
  BY BufferGraphIs DEF BufferInv
<1>3. \A i \in DOMAIN buf.edges : buf.edges[i].src \in DOMAIN buf.node /\ buf.edges[i].tgt \in DOMAIN buf.node
  BY <1>2 DEF EdgesInv
<1>4. CASE q \in DOMAIN buf.byQN
  <2> DEFINE id == buf.byQN[q]
  <2>1. id \in DOMAIN buf.node /\ \A p \in DOMAIN buf.byQN : p # q => buf.byQN[p] # id
    BY <1>2, <1>4 DEF NamesInv
  <2>2. buf' = Relabelled(buf, id, l)
    BY <1>4 DEF PassNode, UpsertNode
  <2>3. /\ buf'.byQN = buf.byQN /\ buf'.edges = buf.edges
        /\ buf'.node[id].label = l
        /\ \A z \in DOMAIN buf.node : buf'.node[z].qn = buf.node[z].qn
        /\ \A z \in DOMAIN buf.node : z # id => buf'.node[z] = buf.node[z]
    BY <2>1, <2>2, RelabelledInv
  <2>4. g = With(f, q, l)
    <3>1. DOMAIN f \union {q} = DOMAIN buf.byQN /\ DOMAIN g = DOMAIN buf.byQN
      BY <1>2, <1>4, <2>3
    <3>2. \A p \in DOMAIN buf.byQN : p # q => g[p] = f[p]
      BY <1>2, <2>1, <2>3 DEF NamesInv
    <3>3. g[q] = l
      BY <1>4, <2>3
    <3>4. g = [p \in DOMAIN buf.byQN |-> g[p]]
      BY <2>3
    <3> HIDE DEF f, g
    <3> QED BY <3>1, <3>2, <3>3, <3>4 DEF With
  <2>5. BufferLinks(buf') = BufferLinks(buf)
    BY <1>3, <2>3 DEF BufferLinks
  <2> QED BY <1>1, <1>2, <2>4, <2>5
<1>5. CASE q \notin DOMAIN buf.byQN
  <2> DEFINE id == buf.next
  <2>1. buf' = NewNode(buf, q, l)
    BY <1>5 DEF PassNode, UpsertNode
  <2>2. /\ buf'.byQN = With(buf.byQN, q, id) /\ buf'.edges = buf.edges
        /\ buf'.node = With(buf.node, id, [qn |-> q, label |-> l])
    BY <1>5, <2>1, NewNodeInv
  <2>3. id \notin DOMAIN buf.node
    <3>1. buf.next \in Nat
      BY DEF BufferInv, BufferSet
    <3> QED BY <3>1, <1>2 DEF NamesInv
  <2>4. /\ DOMAIN buf'.byQN = DOMAIN buf.byQN \union {q} /\ buf'.byQN[q] = id
        /\ \A p \in DOMAIN buf.byQN : buf'.byQN[p] = buf.byQN[p]
    BY <1>5, <2>2 DEF With
  <2>5. /\ buf'.node[id] = [qn |-> q, label |-> l]
        /\ \A z \in DOMAIN buf.node : buf'.node[z] = buf.node[z]
    BY <2>2, <2>3 DEF With
  <2>6. g = With(f, q, l)
    <3>1. DOMAIN f \union {q} = DOMAIN buf.byQN \union {q} /\ DOMAIN g = DOMAIN buf.byQN \union {q}
      BY <1>2, <2>4
    <3>2. \A p \in DOMAIN buf.byQN : g[p] = f[p] /\ p # q
      BY <1>2, <1>5, <2>4, <2>5 DEF NamesInv
    <3>3. g[q] = l
      BY <2>4, <2>5
    <3>4. g = [p \in DOMAIN buf.byQN \union {q} |-> g[p]]
      BY <2>4
    <3> HIDE DEF f, g
    <3> QED BY <3>1, <3>2, <3>3, <3>4 DEF With
  <2>7. BufferLinks(buf') = BufferLinks(buf)
    BY <1>3, <2>2, <2>5 DEF BufferLinks
  <2> QED BY <1>1, <1>2, <2>6, <2>7
<1> QED BY <1>4, <1>5

LEMMA PutEdgeGraph ==
  ASSUME BufferInv(buf), NEW q \in Names, NEW r \in Names, PassEdge(q, r)
  PROVE  /\ {q, r} \subseteq DOMAIN BufferGraph.nodes
         /\ BufferGraph' = [nodes |-> BufferGraph.nodes,
                            edges |-> BufferGraph.edges \union {<<q, r, Calls>>}]
<1> DEFINE s    == buf.byQN[q]
           t    == buf.byQN[r]
           n    == Len(buf.edges)
           name(e) == <<buf.node[e.src].qn, buf.node[e.tgt].qn, Calls>>
<1>1. /\ buf.edges \in Seq(EdgeSet) /\ n \in Nat /\ DOMAIN buf.edges = 1 .. n
      /\ NamesInv(buf) /\ EdgesInv(buf)
  BY DEF BufferInv, BufferSet
<1>2. {q, r} \subseteq DOMAIN buf.byQN /\ buf' = InsertEdge(buf, s, t)
  BY DEF PassEdge
<1>3. s \in DOMAIN buf.node /\ t \in DOMAIN buf.node /\ buf.node[s].qn = q /\ buf.node[t].qn = r
  BY <1>1, <1>2 DEF NamesInv
<1>4. /\ buf'.byQN = buf.byQN /\ buf'.node = buf.node
      /\ buf'.edges = IF <<s, t>> \in DOMAIN buf.byKey THEN buf.edges
                      ELSE Append(buf.edges, [id |-> buf.next, src |-> s, tgt |-> t])
  BY <1>2, <1>3, InsertEdgeInv
<1>5. BufferLinks(buf) = {name(buf.edges[i]) : i \in 1 .. n}
  BY <1>1 DEF BufferLinks
<1>6. BufferLinks(buf') = {name(buf'.edges[i]) : i \in DOMAIN buf'.edges}
  BY <1>4 DEF BufferLinks
<1>7. BufferLinks(buf') = BufferLinks(buf) \union {<<q, r, Calls>>}
  <2>1. CASE <<s, t>> \in DOMAIN buf.byKey
    <3>1. PICK i \in DOMAIN buf.edges : <<s, t>> = <<buf.edges[i].src, buf.edges[i].tgt>>
      BY <1>1, <2>1 DEF EdgesInv
    <3>2. name(buf.edges[i]) = <<q, r, Calls>>
      BY <3>1, <1>3
    <3>3. <<q, r, Calls>> \in BufferLinks(buf)
      BY <3>1, <3>2, <1>1, <1>5
    <3>4. BufferLinks(buf') = BufferLinks(buf)
      BY <1>1, <1>4, <1>5, <1>6, <2>1
    <3> QED BY <3>3, <3>4
  <2>2. CASE <<s, t>> \notin DOMAIN buf.byKey
    <3> DEFINE e == [id |-> buf.next, src |-> s, tgt |-> t]
    <3>1. name(e) = <<q, r, Calls>>
      BY <1>3
    <3>2. /\ DOMAIN buf'.edges = 1 .. n + 1 /\ buf'.edges[n + 1] = e
          /\ \A i \in 1 .. n : buf'.edges[i] = buf.edges[i]
      BY <1>1, <1>4, <2>2
    <3> HIDE DEF e, name
    <3>3. \A i \in 1 .. n + 1 : i = n + 1 \/ i \in 1 .. n
      BY <1>1
    <3>4. BufferLinks(buf') \subseteq BufferLinks(buf) \union {name(e)}
      BY <1>5, <1>6, <3>2, <3>3
    <3>5. BufferLinks(buf) \union {name(e)} \subseteq BufferLinks(buf')
      BY <1>1, <1>5, <1>6, <3>2
    <3> QED BY <3>1, <3>4, <3>5
  <2> QED BY <2>1, <2>2
<1>8. BufferGraph' = [nodes |-> [p \in DOMAIN buf'.byQN |-> buf'.node[buf'.byQN[p]].label],
                      edges |-> BufferLinks(buf')]
  BY DEF BufferGraph, BufferLinks
<1>9. /\ BufferGraph.nodes = [p \in DOMAIN buf.byQN |-> buf.node[buf.byQN[p]].label]
      /\ BufferGraph.edges = BufferLinks(buf)
  BY BufferGraphIs
<1> QED BY <1>2, <1>4, <1>7, <1>8, <1>9

\* After the flush, the rows are the graph that the buffer was.
LEMMA FlushEdgesRows ==
  ASSUME BufferInv(buf), RowsInv(work), Flushed(work, buf), lastRow \in Nat, FlushEdges
  PROVE  RowsInv(work') /\ lastRow' \in Nat /\ GraphOf(work') = BufferGraph
<1> DEFINE new == Remapped(work, buf)
           put == {Named(work, new[i]) : i \in DOMAIN new}
           f   == BufferGraph.nodes
<1>1. /\ new \in Seq(LinkSet)
      /\ \A i \in DOMAIN new : new[i].src \in DOMAIN work.nodes /\ new[i].tgt \in DOMAIN work.nodes
      /\ put = BufferLinks(buf)
  BY RemappedEdges
<1>2. work' = WithEdges(work, new) /\ lastRow' \in {lastRow, work'.edgeSeq}
  BY DEF FlushEdges
<1> HIDE DEF new
<1>3. /\ RowsInv(work') /\ work'.edgeSeq \in Nat
      /\ GraphOf(work') = [nodes |-> GraphOf(work).nodes, edges |-> GraphOf(work).edges \union put]
  BY <1>1, <1>2, WithEdgesRows
<1>4. BufferGraph = [nodes |-> f, edges |-> BufferLinks(buf)]
      /\ f = [q \in DOMAIN buf.byQN |-> buf.node[buf.byQN[q]].label]
  BY BufferGraphIs
<1>5. GraphOf(work) = [nodes |-> f, edges |-> {}]
  <2>1. f = [q \in DOMAIN f |-> f[q]] /\ DOMAIN f = DOMAIN buf.byQN
    BY <1>4
  <2>2. NamesInv(buf)
    BY DEF BufferInv
  <2>3. DOMAIN f = NamesOf(work)
    <3>1. ASSUME NEW q \in DOMAIN f PROVE \E i \in DOMAIN work.nodes : q = work.nodes[i].qn
      <4>1. buf.byQN[q] \in DOMAIN buf.node /\ buf.node[buf.byQN[q]].qn = q
        BY <2>1, <2>2 DEF NamesInv
      <4> QED BY <4>1 DEF Flushed
    <3>2. ASSUME NEW i \in DOMAIN work.nodes PROVE work.nodes[i].qn \in DOMAIN f
      <4>1. PICK id \in DOMAIN buf.node : work.nodes[i] = buf.node[id]
        BY DEF Flushed
      <4> QED BY <4>1, <2>1, <2>2 DEF NamesInv
    <3> HIDE DEF f
    <3> QED BY <3>1, <3>2 DEF NamesOf
  <2>4. ASSUME NEW i \in DOMAIN work.nodes PROVE f[work.nodes[i].qn] = work.nodes[i].label
    <3>1. PICK id \in DOMAIN buf.node : work.nodes[i] = buf.node[id]
      BY DEF Flushed
    <3> QED BY <3>1, <1>4, <2>2 DEF NamesInv
  <2>5. Links(work) = {}
    BY DEF Links, Flushed
  <2> HIDE DEF f
  <2> QED BY <2>1, <2>3, <2>4, <2>5, GraphOfIs
<1>6. GraphOf(work') = [nodes |-> f, edges |-> put]
  <2> HIDE DEF f, put
  <2> QED BY <1>3, <1>5
<1> QED BY <1>1, <1>2, <1>3, <1>4, <1>6

-----------------------------------------------------------------------------
(* A run is an upsert of names and edges, published whole or not at all.   *)

LEMMA GraphInvInit == Init => GraphInv
BY EmptyBufferInv, NoRowsInv DEF Init, GraphInv

LEMMA GraphInvStep == GraphInv /\ [Next]_vars => GraphInv'
<1> SUFFICES ASSUME GraphInv, [Next]_vars PROVE GraphInv'
  OBVIOUS
<1>1. /\ BufferInv(buf) /\ RowsInv(disk) /\ RowsInv(work) /\ lastRow \in Nat
      /\ (phase = "edges" => Flushed(work, buf)) /\ (torn => phase = "none")
  BY DEF GraphInv
<1>2. BufferInv(buf')
  BY <1>1, BufferStep
<1> SUFFICES /\ RowsInv(disk') /\ RowsInv(work') /\ lastRow' \in Nat
             /\ (phase' = "edges" => Flushed(work', buf')) /\ (torn' => phase' = "none")
  BY <1>2 DEF GraphInv
<1>3. CASE BeginBulkWrite
  BY <1>1, <1>3 DEF BeginBulkWrite
<1>4. CASE BeginTx
  BY <1>1, <1>4 DEF BeginTx
<1>5. CASE NoTx
  BY <1>1, <1>5 DEF NoTx, dbVars
<1>6. ASSUME NEW q \in Names, NEW l \in Labels, PassNode(q, l) PROVE /\ disk' = disk /\ work' = work
        /\ lastRow' = lastRow /\ phase' = "passes" /\ torn' = torn /\ phase = "passes"
  BY <1>6 DEF PassNode, dbVars
<1>7. ASSUME NEW q \in Names, NEW r \in Names, PassEdge(q, r) PROVE /\ disk' = disk /\ work' = work
        /\ lastRow' = lastRow /\ phase' = "passes" /\ torn' = torn /\ phase = "passes"
  BY <1>7 DEF PassEdge, dbVars
<1>8. CASE FlushNodes
  <2>1. PICK order \in Orders(DOMAIN buf.node) :
          work' = WithNodes([work EXCEPT !.nodes = Nothing, !.edges = Nothing], buf, order)
    BY <1>8 DEF FlushNodes
  <2>2. RowsInv(work') /\ Flushed(work', buf) /\ work'.nodeSeq \in Nat
    BY <1>1, <2>1, FlushedRows
  <2>3. /\ disk' = disk /\ torn' = torn /\ buf' = buf /\ phase = "passes"
        /\ lastRow' \in {lastRow, work'.nodeSeq}
    BY <1>8 DEF FlushNodes
  <2> QED BY <1>1, <2>2, <2>3
<1>9. CASE FlushEdges
  <2>1. phase = "edges" /\ phase' = "routes" /\ disk' = disk /\ torn' = torn
    BY <1>9 DEF FlushEdges
  <2>2. RowsInv(work') /\ lastRow' \in Nat
    BY <1>1, <1>9, <2>1, FlushEdgesRows
  <2> QED BY <1>1, <2>1, <2>2
<1>10. ASSUME NEW h \in Names, NEW r \in Routes, RegisterRoute(h, r)
       PROVE  /\ RowsInv(work') /\ lastRow' \in Nat
              /\ disk' = disk /\ torn' = torn /\ phase' = phase /\ phase = "routes"
  <2>1. RowsInv(work') /\ lastRow' \in Nat
    BY <1>1, <1>10, RegisterRows
  <2> QED BY <1>10, <2>1 DEF RegisterRoute
<1>11. CASE Spill \/ Cancel \/ StoreADR
  BY <1>1, <1>11 DEF Spill, Cancel, StoreADR, runVars, dbVars
<1>12. CASE StartCommit
  BY <1>1, <1>12 DEF StartCommit
<1>13. CASE Commit
  BY <1>1, <1>13, NoRowsInv DEF Commit
<1>14. CASE RollBack
  BY <1>1, <1>14, NoRowsInv DEF RollBack
<1>15. CASE EndBulkWrite
  BY <1>1, <1>15 DEF EndBulkWrite
<1>16. CASE Die
  BY <1>1, <1>16, NoRowsInv DEF Die
<1>17. CASE Recreate
  BY <1>1, <1>17, NoRowsInv DEF Recreate, runVars
<1>18. CASE UNCHANGED vars
  BY <1>1, <1>18 DEF vars, runVars, dbVars
<1> QED BY <1>1, <1>3, <1>4, <1>5, <1>6, <1>7, <1>8, <1>9, <1>10, <1>11, <1>12, <1>13,
           <1>14, <1>15, <1>16, <1>17, <1>18 DEF Next

\* The refinement mapping, phase by phase.
LEMMA DraftIs ==
  /\ phase \in {"passes", "edges"} => Draft = BufferGraph
  /\ phase \in {"routes", "commit"} => Draft = GraphOf(work)
  /\ phase \notin {"passes", "edges", "routes", "commit"} => Draft = Graph!EmptyGraph
BY NoRowsInv DEF Draft

LEMMA DraftNext ==
  /\ phase' \in {"passes", "edges"} => Draft' = BufferGraph'
  /\ phase' \in {"routes", "commit"} => Draft' = GraphOf(work')
  /\ phase' \notin {"passes", "edges", "routes", "commit"} => Draft' = Graph!EmptyGraph
BY NoRowsInv DEF Draft

LEMMA EmptyBufferGraph == buf' = EmptyBuffer => BufferGraph' = Graph!EmptyGraph
<1> SUFFICES ASSUME buf' = EmptyBuffer PROVE BufferGraph' = Graph!EmptyGraph
  OBVIOUS
<1>1. buf'.byQN = Nothing /\ buf'.edges = <<>>
  BY DEF EmptyBuffer
<1>2. [q \in DOMAIN buf'.byQN |-> buf'.node[buf'.byQN[q]].label] = [q \in {} |-> Graph!Route]
  BY <1>1, NothingMaps
<1>3. {<<buf'.node[buf'.edges[i].src].qn, buf'.node[buf'.edges[i].tgt].qn, Calls>> :
         i \in DOMAIN buf'.edges} = {}
  BY <1>1
<1> QED BY <1>2, <1>3 DEF BufferGraph, Graph!EmptyGraph

LEMMA RefinementInit == Init => Graph!GraphInit
<1> SUFFICES ASSUME Init PROVE Graph!GraphInit
  OBVIOUS
<1>1. phase = "none" /\ disk = NoRows /\ torn = FALSE
  BY DEF Init
<1> QED BY <1>1, DraftIs, NoRowsInv DEF Graph!GraphInit, Drafting

\* A step that leaves the rows, and what the draft stands for, is a stutter.
LEMMA Stutter ==
  ASSUME disk' = disk, torn' = torn, Drafting' = Drafting, Draft' = Draft
  PROVE  UNCHANGED Graph!graphVars
BY DEF Graph!graphVars

LEMMA RefinementStep ==
  GraphInv /\ GraphInv' /\ [Next]_vars => [Graph!GraphNext]_(Graph!graphVars)
<1> SUFFICES ASSUME GraphInv, GraphInv', [Next]_vars
             PROVE  Graph!GraphNext \/ UNCHANGED Graph!graphVars
  OBVIOUS
<1>1. /\ BufferInv(buf) /\ RowsInv(disk) /\ RowsInv(work) /\ lastRow \in Nat
      /\ (phase = "edges" => Flushed(work, buf)) /\ (torn => phase = "none")
  BY DEF GraphInv
<1>3. CASE BeginBulkWrite
  <2>1. phase = "none" /\ phase' = "begun" /\ disk' = disk /\ torn' = torn
    BY <1>3 DEF BeginBulkWrite
  <2> QED BY <2>1, DraftIs, DraftNext, Stutter DEF Drafting
<1>4. CASE BeginTx
  <2>1. phase = "begun" /\ phase' = "passes" /\ disk' = disk /\ torn' = torn /\ buf' = EmptyBuffer
    BY <1>4 DEF BeginTx
  <2>2. Draft' = Graph!EmptyGraph
    BY <2>1, DraftNext, EmptyBufferGraph
  <2>3. Graph!Open
    BY <1>1, <2>1, <2>2 DEF Graph!Open, Drafting
  <2> QED BY <2>3 DEF Graph!GraphNext
<1>5. CASE NoTx
  <2>1. phase = "begun" /\ phase' = "ended" /\ disk' = disk /\ torn' = torn
    BY <1>5 DEF NoTx, dbVars
  <2> QED BY <2>1, DraftIs, DraftNext, Stutter DEF Drafting
<1>6. ASSUME NEW q \in Names, NEW l \in Labels, PassNode(q, l) PROVE Graph!GraphNext
  <2>1. phase = "passes" /\ phase' = "passes" /\ disk' = disk /\ torn' = torn
    BY <1>6 DEF PassNode, dbVars
  <2>2. Draft = BufferGraph /\ Draft' = BufferGraph'
    BY <2>1, DraftIs, DraftNext
  <2>3. BufferGraph' = [nodes |-> With(BufferGraph.nodes, q, l), edges |-> BufferGraph.edges]
    BY <1>1, <1>6, PutNodeGraph
  <2>4. BufferGraph = [nodes |-> BufferGraph.nodes, edges |-> BufferGraph.edges]
    BY BufferGraphIs
  <2>5. Draft' = [Draft EXCEPT !.nodes = With(@, q, l)]
    BY <2>2, <2>3, <2>4
  <2>6. Graph!PutNode(q, l)
    BY <2>1, <2>5 DEF Graph!PutNode, Graph!Put, Graph!With, With, Drafting
  <2> QED BY <2>6 DEF Graph!GraphNext
<1>7. ASSUME NEW q \in Names, NEW r \in Names, PassEdge(q, r) PROVE Graph!GraphNext
  <2>1. phase = "passes" /\ phase' = "passes" /\ disk' = disk /\ torn' = torn
    BY <1>7 DEF PassEdge, dbVars
  <2>2. Draft = BufferGraph /\ Draft' = BufferGraph'
    BY <2>1, DraftIs, DraftNext
  <2>3. /\ {q, r} \subseteq DOMAIN BufferGraph.nodes
        /\ BufferGraph' = [nodes |-> BufferGraph.nodes,
                           edges |-> BufferGraph.edges \union {<<q, r, Calls>>}]
    BY <1>1, <1>7, PutEdgeGraph
  <2>4. BufferGraph = [nodes |-> BufferGraph.nodes, edges |-> BufferGraph.edges]
    BY BufferGraphIs
  <2>5. Draft' = [Draft EXCEPT !.edges = @ \union {<<q, r, Calls>>}]
    BY <2>2, <2>3, <2>4
  <2>6. Graph!PutEdge(q, r)
    BY <2>1, <2>2, <2>3, <2>5 DEF Graph!PutEdge, Graph!Put, Graph!Calls, Calls, Drafting
  <2> QED BY <2>6 DEF Graph!GraphNext
<1>8. CASE FlushNodes
  <2>1. phase = "passes" /\ phase' = "edges" /\ disk' = disk /\ torn' = torn /\ buf' = buf
    BY <1>8 DEF FlushNodes
  <2>2. BufferGraph' = BufferGraph
    BY <2>1 DEF BufferGraph
  <2> QED BY <2>1, <2>2, DraftIs, DraftNext, Stutter DEF Drafting
<1>9. CASE FlushEdges
  <2>1. phase = "edges" /\ phase' = "routes" /\ disk' = disk /\ torn' = torn
    BY <1>9 DEF FlushEdges
  <2>2. GraphOf(work') = BufferGraph
    BY <1>1, <1>9, <2>1, FlushEdgesRows
  <2> QED BY <2>1, <2>2, DraftIs, DraftNext, Stutter DEF Drafting
<1>10. ASSUME NEW h \in Names, NEW r \in Routes, RegisterRoute(h, r) PROVE Graph!GraphNext
  <2>1. phase = "routes" /\ phase' = "routes" /\ disk' = disk /\ torn' = torn
    BY <1>10 DEF RegisterRoute
  <2>2. Draft = GraphOf(work) /\ Draft' = GraphOf(work')
    BY <2>1, DraftIs, DraftNext
  <2>3. PICK e : RoutePut(h, r, e)
    BY <1>1, <1>10, RegisterRows
  <2>4. Graph!PutRoute(h, r)
    BY <2>1, <2>2, <2>3 DEF RoutePut, Graph!PutRoute, Graph!Put, Graph!With, With,
       Graph!Route, Route, Graph!Handles, Handles, Drafting
  <2> QED BY <2>4 DEF Graph!GraphNext
<1>11. CASE Spill \/ Cancel \/ StoreADR
  <2>1. phase' = phase /\ disk' = disk /\ torn' = torn /\ buf' = buf /\ work' = work
    BY <1>11 DEF Spill, Cancel, StoreADR, runVars, dbVars
  <2>2. Draft' = Draft /\ Drafting' = Drafting
    BY <2>1 DEF Draft, Drafting, BufferGraph
  <2> QED BY <2>1, <2>2, Stutter
<1>12. CASE StartCommit
  <2>1. phase = "routes" /\ phase' = "commit" /\ disk' = disk /\ torn' = torn /\ work' = work
    BY <1>12 DEF StartCommit
  <2> QED BY <2>1, DraftIs, DraftNext, Stutter DEF Drafting
<1>13. CASE Commit
  <2>1. phase = "commit" /\ phase' = "ended" /\ disk' = work /\ torn' = torn
    BY <1>13 DEF Commit
  <2>2. Draft = GraphOf(work) /\ Draft' = Graph!EmptyGraph
    BY <2>1, DraftIs, DraftNext
  <2>3. Graph!Publish
    BY <2>1, <2>2 DEF Graph!Publish, Drafting
  <2> QED BY <2>3 DEF Graph!GraphNext
<1>14. CASE RollBack
  <2>1. /\ phase \in {"passes", "edges", "routes", "commit"} /\ phase' = "ended"
        /\ disk' = disk /\ torn' = torn
    BY <1>14 DEF RollBack
  <2>2. Draft' = Graph!EmptyGraph
    BY <2>1, DraftNext
  <2>3. Graph!Abandon
    BY <2>1, <2>2 DEF Graph!Abandon, Drafting
  <2> QED BY <2>3 DEF Graph!GraphNext
<1>15. CASE EndBulkWrite
  <2>1. phase = "ended" /\ phase' = "none" /\ disk' = disk /\ torn' = torn
    BY <1>15 DEF EndBulkWrite
  <2> QED BY <2>1, DraftIs, DraftNext, Stutter DEF Drafting
<1>16. CASE Die
  <2>1. phase' = "none" /\ (UNCHANGED <<disk, torn>> \/ (disk' = NoRows /\ torn' = TRUE))
    BY <1>16 DEF Die
  <2>2. Draft' = Graph!EmptyGraph /\ Drafting' = FALSE
    BY <2>1, DraftNext DEF Drafting
  <2>3. Graph!Crash
    BY <2>1, <2>2, NoRowsInv DEF Graph!Crash
  <2> QED BY <2>3 DEF Graph!GraphNext
<1>17. CASE Recreate
  <2>1. phase' = phase /\ phase = "none" /\ torn /\ torn' = FALSE /\ disk' = NoRows
    BY <1>1, <1>17 DEF Recreate, runVars
  <2>2. Draft' = Draft /\ Drafting' = Drafting
    BY <2>1, DraftIs, DraftNext DEF Drafting
  <2>3. Graph!Recreate
    BY <2>1, <2>2, NoRowsInv DEF Graph!Recreate
  <2> QED BY <2>3 DEF Graph!GraphNext
<1>18. CASE UNCHANGED vars
  <2>1. phase' = phase /\ disk' = disk /\ torn' = torn /\ buf' = buf /\ work' = work
    BY <1>18 DEF vars, runVars, dbVars
  <2>2. Draft' = Draft /\ Drafting' = Drafting
    BY <2>1 DEF Draft, Drafting, BufferGraph
  <2> QED BY <2>1, <2>2, Stutter
<1> QED BY <1>3, <1>4, <1>5, <1>6, <1>7, <1>8, <1>9, <1>10, <1>11, <1>12, <1>13,
           <1>14, <1>15, <1>16, <1>17, <1>18 DEF Next

\* GraphStoreSpec: whatever ids a run uses and in whatever order rows come,
\* readers find the graph that a run drafted, whole, or the one before; but for
\* a torn file, and for the edge of a route that is registered again.
THEOREM RunsImplementGraphStore == Spec => GraphStoreSpec
<1>1. Spec => []GraphInv
  BY GraphInvInit, GraphInvStep, PTL DEF Spec
<1>2. Spec => Graph!GraphInit
  BY RefinementInit DEF Spec
<1> QED BY <1>1, <1>2, RefinementStep, PTL DEF Spec, GraphStoreSpec, Graph!GraphSpec

=============================================================================
