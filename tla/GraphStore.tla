----------------------------- MODULE GraphStore -----------------------------
(***************************************************************************)
(* What a run of the pipeline promises of the graph of its project: nodes  *)
(* by qualified name and edges between names, drafted by a run and         *)
(* published whole or not at all. There are no ids in it.                  *)
(***************************************************************************)
EXTENDS Naturals, FiniteSets

CONSTANTS Names, \* qualified names
          Labels \* labels of nodes

Route   == "Route"
Calls   == "CALLS"
Handles == "HANDLES"

VARIABLES stored,   \* the graph that readers find
          torn,     \* they find a file that is no database any more
          drafting, \* is there a draft
          draft     \* the graph that a run has so far

graphVars == <<stored, torn, drafting, draft>>

EmptyGraph == [nodes |-> [q \in {} |-> Route], edges |-> {}]

\* The function f with the value y at x.
With(f, x, y) == [z \in DOMAIN f \union {x} |-> IF z = x THEN y ELSE f[z]]

GraphInit ==
  stored = EmptyGraph /\ torn = FALSE /\ drafting = FALSE /\ draft = EmptyGraph

Open ==
  /\ ~ drafting /\ ~ torn
  /\ drafting' = TRUE /\ draft' = EmptyGraph
  /\ UNCHANGED <<stored, torn>>

Put(g) ==
  /\ drafting
  /\ draft' = g
  /\ UNCHANGED <<stored, torn, drafting>>

PutNode(q, l) == Put([draft EXCEPT !.nodes = With(@, q, l)])

PutEdge(q, r) ==
  /\ {q, r} \subseteq DOMAIN draft.nodes
  /\ Put([draft EXCEPT !.edges = @ \union {<<q, r, Calls>>}])

\* A route and its handler. Of a route that is registered a second time, the
\* edge may go to any node, or be missing: nothing else is promised.
PutRoute(h, r) ==
  LET known == r \in DOMAIN draft.nodes
      ends  == IF known THEN DOMAIN draft.nodes ELSE {r}
  IN  \E e \in {{}} \union {{<<h, t, Handles>>} : t \in ends} :
        /\ (~ known /\ h \in DOMAIN draft.nodes) => e # {}
        /\ h \notin DOMAIN draft.nodes => e = {}
        /\ Put([nodes |-> With(draft.nodes, r, Route), edges |-> draft.edges \union e])

Publish ==
  /\ drafting
  /\ stored' = draft
  /\ drafting' = FALSE /\ draft' = EmptyGraph
  /\ UNCHANGED torn

Abandon ==
  /\ drafting
  /\ drafting' = FALSE /\ draft' = EmptyGraph
  /\ UNCHANGED <<stored, torn>>

\* The process ends: the draft is gone, and the file may be.
Crash ==
  /\ drafting' = FALSE /\ draft' = EmptyGraph
  /\ \/ UNCHANGED <<stored, torn>>
     \/ torn' = TRUE /\ stored' = EmptyGraph

\* The project is deleted, and begun again.
Recreate ==
  /\ torn
  /\ torn' = FALSE /\ stored' = EmptyGraph
  /\ UNCHANGED <<drafting, draft>>

GraphNext ==
  \/ Open \/ Publish \/ Abandon \/ Crash \/ Recreate
  \/ \E q, r \in Names : PutEdge(q, r) \/ PutRoute(q, r)
  \/ \E q \in Names, l \in Labels : PutNode(q, l)

GraphSpec == GraphInit /\ [][GraphNext]_graphVars
=============================================================================
