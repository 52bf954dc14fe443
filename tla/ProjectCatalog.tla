--------------------------- MODULE ProjectCatalog ---------------------------
(***************************************************************************)
(* What the directory of databases (internal/store/router.go) is to its    *)
(* clients, whoever opens, lists, indexes and deletes: a set of projects   *)
(* that are known, some of which are indexed.  A project becomes known     *)
(* without a graph, gets its graph at once, and loses it with itself.      *)
(***************************************************************************)
CONSTANT Projects
VARIABLES known, indexed

vars == <<known, indexed>>

Init == known = {} /\ indexed = {}

\* OpenPath creates the file and its empty tables.
Create(p) ==
    /\ p \notin known
    /\ known' = known \cup {p}
    /\ UNCHANGED indexed

\* The transaction of a run commits.
Index(p) ==
    /\ p \in known
    /\ indexed' = indexed \cup {p}
    /\ UNCHANGED known

\* The file is removed.
Delete(p) ==
    /\ p \in known
    /\ known' = known \ {p}
    /\ indexed' = indexed \ {p}

Next == \E p \in Projects : Create(p) \/ Index(p) \/ Delete(p)

Spec == Init /\ [][Next]_vars
=============================================================================
