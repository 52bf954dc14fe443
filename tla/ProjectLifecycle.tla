-------------------------- MODULE ProjectLifecycle --------------------------
(***************************************************************************)
(* The databases of the cache directory, one file per project, and the     *)
(* threads that open, list, index, query and delete them through the       *)
(* StoreRouter of their process (internal/store/router.go, internal/tools, *)
(* internal/watcher).  A process is the MCP server or one `codebook cli`   *)
(* call; all of them share the directory, but neither the router's map of  *)
(* open stores nor indexMu.                                                *)
(*                                                                         *)
(* A database is a number, its inode: None if there is none.  One that is  *)
(* removed lives on for those who have it open.                            *)
(***************************************************************************)
EXTENDS Naturals, FiniteSets

CONSTANTS
    Projects,
    Servers,      \* the processes
    Threads,      \* their request handlers and watcher goroutines
    Watchers,     \* the latter
    Of,           \* the process of each thread
    NoProject,
    MaxDeletes    \* bounds the requests to delete

ASSUME LifecycleAssumption ==
    /\ Watchers \subseteq Threads
    /\ Of \in [Threads -> Servers]
    /\ NoProject \notin Projects
    /\ MaxDeletes \in Nat

None == 0
Database == Nat

VARIABLES
    file,       \* the database the project's path names
    made,       \* the databases created so far are 1..made
    graphs,     \* those with a committed project row and graph
    store,      \* StoreRouter.stores of each process
    thread,     \* what each thread is doing
    deletes,
    removed,    \* auxiliary: who removed which database
    gone,       \* auxiliary: projects deleted, and not asked for since
    known,      \* auxiliary: of these, the ones some thread was about to use
    reported    \* auxiliary: where the last successful run has put the graph

fileVars == <<file, made, store>>
auxVars == <<removed, gone, known, reported>>
vars == <<file, made, graphs, store, thread, deletes, removed, gone, known, reported>>

\* proj and db are what a thread works on, names what ReadDir has returned
\* and todo the part of it the current loop has still to do.
Idle == [pc |-> "idle", proj |-> NoProject, db |-> None, names |-> {}, todo |-> {}]

Stages == {"open", "run", "tx"}

Thread == [pc : {"idle", "list", "visit", "poll", "found", "drop", "lock"} \cup Stages,
           proj : Projects \cup {NoProject}, db : Database,
           names : SUBSET Projects, todo : SUBSET Projects]

Init ==
    /\ file = [p \in Projects |-> None]
    /\ made = 0 /\ graphs = {}
    /\ store = [s \in Servers |-> [p \in Projects |-> None]]
    /\ thread = [t \in Threads |-> Idle]
    /\ deletes = 0
    /\ removed = {} /\ gone = {} /\ known = {}
    /\ reported = [p \in Projects |-> None]

-----------------------------------------------------------------------------
(* The router.                                                             *)

Exists(p) == file[p] # None

\* The store is in the map, or its file is opened, or created.
Cached(s, p, db) ==
    /\ store[s][p] # None /\ db = store[s][p]
    /\ UNCHANGED fileVars

Open(s, p, db) ==
    /\ store[s][p] = None /\ Exists(p) /\ db = file[p]
    /\ store' = [store EXCEPT ![s][p] = db]
    /\ UNCHANGED <<file, made>>

\* Mutant: a database that is not in the map is always made anew.
CreateAnyway(s, p, db) ==
    /\ store[s][p] = None /\ db = made + 1
    /\ made' = db
    /\ file' = [file EXCEPT ![p] = db]
    /\ store' = [store EXCEPT ![s][p] = db]

Create(s, p, db) ==
    /\ store[s][p] = None /\ ~Exists(p) /\ db = made + 1
    /\ made' = db
    /\ file' = [file EXCEPT ![p] = db]
    /\ store' = [store EXCEPT ![s][p] = db]

ForProject(s, p, db) == Cached(s, p, db) \/ Open(s, p, db) \/ Create(s, p, db)

Indexing(s) == {t \in Threads : Of[t] = s /\ thread[t].pc \in Stages}

-----------------------------------------------------------------------------
(* ListProjects, by the watcher's pollAll and by list_projects: the        *)
(* directory is read, each name opened, and then each opened once more.    *)
(* The queries that follow may wait for the store's one connection; they   *)
(* change nothing, and the thread's next step may come as late.            *)

Returns(t) == thread' = [thread EXCEPT ![t] = Idle]

\* The next name of the loop, or the end.
NextName(t, rest) ==
    IF rest = {} THEN Returns(t)
    ELSE thread' = [thread EXCEPT ![t] = [Idle EXCEPT
                      !.pc = "visit", !.names = thread[t].names, !.todo = rest]]

\* An empty directory ends the loops at once.
ReadDir(t) ==
    /\ thread[t].pc = "idle"
    /\ LET names == {p \in Projects : Exists(p)} IN
       /\ names # {}
       /\ thread' = [thread EXCEPT ![t] = [Idle EXCEPT
                       !.pc = "list", !.names = names, !.todo = names]]
    /\ UNCHANGED <<fileVars, graphs, deletes, auxVars>>

OpenListed(t, p) ==
    /\ thread[t].pc = "list" /\ p \in thread[t].todo
    /\ \E db \in 1..(made + 1) : ForProject(Of[t], p, db)
    /\ LET rest == thread[t].todo \ {p} IN
       thread' = IF rest = {}
                 THEN [thread EXCEPT ![t].pc = "visit", ![t].todo = thread[t].names]
                 ELSE [thread EXCEPT ![t].todo = rest]
    /\ UNCHANGED <<graphs, deletes, auxVars>>

\* The watcher goes on to poll a project that has its row.
Visit(t, p) ==
    /\ thread[t].pc = "visit" /\ p \in thread[t].todo
    /\ \E db \in 1..(made + 1) :
          /\ ForProject(Of[t], p, db)
          /\ IF t \in Watchers /\ db \in graphs
             THEN thread' = [thread EXCEPT ![t].pc = "poll", ![t].proj = p,
                                           ![t].todo = @ \ {p}]
             ELSE NextName(t, thread[t].todo \ {p})
    /\ UNCHANGED <<graphs, deletes, auxVars>>

\* Nothing has changed, or the tree cannot be read, or indexMu is taken.
PollPasses(t) ==
    /\ thread[t].pc = "poll"
    /\ NextName(t, thread[t].todo)
    /\ UNCHANGED <<fileVars, graphs, deletes, auxVars>>

\* The tree differs from the snapshot: syncProject.
PollSyncs(t) ==
    /\ thread[t].pc = "poll" /\ Indexing(Of[t]) = {}
    /\ thread' = [thread EXCEPT ![t].pc = "open"]
    /\ UNCHANGED <<fileVars, graphs, deletes, auxVars>>

-----------------------------------------------------------------------------
(* Requests for one project.                                               *)

Asks(t, p, pc) ==
    /\ t \notin Watchers /\ thread[t].pc = "idle"
    /\ thread' = [thread EXCEPT ![t] = [Idle EXCEPT !.pc = pc, !.proj = p]]

\* Mutant: resolveStore does not ask whether the project exists.
QueryAny(t, p) ==
    /\ Asks(t, p, "found")
    /\ UNCHANGED <<fileVars, graphs, deletes, auxVars>>

\* resolveStore first asks whether the file exists.
Query(t, p) ==
    /\ Exists(p) /\ Asks(t, p, "found")
    /\ UNCHANGED <<fileVars, graphs, deletes, auxVars>>

Resolve(t) ==
    /\ thread[t].pc = "found"
    /\ \E db \in 1..(made + 1) : ForProject(Of[t], thread[t].proj, db)
    /\ Returns(t)
    /\ UNCHANGED <<graphs, deletes, auxVars>>

\* So does handleDeleteProject.
AskDelete(t, p) ==
    /\ deletes < MaxDeletes
    /\ deletes' = deletes + 1
    /\ Exists(p) /\ Asks(t, p, "drop")
    /\ UNCHANGED <<fileVars, graphs, auxVars>>

\* The threads, of any process, that are about to use the project.
Users(p) == {t \in Threads : p \in thread[t].names \/ thread[t].proj = p}

\* Mutant: the store stays in the map.
DeleteKeepsStore(t) ==
    LET s == Of[t]
        p == thread[t].proj IN
    /\ thread[t].pc = "drop"
    /\ file' = [file EXCEPT ![p] = None]
    /\ removed' = IF Exists(p) THEN removed \cup {<<file[p], s>>} ELSE removed
    /\ gone' = gone \cup {p}
    /\ known' = IF Users(p) = {t} THEN known \ {p} ELSE known \cup {p}
    /\ Returns(t)
    /\ UNCHANGED <<made, graphs, store, deletes, reported>>

\* DeleteProject: the store of this process is closed, the file removed.  A
\* transaction that is open on it goes on, on a file without a name.
DeleteProject(t) ==
    LET s == Of[t]
        p == thread[t].proj IN
    /\ thread[t].pc = "drop"
    /\ store' = [store EXCEPT ![s][p] = None]
    /\ file' = [file EXCEPT ![p] = None]
    /\ removed' = IF Exists(p) THEN removed \cup {<<file[p], s>>} ELSE removed
    /\ gone' = gone \cup {p}
    /\ known' = IF Users(p) = {t} THEN known \ {p} ELSE known \cup {p}
    /\ Returns(t)
    /\ UNCHANGED <<made, graphs, deletes, reported>>

\* index_repository, or the auto-index of a session.
AskIndex(t, p) ==
    /\ Asks(t, p, "lock")
    /\ gone' = gone \ {p}
    /\ UNCHANGED <<fileVars, graphs, deletes, removed, known, reported>>

Lock(t) ==
    /\ thread[t].pc = "lock" /\ Indexing(Of[t]) = {}
    /\ thread' = [thread EXCEPT ![t].pc = "open"]
    /\ UNCHANGED <<fileVars, graphs, deletes, auxVars>>

-----------------------------------------------------------------------------
(* One run of the pipeline.                                                *)

\* The watcher goes on with its round.
RunEnds(t) == NextName(t, thread[t].todo)

OpenToIndex(t) ==
    /\ thread[t].pc = "open"
    /\ \E db \in 1..(made + 1) :
          /\ ForProject(Of[t], thread[t].proj, db)
          /\ thread' = [thread EXCEPT ![t].pc = "run", ![t].db = db]
    /\ UNCHANGED <<graphs, deletes, auxVars>>

\* The store is still open: DeleteProject closes it when it leaves the map.
IsOpen(t) == store[Of[t]][thread[t].proj] = thread[t].db

\* Another process has the database's write lock.
Locked(t) == \E u \in Threads \ {t} : thread[u].pc = "tx" /\ thread[u].db = thread[t].db

Begin(t) ==
    /\ thread[t].pc = "run" /\ IsOpen(t) /\ ~Locked(t)
    /\ thread' = [thread EXCEPT ![t].pc = "tx"]
    /\ UNCHANGED <<fileVars, graphs, deletes, auxVars>>

\* Mutant: the error of a commit is ignored.
CommitIgnored(t) ==
    /\ thread[t].pc = "tx"
    /\ reported' = [reported EXCEPT ![thread[t].proj] = thread[t].db]
    /\ RunEnds(t)
    /\ UNCHANGED <<fileVars, graphs, deletes, removed, gone, known>>

\* A store that is closed meanwhile lets its transaction finish.
Commit(t) ==
    /\ thread[t].pc = "tx"
    /\ graphs' = graphs \cup {thread[t].db}
    /\ reported' = [reported EXCEPT ![thread[t].proj] = thread[t].db]
    /\ RunEnds(t)
    /\ UNCHANGED <<fileVars, deletes, removed, gone, known>>

\* The transaction cannot begin: the store is closed, or the busy timeout
\* has run out.
Refused(t) ==
    /\ thread[t].pc = "run" /\ (~IsOpen(t) \/ Locked(t))
    /\ RunEnds(t)
    /\ UNCHANGED <<fileVars, graphs, deletes, auxVars>>

\* Any other error.
Fail(t) ==
    /\ thread[t].pc \in Stages
    /\ RunEnds(t)
    /\ UNCHANGED <<fileVars, graphs, deletes, auxVars>>

-----------------------------------------------------------------------------
\* The process ends, or dies, and another one takes its place.
Restart(s) ==
    /\ thread' = [t \in Threads |-> IF Of[t] = s THEN Idle ELSE thread[t]]
    /\ store' = [store EXCEPT ![s] = [p \in Projects |-> None]]
    /\ UNCHANGED <<file, made, graphs, deletes, auxVars>>

Next ==
    \/ \E t \in Threads :
          \/ ReadDir(t) \/ PollPasses(t) \/ PollSyncs(t)
          \/ Resolve(t) \/ DeleteProject(t) \/ Lock(t)
          \/ OpenToIndex(t) \/ Begin(t) \/ Commit(t) \/ Refused(t) \/ Fail(t)
          \/ \E p \in Projects :
                \/ OpenListed(t, p) \/ Visit(t, p)
                \/ Query(t, p) \/ AskDelete(t, p) \/ AskIndex(t, p)
    \/ \E s \in Servers : Restart(s)

Spec == Init /\ [][Next]_vars

-----------------------------------------------------------------------------
\* The state has the shape of the variables, and databases are numbered as
\* they are made.
TypeOK ==
    /\ made \in Nat /\ deletes \in 0..MaxDeletes
    /\ file \in [Projects -> 0..made]
    /\ graphs \subseteq 1..made
    /\ store \in [Servers -> [Projects -> 0..made]]
    /\ thread \in [Threads -> Thread]
    /\ removed \subseteq (1..made) \X Servers
    /\ gone \subseteq Projects /\ known \subseteq Projects
    /\ reported \in [Projects -> 0..made]

\* A store in the map of a process is that of the project's file, unless
\* another process has removed that file: within one process nobody gets a
\* store of a deleted database, whatever the order of opening and deleting.
StoresAreCurrent ==
    \A s \in Servers, p \in Projects :
        \/ store[s][p] \in {None, file[p]}
        \/ \E u \in Servers \ {s} : <<store[s][p], u>> \in removed

\* A deleted project that is there again without having been asked for was
\* brought back by a thread that was about to use it when it was deleted.
\* Nothing else that reads, lists or polls creates a database.
RevivedByItsUsers == \A p \in gone : Exists(p) => p \in known

\* What a successful run has reported stays true until the database is
\* deleted: its project's file is the one the run has committed to.
ReportsHold ==
    \A p \in Projects :
        reported[p] # None =>
            /\ reported[p] \in graphs
            /\ file[p] = reported[p] \/ \E s \in Servers : <<reported[p], s>> \in removed

\* The directory is the catalog the clients are promised.
Catalog == INSTANCE ProjectCatalog WITH
    known <- {p \in Projects : Exists(p)},
    indexed <- {p \in Projects : file[p] \in graphs}

CatalogSpec == Catalog!Spec

\* MCP_TOOLS.md:11: delete_project removes a project and all its graph data,
\* irreversibly: the data do not come back until the project is indexed anew.
DeletedStaysDeleted == \A p \in gone : file[p] \notin graphs
=============================================================================
