----------------------- MODULE ProjectLifecycleProofs -----------------------
(***************************************************************************)
(* Safety of ProjectLifecycle for every set of projects, processes and     *)
(* threads and any number of deletions, and that the directory of          *)
(* databases implements ProjectCatalog.                                    *)
(***************************************************************************)
EXTENDS ProjectLifecycle, TLAPS

-----------------------------------------------------------------------------
(* The strengthening that makes the invariants inductive.                  *)

\* Who works on a project has one, and a run has a database.
Working ==
    \A t \in Threads :
        /\ thread[t].pc \notin {"idle", "list", "visit"} => thread[t].proj \in Projects
        /\ thread[t].pc \in {"run", "tx"} => thread[t].db \in 1..made

TypeInv == TypeOK /\ Working

\* The database of a run is that of its project's file, or was removed.
RunsHold ==
    \A t \in Threads :
        thread[t].pc \in {"run", "tx"} =>
            \/ file[thread[t].proj] = thread[t].db
            \/ \E s \in Servers : <<thread[t].db, s>> \in removed

\* No thread is about to use a project that nobody was about to use when it
\* was deleted, and its file is gone.
GoneUnused == \A p \in gone \ known : Users(p) = {} /\ ~Exists(p)

\* What a loop has still to do is on its list.
ListsNamed == \A t \in Threads : thread[t].todo \subseteq thread[t].names

\* A database belongs to one project, for its file, the stores and the runs.
Owned ==
    \A p \in Projects : Exists(p) =>
        /\ \A q \in Projects : file[q] = file[p] => q = p
        /\ \A s \in Servers, q \in Projects : store[s][q] = file[p] => q = p
        /\ \A t \in Threads : thread[t].pc \in {"run", "tx"} /\ thread[t].db = file[p] =>
              thread[t].proj = p

-----------------------------------------------------------------------------
(* The router.                                                             *)

USE DEF None, Database

\* ForProject leaves the map of the process with the database it returns, and
\* makes it when the project has none.
LEMMA ForProjectReturns ==
  ASSUME TypeOK, NEW s \in Servers, NEW p \in Projects, NEW db, ForProject(s, p, db)
  PROVE  /\ made' \in Nat /\ made <= made' /\ db \in 1..made'
         /\ file' \in [Projects -> 0..made']
         /\ store' \in [Servers -> [Projects -> 0..made']]
         /\ store' = [store EXCEPT ![s][p] = db]
         /\ \/ file' = file /\ made' = made
            \/ ~Exists(p) /\ db = made + 1 /\ made' = db /\ file' = [file EXCEPT ![p] = db]
         /\ db = file'[p] \/ db = store[s][p]
<1>0. /\ made \in Nat /\ file \in [Projects -> 0..made]
      /\ store \in [Servers -> [Projects -> 0..made]]
  BY DEF TypeOK
<1>1. CASE Cached(s, p, db)
  BY <1>0, <1>1 DEF Cached, fileVars
<1>2. CASE Open(s, p, db)
  BY <1>0, <1>2 DEF Open, Exists
<1>3. CASE Create(s, p, db)
  <2>1. made' = made + 1 /\ db = made + 1 /\ ~Exists(p)
    BY <1>3 DEF Create
  <2>2. file' \in [Projects -> 0..made'] /\ file'[p] = db
    BY <1>0, <1>3, <2>1 DEF Create
  <2>3. store' \in [Servers -> [Projects -> 0..made']]
    BY <1>0, <1>3, <2>1 DEF Create
  <2> QED
    BY <1>0, <1>3, <2>1, <2>2, <2>3 DEF Create
<1> QED
  BY <1>1, <1>2, <1>3 DEF ForProject

\* The steps by what they do to files and stores.
Opens(s, p, db) ==
    /\ ForProject(s, p, db)
    /\ UNCHANGED <<graphs, removed, reported, gone, known>>
    /\ \E t \in Threads : p \in thread[t].todo \/ p = thread[t].proj

LEMMA StepKinds ==
  ASSUME TypeInv, [Next]_vars
  PROVE  \/ UNCHANGED <<fileVars, removed>>
         \/ \E s \in Servers, p \in Projects, db \in 1..(made + 1) : Opens(s, p, db)
         \/ \E t \in Threads : DeleteProject(t)
         \/ \E s \in Servers : Restart(s)
<1>1. ASSUME NEW t \in Threads, NEW p \in Projects, OpenListed(t, p) \/ Visit(t, p)
      PROVE  \E s \in Servers, q \in Projects, db \in 1..(made + 1) : Opens(s, q, db)
  <2>1. PICK db \in 1..(made + 1) : ForProject(Of[t], p, db)
    BY <1>1 DEF OpenListed, Visit
  <2> QED
    BY <1>1, <2>1, LifecycleAssumption DEF OpenListed, Visit, Opens, auxVars
<1>2. ASSUME NEW t \in Threads, Resolve(t) \/ OpenToIndex(t)
      PROVE  \E s \in Servers, q \in Projects, db \in 1..(made + 1) : Opens(s, q, db)
  <2>1. PICK db \in 1..(made + 1) : ForProject(Of[t], thread[t].proj, db)
    BY <1>2 DEF Resolve, OpenToIndex
  <2>2. thread[t].proj \in Projects
    BY <1>2 DEF Resolve, OpenToIndex, TypeInv, Working
  <2> QED
    BY <1>2, <2>1, <2>2, LifecycleAssumption DEF Resolve, OpenToIndex, Opens, auxVars
<1>3. ASSUME NEW t \in Threads,
             \/ ReadDir(t) \/ PollPasses(t) \/ PollSyncs(t) \/ Lock(t)
             \/ Begin(t) \/ Commit(t) \/ Refused(t) \/ Fail(t)
             \/ \E p \in Projects : Query(t, p) \/ AskDelete(t, p) \/ AskIndex(t, p)
      PROVE  UNCHANGED <<fileVars, removed>>
  BY <1>3 DEF ReadDir, PollPasses, PollSyncs, Lock, Begin, Commit, Refused, Fail, Query,
     AskDelete, AskIndex, fileVars, auxVars
<1>4. CASE UNCHANGED vars
  BY <1>4 DEF vars, fileVars
<1> QED
  BY <1>1, <1>2, <1>3, <1>4 DEF Next

-----------------------------------------------------------------------------
(* Types.                                                                  *)

\* A thread may be idle.
LEMMA IdleIsThread == Idle \in Thread
BY DEF Idle, Thread

\* The next name of a loop, or the end, is one of the things a thread does.
LEMMA NextNameTypes ==
  ASSUME TypeInv, NEW t \in Threads, NEW rest \in SUBSET Projects, NextName(t, rest)
  PROVE  /\ thread' \in [Threads -> Thread]
         /\ \A u \in Threads : thread'[u] = thread[u] \/ thread'[u].pc \in {"idle", "visit"}
<1>0. thread \in [Threads -> Thread] /\ thread[t] \in Thread
  BY DEF TypeInv, TypeOK
<1>1. CASE rest = {}
  <2>1. thread' = [thread EXCEPT ![t] = Idle]
    BY <1>1 DEF NextName, Returns
  <2>2. Idle.pc = "idle"
    BY DEF Idle
  <2> QED
    BY <1>0, <2>1, <2>2, IdleIsThread
<1>2. CASE rest # {}
  <2> DEFINE r == [Idle EXCEPT !.pc = "visit", !.names = thread[t].names, !.todo = rest]
  <2>1. thread' = [thread EXCEPT ![t] = r]
    BY <1>2 DEF NextName
  <2>2. r \in Thread /\ r.pc = "visit"
    BY <1>0 DEF Idle, Thread
  <2> HIDE DEF r
  <2> QED
    BY <1>0, <2>1, <2>2
<1> QED
  BY <1>1, <1>2

\* A request gives its thread a project and no database.
LEMMA AsksTypes ==
  ASSUME TypeInv, NEW t \in Threads, NEW p \in Projects, NEW pc \in {"found", "drop", "lock"},
         Asks(t, p, pc)
  PROVE  /\ thread' \in [Threads -> Thread]
         /\ \A u \in Threads : \/ thread'[u] = thread[u]
                               \/ thread'[u].pc \notin {"run", "tx"} /\ thread'[u].proj \in Projects
<1>0. thread \in [Threads -> Thread]
  BY DEF TypeInv, TypeOK
<1> DEFINE r == [Idle EXCEPT !.pc = pc, !.proj = p]
<1>1. thread' = [thread EXCEPT ![t] = r]
  BY DEF Asks
<1>2. r \in Thread /\ r.pc = pc /\ r.proj = p
  BY DEF Idle, Thread
<1> HIDE DEF r
<1> QED
  BY <1>0, <1>1, <1>2

\* Every step leaves the threads with things they can do.
LEMMA WorkingStep ==
  ASSUME TypeInv, [Next]_vars
  PROVE  thread' \in [Threads -> Thread] /\ Working' /\ made <= made' /\ made' \in Nat
<1>0. /\ thread \in [Threads -> Thread] /\ made \in Nat
      /\ \A t \in Threads : thread[t].proj \in Projects \cup {NoProject} /\ thread[t].db \in Nat
                           /\ thread[t].names \subseteq Projects /\ thread[t].todo \subseteq Projects
  BY DEF TypeInv, TypeOK, Thread
<1> DEFINE Good(t, r) ==
      /\ r \in Thread
      /\ r.pc \notin {"idle", "list", "visit"} => r.proj \in Projects
      /\ r.pc \in {"run", "tx"} => r.db \in 1..made'
<1>a. ASSUME made' \in Nat, made <= made', NEW t \in Threads, NEW r,
             thread' = [thread EXCEPT ![t] = r], Good(t, r)
      PROVE  thread' \in [Threads -> Thread] /\ Working'
  BY <1>0, <1>a DEF TypeInv, Working
<1>b. ASSUME made' \in Nat, made <= made', NEW t \in Threads,
             NEW rest \in SUBSET Projects, NextName(t, rest)
      PROVE  thread' \in [Threads -> Thread] /\ Working'
  <2>1. /\ thread' \in [Threads -> Thread]
        /\ \A u \in Threads : thread'[u] = thread[u] \/ thread'[u].pc \in {"idle", "visit"}
    BY <1>b, NextNameTypes
  <2> QED
    BY <1>0, <1>b, <2>1 DEF TypeInv, Working
<1>c. ASSUME made' = made, NEW t \in Threads, NEW p \in Projects,
             NEW pc \in {"found", "drop", "lock"}, Asks(t, p, pc)
      PROVE  thread' \in [Threads -> Thread] /\ Working'
  <2>1. /\ thread' \in [Threads -> Thread]
        /\ \A u \in Threads : \/ thread'[u] = thread[u]
                              \/ thread'[u].pc \notin {"run", "tx"} /\ thread'[u].proj \in Projects
    BY <1>c, AsksTypes
  <2> QED
    BY <1>0, <1>c, <2>1 DEF TypeInv, Working
<1>d. ASSUME NEW t \in Threads, Returns(t), made' \in Nat, made <= made'
      PROVE  thread' \in [Threads -> Thread] /\ Working'
  <2>1. thread' = [thread EXCEPT ![t] = Idle] /\ Idle.pc = "idle"
    BY <1>d DEF Returns, Idle
  <2> QED
    BY <1>0, <1>d, <2>1, IdleIsThread DEF TypeInv, Working
<1>1. ASSUME NEW t \in Threads, ReadDir(t)
      PROVE  Working' /\ thread' \in [Threads -> Thread] /\ made' = made
  <2> DEFINE names == {p \in Projects : Exists(p)}
             r == [Idle EXCEPT !.pc = "list", !.names = names, !.todo = names]
  <2>1. thread' = [thread EXCEPT ![t] = r] /\ made' = made
    BY <1>1 DEF ReadDir, fileVars
  <2>2. r \in Thread /\ r.pc = "list"
    BY DEF Idle, Thread
  <2>3. Good(t, r)
    BY <2>2
  <2>4. made' \in Nat /\ made <= made'
    BY <1>0, <2>1
  <2> HIDE DEF r
  <2> QED
    BY <1>a, <2>1, <2>3, <2>4
<1>2. ASSUME NEW t \in Threads, NEW p \in Projects, OpenListed(t, p)
      PROVE  Working' /\ thread' \in [Threads -> Thread] /\ made' \in Nat /\ made <= made'
  <2>1. PICK db \in 1..(made + 1) : ForProject(Of[t], p, db)
    BY <1>2 DEF OpenListed
  <2>2. made' \in Nat /\ made <= made'
    BY <2>1, ForProjectReturns, LifecycleAssumption DEF TypeInv
  <2> DEFINE rest == thread[t].todo \ {p}
             a == [thread[t] EXCEPT !.pc = "visit", !.todo = thread[t].names]
             b == [thread[t] EXCEPT !.todo = rest]
  <2>3. thread' = [thread EXCEPT ![t] = a] \/ thread' = [thread EXCEPT ![t] = b]
    BY <1>0, <1>2 DEF OpenListed
  <2>4. a \in Thread /\ a.pc = "visit"
    BY <1>0 DEF Thread
  <2>5. b \in Thread /\ b.pc = "list"
    <3>1. thread[t].pc = "list" /\ rest \subseteq Projects
      BY <1>0, <1>2 DEF OpenListed
    <3> QED
      BY <1>0, <3>1 DEF Thread
  <2>6. Good(t, a) /\ Good(t, b)
    BY <2>4, <2>5
  <2> HIDE DEF a, b
  <2> QED
    BY <1>a, <2>2, <2>3, <2>6
<1>3. ASSUME NEW t \in Threads, NEW p \in Projects, Visit(t, p)
      PROVE  Working' /\ thread' \in [Threads -> Thread] /\ made' \in Nat /\ made <= made'
  <2>1. PICK db \in 1..(made + 1) :
          /\ ForProject(Of[t], p, db)
          /\ IF t \in Watchers /\ db \in graphs
             THEN thread' = [thread EXCEPT ![t].pc = "poll", ![t].proj = p,
                                           ![t].todo = @ \ {p}]
             ELSE NextName(t, thread[t].todo \ {p})
    BY <1>3 DEF Visit
  <2>2. made' \in Nat /\ made <= made'
    BY <2>1, ForProjectReturns, LifecycleAssumption DEF TypeInv
  <2>3. CASE t \in Watchers /\ db \in graphs
    <3> DEFINE r == [thread[t] EXCEPT !.pc = "poll", !.proj = p, !.todo = thread[t].todo \ {p}]
    <3>1. thread' = [thread EXCEPT ![t] = r]
      BY <1>0, <2>1, <2>3
    <3>2. r \in Thread /\ r.pc = "poll" /\ r.proj = p
      BY <1>0 DEF Thread
    <3>3. Good(t, r)
      BY <3>2
    <3> HIDE DEF r
    <3> QED
      BY <1>a, <2>2, <3>1, <3>3
  <2>4. CASE ~(t \in Watchers /\ db \in graphs)
    BY <1>0, <1>b, <2>1, <2>2, <2>4
  <2> QED
    BY <2>2, <2>3, <2>4
<1>4. ASSUME NEW t \in Threads, PollPasses(t) \/ Commit(t) \/ Refused(t) \/ Fail(t)
      PROVE  Working' /\ thread' \in [Threads -> Thread] /\ made' = made
  <2>1. NextName(t, thread[t].todo) /\ made' = made
    BY <1>4 DEF PollPasses, Commit, Refused, Fail, RunEnds, fileVars
  <2> QED
    BY <1>0, <1>b, <2>1
<1>5. ASSUME NEW t \in Threads, PollSyncs(t) \/ Lock(t)
      PROVE  Working' /\ thread' \in [Threads -> Thread] /\ made' = made
  <2> DEFINE r == [thread[t] EXCEPT !.pc = "open"]
  <2>1. thread' = [thread EXCEPT ![t] = r] /\ made' = made
    BY <1>0, <1>5 DEF PollSyncs, Lock, fileVars
  <2>2. thread[t].proj \in Projects
    BY <1>5 DEF PollSyncs, Lock, TypeInv, Working
  <2>3. r \in Thread /\ r.pc = "open" /\ r.proj = thread[t].proj
    BY <1>0 DEF Thread, Stages
  <2>4. Good(t, r)
    BY <2>2, <2>3
  <2>5. made' \in Nat /\ made <= made'
    BY <1>0, <2>1
  <2> HIDE DEF r
  <2> QED
    BY <1>a, <2>1, <2>4, <2>5
<1>6. ASSUME NEW t \in Threads, NEW p \in Projects, Query(t, p) \/ AskDelete(t, p) \/ AskIndex(t, p)
      PROVE  Working' /\ thread' \in [Threads -> Thread] /\ made' = made
  BY <1>c, <1>6 DEF Query, AskDelete, AskIndex, fileVars
<1>7. ASSUME NEW t \in Threads, Resolve(t)
      PROVE  Working' /\ thread' \in [Threads -> Thread] /\ made' \in Nat /\ made <= made'
  <2>1. PICK db \in 1..(made + 1) : ForProject(Of[t], thread[t].proj, db)
    BY <1>7 DEF Resolve
  <2>2. thread[t].proj \in Projects /\ Returns(t)
    BY <1>7 DEF Resolve, TypeInv, Working
  <2>3. made' \in Nat /\ made <= made'
    BY <2>1, <2>2, ForProjectReturns, LifecycleAssumption DEF TypeInv
  <2> QED
    BY <1>d, <2>2, <2>3
<1>8. ASSUME NEW t \in Threads, DeleteProject(t)
      PROVE  Working' /\ thread' \in [Threads -> Thread] /\ made' = made
  BY <1>0, <1>d, <1>8 DEF DeleteProject
<1>9. ASSUME NEW t \in Threads, OpenToIndex(t)
      PROVE  Working' /\ thread' \in [Threads -> Thread] /\ made' \in Nat /\ made <= made'
  <2>1. PICK db \in 1..(made + 1) :
          /\ ForProject(Of[t], thread[t].proj, db)
          /\ thread' = [thread EXCEPT ![t].pc = "run", ![t].db = db]
    BY <1>9 DEF OpenToIndex
  <2>2. thread[t].proj \in Projects
    BY <1>9 DEF OpenToIndex, TypeInv, Working
  <2>3. made' \in Nat /\ made <= made' /\ db \in 1..made'
    BY <2>1, <2>2, ForProjectReturns, LifecycleAssumption DEF TypeInv
  <2> DEFINE r == [thread[t] EXCEPT !.pc = "run", !.db = db]
  <2>4. thread' = [thread EXCEPT ![t] = r]
    BY <1>0, <2>1
  <2>5. r \in Thread /\ r.pc = "run" /\ r.proj = thread[t].proj /\ r.db = db
    <3>1. db \in Nat
      BY <2>3
    <3> QED
      BY <1>0, <3>1 DEF Thread, Stages
  <2>6. Good(t, r)
    BY <2>2, <2>3, <2>5
  <2> HIDE DEF r
  <2> QED
    BY <1>a, <2>3, <2>4, <2>6
<1>10. ASSUME NEW t \in Threads, Begin(t)
      PROVE  Working' /\ thread' \in [Threads -> Thread] /\ made' = made
  <2> DEFINE r == [thread[t] EXCEPT !.pc = "tx"]
  <2>1. thread' = [thread EXCEPT ![t] = r] /\ made' = made
    BY <1>0, <1>10 DEF Begin, fileVars
  <2>2. thread[t].proj \in Projects /\ thread[t].db \in 1..made
    BY <1>10 DEF Begin, TypeInv, Working
  <2>3. r \in Thread /\ r.pc = "tx" /\ r.proj = thread[t].proj /\ r.db = thread[t].db
    BY <1>0 DEF Thread, Stages
  <2>4. Good(t, r)
    BY <2>1, <2>2, <2>3
  <2>5. made' \in Nat /\ made <= made'
    BY <1>0, <2>1
  <2> HIDE DEF r
  <2> QED
    BY <1>a, <2>1, <2>4, <2>5
<1>11. ASSUME NEW s \in Servers, Restart(s)
      PROVE  Working' /\ thread' \in [Threads -> Thread] /\ made' = made
  <2>1. Idle.pc = "idle"
    BY DEF Idle
  <2> QED
    BY <1>0, <1>11, <2>1, IdleIsThread DEF Restart, TypeInv, Working
<1>12. CASE UNCHANGED vars
  BY <1>0, <1>12 DEF vars, TypeInv, Working
<1> QED
  BY <1>0, <1>1, <1>2, <1>3, <1>4, <1>5, <1>6, <1>7, <1>8, <1>9, <1>10, <1>11, <1>12 DEF Next

\* What a deletion does, and to whose project.
LEMMA DeleteDoes ==
  ASSUME TypeInv, NEW t \in Threads, DeleteProject(t)
  PROVE  /\ thread[t].pc = "drop" /\ thread[t].proj \in Projects /\ Of[t] \in Servers
         /\ file' = [file EXCEPT ![thread[t].proj] = None]
         /\ store' = [store EXCEPT ![Of[t]][thread[t].proj] = None]
         /\ removed \subseteq removed'
         /\ Exists(thread[t].proj) => <<file[thread[t].proj], Of[t]>> \in removed'
         /\ removed' \subseteq removed \cup {<<file[thread[t].proj], Of[t]>>}
         /\ ~Exists(thread[t].proj) => removed' = removed
         /\ gone' = gone \cup {thread[t].proj}
         /\ UNCHANGED <<made, graphs, deletes, reported>>
BY LifecycleAssumption DEF DeleteProject, TypeInv, Working

\* Every step leaves files and stores with databases that were made.
LEMMA FilesStep ==
  ASSUME TypeInv, [Next]_vars
  PROVE  /\ file' \in [Projects -> 0..made']
         /\ store' \in [Servers -> [Projects -> 0..made']]
<1>0. /\ made \in Nat /\ file \in [Projects -> 0..made] /\ TypeOK
      /\ store \in [Servers -> [Projects -> 0..made]]
  BY DEF TypeInv, TypeOK
<1>1. CASE UNCHANGED <<fileVars, removed>>
  BY <1>0, <1>1 DEF fileVars
<1>2. ASSUME NEW s \in Servers, NEW p \in Projects, NEW db \in 1..(made + 1), Opens(s, p, db)
      PROVE  /\ file' \in [Projects -> 0..made']
             /\ store' \in [Servers -> [Projects -> 0..made']]
  BY <1>0, <1>2, ForProjectReturns DEF Opens
<1>3. ASSUME NEW t \in Threads, DeleteProject(t)
      PROVE  /\ file' \in [Projects -> 0..made']
             /\ store' \in [Servers -> [Projects -> 0..made']]
  <2>1. /\ thread[t].proj \in Projects /\ Of[t] \in Servers /\ made' = made
        /\ file' = [file EXCEPT ![thread[t].proj] = None]
        /\ store' = [store EXCEPT ![Of[t]][thread[t].proj] = None]
    BY <1>3, DeleteDoes
  <2> QED
    BY <1>0, <2>1
<1>4. ASSUME NEW s \in Servers, Restart(s)
      PROVE  /\ file' \in [Projects -> 0..made']
             /\ store' \in [Servers -> [Projects -> 0..made']]
  BY <1>0, <1>4 DEF Restart
<1> QED
  BY <1>1, <1>2, <1>3, <1>4, StepKinds

\* A commit keeps the graph of the run's database, and reports it.
LEMMA CommitDoes ==
  ASSUME TypeInv, NEW t \in Threads, Commit(t)
  PROVE  /\ thread[t].pc = "tx" /\ thread[t].proj \in Projects /\ thread[t].db \in 1..made
         /\ graphs' = graphs \cup {thread[t].db}
         /\ reported' = [reported EXCEPT ![thread[t].proj] = thread[t].db]
         /\ UNCHANGED <<fileVars, deletes, removed, gone, known>>
BY DEF Commit, TypeInv, Working

\* The steps by what they do to the graphs and to what the runs report.
LEMMA GraphKinds ==
  ASSUME TypeInv, [Next]_vars
  PROVE  UNCHANGED <<graphs, reported>> \/ \E t \in Threads : Commit(t)
<1>1. ASSUME NEW t \in Threads,
             \/ ReadDir(t) \/ PollPasses(t) \/ PollSyncs(t) \/ Resolve(t) \/ DeleteProject(t)
             \/ Lock(t) \/ OpenToIndex(t) \/ Begin(t) \/ Refused(t) \/ Fail(t)
             \/ \E p \in Projects : OpenListed(t, p) \/ Visit(t, p)
             \/ \E p \in Projects : Query(t, p) \/ AskDelete(t, p) \/ AskIndex(t, p)
      PROVE  UNCHANGED <<graphs, reported>>
  BY <1>1 DEF ReadDir, PollPasses, PollSyncs, Resolve, DeleteProject, Lock, OpenToIndex, Begin,
     Refused, Fail, OpenListed, Visit, Query, AskDelete, AskIndex, auxVars
<1>2. ASSUME NEW s \in Servers, Restart(s)
      PROVE  UNCHANGED <<graphs, reported>>
  BY <1>2 DEF Restart, auxVars
<1>3. CASE UNCHANGED vars
  BY <1>3 DEF vars
<1> QED
  BY <1>1, <1>2, <1>3 DEF Next

\* The steps by what they do to the deletions and what is remembered of them.
LEMMA GoneKinds ==
  ASSUME [Next]_vars
  PROVE  \/ UNCHANGED <<deletes, gone, known>>
         \/ \E t \in Threads : DeleteProject(t)
         \/ \E t \in Threads, p \in Projects : AskDelete(t, p)
         \/ \E t \in Threads, p \in Projects : AskIndex(t, p)
<1>1. ASSUME NEW t \in Threads,
             \/ ReadDir(t) \/ PollPasses(t) \/ PollSyncs(t) \/ Resolve(t) \/ Commit(t)
             \/ Lock(t) \/ OpenToIndex(t) \/ Begin(t) \/ Refused(t) \/ Fail(t)
             \/ \E p \in Projects : OpenListed(t, p) \/ Visit(t, p) \/ Query(t, p)
      PROVE  UNCHANGED <<deletes, gone, known>>
  BY <1>1 DEF ReadDir, PollPasses, PollSyncs, Resolve, Commit, Lock, OpenToIndex, Begin,
     Refused, Fail, OpenListed, Visit, Query, auxVars
<1>2. ASSUME NEW s \in Servers, Restart(s)
      PROVE  UNCHANGED <<deletes, gone, known>>
  BY <1>2 DEF Restart, auxVars
<1>3. CASE UNCHANGED vars
  BY <1>3 DEF vars
<1> QED
  BY <1>1, <1>2, <1>3 DEF Next

\* The types hold of the initial states.
LEMMA TypeInit == ASSUME Init PROVE TypeInv
<1>1. \A t \in Threads : thread[t] = Idle /\ thread[t].pc = "idle"
  BY DEF Init, Idle
<1>2. thread \in [Threads -> Thread]
  BY <1>1, IdleIsThread DEF Init
<1> QED
  BY <1>1, <1>2, LifecycleAssumption DEF Init, TypeInv, TypeOK, Working

\* Every step keeps the types.
LEMMA TypeStep == ASSUME TypeInv, [Next]_vars PROVE TypeInv'
<1>0. /\ TypeOK /\ made \in Nat /\ deletes \in 0..MaxDeletes /\ graphs \subseteq 1..made
      /\ file \in [Projects -> 0..made]
      /\ removed \subseteq (1..made) \X Servers
      /\ gone \subseteq Projects /\ known \subseteq Projects
      /\ reported \in [Projects -> 0..made] /\ MaxDeletes \in Nat
  BY LifecycleAssumption DEF TypeInv, TypeOK
<1>1. thread' \in [Threads -> Thread] /\ Working' /\ made <= made' /\ made' \in Nat
  BY WorkingStep
<1>2. /\ file' \in [Projects -> 0..made']
      /\ store' \in [Servers -> [Projects -> 0..made']]
  BY FilesStep
<1>3. graphs' \subseteq 1..made' /\ reported' \in [Projects -> 0..made']
  <2>1. CASE UNCHANGED <<graphs, reported>>
    BY <1>0, <1>1, <2>1
  <2>2. ASSUME NEW t \in Threads, Commit(t)
        PROVE  graphs' \subseteq 1..made' /\ reported' \in [Projects -> 0..made']
    <3>1. /\ thread[t].proj \in Projects /\ thread[t].db \in 1..made /\ made' = made
          /\ graphs' = graphs \cup {thread[t].db}
          /\ reported' = [reported EXCEPT ![thread[t].proj] = thread[t].db]
      BY <2>2, CommitDoes DEF fileVars
    <3>2. thread[t].db \in 0..made
      BY <1>0, <3>1
    <3>3. reported' \in [Projects -> 0..made]
      BY <1>0, <3>1, <3>2
    <3>4. graphs' \subseteq 1..made
      BY <1>0, <3>1
    <3> QED
      BY <3>1, <3>3, <3>4
  <2> QED
    BY <2>1, <2>2, GraphKinds
<1>4. removed' \subseteq (1..made') \X Servers
  <2>1. CASE UNCHANGED removed
    BY <1>0, <1>1, <2>1
  <2>2. ASSUME NEW t \in Threads, DeleteProject(t)
        PROVE  removed' \subseteq (1..made') \X Servers
    <3>1. thread[t].proj \in Projects /\ Of[t] \in Servers
      BY <2>2, DeleteDoes
    <3>2. Exists(thread[t].proj) => file[thread[t].proj] \in 1..made
      BY <1>0, <3>1 DEF Exists
    <3>3. /\ removed' \subseteq removed \cup {<<file[thread[t].proj], Of[t]>>}
          /\ ~Exists(thread[t].proj) => removed' = removed
      BY <2>2, DeleteDoes
    <3> QED
      BY <1>0, <1>1, <3>1, <3>2, <3>3
  <2>3. ASSUME NEW s \in Servers, Restart(s) PROVE UNCHANGED removed
    BY <2>3 DEF Restart, auxVars
  <2> QED
    BY <2>1, <2>2, <2>3, StepKinds DEF Opens
<1>5. deletes' \in 0..MaxDeletes /\ gone' \subseteq Projects /\ known' \subseteq Projects
  <2>1. CASE UNCHANGED <<deletes, gone, known>>
    BY <1>0, <2>1
  <2>2. ASSUME NEW t \in Threads, DeleteProject(t)
        PROVE  deletes' = deletes /\ gone' \subseteq Projects /\ known' \subseteq Projects
    <3>1. thread[t].proj \in Projects
      BY <2>2, DeleteDoes
    <3> QED
      BY <1>0, <2>2, <3>1 DEF DeleteProject
  <2>3. ASSUME NEW t \in Threads, NEW p \in Projects, AskDelete(t, p)
        PROVE  deletes' \in 0..MaxDeletes /\ UNCHANGED <<gone, known>>
    BY <1>0, <2>3 DEF AskDelete, auxVars
  <2>4. ASSUME NEW t \in Threads, NEW p \in Projects, AskIndex(t, p)
        PROVE  deletes' = deletes /\ gone' \subseteq Projects /\ known' = known
    BY <1>0, <2>4 DEF AskIndex
  <2> QED
    BY <1>0, <2>1, <2>2, <2>3, <2>4, GoneKinds
<1> QED
  BY <1>1, <1>2, <1>3, <1>4, <1>5 DEF TypeInv, TypeOK

\* TypeOK holds in every state.
THEOREM TypeCorrect == Spec => []TypeOK
<1>1. Init => TypeInv
  BY TypeInit
<1>2. TypeInv /\ [Next]_vars => TypeInv'
  BY TypeStep
<1>3. TypeInv => TypeOK
  BY DEF TypeInv
<1> QED
  BY <1>1, <1>2, <1>3, PTL DEF Spec

-----------------------------------------------------------------------------
(* Stores.                                                                 *)

\* The invariant of stores is inductive: a process that opens a project gets
\* the store of its file, and one that removes the file drops its own store.
LEMMA StoresStep ==
  ASSUME TypeInv, StoresAreCurrent, [Next]_vars
  PROVE  StoresAreCurrent'
<1>0. /\ TypeOK /\ made \in Nat /\ file \in [Projects -> 0..made]
      /\ store \in [Servers -> [Projects -> 0..made]]
  BY DEF TypeInv, TypeOK
<1>1. CASE UNCHANGED <<fileVars, removed>>
  BY <1>1 DEF fileVars, StoresAreCurrent
<1>2. ASSUME NEW s \in Servers, NEW p \in Projects, NEW db \in 1..(made + 1), Opens(s, p, db)
      PROVE  StoresAreCurrent'
  <2>1. /\ store' = [store EXCEPT ![s][p] = db] /\ removed' = removed
        /\ \/ file' = file
           \/ ~Exists(p) /\ file' = [file EXCEPT ![p] = db]
        /\ db = file'[p] \/ db = store[s][p]
    BY <1>0, <1>2, ForProjectReturns DEF Opens
  <2> SUFFICES ASSUME NEW r \in Servers, NEW q \in Projects
               PROVE  \/ store'[r][q] \in {None, file'[q]}
                      \/ \E u \in Servers \ {r} : <<store'[r][q], u>> \in removed'
    BY DEF StoresAreCurrent
  <2>2. \/ store[r][q] \in {None, file[q]}
        \/ \E u \in Servers \ {r} : <<store[r][q], u>> \in removed
    BY DEF StoresAreCurrent
  <2>3. CASE r = s /\ q = p
    <3>1. store'[r][q] = db
      BY <1>0, <2>1, <2>3
    <3>2. CASE db = file'[p]
      BY <2>3, <3>1, <3>2
    <3>3. CASE db = store[s][p] /\ file' = file
      BY <2>1, <2>2, <2>3, <3>1, <3>3
    <3>4. CASE file' = [file EXCEPT ![p] = db]
      BY <1>0, <2>3, <3>1, <3>4
    <3> QED
      BY <2>1, <3>2, <3>3, <3>4
  <2>4. CASE ~(r = s /\ q = p)
    <3>1. store'[r][q] = store[r][q]
      BY <1>0, <2>1, <2>4
    <3>2. file'[q] = file[q] \/ file[q] = None
      BY <1>0, <2>1 DEF Exists
    <3> QED
      BY <2>1, <2>2, <3>1, <3>2
  <2> QED
    BY <2>3, <2>4
<1>3. ASSUME NEW t \in Threads, DeleteProject(t)
      PROVE  StoresAreCurrent'
  <2> DEFINE s == Of[t]
             p == thread[t].proj
  <2>1. /\ p \in Projects /\ s \in Servers /\ removed \subseteq removed'
        /\ file' = [file EXCEPT ![p] = None]
        /\ store' = [store EXCEPT ![s][p] = None]
        /\ Exists(p) => <<file[p], s>> \in removed'
    BY <1>3, DeleteDoes
  <2> HIDE DEF s, p
  <2> SUFFICES ASSUME NEW r \in Servers, NEW q \in Projects
               PROVE  \/ store'[r][q] \in {None, file'[q]}
                      \/ \E u \in Servers \ {r} : <<store'[r][q], u>> \in removed'
    BY DEF StoresAreCurrent
  <2>2. \/ store[r][q] \in {None, file[q]}
        \/ \E u \in Servers \ {r} : <<store[r][q], u>> \in removed
    BY DEF StoresAreCurrent
  <2>3. CASE r = s /\ q = p
    BY <1>0, <2>1, <2>3
  <2>4. CASE r # s /\ q = p
    <3>1. store'[r][q] = store[r][q]
      BY <1>0, <2>1, <2>4
    <3>2. CASE store[r][q] = file[q] /\ Exists(q)
      BY <2>1, <2>4, <3>1, <3>2
    <3> QED
      BY <2>1, <2>2, <3>1, <3>2 DEF Exists
  <2>5. CASE q # p
    BY <1>0, <2>1, <2>2, <2>5
  <2> QED
    BY <2>3, <2>4, <2>5
<1>4. ASSUME NEW s \in Servers, Restart(s)
      PROVE  StoresAreCurrent'
  BY <1>0, <1>4 DEF Restart, auxVars, StoresAreCurrent
<1> QED
  BY <1>1, <1>2, <1>3, <1>4, StepKinds

\* Within one process nobody gets a store of a deleted database.
THEOREM StoresCorrect == Spec => []StoresAreCurrent
<1>1. Init => TypeInv /\ StoresAreCurrent
  BY TypeInit DEF Init, StoresAreCurrent
<1>2. TypeInv /\ StoresAreCurrent /\ [Next]_vars => (TypeInv /\ StoresAreCurrent)'
  BY TypeStep, StoresStep
<1> QED
  BY <1>1, <1>2, PTL DEF Spec

-----------------------------------------------------------------------------
(* Runs and what they report.                                              *)

\* A run has begun before, or begins with the store of its process.
LEMMA RunKinds ==
  ASSUME TypeInv, [Next]_vars, NEW u \in Threads, thread'[u].pc \in {"run", "tx"}
  PROVE  \/ /\ thread[u].pc \in {"run", "tx"}
            /\ thread'[u].proj = thread[u].proj /\ thread'[u].db = thread[u].db
         \/ /\ thread'[u].proj \in Projects /\ thread'[u].db \in 1..made'
            /\ thread'[u].db = store'[Of[u]][thread'[u].proj]
<1>0. /\ thread \in [Threads -> Thread] /\ TypeOK
      /\ store \in [Servers -> [Projects -> 0..made]]
  BY DEF TypeInv, TypeOK
<1>1. ASSUME NEW t \in Threads, NextName(t, thread[t].todo)
      PROVE  thread'[u] = thread[u]
  <2>1. thread[t].todo \in SUBSET Projects
    BY <1>0 DEF Thread
  <2> QED
    BY <1>1, <2>1, NextNameTypes
<1>2. ASSUME NEW t \in Threads, PollPasses(t) \/ Commit(t) \/ Refused(t) \/ Fail(t)
      PROVE  thread'[u] = thread[u]
  BY <1>1, <1>2 DEF PollPasses, Commit, Refused, Fail, RunEnds
<1>3. ASSUME NEW t \in Threads, ReadDir(t) \/ PollSyncs(t) \/ Lock(t)
      PROVE  thread'[u] = thread[u]
  <2>1. CASE ReadDir(t)
    BY <1>0, <2>1 DEF ReadDir, Idle
  <2>2. CASE PollSyncs(t) \/ Lock(t)
    <3>1. thread' = [thread EXCEPT ![t].pc = "open"]
      BY <2>2 DEF PollSyncs, Lock
    <3> QED
      BY <1>0, <3>1
  <2> QED
    BY <1>3, <2>1, <2>2
<1>4. ASSUME NEW t \in Threads, NEW p \in Projects, OpenListed(t, p)
      PROVE  thread'[u] = thread[u]
  BY <1>0, <1>4 DEF OpenListed
<1>5. ASSUME NEW t \in Threads, NEW p \in Projects, Visit(t, p)
      PROVE  thread'[u] = thread[u]
  <2>1. thread[t].todo \ {p} \in SUBSET Projects
    BY <1>0 DEF Thread
  <2>2. CASE NextName(t, thread[t].todo \ {p})
    BY <2>1, <2>2, NextNameTypes
  <2>3. CASE thread' = [thread EXCEPT ![t].pc = "poll", ![t].proj = p, ![t].todo = @ \ {p}]
    BY <1>0, <2>3
  <2> QED
    BY <1>5, <2>2, <2>3 DEF Visit
<1>6. ASSUME NEW t \in Threads, NEW p \in Projects, Query(t, p) \/ AskDelete(t, p) \/ AskIndex(t, p)
      PROVE  thread'[u] = thread[u]
  BY <1>0, <1>6 DEF Query, AskDelete, AskIndex, Asks, Idle
<1>7. ASSUME NEW t \in Threads, Resolve(t) \/ DeleteProject(t)
      PROVE  thread'[u] = thread[u]
  BY <1>0, <1>7 DEF Resolve, DeleteProject, Returns, Idle
<1>8. ASSUME NEW t \in Threads, Begin(t)
      PROVE  /\ thread[u].pc \in {"run", "tx"}
             /\ thread'[u].proj = thread[u].proj /\ thread'[u].db = thread[u].db
  BY <1>0, <1>8 DEF Begin
<1>9. ASSUME NEW t \in Threads, OpenToIndex(t)
      PROVE  \/ thread'[u] = thread[u]
             \/ /\ thread'[u].proj \in Projects /\ thread'[u].db \in 1..made'
                /\ thread'[u].db = store'[Of[u]][thread'[u].proj]
  <2>1. PICK db \in 1..(made + 1) :
          /\ ForProject(Of[t], thread[t].proj, db)
          /\ thread' = [thread EXCEPT ![t].pc = "run", ![t].db = db]
    BY <1>9 DEF OpenToIndex
  <2>2. thread[t].proj \in Projects /\ Of[t] \in Servers
    BY <1>9, LifecycleAssumption DEF OpenToIndex, TypeInv, Working
  <2>a. ASSUME NEW s \in Servers, NEW p \in Projects, ForProject(s, p, db)
        PROVE  db \in 1..made' /\ store'[s][p] = db
    <3>1. db \in 1..made' /\ store' = [store EXCEPT ![s][p] = db]
      BY <1>0, <2>a, ForProjectReturns
    <3> QED
      BY <1>0, <3>1
  <2>3. db \in 1..made' /\ store'[Of[t]][thread[t].proj] = db
    BY <2>1, <2>2, <2>a
  <2>5. CASE u = t
    <3>1. thread'[u].proj = thread[t].proj /\ thread'[u].db = db
      BY <1>0, <2>1, <2>5
    <3> QED
      BY <2>2, <2>3, <2>5, <3>1
  <2>6. CASE u # t
    BY <1>0, <2>1, <2>6
  <2> QED
    BY <2>5, <2>6
<1>10. ASSUME NEW s \in Servers, Restart(s)
      PROVE  thread'[u] = thread[u]
  BY <1>0, <1>10 DEF Restart, Idle
<1>11. CASE UNCHANGED vars
  BY <1>11 DEF vars
<1> QED
  BY <1>2, <1>3, <1>4, <1>5, <1>6, <1>7, <1>8, <1>9, <1>10, <1>11 DEF Next

\* What was removed is not made again.
LEMMA RemovedGrows ==
  ASSUME TypeInv, [Next]_vars
  PROVE  removed \subseteq removed'
<1>1. ASSUME NEW s \in Servers, Restart(s) PROVE removed' = removed
  BY <1>1 DEF Restart, auxVars
<1> QED
  BY <1>1, StepKinds, DeleteDoes DEF Opens

\* The file of a project loses a database only when somebody removes it.
LEMMA FileKept ==
  ASSUME TypeInv, [Next]_vars, NEW p \in Projects, file[p] # None
  PROVE  \/ file'[p] = file[p]
         \/ \E s \in Servers : <<file[p], s>> \in removed'
<1>0. /\ TypeOK /\ file \in [Projects -> 0..made]
  BY DEF TypeInv, TypeOK
<1>1. CASE UNCHANGED <<fileVars, removed>>
  BY <1>1 DEF fileVars
<1>2. ASSUME NEW s \in Servers, NEW q \in Projects, NEW db \in 1..(made + 1), Opens(s, q, db)
      PROVE  file'[p] = file[p] /\ removed' = removed
  <2>1. /\ removed' = removed
        /\ \/ file' = file
           \/ ~Exists(q) /\ file' = [file EXCEPT ![q] = db]
    BY <1>0, <1>2, ForProjectReturns DEF Opens
  <2> QED
    BY <1>0, <2>1 DEF Exists
<1>3. ASSUME NEW t \in Threads, DeleteProject(t)
      PROVE  \/ file'[p] = file[p]
             \/ \E s \in Servers : <<file[p], s>> \in removed'
  <2>1. /\ thread[t].proj \in Projects /\ Of[t] \in Servers /\ removed \subseteq removed'
        /\ file' = [file EXCEPT ![thread[t].proj] = None]
        /\ Exists(thread[t].proj) => <<file[thread[t].proj], Of[t]>> \in removed'
    BY <1>3, DeleteDoes
  <2> QED
    BY <1>0, <2>1 DEF Exists
<1>4. ASSUME NEW s \in Servers, Restart(s)
      PROVE  file' = file /\ removed' = removed
  BY <1>4 DEF Restart, auxVars
<1> QED
  BY <1>1, <1>2, <1>3, <1>4, StepKinds

\* Every step leaves each run with a database that is its project's or was removed.
LEMMA RunsStep ==
  ASSUME TypeInv, StoresAreCurrent, RunsHold, [Next]_vars
  PROVE  RunsHold'
<1>1. StoresAreCurrent' /\ TypeInv'
  BY StoresStep, TypeStep
<1>2. made' \in Nat
  BY <1>1 DEF TypeInv, TypeOK
<1> SUFFICES ASSUME NEW u \in Threads, thread'[u].pc \in {"run", "tx"}
             PROVE  \/ file'[thread'[u].proj] = thread'[u].db
                    \/ \E s \in Servers : <<thread'[u].db, s>> \in removed'
  BY DEF RunsHold
<1>3. CASE /\ thread[u].pc \in {"run", "tx"}
           /\ thread'[u].proj = thread[u].proj /\ thread'[u].db = thread[u].db
  <2>1. thread[u].proj \in Projects /\ thread[u].db \in 1..made /\ made \in Nat
    BY <1>3 DEF TypeInv, TypeOK, Working
  <2>2. CASE file[thread[u].proj] = thread[u].db
    <3>1. file[thread[u].proj] # None
      BY <2>1, <2>2
    <3>2. \/ file'[thread[u].proj] = file[thread[u].proj]
          \/ \E s \in Servers : <<file[thread[u].proj], s>> \in removed'
      BY <2>1, <3>1, FileKept
    <3> QED
      BY <1>3, <2>2, <3>2
  <2>3. ASSUME NEW s \in Servers, <<thread[u].db, s>> \in removed
        PROVE  <<thread[u].db, s>> \in removed'
    BY <2>3, RemovedGrows
  <2> QED
    BY <1>3, <2>2, <2>3 DEF RunsHold
<1>4. CASE /\ thread'[u].proj \in Projects /\ thread'[u].db \in 1..made'
           /\ thread'[u].db = store'[Of[u]][thread'[u].proj]
  <2>1. thread'[u].db # None /\ Of[u] \in Servers
    BY <1>2, <1>4, LifecycleAssumption
  <2> QED
    BY <1>1, <1>4, <2>1 DEF StoresAreCurrent
<1> QED
  BY <1>3, <1>4, RunKinds

\* Every step leaves the reports true.
LEMMA ReportsStep ==
  ASSUME TypeInv, RunsHold, ReportsHold, [Next]_vars
  PROVE  ReportsHold'
<1>0. reported \in [Projects -> 0..made] /\ made \in Nat
  BY DEF TypeInv, TypeOK
<1> SUFFICES ASSUME NEW p \in Projects, reported'[p] # None
             PROVE  /\ reported'[p] \in graphs'
                    /\ \/ file'[p] = reported'[p]
                       \/ \E s \in Servers : <<reported'[p], s>> \in removed'
  BY DEF ReportsHold
<1>1. CASE reported'[p] = reported[p] /\ graphs \subseteq graphs'
  <2>1. /\ reported[p] \in graphs
        /\ file[p] = reported[p] \/ \E s \in Servers : <<reported[p], s>> \in removed
    BY <1>1 DEF ReportsHold
  <2>2. CASE file[p] = reported[p]
    <3>1. \/ file'[p] = file[p]
          \/ \E s \in Servers : <<file[p], s>> \in removed'
      BY <1>1, <2>2, FileKept
    <3> QED
      BY <1>1, <2>1, <2>2, <3>1
  <2>3. CASE \E s \in Servers : <<reported[p], s>> \in removed
    BY <1>1, <2>1, <2>3, RemovedGrows
  <2> QED
    BY <2>1, <2>2, <2>3
<1>2. ASSUME NEW t \in Threads, Commit(t), thread[t].proj = p
      PROVE  /\ reported'[p] \in graphs'
             /\ \/ file'[p] = reported'[p]
                \/ \E s \in Servers : <<reported'[p], s>> \in removed'
  <2>1. /\ thread[t].pc = "tx" /\ graphs' = graphs \cup {thread[t].db}
        /\ reported' = [reported EXCEPT ![p] = thread[t].db]
        /\ file' = file /\ removed' = removed
    BY <1>2, CommitDoes DEF fileVars
  <2>2. reported'[p] = thread[t].db
    BY <1>0, <2>1
  <2> QED
    BY <1>2, <2>1, <2>2 DEF RunsHold
<1>3. ASSUME NEW t \in Threads, Commit(t), thread[t].proj # p
      PROVE  reported'[p] = reported[p] /\ graphs \subseteq graphs'
  <2>1. /\ thread[t].proj \in Projects /\ graphs' = graphs \cup {thread[t].db}
        /\ reported' = [reported EXCEPT ![thread[t].proj] = thread[t].db]
    BY <1>3, CommitDoes
  <2> QED
    BY <1>0, <1>3, <2>1
<1> QED
  BY <1>1, <1>2, <1>3, GraphKinds

\* What a successful run has reported stays true until somebody deletes the
\* database.
THEOREM ReportsCorrect == Spec => []ReportsHold
<1> DEFINE Inv == TypeInv /\ StoresAreCurrent /\ RunsHold /\ ReportsHold
<1>1. Init => Inv
  BY TypeInit DEF Init, StoresAreCurrent, RunsHold, ReportsHold, Idle
<1>2. Inv /\ [Next]_vars => Inv'
  BY TypeStep, StoresStep, RunsStep, ReportsStep
<1>3. Inv => ReportsHold
  OBVIOUS
<1> HIDE DEF Inv
<1> QED
  BY <1>1, <1>2, <1>3, PTL DEF Spec

-----------------------------------------------------------------------------
(* Who brings a project back.                                              *)

\* A thread that takes up a project has it on its list, or finds its file, or
\* is asked to index it.
LEMMA UsersStep ==
  ASSUME TypeInv, ListsNamed, [Next]_vars, NEW p \in Projects
  PROVE  /\ ListsNamed'
         /\ \/ Users(p)' \subseteq Users(p)
            \/ Exists(p)
            \/ \E t \in Threads : AskIndex(t, p)
         /\ \A t \in Threads : DeleteProject(t) => Users(p)' \subseteq Users(p) \ {t}
<1>0. /\ thread \in [Threads -> Thread] /\ NoProject \notin Projects
      /\ \A t \in Threads : thread[t].names \subseteq Projects /\ thread[t].todo \subseteq Projects
  BY LifecycleAssumption DEF TypeInv, TypeOK, Thread
<1> DEFINE Less(r, t) ==
      /\ r.todo \subseteq r.names /\ r.names \subseteq thread[t].names
      /\ r.proj \in {NoProject, thread[t].proj} \cup thread[t].names
<1>a. ASSUME \A t \in Threads : thread'[t] = thread[t] \/ Less(thread'[t], t)
      PROVE  ListsNamed' /\ Users(p)' \subseteq Users(p)
  BY <1>0, <1>a DEF ListsNamed, Users
<1>b. ASSUME NEW t \in Threads, NEW r, thread' = [thread EXCEPT ![t] = r], Less(r, t)
      PROVE  ListsNamed' /\ Users(p)' \subseteq Users(p)
  BY <1>0, <1>a, <1>b
<1>c. ASSUME NEW t \in Threads, NEW r, thread' = [thread EXCEPT ![t] = r],
             r.names = thread[t].names, r.proj = thread[t].proj, r.todo = thread[t].todo
      PROVE  ListsNamed' /\ Users(p)' \subseteq Users(p)
  BY <1>0, <1>b, <1>c DEF ListsNamed
<1>d. ASSUME NEW t \in Threads, Returns(t)
      PROVE  ListsNamed' /\ Users(p)' \subseteq Users(p) \ {t}
  <2>1. /\ thread' = [thread EXCEPT ![t] = Idle] /\ Less(Idle, t)
        /\ Idle.names = {} /\ Idle.proj = NoProject
    BY <1>d DEF Returns, Idle
  <2>2. ListsNamed' /\ Users(p)' \subseteq Users(p)
    BY <1>b, <2>1
  <2>3. t \notin Users(p)'
    BY <1>0, <2>1 DEF Users
  <2> QED
    BY <2>2, <2>3
<1>e. ASSUME NEW t \in Threads, NEW rest, rest \subseteq thread[t].todo, NextName(t, rest)
      PROVE  ListsNamed' /\ Users(p)' \subseteq Users(p)
  <2>1. CASE rest = {}
    BY <1>d, <1>e, <2>1 DEF NextName
  <2>2. CASE rest # {}
    <3> DEFINE r == [Idle EXCEPT !.pc = "visit", !.names = thread[t].names, !.todo = rest]
    <3>1. thread' = [thread EXCEPT ![t] = r]
      BY <1>e, <2>2 DEF NextName
    <3>2. r.names = thread[t].names /\ r.todo = rest /\ r.proj = NoProject
      BY DEF Idle
    <3>3. Less(r, t)
      BY <1>e, <3>2 DEF ListsNamed
    <3> HIDE DEF r
    <3> QED
      BY <1>b, <3>1, <3>3
  <2> QED
    BY <2>1, <2>2
<1>f. ASSUME NEW t \in Threads, NEW q \in Projects, NEW pc, Asks(t, q, pc)
      PROVE  ListsNamed' /\ (q # p => Users(p)' \subseteq Users(p))
  <2> DEFINE r == [Idle EXCEPT !.pc = pc, !.proj = q]
  <2>1. thread' = [thread EXCEPT ![t] = r] /\ r.names = {} /\ r.todo = {} /\ r.proj = q
    BY <1>f DEF Asks, Idle
  <2> HIDE DEF r
  <2> QED
    BY <1>0, <2>1 DEF ListsNamed, Users
<1>1. ASSUME NEW t \in Threads, ReadDir(t)
      PROVE  ListsNamed' /\ (Users(p)' \subseteq Users(p) \/ Exists(p))
  <2> DEFINE names == {q \in Projects : Exists(q)}
             r == [Idle EXCEPT !.pc = "list", !.names = names, !.todo = names]
  <2>1. thread' = [thread EXCEPT ![t] = r]
    BY <1>1 DEF ReadDir
  <2>2. r.names = names /\ r.todo = names /\ r.proj = NoProject
    BY DEF Idle
  <2> HIDE DEF r
  <2> QED
    BY <1>0, <2>1, <2>2 DEF ListsNamed, Users
<1>2. ASSUME NEW t \in Threads, NEW q \in Projects, OpenListed(t, q)
      PROVE  ListsNamed' /\ Users(p)' \subseteq Users(p)
  <2> DEFINE a == [thread[t] EXCEPT !.pc = "visit", !.todo = thread[t].names]
             b == [thread[t] EXCEPT !.todo = thread[t].todo \ {q}]
  <2>1. thread' = [thread EXCEPT ![t] = a] \/ thread' = [thread EXCEPT ![t] = b]
    BY <1>0, <1>2 DEF OpenListed
  <2>2. /\ a.names = thread[t].names /\ a.proj = thread[t].proj /\ a.todo = thread[t].names
        /\ b.names = thread[t].names /\ b.proj = thread[t].proj /\ b.todo = thread[t].todo \ {q}
    BY <1>0 DEF TypeInv, TypeOK, Thread
  <2>3. Less(a, t) /\ Less(b, t)
    BY <2>2 DEF ListsNamed
  <2> HIDE DEF a, b
  <2> QED
    BY <1>b, <2>1, <2>3
<1>3. ASSUME NEW t \in Threads, NEW q \in Projects, Visit(t, q)
      PROVE  ListsNamed' /\ Users(p)' \subseteq Users(p)
  <2>1. CASE NextName(t, thread[t].todo \ {q})
    BY <1>e, <2>1
  <2>2. CASE thread' = [thread EXCEPT ![t].pc = "poll", ![t].proj = q, ![t].todo = @ \ {q}]
    <3> DEFINE r == [thread[t] EXCEPT !.pc = "poll", !.proj = q, !.todo = thread[t].todo \ {q}]
    <3>1. thread' = [thread EXCEPT ![t] = r]
      BY <1>0, <2>2
    <3>2. r.names = thread[t].names /\ r.proj = q /\ r.todo = thread[t].todo \ {q}
      BY <1>0 DEF TypeInv, TypeOK, Thread
    <3>3. Less(r, t)
      BY <1>3, <3>2 DEF Visit, ListsNamed
    <3> HIDE DEF r
    <3> QED
      BY <1>b, <3>1, <3>3
  <2> QED
    BY <1>3, <2>1, <2>2 DEF Visit
<1>4. ASSUME NEW t \in Threads, PollPasses(t) \/ Commit(t) \/ Refused(t) \/ Fail(t)
      PROVE  ListsNamed' /\ Users(p)' \subseteq Users(p)
  BY <1>4, <1>e DEF PollPasses, Commit, Refused, Fail, RunEnds
<1>5. ASSUME NEW t \in Threads, PollSyncs(t) \/ Lock(t) \/ Begin(t)
      PROVE  ListsNamed' /\ Users(p)' \subseteq Users(p)
  <2>1. PICK pc \in {"open", "tx"} : thread' = [thread EXCEPT ![t].pc = pc]
    BY <1>5 DEF PollSyncs, Lock, Begin
  <2> DEFINE r == [thread[t] EXCEPT !.pc = pc]
  <2>2. thread' = [thread EXCEPT ![t] = r]
    BY <1>0, <2>1
  <2>3. r.names = thread[t].names /\ r.proj = thread[t].proj /\ r.todo = thread[t].todo
    BY <1>0 DEF TypeInv, TypeOK, Thread
  <2> HIDE DEF r
  <2> QED
    BY <1>c, <2>2, <2>3
<1>6. ASSUME NEW t \in Threads, NEW q \in Projects, Query(t, q) \/ AskDelete(t, q)
      PROVE  ListsNamed' /\ (Users(p)' \subseteq Users(p) \/ Exists(p))
  BY <1>6, <1>f DEF Query, AskDelete
<1>7. ASSUME NEW t \in Threads, NEW q \in Projects, AskIndex(t, q)
      PROVE  ListsNamed' /\ (q # p => Users(p)' \subseteq Users(p))
  BY <1>7, <1>f DEF AskIndex
<1>8. ASSUME NEW t \in Threads, Resolve(t) \/ DeleteProject(t)
      PROVE  ListsNamed' /\ Users(p)' \subseteq Users(p) \ {t}
  BY <1>8, <1>d DEF Resolve, DeleteProject
<1>9. ASSUME NEW t \in Threads, OpenToIndex(t)
      PROVE  ListsNamed' /\ Users(p)' \subseteq Users(p)
  <2>1. PICK db \in 1..(made + 1) : thread' = [thread EXCEPT ![t].pc = "run", ![t].db = db]
    BY <1>9 DEF OpenToIndex
  <2> DEFINE r == [thread[t] EXCEPT !.pc = "run", !.db = db]
  <2>2. thread' = [thread EXCEPT ![t] = r]
    BY <1>0, <2>1
  <2>3. r.names = thread[t].names /\ r.proj = thread[t].proj /\ r.todo = thread[t].todo
    BY <1>0 DEF TypeInv, TypeOK, Thread
  <2> HIDE DEF r
  <2> QED
    BY <1>c, <2>2, <2>3
<1>10. ASSUME NEW s \in Servers, Restart(s)
      PROVE  ListsNamed' /\ Users(p)' \subseteq Users(p)
  <2>1. \A t \in Threads : thread'[t] = thread[t] \/ thread'[t] = Idle
    BY <1>10 DEF Restart
  <2>2. \A t \in Threads : Less(Idle, t)
    BY DEF Idle
  <2> QED
    BY <1>a, <2>1, <2>2
<1>11. ASSUME UNCHANGED vars
       PROVE  ListsNamed' /\ Users(p)' \subseteq Users(p)
  BY <1>a, <1>11 DEF vars
<1>12. \A t \in Threads : DeleteProject(t) => Users(p)' \subseteq Users(p) \ {t}
  BY <1>8
<1>13. ListsNamed' /\ (\/ Users(p)' \subseteq Users(p)
                       \/ Exists(p)
                       \/ \E t \in Threads : AskIndex(t, p))
  BY <1>1, <1>2, <1>3, <1>4, <1>5, <1>6, <1>7, <1>8, <1>9, <1>10, <1>11 DEF Next
<1> QED
  BY <1>12, <1>13

\* Every step leaves a deleted project that nobody was about to use alone.
LEMMA GoneStep ==
  ASSUME TypeInv, ListsNamed, GoneUnused, [Next]_vars
  PROVE  GoneUnused'
<1>0. TypeOK /\ file \in [Projects -> 0..made] /\ gone \subseteq Projects
  BY DEF TypeInv, TypeOK
<1> SUFFICES ASSUME NEW p \in gone', p \notin known'
             PROVE  Users(p)' = {} /\ ~Exists(p)'
  BY DEF GoneUnused
<1>1. ASSUME NEW t \in Threads, DeleteProject(t), p = thread[t].proj
      PROVE  Users(p)' = {} /\ ~Exists(p)'
  <2>1. p \in Projects /\ file' = [file EXCEPT ![p] = None]
    BY <1>1, DeleteDoes
  <2>2. Users(p) = {t}
    BY <1>1 DEF DeleteProject
  <2>3. Users(p)' \subseteq Users(p) \ {t}
    BY <1>1, <2>1, UsersStep
  <2> QED
    BY <1>0, <2>1, <2>2, <2>3 DEF Exists
<1>2. CASE p \in gone \ known /\ ~\E t \in Threads : AskIndex(t, p)
  <2>1. Users(p) = {} /\ ~Exists(p) /\ p \in Projects
    BY <1>0, <1>2 DEF GoneUnused
  <2>2. Users(p)' = {}
    BY <1>2, <2>1, UsersStep
  <2>3. ASSUME NEW s \in Servers, NEW q \in Projects, NEW db \in 1..(made + 1), Opens(s, q, db)
        PROVE  file'[p] = file[p]
    <3>1. q # p
      BY <2>1, <2>3 DEF Opens, Users, ListsNamed
    <3>2. file' = file \/ file' = [file EXCEPT ![q] = db]
      BY <1>0, <2>3, ForProjectReturns DEF Opens
    <3> QED
      BY <1>0, <2>1, <3>1, <3>2
  <2>4. ASSUME NEW t \in Threads, DeleteProject(t)
        PROVE  file'[p] \in {file[p], None}
    BY <1>0, <2>1, <2>4, DeleteDoes
  <2>5. ASSUME NEW s \in Servers, Restart(s)
        PROVE  file'[p] = file[p]
    BY <2>5 DEF Restart
  <2>6. file'[p] \in {file[p], None}
    BY <2>3, <2>4, <2>5, StepKinds DEF fileVars
  <2> QED
    BY <2>1, <2>2, <2>6 DEF Exists
<1>3. CASE UNCHANGED <<gone, known>>
  <2>1. ASSUME NEW t \in Threads, AskIndex(t, p) PROVE FALSE
    BY <1>3, <2>1 DEF AskIndex
  <2> QED
    BY <1>2, <1>3, <2>1
<1>4. ASSUME NEW t \in Threads, DeleteProject(t)
      PROVE  Users(p)' = {} /\ ~Exists(p)'
  <2>1. CASE p = thread[t].proj
    BY <1>1, <1>4, <2>1
  <2>2. CASE p # thread[t].proj
    <3>1. p \in gone \ known
      BY <1>4, <2>2 DEF DeleteProject
    <3>2. ASSUME NEW u \in Threads, AskIndex(u, p) PROVE FALSE
      BY <3>2 DEF AskIndex
    <3> QED
      BY <1>2, <3>1, <3>2
  <2> QED
    BY <2>1, <2>2
<1>5. ASSUME NEW t \in Threads, NEW q \in Projects, AskDelete(t, q)
      PROVE  UNCHANGED <<gone, known>>
  BY <1>5 DEF AskDelete, auxVars
<1>6. ASSUME NEW t \in Threads, NEW q \in Projects, AskIndex(t, q)
      PROVE  Users(p)' = {} /\ ~Exists(p)'
  <2>1. p \in gone \ known
    BY <1>6 DEF AskIndex
  <2>2. ASSUME NEW u \in Threads, AskIndex(u, p) PROVE FALSE
    BY <2>2 DEF AskIndex
  <2> QED
    BY <1>2, <2>1, <2>2
<1> QED
  BY <1>3, <1>4, <1>5, <1>6, GoneKinds

\* Nothing that reads, lists or polls brings a deleted project back, unless it
\* was about to use the project when it was deleted.
THEOREM RevivedCorrect == Spec => []RevivedByItsUsers
<1> DEFINE Inv == TypeInv /\ ListsNamed /\ GoneUnused
<1>1. Init => Inv
  BY TypeInit DEF Init, ListsNamed, GoneUnused, Idle
<1>2. Inv /\ [Next]_vars => Inv'
  <2>1. ASSUME TypeInv, ListsNamed, [Next]_vars PROVE ListsNamed'
    <3>1. CASE Projects = {}
      BY <2>1, <3>1, TypeStep DEF TypeInv, TypeOK, Thread, ListsNamed
    <3>2. ASSUME NEW p \in Projects PROVE ListsNamed'
      BY <2>1, UsersStep
    <3> QED
      BY <3>1, <3>2
  <2> QED
    BY <2>1, TypeStep, GoneStep
<1>3. Inv => RevivedByItsUsers
  BY DEF GoneUnused, RevivedByItsUsers
<1> HIDE DEF Inv
<1> QED
  BY <1>1, <1>2, <1>3, PTL DEF Spec

-----------------------------------------------------------------------------
(* The directory implements the catalog.                                   *)

\* A database that was made before is the file of no project it was not of.
LEMMA FileFrom ==
  ASSUME TypeInv, [Next]_vars, NEW p \in Projects, file'[p] \in 1..made
  PROVE  file'[p] = file[p]
<1>0. TypeOK /\ made \in Nat /\ file \in [Projects -> 0..made]
  BY DEF TypeInv, TypeOK
<1>1. ASSUME NEW s \in Servers, NEW q \in Projects, NEW db \in 1..(made + 1), Opens(s, q, db)
      PROVE  file'[p] = file[p]
  <2>1. \/ file' = file
        \/ ~Exists(q) /\ db = made + 1 /\ file' = [file EXCEPT ![q] = db]
    <3>1. ForProject(s, q, db)
      BY <1>1 DEF Opens
    <3> QED
      BY <1>0, <3>1, ForProjectReturns
  <2> QED
    BY <1>0, <2>1
<1>2. ASSUME NEW t \in Threads, DeleteProject(t)
      PROVE  file'[p] = file[p]
  <2>1. thread[t].proj \in Projects /\ file' = [file EXCEPT ![thread[t].proj] = None]
    BY <1>2, DeleteDoes
  <2> QED
    BY <1>0, <2>1
<1>3. ASSUME NEW s \in Servers, Restart(s)
      PROVE  file'[p] = file[p]
  BY <1>3 DEF Restart
<1> QED
  BY <1>1, <1>2, <1>3, StepKinds DEF fileVars

\* Every step leaves each database with one project.
LEMMA OwnedStep ==
  ASSUME TypeInv, Owned, [Next]_vars
  PROVE  Owned'
<1>0. /\ TypeOK /\ made \in Nat /\ file \in [Projects -> 0..made]
      /\ store \in [Servers -> [Projects -> 0..made]]
  BY DEF TypeInv, TypeOK
\* First the files and the stores.
<1> DEFINE FilesOwned ==
      \A p \in Projects : file[p] # None =>
         /\ \A q \in Projects : file[q] = file[p] => q = p
         /\ \A s \in Servers, q \in Projects : store[s][q] = file[p] => q = p
<1>1. FilesOwned
  BY DEF Owned, Exists
<1>2. FilesOwned'
  <2>1. CASE UNCHANGED <<fileVars, removed>>
    BY <1>1, <2>1 DEF fileVars
  <2>2. ASSUME NEW s \in Servers, NEW p \in Projects, NEW db \in 1..(made + 1), Opens(s, p, db)
        PROVE  FilesOwned'
    <3>1. /\ store' = [store EXCEPT ![s][p] = db]
          /\ \/ file' = file
             \/ ~Exists(p) /\ db = made + 1 /\ file' = [file EXCEPT ![p] = db]
          /\ db = file'[p] \/ db = store[s][p]
      BY <1>0, <2>2, ForProjectReturns DEF Opens
    <3>2. \A r \in Servers, q \in Projects :
             store'[r][q] = IF r = s /\ q = p THEN db ELSE store[r][q]
      BY <1>0, <3>1
    <3>3. CASE file' = file
      <4>1. \A r \in Servers, q \in Projects : store'[r][q] \in {store[r][q], file[q]}
        BY <3>1, <3>2, <3>3
      <4> QED
        BY <1>1, <3>3, <4>1
    <3>4. CASE db = made + 1 /\ file' = [file EXCEPT ![p] = db]
      <4>1. /\ file'[p] = db /\ \A q \in Projects \ {p} : file'[q] = file[q] /\ file[q] # db
        BY <1>0, <3>4
      <4>2. \A r \in Servers, q \in Projects : store[r][q] # db
        BY <1>0, <3>4
      <4>3. ASSUME NEW q \in Projects, file'[q] # None, NEW q2 \in Projects, file'[q2] = file'[q]
            PROVE  q2 = q
        BY <1>1, <4>1, <4>3
      <4>4. ASSUME NEW q \in Projects, file'[q] # None, NEW r \in Servers, NEW q2 \in Projects,
                   store'[r][q2] = file'[q]
            PROVE  q2 = q
        BY <1>1, <3>2, <4>1, <4>2, <4>4
      <4> QED
        BY <4>3, <4>4
    <3> QED
      BY <3>1, <3>3, <3>4
  <2>3. ASSUME NEW t \in Threads, DeleteProject(t)
        PROVE  FilesOwned'
    <3>1. /\ thread[t].proj \in Projects /\ Of[t] \in Servers
          /\ file' = [file EXCEPT ![thread[t].proj] = None]
          /\ store' = [store EXCEPT ![Of[t]][thread[t].proj] = None]
      BY <2>3, DeleteDoes
    <3>2. /\ \A q \in Projects : file'[q] \in {None, file[q]}
          /\ \A r \in Servers, q \in Projects : store'[r][q] \in {None, store[r][q]}
      BY <1>0, <3>1
    <3> HIDE DEF None
    <3> QED
      BY <1>1, <3>2
  <2>4. ASSUME NEW s \in Servers, Restart(s)
        PROVE  FilesOwned'
    <3>1. file' = file /\ \A r \in Servers, q \in Projects : store'[r][q] \in {None, store[r][q]}
      BY <1>0, <2>4 DEF Restart
    <3> QED
      BY <1>1, <3>1
  <2> HIDE DEF FilesOwned
  <2> QED
    BY <2>1, <2>2, <2>3, <2>4, StepKinds
\* Then the runs, which begin with a store of their process.
<1>3. ASSUME NEW p \in Projects, file'[p] # None,
             NEW t \in Threads, thread'[t].pc \in {"run", "tx"}, thread'[t].db = file'[p]
      PROVE  thread'[t].proj = p
  <2>1. CASE /\ thread'[t].proj \in Projects
             /\ thread'[t].db = store'[Of[t]][thread'[t].proj]
    BY <1>2, <1>3, <2>1, LifecycleAssumption
  <2>2. CASE /\ thread[t].pc \in {"run", "tx"}
             /\ thread'[t].proj = thread[t].proj /\ thread'[t].db = thread[t].db
    <3>1. thread[t].db \in 1..made
      BY <2>2 DEF TypeInv, Working
    <3>2. file'[p] = file[p]
      BY <1>0, <1>3, <2>2, <3>1, FileFrom
    <3> QED
      BY <1>3, <2>2, <3>2 DEF Owned, Exists
  <2> QED
    BY <1>3, <2>1, <2>2, RunKinds
<1> QED
  BY <1>2, <1>3 DEF Owned, Exists

\* A step of the threads is one of the catalog, or none.
LEMMA CatalogStep ==
  ASSUME TypeInv, Owned, [Next]_vars
  PROVE  [Catalog!Next]_(Catalog!vars)
<1> DEFINE k == {p \in Projects : Exists(p)}
           x == {p \in Projects : file[p] \in graphs}
<1>0. /\ TypeOK /\ made \in Nat /\ file \in [Projects -> 0..made] /\ graphs \subseteq 1..made
  BY DEF TypeInv, TypeOK
<1>1. ASSUME file' = file, graphs' = graphs PROVE k' = k /\ x' = x
  BY <1>1 DEF Exists
<1>2. ASSUME NEW p \in Projects, NEW db, db = made + 1, ~Exists(p),
             file' = [file EXCEPT ![p] = db], graphs' = graphs
      PROVE  p \notin k /\ k' = k \cup {p} /\ x' = x
  <2>1. db \notin graphs /\ file[p] \notin graphs /\ db # None
    BY <1>0, <1>2 DEF Exists
  <2>2. file'[p] = db /\ \A q \in Projects \ {p} : file'[q] = file[q]
    BY <1>0, <1>2
  <2> QED
    BY <1>2, <2>1, <2>2 DEF Exists
<1>3. ASSUME NEW p \in Projects, file' = [file EXCEPT ![p] = None], graphs' = graphs
      PROVE  k' = k \ {p} /\ x' = x \ {p}
  <2>1. file'[p] = None /\ \A q \in Projects \ {p} : file'[q] = file[q]
    BY <1>0, <1>3
  <2>2. None \notin graphs
    BY <1>0
  <2> HIDE DEF None
  <2> QED
    BY <1>3, <2>1, <2>2 DEF Exists
<1>4. ASSUME NEW t \in Threads, Commit(t)
      PROVE  /\ k' = k
             /\ x' = x \/ \E p \in Projects : p \in k /\ x' = x \cup {p}
  <2>1. /\ thread[t].pc = "tx" /\ thread[t].proj \in Projects /\ thread[t].db \in 1..made
        /\ graphs' = graphs \cup {thread[t].db} /\ file' = file
    BY <1>4, CommitDoes DEF fileVars
  <2>2. \A q \in Projects : file[q] = thread[t].db => q = thread[t].proj /\ Exists(q)
    BY <2>1 DEF Owned, Exists
  <2>3. CASE file[thread[t].proj] = thread[t].db
    BY <2>1, <2>2, <2>3 DEF Exists
  <2>4. CASE file[thread[t].proj] # thread[t].db
    BY <2>1, <2>2, <2>4 DEF Exists
  <2> QED
    BY <2>3, <2>4
<1>5. \/ k' = k /\ x' = x
      \/ \E p \in Projects : p \notin k /\ k' = k \cup {p} /\ x' = x
      \/ \E p \in Projects : p \in k /\ x' = x \cup {p} /\ k' = k
      \/ \E p \in Projects : p \in k /\ k' = k \ {p} /\ x' = x \ {p}
  <2>1. CASE UNCHANGED <<graphs, reported>>
    <3>1. ASSUME NEW s \in Servers, NEW p \in Projects, NEW db \in 1..(made + 1), Opens(s, p, db)
          PROVE  \/ file' = file
                 \/ ~Exists(p) /\ db = made + 1 /\ file' = [file EXCEPT ![p] = db]
      BY <1>0, <3>1, ForProjectReturns DEF Opens
    <3>2. ASSUME NEW t \in Threads, DeleteProject(t)
          PROVE  \E p \in Projects : file' = [file EXCEPT ![p] = None]
      BY <3>2, DeleteDoes
    <3>3. ASSUME NEW s \in Servers, Restart(s) PROVE file' = file
      BY <3>3 DEF Restart
    <3>4. ASSUME NEW p \in Projects, file' = [file EXCEPT ![p] = None]
          PROVE  \/ k' = k /\ x' = x
                 \/ p \in k /\ k' = k \ {p} /\ x' = x \ {p}
      <4>1. k' = k \ {p} /\ x' = x \ {p}
        BY <1>3, <2>1, <3>4
      <4>2. x \subseteq k
        BY <1>0 DEF Exists
      <4> HIDE DEF k, x
      <4> QED
        BY <4>1, <4>2
    <3>5. \/ file' = file
          \/ \E p \in Projects, db \in 1..(made + 1) :
                ~Exists(p) /\ db = made + 1 /\ file' = [file EXCEPT ![p] = db]
          \/ \E p \in Projects : file' = [file EXCEPT ![p] = None]
      BY <3>1, <3>2, <3>3, StepKinds DEF fileVars
    <3> HIDE DEF k, x
    <3> QED
      BY <1>1, <1>2, <2>1, <3>4, <3>5
  <2> HIDE DEF k, x
  <2> QED
    BY <1>4, <2>1, GraphKinds
<1> QED
  BY <1>5 DEF Catalog!Next, Catalog!vars, Catalog!Create, Catalog!Index, Catalog!Delete

\* The directory of databases, as its processes share it, implements the
\* catalog: every step of theirs is one of the catalog, or none.
THEOREM CatalogImplemented == Spec => CatalogSpec
<1>1. Init => TypeInv /\ Owned
  BY TypeInit DEF Init, Owned, Exists
<1>2. TypeInv /\ Owned /\ [Next]_vars => (TypeInv /\ Owned)'
  BY TypeStep, OwnedStep
<1>3. Init => Catalog!Init
  BY DEF Init, Catalog!Init, Exists
<1>4. TypeInv /\ Owned /\ [Next]_vars => [Catalog!Next]_(Catalog!vars)
  BY CatalogStep
<1> QED
  BY <1>1, <1>2, <1>3, <1>4, PTL DEF Spec, CatalogSpec, Catalog!Spec
=============================================================================
