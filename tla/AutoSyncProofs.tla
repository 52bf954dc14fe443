--------------------------- MODULE AutoSyncProofs ---------------------------
(***************************************************************************)
(* Safety of AutoSync for every set of projects, files and requests and    *)
(* for every bound on what the environment does.                           *)
(***************************************************************************)
EXTENDS AutoSync, TLAPS

-----------------------------------------------------------------------------
(* The steps of pollAll between two polls.                                 *)

Looks(p) == Visit(p) \/ \E ps \in SUBSET Projects : p \in ps /\ ListProjects(ps)

\* Next, with the rounds of pollAll as steps that look at a project: a round
\* that visits none does nothing.
Steps ==
    \/ \E p \in Projects, f \in Files : WriteFile(p, f) \/ RemoveFile(p, f)
    \/ \E x \in Procs : RunStep(x) \/ Fail(x)
    \/ \E p \in Projects : Poll(p) \/ PollFails(p) \/ Looks(p)
    \/ Initialized \/ AutoSkip \/ AutoEnter
    \/ \E h \in Handlers : Acquire(h) \/ \E p \in Projects : Request(h, p)
    \/ Crash
    \/ UNCHANGED vars

LEMMA NextSteps ==
  ASSUME [Next]_vars
  PROVE  Steps
<1>1. ASSUME NEW ps \in SUBSET Projects, ListProjects(ps) PROVE Steps
  <2>1. CASE ps = {}
    <3>1. UNCHANGED vars
      BY <1>1, <2>1 DEF ListProjects, vars, dbVars, auxVars, budget
    <3> QED
      BY <3>1 DEF Steps
  <2>2. CASE ps # {}
    <3>1. PICK p \in ps : TRUE
      BY <2>2
    <3>2. p \in Projects /\ Looks(p)
      BY <1>1, <3>1 DEF Looks
    <3> QED
      BY <3>2 DEF Steps
  <2> QED
    BY <2>1, <2>2
<1>2. ASSUME NEW p \in Projects, Visit(p) PROVE Looks(p)
  BY <1>2 DEF Looks
<1> QED
  BY <1>1, <1>2 DEF Next, Steps

-----------------------------------------------------------------------------
(* The strengthening that makes the invariants inductive.                  *)

\* Whoever is not idle works for a project.
RunHasProject == \A x \in Procs : run[x].pc # "idle" => run[x].proj \in Projects

\* Every version that is stored anywhere is one an edit has already given out.
VersionsGivenOut ==
    \A p \in Projects, f \in Files :
        /\ disk[p][f] <= First + edits
        /\ hash[p][f] <= First + edits
        /\ fresh[f] <= First + edits
        /\ snapshot[p] # NoSnapshot => snapshot[p][f] <= First + edits

\* Only indexed projects are watched.
WatchedIsIndexed == \A p \in Projects : snapshot[p] # NoSnapshot \/ visit = p => row[p]

\* A file the watcher's run did not discover is not one that its pending
\* snapshot shows as present and unchanged.
FreshCovers ==
    run[Watcher].pc \in {"classify", "extract", "finish"} =>
        \A f \in Files \ run[Watcher].files :
            fresh[f] = disk[run[Watcher].proj][f] => fresh[f] = Absent

\* The auto-index goroutine exists only after the session was initialized.
AutoOnce == run[AutoIndexer].pc # "idle" => session.done

\* No edit gives a file the version that stands for a node without content.
NeverBare == \A p \in Projects, f \in Files : disk[p][f] # Bare

\* What a run has read still holds of the files nobody has touched since: the
\* kept ones have their stored hash, those to do the content it extracted, if
\* it extracted any.  Only an incremental run keeps files.
ReadsHold ==
    \A x \in Procs :
        LET r == run[x]
            p == r.proj IN
        /\ r.pc \in {"extract", "finish"} =>
              /\ r.todo \subseteq r.files
              /\ r.plan = "full" => r.todo = r.files
              /\ \A f \in r.files \ (r.todo \cup touched) :
                    hash[p][f] # Absent /\ disk[p][f] = hash[p][f]
        /\ r.pc = "finish" =>
              /\ \A f \in Files \ r.todo : r.content[f] = Absent
              /\ \A f \in r.todo \ touched : r.content[f] \in {disk[p][f], Absent, Bare}

\* Every version in a graph, stored or being built, is one given out too.
GraphGivenOut ==
    /\ \A p \in Projects, f \in Files : graph[p][f] <= First + edits
    /\ \A x \in Procs, f \in Files : run[x].content[f] <= First + edits

TypeInv == TypeOK /\ RunHasProject

IInv ==
    /\ TypeInv
    /\ OneIndexer /\ AutoOnce
    /\ VersionsGivenOut
    /\ WatchedIsIndexed
    /\ NeverBare /\ ReadsHold
    /\ HashVouches
    /\ FreshCovers
    /\ StalenessExplained

-----------------------------------------------------------------------------
USE DEF Absent, Bare, First, Version, Tree

\* The records a process's run goes through are well formed.
LEMMA RunRecords ==
    /\ EmptyTree \in Tree
    /\ Idle \in Runs
    /\ \A pc \in {"lock", "discover"}, p \in Projects :
          /\ Starting(pc, p) \in Runs
          /\ Starting(pc, p).pc = pc
          /\ Starting(pc, p).proj = p
  BY DEF EmptyTree, Idle, Runs, Stages, Starting

\* What a run computes from the disk and the tables has the type it is stored
\* with.
LEMMA RunResults ==
  ASSUME TypeInv, NEW x \in Procs, run[x].pc # "idle"
  PROVE  /\ run[x] \in Runs
         /\ run[x].proj \in Projects
         /\ \A failed : Content(x, failed) \in Tree
         /\ NewGraph(x) \in Tree
         /\ NewHash(x) \in Tree
         /\ LeftBehind(x) \subseteq Projects \X Files
<1>1. run[x] \in Runs /\ run[x].proj \in Projects
  BY DEF TypeInv, TypeOK, RunHasProject
<1>2. run[x].content \in Tree
  BY <1>1 DEF Runs
<1>3. disk[run[x].proj] \in Tree /\ graph[run[x].proj] \in Tree /\ hash[run[x].proj] \in Tree
  BY <1>1 DEF TypeInv, TypeOK
<1> QED
  BY <1>1, <1>2, <1>3 DEF Content, NewGraph, NewHash, LeftBehind

\* A step that changes the record of one process, or puts everybody to sleep,
\* keeps the type of run.
LEMMA RunUpdate ==
  ASSUME TypeInv, NEW x \in Procs, NEW r \in Runs,
         r.pc # "idle" => r.proj \in Projects,
         run' = [run EXCEPT ![x] = r]
  PROVE  run' \in [Procs -> Runs] /\ RunHasProject'
  BY DEF TypeInv, TypeOK, RunHasProject

\* The end of a run, whatever its outcome, leaves its process idle and the
\* lock free: Pipeline.Run and the deferred Unlock of its callers.
LEMMA RunEnds ==
  ASSUME TypeInv, NEW x \in Procs, Release(x)
  PROVE  /\ run' \in [Procs -> Runs] /\ RunHasProject'
         /\ indexMu' \in Procs \cup {Free} /\ touched' = {}
<1>1. Idle \in Runs /\ Idle.pc = "idle"
  BY RunRecords DEF Idle
<1> QED
  BY <1>1, RunUpdate DEF Release

\* pollProject keeps the types of the watcher's state when its callback
\* returns, with nil or an error.
LEMMA SyncReturnsTypes ==
  ASSUME TypeInv, NEW x \in Procs, NEW p \in Projects, NEW ok \in BOOLEAN,
         SyncReturns(x, p, ok)
  PROVE  /\ snapshot' \in [Projects -> Tree \cup {NoSnapshot}]
         /\ round' = round /\ visit' = visit
         /\ fresh' \in Tree
<1>1. EmptyTree \in Tree
  BY RunRecords
<1>2. CASE x = Watcher
  BY <1>1, <1>2 DEF TypeInv, TypeOK, SyncReturns
<1>3. CASE x # Watcher
  BY <1>3 DEF TypeInv, TypeOK, SyncReturns, watcherVars
<1> QED
  BY <1>2, <1>3

\* Storing indexStatus after a run keeps the type of the session.
LEMMA ReportReadyTypes ==
  ASSUME TypeInv, NEW x \in Procs, NEW p \in Projects, ReportReady(x, p)
  PROVE  session' \in [done : BOOLEAN, hadDB : BOOLEAN, gaveWay : BOOLEAN,
                       status : {"unset", "indexing", "ready"}]
  BY DEF TypeInv, TypeOK, ReportReady

\* The type invariant together with "whoever is not idle works for a project"
\* is inductive: the shape of every variable of the watcher, of the three
\* callers and of the database survives every handler.
LEMMA TypeInvHolds == Spec => []TypeInv
<1>1. Init => TypeInv
  BY ConstantsAssumption, RunRecords, SMTT(30)
  DEF Init, TypeInv, TypeOK, RunHasProject, NoSession, Idle
<1>2. TypeInv /\ [Next]_vars => TypeInv'
  <2> SUFFICES ASSUME TypeInv, [Next]_vars PROVE TypeInv'
    OBVIOUS
  <2> USE ConstantsAssumption DEF budget, dbVars, watcherVars, auxVars
  <2>1. ASSUME NEW p \in Projects, NEW f \in Files, WriteFile(p, f) PROVE TypeInv'
    <3>1. First + 1 + edits \in Nat
      BY DEF TypeInv, TypeOK
    <3>2. disk' \in [Projects -> Tree]
      BY <2>1, <3>1 DEF WriteFile, TypeInv, TypeOK
    <3> QED
      BY <2>1, <3>2 DEF WriteFile, Touch, MayEdit, TypeInv, TypeOK, RunHasProject
  <2>2. ASSUME NEW p \in Projects, NEW f \in Files, RemoveFile(p, f) PROVE TypeInv'
    <3>1. disk' \in [Projects -> Tree]
      BY <2>2 DEF RemoveFile, TypeInv, TypeOK
    <3> QED
      BY <2>2, <3>1 DEF RemoveFile, Touch, MayEdit, TypeInv, TypeOK, RunHasProject
  <2>0. ASSUME NEW out, Lapse(out) PROVE lapses' \in 0..MaxFaults
    BY <2>0 DEF Lapse, MayFail, TypeInv, TypeOK
  <2>3. ASSUME NEW x \in Procs, Discover(x) PROVE TypeInv'
    <3>1. PICK filtered \in SUBSET Present(run[x].proj) :
             /\ Lapse(filtered)
             /\ run' = [run EXCEPT ![x] = [@ EXCEPT !.pc = "classify",
                          !.files = Present(run[x].proj) \ filtered]]
      BY <2>3 DEF Discover
    <3> DEFINE r == [run[x] EXCEPT !.pc = "classify",
                        !.files = Present(run[x].proj) \ filtered]
    <3>2. r \in Runs /\ (r.pc # "idle" => r.proj \in Projects)
      BY <2>3, RunResults DEF Discover, Present, Runs, Stages
    <3>3. run' \in [Procs -> Runs] /\ RunHasProject'
      BY <3>1, <3>2, RunUpdate
    <3>4. lapses' \in 0..MaxFaults
      BY <2>0, <3>1
    <3> QED
      BY <2>3, <3>3, <3>4 DEF Discover, TypeInv, TypeOK
  <2>4. ASSUME NEW x \in Procs, Classify(x) PROVE TypeInv'
    <3> DEFINE r == [run[x] EXCEPT !.pc = "extract",
                        !.plan = IF Unchanged(x) = {} THEN "full" ELSE "incremental",
                        !.todo = run[x].files \ Unchanged(x)]
    <3>1. r \in Runs /\ (r.pc # "idle" => r.proj \in Projects)
      BY <2>4, RunResults DEF Classify, Runs, Stages
    <3>2. run' = [run EXCEPT ![x] = r]
      BY <2>4 DEF Classify
    <3>3. run' \in [Procs -> Runs] /\ RunHasProject'
      BY <3>1, <3>2, RunUpdate
    <3> QED
      BY <2>4, <3>3 DEF Classify, TypeInv, TypeOK
  <2>5. ASSUME NEW x \in Procs, NoOp(x) PROVE TypeInv'
    <3>1. run[x].proj \in Projects /\ LeftBehind(x) \subseteq Projects \X Files
      BY <2>5, RunResults DEF NoOp
    <3> QED
      BY <2>5, <3>1, RunEnds, SyncReturnsTypes, ReportReadyTypes
      DEF NoOp, TypeInv, TypeOK
  <2>6. ASSUME NEW x \in Procs, Extract(x) PROVE TypeInv'
    <3>1. PICK failed \in SUBSET (run[x].todo \cap Present(run[x].proj)) :
             /\ Lapse(failed)
             /\ run' = [run EXCEPT ![x] = [@ EXCEPT !.pc = "finish",
                                                   !.content = Content(x, failed)]]
      BY <2>6 DEF Extract
    <3> DEFINE r == [run[x] EXCEPT !.pc = "finish", !.content = Content(x, failed)]
    <3>2. r \in Runs /\ (r.pc # "idle" => r.proj \in Projects)
      BY <2>6, RunResults DEF Extract, Runs, Stages
    <3>3. run' \in [Procs -> Runs] /\ RunHasProject'
      BY <3>1, <3>2, RunUpdate
    <3>4. lapses' \in 0..MaxFaults
      BY <2>0, <3>1
    <3> QED
      BY <2>6, <3>3, <3>4 DEF Extract, TypeInv, TypeOK
  <2>7. ASSUME NEW x \in Procs, Finish(x) PROVE TypeInv'
    <3>1. run[x].proj \in Projects /\ NewGraph(x) \in Tree /\ NewHash(x) \in Tree
      BY <2>7, RunResults DEF Finish
    <3>2. missed' \subseteq Projects \X Files
      BY <2>7, <3>1 DEF Finish, Lost, Unseen, StillMissed, TypeInv, TypeOK
    <3>3. disk' = disk /\ row' \in [Projects -> BOOLEAN]
          /\ graph' \in [Projects -> Tree] /\ hash' \in [Projects -> Tree]
      BY <2>7, <3>1 DEF Finish, TypeInv, TypeOK
    <3> QED
      BY <2>7, <3>1, <3>2, <3>3, RunEnds, SyncReturnsTypes, ReportReadyTypes
      DEF Finish, budget, TypeInv, TypeOK
  <2>8. ASSUME NEW x \in Procs, Fail(x) PROVE TypeInv'
    <3>1. run[x].proj \in Projects
      BY <2>8, RunResults DEF Fail, Stages
    <3>2. /\ run' \in [Procs -> Runs] /\ RunHasProject'
          /\ indexMu' \in Procs \cup {Free} /\ touched' = {}
      BY <2>8, RunEnds DEF Fail
    <3>3. /\ snapshot' \in [Projects -> Tree \cup {NoSnapshot}]
          /\ round' = round /\ visit' = visit
          /\ fresh' \in Tree
      BY <2>8, <3>1, SyncReturnsTypes DEF Fail
    <3>4. faults' \in 0..MaxFaults
      BY <2>8 DEF Fail, MayFail, TypeInv, TypeOK
    <3> QED
      BY <2>8, <3>2, <3>3, <3>4 DEF Fail, TypeInv, TypeOK
  <2>9. ASSUME NEW p \in Projects, Poll(p) \/ PollFails(p) \/ Looks(p) PROVE TypeInv'
    <3>1. CASE PollBaseline(p) \/ PollSkip(p)
      <4>1. /\ snapshot' = [snapshot EXCEPT ![p] = disk[p]]
            /\ visit' = NoProject
            /\ missed' = missed \cup Stale(p)
        BY <3>1 DEF PollBaseline, PollSkip
      <4>2. snapshot' \in [Projects -> Tree \cup {NoSnapshot}]
        BY <4>1 DEF TypeInv, TypeOK
      <4>4. missed' \subseteq Projects \X Files
        BY <4>1 DEF Stale, TypeInv, TypeOK
      <4> QED
        BY <3>1, <4>1, <4>2, <4>4 DEF PollBaseline, PollSkip, TypeInv, TypeOK, RunHasProject
    <3>2. CASE PollEqual(p) \/ PollFails(p) \/ Looks(p)
      <4>1. round' \subseteq Projects /\ visit' \in Projects \cup {NoProject}
        BY <3>2 DEF PollEqual, PollFails, Looks, ListProjects, Visit, TypeInv, TypeOK
      <4>2. faults' \in 0..MaxFaults
        <5>1. faults' = faults \/ (faults' = faults + 1 /\ faults + lapses < MaxFaults)
          BY <3>2 DEF PollEqual, PollFails, MayFail, Looks, ListProjects, Visit
        <5> QED
          BY <5>1 DEF TypeInv, TypeOK
      <4> QED
        BY <3>2, <4>1, <4>2 DEF PollEqual, PollFails, Looks, ListProjects, Visit, TypeInv,
           TypeOK, RunHasProject
    <3>3. CASE PollSync(p)
      <4>1. Starting("discover", p) \in Runs /\ Starting("discover", p).proj \in Projects
        BY RunRecords
      <4> QED
        BY <3>3, <4>1, RunUpdate DEF PollSync, Procs, TypeInv, TypeOK
    <3> QED
      BY <2>9, <3>1, <3>2, <3>3 DEF Poll
  <2>10. CASE Initialized
    <3>1. Session \in Projects /\ Starting("lock", Session) \in Runs
          /\ Starting("lock", Session).proj \in Projects
      BY <2>10, RunRecords DEF Initialized
    <3>2. session' \in [done : BOOLEAN, hadDB : BOOLEAN, gaveWay : BOOLEAN,
                        status : {"unset", "indexing", "ready"}]
      BY <2>10, <3>1 DEF Initialized, TypeInv, TypeOK
    <3> QED
      BY <2>10, <3>1, <3>2, RunUpdate DEF Initialized, Procs, TypeInv, TypeOK
  <2>11. CASE AutoSkip
    <3>1. Idle \in Runs /\ Idle.pc = "idle"
      BY RunRecords DEF Idle
    <3>2. run' \in [Procs -> Runs] /\ RunHasProject'
      BY <2>11, <3>1, RunUpdate DEF AutoSkip, Procs
    <3>3. session' \in [done : BOOLEAN, hadDB : BOOLEAN, gaveWay : BOOLEAN,
                        status : {"unset", "indexing", "ready"}]
      BY <2>11 DEF AutoSkip, TypeInv, TypeOK
    <3> QED
      BY <2>11, <3>2, <3>3 DEF AutoSkip, TypeInv, TypeOK
  <2>12. ASSUME NEW x \in Procs, Enter(x),
                session' = session \/ session' = [session EXCEPT !.status = "indexing"]
         PROVE TypeInv'
    <3> DEFINE r == [run[x] EXCEPT !.pc = "discover"]
    <3>1. r \in Runs /\ r.proj \in Projects
      BY <2>12, RunResults DEF Enter, Runs, Stages
    <3>2. run' = [run EXCEPT ![x] = r]
      BY <2>12 DEF Enter
    <3>4. session \in [done : BOOLEAN, hadDB : BOOLEAN, gaveWay : BOOLEAN,
                       status : {"unset", "indexing", "ready"}]
      BY DEF TypeInv, TypeOK
    <3>3. session' \in [done : BOOLEAN, hadDB : BOOLEAN, gaveWay : BOOLEAN,
                        status : {"unset", "indexing", "ready"}]
      BY <2>12, <3>4
    <3> QED
      BY <2>12, <3>1, <3>2, <3>3, RunUpdate DEF Enter, TypeInv, TypeOK
  <2>13. ASSUME NEW h \in Handlers, NEW p \in Projects, Request(h, p) PROVE TypeInv'
    <3>1. Starting("lock", p) \in Runs /\ Starting("lock", p).proj \in Projects
      BY RunRecords
    <3> QED
      BY <2>13, <3>1, RunUpdate DEF Request, Procs, TypeInv, TypeOK
  <2>14. CASE Crash
    BY <2>14, RunRecords DEF Crash, Idle, NoSession, TypeInv, TypeOK, RunHasProject
  <2>15. CASE UNCHANGED vars
    BY <2>15 DEF vars, TypeInv, TypeOK, RunHasProject
  <2>16. AutoEnter => TypeInv'
    BY <2>12 DEF AutoEnter, Procs
  <2>17. ASSUME NEW h \in Handlers, Acquire(h) PROVE TypeInv'
    BY <2>12, <2>17 DEF Acquire, Procs
  <2> QED
    BY <2>1, <2>2, <2>3, <2>4, <2>5, <2>6, <2>7, <2>8, <2>9, <2>10, <2>11, <2>13,
       <2>14, <2>15, <2>16, <2>17, NextSteps DEF Steps, RunStep
<1> QED
  BY <1>1, <1>2, PTL DEF Spec

\* Every variable of the watcher, of the three callers of the pipeline and of
\* the database keeps its shape.
THEOREM TypeCorrect == Spec => []TypeOK
<1>1. TypeInv => TypeOK
  BY DEF TypeInv
<1> QED
  BY <1>1, TypeInvHolds, PTL

-----------------------------------------------------------------------------
\* Mutual exclusion of the pipelines: every action that enters or leaves the
\* stages of a run takes or frees indexMu, and only the holder's run moves.
LEMMA OneIndexerStep ==
  ASSUME TypeInv, OneIndexer, AutoOnce, [Next]_vars
  PROVE  OneIndexer'
<1> USE ConstantsAssumption DEF budget, dbVars, watcherVars, auxVars
<1>1. ASSUME NEW x \in Procs, Discover(x) \/ Classify(x) \/ Extract(x)
      PROVE  OneIndexer'
  <2>1. indexMu' = indexMu /\ indexMu = x
    BY <1>1 DEF Discover, Classify, Extract, Holds
  <2>2. run'[x].pc \in Stages
    <3>1. run \in [Procs -> Runs] /\ run[x] \in Runs
      BY DEF TypeInv, TypeOK
    <3>2. CASE Discover(x)
      BY <3>1, <3>2 DEF Discover, Runs, Stages
    <3>3. CASE Classify(x)
      BY <3>1, <3>3 DEF Classify, Runs, Stages
    <3>4. CASE Extract(x)
      BY <3>1, <3>4 DEF Extract, Runs, Stages
    <3> QED
      BY <1>1, <3>2, <3>3, <3>4
  <2>3. \A y \in Procs \ {x} : run'[y] = run[y]
    BY <1>1 DEF Discover, Classify, Extract, TypeInv, TypeOK
  <2> QED
    BY <2>1, <2>2, <2>3 DEF OneIndexer
<1>2. ASSUME NEW x \in Procs, NoOp(x) \/ Finish(x) \/ Fail(x)
      PROVE  OneIndexer'
  <2>1. indexMu = x /\ indexMu' = Free /\ run' = [run EXCEPT ![x] = Idle]
    BY <1>2 DEF NoOp, Finish, Fail, Holds, Release
  <2>2. Idle.pc \notin Stages
    BY DEF Idle, Stages
  <2> QED
    BY <2>1, <2>2 DEF OneIndexer, TypeInv, TypeOK
<1>3. ASSUME NEW x \in Procs, NEW p \in Projects, NEW pc \in {"lock", "discover"},
             run[x].pc \notin Stages, run' = [run EXCEPT ![x] = Starting(pc, p)],
             indexMu' = IF pc = "discover" THEN x ELSE indexMu,
             pc = "discover" => indexMu = Free
      PROVE  OneIndexer'
  <2>1. Starting(pc, p).pc = pc
    BY RunRecords
  <2> QED
    BY <1>3, <2>1 DEF OneIndexer, TypeInv, TypeOK, Stages
<1>4. ASSUME NEW x \in Procs, Enter(x) PROVE OneIndexer'
  <2>1. run[x].pc = "lock" /\ indexMu = Free /\ indexMu' = x
        /\ run' = [run EXCEPT ![x] = [run[x] EXCEPT !.pc = "discover"]]
    BY <1>4 DEF Enter
  <2>2. [run[x] EXCEPT !.pc = "discover"].pc = "discover"
    BY DEF TypeInv, TypeOK, Runs
  <2> QED
    BY <2>1, <2>2 DEF OneIndexer, TypeInv, TypeOK, Stages
<1>5. ASSUME NEW p \in Projects, PollSync(p) PROVE OneIndexer'
  BY <1>3, <1>5 DEF PollSync, Polls, Procs, Stages
<1>6. ASSUME Initialized PROVE OneIndexer'
  <2>1. Session \in Projects
    BY <1>6 DEF Initialized
  <2>2. run[AutoIndexer].pc = "idle"
    BY <1>6 DEF Initialized, AutoOnce
  <2> QED
    BY <1>3, <1>6, <2>1, <2>2 DEF Initialized, Procs, Stages
<1>7. ASSUME NEW h \in Handlers, NEW p \in Projects, Request(h, p) PROVE OneIndexer'
  BY <1>3, <1>7 DEF Request, Procs, Stages
<1>8. ASSUME AutoSkip PROVE OneIndexer'
  BY <1>8 DEF AutoSkip, Idle, OneIndexer, TypeInv, TypeOK, Stages, Procs
<1>9. ASSUME Crash PROVE OneIndexer'
  BY <1>9 DEF Crash, Idle, OneIndexer, Stages
<1>10. ASSUME UNCHANGED <<run, indexMu>> PROVE OneIndexer'
  BY <1>10 DEF OneIndexer
<1>11. ASSUME NEW p \in Projects, NEW f \in Files, WriteFile(p, f) \/ RemoveFile(p, f)
       PROVE OneIndexer'
  BY <1>10, <1>11 DEF WriteFile, RemoveFile
<1>12. ASSUME NEW p \in Projects,
              PollBaseline(p) \/ PollEqual(p) \/ PollSkip(p) \/ PollFails(p) \/ Looks(p)
       PROVE OneIndexer'
  BY <1>10, <1>12 DEF PollBaseline, PollEqual, PollSkip, PollFails, Looks, ListProjects, Visit
<1>13. ASSUME UNCHANGED vars PROVE OneIndexer'
  BY <1>10, <1>13 DEF vars
<1>14. ASSUME AutoEnter PROVE OneIndexer'
  BY <1>4, <1>14 DEF AutoEnter, Procs
<1>15. ASSUME NEW h \in Handlers, Acquire(h) PROVE OneIndexer'
  BY <1>4, <1>15 DEF Acquire, Procs
<1> QED
  BY <1>1, <1>2, <1>5, <1>6, <1>7, <1>8, <1>9, <1>11, <1>12, <1>13, <1>14, <1>15,
     NextSteps DEF Steps, RunStep, Poll

\* What a step does to the auto-index goroutine and the session's flag.
LEMMA AutoOnceStep ==
  ASSUME TypeInv, AutoOnce, [Next]_vars
  PROVE  AutoOnce'
<1> USE ConstantsAssumption DEF budget, dbVars, watcherVars, auxVars
<1>1. ASSUME NEW x \in Procs, RunStep(x) \/ Fail(x) PROVE AutoOnce'
  <2>1. session'.done = session.done
    BY <1>1 DEF RunStep, Discover, Classify, NoOp, Extract, Finish, Fail, ReportReady,
                TypeInv, TypeOK
  <2>2. run[x].pc # "idle"
    BY <1>1 DEF RunStep, Discover, Classify, NoOp, Extract, Finish, Fail, Stages
  <2>3. \A y \in Procs \ {x} : run'[y] = run[y]
    BY <1>1 DEF RunStep, Discover, Classify, NoOp, Extract, Finish, Fail, Release,
                TypeInv, TypeOK
  <2> QED
    BY <2>1, <2>2, <2>3 DEF AutoOnce, Procs
<1>2. ASSUME NEW x \in Procs, Enter(x), session'.done = session.done PROVE AutoOnce'
  <2>1. \A y \in Procs \ {x} : run'[y] = run[y]
    BY <1>2 DEF Enter, TypeInv, TypeOK
  <2> QED
    BY <1>2, <2>1 DEF Enter, AutoOnce, Procs
<1>3. ASSUME AutoEnter PROVE AutoOnce'
  <2>1. session'.done = session.done
    BY <1>3 DEF AutoEnter, TypeInv, TypeOK
  <2> QED
    BY <1>2, <1>3, <2>1 DEF AutoEnter, Procs
<1>4. ASSUME NEW h \in Handlers, Acquire(h) PROVE AutoOnce'
  BY <1>2, <1>4 DEF Acquire, Procs
<1>5. ASSUME NEW h \in Handlers, NEW p \in Projects, Request(h, p) PROVE AutoOnce'
  BY <1>5 DEF Request, AutoOnce, Procs, TypeInv, TypeOK
<1>6. ASSUME NEW p \in Projects, PollSync(p) PROVE AutoOnce'
  BY <1>6 DEF PollSync, AutoOnce, Procs, TypeInv, TypeOK
<1>7. ASSUME Initialized PROVE AutoOnce'
  BY <1>7 DEF Initialized, AutoOnce
<1>8. ASSUME AutoSkip \/ Crash PROVE AutoOnce'
  BY <1>8 DEF AutoSkip, Crash, Idle, AutoOnce, Procs, TypeInv, TypeOK
<1>9. ASSUME UNCHANGED <<run, session>> PROVE AutoOnce'
  BY <1>9 DEF AutoOnce
<1>10. ASSUME NEW p \in Projects, NEW f \in Files, WriteFile(p, f) \/ RemoveFile(p, f)
       PROVE AutoOnce'
  BY <1>9, <1>10 DEF WriteFile, RemoveFile
<1>11. ASSUME NEW p \in Projects,
              PollBaseline(p) \/ PollEqual(p) \/ PollSkip(p) \/ PollFails(p) \/ Looks(p)
       PROVE AutoOnce'
  BY <1>9, <1>11 DEF PollBaseline, PollEqual, PollSkip, PollFails, Looks, ListProjects, Visit
<1>12. ASSUME UNCHANGED vars PROVE AutoOnce'
  BY <1>9, <1>12 DEF vars
<1> QED
  BY <1>1, <1>3, <1>4, <1>5, <1>6, <1>7, <1>8, <1>10, <1>11, <1>12, NextSteps
  DEF Steps, Poll

\* One pipeline at a time, over all projects and all its callers.
THEOREM MutualExclusion == Spec => []OneIndexer
<1> DEFINE LockInv == OneIndexer /\ AutoOnce
<1>1. Init => LockInv
  BY ConstantsAssumption DEF Init, OneIndexer, AutoOnce, Idle, Stages, Procs
<1>2. TypeInv /\ LockInv /\ [Next]_vars => LockInv'
  BY OneIndexerStep, AutoOnceStep
<1> QED
  BY <1>1, <1>2, TypeInvHolds, PTL DEF Spec

-----------------------------------------------------------------------------
(* Which steps touch the variables that staleness is about.                *)

Ending(x) == NoOp(x) \/ Finish(x) \/ Fail(x)

\* A step that neither edits, nor polls, nor ends a run, nor crashes leaves
\* the disk, the tables, the watcher and the missed changes alone.
LEMMA OtherSteps ==
  ASSUME [Next]_vars
  PROVE  \/ \E p \in Projects, f \in Files : WriteFile(p, f) \/ RemoveFile(p, f)
         \/ \E x \in Procs : Ending(x)
         \/ \E p \in Projects : PollBaseline(p) \/ PollSkip(p) \/ PollSync(p)
         \/ Crash
         \/ UNCHANGED <<disk, row, graph, hash, snapshot, fresh, missed, edits>>
<1> USE DEF budget, dbVars, watcherVars, auxVars
<1>1. ASSUME NEW x \in Procs, Discover(x) \/ Classify(x) \/ Extract(x)
      PROVE  UNCHANGED <<disk, row, graph, hash, snapshot, fresh, missed, edits>>
  BY <1>1 DEF Discover, Classify, Extract
<1>2. ASSUME NEW p \in Projects, PollEqual(p) \/ PollFails(p) \/ Looks(p)
      PROVE  UNCHANGED <<disk, row, graph, hash, snapshot, fresh, missed, edits>>
  BY <1>2 DEF PollEqual, PollFails, Looks, ListProjects, Visit
<1>3. ASSUME Initialized \/ AutoSkip \/ AutoEnter
      PROVE  UNCHANGED <<disk, row, graph, hash, snapshot, fresh, missed, edits>>
  BY <1>3 DEF Initialized, AutoSkip, AutoEnter, Enter
<1>4. ASSUME NEW h \in Handlers, Acquire(h) \/ \E p \in Projects : Request(h, p)
      PROVE  UNCHANGED <<disk, row, graph, hash, snapshot, fresh, missed, edits>>
  BY <1>4 DEF Acquire, Enter, Request
<1>5. ASSUME UNCHANGED vars
      PROVE  UNCHANGED <<disk, row, graph, hash, snapshot, fresh, missed, edits>>
  BY <1>5 DEF vars
<1> QED
  BY <1>1, <1>2, <1>3, <1>4, <1>5, NextSteps DEF Steps, RunStep, Ending, Poll

\* The end of a run changes the watcher's snapshot only if it was the
\* watcher's own run, and then to the one captured before it started.
LEMMA EndingSteps ==
  ASSUME TypeInv, OneIndexer, NEW x \in Procs, Ending(x)
  PROVE  /\ run[x].pc \in Stages /\ run[x].proj \in Projects
         /\ disk' = disk /\ edits' = edits
         /\ fresh' = EmptyTree \/ fresh' = fresh
         /\ snapshot' # snapshot =>
              x = Watcher /\ snapshot' = [snapshot EXCEPT ![run[x].proj] = fresh]
         /\ Fail(x) => snapshot' = snapshot
<1>1. run[x].pc \in Stages /\ run[x].proj \in Projects
  BY RunResults DEF Ending, NoOp, Finish, Fail, Stages
<1>2. disk' = disk /\ edits' = edits
  BY DEF Ending, NoOp, Finish, Fail, budget
<1>3. \/ UNCHANGED watcherVars
      \/ /\ x = Watcher /\ fresh' = EmptyTree
         /\ \/ snapshot' = [snapshot EXCEPT ![run[x].proj] = fresh] /\ ~Fail(x)
            \/ snapshot' = snapshot
  <2>1. CASE NoOp(x) \/ Finish(x)
    <3>1. ~Fail(x)
      <4>1. faults' = faults
        BY <2>1 DEF NoOp, Finish, budget
      <4>2. faults \in Nat
        BY ConstantsAssumption DEF TypeInv, TypeOK
      <4>3. Fail(x) => faults' = faults + 1
        BY DEF Fail
      <4> QED
        BY <4>1, <4>2, <4>3
    <3> QED
      BY <2>1, <3>1 DEF NoOp, Finish, SyncReturns
  <2>2. CASE Fail(x)
    BY <2>2 DEF Fail, SyncReturns
  <2> QED
    BY <2>1, <2>2 DEF Ending
<1> QED
  BY <1>1, <1>2, <1>3 DEF watcherVars

\* Edits give out versions in increasing order.
LEMMA VersionsStep ==
  ASSUME TypeInv, OneIndexer, VersionsGivenOut, [Next]_vars
  PROVE  VersionsGivenOut'
<1> USE ConstantsAssumption
<1>1. /\ edits \in Nat
      /\ \A p \in Projects, f \in Files :
            /\ disk[p][f] \in Nat /\ hash[p][f] \in Nat /\ fresh[f] \in Nat
            /\ snapshot[p] # NoSnapshot => snapshot[p][f] \in Nat
  BY DEF TypeInv, TypeOK
<1>2. ASSUME NEW p \in Projects, NEW f \in Files, WriteFile(p, f) \/ RemoveFile(p, f)
      PROVE  VersionsGivenOut'
  <2>1. /\ edits' = edits + 1
        /\ UNCHANGED <<hash, fresh, snapshot>>
        /\ \A q \in Projects, g \in Files :
              disk'[q][g] = disk[q][g] \/ disk'[q][g] = First + 1 + edits \/ disk'[q][g] = 0
    <3>1. edits' = edits + 1 /\ UNCHANGED <<hash, fresh, snapshot>>
      BY <1>2 DEF WriteFile, RemoveFile, dbVars, watcherVars
    <3>2. \/ disk' = [disk EXCEPT ![p][f] = First + 1 + edits]
          \/ disk' = [disk EXCEPT ![p][f] = Absent]
      BY <1>2 DEF WriteFile, RemoveFile
    <3>3. disk \in [Projects -> Tree]
      BY DEF TypeInv, TypeOK
    <3> QED
      BY <3>1, <3>2, <3>3
  <2> QED
    BY <1>1, <2>1 DEF VersionsGivenOut
<1>3. ASSUME NEW x \in Procs, Ending(x) PROVE VersionsGivenOut'
  <2>1. \A p \in Projects, f \in Files : hash'[p][f] <= First + edits
    <3>1. CASE hash' = hash
      BY <3>1 DEF VersionsGivenOut
    <3>2. CASE Finish(x)
      <4>1. /\ hash' = [hash EXCEPT ![run[x].proj] = NewHash(x)]
            /\ run[x].proj \in Projects
        BY <3>2, RunResults DEF Finish
      <4>2. \A f \in Files : NewHash(x)[f] \in {disk[run[x].proj][f], 0, hash[run[x].proj][f]}
        BY DEF NewHash
      <4>3. \A f \in Files : NewHash(x)[f] <= First + edits
        BY <1>1, <4>1, <4>2 DEF VersionsGivenOut
      <4> QED
        BY <4>1, <4>3 DEF VersionsGivenOut, TypeInv, TypeOK
    <3> QED
      BY <1>3, <3>1, <3>2 DEF Ending, NoOp, Fail, dbVars
  <2>2. \A f \in Files : fresh'[f] <= First + edits
    BY <1>1, <1>3, EndingSteps DEF VersionsGivenOut, EmptyTree
  <2>3. \A p \in Projects, f \in Files :
           snapshot'[p] # NoSnapshot => snapshot'[p][f] <= First + edits
    BY <1>3, EndingSteps DEF VersionsGivenOut, TypeInv, TypeOK
  <2>4. disk' = disk /\ edits' = edits
    BY <1>3, EndingSteps
  <2> QED
    BY <2>1, <2>2, <2>3, <2>4 DEF VersionsGivenOut
<1>4. ASSUME NEW p \in Projects, PollBaseline(p) \/ PollSkip(p) \/ PollSync(p)
      PROVE  VersionsGivenOut'
  <2>1. /\ UNCHANGED <<disk, hash, edits>>
        /\ fresh' = fresh \/ fresh' = disk[p]
        /\ snapshot' = snapshot \/ snapshot' = [snapshot EXCEPT ![p] = disk[p]]
    BY <1>4 DEF PollBaseline, PollSkip, PollSync, dbVars, budget
  <2> QED
    BY <2>1 DEF VersionsGivenOut, TypeInv, TypeOK
<1>5. ASSUME Crash PROVE VersionsGivenOut'
  BY <1>5, <1>1 DEF Crash, VersionsGivenOut, EmptyTree, dbVars
<1>6. ASSUME UNCHANGED <<disk, row, graph, hash, snapshot, fresh, missed, edits>>
      PROVE  VersionsGivenOut'
  BY <1>6 DEF VersionsGivenOut
<1> QED
  BY <1>2, <1>3, <1>4, <1>5, <1>6, OtherSteps

\* No step takes a project's row away, and pollAll polls only projects that
\* have one.
LEMMA VisitStep ==
  ASSUME TypeInv, OneIndexer, [Next]_vars
  PROVE  /\ \A p \in Projects : row[p] => row'[p]
         /\ \/ visit' \in {visit, NoProject}
            \/ visit' \in Projects /\ row[visit']
<1>1. ASSUME NEW x \in Procs, Ending(x)
      PROVE  visit' = visit /\ \A p \in Projects : row[p] => row'[p]
  <2>1. visit' = visit
    BY <1>1 DEF Ending, NoOp, Finish, Fail, SyncReturns, watcherVars
  <2>2. row' = row \/ row' = [row EXCEPT ![run[x].proj] = TRUE]
    BY <1>1 DEF Ending, NoOp, Finish, Fail, dbVars
  <2> QED
    BY <2>1, <2>2 DEF TypeInv, TypeOK
<1>2. ASSUME NEW x \in Procs, Discover(x) \/ Classify(x) \/ Extract(x)
      PROVE  visit' = visit /\ row' = row
  BY <1>2 DEF Discover, Classify, Extract, dbVars, watcherVars
<1>3. ASSUME NEW p \in Projects, Poll(p) \/ PollFails(p)
      PROVE  visit' = NoProject /\ row' = row
  BY <1>3 DEF Poll, PollBaseline, PollEqual, PollSkip, PollSync, PollFails, dbVars
<1>4. ASSUME NEW p \in Projects, Looks(p)
      PROVE  row' = row /\ (visit' \in {visit, NoProject} \/ (visit' = p /\ row[p]))
  BY <1>4 DEF Looks, ListProjects, Visit, dbVars
<1>5. ASSUME \/ \E p \in Projects, f \in Files : WriteFile(p, f) \/ RemoveFile(p, f)
             \/ Initialized \/ AutoSkip \/ AutoEnter
             \/ \E h \in Handlers : Acquire(h) \/ \E p \in Projects : Request(h, p)
             \/ UNCHANGED vars
      PROVE  visit' = visit /\ row' = row
  BY <1>5 DEF WriteFile, RemoveFile, Initialized, AutoSkip, AutoEnter, Enter, Acquire, Request,
              vars, dbVars, watcherVars
<1>6. ASSUME Crash PROVE visit' = NoProject /\ row' = row
  BY <1>6 DEF Crash, dbVars
<1> QED
  BY <1>1, <1>2, <1>3, <1>4, <1>5, <1>6, NextSteps DEF Steps, RunStep, Ending

\* A project has a snapshot only once a run has committed its row: pollAll
\* goes over the projects that have one.
LEMMA WatchedStep ==
  ASSUME TypeInv, OneIndexer, WatchedIsIndexed, [Next]_vars
  PROVE  WatchedIsIndexed'
<1> DEFINE Snapped == \A p \in Projects : snapshot[p] # NoSnapshot => row[p]
<1>1. ASSUME NEW p \in Projects, NEW f \in Files, WriteFile(p, f) \/ RemoveFile(p, f)
      PROVE  UNCHANGED <<row, snapshot>>
  BY <1>1 DEF WriteFile, RemoveFile, dbVars, watcherVars
<1>2. ASSUME NEW x \in Procs, Ending(x) PROVE Snapped'
  <2>1. CASE Fail(x)
    BY <2>1, EndingSteps DEF Ending, Fail, dbVars, WatchedIsIndexed
  <2>2. CASE NoOp(x) \/ Finish(x)
    <3>1. run[x].proj \in Projects /\ row' = [row EXCEPT ![run[x].proj] = TRUE]
      BY <2>2, EndingSteps DEF Ending, NoOp, Finish
    <3>2. \A p \in Projects \ {run[x].proj} : snapshot'[p] = snapshot[p]
      BY <1>2, EndingSteps DEF TypeInv, TypeOK
    <3> QED
      BY <3>1, <3>2 DEF WatchedIsIndexed, TypeInv, TypeOK
  <2> QED
    BY <1>2, <2>1, <2>2 DEF Ending
<1>3. ASSUME NEW p \in Projects, PollBaseline(p) \/ PollSkip(p) \/ PollSync(p)
      PROVE  Snapped'
  <2>1. row[p] /\ row' = row
    BY <1>3 DEF PollBaseline, PollSkip, PollSync, Polls, dbVars, WatchedIsIndexed
  <2>2. \A q \in Projects \ {p} : snapshot'[q] = snapshot[q]
    BY <1>3 DEF PollBaseline, PollSkip, PollSync, TypeInv, TypeOK
  <2> QED
    BY <2>1, <2>2 DEF WatchedIsIndexed
<1>4. ASSUME Crash PROVE Snapped'
  BY <1>4 DEF Crash, WatchedIsIndexed
<1> QED
  <2>1. Snapped'
    BY <1>1, <1>2, <1>3, <1>4, OtherSteps DEF WatchedIsIndexed
  <2>2. \A p \in Projects : visit' = p => row'[p]
    BY VisitStep, ConstantsAssumption DEF WatchedIsIndexed
  <2> QED
    BY <2>1, <2>2 DEF WatchedIsIndexed

\* An edit changes one file and, in missed, at most the entry of that file.
LEMMA EditSteps ==
  ASSUME TypeInv, VersionsGivenOut,
         NEW p \in Projects, NEW f \in Files, WriteFile(p, f) \/ RemoveFile(p, f)
  PROVE  /\ UNCHANGED <<row, graph, hash, snapshot, fresh, run>>
         /\ disk' \in [Projects -> Tree]
         /\ \A q \in Projects, g \in Files : q # p \/ g # f => disk'[q][g] = disk[q][g]
         /\ \A m \in missed : m # <<p, f>> => m \in missed'
         /\ disk'[p][f] = 0 \/ disk'[p][f] > First + edits
         /\ snapshot[p] # NoSnapshot /\ snapshot[p][f] = disk'[p][f] /\ graph[p][f] # disk'[p][f]
              => <<p, f>> \in missed'
<1>1. disk \in [Projects -> Tree] /\ edits \in Nat
  BY ConstantsAssumption DEF TypeInv, TypeOK
<1>2. CASE WriteFile(p, f)
  <2>1. /\ disk' = [disk EXCEPT ![p][f] = First + 1 + edits]
        /\ missed' = missed \ {<<p, f>>}
        /\ UNCHANGED <<row, graph, hash, snapshot, fresh, run>>
    BY <1>2 DEF WriteFile, dbVars, watcherVars
  <2>2. snapshot[p] # NoSnapshot => snapshot[p][f] <= First + edits
    BY DEF VersionsGivenOut
  <2>3. disk'[p][f] = First + 1 + edits /\ disk' \in [Projects -> Tree]
    BY <1>1, <2>1
  <2>4. snapshot[p] # NoSnapshot => snapshot[p][f] # disk'[p][f]
    <3>1. snapshot[p] # NoSnapshot => snapshot[p][f] \in Nat
      BY DEF TypeInv, TypeOK
    <3> QED
      BY <1>1, <2>2, <2>3, <3>1
  <2> QED
    BY <1>1, <2>1, <2>3, <2>4
<1>3. CASE RemoveFile(p, f)
  <2>1. /\ disk' = [disk EXCEPT ![p][f] = Absent]
        /\ missed' = IF Seen(snapshot, p, f) /\ graph[p][f] # Absent
                     THEN missed \cup {<<p, f>>} ELSE missed \ {<<p, f>>}
        /\ UNCHANGED <<row, graph, hash, snapshot, fresh, run>>
    BY <1>3 DEF RemoveFile, dbVars, watcherVars
  <2>2. disk'[p][f] = Absent /\ disk' \in [Projects -> Tree]
    BY <1>1, <2>1
  <2> QED
    BY <1>1, <2>1, <2>2 DEF Seen
<1> QED
  BY <1>2, <1>3

\* No edit makes a file Bare.
LEMMA NeverBareStep ==
  ASSUME TypeInv, OneIndexer, NeverBare, [Next]_vars
  PROVE  NeverBare'
<1> USE ConstantsAssumption
<1>1. ASSUME NEW p \in Projects, NEW f \in Files, WriteFile(p, f) \/ RemoveFile(p, f)
      PROVE  NeverBare'
  <2>1. edits \in Nat /\ disk \in [Projects -> Tree]
    BY DEF TypeInv, TypeOK
  <2>2. \A q \in Projects, g \in Files :
           disk'[q][g] = disk[q][g] \/ disk'[q][g] = 0 \/ disk'[q][g] = First + 1 + edits
    BY <1>1, <2>1 DEF WriteFile, RemoveFile
  <2>3. First + 1 + edits # 1
    BY <2>1
  <2> QED
    BY <2>2, <2>3 DEF NeverBare
<1>2. ASSUME disk' = disk PROVE NeverBare'
  BY <1>2 DEF NeverBare
<1>3. ASSUME NEW x \in Procs, Ending(x) PROVE NeverBare'
  BY <1>2, <1>3, EndingSteps
<1>4. ASSUME NEW p \in Projects, PollBaseline(p) \/ PollSkip(p) \/ PollSync(p)
      PROVE  NeverBare'
  BY <1>2, <1>4 DEF PollBaseline, PollSkip, PollSync
<1>5. Crash => NeverBare'
  BY <1>2 DEF Crash
<1> QED
  BY <1>1, <1>2, <1>3, <1>4, <1>5, OtherSteps

\* An edit behind a run is put down in touched.
LEMMA ReadsHoldEdit ==
  ASSUME TypeInv, VersionsGivenOut, ReadsHold,
         NEW p \in Projects, NEW f \in Files, WriteFile(p, f) \/ RemoveFile(p, f)
  PROVE  ReadsHold'
<1>1. UNCHANGED <<run, hash>> /\ touched \subseteq touched'
  BY DEF WriteFile, RemoveFile, Touch, dbVars
<1>2. \A q \in Projects, g \in Files : q # p \/ g # f => disk'[q][g] = disk[q][g]
  BY EditSteps
<1>3. ASSUME NEW x \in Procs, run[x].pc \in {"extract", "finish"}, run[x].proj = p
      PROVE  f \in touched'
  <2>1. Busy(p)
    BY <1>3 DEF Busy
  <2> QED
    BY <2>1 DEF WriteFile, RemoveFile, Touch
<1>4. ASSUME NEW x \in Procs, run[x].pc \in {"extract", "finish"}
      PROVE  /\ run[x].proj \in Projects /\ run[x].files \subseteq Files
             /\ run[x].todo \subseteq Files
             /\ \A g \in Files \ touched' : disk'[run[x].proj][g] = disk[run[x].proj][g]
  BY <1>2, <1>3, <1>4 DEF TypeInv, TypeOK, RunHasProject, Runs
<1> SUFFICES ASSUME NEW x \in Procs, run[x].pc \in {"extract", "finish"}
             PROVE  LET r == run[x]
                        q == r.proj IN
                    /\ r.todo \subseteq r.files
                    /\ r.plan = "full" => r.todo = r.files
                    /\ \A g \in r.files \ (r.todo \cup touched') :
                          hash[q][g] # Absent /\ disk'[q][g] = hash[q][g]
                    /\ r.pc = "finish" =>
                          /\ \A g \in Files \ r.todo : r.content[g] = Absent
                          /\ \A g \in r.todo \ touched' :
                                r.content[g] \in {disk'[q][g], Absent, Bare}
  BY <1>1 DEF ReadsHold
<1> QED
  BY <1>1, <1>4 DEF ReadsHold

\* What a run read of the files nobody has touched since holds to its commit.
LEMMA ReadsHoldStep ==
  ASSUME TypeInv, OneIndexer, AutoOnce, VersionsGivenOut, ReadsHold, [Next]_vars
  PROVE  ReadsHold'
<1> DEFINE Reading == {"extract", "finish"}
<1> USE ConstantsAssumption
<1>0. /\ run \in [Procs -> Runs]
      /\ \A x \in Procs : /\ run[x] \in Runs
                          /\ run[x].pc # "idle" => run[x].proj \in Projects
  BY DEF TypeInv, TypeOK, RunHasProject
<1>1. ASSUME UNCHANGED <<disk, hash, touched>>,
             \A x \in Procs : run'[x].pc \in Reading => run'[x] = run[x]
      PROVE  ReadsHold'
  BY <1>1 DEF ReadsHold
<1>2. ASSUME \A x \in Procs : run'[x].pc \notin Reading PROVE ReadsHold'
  BY <1>2 DEF ReadsHold
<1>3. ASSUME NEW p \in Projects, NEW f \in Files, WriteFile(p, f) \/ RemoveFile(p, f)
      PROVE  ReadsHold'
  BY <1>3, ReadsHoldEdit
<1>4. ASSUME NEW x \in Procs, Ending(x) PROVE ReadsHold'
  <2>1. indexMu = x /\ run' = [run EXCEPT ![x] = Idle]
    BY <1>4 DEF Ending, NoOp, Finish, Fail, Holds, Release
  <2>2. \A y \in Procs \ {x} : run[y].pc \notin Reading
    BY <2>1 DEF OneIndexer, Stages
  <2> QED
    BY <1>0, <1>2, <2>1, <2>2 DEF Idle
<1>5. ASSUME NEW x \in Procs, Discover(x) PROVE ReadsHold'
  <2>1. run'[x].pc = "classify" /\ \A y \in Procs \ {x} : run'[y] = run[y]
    BY <1>0, <1>5 DEF Discover, Runs
  <2>2. UNCHANGED <<disk, hash, touched>>
    BY <1>5 DEF Discover, dbVars, auxVars
  <2> QED
    BY <1>1, <2>1, <2>2
<1>6. ASSUME NEW x \in Procs, Classify(x) PROVE ReadsHold'
  <2>1. /\ indexMu = x /\ run'[x].pc = "extract" /\ run'[x].proj = run[x].proj
        /\ run'[x].files = run[x].files /\ run'[x].todo = run[x].files \ Unchanged(x)
        /\ run'[x].plan = IF Unchanged(x) = {} THEN "full" ELSE "incremental"
        /\ \A y \in Procs \ {x} : run'[y] = run[y]
        /\ UNCHANGED <<disk, hash>>
    BY <1>0, <1>6 DEF Classify, Holds, Runs, dbVars
  <2>2. \A y \in Procs \ {x} : run'[y].pc \notin Reading
    BY <2>1 DEF OneIndexer, Stages
  <2>3. \A f \in run'[x].files \ run'[x].todo :
           hash[run[x].proj][f] # Absent /\ disk[run[x].proj][f] = hash[run[x].proj][f]
    BY <2>1 DEF Unchanged
  <2>4. run'[x].todo \subseteq run'[x].files
        /\ (run'[x].plan = "full" => run'[x].todo = run'[x].files)
    BY <2>1
  <2>5. \A f \in run'[x].files \ (run'[x].todo \cup touched') :
           /\ hash'[run'[x].proj][f] # Absent
           /\ disk'[run'[x].proj][f] = hash'[run'[x].proj][f]
    BY <2>1, <2>3
  <2>6. run'[x].pc # "finish"
    BY <2>1
  <2> QED
    BY <2>2, <2>4, <2>5, <2>6 DEF ReadsHold
<1>7. ASSUME NEW x \in Procs, Extract(x) PROVE ReadsHold'
  <2> DEFINE p == run[x].proj
  <2>1. /\ indexMu = x /\ run[x].pc = "extract"
        /\ \A y \in Procs \ {x} : run'[y] = run[y]
        /\ UNCHANGED <<disk, hash>> /\ touched' = touched \ run[x].todo
    BY <1>0, <1>7 DEF Extract, Holds, dbVars
  <2>2. PICK failed :
           run' = [run EXCEPT ![x] = [@ EXCEPT !.pc = "finish", !.content = Content(x, failed)]]
    BY <1>7 DEF Extract
  <2>3. /\ run'[x].pc = "finish" /\ run'[x].proj = p /\ run'[x].files = run[x].files
        /\ run'[x].todo = run[x].todo /\ run'[x].plan = run[x].plan
        /\ run'[x].content = Content(x, failed)
    BY <1>0, <2>2 DEF Runs
  <2>4. \A y \in Procs \ {x} : run'[y].pc \notin Reading
    BY <2>1 DEF OneIndexer, Stages
  <2>5. /\ \A f \in Files \ run[x].todo : Content(x, failed)[f] = Absent
        /\ \A f \in Files : Content(x, failed)[f] \in {disk[p][f], Absent, Bare}
    BY DEF Content
  <2>6. run[x].todo \subseteq Files
    BY <1>0 DEF Runs
  <2>7. /\ run[x].todo \subseteq run[x].files
        /\ run[x].plan = "full" => run[x].todo = run[x].files
        /\ \A f \in run[x].files \ (run[x].todo \cup touched) :
              hash[p][f] # Absent /\ disk[p][f] = hash[p][f]
    BY <2>1 DEF ReadsHold
  <2> QED
    BY <2>1, <2>3, <2>4, <2>5, <2>6, <2>7 DEF ReadsHold
<1>8. ASSUME NEW x \in Procs, NEW r, r.pc \notin Reading, run' = [run EXCEPT ![x] = r],
             UNCHANGED <<disk, hash, touched>>
      PROVE  ReadsHold'
  BY <1>0, <1>1, <1>8
<1>9. Idle.pc \notin Reading /\ \A pc \in {"lock", "discover"}, p \in Projects :
                                   Starting(pc, p).pc \notin Reading
  BY RunRecords DEF Idle
<1>10. ASSUME NEW p \in Projects, PollSync(p) PROVE ReadsHold'
  BY <1>8, <1>9, <1>10 DEF PollSync, dbVars, auxVars, Procs
<1>11. ASSUME NEW p \in Projects,
              PollBaseline(p) \/ PollEqual(p) \/ PollSkip(p) \/ PollFails(p) \/ Looks(p)
       PROVE  ReadsHold'
  BY <1>1, <1>11 DEF PollBaseline, PollEqual, PollSkip, PollFails, Looks, ListProjects, Visit,
     dbVars, auxVars
<1>12. ASSUME NEW x \in Procs, Enter(x), disk' = disk PROVE ReadsHold'
  <2>1. run'[x].pc = "discover" /\ \A y \in Procs \ {x} : run'[y] = run[y]
    BY <1>0, <1>12 DEF Enter, Runs
  <2> QED
    BY <1>1, <1>12, <2>1 DEF Enter, auxVars
<1>13. ASSUME AutoSkip \/ Initialized PROVE ReadsHold'
  BY <1>8, <1>9, <1>13 DEF AutoSkip, Initialized, dbVars, auxVars, Procs
<1>14. ASSUME NEW h \in Handlers, NEW p \in Projects, Request(h, p) PROVE ReadsHold'
  BY <1>8, <1>9, <1>14 DEF Request, dbVars, auxVars, Procs
<1>15. Crash => ReadsHold'
  BY <1>2, <1>9 DEF Crash
<1>16. AutoEnter => ReadsHold'
  BY <1>12 DEF AutoEnter, Enter, Procs
<1>17. ASSUME NEW h \in Handlers, Acquire(h) PROVE ReadsHold'
  BY <1>12, <1>17 DEF Acquire, Enter, Procs
<1>18. UNCHANGED vars => ReadsHold'
  BY <1>1 DEF vars
<1> QED
  BY <1>3, <1>4, <1>5, <1>6, <1>7, <1>10, <1>11, <1>13, <1>14, <1>15, <1>16, <1>17, <1>18,
     NextSteps
  DEF Steps, RunStep, Ending, Poll

\* A file the run has read, and nobody has touched since, is in the graph it
\* commits as it is on disk, or was missed before and stays so.
LEMMA SeenIsCommitted ==
  ASSUME TypeInv, NeverBare, ReadsHold, HashVouches, NEW x \in Procs, Finish(x),
         NEW f \in Files, f \notin Unseen(x),
         NewGraph(x)[f] # disk[run[x].proj][f]
  PROVE  <<run[x].proj, f>> \in missed'
<1> DEFINE p == run[x].proj
<1>1. run[x].pc = "finish" /\ p \in Projects /\ run[x].todo \subseteq run[x].files
  BY RunResults DEF Finish, ReadsHold
<1>2. f \notin touched /\ (f \in run[x].files \/ disk[p][f] = Absent)
      /\ (f \in run[x].todo => run[x].content[f] \notin {Absent, Bare})
  BY DEF Unseen, Present
<1>3. CASE f \in run[x].todo
  <2>1. run[x].content[f] = disk[p][f]
    BY <1>1, <1>2, <1>3 DEF ReadsHold
  <2> QED
    BY <1>1, <1>3, <2>1 DEF NewGraph
<1>4. CASE f \in run[x].files \ run[x].todo
  <2>1. hash[p][f] # Absent /\ disk[p][f] = hash[p][f] /\ run[x].plan # "full"
    BY <1>1, <1>2, <1>4 DEF ReadsHold
  <2>2. NewGraph(x)[f] = IF graph[p][f] = Absent THEN Bare ELSE graph[p][f]
    BY <1>4, <2>1 DEF NewGraph
  <2>3. <<p, f>> \in missed
    BY <1>1, <2>1, <2>2 DEF HashVouches
  <2>4. <<p, f>>[1] = p /\ <<p, f>>[2] = f
    OBVIOUS
  <2> QED
    BY <1>4, <2>3, <2>4 DEF Finish, StillMissed
<1>5. CASE f \notin run[x].files
  <2>1. NewGraph(x)[f] = Absent
    BY <1>1, <1>5 DEF NewGraph, ReadsHold
  <2> QED
    BY <1>2, <1>5, <2>1
<1> QED
  BY <1>3, <1>4, <1>5

\* What classifyFiles will take for unchanged although the graph is out of
\* date has been put down as missed by the run that stored the hash.
LEMMA HashVouchesStep ==
  ASSUME TypeInv, OneIndexer, VersionsGivenOut, NeverBare, ReadsHold, HashVouches, [Next]_vars
  PROVE  HashVouches'
<1>1. ASSUME NEW p \in Projects, NEW f \in Files, WriteFile(p, f) \/ RemoveFile(p, f)
      PROVE  HashVouches'
  <2>1. hash[p][f] <= First + edits /\ hash[p][f] \in Nat /\ edits \in Nat
    BY ConstantsAssumption DEF VersionsGivenOut, TypeInv, TypeOK
  <2>2. hash[p][f] = disk'[p][f] => disk'[p][f] = 0
    <3>1. disk' \in [Projects -> Tree] /\ (disk'[p][f] = 0 \/ disk'[p][f] > First + edits)
      BY <1>1, EditSteps
    <3> QED
      BY <2>1, <3>1
  <2>3. /\ UNCHANGED <<graph, hash>>
        /\ \A q \in Projects, g \in Files : q # p \/ g # f => disk'[q][g] = disk[q][g]
        /\ \A m \in missed : m # <<p, f>> => m \in missed'
    BY <1>1, EditSteps
  <2> QED
    BY <2>2, <2>3 DEF HashVouches
<1>2. ASSUME NEW x \in Procs, Finish(x) PROVE HashVouches'
  <2> DEFINE p == run[x].proj
  <2>1. /\ p \in Projects /\ disk' = disk
        /\ graph' = [graph EXCEPT ![p] = NewGraph(x)]
        /\ hash' = [hash EXCEPT ![p] = NewHash(x)]
        /\ missed' = StillMissed(x) \cup Lost(x)
    BY <1>2, RunResults DEF Finish
  <2>2. ASSUME NEW f \in Files, hash'[p][f] = disk[p][f], disk[p][f] # Absent,
               graph'[p][f] # disk[p][f]
        PROVE  <<p, f>> \in missed'
    <3>1. CASE f \in Unseen(x)
      BY <2>1, <2>2, <3>1 DEF Lost
    <3>2. CASE f \notin Unseen(x)
      <4>1. NewGraph(x)[f] # disk[p][f]
        BY <2>1, <2>2 DEF TypeInv, TypeOK
      <4> QED
        BY <1>2, <3>2, <4>1, SeenIsCommitted
    <3> QED
      BY <3>1, <3>2
  <2>3. \A q \in Projects \ {p} : graph'[q] = graph[q] /\ hash'[q] = hash[q]
    BY <2>1 DEF TypeInv, TypeOK
  <2>4. \A q \in Projects \ {p}, f \in Files : <<q, f>> \in missed => <<q, f>> \in missed'
    BY <2>1 DEF StillMissed
  <2> QED
    BY <2>1, <2>2, <2>3, <2>4 DEF HashVouches
<1>3. ASSUME UNCHANGED <<disk, graph, hash>>, missed \subseteq missed' PROVE HashVouches'
  BY <1>3 DEF HashVouches
<1>4. ASSUME NEW x \in Procs, NoOp(x) \/ Fail(x) PROVE HashVouches'
  BY <1>3, <1>4 DEF NoOp, Fail, dbVars
<1>5. ASSUME NEW p \in Projects, PollBaseline(p) \/ PollSkip(p) \/ PollSync(p)
      PROVE  HashVouches'
  BY <1>3, <1>5 DEF PollBaseline, PollSkip, PollSync, dbVars, auxVars
<1>6. ASSUME Crash PROVE HashVouches'
  BY <1>3, <1>6 DEF Crash, dbVars
<1> QED
  BY <1>1, <1>2, <1>3, <1>4, <1>5, <1>6, OtherSteps DEF Ending

\* The snapshot the watcher will install was taken before its run looked for
\* files; a file that appeared since has a version of its own.
LEMMA FreshCoversStep ==
  ASSUME TypeInv, OneIndexer, AutoOnce, VersionsGivenOut, FreshCovers, [Next]_vars
  PROVE  FreshCovers'
<1> DEFINE Late == {"classify", "extract", "finish"}
<1> USE ConstantsAssumption
<1>0. Watcher \in Procs /\ run \in [Procs -> Runs] /\ run[Watcher] \in Runs
  BY DEF Procs, TypeInv, TypeOK
<1>1. ASSUME NEW p \in Projects, NEW f \in Files, WriteFile(p, f) \/ RemoveFile(p, f)
      PROVE  FreshCovers'
  <2>1. fresh[f] <= First + edits /\ fresh[f] \in Nat /\ edits \in Nat
    BY DEF VersionsGivenOut, TypeInv, TypeOK
  <2>2. fresh[f] = disk'[p][f] => fresh[f] = Absent
    <3>1. disk' \in [Projects -> Tree] /\ (disk'[p][f] = 0 \/ disk'[p][f] > First + edits)
      BY <1>1, EditSteps
    <3> QED
      BY <2>1, <3>1
  <2>3. run[Watcher].pc \in Late => run[Watcher].proj \in Projects
    BY <1>0 DEF TypeInv, RunHasProject
  <2>4. /\ UNCHANGED <<run, fresh>>
        /\ \A q \in Projects, g \in Files : q # p \/ g # f => disk'[q][g] = disk[q][g]
    <3>1. UNCHANGED <<run, fresh>>
      BY <1>1, EditSteps
    <3>2. \A q \in Projects, g \in Files : q # p \/ g # f => disk'[q][g] = disk[q][g]
      BY <1>1, EditSteps
    <3> QED
      BY <3>1, <3>2
  <2> QED
    BY <2>2, <2>3, <2>4 DEF FreshCovers
<1>2. ASSUME run'[Watcher].pc \notin Late PROVE FreshCovers'
  BY <1>2 DEF FreshCovers
<1>3. ASSUME run'[Watcher].pc = run[Watcher].pc, run'[Watcher].proj = run[Watcher].proj,
             run'[Watcher].files = run[Watcher].files, UNCHANGED <<disk, fresh>>
      PROVE  FreshCovers'
  BY <1>3 DEF FreshCovers
<1>4. ASSUME Discover(Watcher) PROVE FreshCovers'
  <2>1. run'[Watcher].proj = run[Watcher].proj
        /\ run'[Watcher].files = Present(run[Watcher].proj)
    BY <1>0, <1>4 DEF Discover, Runs
  <2> QED
    BY <1>4, <2>1 DEF Discover, FreshCovers, Present
<1>5. ASSUME Classify(Watcher) \/ Extract(Watcher) PROVE FreshCovers'
  <2>1. /\ run[Watcher].pc \in Late
        /\ run'[Watcher].proj = run[Watcher].proj
        /\ run'[Watcher].files = run[Watcher].files
        /\ UNCHANGED <<disk, fresh>>
    <3>1. CASE Classify(Watcher)
      BY <1>0, <3>1 DEF Classify, Runs, watcherVars
    <3>2. CASE Extract(Watcher)
      BY <1>0, <3>2 DEF Extract, Runs, watcherVars
    <3> QED
      BY <1>5, <3>1, <3>2
  <2> QED
    BY <2>1 DEF FreshCovers
<1>6. ASSUME NEW x \in Procs \ {Watcher}, RunStep(x) \/ Fail(x) PROVE FreshCovers'
  <2>1. run'[Watcher] = run[Watcher]
    BY <1>0, <1>6 DEF RunStep, Discover, Classify, NoOp, Extract, Finish, Fail, Release
  <2>2. UNCHANGED <<disk, fresh>>
    BY <1>6 DEF RunStep, Discover, Classify, NoOp, Extract, Finish, Fail, SyncReturns, watcherVars
  <2> QED
    BY <1>3, <2>1, <2>2
<1>7. ASSUME Ending(Watcher) PROVE FreshCovers'
  <2>1. run'[Watcher] = Idle
    BY <1>0, <1>7 DEF Ending, NoOp, Finish, Fail, Release
  <2> QED
    BY <1>2, <2>1 DEF Idle
<1>8. ASSUME NEW p \in Projects, Poll(p) \/ PollFails(p) \/ Looks(p) PROVE FreshCovers'
  <2>1. CASE PollSync(p)
    <3>1. run'[Watcher].pc = "discover"
      BY <1>0, <2>1, RunRecords DEF PollSync
    <3> QED
      BY <1>2, <3>1
  <2>2. CASE ~PollSync(p)
    BY <1>3, <1>8, <2>2 DEF Poll, PollBaseline, PollEqual, PollSkip, PollFails, Looks, ListProjects,
       Visit
  <2> QED
    BY <2>1, <2>2
<1>9. ASSUME Initialized \/ AutoSkip \/ AutoEnter PROVE FreshCovers'
  <2>1. run'[Watcher] = run[Watcher] /\ UNCHANGED <<disk, fresh>>
    BY <1>0, <1>9 DEF Initialized, AutoSkip, AutoEnter, Enter, watcherVars
  <2> QED
    BY <1>3, <2>1
<1>10. ASSUME NEW h \in Handlers, Acquire(h) \/ \E p \in Projects : Request(h, p)
       PROVE  FreshCovers'
  <2>1. run'[Watcher] = run[Watcher] /\ UNCHANGED <<disk, fresh>>
    BY <1>0, <1>10 DEF Acquire, Enter, Request, watcherVars, Procs
  <2> QED
    BY <1>3, <2>1
<1>11. ASSUME Crash PROVE FreshCovers'
  BY <1>0, <1>2, <1>11 DEF Crash, Idle
<1>12. ASSUME UNCHANGED vars PROVE FreshCovers'
  BY <1>3, <1>12 DEF vars
<1>13. ASSUME RunStep(Watcher) \/ Fail(Watcher) PROVE FreshCovers'
  BY <1>4, <1>5, <1>7, <1>13 DEF RunStep, Ending
<1> QED
  BY <1>1, <1>6, <1>8, <1>9, <1>10, <1>11, <1>12, <1>13, NextSteps
  DEF Steps

\* The conclusion: every way to lose a change is listed.
LEMMA StalenessStep ==
  ASSUME TypeInv, OneIndexer, VersionsGivenOut, WatchedIsIndexed, NeverBare, ReadsHold,
         HashVouches, FreshCovers, StalenessExplained, [Next]_vars
  PROVE  StalenessExplained'
<1> USE ConstantsAssumption
<1>1. ASSUME NEW p \in Projects, NEW f \in Files, WriteFile(p, f) \/ RemoveFile(p, f)
      PROVE  StalenessExplained'
  <2>1. UNCHANGED <<row, graph, snapshot>>
    BY <1>1, EditSteps
  <2>2. \A q \in Projects, g \in Files : q # p \/ g # f => disk'[q][g] = disk[q][g]
    BY <1>1, EditSteps
  <2>3. \A m \in missed : m # <<p, f>> => m \in missed'
    BY <1>1, EditSteps
  <2>4. snapshot[p] # NoSnapshot /\ snapshot[p][f] = disk'[p][f] /\ graph[p][f] # disk'[p][f]
              => <<p, f>> \in missed'
    BY <1>1, EditSteps
  <2> QED
    BY <2>1, <2>2, <2>3, <2>4 DEF StalenessExplained
<1>2. ASSUME NEW x \in Procs, Finish(x) PROVE StalenessExplained'
  <2> DEFINE p == run[x].proj
  <2>1. /\ p \in Projects /\ disk' = disk
        /\ graph' = [graph EXCEPT ![p] = NewGraph(x)]
        /\ row' = [row EXCEPT ![p] = TRUE]
        /\ missed' = StillMissed(x) \cup Lost(x)
    BY <1>2, RunResults DEF Finish
  <2>2. ASSUME NEW f \in Files, snapshot'[p] # NoSnapshot, snapshot'[p][f] = disk[p][f],
               graph'[p][f] # disk[p][f]
        PROVE  <<p, f>> \in missed'
    <3>1. CASE f \in Unseen(x)
      BY <2>1, <2>2, <3>1 DEF Lost, Seen
    <3>2. CASE f \notin Unseen(x)
      <4>1. NewGraph(x)[f] # disk[p][f]
        BY <2>1, <2>2 DEF TypeInv, TypeOK
      <4> QED
        BY <1>2, <3>2, <4>1, SeenIsCommitted
    <3> QED
      BY <3>1, <3>2
  <2>3. \A q \in Projects \ {p} : graph'[q] = graph[q] /\ row'[q] = row[q]
    BY <2>1 DEF TypeInv, TypeOK
  <2>4. \A q \in Projects \ {p} : snapshot'[q] = snapshot[q]
    <3>1. snapshot' = snapshot \/ snapshot' = [snapshot EXCEPT ![p] = fresh]
      BY <1>2, EndingSteps DEF Ending
    <3> QED
      BY <3>1 DEF TypeInv, TypeOK
  <2>5. \A q \in Projects \ {p}, f \in Files : <<q, f>> \in missed => <<q, f>> \in missed'
    BY <2>1 DEF StillMissed
  <2> QED
    BY <2>1, <2>2, <2>3, <2>4, <2>5 DEF StalenessExplained
<1>3. ASSUME NEW x \in Procs, NoOp(x) PROVE StalenessExplained'
  <2> DEFINE p == run[x].proj
  <2>1. /\ p \in Projects
        /\ UNCHANGED <<disk, graph, hash>>
        /\ row' = [row EXCEPT ![p] = TRUE]
        /\ missed' = missed \cup LeftBehind(x)
        /\ run[x].pc = "classify" /\ Unchanged(x) = run[x].files
    BY <1>3, RunResults DEF NoOp
  <2>2. \A q \in Projects \ {p} : row'[q] = row[q] /\ snapshot'[q] = snapshot[q]
    <3>1. snapshot' = snapshot \/ snapshot' = [snapshot EXCEPT ![p] = fresh]
      BY <1>3, EndingSteps DEF Ending
    <3> QED
      BY <2>1, <3>1 DEF TypeInv, TypeOK
  <2>3. CASE snapshot' = snapshot
    BY <2>1, <2>2, <2>3 DEF StalenessExplained, WatchedIsIndexed
  <2>4. CASE snapshot' # snapshot
    <3>1. x = Watcher /\ snapshot' = [snapshot EXCEPT ![p] = fresh]
      BY <1>3, <2>4, EndingSteps DEF Ending
    <3>2. snapshot'[p] = fresh
      BY <2>1, <3>1 DEF TypeInv, TypeOK
    <3>3. ASSUME NEW f \in Files, graph[p][f] # disk[p][f], fresh[f] = disk[p][f]
          PROVE  <<p, f>> \in missed'
      <4>1. CASE f \in run[x].files
        BY <2>1, <3>3, <4>1 DEF Unchanged, HashVouches
      <4>2. CASE f \notin run[x].files
        <5>1. disk[p][f] = Absent
          BY <2>1, <3>1, <3>3, <4>2 DEF FreshCovers
        <5> QED
          BY <2>1, <3>3, <4>2, <5>1 DEF LeftBehind, Present
      <4> QED
        BY <4>1, <4>2
    <3> QED
      BY <2>1, <2>2, <3>2, <3>3 DEF StalenessExplained
  <2> QED
    BY <2>3, <2>4
<1>4. ASSUME NEW p \in Projects, PollBaseline(p) \/ PollSkip(p) PROVE StalenessExplained'
  <2>1. /\ UNCHANGED <<disk, row, graph>>
        /\ snapshot' = [snapshot EXCEPT ![p] = disk[p]]
        /\ missed' = missed \cup Stale(p)
    BY <1>4 DEF PollBaseline, PollSkip, dbVars
  <2>2. \A f \in Files : graph[p][f] # disk[p][f] => <<p, f>> \in missed'
    BY <2>1 DEF Stale
  <2>3. \A q \in Projects \ {p} : snapshot'[q] = snapshot[q]
    BY <2>1 DEF TypeInv, TypeOK
  <2> QED
    BY <2>1, <2>2, <2>3 DEF StalenessExplained
<1>5. ASSUME UNCHANGED <<disk, row, graph, snapshot, missed>> PROVE StalenessExplained'
  BY <1>5 DEF StalenessExplained
<1>6. ASSUME NEW p \in Projects, PollSync(p) PROVE StalenessExplained'
  BY <1>5, <1>6 DEF PollSync, dbVars, auxVars
<1>7. ASSUME NEW x \in Procs, Fail(x) PROVE StalenessExplained'
  BY <1>5, <1>7, EndingSteps DEF Ending, Fail, dbVars
<1>8. ASSUME Crash PROVE StalenessExplained'
  BY <1>8 DEF Crash, StalenessExplained
<1> QED
  BY <1>1, <1>2, <1>3, <1>4, <1>5, <1>6, <1>7, <1>8, OtherSteps DEF Ending

\* All of it holds together.
LEMMA IInvHolds == Spec => []IInv
<1> DEFINE Inv == /\ OneIndexer /\ AutoOnce /\ VersionsGivenOut /\ WatchedIsIndexed
                  /\ NeverBare /\ ReadsHold
                  /\ HashVouches /\ FreshCovers /\ StalenessExplained
<1>1. Init => Inv
  <2> SUFFICES ASSUME Init PROVE Inv
    OBVIOUS
  <2>1. OneIndexer /\ AutoOnce /\ FreshCovers /\ ReadsHold
    BY ConstantsAssumption DEF Init, OneIndexer, AutoOnce, FreshCovers, ReadsHold, Idle, Stages,
       Procs
  <2>2. \A p \in Projects, f \in Files :
           /\ disk[p][f] = First /\ hash[p][f] \in {0, First} /\ fresh[f] = 0
           /\ hash[p][f] = graph[p][f] /\ snapshot[p] = NoSnapshot
    BY DEF Init, EmptyTree
  <2> QED
    BY <2>1, <2>2, ConstantsAssumption
    DEF Init, VersionsGivenOut, WatchedIsIndexed, NeverBare, HashVouches, StalenessExplained
<1>2. TypeInv /\ Inv /\ [Next]_vars => Inv'
  BY OneIndexerStep, AutoOnceStep, VersionsStep, WatchedStep, NeverBareStep, ReadsHoldStep,
     HashVouchesStep, FreshCoversStep, StalenessStep
<1> QED
  BY <1>1, <1>2, TypeInvHolds, PTL DEF Spec, IInv

\* While a project is watched, a file whose graph is out of date either shows
\* as changed in the watcher's next poll, or was given up by one of the steps
\* that put a change down in missed.
THEOREM StalenessIsExplained == Spec => []StalenessExplained
BY IInvHolds, PTL DEF IInv

\* classifyFiles may trust the hashes of updateFileHashes, except for a file
\* put down as missed: one that changed while the run that stored its hash was
\* under way, that this run could not extract, or that its mode left out.
THEOREM HashesVouch == Spec => []HashVouches
BY IInvHolds, PTL DEF IInv

-----------------------------------------------------------------------------
(* What is put down as missed.                                             *)

\* The steps that touch a graph, or the record of a run.
LEMMA GraphGivenOutStep ==
  ASSUME TypeInv, VersionsGivenOut, GraphGivenOut, [Next]_vars
  PROVE  GraphGivenOut'
<1> USE ConstantsAssumption
<1>1. edits' \in Nat /\ edits \in Nat /\ edits <= edits'
  <2>1. edits \in Nat
    BY DEF TypeInv, TypeOK
  <2>2. CASE \E p \in Projects, f \in Files : WriteFile(p, f) \/ RemoveFile(p, f)
    BY <2>1, <2>2 DEF WriteFile, RemoveFile
  <2>3. ASSUME NEW x \in Procs, Ending(x) PROVE edits' = edits
    <3>1. NoOp(x) => edits' = edits
      BY DEF NoOp, budget
    <3>2. Finish(x) => edits' = edits
      BY DEF Finish, budget
    <3>3. Fail(x) => edits' = edits
      BY DEF Fail
    <3> QED
      BY <2>3, <3>1, <3>2, <3>3 DEF Ending
  <2> QED
    BY <2>1, <2>2, <2>3, OtherSteps DEF PollBaseline, PollSkip, PollSync, Crash, budget
<1>2. \A p \in Projects, f \in Files : graph[p][f] \in Nat
  BY DEF TypeInv, TypeOK
<1>3. \A x \in Procs, f \in Files : run[x].content[f] \in Nat
  BY DEF TypeInv, TypeOK, Runs
<1>4. ASSUME UNCHANGED <<graph, run>> PROVE GraphGivenOut'
  BY <1>1, <1>2, <1>3, <1>4 DEF GraphGivenOut
<1>5. ASSUME NEW x \in Procs, graph' = graph, NEW r \in Runs, run' = [run EXCEPT ![x] = r],
             \A f \in Files : r.content[f] = run[x].content[f] \/ r.content[f] <= First + edits
      PROVE  GraphGivenOut'
  <2>1. \A y \in Procs, f \in Files : run'[y].content[f] <= First + edits
    BY <1>5 DEF GraphGivenOut, TypeInv, TypeOK
  <2>2. run' \in [Procs -> Runs]
    BY <1>5 DEF TypeInv, TypeOK
  <2>3. \A y \in Procs, f \in Files : run'[y].content[f] \in Nat
    BY <2>2 DEF Runs
  <2> QED
    BY <1>1, <1>2, <1>5, <2>1, <2>3 DEF GraphGivenOut
<1>6. /\ Idle.content = EmptyTree
      /\ \A pc \in {"lock", "discover"}, p \in Projects : Starting(pc, p).content = EmptyTree
      /\ \A f \in Files : EmptyTree[f] = 0 /\ 0 <= First + edits
  BY <1>1 DEF Idle, EmptyTree, Starting
<1>7. ASSUME NEW x \in Procs, graph' = graph, Release(x) PROVE GraphGivenOut'
  <2>1. Idle \in Runs /\ run' = [run EXCEPT ![x] = Idle]
    BY <1>7, RunRecords DEF Release
  <2>2. \A f \in Files : Idle.content[f] <= First + edits
    BY <1>6
  <2> QED
    BY <1>5, <1>7, <2>1, <2>2
<1>8. ASSUME NEW x \in Procs, Finish(x) PROVE GraphGivenOut'
  <2>1. run[x].proj \in Projects /\ NewGraph(x) \in Tree
    BY <1>8, RunResults DEF Finish
  <2>2. \A f \in Files : NewGraph(x)[f] <= First + edits
    BY <1>1, <2>1 DEF NewGraph, GraphGivenOut
  <2>3. graph' = [graph EXCEPT ![run[x].proj] = NewGraph(x)] /\ edits' = edits
    BY <1>8 DEF Finish, budget
  <2>4. \A p \in Projects, f \in Files : graph'[p][f] <= First + edits'
    BY <2>1, <2>2, <2>3 DEF GraphGivenOut, TypeInv, TypeOK
  <2>5. \A y \in Procs, f \in Files : run'[y].content[f] <= First + edits'
    BY <1>1, <1>6, <1>8, <2>3 DEF Finish, Release, GraphGivenOut, TypeInv, TypeOK
  <2> QED
    BY <2>4, <2>5 DEF GraphGivenOut
<1>9. ASSUME NEW x \in Procs, Discover(x) \/ Classify(x) PROVE GraphGivenOut'
  <2>1. \A y \in Procs : run'[y].content = run[y].content
    <3>1. CASE Discover(x)
      BY <3>1 DEF Discover, TypeInv, TypeOK, Runs
    <3>2. CASE Classify(x)
      BY <3>2 DEF Classify, TypeInv, TypeOK, Runs
    <3> QED
      BY <1>9, <3>1, <3>2
  <2>2. graph' = graph
    BY <1>9 DEF Discover, Classify, dbVars
  <2> QED
    BY <1>1, <1>2, <1>3, <2>1, <2>2 DEF GraphGivenOut
<1>10. ASSUME NEW x \in Procs, Extract(x) PROVE GraphGivenOut'
  <2>0. PICK failed :
           run' = [run EXCEPT ![x] = [@ EXCEPT !.pc = "finish", !.content = Content(x, failed)]]
    BY <1>10 DEF Extract
  <2>1. run[x].proj \in Projects /\ Content(x, failed) \in Tree /\ run[x].pc # "idle"
    BY <1>10, RunResults DEF Extract
  <2>2. \A f \in Files : Content(x, failed)[f] <= First + edits
    BY <1>1, <2>1 DEF Content, VersionsGivenOut, TypeInv, TypeOK
  <2>3. graph' = graph /\ edits' = edits
    BY <1>10 DEF Extract, dbVars
  <2>4. \A y \in Procs : run'[y].content = IF y = x THEN Content(x, failed) ELSE run[y].content
    BY <2>0 DEF TypeInv, TypeOK, Runs
  <2> QED
    BY <2>2, <2>3, <2>4 DEF GraphGivenOut
<1>11. ASSUME NEW x \in Procs, NEW pc \in {"lock", "discover"}, NEW p \in Projects,
              graph' = graph, run' = [run EXCEPT ![x] = Starting(pc, p)]
       PROVE  GraphGivenOut'
  <2>1. Starting(pc, p) \in Runs
    BY RunRecords
  <2>2. \A f \in Files : Starting(pc, p).content[f] <= First + edits
    BY <1>6
  <2> QED
    BY <1>5, <1>11, <2>1, <2>2
<1>12. ASSUME NEW x \in Procs, Enter(x) PROVE GraphGivenOut'
  <2>1. \A y \in Procs : run'[y].content = run[y].content
    BY <1>12 DEF Enter, TypeInv, TypeOK, Runs
  <2>2. graph' = graph
    BY <1>12 DEF Enter
  <2> QED
    BY <1>1, <1>2, <1>3, <2>1, <2>2 DEF GraphGivenOut
<1>13. ASSUME NEW p \in Projects, Poll(p) PROVE GraphGivenOut'
  BY <1>4, <1>11, <1>13 DEF Poll, PollBaseline, PollEqual, PollSkip, PollSync, dbVars, Procs
<1>14. ASSUME Crash PROVE GraphGivenOut'
  <2>1. graph' = graph /\ edits' = edits /\ \A y \in Procs : run'[y].content = EmptyTree
    BY <1>6, <1>14 DEF Crash, dbVars
  <2> QED
    BY <1>6, <2>1 DEF GraphGivenOut
<1>15. ASSUME AutoSkip PROVE GraphGivenOut'
  <2>1. Idle \in Runs /\ AutoIndexer \in Procs
    BY RunRecords DEF Procs
  <2>2. graph' = graph /\ run' = [run EXCEPT ![AutoIndexer] = Idle]
    BY <1>15 DEF AutoSkip, dbVars
  <2>3. \A f \in Files : Idle.content[f] <= First + edits
    BY <1>6
  <2> QED
    BY <1>5, <2>1, <2>2, <2>3
<1>22. ASSUME Initialized PROVE GraphGivenOut'
  BY <1>11, <1>22 DEF Initialized, dbVars, Procs
<1>16. ASSUME NEW h \in Handlers, Acquire(h) \/ \E p \in Projects : Request(h, p)
       PROVE  GraphGivenOut'
  BY <1>11, <1>12, <1>16 DEF Acquire, Request, dbVars, Procs
<1>17. ASSUME NEW p \in Projects, NEW f \in Files,
              WriteFile(p, f) \/ RemoveFile(p, f) \/ PollFails(p) \/ Looks(p)
       PROVE  GraphGivenOut'
  BY <1>4, <1>17 DEF WriteFile, RemoveFile, PollFails, Looks, ListProjects, Visit, dbVars
<1>18. ASSUME NEW p \in Projects, PollFails(p) \/ Looks(p) PROVE GraphGivenOut'
  BY <1>4, <1>18 DEF PollFails, Looks, ListProjects, Visit, dbVars
<1>19. ASSUME NEW x \in Procs, NoOp(x) \/ Fail(x) PROVE GraphGivenOut'
  BY <1>7, <1>19 DEF NoOp, Fail, dbVars
<1>20. AutoEnter => GraphGivenOut'
  BY <1>12 DEF AutoEnter, Procs
<1>21. UNCHANGED vars => GraphGivenOut'
  BY <1>4 DEF vars
<1> QED
  BY <1>8, <1>9, <1>10, <1>13, <1>14, <1>15, <1>16, <1>17, <1>18, <1>19, <1>20, <1>21,
     <1>22, NextSteps
  DEF Steps, RunStep

\* A change is put down in missed only while the graph lacks it, and taken off
\* by the edit or the run that makes the entry untrue.
LEMMA MissedStep ==
  ASSUME TypeInv, OneIndexer, VersionsGivenOut, NeverBare, ReadsHold, MissedIsStale,
         [Next]_vars
  PROVE  MissedIsStale'
<1> USE ConstantsAssumption
<1>1. \A m \in missed : m[1] \in Projects /\ m[2] \in Files /\ m = <<m[1], m[2]>>
  BY DEF TypeInv, TypeOK
<1>3. ASSUME NEW p \in Projects, NEW f \in Files, WriteFile(p, f) \/ RemoveFile(p, f)
      PROVE  MissedIsStale'
  <2>1. graph' = graph
    BY <1>3 DEF WriteFile, RemoveFile, dbVars
  <2>2. \A q \in Projects, g \in Files : q # p \/ g # f => disk'[q][g] = disk[q][g]
    BY <1>3, EditSteps
  <2>3. \A m \in missed' : m \in missed \/ m = <<p, f>>
    BY <1>3 DEF WriteFile, RemoveFile
  <2>4. <<p, f>> \in missed' => graph[p][f] # disk'[p][f]
    <3>1. CASE WriteFile(p, f)
      BY <3>1 DEF WriteFile
    <3>2. CASE RemoveFile(p, f)
      <4>1. disk'[p][f] = 0
        BY <3>2 DEF RemoveFile, TypeInv, TypeOK
      <4> QED
        BY <3>2, <4>1 DEF RemoveFile
    <3> QED
      BY <1>3, <3>1, <3>2
  <2>5. ASSUME NEW m \in missed' PROVE graph'[m[1]][m[2]] # disk'[m[1]][m[2]]
    <3>1. CASE m = <<p, f>>
      BY <2>1, <2>4, <3>1
    <3>2. CASE m # <<p, f>>
      <4>1. m \in missed /\ m[1] \in Projects /\ m[2] \in Files /\ (m[1] # p \/ m[2] # f)
        BY <1>1, <2>3, <3>2
      <4> QED
        BY <2>1, <2>2, <4>1 DEF MissedIsStale
    <3> QED
      BY <3>1, <3>2
  <2> QED
    BY <2>5 DEF MissedIsStale
<1>4. ASSUME NEW x \in Procs, Finish(x) PROVE MissedIsStale'
  <2> DEFINE p == run[x].proj
  <2>1. /\ p \in Projects /\ disk' = disk
        /\ graph' = [graph EXCEPT ![p] = NewGraph(x)]
        /\ missed' = StillMissed(x) \cup Lost(x) /\ run[x].pc = "finish"
    BY <1>4, RunResults DEF Finish
  <2>2. \A m \in Lost(x) : graph'[m[1]][m[2]] # disk[m[1]][m[2]]
    BY DEF Lost
  <2>3. \A q \in Projects \ {p} : graph'[q] = graph[q]
    BY <2>1 DEF TypeInv, TypeOK
  <2>4. \A m \in missed : m[1] # p => graph'[m[1]][m[2]] # disk[m[1]][m[2]]
    BY <1>1, <2>3 DEF MissedIsStale
  <2>5. ASSUME NEW m \in missed, m[1] = p, m[2] \in run[x].files \ run[x].todo
        PROVE  graph'[m[1]][m[2]] # disk[m[1]][m[2]]
    <3>1. m[2] \in Files /\ graph[p][m[2]] # disk[p][m[2]] /\ disk[p][m[2]] # Bare
      BY <1>1, <2>1, <2>5 DEF MissedIsStale, NeverBare
    <3>2. run[x].plan # "full"
      BY <2>1, <2>5 DEF ReadsHold
    <3>3. graph'[p][m[2]] = IF graph[p][m[2]] = Absent THEN Bare ELSE graph[p][m[2]]
      BY <2>1, <2>5, <3>1, <3>2 DEF NewGraph, TypeInv, TypeOK
    <3> QED
      BY <2>5, <3>1, <3>3
  <2> QED
    BY <2>1, <2>2, <2>4, <2>5 DEF MissedIsStale, StillMissed
<1>5. ASSUME NEW x \in Procs, NoOp(x) PROVE MissedIsStale'
  <2>1. \A m \in LeftBehind(x) : graph[m[1]][m[2]] # disk[m[1]][m[2]]
    BY DEF LeftBehind, Present
  <2>2. disk' = disk /\ graph' = graph /\ missed' = missed \cup LeftBehind(x)
    BY <1>5 DEF NoOp
  <2> QED
    BY <2>1, <2>2 DEF MissedIsStale
<1>6. ASSUME NEW p \in Projects, PollBaseline(p) \/ PollSkip(p) PROVE MissedIsStale'
  <2>1. disk' = disk /\ graph' = graph /\ missed' = missed \cup Stale(p)
    BY <1>6 DEF PollBaseline, PollSkip, dbVars
  <2>2. \A m \in Stale(p) : graph[m[1]][m[2]] # disk[m[1]][m[2]]
    BY DEF Stale
  <2> QED
    BY <2>1, <2>2 DEF MissedIsStale
<1>7. ASSUME UNCHANGED <<disk, graph, missed>> PROVE MissedIsStale'
  BY <1>7 DEF MissedIsStale
<1>8. ASSUME NEW x \in Procs, Fail(x) PROVE MissedIsStale'
  BY <1>7, <1>8 DEF Fail, dbVars
<1>9. ASSUME NEW p \in Projects, PollSync(p) PROVE MissedIsStale'
  BY <1>7, <1>9 DEF PollSync, dbVars, auxVars
<1>10. Crash => MissedIsStale'
  BY <1>7 DEF Crash, dbVars
<1> QED
  BY <1>3, <1>4, <1>5, <1>6, <1>7, <1>8, <1>9, <1>10, OtherSteps DEF Ending

\* The list of missed changes is exact: whatever is in it is out of date.
THEOREM MissedAreStale == Spec => []MissedIsStale
<1>1. Init => MissedIsStale
  BY DEF Init, MissedIsStale
<1>2. IInv /\ MissedIsStale /\ [Next]_vars => MissedIsStale'
  BY MissedStep DEF IInv
<1> QED
  BY <1>1, <1>2, IInvHolds, PTL DEF Spec

-----------------------------------------------------------------------------
(* What a commit replaces.                                                 *)

\* The graph is never ahead of the disk, nor of what the run under way has read.
GraphIsBehind ==
    /\ \A p \in Projects, f \in Files :
          disk[p][f] # Absent => disk[p][f] >= First /\ graph[p][f] <= disk[p][f]
    /\ \A x \in Procs : run[x].pc = "finish" =>
          \A f \in Files :
             LET p == run[x].proj
                 c == run[x].content[f] IN
             /\ disk[p][f] # Absent => c <= disk[p][f]
             /\ c >= First => c >= graph[p][f]

\* What a run puts in the place of a version is not older.
NoneGoesBack ==
    \A p \in Projects, f \in Files : graph'[p][f] >= First => graph'[p][f] >= graph[p][f]

LEMMA BehindStep ==
  ASSUME IInv, GraphGivenOut, GraphIsBehind, [Next]_vars
  PROVE  GraphIsBehind' /\ NoneGoesBack
<1> USE ConstantsAssumption
<1>1. /\ run \in [Procs -> Runs] /\ disk \in [Projects -> Tree] /\ graph \in [Projects -> Tree]
      /\ \A x \in Procs : /\ run[x] \in Runs
                          /\ run[x].pc # "idle" => run[x].proj \in Projects
      /\ \A p \in Projects, f \in Files : disk[p][f] \in Nat /\ graph[p][f] \in Nat
      /\ \A x \in Procs, f \in Files : run[x].content[f] \in Nat
      /\ edits \in Nat
  BY DEF IInv, TypeInv, TypeOK, RunHasProject, Runs
<1>2. ASSUME UNCHANGED <<disk, graph>>,
             \A x \in Procs : run'[x].pc = "finish" => run'[x] = run[x]
      PROVE  GraphIsBehind' /\ NoneGoesBack
  BY <1>1, <1>2 DEF GraphIsBehind, NoneGoesBack
<1>3. ASSUME NEW x \in Procs, NEW r, r.pc # "finish", run' = [run EXCEPT ![x] = r],
             UNCHANGED <<disk, graph>>
      PROVE  GraphIsBehind' /\ NoneGoesBack
  BY <1>1, <1>2, <1>3
<1>4. /\ Idle.pc # "finish"
      /\ \A pc \in {"lock", "discover"}, p \in Projects : Starting(pc, p).pc # "finish"
  BY RunRecords DEF Idle
<1>5. ASSUME NEW p \in Projects, NEW f \in Files, WriteFile(p, f) \/ RemoveFile(p, f)
      PROVE  GraphIsBehind' /\ NoneGoesBack
  <2>1. run' = run /\ graph' = graph
    BY <1>5 DEF WriteFile, RemoveFile, dbVars
  <2>2. disk'[p][f] = 0 \/ disk'[p][f] = First + 1 + edits
    BY <1>1, <1>5 DEF WriteFile, RemoveFile
  <2>3. \A q \in Projects, g \in Files : q # p \/ g # f => disk'[q][g] = disk[q][g]
    BY <1>5, EditSteps DEF IInv
  <2>4. /\ graph[p][f] <= First + edits
        /\ \A x \in Procs : run[x].content[f] <= First + edits
    BY DEF GraphGivenOut
  <2>5. disk'[p][f] # 0 => /\ disk'[p][f] >= First /\ graph[p][f] <= disk'[p][f]
                           /\ \A x \in Procs : run[x].content[f] <= disk'[p][f]
    BY <1>1, <2>2, <2>4
  <2>6. \A x \in Procs : run[x].pc = "finish" => run[x].proj \in Projects
    BY <1>1
  <2>7. GraphIsBehind'
    BY <2>1, <2>3, <2>5, <2>6 DEF GraphIsBehind
  <2>8. NoneGoesBack
    BY <1>1, <2>1 DEF NoneGoesBack
  <2> QED BY <2>7, <2>8
<1>6. ASSUME NEW x \in Procs, Discover(x) \/ Classify(x) PROVE GraphIsBehind' /\ NoneGoesBack
  <2>1. run'[x].pc # "finish"
    <3>1. CASE Discover(x)
      BY <1>1, <3>1 DEF Discover, Runs
    <3>2. CASE Classify(x)
      BY <1>1, <3>2 DEF Classify, Runs
    <3> QED BY <1>6, <3>1, <3>2
  <2>2. \A y \in Procs \ {x} : run'[y] = run[y]
    BY <1>1, <1>6 DEF Discover, Classify
  <2>3. UNCHANGED <<disk, graph>>
    BY <1>6 DEF Discover, Classify, dbVars
  <2> QED BY <1>2, <2>1, <2>2, <2>3
<1>7. ASSUME NEW x \in Procs, Extract(x) PROVE GraphIsBehind' /\ NoneGoesBack
  <2>0. PICK failed :
           run' = [run EXCEPT ![x] = [@ EXCEPT !.pc = "finish", !.content = Content(x, failed)]]
    BY <1>7 DEF Extract
  <2>1. /\ run[x].proj \in Projects /\ run'[x].proj = run[x].proj
        /\ run'[x].content = Content(x, failed) /\ UNCHANGED <<disk, graph>>
        /\ \A y \in Procs \ {x} : run'[y] = run[y]
    BY <1>1, <1>7, <2>0 DEF Extract, dbVars, Runs
  <2>2. \A f \in Files : Content(x, failed)[f] \in {disk[run[x].proj][f], 0, 1}
    BY DEF Content
  <2>3. \A f \in Files : LET d == disk[run[x].proj][f]
                             c == Content(x, failed)[f] IN
           (d # 0 => c <= d) /\ (c >= First => c >= graph[run[x].proj][f])
    <3> TAKE f \in Files
    <3> DEFINE d == disk[run[x].proj][f]
               c == Content(x, failed)[f]
               g == graph[run[x].proj][f]
    <3>1. d \in Nat /\ g \in Nat /\ (d # 0 => d >= First /\ g <= d)
      BY <1>1, <2>1 DEF GraphIsBehind
    <3>2. c \in {d, 0, 1}
      BY <2>2
    <3> HIDE DEF d, c, g
    <3>3. (d # 0 => c <= d) /\ (c >= First => c >= g)
      BY <3>1, <3>2
    <3> QED BY <3>3 DEF d, c, g
  <2>4. GraphIsBehind'
    BY <2>1, <2>3 DEF GraphIsBehind
  <2>5. NoneGoesBack
    BY <1>1, <2>1 DEF NoneGoesBack
  <2> QED BY <2>4, <2>5
<1>8. ASSUME NEW x \in Procs, NoOp(x) \/ Fail(x) PROVE GraphIsBehind' /\ NoneGoesBack
  BY <1>3, <1>4, <1>8 DEF NoOp, Fail, Release, dbVars
<1>9. ASSUME NEW x \in Procs, Finish(x) PROVE GraphIsBehind' /\ NoneGoesBack
  <2> DEFINE p == run[x].proj
  <2>1. /\ p \in Projects /\ run[x].pc = "finish" /\ disk' = disk
        /\ graph' = [graph EXCEPT ![p] = NewGraph(x)] /\ indexMu = x
        /\ run' = [run EXCEPT ![x] = Idle]
    BY <1>1, <1>9 DEF Finish, Release, Holds
  <2>2. \A f \in Files : NewGraph(x)[f] \in {run[x].content[f], graph[p][f], 0, 1}
    BY DEF NewGraph
  <2>3. \A f \in Files :
          /\ disk[p][f] # 0 => /\ run[x].content[f] <= disk[p][f] /\ graph[p][f] <= disk[p][f]
                               /\ disk[p][f] >= First
          /\ run[x].content[f] >= First => run[x].content[f] >= graph[p][f]
    BY <2>1 DEF GraphIsBehind
  <2>4. /\ \A f \in Files : graph'[p][f] = NewGraph(x)[f]
        /\ \A q \in Projects \ {p} : graph'[q] = graph[q]
    BY <1>1, <2>1
  <2>5. \A y \in Procs : run'[y].pc # "finish"
    <3>1. \A y \in Procs \ {x} : run[y].pc # "finish"
      BY <2>1 DEF IInv, OneIndexer, Stages
    <3> QED BY <1>1, <1>4, <2>1, <3>1
  <2> HIDE DEF p
  <2>6. \A f \in Files : /\ disk[p][f] # 0 => graph'[p][f] <= disk[p][f]
                         /\ graph'[p][f] >= First => graph'[p][f] >= graph[p][f]
    <3> TAKE f \in Files
    <3>1. disk[p][f] \in Nat /\ graph[p][f] \in Nat /\ run[x].content[f] \in Nat
      BY <1>1, <2>1
    <3>2. graph'[p][f] \in {run[x].content[f], graph[p][f], 0, 1}
      BY <2>2, <2>4
    <3> QED BY <2>3, <3>1, <3>2
  <2>7. GraphIsBehind'
    BY <2>1, <2>4, <2>5, <2>6 DEF GraphIsBehind
  <2>8. NoneGoesBack
    BY <1>1, <2>1, <2>4, <2>6 DEF NoneGoesBack
  <2> QED BY <2>7, <2>8
<1>10. ASSUME NEW x \in Procs, Enter(x) PROVE GraphIsBehind' /\ NoneGoesBack
  <2>1. run'[x].pc = "discover" /\ \A y \in Procs \ {x} : run'[y] = run[y]
    BY <1>1, <1>10 DEF Enter, Runs
  <2> QED BY <1>2, <1>10, <2>1 DEF Enter
<1>11. ASSUME NEW p \in Projects, PollSync(p) PROVE GraphIsBehind' /\ NoneGoesBack
  BY <1>3, <1>4, <1>11 DEF PollSync, dbVars, Procs
<1>12. ASSUME NEW p \in Projects,
              PollBaseline(p) \/ PollEqual(p) \/ PollSkip(p) \/ PollFails(p) \/ Looks(p)
       PROVE  GraphIsBehind' /\ NoneGoesBack
  BY <1>2, <1>12
  DEF PollBaseline, PollEqual, PollSkip, PollFails, Looks, ListProjects, Visit, dbVars
<1>13. CASE Initialized
  BY <1>3, <1>4, <1>13 DEF Initialized, dbVars, Procs
<1>14. CASE AutoSkip
  BY <1>3, <1>4, <1>14 DEF AutoSkip, dbVars, Procs
<1>15. AutoEnter => GraphIsBehind' /\ NoneGoesBack
  BY <1>10 DEF AutoEnter, Procs
<1>16. ASSUME NEW h \in Handlers, Acquire(h) \/ \E p \in Projects : Request(h, p)
       PROVE  GraphIsBehind' /\ NoneGoesBack
  BY <1>3, <1>4, <1>10, <1>16 DEF Acquire, Request, dbVars, Procs
<1>17. CASE Crash
  BY <1>2, <1>4, <1>17 DEF Crash, dbVars
<1>18. CASE UNCHANGED vars
  BY <1>2, <1>18 DEF vars
<1> QED
  BY <1>5, <1>6, <1>7, <1>8, <1>9, <1>11, <1>12, <1>13, <1>14, <1>15, <1>16, <1>17, <1>18,
     NextSteps
  DEF Steps, RunStep, Poll

\* No run of the pipeline puts an older version of a file in the place of a
\* newer one: the lock is held from the first read to the commit.
THEOREM NoLostUpdate == Spec => GraphNeverGoesBack
<1> DEFINE Inv == GraphGivenOut /\ GraphIsBehind
<1>1. Init => Inv
  <2> SUFFICES ASSUME Init PROVE Inv
    OBVIOUS
  <2>1. /\ \A p \in Projects, f \in Files : disk[p][f] = First /\ graph[p][f] \in {0, First}
        /\ \A x \in Procs, f \in Files : run[x].content[f] = 0
        /\ \A x \in Procs : run[x].pc = "idle"
    BY DEF Init, EmptyTree, Idle
  <2> QED BY <2>1 DEF Init, GraphGivenOut, GraphIsBehind
<1>2. IInv /\ Inv /\ [Next]_vars => Inv' /\ NoneGoesBack
  BY GraphGivenOutStep, BehindStep DEF IInv
<1>3. IInv /\ Inv /\ [Next]_vars => [NoneGoesBack]_vars
  BY <1>2
<1>4. Spec => [][NoneGoesBack]_vars
  BY <1>1, <1>2, <1>3, IInvHolds, PTL DEF Spec
<1> QED BY <1>4 DEF GraphNeverGoesBack, NoneGoesBack

\* Only the run that holds indexMu for a project changes its tables, and only
\* in its last step: nobody ever sees half an index.
THEOREM OnlyCommits == Spec => CommitsUnderLock
<1> DEFINE Commits ==
      \A p \in Projects :
          <<row[p], graph[p], hash[p]>>' # <<row[p], graph[p], hash[p]>> =>
             \E x \in Procs : /\ indexMu = x /\ indexMu' = Free
                              /\ run[x].proj = p /\ run[x].pc \in {"classify", "finish"}
<1>1. TypeInv /\ [Next]_vars => Commits
  <2> SUFFICES ASSUME TypeInv, [Next]_vars PROVE Commits
    OBVIOUS
  <2>1. ASSUME UNCHANGED <<row, graph, hash>> PROVE Commits
    BY <2>1
  <2>2. ASSUME NEW x \in Procs, NoOp(x) \/ Finish(x) PROVE Commits
    <3>1. /\ indexMu = x /\ indexMu' = Free /\ run[x].pc \in {"classify", "finish"}
          /\ run[x].proj \in Projects
      BY <2>2, RunResults DEF NoOp, Finish, Holds, Release
    <3>2. \A p \in Projects \ {run[x].proj} :
             row'[p] = row[p] /\ graph'[p] = graph[p] /\ hash'[p] = hash[p]
      BY <2>2, <3>1 DEF NoOp, Finish, TypeInv, TypeOK
    <3> QED
      BY <3>1, <3>2
  <2>3. ASSUME NEW x \in Procs, Fail(x) PROVE Commits
    BY <2>1, <2>3 DEF Fail, dbVars
  <2>4. ASSUME NEW p \in Projects, NEW f \in Files, WriteFile(p, f) \/ RemoveFile(p, f)
        PROVE Commits
    BY <2>1, <2>4 DEF WriteFile, RemoveFile, dbVars
  <2>5. ASSUME NEW p \in Projects, PollBaseline(p) \/ PollSkip(p) \/ PollSync(p)
        PROVE Commits
    BY <2>1, <2>5 DEF PollBaseline, PollSkip, PollSync, dbVars
  <2>6. ASSUME Crash PROVE Commits
    BY <2>1, <2>6 DEF Crash, dbVars
  <2> QED
    BY <2>1, <2>2, <2>3, <2>4, <2>5, <2>6, OtherSteps DEF Ending
<1> QED
  BY <1>1, TypeInvHolds, PTL DEF Spec, CommitsUnderLock

-----------------------------------------------------------------------------
(* What the session reports.                                               *)

\* A project with a row has a file, a run has the file of its project open,
\* and the watcher runs only for projects with a row.
RowsHaveFiles ==
    /\ \A p \in Projects : row[p] => dbFile[p]
    /\ \A x \in Procs : run[x].pc \in Stages => dbFile[run[x].proj]
    /\ run[Watcher].pc # "idle" => row[run[Watcher].proj]

\* As long as the session is indexing and its goroutine has not begun to, no
\* run has committed the project: the one that does so reports it.
UnreportedIsNew ==
    /\ session.done => Session \in Projects
    /\ session.status = "indexing" =>
          /\ session.done
          /\ run[AutoIndexer].pc \in {"idle", "lock"} /\ faults = 0 => ~row[Session]

StatusInv == RowsHaveFiles /\ UnreportedIsNew /\ IndexingIsUnderway

\* Of a run that goes on, and of one that ends.
LEMMA StatusInRuns ==
  ASSUME IInv, StatusInv, NEW x \in Procs, RunStep(x) \/ Fail(x)
  PROVE  StatusInv'
<1> USE ConstantsAssumption
<1>1. /\ indexMu = x /\ run[x].pc \in Stages /\ run[x].pc # "idle" /\ run[x].pc # "lock"
      /\ run[x].proj \in Projects /\ run \in [Procs -> Runs] /\ run[x] \in Runs
      /\ row \in [Projects -> BOOLEAN] /\ dbFile' = dbFile
  <2>1. /\ indexMu = x /\ run[x].pc \in Stages /\ run[x].pc # "idle" /\ run[x].pc # "lock"
        /\ dbFile' = dbFile
    BY DEF RunStep, Discover, Classify, NoOp, Extract, Finish, Fail, Holds, Stages, dbVars
  <2> QED BY <2>1 DEF IInv, TypeInv, TypeOK, RunHasProject
<1>2. \A y \in Procs \ {x} : run'[y] = run[y]
  BY <1>1 DEF RunStep, Discover, Classify, NoOp, Extract, Finish, Fail, Release
<1>3. CASE Discover(x) \/ Classify(x) \/ Extract(x)
  <2>1. UNCHANGED <<row, indexMu, session, faults>>
    BY <1>3 DEF Discover, Classify, Extract, dbVars, budget
  <2>2. run'[x].pc \in Stages /\ run'[x].pc \notin {"idle", "lock"} /\ run'[x].proj = run[x].proj
    <3>1. CASE Discover(x)
      BY <1>1, <3>1 DEF Discover, Runs, Stages
    <3>2. CASE Classify(x)
      BY <1>1, <3>2 DEF Classify, Runs, Stages
    <3>3. CASE Extract(x)
      BY <1>1, <3>3 DEF Extract, Runs, Stages
    <3> QED BY <1>3, <3>1, <3>2, <3>3
  <2>3. RowsHaveFiles'
    BY <1>1, <1>2, <2>1, <2>2 DEF StatusInv, RowsHaveFiles, Procs
  <2>4. UnreportedIsNew'
    BY <1>1, <1>2, <2>1, <2>2 DEF StatusInv, UnreportedIsNew, Procs
  <2>5. IndexingIsUnderway'
    BY <1>1, <1>2, <2>1, <2>2 DEF StatusInv, IndexingIsUnderway, Procs
  <2> QED BY <2>3, <2>4, <2>5 DEF StatusInv
<1>4. CASE NoOp(x) \/ Finish(x) \/ Fail(x)
  <2>1. run'[x].pc = "idle" /\ "idle" \notin Stages
    <3>1. run' = [run EXCEPT ![x] = Idle]
      BY <1>4 DEF NoOp, Finish, Fail, Release
    <3> QED BY <1>1, <3>1 DEF Idle, Stages
  <2>2. \A p \in Projects : /\ row[p] => row'[p]
                            /\ row'[p] /\ ~row[p] => p = run[x].proj /\ ~Fail(x)
    BY <1>1, <1>4 DEF NoOp, Finish, Fail, dbVars
  <2>3. RowsHaveFiles'
    <3>1. \A p \in Projects : row'[p] => dbFile'[p]
      BY <1>1, <2>2 DEF StatusInv, RowsHaveFiles
    <3>2. \A y \in Procs : run'[y].pc \in Stages => dbFile'[run'[y].proj]
      BY <1>1, <1>2, <2>1 DEF StatusInv, RowsHaveFiles
    <3>3. ASSUME run'[Watcher].pc # "idle" PROVE row'[run'[Watcher].proj]
      <4>1. Watcher # x /\ run'[Watcher] = run[Watcher]
        BY <1>2, <2>1, <3>3 DEF Procs
      <4>2. run[Watcher].proj \in Projects /\ row[run[Watcher].proj]
        BY <3>3, <4>1 DEF StatusInv, RowsHaveFiles, IInv, TypeInv, RunHasProject, Procs
      <4> QED BY <2>2, <4>1, <4>2
    <3> QED BY <3>1, <3>2, <3>3 DEF RowsHaveFiles
  <2>4. CASE Fail(x)
    <3>1. session' = session /\ faults' = faults + 1 /\ faults \in Nat
      BY <2>4 DEF Fail, IInv, TypeInv, TypeOK
    <3>2. faults' # 0 /\ faults' > 0
      BY <3>1
    <3> QED BY <2>3, <3>1, <3>2 DEF StatusInv, UnreportedIsNew, IndexingIsUnderway
  <2>5. CASE NoOp(x) \/ Finish(x)
    <3>1. ReportReady(x, run[x].proj) /\ faults' = faults
      BY <2>5 DEF NoOp, Finish, budget
    <3>2. session \in [done : BOOLEAN, hadDB : BOOLEAN, gaveWay : BOOLEAN,
                       status : {"unset", "indexing", "ready"}]
      BY DEF IInv, TypeInv, TypeOK
    <3>0. session'.done = session.done
      BY <3>1, <3>2 DEF ReportReady
    <3>3. SUFFICES ASSUME session'.status = "indexing"
                   PROVE  UnreportedIsNew' /\ IndexingIsUnderway'
      BY <2>3, <3>0 DEF StatusInv, UnreportedIsNew, IndexingIsUnderway
    <3>4. session' = session /\ x # AutoIndexer /\ ~(x \in Handlers /\ session.done /\ run[x].proj = Session)
      BY <3>1, <3>2, <3>3 DEF ReportReady
    <3>5. /\ session.done /\ Session \in Projects
          /\ run[AutoIndexer].pc \in {"idle", "lock"} /\ faults = 0 => ~row[Session]
      BY <3>3, <3>4 DEF StatusInv, UnreportedIsNew
    <3>6. run'[AutoIndexer] = run[AutoIndexer]
      BY <1>2, <3>4 DEF Procs
    <3>7. x = Watcher => row[run[x].proj]
      BY <1>1 DEF StatusInv, RowsHaveFiles
    <3>8. row'[Session] => row[Session]
      BY <2>2, <3>4, <3>5, <3>7 DEF Procs
    <3>9. UnreportedIsNew'
      BY <3>1, <3>4, <3>5, <3>6, <3>8 DEF UnreportedIsNew
    <3>10. IndexingIsUnderway'
      BY <1>1, <3>1, <3>3, <3>4, <3>5, <3>6 DEF StatusInv, IndexingIsUnderway
    <3> QED BY <3>9, <3>10
  <2> QED BY <1>4, <2>4, <2>5
<1> QED BY <1>3, <1>4 DEF RunStep

\* Of the session, the requests and the lock.
LEMMA StatusInSession ==
  ASSUME IInv, StatusInv,
         \/ Initialized \/ AutoSkip \/ AutoEnter
         \/ \E h \in Handlers : Acquire(h) \/ \E p \in Projects : Request(h, p)
  PROVE  StatusInv'
<1> USE ConstantsAssumption
<1>1. /\ run \in [Procs -> Runs] /\ row \in [Projects -> BOOLEAN] /\ dbFile \in [Projects -> BOOLEAN]
      /\ session \in [done : BOOLEAN, hadDB : BOOLEAN, gaveWay : BOOLEAN,
                      status : {"unset", "indexing", "ready"}]
      /\ \A x \in Procs : run[x] \in Runs /\ (run[x].pc # "idle" => run[x].proj \in Projects)
      /\ indexMu # Free => indexMu \in Procs /\ run[indexMu].pc \in Stages
      /\ \A x \in Procs : run[x].pc \in Stages => indexMu = x
      /\ "idle" \notin Stages /\ "lock" \notin Stages /\ "discover" \in Stages
  BY DEF IInv, TypeInv, TypeOK, RunHasProject, OneIndexer, Stages
<1>2. row' = row /\ faults' = faults
  BY DEF Initialized, AutoSkip, AutoEnter, Acquire, Enter, Request, dbVars, budget
<1>3. CASE Initialized
  <2>1. /\ Session \in Projects /\ dbFile' = dbFile /\ indexMu' = indexMu
        /\ run' = [run EXCEPT ![AutoIndexer] = Starting("lock", Session)]
        /\ session'.done /\ (session'.status = "indexing" => ~dbFile[Session])
    BY <1>3 DEF Initialized, dbVars
  <2>2. Starting("lock", Session).pc = "lock" /\ Starting("lock", Session).proj = Session
    BY <2>1, RunRecords
  <2>3. run'[AutoIndexer].pc = "lock" /\ \A y \in Procs \ {AutoIndexer} : run'[y] = run[y]
    BY <1>1, <2>1, <2>2 DEF Procs
  <2>4. RowsHaveFiles'
    BY <1>1, <1>2, <2>1, <2>3 DEF StatusInv, RowsHaveFiles, Procs
  <2>5. UnreportedIsNew'
    BY <1>2, <2>1 DEF StatusInv, RowsHaveFiles, UnreportedIsNew
  <2>6. IndexingIsUnderway'
    BY <2>3 DEF IndexingIsUnderway
  <2> QED BY <2>4, <2>5, <2>6 DEF StatusInv
<1>4. CASE AutoSkip
  <2>1. /\ run[AutoIndexer].pc = "lock" /\ indexMu # Free
        /\ dbFile' = dbFile /\ indexMu' = indexMu
        /\ run' = [run EXCEPT ![AutoIndexer] = Idle] /\ Idle.pc = "idle"
        /\ session' = [session EXCEPT !.gaveWay = (run[indexMu].proj # Session)]
    BY <1>4 DEF AutoSkip, dbVars, Idle
  <2>2. run'[AutoIndexer].pc = "idle" /\ \A y \in Procs \ {AutoIndexer} : run'[y] = run[y]
    BY <1>1, <2>1 DEF Procs
  <2>3. session'.status = session.status /\ session'.done = session.done
        /\ session'.gaveWay = (run[indexMu].proj # Session)
    BY <1>1, <2>1
  <2>4. RowsHaveFiles'
    BY <1>1, <1>2, <2>1, <2>2 DEF StatusInv, RowsHaveFiles, Procs
  <2>5. UnreportedIsNew'
    BY <1>2, <2>1, <2>2, <2>3 DEF StatusInv, UnreportedIsNew
  <2>6. IndexingIsUnderway'
    <3> SUFFICES ASSUME session.status = "indexing", run[indexMu].proj = Session, ~(faults > 0)
                 PROVE  \E h \in Handlers : indexMu' = h /\ run'[h].proj = Session
      BY <1>2, <2>3 DEF IndexingIsUnderway
    <3>1. faults = 0 /\ ~row[Session]
      <4>1. faults \in Nat
        BY DEF IInv, TypeInv, TypeOK
      <4> QED BY <2>1, <4>1 DEF StatusInv, UnreportedIsNew
    <3>2. indexMu \in Procs /\ run[indexMu].pc \in Stages
      BY <1>1, <2>1
    <3>3. indexMu # Watcher
      BY <1>1, <3>1, <3>2 DEF StatusInv, RowsHaveFiles
    <3>4. indexMu # AutoIndexer
      BY <1>1, <2>1, <3>2
    <3> QED BY <2>1, <2>2, <3>2, <3>3, <3>4 DEF Procs
  <2> QED BY <2>4, <2>5, <2>6 DEF StatusInv
<1>5. ASSUME NEW x \in Procs \ {Watcher}, Enter(x),
             \/ session' = session
             \/ x = AutoIndexer /\ session' = [session EXCEPT !.status = "indexing"]
      PROVE  StatusInv'
  <2>1. /\ run[x].pc = "lock" /\ run[x].proj \in Projects /\ indexMu = Free /\ indexMu' = x
        /\ dbFile' = [dbFile EXCEPT ![run[x].proj] = TRUE]
        /\ run' = [run EXCEPT ![x] = [run[x] EXCEPT !.pc = "discover"]]
    BY <1>1, <1>5 DEF Enter
  <2>2. /\ run'[x].pc = "discover" /\ run'[x].proj = run[x].proj
        /\ \A y \in Procs \ {x} : run'[y] = run[y]
    BY <1>1, <2>1 DEF Runs
  <2>3. dbFile'[run[x].proj] /\ \A p \in Projects : dbFile[p] => dbFile'[p]
    BY <1>1, <2>1
  <2>4. RowsHaveFiles'
    BY <1>1, <1>2, <1>5, <2>1, <2>2, <2>3 DEF StatusInv, RowsHaveFiles, Procs
  <2>5. CASE x = AutoIndexer
    <3>1. run'[AutoIndexer].pc \notin {"idle", "lock"}
      BY <2>2, <2>5
    <3>2. session.done /\ session'.done
      BY <1>1, <1>5, <2>1, <2>5 DEF IInv, AutoOnce
    <3>3. Session \in Projects
      BY <3>2 DEF StatusInv, UnreportedIsNew
    <3> QED BY <2>4, <3>1, <3>2, <3>3 DEF StatusInv, UnreportedIsNew, IndexingIsUnderway
  <2>6. CASE x # AutoIndexer
    <3>1. session' = session /\ run'[AutoIndexer] = run[AutoIndexer]
      BY <1>5, <2>2, <2>6 DEF Procs
    <3>2. UnreportedIsNew'
      BY <1>2, <3>1 DEF StatusInv, UnreportedIsNew
    <3>3. IndexingIsUnderway'
      BY <1>2, <2>1, <3>1 DEF StatusInv, IndexingIsUnderway, Procs
    <3> QED BY <2>4, <3>2, <3>3 DEF StatusInv
  <2> QED BY <2>5, <2>6
<1>6. ASSUME NEW h \in Handlers, NEW p \in Projects, Request(h, p) PROVE StatusInv'
  <2>1. /\ run[h].pc = "idle" /\ dbFile' = dbFile /\ indexMu' = indexMu /\ session' = session
        /\ run' = [run EXCEPT ![h] = Starting("lock", p)]
    BY <1>6 DEF Request, dbVars
  <2>2. Starting("lock", p).pc = "lock" /\ h \in Procs /\ h # AutoIndexer /\ h # Watcher
    BY RunRecords DEF Procs
  <2>3. run'[h].pc = "lock" /\ \A y \in Procs \ {h} : run'[y] = run[y]
    BY <1>1, <2>1, <2>2
  <2>4. RowsHaveFiles'
    BY <1>1, <1>2, <2>1, <2>2, <2>3 DEF StatusInv, RowsHaveFiles, Procs
  <2>5. UnreportedIsNew'
    BY <1>2, <2>1, <2>2, <2>3 DEF StatusInv, UnreportedIsNew, Procs
  <2>6. \A g \in Handlers : indexMu = g => run'[g] = run[g]
    BY <1>1, <2>1, <2>3, ConstantsAssumption DEF Procs
  <2>7. IndexingIsUnderway'
    BY <1>2, <2>1, <2>2, <2>3, <2>6 DEF StatusInv, IndexingIsUnderway, Procs
  <2> QED BY <2>4, <2>5, <2>7 DEF StatusInv
<1>7. ASSUME NEW h \in Handlers, Acquire(h) PROVE StatusInv'
  BY <1>5, <1>7 DEF Acquire, Procs
<1>8. CASE AutoEnter
  BY <1>5, <1>8 DEF AutoEnter, Procs
<1> QED BY <1>3, <1>4, <1>6, <1>7, <1>8

\* Of the watcher, the developer and the end of the process.
LEMMA StatusElsewhere ==
  ASSUME IInv, StatusInv,
         \/ \E p \in Projects, f \in Files : WriteFile(p, f) \/ RemoveFile(p, f)
         \/ \E p \in Projects : Poll(p) \/ PollFails(p) \/ Looks(p)
         \/ Crash \/ UNCHANGED vars
  PROVE  StatusInv'
<1> USE ConstantsAssumption DEF dbVars, budget, watcherVars
<1>1. ASSUME UNCHANGED <<row, dbFile, run, indexMu, session>>, faults' = faults \/ (faults' > 0 /\ faults' # 0)
      PROVE  StatusInv'
  BY <1>1 DEF StatusInv, RowsHaveFiles, UnreportedIsNew, IndexingIsUnderway
<1>2. ASSUME NEW p \in Projects, NEW f \in Files, WriteFile(p, f) \/ RemoveFile(p, f)
      PROVE  StatusInv'
  BY <1>1, <1>2 DEF WriteFile, RemoveFile
<1>3. ASSUME NEW p \in Projects, PollBaseline(p) \/ PollEqual(p) \/ PollSkip(p) \/ Looks(p)
      PROVE  StatusInv'
  BY <1>1, <1>3 DEF PollBaseline, PollEqual, PollSkip, Looks, ListProjects, Visit
<1>4. ASSUME NEW p \in Projects, PollFails(p) PROVE StatusInv'
  <2>1. faults' > 0 /\ faults' # 0
    <3>1. faults \in Nat /\ faults' = faults + 1
      BY <1>4 DEF PollFails, IInv, TypeInv, TypeOK
    <3> QED BY <3>1
  <2> QED BY <1>1, <1>4, <2>1 DEF PollFails
<1>5. ASSUME NEW p \in Projects, PollSync(p) PROVE StatusInv'
  <2>1. /\ run' = [run EXCEPT ![Watcher] = Starting("discover", p)]
        /\ indexMu = Free /\ UNCHANGED <<row, dbFile, session, faults>> /\ visit = p
    BY <1>5 DEF PollSync, Polls
  <2>2. Starting("discover", p).proj = p /\ run \in [Procs -> Runs] /\ Watcher \in Procs
    BY RunRecords DEF IInv, TypeInv, TypeOK, Procs
  <2>3. run'[Watcher].proj = p /\ \A y \in Procs \ {Watcher} : run'[y] = run[y]
    BY <2>1, <2>2
  <2>4. row[p]
    BY <2>1 DEF IInv, WatchedIsIndexed
  <2>5. RowsHaveFiles'
    BY <2>1, <2>3, <2>4 DEF StatusInv, RowsHaveFiles
  <2>6. run'[AutoIndexer] = run[AutoIndexer]
    BY <2>3 DEF Procs
  <2>7. UnreportedIsNew'
    BY <2>1, <2>6 DEF StatusInv, UnreportedIsNew
  <2>8. IndexingIsUnderway'
    BY <2>1, <2>6 DEF StatusInv, IndexingIsUnderway, Procs
  <2> QED BY <2>5, <2>7, <2>8 DEF StatusInv
<1>6. CASE Crash
  <2>1. session'.status = "unset" /\ ~session'.done /\ row' = row /\ dbFile' = dbFile
        /\ \A x \in Procs : run'[x].pc = "idle"
    BY <1>6 DEF Crash, NoSession, Idle
  <2>2. Watcher \in Procs /\ "idle" \notin Stages
    BY DEF Procs, Stages
  <2> QED BY <2>1, <2>2 DEF StatusInv, RowsHaveFiles, UnreportedIsNew, IndexingIsUnderway
<1>7. CASE UNCHANGED vars
  BY <1>1, <1>7 DEF vars
<1> QED BY <1>2, <1>3, <1>4, <1>5, <1>6, <1>7 DEF Poll

\* Answers say "indexing" only while somebody indexes the session's project
\* and will report it, or after a run has failed or the auto-index has given
\* way to another project's run.
THEOREM IndexingHasAnOwner == Spec => []IndexingIsUnderway
<1>1. Init => StatusInv
  <2> SUFFICES ASSUME Init PROVE StatusInv
    OBVIOUS
  <2>1. session.status = "unset" /\ ~session.done /\ Watcher \in Procs /\ \A x \in Procs : run[x].pc = "idle"
    BY DEF Init, NoSession, Idle, Procs
  <2> QED BY <2>1 DEF Init, StatusInv, RowsHaveFiles, UnreportedIsNew, IndexingIsUnderway, Stages
<1>2. IInv /\ StatusInv /\ [Next]_vars => StatusInv'
  BY NextSteps, StatusInRuns, StatusInSession, StatusElsewhere DEF Steps
<1>3. StatusInv => IndexingIsUnderway
  BY DEF StatusInv
<1> QED BY <1>1, <1>2, <1>3, IInvHolds, PTL DEF Spec

-----------------------------------------------------------------------------
(* Nobody waits for ever: the safety halves of RequestsAnswered and of the  *)
(* watcher's progress.                                                     *)

\* Who cannot go on by itself: a request without the lock, and a watcher
\* whose query waits for the connection of a database.
Waits(x) ==
    \/ x \in Handlers /\ run[x].pc = "lock" /\ indexMu # Free
    \/ /\ x = Watcher /\ run[x].pc = "idle" /\ visit = NoProject
       /\ \E p \in Projects : Busy(p) /\ (p \in round \/ round = {})

\* Each waits for somebody else that is in the middle of a run, and so holds
\* all it needs; the guards of RunStep cover every stage of one.
NoCircularWait ==
    \A x \in Procs : Waits(x) =>
        \E y \in Procs \ {x} :
            /\ ~Waits(y) /\ Holds(y) /\ run[y].pc \in Stages
            /\ run[y].proj \in Projects

\* The stages in their order.
NextStage == {<<"discover", "classify">>, <<"classify", "extract">>, <<"extract", "finish">>}

\* Who waits waits for a run under way, which waits for nobody: indexMu and the
\* single connection of a database cannot deadlock, whoever asks for them in
\* whatever order.
THEOREM NoDeadlock == Spec => []NoCircularWait
<1>1. IInv => NoCircularWait
  <2> SUFFICES ASSUME IInv, NEW x \in Procs, Waits(x)
               PROVE  \E y \in Procs \ {x} :
                         /\ ~Waits(y) /\ Holds(y) /\ run[y].pc \in Stages
                         /\ run[y].proj \in Projects
    BY DEF NoCircularWait
  <2>1. \A y \in Procs : /\ run[y].pc \in Stages <=> indexMu = y
                         /\ run[y].pc # "idle" => run[y].proj \in Projects
    BY DEF IInv, OneIndexer, TypeInv, RunHasProject
  <2>2. run[x].pc \notin Stages
    BY DEF Waits, Stages
  <2>3. indexMu \in Procs
    <3>1. CASE run[x].pc = "lock" /\ indexMu # Free
      BY <3>1 DEF IInv, TypeInv, TypeOK
    <3>2. CASE \E p \in Projects : Busy(p)
      BY <2>1, <3>2 DEF Busy, Stages
    <3> QED BY <3>1, <3>2 DEF Waits
  <2>4. /\ indexMu # x /\ Holds(indexMu) /\ run[indexMu].pc \in Stages
        /\ run[indexMu].proj \in Projects
    BY <2>1, <2>2, <2>3 DEF Holds, Stages
  <2>5. ~Waits(indexMu)
    BY <2>4 DEF Waits, Stages
  <2> QED BY <2>3, <2>4, <2>5
<1> QED BY <1>1, IInvHolds, PTL

\* A run never goes back and never changes its project: whoever holds indexMu
\* gives it back after at most four steps of its own, and nobody else's step
\* changes where it is.
THEOREM RunsOnlyAdvance ==
  Spec => [][\A x \in Procs : indexMu = x /\ indexMu' = x =>
                \/ run'[x] = run[x]
                \/ /\ <<run[x].pc, run'[x].pc>> \in NextStage
                   /\ run'[x].proj = run[x].proj]_vars
<1> DEFINE Advances ==
      \A x \in Procs : indexMu = x /\ indexMu' = x =>
          \/ run'[x] = run[x]
          \/ /\ <<run[x].pc, run'[x].pc>> \in NextStage
             /\ run'[x].proj = run[x].proj
<1>1. IInv /\ [Next]_vars => Advances
  <2> SUFFICES ASSUME IInv, [Next]_vars PROVE Advances
    OBVIOUS
  <2> USE ConstantsAssumption DEF dbVars, budget, watcherVars
  <2>1. /\ run \in [Procs -> Runs] /\ Free \notin Procs
        /\ \A x \in Procs : run[x] \in Runs /\ (indexMu = x => run[x].pc \in Stages)
    BY DEF IInv, TypeInv, TypeOK, OneIndexer
  <2>2. ASSUME NEW x \in Procs, Discover(x) \/ Classify(x) \/ Extract(x) PROVE Advances
    <3>1. indexMu = x
      BY <2>2 DEF Discover, Classify, Extract, Holds
    <3>2. CASE Discover(x)
      BY <2>1, <3>1, <3>2 DEF Discover, Runs, NextStage
    <3>3. CASE Classify(x)
      BY <2>1, <3>1, <3>3 DEF Classify, Runs, NextStage
    <3>4. CASE Extract(x)
      BY <2>1, <3>1, <3>4 DEF Extract, Runs, NextStage
    <3> QED BY <2>2, <3>2, <3>3, <3>4
  <2>3. ASSUME indexMu' = Free \/ indexMu = Free PROVE Advances
    BY <2>1, <2>3
  <2>4. ASSUME NEW x \in Procs, NoOp(x) \/ Finish(x) \/ Fail(x) \/ Enter(x) PROVE Advances
    BY <2>3, <2>4 DEF NoOp, Finish, Fail, Enter, Release
  <2>5. ASSUME NEW p \in Projects, PollSync(p) PROVE Advances
    BY <2>3, <2>5 DEF PollSync
  <2>6. CASE Crash
    BY <2>3, <2>6 DEF Crash
  <2>7. ASSUME NEW y \in Procs, NEW r, run[y].pc \notin Stages, run' = [run EXCEPT ![y] = r]
        PROVE  Advances
    BY <2>1, <2>7
  <2>8. CASE AutoSkip
    BY <2>7, <2>8 DEF AutoSkip, Stages, Procs
  <2>9. CASE Initialized
    <3>1. run[AutoIndexer].pc \notin Stages
      BY <2>9 DEF Initialized, IInv, AutoOnce, Stages
    <3> QED BY <2>7, <2>9, <3>1 DEF Initialized, Procs
  <2>10. ASSUME NEW h \in Handlers, NEW p \in Projects, Request(h, p) PROVE Advances
    BY <2>7, <2>10 DEF Request, Stages, Procs
  <2>11. ASSUME run' = run PROVE Advances
    BY <2>11
  <2>12. ASSUME NEW p \in Projects, NEW f \in Files, WriteFile(p, f) \/ RemoveFile(p, f)
         PROVE  Advances
    BY <2>11, <2>12 DEF WriteFile, RemoveFile
  <2>13. ASSUME NEW p \in Projects,
                PollBaseline(p) \/ PollEqual(p) \/ PollSkip(p) \/ PollFails(p) \/ Looks(p)
         PROVE  Advances
    BY <2>11, <2>13 DEF PollBaseline, PollEqual, PollSkip, PollFails, Looks, ListProjects, Visit
  <2>14. CASE UNCHANGED vars
    BY <2>11, <2>14 DEF vars
  <2>15. AutoEnter => Advances
    BY <2>4 DEF AutoEnter, Procs
  <2>16. ASSUME NEW h \in Handlers, Acquire(h) PROVE Advances
    BY <2>4, <2>16 DEF Acquire, Procs
  <2> QED
    BY <2>2, <2>4, <2>5, <2>6, <2>8, <2>9, <2>10, <2>12, <2>13, <2>14, <2>15, <2>16, NextSteps
    DEF Steps, RunStep, Poll
<1> QED BY <1>1, IInvHolds, PTL DEF Spec
=============================================================================
