------------------------------ MODULE AutoSync ------------------------------
(***************************************************************************)
(* How the graph database follows the files on disk while the MCP server   *)
(* runs: the watcher goroutine (internal/watcher), the three callers of    *)
(* the indexing pipeline (index_repository requests, the auto-index        *)
(* goroutine of the session, the watcher's syncProject callback), the      *)
(* global index mutex they share (internal/tools) and the four moments at  *)
(* which one pipeline run reads the disk (internal/pipeline).              *)
(*                                                                         *)
(* The content of a file is a version number.  Every edit gives the file a *)
(* version nothing had before, so a version stands for the file's modified *)
(* time and size (what the watcher compares) as well as for its content    *)
(* hash (what the pipeline compares).                                      *)
(***************************************************************************)
EXTENDS Naturals, FiniteSets

CONSTANTS
    Projects,     \* the projects of the cache directory
    Files,        \* the source files a project may hold
    Watcher,      \* the goroutine of StartWatcher
    AutoIndexer,  \* the goroutine of startAutoIndex
    Handlers,     \* concurrent index_repository requests
    Free,         \* the value of an unlocked indexMu
    NoProject,
    Session,      \* the project of the client's session, or NoProject
    NoSnapshot,   \* the nil map of a projectState that was never polled
    EditTimes,    \* when files may change besides the quiet moments:
                  \* "indexing", "unwatched" (before the first poll), or both
    Deletions,    \* may a file be removed
    MaxEdits, MaxFaults, MaxCrashes  \* bounds on what the environment does

Procs == {Watcher, AutoIndexer} \cup Handlers

ASSUME ConstantsAssumption ==
    /\ Watcher # AutoIndexer /\ Watcher \notin Handlers /\ AutoIndexer \notin Handlers
    /\ Free \notin Procs
    /\ NoProject \notin Projects
    /\ Session \in Projects \cup {NoProject}
    /\ NoSnapshot \notin [Files -> Nat]
    /\ EditTimes \subseteq {"indexing", "unwatched"}
    /\ Deletions \in BOOLEAN
    /\ MaxEdits \in Nat /\ MaxFaults \in Nat /\ MaxCrashes \in Nat

Absent == 0     \* on disk: no such file; in the graph: no node of the file
Bare   == 1     \* in the graph: the File node alone, its extraction failed
First  == 2     \* the version a file starts with
Version == Nat
Tree == [Files -> Version]
EmptyTree == [f \in Files |-> Absent]

VARIABLES
    disk,       \* the working tree of each project
    dbFile,     \* does <project>.db exist in the cache directory
    row,        \* does the database hold the project's row (a run committed)
    graph,      \* the version of each file the committed graph describes
    hash,       \* table file_hashes, Absent where the file has no entry
    indexMu,    \* Server.indexMu: Free or the process that holds it
    run,        \* what each caller of the pipeline is doing
    snapshot,   \* projectState.snapshot of the watcher
    round,      \* the projects that pollAll has still to visit
    visit,      \* the project whose row it has read and is polling
    fresh,      \* the snapshot the watcher's pending sync will install
    session,    \* sessionOnce, the goroutine's hasDB, indexStatus, and auxiliary:
                \* did the goroutine give way to the run of another project
    missed,     \* auxiliary: the changes no later poll or run will look at
    touched,    \* auxiliary: the files edited since the run at work read them
    edits, faults, lapses, crashes  \* lapses: runs that left files out

dbVars  == <<dbFile, row, graph, hash>>
watcherVars == <<snapshot, round, visit, fresh>>
auxVars == <<missed, touched>>
budget == <<edits, faults, lapses, crashes>>
vars == <<disk, dbFile, row, graph, hash, indexMu, run, snapshot, round, visit, fresh,
          session, missed, touched, edits, faults, lapses, crashes>>

Stages == {"discover", "classify", "extract", "finish"}

Idle == [pc |-> "idle", proj |-> NoProject, files |-> {}, plan |-> "none",
         todo |-> {}, content |-> EmptyTree]

Starting(pc, p) == [Idle EXCEPT !.pc = pc, !.proj = p]

Runs == [pc : {"idle", "lock"} \cup Stages, proj : Projects \cup {NoProject},
         files : SUBSET Files, plan : {"none", "full", "incremental"},
         todo : SUBSET Files, content : Tree]

NoSession == [done |-> FALSE, hadDB |-> FALSE, status |-> "unset", gaveWay |-> FALSE]

Init ==
    /\ disk = [p \in Projects |-> [f \in Files |-> First]]
    /\ row \in [Projects -> BOOLEAN]
    /\ dbFile = row
    /\ graph = [p \in Projects |-> IF row[p] THEN disk[p] ELSE EmptyTree]
    /\ hash = graph
    /\ indexMu = Free
    /\ run = [x \in Procs |-> Idle]
    /\ snapshot = [p \in Projects |-> NoSnapshot]
    /\ round = {} /\ visit = NoProject
    /\ fresh = EmptyTree
    /\ session = NoSession
    /\ missed = {} /\ touched = {}
    /\ edits = 0 /\ faults = 0 /\ lapses = 0 /\ crashes = 0

-----------------------------------------------------------------------------
(* The developer who edits the tree.                                       *)

\* In a quiet moment nobody indexes and the watcher has a baseline to compare
\* the new state of the tree with.
MayEdit(p) ==
    /\ edits < MaxEdits
    /\ indexMu # Free => "indexing" \in EditTimes
    /\ snapshot[p] = NoSnapshot => "unwatched" \in EditTimes

\* A run of the project has made its list of files and not yet committed: it
\* has the project's only connection from UpsertProject to the commit.
Busy(p) == \E x \in Procs : run[x].proj = p /\ run[x].pc \in {"classify", "extract", "finish"}

\* The run at work, if any, has not seen this edit.
Touch(p, f) == touched' = IF Busy(p) THEN touched \cup {f} ELSE touched

\* The watcher has nothing to compare: it knows the file as it is now.
Seen(snap, p, f) == snap[p] # NoSnapshot /\ snap[p][f] = disk'[p][f]

WriteFile(p, f) ==
    /\ MayEdit(p)
    /\ disk' = [disk EXCEPT ![p][f] = First + 1 + edits]
    /\ missed' = missed \ {<<p, f>>}
    /\ Touch(p, f)
    /\ edits' = edits + 1
    /\ UNCHANGED <<dbVars, indexMu, run, watcherVars, session, faults, lapses, crashes>>

\* Once a file is gone no poll can tell it from one that never was: when the
\* watcher's snapshot lacks it but another caller indexed it meanwhile, its
\* nodes stay.
RemoveFile(p, f) ==
    /\ Deletions /\ MayEdit(p)
    /\ disk[p][f] # Absent
    /\ disk' = [disk EXCEPT ![p][f] = Absent]
    /\ missed' = IF Seen(snapshot, p, f) /\ graph[p][f] # Absent
                 THEN missed \cup {<<p, f>>} ELSE missed \ {<<p, f>>}
    /\ Touch(p, f)
    /\ edits' = edits + 1
    /\ UNCHANGED <<dbVars, indexMu, run, watcherVars, session, faults, lapses, crashes>>

-----------------------------------------------------------------------------
(* One run of the pipeline by the process that holds indexMu.              *)

Holds(x) == indexMu = x

\* Mutant: the new snapshot is installed although the index failed.
SyncReturnsAlways(x, p, ok) ==
    IF x = Watcher
    THEN /\ snapshot' = [snapshot EXCEPT ![p] = fresh]
         /\ fresh' = EmptyTree
         /\ UNCHANGED <<round, visit>>
    ELSE UNCHANGED watcherVars

\* The watcher's sync returned: installs the snapshot it was started for if
\* the callback returned nil, else keeps the old one for the next cycle.
SyncReturns(x, p, ok) ==
    IF x = Watcher
    THEN /\ snapshot' = IF ok THEN [snapshot EXCEPT ![p] = fresh] ELSE snapshot
         /\ fresh' = EmptyTree
         /\ UNCHANGED <<round, visit>>
    ELSE UNCHANGED watcherVars

\* Mutant: only the auto-index goroutine reports.
ReportReadyAutoOnly(x, p) ==
    session' = IF x = AutoIndexer THEN [session EXCEPT !.status = "ready"] ELSE session

\* The auto-index goroutine and a request for the session's own project
\* report that the index is ready; a failure leaves the status as it was.
ReportReady(x, p) ==
    session' = IF x = AutoIndexer \/ (x \in Handlers /\ session.done /\ p = Session)
               THEN [session EXCEPT !.status = "ready"] ELSE session

Release(x) ==
    /\ indexMu' = Free
    /\ run' = [run EXCEPT ![x] = Idle]
    /\ touched' = {}

Present(p) == {f \in Files : disk[p][f] # Absent}

MayFail == faults + lapses < MaxFaults

\* A run leaves out files: by its mode, or for a failed extraction.
Lapse(out) ==
    /\ out # {} => MayFail
    /\ lapses' = IF out = {} THEN lapses ELSE lapses + 1

\* The walk of the tree, in the run's mode.  A request may ask for the fast one,
\* which leaves out files by their names, directories and sizes; the watcher's
\* snapshots and runs and the auto-index are always full.
Discover(x) ==
    /\ Holds(x) /\ run[x].pc = "discover"
    /\ \E filtered \in SUBSET Present(run[x].proj) :
          /\ filtered # {} => x \in Handlers
          /\ Lapse(filtered)
          /\ run' = [run EXCEPT ![x] = [@ EXCEPT !.pc = "classify",
                       !.files = Present(run[x].proj) \ filtered]]
    /\ UNCHANGED <<disk, dbVars, indexMu, watcherVars, session, auxVars,
                   edits, faults, crashes>>

\* classifyFiles: a file is unchanged when its stored hash is that of the
\* content it has now; one that cannot be read counts as changed.
Unchanged(x) ==
    {f \in run[x].files : /\ hash[run[x].proj][f] # Absent
                          /\ disk[run[x].proj][f] = hash[run[x].proj][f]}

\* Files the no-op fast path leaves in the graph although they are gone.
LeftBehind(x) ==
    LET p == run[x].proj IN
    {<<p, f>> : f \in {g \in Files \ (run[x].files \cup Present(p)) : graph[p][g] # Absent}}

Classify(x) ==
    /\ Holds(x) /\ run[x].pc = "classify"
    /\ Unchanged(x) = {} \/ Unchanged(x) # run[x].files
    /\ run' = [run EXCEPT ![x] = [@ EXCEPT !.pc = "extract",
                 !.plan = IF Unchanged(x) = {} THEN "full" ELSE "incremental",
                 !.todo = run[x].files \ Unchanged(x)]]
    /\ touched' = touched \ run[x].files
    /\ UNCHANGED <<disk, dbVars, indexMu, watcherVars, session, missed, budget>>

\* Mutant: the fast path's early return misses the unlock.
NoOpKeepsLock(x) ==
    /\ Holds(x) /\ run[x].pc = "classify"
    /\ Unchanged(x) # {} /\ Unchanged(x) = run[x].files
    /\ row' = [row EXCEPT ![run[x].proj] = TRUE]
    /\ missed' = missed \cup LeftBehind(x)
    /\ SyncReturns(x, run[x].proj, TRUE)
    /\ ReportReady(x, run[x].proj)
    /\ run' = [run EXCEPT ![x] = Idle]
    /\ touched' = {}
    /\ UNCHANGED <<disk, dbFile, graph, hash, indexMu, budget>>

\* Nothing changed: the transaction commits the project row and the run
\* returns nil without any pass, that over deleted files included.
NoOp(x) ==
    /\ Holds(x) /\ run[x].pc = "classify"
    /\ Unchanged(x) # {} /\ Unchanged(x) = run[x].files
    /\ row' = [row EXCEPT ![run[x].proj] = TRUE]
    /\ missed' = missed \cup LeftBehind(x)
    /\ SyncReturns(x, run[x].proj, TRUE)
    /\ ReportReady(x, run[x].proj)
    /\ Release(x)
    /\ UNCHANGED <<disk, dbFile, graph, hash, budget>>

\* Mutant: the watcher's run is given what its last poll saw.
ContentOfSnapshot(x, failed) ==
    LET r == run[x] IN
    [f \in Files |-> IF f \notin r.todo THEN Absent
                     ELSE IF x = Watcher THEN snapshot[r.proj][f]
                     ELSE IF disk[r.proj][f] # Absent THEN disk[r.proj][f]
                     ELSE IF r.plan = "full" THEN Bare ELSE Absent]

\* What the extraction gives of the files to do.  A file that vanished or whose
\* parse fails or times out is skipped: in a full run it keeps the File node of
\* the structure pass, which an incremental run has deleted.
Content(x, failed) ==
    LET r == run[x] IN
    [f \in Files |-> IF f \notin r.todo THEN Absent
                     ELSE IF disk[r.proj][f] # Absent /\ f \notin failed THEN disk[r.proj][f]
                     ELSE IF r.plan = "full" THEN Bare ELSE Absent]

\* Mutant: the passes write outside the transaction.
ExtractCommits(x) ==
    /\ Holds(x) /\ run[x].pc = "extract"
    /\ run' = [run EXCEPT ![x] = [@ EXCEPT !.pc = "finish", !.content = Content(x, {})]]
    /\ graph' = [graph EXCEPT ![run[x].proj] = Content(x, {})]
    /\ touched' = touched \ run[x].todo
    /\ UNCHANGED <<disk, dbFile, row, hash, indexMu, watcherVars, session, missed, budget>>

\* passDefinitions, which logs a failed extraction and goes on.
Extract(x) ==
    /\ Holds(x) /\ run[x].pc = "extract"
    /\ \E failed \in SUBSET (run[x].todo \cap Present(run[x].proj)) :
          /\ Lapse(failed)
          /\ run' = [run EXCEPT ![x] = [@ EXCEPT !.pc = "finish",
                                                !.content = Content(x, failed)]]
    /\ touched' = touched \ run[x].todo
    /\ UNCHANGED <<disk, dbVars, indexMu, watcherVars, session, missed,
                   edits, faults, crashes>>

\* The graph the run commits: a full run replaces it, an incremental one
\* replaces the changed files, drops those not discovered and keeps the rest,
\* with at least the File node of passStructure.
NewGraph(x) ==
    LET r == run[x] IN
    IF r.plan = "full" THEN r.content
    ELSE [f \in Files |-> IF f \in r.todo THEN r.content[f]
                          ELSE IF f \notin r.files THEN Absent
                          ELSE IF graph[r.proj][f] = Absent THEN Bare ELSE graph[r.proj][f]]

\* updateFileHashes hashes every discovered file again, at the end of the
\* run; only removeDeletedFiles, which a full run does not call, drops one.
NewHash(x) ==
    LET r == run[x] IN
    [f \in Files |->
        IF f \in r.files /\ disk[r.proj][f] # Absent THEN disk[r.proj][f]
        ELSE IF r.plan = "incremental" /\ f \notin r.files /\ graph[r.proj][f] # Absent
             THEN Absent
        ELSE hash[r.proj][f]]

\* What the run knows nothing or not the last of: files edited behind its back,
\* files it could not extract, files it left out.
Unseen(x) ==
    LET r == run[x] IN
    {f \in Files : \/ f \in touched
                   \/ f \in r.todo /\ r.content[f] \in {Absent, Bare}
                   \/ f \in Present(r.proj) \ r.files}

\* Of these, the changes that are lost: the graph does not have them, but the
\* hash table or the watcher's snapshot does.
Lost(x) ==
    LET p == run[x].proj IN
    {<<p, f>> : f \in {g \in Unseen(x) :
        /\ graph'[p][g] # disk[p][g]
        /\ \/ hash'[p][g] = disk[p][g] /\ disk[p][g] # Absent
           \/ Seen(snapshot', p, g)}}

\* What was missed before stays so for the files whose hash let them be.
StillMissed(x) ==
    LET r == run[x] IN
    {m \in missed : m[1] # r.proj \/ m[2] \in r.files \ r.todo}

Finish(x) ==
    /\ Holds(x) /\ run[x].pc = "finish"
    /\ row' = [row EXCEPT ![run[x].proj] = TRUE]
    /\ graph' = [graph EXCEPT ![run[x].proj] = NewGraph(x)]
    /\ hash' = [hash EXCEPT ![run[x].proj] = NewHash(x)]
    /\ SyncReturns(x, run[x].proj, TRUE)
    /\ disk' = disk
    /\ missed' = StillMissed(x) \cup Lost(x)
    /\ ReportReady(x, run[x].proj)
    /\ Release(x)
    /\ UNCHANGED <<dbFile, budget>>

\* Mutant: an error at the end leaves the flushed graph behind.
FailKeepsGraph(x) ==
    /\ Holds(x) /\ run[x].pc = "finish"
    /\ MayFail
    /\ faults' = faults + 1
    /\ graph' = [graph EXCEPT ![run[x].proj] = NewGraph(x)]
    /\ SyncReturns(x, run[x].proj, FALSE)
    /\ Release(x)
    /\ UNCHANGED <<disk, dbFile, row, hash, session, missed, edits, lapses, crashes>>

\* Mutant: an error leaves the new hashes behind.
FailKeepsHashes(x) ==
    /\ Holds(x) /\ run[x].pc = "finish"
    /\ MayFail
    /\ faults' = faults + 1
    /\ hash' = [hash EXCEPT ![run[x].proj] = NewHash(x)]
    /\ SyncReturns(x, run[x].proj, FALSE)
    /\ Release(x)
    /\ UNCHANGED <<disk, dbFile, row, graph, session, missed, edits, lapses, crashes>>

\* Any step of a run may fail (the store, the walk, the flush, a cancelled
\* request); the transaction rolls back and the error reaches the caller.
Fail(x) ==
    /\ Holds(x) /\ run[x].pc \in Stages
    /\ MayFail
    /\ faults' = faults + 1
    /\ SyncReturns(x, run[x].proj, FALSE)
    /\ Release(x)
    /\ UNCHANGED <<disk, dbVars, session, missed, edits, lapses, crashes>>

RunStep(x) == Discover(x) \/ Classify(x) \/ NoOp(x) \/ Extract(x) \/ Finish(x)

-----------------------------------------------------------------------------
(* The watcher: one poll of one project by its only goroutine.             *)

\* pollAll asks every database for its metadata, which waits for the only
\* connection of one that is busy.  It will visit those whose interval has run
\* out, ps.
ListProjects(ps) ==
    /\ run[Watcher].pc = "idle" /\ round = {} /\ visit = NoProject
    /\ ps \subseteq {p \in Projects : dbFile[p]} /\ \A p \in Projects : ~Busy(p)
    /\ round' = ps
    /\ UNCHANGED <<disk, dbVars, indexMu, run, snapshot, visit, fresh, session, auxVars, budget>>

\* GetProject; a project without a row is passed over.
Visit(p) ==
    /\ run[Watcher].pc = "idle" /\ visit = NoProject
    /\ p \in round /\ ~Busy(p)
    /\ round' = round \ {p}
    /\ visit' = IF row[p] THEN p ELSE NoProject
    /\ UNCHANGED <<disk, dbVars, indexMu, run, snapshot, fresh, session, auxVars, budget>>

\* pollProject walks the tree, which may take until a run has begun.
Polls(p) == run[Watcher].pc = "idle" /\ visit = p

Stale(p) == {<<p, f>> : f \in {g \in Files : graph[p][g] # disk[p][g]}}

\* The first poll after the start of the process only takes the baseline:
\* what the graph lacks by then is never looked at.
PollBaseline(p) ==
    /\ Polls(p) /\ snapshot[p] = NoSnapshot
    /\ snapshot' = [snapshot EXCEPT ![p] = disk[p]]
    /\ visit' = NoProject
    /\ missed' = missed \cup Stale(p)
    /\ UNCHANGED <<disk, dbVars, indexMu, run, round, fresh, session, touched, budget>>

PollEqual(p) ==
    /\ Polls(p) /\ snapshot[p] = disk[p]
    /\ visit' = NoProject
    /\ UNCHANGED <<disk, dbVars, indexMu, run, snapshot, round, fresh, session, auxVars, budget>>

Differs(p) == snapshot[p] # NoSnapshot /\ snapshot[p] # disk[p]

\* syncProject finds indexMu locked, by whatever project's run, and returns
\* nil; pollProject takes nil for a successful index.
PollSkip(p) ==
    /\ Polls(p) /\ Differs(p) /\ indexMu # Free
    /\ snapshot' = [snapshot EXCEPT ![p] = disk[p]]
    /\ visit' = NoProject
    /\ missed' = missed \cup Stale(p)
    /\ UNCHANGED <<disk, dbVars, indexMu, run, round, fresh, session, touched, budget>>

PollSync(p) ==
    /\ Polls(p) /\ Differs(p) /\ indexMu = Free
    /\ indexMu' = Watcher
    /\ run' = [run EXCEPT ![Watcher] = Starting("discover", p)]
    /\ fresh' = disk[p]
    /\ visit' = NoProject
    /\ UNCHANGED <<disk, dbVars, snapshot, round, session, auxVars, budget>>

\* The root is gone or the walk failed: the poll is put off, no more.
PollFails(p) ==
    /\ Polls(p) /\ MayFail
    /\ faults' = faults + 1
    /\ visit' = NoProject
    /\ UNCHANGED <<disk, dbVars, indexMu, run, snapshot, round, fresh, session, auxVars,
                   edits, lapses, crashes>>

Poll(p) == PollBaseline(p) \/ PollEqual(p) \/ PollSkip(p) \/ PollSync(p)

-----------------------------------------------------------------------------
(* The session: one auto-index, started by whichever of onInitialized and  *)
(* onRootsChanged comes first, in a goroutine that only tries the lock.    *)

Initialized ==
    /\ Session # NoProject /\ ~session.done
    /\ session' = [done |-> TRUE, hadDB |-> dbFile[Session], gaveWay |-> FALSE,
                   status |-> IF dbFile[Session] THEN "ready" ELSE "indexing"]
    /\ run' = [run EXCEPT ![AutoIndexer] = Starting("lock", Session)]
    /\ UNCHANGED <<disk, dbVars, indexMu, watcherVars, auxVars, budget>>

\* It does not wait for the lock, nor try again.
AutoSkip ==
    /\ run[AutoIndexer].pc = "lock" /\ indexMu # Free
    /\ run' = [run EXCEPT ![AutoIndexer] = Idle]
    /\ session' = [session EXCEPT !.gaveWay = (run[indexMu].proj # Session)]
    /\ UNCHANGED <<disk, dbVars, indexMu, watcherVars, auxVars, budget>>

\* Mutant: nobody looks at the lock.
EnterUnlocked(x) ==
    /\ run[x].pc = "lock"
    /\ indexMu' = x
    /\ dbFile' = [dbFile EXCEPT ![run[x].proj] = TRUE]
    /\ run' = [run EXCEPT ![x].pc = "discover"]
    /\ UNCHANGED <<disk, row, graph, hash, watcherVars, auxVars, budget>>

\* Lock taken, the run may start: ForProject creates the database if needed.
Enter(x) ==
    /\ run[x].pc = "lock" /\ indexMu = Free
    /\ indexMu' = x
    /\ dbFile' = [dbFile EXCEPT ![run[x].proj] = TRUE]
    /\ run' = [run EXCEPT ![x].pc = "discover"]
    /\ UNCHANGED <<disk, row, graph, hash, watcherVars, auxVars, budget>>

AutoEnter ==
    /\ Enter(AutoIndexer)
    /\ session' = IF session.hadDB THEN session ELSE [session EXCEPT !.status = "indexing"]

-----------------------------------------------------------------------------
(* index_repository requests, which wait for the lock.                     *)

Request(h, p) ==
    /\ run[h].pc = "idle"
    /\ run' = [run EXCEPT ![h] = Starting("lock", p)]
    /\ UNCHANGED <<disk, dbVars, indexMu, watcherVars, session, auxVars, budget>>

Acquire(h) == Enter(h) /\ UNCHANGED session

-----------------------------------------------------------------------------
\* The process dies and a new one starts: an open transaction is rolled
\* back, all that lived in memory is gone.
Crash ==
    /\ crashes < MaxCrashes
    /\ crashes' = crashes + 1
    /\ indexMu' = Free
    /\ run' = [x \in Procs |-> Idle]
    /\ snapshot' = [p \in Projects |-> NoSnapshot]
    /\ round' = {} /\ visit' = NoProject
    /\ fresh' = EmptyTree
    /\ session' = NoSession
    /\ touched' = {}
    /\ UNCHANGED <<disk, dbVars, missed, edits, faults, lapses>>

Next ==
    \/ \E p \in Projects, f \in Files : WriteFile(p, f) \/ RemoveFile(p, f)
    \/ \E x \in Procs : RunStep(x) \/ Fail(x)
    \/ \E ps \in SUBSET Projects : ListProjects(ps)
    \/ \E p \in Projects : Visit(p) \/ Poll(p) \/ PollFails(p)
    \/ Initialized \/ AutoSkip \/ AutoEnter
    \/ \E h \in Handlers : Acquire(h) \/ \E p \in Projects : Request(h, p)
    \/ Crash

(***************************************************************************)
(* The goroutines make progress: a run that holds the lock goes on, so do   *)
(* a poll and a started auto-index goroutine.  A project's interval is at   *)
(* most a minute: some round visits it (SF, for rounds come and go).        *)
(* database/sql and sync.Mutex serve their waiters in turn (SF).            *)
(***************************************************************************)
Fairness ==
    /\ \A x \in Procs : WF_vars(RunStep(x))
    /\ WF_vars(AutoSkip \/ AutoEnter)
    /\ \A h \in Handlers : SF_vars(Acquire(h))
    /\ \A p \in Projects :
          /\ SF_vars(\E ps \in SUBSET Projects : p \in ps /\ ListProjects(ps))
          /\ SF_vars(Visit(p)) /\ WF_vars(Poll(p))

Spec == Init /\ [][Next]_vars
FairSpec == Spec /\ Fairness

-----------------------------------------------------------------------------
(* Invariants.                                                             *)

\* The state has the shape the code's variables have.
TypeOK ==
    /\ disk \in [Projects -> Tree]
    /\ dbFile \in [Projects -> BOOLEAN]
    /\ row \in [Projects -> BOOLEAN]
    /\ graph \in [Projects -> Tree]
    /\ hash \in [Projects -> Tree]
    /\ indexMu \in Procs \cup {Free}
    /\ run \in [Procs -> Runs]
    /\ snapshot \in [Projects -> Tree \cup {NoSnapshot}]
    /\ round \subseteq Projects /\ visit \in Projects \cup {NoProject}
    /\ fresh \in Tree
    /\ session \in [done : BOOLEAN, hadDB : BOOLEAN, gaveWay : BOOLEAN,
                    status : {"unset", "indexing", "ready"}]
    /\ missed \subseteq Projects \X Files /\ touched \subseteq Files
    /\ edits \in 0..MaxEdits /\ faults \in 0..MaxFaults
    /\ lapses \in 0..MaxFaults /\ crashes \in 0..MaxCrashes

\* At most one pipeline is between its first read of the disk and its commit,
\* over all projects and all three ways to start one, and it is the one of the
\* process that holds indexMu.
OneIndexer == \A x \in Procs : run[x].pc \in Stages <=> indexMu = x

\* The list of the ways auto-sync loses a change is complete.  While a project
\* is watched, a file whose graph is out of date is one the next poll will see
\* as changed, or one of missed, which is written by the events of this list
\* alone: the first poll took it for a baseline; a sync gave way to another run;
\* a run did not see the edit, could not extract the file or left it out by its
\* mode; a deletion escaped the snapshot or the no-op fast path.
StalenessExplained ==
    \A p \in Projects, f \in Files :
        row[p] /\ snapshot[p] # NoSnapshot /\ graph[p][f] # disk[p][f] =>
            snapshot[p][f] # disk[p][f] \/ <<p, f>> \in missed

\* And it is exact: what is put down as missed is really out of date.
MissedIsStale == \A m \in missed : graph[m[1]][m[2]] # disk[m[1]][m[2]]

\* A stored hash that matches the disk vouches for the graph, as classifyFiles
\* takes it to when it leaves the file out.  The exceptions are in missed: the
\* file changed after the run at work had read it and before it hashed it, its
\* extraction failed though its hash was stored, or a full run of the fast mode
\* left it out and kept the hash it had.
HashVouches ==
    \A p \in Projects, f \in Files :
        hash[p][f] # Absent /\ hash[p][f] = disk[p][f] =>
            graph[p][f] = hash[p][f] \/ <<p, f>> \in missed

\* Where an answer may say "indexing", somebody is at it and will report: the
\* auto-index goroutine, or a request for the same project that has the lock.
\* The exceptions are a run that failed and a goroutine that gave way to the
\* run of another project: then nobody is, and the status stays.
IndexingIsUnderway ==
    session.status = "indexing" =>
        \/ run[AutoIndexer].pc # "idle"
        \/ \E h \in Handlers : indexMu = h /\ run[h].proj = Session
        \/ session.gaveWay \/ faults > 0

-----------------------------------------------------------------------------
(* Action properties.                                                      *)

\* The tables of a project change only in a step of the run that holds the
\* lock for that very project, and only in the step that ends it.
CommitsUnderLock ==
    [][\A p \in Projects :
          <<row[p], graph[p], hash[p]>>' # <<row[p], graph[p], hash[p]>> =>
             \E x \in Procs : /\ indexMu = x /\ indexMu' = Free
                              /\ run[x].proj = p /\ run[x].pc \in {"classify", "finish"}]_vars

\* No run undoes a later one: what a commit puts in the place of a version of a
\* file is never an older version, though the watcher, the session and requests
\* run on the same project with files that change as they are read.
GraphNeverGoesBack ==
    [][\A p \in Projects, f \in Files :
          graph'[p][f] >= First => graph'[p][f] >= graph[p][f]]_vars

-----------------------------------------------------------------------------
(* Liveness, of FairSpec.                                                  *)

\* Whatever happens, a change that is not put down as missed gets into the
\* graph: a failed poll or run, a busy lock, a later edit only delay it.
EventuallySettled ==
    \A p \in Projects :
        <>[](row[p] => \A f \in Files : graph[p][f] = disk[p][f] \/ <<p, f>> \in missed)

\* Every index_repository request is answered.
RequestsAnswered == \A h \in Handlers : run[h].pc = "lock" ~> run[h].pc = "idle"

\* The clients of a session see the end of "indexing", unless a run failed or
\* the auto-index gave way to the run of another project.
SessionGetsReady ==
    session.done ~> session.status = "ready" \/ session.gaveWay \/ faults > 0 \/ ~session.done

\* MCP_TOOLS.md:9: once the files of an indexed project stop changing, its
\* graph comes to describe them and stays so.
EventuallyFresh == \A p \in Projects : <>[](row[p] => graph[p] = disk[p])
=============================================================================
