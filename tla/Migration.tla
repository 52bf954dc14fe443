----------------------------- MODULE Migration -----------------------------
(***************************************************************************)
(* The migration of the legacy database codebook.db, which held all        *)
(* projects, to one database per project (internal/store/migrate.go).      *)
(* Every process does it as it starts, so that two of them, the server and *)
(* a CLI call, may be at it at once, and each may die at any point.        *)
(***************************************************************************)
EXTENDS Naturals

CONSTANTS
    Projects,     \* those of the legacy database
    Processes,
    NoProject,
    MaxCrashes    \* bounds the restarts

ASSUME MigrationAssumption == NoProject \notin Projects /\ MaxCrashes \in Nat

\* Mutant: the hashes are copied before the graph.
HashesFirst == <<"projects", "file_hashes", "nodes", "edges">>

\* Each table is copied by a statement of its own, in this order.
CopyOrder == <<"projects", "nodes", "edges", "file_hashes">>

Tables == {CopyOrder[i] : i \in 1..4}

\* The rows of a table: those of the legacy database, those of a later run of
\* the pipeline, or some of each.
Contents == {"none", "old", "new", "mixed"}

Empty == [t \in Tables |-> "none"]

VARIABLES
    legacy,       \* what codebook.db is: an opened file that was gone is made anew
    backup,       \* codebook.db.backup
    created,      \* the projects that have a file
    target,       \* the tables of each
    proc,         \* where each process is in migrate
    crashes,
    cut,          \* auxiliary: projects whose copying broke off
    overlapped,   \* auxiliary: projects indexed while they were copied
    torn          \* auxiliary: the making of the backup broke off

vars == <<legacy, backup, created, target, proc, crashes, cut, overlapped, torn>>
auxVars == <<cut, overlapped, torn>>

Starting == [pc |-> "start", todo |-> {}, proj |-> NoProject, copied |-> 0]
Ready == [Starting EXCEPT !.pc = "ready"]

Process == [pc : {"start", "backup", "make backup", "copying backup", "list", "next", "create",
                  "copy", "ready"},
            todo : SUBSET Projects, proj : Projects \cup {NoProject}, copied : 0..4]

Init ==
    /\ legacy = "full" /\ backup = "none"
    /\ created = {} /\ target = [p \in Projects |-> Empty]
    /\ proc = [s \in Processes |-> Starting]
    /\ crashes = 0
    /\ cut = {} /\ overlapped = {} /\ torn = FALSE

At(s, pc) == proc[s].pc = pc

Goes(s, pc) == proc' = [proc EXCEPT ![s].pc = pc]

\* migrate returns, with an error or not: NewRouter goes on either way.
Returns(s) == proc' = [proc EXCEPT ![s] = Ready]

\* The process is at a project, from finding that it has no file on.
Migrates(s, p) == proc[s].pc \in {"create", "copy"} /\ proc[s].proj = p

-----------------------------------------------------------------------------
(* The backup.                                                             *)

Look(s) ==
    /\ At(s, "start")
    /\ IF legacy = "none" THEN Returns(s) ELSE Goes(s, "backup")
    /\ UNCHANGED <<legacy, backup, created, target, crashes, auxVars>>

\* Mutant: no backup is made of what a backup was begun of.
SkipBackup(s) ==
    /\ At(s, "backup")
    /\ Goes(s, "list")
    /\ UNCHANGED <<legacy, backup, created, target, crashes, auxVars>>

\* One that exists, in whatever state, is kept.
Backup(s) ==
    /\ At(s, "backup")
    /\ Goes(s, IF backup # "none" THEN "list" ELSE "make backup")
    /\ UNCHANGED <<legacy, backup, created, target, crashes, auxVars>>

\* copyFile: the legacy file must still be there, and a backup that another
\* process has made meanwhile is emptied.
BeginBackup(s) ==
    /\ At(s, "make backup")
    /\ IF legacy = "none" THEN Returns(s) /\ UNCHANGED backup
       ELSE Goes(s, "copying backup") /\ backup' = "begun"
    /\ UNCHANGED <<legacy, created, target, crashes, auxVars>>

\* It is whole once nobody else is writing it.
BackedUp(s) ==
    /\ At(s, "copying backup")
    /\ backup' = IF \E u \in Processes \ {s} : At(u, "copying backup") THEN backup ELSE "whole"
    /\ Goes(s, "list")
    /\ UNCHANGED <<legacy, created, target, crashes, auxVars>>

\* The disk is full: migrate gives up and leaves what there is.
BackupFails(s) ==
    /\ At(s, "copying backup")
    /\ torn' = TRUE
    /\ Returns(s)
    /\ UNCHANGED <<legacy, backup, created, target, crashes, cut, overlapped>>

-----------------------------------------------------------------------------
(* The projects, one after the other.                                      *)

\* A legacy file renamed meanwhile is created by opening it, without tables:
\* the query for the projects fails.
List(s) ==
    /\ At(s, "list")
    /\ IF legacy = "full"
       THEN /\ proc' = [proc EXCEPT ![s].pc = "next", ![s].todo = Projects]
            /\ UNCHANGED legacy
       ELSE Returns(s) /\ legacy' = "void"
    /\ UNCHANGED <<backup, created, target, crashes, auxVars>>

\* A project that has a file, whatever is in it, counts as migrated.
NextProject(s, p) ==
    /\ At(s, "next") /\ p \in proc[s].todo
    /\ proc' = IF p \in created
               THEN [proc EXCEPT ![s].todo = @ \ {p}]
               ELSE [proc EXCEPT ![s].todo = @ \ {p}, ![s].pc = "create", ![s].proj = p]
    /\ UNCHANGED <<legacy, backup, created, target, crashes, auxVars>>

\* OpenPath makes the file and its tables and keeps what it finds.
CreateTarget(s) ==
    /\ At(s, "create")
    /\ created' = created \cup {proc[s].proj}
    /\ Goes(s, "copy")
    /\ UNCHANGED <<legacy, backup, target, crashes, auxVars>>

\* On to the next project.
LoopOn(s) == proc' = [proc EXCEPT ![s] = [Starting EXCEPT !.pc = "next", !.todo = proc[s].todo]]

\* INSERT OR REPLACE INTO target: rows of a run that has come before stay,
\* except where they have the id or the name of a legacy row.  The process has
\* the legacy file open, and reads it on after another one has renamed it.
CopyTable(s) ==
    LET p == proc[s].proj
        t == CopyOrder[proc[s].copied + 1] IN
    /\ At(s, "copy") /\ proc[s].copied < 4
    /\ target' = [target EXCEPT ![p][t] = IF @ \in {"none", "old"} THEN "old" ELSE "mixed"]
    /\ proc' = [proc EXCEPT ![s].copied = @ + 1]
    /\ UNCHANGED <<legacy, backup, created, crashes, auxVars>>

\* The row counts are compared; a project that fails this is only reported.
Copied(s) ==
    /\ At(s, "copy") /\ proc[s].copied = 4
    /\ LoopOn(s)
    /\ UNCHANGED <<legacy, backup, created, target, crashes, auxVars>>

\* A project whose statement fails is skipped; what was copied of it stays.
CopyFails(s) ==
    /\ At(s, "copy") /\ proc[s].copied < 4
    /\ cut' = cut \cup {proc[s].proj}
    /\ LoopOn(s)
    /\ UNCHANGED <<legacy, backup, created, target, crashes, overlapped, torn>>

\* OpenPath fails, before or after it has made the file.
CreateFails(s) ==
    /\ At(s, "create")
    /\ created' \in {created, created \cup {proc[s].proj}}
    /\ cut' = cut \cup {proc[s].proj}
    /\ LoopOn(s)
    /\ UNCHANGED <<legacy, backup, target, crashes, overlapped, torn>>

\* Mutant: the file is renamed before the last project is done.
RenameEarly(s) ==
    /\ At(s, "next") /\ \A p \in proc[s].todo : p \notin created
    /\ legacy' = "none"
    /\ Returns(s)
    /\ UNCHANGED <<backup, created, target, crashes, auxVars>>

\* renameLegacy, which fails when another process has done it.
Rename(s) ==
    /\ At(s, "next") /\ proc[s].todo = {}
    /\ legacy' = "none"
    /\ Returns(s)
    /\ UNCHANGED <<backup, created, target, crashes, auxVars>>

RenameFails(s) ==
    /\ At(s, "next") /\ proc[s].todo = {}
    /\ Returns(s)
    /\ UNCHANGED <<legacy, backup, created, target, crashes, auxVars>>

-----------------------------------------------------------------------------
(* What comes after, in the same process or another.                       *)

Whole(p) ==
    /\ target[p]["projects"] # "none"
    /\ target[p]["nodes"] \in {"old", "new"}
    /\ \A t \in {"edges", "file_hashes"} : target[p][t] = target[p]["nodes"]

\* A run of the pipeline: a full one writes every table anew, and it is full if
\* there are no hashes.  Else it may rebuild as little as nothing.
Index(s, p) ==
    /\ At(s, "ready")
    /\ created' = created \cup {p}
    /\ \/ target' = [target EXCEPT ![p] = [t \in Tables |-> "new"]]
       \/ target[p]["file_hashes"] # "none" /\ UNCHANGED target
    /\ overlapped' = IF \E u \in Processes : Migrates(u, p) THEN overlapped \cup {p}
                     ELSE overlapped
    /\ UNCHANGED <<legacy, backup, proc, crashes, cut, torn>>

\* The process dies, and another one starts.
Crash(s) ==
    /\ crashes < MaxCrashes
    /\ crashes' = crashes + 1
    /\ proc' = [proc EXCEPT ![s] = Starting]
    /\ cut' = cut \cup {p \in Projects : Migrates(s, p)}
    /\ torn' = (torn \/ At(s, "copying backup"))
    /\ UNCHANGED <<legacy, backup, created, target, overlapped>>

Next == \E s \in Processes :
    \/ Look(s) \/ Backup(s) \/ BeginBackup(s) \/ BackedUp(s) \/ BackupFails(s) \/ List(s)
    \/ CreateTarget(s) \/ CreateFails(s) \/ CopyTable(s) \/ Copied(s) \/ CopyFails(s)
    \/ Rename(s) \/ RenameFails(s) \/ Crash(s)
    \/ \E p \in Projects : NextProject(s, p) \/ Index(s, p)

Spec == Init /\ [][Next]_vars

-----------------------------------------------------------------------------
\* The state has the shape of the variables, and who is at a project has one.
TypeOK ==
    /\ legacy \in {"full", "none", "void"} /\ backup \in {"none", "begun", "whole"}
    /\ created \subseteq Projects /\ target \in [Projects -> [Tables -> Contents]]
    /\ proc \in [Processes -> Process]
    /\ \A s \in Processes : proc[s].pc \in {"create", "copy"} => proc[s].proj \in Projects
    /\ crashes \in 0..MaxCrashes
    /\ cut \subseteq Projects /\ overlapped \subseteq Projects /\ torn \in BOOLEAN

\* A database that has hashes has the graph they belong to: an incremental run
\* may trust them, whatever crash or error has cut the copying short.  Only a
\* project that is indexed while another process copies it is the exception.
TrustedIsWhole ==
    \A p \in Projects : target[p]["file_hashes"] # "none" => Whole(p) \/ p \in overlapped

\* Once the legacy file is gone, every project is whole, or about to be, unless
\* its copying broke off or was overlapped by a run.
NothingIsLost ==
    legacy # "full" =>
        \A p \in Projects : \/ Whole(p) \/ p \in cut \cup overlapped
                            \/ \E s \in Processes : Migrates(s, p)

\* Once the legacy file is gone there is a backup of it, or one is being made,
\* unless the making of one broke off.
GoneIsBackedUp ==
    legacy # "full" =>
        backup = "whole" \/ torn \/ \E s \in Processes : At(s, "copying backup")
=============================================================================
