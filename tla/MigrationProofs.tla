-------------------------- MODULE MigrationProofs --------------------------
(***************************************************************************)
(* Safety of Migration for any number of projects, processes and crashes.  *)
(***************************************************************************)
EXTENDS Migration, TLAPS

-----------------------------------------------------------------------------
(* The strengthening that makes the invariants inductive.                  *)

\* A project without a file has no rows, and one that is being copied has a
\* file with only legacy rows, from the first table to the last, unless a run
\* overlaps.
Copying ==
    /\ \A p \in Projects : p \notin created => target[p] = Empty
    /\ \A s \in Processes : IF At(s, "copy") THEN proc[s].proj \in created
                             ELSE proc[s].copied = 0
    /\ \A s \in Processes, p \in Projects :
          Migrates(s, p) /\ p \notin overlapped =>
              /\ \A t \in Tables : target[p][t] \in {"none", "old"}
              /\ \A i \in 1..4 : i <= proc[s].copied => target[p][CopyOrder[i]] = "old"

\* Somebody sees to the project, or somebody has.
Seen(p) == p \in created \cup cut \/ \E s \in Processes : Migrates(s, p)

\* A project that has a file is whole, or there is an explanation.
Explained ==
    \A p \in created : \/ Whole(p) \/ p \in cut \cup overlapped
                       \/ \E s \in Processes : Migrates(s, p)

\* What a loop has passed is seen to, and everything once the legacy file is
\* gone.
Passed ==
    /\ \A s \in Processes : proc[s].pc \in {"next", "create", "copy"} =>
          \A p \in Projects \ proc[s].todo : Seen(p)
    /\ legacy # "full" => \A p \in Projects : Seen(p)

\* Who is past the backup has it, and what was begun is gone on with.
BackupBegun == backup = "whole" \/ torn \/ \E s \in Processes : At(s, "copying backup")
BackedUpFirst ==
    /\ backup = "begun" => BackupBegun
    /\ \A s \in Processes : proc[s].pc \in {"list", "next", "create", "copy"} => BackupBegun
    /\ GoneIsBackedUp

IInv == TypeOK /\ Copying /\ TrustedIsWhole /\ Explained /\ Passed /\ BackedUpFirst

-----------------------------------------------------------------------------
(* Tables and processes.                                                   *)

\* The four tables in their order.
LEMMA TheTables ==
  /\ CopyOrder[1] = "projects" /\ CopyOrder[2] = "nodes" /\ CopyOrder[3] = "edges"
  /\ CopyOrder[4] = "file_hashes"
  /\ Tables = {"projects", "nodes", "edges", "file_hashes"}
  /\ \A t \in Tables : Empty[t] = "none"
<1>1. /\ CopyOrder[1] = "projects" /\ CopyOrder[2] = "nodes" /\ CopyOrder[3] = "edges"
      /\ CopyOrder[4] = "file_hashes"
  BY DEF CopyOrder
<1>2. \A i : i \in 1..4 <=> i = 1 \/ i = 2 \/ i = 3 \/ i = 4
  OBVIOUS
<1>3. Tables = {"projects", "nodes", "edges", "file_hashes"}
  BY <1>1, <1>2 DEF Tables
<1> QED
  BY <1>1, <1>3 DEF Empty

\* A step leaves the other processes where they are.
LEMMA Steps ==
  ASSUME TypeOK, NEW s \in Processes,
         \/ Look(s) \/ Backup(s) \/ BeginBackup(s) \/ BackedUp(s) \/ BackupFails(s) \/ List(s)
         \/ CreateTarget(s) \/ CreateFails(s) \/ CopyTable(s) \/ Copied(s) \/ CopyFails(s)
         \/ Rename(s) \/ RenameFails(s) \/ Crash(s) \/ \E p \in Projects : NextProject(s, p)
  PROVE  /\ proc' \in [Processes -> Process]
         /\ \A u \in Processes \ {s} : proc'[u] = proc[u]
         /\ proc'[s].pc \in {"create", "copy"} => proc'[s].proj \in Projects
<1>0. proc \in [Processes -> Process] /\ proc[s] \in Process
  BY DEF TypeOK
<1>1. Starting \in Process /\ Ready \in Process /\ Starting.pc = "start" /\ Ready.pc = "ready"
  <2>1. 0 \in 0..4
    OBVIOUS
  <2>2. Starting \in Process /\ Starting.pc = "start"
    BY <2>1 DEF Starting, Process
  <2> QED
    BY <2>2 DEF Ready, Process
<1>2. ASSUME NEW r \in Process, proc' = [proc EXCEPT ![s] = r],
             r.pc \in {"create", "copy"} => r.proj \in Projects
      PROVE  /\ proc' \in [Processes -> Process]
             /\ \A u \in Processes \ {s} : proc'[u] = proc[u]
             /\ proc'[s].pc \in {"create", "copy"} => proc'[s].proj \in Projects
  BY <1>0, <1>2
<1>3. CASE Returns(s)
  BY <1>1, <1>2, <1>3 DEF Returns
<1>4. CASE Crash(s)
  BY <1>1, <1>2, <1>4 DEF Crash
<1>5. ASSUME NEW pc \in {"backup", "make backup", "copying backup", "list"}, Goes(s, pc)
      PROVE  /\ proc' \in [Processes -> Process]
             /\ \A u \in Processes \ {s} : proc'[u] = proc[u]
             /\ proc'[s].pc \in {"create", "copy"} => proc'[s].proj \in Projects
  <2> DEFINE r == [proc[s] EXCEPT !.pc = pc]
  <2>1. proc' = [proc EXCEPT ![s] = r]
    BY <1>0, <1>5 DEF Goes
  <2>2. r \in Process /\ r.pc = pc
    BY <1>0 DEF Process
  <2> HIDE DEF r
  <2> QED
    BY <1>2, <2>1, <2>2
<1>6. CASE Look(s) \/ Backup(s) \/ BeginBackup(s) \/ BackedUp(s) \/ BackupFails(s)
         \/ Rename(s) \/ RenameFails(s)
  BY <1>3, <1>5, <1>6 DEF Look, Backup, BeginBackup, BackedUp, BackupFails, Rename, RenameFails
<1>7. CASE List(s)
  <2> DEFINE r == [proc[s] EXCEPT !.pc = "next", !.todo = Projects]
  <2>1. CASE proc' = [proc EXCEPT ![s].pc = "next", ![s].todo = Projects]
    <3>1. proc' = [proc EXCEPT ![s] = r]
      BY <1>0, <2>1
    <3>2. r \in Process /\ r.pc = "next"
      BY <1>0 DEF Process
    <3> HIDE DEF r
    <3> QED
      BY <1>2, <3>1, <3>2
  <2> QED
    BY <1>3, <1>7, <2>1 DEF List
<1>8. CASE LoopOn(s)
  <2> DEFINE r == [Starting EXCEPT !.pc = "next", !.todo = proc[s].todo]
  <2>1. r \in Process /\ r.pc = "next"
    <3>1. proc[s].todo \subseteq Projects
      BY <1>0 DEF Process
    <3>2. r = [Starting EXCEPT !.pc = "next", !.todo = proc[s].todo]
      OBVIOUS
    <3> QED
      BY <1>1, <3>1, <3>2 DEF Process
  <2>2. proc' = [proc EXCEPT ![s] = r]
    BY <1>8 DEF LoopOn
  <2> HIDE DEF r
  <2> QED
    BY <1>2, <2>1, <2>2
<1>9. CASE CreateTarget(s)
  <2> DEFINE r == [proc[s] EXCEPT !.pc = "copy"]
  <2>1. proc' = [proc EXCEPT ![s] = r] /\ proc[s].proj \in Projects
    BY <1>0, <1>9 DEF CreateTarget, Goes, At, TypeOK
  <2>2. r \in Process /\ r.proj = proc[s].proj
    BY <1>0 DEF Process
  <2> HIDE DEF r
  <2> QED
    BY <1>2, <2>1, <2>2
<1>10. CASE CopyTable(s)
  <2> DEFINE r == [proc[s] EXCEPT !.copied = proc[s].copied + 1]
  <2>1. proc' = [proc EXCEPT ![s] = r] /\ proc[s].proj \in Projects /\ proc[s].copied < 4
    BY <1>0, <1>10 DEF CopyTable, At, TypeOK
  <2>2. proc[s].copied + 1 \in 0..4
    <3>1. proc[s].copied \in 0..4
      BY <1>0 DEF Process
    <3> QED
      BY <2>1, <3>1
  <2>3. r \in Process /\ r.proj = proc[s].proj
    BY <1>0, <2>2 DEF Process
  <2> HIDE DEF r
  <2> QED
    BY <1>2, <2>1, <2>3
<1>11. ASSUME NEW p \in Projects, NextProject(s, p)
       PROVE  /\ proc' \in [Processes -> Process]
              /\ \A u \in Processes \ {s} : proc'[u] = proc[u]
              /\ proc'[s].pc \in {"create", "copy"} => proc'[s].proj \in Projects
  <2> DEFINE a == [proc[s] EXCEPT !.todo = proc[s].todo \ {p}]
             b == [proc[s] EXCEPT !.todo = proc[s].todo \ {p}, !.pc = "create", !.proj = p]
  <2>1. proc' = [proc EXCEPT ![s] = a] \/ proc' = [proc EXCEPT ![s] = b]
    BY <1>0, <1>11 DEF NextProject
  <2>2. a \in Process /\ a.pc = "next"
    BY <1>0, <1>11 DEF Process, NextProject, At
  <2>3. b \in Process /\ b.proj = p
    BY <1>0 DEF Process
  <2> HIDE DEF a, b
  <2> QED
    BY <1>2, <2>1, <2>2, <2>3
<1> QED
  BY <1>4, <1>6, <1>7, <1>8, <1>9, <1>10, <1>11 DEF CreateFails, Copied, CopyFails

\* Steps that change no project: the process is at none afterwards.
Quiet(s) ==
    \/ Look(s) \/ Backup(s) \/ BeginBackup(s) \/ BackedUp(s) \/ BackupFails(s) \/ List(s)
    \/ Copied(s) \/ Rename(s) \/ RenameFails(s)

\* Steps that cut short what the process does.
Breaks(s) == CreateFails(s) \/ CopyFails(s) \/ Crash(s)

\* The steps of a process, by what they do to the projects.
LEMMA StepKinds ==
  ASSUME Next
  PROVE  \E s \in Processes :
            \/ Quiet(s) \/ Breaks(s) \/ CreateTarget(s) \/ CopyTable(s)
            \/ \E p \in Projects : NextProject(s, p) \/ Index(s, p)
  BY DEF Next, Quiet, Breaks

\* What the others are at, they are at after a step too.
LEMMA OthersStay ==
  ASSUME TypeOK, NEW s \in Processes,
         \/ Quiet(s) \/ Breaks(s) \/ CreateTarget(s) \/ CopyTable(s)
         \/ \E p \in Projects : NextProject(s, p)
  PROVE  /\ proc' \in [Processes -> Process]
         /\ \A u \in Processes \ {s} : proc'[u] = proc[u]
         /\ proc'[s].pc \in {"create", "copy"} => proc'[s].proj \in Projects
  BY Steps DEF Quiet, Breaks

\* A quiet step leaves the projects alone, and what it was at is copied.
LEMMA QuietSteps ==
  ASSUME TypeOK, NEW s \in Processes, Quiet(s)
  PROVE  /\ UNCHANGED <<created, target, cut, overlapped>>
         /\ ~(proc'[s].pc \in {"create", "copy"})
         /\ proc[s].pc \in {"create", "copy"} => proc[s].pc = "copy" /\ proc[s].copied = 4
         /\ proc'[s].copied = 0 \/ (proc'[s].copied = proc[s].copied /\ proc[s].pc # "copy")
         /\ proc'[s].pc = "next" =>
               proc'[s].todo = Projects \/ (proc'[s].todo = proc[s].todo /\ proc[s].pc = "copy")
<1>0. proc \in [Processes -> Process] /\ proc[s] \in Process
  BY DEF TypeOK
<1>1. Starting.pc = "start" /\ Ready.pc = "ready" /\ Ready.copied = 0
  BY DEF Starting, Ready
<1>2. ASSUME Returns(s) PROVE proc'[s].pc = "ready" /\ proc'[s].copied = 0
  BY <1>0, <1>1, <1>2 DEF Returns
<1>3. ASSUME NEW pc, Goes(s, pc) PROVE proc'[s].pc = pc /\ proc'[s].copied = proc[s].copied
  BY <1>0, <1>3 DEF Goes, Process
<1>4. ASSUME LoopOn(s)
      PROVE  proc'[s].pc = "next" /\ proc'[s].copied = 0 /\ proc'[s].todo = proc[s].todo
  <2>1. proc'[s] = [Starting EXCEPT !.pc = "next", !.todo = proc[s].todo]
    BY <1>0, <1>4 DEF LoopOn
  <2> QED
    BY <2>1 DEF Starting
<1>5. CASE Look(s)
  BY <1>2, <1>3, <1>5 DEF Look, At, auxVars
<1>6. CASE Backup(s)
  <2>1. Goes(s, IF backup # "none" THEN "list" ELSE "make backup") /\ proc[s].pc = "backup"
    BY <1>6 DEF Backup, At
  <2>2. Goes(s, "list") \/ Goes(s, "make backup")
    BY <2>1
  <2>3. proc'[s].pc \in {"list", "make backup"} /\ proc'[s].copied = proc[s].copied
    BY <1>3, <2>2
  <2> QED
    BY <1>6, <2>1, <2>3 DEF Backup, auxVars
<1>10. CASE BeginBackup(s)
  <2>1. CASE Goes(s, "copying backup")
    <3>1. proc'[s].pc = "copying backup" /\ proc'[s].copied = proc[s].copied
      BY <1>3, <2>1
    <3> QED
      BY <1>10, <3>1 DEF BeginBackup, At, auxVars
  <2> QED
    BY <1>2, <1>10, <2>1 DEF BeginBackup, At, auxVars
<1>11. CASE BackedUp(s)
  <2>1. proc'[s].pc = "list" /\ proc'[s].copied = proc[s].copied
    BY <1>3, <1>11 DEF BackedUp
  <2> QED
    BY <1>11, <2>1 DEF BackedUp, At, auxVars
<1>12. CASE BackupFails(s)
  BY <1>2, <1>12 DEF BackupFails, At, auxVars
<1>7. CASE List(s)
  <2>1. CASE proc' = [proc EXCEPT ![s].pc = "next", ![s].todo = Projects]
    <3>1. proc'[s].pc = "next" /\ proc'[s].copied = proc[s].copied /\ proc'[s].todo = Projects
      BY <1>0, <2>1 DEF Process
    <3> QED
      BY <1>7, <3>1 DEF List, At, auxVars
  <2> QED
    BY <1>2, <1>7, <2>1 DEF List, At, auxVars
<1>8. CASE Copied(s)
  BY <1>4, <1>8 DEF Copied, At, auxVars
<1>9. CASE Rename(s) \/ RenameFails(s)
  BY <1>2, <1>9 DEF Rename, RenameFails, At, auxVars
<1> QED
  BY <1>5, <1>6, <1>7, <1>8, <1>9, <1>10, <1>11, <1>12 DEF Quiet

\* A step that breaks off leaves the rows alone and says what it was at.
LEMMA BreakSteps ==
  ASSUME TypeOK, NEW s \in Processes, Breaks(s)
  PROVE  /\ UNCHANGED <<legacy, backup, target, overlapped>>
         /\ created \subseteq created'
         /\ \A p \in created' : p \in created \/ p \in cut'
         /\ cut' \subseteq Projects /\ cut \subseteq cut'
         /\ created' \subseteq Projects
         /\ \A p \in Projects : Migrates(s, p) => p \in cut'
         /\ ~(proc'[s].pc \in {"create", "copy"}) /\ proc'[s].copied = 0
         /\ proc'[s].pc = "next" =>
               proc'[s].todo = proc[s].todo /\ proc[s].pc \in {"create", "copy"}
<1>0. proc \in [Processes -> Process] /\ proc[s] \in Process
  BY DEF TypeOK
<1>1. Starting.pc = "start" /\ Starting.copied = 0
  BY DEF Starting
<1>4. ASSUME LoopOn(s)
      PROVE  proc'[s].pc = "next" /\ proc'[s].copied = 0 /\ proc'[s].todo = proc[s].todo
  <2>1. proc'[s] = [Starting EXCEPT !.pc = "next", !.todo = proc[s].todo]
    BY <1>0, <1>4 DEF LoopOn
  <2> QED
    BY <2>1 DEF Starting
<1>5. CASE CreateFails(s)
  BY <1>4, <1>5 DEF CreateFails, At, Migrates, TypeOK
<1>6. CASE CopyFails(s)
  BY <1>4, <1>6 DEF CopyFails, At, Migrates, TypeOK
<1>7. CASE Crash(s)
  BY <1>0, <1>1, <1>7 DEF Crash, Migrates, TypeOK
<1> QED
  BY <1>5, <1>6, <1>7 DEF Breaks

\* The steps from one project to the next, to its file and to its tables.
LEMMA NextSteps ==
  ASSUME TypeOK, NEW s \in Processes, NEW p \in Projects, NextProject(s, p)
  PROVE  /\ UNCHANGED <<legacy, backup, created, target, cut, overlapped, torn>>
         /\ proc[s].pc = "next" /\ proc'[s].todo = proc[s].todo \ {p}
         /\ proc'[s].copied = proc[s].copied
         /\ \/ p \in created /\ proc'[s].pc = "next"
            \/ p \notin created /\ proc'[s].pc = "create" /\ proc'[s].proj = p
<1>0. proc \in [Processes -> Process] /\ proc[s] \in Process
  BY DEF TypeOK
<1>1. CASE p \in created
  <2>1. proc' = [proc EXCEPT ![s].todo = @ \ {p}]
    BY <1>1 DEF NextProject
  <2>2. proc'[s] = [proc[s] EXCEPT !.todo = @ \ {p}]
    BY <1>0, <2>1
  <2> QED
    BY <1>0, <1>1, <2>2 DEF NextProject, Process, At, auxVars
<1>2. CASE p \notin created
  <2>1. proc' = [proc EXCEPT ![s].todo = @ \ {p}, ![s].pc = "create", ![s].proj = p]
    BY <1>2 DEF NextProject
  <2>2. proc'[s] = [proc[s] EXCEPT !.todo = @ \ {p}, !.pc = "create", !.proj = p]
    BY <1>0, <2>1
  <2> QED
    BY <1>0, <1>2, <2>2 DEF NextProject, Process, At, auxVars
<1> QED
  BY <1>1, <1>2

LEMMA CreateSteps ==
  ASSUME TypeOK, NEW s \in Processes, CreateTarget(s)
  PROVE  /\ UNCHANGED <<legacy, backup, target, cut, overlapped, torn>>
         /\ created' = created \cup {proc[s].proj} /\ proc[s].proj \in Projects
         /\ proc[s].pc = "create" /\ proc'[s].pc = "copy"
         /\ proc'[s].proj = proc[s].proj /\ proc'[s].todo = proc[s].todo
         /\ proc'[s].copied = proc[s].copied
<1>1. proc \in [Processes -> Process] /\ proc[s] \in Process
  BY DEF TypeOK
<1>2. proc'[s] = [proc[s] EXCEPT !.pc = "copy"]
  BY <1>1 DEF CreateTarget, Goes
<1> QED
  BY <1>1, <1>2 DEF CreateTarget, Process, At, TypeOK, auxVars

LEMMA CopySteps ==
  ASSUME TypeOK, NEW s \in Processes, CopyTable(s),
         NEW p, p = proc[s].proj, NEW i, i = proc[s].copied + 1
  PROVE  /\ UNCHANGED <<legacy, backup, created, cut, overlapped, torn>>
         /\ proc[s].pc = "copy" /\ proc'[s].pc = "copy"
         /\ proc'[s].proj = p /\ proc'[s].todo = proc[s].todo
         /\ proc'[s].copied = i /\ i \in 1..4 /\ proc[s].copied \in 0..3
         /\ p \in Projects /\ CopyOrder[i] \in Tables
         /\ \A q \in Projects \ {p} : target'[q] = target[q]
         /\ \A t \in Tables : target'[p][t] =
               IF t # CopyOrder[i] THEN target[p][t]
               ELSE IF target[p][t] \in {"none", "old"} THEN "old" ELSE "mixed"
<1>1. proc \in [Processes -> Process] /\ proc[s] \in Process /\ p \in Projects
  BY DEF TypeOK, CopyTable, At
<1>2. proc'[s] = [proc[s] EXCEPT !.copied = proc[s].copied + 1]
  BY <1>1 DEF CopyTable
<1>3. proc[s].copied \in 0..4 /\ proc[s].copied < 4
  BY <1>1 DEF CopyTable, Process
<1>4. i \in 1..4 /\ proc[s].copied \in 0..3
  BY <1>3
<1>5. CopyOrder[i] \in Tables
  BY <1>4 DEF Tables
<1>6. target \in [Projects -> [Tables -> Contents]]
  BY DEF TypeOK
<1>7. target' = [target EXCEPT ![p][CopyOrder[i]] =
                    IF @ \in {"none", "old"} THEN "old" ELSE "mixed"]
  BY DEF CopyTable
<1>8. /\ \A q \in Projects \ {p} : target'[q] = target[q]
      /\ \A t \in Tables : target'[p][t] =
            IF t # CopyOrder[i] THEN target[p][t]
            ELSE IF target[p][t] \in {"none", "old"} THEN "old" ELSE "mixed"
  <2> DEFINE c == CopyOrder[i]
  <2> HIDE DEF c
  <2> QED
    BY <1>1, <1>5, <1>6, <1>7 DEF c
<1>9. /\ proc'[s].pc = proc[s].pc /\ proc'[s].proj = p /\ proc'[s].todo = proc[s].todo
      /\ proc'[s].copied = i
  BY <1>1, <1>2 DEF Process
<1> QED
  BY <1>1, <1>4, <1>5, <1>8, <1>9 DEF CopyTable, At, auxVars

\* What a run of the pipeline makes of a project.
LEMMA IndexSteps ==
  ASSUME TypeOK, NEW s \in Processes, NEW p \in Projects, Index(s, p)
  PROVE  /\ UNCHANGED <<legacy, backup, proc, crashes, cut, torn>>
         /\ created' = created \cup {p}
         /\ overlapped' = IF \E u \in Processes : Migrates(u, p) THEN overlapped \cup {p}
                          ELSE overlapped
         /\ \A q \in Projects \ {p} : target'[q] = target[q]
         /\ \/ target'[p] = [t \in Tables |-> "new"]
            \/ target'[p] = target[p] /\ target[p]["file_hashes"] # "none"
  BY DEF Index, TypeOK

-----------------------------------------------------------------------------
(* Each part of the invariant is kept.                                     *)

LEMMA KeepsType ==
  ASSUME TypeOK, [Next]_vars
  PROVE  TypeOK'
<1>1. CASE UNCHANGED vars
  BY <1>1 DEF vars, auxVars, TypeOK, Process
<1>2. ASSUME NEW s \in Processes, Quiet(s) PROVE TypeOK'
  <2>1. /\ legacy' \in {"full", "none", "void"} /\ backup' \in {"none", "begun", "whole"}
        /\ crashes' = crashes /\ torn' \in BOOLEAN
    BY <1>2 DEF Quiet, Look, Backup, BeginBackup, BackedUp, BackupFails, List, Copied, Rename,
       RenameFails, auxVars, TypeOK
  <2> QED
    BY <1>2, <2>1, OthersStay, QuietSteps DEF TypeOK
<1>3. ASSUME NEW s \in Processes, Breaks(s) PROVE TypeOK'
  <2>1. crashes' \in 0..MaxCrashes /\ torn' \in BOOLEAN
    <3>1. CASE Crash(s)
      <4>1. crashes' = crashes + 1 /\ crashes < MaxCrashes /\ crashes \in 0..MaxCrashes
        BY <3>1 DEF Crash, TypeOK
      <4>2. crashes' \in 0..MaxCrashes
        BY <4>1, MigrationAssumption
      <4> QED
        BY <3>1, <4>2 DEF Crash, TypeOK
    <3>2. CASE CreateFails(s) \/ CopyFails(s)
      BY <3>2 DEF CreateFails, CopyFails, TypeOK
    <3> QED
      BY <1>3, <3>1, <3>2 DEF Breaks
  <2>2. created' \subseteq Projects /\ cut' \subseteq Projects
    BY <1>3, BreakSteps
  <2> QED
    BY <1>3, <2>1, <2>2, OthersStay, BreakSteps DEF TypeOK
<1>4. ASSUME NEW s \in Processes, CreateTarget(s) PROVE TypeOK'
  <2>1. crashes' = crashes
    BY <1>4 DEF CreateTarget
  <2> QED
    BY <1>4, <2>1, OthersStay, CreateSteps DEF TypeOK
<1>5. ASSUME NEW s \in Processes, CopyTable(s) PROVE TypeOK'
  <2>1. crashes' = crashes
    BY <1>5 DEF CopyTable
  <2>2. target' \in [Projects -> [Tables -> Contents]]
    <3> DEFINE p == proc[s].proj
               t == CopyOrder[proc[s].copied + 1]
               c == IF target[p][t] \in {"none", "old"} THEN "old" ELSE "mixed"
    <3>1. target' = [target EXCEPT ![p][t] = c] /\ c \in Contents
      BY <1>5 DEF CopyTable, Contents
    <3> HIDE DEF p, t, c
    <3> QED
      BY <3>1 DEF TypeOK
  <2> QED
    BY <1>5, <2>1, <2>2, OthersStay, CopySteps DEF TypeOK
<1>6. ASSUME NEW s \in Processes, NEW p \in Projects, NextProject(s, p) PROVE TypeOK'
  <2>1. crashes' = crashes
    BY <1>6 DEF NextProject
  <2> QED
    BY <1>6, <2>1, OthersStay, NextSteps DEF TypeOK
<1>7. ASSUME NEW s \in Processes, NEW p \in Projects, Index(s, p) PROVE TypeOK'
  <2>1. [t \in Tables |-> "new"] \in [Tables -> Contents]
    BY DEF Contents
  <2>2. target' \in [Projects -> [Tables -> Contents]]
    <3> DEFINE n == [t \in Tables |-> "new"]
    <3>1. target' = target \/ target' = [target EXCEPT ![p] = n]
      BY <1>7 DEF Index
    <3> HIDE DEF n
    <3> QED
      BY <2>1, <3>1 DEF TypeOK, n
  <2> QED
    BY <1>7, <2>2, IndexSteps DEF TypeOK
<1> QED
  BY <1>1, <1>2, <1>3, <1>4, <1>5, <1>6, <1>7, StepKinds

\* Who is at a project in a step that leaves the process alone, or the rest.
LEMMA AtAfter ==
  ASSUME TypeOK, NEW s \in Processes,
         \A u \in Processes \ {s} : proc'[u] = proc[u]
  PROVE  \A u \in Processes \ {s}, p \in Projects :
            /\ Migrates(u, p)' <=> Migrates(u, p)
            /\ \A pc : At(u, pc)' <=> At(u, pc)
  BY DEF Migrates, At

\* Rows are copied in order, and only a run of the pipeline adds others.
LEMMA KeepsCopying ==
  ASSUME TypeOK, Copying, [Next]_vars
  PROVE  Copying'
<1>1. CASE UNCHANGED vars
  BY <1>1 DEF vars, auxVars, Copying, Migrates, At
<1>2. ASSUME NEW s \in Processes, Quiet(s) \/ Breaks(s) PROVE Copying'
  <2>1. /\ target' = target /\ overlapped' = overlapped /\ created \subseteq created'
        /\ ~(proc'[s].pc \in {"create", "copy"})
        /\ proc'[s].copied = 0 \/ (proc'[s].copied = proc[s].copied /\ proc[s].pc # "copy")
    BY <1>2, QuietSteps, BreakSteps
  <2>2. \A u \in Processes \ {s} : proc'[u] = proc[u]
    BY <1>2, OthersStay
  <2> QED
    BY <2>1, <2>2 DEF Copying, Migrates, At
<1>3. ASSUME NEW s \in Processes, CreateTarget(s) PROVE Copying'
  <2>1. \A u \in Processes \ {s} : proc'[u] = proc[u]
    BY <1>3, OthersStay
  <2>2. \A p \in Projects : Migrates(s, p)' => Migrates(s, p)
    BY <1>3, CreateSteps DEF Migrates
  <2> QED
    BY <1>3, <2>1, <2>2, AtAfter, CreateSteps DEF Copying, At
<1>4. ASSUME NEW s \in Processes, NEW p \in Projects, NextProject(s, p) PROVE Copying'
  <2>1. \A u \in Processes \ {s} : proc'[u] = proc[u]
    BY <1>4, OthersStay
  <2>2. proc'[s].copied = 0 /\ proc'[s].pc # "copy"
    BY <1>4, NextSteps DEF Copying, At
  <2>3. \A q \in Projects : Migrates(s, q)' => target[q] = Empty
    BY <1>4, NextSteps DEF Copying, Migrates
  <2>4. \A i \in 1..4 : ~(i <= 0)
    OBVIOUS
  <2> QED
    BY <1>4, <2>1, <2>2, <2>3, <2>4, AtAfter, NextSteps, TheTables DEF Copying, At
<1>5. ASSUME NEW s \in Processes, CopyTable(s) PROVE Copying'
  <2>0. PICK p \in Projects, i \in 1..4 : p = proc[s].proj /\ i = proc[s].copied + 1
    BY <1>5, CopySteps
  <2>1. /\ UNCHANGED <<created, overlapped>>
        /\ proc[s].pc = "copy" /\ proc'[s].pc = "copy" /\ proc'[s].proj = p
        /\ proc'[s].copied = i /\ i \in 1..4 /\ proc[s].copied \in 0..3
        /\ p \in Projects /\ CopyOrder[i] \in Tables
        /\ \A q \in Projects \ {p} : target'[q] = target[q]
        /\ \A t \in Tables : target'[p][t] =
               IF t # CopyOrder[i] THEN target[p][t]
               ELSE IF target[p][t] \in {"none", "old"} THEN "old" ELSE "mixed"
    BY <1>5, <2>0, CopySteps
  <2>2. \A u \in Processes \ {s} : proc'[u] = proc[u]
    BY <1>5, OthersStay
  <2>3. p \in created /\ p = proc[s].proj /\ Migrates(s, p)
    BY <2>0, <2>1 DEF Copying, At, Migrates
  <2>4. \A j \in 1..4 : j <= i => j <= proc[s].copied \/ j = i
    BY <2>0, <2>1
  <2>5. \A j \in 1..4 : CopyOrder[j] \in Tables
    BY DEF Tables
  <2>6. \A q \in Projects : q \notin created' => target'[q] = Empty
    BY <2>1, <2>3 DEF Copying
  <2>7. \A u \in Processes : IF At(u, "copy")' THEN proc'[u].proj \in created'
                             ELSE proc'[u].copied = 0
    BY <2>1, <2>2, <2>3 DEF Copying, At
  <2>8. \A q \in Projects : Migrates(s, q)' => q = p
    BY <2>1 DEF Migrates
  <2>9. \A u \in Processes, q \in Projects \ {p} :
           Migrates(u, q)' => Migrates(u, q) /\ proc'[u] = proc[u]
    BY <2>2, <2>8 DEF Migrates
  <2>10. ASSUME NEW u \in Processes, Migrates(u, p)', p \notin overlapped
         PROVE  /\ \A t \in Tables : target'[p][t] \in {"none", "old"}
                /\ \A j \in 1..4 : j <= proc'[u].copied => target'[p][CopyOrder[j]] = "old"
    <3>1. \A t \in Tables : target[p][t] \in {"none", "old"}
      BY <2>1, <2>3, <2>10 DEF Copying
    <3>2. /\ \A t \in Tables : target'[p][t] \in {"none", "old"}
          /\ \A t \in Tables : target[p][t] = "old" \/ t = CopyOrder[i] => target'[p][t] = "old"
      BY <2>1, <3>1
    <3>3. CASE u = s
      <4>1. \A j \in 1..4 : j <= proc[s].copied => target[p][CopyOrder[j]] = "old"
        BY <2>1, <2>3, <2>10 DEF Copying
      <4> QED
        BY <2>1, <2>4, <2>5, <3>2, <3>3, <4>1
    <3>4. CASE u # s
      <4>1. Migrates(u, p) /\ proc'[u] = proc[u]
        BY <2>1, <2>2, <2>10, <3>4 DEF Migrates
      <4>2. \A j \in 1..4 : j <= proc[u].copied => target[p][CopyOrder[j]] = "old"
        BY <2>1, <2>10, <4>1 DEF Copying
      <4> QED
        BY <2>5, <3>2, <4>1, <4>2
    <3> QED
      BY <3>3, <3>4
  <2>11. ASSUME NEW u \in Processes, NEW q \in Projects, Migrates(u, q)', q \notin overlapped'
         PROVE  /\ \A t \in Tables : target'[q][t] \in {"none", "old"}
                /\ \A j \in 1..4 : j <= proc'[u].copied => target'[q][CopyOrder[j]] = "old"
    <3>1. CASE q = p
      BY <2>1, <2>10, <2>11, <3>1
    <3>2. CASE q # p
      BY <2>1, <2>9, <2>11, <3>2 DEF Copying
    <3> QED
      BY <3>1, <3>2
  <2> QED
    BY <2>6, <2>7, <2>11 DEF Copying
<1>6. ASSUME NEW s \in Processes, NEW p \in Projects, Index(s, p) PROVE Copying'
  <2>1. \A q \in Projects : \/ q # p /\ target'[q] = target[q]
                            \/ q \in overlapped' \/ \A u \in Processes : ~Migrates(u, q)
    BY <1>6, IndexSteps
  <2>2. proc' = proc /\ created' = created \cup {p} /\ overlapped \subseteq overlapped'
    BY <1>6, IndexSteps
  <2>3. \A q \in Projects : q \notin created' => target'[q] = target[q]
    BY <1>6, <2>2, IndexSteps
  <2> QED
    BY <2>1, <2>2, <2>3 DEF Copying, Migrates, At
<1> QED
  BY <1>1, <1>2, <1>3, <1>4, <1>5, <1>6, StepKinds

\* Tables with the rows of one source make a whole project.
LEMMA AllOfOneSource ==
  ASSUME NEW p, NEW c \in {"old", "new"}, \A t \in Tables : target[p][t] = c
  PROVE  Whole(p)
  BY TheTables DEF Whole

\* Hashes come after the graph: the fourth table is copied when three are.
LEMMA KeepsTrust ==
  ASSUME TypeOK, Copying, TrustedIsWhole, [Next]_vars
  PROVE  TrustedIsWhole'
<1>1. CASE UNCHANGED vars
  BY <1>1 DEF vars, auxVars, TrustedIsWhole, Whole
<1>2. ASSUME target' = target, overlapped \subseteq overlapped' PROVE TrustedIsWhole'
  BY <1>2 DEF TrustedIsWhole, Whole
<1>3. ASSUME NEW s \in Processes, CopyTable(s) PROVE TrustedIsWhole'
  <2>0. PICK p \in Projects, i \in 1..4 : p = proc[s].proj /\ i = proc[s].copied + 1
    BY <1>3, CopySteps
  <2>1. /\ overlapped' = overlapped /\ Migrates(s, p)
        /\ proc[s].copied \in 0..3 /\ CopyOrder[i] \in Tables
        /\ \A q \in Projects \ {p} : target'[q] = target[q]
        /\ \A t \in Tables : target'[p][t] =
               IF t # CopyOrder[i] THEN target[p][t]
               ELSE IF target[p][t] \in {"none", "old"} THEN "old" ELSE "mixed"
    BY <1>3, <2>0, CopySteps DEF Migrates
  <2>2. ASSUME p \notin overlapped, target'[p]["file_hashes"] # "none" PROVE Whole(p)'
    <3>1. \A t \in Tables : target[p][t] \in {"none", "old"}
      BY <2>1, <2>2 DEF Copying
    <3>2. \A t \in Tables : target[p][t] = "old" \/ t = CopyOrder[i] => target'[p][t] = "old"
      BY <2>1, <3>1
    <3>3. CASE target[p]["file_hashes"] # "none"
      <4>1. Whole(p)
        BY <2>2, <3>3 DEF TrustedIsWhole
      <4>2. \A t \in Tables : target[p][t] = "old"
        BY <3>1, <4>1, TheTables DEF Whole
      <4>3. \A t \in Tables : target'[p][t] = "old"
        BY <3>2, <4>2
      <4> QED
        BY <4>3, TheTables DEF Whole
    <3>4. CASE target[p]["file_hashes"] = "none"
      <4>1. CopyOrder[i] = "file_hashes"
        BY <2>1, <2>2, <3>4, TheTables
      <4>2. i = 4
        BY <4>1, TheTables
      <4>3. \A j \in 1..4 : j <= 3 => target[p][CopyOrder[j]] = "old"
        BY <2>0, <2>1, <2>2, <4>2 DEF Copying
      <4>4. \A t \in Tables : target'[p][t] = "old"
        BY <3>2, <4>1, <4>3, TheTables
      <4> QED
        BY <4>4, TheTables DEF Whole
    <3> QED
      BY <3>3, <3>4
  <2>3. ASSUME NEW q \in Projects, q # p
        PROVE  target'[q]["file_hashes"] # "none" => Whole(q)' \/ q \in overlapped
    BY <2>1, <2>3 DEF TrustedIsWhole, Whole
  <2> QED
    BY <2>1, <2>2, <2>3 DEF TrustedIsWhole
<1>4. ASSUME NEW s \in Processes, NEW p \in Projects, Index(s, p) PROVE TrustedIsWhole'
  <2>1. /\ overlapped \subseteq overlapped'
        /\ \A q \in Projects \ {p} : target'[q] = target[q]
        /\ target'[p] = [t \in Tables |-> "new"] \/ target'[p] = target[p]
    BY <1>4, IndexSteps
  <2>2. target'[p] = [t \in Tables |-> "new"] => Whole(p)'
    BY TheTables DEF Whole
  <2>3. \A q \in Projects : target'[q] = target[q] /\ Whole(q) => Whole(q)'
    BY DEF Whole
  <2> QED
    BY <2>1, <2>2, <2>3 DEF TrustedIsWhole
<1>5. ASSUME NEW s \in Processes, Quiet(s) \/ Breaks(s) \/ CreateTarget(s) PROVE TrustedIsWhole'
  BY <1>2, <1>5, QuietSteps, BreakSteps, CreateSteps
<1>6. ASSUME NEW s \in Processes, NEW p \in Projects, NextProject(s, p) PROVE TrustedIsWhole'
  BY <1>2, <1>6, NextSteps
<1> QED
  BY <1>1, <1>3, <1>4, <1>5, <1>6, StepKinds

\* A project leaves the hands of its process whole, or cut short.
LEMMA KeepsExplained ==
  ASSUME TypeOK, Copying, TrustedIsWhole, Explained, [Next]_vars
  PROVE  Explained'
<1>1. CASE UNCHANGED vars
  BY <1>1 DEF vars, auxVars, Explained, Whole, Migrates
<1>2. ASSUME NEW s \in Processes, Quiet(s) PROVE Explained'
  <2>1. \A u \in Processes \ {s} : proc'[u] = proc[u]
    BY <1>2, OthersStay
  <2>2. ASSUME NEW p \in Projects, Migrates(s, p), p \notin overlapped PROVE Whole(p)
    <3>1. proc[s].copied = 4
      BY <1>2, <2>2, QuietSteps DEF Migrates
    <3>2. \A i \in 1..4 : target[p][CopyOrder[i]] = "old"
      BY <2>2, <3>1 DEF Copying
    <3> QED
      BY <3>2, TheTables DEF Whole
  <2>3. \A p \in Projects : Whole(p) => Whole(p)'
    BY <1>2, QuietSteps DEF Whole
  <2> QED
    BY <1>2, <2>1, <2>2, <2>3, AtAfter, QuietSteps DEF Explained, TypeOK
<1>3. ASSUME NEW s \in Processes, Breaks(s) PROVE Explained'
  <2>1. \A u \in Processes \ {s} : proc'[u] = proc[u]
    BY <1>3, OthersStay
  <2>2. \A p \in Projects : Whole(p) => Whole(p)'
    BY <1>3, BreakSteps DEF Whole
  <2> QED
    BY <1>3, <2>1, <2>2, AtAfter, BreakSteps DEF Explained
<1>4. ASSUME NEW s \in Processes, CreateTarget(s) PROVE Explained'
  <2>1. \A u \in Processes \ {s} : proc'[u] = proc[u]
    BY <1>4, OthersStay
  <2>2. \A p \in Projects : /\ Whole(p) => Whole(p)'
                            /\ Migrates(s, p) \/ p = proc[s].proj => Migrates(s, p)'
    BY <1>4, CreateSteps DEF Whole, Migrates
  <2>3. ASSUME NEW q \in created'
        PROVE  \/ Whole(q)' \/ q \in (cut \cup overlapped)'
               \/ \E u \in Processes : Migrates(u, q)'
    <3>1. q \in Projects /\ (q \in created \/ q = proc[s].proj)
      BY <1>4, CreateSteps DEF TypeOK
    <3>2. CASE q = proc[s].proj
      BY <2>2, <3>1, <3>2
    <3>3. CASE q # proc[s].proj
      <4>1. Whole(q) \/ q \in cut \cup overlapped \/ \E u \in Processes : Migrates(u, q)
        BY <3>1, <3>3 DEF Explained
      <4>2. \A u \in Processes : Migrates(u, q) => Migrates(u, q)'
        BY <2>1, <2>2, <3>1, AtAfter
      <4>3. cut' = cut /\ overlapped' = overlapped
        BY <1>4, CreateSteps
      <4> QED
        BY <2>2, <3>1, <3>3, <4>1, <4>2, <4>3
    <3> QED
      BY <3>2, <3>3
  <2> QED
    BY <2>3 DEF Explained
<1>5. ASSUME NEW s \in Processes, NEW p \in Projects, NextProject(s, p) PROVE Explained'
  <2>1. \A u \in Processes \ {s} : proc'[u] = proc[u]
    BY <1>5, OthersStay
  <2>2. \A q \in Projects : (Whole(q) => Whole(q)') /\ ~Migrates(s, q)
    BY <1>5, NextSteps DEF Whole, Migrates
  <2> QED
    BY <1>5, <2>1, <2>2, AtAfter, NextSteps DEF Explained, TypeOK
<1>6. ASSUME NEW s \in Processes, CopyTable(s) PROVE Explained'
  <2>1. \A u \in Processes \ {s} : proc'[u] = proc[u]
    BY <1>6, OthersStay
  <2>2. \A q \in Projects : /\ q # proc[s].proj /\ Whole(q) => Whole(q)'
                            /\ Migrates(s, q) \/ q = proc[s].proj => Migrates(s, q)'
    BY <1>6, CopySteps DEF Whole, Migrates
  <2>3. ASSUME NEW q \in created'
        PROVE  \/ Whole(q)' \/ q \in (cut \cup overlapped)'
               \/ \E u \in Processes : Migrates(u, q)'
    <3>1. q \in Projects /\ (q \in created \/ q = proc[s].proj)
      BY <1>6, CopySteps DEF TypeOK
    <3>2. CASE q = proc[s].proj
      BY <2>2, <3>1, <3>2
    <3>3. CASE q # proc[s].proj
      <4>1. Whole(q) \/ q \in cut \cup overlapped \/ \E u \in Processes : Migrates(u, q)
        BY <3>1, <3>3 DEF Explained
      <4>2. \A u \in Processes : Migrates(u, q) => Migrates(u, q)'
        BY <2>1, <2>2, <3>1, AtAfter
      <4>3. cut' = cut /\ overlapped' = overlapped
        BY <1>6, CopySteps
      <4> QED
        BY <2>2, <3>1, <3>3, <4>1, <4>2, <4>3
    <3> QED
      BY <3>2, <3>3
  <2> QED
    BY <2>3 DEF Explained
<1>7. ASSUME NEW s \in Processes, NEW p \in Projects, Index(s, p) PROVE Explained'
  <2>1. Whole(p)' \/ p \in overlapped'
    <3>1. target'[p] = [t \in Tables |-> "new"] => Whole(p)'
      BY TheTables DEF Whole
    <3>2. target'[p] = target[p] /\ Whole(p) => Whole(p)'
      BY DEF Whole
    <3> QED
      BY <1>7, <3>1, <3>2, IndexSteps DEF TrustedIsWhole
  <2>2. \A q \in Projects \ {p} : Whole(q) => Whole(q)'
    BY <1>7, IndexSteps DEF Whole
  <2> QED
    BY <1>7, <2>1, <2>2, IndexSteps DEF Explained, Migrates, TypeOK
<1> QED
  BY <1>1, <1>2, <1>3, <1>4, <1>5, <1>6, <1>7, StepKinds

\* A project that is seen to stays so.
LEMMA SeenStays ==
  ASSUME TypeOK, Copying, [Next]_vars, NEW p \in Projects, Seen(p)
  PROVE  Seen(p)'
<1>1. CASE UNCHANGED vars
  BY <1>1 DEF vars, auxVars, Seen, Migrates
<1>2. ASSUME NEW s \in Processes, \A u \in Processes \ {s} : proc'[u] = proc[u],
             created \subseteq created', cut \subseteq cut',
             Migrates(s, p) => p \in created' \cup cut' \/ Migrates(s, p)'
      PROVE  Seen(p)'
  BY <1>2, AtAfter DEF Seen
<1>3. ASSUME NEW s \in Processes, Quiet(s) PROVE Seen(p)'
  <2>1. Migrates(s, p) => p \in created
    BY <1>3, QuietSteps DEF Migrates, Copying, At
  <2> QED
    BY <1>2, <1>3, <2>1, OthersStay, QuietSteps
<1>4. ASSUME NEW s \in Processes, Breaks(s) PROVE Seen(p)'
  BY <1>2, <1>4, OthersStay, BreakSteps
<1>5. ASSUME NEW s \in Processes, CreateTarget(s) PROVE Seen(p)'
  <2>1. Migrates(s, p) => Migrates(s, p)'
    BY <1>5, CreateSteps DEF Migrates
  <2> QED
    BY <1>2, <1>5, <2>1, OthersStay, CreateSteps
<1>6. ASSUME NEW s \in Processes, CopyTable(s) PROVE Seen(p)'
  <2>1. Migrates(s, p) => Migrates(s, p)'
    BY <1>6, CopySteps DEF Migrates
  <2> QED
    BY <1>2, <1>6, <2>1, OthersStay, CopySteps
<1>7. ASSUME NEW s \in Processes, NEW q \in Projects, NextProject(s, q) PROVE Seen(p)'
  <2>1. ~Migrates(s, p)
    BY <1>7, NextSteps DEF Migrates
  <2> QED
    BY <1>2, <1>7, <2>1, OthersStay, NextSteps
<1>8. ASSUME NEW s \in Processes, NEW q \in Projects, Index(s, q) PROVE Seen(p)'
  BY <1>8, IndexSteps DEF Seen, Migrates
<1> QED
  BY <1>1, <1>3, <1>4, <1>5, <1>6, <1>7, <1>8, StepKinds

\* A loop passes a project when it has a file, or when it is taken up.
LEMMA KeepsPassed ==
  ASSUME TypeOK, Copying, Passed, [Next]_vars
  PROVE  Passed'
<1>1. CASE UNCHANGED vars
  BY <1>1 DEF vars, auxVars, Passed, Seen, Migrates
<1>2. legacy # "full" => \A p \in Projects : Seen(p)'
  BY SeenStays DEF Passed
<1>3. ASSUME NEW s \in Processes, NEW p \in Projects \ proc[s].todo,
             proc[s].pc \in {"next", "create", "copy"}
      PROVE  Seen(p)'
  BY <1>3, SeenStays DEF Passed
<1>4. ASSUME NEW s \in Processes, \A u \in Processes \ {s} : proc'[u] = proc[u],
             legacy' = legacy \/ legacy # "full",
             proc'[s].pc \in {"next", "create", "copy"} =>
                \/ proc'[s].todo = Projects
                \/ proc'[s].todo = proc[s].todo /\ proc[s].pc \in {"next", "create", "copy"}
      PROVE  Passed'
  BY <1>2, <1>3, <1>4 DEF Passed
<1>5. ASSUME NEW s \in Processes, Quiet(s) PROVE Passed'
  <2>1. CASE Rename(s)
    <3>1. proc[s].pc = "next" /\ proc[s].todo = {}
      BY <2>1 DEF Rename, At
    <3>2. \A p \in Projects : Seen(p)'
      BY <1>3, <3>1
    <3> QED
      BY <3>2 DEF Passed
  <2>2. CASE ~Rename(s)
    <3>1. legacy' = legacy \/ legacy # "full"
      BY <1>5, <2>2 DEF Quiet, Look, Backup, BeginBackup, BackedUp, BackupFails, List, Copied,
         RenameFails
    <3> QED
      BY <1>4, <1>5, <3>1, OthersStay, QuietSteps
  <2> QED
    BY <2>1, <2>2
<1>6. ASSUME NEW s \in Processes, Breaks(s) PROVE Passed'
  BY <1>4, <1>6, OthersStay, BreakSteps
<1>7. ASSUME NEW s \in Processes, CreateTarget(s) PROVE Passed'
  BY <1>4, <1>7, OthersStay, CreateSteps
<1>8. ASSUME NEW s \in Processes, CopyTable(s) PROVE Passed'
  BY <1>4, <1>8, OthersStay, CopySteps
<1>9. ASSUME NEW s \in Processes, NEW p \in Projects, NextProject(s, p) PROVE Passed'
  <2>1. Seen(p)'
    BY <1>9, NextSteps DEF Seen, Migrates
  <2>2. \A u \in Processes \ {s} : proc'[u] = proc[u]
    BY <1>9, OthersStay
  <2>3. \A q \in Projects \ proc'[s].todo : Seen(q)'
    BY <1>3, <1>9, <2>1, NextSteps
  <2>4. legacy' = legacy
    BY <1>9, NextSteps
  <2> QED
    BY <1>2, <1>3, <2>2, <2>3, <2>4 DEF Passed
<1>10. ASSUME NEW s \in Processes, NEW p \in Projects, Index(s, p) PROVE Passed'
  BY <1>2, <1>3, <1>10, IndexSteps DEF Passed
<1> QED
  BY <1>1, <1>5, <1>6, <1>7, <1>8, <1>9, <1>10, StepKinds

\* A backup once begun becomes whole, or its making breaks off.
LEMMA KeepsBackup ==
  ASSUME TypeOK, BackedUpFirst, [Next]_vars
  PROVE  BackedUpFirst'
<1> DEFINE Past == {"list", "next", "create", "copy"}
<1>1. CASE UNCHANGED vars
  BY <1>1 DEF vars, auxVars, BackedUpFirst, BackupBegun, GoneIsBackedUp, At
<1>2. ASSUME BackupBegun', TypeOK PROVE BackedUpFirst'
  BY <1>2 DEF BackedUpFirst, BackupBegun, GoneIsBackedUp
<1>3. ASSUME NEW s \in Processes, \A u \in Processes \ {s} : proc'[u] = proc[u],
             backup' = backup, torn' = torn, ~At(s, "copying backup"),
             legacy' = legacy \/ legacy # "full" \/ proc[s].pc \in Past,
             proc'[s].pc \in Past => proc[s].pc \in Past \/ backup # "none"
      PROVE  BackedUpFirst'
  <2>1. BackupBegun => BackupBegun'
    BY <1>3 DEF BackupBegun, At
  <2>2. CASE BackupBegun
    BY <1>2, <2>1, <2>2
  <2>3. CASE ~BackupBegun
    <3>1. backup = "none" /\ legacy = "full" /\ \A u \in Processes : proc[u].pc \notin Past
      BY <2>3 DEF BackedUpFirst, BackupBegun, GoneIsBackedUp, TypeOK
    <3> QED
      BY <1>3, <3>1 DEF BackedUpFirst, GoneIsBackedUp
  <2> QED
    BY <2>2, <2>3
<1>4. ASSUME NEW s \in Processes, BackupFails(s) \/ BackedUp(s) \/ BeginBackup(s)
      PROVE  BackedUpFirst'
  <2>0. proc \in [Processes -> Process] /\ proc[s] \in Process
    BY DEF TypeOK
  <2>1. \A u \in Processes \ {s} : proc'[u] = proc[u]
    BY <1>4, OthersStay DEF Quiet
  <2>2. CASE BackupFails(s)
    BY <1>2, <2>2 DEF BackupFails, BackupBegun
  <2>3. CASE BackedUp(s)
    BY <1>2, <2>1, <2>3 DEF BackedUp, BackupBegun, At
  <2>4. CASE BeginBackup(s) /\ legacy # "none"
    <3>1. Goes(s, "copying backup")
      BY <2>4 DEF BeginBackup
    <3>2. At(s, "copying backup")'
      BY <2>0, <3>1 DEF Goes, At, Process
    <3> QED
      BY <1>2, <3>2 DEF BackupBegun
  <2>5. CASE BeginBackup(s) /\ legacy = "none"
    <3>1. Returns(s) /\ UNCHANGED <<legacy, backup, torn>> /\ ~At(s, "copying backup")
      BY <2>5 DEF BeginBackup, At, auxVars
    <3>2. proc'[s].pc = "ready"
      BY <2>0, <3>1 DEF Returns, Ready, Starting
    <3> QED
      BY <1>3, <2>1, <3>1, <3>2
  <2> QED
    BY <1>4, <2>2, <2>3, <2>4, <2>5
<1>5. ASSUME NEW s \in Processes, Crash(s) PROVE BackedUpFirst'
  <2>1. \A u \in Processes \ {s} : proc'[u] = proc[u]
    BY <1>5, OthersStay DEF Breaks
  <2>2. CASE At(s, "copying backup")
    BY <1>2, <1>5, <2>2 DEF Crash, BackupBegun
  <2>3. CASE ~At(s, "copying backup")
    <3>1. UNCHANGED <<legacy, backup, torn>> /\ proc'[s].pc = "start"
      BY <1>5, <2>3 DEF Crash, Starting, TypeOK
    <3> QED
      BY <1>3, <2>1, <2>3, <3>1
  <2> QED
    BY <2>2, <2>3
<1>6. ASSUME NEW s \in Processes, Look(s) \/ Backup(s) \/ List(s) \/ Copied(s) \/ Rename(s)
                                \/ RenameFails(s)
      PROVE  BackedUpFirst'
  <2>0. proc \in [Processes -> Process] /\ proc[s] \in Process
    BY DEF TypeOK
  <2>1. \A u \in Processes \ {s} : proc'[u] = proc[u]
    BY <1>6, OthersStay DEF Quiet
  <2>2. UNCHANGED <<backup, torn>> /\ ~At(s, "copying backup")
    BY <1>6 DEF Look, Backup, List, Copied, Rename, RenameFails, At, auxVars
  <2>3. legacy' = legacy \/ legacy # "full" \/ proc[s].pc \in Past
    BY <1>6 DEF Look, Backup, List, Copied, Rename, RenameFails, At
  <2>4. proc'[s].pc \in Past => proc[s].pc \in Past \/ backup # "none"
    <3>1. CASE Look(s)
      <4>1. Returns(s) \/ Goes(s, "backup")
        BY <3>1 DEF Look
      <4>2. proc'[s].pc \in {"ready", "backup"}
        BY <2>0, <4>1 DEF Returns, Goes, Ready, Starting, Process
      <4> QED
        BY <4>2
    <3>2. CASE Backup(s) /\ backup = "none"
      <4>1. Goes(s, "make backup")
        BY <3>2 DEF Backup
      <4>2. proc'[s].pc = "make backup"
        BY <2>0, <4>1 DEF Goes, Process
      <4> QED
        BY <4>2
    <3>3. CASE List(s) \/ Copied(s) \/ Rename(s) \/ RenameFails(s)
      BY <3>3 DEF List, Copied, Rename, RenameFails, At
    <3> QED
      BY <1>6, <3>1, <3>2, <3>3
  <2> QED
    BY <1>3, <2>1, <2>2, <2>3, <2>4
<1>7. ASSUME NEW s \in Processes,
             \/ CreateFails(s) \/ CopyFails(s) \/ CreateTarget(s) \/ CopyTable(s)
             \/ \E p \in Projects : NextProject(s, p)
      PROVE  BackedUpFirst'
  <2>1. \A u \in Processes \ {s} : proc'[u] = proc[u]
    BY <1>7, OthersStay DEF Breaks
  <2>2. UNCHANGED <<legacy, backup, torn>> /\ proc[s].pc \in Past /\ ~At(s, "copying backup")
    BY <1>7 DEF CreateFails, CopyFails, CreateTarget, CopyTable, NextProject, At, auxVars
  <2> QED
    BY <1>3, <2>1, <2>2
<1>8. ASSUME NEW s \in Processes, NEW p \in Projects, Index(s, p) PROVE BackedUpFirst'
  <2>1. UNCHANGED <<legacy, backup, proc, torn>>
    BY <1>8 DEF Index
  <2> QED
    BY <2>1 DEF BackedUpFirst, BackupBegun, GoneIsBackedUp, At
<1> QED
  BY <1>1, <1>4, <1>5, <1>6, <1>7, <1>8 DEF Next

-----------------------------------------------------------------------------
(* The theorems.                                                           *)

LEMMA Inductive == Spec => []IInv
<1>1. Init => IInv
  <2> SUFFICES ASSUME Init PROVE IInv
    OBVIOUS
  <2>1. 0 \in 0..4 /\ 0 \in 0..MaxCrashes
    BY MigrationAssumption
  <2>2. \A s \in Processes : proc[s] = Starting
    BY DEF Init
  <2>3. Starting \in Process /\ Starting.pc = "start" /\ Starting.copied = 0
    BY <2>1 DEF Starting, Process
  <2>4. Empty \in [Tables -> Contents]
    BY DEF Empty, Contents
  <2>5. TypeOK
    BY <2>1, <2>3, <2>4 DEF Init, TypeOK
  <2>6. Copying
    BY <2>2, <2>3 DEF Init, Copying, Migrates, At
  <2>7. TrustedIsWhole
    BY TheTables DEF Init, TrustedIsWhole
  <2>8. Explained /\ Passed /\ BackedUpFirst
    BY <2>2, <2>3 DEF Init, Explained, Passed, BackedUpFirst, GoneIsBackedUp
  <2> QED
    BY <2>5, <2>6, <2>7, <2>8 DEF IInv
<1>2. IInv /\ [Next]_vars => IInv'
  BY KeepsType, KeepsCopying, KeepsTrust, KeepsExplained, KeepsPassed, KeepsBackup DEF IInv
<1> QED
  BY <1>1, <1>2, PTL DEF Spec

\* The state has the shape of the variables, and who is at a project has one:
\* migrate (migrate.go) as any number of processes run it.
THEOREM TypeCorrect == Spec => []TypeOK
<1>1. IInv => TypeOK
  BY DEF IInv
<1> QED
  BY <1>1, Inductive, PTL

\* A database with hashes has the graph they belong to, since migrateProject
\* copies the hashes last: whatever breaks off, a later incremental run of the
\* pipeline does not take missing nodes for unchanged files.
THEOREM TrustCorrect == Spec => []TrustedIsWhole
<1>1. IInv => TrustedIsWhole
  BY DEF IInv
<1> QED
  BY <1>1, Inductive, PTL

\* The legacy file is renamed once each project is whole, in the hands of a
\* process, or among those that a failed statement, a crash or a run that
\* overlapped explains: the check for the file of the target (migrate.go:72)
\* loses no other.
THEOREM LossExplained == Spec => []NothingIsLost
<1>1. IInv => NothingIsLost
  BY DEF IInv, NothingIsLost, Passed, Explained, Seen
<1> QED
  BY <1>1, Inductive, PTL

\* No process renames the legacy file before there is a backup, or one under
\* way, or one that broke off.
THEOREM BackupFirst == Spec => []GoneIsBackedUp
<1>1. IInv => GoneIsBackedUp
  BY DEF IInv, BackedUpFirst
<1> QED
  BY <1>1, Inductive, PTL

\* INSERT OR REPLACE touches no row of a run, unless that run came while the
\* project was being copied: what a run has written stays, for the check for
\* the target's file (migrate.go:72) sees every run that came before.
THEOREM RunsAreKept ==
  Spec => [][\A p \in Projects, t \in Tables :
                target[p][t] = "new" /\ p \notin overlapped => target'[p][t] = "new"]_vars
<1> DEFINE Kept == \A p \in Projects, t \in Tables :
                      target[p][t] = "new" /\ p \notin overlapped => target'[p][t] = "new"
<1>1. IInv /\ [Next]_vars => Kept
  <2> SUFFICES ASSUME IInv, [Next]_vars PROVE Kept
    OBVIOUS
  <2>1. TypeOK /\ Copying
    BY DEF IInv
  <2>2. ASSUME target' = target PROVE Kept
    BY <2>2
  <2>3. ASSUME NEW s \in Processes, CopyTable(s) PROVE Kept
    <3>1. PICK p : p = proc[s].proj
      OBVIOUS
    <3>2. PICK i : i = proc[s].copied + 1
      OBVIOUS
    <3>3. /\ proc[s].pc = "copy" /\ p \in Projects
          /\ \A q \in Projects \ {p} : target'[q] = target[q]
      BY <2>1, <2>3, <3>1, <3>2, CopySteps
    <3>4. p \notin overlapped => \A t \in Tables : target[p][t] \in {"none", "old"}
      BY <2>1, <3>1, <3>3 DEF Copying, Migrates
    <3> QED
      BY <3>3, <3>4
  <2>4. ASSUME NEW s \in Processes, NEW p \in Projects, Index(s, p) PROVE Kept
    <3>1. /\ \A q \in Projects \ {p} : target'[q] = target[q]
          /\ target'[p] = [t \in Tables |-> "new"] \/ target'[p] = target[p]
      BY <2>1, <2>4, IndexSteps
    <3> QED
      BY <3>1
  <2>5. ASSUME NEW s \in Processes,
               \/ Quiet(s) \/ Breaks(s) \/ CreateTarget(s)
               \/ \E p \in Projects : NextProject(s, p)
        PROVE  Kept
    BY <2>1, <2>2, <2>5, QuietSteps, BreakSteps, CreateSteps, NextSteps
  <2>6. UNCHANGED vars => Kept
    BY <2>2 DEF vars
  <2> QED
    BY <2>3, <2>4, <2>5, <2>6, StepKinds
<1> QED
  BY <1>1, Inductive, PTL DEF Spec
=============================================================================
