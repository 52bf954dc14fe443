---------------------------- MODULE ParallelStage ----------------------------
(***************************************************************************)
(* What the parallel stage of passDefinitions promises, without its pool,  *)
(* its monitor, its prefetcher and its cursor: every file is worked on     *)
(* once, by one worker, never more than MaxParallel at a time, and the     *)
(* results are collected when no worker is left that could write one.      *)
(***************************************************************************)
EXTENDS Naturals, FiniteSets

CONSTANTS Files, MaxParallel

VARIABLES
    running,    \* the files a worker is at
    ended,      \* the files whose worker has let go of its slot
    parsed,     \* the files whose result is filled
    cancelled, collected

stageVars == <<running, ended, parsed, cancelled, collected>>

Init ==
    /\ running = {} /\ ended = {} /\ parsed = {}
    /\ cancelled = FALSE /\ collected = FALSE

Begin(f) ==
    /\ ~collected
    /\ f \notin running \cup ended
    /\ Cardinality(running) < MaxParallel
    /\ running' = running \cup {f}
    /\ UNCHANGED <<ended, parsed, cancelled, collected>>

Parse(f) ==
    /\ ~collected
    /\ f \in running \ parsed
    /\ parsed' = parsed \cup {f}
    /\ UNCHANGED <<running, ended, cancelled, collected>>

\* A worker gives up without a result only when the context is cancelled.
End(f) ==
    /\ ~collected
    /\ f \in running /\ (f \in parsed \/ cancelled)
    /\ running' = running \ {f}
    /\ ended' = ended \cup {f}
    /\ UNCHANGED <<parsed, cancelled, collected>>

Cancel ==
    /\ ~cancelled
    /\ cancelled' = TRUE
    /\ UNCHANGED <<running, ended, parsed, collected>>

Collect ==
    /\ ~collected /\ ended = Files
    /\ collected' = TRUE
    /\ UNCHANGED <<running, ended, parsed, cancelled>>

Next ==
    \/ \E f \in Files : Begin(f) \/ Parse(f) \/ End(f)
    \/ Cancel \/ Collect

Spec == Init /\ [][Next]_stageVars
=============================================================================
