--------------------------- MODULE ExtractionPool ---------------------------
(***************************************************************************)
(* The parallel extraction of passDefinitions: the loop that starts one    *)
(* worker goroutine per file, the adaptive pool that limits how many run   *)
(* (internal/pipeline/adaptive.go), its monitor, which moves the limit,    *)
(* the prefetcher that reads ahead of the workers (prefetch.go), and the   *)
(* context that may be cancelled at any time.                              *)
(*                                                                         *)
(* What the monitor measures is arbitrary: any tick may see the throughput *)
(* rise, fall or stay.  A section under the pool's mutex is one step, and  *)
(* so is each of the Signal and Broadcast calls that follow one.           *)
(***************************************************************************)
EXTENDS Naturals, FiniteSets

CONSTANTS
    N,            \* the number of files to parse
    NumCPU,
    Lookahead,    \* how far the prefetcher may be ahead of the workers
    WarmupTicks, CooldownLen,
    Cancels       \* may the context be cancelled

ASSUME PoolAssumption ==
    /\ N \in Nat \ {0} /\ NumCPU \in Nat \ {0} /\ Lookahead \in Nat \ {0}
    /\ WarmupTicks \in Nat /\ CooldownLen \in Nat
    /\ Cancels \in BOOLEAN

Files == 1..N

\* newAdaptivePool.
minLimit == NumCPU
maxLimit == NumCPU * 8
growStep == IF NumCPU \div 2 < 2 THEN 2 ELSE NumCPU \div 2

Least(a, b) == IF a < b THEN a ELSE b
Greatest(a, b) == IF a > b THEN a ELSE b

VARIABLES
    feeder,     \* the loop, then wg.Wait, then pf.stop
    next,       \* the next file to start a worker for
    worker,     \* what each file's worker is doing
    seen,       \* the cursor a worker in advance has loaded
    result,     \* the files whose slot in results is filled
    limit, active,
    monitor,    \* "watch", "broadcast" (in setLimit, unlocked) or "stopped"
    tick, cooldown,
    cursor,     \* how far the workers are
    prefetched, prefetcher,
    cancelled

poolVars == <<limit, active>>
monitorVars == <<monitor, tick, cooldown>>
prefetchVars == <<prefetched, prefetcher>>
vars == <<feeder, next, worker, seen, result, limit, active, monitor, tick, cooldown,
          cursor, prefetched, prefetcher, cancelled>>

Init ==
    /\ feeder = "loop" /\ next = 1
    /\ worker = [i \in Files |-> "none"]
    /\ seen = [i \in Files |-> 0]
    /\ result = {}
    /\ limit = minLimit /\ active = 0
    /\ monitor = "watch" /\ tick = 0 /\ cooldown = 0
    /\ cursor = 0 /\ prefetched = 0 /\ prefetcher = "running"
    /\ cancelled = FALSE

-----------------------------------------------------------------------------
(* The loop over the files.                                                *)

\* acquire, then the go statement.
Start ==
    /\ feeder = "loop" /\ next <= N
    /\ active < limit
    /\ active' = active + 1
    /\ worker' = [worker EXCEPT ![next] = "started"]
    /\ next' = next + 1
    /\ UNCHANGED <<feeder, seen, result, limit, monitorVars, cursor, prefetchVars, cancelled>>

\* cond.Wait gives up the mutex and goes to sleep in one step.
Wait ==
    /\ feeder = "loop" /\ next <= N
    /\ active >= limit
    /\ feeder' = "asleep"
    /\ UNCHANGED <<next, worker, seen, result, poolVars, monitorVars, cursor, prefetchVars,
                   cancelled>>

\* Signal and Broadcast: the loop is the only one that ever waits.
Wake == feeder' = IF feeder = "asleep" THEN "loop" ELSE feeder

\* Mutant: waits for the pool to be empty, not for the wait group.
AllReleased ==
    /\ feeder = "loop" /\ next = N + 1
    /\ active = 0
    /\ feeder' = "collect"
    /\ UNCHANGED <<next, worker, seen, result, poolVars, monitorVars, cursor, prefetchVars,
                   cancelled>>

\* Mutant: wg.Add is called by the worker itself, so that one that has not
\* begun is not waited for.
AllAdded ==
    /\ feeder = "loop" /\ next = N + 1
    /\ \A i \in Files : worker[i] \in {"started", "done"}
    /\ feeder' = "collect"
    /\ UNCHANGED <<next, worker, seen, result, poolVars, monitorVars, cursor, prefetchVars,
                   cancelled>>

\* wg.Wait returns; pool.stop closes the monitor's channel.
AllDone ==
    /\ feeder = "loop" /\ next = N + 1
    /\ \A i \in Files : worker[i] = "done"
    /\ feeder' = "collect"
    /\ UNCHANGED <<next, worker, seen, result, poolVars, monitorVars, cursor, prefetchVars,
                   cancelled>>

\* Nodes and edges of the results are written, then the deferred pf.stop
\* waits for the prefetcher.
Return ==
    /\ feeder = "collect" /\ prefetcher = "stopped"
    /\ feeder' = "returned"
    /\ UNCHANGED <<next, worker, seen, result, poolVars, monitorVars, cursor, prefetchVars,
                   cancelled>>

-----------------------------------------------------------------------------
(* One worker.                                                             *)

\* Mutant: a worker that gives up does not release its slot.
SkipDone(i) ==
    /\ worker[i] = "started" /\ cancelled
    /\ worker' = [worker EXCEPT ![i] = "done"]
    /\ UNCHANGED <<feeder, next, seen, result, poolVars, monitorVars, cursor, prefetchVars,
                   cancelled>>

\* A worker that starts after the cancellation leaves its result empty.
Skip(i) ==
    /\ worker[i] = "started" /\ cancelled
    /\ worker' = [worker EXCEPT ![i] = "release"]
    /\ UNCHANGED <<feeder, next, seen, result, poolVars, monitorVars, cursor, prefetchVars,
                   cancelled>>

Check(i) ==
    /\ worker[i] = "started" /\ ~cancelled
    /\ worker' = [worker EXCEPT ![i] = "parse"]
    /\ UNCHANGED <<feeder, next, seen, result, poolVars, monitorVars, cursor, prefetchVars,
                   cancelled>>

Parse(i) ==
    /\ worker[i] = "parse"
    /\ result' = result \cup {i}
    /\ worker' = [worker EXCEPT ![i] = "advance"]
    /\ UNCHANGED <<feeder, next, seen, poolVars, monitorVars, cursor, prefetchVars, cancelled>>

\* advance: loads the cursor, and gives up when another worker is further.
Load(i) ==
    /\ worker[i] = "advance"
    /\ seen' = [seen EXCEPT ![i] = cursor]
    /\ worker' = [worker EXCEPT ![i] = IF i <= cursor THEN "release" ELSE "swap"]
    /\ UNCHANGED <<feeder, next, result, poolVars, monitorVars, cursor, prefetchVars, cancelled>>

\* Mutant: stores the position without looking whether the cursor has moved.
SwapAnyway(i) ==
    /\ worker[i] = "swap"
    /\ cursor' = i
    /\ worker' = [worker EXCEPT ![i] = "release"]
    /\ UNCHANGED <<feeder, next, seen, result, poolVars, monitorVars, prefetchVars, cancelled>>

\* CompareAndSwap, or another round.
Swap(i) ==
    /\ worker[i] = "swap"
    /\ cursor' = IF cursor = seen[i] THEN i ELSE cursor
    /\ worker' = [worker EXCEPT ![i] = IF cursor = seen[i] THEN "release" ELSE "advance"]
    /\ UNCHANGED <<feeder, next, seen, result, poolVars, monitorVars, prefetchVars, cancelled>>

\* releaseBytes up to the Unlock.
Release(i) ==
    /\ worker[i] = "release"
    /\ active' = active - 1
    /\ worker' = [worker EXCEPT ![i] = "signal"]
    /\ UNCHANGED <<feeder, next, seen, result, limit, monitorVars, cursor, prefetchVars, cancelled>>

\* cond.Signal, then the deferred wg.Done.
Signal(i) ==
    /\ worker[i] = "signal"
    /\ Wake
    /\ worker' = [worker EXCEPT ![i] = "done"]
    /\ UNCHANGED <<next, seen, result, poolVars, monitorVars, cursor, prefetchVars, cancelled>>

Work(i) == Skip(i) \/ Check(i) \/ Parse(i) \/ Load(i) \/ Swap(i) \/ Release(i) \/ Signal(i)

-----------------------------------------------------------------------------
(* The monitor.                                                            *)

\* Ticks are counted up to the first one after the warm-up.
Ticked == tick' = Least(tick + 1, WarmupTicks + 1)

\* Mutant: no broadcast after the limit has grown.
SetLimitQuietly(n) ==
    /\ limit' = Greatest(minLimit, Least(n, maxLimit))
    /\ monitor' = "watch"

\* setLimit clamps; it broadcasts, after the Unlock, when the limit has grown.
SetLimit(n) ==
    /\ limit' = Greatest(minLimit, Least(n, maxLimit))
    /\ monitor' = IF limit' > limit THEN "broadcast" ELSE "watch"

\* A tick that changes nothing; after an adjustment there are CooldownLen such.
Idle ==
    /\ monitor = "watch" /\ Ticked
    /\ cooldown' = IF cooldown > 0 THEN cooldown - 1 ELSE 0
    /\ UNCHANGED <<feeder, next, worker, seen, result, poolVars, monitor, cursor, prefetchVars,
                   cancelled>>

\* The limit may grow from the second tick on, during the warm-up without a
\* cooldown.
Grow ==
    /\ monitor = "watch" /\ Ticked /\ tick >= 1
    /\ cooldown = 0 /\ limit < maxLimit
    /\ SetLimit(limit + growStep)
    /\ cooldown' = IF tick < WarmupTicks THEN 0 ELSE CooldownLen
    /\ UNCHANGED <<feeder, next, worker, seen, result, active, cursor, prefetchVars, cancelled>>

\* It shrinks only after the warm-up.
Shrink ==
    /\ monitor = "watch" /\ Ticked /\ tick >= WarmupTicks
    /\ cooldown = 0 /\ limit > minLimit
    /\ SetLimit(IF limit > growStep THEN limit - growStep ELSE 0)
    /\ cooldown' = CooldownLen
    /\ UNCHANGED <<feeder, next, worker, seen, result, active, cursor, prefetchVars, cancelled>>

Broadcast ==
    /\ monitor = "broadcast"
    /\ Wake
    /\ monitor' = "watch"
    /\ UNCHANGED <<next, worker, seen, result, poolVars, tick, cooldown, cursor, prefetchVars,
                   cancelled>>

\* Mutant: only the context ends the monitor.
StopOnCancel ==
    /\ monitor = "watch" /\ cancelled
    /\ monitor' = "stopped"
    /\ UNCHANGED <<feeder, next, worker, seen, result, poolVars, tick, cooldown, cursor,
                   prefetchVars, cancelled>>

\* The context is done, or pool.stop has closed the channel.  The select may
\* still choose a tick that is ready too.
StopMonitor ==
    /\ monitor = "watch" /\ (cancelled \/ feeder \in {"collect", "returned"})
    /\ monitor' = "stopped"
    /\ UNCHANGED <<feeder, next, worker, seen, result, poolVars, tick, cooldown, cursor,
                   prefetchVars, cancelled>>

-----------------------------------------------------------------------------
(* The prefetcher and the context.                                         *)

target == Least(cursor + Lookahead, N)

Prefetch ==
    /\ prefetcher = "running" /\ ~cancelled
    /\ prefetched < target
    /\ prefetched' = prefetched + 1
    /\ UNCHANGED <<feeder, next, worker, seen, result, poolVars, monitorVars, cursor, prefetcher,
                   cancelled>>

\* Everything is read or the context is done; otherwise it spins.
StopPrefetch ==
    /\ prefetcher = "running"
    /\ cancelled \/ prefetched >= N
    /\ prefetcher' = "stopped"
    /\ UNCHANGED <<feeder, next, worker, seen, result, poolVars, monitorVars, cursor, prefetched,
                   cancelled>>

Cancel ==
    /\ Cancels /\ ~cancelled
    /\ cancelled' = TRUE
    /\ UNCHANGED <<feeder, next, worker, seen, result, poolVars, monitorVars, cursor, prefetchVars>>

Next ==
    \/ Start \/ Wait \/ AllDone \/ Return
    \/ \E i \in Files : Work(i)
    \/ Idle \/ Grow \/ Shrink \/ Broadcast \/ StopMonitor
    \/ Prefetch \/ StopPrefetch
    \/ Cancel

\* Every goroutine that can go on does so.  Ticks need no fairness: nothing
\* waits for one.  A select does not choose its ticker for ever when its
\* context or channel is ready as well.
Fairness ==
    /\ WF_vars(Start \/ Wait \/ AllDone \/ Return)
    /\ \A i \in Files : WF_vars(Work(i))
    /\ WF_vars(Broadcast) /\ SF_vars(StopMonitor)
    /\ WF_vars(Prefetch \/ StopPrefetch)

Spec == Init /\ [][Next]_vars
FairSpec == Spec /\ Fairness

-----------------------------------------------------------------------------
\* The state has the shape of the structs.
TypeOK ==
    /\ feeder \in {"loop", "asleep", "collect", "returned"}
    /\ next \in 1..(N + 1)
    /\ worker \in [Files -> {"none", "started", "parse", "advance", "swap", "release",
                             "signal", "done"}]
    /\ seen \in [Files -> 0..N] /\ cursor \in 0..N
    /\ result \subseteq Files
    /\ limit \in minLimit..maxLimit /\ active \in 0..N
    /\ monitor \in {"watch", "broadcast", "stopped"}
    /\ tick \in 0..(WarmupTicks + 1) /\ cooldown \in 0..CooldownLen
    /\ prefetched \in 0..N /\ prefetcher \in {"running", "stopped"}
    /\ cancelled \in BOOLEAN

\* The workers that hold a slot of the pool.
Holding == {i \in Files : worker[i] \in {"started", "parse", "advance", "swap", "release"}}

\* The loop never sleeps for good: somebody is about to wake it, or there is
\* really no room and a worker that will make some.
SleeperIsWoken ==
    feeder = "asleep" =>
        \/ monitor = "broadcast"
        \/ \E i \in Files : worker[i] = "signal"
        \/ active >= limit /\ Holding # {}

\* The counter is the number of workers that hold a slot, so that at most
\* maxLimit files are parsed, and held in memory, at once.
SlotsCounted == active = Cardinality(Holding) /\ Cardinality(Holding) <= maxLimit

\* The results are read when all are there: one that is empty then is that of
\* a file skipped after a cancellation, and no worker fills one later.
ResultsReadAfterwards ==
    feeder \in {"collect", "returned"} =>
        /\ \A i \in Files : worker[i] = "done"
        /\ cancelled \/ result = Files

\* The workers that have given their slot back.
Ended == {i \in Files : worker[i] \in {"signal", "done"}}

Collected == feeder \in {"collect", "returned"}

Stage == INSTANCE ParallelStage WITH
    MaxParallel <- maxLimit, running <- Holding, ended <- Ended, parsed <- result,
    collected <- Collected

\* With its pool, its lock-free cursor and a limit that moves, the stage is
\* one where every file is worked on once, at most maxLimit at a time, and
\* nothing is collected that a worker could still write.
StageSpec == Stage!Spec

\* The stage comes to its end, cancelled or not: the loop is woken, the
\* workers finish, and the prefetcher sees the last of them.
StageReturns == <>(feeder = "returned")

\* Its goroutines end with it.
NoGoroutineLeft == <>(monitor = "stopped" /\ prefetcher = "stopped")
=============================================================================
