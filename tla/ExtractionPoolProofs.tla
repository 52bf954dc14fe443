------------------------ MODULE ExtractionPoolProofs ------------------------
(***************************************************************************)
(* Safety of ExtractionPool, for any number of files and processors and    *)
(* whatever the monitor measures.                                          *)
(***************************************************************************)
EXTENDS ExtractionPool, Integers, FiniteSetTheorems, TLAPS

\* A worker that has begun has been started by the loop.
Started == \A i \in Files : i >= next <=> worker[i] = "none"

\* A worker that is past its parse has filled its slot, or was cancelled.
Filled ==
  \A i \in Files : worker[i] \notin {"none", "started", "parse"} => i \in result \/ cancelled

IInv == TypeOK /\ Started /\ Filled /\ SlotsCounted /\ SleeperIsWoken /\ ResultsReadAfterwards

-----------------------------------------------------------------------------
LEMMA Limits ==
  /\ minLimit \in Nat \ {0} /\ maxLimit \in Nat /\ minLimit <= maxLimit /\ growStep \in Nat
<1>1. NumCPU \in Nat \ {0}
  BY PoolAssumption
<1>2. growStep \in Nat
  BY <1>1 DEF growStep
<1> QED BY <1>1, <1>2 DEF minLimit, maxLimit

LEMMA FilesFinite == IsFiniteSet(Files) /\ Cardinality(Files) = N /\ N \in Nat \ {0}
<1>1. N \in Nat \ {0}
  BY PoolAssumption
<1> QED BY <1>1, FS_Interval DEF Files

LEMMA HoldingFinite ==
  IsFiniteSet(Holding) /\ Cardinality(Holding) \in Nat /\ Cardinality(Holding) <= N
<1>1. Holding \in SUBSET Files
  BY DEF Holding
<1> QED BY <1>1, FilesFinite, FS_Subset, FS_CardinalityType

\* setLimit clamps.
LEMMA Clamped ==
  ASSUME NEW n \in Int, limit \in Nat
  PROVE  LET m == Greatest(minLimit, Least(n, maxLimit))
         IN  m \in minLimit .. maxLimit /\ (n <= limit /\ limit >= minLimit => m <= limit)
BY Limits DEF Greatest, Least

LEMMA InitInv == Init => IInv
<1> SUFFICES ASSUME Init PROVE IInv
  OBVIOUS
<1>1. Holding = {}
  BY DEF Init, Holding
<1>2. TypeOK
  <2>1. /\ N \in Nat \ {0} /\ WarmupTicks \in Nat /\ CooldownLen \in Nat
        /\ minLimit \in minLimit .. maxLimit
    BY Limits, PoolAssumption
  <2>2. /\ next \in 1 .. N + 1 /\ cursor \in 0 .. N /\ active \in 0 .. N /\ prefetched \in 0 .. N
        /\ tick \in 0 .. WarmupTicks + 1 /\ cooldown \in 0 .. CooldownLen
        /\ limit \in minLimit .. maxLimit
    BY <2>1 DEF Init
  <2>3. /\ seen \in [Files -> 0 .. N]
        /\ worker \in [Files -> {"none", "started", "parse", "advance", "swap", "release", "signal", "done"}]
    BY <2>1 DEF Init
  <2> QED BY <2>2, <2>3 DEF Init, TypeOK
<1>3. Started /\ Filled
  BY PoolAssumption DEF Init, Started, Filled, Files
<1>4. SlotsCounted
  BY <1>1, FS_EmptySet, Limits DEF Init, SlotsCounted
<1>5. SleeperIsWoken /\ ResultsReadAfterwards
  BY DEF Init, SleeperIsWoken, ResultsReadAfterwards
<1> QED BY <1>2, <1>3, <1>4, <1>5 DEF IInv

LEMMA StartStep == IInv /\ Start => IInv'
<1> SUFFICES ASSUME IInv, Start PROVE IInv'
  OBVIOUS
<1>1. TypeOK /\ Started /\ Filled /\ SlotsCounted
  BY DEF IInv
<1>2. /\ feeder = "loop" /\ feeder' = "loop" /\ next <= N /\ next' = next + 1
      /\ active < limit /\ active' = active + 1 /\ limit' = limit
      /\ worker' = [worker EXCEPT ![next] = "started"]
      /\ UNCHANGED <<seen, result, monitor, tick, cooldown, cursor, prefetched, prefetcher, cancelled>>
  BY DEF Start, monitorVars, prefetchVars
<1>3. next \in Files /\ worker[next] = "none"
  BY <1>1, <1>2, PoolAssumption DEF TypeOK, Files, Started
<1>4. Holding' = Holding \union {next} /\ next \notin Holding
  BY <1>1, <1>2, <1>3 DEF TypeOK, Holding
<1>5. Cardinality(Holding') = Cardinality(Holding) + 1
  BY <1>4, HoldingFinite, FS_AddElement
<1>6. Holding' \in SUBSET Files
  BY <1>3, <1>4 DEF Holding
<1>7. Cardinality(Holding') <= N
  BY <1>6, FilesFinite, FS_Subset
<1>8. limit \in Nat /\ limit <= maxLimit /\ maxLimit \in Nat
  BY <1>1, Limits DEF TypeOK
<1>9. SlotsCounted' /\ active' \in 0 .. N
  <2>1. active = Cardinality(Holding) /\ Cardinality(Holding) \in Nat
    BY <1>1, HoldingFinite DEF SlotsCounted
  <2> QED BY <2>1, <1>2, <1>5, <1>7, <1>8, FilesFinite DEF SlotsCounted, maxLimit
<1>10. TypeOK'
  BY <1>1, <1>2, <1>3, <1>9, PoolAssumption DEF TypeOK, minLimit, maxLimit
<1>11. Started'
  BY <1>1, <1>2, <1>3, PoolAssumption DEF TypeOK, Started, Files
<1>12. Filled'
  BY <1>1, <1>2, <1>3 DEF TypeOK, Filled
<1>13. SleeperIsWoken' /\ ResultsReadAfterwards'
  BY <1>2 DEF SleeperIsWoken, ResultsReadAfterwards
<1> QED BY <1>9, <1>10, <1>11, <1>12, <1>13 DEF IInv

LEMMA FeederStep == IInv /\ (Wait \/ AllDone \/ Return) => IInv'
<1> SUFFICES ASSUME IInv, Wait \/ AllDone \/ Return PROVE IInv'
  OBVIOUS
<1>1. /\ TypeOK /\ Started /\ Filled /\ SlotsCounted /\ ResultsReadAfterwards
      /\ active = Cardinality(Holding)
  BY DEF IInv, SlotsCounted
<1>2. /\ UNCHANGED <<next, worker, seen, result, limit, active, monitor, tick, cooldown, cursor,
                     prefetched, prefetcher, cancelled>>
      /\ feeder' \in {"asleep", "collect", "returned"}
  BY DEF Wait, AllDone, Return, poolVars, monitorVars, prefetchVars
<1>3. Holding' = Holding
  BY <1>2 DEF Holding
<1>4. TypeOK' /\ Started' /\ Filled' /\ SlotsCounted'
  BY <1>1, <1>2, <1>3 DEF TypeOK, Started, Filled, SlotsCounted, minLimit, maxLimit
<1>5. SleeperIsWoken'
  <2>1. CASE Wait
    <3>1. active >= limit /\ limit \in Nat \ {0}
      BY <1>1, <2>1, Limits DEF Wait, TypeOK
    <3>2. Cardinality(Holding) # 0
      BY <1>1, <3>1, HoldingFinite
    <3>3. Holding # {}
      BY <3>2, FS_EmptySet
    <3> QED BY <3>1, <3>3, <1>2, <1>3 DEF SleeperIsWoken
  <2>2. CASE AllDone \/ Return
    BY <2>2 DEF AllDone, Return, SleeperIsWoken
  <2> QED BY <2>1, <2>2
<1>6. ResultsReadAfterwards'
  <2>1. CASE Wait
    BY <2>1 DEF Wait, ResultsReadAfterwards
  <2>2. CASE AllDone
    BY <1>1, <1>2, <2>2 DEF AllDone, ResultsReadAfterwards, Filled, TypeOK
  <2>3. CASE Return
    BY <1>1, <1>2, <2>3 DEF Return, ResultsReadAfterwards
  <2> QED BY <2>1, <2>2, <2>3
<1> QED BY <1>4, <1>5, <1>6 DEF IInv

\* A worker's steps up to its release keep its slot.
LEMMA WorkStep == ASSUME IInv, NEW i \in Files, Work(i) PROVE IInv'
<1>1. /\ TypeOK /\ Started /\ Filled /\ SlotsCounted /\ SleeperIsWoken /\ ResultsReadAfterwards
      /\ active = Cardinality(Holding) /\ Cardinality(Holding) <= maxLimit
  BY DEF IInv, SlotsCounted
<1>2. /\ UNCHANGED <<next, limit, monitor, tick, cooldown, prefetched, prefetcher, cancelled>>
      /\ worker[i] \notin {"none", "done"}
      /\ \E pc \in {"parse", "advance", "swap", "release", "signal", "done"} :
           worker' = [worker EXCEPT ![i] = pc]
  BY DEF Work, Skip, Check, Parse, Load, Swap, Release, Signal, poolVars, monitorVars, prefetchVars
<1>3. PICK pc \in {"parse", "advance", "swap", "release", "signal", "done"} :
        worker' = [worker EXCEPT ![i] = pc]
  BY <1>2
<1>4. worker'[i] = pc /\ \A j \in Files : j # i => worker'[j] = worker[j]
  BY <1>1, <1>3 DEF TypeOK
<1>5. Started'
  BY <1>1, <1>2, <1>4 DEF Started
<1>6. feeder \in {"loop", "asleep"} /\ feeder' \in {"loop", "asleep"}
  <2>1. feeder \in {"loop", "asleep"}
    BY <1>1, <1>2 DEF TypeOK, ResultsReadAfterwards
  <2> QED BY <2>1 DEF Work, Skip, Check, Parse, Load, Swap, Release, Signal, Wake
<1>7. ResultsReadAfterwards'
  BY <1>6 DEF ResultsReadAfterwards
<1>8. /\ seen' \in [Files -> 0 .. N] /\ cursor' \in 0 .. N /\ result' \subseteq Files
      /\ result \subseteq result' /\ (worker[i] = "parse" => i \in result')
  <2>1. i \in 0 .. N
    BY PoolAssumption DEF Files
  <2> QED BY <1>1, <2>1 DEF TypeOK, Work, Skip, Check, Parse, Load, Swap, Release, Signal
<1>9. Filled'
  <2>1. worker[i] = "started" => cancelled \/ pc = "parse"
    BY <1>1, <1>4 DEF TypeOK, Work, Skip, Check, Parse, Load, Swap, Release, Signal
  <2> QED BY <2>1, <1>1, <1>2, <1>4, <1>8 DEF Filled, TypeOK
<1>10. worker' \in [Files -> {"none", "started", "parse", "advance", "swap", "release", "signal", "done"}]
  BY <1>1, <1>3 DEF TypeOK
<1>11. CASE Release(i)
  <2>1. worker[i] = "release" /\ pc = "signal" /\ active' = active - 1 /\ feeder' = feeder
    BY <1>1, <1>3, <1>4, <1>11 DEF Release, TypeOK
  <2>2. i \in Holding /\ Holding' = Holding \ {i}
    BY <1>4, <2>1 DEF Holding
  <2>3. Cardinality(Holding \ {i}) = Cardinality(Holding) - 1 /\ Cardinality(Holding) \in Nat \ {0}
    <3>1. Cardinality(Holding) # 0
      BY <2>2, HoldingFinite, FS_EmptySet
    <3>2. IsFiniteSet(Holding) /\ Cardinality(Holding) \in Nat
      BY HoldingFinite
    <3> QED BY <2>2, <3>1, <3>2, FS_RemoveElement
  <2>4. SlotsCounted' /\ active' \in 0 .. N
    BY <1>1, <2>1, <2>2, <2>3, HoldingFinite, Limits, FilesFinite DEF SlotsCounted, maxLimit
  <2>5. TypeOK'
    BY <1>1, <1>2, <1>6, <1>8, <1>10, <2>4 DEF TypeOK, minLimit, maxLimit
  <2>6. SleeperIsWoken'
    BY <1>4, <2>1 DEF SleeperIsWoken
  <2> QED BY <1>5, <1>7, <1>9, <2>4, <2>5, <2>6 DEF IInv
<1>12. CASE ~ Release(i)
  <2>1. active' = active
    BY <1>12 DEF Work, Skip, Check, Parse, Load, Swap, Signal, poolVars
  <2>2. Holding' = Holding
    <3>1. worker[i] \in {"started", "parse", "advance", "swap", "release"}
            <=> pc \in {"started", "parse", "advance", "swap", "release"}
      BY <1>1, <1>4, <1>12 DEF TypeOK, Work, Skip, Check, Parse, Load, Swap, Signal
    <3> QED BY <3>1, <1>4 DEF Holding
  <2>3. TypeOK' /\ SlotsCounted'
    BY <1>1, <1>2, <1>6, <1>8, <1>10, <2>1, <2>2 DEF TypeOK, SlotsCounted, minLimit, maxLimit
  <2>4. SleeperIsWoken'
    <3>1. CASE Signal(i)
      BY <3>1 DEF Signal, Wake, SleeperIsWoken
    <3>2. CASE ~ Signal(i)
      <4>1. feeder' = feeder /\ worker[i] # "signal"
        BY <1>1, <1>12, <3>2 DEF Work, Skip, Check, Parse, Load, Swap
      <4> QED BY <4>1, <1>1, <1>2, <1>4, <2>1, <2>2 DEF SleeperIsWoken
    <3> QED BY <3>1, <3>2
  <2> QED BY <1>5, <1>7, <1>9, <2>3, <2>4 DEF IInv
<1> QED BY <1>11, <1>12

\* The monitor changes the limit, and nothing a worker sees.
LEMMA MonitorStep == IInv /\ (Idle \/ Grow \/ Shrink \/ Broadcast \/ StopMonitor) => IInv'
<1> SUFFICES ASSUME IInv, Idle \/ Grow \/ Shrink \/ Broadcast \/ StopMonitor PROVE IInv'
  OBVIOUS
<1>1. /\ TypeOK /\ Started /\ Filled /\ SlotsCounted /\ SleeperIsWoken /\ ResultsReadAfterwards
      /\ limit \in Nat /\ minLimit <= limit
  BY Limits DEF IInv, TypeOK
<1>2. UNCHANGED <<next, worker, seen, result, active, cursor, prefetched, prefetcher, cancelled>>
  BY DEF Idle, Grow, Shrink, Broadcast, StopMonitor, SetLimit, poolVars, prefetchVars
<1>3. Holding' = Holding
  BY <1>2 DEF Holding
<1>4. /\ limit' \in minLimit .. maxLimit
      /\ limit' <= limit \/ monitor' = "broadcast"
      /\ monitor' \in {"watch", "broadcast", "stopped"}
      /\ monitor = "broadcast" => Broadcast
  <2>1. CASE Grow
    <3>1. limit + growStep \in Int
      BY <1>1, Limits
    <3>2. limit' \in minLimit .. maxLimit
      BY <1>1, <2>1, <3>1, Clamped DEF Grow, SetLimit
    <3>3. limit' > limit => monitor' = "broadcast"
      BY <2>1 DEF Grow, SetLimit
    <3> QED BY <2>1, <3>2, <3>3, <1>1, Limits DEF Grow, SetLimit
  <2>2. CASE Shrink
    <3> DEFINE n == IF limit > growStep THEN limit - growStep ELSE 0
    <3>1. n \in Int /\ n <= limit
      BY <1>1, Limits
    <3> HIDE DEF n
    <3>2. limit' = Greatest(minLimit, Least(n, maxLimit))
      BY <2>2 DEF Shrink, SetLimit, n
    <3>3. limit' \in minLimit .. maxLimit /\ limit' <= limit
      BY <1>1, <3>1, <3>2, Clamped
    <3> QED BY <2>2, <3>3 DEF Shrink, SetLimit
  <2>3. CASE Idle \/ Broadcast \/ StopMonitor
    <3>1. limit' = limit
      BY <2>3 DEF Idle, Broadcast, StopMonitor, poolVars
    <3> QED BY <1>1, <2>3, <3>1 DEF Idle, Broadcast, StopMonitor, TypeOK
  <2> QED BY <2>1, <2>2, <2>3
<1>5. feeder' \in {"loop", "asleep", "collect", "returned"}
      /\ (feeder' = "asleep" => feeder = "asleep" /\ ~ Broadcast)
      /\ (feeder' \in {"collect", "returned"} => feeder \in {"collect", "returned"})
  BY <1>1 DEF TypeOK, Idle, Grow, Shrink, Broadcast, StopMonitor, Wake
<1>6. tick' \in 0 .. WarmupTicks + 1 /\ cooldown' \in 0 .. CooldownLen
  <2>1. tick' \in {tick, Least(tick + 1, WarmupTicks + 1)}
    BY DEF Idle, Grow, Shrink, Broadcast, StopMonitor, Ticked
  <2>2. cooldown' \in {cooldown, IF cooldown > 0 THEN cooldown - 1 ELSE 0, 0, CooldownLen}
    BY DEF Idle, Grow, Shrink, Broadcast, StopMonitor
  <2>3. tick \in 0 .. WarmupTicks + 1 /\ cooldown \in 0 .. CooldownLen
    BY <1>1 DEF TypeOK
  <2>4. Least(tick + 1, WarmupTicks + 1) \in 0 .. WarmupTicks + 1
    BY <2>3, PoolAssumption DEF Least
  <2> QED BY <2>1, <2>2, <2>3, <2>4, PoolAssumption
<1>7. TypeOK'
  BY <1>1, <1>2, <1>4, <1>5, <1>6 DEF TypeOK, minLimit, maxLimit
<1>8. Started' /\ Filled' /\ SlotsCounted' /\ ResultsReadAfterwards'
  BY <1>1, <1>2, <1>3, <1>5 DEF Started, Filled, SlotsCounted, ResultsReadAfterwards, maxLimit
<1>9. SleeperIsWoken'
  <2>1. limit' \in Nat /\ active \in Nat
    BY <1>1, <1>4, Limits DEF TypeOK
  <2> QED BY <2>1, <1>1, <1>2, <1>3, <1>4, <1>5 DEF SleeperIsWoken
<1> QED BY <1>7, <1>8, <1>9 DEF IInv

LEMMA OtherStep ==
  IInv /\ (Prefetch \/ StopPrefetch \/ Cancel \/ UNCHANGED vars) => IInv'
<1> SUFFICES ASSUME IInv, Prefetch \/ StopPrefetch \/ Cancel \/ UNCHANGED vars PROVE IInv'
  OBVIOUS
<1>1. /\ TypeOK /\ Started /\ Filled /\ SlotsCounted /\ SleeperIsWoken /\ ResultsReadAfterwards
  BY DEF IInv
<1>2. /\ UNCHANGED <<feeder, next, worker, seen, result, limit, active, monitor, tick, cooldown, cursor>>
      /\ (cancelled => cancelled') /\ cancelled' \in BOOLEAN /\ prefetcher' \in {prefetcher, "stopped"}
  BY <1>1 DEF TypeOK, Prefetch, StopPrefetch, Cancel, vars, poolVars, monitorVars, prefetchVars
<1>3. Holding' = Holding
  BY <1>2 DEF Holding
<1>4. prefetched' \in 0 .. N
  <2>1. target <= N /\ N \in Nat /\ prefetched \in 0 .. N
    BY <1>1, PoolAssumption DEF TypeOK, target, Least
  <2>2. prefetched' = prefetched \/ (prefetched < target /\ prefetched' = prefetched + 1)
    BY DEF Prefetch, StopPrefetch, Cancel, vars, prefetchVars
  <2>3. target \in Int
    BY <1>1, PoolAssumption DEF TypeOK, target, Least
  <2> QED BY <2>1, <2>2, <2>3
<1>5. TypeOK'
  BY <1>1, <1>2, <1>4 DEF TypeOK, minLimit, maxLimit
<1>6. Started' /\ Filled'
  BY <1>1, <1>2 DEF Started, Filled
<1>7. SlotsCounted' /\ SleeperIsWoken'
  BY <1>1, <1>2, <1>3 DEF SlotsCounted, SleeperIsWoken, maxLimit
<1>8. ResultsReadAfterwards'
  BY <1>1, <1>2 DEF ResultsReadAfterwards
<1> QED BY <1>5, <1>6, <1>7, <1>8 DEF IInv

LEMMA Inductive == Spec => []IInv
<1>1. IInv /\ [Next]_vars => IInv'
  BY StartStep, FeederStep, WorkStep, MonitorStep, OtherStep DEF Next
<1> QED BY <1>1, InitInv, PTL DEF Spec

-----------------------------------------------------------------------------
\* The state has the shape of the structs.
THEOREM TypeCorrect == Spec => []TypeOK
<1>1. IInv => TypeOK
  BY DEF IInv
<1> QED BY <1>1, Inductive, PTL

\* The loop never sleeps for good: somebody is about to wake it, or there is
\* no room and a worker that will make some (acquire, releaseBytes, setLimit).
THEOREM WakeUpIsNotLost == Spec => []SleeperIsWoken
<1>1. IInv => SleeperIsWoken
  BY DEF IInv
<1> QED BY <1>1, Inductive, PTL

\* The counter is the number of slots held, and never more than maxLimit
\* (acquire, releaseBytes).
THEOREM SlotsAreCounted == Spec => []SlotsCounted
<1>1. IInv => SlotsCounted
  BY DEF IInv
<1> QED BY <1>1, Inductive, PTL

\* The results are read when the last worker is done, and then they are all
\* there, or the run was cancelled (passDefinitions).
THEOREM ResultsComplete == Spec => []ResultsReadAfterwards
<1>1. IInv => ResultsReadAfterwards
  BY DEF IInv
<1> QED BY <1>1, Inductive, PTL

-----------------------------------------------------------------------------
(* The stage implements the abstract one.                                  *)

LEMMA SameCardinality == ASSUME NEW S PROVE Stage!Cardinality(S) = Cardinality(S)
BY DEF Cardinality, Stage!Cardinality

LEMMA StageInit == Init => Stage!Init
<1> SUFFICES ASSUME Init PROVE Stage!Init
  OBVIOUS
<1>1. Holding = {} /\ Ended = {}
  BY DEF Init, Holding, Ended
<1>2. Collected = FALSE
  BY DEF Init, Collected
<1> QED BY <1>1, <1>2 DEF Init, Stage!Init

\* acquire is the beginning of the next file, and the room it finds is room
\* below the upper limit.
LEMMA StartBegins == IInv /\ Start => Stage!Begin(next) /\ next \in Files
<1> SUFFICES ASSUME IInv, Start PROVE Stage!Begin(next) /\ next \in Files
  OBVIOUS
<1>1. TypeOK /\ Started /\ SlotsCounted
  BY DEF IInv
<1>2. /\ feeder = "loop" /\ feeder' = "loop" /\ next <= N /\ active < limit
      /\ worker' = [worker EXCEPT ![next] = "started"]
      /\ UNCHANGED <<result, cancelled>>
  BY DEF Start
<1>3. next \in Files /\ worker[next] = "none"
  BY <1>1, <1>2, PoolAssumption DEF TypeOK, Files, Started
<1>4. \A j \in Files : worker'[j] = IF j = next THEN "started" ELSE worker[j]
  BY <1>1, <1>2 DEF TypeOK
<1>5. Holding' = Holding \union {next} /\ Ended' = Ended /\ next \notin Holding \union Ended
  BY <1>3, <1>4 DEF Holding, Ended
<1>6. Cardinality(Holding) < maxLimit
  <2>1. limit \in Nat /\ limit <= maxLimit /\ active \in Nat /\ maxLimit \in Nat
    BY <1>1, Limits DEF TypeOK
  <2>2. active = Cardinality(Holding)
    BY <1>1 DEF SlotsCounted
  <2> QED BY <1>2, <2>1, <2>2
<1>7. ~Collected /\ Collected' = Collected
  BY <1>2 DEF Collected
<1> QED BY <1>2, <1>3, <1>5, <1>6, <1>7, SameCardinality DEF Stage!Begin

\* Parse fills a slot of the results, releaseBytes ends a worker, and the
\* rest of what it does is not seen.
LEMMA WorkImplements ==
  ASSUME IInv, NEW i \in Files, Work(i)
  PROVE  Stage!Parse(i) \/ Stage!End(i) \/ UNCHANGED Stage!stageVars
<1>1. TypeOK /\ Started /\ Filled /\ ResultsReadAfterwards
  BY DEF IInv
<1>2. ~Collected /\ Collected' = Collected /\ cancelled' = cancelled
  <2>1. worker[i] # "done"
    BY DEF Work, Skip, Check, Parse, Load, Swap, Release, Signal
  <2>2. feeder \in {"loop", "asleep"}
    BY <1>1, <2>1 DEF TypeOK, ResultsReadAfterwards
  <2>3. feeder' \in {"loop", "asleep"}
    BY <2>2 DEF Work, Skip, Check, Parse, Load, Swap, Release, Signal, Wake
  <2>4. cancelled' = cancelled
    BY DEF Work, Skip, Check, Parse, Load, Swap, Release, Signal
  <2> QED BY <2>2, <2>3, <2>4 DEF Collected
<1>3. PICK pc \in {"parse", "advance", "swap", "release", "signal", "done"} :
        worker' = [worker EXCEPT ![i] = pc]
  BY DEF Work, Skip, Check, Parse, Load, Swap, Release, Signal
<1>4. \A j \in Files : worker'[j] = IF j = i THEN pc ELSE worker[j]
  BY <1>1, <1>3 DEF TypeOK
<1>5. CASE Parse(i)
  <2>1. worker[i] = "parse" /\ pc = "advance" /\ result' = result \union {i}
    BY <1>1, <1>3, <1>4, <1>5 DEF Parse, TypeOK
  <2>2. Holding' = Holding /\ Ended' = Ended /\ i \in Holding
    BY <1>4, <2>1 DEF Holding, Ended
  <2>3. CASE i \in result
    BY <1>2, <2>1, <2>2, <2>3 DEF Stage!stageVars
  <2>4. CASE i \notin result
    BY <1>2, <2>1, <2>2, <2>4 DEF Stage!Parse
  <2> QED BY <2>3, <2>4
<1>6. CASE Release(i)
  <2>1. worker[i] = "release" /\ pc = "signal" /\ result' = result
    BY <1>1, <1>3, <1>4, <1>6 DEF Release, TypeOK
  <2>2. Holding' = Holding \ {i} /\ Ended' = Ended \union {i} /\ i \in Holding
    BY <1>4, <2>1 DEF Holding, Ended
  <2>3. i \in result \/ cancelled
    BY <1>1, <2>1 DEF Filled
  <2> QED BY <1>2, <2>1, <2>2, <2>3 DEF Stage!End
<1>7. CASE Skip(i) \/ Check(i) \/ Load(i) \/ Swap(i) \/ Signal(i)
  <2>1. /\ result' = result
        /\ \/ worker[i] \in {"started", "advance", "swap"} /\ pc \in {"parse", "swap", "advance", "release"}
           \/ worker[i] = "signal" /\ pc = "done"
    BY <1>1, <1>4, <1>7 DEF Skip, Check, Load, Swap, Signal, TypeOK
  <2>2. Holding' = Holding /\ Ended' = Ended
    BY <1>4, <2>1 DEF Holding, Ended
  <2> QED BY <1>2, <2>1, <2>2 DEF Stage!stageVars
<1> QED BY <1>5, <1>6, <1>7 DEF Work

\* wg.Wait returns when every worker has ended.
LEMMA CollectImplements == IInv /\ AllDone => Stage!Collect
<1> SUFFICES ASSUME IInv, AllDone PROVE Stage!Collect
  OBVIOUS
<1>1. /\ feeder = "loop" /\ feeder' = "collect" /\ UNCHANGED <<worker, result, cancelled>>
      /\ \A i \in Files : worker[i] = "done"
  BY DEF AllDone
<1>2. Ended = Files /\ Ended' = Ended /\ Holding' = Holding
  BY <1>1 DEF Ended, Holding
<1>3. ~Collected /\ Collected' = TRUE
  BY <1>1 DEF Collected
<1> QED BY <1>1, <1>2, <1>3 DEF Stage!Collect

\* What the loop, the monitor and the prefetcher do besides is not seen.
LEMMA UnseenImplements ==
  IInv /\ (\/ Wait \/ Return \/ Idle \/ Grow \/ Shrink \/ Broadcast \/ StopMonitor
          \/ Prefetch \/ StopPrefetch \/ UNCHANGED vars)
    => UNCHANGED Stage!stageVars
<1> SUFFICES ASSUME IInv,
                    \/ Wait \/ Return \/ Idle \/ Grow \/ Shrink \/ Broadcast \/ StopMonitor
                    \/ Prefetch \/ StopPrefetch \/ UNCHANGED vars
             PROVE  UNCHANGED Stage!stageVars
  OBVIOUS
<1>1. UNCHANGED <<worker, result, cancelled>>
  BY DEF Wait, Return, Idle, Grow, Shrink, Broadcast, StopMonitor, Prefetch, StopPrefetch, vars
<1>2. Collected' = Collected
  BY DEF Collected, Wait, Return, Idle, Grow, Shrink, Broadcast, Wake, StopMonitor, Prefetch, StopPrefetch, vars
<1>3. Holding' = Holding /\ Ended' = Ended
  BY <1>1 DEF Holding, Ended
<1> QED BY <1>1, <1>2, <1>3 DEF Stage!stageVars

LEMMA CancelImplements == Cancel => Stage!Cancel
<1> SUFFICES ASSUME Cancel PROVE Stage!Cancel
  OBVIOUS
<1>1. ~cancelled /\ cancelled' = TRUE /\ UNCHANGED <<feeder, worker, result>>
  BY DEF Cancel
<1>2. Holding' = Holding /\ Ended' = Ended /\ Collected' = Collected
  BY <1>1 DEF Holding, Ended, Collected
<1> QED BY <1>1, <1>2 DEF Stage!Cancel

\* With its pool, its lock-free cursor and a limit that moves, the stage is
\* one where every file is worked on once, at most maxLimit at a time, and
\* nothing is collected that a worker could still write (passDefinitions,
\* acquire, releaseBytes).
THEOREM ImplementsStage == Spec => StageSpec
<1>1. IInv /\ [Next]_vars => [Stage!Next]_(Stage!stageVars)
  <2> SUFFICES ASSUME IInv, [Next]_vars PROVE [Stage!Next]_(Stage!stageVars)
    OBVIOUS
  <2>1. CASE Start
    BY <2>1, StartBegins DEF Stage!Next
  <2>2. CASE AllDone
    BY <2>2, CollectImplements DEF Stage!Next
  <2>3. CASE \E i \in Files : Work(i)
    BY <2>3, WorkImplements DEF Stage!Next
  <2>4. CASE Cancel
    BY <2>4, CancelImplements DEF Stage!Next
  <2>5. CASE \/ Wait \/ Return \/ Idle \/ Grow \/ Shrink \/ Broadcast \/ StopMonitor
             \/ Prefetch \/ StopPrefetch \/ UNCHANGED vars
    BY <2>5, UnseenImplements
  <2> QED BY <2>1, <2>2, <2>3, <2>4, <2>5 DEF Next
<1> QED BY <1>1, StageInit, Inductive, PTL DEF Spec, Stage!Spec, StageSpec

-----------------------------------------------------------------------------
(* The cursor the prefetcher follows.                                      *)

\* A worker that is about to swap has loaded a cursor it is further than, and
\* the cursor has only grown since; and the cursor has passed every file
\* whose worker parsed it and has left advance.
CursorInv ==
  \A i \in Files :
    /\ worker[i] = "swap" => seen[i] < i /\ seen[i] <= cursor
    /\ worker[i] \in {"release", "signal", "done"} /\ i \in result => i <= cursor
    /\ i \in result => worker[i] \notin {"none", "started", "parse"}

\* The workers only move the cursor forward, although they finish in any order
\* and swap it without a lock (advance).
CursorAdvances == [][cursor' >= cursor]_vars

\* A worker tries again only when another one has moved the cursor meanwhile,
\* so that there are never more than N rounds in all (advance).
RetriesAreProgress ==
  [][\A i \in Files :
        worker[i] = "swap" /\ worker'[i] = "advance" => seen[i] < cursor]_vars

\* When the last worker is done the cursor is at the last file, unless the run
\* was cancelled: the prefetcher, which has nothing else to stop it, may read
\* to the end (advance, prefetcher.run).
CursorReachesEnd == feeder \in {"collect", "returned"} => cancelled \/ cursor = N

LEMMA CursorMoves ==
  ASSUME IInv, CursorInv, [Next]_vars
  PROVE  cursor' >= cursor
<1>1. cursor \in 0 .. N /\ N \in Nat
  BY PoolAssumption DEF IInv, TypeOK
<1>2. ASSUME NEW i \in Files, Work(i) PROVE cursor' >= cursor
  <2>1. i \in Nat
    BY PoolAssumption DEF Files
  <2>2. CASE Swap(i)
    BY <1>1, <2>1, <2>2 DEF Swap, CursorInv, IInv, TypeOK
  <2>3. CASE ~ Swap(i)
    BY <1>1, <1>2, <2>3 DEF Work, Skip, Check, Parse, Load, Release, Signal
  <2> QED BY <2>2, <2>3
<1>3. CASE \/ Start \/ Wait \/ AllDone \/ Return
           \/ Idle \/ Grow \/ Shrink \/ Broadcast \/ StopMonitor
           \/ Prefetch \/ StopPrefetch \/ Cancel \/ UNCHANGED vars
  <2>1. cursor' = cursor
    BY <1>3 DEF Start, Wait, AllDone, Return, Idle, Grow, Shrink, Broadcast, StopMonitor,
                Prefetch, StopPrefetch, Cancel, vars
  <2> QED BY <1>1, <2>1
<1> QED BY <1>2, <1>3 DEF Next

LEMMA CursorInductive == Spec => []CursorInv
<1>1. Init => CursorInv
  BY DEF Init, CursorInv
<1>2. IInv /\ CursorInv /\ [Next]_vars => CursorInv'
  <2> SUFFICES ASSUME IInv, CursorInv, [Next]_vars PROVE CursorInv'
    OBVIOUS
  <2>1. /\ cursor \in 0 .. N /\ N \in Nat /\ cursor' >= cursor
        /\ Files \subseteq Nat
        /\ seen \in [Files -> 0 .. N]
        /\ worker \in [Files -> {"none", "started", "parse", "advance", "swap", "release",
                                 "signal", "done"}]
    BY CursorMoves, PoolAssumption DEF IInv, TypeOK, Files
  <2>2. cursor' \in Nat
    BY StartStep, FeederStep, WorkStep, MonitorStep, OtherStep, PoolAssumption
       DEF Next, IInv, TypeOK
  <2>3. CASE Start
    <3>1. /\ worker' = [worker EXCEPT ![next] = "started"] /\ UNCHANGED <<seen, result, cursor>>
          /\ next \in Files /\ worker[next] = "none"
      BY <2>3, StartBegins, PoolAssumption DEF Start, IInv, Started, TypeOK, Files
    <3>2. \A j \in Files : worker'[j] = IF j = next THEN "started" ELSE worker[j]
      BY <2>1, <3>1
    <3> QED BY <3>1, <3>2 DEF CursorInv
  <2>4. ASSUME NEW i \in Files, Work(i) PROVE CursorInv'
    <3>1. PICK pc \in {"parse", "advance", "swap", "release", "signal", "done"} :
            worker' = [worker EXCEPT ![i] = pc]
      BY <2>4 DEF Work, Skip, Check, Parse, Load, Swap, Release, Signal
    <3>2. \A j \in Files : worker'[j] = IF j = i THEN pc ELSE worker[j]
      BY <2>1, <3>1
    <3>3. /\ \A j \in Files : j # i => seen'[j] = seen[j] /\ (j \in result' <=> j \in result)
          /\ i \in Nat
      BY <2>1, <2>4 DEF Work, Skip, Check, Parse, Load, Swap, Release, Signal
    <3>4. ASSUME NEW j \in Files, j # i
          PROVE  /\ worker'[j] = "swap" => seen'[j] < j /\ seen'[j] <= cursor'
                 /\ worker'[j] \in {"release", "signal", "done"} /\ j \in result' => j <= cursor'
                 /\ j \in result' => worker'[j] \notin {"none", "started", "parse"}
      <4>1. j \in Nat /\ seen[j] \in Nat
        BY <2>1
      <4> QED BY <2>1, <2>2, <3>2, <3>3, <3>4, <4>1 DEF CursorInv
    <3>5. /\ pc = "swap" => seen'[i] < i /\ seen'[i] <= cursor'
          /\ pc \in {"release", "signal", "done"} /\ i \in result' => i <= cursor'
          /\ i \in result' => pc \notin {"none", "started", "parse"}
      <4>1. pc = worker'[i]
        BY <3>2
      <4>2. CASE Load(i)
        <5>1. /\ seen'[i] = cursor /\ cursor' = cursor
              /\ pc = IF i <= cursor THEN "release" ELSE "swap"
          BY <2>1, <3>1, <4>1, <4>2 DEF Load
        <5> QED BY <2>1, <3>3, <5>1
      <4>3. CASE Swap(i)
        <5>1. pc = "release" => cursor' = i
          BY <2>1, <4>1, <4>3 DEF Swap
        <5>2. pc \in {"release", "advance"}
          BY <2>1, <4>1, <4>3 DEF Swap
        <5> QED BY <3>3, <5>1, <5>2
      <4>4. CASE Skip(i) \/ Check(i)
        <5>1. i \notin result' /\ pc \in {"parse", "release"}
          BY <2>1, <4>1, <4>4 DEF Skip, Check, CursorInv
        <5> QED BY <5>1
      <4>5. CASE Parse(i)
        <5>1. pc = "advance"
          BY <2>1, <4>1, <4>5 DEF Parse
        <5> QED BY <5>1
      <4>6. CASE Release(i) \/ Signal(i)
        <5>1. /\ worker[i] \in {"release", "signal"} /\ pc \in {"signal", "done"}
              /\ UNCHANGED <<cursor, result>>
          BY <2>1, <4>1, <4>6 DEF Release, Signal
        <5> QED BY <5>1 DEF CursorInv
      <4> QED BY <2>4, <4>2, <4>3, <4>4, <4>5, <4>6 DEF Work
    <3> QED BY <3>2, <3>4, <3>5 DEF CursorInv
  <2>5. CASE \/ Wait \/ AllDone \/ Return
             \/ Idle \/ Grow \/ Shrink \/ Broadcast \/ StopMonitor
             \/ Prefetch \/ StopPrefetch \/ Cancel \/ UNCHANGED vars
    <3>1. UNCHANGED <<worker, seen, result, cursor>>
      BY <2>5 DEF Wait, AllDone, Return, Idle, Grow, Shrink, Broadcast, StopMonitor,
                  Prefetch, StopPrefetch, Cancel, vars
    <3> QED BY <3>1 DEF CursorInv
  <2> QED BY <2>3, <2>4, <2>5 DEF Next
<1> QED BY <1>1, <1>2, Inductive, PTL DEF Spec

\* The workers only move the cursor forward, in whatever order they finish
\* (advance).
THEOREM CursorOnlyAdvances == Spec => CursorAdvances
<1>1. IInv /\ CursorInv /\ [Next]_vars => [cursor' >= cursor]_vars
  BY CursorMoves
<1> QED BY <1>1, Inductive, CursorInductive, PTL DEF Spec, CursorAdvances

\* The compare-and-swap loop of advance is lock-free: a round that fails has
\* been overtaken by one that moved the cursor, of which there are at most N.
THEOREM OvertakenWorkersRetry == Spec => RetriesAreProgress
<1> DEFINE Progress == \A i \in Files :
                         worker[i] = "swap" /\ worker'[i] = "advance" => seen[i] < cursor
<1>1. IInv /\ CursorInv /\ [Next]_vars => [Progress]_vars
  <2> SUFFICES ASSUME IInv, CursorInv, [Next]_vars,
                      NEW i \in Files, worker[i] = "swap", worker'[i] = "advance"
               PROVE  seen[i] < cursor
    OBVIOUS
  <2>1. /\ worker \in [Files -> {"none", "started", "parse", "advance", "swap", "release",
                                 "signal", "done"}]
        /\ cursor \in Nat /\ seen[i] \in Nat /\ seen[i] <= cursor
    BY PoolAssumption DEF IInv, TypeOK, CursorInv
  <2>2. ASSUME NEW j \in Files, Work(j) PROVE j = i /\ Swap(i)
    <3>1. PICK pc \in {"parse", "advance", "swap", "release", "signal", "done"} :
            worker' = [worker EXCEPT ![j] = pc]
      BY <2>2 DEF Work, Skip, Check, Parse, Load, Swap, Release, Signal
    <3>2. j = i
      BY <2>1, <3>1
    <3> QED BY <2>2, <3>2 DEF Work, Skip, Check, Parse, Load, Release, Signal
  <2>3. CASE Start
    BY <2>1, <2>3 DEF Start
  <2>4. CASE \/ Wait \/ AllDone \/ Return
             \/ Idle \/ Grow \/ Shrink \/ Broadcast \/ StopMonitor
             \/ Prefetch \/ StopPrefetch \/ Cancel \/ UNCHANGED vars
    <3>1. worker' = worker
      BY <2>4 DEF Wait, AllDone, Return, Idle, Grow, Shrink, Broadcast, StopMonitor,
                  Prefetch, StopPrefetch, Cancel, vars
    <3> QED BY <3>1
  <2>5. CASE \E j \in Files : Work(j)
    <3>1. Swap(i)
      BY <2>2, <2>5
    <3>2. cursor # seen[i]
      BY <2>1, <3>1 DEF Swap
    <3> QED BY <2>1, <3>2
  <2> QED BY <2>3, <2>4, <2>5 DEF Next
<1> QED BY <1>1, Inductive, CursorInductive, PTL DEF Spec, RetriesAreProgress

LEMMA AtTheEnd == IInv /\ CursorInv => CursorReachesEnd
<1> SUFFICES ASSUME IInv, CursorInv, feeder \in {"collect", "returned"}, ~cancelled
             PROVE  cursor = N
  BY DEF CursorReachesEnd
<1>1. N \in Files /\ N \in Nat /\ cursor \in 0 .. N
  BY PoolAssumption DEF Files, IInv, TypeOK
<1>2. worker[N] = "done" /\ N \in result
  BY <1>1 DEF IInv, ResultsReadAfterwards
<1>3. N <= cursor
  BY <1>1, <1>2 DEF CursorInv
<1> QED BY <1>1, <1>3

\* When the last worker is done the cursor is at the last file, unless the run
\* was cancelled (advance, prefetcher.run).
THEOREM CursorIsAtTheEnd == Spec => []CursorReachesEnd
BY AtTheEnd, Inductive, CursorInductive, PTL

-----------------------------------------------------------------------------
(* Nobody waits for ever: the safety half of StageReturns.                 *)

\* As long as the stage has not returned somebody can go on: the loop, a
\* worker, the monitor that owes a broadcast, or the prefetcher that the
\* deferred pf.stop waits for.
NeverStuck ==
  feeder # "returned" =>
    \/ feeder = "loop" /\ (next <= N \/ \A i \in Files : worker[i] = "done")
    \/ \E i \in Files : worker[i] \notin {"none", "done"}
    \/ monitor = "broadcast"
    \/ feeder = "collect" /\ prefetcher = "stopped"
    \/ prefetcher = "running" /\ (cancelled \/ prefetched >= N \/ prefetched < target)

LEMMA SomebodyGoesOn == IInv /\ CursorInv => NeverStuck
<1> SUFFICES ASSUME IInv, CursorInv, feeder # "returned" PROVE NeverStuck
  BY DEF NeverStuck
<1>1. TypeOK /\ Started /\ SleeperIsWoken
  BY DEF IInv
<1>2. N \in Nat /\ Lookahead \in Nat \ {0} /\ next \in 1 .. N + 1 /\ prefetched \in 0 .. N
  BY <1>1, PoolAssumption DEF TypeOK
<1>3. CASE feeder = "loop"
  <2>1. CASE next <= N
    BY <1>3, <2>1 DEF NeverStuck
  <2>2. CASE next = N + 1
    <3>1. \A i \in Files : worker[i] # "none"
      BY <1>1, <1>2, <2>2 DEF Started, Files
    <3> QED BY <1>3, <3>1 DEF NeverStuck
  <2> QED BY <1>2, <2>1, <2>2
<1>4. CASE feeder = "asleep"
  <2>1. CASE Holding # {}
    BY <2>1 DEF NeverStuck, Holding
  <2>2. CASE monitor = "broadcast" \/ \E i \in Files : worker[i] = "signal"
    BY <2>2 DEF NeverStuck
  <2> QED BY <1>1, <1>4, <2>1, <2>2 DEF SleeperIsWoken
<1>5. CASE feeder = "collect"
  <2>1. cancelled \/ target = N
    BY <1>2, <1>5, AtTheEnd DEF CursorReachesEnd, target, Least
  <2> QED BY <1>1, <1>2, <1>5, <2>1 DEF NeverStuck, TypeOK
<1> QED BY <1>1, <1>3, <1>4, <1>5 DEF TypeOK

\* In every reachable state somebody can go on until the stage has returned:
\* no lost wake-up, no slot that is not given back and no prefetcher that
\* waits for a cursor nobody moves any more (passDefinitions).
THEOREM StageNeverStuck == Spec => []NeverStuck
BY SomebodyGoesOn, Inductive, CursorInductive, PTL

=============================================================================
