--------------------------- MODULE LimiterProofs ---------------------------
(***************************************************************************)
(* Proofs about RestartOperator and RecoveryWebhook: each keeps, of its    *)
(* own bookkeeping, exactly the grants of the last window, and so is the   *)
(* rate limiter of RateLimiter; their states are well formed; and what the *)
(* operator deletes within an hour follows from what it grants.            *)
(***************************************************************************)
EXTENDS RestartOperator, RecoveryWebhook, FiniteSetTheorems, TLAPS

-----------------------------------------------------------------------------
(***************************************************************************)
(* The operator                                                            *)
(***************************************************************************)

\* The list allowed counts is, up to what has expired, the grants of the last
\* hour; and no grant is younger than lastGlobal.
RecordsInv ==
  /\ events \in [restartKey -> SUBSET (0..Hour)]
  /\ sinceGlobal \in 0..Cooldown
  /\ granted \in [restartKey -> SUBSET (0..(Hour - 1))]
  /\ \A k \in restartKey : granted[k] = Recent(k)
  /\ \A k \in restartKey : \A a \in granted[k] : sinceGlobal <= a

\* The events allowed counts are finite in number.
LEMMA RecentFinite ==
  ASSUME RecordsInv, NEW k \in restartKey
  PROVE  /\ IsFiniteSet(granted[k])
         /\ Cardinality(Recent(k)) \in Nat
<1>1. IsFiniteSet(0..(Hour - 1))
  BY FS_Interval, OperatorAssumption
<1>2. granted[k] \subseteq 0..(Hour - 1)
  BY DEF RecordsInv
<1>3. IsFiniteSet(granted[k])
  BY <1>1, <1>2, FS_Subset
<1> QED
  BY <1>3, FS_CardinalityType DEF RecordsInv

\* A tick ages the records and the history alike.
LEMMA TickKeepsRecords ==
  ASSUME RecordsInv, OpTick
  PROVE  RecordsInv'
<1>1. events' \in [restartKey -> SUBSET (0..Hour)]
  BY OperatorAssumption DEF RecordsInv, OpTick, Older, Aged
<1>2. sinceGlobal' \in 0..Cooldown
  BY OperatorAssumption DEF RecordsInv, OpTick, Aged
<1>3. granted' \in [restartKey -> SUBSET (0..(Hour - 1))]
  BY OperatorAssumption DEF RecordsInv, OpTick
<1>4. ASSUME NEW k \in restartKey
      PROVE  granted'[k] = Recent(k)'
  <2>1. granted'[k] = {a \in 1..(Hour - 1) : a - 1 \in granted[k]}
    BY DEF OpTick
  <2>2. Recent(k)' = {a \in Older(events[k], Hour) : a < Hour}
    BY DEF OpTick, Recent
  <2>3. granted[k] = {a \in events[k] : a < Hour} /\ events[k] \subseteq 0..Hour
    BY DEF RecordsInv, Recent
  <2>4. ASSUME NEW a \in granted'[k]
        PROVE  a \in Recent(k)'
    BY <2>1, <2>2, <2>3, OperatorAssumption DEF Older, Aged
  <2>5. ASSUME NEW a \in Recent(k)'
        PROVE  a \in granted'[k]
    <3>1. a \in Older(events[k], Hour) /\ a < Hour
      BY <2>2, <2>5
    <3>2. PICK b \in events[k] : a = IF b < Hour THEN b + 1 ELSE Hour
      BY <3>1 DEF Older, Aged
    <3>3. b \in 0..Hour /\ b < Hour /\ a = b + 1
      BY <3>1, <3>2, <2>3, OperatorAssumption
    <3> QED
      BY <3>1, <3>3, <2>1, <2>3, OperatorAssumption
  <2> QED
    BY <2>4, <2>5
<1>5. ASSUME NEW k \in restartKey, NEW a \in granted'[k]
      PROVE  sinceGlobal' <= a
  <2>1. a \in 1..(Hour - 1) /\ a - 1 \in granted[k]
    BY <1>5 DEF OpTick
  <2>2. sinceGlobal <= a - 1
    BY <2>1 DEF RecordsInv
  <2> QED
    BY <2>1, <2>2, OperatorAssumption DEF RecordsInv, OpTick, Aged
<1> QED
  BY <1>1, <1>2, <1>3, <1>4, <1>5 DEF RecordsInv

\* A grant enters the records and the history alike.
LEMMA GrantKeepsRecords ==
  ASSUME RecordsInv, Grant
  PROVE  RecordsInv'
<1> DEFINE h == Head(results)
<1>1. /\ h \in restartKey
      /\ events' = [events EXCEPT ![h] = Recent(h) \cup {0}]
      /\ sinceGlobal' = 0
      /\ granted' = [granted EXCEPT ![h] = @ \cup {0}]
  BY DEF Grant, allowed
<1> HIDE DEF h
<1>2. events' \in [restartKey -> SUBSET (0..Hour)]
  BY <1>1, OperatorAssumption DEF RecordsInv, Recent
<1>3. granted' \in [restartKey -> SUBSET (0..(Hour - 1))]
  BY <1>1, OperatorAssumption DEF RecordsInv
<1>4. ASSUME NEW k \in restartKey
      PROVE  granted'[k] = Recent(k)'
  <2>1. CASE k = h
    <3>1. granted'[k] = granted[k] \cup {0} /\ events'[k] = Recent(k) \cup {0}
      BY <1>1, <2>1 DEF RecordsInv
    <3>2. granted[k] = Recent(k)
      BY DEF RecordsInv
    <3> QED
      BY <3>1, <3>2, OperatorAssumption DEF Recent
  <2>2. CASE k # h
    BY <1>1, <2>2 DEF RecordsInv, Recent
  <2> QED
    BY <2>1, <2>2
<1>5. ASSUME NEW k \in restartKey, NEW a \in granted'[k]
      PROVE  sinceGlobal' <= a
  BY <1>1, <1>3, OperatorAssumption
<1> QED
  BY <1>1, <1>2, <1>3, <1>4, <1>5, OperatorAssumption DEF RecordsInv

\* Every other step leaves records and history alone, or clears both.
LEMMA RecordsInductive ==
  ASSUME RecordsInv, [OpNext]_opVars
  PROVE  RecordsInv'
<1>1. CASE OpTick
  BY <1>1, TickKeepsRecords
<1>2. CASE Grant
  BY <1>2, GrantKeepsRecords
<1>3. CASE OperatorRestart
  BY <1>3, OperatorAssumption DEF OperatorRestart, RecordsInv, Recent
<1>4. ASSUME UNCHANGED <<events, sinceGlobal, granted>>
      PROVE  RecordsInv'
  BY <1>4 DEF RecordsInv, Recent
<1>5. CASE OpStep /\ ~Grant
  <2>1. UNCHANGED <<events, sinceGlobal, granted>>
    BY <1>5 DEF OpStep, Poll, QueryFails, QueryReturns, LoopEnds, Skip,
                FindFails, FindPod, DryRun, DeleteFails, DeletePod,
                records, history
  <2> QED
    BY <2>1, <1>4
<1>6. CASE Kubernetes
  <2>1. UNCHANGED <<events, sinceGlobal, granted>>
    BY <1>6 DEF Kubernetes, PodDeleted, PodGone, PodCreated, records, history
  <2> QED
    BY <2>1, <1>4
<1>7. CASE UNCHANGED opVars
  BY <1>7, <1>4 DEF opVars, records, history
<1> QED
  BY <1>1, <1>2, <1>3, <1>5, <1>6, <1>7 DEF OpNext

\* The records of restartRecord are in step with what was granted.
THEOREM RecordsInvariant == OpSpec => []RecordsInv
<1>1. OpInit => RecordsInv
  BY OperatorAssumption DEF OpInit, RecordsInv, Recent
<1>2. RecordsInv /\ [OpNext]_opVars => RecordsInv'
  BY RecordsInductive
<1> QED
  BY <1>1, <1>2, PTL DEF OpSpec

\* allowed is a rate limiter, for every set of nodes and collectors, every
\* limit and every choice of cooldown, hour and poll interval: no key is
\* granted more than MaxPerHour restarts within an hour.
THEOREM OperatorIsLimiter == OpSpec => RestartLimit
<1>1. OpInit => Limiter!Init
  BY DEF OpInit, Limiter!Init
<1>2. ASSUME RecordsInv, [OpNext]_opVars
      PROVE  [Limiter!Next]_granted
  <2>1. CASE OpTick
    BY <2>1 DEF OpTick, Limiter!Next, Limiter!Elapse
  <2>2. CASE Grant
    <3> DEFINE h == Head(results)
    <3>1. /\ h \in restartKey
          /\ granted' = [granted EXCEPT ![h] = @ \cup {0}]
          /\ ~(sinceGlobal < Cooldown)
          /\ ~(Cardinality(Recent(h)) >= MaxPerHour)
      BY <2>2 DEF Grant, allowed, InCooldown, AtLimit
    <3> HIDE DEF h
    <3>2. Cardinality(Recent(h)) \in Nat /\ granted[h] = Recent(h)
      BY <1>2, <3>1, RecentFinite DEF RecordsInv
    <3>3. Cardinality(granted[h]) < MaxPerHour
      BY <3>1, <3>2, OperatorAssumption
    <3>4. 0 \notin granted[h]
      BY <1>2, <3>1, OperatorAssumption DEF RecordsInv
    <3> QED
      <4>1. Limiter!Cardinality(granted[h]) = Cardinality(granted[h])
        BY Zenon DEF Limiter!Cardinality, Cardinality
      <4> QED
        BY <4>1, <3>1, <3>3, <3>4 DEF Limiter!Next, Limiter!Grant
  <2>3. CASE OperatorRestart
    BY <2>3 DEF OperatorRestart, Limiter!Next, Limiter!Restart
  <2>4. CASE OpStep /\ ~Grant
    BY <2>4 DEF OpStep, Poll, QueryFails, QueryReturns, LoopEnds, Skip,
                FindFails, FindPod, DryRun, DeleteFails, DeletePod, history
  <2>5. CASE Kubernetes
    BY <2>5 DEF Kubernetes, PodDeleted, PodGone, PodCreated, history
  <2>6. CASE UNCHANGED opVars
    BY <2>6 DEF opVars, history
  <2> QED
    BY <1>2, <2>1, <2>2, <2>3, <2>4, <2>5, <2>6 DEF OpNext
<1> QED
  BY <1>1, <1>2, RecordsInvariant, PTL DEF OpSpec, RestartLimit, Limiter!Spec

-----------------------------------------------------------------------------
(***************************************************************************)
(* The operator's state, and what an hour sees of its deletions            *)
(***************************************************************************)

\* A tick makes no list of events longer.
LEMMA OlderCardinality ==
  ASSUME NEW ages \in SUBSET (0..Hour)
  PROVE  /\ IsFiniteSet(ages) /\ Cardinality(ages) \in Nat
         /\ Older(ages, Hour) \in SUBSET (0..Hour)
         /\ Cardinality(Older(ages, Hour)) <= Cardinality(ages)
<1>1. IsFiniteSet(ages)
  <2>1. IsFiniteSet(0..Hour)
    BY FS_Interval, OperatorAssumption
  <2> QED
    BY <2>1, FS_Subset
<1> DEFINE f == [a \in ages |-> Aged(a, Hour)]
           old == Older(ages, Hour)
<1>2. f \in Surjection(ages, old)
  <2>1. f \in [ages -> old]
    BY DEF Older
  <2>2. \A t \in old : \E a \in ages : f[a] = t
    BY DEF Older
  <2> QED
    BY <2>1, <2>2 DEF Surjection
<1>3. Cardinality(old) <= Cardinality(ages)
  <2> HIDE DEF f, old
  <2> QED
    BY <1>1, <1>2, FS_Surjection
<1>4. old \in SUBSET (0..Hour)
  BY OperatorAssumption DEF Older, Aged
<1> QED
  BY <1>1, <1>3, <1>4, FS_CardinalityType

\* What allowed keeps of a list that is below the limit, and adds to it.
LEMMA GrantCardinality ==
  ASSUME OpTypeOK, NEW k \in restartKey, ~AtLimit(k)
  PROVE  /\ Recent(k) \cup {0} \in SUBSET (0..Hour)
         /\ Cardinality(Recent(k) \cup {0}) <= MaxPerHour
<1>1. IsFiniteSet(events[k]) /\ Recent(k) \subseteq events[k]
  BY OlderCardinality DEF OpTypeOK, Recent
<1>2. IsFiniteSet(Recent(k)) /\ Cardinality(Recent(k)) \in Nat
  BY <1>1, FS_Subset, FS_CardinalityType
<1>3. Cardinality(Recent(k)) < MaxPerHour
  BY <1>2, OperatorAssumption DEF AtLimit
<1>4. \/ Cardinality(Recent(k) \cup {0}) = Cardinality(Recent(k))
      \/ Cardinality(Recent(k) \cup {0}) = Cardinality(Recent(k)) + 1
  BY <1>2, FS_AddElement
<1>5. Recent(k) \cup {0} \in SUBSET (0..Hour)
  BY OperatorAssumption DEF OpTypeOK, Recent
<1> QED
  BY <1>2, <1>3, <1>4, <1>5, OperatorAssumption

\* A tick keeps the types.
LEMMA TickKeepsTypes ==
  ASSUME OpTypeOK, OpTick
  PROVE  OpTypeOK'
<1>1. /\ events' \in [restartKey -> SUBSET (0..Hour)]
      /\ \A k \in restartKey : Cardinality(events'[k]) <= MaxPerHour
  <2>1. events' = [k \in restartKey |-> Older(events[k], Hour)]
    BY DEF OpTick
  <2>2. ASSUME NEW k \in restartKey
        PROVE  /\ Older(events[k], Hour) \in SUBSET (0..Hour)
               /\ Cardinality(Older(events[k], Hour)) <= MaxPerHour
    <3>1. events[k] \in SUBSET (0..Hour) /\ Cardinality(events[k]) <= MaxPerHour
      BY DEF OpTypeOK
    <3>2. /\ Cardinality(events[k]) \in Nat
          /\ Older(events[k], Hour) \in SUBSET (0..Hour)
          /\ IsFiniteSet(Older(events[k], Hour))
          /\ Cardinality(Older(events[k], Hour)) \in Nat
          /\ Cardinality(Older(events[k], Hour)) <= Cardinality(events[k])
      BY <3>1, OlderCardinality
    <3> QED
      BY <3>1, <3>2, OperatorAssumption
  <2> QED
    BY <2>1, <2>2
<1>2. sinceGlobal' \in 0..Cooldown /\ pending' \in 0..Hour
  BY OperatorAssumption DEF OpTypeOK, OpTick, Aged
<1>3. timer' \in 0..(PollInterval - 1)
  BY OperatorAssumption DEF OpTypeOK, OpTick
<1>4. tickC' \in BOOLEAN
  BY DEF OpTypeOK, OpTick
<1>5. granted' \in [restartKey -> SUBSET (0..(Hour - 1))]
  BY OperatorAssumption DEF OpTypeOK, OpTick
<1>6. restarted' \in [restartKey -> SUBSET ((0..Hour) \X (0..(Hour - 1)))]
  <2>1. restarted' = [k \in restartKey |-> StillRecent(restarted[k], Hour)]
    BY DEF OpTick
  <2>2. ASSUME NEW k \in restartKey
        PROVE  StillRecent(restarted[k], Hour) \subseteq (0..Hour) \X (0..(Hour - 1))
    <3>1. ASSUME NEW d \in restarted[k], d[2] + 1 < Hour
          PROVE  Aged(d[1], Hour) \in 0..Hour /\ d[2] + 1 \in 0..(Hour - 1)
      BY <3>1, OperatorAssumption DEF OpTypeOK, Aged
    <3> QED
      BY <3>1 DEF StillRecent
  <2> QED
    BY <2>1, <2>2
<1>7. UNCHANGED <<pc, results, podName, dryRun, pods>>
  BY DEF OpTick
<1> QED
  BY <1>1, <1>2, <1>3, <1>4, <1>5, <1>6, <1>7 DEF OpTypeOK

\* Going on with the next series keeps the types.
LEMMA NextSeriesTypes ==
  ASSUME OpTypeOK, NextSeries, results # <<>>
  PROVE  /\ results' \in Seq(Series) /\ pc' = "loop"
         /\ podName' = "none" /\ pending' \in 0..Hour
BY OperatorAssumption DEF NextSeries, OpTypeOK

\* So does a step of the loop.
LEMMA StepKeepsTypes ==
  ASSUME OpTypeOK, OpStep
  PROVE  OpTypeOK'
<1>1. CASE Poll
  BY <1>1 DEF Poll, OpTypeOK, records, history
<1>2. CASE QueryFails
  BY <1>2 DEF QueryFails, OpTypeOK, records, history
<1>3. CASE QueryReturns
  <2>1. results' \in Seq(Series)
    BY <1>3 DEF QueryReturns, Responses
  <2> QED
    BY <1>3, <2>1 DEF QueryReturns, OpTypeOK, records, history
<1>4. CASE LoopEnds
  BY <1>4 DEF LoopEnds, OpTypeOK, records, history
<1>5. CASE Skip \/ FindFails \/ DryRun \/ DeleteFails
  <2>1. NextSeries /\ results # <<>>
    BY <1>5 DEF Skip, FindFails, DryRun, DeleteFails, OpTypeOK
  <2>2. UNCHANGED <<events, sinceGlobal, timer, tickC, dryRun, pods, granted, restarted>>
    BY <1>5 DEF Skip, FindFails, DryRun, DeleteFails, records
  <2> QED
    BY <2>1, <2>2, NextSeriesTypes DEF OpTypeOK
<1>6. CASE Grant
  <2> DEFINE h == Head(results)
  <2>1. /\ h \in restartKey /\ ~AtLimit(h)
        /\ events' = [events EXCEPT ![h] = Recent(h) \cup {0}]
        /\ sinceGlobal' = 0 /\ pc' = "find" /\ pending' = 0
        /\ granted' = [granted EXCEPT ![h] = @ \cup {0}]
        /\ results # <<>> /\ results' = results
        /\ UNCHANGED <<timer, tickC, podName, dryRun, pods, restarted>>
    BY <1>6 DEF Grant, allowed
  <2>2. Head(results') \in restartKey
    BY <2>1
  <2> HIDE DEF h
  <2>3. /\ Recent(h) \cup {0} \in SUBSET (0..Hour)
        /\ Cardinality(Recent(h) \cup {0}) <= MaxPerHour
    BY <2>1, GrantCardinality
  <2>4. /\ events' \in [restartKey -> SUBSET (0..Hour)]
        /\ \A k \in restartKey : Cardinality(events'[k]) <= MaxPerHour
    BY <2>1, <2>3 DEF OpTypeOK
  <2>5. granted' \in [restartKey -> SUBSET (0..(Hour - 1))]
    BY <2>1, OperatorAssumption DEF OpTypeOK
  <2>6. sinceGlobal' \in 0..Cooldown /\ pending' \in 0..Hour
    BY <2>1, OperatorAssumption
  <2>7. UNCHANGED <<timer, tickC, results, podName, dryRun, pods, restarted>>
    BY <2>1
  <2>8. pc' \in {"select", "query", "loop", "find", "delete"} /\ results' # <<>>
    BY <2>1
  <2> QED
    BY <2>2, <2>4, <2>5, <2>6, <2>7, <2>8 DEF OpTypeOK
<1>7. CASE FindPod
  BY <1>7 DEF FindPod, OpTypeOK, records, history
<1>8. CASE DeletePod
  <2>1. /\ NextSeries /\ results # <<>>
        /\ UNCHANGED <<events, sinceGlobal, timer, tickC, dryRun, granted>>
    BY <1>8 DEF DeletePod, OpTypeOK, records
  <2>2. pods' \in [Node -> {"running", "terminating", "absent"}]
    BY <1>8 DEF DeletePod, OpTypeOK
  <2>3. restarted' \in [restartKey -> SUBSET ((0..Hour) \X (0..(Hour - 1)))]
    <3>1. <<pending, 0>> \in (0..Hour) \X (0..(Hour - 1))
      BY OperatorAssumption DEF OpTypeOK
    <3> QED
      BY <1>8, <3>1 DEF DeletePod, OpTypeOK
  <2> QED
    BY <2>1, <2>2, <2>3, NextSeriesTypes DEF OpTypeOK
<1> QED
  BY <1>1, <1>2, <1>3, <1>4, <1>5, <1>6, <1>7, <1>8 DEF OpStep

\* Every variable of the operator has its type, and no list of events is
\* longer than the limit, for every limit and every choice of the times.
THEOREM OperatorTypes == OpSpec => []OpTypeOK
<1>1. OpInit => OpTypeOK
  <2> SUFFICES ASSUME OpInit PROVE OpTypeOK
    OBVIOUS
  <2>1. Cardinality({}) <= MaxPerHour
    BY FS_EmptySet, OperatorAssumption
  <2>2. /\ events \in [restartKey -> SUBSET (0..Hour)]
        /\ \A k \in restartKey : Cardinality(events[k]) <= MaxPerHour
    BY <2>1 DEF OpInit
  <2>3. /\ sinceGlobal \in 0..Cooldown /\ timer \in 0..(PollInterval - 1)
        /\ pending \in 0..Hour
    BY OperatorAssumption DEF OpInit
  <2>4. pc = "select" /\ results \in Seq(Series)
    BY DEF OpInit
  <2>5. /\ granted \in [restartKey -> SUBSET (0..(Hour - 1))]
        /\ restarted \in [restartKey -> SUBSET ((0..Hour) \X (0..(Hour - 1)))]
        /\ pods \in [Node -> {"running", "terminating", "absent"}]
    BY DEF OpInit
  <2> QED
    BY <2>2, <2>3, <2>4, <2>5 DEF OpInit, OpTypeOK
<1>2. ASSUME OpTypeOK, [OpNext]_opVars
      PROVE  OpTypeOK'
  <2>1. CASE OpTick
    BY <1>2, <2>1, TickKeepsTypes
  <2>2. CASE OpStep
    BY <1>2, <2>2, StepKeepsTypes
  <2>3. CASE OperatorRestart
    <3>1. Cardinality({}) <= MaxPerHour
      BY FS_EmptySet, OperatorAssumption
    <3>2. /\ events' \in [restartKey -> SUBSET (0..Hour)]
          /\ \A k \in restartKey : Cardinality(events'[k]) <= MaxPerHour
      BY <2>3, <3>1 DEF OperatorRestart
    <3>3. /\ sinceGlobal' \in 0..Cooldown /\ timer' \in 0..(PollInterval - 1)
          /\ pending' \in 0..Hour
      BY <2>3, OperatorAssumption DEF OperatorRestart
    <3>4. pc' = "select" /\ results' \in Seq(Series)
      BY <2>3 DEF OperatorRestart
    <3>5. /\ granted' \in [restartKey -> SUBSET (0..(Hour - 1))]
          /\ restarted' \in [restartKey -> SUBSET ((0..Hour) \X (0..(Hour - 1)))]
      BY <2>3 DEF OperatorRestart
    <3> QED
      BY <1>2, <2>3, <3>2, <3>3, <3>4, <3>5 DEF OperatorRestart, OpTypeOK
  <2>4. CASE Kubernetes
    BY <1>2, <2>4 DEF Kubernetes, PodDeleted, PodGone, PodCreated, OpTypeOK,
                      records, history
  <2>5. CASE UNCHANGED opVars
    BY <1>2, <2>5 DEF opVars, records, history, OpTypeOK
  <2> QED
    BY <1>2, <2>1, <2>2, <2>3, <2>4, <2>5 DEF OpNext
<1> QED
  BY <1>1, <1>2, PTL DEF OpSpec

\* The grant of a deletion was earlier than a grant of age g, and the deletion
\* itself not later: the loop acts on one grant at a time.
Before(d, g) == d[1] > g /\ d[2] >= g

\* Of the deletions of the last hour, those whose grant is as recent belong to
\* a grant the history still has; any two followed one another, grant by
\* grant; and a grant that is being carried out follows all of them.
DeletionInv ==
  /\ \A k \in restartKey : \A d \in restarted[k] :
       d[1] < Hour => d[1] \in granted[k]
  /\ \A k \in restartKey : \A d, e \in restarted[k] :
       d = e \/ Before(d, e[1]) \/ Before(e, d[1])
  /\ pc \in {"find", "delete"} =>
       /\ pending < Hour => pending \in granted[Head(results)]
       /\ \A d \in restarted[Head(results)] : Before(d, pending)

\* The order of a deletion and a grant outlasts a tick.
LEMMA AgedBefore ==
  ASSUME NEW g \in 0..Hour, NEW a \in 0..(Hour - 1), NEW h \in 0..Hour,
         a + 1 < Hour, g > h, a >= h
  PROVE  Aged(g, Hour) > Aged(h, Hour) /\ a + 1 >= Aged(h, Hour)
BY OperatorAssumption DEF Aged

\* A deletion that is still recent after a tick, and what it was before.
LEMMA StillRecentIs ==
  ASSUME OpTypeOK, OpTick, NEW k \in restartKey, NEW d \in restarted'[k]
  PROVE  \E e \in restarted[k] :
           /\ e[1] \in 0..Hour /\ e[2] \in 0..(Hour - 1) /\ e[2] + 1 < Hour
           /\ e = <<e[1], e[2]>>
           /\ d = <<Aged(e[1], Hour), e[2] + 1>>
<1>1. d \in StillRecent(restarted[k], Hour)
  BY DEF OpTick
<1>2. PICK e \in restarted[k] :
        e[2] + 1 < Hour /\ d = <<Aged(e[1], Hour), e[2] + 1>>
  BY <1>1 DEF StillRecent
<1>3. e \in (0..Hour) \X (0..(Hour - 1))
  BY DEF OpTypeOK
<1> QED
  BY <1>2, <1>3

\* A tick keeps the order of deletions and grants.
LEMMA TickKeepsDeletions ==
  ASSUME OpTypeOK, DeletionInv, OpTick
  PROVE  DeletionInv'
<1>1. ASSUME NEW k \in restartKey, NEW d \in restarted'[k], d[1] < Hour
      PROVE  d[1] \in granted'[k]
  <2>1. PICK e \in restarted[k] :
          e[1] \in 0..Hour /\ d = <<Aged(e[1], Hour), e[2] + 1>>
    BY <1>1, StillRecentIs
  <2>2. e[1] < Hour /\ d[1] = e[1] + 1
    BY <1>1, <2>1, OperatorAssumption DEF Aged
  <2>3. e[1] \in granted[k]
    BY <2>2 DEF DeletionInv
  <2>4. granted'[k] = {a \in 1..(Hour - 1) : a - 1 \in granted[k]}
    BY DEF OpTick
  <2> QED
    BY <1>1, <2>1, <2>2, <2>3, <2>4, OperatorAssumption
<1>2. ASSUME NEW k \in restartKey, NEW d \in restarted'[k], NEW e \in restarted'[k]
      PROVE  d = e \/ Before(d, e[1]) \/ Before(e, d[1])
  <2>1. PICK d0 \in restarted[k] :
          /\ d0[1] \in 0..Hour /\ d0[2] \in 0..(Hour - 1) /\ d0[2] + 1 < Hour
          /\ d = <<Aged(d0[1], Hour), d0[2] + 1>>
    BY StillRecentIs
  <2>2. PICK e0 \in restarted[k] :
          /\ e0[1] \in 0..Hour /\ e0[2] \in 0..(Hour - 1) /\ e0[2] + 1 < Hour
          /\ e = <<Aged(e0[1], Hour), e0[2] + 1>>
    BY StillRecentIs
  <2>3. d0 = e0 \/ Before(d0, e0[1]) \/ Before(e0, d0[1])
    BY DEF DeletionInv
  <2>4. CASE d0 = e0
    BY <2>1, <2>2, <2>4
  <2>5. CASE Before(d0, e0[1])
    BY <2>1, <2>2, <2>5, AgedBefore DEF Before
  <2>6. CASE Before(e0, d0[1])
    BY <2>1, <2>2, <2>6, AgedBefore DEF Before
  <2> QED
    BY <2>3, <2>4, <2>5, <2>6
<1>3. ASSUME pc' \in {"find", "delete"}
      PROVE  /\ pending' < Hour => pending' \in granted'[Head(results')]
             /\ \A d \in restarted'[Head(results')] : Before(d, pending')
  <2> DEFINE h == Head(results)
  <2>1. /\ h \in restartKey /\ Head(results') = h
        /\ pending' = Aged(pending, Hour) /\ pending \in 0..Hour
        /\ pending < Hour => pending \in granted[h]
        /\ \A d \in restarted[h] : Before(d, pending)
    BY <1>3 DEF OpTick, DeletionInv, OpTypeOK
  <2>2. granted' = [k \in restartKey |-> {a \in 1..(Hour - 1) : a - 1 \in granted[k]}]
    BY DEF OpTick
  <2> HIDE DEF h
  <2>3. pending' < Hour => pending' \in granted'[h]
    BY <2>1, <2>2, OperatorAssumption DEF Aged
  <2>4. ASSUME NEW d \in restarted'[h]
        PROVE  Before(d, pending')
    <3>1. PICK e \in restarted[h] :
            /\ e[1] \in 0..Hour /\ e[2] \in 0..(Hour - 1) /\ e[2] + 1 < Hour
            /\ d = <<Aged(e[1], Hour), e[2] + 1>>
      BY <2>1, StillRecentIs
    <3>2. e[1] > pending /\ e[2] >= pending
      BY <2>1 DEF Before
    <3> QED
      BY <2>1, <3>1, <3>2, AgedBefore DEF Before
  <2> QED
    BY <2>1, <2>3, <2>4
<1> QED
  BY <1>1, <1>2, <1>3 DEF DeletionInv

\* A new grant follows every deletion: the cooldown has passed.
LEMMA GrantKeepsDeletions ==
  ASSUME OpTypeOK, RecordsInv, DeletionInv, Grant
  PROVE  DeletionInv'
<1> DEFINE h == Head(results)
<1>1. /\ h \in restartKey /\ ~(sinceGlobal < Cooldown)
      /\ granted' = [granted EXCEPT ![h] = @ \cup {0}]
      /\ pending' = 0 /\ pc' = "find"
      /\ Head(results') = h /\ restarted' = restarted
  BY DEF Grant, allowed, InCooldown
<1> HIDE DEF h
<1>2. \A k \in restartKey : granted[k] \subseteq granted'[k]
  BY <1>1 DEF OpTypeOK
<1>3. 0 \in granted'[h]
  BY <1>1 DEF OpTypeOK
<1>4. ASSUME NEW d \in restarted[h]
      PROVE  Before(d, 0)
  <2>1. d[1] \in 0..Hour /\ d[2] \in 0..(Hour - 1)
    BY <1>1 DEF OpTypeOK
  <2>2. d[1] < Hour => sinceGlobal <= d[1]
    BY <1>1 DEF DeletionInv, RecordsInv
  <2> QED
    BY <1>1, <2>1, <2>2, OperatorAssumption DEF Before, OpTypeOK
<1>5. \A k \in restartKey : \A d \in restarted'[k] :
        d[1] < Hour => d[1] \in granted'[k]
  BY <1>1, <1>2 DEF DeletionInv
<1>6. \A k \in restartKey : \A d, e \in restarted'[k] :
        d = e \/ Before(d, e[1]) \/ Before(e, d[1])
  BY <1>1 DEF DeletionInv
<1> QED
  BY <1>1, <1>3, <1>4, <1>5, <1>6 DEF DeletionInv

\* A deletion follows those before it, and its grant is still known unless it
\* was an hour ago.
LEMMA DeleteKeepsDeletions ==
  ASSUME OpTypeOK, DeletionInv, DeletePod
  PROVE  DeletionInv'
<1> DEFINE h == Head(results)
           new == <<pending, 0>>
<1>1. /\ h \in restartKey /\ pc' = "loop" /\ granted' = granted
      /\ restarted' = [restarted EXCEPT ![h] = @ \cup {new}]
      /\ pending < Hour => pending \in granted[h]
      /\ \A d \in restarted[h] : Before(d, pending)
  BY DEF DeletePod, NextSeries, DeletionInv, OpTypeOK
<1>2. new[1] = pending
  OBVIOUS
<1> HIDE DEF h, new
<1>3. ASSUME NEW k \in restartKey
      PROVE  restarted'[k] = IF k = h THEN restarted[h] \cup {new} ELSE restarted[k]
  BY <1>1 DEF OpTypeOK
<1>4. ASSUME NEW k \in restartKey, NEW d \in restarted'[k], d[1] < Hour
      PROVE  d[1] \in granted'[k]
  BY <1>1, <1>2, <1>3, <1>4 DEF DeletionInv
<1>5. ASSUME NEW k \in restartKey, NEW d \in restarted'[k], NEW e \in restarted'[k]
      PROVE  d = e \/ Before(d, e[1]) \/ Before(e, d[1])
  <2>1. CASE k = h
    <3>1. d \in restarted[h] \/ d = new
      BY <1>3, <2>1
    <3>2. e \in restarted[h] \/ e = new
      BY <1>3, <2>1
    <3> QED
      BY <1>1, <1>2, <3>1, <3>2 DEF DeletionInv
  <2>2. CASE k # h
    BY <1>3, <2>2 DEF DeletionInv
  <2> QED
    BY <2>1, <2>2
<1> QED
  BY <1>1, <1>4, <1>5 DEF DeletionInv

\* Every step keeps the order of deletions and grants.
LEMMA DeletionsInductive ==
  ASSUME OpTypeOK, RecordsInv, DeletionInv, [OpNext]_opVars
  PROVE  DeletionInv'
<1>1. CASE OpTick
  BY <1>1, TickKeepsDeletions
<1>2. CASE Grant
  BY <1>2, GrantKeepsDeletions
<1>3. CASE DeletePod
  BY <1>3, DeleteKeepsDeletions
<1>4. CASE OperatorRestart
  BY <1>4 DEF OperatorRestart, DeletionInv
<1>5. CASE Poll \/ QueryFails \/ QueryReturns \/ LoopEnds \/ Skip
             \/ FindFails \/ DryRun \/ DeleteFails
  <2>1. pc' \notin {"find", "delete"} /\ UNCHANGED <<granted, restarted>>
    BY <1>5 DEF Poll, QueryFails, QueryReturns, LoopEnds, Skip, FindFails,
                DryRun, DeleteFails, NextSeries, history
  <2> QED
    BY <2>1 DEF DeletionInv
<1>6. CASE FindPod \/ Kubernetes \/ UNCHANGED opVars
  <2>1. /\ UNCHANGED <<granted, restarted, pending, results>>
        /\ pc' \in {"find", "delete"} => pc \in {"find", "delete"}
    BY <1>6 DEF FindPod, Kubernetes, PodDeleted, PodGone, PodCreated, opVars, history
  <2> QED
    BY <2>1 DEF DeletionInv
<1> QED
  BY <1>1, <1>2, <1>3, <1>4, <1>5, <1>6 DEF OpNext, OpStep

\* Deletions of an hour have different grants, all of them but one within the
\* hour, and those are within the limit.
LEMMA DeletionsCounted ==
  ASSUME OpTypeOK, RecordsInv, DeletionInv
  PROVE  DeletionsBounded
<1> SUFFICES ASSUME NEW k \in restartKey
             PROVE  Cardinality(restarted[k]) <= MaxPerHour + 1
  BY DEF DeletionsBounded
<1> DEFINE grants == granted[k] \cup {Hour}
           f == [d \in restarted[k] |-> d[1]]
<1>1. \A d \in restarted[k] : d[1] \in 0..Hour /\ d[2] \in 0..(Hour - 1)
  BY DEF OpTypeOK
<1>2. f \in [restarted[k] -> grants]
  BY <1>1, OperatorAssumption DEF DeletionInv
<1>3. ASSUME NEW d \in restarted[k], NEW e \in restarted[k], f[d] = f[e]
      PROVE  d = e
  <2>1. d[1] = e[1]
    BY <1>3
  <2>2. d = e \/ d[1] > e[1] \/ e[1] > d[1]
    BY DEF DeletionInv, Before
  <2> QED
    BY <1>1, <2>1, <2>2
<1>4. f \in Injection(restarted[k], grants)
  BY <1>2, <1>3 DEF Injection, IsInjective
<1>5. IsFiniteSet(granted[k]) /\ Cardinality(granted[k]) <= MaxPerHour
  <2>1. IsFiniteSet(events[k]) /\ Cardinality(events[k]) \in Nat
    BY OlderCardinality DEF OpTypeOK
  <2>2. granted[k] \subseteq events[k]
    BY DEF RecordsInv, Recent
  <2>3. IsFiniteSet(granted[k]) /\ Cardinality(granted[k]) <= Cardinality(events[k])
    BY <2>1, <2>2, FS_Subset
  <2>4. Cardinality(granted[k]) \in Nat
    BY <2>3, FS_CardinalityType
  <2> QED
    BY <2>1, <2>3, <2>4, OperatorAssumption DEF OpTypeOK
<1>6. IsFiniteSet(grants) /\ Cardinality(grants) <= MaxPerHour + 1
  BY <1>5, FS_AddElement, FS_CardinalityType, OperatorAssumption
<1> HIDE DEF f, grants
<1>7. /\ IsFiniteSet(restarted[k])
      /\ Cardinality(restarted[k]) <= Cardinality(grants)
  BY <1>4, <1>6, FS_Injection
<1> QED
  BY <1>6, <1>7, FS_CardinalityType, OperatorAssumption

\* For every number of nodes and collectors, every limit, cooldown, hour and
\* poll interval, and whatever Prometheus and the API server do in between: an
\* hour sees at most one deletion more than the limit, although the limit is
\* on grants and a deletion may lag behind its grant without bound.
THEOREM DeletionsAreBounded == OpSpec => []DeletionsBounded
<1>1. OpInit => DeletionInv
  BY DEF OpInit, DeletionInv
<1>2. OpTypeOK /\ RecordsInv /\ DeletionInv /\ [OpNext]_opVars => DeletionInv'
  BY DeletionsInductive
<1>3. OpTypeOK /\ RecordsInv /\ DeletionInv => DeletionsBounded
  BY DeletionsCounted
<1> QED
  BY <1>1, <1>2, <1>3, OperatorTypes, RecordsInvariant, PTL DEF OpSpec

-----------------------------------------------------------------------------
(***************************************************************************)
(* The recovery webhook                                                    *)
(***************************************************************************)

\* _recent holds the one run of the last cooldown, if there was one.
RecentInv ==
  /\ sinceRun \in [Fingerprint -> 0..COOLDOWN_SECONDS]
  /\ ran = [f \in Fingerprint |->
              IF sinceRun[f] < COOLDOWN_SECONDS THEN {sinceRun[f]} ELSE {}]

\* Every step of the server keeps _recent in step with the runs.
LEMMA RecentInductive ==
  ASSUME RecentInv, [WhNext]_whVars
  PROVE  RecentInv'
<1>1. CASE WhTick
  <2>1. sinceRun' \in [Fingerprint -> 0..COOLDOWN_SECONDS]
    BY <1>1, WebhookAssumption DEF RecentInv, WhTick
  <2>2. ASSUME NEW f \in Fingerprint
        PROVE  {a \in 1..(COOLDOWN_SECONDS - 1) : a - 1 \in ran[f]}
                 = IF sinceRun'[f] < COOLDOWN_SECONDS THEN {sinceRun'[f]} ELSE {}
    BY <1>1, WebhookAssumption DEF RecentInv, WhTick
  <2> QED
    BY <1>1, <2>1, <2>2 DEF RecentInv, WhTick
<1>2. CASE RunHandler
  <2> DEFINE h == Head(alerts).fp
  <2>1. /\ h \in Fingerprint
        /\ sinceRun' = [sinceRun EXCEPT ![h] = 0]
        /\ ran' = [ran EXCEPT ![h] = @ \cup {0}]
        /\ ~(sinceRun[h] < COOLDOWN_SECONDS)
    BY <1>2, WebhookAssumption DEF RunHandler, _allowed, Suppressed
  <2> HIDE DEF h
  <2>2. ran[h] = {}
    BY <2>1 DEF RecentInv
  <2>3. sinceRun' \in [Fingerprint -> 0..COOLDOWN_SECONDS]
    BY <2>1, WebhookAssumption DEF RecentInv
  <2>4. ASSUME NEW f \in Fingerprint
        PROVE  ran'[f] = IF sinceRun'[f] < COOLDOWN_SECONDS
                           THEN {sinceRun'[f]} ELSE {}
    <3>1. CASE f = h
      BY <2>1, <2>2, <3>1, WebhookAssumption DEF RecentInv
    <3>2. CASE f # h
      BY <2>1, <3>2 DEF RecentInv
    <3> QED
      BY <3>1, <3>2
  <2>5. ran' = [f \in Fingerprint |-> ran'[f]]
    BY <2>1 DEF RecentInv
  <2> QED
    BY <2>3, <2>4, <2>5 DEF RecentInv
<1>3. CASE WebhookRestart
  BY <1>3, WebhookAssumption DEF WebhookRestart, RecentInv
<1>4. CASE UNCHANGED <<sinceRun, ran>>
  BY <1>4 DEF RecentInv
<1> QED
  BY <1>1, <1>2, <1>3, <1>4
     DEF WhNext, Serve, Accept, PassOver, HandlerKilled, Respond, HandlerExits,
         Deliver, whVars

\* _allowed is a rate limiter with a limit of one, for every cooldown, every
\* timeout, any number of alerts and requests delivered any number of times.
THEOREM WebhookIsLimiter == WhSpec => HandlerLimit
<1>1. WhInit => RecentInv /\ Cooldowns!Init
  BY WebhookAssumption DEF WhInit, RecentInv, Cooldowns!Init
<1>2. RecentInv /\ [WhNext]_whVars => RecentInv'
  BY RecentInductive
<1>3. ASSUME RecentInv, [WhNext]_whVars
      PROVE  [Cooldowns!Next]_ran
  <2>1. CASE WhTick
    BY <2>1 DEF WhTick, Cooldowns!Next, Cooldowns!Elapse
  <2>2. CASE RunHandler
    <3> DEFINE h == Head(alerts).fp
    <3>1. /\ h \in Fingerprint
          /\ ran' = [ran EXCEPT ![h] = @ \cup {0}]
          /\ ~(sinceRun[h] < COOLDOWN_SECONDS)
      BY <2>2, WebhookAssumption DEF RunHandler, _allowed, Suppressed
    <3> HIDE DEF h
    <3>2. ran[h] = {}
      BY <1>3, <3>1 DEF RecentInv
    <3>3. Cardinality(ran[h]) < 1 /\ 0 \notin ran[h]
      BY <3>2, FS_EmptySet
    <3> QED
      <4>1. Cooldowns!Cardinality(ran[h]) = Cardinality(ran[h])
        BY Zenon DEF Cooldowns!Cardinality, Cardinality
      <4> QED
        BY <4>1, <3>1, <3>3 DEF Cooldowns!Next, Cooldowns!Grant
  <2>3. CASE WebhookRestart
    BY <2>3 DEF WebhookRestart, Cooldowns!Next, Cooldowns!Restart
  <2>4. CASE UNCHANGED ran
    BY <2>4
  <2> QED
    BY <1>3, <2>1, <2>2, <2>3, <2>4
       DEF WhNext, Serve, Accept, PassOver, HandlerKilled, Respond,
           HandlerExits, Deliver, whVars
<1> QED
  BY <1>1, <1>2, <1>3, PTL DEF WhSpec, HandlerLimit, Cooldowns!Spec
\* A request is a sequence of alerts.
LEMMA RequestIsSeq == Request \subseteq Seq(Alert)
BY DEF Request

\* Every step of the server keeps the types; a script is killed before it
\* outlives its timeout, and only those that were looked up are run.
LEMMA WebhookTypesInductive ==
  ASSUME WhTypeOK, [WhNext]_whVars
  PROVE  WhTypeOK'
<1>1. CASE WhTick
  <2>1. sinceRun' \in [Fingerprint -> 0..COOLDOWN_SECONDS]
    BY <1>1, WebhookAssumption DEF WhTypeOK, WhTick
  <2>2. ran' \in [Fingerprint -> SUBSET (0..(COOLDOWN_SECONDS - 1))]
    BY <1>1, WebhookAssumption DEF WhTypeOK, WhTick
  <2>3. ASSUME handler' # <<>>
        PROVE  handler' \in Handled \X (0..HandlerTimeout)
    <3>1. /\ handler # <<>> /\ handler[2] < HandlerTimeout
          /\ handler' = <<handler[1], handler[2] + 1>>
      BY <1>1, <2>3 DEF WhTick
    <3>2. handler \in Handled \X (0..HandlerTimeout)
      BY <3>1 DEF WhTypeOK
    <3> QED
      BY <3>1, <3>2, WebhookAssumption
  <2>4. UNCHANGED <<backlog, serving, alerts>>
    BY <1>1 DEF WhTick
  <2> QED
    BY <2>1, <2>2, <2>3, <2>4 DEF WhTypeOK
<1>2. CASE Accept
  <2>1. Head(backlog) \in Request /\ Tail(backlog) \in Seq(Request)
        /\ Len(Tail(backlog)) <= MaxBacklog
    BY <1>2, WebhookAssumption DEF Accept, WhTypeOK
  <2> QED
    BY <1>2, <2>1, RequestIsSeq DEF Accept, WhTypeOK
<1>3. CASE PassOver
  BY <1>3 DEF PassOver, WhTypeOK
<1>4. CASE RunHandler
  <2> DEFINE h == Head(alerts).fp
  <2>1. /\ h \in Handled /\ h \in Fingerprint /\ alerts # <<>>
        /\ sinceRun' = [sinceRun EXCEPT ![h] = 0]
        /\ handler' = <<h, 0>> /\ alerts' = Tail(alerts)
        /\ ran' = [ran EXCEPT ![h] = @ \cup {0}]
        /\ UNCHANGED <<backlog, serving>>
    BY <1>4, WebhookAssumption DEF RunHandler, _allowed
  <2> HIDE DEF h
  <2>2. handler' \in Handled \X (0..HandlerTimeout)
    BY <2>1, WebhookAssumption
  <2>3. sinceRun' \in [Fingerprint -> 0..COOLDOWN_SECONDS]
    BY <2>1, WebhookAssumption DEF WhTypeOK
  <2>4. ran' \in [Fingerprint -> SUBSET (0..(COOLDOWN_SECONDS - 1))]
    BY <2>1, WebhookAssumption DEF WhTypeOK
  <2>5. alerts' \in Seq(Alert)
    BY <2>1 DEF WhTypeOK
  <2> QED
    BY <2>1, <2>2, <2>3, <2>4, <2>5 DEF WhTypeOK
<1>5. CASE HandlerKilled \/ HandlerExits
  BY <1>5 DEF HandlerKilled, HandlerExits, WhTypeOK
<1>6. CASE Respond
  BY <1>6 DEF Respond, WhTypeOK
<1>7. CASE WebhookRestart
  <2>1. backlog' \in Seq(Request) /\ Len(backlog') <= MaxBacklog
    BY <1>7, WebhookAssumption DEF WebhookRestart
  <2>2. alerts' = <<>> /\ serving' \in BOOLEAN /\ handler' = <<>>
    BY <1>7, Zenon DEF WebhookRestart
  <2>3. <<>> \in Seq(Alert)
    OBVIOUS
  <2>4. /\ sinceRun' \in [Fingerprint -> 0..COOLDOWN_SECONDS]
        /\ ran' \in [Fingerprint -> SUBSET (0..(COOLDOWN_SECONDS - 1))]
    BY <1>7, WebhookAssumption DEF WebhookRestart
  <2> QED
    BY <2>1, <2>2, <2>3, <2>4 DEF WhTypeOK
<1>8. ASSUME NEW r \in Request, Deliver(r)
      PROVE  WhTypeOK'
  <2>1. Append(backlog, r) \in Seq(Request) /\ Len(Append(backlog, r)) <= MaxBacklog
    BY <1>8, WebhookAssumption DEF Deliver, WhTypeOK
  <2> QED
    BY <1>8, <2>1 DEF Deliver, WhTypeOK
<1>9. CASE UNCHANGED whVars
  BY <1>9 DEF whVars, WhTypeOK
<1> QED
  BY <1>1, <1>2, <1>3, <1>4, <1>5, <1>6, <1>7, <1>8, <1>9 DEF WhNext, Serve

\* Every variable of the server has its type, and no script outlives its
\* timeout, whatever requests are delivered and however long the scripts hang.
THEOREM WebhookTypes == WhSpec => []WhTypeOK
<1>1. ASSUME WhInit
      PROVE  WhTypeOK
  <2>1. backlog \in Seq(Request) /\ Len(backlog) <= MaxBacklog
    BY <1>1, WebhookAssumption DEF WhInit
  <2>2. alerts = <<>> /\ serving \in BOOLEAN /\ handler = <<>>
    BY <1>1, Zenon DEF WhInit
  <2>3. <<>> \in Seq(Alert)
    OBVIOUS
  <2>4. /\ sinceRun \in [Fingerprint -> 0..COOLDOWN_SECONDS]
        /\ ran \in [Fingerprint -> SUBSET (0..(COOLDOWN_SECONDS - 1))]
    BY <1>1, WebhookAssumption DEF WhInit
  <2> QED
    BY <2>1, <2>2, <2>3, <2>4 DEF WhTypeOK
<1>2. WhTypeOK /\ [WhNext]_whVars => WhTypeOK'
  BY WebhookTypesInductive
<1> QED
  BY <1>1, <1>2, PTL DEF WhSpec
=============================================================================
