-------------------------- MODULE RestartOperator --------------------------
(***************************************************************************)
(* operator/main.go: every PollInterval the operator asks Prometheus for   *)
(* the collectors that are down and deletes the exporter pod of their      *)
(* node, within the limits of restartRecord.  The loop is one goroutine,   *)
(* but the clock runs on while it waits for Prometheus and for the API     *)
(* server, and pods come and go under it.  Times are kept as ages in       *)
(* ticks, up to the age at which the code stops telling them apart.        *)
(***************************************************************************)
EXTENDS Integers, FiniteSets, Sequences

CONSTANTS
  Node, Collector,
  MaxPerHour,    \* --max-restarts
  Cooldown,      \* cooldownDuration
  Hour,          \* time.Hour
  PollInterval   \* --poll-interval

\* A tick is at most the cooldown, so two grants never share a tick.
ASSUME OperatorAssumption ==
  /\ MaxPerHour \in Nat
  /\ Cooldown \in Nat \ {0} /\ Hour \in Nat \ {0} /\ PollInterval \in Nat \ {0}

VARIABLES
  events,       \* restartRecord.events: ages of the events kept for a key
  sinceGlobal,  \* age of restartRecord.lastGlobal
  timer,        \* ticks since the ticker last fired
  tickC,        \* the ticker's channel, of capacity one, holds a tick
  pc,           \* "select", "query", "loop", "find" or "delete"
  results,      \* series of the query still to be handled
  podName,      \* pod that findPodOnNode found: "none", "current", or
                \* "gone" once that pod has left the node
  dryRun,       \* --dry-run
  pods,         \* the exporter's pod of each node
  granted,      \* history: ages of the grants of the last hour
  pending,      \* history: age of the grant that is being carried out
  restarted     \* history: the deletions of the last hour, each with the age
                \* of its grant and its own

records == <<events, sinceGlobal>>
history == <<granted, pending, restarted>>
opVars == <<records, timer, tickC, pc, results, podName, dryRun, pods, history>>

-----------------------------------------------------------------------------
restartKey == [node : Node, collector : Collector]

\* A series without the labels the operator needs.
Unlabelled == [node |-> "", collector |-> ""]
Series == restartKey \cup {Unlabelled}

\* What a query may return: any series, once each, in any order.
Responses ==
  {s \in UNION {[1..n -> Series] : n \in 0..Cardinality(Series)} :
     \A i, j \in DOMAIN s : s[i] = s[j] => i = j}

\* An age after one more tick; cap stands for every age from cap on.
Aged(a, cap) == IF a < cap THEN a + 1 ELSE cap
Older(ages, cap) == {Aged(a, cap) : a \in ages}

\* The deletions that are younger than cap after a tick.
StillRecent(deletions, cap) ==
  {<<Aged(d[1], cap), d[2] + 1>> : d \in {e \in deletions : e[2] + 1 < cap}}

OpInit ==
  /\ events = [k \in restartKey |-> {}]
  /\ sinceGlobal = Cooldown        \* the zero time is long ago
  /\ timer = 0 /\ tickC = FALSE
  /\ pc = "select" /\ results = <<>> /\ podName = "none"
  /\ dryRun \in BOOLEAN
  /\ pods = [n \in Node |-> "running"]
  /\ granted = [k \in restartKey |-> {}]
  /\ pending = Hour
  /\ restarted = [k \in restartKey |-> {}]

-----------------------------------------------------------------------------
(***************************************************************************)
(* The clock                                                               *)
(***************************************************************************)

\* One tick.  A ticker whose channel is full drops the tick.
OpTick ==
  /\ events' = [k \in restartKey |-> Older(events[k], Hour)]
  /\ sinceGlobal' = Aged(sinceGlobal, Cooldown)
  /\ timer' = (timer + 1) % PollInterval
  /\ tickC' = (tickC \/ timer' = 0)
  /\ granted' =
       [k \in restartKey |-> {a \in 1..(Hour - 1) : a - 1 \in granted[k]}]
  /\ pending' = Aged(pending, Hour)
  /\ restarted' = [k \in restartKey |-> StillRecent(restarted[k], Hour)]
  /\ UNCHANGED <<pc, results, podName, dryRun, pods>>

-----------------------------------------------------------------------------
(***************************************************************************)
(* The loop                                                                *)
(***************************************************************************)
Poll ==
  /\ pc = "select" /\ tickC
  /\ tickC' = FALSE /\ pc' = "query"
  /\ UNCHANGED <<records, timer, results, podName, dryRun, pods, history>>

\* The query fails: the cycle is skipped.
QueryFails ==
  /\ pc = "query"
  /\ pc' = "select"
  /\ UNCHANGED <<records, timer, tickC, results, podName, dryRun, pods, history>>

QueryReturns ==
  /\ pc = "query"
  /\ pc' = "loop" /\ results' \in Responses
  /\ UNCHANGED <<records, timer, tickC, podName, dryRun, pods, history>>

\* Go on with the next series; a grant that was being carried out is done with.
NextSeries ==
  /\ pc' = "loop" /\ results' = Tail(results) /\ podName' = "none"
  /\ pending' = Hour

LoopEnds ==
  /\ pc = "loop" /\ results = <<>>
  /\ pc' = "select"
  /\ UNCHANGED <<records, timer, tickC, results, podName, dryRun, pods, history>>

\* The events of the last hour that allowed counts.
Recent(key) == {a \in events[key] : a < Hour}

InCooldown == sinceGlobal < Cooldown
AtLimit(key) == Cardinality(Recent(key)) >= MaxPerHour

\* A series without labels, or one that restartRecord.allowed refuses; a
\* refusal changes no record.
Skip ==
  /\ pc = "loop" /\ results # <<>>
  /\ \/ Head(results) = Unlabelled
     \/ Head(results) \in restartKey /\ (InCooldown \/ AtLimit(Head(results)))
  /\ NextSeries
  /\ UNCHANGED <<records, timer, tickC, dryRun, pods, granted, restarted>>

\* Mutant: the events are pruned but the new one is not recorded.
AllowedUnrecorded(key) ==
  /\ ~InCooldown /\ ~AtLimit(key)
  /\ events' = [events EXCEPT ![key] = Recent(key)]
  /\ sinceGlobal' = 0

\* restartRecord.allowed returning true: old events are dropped and this
\* one is recorded, before the pod is looked up.
allowed(key) ==
  /\ ~InCooldown /\ ~AtLimit(key)
  /\ events' = [events EXCEPT ![key] = Recent(key) \cup {0}]
  /\ sinceGlobal' = 0

Grant ==
  /\ pc = "loop" /\ results # <<>> /\ Head(results) \in restartKey
  /\ allowed(Head(results))
  /\ pc' = "find"
  /\ granted' = [granted EXCEPT ![Head(results)] = @ \cup {0}]
  /\ pending' = 0
  /\ UNCHANGED <<timer, tickC, results, podName, dryRun, pods, restarted>>

\* findPodOnNode lists the pods: the call fails, or no pod is on the node.
FindFails ==
  /\ pc = "find"
  /\ NextSeries
  /\ UNCHANGED <<records, timer, tickC, dryRun, pods, granted, restarted>>

\* A pod that is being terminated is listed too.
FindPod ==
  /\ pc = "find" /\ ~dryRun
  /\ pods[Head(results).node] # "absent"
  /\ pc' = "delete" /\ podName' = "current"
  /\ UNCHANGED <<records, timer, tickC, results, dryRun, pods, history>>

DryRun ==
  /\ pc = "find" /\ dryRun
  /\ pods[Head(results).node] # "absent"
  /\ NextSeries
  /\ UNCHANGED <<records, timer, tickC, dryRun, pods, granted, restarted>>

\* The API call fails, at the latest because the pod has gone.
DeleteFails ==
  /\ pc = "delete"
  /\ NextSeries
  /\ UNCHANGED <<records, timer, tickC, dryRun, pods, granted, restarted>>

DeletePod ==
  /\ pc = "delete" /\ podName = "current"
  /\ NextSeries
  /\ pods' = [pods EXCEPT ![Head(results).node] = "terminating"]
  /\ restarted' =
       [restarted EXCEPT ![Head(results)] = @ \cup {<<pending, 0>>}]
  /\ UNCHANGED <<records, timer, tickC, dryRun, granted>>

\* The process is stopped and started again: the records were in memory.
OperatorRestart ==
  /\ events' = [k \in restartKey |-> {}] /\ sinceGlobal' = Cooldown
  /\ timer' = 0 /\ tickC' = FALSE
  /\ pc' = "select" /\ results' = <<>> /\ podName' = "none"
  /\ granted' = [k \in restartKey |-> {}]
  /\ pending' = Hour
  /\ restarted' = [k \in restartKey |-> {}]
  /\ UNCHANGED <<dryRun, pods>>

-----------------------------------------------------------------------------
(***************************************************************************)
(* Kubernetes                                                              *)
(***************************************************************************)

\* Somebody else, the recovery webhook for one, deletes the pod.
PodDeleted(n) ==
  /\ pods[n] = "running"
  /\ pods' = [pods EXCEPT ![n] = "terminating"]
  /\ UNCHANGED <<records, timer, tickC, pc, results, podName, dryRun, history>>

PodGone(n) ==
  /\ pods[n] = "terminating"
  /\ pods' = [pods EXCEPT ![n] = "absent"]
  /\ podName' = IF pc = "delete" /\ Head(results).node = n THEN "gone" ELSE podName
  /\ UNCHANGED <<records, timer, tickC, pc, results, dryRun, history>>

PodCreated(n) ==
  /\ pods[n] = "absent"
  /\ pods' = [pods EXCEPT ![n] = "running"]
  /\ UNCHANGED <<records, timer, tickC, pc, results, podName, dryRun, history>>

Kubernetes == \E n \in Node : PodDeleted(n) \/ PodGone(n) \/ PodCreated(n)

OpStep ==
  \/ Poll \/ QueryFails \/ QueryReturns \/ LoopEnds \/ Skip \/ Grant
  \/ FindFails \/ FindPod \/ DryRun \/ DeleteFails \/ DeletePod

OpNext == OpTick \/ OpStep \/ OperatorRestart \/ Kubernetes

OpSpec == OpInit /\ [][OpNext]_opVars

-----------------------------------------------------------------------------
(***************************************************************************)
(* Properties                                                              *)
(***************************************************************************)

\* The state is well formed; in particular the list of events of a key, which
\* is only pruned when a restart is granted, never exceeds the limit.
OpTypeOK ==
  /\ events \in [restartKey -> SUBSET (0..Hour)]
  /\ \A k \in restartKey : Cardinality(events[k]) <= MaxPerHour
  /\ sinceGlobal \in 0..Cooldown
  /\ timer \in 0..(PollInterval - 1)
  /\ tickC \in BOOLEAN
  /\ pc \in {"select", "query", "loop", "find", "delete"}
  /\ results \in Seq(Series)
  /\ pc \in {"find", "delete"} => results # <<>> /\ Head(results) \in restartKey
  /\ podName \in {"none", "current", "gone"}
  /\ dryRun \in BOOLEAN
  /\ pods \in [Node -> {"running", "terminating", "absent"}]
  /\ granted \in [restartKey -> SUBSET (0..(Hour - 1))]
  /\ pending \in 0..Hour
  /\ restarted \in [restartKey -> SUBSET ((0..Hour) \X (0..(Hour - 1)))]

Limiter == INSTANCE RateLimiter
             WITH Client <- restartKey, Limit <- MaxPerHour, Window <- Hour,
                  recent <- granted

\* allowed is a rate limiter: since the operator started, no (node, collector)
\* was granted more than MaxPerHour restarts within an hour, although the
\* list it decides on is pruned only when it grants.
RestartLimit == Limiter!Spec

\* Deletions lag behind their grants, so an hour may see one deletion more
\* than the limit, the late one of an earlier grant, and never two.
DeletionsBounded == \A k \in restartKey : Cardinality(restarted[k]) <= MaxPerHour + 1

\* "rate-limit kicks in after 3 restarts": a key refused for its hourly limit
\* was restarted that often.
LimitedAfterRestarts ==
  \A k \in restartKey :
    ~dryRun /\ pc = "loop" /\ results # <<>> /\ Head(results) = k
      /\ ~InCooldown /\ AtLimit(k)
      => Cardinality(restarted[k]) >= MaxPerHour
=============================================================================
