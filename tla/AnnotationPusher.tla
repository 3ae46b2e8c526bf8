-------------------------- MODULE AnnotationPusher --------------------------
(***************************************************************************)
(* annotations/annotation_pusher.py: every 60 s it asks Alertmanager for   *)
(* the firing alerts and pushes an annotation for each it has not seen.    *)
(* Alerts fire and resolve while it pushes; seen lives in memory, and with *)
(* --once for a single run.                                                *)
(***************************************************************************)
EXTENDS Integers

CONSTANTS
  Alert,       \* alerts, named by alert_fingerprint
  MaxAttempts  \* bound: attempts counted

ASSUME AnnAssumption == MaxAttempts \in Nat \ {0}

VARIABLES
  annFiring,   \* what Alertmanager would answer now
  annPc,       \* "idle" or "push"
  annOnce,     \* --once
  annTodo,     \* alerts of this run still to be looked at
  annSeen,     \* seen
  annAttempts, \* history: pushes tried for an alert by this process
  annShown     \* history: alerts Grafana has an annotation of

annVars == <<annFiring, annPc, annOnce, annTodo, annSeen, annAttempts, annShown>>

-----------------------------------------------------------------------------
annNone == [a \in Alert |-> 0]

AnnInit ==
  /\ annFiring = {} /\ annPc = "idle" /\ annOnce \in BOOLEAN
  /\ annTodo = {} /\ annSeen = {}
  /\ annAttempts = annNone /\ annShown = {}

Fire(a) ==
  /\ annFiring' = annFiring \cup {a} /\ a \notin annFiring
  /\ UNCHANGED <<annPc, annOnce, annTodo, annSeen, annAttempts, annShown>>

Resolve(a) ==
  /\ a \in annFiring
  /\ annFiring' = annFiring \ {a}
  /\ UNCHANGED <<annPc, annOnce, annTodo, annSeen, annAttempts, annShown>>

\* get_firing_alerts; if it raises, the run is over and nothing changes.
get_firing_alerts ==
  /\ annPc = "idle"
  /\ annPc' = "push" /\ annTodo' = annFiring
  /\ UNCHANGED <<annFiring, annOnce, annSeen, annAttempts, annShown>>

SkipSeen(a) ==
  /\ annPc = "push" /\ a \in annTodo /\ a \in annSeen
  /\ annTodo' = annTodo \ {a}
  /\ UNCHANGED <<annFiring, annPc, annOnce, annSeen, annAttempts, annShown>>

\* Mutant: the alert is marked only when the push succeeded.
SeenIfPushed(a, ok) == IF ok THEN annSeen \cup {a} ELSE annSeen

\* The alert is marked before it is pushed.
Marked(a, ok) == annSeen \cup {a}

\* push_annotation: whether Grafana takes it is only counted in a log line.
push_annotation(a, ok) ==
  /\ annPc = "push" /\ a \in annTodo /\ a \notin annSeen
  /\ annSeen' = Marked(a, ok)
  /\ annTodo' = annTodo \ {a}
  /\ annAttempts' = [annAttempts EXCEPT ![a] = IF @ < MaxAttempts THEN @ + 1 ELSE @]
  /\ annShown' = IF ok THEN annShown \cup {a} ELSE annShown
  /\ UNCHANGED <<annFiring, annPc, annOnce>>

\* The run ends.  With --once the process ends with it, and the timer
\* starts another.
RunEnds ==
  /\ annPc = "push" /\ annTodo = {}
  /\ annPc' = "idle"
  /\ IF annOnce
     THEN annSeen' = {} /\ annAttempts' = annNone
     ELSE UNCHANGED <<annSeen, annAttempts>>
  /\ UNCHANGED <<annFiring, annOnce, annTodo, annShown>>

\* The process is stopped and started again: seen was in memory.
AnnRestart ==
  /\ annPc' = "idle" /\ annTodo' = {} /\ annSeen' = {}
  /\ annAttempts' = annNone
  /\ UNCHANGED <<annFiring, annOnce, annShown>>

AnnNext ==
  \/ \E a \in Alert : \/ Fire(a) \/ Resolve(a) \/ SkipSeen(a)
                      \/ \E ok \in BOOLEAN : push_annotation(a, ok)
  \/ get_firing_alerts \/ RunEnds \/ AnnRestart

AnnSpec == AnnInit /\ [][AnnNext]_annVars

-----------------------------------------------------------------------------
\* Every variable has its type.
AnnTypeOK ==
  /\ annFiring \subseteq Alert /\ annTodo \subseteq Alert /\ annSeen \subseteq Alert
  /\ annPc \in {"idle", "push"} /\ annOnce \in BOOLEAN
  /\ annAttempts \in [Alert -> 0..MaxAttempts]
  /\ annShown \subseteq Alert

\* A process tries each alert it has seen exactly once, however often the
\* alert resolves and fires again and whether or not Grafana took it: no
\* duplicates, no alert marked and left out - and no retry.
AnnTriedOnce ==
  \A a \in Alert : annAttempts[a] = (IF a \in annSeen THEN 1 ELSE 0)
=============================================================================
