-------------------------- MODULE RecoveryWebhook --------------------------
(***************************************************************************)
(* recovery/webhook-server.py: Alertmanager posts groups of alerts, and    *)
(* the server runs the handler script of each firing alert unless the same *)
(* alert ran within COOLDOWN_SECONDS.  HTTPServer serves one request at a  *)
(* time, and a request waits for every handler it runs, so Alertmanager    *)
(* may give up and send it again while the first one is still being        *)
(* served: any request may be delivered at any time, any number of times.  *)
(* Times are ages in ticks, as in RestartOperator.                         *)
(***************************************************************************)
EXTENDS Integers, FiniteSets, Sequences

CONSTANTS
  Fingerprint,       \* of the alerts' labels
  Handled,           \* those whose alertname has a script
  COOLDOWN_SECONDS,
  HandlerTimeout,    \* timeout of subprocess.run
  MaxAlerts,         \* alerts in a request, as max_alerts of the receiver
  MaxBacklog         \* connections waiting to be accepted

ASSUME WebhookAssumption ==
  /\ Handled \subseteq Fingerprint
  /\ COOLDOWN_SECONDS \in Nat \ {0} /\ HandlerTimeout \in Nat
  /\ MaxAlerts \in Nat /\ MaxBacklog \in Nat

VARIABLES
  sinceRun,   \* age of _recent[fp]
  backlog,    \* requests not accepted yet
  serving,    \* a request is being served
  alerts,     \* its alerts still to be handled
  handler,    \* <<fingerprint, age>> of the running script, or <<>>
  ran         \* history: ages of the runs within the last cooldown

whVars == <<sinceRun, backlog, serving, alerts, handler, ran>>

-----------------------------------------------------------------------------
Alert == [fp : Fingerprint, status : {"firing", "resolved"}]
Request == UNION {[1..n -> Alert] : n \in 1..MaxAlerts}

\* An alert that never ran has last = 0, the epoch: long ago.
WhInit ==
  /\ sinceRun = [f \in Fingerprint |-> COOLDOWN_SECONDS]
  /\ backlog = <<>> /\ serving = FALSE /\ alerts = <<>> /\ handler = <<>>
  /\ ran = [f \in Fingerprint |-> {}]

\* One tick; subprocess.run returns at its timeout at the latest.
WhTick ==
  /\ handler # <<>> => handler[2] < HandlerTimeout
  /\ sinceRun' = [f \in Fingerprint |->
                    IF sinceRun[f] < COOLDOWN_SECONDS THEN sinceRun[f] + 1
                                                      ELSE COOLDOWN_SECONDS]
  /\ handler' = IF handler = <<>> THEN <<>> ELSE <<handler[1], handler[2] + 1>>
  /\ ran' = [f \in Fingerprint |->
               {a \in 1..(COOLDOWN_SECONDS - 1) : a - 1 \in ran[f]}]
  /\ UNCHANGED <<backlog, serving, alerts>>

Deliver(r) ==
  /\ Len(backlog) < MaxBacklog
  /\ backlog' = Append(backlog, r)
  /\ UNCHANGED <<sinceRun, serving, alerts, handler, ran>>

\* do_POST reads the alerts of the next request.
Accept ==
  /\ ~serving /\ backlog # <<>>
  /\ serving' = TRUE
  /\ alerts' = Head(backlog) /\ backlog' = Tail(backlog)
  /\ UNCHANGED <<sinceRun, handler, ran>>

Suppressed(f) == sinceRun[f] < COOLDOWN_SECONDS

\* Resolved alerts, alerts without a script and duplicates are passed over.
PassOver ==
  /\ serving /\ handler = <<>> /\ alerts # <<>>
  /\ \/ Head(alerts).status # "firing"
     \/ Head(alerts).fp \notin Handled
     \/ Suppressed(Head(alerts).fp)
  /\ alerts' = Tail(alerts)
  /\ UNCHANGED <<sinceRun, backlog, serving, handler, ran>>

\* Mutant: the window is taken one tick short.
AllowedEarly(f) ==
  /\ sinceRun[f] >= COOLDOWN_SECONDS - 1
  /\ sinceRun' = [sinceRun EXCEPT ![f] = 0]

\* _allowed returning True: the run is recorded before it starts.
_allowed(f) ==
  /\ ~Suppressed(f)
  /\ sinceRun' = [sinceRun EXCEPT ![f] = 0]

\* _run_handler starts the script of the alert.
RunHandler ==
  /\ serving /\ handler = <<>> /\ alerts # <<>>
  /\ Head(alerts).status = "firing" /\ Head(alerts).fp \in Handled
  /\ _allowed(Head(alerts).fp)
  /\ handler' = <<Head(alerts).fp, 0>>
  /\ alerts' = Tail(alerts)
  /\ ran' = [ran EXCEPT ![Head(alerts).fp] = @ \cup {0}]
  /\ UNCHANGED <<backlog, serving>>

\* The script exits, whatever its status.
HandlerExits ==
  /\ handler # <<>>
  /\ handler' = <<>>
  /\ UNCHANGED <<sinceRun, backlog, serving, alerts, ran>>

\* Mutant: the script is run without a timeout.
NeverKilled == FALSE /\ UNCHANGED whVars

\* TimeoutExpired: the script is killed.
HandlerKilled ==
  /\ handler # <<>> /\ handler[2] >= HandlerTimeout
  /\ handler' = <<>>
  /\ UNCHANGED <<sinceRun, backlog, serving, alerts, ran>>

Respond ==
  /\ serving /\ handler = <<>> /\ alerts = <<>>
  /\ serving' = FALSE
  /\ UNCHANGED <<sinceRun, backlog, alerts, handler, ran>>

\* The process is stopped and started again: _recent was in memory.
WebhookRestart ==
  /\ sinceRun' = [f \in Fingerprint |-> COOLDOWN_SECONDS]
  /\ backlog' = <<>> /\ serving' = FALSE /\ alerts' = <<>> /\ handler' = <<>>
  /\ ran' = [f \in Fingerprint |-> {}]

Serve == Accept \/ PassOver \/ RunHandler \/ HandlerKilled \/ Respond

WhNext ==
  \/ WhTick \/ Serve \/ HandlerExits \/ WebhookRestart
  \/ \E r \in Request : Deliver(r)

WhSpec == WhInit /\ [][WhNext]_whVars

-----------------------------------------------------------------------------
\* The state is well formed, and no script outlives its timeout.
WhTypeOK ==
  /\ sinceRun \in [Fingerprint -> 0..COOLDOWN_SECONDS]
  /\ backlog \in Seq(Request)
  /\ Len(backlog) <= MaxBacklog
  /\ serving \in BOOLEAN
  /\ alerts \in Seq(Alert)
  /\ handler # <<>> => handler \in Handled \X (0..HandlerTimeout)
  /\ ran \in [Fingerprint -> SUBSET (0..(COOLDOWN_SECONDS - 1))]

Cooldowns == INSTANCE RateLimiter
               WITH Client <- Fingerprint, Limit <- 1,
                    Window <- COOLDOWN_SECONDS, recent <- ran

\* _allowed suppresses duplicates: however often and however late requests are
\* delivered again, the same alert runs its handler at most once within
\* COOLDOWN_SECONDS of the life of the server.
HandlerLimit == Cooldowns!Spec

\* A request is answered in the end, although its scripts may hang.
RequestAnswered == serving ~> ~serving
=============================================================================
