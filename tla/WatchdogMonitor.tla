-------------------------- MODULE WatchdogMonitor --------------------------
(***************************************************************************)
(* ota-updates/systemd-watchdog-example/hw-fault-monitor.c under systemd's *)
(* watchdog: a loop that wakes every second, compares the corrected-error  *)
(* count with the previous one every POLL_INTERVAL_SEC, and pings systemd  *)
(* at half of WatchdogSec unless the count has just risen too fast.  Time  *)
(* is in seconds; a wake-up may be late and a ping may be lost.            *)
(***************************************************************************)
EXTENDS Integers

CONSTANTS
  WatchdogSec,    \* the unit's WatchdogSec (30)
  PollInterval,   \* POLL_INTERVAL_SEC (10)
  MaxDelay,       \* longest time between two wake-ups of the loop
  LossyNotify     \* sendto on the notify socket may fail

\* A wake-up is late by less than the slack of half a WatchdogSec, and by less
\* than a poll interval.
ASSUME WatchdogAssumption == WatchdogSec \in Nat /\ WatchdogSec >= 2
ASSUME PollAssumption == PollInterval \in Nat
ASSUME DelayAssumption ==
  /\ MaxDelay \in Nat \ {0}
  /\ MaxDelay < PollInterval
  /\ (WatchdogSec \div 2) + MaxDelay <= WatchdogSec
ASSUME LossyAssumption == LossyNotify \in BOOLEAN

VARIABLES
  service,    \* "up", "killed" (watchdog expired), "stopped" (SIGTERM)
  sleeping,   \* time since the loop body last ran
  sincePing,  \* now_usec - last_watchdog_ping_usec
  sincePoll,  \* now_usec - last_poll_usec
  deadline,   \* systemd: time since the last WATCHDOG=1 it received
  prevKnown,  \* prev_ce_count >= 0
  delta,      \* what the last poll saw: "none", "normal", "warning", "critical"
  excused     \* history: a ping was suppressed or lost since the last one

vars == <<service, sleeping, sincePing, sincePoll, deadline, prevKnown, delta,
          excused>>

-----------------------------------------------------------------------------
\* watchdog_interval_usec
PingInterval == WatchdogSec \div 2

Delta == {"none", "normal", "warning", "critical"}

\* main up to the loop: READY=1 starts systemd's timer; the count may be
\* unreadable, and then it is never compared.
Fresh ==
  /\ service' = "up"
  /\ sleeping' = 1 /\ sincePing' = 0 /\ sincePoll' = 0 /\ deadline' = 0
  /\ prevKnown' \in BOOLEAN
  /\ delta' = "none" /\ excused' = FALSE

Init ==
  /\ service = "up"
  /\ sleeping = 1 /\ sincePing = 0 /\ sincePoll = 0 /\ deadline = 0
  /\ prevKnown \in BOOLEAN
  /\ delta = "none" /\ excused = FALSE

\* A second passes: the loop sleeps on.
Tick ==
  /\ service = "up"
  /\ sleeping < MaxDelay
  /\ deadline < WatchdogSec
  /\ sleeping' = sleeping + 1
  /\ sincePing' = sincePing + 1
  /\ sincePoll' = sincePoll + 1
  /\ deadline' = deadline + 1
  /\ UNCHANGED <<service, prevKnown, delta, excused>>

\* What a poll that is due can see; without a previous count, or with the
\* file unreadable, nothing is compared.
Seen ==
  IF sincePoll < PollInterval THEN {delta}
  ELSE IF prevKnown THEN Delta ELSE {"none"}

\* Mutant: a critical poll withholds the ping until the next poll.
SuppressedUntilNextPoll(d) == d = "critical"

\* The ping is withheld in the iteration whose poll is critical, only there.
Suppressed(d) == sincePoll >= PollInterval /\ d = "critical"

\* Mutant: the next ping is due almost WatchdogSec after the last.
PingDueLate(d) == ~Suppressed(d) /\ sincePing >= WatchdogSec - 1

PingDue(d) == ~Suppressed(d) /\ sincePing >= PingInterval

\* Mutant: last_poll_usec is not moved on.
IterateSamePoll(d, sent) ==
  /\ service = "up"
  /\ sleeping >= 1
  /\ deadline < WatchdogSec
  /\ d \in Seen
  /\ delta' = d
  /\ sincePoll' = sincePoll + 1
  /\ sincePing' = IF PingDue(d) THEN 1 ELSE sincePing + 1
  /\ deadline' = IF PingDue(d) /\ sent THEN 1 ELSE deadline + 1
  /\ excused' = IF PingDue(d) THEN ~sent ELSE excused \/ Suppressed(d)
  /\ sleeping' = 1
  /\ UNCHANGED <<service, prevKnown>>

\* One iteration of the loop, with sd_notify_manual, whose failure is ignored:
\* last_watchdog_ping_usec moves on all the same.  The next second begins.
Iterate(d, sent) ==
  /\ service = "up"
  /\ sleeping >= 1
  /\ deadline < WatchdogSec
  /\ d \in Seen
  /\ delta' = d
  /\ sincePoll' = IF sincePoll >= PollInterval THEN 1 ELSE sincePoll + 1
  /\ sincePing' = IF PingDue(d) THEN 1 ELSE sincePing + 1
  /\ deadline' = IF PingDue(d) /\ sent THEN 1 ELSE deadline + 1
  /\ excused' = IF PingDue(d) THEN ~sent ELSE excused \/ Suppressed(d)
  /\ sleeping' = 1
  /\ UNCHANGED <<service, prevKnown>>

\* systemd's watchdog expires: the service is killed; Restart=on-failure.
Expire ==
  /\ service = "up"
  /\ deadline >= WatchdogSec
  /\ service' = "killed"
  /\ UNCHANGED <<sleeping, sincePing, sincePoll, deadline, prevKnown, delta,
                 excused>>

\* SIGTERM: the loop ends, STOPPING=1.
Terminate ==
  /\ service = "up"
  /\ service' = "stopped"
  /\ UNCHANGED <<sleeping, sincePing, sincePoll, deadline, prevKnown, delta,
                 excused>>

\* systemd or the operator starts the service again.
Restart == service # "up" /\ Fresh

Loop == \E d \in Delta : \E sent \in {TRUE, ~LossyNotify} : Iterate(d, sent)

Next == Tick \/ Loop \/ Expire \/ Terminate \/ Restart

Spec == Init /\ [][Next]_vars

\* The loop keeps running while the service is up (a wake-up is at most
\* MaxDelay late), and systemd acts on an expired watchdog.
FairSpec == Spec /\ WF_vars(Loop) /\ WF_vars(Expire)

-----------------------------------------------------------------------------
(***************************************************************************)
(* Properties                                                              *)
(***************************************************************************)

\* Every variable has its type; the clocks are bounded by their intervals.
TypeOK ==
  /\ service \in {"up", "killed", "stopped"}
  /\ sleeping \in 1..MaxDelay
  /\ sincePing \in Nat
  /\ sincePoll \in 0 .. (PollInterval + MaxDelay)
  /\ deadline \in 0..WatchdogSec
  /\ prevKnown \in BOOLEAN
  /\ delta \in Delta
  /\ excused \in BOOLEAN

\* The service is killed only after a ping was suppressed or lost: pinging at
\* half the interval leaves room for wake-ups that are up to MaxDelay late.
KilledForCause == service = "killed" => excused

\* However often the poll is critical, it delays a ping by one iteration: two
\* late wake-ups after the interval the next ping has been sent.
PingWithinTwoWakeups ==
  service = "up" => sincePing < PingInterval + 2 * MaxDelay

\* What the comment on CE_CRITICAL_THRESHOLD and in the loop says: when every
\* poll is critical, systemd kills and restarts the service.
PersistentCriticalRestarts ==
  <>[](service = "up" => delta = "critical") => <>(service # "up")
=============================================================================
