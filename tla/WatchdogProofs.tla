--------------------------- MODULE WatchdogProofs ---------------------------
(***************************************************************************)
(* WatchdogMonitor for every WatchdogSec, poll interval and wake-up delay  *)
(* that satisfy its assumptions: the service is killed only for cause, and *)
(* a critical poll delays a ping by one iteration.                         *)
(***************************************************************************)
EXTENDS WatchdogMonitor, TLAPS

\* The clocks and the flags of TypeOK; a poll is less than a wake-up late.
Clocks ==
  /\ sleeping \in 1..MaxDelay
  /\ sincePing \in Nat
  /\ sincePoll \in Nat /\ sincePoll < PollInterval + sleeping
  /\ deadline \in 0..WatchdogSec
Flags ==
  /\ service \in {"up", "killed", "stopped"}
  /\ prevKnown \in BOOLEAN /\ delta \in Delta /\ excused \in BOOLEAN

\* As long as no ping was suppressed or lost, systemd's clock is the loop's
\* and the next ping is less than one wake-up late.
Timely ==
  /\ service = "up" /\ ~excused =>
       deadline = sincePing /\ sincePing < PingInterval + sleeping
  /\ service = "killed" => excused

\* The ping is less than one wake-up late, or it was suppressed in the last
\* iteration and less than two late.
Delayed ==
  \/ sincePing < PingInterval + sleeping
  \/ sincePoll <= sleeping /\ sincePing < PingInterval + MaxDelay + sleeping

IInv == Clocks /\ Flags /\ Timely /\ Delayed

LEMMA IntervalFacts ==
  /\ PingInterval \in Nat /\ PingInterval >= 1
  /\ PingInterval + MaxDelay <= WatchdogSec
BY WatchdogAssumption, DelayAssumption DEF PingInterval

LEMMA InitIInv == Init => IInv
<1> SUFFICES ASSUME Init PROVE IInv
  OBVIOUS
<1> USE WatchdogAssumption, PollAssumption, DelayAssumption, IntervalFacts
<1>1. Clocks
  BY DEF Init, Clocks
<1>2. Flags
  BY Zenon DEF Init, Flags, Delta
<1>3. Timely
  BY DEF Init, Timely
<1>4. Delayed
  BY DEF Init, Delayed
<1> QED
  BY <1>1, <1>2, <1>3, <1>4 DEF IInv

\* An iteration of the loop preserves the invariant.  It pings, it withholds
\* the ping because its poll is critical, or the ping is not due.
LEMMA IterateIInv ==
  ASSUME IInv, NEW d \in Delta, NEW sent \in {TRUE, ~LossyNotify},
         Iterate(d, sent)
  PROVE  IInv'
<1> USE WatchdogAssumption, PollAssumption, DelayAssumption, IntervalFacts
<1>1. Clocks'
  BY DEF Iterate, IInv, Clocks
<1>2. sent \in BOOLEAN
  BY LossyAssumption, Zenon
<1>3. /\ service' \in {"up", "killed", "stopped"} /\ service' = service
      /\ prevKnown' \in BOOLEAN /\ delta' \in Delta
  BY Zenon DEF Iterate, IInv, Flags
<1>4. CASE PingDue(d)
  <2>1. excused' = ~sent
    BY <1>4, Zenon DEF Iterate
  <2>2. excused' \in BOOLEAN
    BY <2>1, <1>2, Zenon
  <2>3. sincePing' = 1 /\ sleeping' = 1 /\ (sent => deadline' = 1)
    BY <1>4 DEF Iterate
  <2>5. Timely'
    <3>1. service' = "up"
      BY DEF Iterate
    <3>2. ~excused' => deadline' = 1
      BY <2>1, <2>3, Zenon
    <3> QED
      BY <3>1, <3>2, <2>3 DEF Timely
  <2>6. Delayed'
    BY <2>3 DEF Delayed
  <2> QED
    BY <1>1, <1>3, <2>2, <2>5, <2>6 DEF IInv, Flags
<1>5. CASE ~PingDue(d)
  <2>1. excused' = (excused \/ Suppressed(d))
    BY <1>5, Zenon DEF Iterate
  <2>2. excused' \in BOOLEAN
    BY <2>1, Zenon
  <2>3. sincePing' = sincePing + 1 /\ deadline' = deadline + 1 /\ sleeping' = 1
    BY <1>5 DEF Iterate
  <2>4. ~excused' => ~excused /\ ~Suppressed(d)
    BY <2>1, Zenon
  <2>5. Suppressed(d) \/ sincePing < PingInterval
    BY <1>5 DEF PingDue, IInv, Clocks
  <2>6. Suppressed(d) => sincePoll >= PollInterval /\ sincePoll' = 1
    BY DEF Suppressed, Iterate
  <2>7. service = "up"
    BY DEF Iterate
  <2>8. Timely'
    BY <2>3, <2>4, <2>5, <2>7, <1>3 DEF Timely, IInv, Clocks
  <2>9. Delayed'
    BY <2>3, <2>5, <2>6 DEF Delayed, IInv, Clocks
  <2> QED
    BY <1>1, <1>3, <2>2, <2>8, <2>9 DEF IInv, Flags
<1> QED
  BY <1>4, <1>5

LEMMA NextIInv == IInv /\ [Next]_vars => IInv'
<1> SUFFICES ASSUME IInv, [Next]_vars PROVE IInv'
  OBVIOUS
<1> USE WatchdogAssumption, PollAssumption, DelayAssumption, IntervalFacts
<1>1. CASE Tick
  <2>1. Clocks'
    BY <1>1 DEF Tick, IInv, Clocks
  <2>2. Flags'
    BY <1>1, Zenon DEF Tick, IInv, Flags
  <2>3. Timely' /\ Delayed'
    BY <1>1 DEF Tick, IInv, Clocks, Timely, Delayed
  <2> QED
    BY <2>1, <2>2, <2>3 DEF IInv
<1>2. CASE Loop
  BY <1>2, IterateIInv DEF Loop
<1>3. CASE Expire
  <2>1. excused
    BY <1>3 DEF Expire, IInv, Clocks, Timely
  <2>2. Flags'
    BY <1>3, Zenon DEF Expire, IInv, Flags
  <2> QED
    BY <1>3, <2>1, <2>2 DEF Expire, IInv, Clocks, Timely, Delayed
<1>4. CASE Terminate
  <2>1. Flags'
    BY <1>4, Zenon DEF Terminate, IInv, Flags
  <2> QED
    BY <1>4, <2>1 DEF Terminate, IInv, Clocks, Timely, Delayed
<1>5. CASE Restart
  <2>1. Flags'
    BY <1>5, Zenon DEF Restart, Fresh, Flags, Delta
  <2> QED
    BY <1>5, <2>1 DEF Restart, Fresh, IInv, Clocks, Timely, Delayed
<1>6. CASE UNCHANGED vars
  BY <1>6 DEF vars, IInv, Clocks, Flags, Timely, Delayed
<1> QED
  BY <1>1, <1>2, <1>3, <1>4, <1>5, <1>6 DEF Next

LEMMA IInvImplies == IInv => TypeOK /\ KilledForCause /\ PingWithinTwoWakeups
<1> SUFFICES ASSUME IInv PROVE TypeOK /\ KilledForCause /\ PingWithinTwoWakeups
  OBVIOUS
<1>1. TypeOK
  BY PollAssumption, DelayAssumption DEF IInv, Clocks, Flags, TypeOK
<1>2. KilledForCause
  BY DEF IInv, Timely, KilledForCause
<1>3. PingWithinTwoWakeups
  BY DelayAssumption, IntervalFacts
     DEF IInv, Clocks, Delayed, PingWithinTwoWakeups
<1> QED
  BY <1>1, <1>2, <1>3

\* The inductive invariant holds in every behaviour of the monitor.
THEOREM Invariance == Spec => []IInv
BY InitIInv, NextIInv, PTL DEF Spec

\* Type correctness, with the bounds of the clocks.
THEOREM TypeCorrect == Spec => []TypeOK
BY Invariance, IInvImplies, PTL

\* systemd's watchdog kills the monitor only after a suppressed or lost ping:
\* pinging at half of WatchdogSec absorbs every admissible late wake-up.
THEOREM NoSpuriousKill == Spec => []KilledForCause
BY Invariance, IInvImplies, PTL

\* Critical polls delay a ping by at most one iteration of the loop, however
\* many of them there are.
THEOREM CriticalDelaysOnce == Spec => []PingWithinTwoWakeups
BY Invariance, IInvImplies, PTL
=============================================================================
