---------------------------- MODULE RateLimiter ----------------------------
(***************************************************************************)
(* What a rate limiter promises: no client is granted more than Limit      *)
(* times within Window ticks of the clock.  The limiter keeps its grants   *)
(* in memory, so the promise starts again when the process does.           *)
(***************************************************************************)
EXTENDS Integers, FiniteSets

CONSTANTS Client, Limit, Window

VARIABLE recent   \* ages, in ticks, of the grants of the last Window ticks

Init == recent = [c \in Client |-> {}]

Grant(c) ==
  /\ Cardinality(recent[c]) < Limit
  /\ 0 \notin recent[c]
  /\ recent' = [recent EXCEPT ![c] = @ \cup {0}]

Elapse ==
  recent' = [c \in Client |-> {a \in 1..(Window - 1) : a - 1 \in recent[c]}]

Restart == recent' = [c \in Client |-> {}]

Next == (\E c \in Client : Grant(c)) \/ Elapse \/ Restart

Spec == Init /\ [][Next]_recent
=============================================================================
