---------------------------- MODULE OobHeartbeat ----------------------------
(***************************************************************************)
(* network-resilience/oob-heartbeat.py: the heartbeat loop and its EDAC    *)
(* check, which reads the counters of the memory controllers one after the *)
(* other and compares their total with that of the frame before.           *)
(***************************************************************************)
EXTENDS Integers, FiniteSets, FiniteSetsExt

CONSTANTS
  Mc,        \* memory controllers with a ce_count file
  Burst,     \* the threshold of check_edac_health (100)
  SeqModulus,    \* sequence numbers, 2^16
  MaxCe      \* bound: errors a controller counts

ASSUME OobAssumption ==
  /\ IsFiniteSet(Mc)
  /\ Burst \in Nat \ {0} /\ SeqModulus \in Nat \ {0} /\ MaxCe \in Nat \ {0}

VARIABLES
  ceCount,   \* ce_count of each controller
  oobPc,     \* "sleep", "read" or "send"
  oobTodo,   \* files still to be read
  oobTotal,  \* total
  oobPrev,   \* prev_ce
  oobSeq,    \* seq
  oobFrame,  \* the last frame sent, its sequence number and bit 1
  oobSlept,  \* history: errors counted since the last frame, before the
             \* loop began to read (bound: no more than Burst are told apart)
  oobFound,  \* history: files this iteration read: "none", "some" or "all"
  oobReset   \* history: a reset since the files were last read: 1, or 2 if it
             \* came after this iteration began to read them

oobVars == <<ceCount, oobPc, oobTodo, oobTotal, oobPrev, oobSeq, oobFrame,
             oobSlept, oobFound, oobReset>>

-----------------------------------------------------------------------------
OobInit ==
  /\ ceCount \in [Mc -> {0, MaxCe - 1}]   \* the process may start long after boot
  /\ oobPc = "sleep" /\ oobTodo = {} /\ oobTotal = 0 /\ oobPrev = 0
  /\ oobSeq = 0 /\ oobFrame = [seq |-> SeqModulus - 1, ceNormal |-> TRUE]
  /\ oobSlept = 0 /\ oobFound = "none" /\ oobReset = 0

CeError(m) ==
  /\ ceCount[m] < MaxCe
  /\ ceCount' = [ceCount EXCEPT ![m] = @ + 1]
  /\ oobSlept' = IF oobPc = "sleep" /\ oobSlept < Burst THEN oobSlept + 1
                 ELSE oobSlept
  /\ UNCHANGED <<oobPc, oobTodo, oobTotal, oobPrev, oobSeq, oobFrame, oobFound,
                 oobReset>>

\* The driver is loaded again, or its counters are reset.
CeReset ==
  /\ \E m \in Mc : ceCount[m] > 0
  /\ ceCount' = [m \in Mc |-> 0]
  /\ oobReset' = IF oobPc # "sleep" /\ oobFound # "none" THEN 2
                 ELSE Max({oobReset, 1})
  /\ UNCHANGED <<oobPc, oobTodo, oobTotal, oobPrev, oobSeq, oobFrame, oobSlept,
                 oobFound>>

\* check_edac_health begins: the glob finds the files, or none.
OobWake(found) ==
  /\ oobPc = "sleep"
  /\ oobPc' = IF found THEN "read" ELSE "send"
  /\ oobTodo' = IF found THEN Mc ELSE {}
  /\ oobTotal' = IF found THEN 0 ELSE oobPrev
  /\ oobFound' = IF found THEN "all" ELSE "none"
  /\ UNCHANGED <<ceCount, oobPrev, oobSeq, oobFrame, oobSlept, oobReset>>

\* One file; one that cannot be read or parsed adds nothing.
OobRead(m, ok) ==
  /\ oobPc = "read" /\ m \in oobTodo
  /\ oobTodo' = oobTodo \ {m}
  /\ oobTotal' = IF ok THEN oobTotal + ceCount[m] ELSE oobTotal
  /\ oobFound' = IF ok THEN oobFound ELSE "some"
  /\ oobPc' = IF oobTodo' = {} THEN "send" ELSE "read"
  /\ UNCHANGED <<ceCount, oobPrev, oobSeq, oobFrame, oobSlept, oobReset>>

\* Mutant: a burst must exceed the threshold.
HealthyAt(delta) == delta <= Burst

\* healthy, from the delta since the frame before.
Healthy(delta) == delta < Burst

\* build_frame and the write to the serial port, then the next number.  The
\* other flags, the load and the CRC are left out.
OobSend ==
  /\ oobPc = "send"
  /\ oobFrame' = [seq |-> oobSeq, ceNormal |-> Healthy(oobTotal - oobPrev)]
  /\ oobPrev' = oobTotal
  /\ oobSeq' = (oobSeq + 1) % SeqModulus
  /\ oobPc' = "sleep" /\ oobTotal' = 0
  /\ oobSlept' = 0 /\ oobReset' = CASE oobReset = 2 -> 1
                        [] oobFound = "none" -> oobReset
                        [] OTHER -> 0
  /\ UNCHANGED <<ceCount, oobTodo, oobFound>>

\* The write fails, which ends the program, or it is stopped; it is
\* started again.
OobRestart ==
  /\ oobPc' = "sleep" /\ oobTodo' = {} /\ oobTotal' = 0
  /\ oobPrev' = 0 /\ oobSeq' = 0 /\ oobSlept' = 0 /\ oobReset' = 0
  /\ oobFound' = "none"
  /\ UNCHANGED <<ceCount, oobFrame>>

OobNext ==
  \/ \E m \in Mc : CeError(m) \/ \E ok \in BOOLEAN : OobRead(m, ok)
  \/ \E found \in BOOLEAN : OobWake(found)
  \/ CeReset \/ OobSend \/ OobRestart

OobSpec == OobInit /\ [][OobNext]_oobVars

-----------------------------------------------------------------------------
\* Every variable has its type.
OobTypeOK ==
  /\ ceCount \in [Mc -> 0..MaxCe] /\ oobPc \in {"sleep", "read", "send"}
  /\ oobTodo \subseteq Mc /\ oobTotal \in Nat /\ oobPrev \in Nat
  /\ oobSeq \in 0..(SeqModulus - 1)
  /\ oobFrame \in [seq : 0..(SeqModulus - 1), ceNormal : BOOLEAN]
  /\ oobSlept \in 0..Burst /\ oobFound \in {"none", "some", "all"} /\ oobReset \in 0..2

\* A burst between two frames is reported by the next one, although the
\* counters are read one by one while they move and files of earlier
\* frames may have been unreadable - as long as every file is readable now
\* and no counter has been reset.
OobBurstReported ==
  [][(OobSend /\ oobSlept >= Burst /\ oobFound = "all" /\ oobReset = 0)
       => ~oobFrame'.ceNormal]_oobVars
=============================================================================
