----------------------------- MODULE HostProofs -----------------------------
(***************************************************************************)
(* Proofs about the programs that read the counters of a host: the         *)
(* out-of-band heartbeat with its memory controllers, the collectors of    *)
(* its devices, and the prediction of the wear of its drives.              *)
(***************************************************************************)
EXTENDS OobHeartbeat, HostTelemetry, WearPredictor, FiniteSetTheorems,
        WellFoundedInduction, TLAPS

-----------------------------------------------------------------------------
(***************************************************************************)
(* The heartbeat.  The errors of a set of controllers are counted as pairs *)
(* of a controller and a number, so that their total is a cardinality.     *)
(***************************************************************************)
Errors(S, c) == {e \in S \X (1..MaxCe) : e[2] <= c[e[1]]}
Total(S, c) == Cardinality(Errors(S, c))
Counters == [Mc -> 0..MaxCe]

\* There are finitely many errors.
LEMMA ErrorsFinite ==
  ASSUME NEW S, S \subseteq Mc, NEW c \in Counters
  PROVE  IsFiniteSet(Errors(S, c)) /\ Total(S, c) \in Nat
<1>1. IsFiniteSet(S) /\ IsFiniteSet(1..MaxCe)
  BY FS_Subset, FS_Interval, OobAssumption
<1>2. IsFiniteSet(S \X (1..MaxCe))
  BY <1>1, FS_Product
<1>3. Errors(S, c) \subseteq S \X (1..MaxCe)
  BY DEF Errors
<1>4. IsFiniteSet(Errors(S, c))
  BY <1>2, <1>3, FS_Subset
<1> QED
  BY <1>4, FS_CardinalityType DEF Total

\* No controllers, no errors.
LEMMA NoErrors == ASSUME NEW c PROVE Total({}, c) = 0
<1>1. Errors({}, c) = {}
  BY DEF Errors
<1> QED
  BY <1>1, FS_EmptySet DEF Total

\* The total of a set is that of the others and the count of one of them.
LEMMA TotalSplits ==
  ASSUME NEW S, S \subseteq Mc, NEW m \in S, NEW c \in Counters
  PROVE  Total(S, c) = Total(S \ {m}, c) + c[m]
<1> DEFINE rest == Errors(S \ {m}, c)
           own == {m} \X (1..c[m])
           f == [i \in 1..c[m] |-> <<m, i>>]
<1>1. c[m] \in Nat /\ c[m] <= MaxCe
  BY OobAssumption DEF Counters
<1>2. Errors(S, c) = rest \cup own
  BY <1>1, OobAssumption DEF Errors
<1>3. rest \cap own = {}
  BY DEF Errors
<1>4. ExistsBijection(1..c[m], own)
  <2>1. f \in [1..c[m] -> own]
    OBVIOUS
  <2>2. \A i, j \in 1..c[m] : f[i] = f[j] => i = j
    OBVIOUS
  <2>3. \A e \in own : \E i \in 1..c[m] : f[i] = e
    OBVIOUS
  <2>4. f \in Bijection(1..c[m], own)
    BY <2>1, <2>2, <2>3
       DEF Bijection, Injection, Surjection, IsInjective
  <2> QED
    BY <2>4 DEF ExistsBijection
<1> HIDE DEF own, f
<1>5. Cardinality(own) = c[m]
  BY <1>1, <1>4, FS_CountingElements
<1>6. IsFiniteSet(own)
  BY <1>1, <1>4, FS_Interval, FS_Bijection
<1>7. IsFiniteSet(rest) /\ Cardinality(rest) \in Nat
  BY ErrorsFinite DEF Total
<1> HIDE DEF rest
<1>8. Cardinality(rest \cup own) = Cardinality(rest) + Cardinality(own) - Cardinality({})
  BY <1>3, <1>6, <1>7, FS_Union
<1>9. Cardinality(Errors(S, c)) = Cardinality(rest) + c[m]
  BY <1>1, <1>2, <1>5, <1>7, <1>8, FS_EmptySet
<1> QED
  BY <1>9 DEF Total, rest

\* One error more adds one to the total of a set with its controller.
LEMMA TotalGrows ==
  ASSUME NEW S, S \subseteq Mc, NEW m \in Mc, NEW c \in Counters, NEW d \in Counters,
         d[m] = c[m] + 1, \A k \in Mc \ {m} : d[k] = c[k]
  PROVE  Total(S, d) = Total(S, c) + (IF m \in S THEN 1 ELSE 0)
<1>1. c[m] \in Nat
  BY OobAssumption DEF Counters
<1>2. \A T : (T \subseteq Mc /\ m \notin T) => Errors(T, d) = Errors(T, c)
  BY <1>1 DEF Errors
<1>3. CASE m \notin S
  <2>1. Total(S, d) = Total(S, c) /\ Total(S, c) \in Nat
    BY <1>2, <1>3, ErrorsFinite DEF Total
  <2> QED
    BY <1>1, <1>3, <2>1
<1>4. CASE m \in S
  <2>1. Total(S \ {m}, d) = Total(S \ {m}, c)
    BY <1>2 DEF Total
  <2>2. Total(S \ {m}, c) \in Nat
    BY ErrorsFinite
  <2>3. Total(S, d) = Total(S \ {m}, d) + d[m]
    BY <1>1, <1>4, TotalSplits
  <2>4. Total(S, c) = Total(S \ {m}, c) + c[m]
    BY <1>4, TotalSplits
  <2>5. Total(S, d) = Total(S, c) + 1
    BY <1>1, <2>1, <2>2, <2>3, <2>4
  <2> QED
    BY <1>1, <1>4, <2>5
<1> QED
  BY <1>3, <1>4

-----------------------------------------------------------------------------
\* While the loop sleeps, or found no file, the total it compares with and the
\* errors since are at most what the counters show, unless they were reset.
SleepInv ==
  (oobPc = "sleep" \/ oobFound = "none") =>
    /\ oobPc # "sleep" => oobTodo = {} /\ oobTotal = oobPrev
    /\ oobReset = 0 => oobPrev + oobSlept <= Total(Mc, ceCount)

\* While it reads, what it has added up is at most what the files it is done
\* with show, unless they were reset meanwhile; and as long as every file
\* could be read, together with those to come it is no less than the total it
\* compares with and the errors since.
ReadInv ==
  (oobPc # "sleep" /\ oobFound # "none") =>
    /\ oobReset # 2 => oobTotal <= Total(Mc \ oobTodo, ceCount)
    /\ (oobReset = 0 /\ oobFound = "all") =>
         oobPrev + oobSlept <= oobTotal + Total(oobTodo, ceCount)

OobInv ==
  /\ OobTypeOK
  /\ oobPc # "read" => oobTodo = {}
  /\ oobPc = "read" => oobFound # "none"
  /\ SleepInv
  /\ ReadInv

\* A controller counts an error.
LEMMA ErrorKeeps ==
  ASSUME OobInv, NEW m \in Mc, CeError(m)
  PROVE  OobInv'
<1>1. /\ ceCount \in Counters /\ ceCount' \in Counters
      /\ ceCount'[m] = ceCount[m] + 1
      /\ \A k \in Mc \ {m} : ceCount'[k] = ceCount[k]
  BY OobAssumption DEF OobInv, OobTypeOK, CeError, Counters
<1>2. Total(Mc, ceCount') = Total(Mc, ceCount) + 1
  BY <1>1, TotalGrows
<1>3. ASSUME NEW S, S \subseteq Mc
      PROVE  Total(S, ceCount) \in Nat /\ Total(S, ceCount') \in Nat
             /\ Total(S, ceCount) <= Total(S, ceCount')
  <2>1. Total(S, ceCount') = Total(S, ceCount) + (IF m \in S THEN 1 ELSE 0)
    BY <1>1, <1>3, TotalGrows
  <2>2. Total(S, ceCount) \in Nat
    BY <1>1, <1>3, ErrorsFinite
  <2> QED
    BY <2>1, <2>2
<1>4. /\ UNCHANGED <<oobPc, oobTodo, oobTotal, oobPrev, oobSeq, oobFrame, oobFound,
                     oobReset>>
      /\ oobSlept' = IF oobPc = "sleep" /\ oobSlept < Burst THEN oobSlept + 1
                     ELSE oobSlept
  BY DEF CeError
<1>5. OobTypeOK'
  BY <1>1, <1>4, OobAssumption DEF OobInv, OobTypeOK, Counters
<1>6. /\ oobPrev \in Nat /\ oobTotal \in Nat /\ oobSlept \in Nat
      /\ oobTodo \subseteq Mc
      /\ Mc \ oobTodo \subseteq Mc /\ Mc \subseteq Mc
  BY OobAssumption DEF OobInv, OobTypeOK
<1>7. SleepInv'
  BY <1>2, <1>3, <1>4, <1>6 DEF OobInv, SleepInv
<1>8. ReadInv'
  <2>1. /\ Total(Mc \ oobTodo, ceCount) \in Nat
        /\ Total(Mc \ oobTodo, ceCount') \in Nat
        /\ Total(Mc \ oobTodo, ceCount) <= Total(Mc \ oobTodo, ceCount')
        /\ Total(oobTodo, ceCount) \in Nat
        /\ Total(oobTodo, ceCount') \in Nat
        /\ Total(oobTodo, ceCount) <= Total(oobTodo, ceCount')
    BY <1>3, <1>6
  <2> QED
    BY <2>1, <1>4, <1>6 DEF OobInv, ReadInv
<1> QED
  BY <1>4, <1>5, <1>7, <1>8 DEF OobInv

\* The counters are reset, which oobReset remembers.
LEMMA ResetKeeps ==
  ASSUME OobInv, CeReset
  PROVE  OobInv'
<1>1. oobReset' \in {1, 2} /\ (oobPc # "sleep" /\ oobFound # "none" => oobReset' = 2)
  <2>1. \A r \in 0..2 : Max({r, 1}) \in {1, 2}
    BY DEF Max
  <2> QED
    BY <2>1 DEF OobInv, OobTypeOK, CeReset
<1>2. ceCount' \in Counters
  BY OobAssumption DEF CeReset, Counters
<1>3. UNCHANGED <<oobPc, oobTodo, oobTotal, oobPrev, oobSeq, oobFrame, oobSlept, oobFound>>
  BY DEF CeReset
<1>4. OobTypeOK'
  BY <1>1, <1>2, <1>3 DEF OobInv, OobTypeOK, Counters
<1> QED
  BY <1>1, <1>3, <1>4 DEF OobInv, SleepInv, ReadInv

\* The loop begins to read, or finds no file and carries the total over.
LEMMA WakeKeeps ==
  ASSUME OobInv, NEW found \in BOOLEAN, OobWake(found)
  PROVE  OobInv'
<1>1. CASE found
  <2>1. /\ oobPc = "sleep" /\ oobPc' = "read" /\ oobTodo' = Mc /\ oobTotal' = 0
        /\ oobFound' = "all"
        /\ UNCHANGED <<ceCount, oobPrev, oobSeq, oobFrame, oobSlept, oobReset>>
    BY <1>1 DEF OobWake
  <2>2. Total({}, ceCount) = 0
    BY NoErrors
  <2>3. Total(Mc, ceCount) \in Nat
    BY ErrorsFinite DEF OobInv, OobTypeOK, Counters
  <2>4. oobReset = 0 => oobPrev + oobSlept <= Total(Mc, ceCount)
    BY <2>1 DEF OobInv, SleepInv
  <2>5. Mc \ oobTodo' = {} /\ oobPrev \in Nat /\ oobSlept \in Nat
    BY <2>1, OobAssumption DEF OobInv, OobTypeOK
  <2>6. ReadInv'
    <3>1. /\ Total(Mc \ oobTodo', ceCount') = 0
          /\ Total(oobTodo', ceCount') = Total(Mc, ceCount)
      BY <2>1, <2>2, <2>5
    <3> QED
      BY <2>1, <2>3, <2>4, <2>5, <3>1 DEF ReadInv
  <2>7. OobTypeOK' /\ SleepInv'
    BY <2>1 DEF OobInv, OobTypeOK, SleepInv
  <2> QED
    BY <2>1, <2>6, <2>7 DEF OobInv
<1>2. CASE ~found
  BY <1>2 DEF OobWake, OobInv, OobTypeOK, SleepInv, ReadInv
<1> QED
  BY <1>1, <1>2

\* One file is read, or cannot be.
LEMMA ReadKeeps ==
  ASSUME OobInv, NEW m \in Mc, NEW ok \in BOOLEAN, OobRead(m, ok)
  PROVE  OobInv'
<1>1. /\ oobPc = "read" /\ m \in oobTodo /\ oobFound # "none"
      /\ oobTodo' = oobTodo \ {m} /\ oobTodo \subseteq Mc
      /\ oobTotal' = IF ok THEN oobTotal + ceCount[m] ELSE oobTotal
      /\ oobFound' = IF ok THEN oobFound ELSE "some"
      /\ oobPc' = IF oobTodo' = {} THEN "send" ELSE "read"
      /\ UNCHANGED <<ceCount, oobPrev, oobSeq, oobFrame, oobSlept, oobReset>>
  BY DEF OobRead, OobInv, OobTypeOK
<1>2. ceCount \in Counters /\ ceCount[m] \in Nat
      /\ oobTotal \in Nat /\ oobPrev \in Nat /\ oobSlept \in Nat
  BY OobAssumption DEF OobInv, OobTypeOK, Counters
<1>3. Total(oobTodo, ceCount) = Total(oobTodo', ceCount) + ceCount[m]
  BY <1>1, <1>2, TotalSplits
<1>4. Total(Mc \ oobTodo', ceCount) = Total(Mc \ oobTodo, ceCount) + ceCount[m]
  <2>1. m \in Mc \ oobTodo' /\ (Mc \ oobTodo') \ {m} = Mc \ oobTodo
    BY <1>1
  <2> QED
    BY <1>2, <2>1, TotalSplits
<1>5. Total(oobTodo', ceCount) \in Nat /\ Total(Mc \ oobTodo, ceCount) \in Nat
  BY <1>1, <1>2, ErrorsFinite
<1>6. ReadInv'
  BY <1>1, <1>2, <1>3, <1>4, <1>5 DEF OobInv, ReadInv
<1>7. OobTypeOK'
  BY <1>1, <1>2 DEF OobInv, OobTypeOK
<1>8. SleepInv'
  BY <1>1 DEF OobInv, OobTypeOK, SleepInv
<1> QED
  BY <1>1, <1>6, <1>7, <1>8 DEF OobInv, OobTypeOK

\* A frame is sent, and its total is the one to compare with.
LEMMA SendKeeps ==
  ASSUME OobInv, OobSend
  PROVE  OobInv'
<1>1. /\ oobPc = "send" /\ oobTodo = {} /\ oobPc' = "sleep" /\ oobTodo' = {}
      /\ oobPrev' = oobTotal /\ oobTotal' = 0 /\ oobSlept' = 0
      /\ oobFound' = oobFound /\ ceCount' = ceCount
      /\ oobReset' = CASE oobReset = 2 -> 1
                       [] oobFound = "none" -> oobReset
                       [] OTHER -> 0
  BY DEF OobSend, OobInv
<1>2. OobTypeOK'
  <2>1. oobSeq' \in 0..(SeqModulus - 1)
    BY OobAssumption DEF OobSend, OobInv, OobTypeOK
  <2>2. oobFrame' \in [seq : 0..(SeqModulus - 1), ceNormal : BOOLEAN]
    BY DEF OobSend, OobInv, OobTypeOK, Healthy
  <2>3. oobReset' \in 0..2
    BY <1>1 DEF OobInv, OobTypeOK
  <2> QED
    BY <1>1, <2>1, <2>2, <2>3, OobAssumption DEF OobInv, OobTypeOK
<1>3. oobTotal \in Nat /\ oobSlept \in Nat /\ Total(Mc, ceCount) \in Nat
  BY ErrorsFinite, OobAssumption DEF OobInv, OobTypeOK, Counters
<1>4. ASSUME oobReset' = 0
      PROVE  oobTotal <= Total(Mc, ceCount)
  <2>1. CASE oobFound = "none"
    BY <1>1, <1>3, <1>4, <2>1 DEF OobInv, SleepInv
  <2>2. CASE oobFound # "none"
    <3>1. oobReset # 2 /\ Mc \ oobTodo = Mc
      BY <1>1, <1>4
    <3> QED
      BY <1>1, <2>2, <3>1 DEF OobInv, ReadInv
  <2> QED
    BY <2>1, <2>2
<1>5. SleepInv' /\ ReadInv'
  BY <1>1, <1>3, <1>4 DEF SleepInv, ReadInv
<1> QED
  BY <1>1, <1>2, <1>5 DEF OobInv

\* The program starts again, with nothing to compare with.
LEMMA RestartKeeps ==
  ASSUME OobInv, OobRestart
  PROVE  OobInv'
<1>1. Total(Mc, ceCount) \in Nat
  BY ErrorsFinite DEF OobInv, OobTypeOK, Counters
<1> QED
  BY <1>1, OobAssumption DEF OobRestart, OobInv, OobTypeOK, SleepInv, ReadInv

\* The loop's sums stay within what the counters show.
THEOREM HeartbeatInvariant == OobSpec => []OobInv
<1>1. ASSUME OobInit
      PROVE  OobInv
  <2>1. ceCount \in Counters
    BY <1>1, OobAssumption DEF OobInit, Counters
  <2>2. Total(Mc, ceCount) \in Nat
    BY <2>1, ErrorsFinite
  <2>3. OobTypeOK
    BY <1>1, <2>1, OobAssumption DEF OobInit, OobTypeOK, Counters
  <2> QED
    BY <1>1, <2>2, <2>3 DEF OobInit, OobInv, SleepInv, ReadInv
<1>2. ASSUME OobInv, [OobNext]_oobVars
      PROVE  OobInv'
  <2>1. CASE UNCHANGED oobVars
    BY <1>2, <2>1 DEF oobVars, OobInv, OobTypeOK, SleepInv, ReadInv
  <2> QED
    BY <1>2, <2>1, ErrorKeeps, ResetKeeps, WakeKeeps, ReadKeeps, SendKeeps,
       RestartKeeps DEF OobNext
<1> QED
  BY <1>1, <1>2, PTL DEF OobSpec

\* For any number of controllers, any threshold and any counts: the next frame
\* reports a burst of errors, although the counters move while they are read
\* one by one and files of earlier frames may have been unreadable.
THEOREM BurstReported == OobSpec => OobBurstReported
<1>1. ASSUME OobInv, OobSend, oobSlept >= Burst, oobFound = "all", oobReset = 0
      PROVE  ~oobFrame'.ceNormal
  <2>1. oobPc = "send" /\ oobTodo = {}
    BY <1>1 DEF OobSend, OobInv
  <2>2. Total(oobTodo, ceCount) = 0
    BY <2>1, NoErrors
  <2>3. oobPrev + oobSlept <= oobTotal
    BY <1>1, <2>1, <2>2 DEF OobInv, ReadInv, OobTypeOK
  <2>4. ~Healthy(oobTotal - oobPrev)
    BY <1>1, <2>3, OobAssumption DEF Healthy, OobInv, OobTypeOK
  <2> QED
    BY <1>1, <2>4 DEF OobSend
<1>2. OobInv /\ [OobNext]_oobVars
        => [(OobSend /\ oobSlept >= Burst /\ oobFound = "all" /\ oobReset = 0)
              => ~oobFrame'.ceNormal]_oobVars
  BY <1>1
<1>3. OobSpec => []OobInv
  BY HeartbeatInvariant
<1> QED
  BY <1>2, <1>3, PTL DEF OobSpec, OobBurstReported
-----------------------------------------------------------------------------
(***************************************************************************)
(* The collectors.  What a result may hold for a counter of a device: no   *)
(* value, or one the device has counted; and for the counters that must    *)
(* not fall, none below what the .prom file shows.                         *)
(***************************************************************************)
Real(d, v) == v = None \/ v \in 0..hw[d]

NoLess(d, metric, v) ==
  /\ Real(d, v)
  /\ v # None => \A s \in prom.series :
                   (s.metric = metric /\ s.dev = d) => s.value <= v

ResultReal(d, r) ==
  /\ collector = "nvme" =>
       /\ NoLess(d, "nvme_smart_media_errors_total", r.media_errors)
       /\ Real(d, r.error_log_count)
  /\ collector = "controller" =>
       NoLess(d, "storage_controller_ecc_errors_total", r.ecc_correctable)
  /\ collector = "ib" => Real(d, r.counters)
  /\ collector = "nic" =>
       Real(d, r.rx_errors) /\ NoLess(d, "roce_errors_total", r.roce)
  /\ collector = "xid" => Real(d, r.sbe)
  /\ collector = "amd" => NoLess(d, "amd_gpu_ras_error_total", r.ras)
  /\ collector = "pmem" =>
       /\ NoLess(d, "pmem_unsafe_shutdowns_total", r.unsafe_shutdowns)
       /\ Real(d, r.media_errors)
  /\ collector = "misc" => Real(d, r.correctable) /\ Real(d, r.fatal)

\* The counters of the .prom file are the devices', one value for each.
PromReal ==
  /\ \A s \in prom.series :
       s.metric \in ZeroOnFailure \cup SteadyCounter =>
         s.dev \in Dev /\ s.value \in 0..hw[s.dev]
  /\ \A s, t \in prom.series :
       (s.metric \in SteadyCounter /\ s.metric = t.metric /\ s.dev = t.dev)
         => s.value = t.value

HostTypes ==
  /\ collector \in OneByOne \cup AllAtOnce
  /\ hw \in [Dev -> 0..MaxCount]
  /\ hostPc \in {"idle", "read", "emit"}
  /\ hostList \subseteq Dev /\ hostTodo \subseteq hostList
  /\ DOMAIN hostRes \subseteq hostList \ hostTodo

\* Of the adapters that ibstat told of, those without a port are remembered.
PortKnown(d, r) ==
  (collector = "ib" /\ r.ibstat_ok) => (r.state # None \/ d \in hostBare)

\* A run of the InfiniBand collector leaves no adapter out.
HostInv ==
  /\ HostTypes
  /\ hostPc = "emit" => hostTodo = {}
  /\ (collector = "ib" /\ hostPc # "idle") => DOMAIN hostRes = hostList \ hostTodo
  /\ \A d \in DOMAIN hostRes : ResultReal(d, hostRes[d]) /\ PortKnown(d, hostRes[d])
  /\ PromReal
  /\ HostUpComplete

\* What one query brings is real, and no less than before: the device's
\* counter only rises.
LEMMA ReplyReal ==
  ASSUME HostTypes, PromReal, NEW d \in Dev, NEW reply
  PROVE  /\ Real(d, None) /\ Real(d, hw[d]) /\ Real(d, 0)
         /\ Real(d, OrZero(reply, hw[d]))
         /\ \A metric \in SteadyCounter : NoLess(d, metric, None)
         /\ \A metric \in SteadyCounter : NoLess(d, metric, Told(reply, hw[d]))
<1>1. hw[d] \in Nat /\ HostAssumption
  BY HostAssumption DEF HostTypes, HostAssumption
<1>2. Real(d, None) /\ Real(d, hw[d]) /\ Real(d, 0)
  BY <1>1 DEF Real
<1>3. ASSUME NEW metric \in SteadyCounter
      PROVE  NoLess(d, metric, None) /\ NoLess(d, metric, hw[d])
  <2>1. ASSUME NEW s \in prom.series, s.metric = metric, s.dev = d
        PROVE  s.value <= hw[d]
    BY <1>1, <2>1 DEF PromReal
  <2> QED
    BY <1>2, <2>1 DEF NoLess
<1> QED
  BY <1>2, <1>3 DEF OrZero, Told

\* What a collector makes of the replies of a device is real.
LEMMA CollectedReal ==
  ASSUME HostTypes, PromReal, NEW d \in Dev, NEW a, collector \in OneByOne
  PROVE  ResultReal(d, Collected1(hw[d], a))
<1> DEFINE r == Collected1(hw[d], a)
<1> SUFFICES ResultReal(d, r)
  OBVIOUS
<1>1. /\ Real(d, None) /\ Real(d, 0)
      /\ \A reply : Real(d, OrZero(reply, hw[d]))
      /\ \A metric \in SteadyCounter : NoLess(d, metric, None)
      /\ \A metric \in SteadyCounter : \A reply :
           NoLess(d, metric, Told(reply, hw[d]))
  BY ReplyReal
<1>2. CASE collector = "nvme"
  <2>1. /\ r.media_errors = Told(a.first, hw[d])
        /\ r.error_log_count = OrZero(a.second, hw[d])
    BY <1>2 DEF Collected1, nvme_collect_device, parse_smart_log,
                count_error_log_entries
  <2> HIDE DEF r
  <2> QED
    BY <1>1, <1>2, <2>1 DEF ResultReal, SteadyCounter
<1>3. CASE collector = "sata"
  BY <1>3 DEF ResultReal
<1>4. CASE collector = "ib"
  <2>1. \/ r.counters = None
        \/ r.counters = OrZero(a.second, hw[d])
    BY <1>4 DEF Collected1, ib_collect_device_metrics, parse_ibstat,
                parse_perfquery
  <2> HIDE DEF r
  <2> QED
    BY <1>1, <1>4, <2>1 DEF ResultReal, None
<1>5. CASE collector = "nic"
  <2>1. /\ r.rx_errors = OrZero(a.first, hw[d])
        /\ r.roce = None \/ r.roce = Told(a.second, hw[d])
    BY <1>5 DEF Collected1, collect_interface_stats, read_sysfs_stat,
                is_roce_interface, collect_ethtool_roce
  <2> HIDE DEF r
  <2> QED
    BY <1>1, <1>5, <2>1 DEF ResultReal, SteadyCounter
<1>6. CASE collector = "amd"
  <2>1. r.ras = Told(a.first, hw[d])
    BY <1>6 DEF Collected1, amd_collect_card, parse_ras_file
  <2> HIDE DEF r
  <2> QED
    BY <1>1, <1>6, <2>1 DEF ResultReal, SteadyCounter
<1>7. CASE collector = "misc"
  <2>1. /\ r.correctable = OrZero(a.first, hw[d])
        /\ r.fatal = OrZero(a.second, hw[d])
    BY <1>7 DEF Collected1, collect_pcie_aer, parse_aer_file
  <2> HIDE DEF r
  <2> QED
    BY <1>1, <1>7, <2>1 DEF ResultReal
<1> QED
  BY <1>2, <1>3, <1>4, <1>5, <1>6, <1>7 DEF OneByOne

\* An adapter without a port has just been told of so.
LEMMA PortRemembered ==
  ASSUME NEW d, NEW a \in Answer, HostRead(d, a)
  PROVE  PortKnown(d, Collected1(hw[d], a))'
<1>1. CASE collector # "ib"
  BY <1>1 DEF PortKnown, HostRead
<1>2. CASE collector = "ib"
  <2>1. /\ collector' = collector /\ hw' = hw
        /\ hostBare' = IF HeaderOnly(a) THEN hostBare \cup {d} ELSE hostBare
    BY <1>2 DEF HostRead
  <2>2. HeaderOnly(a) => d \in hostBare'
    BY <2>1
  <2>3. a.first \in Reply
    BY DEF Answer
  <2>4. ~HeaderOnly(a) /\ Collected1(hw[d], a).ibstat_ok
          => Collected1(hw[d], a).state # None
    BY <1>2, <2>3 DEF Collected1, ib_collect_device_metrics, parse_ibstat,
                      HeaderOnly, Reply, Bit, None
  <2>5. Collected1(hw[d], a)' = Collected1(hw[d], a)
    BY <2>1 DEF Collected1
  <2> QED
    BY <2>1, <2>2, <2>4, <2>5 DEF PortKnown
<1> QED
  BY <1>1, <1>2

\* So is what it makes of a reply for all of them.
LEMMA CollectedAllReal ==
  ASSUME HostTypes, PromReal, NEW a \in [hostTodo -> Answer], HostReadAll(a)
  PROVE  /\ DOMAIN hostRes' \subseteq hostTodo
         /\ \A d \in DOMAIN hostRes' : ResultReal(d, hostRes'[d])
<1>1. /\ \A d \in Dev : Real(d, None) /\ Real(d, 0) /\ Real(d, hw[d])
      /\ \A d \in Dev : \A reply : Real(d, OrZero(reply, hw[d]))
      /\ \A d \in Dev : \A metric \in SteadyCounter : \A reply :
           NoLess(d, metric, Told(reply, hw[d]))
  BY ReplyReal
<1>2. hostTodo \subseteq Dev /\ DOMAIN a = hostTodo
  BY DEF HostTypes
<1>3. CASE collector = "controller"
  <2>1. /\ DOMAIN hostRes' \subseteq hostTodo
        /\ \A d \in DOMAIN hostRes' :
             hostRes'[d].ecc_correctable = Told(a[d].first, hw[d])
    BY <1>2, <1>3 DEF HostReadAll, collect_megaraid
  <2> QED
    BY <1>1, <1>2, <1>3, <2>1 DEF ResultReal, SteadyCounter
<1>4. CASE collector = "xid"
  <2>1. /\ DOMAIN hostRes' \subseteq hostTodo
        /\ \A d \in DOMAIN hostRes' : hostRes'[d].sbe \in {hw[d], 0, None}
    BY <1>2, <1>4 DEF HostReadAll, xid_collect, collect_ecc_counts
  <2> QED
    BY <1>1, <1>2, <1>4, <2>1 DEF ResultReal
<1>5. CASE collector = "throttle"
  <2>1. DOMAIN hostRes' \subseteq hostTodo
    BY <1>2, <1>5 DEF HostReadAll, collect_throttle_data
  <2> QED
    BY <1>5, <2>1 DEF ResultReal
<1>6. CASE collector = "pmem"
  <2>1. /\ DOMAIN hostRes' \subseteq hostTodo
        /\ \A d \in DOMAIN hostRes' :
             /\ hostRes'[d].unsafe_shutdowns = Told(a[d].first, hw[d])
             /\ \/ hostRes'[d].media_errors = OrZero(a[d].second, hw[d])
                \/ hostRes'[d].media_errors = None
    BY <1>2, <1>6 DEF HostReadAll, pmem_collect, parse_health_output,
                      count_media_errors
  <2> QED
    BY <1>1, <1>2, <1>6, <2>1 DEF ResultReal, SteadyCounter
<1> QED
  BY <1>3, <1>4, <1>5, <1>6 DEF HostReadAll, AllAtOnce

-----------------------------------------------------------------------------
\* A device counts an error; what was true of its results still is.
LEMMA HwErrorKeeps ==
  ASSUME HostInv, NEW d \in Dev, HwError(d)
  PROVE  HostInv'
<1>1. /\ UNCHANGED <<collector, hostPc, hostFound, hostList, hostTodo, hostRes,
                     hostBare, prom>>
      /\ hw' \in [Dev -> 0..MaxCount]
      /\ \A e \in Dev : hw[e] \in Nat /\ hw'[e] \in Nat /\ hw[e] <= hw'[e]
  BY HostAssumption DEF HwError, HostInv, HostTypes
<1>2. ASSUME NEW e \in Dev, NEW v, Real(e, v)
      PROVE  Real(e, v)'
  BY <1>1, <1>2 DEF Real
<1>3. ASSUME NEW e \in Dev, NEW v, NEW metric, NoLess(e, metric, v)
      PROVE  NoLess(e, metric, v)'
  BY <1>1, <1>2, <1>3 DEF NoLess
<1>4. ASSUME NEW e \in Dev, NEW r, ResultReal(e, r)
      PROVE  ResultReal(e, r)'
  BY <1>1, <1>2, <1>3, <1>4 DEF ResultReal
<1>5. PromReal'
  BY <1>1 DEF HostInv, PromReal
<1>6. HostTypes'
  BY <1>1 DEF HostInv, HostTypes
<1>7. \A e \in DOMAIN hostRes : e \in Dev
  BY DEF HostInv, HostTypes
<1> QED
  BY <1>1, <1>4, <1>5, <1>6, <1>7 DEF HostInv, HostUpComplete, PortKnown

\* What is listed is among the devices that are there.
LEMMA ListedAreDevices ==
  ASSUME NEW tool, NEW readable, NEW devices \in SUBSET Dev,
         collector \in OneByOne \cup AllAtOnce
  PROVE  Listed(readable, devices \cup {Other}) \subseteq Dev
<1>1. \A b : Matching(b, devices \cup {Other}) \subseteq Dev
  BY DEF Matching
<1> QED
  BY <1>1 DEF Listed, find_nvme_devices, find_sata_devices, list_ib_devices,
              list_physical_interfaces, detect_amd_cards, OneByOne, AllAtOnce

\* A run begins, with no results.
LEMMA StartKeeps ==
  ASSUME HostInv, NEW tool, NEW readable, NEW devices \in SUBSET Dev,
         HostStart(tool, readable, devices \cup {Other})
  PROVE  HostInv'
<1>1. /\ UNCHANGED <<collector, hw, prom>>
      /\ hostList' \subseteq Dev /\ hostTodo' = hostList' /\ hostRes' = <<>>
      /\ hostPc' = IF hostTodo' = {} THEN "emit" ELSE "read"
  BY ListedAreDevices DEF HostStart, HostInv, HostTypes
<1>2. DOMAIN hostRes' = {}
  BY <1>1
<1>3. HostTypes'
  BY <1>1, <1>2 DEF HostInv, HostTypes
<1>4. PromReal' /\ HostUpComplete'
  BY <1>1 DEF HostInv, PromReal, HostUpComplete
<1> QED
  BY <1>1, <1>2, <1>3, <1>4 DEF HostInv

\* A device's result joins the others, or it is left out.
LEMMA DeviceReadKeeps ==
  ASSUME HostInv, NEW d \in Dev, NEW a \in Answer, HostRead(d, a)
  PROVE  HostInv'
<1> DEFINE r == Collected1(hw[d], a)
<1>1. /\ UNCHANGED <<collector, hw, hostFound, hostList, prom>>
      /\ hostPc = "read" /\ collector \in OneByOne /\ d \in hostTodo
      /\ hostTodo' = hostTodo \ {d}
      /\ hostRes' = IF Raises(a) THEN hostRes ELSE With(hostRes, d, r)
      /\ hostPc' = IF hostTodo' = {} THEN "emit" ELSE "read"
  BY DEF HostRead
<1>2. ResultReal(d, r)
  BY <1>1, CollectedReal DEF HostInv
<1>3. collector = "ib" => ~Raises(a)
  BY DEF Raises
<1>4. PortKnown(d, r)' /\ hostBare \subseteq hostBare' /\ r' = r
  BY <1>1, PortRemembered DEF HostRead, Collected1
<1> HIDE DEF r
<1>5. /\ DOMAIN hostRes' \subseteq DOMAIN hostRes \cup {d}
      /\ ~Raises(a) => DOMAIN hostRes' = DOMAIN hostRes \cup {d}
      /\ \A e \in DOMAIN hostRes' : ResultReal(e, hostRes'[e])
  BY <1>1, <1>2 DEF HostInv, With
<1>6. \A e, x : ResultReal(e, x) => ResultReal(e, x)'
  BY <1>1 DEF ResultReal, NoLess, Real
<1>7. HostTypes'
  BY <1>1, <1>5 DEF HostInv, HostTypes
<1>8. PromReal' /\ HostUpComplete'
  BY <1>1 DEF HostInv, PromReal, HostUpComplete
<1>9. collector = "ib" => DOMAIN hostRes' = hostList \ hostTodo'
  BY <1>1, <1>3, <1>5 DEF HostInv, HostTypes
<1>10. (\A e \in DOMAIN hostRes : PortKnown(e, hostRes[e]))'
  <2>1. \A e \in DOMAIN hostRes : PortKnown(e, hostRes[e])
    BY DEF HostInv
  <2>2. (collector = "ib" /\ r.ibstat_ok) => (r.state # None \/ d \in hostBare')
    BY <1>1, <1>4 DEF PortKnown
  <2> QED
    BY <1>1, <1>4, <2>1, <2>2 DEF PortKnown, With
<1> QED
  BY <1>1, <1>5, <1>6, <1>7, <1>8, <1>9, <1>10 DEF HostInv

\* One command brings every result there is.
LEMMA ReadAllKeeps ==
  ASSUME HostInv, NEW a \in [hostTodo -> Answer], HostReadAll(a)
  PROVE  HostInv'
<1>1. /\ UNCHANGED <<collector, hw, hostFound, hostList, prom>>
      /\ collector \in AllAtOnce /\ hostTodo' = {} /\ hostPc' = "emit"
  BY DEF HostReadAll
<1>2. /\ DOMAIN hostRes' \subseteq hostTodo
      /\ \A d \in DOMAIN hostRes' : ResultReal(d, hostRes'[d])
  BY CollectedAllReal DEF HostInv
<1>3. \A e, x : ResultReal(e, x) => ResultReal(e, x)'
  BY <1>1 DEF ResultReal, NoLess, Real
<1>4. HostTypes'
  BY <1>1, <1>2 DEF HostInv, HostTypes
<1>5. PromReal' /\ HostUpComplete'
  BY <1>1 DEF HostInv, PromReal, HostUpComplete
<1>6. collector # "ib"
  BY <1>1 DEF AllAtOnce
<1> QED
  BY <1>1, <1>2, <1>3, <1>4, <1>5, <1>6 DEF HostInv, PortKnown

-----------------------------------------------------------------------------
\* A line of a series shows the field of a device that has it.
LEMMA SeriesIs ==
  ASSUME NEW metric, NEW res, NEW field, NEW t \in Series(metric, res, field)
  PROVE  /\ t.metric = metric /\ t.dev \in DOMAIN res
         /\ t.value = res[t.dev][field] /\ res[t.dev][field] # None
BY DEF Series

LEMMA NoSeries == \A metric, field : Series(metric, <<>>, field) = {}
BY DEF Series

\* Of a result, the one counter that must not fall.
SteadyValue(r) ==
  CASE collector = "nvme"       -> r.media_errors
    [] collector = "controller" -> r.ecc_correctable
    [] collector = "nic"        -> r.roce
    [] collector = "amd"        -> r.ras
    [] collector = "pmem"       -> r.unsafe_shutdowns

\* A line about a counter that is written out shows what the results hold.
ShowsResult(t) ==
  t.metric \in ZeroOnFailure \cup SteadyCounter =>
    /\ t.dev \in DOMAIN hostRes
    /\ t.value \in 0..hw[t.dev]
    /\ t.metric \in SteadyCounter =>
         /\ t.value = SteadyValue(hostRes[t.dev])
         /\ \A s \in prom.series :
              (s.metric = t.metric /\ s.dev = t.dev) => s.value <= t.value

\* One field of the results, published as a counter.
LEMMA FieldShown ==
  ASSUME NEW metric, NEW field, NEW t \in Series(metric, hostRes, field),
         \A d \in DOMAIN hostRes : Real(d, hostRes[d][field]),
         metric \in SteadyCounter =>
           \A d \in DOMAIN hostRes :
             /\ NoLess(d, metric, hostRes[d][field])
             /\ SteadyValue(hostRes[d]) = hostRes[d][field]
  PROVE  ShowsResult(t)
<1>1. /\ t.metric = metric /\ t.dev \in DOMAIN hostRes
      /\ t.value = hostRes[t.dev][field] /\ hostRes[t.dev][field] # None
  BY SeriesIs
<1>2. t.value \in 0..hw[t.dev]
  BY <1>1 DEF Real
<1> QED
  BY <1>1, <1>2 DEF ShowsResult, NoLess
\* Another field is no counter.
LEMMA OtherShown ==
  ASSUME NEW metric, metric \notin ZeroOnFailure \cup SteadyCounter,
         NEW field, NEW t \in Series(metric, hostRes, field)
  PROVE  ShowsResult(t)
BY SeriesIs DEF ShowsResult

\* Whatever the collector, its lines show what the results hold.
LEMMA EmittedShown ==
  ASSUME HostInv, NEW t \in HostMain.series
  PROVE  ShowsResult(t)
<1> USE DEF Output
<1>1. \A d \in DOMAIN hostRes : ResultReal(d, hostRes[d])
  BY DEF HostInv
<1>2. CASE collector = "nvme"
  <2>1. \/ t \in Series("nvme_smart_media_errors_total", hostRes, "media_errors")
        \/ t \in Series("nvme_smart_temperature_celsius", hostRes, "temperature")
        \/ t \in Series("nvme_error_log_entries_total", hostRes, "error_log_count")
    BY <1>2, NoSeries DEF HostMain, nvme_main, nvme_emit_metrics
  <2>2. \A d \in DOMAIN hostRes :
          /\ NoLess(d, "nvme_smart_media_errors_total", hostRes[d].media_errors)
          /\ Real(d, hostRes[d].media_errors)
          /\ Real(d, hostRes[d].error_log_count)
          /\ SteadyValue(hostRes[d]) = hostRes[d].media_errors
    BY <1>1, <1>2 DEF ResultReal, NoLess, SteadyValue
  <2> QED
    BY <2>1, <2>2, FieldShown, OtherShown DEF ZeroOnFailure, SteadyCounter
<1>3. CASE collector = "sata"
  <2>1. \/ t \in Series("sata_smart_attribute", hostRes, "reallocated")
        \/ t \in Series("sata_smart_attribute_ssd", hostRes, "ssd_life")
        \/ t \in Series("sata_smart_passed", hostRes, "smart_passed")
        \/ t \in Series("sata_rotational", hostRes, "rotational")
    BY <1>3, NoSeries DEF HostMain, sata_main, sata_emit_metrics
  <2> QED
    BY <2>1, OtherShown DEF ZeroOnFailure, SteadyCounter
<1>4. CASE collector = "controller"
  <2>1. t \in Series("storage_controller_ecc_errors_total", hostRes, "ecc_correctable")
    BY <1>4, NoSeries DEF HostMain, controller_main, controller_emit_metrics
  <2>2. \A d \in DOMAIN hostRes :
          /\ NoLess(d, "storage_controller_ecc_errors_total", hostRes[d].ecc_correctable)
          /\ Real(d, hostRes[d].ecc_correctable)
          /\ SteadyValue(hostRes[d]) = hostRes[d].ecc_correctable
    BY <1>1, <1>4 DEF ResultReal, NoLess, SteadyValue
  <2> QED
    BY <2>1, <2>2, FieldShown
<1>5. CASE collector = "ib"
  <2>1. \/ t \in Series("ib_port_state", hostRes, "state")
        \/ t \in Series("ib_port_error_total", hostRes, "counters")
    BY <1>5 DEF HostMain, ib_main, ib_emit_metrics
  <2>2. \A d \in DOMAIN hostRes : Real(d, hostRes[d].counters)
    BY <1>1, <1>5 DEF ResultReal
  <2> QED
    BY <2>1, <2>2, FieldShown, OtherShown DEF ZeroOnFailure, SteadyCounter
<1>6. CASE collector = "nic"
  <2>1. \/ t \in Series("nic_errors_total", hostRes, "rx_errors")
        \/ t \in Series("roce_errors_total", hostRes, "roce")
    BY <1>6 DEF HostMain, nic_main, nic_emit_metrics
  <2>2. \A d \in DOMAIN hostRes :
          /\ NoLess(d, "roce_errors_total", hostRes[d].roce)
          /\ Real(d, hostRes[d].roce) /\ Real(d, hostRes[d].rx_errors)
          /\ SteadyValue(hostRes[d]) = hostRes[d].roce
    BY <1>1, <1>6 DEF ResultReal, NoLess, SteadyValue
  <2> QED
    BY <2>1, <2>2, FieldShown DEF SteadyCounter
<1>7. CASE collector = "xid"
  <2>1. \/ t \in Series("gpu_xid_error_total", hostRes, "xid")
        \/ t \in Series("gpu_ecc_sbe_total", hostRes, "sbe")
    BY <1>7 DEF HostMain, xid_main, xid_emit_metrics
  <2>2. \A d \in DOMAIN hostRes : Real(d, hostRes[d].sbe)
    BY <1>1, <1>7 DEF ResultReal
  <2> QED
    BY <2>1, <2>2, FieldShown, OtherShown DEF ZeroOnFailure, SteadyCounter
<1>8. CASE collector = "throttle"
  <2>1. \/ t \in Series("gpu_throttle_active", hostRes, "active")
        \/ t \in Series("gpu_clock_mhz", hostRes, "clock")
    BY <1>8 DEF HostMain, throttle_main, throttle_emit_metrics
  <2> QED
    BY <2>1, OtherShown DEF ZeroOnFailure, SteadyCounter
<1>9. CASE collector = "amd"
  <2>1. \/ t \in Series("amd_gpu_ras_error_total", hostRes, "ras")
        \/ t \in Series("amd_gpu_utilization_percent", hostRes, "utilization")
    BY <1>9 DEF HostMain, amd_main, amd_emit_metrics
  <2>2. \A d \in DOMAIN hostRes :
          /\ NoLess(d, "amd_gpu_ras_error_total", hostRes[d].ras)
          /\ Real(d, hostRes[d].ras)
          /\ SteadyValue(hostRes[d]) = hostRes[d].ras
    BY <1>1, <1>9 DEF ResultReal, NoLess, SteadyValue
  <2> QED
    BY <2>1, <2>2, FieldShown, OtherShown DEF ZeroOnFailure, SteadyCounter
<1>10. CASE collector = "pmem"
  <2>1. \/ t \in Series("pmem_unsafe_shutdowns_total", hostRes, "unsafe_shutdowns")
        \/ t \in Series("pmem_media_errors_total", hostRes, "media_errors")
    BY <1>10, NoSeries DEF HostMain, pmem_main, pmem_emit_metrics
  <2>2. \A d \in DOMAIN hostRes :
          /\ NoLess(d, "pmem_unsafe_shutdowns_total", hostRes[d].unsafe_shutdowns)
          /\ Real(d, hostRes[d].unsafe_shutdowns)
          /\ Real(d, hostRes[d].media_errors)
          /\ SteadyValue(hostRes[d]) = hostRes[d].unsafe_shutdowns
    BY <1>1, <1>10 DEF ResultReal, NoLess, SteadyValue
  <2> QED
    BY <2>1, <2>2, FieldShown DEF SteadyCounter
<1>11. CASE collector = "misc"
  <2>1. \/ t \in Series("pcie_aer_correctable_total", hostRes, "correctable")
        \/ t \in Series("pcie_aer_fatal_total", hostRes, "fatal")
    BY <1>11 DEF HostMain, misc_emit_metrics
  <2>2. \A d \in DOMAIN hostRes :
          Real(d, hostRes[d].correctable) /\ Real(d, hostRes[d].fatal)
    BY <1>1, <1>11 DEF ResultReal
  <2> QED
    BY <2>1, <2>2, FieldShown DEF SteadyCounter
<1> QED
  BY <1>2, <1>3, <1>4, <1>5, <1>6, <1>7, <1>8, <1>9, <1>10, <1>11
     DEF HostInv, HostTypes, OneByOne, AllAtOnce

\* A collector that says it is down shows nothing.
LEMMA DownShowsNothing ==
  ASSUME HostTypes, ~HostMain.up
  PROVE  HostMain.series = {}
<1> USE NoSeries DEF Output
<1>1. DOMAIN hostRes = {} => \A metric, field : Series(metric, hostRes, field) = {}
  BY DEF Series
<1>2. CASE collector = "nvme"
  BY <1>1, <1>2 DEF HostMain, nvme_main, nvme_emit_metrics
<1>3. CASE collector = "sata"
  BY <1>1, <1>3 DEF HostMain, sata_main, sata_emit_metrics
<1>4. CASE collector = "controller"
  BY <1>4 DEF HostMain, controller_main, detect_drivers, controller_emit_metrics
<1>5. CASE collector = "ib"
  BY <1>5 DEF HostMain, ib_main, ib_emit_metrics
<1>6. CASE collector = "nic"
  BY <1>6 DEF HostMain, nic_main, nic_emit_metrics
<1>7. CASE collector = "xid"
  BY <1>7 DEF HostMain, xid_main, xid_emit_metrics
<1>8. CASE collector = "throttle"
  BY <1>8 DEF HostMain, throttle_main, throttle_emit_metrics
<1>9. CASE collector = "amd"
  BY <1>9 DEF HostMain, amd_main, amd_emit_metrics
<1>10. CASE collector = "pmem"
  BY <1>10 DEF HostMain, pmem_main, pmem_emit_metrics
<1>11. CASE collector = "misc"
  BY <1>11 DEF HostMain, misc_emit_metrics
<1> QED
  BY <1>2, <1>3, <1>4, <1>5, <1>6, <1>7, <1>8, <1>9, <1>10, <1>11
     DEF HostTypes, OneByOne, AllAtOnce

\* An InfiniBand collector that says it is up shows every adapter that ibstat
\* told of with a port.
LEMMA UpShowsAdapters ==
  ASSUME HostInv, hostPc = "emit", collector = "ib", HostMain.up,
         NEW d \in hostList \ hostBare
  PROVE  \E s \in HostMain.series : s.dev = d /\ s.metric = "ib_port_state"
<1>1. d \in DOMAIN hostRes
  BY DEF HostInv
<1>2. hostRes[d].ibstat_ok /\ HostMain.series =
        Series("ib_port_state", hostRes, "state") \cup
        Series("ib_port_error_total", hostRes, "counters")
  BY <1>1 DEF HostMain, ib_main, ib_emit_metrics, Output
<1>3. hostRes[d].state # None
  BY <1>1, <1>2 DEF HostInv, PortKnown
<1> DEFINE s == [metric |-> "ib_port_state", dev |-> d, value |-> hostRes[d].state]
<1>4. s \in Series("ib_port_state", hostRes, "state")
  BY <1>1, <1>3 DEF Series
<1> QED
  BY <1>2, <1>4

\* The results are written to the .prom file.
LEMMA EmitKeeps ==
  ASSUME HostInv, HostEmit
  PROVE  HostInv'
<1>1. /\ prom' = HostMain /\ hostPc' = "idle" /\ hostTodo' = {} /\ hostRes' = <<>>
      /\ hostPc = "emit" /\ UNCHANGED <<collector, hw, hostFound, hostList, hostBare>>
  BY DEF HostEmit
<1>2. DOMAIN hostRes' = {}
  BY <1>1
<1>3. HostTypes'
  BY <1>1, <1>2 DEF HostInv, HostTypes
<1>4. \A t \in HostMain.series : ShowsResult(t)
  BY EmittedShown
<1>5. PromReal'
  <2>1. \A t \in HostMain.series :
          t.metric \in ZeroOnFailure \cup SteadyCounter =>
            t.dev \in Dev /\ t.value \in 0..hw[t.dev]
    BY <1>4 DEF ShowsResult, HostInv, HostTypes
  <2>2. ASSUME NEW s \in HostMain.series, NEW t \in HostMain.series,
               s.metric \in SteadyCounter, s.metric = t.metric, s.dev = t.dev
        PROVE  s.value = t.value
    <3>1. s.value = SteadyValue(hostRes[s.dev])
      BY <1>4, <2>2 DEF ShowsResult
    <3>2. t.value = SteadyValue(hostRes[t.dev])
      BY <1>4, <2>2 DEF ShowsResult
    <3> QED
      BY <2>2, <3>1, <3>2
  <2> QED
    BY <1>1, <2>1, <2>2 DEF PromReal
<1>6. HostUpComplete'
  <2>1. ~HostMain.up => HostMain.series = {}
    BY DownShowsNothing DEF HostInv
  <2>2. (collector = "ib" /\ HostMain.up) =>
          \A d \in hostList \ hostBare : \E s \in HostMain.series :
            s.dev = d /\ s.metric = "ib_port_state"
    BY <1>1, UpShowsAdapters
  <2> QED
    BY <1>1, <2>1, <2>2 DEF HostUpComplete
<1> QED
  BY <1>1, <1>2, <1>3, <1>5, <1>6 DEF HostInv

\* Every step keeps the invariant.
LEMMA HostInductive ==
  ASSUME HostInv, [HostNext]_hostVars
  PROVE  HostInv'
<1>1. CASE HostEmit
  BY <1>1, EmitKeeps
<1>2. ASSUME NEW tool \in BOOLEAN, NEW readable \in BOOLEAN,
             NEW devices \in SUBSET Dev,
             HostStart(tool, readable, devices \cup {Other})
      PROVE  HostInv'
  BY <1>2, StartKeeps
<1>3. CASE \E a \in [hostTodo -> Answer] : HostReadAll(a)
  BY <1>3, ReadAllKeeps
<1>4. CASE \E d \in Dev : HwError(d) \/ \E a \in Answer : HostRead(d, a)
  BY <1>4, HwErrorKeeps, DeviceReadKeeps
<1>5. CASE UNCHANGED hostVars
  <2>1. UNCHANGED <<collector, hw, hostPc, hostList, hostTodo, hostRes, hostBare, prom>>
    BY <1>5 DEF hostVars
  <2>2. \A d, r : ResultReal(d, r) => ResultReal(d, r)'
    BY <2>1 DEF ResultReal, NoLess, Real
  <2>3. HostTypes' /\ PromReal' /\ HostUpComplete'
    BY <2>1 DEF HostInv, HostTypes, PromReal, HostUpComplete
  <2> QED
    BY <2>1, <2>2, <2>3 DEF HostInv, PortKnown
<1> QED
  BY <1>1, <1>2, <1>3, <1>4, <1>5 DEF HostNext

\* What the results and the .prom file show is what the devices have counted.
THEOREM HostInvariant == HostSpec => []HostInv
<1>1. ASSUME HostInit
      PROVE  HostInv
  <2>1. /\ hostPc = "idle" /\ hostList = {} /\ hostTodo = {} /\ hostRes = <<>>
        /\ prom.up = FALSE /\ prom.series = {}
        /\ collector \in OneByOne \cup AllAtOnce
    BY <1>1, Zenon DEF HostInit, Output
  <2>2. DOMAIN hostRes = {}
    BY <2>1
  <2>3. hw \in [Dev -> 0..MaxCount]
    BY <1>1, HostAssumption DEF HostInit
  <2>4. HostTypes
    BY <2>1, <2>2, <2>3 DEF HostTypes
  <2>5. PromReal /\ HostUpComplete
    BY <2>1 DEF PromReal, HostUpComplete
  <2> QED
    BY <2>1, <2>2, <2>4, <2>5 DEF HostInv
<1>2. HostInv /\ [HostNext]_hostVars => HostInv'
  BY HostInductive
<1> QED
  BY <1>1, <1>2, PTL DEF HostSpec

\* For any devices, and whatever the tools answer: a collector that says it is
\* down shows nothing, and an InfiniBand collector that says it is up shows
\* every adapter but those that ibstat named without a port.
THEOREM UpIsComplete == HostSpec => []HostUpComplete
<1>1. HostInv => HostUpComplete
  BY DEF HostInv
<1> QED
  BY <1>1, HostInvariant, PTL

\* For any devices and any counts, whichever queries fail in between: no
\* collector publishes errors its device has not counted, and the counters
\* that are left out when a query fails never fall from run to run.
THEOREM CountersAreReal == HostSpec => HostCountersReal
<1> DEFINE Step == \A t \in prom'.series :
         t.metric \in ZeroOnFailure \cup SteadyCounter =>
           /\ t.value \in 0..hw[t.dev]
           /\ t.metric \in SteadyCounter =>
                \A s \in prom.series : (s.metric = t.metric /\ s.dev = t.dev)
                                         => t.value >= s.value
<1>1. ASSUME HostInv, [HostNext]_hostVars
      PROVE  Step
  <2>1. CASE HostEmit
    <3>1. prom' = HostMain
      BY <2>1 DEF HostEmit
    <3>2. \A t \in HostMain.series : ShowsResult(t)
      BY <1>1, EmittedShown
    <3>3. ASSUME NEW t \in prom'.series, t.metric \in ZeroOnFailure \cup SteadyCounter
          PROVE  t.value \in 0..hw[t.dev]
      BY <3>1, <3>2, <3>3 DEF ShowsResult
    <3>4. ASSUME NEW t \in prom'.series, t.metric \in SteadyCounter,
                 NEW s \in prom.series, s.metric = t.metric, s.dev = t.dev
          PROVE  t.value >= s.value
      <4>1. s.value <= t.value
        BY <3>1, <3>2, <3>4 DEF ShowsResult
      <4>2. s.value \in Int /\ t.value \in Int
        BY <1>1, <3>3, <3>4 DEF HostInv, PromReal
      <4> QED
        BY <4>1, <4>2
    <3> QED
      BY <3>3, <3>4
  <2>2. CASE prom' = prom
    <3>1. ASSUME NEW t \in prom.series, NEW s \in prom.series,
                 t.metric \in SteadyCounter, s.metric = t.metric, s.dev = t.dev
          PROVE  t.value >= s.value
      <4>1. s.value = t.value /\ s.value \in Int
        BY <1>1, <3>1 DEF HostInv, PromReal
      <4> QED
        BY <4>1
    <3> QED
      BY <1>1, <2>2, <3>1 DEF HostInv, PromReal
  <2>3. HostEmit \/ prom' = prom
    BY <1>1 DEF HostNext, HwError, HostStart, HostRead, HostReadAll, hostVars
  <2> QED
    BY <2>1, <2>2, <2>3
<1>2. HostInv /\ [HostNext]_hostVars => [Step]_hostVars
  BY <1>1
<1> QED
  BY <1>2, HostInvariant, PTL DEF HostSpec, HostCountersReal

-----------------------------------------------------------------------------
(***************************************************************************)
(* The wear of the drives.  The sums of a least squares line have the      *)
(* equations SumOfNone and SumOfNext; what holds of them for a history of  *)
(* any length is shown by induction over a set of lengths (UpTo).  The     *)
(* line is related to the history by Chebyshev's inequality (CovSign): if  *)
(* the line were steeper than every step, the difference of the two would  *)
(* rise with time, and still have no slope.                                *)
(***************************************************************************)
\* Induction over a set of numbers: one that has 0 and, with a number below
\* N, the next, has every number up to N.  A smallest missing one would follow
\* one that is not.
LEMMA UpTo ==
  ASSUME NEW N \in Nat, NEW S, 0 \in S, \A n \in 0..(N - 1) : n \in S => n + 1 \in S
  PROVE  0..N \subseteq S
<1> DEFINE Missing == (0..N) \ S
<1> SUFFICES ASSUME Missing # {} PROVE FALSE
  OBVIOUS
<1>1. IsWellFoundedOn(OpToRel(<, Nat), Nat)
  BY NatLessThanWellFounded
<1>2. Missing \subseteq Nat
  OBVIOUS
<1>3. PICK m \in Missing : \A n \in Missing : ~(<<n, m>> \in OpToRel(<, Nat))
  BY <1>1, <1>2, WFMin
<1>4. \A n \in Missing : ~(n < m)
  BY <1>2, <1>3 DEF OpToRel
<1>5. m \in Nat /\ m <= N /\ m # 0
  OBVIOUS
<1>6. m - 1 \in 0..(N - 1) /\ m - 1 < m /\ (m - 1) + 1 = m
  BY <1>5
<1>7. m - 1 \in S
  BY <1>4, <1>6
<1> QED
  BY <1>6, <1>7

-----------------------------------------------------------------------------
\* f holds the partial sums of a, up to that of n terms.
Partial(f, a, n) == f = [k \in 0..n |-> IF k = 0 THEN 0 ELSE f[k - 1] + a[k]]

\* There are such sums.
LEMMA PartialExists ==
  ASSUME NEW N \in Nat, NEW a
  PROVE  \A n \in 0..N : \E f : Partial(f, a, n)
<1> DEFINE S == {n \in Nat : \E f : Partial(f, a, n)}
<1>1. 0 \in S
  <2> DEFINE f == [k \in 0..0 |-> 0]
  <2>1. Partial(f, a, 0)
    BY DEF Partial
  <2> QED
    BY <2>1
<1>2. ASSUME NEW n \in 0..(N - 1), n \in S PROVE n + 1 \in S
  <2>1. PICK f : Partial(f, a, n)
    BY <1>2
  <2> DEFINE g == [k \in 0..(n + 1) |-> IF k = n + 1 THEN f[n] + a[n + 1] ELSE f[k]]
             h == [k \in 0..(n + 1) |-> IF k = 0 THEN 0 ELSE g[k - 1] + a[k]]
  <2>2. ASSUME NEW k \in 0..(n + 1) PROVE g[k] = h[k]
    <3>1. CASE k = n + 1
      <4>1. n \in 0..(n + 1) /\ n # n + 1 /\ k # 0 /\ k - 1 = n
        BY <3>1
      <4>2. g[n] = f[n]
        BY <4>1
      <4> QED
        BY <3>1, <4>1, <4>2
    <3>2. CASE k # n + 1 /\ k # 0
      <4>1. k \in 0..n /\ k - 1 \in 0..(n + 1) /\ k - 1 # n + 1
        BY <3>2
      <4>2. f[k] = f[k - 1] + a[k]
        BY <2>1, <3>2, <4>1 DEF Partial
      <4> QED
        BY <3>2, <4>1, <4>2
    <3>3. CASE k = 0
      <4>1. k \in 0..n /\ k # n + 1
        BY <3>3
      <4> QED
        BY <2>1, <3>3, <4>1 DEF Partial
    <3> QED
      BY <3>1, <3>2, <3>3
  <2>3. g = h
    BY <2>2
  <2>4. Partial(g, a, n + 1)
    BY <2>3 DEF Partial
  <2> QED
    BY <2>4
<1> HIDE DEF S
<1>3. 0..N \subseteq S
  BY <1>1, <1>2, UpTo
<1> QED
  BY <1>3 DEF S

\* They do not depend on how far they go.
LEMMA PartialAgree ==
  ASSUME NEW m \in Nat, NEW n \in Nat, m <= n, NEW a, NEW f, NEW g,
         Partial(f, a, m), Partial(g, a, n)
  PROVE  f[m] = g[m]
<1> DEFINE S == {k \in Nat : k <= m => f[k] = g[k]}
<1>1. 0 \in S
  BY DEF Partial
<1>2. ASSUME NEW k \in 0..(m - 1), k \in S PROVE k + 1 \in S
  <2>1. k + 1 \in 0..m /\ k + 1 \in 0..n /\ k + 1 # 0 /\ (k + 1) - 1 = k /\ k <= m
    OBVIOUS
  <2>2. f[k + 1] = f[k] + a[k + 1]
    BY <2>1 DEF Partial
  <2>3. g[k + 1] = g[k] + a[k + 1]
    BY <2>1 DEF Partial
  <2> QED
    BY <1>2, <2>1, <2>2, <2>3
<1> HIDE DEF S
<1>3. 0..m \subseteq S
  BY <1>1, <1>2, UpTo
<1> QED
  BY <1>3 DEF S

\* The sum is the last of the partial sums.
LEMMA WearSumIs ==
  ASSUME NEW n \in Nat, NEW a
  PROVE  \E f : Partial(f, a, n) /\ WearSum(a, n) = f[n]
<1> DEFINE sum == CHOOSE f : Partial(f, a, n)
<1>1. \E f : Partial(f, a, n)
  BY PartialExists
<1>2. Partial(sum, a, n)
  BY <1>1
<1>3. WearSum(a, n) = sum[n]
  BY DEF WearSum, Partial
<1> QED
  BY <1>2, <1>3

\* The equations of the sum.
LEMMA SumOfNone == ASSUME NEW a PROVE WearSum(a, 0) = 0
  BY WearSumIs DEF Partial

LEMMA SumOfNext ==
  ASSUME NEW n \in Nat, NEW a
  PROVE  WearSum(a, n + 1) = WearSum(a, n) + a[n + 1]
<1>1. PICK f : Partial(f, a, n) /\ WearSum(a, n) = f[n]
  BY WearSumIs
<1>2. PICK g : Partial(g, a, n + 1) /\ WearSum(a, n + 1) = g[n + 1]
  BY WearSumIs
<1>3. f[n] = g[n]
  BY <1>1, <1>2, PartialAgree
<1>4. n + 1 \in 0..(n + 1) /\ n + 1 # 0 /\ (n + 1) - 1 = n
  OBVIOUS
<1>5. g[n + 1] = g[n] + a[n + 1]
  BY <1>2, <1>4 DEF Partial
<1> QED
  BY <1>1, <1>2, <1>3, <1>5

\* Sums of integers are integers.
LEMMA SumType ==
  ASSUME NEW N \in Nat, NEW a \in [1..N -> Int]
  PROVE  \A k \in 0..N : WearSum(a, k) \in Int
<1> DEFINE S == {k \in Nat : WearSum(a, k) \in Int}
<1>1. 0 \in S
  BY SumOfNone
<1>2. ASSUME NEW k \in 0..(N - 1), k \in S PROVE k + 1 \in S
  <2>1. k \in Nat /\ k + 1 \in 1..N
    OBVIOUS
  <2>2. WearSum(a, k + 1) = WearSum(a, k) + a[k + 1]
    BY <2>1, SumOfNext
  <2>3. a[k + 1] \in Int /\ WearSum(a, k) \in Int
    BY <1>2, <2>1
  <2> QED
    BY <2>1, <2>2, <2>3
<1> HIDE DEF S
<1>3. 0..N \subseteq S
  BY <1>1, <1>2, UpTo
<1> QED
  BY <1>3 DEF S

\* A combination of two series; the sum is linear.
Mix(p, a, q, b, N) == [i \in 1..N |-> p * a[i] + q * b[i]]

LEMMA MixType ==
  ASSUME NEW N \in Nat, NEW a \in [1..N -> Int], NEW b \in [1..N -> Int],
         NEW p \in Int, NEW q \in Int
  PROVE  /\ Mix(p, a, q, b, N) \in [1..N -> Int]
         /\ \A i \in 1..N : Mix(p, a, q, b, N)[i] = p * a[i] + q * b[i]
  BY DEF Mix

LEMMA SumLinear ==
  ASSUME NEW N \in Nat, NEW a \in [1..N -> Int], NEW b \in [1..N -> Int],
         NEW p \in Int, NEW q \in Int
  PROVE  WearSum(Mix(p, a, q, b, N), N) = p * WearSum(a, N) + q * WearSum(b, N)
<1> DEFINE c == Mix(p, a, q, b, N)
           S == {k \in Nat : WearSum(c, k) = p * WearSum(a, k) + q * WearSum(b, k)}
<1>1. 0 \in S
  <2>1. WearSum(a, 0) = 0 /\ WearSum(b, 0) = 0 /\ WearSum(c, 0) = 0
    BY SumOfNone
  <2> QED
    BY <2>1
<1>2. ASSUME NEW k \in 0..(N - 1), k \in S PROVE k + 1 \in S
  <2>1. k \in Nat /\ k \in 0..N /\ k + 1 \in 1..N
    OBVIOUS
  <2>2. /\ WearSum(a, k + 1) = WearSum(a, k) + a[k + 1]
        /\ WearSum(b, k + 1) = WearSum(b, k) + b[k + 1]
        /\ WearSum(c, k + 1) = WearSum(c, k) + c[k + 1]
    BY <2>1, SumOfNext
  <2>3. c[k + 1] = p * a[k + 1] + q * b[k + 1]
    BY <2>1, MixType
  <2>4. WearSum(c, k) = p * WearSum(a, k) + q * WearSum(b, k)
    BY <1>2
  <2> DEFINE A == WearSum(a, k)
             B == WearSum(b, k)
             u == a[k + 1]
             v == b[k + 1]
  <2>5. A \in Int /\ B \in Int /\ u \in Int /\ v \in Int
    BY <2>1, SumType
  <2>6. /\ WearSum(c, k + 1) = (p * A + q * B) + (p * u + q * v)
        /\ WearSum(a, k + 1) = A + u
        /\ WearSum(b, k + 1) = B + v
    BY <2>2, <2>3, <2>4
  <2> HIDE DEF A, B, u, v, c
  <2>7. (p * A + q * B) + (p * u + q * v) = p * (A + u) + q * (B + v)
    BY <2>5
  <2>8. WearSum(c, k + 1) = p * WearSum(a, k + 1) + q * WearSum(b, k + 1)
    BY <2>6, <2>7
  <2> QED
    BY <2>1, <2>8
<1> HIDE DEF S
<1>3. 0..N \subseteq S
  BY <1>1, <1>2, UpTo
<1>4. N \in 0..N
  OBVIOUS
<1> QED
  BY <1>3, <1>4 DEF S

-----------------------------------------------------------------------------
\* n * Sxz - Sx * Sz, of which the numerator and the denominator of the slope
\* are two cases.
Times(x, z, N) == [i \in 1..N |-> x[i] * z[i]]
Cov(x, z, N, n) ==
  n * WearSum(Times(x, z, N), n) - WearSum(x, n) * WearSum(z, n)

\* The sum of (X - x[i]) * (Z - z[i]) over the first n.
Excess(x, z, N, X, Z, n) ==
  WearSum(Times(x, z, N), n) + n * (X * Z) - X * WearSum(z, n) - Z * WearSum(x, n)

\* The signs of a product.
LEMMA ProductSign ==
  ASSUME NEW a \in Int, NEW b \in Int, a > 0
  PROVE  /\ a * b \in Int
         /\ b >= 0 => a * b >= 0
         /\ b > 0 => a * b > 0
  OBVIOUS

LEMMA TimesType ==
  ASSUME NEW N \in Nat, NEW x \in [1..N -> Int], NEW z \in [1..N -> Int]
  PROVE  /\ Times(x, z, N) \in [1..N -> Int]
         /\ \A i \in 1..N : Times(x, z, N)[i] = x[i] * z[i]
  BY DEF Times

LEMMA SumsAre ==
  ASSUME NEW N \in Nat, NEW x \in [1..N -> Int], NEW z \in [1..N -> Int],
         NEW k \in 0..(N - 1)
  PROVE  /\ WearSum(x, k) \in Int
         /\ WearSum(z, k) \in Int
         /\ WearSum(Times(x, z, N), k) \in Int
         /\ WearSum(x, k + 1) = WearSum(x, k) + x[k + 1]
         /\ WearSum(z, k + 1) = WearSum(z, k) + z[k + 1]
         /\ WearSum(Times(x, z, N), k + 1)
              = WearSum(Times(x, z, N), k) + x[k + 1] * z[k + 1]
<1>1. k \in Nat /\ k \in 0..N /\ k + 1 \in 1..N
  OBVIOUS
<1>2. Times(x, z, N) \in [1..N -> Int] /\ Times(x, z, N)[k + 1] = x[k + 1] * z[k + 1]
  BY <1>1, TimesType
<1> HIDE DEF Times
<1>3. /\ WearSum(x, k + 1) = WearSum(x, k) + x[k + 1]
      /\ WearSum(z, k + 1) = WearSum(z, k) + z[k + 1]
      /\ WearSum(Times(x, z, N), k + 1) = WearSum(Times(x, z, N), k) + Times(x, z, N)[k + 1]
  BY <1>1, SumOfNext
<1>4. /\ WearSum(x, k) \in Int
      /\ WearSum(z, k) \in Int
      /\ WearSum(Times(x, z, N), k) \in Int
  BY <1>1, <1>2, SumType
<1> QED
  BY <1>2, <1>3, <1>4

\* The excess over points before X, none with more than Z, is not negative,
\* and positive when the first has less.
LEMMA ExcessSign ==
  ASSUME NEW N \in Nat, NEW x \in [1..N -> Int], NEW z \in [1..N -> Int],
         NEW X \in Int, NEW Z \in Int, NEW m \in 0..N,
         \A i \in 1..m : x[i] < X /\ z[i] <= Z
  PROVE  /\ Excess(x, z, N, X, Z, m) \in Int
         /\ Excess(x, z, N, X, Z, m) >= 0
         /\ (m > 0 /\ z[1] < Z) => Excess(x, z, N, X, Z, m) > 0
<1> DEFINE E(k) == Excess(x, z, N, X, Z, k)
           S == {k \in Nat : /\ E(k) \in Int
                             /\ E(k) >= 0
                             /\ (k > 0 /\ z[1] < Z) => E(k) > 0}
<1>1. 0 \in S
  <2>1. WearSum(x, 0) = 0 /\ WearSum(z, 0) = 0 /\ WearSum(Times(x, z, N), 0) = 0
    BY SumOfNone
  <2>2. E(0) = 0
    BY <2>1 DEF Excess
  <2> QED
    BY <2>2
<1>2. ASSUME NEW k \in 0..(m - 1), k \in S PROVE k + 1 \in S
  <2>1. k \in Nat /\ k \in Int /\ k \in 0..(N - 1) /\ k + 1 \in 1..m /\ k + 1 \in 1..N
    OBVIOUS
  <2>2. x[k + 1] \in Int /\ z[k + 1] \in Int
    BY <2>1
  <2>3. E(k + 1) = E(k) + (X - x[k + 1]) * (Z - z[k + 1])
    <3>1. /\ WearSum(x, k) \in Int
          /\ WearSum(z, k) \in Int
          /\ WearSum(Times(x, z, N), k) \in Int
          /\ WearSum(x, k + 1) = WearSum(x, k) + x[k + 1]
          /\ WearSum(z, k + 1) = WearSum(z, k) + z[k + 1]
          /\ WearSum(Times(x, z, N), k + 1)
               = WearSum(Times(x, z, N), k) + x[k + 1] * z[k + 1]
      BY <2>1, SumsAre
    <3> DEFINE P == WearSum(Times(x, z, N), k)
               A == WearSum(x, k)
               B == WearSum(z, k)
               u == x[k + 1]
               v == z[k + 1]
    <3>2. /\ E(k) = P + k * (X * Z) - X * B - Z * A
          /\ E(k + 1) = (P + u * v) + (k + 1) * (X * Z) - X * (B + v) - Z * (A + u)
      BY <3>1 DEF Excess
    <3>3. P \in Int /\ A \in Int /\ B \in Int /\ u \in Int /\ v \in Int
      BY <2>2, <3>1
    <3> HIDE DEF P, A, B, u, v, E
    <3>4. (P + u * v) + (k + 1) * (X * Z) - X * (B + v) - Z * (A + u)
            = (P + k * (X * Z) - X * B - Z * A) + (X - u) * (Z - v)
      BY <2>1, <3>3
    <3>5. E(k + 1) = E(k) + (X - u) * (Z - v)
      BY <3>2, <3>4
    <3> QED
      BY <3>5 DEF u, v
  <2>4. X - x[k + 1] \in Int /\ X - x[k + 1] > 0 /\ Z - z[k + 1] \in Int /\ Z - z[k + 1] >= 0
    BY <2>1, <2>2
  <2> DEFINE F == (X - x[k + 1]) * (Z - z[k + 1])
  <2>5. F \in Int /\ F >= 0 /\ (Z - z[k + 1] > 0 => F > 0)
    BY <2>4, ProductSign
  <2>6. E(k) \in Int /\ E(k) >= 0 /\ ((k > 0 /\ z[1] < Z) => E(k) > 0)
    BY <1>2
  <2>7. E(k + 1) = E(k) + F
    BY <2>3
  <2> HIDE DEF F, E
  <2>8. E(k + 1) \in Int /\ E(k + 1) >= 0
    BY <2>5, <2>6, <2>7
  <2>9. ASSUME z[1] < Z PROVE E(k + 1) > 0
    <3>1. CASE k > 0
      BY <2>5, <2>6, <2>7, <2>9, <3>1
    <3>2. CASE k = 0
      <4>1. z[k + 1] = z[1]
        BY <3>2
      <4>2. Z - z[k + 1] > 0
        BY <2>2, <2>9, <4>1
      <4> QED
        BY <2>5, <2>6, <2>7, <4>2
    <3> QED
      BY <2>1, <3>1, <3>2
  <2> QED
    BY <2>1, <2>8, <2>9
<1> HIDE DEF S
<1>3. 0..m \subseteq S
  <2>1. m \in Nat
    OBVIOUS
  <2> QED
    BY <1>1, <1>2, <2>1, UpTo
<1>4. m \in 0..m
  OBVIOUS
<1> QED
  BY <1>3, <1>4 DEF S

\* Chebyshev's inequality: the covariance of a series that rises with its
\* indexes and one that does not fall is not negative, and it is positive
\* when the second rises at all.
LEMMA CovSign ==
  ASSUME NEW N \in Nat \ {0}, NEW x \in [1..N -> Int], NEW z \in [1..N -> Int],
         \A i, j \in 1..N : i < j => x[i] < x[j] /\ z[i] <= z[j]
  PROVE  /\ Cov(x, z, N, N) \in Int
         /\ Cov(x, z, N, N) >= 0
         /\ z[1] < z[N] => Cov(x, z, N, N) > 0
<1> DEFINE C(k) == Cov(x, z, N, k)
           S == {k \in Nat : /\ C(k) \in Int
                             /\ C(k) >= 0
                             /\ (k > 0 /\ z[1] < z[k]) => C(k) > 0}
<1>1. 0 \in S
  <2>1. WearSum(x, 0) = 0 /\ WearSum(z, 0) = 0 /\ WearSum(Times(x, z, N), 0) = 0
    BY SumOfNone
  <2>2. C(0) = 0
    BY <2>1 DEF Cov
  <2> QED
    BY <2>2
<1>2. ASSUME NEW k \in 0..(N - 1), k \in S PROVE k + 1 \in S
  <2>1. k \in Nat /\ k \in Int /\ k \in 0..N /\ k + 1 \in 1..N
    OBVIOUS
  <2>2. x[k + 1] \in Int /\ z[k + 1] \in Int
    BY <2>1
  <2> DEFINE E == Excess(x, z, N, x[k + 1], z[k + 1], k)
  <2>3. C(k + 1) = C(k) + E
    <3>1. /\ WearSum(x, k) \in Int
          /\ WearSum(z, k) \in Int
          /\ WearSum(Times(x, z, N), k) \in Int
          /\ WearSum(x, k + 1) = WearSum(x, k) + x[k + 1]
          /\ WearSum(z, k + 1) = WearSum(z, k) + z[k + 1]
          /\ WearSum(Times(x, z, N), k + 1)
               = WearSum(Times(x, z, N), k) + x[k + 1] * z[k + 1]
      BY SumsAre
    <3> DEFINE P == WearSum(Times(x, z, N), k)
               A == WearSum(x, k)
               B == WearSum(z, k)
               u == x[k + 1]
               v == z[k + 1]
    <3>2. /\ C(k) = k * P - A * B
          /\ C(k + 1) = (k + 1) * (P + u * v) - (A + u) * (B + v)
          /\ E = P + k * (u * v) - u * B - v * A
      BY <3>1 DEF Excess, Cov
    <3>3. P \in Int /\ A \in Int /\ B \in Int /\ u \in Int /\ v \in Int
      BY <2>2, <3>1
    <3> HIDE DEF P, A, B, u, v, C, E
    <3>4. (k + 1) * (P + u * v) - (A + u) * (B + v)
            = (k * P - A * B) + (P + k * (u * v) - u * B - v * A)
      BY <2>1, <3>3
    <3> QED
      BY <3>2, <3>4
  <2>4. \A i \in 1..k : x[i] < x[k + 1] /\ z[i] <= z[k + 1]
    <3> TAKE i \in 1..k
    <3>1. i \in 1..N /\ i < k + 1
      BY <2>1
    <3> QED
      BY <2>1, <3>1
  <2>5. E \in Int /\ E >= 0 /\ ((k > 0 /\ z[1] < z[k + 1]) => E > 0)
    BY <2>1, <2>2, <2>4, ExcessSign
  <2>6. C(k) \in Int /\ C(k) >= 0
    BY <1>2
  <2> HIDE DEF E, C
  <2>7. C(k + 1) \in Int /\ C(k + 1) >= 0
    BY <2>3, <2>5, <2>6
  <2>8. ASSUME z[1] < z[k + 1] PROVE C(k + 1) > 0
    <3>1. k # 0
      <4> SUFFICES ASSUME k = 0 PROVE FALSE
        OBVIOUS
      <4>1. z[k + 1] = z[1] /\ z[1] \in Int
        BY <2>2
      <4> QED
        BY <2>8, <4>1
    <3> QED
      BY <2>1, <2>3, <2>5, <2>6, <2>8, <3>1
  <2> QED
    BY <2>1, <2>7, <2>8
<1> HIDE DEF S
<1>3. 0..N \subseteq S
  BY <1>1, <1>2, UpTo
<1>4. N \in 0..N /\ N > 0
  OBVIOUS
<1> QED
  BY <1>3, <1>4 DEF S

\* The covariance with a combination of two series is that of theirs.
LEMMA CovLinear ==
  ASSUME NEW N \in Nat, NEW x \in [1..N -> Int], NEW y \in [1..N -> Int],
         NEW w \in [1..N -> Int], NEW p \in Int, NEW q \in Int
  PROVE  Cov(x, Mix(p, y, q, w, N), N, N) = p * Cov(x, y, N, N) + q * Cov(x, w, N, N)
<1> DEFINE z == Mix(p, y, q, w, N)
           xy == Times(x, y, N)
           xw == Times(x, w, N)
<1>1. /\ xy \in [1..N -> Int]
      /\ xw \in [1..N -> Int]
      /\ z \in [1..N -> Int]
  BY TimesType, MixType
<1>2. Times(x, z, N) = Mix(p, xy, q, xw, N)
  <2>1. ASSUME NEW i \in 1..N
        PROVE  x[i] * (p * y[i] + q * w[i]) = p * (x[i] * y[i]) + q * (x[i] * w[i])
    <3> DEFINE u == x[i]
               v == y[i]
               r == w[i]
    <3>1. u \in Int /\ v \in Int /\ r \in Int
      OBVIOUS
    <3> HIDE DEF u, v, r
    <3>2. u * (p * v + q * r) = p * (u * v) + q * (u * r)
      BY <3>1
    <3> QED
      BY <3>2 DEF u, v, r
  <2>2. ASSUME NEW i \in 1..N
        PROVE  Times(x, z, N)[i] = Mix(p, xy, q, xw, N)[i]
    <3>1. Times(x, z, N)[i] = x[i] * (p * y[i] + q * w[i])
      BY DEF Times, Mix
    <3>2. Mix(p, xy, q, xw, N)[i] = p * (x[i] * y[i]) + q * (x[i] * w[i])
      BY DEF Times, Mix
    <3> QED
      BY <2>1, <3>1, <3>2
  <2> QED
    BY <2>2 DEF Times, Mix
<1>3. WearSum(z, N) = p * WearSum(y, N) + q * WearSum(w, N)
  BY SumLinear
<1>4. WearSum(Mix(p, xy, q, xw, N), N) = p * WearSum(xy, N) + q * WearSum(xw, N)
  <2> HIDE DEF xy, xw
  <2> QED
    BY <1>1, SumLinear
<1> DEFINE A == WearSum(x, N)
           B == WearSum(y, N)
           D == WearSum(w, N)
           P == WearSum(xy, N)
           Q == WearSum(xw, N)
<1>5. A \in Int /\ B \in Int /\ D \in Int /\ P \in Int /\ Q \in Int
  <2>1. N \in 0..N
    OBVIOUS
  <2> HIDE DEF xy, xw
  <2> QED
    BY <1>1, <2>1, SumType
<1>6. /\ Cov(x, z, N, N) = N * (p * P + q * Q) - A * (p * B + q * D)
      /\ Cov(x, y, N, N) = N * P - A * B
      /\ Cov(x, w, N, N) = N * Q - A * D
  BY <1>2, <1>3, <1>4 DEF Cov
<1> HIDE DEF A, B, D, P, Q
<1>7. N * (p * P + q * Q) - A * (p * B + q * D)
        = p * (N * P - A * B) + q * (N * Q - A * D)
  BY <1>5
<1> QED
  BY <1>6, <1>7

-----------------------------------------------------------------------------
\* A series that rises at each step rises from any point to any later one.
LEMMA RisesOn ==
  ASSUME NEW N \in Nat, NEW z \in [1..N -> Int],
         \A i \in 1..(N - 1) : z[i] < z[i + 1]
  PROVE  \A i, j \in 1..N : i < j => z[i] < z[j]
<1> DEFINE S == {j \in Nat : j \in 1..N => \A i \in 1..N : i < j => z[i] < z[j]}
<1>1. 0 \in S
  OBVIOUS
<1>2. ASSUME NEW k \in 0..(N - 1), k \in S PROVE k + 1 \in S
  <2>1. k \in Nat /\ k + 1 \in 1..N
    OBVIOUS
  <2>2. ASSUME NEW i \in 1..N, i < k + 1 PROVE z[i] < z[k + 1]
    <3>1. k \in 1..(N - 1) /\ k \in 1..N
      BY <2>2
    <3>2. z[k] < z[k + 1] /\ z[k] \in Int /\ z[k + 1] \in Int /\ z[i] \in Int
      BY <2>1, <3>1
    <3>3. i = k \/ i < k
      BY <2>2
    <3>4. i < k => z[i] < z[k]
      BY <1>2, <3>1
    <3> QED
      BY <3>2, <3>3, <3>4
  <2> QED
    BY <2>1, <2>2
<1> HIDE DEF S
<1>3. 0..N \subseteq S
  BY <1>1, <1>2, UpTo
<1> QED
  BY <1>3 DEF S

\* One that stays at each step stays.
LEMMA StaysOn ==
  ASSUME NEW N \in Nat, NEW z \in [1..N -> Int],
         \A i \in 1..(N - 1) : z[i + 1] = z[i]
  PROVE  \A i \in 1..N : z[i] = z[1]
<1> DEFINE S == {j \in Nat : j \in 1..N => z[j] = z[1]}
<1>1. 0 \in S
  OBVIOUS
<1>2. ASSUME NEW k \in 0..(N - 1), k \in S PROVE k + 1 \in S
  <2>1. k = 0 \/ k \in 1..(N - 1)
    OBVIOUS
  <2>2. k \in 1..(N - 1) => z[k + 1] = z[1]
    BY <1>2
  <2> QED
    BY <2>1, <2>2
<1> HIDE DEF S
<1>3. 0..N \subseteq S
  BY <1>1, <1>2, UpTo
<1> QED
  BY <1>3 DEF S

\* Points in order of time, with values that do not fall.
InOrder(x, y, N) == \A i, j \in 1..N : i < j => x[i] < x[j] /\ y[i] <= y[j]

\* No line is steeper than every step, and none is flatter.
LEMMA NotSteeper ==
  ASSUME NEW N \in Nat, N > 1, NEW x \in [1..N -> Int], NEW y \in [1..N -> Int],
         NEW p \in Int, NEW q \in Int,
         \A i, j \in 1..N : i < j => x[i] < x[j],
         \A i \in 1..(N - 1) : p * (y[i + 1] - y[i]) + q * (x[i + 1] - x[i]) > 0
  PROVE  p * Cov(x, y, N, N) + q * Cov(x, x, N, N) > 0
<1> DEFINE z == Mix(p, y, q, x, N)
<1>1. z \in [1..N -> Int] /\ \A i \in 1..N : z[i] = p * y[i] + q * x[i]
  BY MixType
<1>2. ASSUME NEW i \in 1..(N - 1) PROVE z[i] < z[i + 1]
  <2>1. i \in 1..N /\ i + 1 \in 1..N
    OBVIOUS
  <2>2. z[i] = p * y[i] + q * x[i] /\ z[i + 1] = p * y[i + 1] + q * x[i + 1]
    BY <1>1, <2>1
  <2> DEFINE a == y[i]
             b == y[i + 1]
             c == x[i]
             d == x[i + 1]
  <2>3. a \in Int /\ b \in Int /\ c \in Int /\ d \in Int
    BY <2>1
  <2>4. p * (b - a) + q * (d - c) > 0
    OBVIOUS
  <2> HIDE DEF a, b, c, d, z
  <2>5. p * (b - a) + q * (d - c) = (p * b + q * d) - (p * a + q * c)
    BY <2>3
  <2>6. p * b + q * d \in Int /\ p * a + q * c \in Int
    BY <2>3
  <2>7. p * a + q * c < p * b + q * d
    BY <2>4, <2>5, <2>6
  <2> QED
    BY <2>2, <2>7 DEF a, b, c, d
<1> HIDE DEF z
<1>3. \A i, j \in 1..N : i < j => z[i] < z[j]
  BY <1>1, <1>2, RisesOn
<1>4. ASSUME NEW i \in 1..N, NEW j \in 1..N, i < j PROVE x[i] < x[j] /\ z[i] <= z[j]
  <2>1. z[i] < z[j] /\ z[i] \in Int /\ z[j] \in Int
    BY <1>1, <1>3, <1>4
  <2>2. \A a, b \in Int : a < b => a <= b
    OBVIOUS
  <2>3. x[i] < x[j]
    BY <1>4, Zenon
  <2> QED
    BY <2>1, <2>2, <2>3, Zenon
<1>5. 1 \in 1..N /\ N \in 1..N
  OBVIOUS
<1>6. z[1] < z[N]
  BY <1>3, <1>5
<1>7. N \in Nat \ {0}
  OBVIOUS
<1>8. Cov(x, z, N, N) > 0
  BY <1>1, <1>4, <1>6, <1>7, CovSign
<1>9. Cov(x, z, N, N) = p * Cov(x, y, N, N) + q * Cov(x, x, N, N)
  BY CovLinear DEF z
<1> QED
  BY <1>8, <1>9

\* With one point there is no line.
LEMMA CovOfOne ==
  ASSUME NEW x \in [1..1 -> Int], NEW z \in [1..1 -> Int]
  PROVE  Cov(x, z, 1, 1) = 0
<1>1. /\ WearSum(x, 0) = 0
      /\ WearSum(z, 0) = 0
      /\ WearSum(Times(x, z, 1), 0) = 0
  BY SumOfNone
<1>2. 0 \in 0..(1 - 1) /\ 0 + 1 = 1 /\ 1 \in Nat
  OBVIOUS
<1>3. /\ WearSum(x, 1) = WearSum(x, 0) + x[1]
      /\ WearSum(z, 1) = WearSum(z, 0) + z[1]
      /\ WearSum(Times(x, z, 1), 1) = WearSum(Times(x, z, 1), 0) + x[1] * z[1]
  BY <1>2, SumsAre
<1>4. x[1] \in Int /\ z[1] \in Int
  OBVIOUS
<1> QED
  BY <1>1, <1>3, <1>4 DEF Cov

\* The line through points in order: it does not fall, it is flat just when
\* no value rises, and its slope lies between those of the flattest and of
\* the steepest step.
LineFits(x, y, N, num, den) ==
  /\ num \in Int /\ den \in Int /\ num >= 0
  /\ den = 0 <=> N = 1
  /\ N > 1 =>
       /\ den > 0
       /\ \E i \in 1..(N - 1) : num * (x[i + 1] - x[i]) >= den * (y[i + 1] - y[i])
       /\ \E i \in 1..(N - 1) : num * (x[i + 1] - x[i]) <= den * (y[i + 1] - y[i])
  /\ num <= 0 <=> \A i \in 1..(N - 1) : y[i + 1] - y[i] = 0

\* So does the one of the least squares.
LEMMA SlopeBetween ==
  ASSUME NEW N \in Nat \ {0}, NEW x \in [1..N -> Int], NEW y \in [1..N -> Int],
         InOrder(x, y, N)
  PROVE  LineFits(x, y, N, Cov(x, y, N, N), Cov(x, x, N, N))
<1> DEFINE num == Cov(x, y, N, N)
           den == Cov(x, x, N, N)
<1>1. \A i, j \in 1..N : i < j => x[i] < x[j] /\ y[i] <= y[j]
  BY DEF InOrder
<1>2. \A i, j \in 1..N : i < j => x[i] < x[j] /\ x[i] <= x[j]
  BY <1>1
<1>3. 1 \in 1..N /\ N \in 1..N
  OBVIOUS
<1>4. num \in Int /\ num >= 0 /\ (y[1] < y[N] => num > 0)
  BY <1>1, CovSign
<1>5. den \in Int /\ den >= 0 /\ (x[1] < x[N] => den > 0)
  BY <1>2, CovSign
<1>6. N > 1 => x[1] < x[N]
  BY <1>1, <1>3
<1>7. N = 1 => den = 0
  BY CovOfOne
<1>8. den = 0 <=> N = 1
  BY <1>5, <1>6, <1>7
<1>9. ASSUME N > 1, \A i \in 1..(N - 1) : ~(num * (x[i + 1] - x[i]) >= den * (y[i + 1] - y[i]))
      PROVE  FALSE
  <2>1. -num \in Int
    BY <1>4
  <2>2. ASSUME NEW i \in 1..(N - 1)
        PROVE  den * (y[i + 1] - y[i]) + (-num) * (x[i + 1] - x[i]) > 0
    <3> DEFINE a == y[i + 1] - y[i]
               b == x[i + 1] - x[i]
    <3>1. a \in Int /\ b \in Int
      OBVIOUS
    <3>2. ~(num * b >= den * a)
      BY <1>9
    <3> HIDE DEF a, b
    <3>3. num * b \in Int /\ den * a \in Int /\ (-num) * b = -(num * b)
      BY <1>4, <1>5, <3>1
    <3>4. den * a + (-num) * b > 0
      BY <3>2, <3>3
    <3> QED
      BY <3>4 DEF a, b
  <2>3. \A i, j \in 1..N : i < j => x[i] < x[j]
    BY <1>1
  <2>4. N \in Nat /\ den \in Int
    BY <1>5
  <2>5. den * Cov(x, y, N, N) + (-num) * Cov(x, x, N, N) > 0
    BY <1>9, <2>1, <2>2, <2>3, <2>4, NotSteeper
  <2>6. den * num + (-num) * den > 0
    BY <2>5
  <2>7. den * num + (-num) * den = 0
    BY <1>4, <1>5
  <2> QED
    BY <2>6, <2>7
<1>10. ASSUME N > 1, \A i \in 1..(N - 1) : ~(num * (x[i + 1] - x[i]) <= den * (y[i + 1] - y[i]))
       PROVE  FALSE
  <2>1. -den \in Int
    BY <1>5
  <2>2. ASSUME NEW i \in 1..(N - 1)
        PROVE  (-den) * (y[i + 1] - y[i]) + num * (x[i + 1] - x[i]) > 0
    <3> DEFINE a == y[i + 1] - y[i]
               b == x[i + 1] - x[i]
    <3>1. a \in Int /\ b \in Int
      OBVIOUS
    <3>2. ~(num * b <= den * a)
      BY <1>10
    <3> HIDE DEF a, b
    <3>3. num * b \in Int /\ den * a \in Int /\ (-den) * a = -(den * a)
      BY <1>4, <1>5, <3>1
    <3>4. (-den) * a + num * b > 0
      BY <3>2, <3>3
    <3> QED
      BY <3>4 DEF a, b
  <2>3. \A i, j \in 1..N : i < j => x[i] < x[j]
    BY <1>1
  <2>4. N \in Nat /\ num \in Int
    BY <1>4
  <2>5. (-den) * Cov(x, y, N, N) + num * Cov(x, x, N, N) > 0
    BY <1>10, <2>1, <2>2, <2>3, <2>4, NotSteeper
  <2>6. (-den) * num + num * den > 0
    BY <2>5
  <2>7. (-den) * num + num * den = 0
    BY <1>4, <1>5
  <2> QED
    BY <2>6, <2>7
<1>11. ASSUME num <= 0, NEW i \in 1..(N - 1) PROVE y[i + 1] - y[i] = 0
  <2>1. i \in 1..N /\ i + 1 \in 1..N /\ 1 <= i /\ i < i + 1 /\ i + 1 <= N
    OBVIOUS
  <2>2. y[1] \in Int /\ y[N] \in Int /\ y[i] \in Int /\ y[i + 1] \in Int
    BY <1>3, <2>1
  <2>3. ~(y[1] < y[N])
    BY <1>4, <1>11
  <2>4. y[1] <= y[i] /\ y[i] <= y[i + 1] /\ y[i + 1] <= y[N]
    BY <1>1, <1>3, <2>1, <2>2
  <2> QED
    BY <2>2, <2>3, <2>4
<1>12. ASSUME \A i \in 1..(N - 1) : y[i + 1] - y[i] = 0 PROVE num <= 0
  <2> DEFINE p == -1
             q == 0
             z == Mix(p, y, q, y, N)
  <2>0. p = -1 /\ q = 0
    OBVIOUS
  <2>9. p \in Int /\ q \in Int /\ N \in Nat
    OBVIOUS
  <2> HIDE DEF p, q
  <2>1. z \in [1..N -> Int] /\ \A i \in 1..N : z[i] = p * y[i] + q * y[i]
    <3>1. z \in [1..N -> Int]
      BY <2>9, MixType
    <3>2. \A i \in 1..N : z[i] = p * y[i] + q * y[i]
      BY DEF Mix
    <3> QED
      BY <3>1, <3>2
  <2>2. \A i \in 1..(N - 1) : y[i + 1] = y[i]
    <3> TAKE i \in 1..(N - 1)
    <3>1. y[i] \in Int /\ y[i + 1] \in Int /\ y[i + 1] - y[i] = 0
      BY <1>12
    <3> QED
      BY <3>1
  <2>3. N \in Nat
    OBVIOUS
  <2>4. \A i \in 1..N : y[i] = y[1]
    BY <2>2, <2>3, StaysOn
  <2>5. \A i \in 1..N : z[i] = p * y[1] + q * y[1]
    BY <2>1, <2>4
  <2>6. Cov(x, z, N, N) = p * Cov(x, y, N, N) + q * Cov(x, y, N, N)
    BY <2>9, CovLinear
  <2> HIDE DEF z
  <2>7. \A i, j \in 1..N : i < j => x[i] < x[j] /\ z[i] <= z[j]
    <3> TAKE i, j \in 1..N
    <3>1. z[i] = z[j] /\ z[i] \in Int
      BY <2>1, <2>5
    <3> QED
      BY <1>1, <3>1
  <2>8. Cov(x, z, N, N) >= 0
    BY <2>1, <2>7, CovSign
  <2> QED
    BY <1>4, <2>0, <2>6, <2>8
<1>13. N > 1 =>
         /\ den > 0
         /\ \E i \in 1..(N - 1) : num * (x[i + 1] - x[i]) >= den * (y[i + 1] - y[i])
         /\ \E i \in 1..(N - 1) : num * (x[i + 1] - x[i]) <= den * (y[i + 1] - y[i])
  BY <1>5, <1>6, <1>9, <1>10, Zenon
<1>14. num <= 0 <=> \A i \in 1..(N - 1) : y[i + 1] - y[i] = 0
  BY <1>11, <1>12, Zenon
<1> QED
  BY <1>4, <1>5, <1>8, <1>13, <1>14, Zenon DEF LineFits

-----------------------------------------------------------------------------
\* Samples of a drive that was not replaced.
Worn(s) == /\ s \in Seq(Nat \X Nat)
           /\ \A i, j \in 1..Len(s) : i < j => s[i][1] < s[j][1] /\ s[i][2] <= s[j][2]

\* What WearSlope says of a prediction from samples.
RateReal(s, r) ==
  IF r.insufficient THEN s[Len(s)][1] - s[1][1] < MIN_HISTORY \/ Len(s) = 1
  ELSE /\ \E i \in 1..(Len(s) - 1) :
            r.slope[1] * WearSpan(s, i) >= r.slope[2] * WearRise(s, i)
       /\ \E i \in 1..(Len(s) - 1) :
            r.slope[1] * WearSpan(s, i) <= r.slope[2] * WearRise(s, i)
       /\ (r.days[2] = 0) = (\A i \in 1..(Len(s) - 1) : WearRise(s, i) = 0)

\* The prediction is the least squares line through the points.
LEMMA PredictionReal ==
  ASSUME NEW s, Worn(s), s # <<>>
  PROVE  RateReal(s, predict_device(s))
<1> DEFINE N == Len(s)
           t0 == s[1][1]
           points == [i \in DOMAIN s |-> <<s[i][1] - t0, s[i][2]>>]
           x == [i \in 1..N |-> points[i][1]]
           y == [i \in 1..N |-> points[i][2]]
           slope == ols_slope_intercept(points)
           num == slope.num
           den == slope.den
           r == predict_device(s)
<1>1. /\ N \in Nat \ {0}
      /\ DOMAIN s = 1..N
      /\ \A i \in 1..N : s[i] \in Nat \X Nat
  BY DEF Worn
<1>2. \A i \in 1..N : s[i][1] \in Nat /\ s[i][2] \in Nat
  BY <1>1
<1>3. t0 \in Nat
  BY <1>1, <1>2
<1>4. /\ DOMAIN points = 1..N
      /\ \A i \in 1..N : points[i][1] = s[i][1] - t0 /\ points[i][2] = s[i][2]
  BY <1>1
<1>5. Len(points) = N
  <2>1. points \in Seq(Int \X Nat)
    BY <1>1, <1>2, <1>3
  <2> QED
    BY <1>1, <1>4, <2>1
<1>6. /\ x \in [1..N -> Int] /\ y \in [1..N -> Int]
      /\ \A i \in 1..N : x[i] = s[i][1] - t0 /\ y[i] = s[i][2]
  BY <1>2, <1>3, <1>4
<1> HIDE DEF t0
<1>7. InOrder(x, y, N)
  <2>1. \A i, j \in 1..N : i < j => s[i][1] < s[j][1] /\ s[i][2] <= s[j][2]
    BY DEF Worn
  <2> SUFFICES ASSUME NEW i \in 1..N, NEW j \in 1..N, i < j
               PROVE  x[i] < x[j] /\ y[i] <= y[j]
    BY DEF InOrder
  <2>2. s[i][1] < s[j][1] /\ s[i][2] <= s[j][2]
    BY <2>1
  <2>3. x[i] = s[i][1] - t0 /\ x[j] = s[j][1] - t0 /\ y[i] = s[i][2] /\ y[j] = s[j][2]
    BY <1>6
  <2>4. s[i][1] \in Nat /\ s[j][1] \in Nat
    BY <1>2
  <2> HIDE DEF x, y
  <2> QED
    BY <1>3, <2>2, <2>3, <2>4
<1>8. num = Cov(x, y, N, N) /\ den = Cov(x, x, N, N)
  <2>1. /\ Times(x, y, N) = [i \in 1..N |-> points[i][1] * points[i][2]]
        /\ Times(x, x, N) = [i \in 1..N |-> points[i][1] * points[i][1]]
    BY DEF Times
  <2> HIDE DEF points
  <2> QED
    BY <1>5, <2>1 DEF ols_slope_intercept, Cov
<1> HIDE DEF points, x, y, num, den, slope
<1>9. /\ num \in Int /\ den \in Int /\ num >= 0
      /\ den = 0 <=> N = 1
      /\ N > 1 =>
           /\ den > 0
           /\ \E i \in 1..(N - 1) : num * (x[i + 1] - x[i]) >= den * (y[i + 1] - y[i])
           /\ \E i \in 1..(N - 1) : num * (x[i + 1] - x[i]) <= den * (y[i + 1] - y[i])
      /\ num <= 0 <=> \A i \in 1..(N - 1) : y[i + 1] - y[i] = 0
<2>1. LineFits(x, y, N, num, den)
    BY <1>1, <1>6, <1>7, <1>8, SlopeBetween
  <2> HIDE DEF N
  <2> QED
    BY <2>1, Zenon DEF LineFits
<1>10. ASSUME NEW i \in 1..(N - 1)
       PROVE  x[i + 1] - x[i] = WearSpan(s, i) /\ y[i + 1] - y[i] = WearRise(s, i)
  <2>1. i \in 1..N /\ i + 1 \in 1..N
    BY <1>1
  <2>2. /\ x[i] = s[i][1] - t0 /\ x[i + 1] = s[i + 1][1] - t0
        /\ y[i] = s[i][2] /\ y[i + 1] = s[i + 1][2]
    BY <1>6, <2>1
  <2>3. s[i][1] \in Nat /\ s[i + 1][1] \in Nat
    BY <1>2, <2>1
  <2> QED
    BY <1>3, <2>2, <2>3 DEF WearSpan, WearRise
<1> DEFINE short == s[N][1] - s[1][1] < MIN_HISTORY \/ den = 0
           left == FullWear - s[N][2]
           hours == IF left < 0 THEN 0 ELSE left * den
<1>11. /\ short => r.insufficient
       /\ ~short =>
            /\ ~r.insufficient
            /\ r.slope = <<num, den>>
            /\ num <= 0 => r.days = <<0, 0>>
            /\ num > 0 => r.days \in {<<MAX_DAYS, 1>>, <<hours, num>>}
  <2>1. N \in 1..N
    BY <1>1
  <2>2. points[N][1] = s[N][1] - s[1][1]
    BY <1>4, <2>1 DEF t0
  <2> DEFINE ps == [i \in DOMAIN s |-> <<s[i][1] - s[1][1], s[i][2]>>]
  <2>3. ps = points
    BY DEF points, t0
  <2>4. num \in Int
    BY <1>9, Zenon
  <2> DEFINE none == [insufficient |-> TRUE, slope |-> <<0, 1>>, days |-> <<0, 0>>,
                      prob_90d |-> FALSE]
             days == IF num <= 0 THEN <<0, 0>>
                     ELSE IF hours > MAX_DAYS * num THEN <<MAX_DAYS, 1>>
                     ELSE <<hours, num>>
             prob == num > 0 /\ hours < Soon * num
             line == [insufficient |-> FALSE, slope |-> <<num, den>>, days |-> days,
                      prob_90d |-> prob]
  <2>5. r = IF points[Len(points)][1] < MIN_HISTORY \/ den = 0 THEN none ELSE line
    BY <2>3 DEF predict_device, num, den, slope
  <2>6. /\ num <= 0 => days = <<0, 0>>
        /\ num > 0 => days \in {<<MAX_DAYS, 1>>, <<hours, num>>}
    <3> HIDE DEF hours
    <3> QED
      BY <2>4
  <2> HIDE DEF r, days, prob, hours
  <2>7. r = IF short THEN none ELSE line
    BY <1>5, <2>2, <2>5
  <2> HIDE DEF short
  <2>8. short => r.insufficient
    BY <2>7
  <2>9. ~short => ~r.insufficient /\ r.slope = <<num, den>> /\ r.days = days
    BY <2>7
  <2> QED
    BY <2>6, <2>8, <2>9
<1>12. CASE short
  <2>1. s[N][1] - s[1][1] < MIN_HISTORY \/ N = 1
    BY <1>9, <1>12
  <2> HIDE DEF r, short
  <2>2. RateReal(s, r)
    BY <1>11, <1>12, <2>1 DEF RateReal
  <2> QED
    BY <2>2 DEF r
<1>13. CASE ~short
  <2>1. N > 1 /\ num \in Int /\ den \in Int
    BY <1>1, <1>9, <1>13
  <2> HIDE DEF r, short, hours
  <2>2. ~r.insufficient /\ r.slope[1] = num /\ r.slope[2] = den
    BY <1>11, <1>13
  <2>3. r.days[2] = 0 <=> num <= 0
    <3>1. CASE num <= 0
      BY <1>11, <1>13, <3>1
    <3>2. CASE num > 0
      <4>1. r.days = <<MAX_DAYS, 1>> \/ r.days = <<hours, num>>
        BY <1>11, <1>13, <3>2
      <4> QED
        BY <2>1, <3>2, <4>1
    <3> QED
      BY <2>1, <3>1, <3>2
  <2> HIDE DEF N
  <2>4. \E i \in 1..(N - 1) : num * WearSpan(s, i) >= den * WearRise(s, i)
    BY <1>9, <1>10, <2>1, Zenon
  <2>5. \E i \in 1..(N - 1) : num * WearSpan(s, i) <= den * WearRise(s, i)
    BY <1>9, <1>10, <2>1, Zenon
  <2>6. num <= 0 <=> \A i \in 1..(N - 1) : WearRise(s, i) = 0
    BY <1>9, <1>10, Zenon
  <2>7. (r.days[2] = 0) = (\A i \in 1..(N - 1) : WearRise(s, i) = 0)
    BY <2>3, <2>6
  <2>8. RateReal(s, r)
    BY <2>2, <2>4, <2>5, <2>7 DEF RateReal, N
  <2> QED
    BY <2>8 DEF r
<1> QED
  BY <1>12, <1>13

-----------------------------------------------------------------------------
\* Until the drive is replaced its samples are in order and none is above its
\* wear; what is published is the prediction from such samples.
WearInv ==
  /\ wearNow \in Nat /\ wear \in Nat /\ wearReplaced \in BOOLEAN
  /\ ~wearReplaced =>
       /\ Worn(wearSamples)
       /\ \A i \in 1..Len(wearSamples) :
            wearSamples[i][1] <= wearNow /\ wearSamples[i][2] <= wear
       /\ wearProm.result # <<>> =>
            /\ Worn(wearProm.samples) /\ wearProm.samples # <<>>
            /\ wearProm.result = <<predict_device(wearProm.samples)>>

\* The next sample is the latest, and has the most wear.
LEMMA SampleKeeps ==
  ASSUME NEW s, Worn(s), NEW t \in Nat, NEW v \in Nat,
         \A i \in 1..Len(s) : s[i][1] < t /\ s[i][2] <= v
  PROVE  /\ Worn(Append(s, <<t, v>>))
         /\ \A i \in 1..Len(Append(s, <<t, v>>)) :
              Append(s, <<t, v>>)[i][1] <= t /\ Append(s, <<t, v>>)[i][2] <= v
<1> DEFINE u == Append(s, <<t, v>>)
           N == Len(s)
<1>1. s \in Seq(Nat \X Nat) /\ N \in Nat
  BY DEF Worn
<1>2. u \in Seq(Nat \X Nat)
  BY <1>1
<1>3. /\ Len(u) = N + 1
      /\ \A i \in 1..N : u[i] = s[i]
      /\ u[N + 1] = <<t, v>>
  BY <1>1
<1>4. \A i \in 1..N : s[i] \in Nat \X Nat
  BY <1>1
<1>5. \A i, j \in 1..N : i < j => s[i][1] < s[j][1] /\ s[i][2] <= s[j][2]
  BY DEF Worn
<1> HIDE DEF u, N
<1>6. \A i \in 1..(N + 1) : i \in 1..N \/ i = N + 1
  BY <1>1
<1>7. ASSUME NEW i \in 1..(N + 1), NEW j \in 1..(N + 1), i < j
      PROVE  u[i][1] < u[j][1] /\ u[i][2] <= u[j][2]
  <2>1. i \in 1..N /\ u[i] = s[i]
    BY <1>1, <1>3, <1>7
  <2>2. CASE j \in 1..N
    BY <1>3, <1>5, <1>7, <2>1, <2>2
  <2>3. CASE j = N + 1
    <3>1. u[j][1] = t /\ u[j][2] = v
      BY <1>3, <2>3
    <3>2. s[i][1] < t /\ s[i][2] <= v
      BY <2>1 DEF N
    <3> QED
      BY <2>1, <3>1, <3>2
  <2> QED
    BY <1>6, <2>2, <2>3
<1>8. ASSUME NEW i \in 1..(N + 1) PROVE u[i][1] <= t /\ u[i][2] <= v
  <2>1. CASE i \in 1..N
    <3>1. s[i][1] < t /\ s[i][2] <= v /\ s[i] \in Nat \X Nat
      BY <1>4, <2>1 DEF N
    <3>2. s[i][1] \in Nat
      BY <3>1
    <3> QED
      BY <1>3, <2>1, <3>1, <3>2
  <2>2. CASE i = N + 1
    BY <1>3, <2>2
  <2> QED
    BY <1>6, <2>1, <2>2
<1>9. Worn(u)
  BY <1>2, <1>3, <1>7 DEF Worn
<1> QED
  BY <1>3, <1>8, <1>9 DEF u

\* The last samples of a drive are samples of it.
LEMMA LastWorn ==
  ASSUME NEW s, Worn(s), NEW m \in Nat \ {0}
  PROVE  Worn(SubSeq(s, m, Len(s)))
<1> DEFINE u == SubSeq(s, m, Len(s))
           N == Len(s)
<1>1. s \in Seq(Nat \X Nat) /\ N \in Nat
  BY DEF Worn
<1>2. CASE m > N
  <2>1. u = <<>>
    BY <1>1, <1>2
  <2> QED
    BY <2>1 DEF Worn
<1>3. CASE m <= N
  <2>1. /\ u \in Seq(Nat \X Nat)
        /\ Len(u) = N - m + 1
        /\ \A i \in 1..(N - m + 1) : u[i] = s[m + i - 1]
    BY <1>1, <1>3
  <2>2. \A i, j \in 1..N : i < j => s[i][1] < s[j][1] /\ s[i][2] <= s[j][2]
    BY DEF Worn
  <2> HIDE DEF u, N
  <2>3. ASSUME NEW i \in 1..Len(u), NEW j \in 1..Len(u), i < j
        PROVE  u[i][1] < u[j][1] /\ u[i][2] <= u[j][2]
    <3>1. m + i - 1 \in 1..N /\ m + j - 1 \in 1..N /\ m + i - 1 < m + j - 1
      BY <1>1, <1>3, <2>1, <2>3
    <3>2. u[i] = s[m + i - 1] /\ u[j] = s[m + j - 1]
      BY <2>1
    <3> QED
      BY <2>2, <3>1, <3>2
  <2>4. Worn(u)
    BY <2>1, <2>3 DEF Worn
  <2> QED
    BY <2>4 DEF u, N
<1> QED
  BY <1>1, <1>2, <1>3

\* Prometheus answers with nothing, or with the last samples.
LEMMA AnswerWorn ==
  ASSUME WearInv, ~wearReplaced, NEW query, NEW ok
  PROVE  \/ query_prometheus_range(query, ok) = <<>>
         \/ Worn(query_prometheus_range(query, ok))
<1> DEFINE before == {i \in DOMAIN wearSamples : wearSamples[i][1] < wearNow - RANGE}
<1>1. Worn(wearSamples)
  BY DEF WearInv
<1>2. DOMAIN wearSamples = 1..Len(wearSamples) /\ Len(wearSamples) \in Nat
  BY <1>1 DEF Worn
<1>3. IsFiniteSet(1..Len(wearSamples))
  BY <1>2, FS_Interval
<1>4. IsFiniteSet(before)
  BY <1>2, <1>3, FS_Subset
<1>5. Cardinality(before) + 1 \in Nat \ {0}
  <2>1. Cardinality(before) \in Nat
    BY <1>4, FS_CardinalityType
  <2> QED
    BY <2>1
<1> HIDE DEF before
<1>6. Worn(SubSeq(wearSamples, Cardinality(before) + 1, Len(wearSamples)))
  BY <1>1, <1>5, LastWorn
<1> QED
  BY <1>6, Zenon DEF query_prometheus_range, before

\* A run publishes the prediction from one of the answers.
LEMMA RunKeeps ==
  ASSUME WearInv, NEW nvmeOk \in BOOLEAN, NEW sataOk \in BOOLEAN, WearRun(nvmeOk, sataOk)
  PROVE  WearInv'
<1> DEFINE nvme == query_prometheus_range(NVME_QUERY, nvmeOk)
           sata == query_prometheus_range(SATA_QUERY, sataOk)
           found == extract_device_series({nvme, sata})
           samples == IF found = {} THEN <<>> ELSE CHOOSE s \in found : TRUE
           result == IF found = {} THEN <<>> ELSE <<predict_device(samples)>>
<1>1. /\ wearProm' = [at |-> wearNow, answered |-> nvmeOk /\ sataOk,
                      samples |-> samples, result |-> result]
      /\ UNCHANGED <<wearNow, wear, wearSeries, wearSamples, wearReplaced>>
  BY Zenon DEF WearRun
<1>2. ASSUME ~wearReplaced, found # {}
      PROVE  Worn(samples) /\ samples # <<>>
  <2>1. nvme = <<>> \/ Worn(nvme)
    BY <1>2, AnswerWorn
  <2>2. sata = <<>> \/ Worn(sata)
    BY <1>2, AnswerWorn
  <2>3. \A s \in found : s # <<>> /\ (s = nvme \/ s = sata)
    BY Zenon DEF extract_device_series
  <2> HIDE DEF nvme, sata, found
  <2>4. samples \in found
    BY <1>2
  <2> QED
    BY <2>1, <2>2, <2>3, <2>4
<1>3. ASSUME found = {} PROVE result = <<>>
  BY <1>3
<1>4. ASSUME found # {} PROVE result = <<predict_device(samples)>>
  BY <1>4
<1>5. wearProm'.samples = samples /\ wearProm'.result = result
  <2> HIDE DEF samples, result
  <2> QED
    BY <1>1
<1> HIDE DEF found, samples, result
<1>6. ASSUME ~wearReplaced, wearProm'.result # <<>>
      PROVE  /\ Worn(wearProm'.samples) /\ wearProm'.samples # <<>>
             /\ wearProm'.result = <<predict_device(wearProm'.samples)>>
  BY <1>2, <1>3, <1>4, <1>5, <1>6
<1> QED
  BY <1>1, <1>6 DEF WearInv, Worn

\* For any histories, and any gaps in the scrapes: until the drive is
\* replaced the samples are in order, and what is published comes from them.
THEOREM WearInvariant == WearSpec => []WearInv
<1>1. WearInit => WearInv
  <2> SUFFICES ASSUME WearInit PROVE WearInv
    OBVIOUS
  <2>1. wearSamples = <<>> /\ wearNow = 0 /\ wear = 0 /\ wearReplaced = FALSE
    BY DEF WearInit
  <2>2. wearProm.result = <<>>
    BY DEF WearInit, WearNothing
  <2>3. \A i \in 1..Len(<<>>) : FALSE
    OBVIOUS
  <2>4. Worn(<<>>)
    BY <2>3 DEF Worn
  <2> QED
    BY <2>1, <2>2, <2>3, <2>4 DEF WearInv
<1>2. ASSUME WearInv, [WearNext]_wearVars PROVE WearInv'
  <2>1. ASSUME NEW step \in 0..MaxStep, NEW scraped \in BOOLEAN, WearTick(step, scraped)
        PROVE  WearInv'
    <3>1. /\ wearNow' = wearNow + 1
          /\ wear' = wear + step
          /\ wearSamples' = IF scraped THEN Append(wearSamples, <<wearNow', wear'>>)
                            ELSE wearSamples
          /\ UNCHANGED <<wearReplaced, wearProm>>
      BY <2>1 DEF WearTick
    <3>2. wearNow \in Nat /\ wear \in Nat /\ wearReplaced \in BOOLEAN
      BY <1>2 DEF WearInv
    <3>3. step \in Nat
      BY WearAssumption
    <3>4. wearNow' \in Nat /\ wear' \in Nat /\ wearNow < wearNow' /\ wear <= wear'
      BY <3>1, <3>2, <3>3
    <3>5. ASSUME ~wearReplaced
          PROVE  /\ Worn(wearSamples')
                 /\ \A i \in 1..Len(wearSamples') :
                      wearSamples'[i][1] <= wearNow' /\ wearSamples'[i][2] <= wear'
      <4>1. Worn(wearSamples)
        BY <1>2, <3>5 DEF WearInv
      <4>2. ASSUME NEW i \in 1..Len(wearSamples)
            PROVE  wearSamples[i][1] < wearNow' /\ wearSamples[i][2] <= wear'
        <5>1. wearSamples[i][1] <= wearNow /\ wearSamples[i][2] <= wear
          BY <1>2, <3>5 DEF WearInv
        <5>2. wearSamples[i] \in Nat \X Nat
          BY <4>1 DEF Worn
        <5>3. wearSamples[i][1] \in Nat /\ wearSamples[i][2] \in Nat
          BY <5>2
        <5> QED
          BY <3>2, <3>4, <5>1, <5>3
      <4>3. CASE scraped
        <5>1. wearSamples' = Append(wearSamples, <<wearNow', wear'>>)
          BY <3>1, <4>3
        <5> QED
          BY <3>4, <4>1, <4>2, <5>1, SampleKeeps
      <4>4. CASE ~scraped
        <5>1. wearSamples' = wearSamples
          BY <3>1, <4>4
        <5>2. \A i \in 1..Len(wearSamples) : wearSamples[i] \in Nat \X Nat
          BY <4>1 DEF Worn
        <5>3. ASSUME NEW i \in 1..Len(wearSamples)
              PROVE  wearSamples[i][1] <= wearNow'
          <6>1. wearSamples[i][1] \in Nat /\ wearSamples[i][1] < wearNow'
            BY <4>2, <5>2
          <6> QED
            BY <3>4, <6>1
        <5> QED
          BY <4>1, <4>2, <5>1, <5>3
      <4> QED
        BY <4>3, <4>4
    <3> QED
      BY <1>2, <3>1, <3>2, <3>4, <3>5 DEF WearInv
  <2>2. ASSUME NEW nvmeOk \in BOOLEAN, NEW sataOk \in BOOLEAN, WearRun(nvmeOk, sataOk)
        PROVE  WearInv'
    BY <1>2, <2>2, RunKeeps
  <2>3. CASE WearReplace
    BY <1>2, <2>3 DEF WearReplace, WearInv
  <2>4. CASE UNCHANGED wearVars
    BY <1>2, <2>4 DEF WearInv, Worn, wearVars
  <2> QED
    BY <1>2, <2>1, <2>2, <2>3, <2>4 DEF WearNext
<1> QED
  BY <1>1, <1>2, PTL DEF WearSpec

\* The wear rate that predict_device publishes lies between those of the
\* flattest and of the steepest step of the history, for any history; it says
\* that there is no wear just when there was none.
THEOREM WearRateReal == WearSpec => []WearSlope
<1>1. ASSUME WearInv PROVE WearSlope
  <2> SUFFICES ASSUME wearProm.result # <<>>, ~wearReplaced
               PROVE  RateReal(wearProm.samples, wearProm.result[1])
    BY DEF WearSlope, RateReal
  <2>1. /\ Worn(wearProm.samples) /\ wearProm.samples # <<>>
        /\ wearProm.result = <<predict_device(wearProm.samples)>>
    BY <1>1 DEF WearInv
  <2>2. wearProm.result[1] = predict_device(wearProm.samples)
    BY <2>1
  <2> QED
    BY <2>1, <2>2, PredictionReal
<1> QED
  BY <1>1, WearInvariant, PTL
=============================================================================
