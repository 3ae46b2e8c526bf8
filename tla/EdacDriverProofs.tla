-------------------------- MODULE EdacDriverProofs --------------------------
(***************************************************************************)
(* For every topology, every injection limit and every counter width: the  *)
(* driver conserves the errors it is given, keeps its statistics in step   *)
(* with the EDAC core, charges the right location while the target is not  *)
(* moved, and never touches a freed controller.                            *)
(***************************************************************************)
EXTENDS EdacDriver, TLAPS

(***************************************************************************)
(* The inductive invariant.  Each conjunct is what the next one needs: the *)
(* life-cycle facts say that a fresh controller is never drained, a batch  *)
(* in flight is positive, its arguments are the current target until that  *)
(* moves, and the three accounts balance at every stage of the drain.      *)
(***************************************************************************)
Draining == {"stats", "args", "report"}

LifeInv ==
  /\ debugfs => life = "bound"
  /\ stage # "idle" => Registered

BatchInv == stage \in Draining => batch > 0

ArgsInv ==
  /\ stage \notin {"args", "report"} => argRow = NotLoaded /\ argCh = NotLoaded
  /\ stage = "report" => argRow # NotLoaded /\ argCh # NotLoaded
  /\ ~moved => argRow \in {NotLoaded, csrow} /\ argCh \in {NotLoaded, channel}

PendingInv == \A k \in Kind : k \notin wrapped => sim[k] >= 0

Counting(k) ==
  IF kind = k /\ stage \in {"args", "report"} THEN batch ELSE 0

StatsInv ==
  \A k \in Kind : k \notin cut => total[k] = mcCount[k] + Counting(k)

RasInv == stage = "clear" => ras \in {"logged", "late"}

IInv ==
  /\ TypeOK
  /\ LifeInv
  /\ BatchInv
  /\ ArgsInv
  /\ PendingInv
  /\ StatsInv
  /\ Conserved
  /\ AttributedWhenTargetStable
  /\ LocationsInTopology
  /\ RasInv
  /\ RasLoggedBeforeClear

(***************************************************************************)
(* What probe writes into a fresh controller has the right types.          *)
(***************************************************************************)
LEMMA ResetTypes ==
  /\ Zero \in [Kind -> Nat]
  /\ Zero \in [Kind -> (-HalfRange) .. (HalfRange - 1)]
  /\ ZeroAt \in [Kind -> [Loc -> Nat]]
  /\ 0 \in Row /\ 0 \in Ch
  BY TopologyAssumption, LimitAssumption DEF Zero, ZeroAt, Row, Ch

(***************************************************************************)
(* The accounts balance at zero.                                           *)
(***************************************************************************)
LEMMA ResetAccounts ==
  /\ \A k \in Kind : Zero[k] = 0
  /\ \A k \in Kind : \A l \in Loc : ZeroAt[k][l] = 0
  BY DEF Zero, ZeroAt

(***************************************************************************)
(* Adding n to one counter of a table of counters leaves the others alone; *)
(* both the injection history and the EDAC core's table are kept this way. *)
(***************************************************************************)
CountAt(f, k, at, n) == [f EXCEPT ![k][at] = @ + n]

LEMMA CountOne ==
  ASSUME NEW f \in [Kind -> [Loc -> Nat]], NEW k \in Kind, NEW at \in Loc,
         NEW n \in Nat
  PROVE  /\ CountAt(f, k, at, n) \in [Kind -> [Loc -> Nat]]
         /\ \A j \in Kind : \A l \in Loc : CountAt(f, k, at, n)[j][l] =
              f[j][l] + (IF j = k /\ l = at THEN n ELSE 0)
  <1> DEFINE g == CountAt(f, k, at, n)
  <1>1. f[k] \in [Loc -> Nat] /\ f[k][at] \in Nat
    OBVIOUS
  <1> DEFINE row == [f[k] EXCEPT ![at] = @ + n]
  <1>2. row \in [Loc -> Nat]
    BY <1>1
  <1>3. g = [f EXCEPT ![k] = row]
    BY DEF CountAt
  <1> HIDE DEF g
  <1>4. \A l \in Loc : row[l] = f[k][l] + (IF l = at THEN n ELSE 0)
    BY <1>1
  <1>5. g \in [Kind -> [Loc -> Nat]]
    BY <1>2, <1>3
  <1>6. g[k] = row /\ \A j \in Kind : j # k => g[j] = f[j]
    BY <1>3
  <1> HIDE DEF row
  <1>7. ASSUME NEW j \in Kind, NEW l \in Loc
        PROVE  g[j][l] = f[j][l] + (IF j = k /\ l = at THEN n ELSE 0)
    <2>1. f[j][l] \in Nat
      OBVIOUS
    <2>2. CASE j = k
      BY <1>4, <1>6, <2>2
    <2>3. CASE j # k
      BY <1>6, <2>1, <2>3
    <2> QED BY <2>2, <2>3
  <1> QED BY <1>5, <1>7 DEF g

(***************************************************************************)
(* The core is passed a number of errors, and all of them if they fit.     *)
(***************************************************************************)
LEMMA AsU16Is ==
  ASSUME NEW n \in Nat
  PROVE  /\ AsU16(n) \in Nat /\ AsU16(n) <= n
         /\ n < CountRange => AsU16(n) = n
  BY LimitAssumption DEF AsU16

(***************************************************************************)
(* The module is loaded with no controller: the invariant holds.           *)
(***************************************************************************)
LEMMA InitIInv == Init => IInv
  <1> SUFFICES ASSUME Init PROVE IInv
    OBVIOUS
  <1>1. TypeOK
    <2>1. kind \in Kind
      BY DEF Init, Kind
    <2>2. irqMode \in BOOLEAN /\ debugfs \in BOOLEAN /\ rasLost \in BOOLEAN
          /\ moved \in BOOLEAN
      BY LimitAssumption DEF Init
    <2> QED BY <2>1, <2>2, ResetTypes, LimitAssumption DEF Init, TypeOK
  <1>2. Conserved /\ AttributedWhenTargetStable /\ PendingInv /\ StatsInv
    BY ResetAccounts DEF Init, Conserved, AttributedWhenTargetStable, PendingInv,
       StatsInv, InFlight, Counting
  <1>3. LifeInv /\ BatchInv /\ ArgsInv /\ LocationsInTopology /\ RasInv
        /\ RasLoggedBeforeClear
    BY DEF Init, LifeInv, BatchInv, ArgsInv, LocationsInTopology, RasInv,
           RasLoggedBeforeClear, Draining
  <1> QED BY <1>1, <1>2, <1>3 DEF IInv

(***************************************************************************)
(* Probe: a fresh controller; nothing is being drained.                    *)
(***************************************************************************)
LEMMA ProbeAllocIInv == IInv /\ ProbeAlloc => IInv'
  <1> SUFFICES ASSUME IInv, ProbeAlloc PROVE IInv'
    OBVIOUS
  <1>1. stage = "idle"
    BY DEF IInv, LifeInv, ProbeAlloc, Registered
  <1>2. TypeOK'
    BY ResetTypes DEF IInv, TypeOK, ProbeAlloc, pollVars, rasVars
  <1>3. (Conserved /\ AttributedWhenTargetStable /\ PendingInv /\ StatsInv)'
    BY <1>1, ResetAccounts
       DEF ProbeAlloc, Conserved, AttributedWhenTargetStable, PendingInv,
           StatsInv, InFlight, Counting, pollVars
  <1>4. (LifeInv /\ BatchInv /\ ArgsInv /\ LocationsInTopology /\ RasInv
        /\ RasLoggedBeforeClear)'
    BY <1>1 DEF IInv, ProbeAlloc, LifeInv, BatchInv, ArgsInv, RasInv,
           LocationsInTopology, RasLoggedBeforeClear, Draining, pollVars,
           rasVars
  <1> QED BY <1>2, <1>3, <1>4 DEF IInv

(***************************************************************************)
(* A write to inject_ce or inject_ue: what is queued is pending, at the    *)
(* current target, unless the counter wraps.                               *)
(***************************************************************************)
LEMMA InjectWriteIInv ==
  ASSUME IInv, NEW k \in Kind, NEW val \in Int, InjectWrite(k, val)
  PROVE  IInv'
  <1> USE DEF IInv
  <1> DEFINE here == <<csrow, channel>>
  <1>1. val \in Nat /\ val < HalfRange /\ val > 0
    BY LimitAssumption DEF InjectWrite, Limit
  <1>2. here \in Loc
    BY DEF TypeOK, Loc
  <1>3. /\ sim[k] \in (-HalfRange) .. (HalfRange - 1)
        /\ queued[k] \in Nat
        /\ queuedAt \in [Kind -> [Loc -> Nat]]
        /\ queuedAt' = CountAt(queuedAt, k, here, val)
    BY DEF TypeOK, InjectWrite, CountAt
  <1>4. AtomicAdd(sim[k], val) \in (-HalfRange) .. (HalfRange - 1)
    BY <1>1, <1>3, LimitAssumption DEF AtomicAdd
  <1>5. /\ queuedAt' \in [Kind -> [Loc -> Nat]]
        /\ \A j \in Kind : \A l \in Loc : queuedAt'[j][l] =
             queuedAt[j][l] + (IF j = k /\ l = here THEN val ELSE 0)
    <2> HIDE DEF here, IInv
    <2> DEFINE g == CountAt(queuedAt, k, here, val)
    <2>0. /\ k \in Kind /\ here \in Loc /\ val \in Nat
          /\ queuedAt \in [Kind -> [Loc -> Nat]]
      BY <1>1, <1>2, <1>3
    <2>1. /\ g \in [Kind -> [Loc -> Nat]]
          /\ \A j \in Kind : \A l \in Loc :
               g[j][l] = queuedAt[j][l] + (IF j = k /\ l = here THEN val ELSE 0)
      BY ONLY <2>0, CountOne
    <2>2. queuedAt' = g
      BY <1>3
    <2> QED BY ONLY <2>1, <2>2
  <1>6. TypeOK'
    BY <1>1, <1>3, <1>4, <1>5
       DEF TypeOK, InjectWrite, driverVars, targetVars, pollVars, coreVars,
           rasVars
  <1>7. k \notin wrapped' => k \notin wrapped /\ sim'[k] = sim[k] + val
    BY <1>1, <1>3, LimitAssumption DEF InjectWrite, AtomicAdd, TypeOK
  <1>8. \A j \in Kind : j # k => /\ sim'[j] = sim[j] /\ queued'[j] = queued[j]
                                 /\ (j \in wrapped' <=> j \in wrapped)
    BY DEF InjectWrite, TypeOK
  <1>9. queued'[k] = queued[k] + val
    BY DEF InjectWrite, TypeOK
  <1>10. \A j \in Kind : /\ InFlight(j)' = InFlight(j) /\ InFlight(j) \in Int
                         /\ mcCount[j] \in Int /\ sim[j] \in Int
    BY DEF InjectWrite, InFlight, pollVars, TypeOK
  <1>11. UNCHANGED <<total, mcCount, dimmCount, cut, moved, csrow, channel>>
    BY DEF InjectWrite, coreVars, targetVars
  <1>12. Conserved' /\ PendingInv'
    BY <1>1, <1>3, <1>7, <1>8, <1>9, <1>10, <1>11 DEF Conserved, PendingInv
  <1>13. AttributedWhenTargetStable'
    <2> SUFFICES ASSUME NEW j \in Kind, NEW l \in Loc, ~moved, j \notin wrapped',
                        j \notin cut
                 PROVE queuedAt'[j][l] = dimmCount[j][l] +
                        (IF l = here THEN sim'[j] + InFlight(j) ELSE 0)
      BY <1>10, <1>11 DEF AttributedWhenTargetStable
    <2>1. dimmCount[j][l] \in Nat /\ sim[j] \in Int /\ queuedAt[j][l] \in Nat
      BY <1>10 DEF TypeOK
    <2>2. CASE j = k
      BY <1>1, <1>5, <1>7, <1>10, <2>1, <2>2 DEF AttributedWhenTargetStable
    <2>3. CASE j # k
      BY <1>1, <1>5, <1>8, <2>1, <2>3 DEF AttributedWhenTargetStable
    <2> QED BY <2>2, <2>3
  <1>14. (LifeInv /\ BatchInv /\ ArgsInv /\ StatsInv /\ LocationsInTopology
          /\ RasInv /\ RasLoggedBeforeClear)'
    BY DEF InjectWrite, LifeInv, BatchInv, ArgsInv, StatsInv, Counting, RasInv,
           LocationsInTopology, RasLoggedBeforeClear, Registered, driverVars,
           targetVars, pollVars, coreVars, rasVars
  <1> QED BY <1>6, <1>12, <1>13, <1>14

(***************************************************************************)
(* The report: the batch moves from the drain to the core's counters, at   *)
(* the target if nobody moved it.                                          *)
(***************************************************************************)
LEMMA ReportIInv == IInv /\ Report => IInv'
  <1> SUFFICES ASSUME IInv, Report PROVE IInv'
    OBVIOUS
  <1> USE DEF IInv
  <1> DEFINE at == <<argRow, argCh>>
             n == AsU16(batch)
  <1>1. /\ stage = "report" /\ kind \in Kind /\ batch \in Nat /\ batch > 0
        /\ argRow \in Row /\ argCh \in Ch
    BY DEF Report, TypeOK, BatchInv, ArgsInv, Draining
  <1>2. at \in Loc
    BY <1>1 DEF Loc
  <1>n. n \in Nat /\ (batch < CountRange => n = batch)
    BY <1>1, AsU16Is
  <1>3. /\ mcCount' = [mcCount EXCEPT ![kind] = @ + n]
        /\ dimmCount' = CountAt(dimmCount, kind, at, n)
        /\ UNCHANGED noinfo
        /\ cut' = IF batch < CountRange THEN cut ELSE cut \cup {kind}
    BY <1>2 DEF CountAt, Report, edac_mc_handle_error
  <1>4. /\ dimmCount' \in [Kind -> [Loc -> Nat]]
        /\ \A j \in Kind : \A l \in Loc : dimmCount'[j][l] =
             dimmCount[j][l] + (IF j = kind /\ l = at THEN n ELSE 0)
    <2>1. dimmCount \in [Kind -> [Loc -> Nat]]
      BY DEF TypeOK
    <2> HIDE DEF at, n, IInv
    <2> DEFINE g == CountAt(dimmCount, kind, at, n)
    <2>2. /\ g \in [Kind -> [Loc -> Nat]]
          /\ \A j \in Kind : \A l \in Loc : g[j][l] =
               dimmCount[j][l] + (IF j = kind /\ l = at THEN n ELSE 0)
      <3>1. kind \in Kind /\ at \in Loc /\ n \in Nat
        BY <1>1, <1>2, <1>n
      <3> QED BY ONLY <3>1, <2>1, CountOne
    <2>3. dimmCount' = g
      BY <1>3
    <2> QED BY ONLY <2>2, <2>3
  <1> HIDE DEF n
  <1>5. stage' \in {"xchg", "ras"} /\ kind' \in Kind
    BY <1>1 DEF Report, AfterKind, Kind
  <1>6. TypeOK'
    <2>1. /\ mcCount' \in [Kind -> Nat] /\ noinfo' \in Nat
          /\ cut' \subseteq Kind
      BY <1>1, <1>3, <1>n DEF TypeOK
    <2>2. batch' = 0 /\ argRow' = NotLoaded /\ argCh' = NotLoaded
      BY DEF Report
    <2> QED
      BY <1>4, <1>5, <2>1, <2>2, LimitAssumption
         DEF TypeOK, Report, driverVars, targetVars, rasVars
  <1>7. \A j \in Kind :
          /\ InFlight(j) = IF j = kind THEN batch ELSE 0
          /\ InFlight(j)' = 0
          /\ Counting(j) = IF j = kind THEN batch ELSE 0
          /\ Counting(j)' = 0
    BY <1>1, <1>5 DEF InFlight, Counting
  <1>8. \A j \in Kind : mcCount[j] \in Nat /\ sim[j] \in Int
    BY DEF TypeOK
  <1>9. \A j \in Kind : j \notin cut' =>
          j \notin cut /\ mcCount'[j] = mcCount[j] + InFlight(j)
    BY <1>1, <1>3, <1>n, <1>7, <1>8 DEF TypeOK
  <1>10. UNCHANGED <<sim, total, queued, queuedAt, wrapped, moved, csrow,
                     channel>>
    BY DEF Report, targetVars
  <1>11. (Conserved /\ StatsInv /\ PendingInv)'
    BY <1>1, <1>7, <1>8, <1>9, <1>10 DEF Conserved, StatsInv, PendingInv
  <1>12. AttributedWhenTargetStable'
    <2> SUFFICES ASSUME NEW j \in Kind, NEW l \in Loc, ~moved, j \notin wrapped,
                        j \notin cut'
                 PROVE queuedAt[j][l] = dimmCount'[j][l] +
                        (IF l = <<csrow, channel>> THEN sim[j] + 0 ELSE 0)
      BY <1>7, <1>10 DEF AttributedWhenTargetStable
    <2>1. at = <<csrow, channel>>
      BY <1>1 DEF ArgsInv, NotLoaded, Row, Ch, TypeOK
    <2>2. dimmCount[j][l] \in Nat
      BY DEF TypeOK
    <2>3. j \notin cut /\ (j = kind => n = batch)
      BY <1>1, <1>3, <1>n
    <2> QED
      BY <1>1, <1>4, <1>7, <1>8, <2>1, <2>2, <2>3 DEF AttributedWhenTargetStable
  <1>13. (LifeInv /\ BatchInv /\ ArgsInv /\ LocationsInTopology /\ RasInv
          /\ RasLoggedBeforeClear)'
    BY <1>1, <1>3, <1>5
       DEF Report, LifeInv, BatchInv, ArgsInv, RasInv, LocationsInTopology,
           RasLoggedBeforeClear, Registered, Draining, driverVars, targetVars,
           rasVars
  <1> QED BY <1>6, <1>11, <1>12, <1>13

(***************************************************************************)
(* Moving the target: either nothing is queued or in flight, and then no   *)
(* account depends on the target, or the move is remembered in moved.      *)
(***************************************************************************)
LEMMA TargetWriteIInv ==
  ASSUME IInv, csrow' \in Row, channel' \in Ch,
         moved' = (moved \/ (<<csrow, channel>>' # <<csrow, channel>> /\ Busy)),
         UNCHANGED <<driverVars, sim, total, pollVars, coreVars, queued,
                     queuedAt, wrapped, cut, rasVars>>
  PROVE  IInv'
  <1> USE DEF IInv
  <1>1. TypeOK'
    <2>1. moved' \in BOOLEAN
      BY Zenon
    <2> QED BY <2>1 DEF TypeOK, driverVars, pollVars, coreVars, rasVars
  <1>2. \A j \in Kind : InFlight(j)' = InFlight(j) /\ Counting(j)' = Counting(j)
    BY DEF InFlight, Counting, pollVars
  <1>3. (LifeInv /\ BatchInv /\ PendingInv /\ StatsInv /\ Conserved
         /\ LocationsInTopology /\ RasInv /\ RasLoggedBeforeClear)'
    BY <1>2 DEF LifeInv, BatchInv, PendingInv, StatsInv, Conserved, RasInv,
       LocationsInTopology, RasLoggedBeforeClear, Registered, Draining,
       driverVars, pollVars, coreVars, rasVars
  <1>4. UNCHANGED <<stage, argRow, argCh, sim, dimmCount, queuedAt, wrapped, cut>>
    BY DEF pollVars, coreVars
  <1>5. CASE moved'
    BY <1>1, <1>3, <1>4, <1>5 DEF AttributedWhenTargetStable, ArgsInv
  <1>6. CASE ~moved /\ csrow' = csrow /\ channel' = channel
    BY <1>1, <1>2, <1>3, <1>4, <1>6 DEF AttributedWhenTargetStable, ArgsInv
  <1>7. CASE ~moved /\ ~Busy
    <2>1. \A j \in Kind : sim[j] = 0 /\ InFlight(j) = 0
      BY <1>7 DEF Busy
    <2>2. stage \notin Draining
      BY <2>1 DEF InFlight, TypeOK, BatchInv, Draining
    <2>3. ArgsInv'
      BY <1>4, <2>2 DEF ArgsInv, Draining
    <2>4. \A j \in Kind : \A l \in Loc :
            j \notin wrapped \cup cut => queuedAt[j][l] = dimmCount[j][l] + 0
      BY <1>7, <2>1 DEF AttributedWhenTargetStable
    <2>5. AttributedWhenTargetStable'
      BY <1>2, <1>4, <2>1, <2>4 DEF AttributedWhenTargetStable
    <2> QED BY <1>1, <1>3, <2>3, <2>5
  <1> QED BY <1>5, <1>6, <1>7

(***************************************************************************)
(* Probe and remove beyond the allocation, and the switch of irq_mode: the *)
(* accounts are left alone.                                                *)
(***************************************************************************)
LEMMA LifeIInv ==
  ASSUME IInv, LifeInv',
         life' \in {"none", "alloc", "added", "bound", "removing"},
         debugfs' \in BOOLEAN, irqMode' \in BOOLEAN,
         UNCHANGED <<sim, targetVars, total, pollVars, coreVars, histVars,
                     rasVars>>
  PROVE  IInv'
  <1> USE DEF IInv, targetVars, pollVars, coreVars, histVars, rasVars
  <1>1. TypeOK'
    BY DEF TypeOK
  <1>2. \A j \in Kind : InFlight(j)' = InFlight(j) /\ Counting(j)' = Counting(j)
    BY DEF InFlight, Counting
  <1>3. (Conserved /\ AttributedWhenTargetStable /\ PendingInv /\ StatsInv)'
    BY <1>2 DEF Conserved, AttributedWhenTargetStable, PendingInv, StatsInv
  <1>4. (BatchInv /\ ArgsInv /\ LocationsInTopology /\ RasInv
         /\ RasLoggedBeforeClear)'
    BY DEF BatchInv, ArgsInv, LocationsInTopology, RasInv,
           RasLoggedBeforeClear, Draining
  <1> QED BY <1>1, <1>3, <1>4

(***************************************************************************)
(* Every step preserves the invariant, action by action.                   *)
(***************************************************************************)
LEMMA NextIInv == IInv /\ [Next]_vars => IInv'
  <1> SUFFICES ASSUME IInv, [Next]_vars PROVE IInv'
    OBVIOUS
  <1>1. CASE ProbeAlloc
    BY <1>1, ProbeAllocIInv
  <1>2. ASSUME NEW k \in Kind, NEW val \in 0..(Limit(k) + 1),
               InjectWrite(k, val)
        PROVE  IInv'
    BY <1>2, InjectWriteIInv, LimitAssumption DEF Limit
  <1>3. ASSUME NEW val \in 0..NrCsrows, InjectCsrowWrite(val) PROVE IInv'
    <2>1. csrow' \in Row /\ channel' \in Ch
      BY <1>3, TopologyAssumption DEF InjectCsrowWrite, Row, IInv, TypeOK
    <2> QED BY <1>3, <2>1, TargetWriteIInv DEF InjectCsrowWrite
  <1>4. ASSUME NEW val \in 0..NrChannels, InjectChannelWrite(val) PROVE IInv'
    <2>1. csrow' \in Row /\ channel' \in Ch
      BY <1>4, TopologyAssumption DEF InjectChannelWrite, Ch, IInv, TypeOK
    <2> QED BY <1>4, <2>1, TargetWriteIInv DEF InjectChannelWrite
  <1>5. CASE Report
    BY <1>5, ReportIInv
  <1>6. ASSUME NEW ok \in BOOLEAN, ProbeAddMc(ok) PROVE IInv'
    BY <1>6, LifeIInv DEF ProbeAddMc, driverVars, IInv, LifeInv, TypeOK,
       pollVars, Registered
  <1>7. ASSUME NEW ok \in BOOLEAN, ProbeDebugfs(ok) PROVE IInv'
    BY <1>7, LifeIInv DEF ProbeDebugfs, IInv, LifeInv, TypeOK, pollVars,
       Registered
  <1>8. CASE RemoveDebugfs
    BY <1>8, LifeIInv DEF RemoveDebugfs, IInv, LifeInv, TypeOK, pollVars,
       Registered
  <1>9. CASE RemoveDelMc
    BY <1>9, LifeIInv DEF RemoveDelMc, IInv, LifeInv, TypeOK, pollVars
  <1>10. ASSUME NEW mode \in IrqModes, SetIrqMode(mode) PROVE IInv'
    BY <1>10, LifeIInv, LimitAssumption DEF SetIrqMode, IInv, LifeInv, TypeOK,
       pollVars, Registered
  <1> USE TopologyAssumption, LimitAssumption
      DEF IInv, TypeOK, LifeInv, BatchInv, ArgsInv, PendingInv, StatsInv,
          Conserved, AttributedWhenTargetStable, LocationsInTopology, RasInv,
          RasLoggedBeforeClear, Counting, InFlight, Draining, Kind, NotLoaded,
          Row, Ch, Registered, driverVars, targetVars, pollVars, coreVars,
          histVars, rasVars
  <1>11. CASE PollBegin
    BY <1>11 DEF PollBegin
  <1>12. CASE Xchg
    BY <1>12 DEF Xchg, AfterKind
  <1>13. CASE AddStats
    BY <1>13 DEF AddStats
  <1>14. CASE LoadCsrow
    BY <1>14 DEF LoadCsrow
  <1>15. CASE LoadChannel
    BY <1>15 DEF LoadChannel
  <1>16. CASE RasRead
    BY <1>16 DEF RasRead
  <1>17. CASE RasClear
    BY <1>17 DEF RasClear
  <1>18. CASE RasCapture
    BY <1>18 DEF RasCapture
  <1>19. CASE UNCHANGED vars
    BY <1>19 DEF vars
  <1> QED
    BY <1>1, <1>2, <1>3, <1>4, <1>5, <1>6, <1>7, <1>8, <1>9, <1>10,
       <1>11, <1>12, <1>13, <1>14, <1>15, <1>16, <1>17, <1>18, <1>19
       DEF Next, Lifecycle, Debugfs, Poll

-----------------------------------------------------------------------------
\* The invariant holds in every reachable state.
THEOREM Invariance == Spec => []IInv
  BY InitIInv, NextIInv, PTL DEF Spec

\* Type correctness, including the range of the two atomic counters that
\* inject_ce_write and inject_ue_write add to.
THEOREM TypeCorrect == Spec => []TypeOK
  <1>1. IInv => TypeOK
    BY DEF IInv
  <1> QED BY <1>1, Invariance, PTL

\* cortex_ref_irq_drain neither loses nor duplicates an error, however its
\* steps interleave with the debugfs writers.
THEOREM Conservation == Spec => []Conserved
  <1>1. IInv => Conserved
    BY DEF IInv
  <1> QED BY <1>1, Invariance, PTL

\* Between two drains the stats file shows what the EDAC core counted.
THEOREM StatsCorrect == Spec => []StatsAgree
  <1>1. IInv => StatsAgree
    BY DEF IInv, TypeOK, StatsInv, Counting, StatsAgree
  <1> QED BY <1>1, Invariance, PTL

\* Errors are charged to the csrow and channel they were queued for as long as
\* the target stays put while they are queued.
THEOREM Attribution == Spec => []AttributedWhenTargetStable
  <1>1. IInv => AttributedWhenTargetStable
    BY DEF IInv
  <1> QED BY <1>1, Invariance, PTL

\* edac_mc_handle_error is only given locations of the probed topology.
THEOREM Topology == Spec => []LocationsInTopology
  <1>1. IInv => LocationsInTopology
    BY DEF IInv
  <1> QED BY <1>1, Invariance, PTL

\* cortex_ref_remove frees the controller only when nobody can use it.
THEOREM MemorySafety == Spec => []NoUseAfterFree
  <1>1. IInv => NoUseAfterFree
    BY DEF IInv, LifeInv, NoUseAfterFree, Alive, Registered
  <1> QED BY <1>1, Invariance, PTL

\* Whatever the hardware captures between the read of the RAS record and its
\* clear, cortex_ref_poll drops only an error that took the place of one it
\* has just logged.
THEOREM RasLogged == Spec => []RasLoggedBeforeClear
  <1>1. IInv => RasLoggedBeforeClear
    BY DEF IInv
  <1> QED BY <1>1, Invariance, PTL

-----------------------------------------------------------------------------
(***************************************************************************)
(* The driver as a ledger                                                  *)
(***************************************************************************)

\* The variables of the ledger; a step that leaves them alone is a stutter.
Accounts == <<queued, queuedAt, mcCount, dimmCount, wrapped, cut, moved>>

LEMMA Stutter == UNCHANGED Accounts => [Ledger!Next]_Ledger!ledger
  BY DEF Accounts, Ledger!ledger

\* Only probe, an injection, a report and a move of the target keep accounts.
LEMMA AccountSteps ==
  ASSUME [Next]_vars
  PROVE  \/ ProbeAlloc
         \/ \E k \in Kind : \E val \in 0..(Limit(k) + 1) : InjectWrite(k, val)
         \/ Report
         \/ /\ \/ \E val \in 0..NrCsrows : InjectCsrowWrite(val)
               \/ \E val \in 0..NrChannels : InjectChannelWrite(val)
            /\ UNCHANGED <<queued, queuedAt, mcCount, dimmCount, wrapped, cut>>
         \/ UNCHANGED Accounts
  <1> USE DEF Accounts, coreVars, histVars
  <1>1. ASSUME Lifecycle, ~ProbeAlloc PROVE UNCHANGED Accounts
    BY <1>1 DEF Lifecycle, ProbeAddMc, ProbeDebugfs, RemoveDebugfs,
       RemoveDelMc, SetIrqMode
  <1>2. ASSUME Poll, ~Report PROVE UNCHANGED Accounts
    BY <1>2 DEF Poll, PollBegin, Xchg, AddStats, LoadCsrow, LoadChannel,
       RasRead, RasClear
  <1>3. CASE RasCapture
    BY <1>3 DEF RasCapture
  <1>4. ASSUME NEW val, InjectCsrowWrite(val) \/ InjectChannelWrite(val)
        PROVE  UNCHANGED <<queued, queuedAt, mcCount, dimmCount, wrapped, cut>>
    BY <1>4 DEF InjectCsrowWrite, InjectChannelWrite
  <1>5. CASE UNCHANGED vars
    BY <1>5 DEF vars
  <1> QED BY <1>1, <1>2, <1>3, <1>4, <1>5 DEF Next, Debugfs

\* An injection is accepted for the current target.
LEMMA InjectAccepts ==
  ASSUME TypeOK, NEW k \in Kind, NEW val \in Int, InjectWrite(k, val)
  PROVE  \E l \in Loc, n \in 0 .. (HalfRange - 1) : Ledger!Accept(k, l, n)
  <1> DEFINE here == <<csrow, channel>>
  <1>1. val \in 0 .. (HalfRange - 1) /\ here \in Loc
    BY LimitAssumption DEF InjectWrite, Limit, TypeOK, Loc
  <1>2. /\ queued' = [queued EXCEPT ![k] = @ + val]
        /\ queuedAt' = [queuedAt EXCEPT ![k][here] = @ + val]
        /\ wrapped' = wrapped \/ wrapped' = wrapped \cup {k}
        /\ UNCHANGED <<mcCount, dimmCount, cut, moved>>
    BY DEF InjectWrite, coreVars
  <1> HIDE DEF here
  <1>3. \/ (wrapped \cup cut)' = wrapped \cup cut
        \/ (wrapped \cup cut)' = (wrapped \cup cut) \cup {k}
    BY <1>2
  <1>4. Ledger!Accept(k, here, val)
    BY <1>2, <1>3 DEF Ledger!Accept, Ledger!MayDamage
  <1> QED BY <1>1, <1>4

\* A report counts errors that were accepted and not yet counted, at the
\* location they were accepted for if the target has not moved.
LEMMA ReportCounts ==
  ASSUME IInv, Report
  PROVE  \E k \in Kind, l \in Loc, n \in 0 .. (HalfRange - 1) :
           Ledger!Count(k, l, n)
  <1> DEFINE at == <<argRow, argCh>>
             n == AsU16(batch)
  <1>1. /\ stage = "report" /\ kind \in Kind /\ batch \in Nat /\ batch > 0
        /\ argRow \in Row /\ argCh \in Ch
    BY DEF IInv, Report, TypeOK, BatchInv, ArgsInv, Draining
  <1>2. at \in Loc
    BY <1>1 DEF Loc
  <1>3. n \in Nat /\ n <= batch /\ (batch < CountRange => n = batch)
    BY <1>1, AsU16Is
  <1>4. /\ mcCount' = [mcCount EXCEPT ![kind] = @ + n]
        /\ dimmCount' = [dimmCount EXCEPT ![kind][at] = @ + n]
        /\ cut' = IF batch < CountRange THEN cut ELSE cut \cup {kind}
        /\ UNCHANGED <<queued, queuedAt, wrapped, moved>>
    BY <1>2 DEF Report, edac_mc_handle_error
  <1> HIDE DEF n
  <1>5. /\ sim[kind] \in Int /\ mcCount[kind] \in Nat /\ queued[kind] \in Nat
        /\ dimmCount[kind][at] \in Nat /\ queuedAt[kind][at] \in Nat
        /\ InFlight(kind) = batch
    BY <1>1, <1>2 DEF IInv, TypeOK, InFlight
  <1>6. ASSUME kind \notin (wrapped \cup cut)'
        PROVE  n = batch /\ kind \notin wrapped \cup cut /\ sim[kind] >= 0
    BY <1>1, <1>3, <1>4, <1>6 DEF IInv, PendingInv
  <1>7. ASSUME kind \notin (wrapped \cup cut)'
        PROVE  mcCount[kind] + n <= queued[kind]
    <2>1. queued[kind] = sim[kind] + InFlight(kind) + mcCount[kind]
      BY <1>1, <1>6, <1>7 DEF IInv, Conserved
    <2> QED BY <1>1, <1>5, <1>6, <1>7, <2>1
  <1>8. ASSUME kind \notin (wrapped \cup cut)', ~moved
        PROVE  dimmCount[kind][at] + n <= queuedAt[kind][at]
    <2>1. at = <<csrow, channel>>
      BY <1>1, <1>8 DEF IInv, ArgsInv, NotLoaded, Row, Ch
    <2>2. queuedAt[kind][at] = dimmCount[kind][at] + (sim[kind] + InFlight(kind))
      BY <1>1, <1>2, <1>6, <1>8, <2>1 DEF IInv, AttributedWhenTargetStable
    <2> QED BY <1>1, <1>5, <1>6, <1>8, <2>2
  <1>9. \/ (wrapped \cup cut)' = wrapped \cup cut
        \/ (wrapped \cup cut)' = (wrapped \cup cut) \cup {kind}
    BY <1>4
  <1>10. Ledger!Count(kind, at, n)
    <2> HIDE DEF at
    <2> QED BY <1>4, <1>7, <1>8, <1>9 DEF Ledger!Count, Ledger!MayDamage
  <1>11. n \in 0 .. (HalfRange - 1)
    BY <1>1, <1>3, LimitAssumption DEF IInv, TypeOK
  <1> QED BY <1>1, <1>2, <1>10, <1>11

\* For every topology, limit and width of the counters the driver refines a
\* ledger of errors: its atomic counters, its unlocked loads of the target and
\* its two-step report (cortex_ref_irq_drain) cannot be told from one that
\* accepts and counts errors atomically and never counts too many.
THEOREM DriverIsLedger == Spec => ErrorsAccounted
  <1>1. Init => Ledger!Empty
    BY DEF Init, Zero, ZeroAt, Ledger!Empty
  <1>2. ASSUME IInv, [Next]_vars PROVE [Ledger!Next]_Ledger!ledger
    <2>1. CASE ProbeAlloc
      <3>1. Ledger!Empty'
        BY <2>1 DEF ProbeAlloc, Zero, ZeroAt, Ledger!Empty
      <3> QED BY <3>1 DEF Ledger!Next
    <2>2. ASSUME NEW k \in Kind, NEW val \in 0..(Limit(k) + 1),
                 InjectWrite(k, val)
          PROVE  [Ledger!Next]_Ledger!ledger
      <3>1. val \in Int
        BY LimitAssumption DEF Limit
      <3>2. \E l \in Loc, n \in 0 .. (HalfRange - 1) : Ledger!Accept(k, l, n)
        BY <1>2, <2>2, <3>1, InjectAccepts DEF IInv
      <3> QED BY <3>2 DEF Ledger!Next
    <2>3. CASE Report
      BY <1>2, <2>3, ReportCounts DEF Ledger!Next
    <2>4. ASSUME NEW val, InjectCsrowWrite(val) \/ InjectChannelWrite(val),
                 UNCHANGED <<queued, queuedAt, mcCount, dimmCount, wrapped, cut>>
          PROVE  [Ledger!Next]_Ledger!ledger
      <3>1. moved' = TRUE \/ moved' = moved
        BY <1>2, <2>4 DEF InjectCsrowWrite, InjectChannelWrite, IInv, TypeOK
      <3> QED
        BY <2>4, <3>1 DEF Ledger!Next, Ledger!Move, Ledger!ledger
    <2>5. CASE UNCHANGED Accounts
      BY <2>5, Stutter
    <2> QED BY <1>2, <2>1, <2>2, <2>3, <2>4, <2>5, AccountSteps
  <1> QED
    BY <1>1, <1>2, Invariance, PTL DEF Spec, ErrorsAccounted, Ledger!Spec
=============================================================================
