--------------------------- MODULE TelemetryProofs ---------------------------
(***************************************************************************)
(* Proofs about the programs that report: the annotation pusher, the RAPL  *)
(* collector, the pair of forecaster and exporter, and the pair of         *)
(* watcher and event correlator.                                           *)
(***************************************************************************)
EXTENDS AnnotationPusher, RaplCollector, ModelStore, EventCorrelation,
        FiniteSetTheorems, WellFoundedInduction, TLAPS

-----------------------------------------------------------------------------
(***************************************************************************)
(* The annotation pusher                                                   *)
(***************************************************************************)

AnnInv == AnnTypeOK /\ AnnTriedOnce

\* A step of the pusher keeps the count of attempts in step with seen.
LEMMA AnnStepInv == AnnInv /\ [AnnNext]_annVars => AnnInv'
<1> SUFFICES ASSUME AnnInv, [AnnNext]_annVars PROVE AnnInv'
  OBVIOUS
<1> USE DEF AnnInv, AnnTypeOK, AnnTriedOnce
<1>1. ASSUME NEW a \in Alert, Fire(a) \/ Resolve(a) \/ SkipSeen(a)
      PROVE  AnnInv'
  BY <1>1 DEF Fire, Resolve, SkipSeen
<1>2. ASSUME NEW a \in Alert, NEW ok \in BOOLEAN, push_annotation(a, ok)
      PROVE  AnnInv'
  <2>1. annAttempts[a] = 0
    BY <1>2 DEF push_annotation
  <2>2. annAttempts' = [annAttempts EXCEPT ![a] = 1]
    <3>1. annAttempts' = [annAttempts EXCEPT ![a] =
             IF annAttempts[a] < MaxAttempts THEN annAttempts[a] + 1
             ELSE annAttempts[a]]
      BY <1>2 DEF push_annotation
    <3>2. 0 < MaxAttempts /\ 0 + 1 = 1
      BY AnnAssumption
    <3> QED
      BY <2>1, <3>1, <3>2, Zenon
  <2>3. annSeen' = annSeen \cup {a}
    BY <1>2 DEF push_annotation, Marked
  <2>4. AnnTriedOnce'
    BY <2>2, <2>3
  <2>5. AnnTypeOK'
    BY <1>2, <2>2, <2>3, AnnAssumption DEF push_annotation
  <2> QED
    BY <2>4, <2>5
<1>3. CASE get_firing_alerts
  BY <1>3 DEF get_firing_alerts
<1>4. CASE RunEnds
  BY <1>4, AnnAssumption DEF RunEnds, annNone
<1>5. CASE AnnRestart
  BY <1>5, AnnAssumption DEF AnnRestart, annNone
<1>6. CASE UNCHANGED annVars
  BY <1>6 DEF annVars
<1> QED
  BY <1>1, <1>2, <1>3, <1>4, <1>5, <1>6 DEF AnnNext

\* However alerts fire and resolve and whatever Grafana answers, a process
\* of annotation_pusher.py tries each alert it has seen exactly once, for
\* any set of alerts.
THEOREM AnnOneAttempt == AnnSpec => []AnnTriedOnce
<1>1. AnnInit => AnnInv
  BY AnnAssumption DEF AnnInit, AnnInv, AnnTypeOK, AnnTriedOnce, annNone
<1>2. AnnInv => AnnTriedOnce
  BY DEF AnnInv
<1> QED
  BY <1>1, <1>2, AnnStepInv, PTL DEF AnnSpec

-----------------------------------------------------------------------------
(***************************************************************************)
(* The RAPL collector                                                      *)
(***************************************************************************)

\* A result that does not claim more than the package burned.
Honest(r) ==
  /\ r.power \in 0..r.burnt
  /\ r.throttled => (r.limit > 0 /\ 100 * r.burnt > 95 * r.limit)

\* A counter keeps between its two readings the value of the first: only
\* the collector's second is long enough for it to move.
RaplInv ==
  /\ energy \in [Package -> 0..(EnergyRange - 1)] /\ raplPkg \in Package
  /\ raplTodo \subseteq Package
  /\ raplPc = "second" => raplE1 = energy[raplPkg]
  /\ \A p \in DOMAIN raplRes : Honest(raplRes[p])
  /\ \A p \in DOMAIN raplProm.packages : Honest(raplProm.packages[p])

\* What a counter shows after it wrapped is in range, and no more than what
\* it would have shown.
LEMMA ModuloSmaller ==
  ASSUME NEW x \in Nat, NEW range \in Nat \ {0}
  PROVE  x % range \in 0..(range - 1) /\ x % range <= x
<1>1. x % range \in 0..(range - 1)
  OBVIOUS
<1>2. CASE x < range
  BY <1>1, <1>2
<1>3. CASE x >= range
  BY <1>1, <1>3
<1> QED
  BY <1>1, <1>2, <1>3

\* The published power is at most the energy burned.
LEMMA DeltaBound ==
  ASSUME NEW e1 \in 0..(EnergyRange - 1), NEW burn \in Nat
  PROVE  Delta(e1, (e1 + burn) % EnergyRange) \in 0..burn
<1> DEFINE x == e1 + burn
<1>1. x \in Nat /\ EnergyRange \in Nat \ {0}
  BY RaplAssumption
<1>2. x % EnergyRange \in 0..(EnergyRange - 1) /\ x % EnergyRange <= x
  <2> HIDE DEF x
  <2> QED
    BY <1>1, ModuloSmaller
<1> QED
  BY <1>2, RaplAssumption DEF Delta

\* A second reading adds an honest result, if any.
LEMMA RaplSecondInv ==
  ASSUME RaplInv, NEW burn \in 0..MaxBurn, NEW ok \in BOOLEAN,
         NEW limit \in Limits \cup {NoLimit}, RaplSecond(burn, ok, limit)
  PROVE  RaplInv'
<1> DEFINE e2 == (energy[raplPkg] + burn) % EnergyRange
           power == Delta(raplE1, e2)
           r == [power |-> power, limit |-> limit,
                 throttled |-> Throttled(power, limit), burnt |-> burn]
<1>1. energy[raplPkg] \in 0..(EnergyRange - 1) /\ burn \in Nat /\ burn <= MaxBurn
  BY RaplAssumption DEF RaplInv
<1>2. e2 \in 0..(EnergyRange - 1)
  <2> DEFINE x == energy[raplPkg] + burn
  <2>1. x \in Nat /\ EnergyRange \in Nat \ {0}
    BY <1>1, RaplAssumption
  <2>2. x % EnergyRange \in 0..(EnergyRange - 1)
    <3> HIDE DEF x
    <3> QED
      BY <2>1, ModuloSmaller
  <2> QED
    BY <2>2
<1>3. energy' = [energy EXCEPT ![raplPkg] = e2]
  BY DEF RaplSecond
<1>4. energy'[raplPkg] = e2
  BY <1>3 DEF RaplInv
<1>5. raplRes' = IF ok THEN [p \in (DOMAIN raplRes) \cup {raplPkg} |->
                               IF p = raplPkg THEN r ELSE raplRes[p]]
                   ELSE raplRes
  BY <1>2, <1>4, RaplAssumption DEF RaplSecond, read_int, NoReading
<1>6. power \in 0..burn
  BY <1>1, DeltaBound DEF RaplInv, RaplSecond
<1>7. Honest(r)
  <2>1. limit \in Int
    BY RaplAssumption DEF NoLimit
  <2>2. Throttled(power, limit) => limit > 0 /\ 100 * burn > 95 * limit
    BY <1>1, <1>6, <2>1 DEF Throttled
  <2> HIDE DEF power
  <2> QED
    BY <1>6, <2>2 DEF Honest
<1>8. \A p \in DOMAIN raplRes' : Honest(raplRes'[p])
  <2> HIDE DEF r, Honest
  <2>1. CASE ok
    BY <1>5, <1>7, <2>1 DEF RaplInv
  <2>2. CASE ~ok
    BY <1>5, <2>2 DEF RaplInv
  <2> QED
    BY <2>1, <2>2
<1>9. energy' \in [Package -> 0..(EnergyRange - 1)]
  BY <1>2, <1>3 DEF RaplInv
<1>10. UNCHANGED <<raplTodo, raplPkg, raplProm>> /\ raplPc' # "second"
  BY DEF RaplSecond
<1> HIDE DEF e2, power, r, Honest
<1> QED
  BY <1>8, <1>9, <1>10 DEF RaplInv

\* Every step keeps the invariant.
LEMMA RaplStepInv == RaplInv /\ [RaplNext]_raplVars => RaplInv'
<1> SUFFICES ASSUME RaplInv, [RaplNext]_raplVars PROVE RaplInv'
  OBVIOUS
<1>1. ASSUME NEW domains \in SUBSET Package, RaplStart(domains) PROVE RaplInv'
  BY <1>1 DEF RaplInv, RaplStart
<1>2. ASSUME NEW p \in Package, NEW ok \in BOOLEAN, RaplFirst(p, ok)
      PROVE  RaplInv'
  <2>1. raplPc' = "second" => raplE1' = energy[p]
    BY <1>2 DEF RaplFirst, read_int, NoReading
  <2>2. UNCHANGED <<energy, raplRes, raplProm>> /\ raplPkg' = p
        /\ raplTodo' \subseteq raplTodo
    BY <1>2 DEF RaplFirst
  <2> QED
    BY <2>1, <2>2 DEF RaplInv
<1>3. ASSUME NEW burn \in 0..MaxBurn, NEW ok \in BOOLEAN,
             NEW limit \in Limits \cup {NoLimit}, RaplSecond(burn, ok, limit)
      PROVE  RaplInv'
  BY <1>3, RaplSecondInv
<1>4. ASSUME NEW cur, NEW max, RaplEmit(cur, max) PROVE RaplInv'
  BY <1>4 DEF RaplInv, RaplEmit
<1>5. CASE UNCHANGED raplVars
  BY <1>5 DEF RaplInv, raplVars
<1> QED
  BY <1>1, <1>2, <1>3, <1>4, <1>5 DEF RaplNext

\* rapl_collector.py never publishes more power than was burned, nor calls
\* a package throttled that was not, for any range of the counter, wherever
\* it wraps, and any limits.
THEOREM RaplHonest == RaplSpec => []RaplThrottleReal
<1>1. RaplInit => RaplInv
  BY DEF RaplInit, RaplInv
<1>2. RaplInv => RaplThrottleReal
  BY DEF RaplInv, RaplThrottleReal, Honest
<1> QED
  BY <1>1, <1>2, RaplStepInv, PTL DEF RaplSpec

-----------------------------------------------------------------------------
(***************************************************************************)
(* The forecaster and the exporter                                         *)
(***************************************************************************)

\* The model on disk is torn or at least as new as the metadata on disk and
\* as those the exporter has loaded; when the metadata are to be written, it
\* is the one just trained.
MlInv ==
  /\ MlTypeOK
  /\ mlFile["pkl"] # MlTorn =>
       /\ mlFile["pkl"] >= mlFile["json"]
       /\ mlExPc # "idle" => mlFile["pkl"] >= mlEntry
  /\ \A f \in {"pkl", "sha", "json"} : mlFile[f] <= mlTrained
  /\ mlExPc # "idle" => mlEntry <= mlTrained
  /\ mlFcPc = "fit" => mlStep = 1
  /\ (mlFcPc \in {"open", "write"} /\ mlStep > 1) => mlFile["pkl"] = mlTrained
  /\ mlExPc \in {"sha", "hash", "load"} => mlForecast = 0
  /\ mlExPc = "emit" => (mlForecast = 0 \/ mlForecast >= mlEntry)
  /\ MlForecastNotOlder

\* save_model has three files to write.
LEMMA SaveOrderFacts ==
  /\ Len(SaveOrder) = 3
  /\ SaveOrder[1] = "pkl" /\ SaveOrder[2] = "sha" /\ SaveOrder[3] = "json"
BY DEF SaveOrder

\* A step of the forecaster keeps the invariant.
LEMMA MlForecasterInv ==
  ASSUME MlInv, MlForecasterStep
  PROVE  MlInv'
<1> USE DEF MlInv, MlTypeOK, MlForecastNotOlder, MlTorn
<1>1. UNCHANGED mlExporter /\ MaxTrain \in Nat
  BY MlAssumption DEF MlForecasterStep, fetch_series, fit_model, MlOpen, MlWrite
<1>2. mlStep \in {1, 2, 3}
  BY SaveOrderFacts
<1>3. CASE fetch_series
  BY <1>1, <1>3, SaveOrderFacts DEF fetch_series, mlExporter
<1>4. CASE fit_model
  BY <1>1, <1>4 DEF fit_model, mlExporter
<1>5. CASE MlOpen
  <2>1. UNCHANGED <<mlStep, mlTrained>> /\ mlFcPc = "open" /\ mlFcPc' = "write"
    BY <1>5 DEF MlOpen
  <2>2. CASE mlStep = 1
    <3>1. mlFile' = [mlFile EXCEPT !["pkl"] = -1]
      BY <1>5, <2>2, SaveOrderFacts DEF MlOpen
    <3> QED
      BY <1>1, <2>1, <2>2, <3>1 DEF mlExporter
  <2>3. CASE mlStep = 2
    <3>1. mlFile' = [mlFile EXCEPT !["sha"] = -1]
      BY <1>5, <2>3, SaveOrderFacts DEF MlOpen
    <3> QED
      BY <1>1, <2>1, <2>3, <3>1 DEF mlExporter
  <2>4. CASE mlStep = 3
    <3>1. mlFile' = [mlFile EXCEPT !["json"] = -1]
      BY <1>5, <2>4, SaveOrderFacts DEF MlOpen
    <3> QED
      BY <1>1, <2>1, <2>4, <3>1 DEF mlExporter
  <2> QED
    BY <1>2, <2>2, <2>3, <2>4
<1>6. CASE MlWrite
  <2>1. UNCHANGED mlTrained
    BY <1>6 DEF MlWrite
  <2>2. CASE mlStep = 1
    <3>1. /\ mlFile' = [mlFile EXCEPT !["pkl"] = mlTrained]
          /\ mlFcPc' = "open" /\ mlStep' = 2
      BY <1>6, <2>2, SaveOrderFacts DEF MlWrite
    <3> QED
      BY <1>1, <2>1, <3>1, SaveOrderFacts DEF mlExporter
  <2>3. CASE mlStep = 2
    <3>1. /\ mlFile' = [mlFile EXCEPT !["sha"] = mlTrained]
          /\ mlFcPc' = "open" /\ mlStep' = 3 /\ mlFcPc = "write"
      BY <1>6, <2>3, SaveOrderFacts DEF MlWrite
    <3> QED
      BY <1>1, <2>1, <2>3, <3>1, SaveOrderFacts DEF mlExporter
  <2>4. CASE mlStep = 3
    <3>1. /\ mlFile' = [mlFile EXCEPT !["json"] = mlTrained]
          /\ mlFcPc' = "idle" /\ mlStep' = mlStep /\ mlFcPc = "write"
      BY <1>6, <2>4, SaveOrderFacts DEF MlWrite
    <3> QED
      BY <1>1, <2>1, <2>4, <3>1 DEF mlExporter
  <2> QED
    BY <1>2, <2>2, <2>3, <2>4
<1> QED
  BY <1>3, <1>4, <1>5, <1>6 DEF MlForecasterStep

\* A step of the exporter keeps the invariant.
LEMMA MlExporterInv ==
  ASSUME MlInv, MlExporterStep \/ MlExporterDies
  PROVE  MlInv'
<1> USE DEF MlInv, MlTypeOK, MlForecastNotOlder, MlTorn, mlForecaster
<1>1. MaxTrain \in Nat
  BY MlAssumption
<1>2. CASE load_metadata
  BY <1>1, <1>2 DEF load_metadata, Absent
<1>3. CASE ReadDigest
  BY <1>1, <1>3 DEF ReadDigest
<1>4. CASE HashModel
  BY <1>1, <1>4 DEF HashModel
<1>5. CASE LoadModel
  BY <1>1, <1>5 DEF LoadModel
<1>6. CASE emit_metrics
  <2>1. mlProm' = [entry |-> mlEntry, forecast |-> mlForecast] /\ mlExPc' = "idle"
    BY <1>6 DEF emit_metrics
  <2>2. UNCHANGED <<mlFile, mlFcPc, mlStep, mlTrained, mlEntry, mlExpected, mlForecast>>
    BY <1>6 DEF emit_metrics
  <2>3. mlProm'.entry = mlEntry /\ mlProm'.forecast = mlForecast
    BY <2>1
  <2>4. MlForecastNotOlder'
    BY <1>6, <2>3 DEF emit_metrics
  <2>5. mlProm' \in [entry : 0..MaxTrain, forecast : 0..MaxTrain]
    BY <2>1
  <2> QED
    BY <2>1, <2>2, <2>4, <2>5
<1>7. CASE MlExporterDies
  BY <1>1, <1>7 DEF MlExporterDies, MlEmpty, Absent
<1> QED
  BY <1>2, <1>3, <1>4, <1>5, <1>6, <1>7 DEF MlExporterStep

\* Every step keeps the invariant.
LEMMA MlStepInv == MlInv /\ [MlNext]_mlVars => MlInv'
<1> SUFFICES ASSUME MlInv, [MlNext]_mlVars PROVE MlInv'
  OBVIOUS
<1>1. CASE MlAbandon
  BY <1>1 DEF MlInv, MlTypeOK, MlForecastNotOlder, MlAbandon, mlExporter
<1>2. CASE MetadataTorn \/ UNCHANGED mlVars
  BY <1>2 DEF MlInv, MlTypeOK, MlForecastNotOlder, MetadataTorn, mlVars,
              mlExporter, mlForecaster
<1> QED
  BY <1>1, <1>2, MlForecasterInv, MlExporterInv DEF MlNext

\* probability_exporter.py never publishes a forecast older than the
\* metadata beside it, for any number of trainings and however the two
\* programs interleave.
THEOREM MlForecastFresh == MlSpec => []MlForecastNotOlder
<1>1. MlInit => MlInv
  BY MlAssumption, SaveOrderFacts
     DEF MlInit, MlInv, MlTypeOK, MlForecastNotOlder, MlEmpty, Absent, MlTorn
<1>2. MlInv => MlForecastNotOlder
  BY DEF MlInv
<1> QED
  BY <1>1, <1>2, MlStepInv, PTL DEF MlSpec
-----------------------------------------------------------------------------
(***************************************************************************)
(* The event correlator                                                    *)
(***************************************************************************)

\* There are ten types of event, ...
LEMMA TypesFinite ==
  /\ DOMAIN PATTERNS = 1..10 /\ Len(PATTERNS) = 10
  /\ IsFiniteSet(EventType) /\ Cardinality(EventType) <= 10
<1>1. DOMAIN PATTERNS = 1..10 /\ Len(PATTERNS) = 10
  BY DEF PATTERNS
<1>2. EventType = {PATTERNS[i] : i \in 1..10}
  BY <1>1 DEF EventType, Range
<1> DEFINE f == [i \in 1..10 |-> PATTERNS[i]]
<1>3. f \in Surjection(1..10, EventType)
  BY <1>2 DEF Surjection
<1>4. IsFiniteSet(1..10) /\ Cardinality(1..10) = 10
  <2>1. \A n \in Nat : IsFiniteSet(1..n) /\ Cardinality(1..n) = n
    BY FS_Interval
  <2>2. 10 \in Nat
    OBVIOUS
  <2> QED
    BY <2>1, <2>2, Zenon
<1> HIDE DEF f
<1>5. IsFiniteSet(EventType) /\ Cardinality(EventType) <= Cardinality(1..10)
  BY <1>3, <1>4, FS_Surjection
<1> QED
  BY <1>1, <1>4, <1>5

\* ... and a line that matches any pattern gets one of them.
LEMMA ParsedType ==
  ASSUME NEW line \in Line, line # {}
  PROVE  parse_dmesg_line(line) \in EventType
<1> DEFINE T == {i \in 1..10 : PATTERNS[i] \in line}
           Less == OpToRel(<, Nat)
<1>1. DOMAIN PATTERNS = 1..10
  BY TypesFinite
<1>2. T # {} /\ T \subseteq Nat
  BY <1>1, CorrAssumption DEF EventType, Range
<1>3. IsWellFoundedOn(Less, Nat)
  BY NatLessThanWellFounded
<1>4. \A i, j \in Nat : <<i, j>> \in Less \/ ~(i < j)
  BY DEF OpToRel
<1> HIDE DEF Less
<1>5. \E i \in T : \A j \in T : ~(<<j, i>> \in Less)
  <2> HIDE DEF T
  <2> QED
    BY <1>2, <1>3, WFMin
<1>6. PICK i \in T : \A j \in T : ~(<<j, i>> \in Less)
  BY <1>5
<1>7. \A j \in 1..(i - 1) : PATTERNS[j] \notin line
  <2> SUFFICES ASSUME NEW j \in 1..(i - 1), PATTERNS[j] \in line PROVE FALSE
    OBVIOUS
  <2>1. i \in 1..10 /\ j \in T /\ j \in Nat /\ i \in Nat /\ j < i
    OBVIOUS
  <2> QED
    BY <1>4, <1>6, <2>1
<1>8. i \in DOMAIN PATTERNS /\ PATTERNS[i] \in line
  BY <1>1, <1>6
<1> DEFINE P(k) == PATTERNS[k] \in line /\ \A j \in 1..(k - 1) : PATTERNS[j] \notin line
<1>9. (CHOOSE k \in DOMAIN PATTERNS : P(k)) \in DOMAIN PATTERNS
  <2>1. P(i)
    BY <1>7, <1>8
  <2> HIDE DEF P
  <2> QED
    BY <1>8, <2>1
<1> QED
  BY <1>9 DEF parse_dmesg_line, EventType, Range

\* Every key there can be.
AllKeys ==
  {<<"memory_multi_source", "">>, <<"pcie_memory_cascade", "">>} \cup
  {<<"event_storm", u>> : u \in EventType}

LEMMA KeysFinite ==
  ASSUME NEW S \in SUBSET AllKeys
  PROVE  Cardinality(S) \in Nat /\ Cardinality(S) <= MaxSeen
<1> DEFINE storms == {<<"event_storm", u>> : u \in EventType}
           f == [u \in EventType |-> <<"event_storm", u>>]
           two == {<<"memory_multi_source", "">>, <<"pcie_memory_cascade", "">>}
<1>1. IsFiniteSet(EventType) /\ Cardinality(EventType) <= 10 /\ Len(PATTERNS) = 10
  BY TypesFinite
<1>2. f \in Surjection(EventType, storms)
  BY DEF Surjection
<1> HIDE DEF storms, f
<1>3. IsFiniteSet(storms) /\ Cardinality(storms) <= Cardinality(EventType)
  BY <1>1, <1>2, FS_Surjection
<1>4. Cardinality(storms) \in Nat /\ Cardinality(EventType) \in Nat
  BY <1>1, <1>3, FS_CardinalityType
<1>5. IsFiniteSet(two) /\ Cardinality(two) = 2
  <2> DEFINE one == {<<"memory_multi_source", "">>}
  <2>1. IsFiniteSet(one) /\ Cardinality(one) = 1
    BY FS_Singleton
  <2>2. <<"pcie_memory_cascade", "">> \notin one
    OBVIOUS
  <2>3. two = one \cup {<<"pcie_memory_cascade", "">>}
    OBVIOUS
  <2> HIDE DEF one, two
  <2>4. /\ IsFiniteSet(one \cup {<<"pcie_memory_cascade", "">>})
        /\ Cardinality(one \cup {<<"pcie_memory_cascade", "">>}) = Cardinality(one) + 1
    BY <2>1, <2>2, FS_AddElement
  <2>5. 1 + 1 = 2
    OBVIOUS
  <2> QED
    BY <2>1, <2>3, <2>4, <2>5, Zenon
<1> HIDE DEF two
<1>6. IsFiniteSet(two \cup storms) /\ Cardinality(two \cup storms) <= 12
  <2>1. IsFiniteSet(two \cap storms) /\ Cardinality(two \cap storms) \in Nat
    BY <1>3, FS_Intersection, FS_CardinalityType
  <2>2. Cardinality(two \cup storms) =
          Cardinality(two) + Cardinality(storms) - Cardinality(two \cap storms)
    BY <1>3, <1>5, FS_Union
  <2>3. IsFiniteSet(two \cup storms)
    BY <1>3, <1>5, FS_Union
  <2> QED
    BY <1>1, <1>3, <1>4, <1>5, <2>1, <2>2, <2>3
<1>7. S \subseteq two \cup storms
  BY DEF AllKeys, two, storms
<1>8. IsFiniteSet(S) /\ Cardinality(S) <= Cardinality(two \cup storms)
  BY <1>6, <1>7, FS_Subset
<1> QED
  BY <1>1, <1>6, <1>8, FS_CardinalityType, CorrAssumption

\* What a count over a finite window says of its members, and back.
LEMMA CountSome ==
  ASSUME NEW S, IsFiniteSet(S), NEW t, Count(S, t) > 0
  PROVE  \E e \in S : e.type = t
<1> DEFINE T == {e \in S : e.type = t}
<1>1. IsFiniteSet(T)
  BY FS_Subset
<1>2. Cardinality(T) # 0
  BY DEF Count
<1> HIDE DEF T
<1>3. T # {}
  BY <1>2, FS_EmptySet
<1> QED
  BY <1>3 DEF T

LEMMA CountThree ==
  ASSUME NEW S, IsFiniteSet(S), NEW t, Count(S, t) >= 3
  PROVE  \E a, b, c \in S : /\ a # b /\ b # c /\ a # c
                            /\ a.type = t /\ b.type = t /\ c.type = t
<1> DEFINE T == {e \in S : e.type = t}
<1>1. IsFiniteSet(T)
  BY FS_Subset
<1>2. Cardinality(T) >= 3
  BY DEF Count
<1> HIDE DEF T
<1>3. Cardinality(T) \in Nat
  BY <1>1, FS_CardinalityType
<1>4. PICK a : a \in T
  <2>1. Cardinality(T) # 0
    BY <1>2, <1>3
  <2> QED
    BY <2>1, FS_EmptySet
<1>5. IsFiniteSet(T \ {a}) /\ Cardinality(T \ {a}) = Cardinality(T) - 1
  BY <1>1, <1>4, FS_RemoveElement
<1>6. PICK b : b \in T \ {a}
  <2>1. Cardinality(T \ {a}) # 0
    BY <1>2, <1>3, <1>5
  <2> QED
    BY <2>1, FS_EmptySet
<1>7. /\ IsFiniteSet((T \ {a}) \ {b})
      /\ Cardinality((T \ {a}) \ {b}) = Cardinality(T \ {a}) - 1
  BY <1>5, <1>6, FS_RemoveElement
<1>8. PICK c : c \in (T \ {a}) \ {b}
  <2>1. Cardinality((T \ {a}) \ {b}) # 0
    BY <1>2, <1>3, <1>5, <1>7
  <2> QED
    BY <2>1, FS_EmptySet
<1> QED
  BY <1>4, <1>6, <1>8 DEF T

LEMMA ThreeCount ==
  ASSUME NEW S, IsFiniteSet(S), NEW t,
         NEW a \in S, NEW b \in S, NEW c \in S,
         a # b, b # c, a # c, a.type = t, b.type = t, c.type = t
  PROVE  Count(S, t) >= 3
<1> DEFINE T == {e \in S : e.type = t}
           T3 == ({a} \cup {b}) \cup {c}
<1>1. IsFiniteSet(T) /\ T3 \in SUBSET T
  BY FS_Subset
<1>2. IsFiniteSet({a}) /\ Cardinality({a}) = 1
  BY FS_Singleton
<1>3. /\ IsFiniteSet({a} \cup {b})
      /\ Cardinality({a} \cup {b}) = Cardinality({a}) + 1
  <2>1. b \notin {a}
    OBVIOUS
  <2> QED
    BY <1>2, <2>1, FS_AddElement
<1>4. Cardinality(T3) = Cardinality({a} \cup {b}) + 1
  <2>1. c \notin {a} \cup {b}
    OBVIOUS
  <2> QED
    BY <1>3, <2>1, FS_AddElement
<1>5. Cardinality(T) = Count(S, t)
  BY DEF Count
<1> HIDE DEF T, T3
<1>6. Cardinality(T) \in Nat /\ Cardinality(T3) <= Cardinality(T)
  BY <1>1, FS_Subset, FS_CardinalityType
<1> QED
  BY <1>2, <1>3, <1>4, <1>5, <1>6

-----------------------------------------------------------------------------
CorrTypeOK ==
  /\ corrNow \in Nat /\ corrLines \in Nat
  /\ corrPipe \in Seq(Event)
  /\ IsFiniteSet(corrBuf) /\ corrSeen \in SUBSET AllKeys
  /\ \A a \in corrAll : a.event \in Event /\ a.at \in Nat

Before(d, e) == d.line < e.line /\ d.ts <= e.ts

\* The stamps of the events follow the order of their lines: among those
\* taken, among those in the pipe, and from the first to the second.
OrderInv ==
  /\ \A a, b \in corrAll :
       a = b \/ Before(a.event, b.event) \/ Before(b.event, a.event)
  /\ \A i \in 1..Len(corrPipe) : \A a \in corrAll : Before(a.event, corrPipe[i])
  /\ \A i, j \in 1..Len(corrPipe) : i < j => Before(corrPipe[i], corrPipe[j])
  /\ \A a \in corrAll : a.event.line <= corrLines /\ a.event.ts <= corrNow
  /\ \A i \in 1..Len(corrPipe) :
       corrPipe[i].line <= corrLines /\ corrPipe[i].ts <= corrNow

\* The window holds events that were taken, and all that did not expire.
WindowInv ==
  /\ \A e \in corrBuf : \E a \in corrAll : a.event = e
  /\ \A a \in corrAll : a.event.ts >= corrNow - WINDOW => a.event \in corrBuf

CorrInv == CorrTypeOK /\ OrderInv /\ WindowInv /\ CorrSound /\ CorrComplete

\* Time passes: the window of the correlator itself does not move.
LEMMA TickKeeps == CorrInv /\ CorrTick => CorrInv'
<1> SUFFICES ASSUME CorrInv, CorrTick PROVE CorrInv'
  OBVIOUS
<1>1. /\ corrNow' = corrNow + 1
      /\ corrLines' = corrLines /\ corrPipe' = corrPipe
      /\ corrBuf' = corrBuf /\ corrSeen' = corrSeen /\ corrAll' = corrAll
  BY DEF CorrTick
<1>2. CorrTypeOK'
  BY <1>1 DEF CorrInv, CorrTypeOK
<1>3. OrderInv'
  <2>1. \A a \in corrAll : a.event.ts <= corrNow + 1
    BY DEF CorrInv, CorrTypeOK, OrderInv, Event
  <2>2. \A i \in 1..Len(corrPipe) : corrPipe[i].ts <= corrNow + 1
    <3>1. \A i \in 1..Len(corrPipe) : corrPipe[i] \in Event
      BY DEF CorrInv, CorrTypeOK
    <3> QED
      BY <3>1 DEF CorrInv, CorrTypeOK, OrderInv, Event
  <2> QED
    BY <1>1, <2>1, <2>2 DEF CorrInv, OrderInv, Before
<1>4. WindowInv'
  <2>1. \A a \in corrAll : a.event.ts >= corrNow + 1 - WINDOW
                             => a.event.ts >= corrNow - WINDOW
    BY CorrAssumption DEF CorrInv, CorrTypeOK, Event
  <2>2. \A a \in corrAll : a.event.ts >= corrNow + 1 - WINDOW => a.event \in corrBuf
    BY <2>1 DEF CorrInv, WindowInv
  <2>3. \A e \in corrBuf : \E a \in corrAll : a.event = e
    BY DEF CorrInv, WindowInv
  <2>4. corrNow' - WINDOW = corrNow + 1 - WINDOW
    <3>1. corrNow' = corrNow + 1 /\ corrNow \in Nat
      BY <1>1 DEF CorrInv, CorrTypeOK
    <3> QED
      BY <3>1, CorrAssumption
  <2> QED
    BY <1>1, <2>2, <2>3, <2>4, Zenon DEF WindowInv
<1>5. CorrSound' /\ CorrComplete'
  BY <1>1 DEF CorrInv, CorrSound, CorrComplete, Close, Triple, SameType
<1> QED
  BY <1>2, <1>3, <1>4, <1>5 DEF CorrInv

\* A new event is stamped after every event before it.
LEMMA WatchKeeps ==
  ASSUME CorrInv, NEW line \in Line, CorrWatch(line)
  PROVE  CorrInv'
<1> DEFINE new == [line |-> corrLines + 1,
                   type |-> parse_dmesg_line(line), ts |-> corrNow]
<1>1. /\ corrNow' = corrNow /\ corrLines' = corrLines + 1
      /\ corrPipe' = Append(corrPipe, new)
      /\ corrBuf' = corrBuf /\ corrSeen' = corrSeen /\ corrAll' = corrAll
  BY DEF CorrWatch
<1>2. new \in Event
  <2>1. parse_dmesg_line(line) \in EventType
    BY ParsedType DEF CorrWatch
  <2> QED
    BY <2>1 DEF Event, CorrInv, CorrTypeOK
<1>3. /\ new.line = corrLines + 1 /\ new.ts = corrNow
  OBVIOUS
<1> HIDE DEF new
<1>4. CorrTypeOK'
  <2>1. corrPipe' \in Seq(Event)
    BY <1>1, <1>2 DEF CorrInv, CorrTypeOK
  <2> QED
    BY <1>1, <2>1 DEF CorrInv, CorrTypeOK
<1>5. /\ Len(corrPipe') = Len(corrPipe) + 1 /\ Len(corrPipe) \in Nat
      /\ corrPipe'[Len(corrPipe) + 1] = new
      /\ \A i \in 1..Len(corrPipe) : corrPipe'[i] = corrPipe[i]
  BY <1>1, <1>2 DEF CorrInv, CorrTypeOK
<1>6. \A i \in 1..Len(corrPipe) : corrPipe[i] \in Event
  BY DEF CorrInv, CorrTypeOK
<1>7. OrderInv'
  <2>1. \A a \in corrAll : Before(a.event, new)
    BY <1>3 DEF CorrInv, CorrTypeOK, OrderInv, Event, Before
  <2>2. \A i \in 1..Len(corrPipe) : Before(corrPipe[i], new)
    BY <1>3, <1>6 DEF CorrInv, CorrTypeOK, OrderInv, Event, Before
  <2>3. \A i \in 1..Len(corrPipe') : i \in 1..Len(corrPipe) \/ i = Len(corrPipe) + 1
    BY <1>5
  <2>4. \A i \in 1..Len(corrPipe') : \A a \in corrAll : Before(a.event, corrPipe'[i])
    BY <1>5, <2>1, <2>3 DEF CorrInv, OrderInv
  <2>5. \A i, j \in 1..Len(corrPipe') : i < j => Before(corrPipe'[i], corrPipe'[j])
    <3> SUFFICES ASSUME NEW i \in 1..Len(corrPipe'), NEW j \in 1..Len(corrPipe'), i < j
                 PROVE  Before(corrPipe'[i], corrPipe'[j])
      OBVIOUS
    <3>1. i \in 1..Len(corrPipe)
      BY <1>5
    <3>2. CASE j \in 1..Len(corrPipe)
      BY <1>5, <3>1, <3>2 DEF CorrInv, OrderInv
    <3>3. CASE j = Len(corrPipe) + 1
      BY <1>5, <2>2, <3>1, <3>3
    <3> QED
      BY <2>3, <3>2, <3>3
  <2>6. \A a \in corrAll : a.event.line <= corrLines + 1 /\ a.event.ts <= corrNow
    BY DEF CorrInv, CorrTypeOK, OrderInv, Event
  <2>7. \A i \in 1..Len(corrPipe) :
          corrPipe[i].line <= corrLines + 1 /\ corrPipe[i].ts <= corrNow
    BY <1>6 DEF CorrInv, CorrTypeOK, OrderInv, Event
  <2>8. \A i \in 1..Len(corrPipe') :
          corrPipe'[i].line <= corrLines + 1 /\ corrPipe'[i].ts <= corrNow
    <3>1. new.line <= corrLines + 1 /\ new.ts <= corrNow
      BY <1>3 DEF CorrInv, CorrTypeOK
    <3> QED
      BY <1>5, <2>3, <2>7, <3>1
  <2>9. \A a, b \in corrAll :
          a = b \/ Before(a.event, b.event) \/ Before(b.event, a.event)
    BY DEF CorrInv, OrderInv
  <2> QED
    BY <1>1, <2>4, <2>5, <2>6, <2>8, <2>9 DEF OrderInv, Before
<1>8. WindowInv' /\ CorrSound' /\ CorrComplete'
  BY <1>1 DEF CorrInv, WindowInv, CorrSound, CorrComplete, Close, Triple, SameType
<1> QED
  BY <1>4, <1>7, <1>8 DEF CorrInv

\* A correlation that is detected in the new window has its cause among the
\* events taken.
LEMMA DetectedHasCause ==
  ASSUME NEW S, IsFiniteSet(S), NEW now \in Nat, NEW A,
         \A a \in A : a.event \in Event,
         \A a, b \in A : a = b \/ Before(a.event, b.event) \/ Before(b.event, a.event),
         \A e \in S : e.ts >= now - WINDOW /\ e.ts <= now /\ \E a \in A : a.event = e,
         NEW t, Count(S, t) >= 3
  PROVE  \E a, b, c \in A :
           /\ a.event.line < b.event.line /\ b.event.line < c.event.line
           /\ a.event.type = t /\ b.event.type = t /\ c.event.type = t
           /\ c.event.ts - a.event.ts <= WINDOW
<1>1. PICK x, y, z \in S : /\ x # y /\ y # z /\ x # z
                           /\ x.type = t /\ y.type = t /\ z.type = t
  BY CountThree
<1>2. PICK a, b, c \in A : a.event = x /\ b.event = y /\ c.event = z
  OBVIOUS
<1> DEFINE Near(p, q) == p.event.ts - q.event.ts <= WINDOW
<1>3. \A p, q \in {a, b, c} : Near(p, q)
  <2>1. \A p \in {a, b, c} : /\ p.event.ts \in Nat
                             /\ p.event.ts >= now - WINDOW /\ p.event.ts <= now
    BY <1>2 DEF Event
  <2> SUFFICES ASSUME NEW p \in {a, b, c}, NEW q \in {a, b, c} PROVE Near(p, q)
    OBVIOUS
  <2>2. /\ p.event.ts \in Nat /\ p.event.ts <= now
        /\ q.event.ts \in Nat /\ q.event.ts >= now - WINDOW
    BY <2>1, Zenon
  <2> QED
    BY <2>2, CorrAssumption
<1> HIDE DEF Near
<1>4. \A p, q \in {a, b, c} : p = q \/ p.event.line < q.event.line
                                    \/ q.event.line < p.event.line
  BY DEF Before
<1>5. a # b /\ b # c /\ a # c
  BY <1>1, <1>2
<1>6. /\ a.event.line \in Nat /\ b.event.line \in Nat /\ c.event.line \in Nat
      /\ a.event.type = t /\ b.event.type = t /\ c.event.type = t
  BY <1>1, <1>2 DEF Event
<1> DEFINE Sorted(p, q, r) ==
             p.event.line < q.event.line /\ q.event.line < r.event.line
<1>7. \/ Sorted(a, b, c) \/ Sorted(a, c, b) \/ Sorted(b, a, c)
      \/ Sorted(b, c, a) \/ Sorted(c, a, b) \/ Sorted(c, b, a)
  BY <1>4, <1>5, <1>6
<1> QED
  BY <1>3, <1>6, <1>7 DEF Near

\* The limit of the set of keys is never reached, so they are only added.
LEMMA KeysAdded ==
  ASSUME CorrTypeOK, Correlate
  PROVE  /\ corrSeen' = corrSeen \cup detect_correlations(corrBuf')
         /\ corrSeen' \in SUBSET AllKeys
<1> DEFINE keys == detect_correlations(corrBuf')
<1>1. corrSeen' = IF Cardinality(corrSeen \cup keys) > MaxSeen THEN {}
                  ELSE corrSeen \cup keys
  BY DEF Correlate
<1>2. keys \subseteq AllKeys
  BY DEF detect_correlations, AllKeys
<1>3. corrSeen \cup keys \in SUBSET AllKeys
  BY <1>2 DEF CorrTypeOK
<1> HIDE DEF keys
<1>4. /\ Cardinality(corrSeen \cup keys) \in Nat
      /\ Cardinality(corrSeen \cup keys) <= MaxSeen
  BY <1>3, KeysFinite
<1>5. ~(Cardinality(corrSeen \cup keys) > MaxSeen)
  BY <1>4, CorrAssumption
<1> QED
  BY <1>1, <1>3, <1>5 DEF keys

\* The correlator takes an event: the new window holds exactly the taken
\* events that did not expire, whatever the pipe did to them before.
LEMMA CorrelateKeeps == CorrInv /\ Correlate => CorrInv'
<1> SUFFICES ASSUME CorrInv, Correlate PROVE CorrInv'
  OBVIOUS
<1> DEFINE head == Head(corrPipe)
           new == [event |-> head, at |-> corrNow]
           keys == detect_correlations(corrBuf')
<1>1. /\ corrPipe # <<>> /\ corrPipe' = Tail(corrPipe)
      /\ corrBuf' = {e \in corrBuf \cup {head} : e.ts >= corrNow - WINDOW}
      /\ corrAll' = corrAll \cup {new}
      /\ corrNow' = corrNow /\ corrLines' = corrLines
  BY DEF Correlate, Unexpired
<1>3. new.event = head /\ new.at = corrNow
  OBVIOUS
<1>4. /\ Len(corrPipe) \in Nat /\ 1 \in 1..Len(corrPipe)
      /\ head = corrPipe[1] /\ head \in Event
      /\ Len(corrPipe') = Len(corrPipe) - 1
      /\ \A i \in 1..Len(corrPipe') :
           i + 1 \in 1..Len(corrPipe) /\ corrPipe'[i] = corrPipe[i + 1]
      /\ corrPipe' \in Seq(Event)
  BY <1>1 DEF CorrInv, CorrTypeOK
<1> HIDE DEF new, head
<1>5. corrSeen' = corrSeen \cup keys /\ corrSeen' \in SUBSET AllKeys
  BY KeysAdded DEF CorrInv
<1>6. IsFiniteSet(corrBuf')
  <2>1. IsFiniteSet(corrBuf \cup {head})
    BY FS_AddElement DEF CorrInv, CorrTypeOK
  <2> QED
    BY <1>1, <2>1, FS_Subset
<1>7. CorrTypeOK'
  BY <1>1, <1>3, <1>4, <1>5, <1>6 DEF CorrInv, CorrTypeOK
<1>8. \A a \in corrAll : Before(a.event, head)
  BY <1>4 DEF CorrInv, OrderInv
<1>9. OrderInv'
  <2>1. \A a, b \in corrAll' :
          a = b \/ Before(a.event, b.event) \/ Before(b.event, a.event)
    BY <1>1, <1>3, <1>8 DEF CorrInv, OrderInv
  <2>2. \A i \in 1..Len(corrPipe) : i > 1 => Before(head, corrPipe[i])
    BY <1>4 DEF CorrInv, OrderInv
  <2>3. \A i \in 1..Len(corrPipe') : \A a \in corrAll' : Before(a.event, corrPipe'[i])
    <3> SUFFICES ASSUME NEW i \in 1..Len(corrPipe'), NEW a \in corrAll'
                 PROVE  Before(a.event, corrPipe'[i])
      OBVIOUS
    <3>1. i + 1 \in 1..Len(corrPipe) /\ i + 1 > 1 /\ corrPipe'[i] = corrPipe[i + 1]
      BY <1>4
    <3>2. Before(head, corrPipe[i + 1])
      BY <2>2, <3>1
    <3>3. CASE a \in corrAll
      BY <3>1, <3>3 DEF CorrInv, OrderInv
    <3> QED
      BY <1>1, <1>3, <3>1, <3>2, <3>3
  <2>4. \A i, j \in 1..Len(corrPipe') : i < j => Before(corrPipe'[i], corrPipe'[j])
    BY <1>4 DEF CorrInv, OrderInv
  <2>5. \A a \in corrAll' : a.event.line <= corrLines /\ a.event.ts <= corrNow
    BY <1>1, <1>3, <1>4 DEF CorrInv, OrderInv
  <2>6. \A i \in 1..Len(corrPipe') :
          corrPipe'[i].line <= corrLines /\ corrPipe'[i].ts <= corrNow
    BY <1>4 DEF CorrInv, OrderInv
  <2> QED
    BY <1>1, <2>1, <2>3, <2>4, <2>5, <2>6 DEF OrderInv, Before
<1>10. WindowInv'
  <2>1. \A e \in corrBuf' : \E a \in corrAll' : a.event = e
    BY <1>1, <1>3 DEF CorrInv, WindowInv
  <2>2. \A a \in corrAll' : a.event.ts >= corrNow - WINDOW => a.event \in corrBuf'
    BY <1>1, <1>3 DEF CorrInv, WindowInv
  <2> QED
    BY <1>1, <2>1, <2>2, Zenon DEF WindowInv
<1>11. \A e \in corrBuf' : /\ e.ts >= corrNow - WINDOW /\ e.ts <= corrNow
                           /\ \E a \in corrAll' : a.event = e
  BY <1>1, <1>9, <1>10 DEF OrderInv, WindowInv
<1>12. CorrSound'
  <2>1. \A key \in corrSeen :
          \/ key[1] = "memory_multi_source" /\ Close("edac_ce", "mce")'
          \/ key[1] = "pcie_memory_cascade" /\ Close("pcie_aer_fatal", "edac_ue")'
          \/ /\ key[1] = "event_storm"
             /\ \E t \in Triple' : /\ SameType(t) /\ t[1].event.type = key[2]
                                   /\ t[3].event.ts - t[1].event.ts <= WINDOW
    <3>1. corrAll \subseteq corrAll'
      BY <1>1
    <3>2. Triple \subseteq Triple'
      BY <3>1 DEF Triple
    <3>3. \A s, t : Close(s, t) => Close(s, t)'
      BY <3>1 DEF Close
    <3> QED
      BY <3>2, <3>3, Zenon DEF CorrInv, CorrSound
  <2>2. \A s, t : Count(corrBuf', s) > 0 /\ Count(corrBuf', t) > 0
                    => Close(s, t)'
    <3> SUFFICES ASSUME NEW s, NEW t, Count(corrBuf', s) > 0, Count(corrBuf', t) > 0
                 PROVE  Close(s, t)'
      OBVIOUS
    <3>1. PICK d \in corrBuf' : d.type = s
      BY <1>6, CountSome
    <3>2. PICK e \in corrBuf' : e.type = t
      BY <1>6, CountSome
    <3>3. PICK a \in corrAll' : a.event = d
      BY <1>11
    <3>4. PICK b \in corrAll' : b.event = e
      BY <1>11
    <3>5. d.ts \in Nat /\ e.ts \in Nat
      BY <1>7, <3>3, <3>4 DEF CorrTypeOK, Event
    <3>6. /\ d.ts >= corrNow - WINDOW /\ d.ts <= corrNow
          /\ e.ts >= corrNow - WINDOW /\ e.ts <= corrNow
      BY <1>11
    <3>7. d.ts - e.ts \in -WINDOW..WINDOW
      BY <3>5, <3>6, CorrAssumption DEF CorrInv, CorrTypeOK
    <3> QED
      BY <3>1, <3>2, <3>3, <3>4, <3>7 DEF Close
  <2>3. ASSUME NEW u \in EventType, Count(corrBuf', u) >= 3
        PROVE  \E t \in Triple' : /\ SameType(t) /\ t[1].event.type = u
                                  /\ t[3].event.ts - t[1].event.ts <= WINDOW
    <3>1. corrNow \in Nat /\ \A a \in corrAll' : a.event \in Event
      BY <1>7 DEF CorrInv, CorrTypeOK
    <3>2. \A a, b \in corrAll' :
            a = b \/ Before(a.event, b.event) \/ Before(b.event, a.event)
      BY <1>9 DEF OrderInv, Before
    <3>3. \E a, b, c \in corrAll' :
            /\ a.event.line < b.event.line /\ b.event.line < c.event.line
            /\ a.event.type = u /\ b.event.type = u /\ c.event.type = u
            /\ c.event.ts - a.event.ts <= WINDOW
      BY <1>6, <1>11, <2>3, <3>1, <3>2, DetectedHasCause
    <3>4. PICK a, b, c \in corrAll' :
            /\ a.event.line < b.event.line /\ b.event.line < c.event.line
            /\ a.event.type = u /\ b.event.type = u /\ c.event.type = u
            /\ c.event.ts - a.event.ts <= WINDOW
      BY <3>3
    <3>5. <<a, b, c>> \in Triple'
      BY <3>4 DEF Triple
    <3> WITNESS <<a, b, c>> \in Triple'
    <3> QED
      BY <3>4 DEF SameType
  <2>4. \A key \in keys :
          \/ key[1] = "memory_multi_source" /\ Close("edac_ce", "mce")'
          \/ key[1] = "pcie_memory_cascade" /\ Close("pcie_aer_fatal", "edac_ue")'
          \/ /\ key[1] = "event_storm"
             /\ \E t \in Triple' : /\ SameType(t) /\ t[1].event.type = key[2]
                                   /\ t[3].event.ts - t[1].event.ts <= WINDOW
    <3> SUFFICES ASSUME NEW key \in keys
                 PROVE  \/ key[1] = "memory_multi_source" /\ Close("edac_ce", "mce")'
                        \/ /\ key[1] = "pcie_memory_cascade"
                           /\ Close("pcie_aer_fatal", "edac_ue")'
                        \/ /\ key[1] = "event_storm"
                           /\ \E t \in Triple' :
                                /\ SameType(t) /\ t[1].event.type = key[2]
                                /\ t[3].event.ts - t[1].event.ts <= WINDOW
      OBVIOUS
    <3>1. \/ /\ key = <<"memory_multi_source", "">>
             /\ Count(corrBuf', "edac_ce") > 0 /\ Count(corrBuf', "mce") > 0
          \/ /\ key = <<"pcie_memory_cascade", "">>
             /\ Count(corrBuf', "pcie_aer_fatal") > 0 /\ Count(corrBuf', "edac_ue") > 0
          \/ \E u \in EventType : key = <<"event_storm", u>> /\ Count(corrBuf', u) >= 3
      BY DEF detect_correlations
    <3>2. CASE /\ key = <<"memory_multi_source", "">>
               /\ Count(corrBuf', "edac_ce") > 0 /\ Count(corrBuf', "mce") > 0
      BY <2>2, <3>2
    <3>3. CASE /\ key = <<"pcie_memory_cascade", "">>
               /\ Count(corrBuf', "pcie_aer_fatal") > 0 /\ Count(corrBuf', "edac_ue") > 0
      BY <2>2, <3>3
    <3>4. ASSUME NEW u \in EventType, key = <<"event_storm", u>>, Count(corrBuf', u) >= 3
          PROVE  /\ key[1] = "event_storm"
                 /\ \E t \in Triple' : /\ SameType(t) /\ t[1].event.type = key[2]
                                       /\ t[3].event.ts - t[1].event.ts <= WINDOW
      <4>1. key[1] = "event_storm" /\ key[2] = u
        BY <3>4
      <4> QED
        BY <2>3, <3>4, <4>1
    <3> QED
      BY <3>1, <3>2, <3>3, <3>4
  <2> HIDE DEF keys
  <2> QED
    BY <1>5, <2>1, <2>4, Zenon DEF CorrSound
<1>13. CorrComplete'
  <2> SUFFICES ASSUME NEW t \in Triple', SameType(t),
                      t[1].event.ts >= t[3].at - WINDOW
               PROVE  <<"event_storm", t[1].event.type>> \in corrSeen'
    BY DEF CorrComplete, SameType
  <2>1. /\ t = <<t[1], t[2], t[3]>>
        /\ t[1] \in corrAll' /\ t[2] \in corrAll' /\ t[3] \in corrAll'
        /\ t[1].event.line < t[2].event.line /\ t[2].event.line < t[3].event.line
    BY DEF Triple
  <2>2. \A a \in corrAll' : a.event.line \in Nat /\ a.event.ts \in Nat
    BY <1>7 DEF CorrTypeOK, Event
  <2>3. ASSUME NEW a \in corrAll', NEW b \in corrAll', a.event.line < b.event.line
        PROVE  a \in corrAll /\ Before(a.event, b.event)
    <3>1. a # new
      <4> SUFFICES ASSUME a = new PROVE FALSE
        OBVIOUS
      <4>1. b \in corrAll => b.event.line < a.event.line
        BY <1>3, <1>8 DEF Before
      <4>2. b = new => b.event.line = a.event.line
        OBVIOUS
      <4> QED
        BY <1>1, <2>2, <2>3, <4>1, <4>2
    <3>2. Before(a.event, b.event)
      BY <1>9, <2>2, <2>3 DEF OrderInv, Before
    <3> QED
      BY <1>1, <3>1, <3>2
  <2>4. t[1].event.line < t[3].event.line
    BY <2>1, <2>2
  <2>5. /\ t[1] \in corrAll /\ t[2] \in corrAll
        /\ Before(t[1].event, t[2].event) /\ Before(t[1].event, t[3].event)
    BY <2>1, <2>3, <2>4
  <2>6. CASE t[3] \in corrAll
    <3>1. t \in Triple
      <4> HIDE DEF new
      <4> QED
        BY <2>1, <2>5, <2>6 DEF Triple
    <3>2. <<"event_storm", t[1].event.type>> \in corrSeen
      BY <3>1 DEF CorrInv, CorrComplete
    <3> HIDE DEF keys
    <3> QED
      BY <1>5, <3>2
  <2>7. CASE t[3] = new
    <3>1. t[1].event.ts >= corrNow - WINDOW
      BY <1>3, <2>7
    <3>2. t[2].event.ts >= corrNow - WINDOW /\ t[3].event.ts >= corrNow - WINDOW
      <4>1. /\ t[1].event.ts \in Nat /\ t[2].event.ts \in Nat
            /\ t[3].event.ts \in Nat /\ corrNow \in Nat
        BY <2>1, <2>2 DEF CorrInv, CorrTypeOK
      <4>2. t[1].event.ts <= t[2].event.ts /\ t[1].event.ts <= t[3].event.ts
        BY <2>5 DEF Before
      <4> QED
        BY <3>1, <4>1, <4>2, CorrAssumption
    <3>3. t[1].event \in corrBuf' /\ t[2].event \in corrBuf' /\ t[3].event \in corrBuf'
      BY <1>1, <1>10, <2>1, <3>1, <3>2 DEF WindowInv
    <3>4. /\ t[1].event # t[2].event /\ t[2].event # t[3].event
          /\ t[1].event # t[3].event
      BY <2>1, <2>2, <2>4
    <3>5. Count(corrBuf', t[1].event.type) >= 3
      BY <1>6, <3>3, <3>4, ThreeCount DEF SameType
    <3>6. t[1].event.type \in EventType
      BY <1>7, <2>1 DEF CorrTypeOK, Event
    <3>7. <<"event_storm", t[1].event.type>> \in keys
      BY <3>5, <3>6 DEF detect_correlations
    <3> HIDE DEF keys
    <3> QED
      BY <1>5, <3>7
  <2> QED
    BY <1>1, <2>1, <2>6, <2>7
<1> QED
  BY <1>7, <1>9, <1>10, <1>12, <1>13 DEF CorrInv

LEMMA CorrStepInv == CorrInv /\ [CorrNext]_corrVars => CorrInv'
<1> SUFFICES ASSUME CorrInv, [CorrNext]_corrVars PROVE CorrInv'
  OBVIOUS
<1>1. CASE UNCHANGED corrVars
  BY <1>1 DEF corrVars, CorrInv, CorrTypeOK, OrderInv, Before, WindowInv,
              CorrSound, CorrComplete, Close, Triple, SameType
<1> QED
  BY <1>1, TickKeeps, WatchKeeps, CorrelateKeeps DEF CorrNext, CorrWait

\* For any window, any kernel lines and any limit above the number of keys,
\* the state of the two programs keeps its shape and its order.
THEOREM CorrelatorInvariant == CorrSpec => []CorrInv
<1>1. CorrInit => CorrInv
  BY CorrAssumption, FS_EmptySet
     DEF CorrInit, CorrInv, CorrTypeOK, OrderInv, WindowInv, CorrSound,
         CorrComplete, Triple
<1> QED
  BY <1>1, CorrStepInv, PTL DEF CorrSpec

\* A correlation is annotated only if its events were stamped within one
\* window of each other, however long they waited between the programs.
THEOREM NoFalseCorrelation == CorrSpec => []CorrSound
<1>1. CorrInv => CorrSound
  BY DEF CorrInv
<1> QED
  BY <1>1, CorrelatorInvariant, PTL

\* Three events of a type that are in the window together are annotated as a
\* storm when the last of them is taken.
THEOREM NoMissedStorm == CorrSpec => []CorrComplete
<1>1. CorrInv => CorrComplete
  BY DEF CorrInv
<1> QED
  BY <1>1, CorrelatorInvariant, PTL

\* A key once seen is seen for good, so that a storm that recurs is not
\* annotated again: the limit above which event_correlator.py clears its
\* keys is larger than the number of keys there can be.
THEOREM KeysAreNeverCleared == CorrSpec => [][corrSeen \subseteq corrSeen']_corrVars
<1>1. CorrInv /\ [CorrNext]_corrVars => [corrSeen \subseteq corrSeen']_corrVars
  <2> SUFFICES ASSUME CorrInv, CorrNext PROVE corrSeen \subseteq corrSeen'
    OBVIOUS
  <2>1. CASE Correlate
    BY <2>1, KeysAdded DEF CorrInv
  <2> QED
    BY <2>1 DEF CorrNext, CorrTick, CorrWatch, CorrWait, corrVars
<1> QED
  BY <1>1, CorrelatorInvariant, PTL DEF CorrSpec
=============================================================================
