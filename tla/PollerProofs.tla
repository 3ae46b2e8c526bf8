---------------------------- MODULE PollerProofs ----------------------------
(***************************************************************************)
(* Proofs about the programs that read logs.  For the two pollers of BMC   *)
(* logs: what the saved position, or the saved set of ids, says about what *)
(* has been reported; for the trace parser: which line an event is about.  *)
(***************************************************************************)
EXTENDS SelPoller, RedfishPoller, TraceParser, FiniteSetTheorems,
        WellFoundedInduction, TLAPS

-----------------------------------------------------------------------------
(***************************************************************************)
(* The Redfish poller                                                      *)
(***************************************************************************)

\* The entries are numbered in the order in which they came; until the log
\* is cleared that number is their id.  The ids in memory belong to entries
\* that are in an output or in the one about to be written, those in the
\* file to entries that are in an output.
RfInv ==
  /\ RfTypeOK
  /\ IsFiniteSet(rfLog) /\ Cardinality(rfLog) <= rfLogged
  /\ \A e \in rfLog : e.uid <= rfLogged
  /\ rfEntries = {} \/ rfPc # "collect"
  /\ ~rfCleared =>
       /\ Cardinality(rfLog) = rfLogged
       /\ \A e \in rfLog : e.Id = e.uid
       /\ rfFile # RfTorn => rfFile \subseteq rfReported
       /\ rfPc \in {"collect", "save", "write"} => rfSeen \subseteq rfReported
       /\ rfPc = "output" =>
            \A i \in rfSeen : i \in rfReported \/ \E e \in rfEntries : e.uid = i

\* The invariant holds when the poller first runs.
LEMMA RfInitInv == RfInit => RfInv
<1> SUFFICES ASSUME RfInit PROVE RfInv
  OBVIOUS
<1>1. IsFiniteSet(rfLog) /\ Cardinality(rfLog) = 0
  BY FS_EmptySet DEF RfInit
<1>2. RfTypeOK
  <2>1. rfFile \in (SUBSET (1..MaxEntries)) \cup {RfTorn}
    BY DEF RfInit
  <2>2. rfLogged \in 0..MaxEntries
    BY RfAssumption DEF RfInit
  <2> QED
    BY <2>1, <2>2 DEF RfInit, RfTypeOK
<1>3. rfFile = {} /\ rfLog = {} /\ rfLogged = 0 /\ rfPc = "idle"
  BY DEF RfInit
<1>4. Cardinality(rfLog) <= rfLogged
  BY <1>1, <1>3
<1>5. rfSeen = {} /\ rfEntries = {} /\ rfReported = {} /\ rfCleared = FALSE
  BY DEF RfInit
<1> QED
  BY <1>1, <1>2, <1>3, <1>4, <1>5 DEF RfInv, RfTorn

\* A new entry gets a number that no entry has had.
LEMMA RfAddInv ==
  ASSUME RfInv, NEW s \in Severity, RfAdd(s)
  PROVE  RfInv'
<1> DEFINE new == [uid |-> rfLogged + 1, Id |-> Cardinality(rfLog) + 1, Severity |-> s]
<1>1. rfLog' = rfLog \cup {new} /\ rfLogged' = rfLogged + 1
  BY DEF RfAdd
<1>2. Cardinality(rfLog) \in Nat /\ rfLogged \in Nat /\ rfLogged < MaxEntries
  BY FS_CardinalityType, RfAssumption DEF RfInv, RfTypeOK, RfAdd
<1>3. new \in Entry
  BY <1>2, RfAssumption DEF Entry, RfInv
<1>4. new \notin rfLog
  BY <1>2 DEF RfInv
<1>5. IsFiniteSet(rfLog') /\ Cardinality(rfLog') = Cardinality(rfLog) + 1
  BY <1>1, <1>4, FS_AddElement DEF RfInv
<1>6. RfTypeOK'
  BY <1>1, <1>2, <1>3, RfAssumption DEF RfInv, RfTypeOK, RfAdd
<1>7. \A e \in rfLog' : e.uid <= rfLogged'
  <2>1. \A e \in rfLog : e.uid \in Nat
    BY RfAssumption DEF RfInv, RfTypeOK, Entry
  <2> QED
    BY <1>1, <1>2, <2>1 DEF RfInv
<1>8. ASSUME ~rfCleared
      PROVE  /\ Cardinality(rfLog') = rfLogged'
             /\ \A e \in rfLog' : e.Id = e.uid
  BY <1>1, <1>2, <1>5, <1>8 DEF RfInv
<1> QED
  BY <1>1, <1>2, <1>5, <1>6, <1>7, <1>8 DEF RfInv, RfAdd

\* Collecting adds to the ids in memory those of the entries of this run.
LEMMA RfCollectInv ==
  ASSUME RfInv, NEW selOk \in BOOLEAN, NEW gauges \in BOOLEAN,
         RfCollect(selOk, gauges)
  PROVE  RfInv'
<1>1. rfEntries' \subseteq rfLog /\ rfSeen' = rfSeen \cup {e.Id : e \in rfEntries'}
  BY DEF RfCollect, collect_sel_entries
<1>2. rfEntries' \subseteq Entry
  BY <1>1 DEF RfInv, RfTypeOK
<1>3. rfSeen' \subseteq 1..MaxEntries
  BY <1>1, <1>2 DEF RfInv, RfTypeOK, Entry
<1>4. RfTypeOK'
  <2>1. UNCHANGED <<rfLog, rfFile, rfReported, rfLogged, rfCleared>>
    BY DEF RfCollect, rfHistory
  <2>2. rfPc' = "output" /\ rfUp' \in BOOLEAN
    BY DEF RfCollect
  <2> QED
    BY <1>2, <1>3, <2>1, <2>2 DEF RfInv, RfTypeOK
<1>5. ASSUME ~rfCleared
      PROVE  \A i \in rfSeen' :
               i \in rfReported \/ \E e \in rfEntries' : e.uid = i
  <2>1. \A e \in rfEntries' : e.Id = e.uid
    BY <1>1, <1>5 DEF RfInv
  <2>2. rfSeen \subseteq rfReported
    BY <1>5 DEF RfInv, RfCollect
  <2> QED
    BY <1>1, <2>1, <2>2
<1>6. rfPc' = "output" /\ UNCHANGED <<rfLog, rfFile, rfReported, rfLogged, rfCleared>>
  BY DEF RfCollect, rfHistory
<1> QED
  BY <1>4, <1>5, <1>6 DEF RfInv

\* Every step keeps the invariant.
LEMMA RfStepInv == RfInv /\ [RfNext]_rfVars => RfInv'
<1> SUFFICES ASSUME RfInv, [RfNext]_rfVars PROVE RfInv'
  OBVIOUS
<1>1. ASSUME NEW s \in Severity, RfAdd(s) PROVE RfInv'
  BY <1>1, RfAddInv
<1>2. ASSUME NEW ok \in BOOLEAN, NEW gauges \in BOOLEAN, RfCollect(ok, gauges)
      PROVE  RfInv'
  BY <1>2, RfCollectInv
<1>3. ASSUME NEW found \in BOOLEAN, RfStart(found) PROVE RfInv'
  BY <1>3 DEF RfInv, RfTypeOK, RfStart, load_redfish_state, rfHistory, RfTorn
<1>4. CASE RfClear
  BY <1>4, FS_EmptySet DEF RfInv, RfTypeOK, RfClear
<1>5. CASE RfOutput
  <2>1. {e.uid : e \in rfEntries} \subseteq 1..MaxEntries
    BY DEF RfInv, RfTypeOK, Entry
  <2>2. RfTypeOK'
    BY <1>5, <2>1 DEF RfInv, RfTypeOK, RfOutput
  <2> QED
    BY <1>5, <2>2 DEF RfInv, RfOutput
<1>6. CASE save_redfish_state
  BY <1>6 DEF RfInv, RfTypeOK, save_redfish_state, rfHistory
<1>7. CASE RfSaved
  BY <1>7 DEF RfInv, RfTypeOK, RfSaved, rfHistory
<1>8. CASE RfStops
  BY <1>8 DEF RfInv, RfTypeOK, RfStops, rfHistory
<1>9. CASE UNCHANGED rfVars
  BY <1>9 DEF RfInv, RfTypeOK, rfVars, rfHistory
<1> QED
  BY <1>1, <1>2, <1>3, <1>4, <1>5, <1>6, <1>7, <1>8, <1>9 DEF RfNext

\* Every variable of the Redfish poller has its type.
THEOREM RfTypeCorrect == RfSpec => []RfTypeOK
<1>1. RfInv => RfTypeOK
  BY DEF RfInv
<1> QED
  BY <1>1, RfInitInv, RfStepInv, PTL DEF RfSpec

\* An id is saved only if its entry was in an output, for any number of
\* entries and wherever a run ends: redfish_collector.py writes its output
\* before the state file.
THEOREM RfReportedBeforeSaved == RfSpec => []RfSeenWasReported
<1>1. RfInv => RfSeenWasReported
  BY DEF RfInv, RfSeenWasReported
<1> QED
  BY <1>1, RfInitInv, RfStepInv, PTL DEF RfSpec

-----------------------------------------------------------------------------
(***************************************************************************)
(* The SEL poller                                                          *)
(***************************************************************************)

\* A set of ids has a maximum.
LEMMA MaxOfIds ==
  ASSUME NEW k \in Nat, NEW S \in SUBSET (0..k), S # {}
  PROVE  Max(S) \in S /\ \A y \in S : Max(S) >= y
<1> DEFINE T == {k - x : x \in S}
           Less == OpToRel(<, Nat)
<1>1. \A x \in S : x \in Nat /\ k - x \in Nat
  OBVIOUS
<1>2. \A t \in T : t \in Nat /\ \E x \in S : t = k - x
  BY <1>1
<1>3. \A x \in S : k - x \in T
  OBVIOUS
<1>4. \A i, j \in Nat : <<i, j>> \in Less \/ j <= i
  BY DEF OpToRel
<1>5. IsWellFoundedOn(Less, Nat)
  BY NatLessThanWellFounded
<1> HIDE DEF T, Less
<1>6. T \subseteq Nat /\ T # {}
  BY <1>2, <1>3
<1>7. PICK t \in T : \A u \in T : ~ (<<u, t>> \in Less)
  BY <1>5, <1>6, WFMin
<1>8. \A u \in T : t <= u
  <2> TAKE u \in T
  <2>1. u \in Nat /\ t \in Nat
    BY <1>6, <1>7
  <2> QED
    BY <1>4, <1>7, <2>1, Zenon
<1>9. PICK x \in S : t = k - x
  BY <1>2, <1>7
<1>10. \A y \in S : x >= y
  <2> TAKE y \in S
  <2>1. t <= k - y
    BY <1>3, <1>8
  <2> QED
    BY <1>1, <1>9, <2>1
<1> QED
  BY <1>9, <1>10 DEF Max

\* The log of a node holds at most as many records as the node has logged,
\* and until it is cleared their ids are their numbers, and no position,
\* saved or in memory, is beyond the last of them.
SelLogInv(n) ==
  /\ IsFiniteSet(sel[n]) /\ Cardinality(sel[n]) <= selLogged[n]
  /\ \A r \in sel[n] : r.node = n /\ r.uid <= selLogged[n]
  /\ n \notin selCleared =>
       /\ Cardinality(sel[n]) = selLogged[n]
       /\ \A r \in sel[n] : r.id = r.uid
       /\ selFile[n] <= selLogged[n] /\ selState[n] <= selLogged[n]

\* What a position claims to be done is reported, or among the new events
\* of the poll under way.
SelDoneInv(n) ==
  (n \notin selCleared /\ ~selLost) =>
    \A r \in parse_sel_csv(sel[n]) :
      /\ r.id <= selFile[n] =>
           selReported[n][r.uid] > 0 \/ (selPc = "emit" /\ r \in selNew)
      /\ (selPc \in {"collect", "save", "write"} /\ r.id <= selState[n]) =>
           selReported[n][r.uid] > 0 \/ r \in selNew

SelInv ==
  /\ SelTypeOK
  /\ \A n \in SelNode : SelLogInv(n) /\ SelDoneInv(n)

\* The invariant holds before anything was logged.
LEMMA SelInitInv == SelInit => SelInv
<1> SUFFICES ASSUME SelInit PROVE SelInv
  OBVIOUS
<1>1. SelTypeOK
  <2>1. NoPosition \in Position
    BY SelAssumption DEF NoPosition, Position
  <2>2. selReported \in [SelNode -> [1..MaxRecords -> 0..2]]
    BY DEF SelInit
  <2>3. selLogged \in [SelNode -> 0..MaxRecords]
    BY SelAssumption DEF SelInit
  <2>4. sel \in [SelNode -> SUBSET Record]
    BY DEF SelInit
  <2> QED
    BY <2>1, <2>2, <2>3, <2>4 DEF SelInit, SelTypeOK
<1>2. ASSUME NEW n \in SelNode PROVE SelLogInv(n) /\ SelDoneInv(n)
  BY FS_EmptySet, <1>2 DEF SelInit, SelLogInv, SelDoneInv, NoPosition, parse_sel_csv
<1> QED
  BY <1>1, <1>2 DEF SelInv

\* A new record has an id above every position of its node.
LEMMA SelLogStep ==
  ASSUME SelInv, NEW n \in SelNode, NEW ok \in BOOLEAN, SelLog(n, ok)
  PROVE  SelInv'
<1> DEFINE new == [node |-> n, uid |-> selLogged[n] + 1,
                   id |-> Cardinality(sel[n]) + 1, ok |-> ok]
<1>1. /\ selLogged' = [selLogged EXCEPT ![n] = @ + 1]
      /\ selLogged[n] \in Nat /\ selLogged[n] < MaxRecords
  BY SelAssumption DEF SelLog, SelInv, SelTypeOK
<1>2. sel' = [sel EXCEPT ![n] = @ \cup {new}]
  BY <1>1 DEF SelLog, SelInv, SelTypeOK
<1>3. Cardinality(sel[n]) \in Nat /\ Cardinality(sel[n]) <= selLogged[n]
  BY FS_CardinalityType DEF SelInv, SelLogInv
<1>4. new \in Record
  BY <1>1, <1>3, SelAssumption DEF Record
<1>5. new \notin sel[n]
  BY <1>1 DEF SelInv, SelLogInv
<1>6. IsFiniteSet(sel'[n]) /\ Cardinality(sel'[n]) = Cardinality(sel[n]) + 1
  <2>1. IsFiniteSet(sel[n]) /\ sel'[n] = sel[n] \cup {new}
    BY <1>2 DEF SelInv, SelLogInv, SelTypeOK
  <2> HIDE DEF new
  <2> QED
    BY <1>5, <2>1, FS_AddElement
<1>7. UNCHANGED <<selFile, selPc, selTargets, selState, selUp, selNew,
                  selReported, selCleared, selLost, selBadSave>>
  BY DEF SelLog, selMemory
<1>8. SelTypeOK'
  BY <1>1, <1>2, <1>4, <1>7, SelAssumption DEF SelInv, SelTypeOK
<1>9. \A r \in sel[n] : r.uid \in Nat /\ r.id \in Nat
  BY SelAssumption DEF SelInv, SelTypeOK, Record
<1>10. selFile[n] \in Int /\ selState[n] \in Int
  BY SelAssumption DEF SelInv, SelTypeOK, Position, Torn
<1>11. ASSUME NEW m \in SelNode PROVE SelLogInv(m)' /\ SelDoneInv(m)'
  <2>1. CASE m # n
    <3>1. sel'[m] = sel[m] /\ selLogged'[m] = selLogged[m]
      BY <1>1, <1>2, <2>1 DEF SelInv, SelTypeOK
    <3> QED
      BY <1>7, <3>1 DEF SelInv, SelLogInv, SelDoneInv, parse_sel_csv
  <2>2. CASE m = n
    <3>1. sel'[n] = sel[n] \cup {new} /\ selLogged'[n] = selLogged[n] + 1
      BY <1>1, <1>2 DEF SelInv, SelTypeOK
    <3>2. SelLogInv(n)'
      BY <1>1, <1>3, <1>6, <1>7, <1>9, <1>10, <3>1 DEF SelInv, SelLogInv
    <3>3. SelDoneInv(n)'
      BY <1>1, <1>7, <1>10, <3>1
         DEF SelInv, SelLogInv, SelDoneInv, parse_sel_csv
    <3> QED
      BY <2>2, <3>2, <3>3
  <2> QED
    BY <2>1, <2>2
<1> QED
  BY <1>8, <1>11 DEF SelInv

\* A node that answers: its position moves to the last of the new events.
LEMMA SelCollectStep ==
  ASSUME SelInv, NEW n \in SelNode, CollectUp(n)
  PROVE  SelInv'
<1> DEFINE new == NewEvents(n)
           top == Max({r.id : r \in new})
<1>1. new \subseteq sel[n] /\ sel[n] \subseteq Record
  BY DEF NewEvents, parse_sel_csv, SelInv, SelTypeOK
<1>2. selState' = [selState EXCEPT ![n] = IF new = {} THEN @ ELSE top]
  BY DEF CollectUp
<1>3. selNew' = selNew \cup new
  BY DEF CollectUp
<1>4. UNCHANGED <<sel, selFile, selPc, selReported, selLogged, selCleared,
                  selLost, selBadSave>> /\ selPc = "collect"
  BY DEF CollectUp, selHistory
<1>5. ASSUME new # {}
      PROVE  top \in {r.id : r \in new} /\ top \in 0..MaxRecords
  <2> DEFINE S == {r.id : r \in new}
  <2>1. S \in SUBSET (0..MaxRecords) /\ S # {}
    BY <1>1, <1>5, SelAssumption DEF Record
  <2> HIDE DEF S
  <2>2. Max(S) \in S
    BY <2>1, MaxOfIds, SelAssumption
  <2>3. Max(S) \in 0..MaxRecords
    BY <2>1, <2>2
  <2> QED
    BY <2>2, <2>3 DEF S
<1> HIDE DEF new, top
<1>6. SelTypeOK'
  <2>1. selState' \in Position
    BY <1>2, <1>5 DEF SelInv, SelTypeOK, Position
  <2>2. selNew' \subseteq Record
    BY <1>1, <1>3 DEF SelInv, SelTypeOK
  <2>3. selTargets' \subseteq SelNode /\ selUp' \subseteq SelNode
    BY DEF CollectUp, SelInv, SelTypeOK
  <2> QED
    BY <1>4, <2>1, <2>2, <2>3 DEF SelInv, SelTypeOK
<1>7. ASSUME NEW m \in SelNode PROVE SelLogInv(m)' /\ SelDoneInv(m)'
  <2>1. CASE m # n
    <3>1. selState'[m] = selState[m]
      BY <1>2, <2>1 DEF SelInv, SelTypeOK, Position
    <3> QED
      BY <1>3, <1>4, <3>1 DEF SelInv, SelLogInv, SelDoneInv, parse_sel_csv
  <2>2. CASE m = n
    <3>1. selState'[n] = IF new = {} THEN selState[n] ELSE top
      BY <1>2 DEF SelInv, SelTypeOK, Position
    <3>2. SelLogInv(n)'
      <4>1. ASSUME new # {}, n \notin selCleared PROVE top <= selLogged[n]
        BY <1>1, <1>5, <4>1 DEF SelInv, SelLogInv
      <4> QED
        BY <1>4, <3>1, <4>1 DEF SelInv, SelLogInv
    <3>3. SelDoneInv(n)'
      <4>1. \A r \in parse_sel_csv(sel[n]) : r.id <= selState[n] \/ r \in new
        BY SelAssumption
           DEF new, NewEvents, parse_sel_csv, SelInv, SelTypeOK, Record, Position
      <4> QED
        BY <1>3, <1>4, <4>1 DEF SelInv, SelDoneInv, parse_sel_csv
    <3> QED
      BY <2>2, <3>2, <3>3
  <2> QED
    BY <2>1, <2>2
<1> QED
  BY <1>6, <1>7 DEF SelInv

\* The output leaves no claim open: what was new is reported.
LEMMA SelEmitStep ==
  ASSUME SelInv, SelEmit
  PROVE  SelInv'
<1>1. /\ UNCHANGED <<sel, selFile, selLogged, selCleared, selLost, selBadSave>>
      /\ selPc = "emit" /\ selPc' = "idle" /\ selState' = NoPosition
      /\ selTargets' = {} /\ selUp' = {} /\ selNew' = {}
  BY DEF SelEmit
<1>2. \A k \in 0..2 : Bump(k) \in 0..2 /\ Bump(k) > 0
  BY DEF Bump
<1>3. selReported' \in [SelNode -> [1..MaxRecords -> 0..2]]
  BY <1>2 DEF SelEmit, SelInv, SelTypeOK
<1>4. \A n \in SelNode, u \in 1..MaxRecords :
        (selReported[n][u] > 0 \/ \E r \in selNew : r.node = n /\ r.uid = u)
          => selReported'[n][u] > 0
  BY <1>2 DEF SelEmit, SelInv, SelTypeOK
<1>5. NoPosition \in Position /\ \A n \in SelNode : NoPosition[n] = 0
  BY SelAssumption DEF NoPosition, Position
<1>6. SelTypeOK'
  BY <1>1, <1>3, <1>5 DEF SelInv, SelTypeOK
<1>7. ASSUME NEW n \in SelNode PROVE SelLogInv(n)' /\ SelDoneInv(n)'
  <2>1. \A r \in sel[n] : r.uid \in 1..MaxRecords /\ r.node = n
    BY DEF SelInv, SelTypeOK, SelLogInv, Record
  <2>2. SelLogInv(n)'
    BY <1>1, <1>5, SelAssumption DEF SelInv, SelLogInv, SelTypeOK
  <2>3. SelDoneInv(n)'
    BY <1>1, <1>4, <2>1 DEF SelInv, SelDoneInv, parse_sel_csv
  <2> QED
    BY <2>2, <2>3
<1> QED
  BY <1>6, <1>7 DEF SelInv

\* The steps that neither log, collect nor report.
LEMMA SelOtherStep ==
  ASSUME SelInv,
         \/ \E n \in SelNode : SelClear(n) \/ CollectDown(n)
         \/ SelStart \/ Collected \/ save_state \/ SaveWrites \/ SaveFails
         \/ SelCrash \/ UNCHANGED selVars
  PROVE  SelInv'
<1>1. NoPosition \in Position /\ \A n \in SelNode : NoPosition[n] = 0 /\ Torn[n] = -1
  BY SelAssumption DEF NoPosition, Position, Torn
<1>2. \A n \in SelNode : selLogged[n] \in Nat /\ \A r \in sel[n] : r.id \in Nat \ {0}
  BY SelAssumption DEF SelInv, SelTypeOK, Record
<1> USE DEF SelInv, SelLogInv, SelDoneInv, SelTypeOK, parse_sel_csv, selHistory, selMemory
<1>3. ASSUME NEW n \in SelNode, SelClear(n) PROVE SelInv'
  <2>1. /\ sel' = [sel EXCEPT ![n] = {}] /\ selCleared' = selCleared \cup {n}
        /\ UNCHANGED <<selFile, selPc, selTargets, selState, selUp, selNew,
                       selReported, selLogged, selLost, selBadSave>>
    BY <1>3 DEF SelClear
  <2>2. SelTypeOK'
    BY <2>1
  <2>3. ASSUME NEW m \in SelNode PROVE SelLogInv(m)' /\ SelDoneInv(m)'
    BY <1>2, <2>1, FS_EmptySet
  <2> QED
    BY <2>2, <2>3
<1>4. ASSUME NEW n \in SelNode, CollectDown(n) PROVE SelInv'
  BY <1>4 DEF CollectDown
<1>5. CASE SelStart
  <2>1. /\ UNCHANGED <<sel, selFile, selReported, selLogged, selCleared, selLost,
                       selBadSave>>
        /\ selPc = "idle" /\ selPc' = "collect" /\ selTargets' = SelNode
        /\ selUp' = {} /\ selNew' = {}
        /\ selState' = IF selFile = Torn THEN NoPosition ELSE selFile
    BY <1>5 DEF SelStart, load_state
  <2>2. SelTypeOK'
    BY <1>1, <2>1
  <2>3. ASSUME NEW m \in SelNode PROVE SelLogInv(m)' /\ SelDoneInv(m)'
    BY <1>1, <1>2, <2>1
  <2> QED
    BY <2>2, <2>3
<1>6. CASE Collected
  BY <1>6 DEF Collected
<1>7. CASE save_state
  <2>1. /\ UNCHANGED <<sel, selTargets, selState, selUp, selNew, selReported,
                       selLogged, selCleared, selLost, selBadSave>>
        /\ selPc = "save" /\ selPc' = "write" /\ selFile' = Torn
    BY <1>7 DEF save_state
  <2>2. SelTypeOK'
    BY <2>1
  <2>3. ASSUME NEW m \in SelNode PROVE SelLogInv(m)' /\ SelDoneInv(m)'
    BY <1>1, <1>2, <2>1
  <2> QED
    BY <2>2, <2>3
<1>8. CASE SaveWrites
  BY <1>8 DEF SaveWrites
<1>9. CASE SaveFails
  BY <1>9 DEF SaveFails
<1>10. CASE SelCrash
  <2>1. /\ UNCHANGED <<sel, selFile, selReported, selLogged, selCleared>>
        /\ selPc' = "idle" /\ selTargets' = {} /\ selState' = NoPosition
        /\ selUp' = {} /\ selNew' = {}
        /\ selLost' = (selLost \/ (selPc = "emit" /\ selNew # {}))
        /\ selBadSave' \in BOOLEAN
    BY <1>10 DEF SelCrash
  <2>2. ~selLost' => ~selLost /\ ~(selPc = "emit" /\ selNew # {})
    BY <2>1, Zenon
  <2>3. SelTypeOK'
    BY <1>1, <2>1
  <2>4. ASSUME NEW m \in SelNode PROVE SelLogInv(m)' /\ SelDoneInv(m)'
    <3>1. SelLogInv(m)'
      BY <1>1, <1>2, <2>1
    <3>2. SelDoneInv(m)'
      BY <2>1, <2>2
    <3> QED
      BY <3>1, <3>2
  <2> QED
    BY <2>3, <2>4
<1>11. CASE UNCHANGED selVars
  BY <1>11 DEF selVars
<1> QED
  BY <1>3, <1>4, <1>5, <1>6, <1>7, <1>8, <1>9, <1>10, <1>11

\* Every step keeps the invariant.
LEMMA SelStepInv == SelInv /\ [SelNext]_selVars => SelInv'
BY SelLogStep, SelCollectStep, SelEmitStep, SelOtherStep DEF SelNext

\* Every variable of the SEL poller has its type.
THEOREM SelTypeCorrect == SelSpec => []SelTypeOK
<1>1. SelInv => SelTypeOK
  BY DEF SelInv
<1> QED
  BY <1>1, SelInitInv, SelStepInv, PTL DEF SelSpec

\* The position ipmi_sel_poller.py saves does not run ahead of its output,
\* for any nodes and any number of records, except in the window between
\* save_state and the output, after a poll that died in it, and for a node
\* whose log was cleared.
THEOREM SelNothingLost == SelSpec => []SelNoLoss
<1>1. SelInv => SelNoLoss
  BY DEF SelInv, SelDoneInv, SelNoLoss
<1> QED
  BY <1>1, SelInitInv, SelStepInv, PTL DEF SelSpec

-----------------------------------------------------------------------------
(***************************************************************************)
(* No duplicates                                                           *)
(***************************************************************************)

\* r was, or is about to be, in an output.
Claimed(n, r) == selReported[n][r.uid] > 0 \/ r \in selNew

\* As long as every save went well: what was reported, or is about to be, is
\* at or below the position that the next poll starts from; what is about to
\* be reported never was; and nothing was reported twice.
SelOnceInv(n) ==
  /\ selPc # "write" => selFile # Torn
  /\ \A u \in 1..MaxRecords : selReported[n][u] > 0 => u <= selLogged[n]
  /\ \A r \in selNew : r.node = n => r.uid <= selLogged[n]
  /\ \A r, s \in sel[n] : r.uid = s.uid => r = s
  /\ \A r \in sel[n], s \in selNew : s.node = n /\ r.uid = s.uid => r = s
  /\ \A r \in selNew : r.node = n => selReported[n][r.uid] = 0
  /\ \A u \in 1..MaxRecords : selReported[n][u] <= 1
  /\ \A r \in sel[n] : Claimed(n, r) =>
       /\ selPc \in {"idle", "emit"} => r.id <= selFile[n]
       /\ selPc \in {"collect", "save", "write"} => r.id <= selState[n]
       /\ selReported[n][r.uid] > 0 /\ selPc # "write" => r.id <= selFile[n]

SelOnce ==
  /\ selPc = "idle" \/ (selPc = "collect" /\ selUp = {}) => selNew = {}
  /\ ~selBadSave => \A n \in SelNode : SelOnceInv(n)

SelDupInv == SelInv /\ SelOnce

LEMMA SelOnceInit == SelInit => SelOnce
<1> SUFFICES ASSUME SelInit PROVE SelOnce
  OBVIOUS
<1>1. /\ selNew = {} /\ selPc = "idle" /\ \A n \in SelNode : sel[n] = {}
      /\ \A n \in SelNode, u \in 1..MaxRecords : selReported[n][u] = 0
  BY DEF SelInit
<1>2. SelNode # {} => selFile # Torn
  BY DEF SelInit, NoPosition, Torn
<1> QED
  BY <1>1, <1>2 DEF SelOnce, SelOnceInv

\* A new record has a number of its own, which no output had.
LEMMA SelLogOnce ==
  ASSUME SelDupInv, NEW n \in SelNode, NEW ok \in BOOLEAN, SelLog(n, ok)
  PROVE  SelOnce'
<1> DEFINE new == [node |-> n, uid |-> selLogged[n] + 1,
                   id |-> Cardinality(sel[n]) + 1, ok |-> ok]
<1>1. /\ selLogged' = [selLogged EXCEPT ![n] = @ + 1]
      /\ selLogged \in [SelNode -> Nat] /\ selLogged[n] < MaxRecords
  BY SelAssumption DEF SelLog, SelDupInv, SelInv, SelTypeOK
<1>2. sel' = [sel EXCEPT ![n] = @ \cup {new}]
  BY <1>1 DEF SelLog, SelDupInv, SelInv, SelTypeOK
<1>3. UNCHANGED <<selFile, selPc, selState, selUp, selNew, selReported, selBadSave>>
  BY DEF SelLog, selMemory
<1>4. new.uid = selLogged[n] + 1 /\ new.node = n
  OBVIOUS
<1> HIDE DEF new
<1>5. ASSUME ~selBadSave, NEW m \in SelNode PROVE SelOnceInv(m)'
  <2>1. SelOnceInv(m)
    BY <1>5 DEF SelDupInv, SelOnce
  <2>2. CASE m # n
    <3>1. sel'[m] = sel[m] /\ selLogged'[m] = selLogged[m]
      BY <1>1, <1>2, <2>2 DEF SelDupInv, SelInv, SelTypeOK
    <3> QED
      BY <1>3, <2>1, <3>1 DEF SelOnceInv, Claimed
  <2>3. CASE m = n
    <3>1. sel'[n] = sel[n] \cup {new} /\ selLogged'[n] = selLogged[n] + 1
      BY <1>1, <1>2 DEF SelDupInv, SelInv, SelTypeOK
    <3>2. /\ \A r \in sel[n] : r.uid \in Int /\ r.uid <= selLogged[n]
          /\ \A r \in selNew : r.uid \in Int
      BY SelAssumption DEF SelDupInv, SelInv, SelTypeOK, SelLogInv, Record
    <3>3. selLogged[n] \in Int /\ selLogged[n] + 1 \in 1..MaxRecords
      BY <1>1, SelAssumption
    <3>4. /\ selReported[n][new.uid] = 0
          /\ \A s \in selNew : s.node = n => s.uid # new.uid
          /\ \A s \in sel[n] : s.uid # new.uid
      <4>1. selReported[n][selLogged[n] + 1] \in 0..2
        BY <3>3 DEF SelDupInv, SelInv, SelTypeOK
      <4> QED
        BY <1>4, <2>1, <2>3, <3>2, <3>3, <4>1 DEF SelOnceInv
    <3>5. ~Claimed(n, new)
      BY <1>4, <3>4 DEF Claimed
    <3> QED
      BY <1>1, <1>3, <1>4, <2>1, <2>3, <3>1, <3>2, <3>3, <3>4, <3>5 DEF SelOnceInv, Claimed
  <2> QED
    BY <2>2, <2>3
<1> QED
  BY <1>3, <1>5 DEF SelDupInv, SelOnce

\* What is collected is above the position, which moves up to it.
LEMMA SelCollectOnce ==
  ASSUME SelDupInv, NEW n \in SelNode, CollectUp(n)
  PROVE  SelOnce'
<1> DEFINE new == NewEvents(n)
           top == Max({r.id : r \in new})
<1>1. new \subseteq sel[n] /\ \A r \in new : r.id > selState[n]
  BY DEF NewEvents, parse_sel_csv
<1>2. selState' = [selState EXCEPT ![n] = IF new = {} THEN @ ELSE top]
  BY DEF CollectUp
<1>3. selNew' = selNew \cup new
  BY DEF CollectUp
<1>4. /\ UNCHANGED <<sel, selFile, selPc, selReported, selLogged, selBadSave>>
      /\ selPc = "collect" /\ selUp' # {}
  BY DEF CollectUp, selHistory
<1>5. \A r \in sel[n] : r.node = n /\ r.uid <= selLogged[n] /\ r.id \in Int
                        /\ r.uid \in 1..MaxRecords /\ r.id \in 0..MaxRecords
  BY SelAssumption DEF SelDupInv, SelInv, SelTypeOK, SelLogInv, Record
<1>6. ASSUME new # {} PROVE top \in Int /\ \A r \in new : r.id <= top
  <2> DEFINE S == {r.id : r \in new}
  <2>1. S \in SUBSET (0..MaxRecords) /\ S # {}
    BY <1>1, <1>5, <1>6
  <2> HIDE DEF S
  <2>2. Max(S) \in S /\ \A y \in S : Max(S) >= y
    BY <2>1, MaxOfIds, SelAssumption
  <2>3. Max(S) \in 0..MaxRecords
    BY <2>1, <2>2
  <2>4. Max(S) \in Int
    BY <2>3, SelAssumption
  <2> QED
    BY <1>1, <1>5, <2>2, <2>4 DEF S
<1> HIDE DEF new, top
<1>7. selState'[n] = IF new = {} THEN selState[n] ELSE top
  BY <1>2 DEF SelDupInv, SelInv, SelTypeOK, Position
<1>8. selState[n] \in Int
  BY SelAssumption DEF SelDupInv, SelInv, SelTypeOK, Position
<1>9. ASSUME ~selBadSave, NEW m \in SelNode PROVE SelOnceInv(m)'
  <2>1. SelOnceInv(m)
    BY <1>9 DEF SelDupInv, SelOnce
  <2>2. CASE m # n
    <3>1. selState'[m] = selState[m]
      BY <1>2, <2>2 DEF SelDupInv, SelInv, SelTypeOK, Position
    <3>2. \A r \in new : r.node # m /\ r \notin sel[m]
      BY <1>1, <1>5, <2>2 DEF SelDupInv, SelInv, SelLogInv
    <3> QED
      BY <1>3, <1>4, <2>1, <3>1, <3>2 DEF SelOnceInv, Claimed
  <2>3. CASE m = n
    <3>1. \A r \in new : ~Claimed(n, r)
      BY <1>1, <1>4, <1>5, <1>8, <2>1, <2>3 DEF SelOnceInv
    <3>2. \A r \in new : selReported[n][r.uid] = 0
      <4>1. \A r \in new : selReported[n][r.uid] \in 0..2
        BY <1>1, <1>5 DEF SelDupInv, SelInv, SelTypeOK
      <4> QED
        BY <3>1, <4>1 DEF Claimed
    <3>3. \A r \in sel[n] : Claimed(n, r)' => r.id <= selState'[n]
      <4>1. \A r \in sel[n] : Claimed(n, r)' => Claimed(n, r) \/ r \in new
        BY <1>3, <1>4 DEF Claimed
      <4>2. \A r \in sel[n] : Claimed(n, r) => r.id <= selState[n]
        BY <1>4, <2>1, <2>3 DEF SelOnceInv
      <4>3. selState[n] <= selState'[n]
        BY <1>1, <1>5, <1>6, <1>7, <1>8
      <4>4. \A r \in new : r.id <= selState'[n]
        BY <1>6, <1>7
      <4> QED
        BY <1>5, <1>6, <1>7, <1>8, <4>1, <4>2, <4>3, <4>4
    <3>4. \A r \in selNew' : r.node = n =>
            r.uid <= selLogged[n] /\ selReported[n][r.uid] = 0
      BY <1>1, <1>3, <1>5, <2>1, <2>3, <3>2 DEF SelOnceInv
    <3>5. \A r \in sel[n], s \in selNew' : s.node = n /\ r.uid = s.uid => r = s
      BY <1>1, <1>3, <2>1, <2>3 DEF SelOnceInv
    <3>6. \A r \in sel[n] : selReported[n][r.uid] > 0 => r.id <= selFile[n]
      BY <1>4, <2>1, <2>3 DEF SelOnceInv, Claimed
    <3> QED
      BY <1>4, <2>1, <2>3, <3>3, <3>4, <3>5, <3>6 DEF SelOnceInv
  <2> QED
    BY <2>2, <2>3
<1> QED
  BY <1>4, <1>9 DEF SelOnce

\* The output reports each of them for the first time.
LEMMA SelEmitOnce ==
  ASSUME SelDupInv, SelEmit
  PROVE  SelOnce'
<1>1. /\ UNCHANGED <<sel, selFile, selLogged, selBadSave>>
      /\ selPc = "emit" /\ selPc' = "idle" /\ selNew' = {}
  BY DEF SelEmit
<1>2. \A n \in SelNode, u \in 1..MaxRecords :
        selReported'[n][u] =
          IF \E r \in selNew : r.node = n /\ r.uid = u THEN Bump(selReported[n][u])
          ELSE selReported[n][u]
  BY DEF SelEmit
<1>3. Bump(0) = 1
  BY DEF Bump
<1>4. ASSUME ~selBadSave, NEW n \in SelNode PROVE SelOnceInv(n)'
  <2>1. SelOnceInv(n)
    BY <1>4 DEF SelDupInv, SelOnce
  <2>2. \A r \in selNew : r.uid \in 1..MaxRecords
    BY DEF SelDupInv, SelInv, SelTypeOK, Record
  <2>3. ASSUME NEW u \in 1..MaxRecords
        PROVE  /\ selReported'[n][u] <= 1
               /\ selReported'[n][u] > 0 =>
                    /\ u <= selLogged[n]
                    /\ selReported[n][u] > 0 \/ \E r \in selNew : r.node = n /\ r.uid = u
    <3>1. CASE \E r \in selNew : r.node = n /\ r.uid = u
      BY <1>2, <1>3, <2>1, <3>1 DEF SelOnceInv
    <3>2. CASE ~ \E r \in selNew : r.node = n /\ r.uid = u
      BY <1>2, <2>1, <3>2 DEF SelOnceInv
    <3> QED
      BY <3>1, <3>2
  <2>4. \A r \in sel[n] : r.uid \in 1..MaxRecords
    BY DEF SelDupInv, SelInv, SelTypeOK, Record
  <2>5. \A r \in sel[n] : Claimed(n, r)' => Claimed(n, r)
    BY <1>1, <2>1, <2>3, <2>4 DEF SelOnceInv, Claimed
  <2>6. \A r \in sel[n] : Claimed(n, r)' => r.id <= selFile[n]
    BY <1>1, <2>1, <2>5 DEF SelOnceInv
  <2> QED
    BY <1>1, <2>1, <2>3, <2>6 DEF SelOnceInv
<1> QED
  BY <1>1, <1>4 DEF SelOnce

\* The steps that neither log, collect nor report.
LEMMA SelOtherOnce ==
  ASSUME SelDupInv,
         \/ \E n \in SelNode : SelClear(n) \/ CollectDown(n)
         \/ SelStart \/ Collected \/ save_state \/ SaveWrites \/ SaveFails
         \/ SelCrash \/ UNCHANGED selVars
  PROVE  SelOnce'
<1> USE DEF SelDupInv, SelOnce, selHistory, selMemory
<1>1. ASSUME NEW n \in SelNode, SelClear(n) PROVE SelOnce'
  <2>1. /\ sel' = [sel EXCEPT ![n] = {}]
        /\ UNCHANGED <<selFile, selPc, selState, selUp, selNew,
                       selReported, selLogged, selBadSave>>
    BY <1>1 DEF SelClear
  <2>2. \A m \in SelNode : sel'[m] \subseteq sel[m]
    BY <2>1 DEF SelInv, SelTypeOK
  <2> QED
    BY <2>1, <2>2 DEF SelOnceInv, Claimed
<1>2. ASSUME NEW n \in SelNode, CollectDown(n) PROVE SelOnce'
  BY <1>2 DEF CollectDown, SelOnceInv, Claimed
<1>3. CASE SelStart
  <2>1. /\ UNCHANGED <<sel, selFile, selReported, selLogged, selBadSave>>
        /\ selPc = "idle" /\ selPc' = "collect" /\ selNew' = {}
        /\ selState' = IF selFile = Torn THEN NoPosition ELSE selFile
    BY <1>3 DEF SelStart, load_state
  <2> QED
    BY <2>1 DEF SelOnceInv, Claimed
<1>4. CASE Collected
  BY <1>4 DEF Collected, SelOnceInv, Claimed
<1>5. CASE save_state
  BY <1>5 DEF save_state, SelOnceInv, Claimed
<1>6. CASE SaveWrites
  <2>1. /\ UNCHANGED <<sel, selState, selNew, selReported, selLogged, selBadSave>>
        /\ selPc = "write" /\ selPc' = "emit" /\ selFile' = selState
    BY <1>6 DEF SaveWrites
  <2>2. \A n \in SelNode : selFile'[n] # -1
    BY <2>1, SelAssumption DEF SelInv, SelTypeOK, Position
  <2>3. \A n \in SelNode : Torn[n] = -1
    BY DEF Torn
  <2>4. ASSUME NEW n \in SelNode PROVE selFile' # Torn'
    BY <2>2, <2>3 DEF Torn
  <2> QED
    BY <2>1, <2>4 DEF SelOnceInv, Claimed
<1>7. CASE SaveFails
  BY <1>7 DEF SaveFails
<1>8. CASE SelCrash
  <2>1. /\ UNCHANGED <<sel, selFile, selReported, selLogged>>
        /\ selPc' = "idle" /\ selNew' = {}
        /\ selBadSave' = (selBadSave \/ selPc = "write")
    BY <1>8 DEF SelCrash
  <2>2. ~selBadSave' => ~selBadSave /\ selPc # "write"
    BY <2>1, Zenon
  <2> QED
    BY <2>1, <2>2 DEF SelOnceInv, Claimed
<1>9. CASE UNCHANGED selVars
  BY <1>9 DEF selVars, SelOnceInv, Claimed
<1> QED
  BY <1>1, <1>2, <1>3, <1>4, <1>5, <1>6, <1>7, <1>8, <1>9

\* ipmi_sel_poller.py reports a record twice only after a save has gone
\* wrong, for any nodes and any number of records: crashes elsewhere, nodes
\* that do not answer and cleared logs repeat nothing.
THEOREM SelReportedOnce == SelSpec => []SelNoDuplicate
<1>1. SelInit => SelDupInv
  BY SelInitInv, SelOnceInit DEF SelDupInv
<1>2. SelDupInv /\ [SelNext]_selVars => SelDupInv'
  BY SelStepInv, SelLogOnce, SelCollectOnce, SelEmitOnce, SelOtherOnce
     DEF SelDupInv, SelNext
<1>3. SelDupInv => SelNoDuplicate
  <2> SUFFICES ASSUME SelDupInv, ~selBadSave,
                      NEW n \in SelNode, NEW u \in 1..MaxRecords
               PROVE  ~ (selReported[n][u] > 1)
    BY Zenon DEF SelNoDuplicate
  <2>1. SelOnceInv(n)
    BY DEF SelDupInv, SelOnce
  <2>2. selReported[n][u] <= 1
    BY <2>1 DEF SelOnceInv
  <2>3. selReported[n][u] \in 0..2
    BY DEF SelDupInv, SelInv, SelTypeOK
  <2> QED
    BY <2>2, <2>3
<1> QED
  BY <1>1, <1>2, <1>3, PTL DEF SelSpec

-----------------------------------------------------------------------------
(***************************************************************************)
(* The trace parser                                                        *)
(***************************************************************************)

\* A set that lacks an element of a finite set has fewer elements.
LEMMA FewerElements ==
  ASSUME NEW T, IsFiniteSet(T), NEW S \in SUBSET T, NEW x \in T, x \notin S
  PROVE  /\ IsFiniteSet(S)
         /\ Cardinality(S) \in Nat /\ Cardinality(T) \in Nat
         /\ Cardinality(S) < Cardinality(T)
<1>1. IsFiniteSet(S) /\ Cardinality(S) \in Nat /\ Cardinality(T) \in Nat
  BY FS_Subset, FS_CardinalityType
<1>2. Cardinality(S \cup {x}) = Cardinality(S) + 1
  BY <1>1, FS_AddElement
<1>3. Cardinality(S \cup {x}) <= Cardinality(T)
  BY FS_Subset
<1> QED
  BY <1>1, <1>2, <1>3

\* A later line has a higher rank.
LEMMA RanksGrow ==
  ASSUME NEW W \in SUBSET Nat, IsFiniteSet(W), NEW i \in W, NEW m \in W, i < m
  PROVE  Cardinality({j \in W : j <= i}) < Cardinality({j \in W : j <= m})
<1> DEFINE upto(x) == {j \in W : j <= x}
<1>1. upto(i) \in SUBSET upto(m) /\ m \in upto(m) /\ m \notin upto(i)
  <2>1. i \in Nat /\ m \in Nat
    OBVIOUS
  <2>2. m <= m /\ ~(m <= i)
    BY <2>1
  <2>3. \A j \in W : j <= i => j <= m
    BY <2>1
  <2> QED
    BY <2>2, <2>3
<1>2. IsFiniteSet(upto(m))
  BY FS_Subset
<1> HIDE DEF upto
<1>3. Cardinality(upto(i)) < Cardinality(upto(m))
  BY <1>1, <1>2, FewerElements
<1> QED
  BY <1>3 DEF upto

\* Lines can be counted off: there is one of every rank.
LEMMA EveryRank ==
  ASSUME NEW n \in Nat, NEW W \in SUBSET (1..n), NEW k \in 1..Cardinality(W)
  PROVE  \E i \in W : Cardinality({j \in W : j <= i}) = k
<1> DEFINE upto(i) == {j \in W : j <= i}
           r == [i \in W |-> Cardinality(upto(i))]
           R == {r[i] : i \in W}
           c == Cardinality(W)
<1>1. \A i \in W : i \in Nat
  OBVIOUS
<1>2. IsFiniteSet(W) /\ c \in Nat
  <2>1. IsFiniteSet(1..n)
    BY FS_Interval
  <2> QED
    BY <2>1, FS_Subset, FS_CardinalityType
<1>3. \A i \in W : IsFiniteSet(upto(i)) /\ r[i] \in 1..c
  <2> TAKE i \in W
  <2>1. IsFiniteSet(upto(i)) /\ Cardinality(upto(i)) <= c
    BY <1>2, FS_Subset
  <2>2. i \in upto(i)
    OBVIOUS
  <2> HIDE DEF upto
  <2>3. Cardinality(upto(i)) \in Nat /\ Cardinality(upto(i)) # 0
    BY <2>1, <2>2, FS_EmptySet, FS_CardinalityType
  <2> QED
    BY <1>2, <2>1, <2>3
<1>4. \A i, m \in W : i < m => r[i] < r[m]
  BY <1>1, <1>2, RanksGrow
<1> HIDE DEF r, c
<1>5. r \in Bijection(W, R)
  <2>1. r \in [W -> R]
    BY DEF r
  <2>2. \A i, m \in W : i # m => r[i] # r[m]
    <3> SUFFICES ASSUME NEW i \in W, NEW m \in W, i # m PROVE r[i] # r[m]
      OBVIOUS
    <3>1. r[i] \in 1..c /\ r[m] \in 1..c /\ i \in Nat /\ m \in Nat
      BY <1>1, <1>3
    <3>2. i < m => r[i] < r[m]
      BY <1>4
    <3>3. m < i => r[m] < r[i]
      BY <1>4
    <3> QED
      BY <1>2, <3>1, <3>2, <3>3
  <2> QED
    BY <2>1, <2>2 DEF Bijection, Injection, Surjection, IsInjective
<1>6. Cardinality(R) = c
  <2> HIDE DEF R
  <2> QED
    BY <1>2, <1>5, FS_Bijection DEF c, ExistsBijection
<1>7. IsFiniteSet(1..c) /\ Cardinality(1..c) = c
  BY <1>2, FS_Interval
<1>8. R \in SUBSET (1..c)
  BY <1>3
<1> HIDE DEF R
<1>9. R = 1..c
  BY <1>6, <1>7, <1>8, FS_Subset
<1>10. PICK i \in W : r[i] = k
  BY <1>9 DEF R, c
<1> QED
  BY <1>10 DEF r

\* The first of some lines.
LEMMA MinOfLines ==
  ASSUME NEW S \in SUBSET Nat, S # {}
  PROVE  Min(S) \in S /\ \A y \in S : Min(S) <= y
<1> DEFINE Less == OpToRel(<, Nat)
<1>1. \A i, j \in Nat : <<i, j>> \in Less \/ j <= i
  BY DEF OpToRel
<1>2. IsWellFoundedOn(Less, Nat)
  BY NatLessThanWellFounded
<1> HIDE DEF Less
<1>3. PICK t \in S : \A u \in S : ~ (<<u, t>> \in Less)
  BY <1>2, WFMin
<1>4. \A u \in S : t <= u
  <2> TAKE u \in S
  <2>1. u \in Nat /\ t \in Nat
    BY <1>3
  <2> QED
    BY <1>1, <1>3, <2>1, Zenon
<1> QED
  BY <1>3, <1>4 DEF Min

-----------------------------------------------------------------------------
TraceKind == Header \cup {"location", "aer_type", "other"}

\* A header shows its own location or none, a line with a type is some
\* error's, and an event names a header of what was read.
TraceInv ==
  /\ traceLog \in Seq([kind : TraceKind, of : Nat])
  /\ traceRead \in 0..Len(traceLog)
  /\ \A i \in 1..Len(traceLog) :
       /\ traceLog[i].kind \in Header =>
            traceLog[i].of = 0 \/ (traceLog[i].of = i /\ traceLog[i].kind \in Edac)
       /\ traceLog[i].kind = "aer_type" => traceLog[i].of # 0
  /\ \A k \in DOMAIN traceEvents :
       /\ traceEvents[k].line \in 1..traceRead
       /\ traceEvents[k].type \in Header
  /\ TraceFaithful

\* A line that is added leaves what the parser saw as it was.
LEMMA LogLineKeeps ==
  ASSUME TraceInv, NEW kind \in TraceKind, NEW of \in Nat, LogLine(kind, of),
         kind \in Header =>
           of = 0 \/ (of = Len(traceLog) + 1 /\ kind \in Edac),
         kind = "aer_type" => of # 0
  PROVE  TraceInv'
<1> DEFINE new == [kind |-> kind, of |-> of]
<1>1. /\ traceLog' = Append(traceLog, new)
      /\ traceEvents' = traceEvents /\ traceRead' = traceRead
  BY DEF LogLine
<1>2. /\ traceLog \in Seq([kind : TraceKind, of : Nat]) /\ Len(traceLog) \in Nat
      /\ traceRead \in 0..Len(traceLog)
  BY DEF TraceInv
<1>3. /\ traceLog' \in Seq([kind : TraceKind, of : Nat])
      /\ Len(traceLog') = Len(traceLog) + 1
      /\ DOMAIN traceLog = 1..Len(traceLog)
      /\ DOMAIN traceLog' = 1..(Len(traceLog) + 1)
      /\ traceLog'[Len(traceLog) + 1] = new
      /\ \A i \in 1..Len(traceLog) : traceLog'[i] = traceLog[i]
  BY <1>1, <1>2
<1>4. \A i \in 1..Len(traceLog') :
        /\ traceLog'[i].kind \in Header =>
             traceLog'[i].of = 0 \/ (traceLog'[i].of = i /\ traceLog'[i].kind \in Edac)
        /\ traceLog'[i].kind = "aer_type" => traceLog'[i].of # 0
  <2> TAKE i \in 1..Len(traceLog')
  <2>1. CASE i \in 1..Len(traceLog)
    BY <1>3, <2>1 DEF TraceInv
  <2>2. CASE i = Len(traceLog) + 1
    BY <1>3, <2>2
  <2> QED
    BY <1>2, <1>3, <2>1, <2>2
<1>5. EventsInOrder'
  BY <1>1 DEF TraceInv, TraceFaithful, EventsInOrder
<1>6. ASSUME NEW e, e.line \in 1..traceRead, EventFaithful(e)
      PROVE  EventFaithful(e)'
  <2>1. \A j \in 1..traceRead : j \in 1..Len(traceLog) /\ traceLog'[j] = traceLog[j]
    BY <1>2, <1>3
  <2>2. Telling(e)' = Telling(e)
    BY <1>1, <1>2, <1>3, <2>1 DEF Telling
  <2>3. \A j \in Telling(e) : j \in 1..traceRead
    BY <1>2, <1>3 DEF Telling
  <2>4. \A j \in Telling(e) : traceLog'[j] = traceLog[j]
    BY <2>1, <2>3
  <2> QED
    BY <1>6, <2>1, <2>2, <2>4 DEF EventFaithful
<1>7. TraceFaithful'
  BY <1>1, <1>5, <1>6 DEF TraceInv, TraceFaithful
<1> QED
  BY <1>1, <1>2, <1>3, <1>4, <1>7 DEF TraceInv

\* The parser's lookup takes the first of the lines, if there are any.
LEMMA FirstTaken ==
  ASSUME NEW S \in SUBSET Nat
  PROVE  /\ S = {} => First(S) = 0
         /\ S # {} => \E j \in S : First(S) = traceLog[j].of /\ \A m \in S : j <= m
<1>1. S = {} => First(S) = 0
  BY DEF First
<1>2. ASSUME S # {} PROVE \E j \in S : First(S) = traceLog[j].of /\ \A m \in S : j <= m
  <2>1. Min(S) \in S /\ \A m \in S : Min(S) <= m
    BY <1>2, MinOfLines
  <2>2. First(S) = traceLog[Min(S)].of
    BY <1>2 DEF First
  <2> QED
    BY <2>1, <2>2
<1> QED
  BY <1>1, <1>2

\* A range of lines that ends with the log.
LEMMA InReach ==
  ASSUME NEW i \in Nat, NEW n \in Nat, NEW len \in Nat, NEW j
  PROVE  j \in (i + 1)..Min({i + n, len}) <=>
           j \in 1..len /\ i < j /\ j <= i + n
<1> DEFINE last == Min({i + n, len})
<1>1. {i + n, len} \in SUBSET Nat /\ {i + n, len} # {}
  OBVIOUS
<1>2. last \in {i + n, len} /\ \A y \in {i + n, len} : last <= y
  BY <1>1, MinOfLines
<1> HIDE DEF last
<1>3. last \in Nat /\ last <= i + n /\ last <= len /\ (last = i + n \/ last = len)
  BY <1>2
<1>4. j \in (i + 1)..last <=> j \in 1..len /\ i < j /\ j <= i + n
  BY <1>3
<1> QED
  BY <1>4 DEF last

\* The lines that tell of the event of line i, once the log has been read.
Tells(i) ==
  {j \in 1..Len(traceLog) :
     /\ i < j /\ j <= i + Reach(traceLog[i].kind)
     /\ traceLog[j].of # 0 /\ traceLog[j].kind \in DetailKinds(traceLog[i].kind)}

\* What a header's event shows: its own line, or the first of those lines.
LEMMA ParsedOf ==
  ASSUME TraceInv, NEW i \in 1..Len(traceLog), traceLog[i].kind \in Header
  PROVE  /\ traceLog[i].of = i => parse_line(i).of = i
         /\ traceLog[i].of # i => parse_line(i).of = First(Tells(i))
<1>1. parse_line(i).of = CASE traceLog[i].kind \in Edac -> make_edac_event(i)
                           [] traceLog[i].kind \in Aer  -> make_aer_event(i)
                           [] OTHER                     -> 0
  BY DEF parse_line
<1>2. /\ Len(traceLog) \in Nat /\ i \in Nat
      /\ traceLog[i].of = 0 \/ (traceLog[i].of = i /\ traceLog[i].kind \in Edac)
      /\ LocLines \in Nat /\ TypeLines \in Nat /\ i # 0
  BY TraceAssumption DEF TraceInv
<1>3. CASE traceLog[i].kind \in Edac
  <2> DEFINE S == {j \in (i + 1)..Min({i + LocLines, Len(traceLog)}) :
                     traceLog[j].kind \in Edac \cup {"location"} /\ traceLog[j].of # 0}
  <2>1. traceLog[i].kind \notin Aer
    BY <1>3 DEF Edac, Aer
  <2>2. parse_line(i).of = IF traceLog[i].of # 0 THEN traceLog[i].of ELSE First(S)
    BY <1>1, <1>3, <2>1 DEF make_edac_event, look_ahead_edac_location
  <2>3. \A j : j \in (i + 1)..Min({i + LocLines, Len(traceLog)}) <=>
                 j \in 1..Len(traceLog) /\ i < j /\ j <= i + LocLines
    BY <1>2, InReach
  <2>4. DetailKinds(traceLog[i].kind) = Edac \cup {"location"}
        /\ Reach(traceLog[i].kind) = LocLines
    BY <1>3, <2>1 DEF DetailKinds, Reach
  <2>5. S = Tells(i)
    BY <2>3, <2>4, Zenon DEF Tells
  <2> HIDE DEF S
  <2> QED
    BY <1>2, <1>3, <2>2, <2>5
<1>4. CASE traceLog[i].kind \in Aer
  <2> DEFINE S == {j \in (i + 1)..Min({i + TypeLines, Len(traceLog)}) :
                     traceLog[j].kind = "aer_type"}
  <2>1. traceLog[i].kind \notin Edac /\ traceLog[i].of = 0
    BY <1>2, <1>4 DEF Edac, Aer
  <2>2. parse_line(i).of = First(S)
    BY <1>1, <1>4, <2>1 DEF make_aer_event, look_ahead_aer_type
  <2>3. \A j : j \in (i + 1)..Min({i + TypeLines, Len(traceLog)}) <=>
                 j \in 1..Len(traceLog) /\ i < j /\ j <= i + TypeLines
    BY <1>2, InReach
  <2>4. \A j \in 1..Len(traceLog) : traceLog[j].kind = "aer_type" => traceLog[j].of # 0
    BY DEF TraceInv
  <2>5. DetailKinds(traceLog[i].kind) = {"aer_type"}
        /\ Reach(traceLog[i].kind) = TypeLines
    BY <1>4, <2>1 DEF DetailKinds, Reach
  <2>6. S = Tells(i)
    BY <2>3, <2>4, <2>5, Zenon DEF Tells
  <2> HIDE DEF S
  <2> QED
    BY <1>2, <1>4, <2>1, <2>2, <2>6
<1>5. CASE traceLog[i].kind \notin Edac \cup Aer
  <2>1. DetailKinds(traceLog[i].kind) = {}
    BY <1>5 DEF DetailKinds
  <2>2. Tells(i) = {}
    BY <2>1 DEF Tells
  <2>3. First(Tells(i)) = 0
    BY <2>2 DEF First
  <2> QED
    BY <1>1, <1>2, <1>5, <2>3
<1> QED
  BY <1>3, <1>4, <1>5

\* What an event says of its own line, as it is parsed.
LEMMA ParsedFaithful ==
  ASSUME TraceInv, NEW i \in 1..Len(traceLog), traceLog[i].kind \in Header,
         NEW of, of = parse_line(i).of
  PROVE  /\ traceLog[i].of = i => of = i
         /\ \A j \in Tells(i) :
              (traceLog[j].of = i /\ \A m \in Tells(i) : j <= m) => of = i
         /\ of \notin {0, i} =>
              \E j \in Tells(i) :
                traceLog[j].of = of /\ \A m \in Tells(i) : traceLog[m].of = i => j < m
<1>1. /\ traceLog[i].of = i => of = i
      /\ traceLog[i].of # i =>
           of = First(Tells(i))
  BY ParsedOf
<1>2. Tells(i) \in SUBSET Nat
  BY DEF Tells
<1>3. CASE traceLog[i].of = i
  BY <1>1, <1>3
<1>4. CASE traceLog[i].of # i
  <2>1. of = First(Tells(i))
    BY <1>1, <1>4
  <2>2. CASE Tells(i) = {}
    BY <1>2, <1>4, <2>1, <2>2, FirstTaken
  <2>3. CASE Tells(i) # {}
    <3>1. PICK j \in Tells(i) : of = traceLog[j].of /\ \A m \in Tells(i) : j <= m
      BY <1>2, <2>1, <2>3, FirstTaken
    <3>2. \A k \in Tells(i) : (\A m \in Tells(i) : k <= m) => k = j
      BY <1>2, <3>1
    <3>3. ASSUME of \notin {0, i}, NEW m \in Tells(i), traceLog[m].of = i
          PROVE  j < m
      BY <1>2, <3>1, <3>3
    <3> QED
      BY <1>4, <3>1, <3>2, <3>3
  <2> QED
    BY <2>2, <2>3
<1> QED
  BY <1>3, <1>4

\* The events of a run come in the order of their lines and numbers.
LEMMA RunKeeps == TraceInv /\ TraceRun => TraceInv'
<1> SUFFICES ASSUME TraceInv, TraceRun PROVE TraceInv'
  OBVIOUS
<1> DEFINE lines == {i \in DOMAIN traceLog :
                       traceLog[i].kind \in Header \cap event_types}
           rank(i) == Cardinality({j \in lines : j <= i})
           at(k) == CHOOSE i \in lines : rank(i) = k
           headers(i) == {j \in 1..(i - 1) : traceLog[j].kind \in Header}
<1>1. /\ traceLog' = traceLog /\ traceRead' = Len(traceLog)
      /\ traceEvents' = [k \in 1..Cardinality(lines) |-> parse_line(at(k))]
  BY DEF TraceRun, parse_file
<1>2. /\ traceLog \in Seq([kind : TraceKind, of : Nat])
      /\ Len(traceLog) \in Nat /\ DOMAIN traceLog = 1..Len(traceLog)
  BY DEF TraceInv
<1>3. lines \in SUBSET (1..Len(traceLog)) /\ \A i \in lines : traceLog[i].kind \in Header
  BY <1>2
<1>4. IsFiniteSet(lines)
  <2>1. IsFiniteSet(1..Len(traceLog))
    BY <1>2, FS_Interval
  <2> HIDE DEF lines
  <2> QED
    BY <1>3, <2>1, FS_Subset
<1>5. \A i \in lines : parse_line(i).line = i /\ parse_line(i).seq = Cardinality(headers(i))
  BY DEF parse_line
<1> HIDE DEF lines, headers
<1>6. \A k \in 1..Cardinality(lines) : at(k) \in lines /\ rank(at(k)) = k
  <2> TAKE k \in 1..Cardinality(lines)
  <2>1. \E i \in lines : rank(i) = k
    BY <1>2, <1>3, EveryRank
  <2> HIDE DEF rank
  <2> QED
    BY <2>1
<1>7. \A i, m \in lines : i < m => rank(i) < rank(m)
  <2>1. lines \in SUBSET Nat
    BY <1>2, <1>3
  <2> QED
    BY <1>4, <2>1, RanksGrow
<1>8. \A i, m \in lines : i < m => Cardinality(headers(i)) < Cardinality(headers(m))
  <2> SUFFICES ASSUME NEW i \in lines, NEW m \in lines, i < m
               PROVE  Cardinality(headers(i)) < Cardinality(headers(m))
    BY Zenon
  <2>1. i \in Nat /\ i >= 1 /\ m \in Nat /\ m >= 1 /\ traceLog[i].kind \in Header
    BY <1>2, <1>3
  <2>2. headers(i) \in SUBSET headers(m) /\ i \in headers(m) /\ i \notin headers(i)
    BY <2>1 DEF headers
  <2>3. IsFiniteSet(headers(m))
    <3>1. m - 1 \in Nat /\ headers(m) \in SUBSET (1..(m - 1))
      BY <2>1 DEF headers
    <3>2. IsFiniteSet(1..(m - 1))
      BY <3>1, FS_Interval
    <3> QED
      BY <3>1, <3>2, FS_Subset
  <2> QED
    BY <2>2, <2>3, FewerElements
<1> HIDE DEF rank, at
<1>9. EventsInOrder'
  <2> SUFFICES ASSUME NEW k \in 1..Cardinality(lines), NEW l \in 1..Cardinality(lines), k < l
               PROVE  /\ parse_line(at(k)).line < parse_line(at(l)).line
                      /\ parse_line(at(k)).seq < parse_line(at(l)).seq
    BY <1>1 DEF EventsInOrder
  <2>1. at(k) \in lines /\ at(l) \in lines /\ rank(at(k)) = k /\ rank(at(l)) = l
    BY <1>6
  <2>2. at(k) \in Nat /\ at(l) \in Nat
    <3>1. \A i \in lines : i \in Nat
      BY <1>2, <1>3
    <3> QED
      BY <2>1, <3>1
  <2>3. at(k) < at(l)
    <3>1. at(l) < at(k) => l < k
      BY <1>7, <2>1
    <3>2. at(l) = at(k) => l = k
      BY <2>1
    <3>3. k \in Nat /\ l \in Nat
      OBVIOUS
    <3> QED
      BY <2>2, <3>1, <3>2, <3>3
  <2> QED
    BY <1>5, <1>8, <2>1, <2>3
<1>10. ASSUME NEW k \in 1..Cardinality(lines), NEW e, e = parse_line(at(k))
       PROVE  /\ e.line \in 1..Len(traceLog)
              /\ e.type \in Header
              /\ EventFaithful(e)'
  <2> DEFINE i == at(k)
  <2>1. i \in 1..Len(traceLog) /\ traceLog[i].kind \in Header
    BY <1>3, <1>6
  <2>2. e.line = i /\ e.type = traceLog[i].kind
    BY <1>10 DEF parse_line
  <2>3. /\ traceLog[i].of = i => e.of = i
        /\ \A j \in Tells(i) :
             (traceLog[j].of = i /\ \A m \in Tells(i) : j <= m) => e.of = i
        /\ e.of \notin {0, i} =>
             \E j \in Tells(i) :
               traceLog[j].of = e.of /\ \A m \in Tells(i) : traceLog[m].of = i => j < m
    BY <1>10, <2>1, ParsedFaithful
  <2> HIDE DEF i
  <2>4. Telling(e)' = Tells(i)
    BY <1>1, <1>2, <2>2 DEF Telling, Tells
  <2>5. EventFaithful(e)'
    BY <1>1, <2>2, <2>3, <2>4 DEF EventFaithful
  <2> QED
    BY <2>1, <2>2, <2>5
<1>11. ASSUME NEW k \in DOMAIN traceEvents'
       PROVE  /\ traceEvents'[k].line \in 1..Len(traceLog)
              /\ traceEvents'[k].type \in Header
              /\ EventFaithful(traceEvents[k])'
  <2>1. k \in 1..Cardinality(lines) /\ traceEvents'[k] = parse_line(at(k))
    BY <1>1
  <2> QED
    BY <1>10, <2>1 DEF EventFaithful, Telling
<1>12. TraceFaithful'
  BY <1>9, <1>11 DEF TraceFaithful
<1> QED
  BY <1>1, <1>2, <1>11, <1>12 DEF TraceInv

\* However the kernel's lines interleave, and however few lines the parser
\* looks ahead, the events follow the log; each has its own location or type
\* if the log shows it inline or, within reach, before any other error's, and
\* none has that of another error whose line does not come before its own.
THEOREM ParserIsFaithful == TraceSpec => []TraceFaithful
<1>1. TraceInit => TraceInv
  <2> SUFFICES ASSUME TraceInit PROVE TraceInv
    OBVIOUS
  <2>1. traceLog = <<>> /\ traceEvents = <<>> /\ traceRead = 0
    BY DEF TraceInit
  <2>2. traceLog \in Seq([kind : TraceKind, of : Nat]) /\ Len(traceLog) = 0
    BY <2>1
  <2>3. DOMAIN traceEvents = {}
    BY <2>1
  <2> QED
    BY <2>1, <2>2, <2>3 DEF TraceInv, TraceFaithful, EventsInOrder
<1>2. TraceInv /\ [TraceNext]_traceVars => TraceInv'
  <2> SUFFICES ASSUME TraceInv, [TraceNext]_traceVars PROVE TraceInv'
    OBVIOUS
  <2>1. Len(traceLog) \in Nat /\ DOMAIN traceLog = 1..Len(traceLog)
    BY DEF TraceInv
  <2>2. ASSUME NEW kind \in Header, NEW inline \in BOOLEAN, LogError(kind, inline)
        PROVE  TraceInv'
    <3> DEFINE of == IF inline /\ kind \in Edac THEN Len(traceLog) + 1 ELSE 0
    <3>1. of \in Nat /\ kind \in TraceKind /\ LogLine(kind, of)
      BY <2>1, <2>2 DEF LogError, TraceKind
    <3>2. of = 0 \/ (of = Len(traceLog) + 1 /\ kind \in Edac)
      OBVIOUS
    <3>3. kind # "aer_type"
      BY DEF Header, Edac, Aer
    <3> HIDE DEF of
    <3> QED
      BY <3>1, <3>2, <3>3, LogLineKeeps
  <2>3. ASSUME NEW i \in DOMAIN traceLog, LogMore(i) PROVE TraceInv'
    <3>1. i \in Nat /\ i # 0 /\ "location" \in TraceKind /\ "aer_type" \in TraceKind
      BY <2>1 DEF TraceKind
    <3>2. "location" \notin Header /\ "aer_type" \notin Header
      BY DEF Header, Edac, Aer
    <3> QED
      BY <2>3, <3>1, <3>2, LogLineKeeps DEF LogMore
  <2>4. CASE LogLine("other", 0)
    <3>1. "other" \in TraceKind /\ "other" \notin Header
      BY DEF TraceKind, Header, Edac, Aer
    <3> QED
      BY <2>4, <3>1, LogLineKeeps
  <2>5. CASE UNCHANGED traceVars
    <3>1. traceLog' = traceLog /\ traceEvents' = traceEvents /\ traceRead' = traceRead
      BY <2>5 DEF traceVars
    <3>2. TraceFaithful'
      BY <3>1 DEF TraceInv, TraceFaithful, EventsInOrder, EventFaithful, Telling
    <3> QED
      BY <3>1, <3>2 DEF TraceInv
  <2> QED
    BY <2>2, <2>3, <2>4, <2>5, RunKeeps DEF TraceNext
<1>3. TraceInv => TraceFaithful
  BY DEF TraceInv
<1> QED
  BY <1>1, <1>2, <1>3, PTL DEF TraceSpec
=============================================================================
