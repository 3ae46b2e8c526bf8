--------------------------- MODULE RedfishPoller ---------------------------
(***************************************************************************)
(* bmc/redfish_collector.py: like the SEL poller it reports the log        *)
(* entries it has not seen, but it keeps the set of ids it has seen, and   *)
(* writes its output before it saves them.                                 *)
(***************************************************************************)
EXTENDS Integers, FiniteSets

CONSTANTS
  MaxEntries   \* bound: entries the BMC ever logs

ASSUME RfAssumption == MaxEntries \in Nat

VARIABLES
  rfLog,       \* Members of the SEL: a set of entries
  rfFile,      \* seen_sel_ids in the state file, or RfTorn
  rfPc,        \* "idle", "collect", "output", "save" or "write"
  rfSeen,      \* seen_ids in memory
  rfEntries,   \* sel_entries of this run
  rfUp,        \* collector_up of this run
  rfReported,  \* history: entries that were in an output
  rfLogged,    \* history: entries logged so far
  rfCleared    \* history: the log has been cleared

rfHistory == <<rfReported, rfLogged, rfCleared>>
rfVars == <<rfLog, rfFile, rfPc, rfSeen, rfEntries, rfUp, rfHistory>>

-----------------------------------------------------------------------------
Severity == {"Critical", "Warning", "OK"}
\* A file that was truncated and not written is a set no run has.
RfTorn == {0}

Entry == [uid : 1..MaxEntries, Id : 1..MaxEntries, Severity : Severity]

RfInit ==
  /\ rfLog = {} /\ rfFile = {} /\ rfPc = "idle"
  /\ rfSeen = {} /\ rfEntries = {} /\ rfUp = FALSE
  /\ rfReported = {} /\ rfLogged = 0 /\ rfCleared = FALSE

\* The BMC logs an entry, or its log is cleared and the ids begin again.
RfAdd(s) ==
  /\ rfLogged < MaxEntries
  /\ rfLogged' = rfLogged + 1
  /\ rfLog' = rfLog \cup
       {[uid |-> rfLogged', Id |-> Cardinality(rfLog) + 1, Severity |-> s]}
  /\ UNCHANGED <<rfFile, rfPc, rfSeen, rfEntries, rfUp, rfReported, rfCleared>>

RfClear ==
  /\ rfLog # {}
  /\ rfLog' = {} /\ rfCleared' = TRUE
  /\ UNCHANGED <<rfFile, rfPc, rfSeen, rfEntries, rfUp, rfReported, rfLogged>>

-----------------------------------------------------------------------------
load_redfish_state == IF rfFile = RfTorn THEN {} ELSE rfFile

\* main up to the discovery of the system path: neither path answers, and
\* the run goes straight to its output, or one of them does.
RfStart(found) ==
  /\ rfPc = "idle"
  /\ rfPc' = IF found THEN "collect" ELSE "output"
  /\ rfSeen' = load_redfish_state /\ rfEntries' = {} /\ rfUp' = FALSE
  /\ UNCHANGED <<rfLog, rfFile, rfHistory>>

\* The entries of the log that are new and not merely informative.
collect_sel_entries(seen) ==
  {e \in rfLog : e.Severity \in {"Critical", "Warning"} /\ e.Id \notin seen}

\* The four GETs.  selOk: the log was read; gauges: system health, thermal
\* or power returned something, which alone makes the collector up.
RfCollect(selOk, gauges) ==
  /\ rfPc = "collect"
  /\ rfEntries' = IF selOk THEN collect_sel_entries(rfSeen) ELSE {}
  /\ rfSeen' = rfSeen \cup {e.Id : e \in rfEntries'}
  /\ rfUp' = gauges
  /\ rfPc' = "output"
  /\ UNCHANGED <<rfLog, rfFile, rfHistory>>

\* Mutant: nothing is emitted when the collector is not up.
RfOutputIfUp ==
  /\ rfPc = "output"
  /\ rfReported' = IF rfUp THEN rfReported \cup {e.uid : e \in rfEntries}
                   ELSE rfReported
  /\ rfPc' = "save"
  /\ UNCHANGED <<rfLog, rfFile, rfSeen, rfEntries, rfUp, rfLogged, rfCleared>>

\* emit_metrics and the write of its text to stdout.
RfOutput ==
  /\ rfPc = "output"
  /\ rfReported' = rfReported \cup {e.uid : e \in rfEntries}
  /\ rfPc' = "save"
  /\ UNCHANGED <<rfLog, rfFile, rfSeen, rfEntries, rfUp, rfLogged, rfCleared>>

save_redfish_state ==
  /\ rfPc = "save"
  /\ rfPc' = "write" /\ rfFile' = RfTorn
  /\ UNCHANGED <<rfLog, rfSeen, rfEntries, rfUp, rfHistory>>

RfSaved ==
  /\ rfPc = "write"
  /\ rfPc' = "idle" /\ rfFile' = rfSeen
  /\ UNCHANGED <<rfLog, rfSeen, rfEntries, rfUp, rfHistory>>

\* The write of the state file fails and the run is over, or the process is
\* killed, at any point.
RfStops ==
  /\ rfPc # "idle"
  /\ rfPc' = "idle"
  /\ UNCHANGED <<rfLog, rfFile, rfSeen, rfEntries, rfUp, rfHistory>>

RfNext ==
  \/ \E s \in Severity : RfAdd(s)
  \/ \E ok, gauges \in BOOLEAN : RfCollect(ok, gauges)
  \/ \E found \in BOOLEAN : RfStart(found)
  \/ RfClear \/ RfOutput \/ save_redfish_state \/ RfSaved \/ RfStops

RfSpec == RfInit /\ [][RfNext]_rfVars

-----------------------------------------------------------------------------
\* Every variable has its type.
RfTypeOK ==
  /\ rfLog \subseteq Entry /\ rfFile \in (SUBSET (1..MaxEntries)) \cup {RfTorn}
  /\ rfPc \in {"idle", "collect", "output", "save", "write"}
  /\ rfSeen \subseteq 1..MaxEntries /\ rfEntries \subseteq Entry
  /\ rfUp \in BOOLEAN /\ rfReported \subseteq 1..MaxEntries
  /\ rfLogged \in 0..MaxEntries /\ rfCleared \in BOOLEAN

\* An id is in the saved set only if its entry was in an output: however a
\* run ends, an entry may be reported again and is never lost - unless the
\* log was cleared, since then a new entry has an id that was seen before.
RfSeenWasReported ==
  (rfFile # RfTorn /\ ~rfCleared) =>
    \A e \in rfLog : e.Id \in rfFile => e.uid \in rfReported
=============================================================================
