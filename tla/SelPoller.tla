----------------------------- MODULE SelPoller -----------------------------
(***************************************************************************)
(* bmc/ipmi_sel_poller.py: a timer starts the poller, which asks every BMC *)
(* for its System Event Log, reports the records above the last record id  *)
(* it has saved for the node, and saves the new position.  The file is     *)
(* saved before the output is written, write_text truncates it first, and  *)
(* an error of the save is only logged.                                    *)
(***************************************************************************)
EXTENDS Integers, FiniteSets, FiniteSetsExt

CONSTANTS
  SelNode,     \* the targets of BMC_TARGETS
  MaxRecords,  \* bound: records a BMC ever logs
  MaxTotal     \* bound: records all of them ever log

ASSUME SelAssumption == MaxRecords \in Nat /\ MaxTotal \in Nat

VARIABLES
  sel,         \* each node's log: a set of records
  selFile,     \* the state file: a position per node, or Torn
  selPc,       \* "idle", "collect", "save", "write" or "emit"
  selTargets,  \* targets the loop has still to visit
  selState,    \* state: the positions in memory
  selUp,       \* nodes that answered this poll
  selNew,      \* new_events of this poll
  selReported, \* history: how often a record was in the output (0, 1, 2+)
  selLogged,   \* history: records a BMC has logged, the cleared ones too
  selCleared,  \* history: nodes whose log has been cleared
  selLost,     \* history: a poll died after the save and before the output
  selBadSave   \* history: a save failed or died half-way

selHistory == <<selReported, selLogged, selCleared, selLost, selBadSave>>
selMemory == <<selTargets, selState, selUp, selNew>>
selVars == <<sel, selFile, selPc, selMemory, selHistory>>

-----------------------------------------------------------------------------
\* uid names the record for the history; id is what the BMC calls it.  A
\* line with the wrong columns or a bad id is not well formed.
Record ==
  [node : SelNode, uid : 1..MaxRecords, id : 1..MaxRecords, ok : BOOLEAN]

\* A file that was truncated and not written is a position no node has.
Torn == [n \in SelNode |-> -1]
NoPosition == [n \in SelNode |-> 0]
Position == [SelNode -> 0..MaxRecords]

SelInit ==
  /\ sel = [n \in SelNode |-> {}]
  /\ selFile = NoPosition          \* no file: every node is at 0
  /\ selPc = "idle" /\ selTargets = {}
  /\ selState = NoPosition /\ selUp = {} /\ selNew = {}
  /\ selReported = [n \in SelNode |-> [u \in 1..MaxRecords |-> 0]]
  /\ selLogged = [n \in SelNode |-> 0]
  /\ selCleared = {} /\ selLost = FALSE /\ selBadSave = FALSE

-----------------------------------------------------------------------------
(***************************************************************************)
(* The BMC: it numbers its records from 1, again after a clear.            *)
(***************************************************************************)
SelLog(n, ok) ==
  /\ selLogged[n] < MaxRecords
  /\ MapThenSumSet(LAMBDA m : selLogged[m], SelNode) < MaxTotal
  /\ selLogged' = [selLogged EXCEPT ![n] = @ + 1]
  /\ sel' = [sel EXCEPT ![n] = @ \cup
       {[node |-> n, uid |-> selLogged'[n], id |-> Cardinality(@) + 1, ok |-> ok]}]
  /\ UNCHANGED <<selFile, selPc, selMemory, selReported, selCleared, selLost,
                 selBadSave>>

SelClear(n) ==
  /\ sel[n] # {}
  /\ sel' = [sel EXCEPT ![n] = {}]
  /\ selCleared' = selCleared \cup {n}
  /\ UNCHANGED <<selFile, selPc, selMemory, selReported, selLogged, selLost,
                 selBadSave>>

-----------------------------------------------------------------------------
(***************************************************************************)
(* One poll                                                                *)
(***************************************************************************)

\* A file that is not JSON counts as no file.
load_state == IF selFile = Torn THEN NoPosition ELSE selFile

SelStart ==
  /\ selPc = "idle"
  /\ selPc' = "collect" /\ selTargets' = SelNode
  /\ selState' = load_state /\ selUp' = {} /\ selNew' = {}
  /\ UNCHANGED <<sel, selFile, selHistory>>

\* Malformed lines are skipped.
parse_sel_csv(log) == {r \in log : r.ok}

\* Mutant: the comparison with the saved id is not strict.
NewEventsAgain(n) == {r \in parse_sel_csv(sel[n]) : r.id >= selState[n]}

\* Mutant: the record after the saved one is skipped.
NewEventsSkip(n) == {r \in parse_sel_csv(sel[n]) : r.id > selState[n] + 1}

NewEvents(n) == {r \in parse_sel_csv(sel[n]) : r.id > selState[n]}

\* ipmitool answered for n: the position moves to the highest new id.
CollectUp(n) ==
  /\ selPc = "collect" /\ n \in selTargets
  /\ selTargets' = selTargets \ {n}
  /\ selNew' = selNew \cup NewEvents(n)
  /\ selUp' = selUp \cup {n}
  /\ selState' = [selState EXCEPT ![n] =
                    IF NewEvents(n) = {} THEN @
                    ELSE Max({r.id : r \in NewEvents(n)})]
  /\ UNCHANGED <<sel, selFile, selPc, selHistory>>

\* It failed, timed out or is not installed: the position stays.
CollectDown(n) ==
  /\ selPc = "collect" /\ n \in selTargets
  /\ selTargets' = selTargets \ {n}
  /\ UNCHANGED <<sel, selFile, selPc, selState, selUp, selNew, selHistory>>

\* The loop is over; the state is saved only if some node answered.
Collected ==
  /\ selPc = "collect" /\ selTargets = {}
  /\ selPc' = IF selUp = {} THEN "emit" ELSE "save"
  /\ UNCHANGED <<sel, selFile, selMemory, selHistory>>

\* write_text opens the file, which truncates it ...
save_state ==
  /\ selPc = "save"
  /\ selPc' = "write" /\ selFile' = Torn
  /\ UNCHANGED <<sel, selMemory, selHistory>>

\* ... and writes the text.
SaveWrites ==
  /\ selPc = "write"
  /\ selPc' = "emit" /\ selFile' = selState
  /\ UNCHANGED <<sel, selMemory, selHistory>>

\* An OSError of either half is logged and the poll goes on.
SaveFails ==
  /\ selPc \in {"save", "write"}
  /\ selPc' = "emit" /\ selBadSave' = TRUE
  /\ UNCHANGED <<sel, selFile, selMemory, selReported, selLogged, selCleared,
                 selLost>>

Bump(k) == IF k < 2 THEN k + 1 ELSE 2

\* The output: one line per new event.
SelEmit ==
  /\ selPc = "emit"
  /\ selReported' = [n \in SelNode |-> [u \in 1..MaxRecords |->
       IF \E r \in selNew : r.node = n /\ r.uid = u THEN Bump(selReported[n][u])
       ELSE selReported[n][u]]]
  /\ selPc' = "idle" /\ selTargets' = {} /\ selState' = NoPosition
  /\ selUp' = {} /\ selNew' = {}
  /\ UNCHANGED <<sel, selFile, selLogged, selCleared, selLost, selBadSave>>

\* The poller is killed; the timer will start it again.
SelCrash ==
  /\ selPc # "idle"
  /\ selLost' = (selLost \/ (selPc = "emit" /\ selNew # {}))
  /\ selBadSave' = (selBadSave \/ selPc = "write")
  /\ selPc' = "idle" /\ selTargets' = {} /\ selState' = NoPosition
  /\ selUp' = {} /\ selNew' = {}
  /\ UNCHANGED <<sel, selFile, selReported, selLogged, selCleared>>

SelNext ==
  \/ \E n \in SelNode : \/ \E ok \in BOOLEAN : SelLog(n, ok)
                        \/ SelClear(n)
                        \/ CollectUp(n)
                        \/ CollectDown(n)
  \/ SelStart \/ Collected \/ save_state \/ SaveWrites \/ SaveFails
  \/ SelEmit \/ SelCrash

SelSpec == SelInit /\ [][SelNext]_selVars

-----------------------------------------------------------------------------
(***************************************************************************)
(* Properties                                                              *)
(***************************************************************************)

\* Every variable has its type.
SelTypeOK ==
  /\ sel \in [SelNode -> SUBSET Record]
  /\ selFile \in Position \cup {Torn}
  /\ selPc \in {"idle", "collect", "save", "write", "emit"}
  /\ selTargets \subseteq SelNode
  /\ selState \in Position /\ selUp \subseteq SelNode /\ selNew \subseteq Record
  /\ selReported \in [SelNode -> [1..MaxRecords -> 0..2]]
  /\ selLogged \in [SelNode -> 0..MaxRecords]
  /\ selCleared \subseteq SelNode /\ selLost \in BOOLEAN /\ selBadSave \in BOOLEAN

\* A record is reported twice only after a save has gone wrong: crashes at
\* any other point, nodes that do not answer and cleared logs repeat nothing.
SelNoDuplicate ==
  (\E n \in SelNode, u \in 1..MaxRecords : selReported[n][u] > 1) => selBadSave

\* The saved position never runs ahead of what was reported: outside the
\* window between save and output, a well-formed record at or below its
\* node's position has been reported, unless a poll died in that window or
\* the node's log was cleared and its ids began again.
SelNoLoss ==
  (selPc # "emit" /\ selFile # Torn /\ ~selLost) =>
    \A n \in SelNode \ selCleared : \A r \in parse_sel_csv(sel[n]) :
      r.id <= selFile[n] => selReported[n][r.uid] > 0
=============================================================================
