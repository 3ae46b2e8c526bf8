----------------------------- MODULE Remediation -----------------------------
(***************************************************************************)
(* Automatic cordoning: remediation/remediation-controller.py polls the    *)
(* predicted failure probability of every node and cordons and taints the  *)
(* nodes above the threshold, at most once per cooldown; an operator       *)
(* confirms a replacement at remediation/webhook-server.py, which clears   *)
(* the node's cooldown.  The two programs share state.json without a lock, *)
(* the Kubernetes API may fail or answer too late, and either program may  *)
(* be killed at any point.                                                 *)
(***************************************************************************)
EXTENDS StateFile

CONSTANTS
  Nobody,       \* no node
  Cooldown,     \* COOLDOWN_HOURS, in ticks of the model's clock
  MaxConfirm    \* bound of the model: confirmations

ASSUME CooldownAssumption == Cooldown \in Nat \ {0}
ASSUME ConfirmAssumption == MaxConfirm \in Nat
ASSUME NobodyAssumption == Nobody \notin Node
ASSUME ProcAssumption == {"controller", "webhook"} = Proc

VARIABLES
  dryRun,    \* DRY_RUN
  pc,        \* where the controller is
  mem,       \* the controller's copy of the state, from load to save
  todo,      \* nodes above the threshold still to be handled in this poll
  cur,       \* the node being remediated (between the two patches)
  cordoned,  \* API server: nodes with spec.unschedulable
  tainted,   \* API server: nodes with the predicted-failure taint
  wpc,       \* where the webhook handler is
  wmem,      \* its copy of the state
  wnode,     \* the node it is handling
  \* History, for the properties only.
  begun,     \* confirmations received
  acked,     \* per node, the last of them that was answered with 200
  since,     \* ticks since the last action on a node, at most Cooldown
  unsaved,   \* nodes acted on since the last load
  excuse,    \* nodes whose last action the controller may have forgotten
  early,     \* a node was acted on again within its cooldown
  overlap    \* a poll and a confirmation were in progress together

ctlVars  == <<dryRun, pc, mem, todo, cur>>
kubeVars == <<cordoned, tainted>>
hookVars == <<wpc, wmem, wnode>>
histVars == <<begun, acked, since, unsaved, excuse, early, overlap>>
vars == <<fileVars, ctlVars, kubeVars, hookVars, histVars>>

-----------------------------------------------------------------------------
\* An entry of state.json: age is the time since last_action, at which it
\* stops mattering once it reaches Cooldown; epoch is history.
Entry == [node : Node, age : 0..Cooldown, epoch : 0..MaxConfirm]
NewEntry(n) == [node |-> n, age |-> 0, epoch |-> begun]

Nodes(table) == {e.node : e \in table}
Without(table, n) == {e \in table : e.node # n}

\* Mutant: the comparison is the wrong way round at the boundary.
CooldownOffByOne(table, n) == \E e \in table : e.node = n /\ e.age < Cooldown - 1

\* _cooldown_active
CooldownActive(table, n) == \E e \in table : e.node = n /\ e.age < Cooldown

\* An entry one tick later.
Older(table) ==
  {[e EXCEPT !.age = IF @ < Cooldown THEN @ + 1 ELSE @] : e \in table}

Saving == {"open", "write", "replace"}
HookBusy == wpc \in Saving
PollBusy == pc \in {"loop", "taint"} \cup Saving

Init ==
  /\ FileInit
  /\ dryRun \in BOOLEAN
  /\ pc = "sleep" /\ mem = {} /\ todo = {} /\ cur = Nobody
  /\ cordoned = {} /\ tainted = {}
  /\ wpc = "idle" /\ wmem = {} /\ wnode = Nobody
  /\ begun = 0 /\ acked = [n \in Node |-> 0]
  /\ since = [n \in Node |-> Cooldown]
  /\ unsaved = {} /\ excuse = {} /\ early = FALSE /\ overlap = FALSE

-----------------------------------------------------------------------------
(***************************************************************************)
(* The controller                                                          *)
(***************************************************************************)

\* poll_once: the query answered with the nodes above the threshold, then the
\* state is loaded.  (A failed query only counts an error.)
PollBegin(risk) ==
  /\ pc = "sleep"
  /\ mem' = LoadState
  /\ todo' = risk
  /\ pc' = "loop"
  /\ unsaved' = {}
  /\ overlap' = (overlap \/ HookBusy)
  /\ UNCHANGED <<fileVars, dryRun, cur, kubeVars, hookVars, begun, acked,
                 since, excuse, early>>

\* The node is cooling down: skip it.
SkipNode(n) ==
  /\ pc = "loop" /\ n \in todo
  /\ CooldownActive(mem, n)
  /\ todo' = todo \ {n}
  /\ UNCHANGED <<fileVars, dryRun, pc, mem, cur, kubeVars, hookVars, histVars>>

\* Mutant: the entry is written into an empty table.
RecordActionAlone(n) ==
  /\ mem' = {NewEntry(n)}
  /\ todo' = todo \ {n}
  /\ since' = [since EXCEPT ![n] = 0]
  /\ unsaved' = unsaved \cup {n}
  /\ excuse' = excuse \ {n}
  /\ early' = (early \/ (since[n] < Cooldown /\ n \notin excuse))

\* _update_state_entry, with the history of the action.
RecordAction(n) ==
  /\ mem' = Without(mem, n) \cup {NewEntry(n)}
  /\ todo' = todo \ {n}
  /\ since' = [since EXCEPT ![n] = 0]
  /\ unsaved' = unsaved \cup {n}
  /\ excuse' = excuse \ {n}
  /\ early' = (early \/ (since[n] < Cooldown /\ n \notin excuse))

\* remediate_node under DRY_RUN: nothing but the record.
DryRemediate(n) ==
  /\ pc = "loop" /\ n \in todo
  /\ ~CooldownActive(mem, n)
  /\ dryRun
  /\ RecordAction(n)
  /\ UNCHANGED <<fileVars, dryRun, pc, cur, kubeVars, hookVars, begun, acked,
                 overlap>>

\* How a request to the API server ends: applied and answered, applied but the
\* answer lost (an exception), or refused (an exception).
Outcome == {"ok", "lost", "refused"}

\* remediate_node, first patch.  On an exception the node is given up until
\* the next poll.
PatchCordon(n, o) ==
  /\ pc = "loop" /\ n \in todo
  /\ ~CooldownActive(mem, n)
  /\ ~dryRun
  /\ cordoned' = IF o = "refused" THEN cordoned ELSE cordoned \cup {n}
  /\ IF o = "ok" THEN pc' = "taint" /\ cur' = n /\ UNCHANGED todo
                 ELSE todo' = todo \ {n} /\ UNCHANGED <<pc, cur>>
  /\ UNCHANGED <<fileVars, dryRun, mem, tainted, hookVars, histVars>>

\* Mutant: the action is recorded even if the taint failed.
PatchTaintRecordAlways(o) ==
  /\ pc = "taint"
  /\ pc' = "loop"
  /\ tainted' = IF o = "refused" THEN tainted ELSE tainted \cup {cur}
  /\ RecordAction(cur)
  /\ cur' = Nobody
  /\ UNCHANGED <<fileVars, dryRun, cordoned, hookVars, begun, acked,
                 overlap>>

\* remediate_node, second patch; then the event and the Loki line, whose
\* failures are swallowed, and the record.
PatchTaint(o) ==
  /\ pc = "taint"
  /\ pc' = "loop"
  /\ tainted' = IF o = "refused" THEN tainted ELSE tainted \cup {cur}
  /\ IF o = "ok"
       THEN RecordAction(cur)
       ELSE /\ todo' = todo \ {cur}
            /\ UNCHANGED <<mem, since, unsaved, excuse, early>>
  /\ cur' = Nobody
  /\ UNCHANGED <<fileVars, dryRun, cordoned, hookVars, begun, acked,
                 overlap>>

\* The end of poll_once: _save_state.
SaveOpen ==
  /\ pc = "loop" /\ todo = {}
  /\ OpenTmp("controller")
  /\ pc' = "write"
  /\ UNCHANGED <<dryRun, mem, todo, cur, kubeVars, hookVars, histVars>>

SaveWrite ==
  /\ pc = "write"
  /\ WriteTmp("controller", mem)
  /\ pc' = "replace"
  /\ UNCHANGED <<dryRun, mem, todo, cur, kubeVars, hookVars, histVars>>

SaveReplace ==
  /\ pc = "replace"
  /\ ReplaceState
  /\ pc' = "sleep"
  /\ mem' = {}
  /\ unsaved' = {}
  /\ UNCHANGED <<dryRun, todo, cur, kubeVars, hookVars, begun, acked,
                 since, excuse, early, overlap>>

\* The controller dies: killed, or by an exception of _save_state, which main
\* does not catch.
CrashWhen(condition) ==
  /\ condition
  /\ CloseAll("controller")
  /\ pc' = "down"
  /\ mem' = {} /\ todo' = {} /\ cur' = Nobody
  /\ excuse' = excuse \cup unsaved
  /\ unsaved' = {}
  /\ UNCHANGED <<dryRun, kubeVars, hookVars, begun, acked, since, early,
                 overlap>>

Crash == CrashWhen(pc # "down")
ReplaceFails == CrashWhen(pc = "replace" /\ ~CanReplace)

\* Kubernetes restarts the container; the volume with state.json survives.
Restart ==
  /\ pc = "down"
  /\ pc' = "sleep"
  /\ UNCHANGED <<fileVars, dryRun, mem, todo, cur, kubeVars, hookVars, histVars>>

-----------------------------------------------------------------------------
(***************************************************************************)
(* The webhook server: POST /webhook/replacement-confirmed                 *)
(***************************************************************************)

\* handle_replacement_confirmed: load, and drop the node if it is there.
ConfirmBegin(n) ==
  /\ wpc = "idle"
  /\ begun < MaxConfirm
  /\ begun' = begun + 1
  /\ wnode' = n
  /\ wmem' = Without(LoadState, n)
  /\ wpc' = IF n \in Nodes(LoadState) THEN "open" ELSE "ack"
  /\ excuse' = excuse \cup {n}
  /\ overlap' = (overlap \/ PollBusy)
  /\ UNCHANGED <<fileVars, ctlVars, kubeVars, acked, since, unsaved,
                 early>>

ConfirmOpen ==
  /\ wpc = "open"
  /\ OpenTmp("webhook")
  /\ wpc' = "write"
  /\ UNCHANGED <<ctlVars, kubeVars, wmem, wnode, histVars>>

\* Mutant: the entry is not deleted from what is written back.
ConfirmWriteKeeping ==
  /\ wpc = "write"
  /\ WriteTmp("webhook", LoadState)
  /\ wpc' = "replace"
  /\ UNCHANGED <<ctlVars, kubeVars, wmem, wnode, histVars>>

ConfirmWrite ==
  /\ wpc = "write"
  /\ WriteTmp("webhook", wmem)
  /\ wpc' = "replace"
  /\ UNCHANGED <<ctlVars, kubeVars, wmem, wnode, histVars>>

ConfirmReplace ==
  /\ wpc = "replace"
  /\ ReplaceState
  /\ wpc' = "ack"
  /\ UNCHANGED <<ctlVars, kubeVars, wmem, wnode, histVars>>

\* The retrain file, the counter and the answer 200.
ConfirmAck ==
  /\ wpc = "ack"
  /\ wpc' = "idle"
  /\ wmem' = {} /\ wnode' = Nobody
  /\ acked' = [acked EXCEPT ![wnode] = begun]
  /\ UNCHANGED <<fileVars, ctlVars, kubeVars, begun, since,
                 unsaved, excuse, early, overlap>>

\* An exception is answered with 500; a killed server is restarted by systemd.
ConfirmFails ==
  /\ wpc # "idle"
  /\ CloseAll("webhook")
  /\ wpc' = "idle"
  /\ wmem' = {} /\ wnode' = Nobody
  /\ UNCHANGED <<ctlVars, kubeVars, histVars>>

-----------------------------------------------------------------------------
\* Time passes for every entry, wherever it is kept.
Tick ==
  /\ data' = [i \in Inode |-> [data[i] EXCEPT !.table = Older(@)]]
  /\ mem' = Older(mem)
  /\ wmem' = Older(wmem)
  /\ since' = [n \in Node |-> IF since[n] < Cooldown THEN since[n] + 1
                                                     ELSE since[n]]
  /\ UNCHANGED <<stateIno, tmpIno, fd, dryRun, pc, todo, cur, kubeVars, wpc,
                 wnode, begun, acked, unsaved, excuse, early, overlap>>

Controller ==
  \/ \E risk \in SUBSET Node : PollBegin(risk)
  \/ \E n \in Node : SkipNode(n) \/ DryRemediate(n)
  \/ \E n \in Node, o \in Outcome : PatchCordon(n, o)
  \/ \E o \in Outcome : PatchTaint(o)
  \/ SaveOpen \/ SaveWrite \/ SaveReplace
  \/ Crash \/ ReplaceFails \/ Restart

Webhook ==
  \/ \E n \in Node : ConfirmBegin(n)
  \/ ConfirmOpen \/ ConfirmWrite \/ ConfirmReplace \/ ConfirmAck
  \/ ConfirmFails

Next == Controller \/ Webhook \/ Tick

Spec == Init /\ [][Next]_vars

-----------------------------------------------------------------------------
(***************************************************************************)
(* Properties                                                              *)
(***************************************************************************)

\* Every variable has its type.
TypeOK ==
  /\ FileTypeOK(Entry)
  /\ dryRun \in BOOLEAN
  /\ pc \in {"down", "sleep", "loop", "taint", "write", "replace"}
  /\ mem \subseteq Entry
  /\ todo \subseteq Node
  /\ cur \in Node \cup {Nobody}
  /\ cordoned \subseteq Node
  /\ tainted \subseteq Node
  /\ wpc \in {"idle", "open", "write", "replace", "ack"}
  /\ wmem \subseteq Entry
  /\ wnode \in Node \cup {Nobody}
  /\ begun \in 0..MaxConfirm
  /\ acked \in [Node -> 0..MaxConfirm]
  /\ since \in [Node -> 0..Cooldown]
  /\ unsaved \subseteq Node
  /\ excuse \subseteq Node
  /\ early \in BOOLEAN
  /\ overlap \in BOOLEAN

\* A cooldown is never running for a node that was not cordoned and tainted:
\* an entry, in any copy of the state, stems from two successful patches.
\* remediate_node writes the entry last, and nothing else makes one.
CooldownOnlyIfActed ==
  ~dryRun =>
    \A table \in {mem, wmem} \cup {data[i].table : i \in Inode} :
      \A e \in table : e.node \in cordoned \cap tainted

\* state.json can always be read, wherever either program dies, as long as no
\* poll overlaps a confirmation: _save_state renames a complete file.
StateReadable == ~overlap /\ stateIno # NoInode => data[stateIno].valid

\* A node is acted on at most once per cooldown, unless the controller died
\* before saving the action, the operator confirmed a replacement, or a poll
\* overlapped a confirmation.
CooldownRespected == ~overlap => ~early

\* The entries of node n that were there before a confirmation answered 200.
Resurrected(n) ==
  \E e \in LoadState : e.node = n /\ e.epoch < acked[n]

\* After the webhook has answered 200, the old entry stays out of state.json,
\* unless a poll overlapped a confirmation.
ConfirmationHolds == ~overlap => \A n \in Node : ~Resurrected(n)

\* state.json is one table, although three steps of two programs replace it:
\* a poll that saves has acted on nodes that were not cooling down and leaves
\* every other entry as it is now in the file, a confirmation removes one
\* node's entry, and whoever dies in between has changed nothing - as long as
\* no poll overlaps a confirmation.
Table == INSTANCE CooldownTable WITH table <- LoadState, shared <- overlap
TableIsAtomic == Table!TableSpec
=============================================================================
