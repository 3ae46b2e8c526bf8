------------------------- MODULE RemediationHistory -------------------------
(***************************************************************************)
(* Remediation with one more history variable: which confirmations took an *)
(* entry out of state.json.  It adds no behaviour.                         *)
(***************************************************************************)
EXTENDS Remediation

VARIABLE struck  \* per node, the last confirmation that removed its entry

HInit == Init /\ struck = [n \in Node |-> 0]

\* The rename of handle_replacement_confirmed, when the entry of its node was
\* in state.json before and is not after.
Strikes ==
  /\ wpc = "replace" /\ wpc' = "ack"
  /\ wnode \in Nodes(LoadState) /\ wnode \notin Nodes(LoadState')

HNext ==
  /\ Next
  /\ struck' = IF Strikes THEN [struck EXCEPT ![wnode] = begun] ELSE struck

HSpec == HInit /\ [][HNext]_<<vars, struck>>

\* What the webhook's documentation says: the confirmation removes the node's
\* entry from state.json and clears its cooldown.  An entry it removed, and
\* answered 200 for, is not in state.json when the polls that were in progress
\* have ended.
ConfirmationSticks ==
  \A n \in Node :
    pc = "sleep" /\ 0 < struck[n] /\ struck[n] <= acked[n] =>
      \A e \in LoadState : e.node = n => e.epoch >= struck[n]
=============================================================================
