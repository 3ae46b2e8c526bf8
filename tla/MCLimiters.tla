----------------------------- MODULE MCLimiters -----------------------------
(***************************************************************************)
(* The two limiters of remediation side by side.  They share no state, so  *)
(* a run explores one of them at a time: side says which.                  *)
(***************************************************************************)
EXTENDS RestartOperator, RecoveryWebhook

VARIABLE side

Init == OpInit /\ WhInit /\ side \in {"operator", "webhook"}

OnOperator(action) == side = "operator" /\ action /\ UNCHANGED <<whVars, side>>
OnWebhook(action) == side = "webhook" /\ action /\ UNCHANGED <<opVars, side>>

Next == OnOperator(OpNext) \/ OnWebhook(WhNext)

vars == <<opVars, whVars, side>>

\* Time goes on and the server thread runs; scripts need not end, requests
\* need not come.
FairSpec ==
  /\ Init /\ [][Next]_vars
  /\ WF_vars(OnWebhook(WhTick))
  /\ WF_vars(OnWebhook(Serve))
=============================================================================
