---------------------------- MODULE MCRemediation ----------------------------
(***************************************************************************)
(* Remediation with a symmetric set of nodes, for safety checking.         *)
(***************************************************************************)
EXTENDS Remediation, TLC

\* The nodes are interchangeable: no action and no property names one.
NodeSymmetry == Permutations(Node)
=============================================================================
