---------------------------- MODULE ErrorLedger ----------------------------
(***************************************************************************)
(* What an EDAC driver promises: errors are accepted for a location and    *)
(* counted later, in batches, at a location.  Never more of a kind is      *)
(* counted than was accepted, nor at a location while nobody moved errors  *)
(* from one to another.  The promise does not cover kinds that are unsure: *)
(* an amount of theirs did not fit a counter.                              *)
(***************************************************************************)
EXTENDS Integers

CONSTANTS
  Kind,      \* of errors
  Loc,       \* locations
  Amount     \* the numbers of errors that one step may be about

VARIABLES
  accepted,    \* per kind, the errors accepted
  acceptedAt,  \* the same, per location
  counted,     \* per kind, the errors counted
  countedAt,   \* the same, per location
  unsure,      \* kinds of which an amount was damaged
  moved        \* errors may have moved from one location to another

ledger == <<accepted, acceptedAt, counted, countedAt, unsure, moved>>

-----------------------------------------------------------------------------
Empty ==
  /\ accepted = [k \in Kind |-> 0] /\ counted = [k \in Kind |-> 0]
  /\ acceptedAt = [k \in Kind |-> [l \in Loc |-> 0]]
  /\ countedAt = [k \in Kind |-> [l \in Loc |-> 0]]
  /\ unsure = {} /\ moved = FALSE

\* A step about errors of kind k may damage what is known of that kind.
MayDamage(k) == unsure' = unsure \/ unsure' = unsure \cup {k}

Accept(k, l, n) ==
  /\ accepted' = [accepted EXCEPT ![k] = @ + n]
  /\ acceptedAt' = [acceptedAt EXCEPT ![k][l] = @ + n]
  /\ MayDamage(k)
  /\ UNCHANGED <<counted, countedAt, moved>>

Count(k, l, n) ==
  /\ counted' = [counted EXCEPT ![k] = @ + n]
  /\ countedAt' = [countedAt EXCEPT ![k][l] = @ + n]
  /\ MayDamage(k)
  /\ k \notin unsure' =>
       /\ counted[k] + n <= accepted[k]
       /\ ~moved => countedAt[k][l] + n <= acceptedAt[k][l]
  /\ UNCHANGED <<accepted, acceptedAt, moved>>

Move ==
  /\ moved' = TRUE
  /\ UNCHANGED <<accepted, acceptedAt, counted, countedAt, unsure>>

Next ==
  \/ \E k \in Kind, l \in Loc, n \in Amount : Accept(k, l, n) \/ Count(k, l, n)
  \/ Move
  \/ Empty'

Spec == Empty /\ [][Next]_ledger
=============================================================================
