---------------------------- MODULE CooldownTable ----------------------------
(***************************************************************************)
(* What state.json is to those who use it one at a time: a table of the    *)
(* nodes that were acted on, which a poll and a confirmation each read and *)
(* replace at once, and which no crash loses or tears.  Once two of them   *)
(* have used it together nothing is promised.                              *)
(***************************************************************************)
EXTENDS Integers

CONSTANTS
  Node,      \* cluster nodes
  Cooldown   \* how long an entry keeps a node from being acted on

VARIABLES
  table,     \* entries with a node and an age
  shared     \* a poll and a confirmation have used the table together

tableVars == <<table, shared>>

-----------------------------------------------------------------------------
TableInit == table = {} /\ shared = FALSE

\* The entries of other nodes than those of S.
Others(t, S) == {e \in t : e.node \notin S}

CoolingDown(n) == \E e \in table : e.node = n /\ e.age < Cooldown

\* A poll that acted on the nodes of S: none of them was cooling down, each
\* has one entry now, and the entries of the others are what they were.
Poll(S) ==
  /\ \A n \in S : ~CoolingDown(n)
  /\ \A n \in S : \E e \in table' :
       e.node = n /\ \A f \in table' : f.node = n => f = e
  /\ Others(table', S) = Others(table, S)

\* A confirmed replacement: the entry of n is gone, and no other.
Confirm(n) == table' = Others(table, {n})

\* An entry ages until it does not matter any more.
Age ==
  table' = {[e EXCEPT !.age = IF @ < Cooldown THEN @ + 1 ELSE @] : e \in table}

TableNext ==
  \/ /\ UNCHANGED shared
     /\ \/ \E S \in SUBSET Node : Poll(S)
        \/ \E n \in Node : Confirm(n)
        \/ Age
  \/ shared' = TRUE

TableSpec == TableInit /\ [][TableNext]_tableVars
=============================================================================
