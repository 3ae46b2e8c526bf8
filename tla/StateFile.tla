------------------------------ MODULE StateFile ------------------------------
(***************************************************************************)
(* state.json as the remediation controller and its webhook server use it: *)
(* both load it whole and replace it whole by writing "state.json.tmp" and *)
(* renaming it (_load_state and _save_state, the same in both programs).   *)
(* They share the temporary name, so the file system is modelled down to   *)
(* inodes: a rename moves a name, an open descriptor keeps its inode.      *)
(***************************************************************************)
EXTENDS Integers, FiniteSets

CONSTANTS
  Node,      \* cluster nodes
  Proc       \* programs that open the file

VARIABLES
  stateIno,  \* inode named state.json, or NoInode
  tmpIno,    \* inode named state.json.tmp, or NoInode
  data,      \* what each inode holds
  fd         \* inode each program is writing, or NoInode

fileVars == <<stateIno, tmpIno, data, fd>>

-----------------------------------------------------------------------------
NoInode == 0
\* Enough for the two names and one descriptor per program.
Inode == 1 .. (2 + Cardinality(Proc))

\* What a file holds: text that json.load refuses, or a table of entries
\* (a set of records with a node field, at most one per node).
Garbage == [valid |-> FALSE, table |-> {}]
Json(table) == [valid |-> TRUE, table |-> table]

FileInit ==
  /\ stateIno = NoInode /\ tmpIno = NoInode
  /\ data = [i \in Inode |-> Garbage]
  /\ fd = [p \in Proc |-> NoInode]

\* _load_state: a missing or unreadable file is an empty table.
LoadState == IF stateIno = NoInode THEN {} ELSE data[stateIno].table

\* An inode that no name and no descriptor refers to.
FreeInode ==
  CHOOSE i \in Inode : i \notin {stateIno, tmpIno} \cup {fd[p] : p \in Proc}

\* Mutant: the file is rewritten in place.
OpenInPlace(p) ==
  LET i == IF stateIno = NoInode THEN FreeInode ELSE stateIno IN
  /\ stateIno' = i
  /\ tmpIno' = i
  /\ data' = [data EXCEPT ![i] = Garbage]
  /\ fd' = [fd EXCEPT ![p] = i]

\* open(tmp, "w"): creates the temporary file, or truncates the one there.
OpenTmp(p) ==
  LET i == IF tmpIno = NoInode THEN FreeInode ELSE tmpIno IN
  /\ tmpIno' = i
  /\ data' = [data EXCEPT ![i] = Garbage]
  /\ fd' = [fd EXCEPT ![p] = i]
  /\ UNCHANGED stateIno

\* json.dump and close: the text goes to the start of the inode.  What another
\* program wrote there in the meantime sticks out behind it if it is longer,
\* and equally many entries may be longer or shorter.
WriteTmp(p, table) ==
  LET i == fd[p]
      old == data[i]
      extra == Cardinality(old.table) - Cardinality(table)
  IN /\ \E new \in {Json(table), Garbage} :
          /\ new = Garbage => old.valid /\ extra >= 0
          /\ new # Garbage => ~(old.valid /\ extra > 0)
          /\ data' = [data EXCEPT ![i] = new]
     /\ fd' = [fd EXCEPT ![p] = NoInode]
     /\ UNCHANGED <<stateIno, tmpIno>>

\* os.replace(tmp, state.json); without a temporary file it raises.  The old
\* inode can no longer be read by anyone.
CanReplace == tmpIno # NoInode
ReplaceState ==
  /\ CanReplace
  /\ stateIno' = tmpIno
  /\ tmpIno' = NoInode
  /\ data' = [i \in Inode |-> IF i = stateIno THEN Garbage ELSE data[i]]
  /\ UNCHANGED fd

\* The program died: its descriptor is closed, what it had not written is lost.
CloseAll(p) ==
  /\ fd' = [fd EXCEPT ![p] = NoInode]
  /\ UNCHANGED <<stateIno, tmpIno, data>>

FileTypeOK(Entry) ==
  /\ stateIno \in Inode \cup {NoInode}
  /\ tmpIno \in Inode \cup {NoInode}
  /\ data \in [Inode -> [valid : BOOLEAN, table : SUBSET Entry]]
  /\ fd \in [Proc -> Inode \cup {NoInode}]
=============================================================================
