-------------------------- MODULE RemediationProofs --------------------------
(***************************************************************************)
(* Proofs about Remediation: what the two programs may do to state.json,   *)
(* and that a cooldown is kept and a confirmation holds as long as a poll  *)
(* and a confirmation do not overlap.                                      *)
(***************************************************************************)
EXTENDS Remediation, FiniteSetTheorems, TLAPS

-----------------------------------------------------------------------------
(***************************************************************************)
(* The file system                                                         *)
(***************************************************************************)

\* Two programs: four inodes.
LEMMA InodeIs == Inode = {1, 2, 3, 4} /\ NoInode \notin Inode
<1>1. Cardinality({"webhook"}) = 1 /\ IsFiniteSet({"webhook"})
  BY FS_Singleton
<1>2. {"controller", "webhook"} = {"webhook"} \cup {"controller"}
  OBVIOUS
<1>3. Cardinality(Proc) = 2
  BY <1>1, <1>2, FS_AddElement, ProcAssumption
<1> QED
  BY <1>3 DEF Inode, NoInode

\* Whoever opens a new temporary file finds an inode that no name and no
\* descriptor refers to: at most three are in use.
LEMMA FreeInodeIsFree ==
  ASSUME tmpIno = NoInode
  PROVE  FreeInode \in Inode /\ FreeInode # stateIno
<1> DEFINE used == {stateIno, tmpIno} \cup {fd[p] : p \in Proc}
<1>1. used = {stateIno, NoInode, fd["controller"], fd["webhook"]}
  BY ProcAssumption
<1>2. \E i \in Inode : i \notin used
  <2>1. \A a, b, c : \E i \in {1, 2, 3, 4} : i # a /\ i # b /\ i # c
    OBVIOUS
  <2>2. PICK i \in Inode : i # stateIno /\ i # fd["controller"]
                           /\ i # fd["webhook"]
    BY <2>1, InodeIs
  <2> QED
    BY <1>1, <2>2, InodeIs
<1>3. FreeInode \in Inode /\ FreeInode \notin used
  BY <1>2 DEF FreeInode
<1> QED
  BY <1>1, <1>3

\* Opening the temporary file truncates an inode that is not state.json.
LEMMA OpenTmpFacts ==
  ASSUME NEW p \in Proc, FileTypeOK(Entry),
         tmpIno = NoInode \/ tmpIno # stateIno,
         OpenTmp(p)
  PROVE  /\ tmpIno' \in Inode /\ tmpIno' # NoInode /\ tmpIno' # stateIno'
         /\ stateIno' = stateIno
         /\ fd' = [fd EXCEPT ![p] = tmpIno']
         /\ fd'[p] = tmpIno'
         /\ data' = [data EXCEPT ![tmpIno'] = Garbage]
         /\ data'[tmpIno'] = Garbage
         /\ stateIno # NoInode => data'[stateIno] = data[stateIno]
         /\ LoadState' = LoadState
<1> DEFINE ino == IF tmpIno = NoInode THEN FreeInode ELSE tmpIno
<1>1. /\ tmpIno' = ino /\ stateIno' = stateIno
      /\ data' = [data EXCEPT ![ino] = Garbage]
      /\ fd' = [fd EXCEPT ![p] = ino]
  BY DEF OpenTmp
<1>2. ino \in Inode /\ ino # stateIno
  BY FreeInodeIsFree DEF FileTypeOK
<1>3. ino # NoInode
  BY <1>2, InodeIs
<1> HIDE DEF ino
<1>4. /\ data'[ino] = Garbage /\ fd'[p] = ino
      /\ stateIno # NoInode => data'[stateIno] = data[stateIno]
  BY <1>1, <1>2 DEF FileTypeOK
<1>5. LoadState' = LoadState
  BY <1>1, <1>4 DEF LoadState
<1> QED
  BY <1>1, <1>2, <1>3, <1>4, <1>5

\* A complete write into a truncated temporary file leaves the table in it
\* and state.json as it was.
LEMMA WriteTmpFacts ==
  ASSUME NEW p \in Proc, NEW table, FileTypeOK(Entry),
         tmpIno # NoInode, tmpIno # stateIno, fd[p] = tmpIno,
         data[tmpIno] = Garbage,
         WriteTmp(p, table)
  PROVE  /\ stateIno' = stateIno /\ tmpIno' = tmpIno
         /\ fd' = [fd EXCEPT ![p] = NoInode]
         /\ data'[tmpIno] = Json(table)
         /\ stateIno # NoInode => data'[stateIno] = data[stateIno]
         /\ LoadState' = LoadState
<1>1. ~data[tmpIno].valid
  BY DEF Garbage
<1>2. /\ stateIno' = stateIno /\ tmpIno' = tmpIno
      /\ fd' = [fd EXCEPT ![p] = NoInode]
      /\ data' = [data EXCEPT ![tmpIno] = Json(table)]
  <2>1. PICK new \in {Json(table), Garbage} :
          /\ new = Garbage => data[tmpIno].valid
          /\ data' = [data EXCEPT ![tmpIno] = new]
    BY DEF WriteTmp
  <2> QED
    BY <1>1, <2>1 DEF WriteTmp
<1>3. /\ data'[tmpIno] = Json(table)
      /\ stateIno # NoInode => data'[stateIno] = data[stateIno]
  BY <1>2 DEF FileTypeOK
<1> QED
  BY <1>2, <1>3 DEF LoadState

\* The rename makes the temporary file state.json.
LEMMA ReplaceStateFacts ==
  ASSUME FileTypeOK(Entry), tmpIno # stateIno, ReplaceState
  PROVE  /\ stateIno' = tmpIno /\ stateIno' # NoInode
         /\ tmpIno' = NoInode
         /\ fd' = fd
         /\ data'[tmpIno] = data[tmpIno]
         /\ LoadState' = data[tmpIno].table
<1>1. /\ stateIno' = tmpIno /\ stateIno' # NoInode /\ tmpIno' = NoInode
      /\ fd' = fd
      /\ data' = [i \in Inode |-> IF i = stateIno THEN Garbage ELSE data[i]]
  BY DEF ReplaceState, CanReplace
<1>2. tmpIno \in Inode
  BY <1>1 DEF FileTypeOK
<1>3. data'[tmpIno] = data[tmpIno]
  BY <1>1, <1>2
<1> QED
  BY <1>1, <1>3 DEF LoadState

\* What is loaded is a table of entries.
LEMMA LoadStateType == FileTypeOK(Entry) => LoadState \subseteq Entry
  BY DEF FileTypeOK, LoadState

-----------------------------------------------------------------------------
(***************************************************************************)
(* Tables of entries                                                       *)
(***************************************************************************)

\* A tick keeps what an entry says and lets it age by at most one.
LEMMA OlderFacts ==
  ASSUME NEW table \in SUBSET Entry
  PROVE  /\ Older(table) \subseteq Entry
         /\ \A e \in Older(table) : \E d \in table :
              /\ e.node = d.node /\ e.epoch = d.epoch
              /\ e.age >= d.age
         /\ \A d \in table : \E e \in Older(table) :
              /\ e.node = d.node /\ e.epoch = d.epoch
              /\ e.age = IF d.age < Cooldown THEN d.age + 1 ELSE d.age
<1> DEFINE aged(d) == [d EXCEPT !.age = IF @ < Cooldown THEN @ + 1 ELSE @]
<1>1. ASSUME NEW d \in table
      PROVE  /\ aged(d) \in Entry
             /\ aged(d).node = d.node /\ aged(d).epoch = d.epoch
             /\ aged(d).age = IF d.age < Cooldown THEN d.age + 1 ELSE d.age
             /\ aged(d).age >= d.age
  <2>1. /\ d \in Entry
        /\ d.node \in Node /\ d.epoch \in 0..MaxConfirm /\ d.age \in 0..Cooldown
    BY DEF Entry
  <2>2. aged(d) = [node |-> d.node,
                   age |-> IF d.age < Cooldown THEN d.age + 1 ELSE d.age,
                   epoch |-> d.epoch]
    BY <2>1 DEF Entry
  <2> HIDE DEF aged
  <2>3. /\ aged(d).node = d.node /\ aged(d).epoch = d.epoch
        /\ aged(d).age = IF d.age < Cooldown THEN d.age + 1 ELSE d.age
    BY <2>2
  <2>4. /\ aged(d).age \in 0..Cooldown /\ aged(d).age >= d.age
    BY <2>1, <2>3, CooldownAssumption
  <2> QED
    BY <2>1, <2>2, <2>3, <2>4 DEF Entry
<1>2. Older(table) = {aged(d) : d \in table}
  BY DEF Older
<1> HIDE DEF aged
<1> QED
  BY <1>1, <1>2

-----------------------------------------------------------------------------
(***************************************************************************)
(* The inductive invariant                                                 *)
(***************************************************************************)

\* How the variables of one program hang together, and the two names.
Shape ==
  /\ tmpIno = NoInode \/ tmpIno # stateIno
  /\ pc = "taint" =>
       cur \in Node /\ cur \in cordoned /\ ~CooldownActive(mem, cur)
  /\ pc \in {"sleep", "down"} => unsaved = {}
  /\ wpc # "idle" => wnode \in Node
  /\ \A n \in Node : acked[n] <= begun

\* An entry that stems from two successful patches, and every copy of the
\* state made of such entries.
Acted(e) == e.node \in cordoned /\ e.node \in tainted
EntriesActed ==
  ~dryRun => /\ \A e \in mem : Acted(e)
             /\ \A e \in wmem : Acted(e)
             /\ \A i \in Inode : \A e \in data[i].table : Acted(e)

\* The following three hold until a poll and a confirmation overlap.

\* At most one program works on the files: the one writing has the truncated
\* temporary file, the one renaming a complete one.
FileWhole ==
  /\ ~(PollBusy /\ HookBusy)
  /\ stateIno # NoInode => data[stateIno].valid
  /\ pc = "write" =>
       tmpIno # NoInode /\ fd["controller"] = tmpIno /\ data[tmpIno] = Garbage
  /\ wpc = "write" =>
       tmpIno # NoInode /\ fd["webhook"] = tmpIno /\ data[tmpIno] = Garbage
  /\ pc = "replace" => tmpIno # NoInode /\ data[tmpIno] = Json(mem)
  /\ wpc = "replace" => tmpIno # NoInode /\ data[tmpIno] = Json(wmem)

\* Every action within its cooldown is on record wherever the next decision
\* or the next save will look for it.
Covers(table, n) == \E e \in table : e.node = n /\ e.age <= since[n]
Remembered ==
  /\ ~early
  /\ HookBusy => wnode \in excuse
  /\ \A n \in Node \ excuse : since[n] < Cooldown =>
       /\ n \notin unsaved => Covers(LoadState, n)
       /\ PollBusy => Covers(mem, n)
       /\ HookBusy => Covers(wmem, n)

\* No copy of the state that may be saved holds an entry older than the
\* confirmation of its node.
Fresh(e) == /\ e.epoch >= acked[e.node]
            /\ wpc = "ack" /\ e.node = wnode => e.epoch >= begun
Cleared ==
  /\ \A e \in LoadState : Fresh(e)
  /\ PollBusy => \A e \in mem : Fresh(e)
  /\ HookBusy => \A e \in wmem : e.node # wnode /\ Fresh(e)

IInv ==
  /\ TypeOK /\ Shape /\ EntriesActed
  /\ ~overlap => FileWhole /\ Remembered /\ Cleared

-----------------------------------------------------------------------------
(***************************************************************************)
(* Types                                                                   *)
(***************************************************************************)

\* Both programs' file operations keep the types of the file system.
LEMMA FileStepType ==
  ASSUME TypeOK,
         \/ \E p \in Proc : OpenTmp(p) \/ CloseAll(p)
         \/ \E p \in Proc, table \in SUBSET Entry : WriteTmp(p, table)
         \/ ReplaceState
  PROVE  FileTypeOK(Entry)'
<1> USE DEF TypeOK, FileTypeOK
<1>1. Garbage \in [valid : BOOLEAN, table : SUBSET Entry]
  BY DEF Garbage
<1>2. ASSUME NEW p \in Proc, OpenTmp(p) PROVE FileTypeOK(Entry)'
  <2>1. (IF tmpIno = NoInode THEN FreeInode ELSE tmpIno) \in Inode
    BY FreeInodeIsFree
  <2> QED
    BY <1>1, <1>2, <2>1 DEF OpenTmp
<1>3. ASSUME NEW p \in Proc, CloseAll(p) PROVE FileTypeOK(Entry)'
  BY <1>3 DEF CloseAll
<1>4. ASSUME NEW p \in Proc, NEW table \in SUBSET Entry, WriteTmp(p, table)
      PROVE  FileTypeOK(Entry)'
  <2>1. Json(table) \in [valid : BOOLEAN, table : SUBSET Entry]
    BY DEF Json
  <2>2. PICK new \in {Json(table), Garbage} :
          data' = [data EXCEPT ![fd[p]] = new]
    BY <1>4 DEF WriteTmp
  <2>3. data' \in [Inode -> [valid : BOOLEAN, table : SUBSET Entry]]
    BY <1>1, <2>1, <2>2
  <2> QED
    BY <1>4, <2>3 DEF WriteTmp
<1>5. CASE ReplaceState
  <2>1. data' \in [Inode -> [valid : BOOLEAN, table : SUBSET Entry]]
    BY <1>1, <1>5 DEF ReplaceState
  <2> QED
    BY <1>5, <2>1 DEF ReplaceState
<1> QED
  BY <1>2, <1>3, <1>4, <1>5

\* A record of an action is an entry, and since and excuse keep their types.
LEMMA RecordActionType ==
  ASSUME TypeOK, NEW n \in Node, RecordAction(n)
  PROVE  /\ mem' \subseteq Entry /\ todo' \subseteq Node
         /\ since' \in [Node -> 0..Cooldown]
         /\ unsaved' \subseteq Node /\ excuse' \subseteq Node
         /\ early' \in BOOLEAN
<1>1. NewEntry(n) \in Entry
  BY CooldownAssumption DEF NewEntry, Entry, TypeOK
<1>2. mem' \subseteq Entry
  BY <1>1 DEF RecordAction, Without, TypeOK
<1>3. since' \in [Node -> 0..Cooldown]
  BY CooldownAssumption DEF RecordAction, TypeOK
<1>4. early' \in BOOLEAN
  BY Zenon DEF RecordAction, TypeOK
<1> QED
  BY <1>2, <1>3, <1>4 DEF RecordAction, TypeOK

LEMMA InitType == Init => TypeOK
<1> SUFFICES ASSUME Init PROVE TypeOK
  OBVIOUS
<1>1. FileTypeOK(Entry)
  BY ProcAssumption DEF Init, FileInit, FileTypeOK, Garbage
<1>2. acked \in [Node -> 0..MaxConfirm] /\ begun \in 0..MaxConfirm
  BY ConfirmAssumption DEF Init
<1>3. since \in [Node -> 0..Cooldown]
  BY CooldownAssumption DEF Init
<1> QED
  BY <1>1, <1>2, <1>3 DEF Init, TypeOK

\* Every step keeps the types; the patch of the taint needs to know that it
\* is about a node.
LEMMA NextType == TypeOK /\ Shape /\ [Next]_vars => TypeOK'
<1> SUFFICES ASSUME TypeOK, Shape, [Next]_vars PROVE TypeOK'
  OBVIOUS
<1>0. LoadState \subseteq Entry
  BY LoadStateType DEF TypeOK
<1>f. UNCHANGED fileVars => FileTypeOK(Entry)'
  BY DEF fileVars, FileTypeOK, TypeOK
<1>1. ASSUME NEW risk \in SUBSET Node, PollBegin(risk) PROVE TypeOK'
  <2>1. overlap' \in BOOLEAN
    BY <1>1, Zenon DEF PollBegin, TypeOK
  <2> QED
    BY <1>0, <1>1, <1>f, <2>1
       DEF PollBegin, TypeOK, kubeVars, hookVars
<1>2. ASSUME NEW n \in Node, SkipNode(n) PROVE TypeOK'
  BY <1>2, <1>f DEF SkipNode, TypeOK, kubeVars, hookVars, histVars
<1>3. ASSUME NEW n \in Node, DryRemediate(n) PROVE TypeOK'
  BY <1>3, <1>f, RecordActionType
     DEF DryRemediate, TypeOK, kubeVars, hookVars
<1>4. ASSUME NEW n \in Node, NEW o \in Outcome, PatchCordon(n, o)
      PROVE  TypeOK'
  BY <1>4, <1>f DEF PatchCordon, TypeOK, hookVars, histVars
<1>5. ASSUME NEW o \in Outcome, PatchTaint(o) PROVE TypeOK'
  <2>1. cur \in Node
    BY <1>5 DEF PatchTaint, Shape
  <2>2. CASE o = "ok"
    BY <1>5, <1>f, <2>1, <2>2, RecordActionType
       DEF PatchTaint, TypeOK, hookVars
  <2>3. CASE o # "ok"
    BY <1>5, <1>f, <2>1, <2>3 DEF PatchTaint, TypeOK, hookVars
  <2> QED
    BY <2>2, <2>3
<1>6. CASE SaveOpen
  BY <1>6, FileStepType, ProcAssumption
     DEF SaveOpen, TypeOK, kubeVars, hookVars, histVars
<1>7. CASE SaveWrite
  <2>1. FileTypeOK(Entry)'
    BY <1>7, FileStepType, ProcAssumption DEF SaveWrite, TypeOK
  <2> QED
    BY <1>7, <2>1 DEF SaveWrite, TypeOK, kubeVars, hookVars, histVars
<1>8. CASE SaveReplace
  BY <1>8, FileStepType DEF SaveReplace, TypeOK, kubeVars, hookVars
<1>9. ASSUME NEW c, CrashWhen(c) PROVE TypeOK'
  <2>1. FileTypeOK(Entry)'
    BY <1>9, FileStepType, ProcAssumption DEF CrashWhen
  <2> QED
    BY <1>9, <2>1 DEF CrashWhen, TypeOK, kubeVars, hookVars
<1>10. CASE Restart
  BY <1>10, <1>f DEF Restart, TypeOK, kubeVars, hookVars, histVars
<1>11. ASSUME NEW n \in Node, ConfirmBegin(n) PROVE TypeOK'
  <2>1. begun' \in 0..MaxConfirm
    BY <1>11, ConfirmAssumption DEF ConfirmBegin, TypeOK
  <2>2. overlap' \in BOOLEAN
    BY <1>11, Zenon DEF ConfirmBegin, TypeOK
  <2> QED
    BY <1>0, <1>11, <1>f, <2>1, <2>2
       DEF ConfirmBegin, TypeOK, ctlVars, kubeVars, Without
<1>12. CASE ConfirmOpen
  BY <1>12, FileStepType, ProcAssumption
     DEF ConfirmOpen, TypeOK, ctlVars, kubeVars, histVars
<1>13. CASE ConfirmWrite
  <2>1. FileTypeOK(Entry)'
    BY <1>13, FileStepType, ProcAssumption DEF ConfirmWrite, TypeOK
  <2> QED
    BY <1>13, <2>1 DEF ConfirmWrite, TypeOK, ctlVars, kubeVars, histVars
<1>14. CASE ConfirmReplace
  BY <1>14, FileStepType
     DEF ConfirmReplace, TypeOK, ctlVars, kubeVars, histVars
<1>15. CASE ConfirmAck
  BY <1>15, <1>f DEF ConfirmAck, TypeOK, ctlVars, kubeVars
<1>16. CASE ConfirmFails
  <2>1. FileTypeOK(Entry)'
    BY <1>16, FileStepType, ProcAssumption DEF ConfirmFails
  <2> QED
    BY <1>16, <2>1 DEF ConfirmFails, TypeOK, ctlVars, kubeVars, histVars
<1>17. CASE Tick
  <2>1. /\ mem' \subseteq Entry /\ wmem' \subseteq Entry
        /\ \A i \in Inode : Older(data[i].table) \subseteq Entry
    BY <1>17, OlderFacts DEF Tick, TypeOK, FileTypeOK
  <2>2. \A i \in Inode : [data[i] EXCEPT !.table = Older(@)]
                           \in [valid : BOOLEAN, table : SUBSET Entry]
    BY <2>1 DEF TypeOK, FileTypeOK
  <2>3. FileTypeOK(Entry)'
    BY <1>17, <2>2 DEF Tick, TypeOK, FileTypeOK
  <2>4. since' \in [Node -> 0..Cooldown]
    BY <1>17, CooldownAssumption DEF Tick, TypeOK
  <2> QED
    BY <1>17, <2>1, <2>3, <2>4 DEF Tick, TypeOK, kubeVars
<1>18. CASE UNCHANGED vars
  BY <1>18, <1>f DEF vars, ctlVars, kubeVars, hookVars, histVars, TypeOK
<1> QED
  BY <1>1, <1>2, <1>3, <1>4, <1>5, <1>6, <1>7, <1>8, <1>9, <1>10, <1>11,
     <1>12, <1>13, <1>14, <1>15, <1>16, <1>17, <1>18
     DEF Next, Controller, Webhook, Crash, ReplaceFails
-----------------------------------------------------------------------------
(***************************************************************************)
(* Shape and the entries' origin                                           *)
(***************************************************************************)

LEMMA InitShape == Init => Shape
  BY DEF Init, FileInit, Shape

LEMMA NextShape == TypeOK /\ Shape /\ [Next]_vars => Shape'
<1> SUFFICES ASSUME TypeOK, Shape, [Next]_vars PROVE Shape'
  OBVIOUS
<1> USE DEF Shape
<1>1. ASSUME NEW risk \in SUBSET Node, PollBegin(risk) PROVE Shape'
  BY <1>1 DEF PollBegin, fileVars, kubeVars, hookVars
<1>2. ASSUME NEW n \in Node, SkipNode(n) PROVE Shape'
  BY <1>2 DEF SkipNode, fileVars, kubeVars, hookVars, histVars
<1>3. ASSUME NEW n \in Node, DryRemediate(n) PROVE Shape'
  BY <1>3 DEF DryRemediate, fileVars, kubeVars, hookVars
<1>4. ASSUME NEW n \in Node, NEW o \in Outcome, PatchCordon(n, o)
      PROVE  Shape'
  <2>1. CASE o = "ok"
    BY <1>4, <2>1
       DEF PatchCordon, CooldownActive, fileVars, hookVars, histVars
  <2>2. CASE o # "ok"
    BY <1>4, <2>2 DEF PatchCordon, fileVars, hookVars, histVars
  <2> QED
    BY <2>1, <2>2
<1>5. ASSUME NEW o \in Outcome, PatchTaint(o) PROVE Shape'
  BY <1>5 DEF PatchTaint, RecordAction, fileVars, hookVars
<1>6. CASE SaveOpen
  <2>1. tmpIno' # stateIno'
    BY <1>6, OpenTmpFacts, ProcAssumption DEF SaveOpen, TypeOK
  <2> QED
    BY <1>6, <2>1 DEF SaveOpen, kubeVars, hookVars, histVars
<1>7. CASE SaveWrite
  BY <1>7 DEF SaveWrite, WriteTmp, kubeVars, hookVars, histVars
<1>8. CASE SaveReplace
  BY <1>8 DEF SaveReplace, ReplaceState, kubeVars, hookVars
<1>9. ASSUME NEW c, CrashWhen(c) PROVE Shape'
  BY <1>9 DEF CrashWhen, CloseAll, kubeVars, hookVars
<1>10. CASE Restart
  BY <1>10 DEF Restart, fileVars, kubeVars, hookVars, histVars
<1>11. ASSUME NEW n \in Node, ConfirmBegin(n) PROVE Shape'
  <2>1. \A m \in Node : acked'[m] <= begun'
    BY <1>11 DEF ConfirmBegin, TypeOK
  <2> QED
    BY <1>11, <2>1 DEF ConfirmBegin, fileVars, ctlVars, kubeVars,
                       CooldownActive
<1>12. CASE ConfirmOpen
  <2>1. tmpIno' # stateIno'
    BY <1>12, OpenTmpFacts, ProcAssumption DEF ConfirmOpen, TypeOK
  <2> QED
    BY <1>12, <2>1
       DEF ConfirmOpen, ctlVars, kubeVars, histVars, CooldownActive
<1>13. CASE ConfirmWrite
  BY <1>13 DEF ConfirmWrite, WriteTmp, ctlVars, kubeVars, histVars,
               CooldownActive
<1>14. CASE ConfirmReplace
  BY <1>14 DEF ConfirmReplace, ReplaceState, ctlVars, kubeVars, histVars,
               CooldownActive
<1>15. CASE ConfirmAck
  <2>1. \A m \in Node : acked'[m] <= begun'
    BY <1>15 DEF ConfirmAck, TypeOK
  <2> QED
    BY <1>15, <2>1
       DEF ConfirmAck, fileVars, ctlVars, kubeVars, CooldownActive
<1>16. CASE ConfirmFails
  BY <1>16 DEF ConfirmFails, CloseAll, ctlVars, kubeVars, histVars,
               CooldownActive
<1>17. CASE Tick
  <2>1. CooldownActive(mem', cur) => CooldownActive(mem, cur)
    <3> SUFFICES ASSUME NEW e \in mem', e.node = cur, e.age < Cooldown
                 PROVE  \E d \in mem : d.node = cur /\ d.age < Cooldown
      BY DEF CooldownActive
    <3>1. PICK d \in mem : e.node = d.node /\ e.age >= d.age
      BY <1>17, OlderFacts DEF Tick, TypeOK
    <3>2. d.age \in Nat /\ e.age \in Nat
      BY <1>17, <3>1, OlderFacts DEF Tick, TypeOK, Entry
    <3> QED
      BY <3>1, <3>2, CooldownAssumption
  <2> QED
    BY <1>17, <2>1 DEF Tick, kubeVars, CooldownActive
<1>18. CASE UNCHANGED vars
  BY <1>18 DEF vars, fileVars, ctlVars, kubeVars, hookVars, histVars,
               CooldownActive
<1> QED
  BY <1>1, <1>2, <1>3, <1>4, <1>5, <1>6, <1>7, <1>8, <1>9, <1>10, <1>11,
     <1>12, <1>13, <1>14, <1>15, <1>16, <1>17, <1>18
     DEF Next, Controller, Webhook, Crash, ReplaceFails

\* A file operation leaves in an inode what was there, nothing, or the table
\* that is written.
LEMMA FileStepTables ==
  ASSUME FileTypeOK(Entry), NEW i \in Inode, NEW e \in data'[i].table
  PROVE  /\ \A p \in Proc : OpenTmp(p) => e \in data[i].table
         /\ ReplaceState => e \in data[i].table
         /\ \A p \in Proc : \A table :
              WriteTmp(p, table) => e \in data[i].table \/ e \in table
<1> USE DEF FileTypeOK, Garbage, Json
<1>1. ASSUME NEW p \in Proc, OpenTmp(p) PROVE e \in data[i].table
  BY <1>1 DEF OpenTmp
<1>2. ASSUME ReplaceState PROVE e \in data[i].table
  BY <1>2 DEF ReplaceState
<1>3. ASSUME NEW p \in Proc, NEW table, WriteTmp(p, table)
      PROVE  e \in data[i].table \/ e \in table
  <2>1. PICK new \in {Json(table), Garbage} :
          data' = [data EXCEPT ![fd[p]] = new]
    BY <1>3 DEF WriteTmp
  <2> QED
    BY <2>1
<1> QED
  BY <1>1, <1>2, <1>3

LEMMA InitActed == Init => EntriesActed
  BY DEF Init, FileInit, EntriesActed, Garbage

LEMMA NextActed ==
  TypeOK /\ Shape /\ EntriesActed /\ [Next]_vars => EntriesActed'
<1> SUFFICES ASSUME TypeOK, Shape, EntriesActed, [Next]_vars, ~dryRun'
             PROVE  /\ \A e \in mem' : Acted(e)'
                    /\ \A e \in wmem' : Acted(e)'
                    /\ \A i \in Inode : \A e \in data'[i].table : Acted(e)'
  BY DEF EntriesActed
<1> DEFINE Kept == /\ \A e \in mem' : Acted(e)'
                   /\ \A e \in wmem' : Acted(e)'
                   /\ \A i \in Inode : \A e \in data'[i].table : Acted(e)'
<1>0. FileTypeOK(Entry)
  BY DEF TypeOK
<1>d. dryRun' = dryRun
  BY DEF Next, Controller, Webhook, PollBegin, SkipNode, DryRemediate,
         PatchCordon, PatchTaint, SaveOpen, SaveWrite, SaveReplace, Crash,
         ReplaceFails, CrashWhen, Restart, ConfirmBegin, ConfirmOpen,
         ConfirmWrite, ConfirmReplace, ConfirmAck, ConfirmFails, Tick,
         vars, ctlVars
<1>a. /\ \A e \in mem : Acted(e)
      /\ \A e \in wmem : Acted(e)
      /\ \A i \in Inode : \A e \in data[i].table : Acted(e)
  BY <1>d DEF EntriesActed
<1>l. \A e \in LoadState : Acted(e)
  BY <1>a, <1>0 DEF LoadState, FileTypeOK
<1>1. ASSUME NEW risk \in SUBSET Node, PollBegin(risk) PROVE Kept
  BY <1>1, <1>a, <1>l DEF PollBegin, Acted, fileVars, kubeVars, hookVars
<1>2. ASSUME NEW n \in Node, SkipNode(n) PROVE Kept
  BY <1>2, <1>a DEF SkipNode, Acted, fileVars, kubeVars, hookVars
<1>3. ASSUME NEW n \in Node, DryRemediate(n) PROVE Kept
  BY <1>3, <1>d DEF DryRemediate
<1>4. ASSUME NEW n \in Node, NEW o \in Outcome, PatchCordon(n, o)
      PROVE  Kept
  BY <1>4, <1>a DEF PatchCordon, Acted, fileVars, hookVars
<1>5. ASSUME NEW o \in Outcome, PatchTaint(o) PROVE Kept
  <2>1. CASE o = "ok"
    <3>1. \A e \in mem' : e \in mem \/ e.node = cur
      BY <1>5, <2>1 DEF PatchTaint, RecordAction, Without, NewEntry
    <3>2. cur \in cordoned /\ cordoned' = cordoned
          /\ tainted' = tainted \cup {cur}
      BY <1>5, <2>1 DEF PatchTaint, Shape
    <3> QED
      BY <1>5, <1>a, <3>1, <3>2 DEF PatchTaint, Acted, fileVars, hookVars
  <2>2. CASE o # "ok"
    BY <1>5, <1>a, <2>2 DEF PatchTaint, Acted, fileVars, hookVars
  <2> QED
    BY <2>1, <2>2
<1>6. CASE SaveOpen
  BY <1>6, <1>0, <1>a, FileStepTables, ProcAssumption
     DEF SaveOpen, Acted, kubeVars, hookVars
<1>7. CASE SaveWrite
  BY <1>7, <1>0, <1>a, FileStepTables, ProcAssumption
     DEF SaveWrite, Acted, kubeVars, hookVars
<1>8. CASE SaveReplace
  BY <1>8, <1>0, <1>a, FileStepTables
     DEF SaveReplace, Acted, kubeVars, hookVars
<1>9. ASSUME NEW c, CrashWhen(c) PROVE Kept
  BY <1>9, <1>a DEF CrashWhen, CloseAll, Acted, kubeVars, hookVars
<1>10. CASE Restart
  BY <1>10, <1>a DEF Restart, Acted, fileVars, kubeVars, hookVars
<1>11. ASSUME NEW n \in Node, ConfirmBegin(n) PROVE Kept
  BY <1>11, <1>a, <1>l
     DEF ConfirmBegin, Without, Acted, fileVars, ctlVars, kubeVars
<1>12. CASE ConfirmOpen
  BY <1>12, <1>0, <1>a, FileStepTables, ProcAssumption
     DEF ConfirmOpen, Acted, ctlVars, kubeVars
<1>13. CASE ConfirmWrite
  BY <1>13, <1>0, <1>a, FileStepTables, ProcAssumption
     DEF ConfirmWrite, Acted, ctlVars, kubeVars
<1>14. CASE ConfirmReplace
  BY <1>14, <1>0, <1>a, FileStepTables
     DEF ConfirmReplace, Acted, ctlVars, kubeVars
<1>15. CASE ConfirmAck
  BY <1>15, <1>a DEF ConfirmAck, Acted, fileVars, ctlVars, kubeVars
<1>16. CASE ConfirmFails
  BY <1>16, <1>a DEF ConfirmFails, CloseAll, Acted, ctlVars, kubeVars
<1>17. CASE Tick
  <2>1. /\ mem' = Older(mem) /\ wmem' = Older(wmem)
        /\ \A i \in Inode : data'[i].table = Older(data[i].table)
        /\ cordoned' = cordoned /\ tainted' = tainted
    BY <1>0, <1>17 DEF Tick, FileTypeOK, kubeVars
  <2>2. ASSUME NEW table \in SUBSET Entry, \A e \in table : Acted(e)
        PROVE  \A e \in Older(table) : Acted(e)'
    BY <2>1, <2>2, OlderFacts DEF Acted
  <2>3. /\ mem \in SUBSET Entry /\ wmem \in SUBSET Entry
        /\ \A i \in Inode : data[i].table \in SUBSET Entry
    BY DEF TypeOK, FileTypeOK
  <2> QED
    BY <1>a, <2>1, <2>2, <2>3
<1>18. CASE UNCHANGED vars
  BY <1>18, <1>a DEF vars, fileVars, ctlVars, kubeVars, hookVars, Acted
<1> QED
  BY <1>1, <1>2, <1>3, <1>4, <1>5, <1>6, <1>7, <1>8, <1>9, <1>10, <1>11,
     <1>12, <1>13, <1>14, <1>15, <1>16, <1>17, <1>18
     DEF Next, Controller, Webhook, Crash, ReplaceFails
-----------------------------------------------------------------------------
(***************************************************************************)
(* Without an overlap                                                      *)
(***************************************************************************)

LEMMA InitUndisturbed == Init => FileWhole /\ Remembered /\ Cleared
<1> SUFFICES ASSUME Init PROVE FileWhole /\ Remembered /\ Cleared
  OBVIOUS
<1>1. LoadState = {} /\ ~PollBusy /\ ~HookBusy
  BY DEF Init, FileInit, LoadState, PollBusy, HookBusy, Saving
<1>2. FileWhole
  BY <1>1 DEF Init, FileInit, FileWhole
<1>3. Remembered
  BY <1>1, CooldownAssumption DEF Init, Remembered
<1> QED
  BY <1>1, <1>2, <1>3 DEF Cleared

\* An overlap is never forgotten, and beginning into the other program's work
\* is one.
LEMMA OverlapStays ==
  ASSUME TypeOK, [Next]_vars, ~overlap'
  PROVE  /\ ~overlap
         /\ \A risk : PollBegin(risk) => ~HookBusy
         /\ \A n : ConfirmBegin(n) => ~PollBusy
<1>1. \A risk : PollBegin(risk) => ~overlap /\ ~HookBusy
  BY Zenon DEF PollBegin
<1>2. \A n : ConfirmBegin(n) => ~overlap /\ ~PollBusy
  BY Zenon DEF ConfirmBegin
<1>3. \/ \E risk : PollBegin(risk)
      \/ \E n : ConfirmBegin(n)
      \/ overlap' = overlap
  BY DEF Next, Controller, Webhook, PollBegin, SkipNode, DryRemediate,
         PatchCordon, PatchTaint, SaveOpen, SaveWrite, SaveReplace, Crash,
         ReplaceFails, CrashWhen, Restart, ConfirmBegin, ConfirmOpen,
         ConfirmWrite, ConfirmReplace, ConfirmAck, ConfirmFails, Tick,
         vars, histVars
<1>4. ~overlap
  BY <1>1, <1>2, <1>3
<1> QED
  BY <1>1, <1>2, <1>4

\* An action is recorded with age 0 and the current epoch; the node was not
\* cooling down in the table consulted, so it was not early.
LEMMA RecordActionKeeps ==
  ASSUME TypeOK, Shape, FileWhole, Remembered, Cleared,
         NEW n \in Node, ~CooldownActive(mem, n), PollBusy,
         RecordAction(n), pc' = "loop",
         UNCHANGED <<fileVars, hookVars, begun, acked>>
  PROVE  FileWhole' /\ Remembered' /\ Cleared'
<1>1. /\ wpc' = wpc /\ wnode' = wnode /\ begun' = begun /\ acked' = acked
      /\ LoadState' = LoadState
      /\ ~HookBusy /\ ~HookBusy' /\ PollBusy'
  BY DEF hookVars, fileVars, LoadState, FileWhole, HookBusy, PollBusy
<1>2. FileWhole'
  BY <1>1 DEF FileWhole, HookBusy, Saving, fileVars
<1>3. Remembered'
  <2>1. ~early'
    <3>1. n \notin excuse => ~(since[n] < Cooldown)
      <4> SUFFICES ASSUME n \notin excuse, since[n] < Cooldown PROVE FALSE
        OBVIOUS
      <4>1. PICK e \in mem : e.node = n /\ e.age <= since[n]
        BY DEF Remembered, Covers
      <4>2. e.age < Cooldown
        BY <4>1, CooldownAssumption DEF TypeOK, Entry
      <4> QED
        BY <4>1, <4>2 DEF CooldownActive
    <3> QED
      BY <3>1, Zenon DEF RecordAction, Remembered
  <2>2. ASSUME NEW m \in Node \ excuse', since'[m] < Cooldown
        PROVE  /\ m \notin unsaved' => Covers(LoadState, m)'
               /\ Covers(mem, m)'
    <3>1. CASE m = n
      <4>1. since'[n] = 0 /\ n \in unsaved'
        BY DEF RecordAction, TypeOK
      <4>2. NewEntry(n) \in mem' /\ NewEntry(n).node = n /\ NewEntry(n).age = 0
        BY DEF RecordAction, NewEntry
      <4> QED
        BY <3>1, <4>1, <4>2 DEF Covers
    <3>2. CASE m # n
      <4>1. since'[m] = since[m] /\ m \notin excuse
            /\ (m \notin unsaved' => m \notin unsaved)
        BY <3>2 DEF RecordAction, TypeOK
      <4>2. Covers(mem, m) /\ (m \notin unsaved => Covers(LoadState, m))
        BY <2>2, <4>1 DEF Remembered
      <4>3. \A e \in mem : e.node = m => e \in mem'
        BY <3>2 DEF RecordAction, Without
      <4> QED
        BY <1>1, <4>1, <4>2, <4>3 DEF Covers
    <3> QED
      BY <3>1, <3>2
  <2> QED
    BY <1>1, <2>1, <2>2 DEF Remembered
<1>4. Cleared'
  <2>1. \A e : Fresh(e) => Fresh(e)'
    BY <1>1 DEF Fresh
  <2>2. \A e : e = NewEntry(n) => Fresh(e)'
    <3>1. begun >= acked[n] /\ begun >= begun
      BY DEF Shape, TypeOK
    <3> QED
      BY <1>1, <3>1 DEF Fresh, NewEntry
  <2>3. \A e \in mem' : e \in mem \/ e = NewEntry(n)
    BY DEF RecordAction, Without
  <2> QED
    BY <1>1, <2>1, <2>2, <2>3 DEF Cleared
<1> QED
  BY <1>2, <1>3, <1>4
\* A controller step that leaves the files, the clock and the tables alone.
LEMMA QuietStep ==
  ASSUME FileWhole, Remembered, Cleared,
         UNCHANGED <<fileVars, mem, wpc, wmem, wnode, begun, acked, since,
                     unsaved, excuse, early>>,
         PollBusy' = PollBusy,
         pc' \notin {"write", "replace"}
  PROVE  FileWhole' /\ Remembered' /\ Cleared'
<1>1. HookBusy' = HookBusy /\ LoadState' = LoadState
  BY DEF HookBusy, LoadState, fileVars
<1>2. FileWhole'
  BY <1>1 DEF FileWhole, fileVars
<1>3. Remembered'
  BY <1>1 DEF Remembered, Covers
<1>4. Cleared'
  BY <1>1 DEF Cleared, Fresh
<1> QED
  BY <1>2, <1>3, <1>4

\* The controller's save: open, write, rename.
LEMMA SaveKeeps ==
  ASSUME TypeOK, Shape, FileWhole, Remembered, Cleared,
         SaveOpen \/ SaveWrite \/ SaveReplace
  PROVE  FileWhole' /\ Remembered' /\ Cleared'
<1>0. FileTypeOK(Entry) /\ "controller" \in Proc /\ ~HookBusy /\ PollBusy
  BY ProcAssumption DEF TypeOK, SaveOpen, SaveWrite, SaveReplace, FileWhole,
                        PollBusy, Saving
<1>1. /\ UNCHANGED <<wpc, wmem, wnode, begun, acked, since, excuse, early>>
      /\ HookBusy' = HookBusy
      /\ wpc \notin Saving
  BY <1>0 DEF SaveOpen, SaveWrite, SaveReplace, hookVars, histVars, HookBusy
<1>2. ASSUME SaveOpen \/ SaveWrite, LoadState' = LoadState
      PROVE  Remembered' /\ Cleared'
  <2>1. UNCHANGED <<mem, unsaved>>
    BY <1>2 DEF SaveOpen, SaveWrite, histVars
  <2>2. Remembered'
    BY <1>0, <1>1, <1>2, <2>1 DEF Remembered, Covers
  <2>3. Cleared'
    BY <1>0, <1>1, <1>2, <2>1 DEF Cleared, Fresh
  <2> QED
    BY <2>2, <2>3
<1>3. CASE SaveOpen
  <2>1. /\ LoadState' = LoadState /\ stateIno' = stateIno
        /\ tmpIno' # NoInode
        /\ fd'["controller"] = tmpIno' /\ data'[tmpIno'] = Garbage
        /\ stateIno # NoInode => data'[stateIno] = data[stateIno]
    BY <1>0, <1>3, OpenTmpFacts DEF SaveOpen, Shape
  <2>2. FileWhole'
    BY <1>0, <1>1, <1>3, <2>1 DEF FileWhole, SaveOpen, Saving
  <2> QED
    BY <1>2, <1>3, <2>1, <2>2
<1>4. CASE SaveWrite
  <2>1. pc = "write" /\ pc' = "replace" /\ mem' = mem
    BY <1>4 DEF SaveWrite
  <2>2. tmpIno # NoInode /\ tmpIno # stateIno
        /\ fd["controller"] = tmpIno /\ data[tmpIno] = Garbage
    BY <2>1 DEF FileWhole, Shape
  <2>3. /\ LoadState' = LoadState /\ stateIno' = stateIno /\ tmpIno' = tmpIno
        /\ data'[tmpIno] = Json(mem)
        /\ stateIno # NoInode => data'[stateIno] = data[stateIno]
    BY <1>0, <1>4, <2>2, WriteTmpFacts DEF SaveWrite
  <2>4. FileWhole'
    BY <1>0, <1>1, <2>1, <2>2, <2>3 DEF FileWhole, Saving
  <2> QED
    BY <1>2, <1>4, <2>3, <2>4
<1>5. CASE SaveReplace
  <2>1. /\ pc = "replace" /\ pc' = "sleep" /\ mem' = {} /\ unsaved' = {}
        /\ ReplaceState
    BY <1>5 DEF SaveReplace
  <2>2. tmpIno # stateIno /\ tmpIno # NoInode /\ data[tmpIno] = Json(mem)
    BY <2>1 DEF FileWhole, Shape
  <2>3. /\ stateIno' = tmpIno /\ tmpIno' = NoInode
        /\ data'[tmpIno] = Json(mem)
        /\ LoadState' = mem
    BY <1>0, <2>1, <2>2, ReplaceStateFacts DEF Json
  <2>4. ~PollBusy'
    BY <2>1 DEF PollBusy, Saving
  <2>5. FileWhole'
    BY <1>0, <1>1, <2>1, <2>3, <2>4 DEF FileWhole, Saving, Json
  <2>6. Remembered'
    BY <1>0, <1>1, <2>1, <2>3, <2>4 DEF Remembered, Covers
  <2>7. Cleared'
    BY <1>0, <1>1, <2>1, <2>3, <2>4 DEF Cleared, Fresh
  <2> QED
    BY <2>5, <2>6, <2>7
<1> QED
  BY <1>3, <1>4, <1>5

\* The webhook's save of a table without the confirmed node.
LEMMA ConfirmSaveKeeps ==
  ASSUME TypeOK, Shape, FileWhole, Remembered, Cleared,
         ConfirmOpen \/ ConfirmWrite \/ ConfirmReplace
  PROVE  FileWhole' /\ Remembered' /\ Cleared'
<1>0. FileTypeOK(Entry) /\ "webhook" \in Proc /\ HookBusy /\ ~PollBusy
  BY ProcAssumption DEF TypeOK, ConfirmOpen, ConfirmWrite, ConfirmReplace,
                        FileWhole, HookBusy, Saving
<1>1. /\ UNCHANGED <<pc, mem, wmem, wnode, begun, acked, since, unsaved,
                     excuse, early>>
      /\ PollBusy' = PollBusy
      /\ pc \notin {"write", "replace"}
      /\ unsaved = {}
  <2>1. UNCHANGED <<pc, mem, wmem, wnode, begun, acked, since, unsaved,
                    excuse, early>>
    BY DEF ConfirmOpen, ConfirmWrite, ConfirmReplace, ctlVars, histVars
  <2>2. pc \in {"sleep", "down"}
    BY <1>0 DEF TypeOK, PollBusy, Saving
  <2> QED
    BY <2>1, <2>2 DEF Shape, PollBusy
<1>2. ASSUME ConfirmOpen \/ ConfirmWrite, LoadState' = LoadState
      PROVE  Remembered' /\ Cleared'
  <2>1. HookBusy' /\ wpc # "ack" /\ wpc' # "ack"
    BY <1>2 DEF ConfirmOpen, ConfirmWrite, HookBusy, Saving
  <2>2. Remembered'
    BY <1>0, <1>1, <1>2, <2>1 DEF Remembered, Covers
  <2>3. Cleared'
    BY <1>0, <1>1, <1>2, <2>1 DEF Cleared, Fresh
  <2> QED
    BY <2>2, <2>3
<1>3. CASE ConfirmOpen
  <2>1. /\ LoadState' = LoadState /\ stateIno' = stateIno
        /\ tmpIno' # NoInode
        /\ fd'["webhook"] = tmpIno' /\ data'[tmpIno'] = Garbage
        /\ stateIno # NoInode => data'[stateIno] = data[stateIno]
    BY <1>0, <1>3, OpenTmpFacts DEF ConfirmOpen, Shape
  <2>2. FileWhole'
    BY <1>0, <1>1, <1>3, <2>1 DEF FileWhole, ConfirmOpen
  <2> QED
    BY <1>2, <1>3, <2>1, <2>2
<1>4. CASE ConfirmWrite
  <2>1. wpc = "write" /\ wpc' = "replace"
    BY <1>4 DEF ConfirmWrite
  <2>2. tmpIno # NoInode /\ tmpIno # stateIno
        /\ fd["webhook"] = tmpIno /\ data[tmpIno] = Garbage
    BY <2>1 DEF FileWhole, Shape
  <2>3. /\ LoadState' = LoadState /\ stateIno' = stateIno /\ tmpIno' = tmpIno
        /\ data'[tmpIno] = Json(wmem)
        /\ stateIno # NoInode => data'[stateIno] = data[stateIno]
    BY <1>0, <1>4, <2>2, WriteTmpFacts DEF ConfirmWrite
  <2>4. FileWhole'
    BY <1>0, <1>1, <2>1, <2>2, <2>3 DEF FileWhole
  <2> QED
    BY <1>2, <1>4, <2>3, <2>4
<1>5. CASE ConfirmReplace
  <2>1. wpc = "replace" /\ wpc' = "ack" /\ ReplaceState
    BY <1>5 DEF ConfirmReplace
  <2>2. tmpIno # stateIno /\ tmpIno # NoInode /\ data[tmpIno] = Json(wmem)
    BY <2>1 DEF FileWhole, Shape
  <2>3. /\ stateIno' = tmpIno /\ tmpIno' = NoInode
        /\ data'[tmpIno] = Json(wmem)
        /\ LoadState' = wmem
    BY <1>0, <2>1, <2>2, ReplaceStateFacts DEF Json
  <2>4. ~HookBusy'
    BY <2>1 DEF HookBusy, Saving
  <2>5. FileWhole'
    BY <1>0, <1>1, <2>1, <2>3, <2>4 DEF FileWhole, Json
  <2>6. Remembered'
    BY <1>0, <1>1, <2>3, <2>4 DEF Remembered, Covers
  <2>7. Cleared'
    BY <1>0, <1>1, <2>1, <2>3, <2>4 DEF Cleared, Fresh
  <2> QED
    BY <2>5, <2>6, <2>7
<1> QED
  BY <1>3, <1>4, <1>5
\* Entries and the clock age together.
LEMMA TickKeeps ==
  ASSUME TypeOK, FileWhole, Remembered, Cleared, Tick
  PROVE  FileWhole' /\ Remembered' /\ Cleared'
<1> USE CooldownAssumption
<1>1. /\ UNCHANGED <<stateIno, tmpIno, fd, pc, cur, wpc, wnode, begun, acked,
                     unsaved, excuse, early>>
      /\ mem' = Older(mem) /\ wmem' = Older(wmem)
      /\ mem \in SUBSET Entry /\ wmem \in SUBSET Entry
      /\ PollBusy' = PollBusy /\ HookBusy' = HookBusy
  BY DEF Tick, TypeOK, PollBusy, HookBusy
<1>2. \A i \in Inode : /\ data'[i].table = Older(data[i].table)
                       /\ data'[i].valid = data[i].valid
                       /\ data'[i] = [valid |-> data[i].valid,
                                      table |-> Older(data[i].table)]
  BY DEF Tick, TypeOK, FileTypeOK
<1>3. Older({}) = {}
  BY DEF Older
<1>4. LoadState' = Older(LoadState) /\ LoadState \in SUBSET Entry
  BY <1>1, <1>2, <1>3, LoadStateType DEF LoadState, TypeOK, FileTypeOK
<1>5. FileWhole'
  <2>1. stateIno # NoInode => data'[stateIno].valid
    BY <1>2 DEF FileWhole, TypeOK, FileTypeOK
  <2>2. tmpIno # NoInode => tmpIno \in Inode
    BY DEF TypeOK, FileTypeOK
  <2>3. ASSUME NEW table, tmpIno # NoInode, data[tmpIno] = Json(table)
        PROVE  data'[tmpIno] = Json(Older(table))
    <3>1. data[tmpIno].valid = TRUE /\ data[tmpIno].table = table
      BY <2>3 DEF Json
    <3>2. data'[tmpIno] = [valid |-> data[tmpIno].valid,
                           table |-> Older(data[tmpIno].table)]
      BY <1>2, <2>2, <2>3
    <3> QED
      BY <3>1, <3>2, Zenon DEF Json
  <2>4. tmpIno # NoInode /\ data[tmpIno] = Garbage => data'[tmpIno] = Garbage
    BY <1>2, <1>3, <2>2 DEF Garbage
  <2> QED
    BY <1>1, <2>1, <2>3, <2>4 DEF FileWhole
<1>6. Remembered'
  <2>1. ASSUME NEW n \in Node, since'[n] < Cooldown
        PROVE  /\ since[n] < Cooldown
               /\ \A table \in SUBSET Entry :
                    Covers(table, n) =>
                      \E e \in Older(table) : e.node = n /\ e.age <= since'[n]
    <3>1. since[n] < Cooldown /\ since'[n] = since[n] + 1
          /\ since[n] \in 0..Cooldown
      BY <2>1 DEF Tick, TypeOK
    <3>2. ASSUME NEW table \in SUBSET Entry, Covers(table, n)
          PROVE  \E e \in Older(table) : e.node = n /\ e.age <= since'[n]
      <4>1. PICK d \in table : d.node = n /\ d.age <= since[n]
        BY <3>2 DEF Covers
      <4>2. d.age \in 0..Cooldown
        BY <4>1 DEF Entry
      <4>3. PICK e \in Older(table) :
              e.node = d.node
              /\ e.age = IF d.age < Cooldown THEN d.age + 1 ELSE d.age
        BY <4>1, OlderFacts
      <4> QED
        BY <3>1, <4>1, <4>2, <4>3
    <3> QED
      BY <3>1, <3>2
  <2> QED
    BY <1>1, <1>4, <2>1 DEF Remembered, Covers
<1>7. Cleared'
  <2>1. ASSUME NEW table \in SUBSET Entry, NEW e \in Older(table)
        PROVE  /\ (\A d \in table : Fresh(d)) => Fresh(e)'
               /\ (\A d \in table : d.node # wnode) => e.node # wnode
    BY <1>1, OlderFacts DEF Fresh
  <2> QED
    BY <1>1, <1>4, <2>1 DEF Cleared
<1> QED
  BY <1>5, <1>6, <1>7

\* As long as a poll and a confirmation do not overlap, every step keeps the
\* three parts.
LEMMA NextUndisturbed ==
  TypeOK /\ Shape /\ (~overlap => FileWhole /\ Remembered /\ Cleared)
    /\ [Next]_vars /\ ~overlap' => FileWhole' /\ Remembered' /\ Cleared'
<1> DEFINE Kept == FileWhole' /\ Remembered' /\ Cleared'
<1> SUFFICES ASSUME TypeOK, Shape, [Next]_vars, ~overlap',
                    ~overlap => FileWhole /\ Remembered /\ Cleared
             PROVE  Kept
  OBVIOUS
<1>a. /\ FileWhole /\ Remembered /\ Cleared
      /\ \A risk : PollBegin(risk) => ~HookBusy
      /\ \A n : ConfirmBegin(n) => ~PollBusy
  BY OverlapStays
<1>1. ASSUME NEW risk \in SUBSET Node, PollBegin(risk) PROVE Kept
  <2>1. /\ pc = "sleep" /\ pc' = "loop" /\ mem' = LoadState
        /\ unsaved' = {} /\ unsaved = {}
        /\ UNCHANGED <<wpc, wmem, wnode, begun, acked, since, excuse, early>>
        /\ ~HookBusy /\ ~HookBusy'
        /\ LoadState' = LoadState
    BY <1>1, <1>a
       DEF PollBegin, Shape, hookVars, fileVars, HookBusy, LoadState
  <2>2. FileWhole'
    BY <1>1, <1>a, <2>1 DEF PollBegin, FileWhole, HookBusy, fileVars
  <2>3. Remembered'
    BY <1>a, <2>1 DEF Remembered, Covers
  <2>4. Cleared'
    BY <1>a, <2>1 DEF Cleared, Fresh
  <2> QED
    BY <2>2, <2>3, <2>4
<1>2. ASSUME NEW n \in Node, SkipNode(n) PROVE Kept
  BY <1>2, <1>a, QuietStep
     DEF SkipNode, fileVars, hookVars, histVars, PollBusy
<1>3. ASSUME NEW n \in Node, DryRemediate(n) PROVE Kept
  <2>1. /\ ~CooldownActive(mem, n) /\ RecordAction(n) /\ pc' = "loop"
        /\ PollBusy
        /\ UNCHANGED <<fileVars, hookVars, begun, acked>>
    BY <1>3 DEF DryRemediate, PollBusy
  <2> QED
    BY <1>a, <2>1, RecordActionKeeps
<1>4. ASSUME NEW n \in Node, NEW o \in Outcome, PatchCordon(n, o)
      PROVE  Kept
  BY <1>4, <1>a, QuietStep
     DEF PatchCordon, fileVars, hookVars, histVars, PollBusy
<1>5. ASSUME NEW o \in Outcome, PatchTaint(o) PROVE Kept
  <2>1. /\ cur \in Node /\ ~CooldownActive(mem, cur) /\ pc' = "loop"
        /\ PollBusy /\ PollBusy'
        /\ UNCHANGED <<fileVars, hookVars, begun, acked>>
    BY <1>5 DEF PatchTaint, Shape, PollBusy
  <2>2. CASE o = "ok"
    <3>1. RecordAction(cur)
      BY <1>5, <2>2 DEF PatchTaint
    <3> QED
      BY <1>a, <2>1, <3>1, RecordActionKeeps
  <2>3. CASE o # "ok"
    <3>1. UNCHANGED <<mem, since, unsaved, excuse, early>>
      BY <1>5, <2>3 DEF PatchTaint
    <3> QED
      BY <1>a, <2>1, <3>1, QuietStep DEF hookVars
  <2> QED
    BY <2>2, <2>3
<1>6. CASE SaveOpen
  BY <1>6, <1>a, SaveKeeps
<1>7. CASE SaveWrite
  BY <1>7, <1>a, SaveKeeps
<1>8. CASE SaveReplace
  BY <1>8, <1>a, SaveKeeps
<1>9. ASSUME NEW c, CrashWhen(c) PROVE Kept
  <2>1. /\ pc' = "down" /\ mem' = {} /\ unsaved' = {}
        /\ excuse' = excuse \cup unsaved
        /\ UNCHANGED <<stateIno, tmpIno, data, wpc, wmem, wnode, begun, acked,
                       since, early>>
        /\ fd' = [fd EXCEPT !["controller"] = NoInode]
        /\ HookBusy' = HookBusy /\ LoadState' = LoadState /\ ~PollBusy'
    BY <1>9 DEF CrashWhen, CloseAll, hookVars, HookBusy, LoadState, PollBusy,
                Saving
  <2>2. fd'["webhook"] = fd["webhook"]
    BY <2>1, ProcAssumption DEF TypeOK, FileTypeOK
  <2>3. FileWhole'
    BY <1>a, <2>1, <2>2 DEF FileWhole
  <2>4. Remembered'
    BY <1>a, <2>1 DEF Remembered, Covers
  <2>5. Cleared'
    BY <1>a, <2>1 DEF Cleared, Fresh
  <2> QED
    BY <2>3, <2>4, <2>5
<1>10. CASE Restart
  BY <1>10, <1>a, QuietStep
     DEF Restart, fileVars, hookVars, histVars, PollBusy, Saving
<1>11. ASSUME NEW n \in Node, ConfirmBegin(n) PROVE Kept
  <2>1. /\ wnode' = n /\ wmem' = Without(LoadState, n)
        /\ wpc' = IF n \in Nodes(LoadState) THEN "open" ELSE "ack"
        /\ excuse' = excuse \cup {n} /\ begun' = begun + 1 /\ begun \in Nat
        /\ UNCHANGED <<fileVars, pc, mem, acked, since, unsaved, early>>
        /\ ~PollBusy /\ ~PollBusy' /\ LoadState' = LoadState
        /\ wpc = "idle"
    BY <1>11, <1>a
       DEF ConfirmBegin, ctlVars, fileVars, LoadState, PollBusy, TypeOK
  <2>2. unsaved = {}
    BY <2>1 DEF Shape, TypeOK, PollBusy, Saving
  <2>3. FileWhole'
    BY <1>a, <2>1 DEF FileWhole, fileVars
  <2>4. Remembered'
    <3>1. \A m : m # n /\ Covers(LoadState, m) => Covers(wmem, m)'
      BY <2>1 DEF Covers, Without
    <3>2. \A m : Covers(LoadState, m) => Covers(LoadState, m)'
      BY <2>1 DEF Covers
    <3> QED
      BY <1>a, <2>1, <2>2, <3>1, <3>2 DEF Remembered
  <2>5. Cleared'
    <3>1. \A e \in LoadState : e.epoch >= acked[e.node]
      BY <1>a DEF Cleared, Fresh
    <3>2. wpc' = "ack" => \A e \in LoadState : e.node # n
      BY <2>1 DEF Nodes
    <3>3. HookBusy' => wpc' # "ack"
      BY DEF HookBusy, Saving
    <3> QED
      BY <2>1, <3>1, <3>2, <3>3 DEF Cleared, Fresh, Without
  <2> QED
    BY <2>3, <2>4, <2>5
<1>12. CASE ConfirmOpen
  BY <1>12, <1>a, ConfirmSaveKeeps
<1>13. CASE ConfirmWrite
  BY <1>13, <1>a, ConfirmSaveKeeps
<1>14. CASE ConfirmReplace
  BY <1>14, <1>a, ConfirmSaveKeeps
<1>15. CASE ConfirmAck
  <2>1. /\ wpc = "ack" /\ wpc' = "idle"
        /\ acked' = [acked EXCEPT ![wnode] = begun]
        /\ UNCHANGED <<fileVars, pc, mem, since, unsaved, excuse, early>>
        /\ PollBusy' = PollBusy /\ LoadState' = LoadState
        /\ ~HookBusy'
    BY <1>15 DEF ConfirmAck, ctlVars, fileVars, LoadState, PollBusy, HookBusy,
                 Saving
  <2>2. FileWhole'
    BY <1>a, <2>1 DEF FileWhole, fileVars
  <2>3. Remembered'
    BY <1>a, <2>1 DEF Remembered, Covers
  <2>4. ASSUME NEW e \in Entry, Fresh(e) PROVE Fresh(e)'
    <3>1. e.node \in Node
      BY DEF Entry
    <3>2. CASE e.node = wnode
      BY <2>1, <2>4, <3>1, <3>2 DEF Fresh, TypeOK
    <3>3. CASE e.node # wnode
      BY <2>1, <2>4, <3>1, <3>3 DEF Fresh, TypeOK
    <3> QED
      BY <3>2, <3>3
  <2>5. LoadState \subseteq Entry /\ mem \subseteq Entry
    BY LoadStateType DEF TypeOK
  <2>6. Cleared'
    BY <1>a, <2>1, <2>4, <2>5 DEF Cleared
  <2> QED
    BY <2>2, <2>3, <2>6
<1>16. CASE ConfirmFails
  <2>1. /\ wpc' = "idle"
        /\ UNCHANGED <<stateIno, tmpIno, data, pc, mem, begun, acked, since,
                       unsaved, excuse, early>>
        /\ fd' = [fd EXCEPT !["webhook"] = NoInode]
        /\ PollBusy' = PollBusy /\ LoadState' = LoadState /\ ~HookBusy'
    BY <1>16 DEF ConfirmFails, CloseAll, ctlVars, histVars, LoadState,
                 PollBusy, HookBusy, Saving
  <2>2. fd'["controller"] = fd["controller"]
    BY <2>1, ProcAssumption DEF TypeOK, FileTypeOK
  <2>3. FileWhole'
    BY <1>a, <2>1, <2>2 DEF FileWhole
  <2>4. Remembered'
    BY <1>a, <2>1 DEF Remembered, Covers
  <2>5. Cleared'
    BY <1>a, <2>1 DEF Cleared, Fresh
  <2> QED
    BY <2>3, <2>4, <2>5
<1>17. CASE Tick
  BY <1>17, <1>a, TickKeeps
<1>18. CASE UNCHANGED vars
  <2>1. /\ UNCHANGED <<fileVars, pc, mem, wpc, wmem, wnode, begun, acked,
                       since, unsaved, excuse, early>>
        /\ PollBusy' = PollBusy /\ LoadState' = LoadState
        /\ HookBusy' = HookBusy
    BY <1>18 DEF vars, fileVars, ctlVars, hookVars, histVars, LoadState,
                 PollBusy, HookBusy
  <2> QED
    BY <1>a, <2>1 DEF FileWhole, Remembered, Cleared, Covers, Fresh, fileVars
<1> HIDE DEF Kept
<1> QED
  BY <1>1, <1>2, <1>3, <1>4, <1>5, <1>6, <1>7, <1>8, <1>9, <1>10, <1>11,
     <1>12, <1>13, <1>14, <1>15, <1>16, <1>17, <1>18
     DEF Next, Controller, Webhook, Crash, ReplaceFails

-----------------------------------------------------------------------------
(***************************************************************************)
(* The theorems                                                            *)
(***************************************************************************)

\* In every reachable state the invariant holds.
THEOREM Invariance == Spec => []IInv
<1>1. Init => IInv
  BY InitType, InitShape, InitActed, InitUndisturbed DEF IInv
<1>2. IInv /\ [Next]_vars => IInv'
  BY NextType, NextShape, NextActed, NextUndisturbed DEF IInv
<1> QED
  BY <1>1, <1>2, PTL DEF Spec

\* Every variable keeps its type, however the two programs interleave and
\* whichever of them dies.
THEOREM TypeCorrect == Spec => []TypeOK
<1>1. IInv => TypeOK
  BY DEF IInv
<1> QED
  BY <1>1, Invariance, PTL

\* No cooldown runs for a node that was not cordoned and tainted: the record
\* is written last (remediate_node), and nothing else makes one.
THEOREM NoCooldownWithoutAction == Spec => []CooldownOnlyIfActed
<1>1. IInv => CooldownOnlyIfActed
  BY DEF IInv, EntriesActed, Acted, CooldownOnlyIfActed
<1> QED
  BY <1>1, Invariance, PTL

\* The rename never puts a truncated file in the place of state.json
\* (_save_state), unless a poll overlapped a confirmation.
THEOREM StateStaysReadable == Spec => []StateReadable
<1>1. IInv => StateReadable
  BY DEF IInv, FileWhole, StateReadable
<1> QED
  BY <1>1, Invariance, PTL

\* No node is acted on twice within a cooldown (_cooldown_active), unless the
\* controller died before it saved, the operator confirmed the replacement or
\* a poll overlapped a confirmation.
THEOREM OncePerCooldown == Spec => []CooldownRespected
<1>1. IInv => CooldownRespected
  BY DEF IInv, Remembered, CooldownRespected
<1> QED
  BY <1>1, Invariance, PTL

\* What handle_replacement_confirmed removed stays removed, unless a poll
\* overlapped a confirmation.
THEOREM ConfirmedStaysCleared == Spec => []ConfirmationHolds
<1>1. IInv => ConfirmationHolds
  <2> SUFFICES ASSUME IInv, ~overlap, NEW n \in Node, NEW e \in LoadState,
                      e.node = n, e.epoch < acked[n]
               PROVE  FALSE
    BY DEF ConfirmationHolds, Resurrected
  <2>1. e.epoch >= acked[n]
    BY DEF IInv, Cleared, Fresh
  <2>2. e.epoch \in Int /\ acked[n] \in Int
    BY LoadStateType DEF IInv, TypeOK, Entry
  <2> QED
    BY <2>1, <2>2
<1> QED
  BY <1>1, Invariance, PTL

-----------------------------------------------------------------------------
(***************************************************************************)
(* One table                                                               *)
(***************************************************************************)

\* n has one entry in t.
OneEntry(t, n) == \E e \in t : e.node = n /\ \A f \in t : f.node = n => f = e

\* Until an overlap the copies are up to date with the file: the controller's
\* is what it loaded but for the nodes it acted on, which were not cooling
\* down, and the webhook's is the file without the confirmed node.
Current ==
  /\ PollBusy =>
       /\ \A n \in unsaved : ~CooldownActive(LoadState, n) /\ OneEntry(mem, n)
       /\ \A e \in mem : e.node \notin unsaved => e \in LoadState
       /\ \A e \in LoadState : e.node \notin unsaved => e \in mem
  /\ HookBusy => wmem = Without(LoadState, wnode)

\* Only the two renames and the clock change what is loaded.
LEMMA LoadedChanges ==
  ASSUME IInv, [Next]_vars, ~overlap
  PROVE  LoadState' = LoadState \/ SaveReplace \/ ConfirmReplace \/ Tick
<1>0. FileTypeOK(Entry) /\ Shape /\ FileWhole /\ Proc = {"controller", "webhook"}
  BY ProcAssumption DEF IInv, TypeOK
<1>1. ASSUME UNCHANGED <<stateIno, data>> PROVE LoadState' = LoadState
  BY <1>1 DEF LoadState
<1>2. ASSUME NEW p \in Proc, OpenTmp(p) PROVE LoadState' = LoadState
  BY <1>0, <1>2, OpenTmpFacts DEF Shape
<1>3. ASSUME SaveWrite PROVE LoadState' = LoadState
  <2>1. pc = "write" /\ WriteTmp("controller", mem)
    BY <1>3 DEF SaveWrite
  <2>2. tmpIno # NoInode /\ tmpIno # stateIno
        /\ fd["controller"] = tmpIno /\ data[tmpIno] = Garbage
    BY <1>0, <2>1 DEF FileWhole, Shape
  <2> QED
    BY <1>0, <2>1, <2>2, WriteTmpFacts
<1>4. ASSUME ConfirmWrite PROVE LoadState' = LoadState
  <2>1. wpc = "write" /\ WriteTmp("webhook", wmem)
    BY <1>4 DEF ConfirmWrite
  <2>2. tmpIno # NoInode /\ tmpIno # stateIno
        /\ fd["webhook"] = tmpIno /\ data[tmpIno] = Garbage
    BY <1>0, <2>1 DEF FileWhole, Shape
  <2> QED
    BY <1>0, <2>1, <2>2, WriteTmpFacts
<1>5. \/ UNCHANGED <<stateIno, data>>
      \/ SaveOpen \/ SaveWrite \/ SaveReplace
      \/ ConfirmOpen \/ ConfirmWrite \/ ConfirmReplace \/ Tick
  BY DEF Next, Controller, Webhook, PollBegin, SkipNode, DryRemediate,
         PatchCordon, PatchTaint, Crash, ReplaceFails, CrashWhen, CloseAll,
         Restart, ConfirmBegin, ConfirmAck, ConfirmFails, vars, fileVars
<1>6. SaveOpen \/ ConfirmOpen => LoadState' = LoadState
  BY <1>0, <1>2 DEF SaveOpen, ConfirmOpen
<1> QED
  BY <1>1, <1>3, <1>4, <1>5, <1>6

\* What the two renames and the clock make of it.
LEMMA LoadedBecomes ==
  ASSUME IInv, ~overlap
  PROVE  /\ SaveReplace => LoadState' = mem
         /\ ConfirmReplace => LoadState' = wmem
         /\ Tick => LoadState' = Older(LoadState)
<1>0. FileTypeOK(Entry) /\ Shape /\ FileWhole
  BY DEF IInv, TypeOK
<1>1. ASSUME SaveReplace PROVE LoadState' = mem
  <2>1. tmpIno # stateIno /\ data[tmpIno] = Json(mem) /\ ReplaceState
    BY <1>0, <1>1 DEF SaveReplace, FileWhole, Shape
  <2> QED
    BY <1>0, <2>1, ReplaceStateFacts DEF Json
<1>2. ASSUME ConfirmReplace PROVE LoadState' = wmem
  <2>1. tmpIno # stateIno /\ data[tmpIno] = Json(wmem) /\ ReplaceState
    BY <1>0, <1>2 DEF ConfirmReplace, FileWhole, Shape
  <2> QED
    BY <1>0, <2>1, ReplaceStateFacts DEF Json
<1>3. ASSUME Tick PROVE LoadState' = Older(LoadState)
  <2>1. \A i \in Inode : data'[i].table = Older(data[i].table)
    BY <1>0, <1>3 DEF Tick, FileTypeOK
  <2>2. Older({}) = {}
    BY DEF Older
  <2> QED
    BY <1>0, <1>3, <2>1, <2>2 DEF LoadState, Tick, FileTypeOK
<1> QED
  BY <1>1, <1>2, <1>3

\* An entry a tick later.
Aged(d) == [d EXCEPT !.age = IF @ < Cooldown THEN @ + 1 ELSE @]

LEMMA AgedFacts ==
  ASSUME NEW d \in Entry
  PROVE  /\ Aged(d).node = d.node
         /\ Aged(d).age < Cooldown => d.age < Cooldown
<1>1. d.age \in 0..Cooldown /\ d.node \in Node
  BY DEF Entry
<1>2. /\ Aged(d).node = d.node
      /\ Aged(d).age = IF d.age < Cooldown THEN d.age + 1 ELSE d.age
  BY DEF Aged, Entry
<1> QED
  BY <1>1, <1>2, CooldownAssumption

LEMMA OlderIs == \A t : Older(t) = {Aged(d) : d \in t}
  BY DEF Older, Aged

\* The clock changes no relation between two tables.
LEMMA AgeingKeeps ==
  ASSUME NEW t \in SUBSET Entry, NEW n
  PROVE  /\ CooldownActive(Older(t), n) => CooldownActive(t, n)
         /\ OneEntry(t, n) => OneEntry(Older(t), n)
         /\ Older(Without(t, n)) = Without(Older(t), n)
<1>1. Older(t) = {Aged(d) : d \in t} /\ Older(Without(t, n)) = {Aged(d) : d \in Without(t, n)}
  BY OlderIs
<1>2. \A d \in t : Aged(d).node = d.node /\ (Aged(d).age < Cooldown => d.age < Cooldown)
  BY AgedFacts
<1>3. CooldownActive(Older(t), n) => CooldownActive(t, n)
  BY <1>1, <1>2 DEF CooldownActive
<1>4. ASSUME OneEntry(t, n) PROVE OneEntry(Older(t), n)
  <2>1. PICK e \in t : e.node = n /\ \A f \in t : f.node = n => f = e
    BY <1>4 DEF OneEntry
  <2>2. Aged(e) \in Older(t) /\ Aged(e).node = n
    BY <1>1, <1>2, <2>1
  <2>3. ASSUME NEW g \in Older(t), g.node = n PROVE g = Aged(e)
    <3>1. PICK f \in t : g = Aged(f)
      BY <1>1
    <3>2. f = e
      BY <1>2, <2>1, <2>3, <3>1
    <3> QED
      BY <3>1, <3>2
  <2> QED
    BY <2>2, <2>3 DEF OneEntry
<1>5. \A d \in t : d.node # n <=> Aged(d).node # n
  BY <1>2
<1>6. Older(Without(t, n)) = Without(Older(t), n)
  BY <1>1, <1>5 DEF Without
<1> QED
  BY <1>3, <1>4, <1>6

\* Recording an action leaves the other nodes' entries in the copy alone.
LEMMA RecordCurrent ==
  ASSUME TypeOK, FileWhole, Current, NEW n \in Node, ~CooldownActive(mem, n),
         PollBusy, RecordAction(n), UNCHANGED <<fileVars, hookVars>>
  PROVE  Current'
<1>1. LoadState' = LoadState /\ ~HookBusy'
  BY DEF fileVars, hookVars, LoadState, FileWhole, HookBusy
<1>2. /\ mem' = Without(mem, n) \cup {NewEntry(n)}
      /\ unsaved' = unsaved \cup {n}
  BY DEF RecordAction
<1>3. NewEntry(n).node = n
  BY DEF NewEntry
<1>4. /\ \A m \in unsaved : ~CooldownActive(LoadState, m) /\ OneEntry(mem, m)
      /\ \A e \in mem : e.node \notin unsaved => e \in LoadState
      /\ \A e \in LoadState : e.node \notin unsaved => e \in mem
  BY DEF Current
<1>5. ~CooldownActive(LoadState, n)
  BY <1>4 DEF CooldownActive
<1>6. OneEntry(mem', n)
  BY <1>2, <1>3 DEF OneEntry, Without
<1>7. ASSUME NEW m \in unsaved, m # n PROVE OneEntry(mem', m)
  <2>1. \A e : e.node = m => (e \in mem' <=> e \in mem)
    BY <1>2, <1>3, <1>7 DEF Without
  <2> QED
    BY <1>4, <2>1 DEF OneEntry
<1>8. \A m \in unsaved' : ~CooldownActive(LoadState, m) /\ OneEntry(mem', m)
  BY <1>2, <1>4, <1>5, <1>6, <1>7
<1>9. /\ \A e \in mem' : e.node \notin unsaved' => e \in LoadState
      /\ \A e \in LoadState : e.node \notin unsaved' => e \in mem'
  BY <1>2, <1>3, <1>4 DEF Without
<1> QED
  BY <1>1, <1>8, <1>9 DEF Current, CooldownActive, OneEntry

\* Every step keeps the copies up to date until an overlap.
LEMMA NextCurrent ==
  ASSUME IInv, [Next]_vars, ~overlap', ~overlap => Current
  PROVE  Current'
<1>a. /\ ~overlap /\ TypeOK /\ Shape /\ FileWhole /\ Current
      /\ \A risk : PollBegin(risk) => ~HookBusy
      /\ \A n : ConfirmBegin(n) => ~PollBusy
  BY OverlapStays DEF IInv
<1>b. LoadState' = LoadState \/ SaveReplace \/ ConfirmReplace \/ Tick
  BY <1>a, LoadedChanges
<1>q. ASSUME UNCHANGED <<mem, unsaved, wmem, wnode>>, LoadState' = LoadState,
             PollBusy' => PollBusy, HookBusy' => HookBusy
      PROVE  Current'
  BY <1>a, <1>q DEF Current, CooldownActive, OneEntry, Without
<1>1. ASSUME NEW risk \in SUBSET Node, PollBegin(risk) PROVE Current'
  <2>1. /\ mem' = LoadState /\ unsaved' = {} /\ ~HookBusy' /\ LoadState' = LoadState
    BY <1>1, <1>a DEF PollBegin, hookVars, fileVars, HookBusy, LoadState
  <2> QED
    BY <2>1 DEF Current
<1>2. ASSUME NEW n \in Node, SkipNode(n) PROVE Current'
  BY <1>2, <1>q DEF SkipNode, fileVars, hookVars, histVars, PollBusy, HookBusy, LoadState
<1>3. ASSUME NEW n \in Node, DryRemediate(n) PROVE Current'
  BY <1>3, <1>a, RecordCurrent DEF DryRemediate, PollBusy
<1>4. ASSUME NEW n \in Node, NEW o \in Outcome, PatchCordon(n, o) PROVE Current'
  BY <1>4, <1>q DEF PatchCordon, fileVars, hookVars, histVars, PollBusy, HookBusy, LoadState
<1>5. ASSUME NEW o \in Outcome, PatchTaint(o) PROVE Current'
  <2>1. /\ cur \in Node /\ ~CooldownActive(mem, cur) /\ PollBusy /\ pc' = "loop"
        /\ UNCHANGED <<fileVars, hookVars>>
    BY <1>5, <1>a DEF PatchTaint, Shape, PollBusy
  <2>2. CASE o = "ok"
    BY <1>5, <1>a, <2>1, <2>2, RecordCurrent DEF PatchTaint
  <2>3. CASE o # "ok"
    BY <1>5, <1>q, <2>1, <2>3 DEF PatchTaint, fileVars, hookVars, HookBusy, LoadState
  <2> QED
    BY <2>2, <2>3
<1>6. ASSUME SaveOpen \/ SaveWrite PROVE Current'
  <2>1. ~SaveReplace /\ ~ConfirmReplace /\ ~Tick
    BY <1>6 DEF SaveOpen, SaveWrite, SaveReplace, ConfirmReplace, Tick, hookVars
  <2>2. /\ UNCHANGED <<mem, unsaved, wmem, wnode>>
        /\ PollBusy /\ HookBusy' = HookBusy
    BY <1>6 DEF SaveOpen, SaveWrite, hookVars, histVars, PollBusy, HookBusy, Saving
  <2> QED
    BY <1>b, <1>q, <2>1, <2>2
<1>7. CASE SaveReplace
  <2>1. PollBusy /\ ~PollBusy' /\ HookBusy' = HookBusy
    BY <1>7 DEF SaveReplace, PollBusy, HookBusy, Saving, hookVars
  <2> QED
    BY <1>a, <2>1 DEF Current, FileWhole
<1>8. ASSUME NEW c, CrashWhen(c) PROVE Current'
  <2>1. /\ ~PollBusy' /\ HookBusy' = HookBusy /\ LoadState' = LoadState
        /\ UNCHANGED <<wmem, wnode>>
    BY <1>8 DEF CrashWhen, CloseAll, hookVars, PollBusy, HookBusy, Saving, LoadState
  <2> QED
    BY <1>a, <2>1 DEF Current, Without
<1>9. CASE Restart
  BY <1>9, <1>q DEF Restart, fileVars, hookVars, histVars, PollBusy, HookBusy,
                    Saving, LoadState
<1>10. ASSUME NEW n \in Node, ConfirmBegin(n) PROVE Current'
  <2>1. /\ wmem' = Without(LoadState, n) /\ wnode' = n
        /\ ~PollBusy' /\ LoadState' = LoadState
    BY <1>10, <1>a DEF ConfirmBegin, ctlVars, fileVars, LoadState, PollBusy
  <2> QED
    BY <2>1 DEF Current, Without
<1>11. ASSUME ConfirmOpen \/ ConfirmWrite PROVE Current'
  <2>1. ~SaveReplace /\ ~ConfirmReplace /\ ~Tick
    BY <1>11 DEF ConfirmOpen, ConfirmWrite, SaveReplace, ConfirmReplace, Tick, ctlVars
  <2>2. /\ UNCHANGED <<mem, unsaved, wmem, wnode>>
        /\ PollBusy' = PollBusy /\ HookBusy
    BY <1>11 DEF ConfirmOpen, ConfirmWrite, ctlVars, histVars, PollBusy, HookBusy, Saving
  <2> QED
    BY <1>b, <1>q, <2>1, <2>2
<1>12. CASE ConfirmReplace
  <2>1. HookBusy /\ ~HookBusy' /\ PollBusy' = PollBusy
    BY <1>12 DEF ConfirmReplace, PollBusy, HookBusy, Saving, ctlVars
  <2> QED
    BY <1>a, <2>1 DEF Current, FileWhole
<1>13. ASSUME ConfirmAck \/ ConfirmFails PROVE Current'
  <2>1. /\ ~HookBusy' /\ PollBusy' = PollBusy /\ LoadState' = LoadState
        /\ UNCHANGED <<mem, unsaved>>
    BY <1>13 DEF ConfirmAck, ConfirmFails, CloseAll, fileVars, ctlVars, histVars,
                 PollBusy, HookBusy, Saving, LoadState
  <2> QED
    BY <1>a, <2>1 DEF Current, CooldownActive, OneEntry
<1>14. CASE Tick
  <2>1. /\ LoadState' = Older(LoadState) /\ LoadState \in SUBSET Entry
        /\ mem' = Older(mem) /\ mem \in SUBSET Entry
        /\ wmem' = Older(wmem)
        /\ UNCHANGED <<unsaved, wnode>>
        /\ PollBusy' = PollBusy /\ HookBusy' = HookBusy
    BY <1>14, <1>a, LoadedBecomes, LoadStateType DEF Tick, TypeOK, PollBusy, HookBusy
  <2>2. ASSUME PollBusy, NEW n \in unsaved
        PROVE  ~CooldownActive(Older(LoadState), n) /\ OneEntry(Older(mem), n)
    BY <1>a, <2>1, <2>2, AgeingKeeps DEF Current
  <2>3. /\ Older(mem) = {Aged(d) : d \in mem}
        /\ Older(LoadState) = {Aged(d) : d \in LoadState}
        /\ \A d \in mem \cup LoadState : Aged(d).node = d.node
    BY <2>1, OlderIs, AgedFacts
  <2>4. ASSUME PollBusy
        PROVE  /\ \A e \in Older(mem) : e.node \notin unsaved => e \in Older(LoadState)
               /\ \A e \in Older(LoadState) : e.node \notin unsaved => e \in Older(mem)
    BY <1>a, <2>3, <2>4 DEF Current
  <2>5. HookBusy => Older(wmem) = Without(Older(LoadState), wnode)
    BY <1>a, <2>1, AgeingKeeps DEF Current
  <2> QED
    BY <2>1, <2>2, <2>4, <2>5 DEF Current, CooldownActive, OneEntry, Without
<1>15. CASE UNCHANGED vars
  BY <1>15, <1>q DEF vars, fileVars, ctlVars, hookVars, histVars, PollBusy,
                     HookBusy, LoadState
<1> QED
  BY <1>1, <1>2, <1>3, <1>4, <1>5, <1>6, <1>7, <1>8, <1>9, <1>10, <1>11,
     <1>12, <1>13, <1>14, <1>15
     DEF Next, Controller, Webhook, Crash, ReplaceFails

\* Until a poll and a confirmation overlap, no copy of the table is stale
\* where it will be written back.
THEOREM CopiesCurrent == Spec => [](~overlap => Current)
<1>1. Init => (~overlap => Current)
  BY DEF Init, Current, PollBusy, HookBusy, Saving
<1>2. IInv /\ (~overlap => Current) /\ [Next]_vars => (~overlap => Current)'
  BY NextCurrent
<1> QED
  BY <1>1, <1>2, Invariance, PTL DEF Spec

\* Saving is a poll of the table that acted on the nodes recorded since the
\* load.
LEMMA SaveIsPoll ==
  ASSUME TypeOK, Current, PollBusy, LoadState' = mem
  PROVE  \E S \in SUBSET Node : Table!Poll(S)
<1>1. /\ \A n \in unsaved : ~CooldownActive(LoadState, n) /\ OneEntry(mem, n)
      /\ \A e \in mem : e.node \notin unsaved => e \in LoadState
      /\ \A e \in LoadState : e.node \notin unsaved => e \in mem
  BY DEF Current
<1>2. \A n \in unsaved : ~Table!CoolingDown(n)
  BY <1>1 DEF CooldownActive, Table!CoolingDown
<1>3. \A n \in unsaved : \E e \in LoadState' :
        e.node = n /\ \A f \in LoadState' : f.node = n => f = e
  BY <1>1 DEF OneEntry
<1>4. Table!Others(LoadState', unsaved) = Table!Others(LoadState, unsaved)
  BY <1>1 DEF Table!Others
<1>5. Table!Poll(unsaved)
  BY <1>2, <1>3, <1>4 DEF Table!Poll
<1> QED
  BY <1>5 DEF TypeOK

\* state.json is one table that polls and confirmations use one at a time,
\* for every set of nodes and every cooldown: load, copy, truncated temporary
\* file and rename of the two programs (_save_state), and a crash or a failed
\* call in any of these steps, come to one atomic change or to none, unless a
\* poll overlapped a confirmation.
THEOREM OneAtomicTable == Spec => TableIsAtomic
<1>1. Init => Table!TableInit
  BY DEF Init, FileInit, LoadState, Table!TableInit, NoInode
<1>2. ASSUME IInv, IInv', ~overlap => Current, [Next]_vars
      PROVE  [Table!TableNext]_Table!tableVars
  <2>1. CASE overlap'
    <3>1. overlap' = TRUE
      BY <1>2, <2>1 DEF IInv, TypeOK
    <3> QED
      BY <3>1 DEF Table!TableNext
  <2>2. CASE ~overlap'
    <3>1. ~overlap /\ overlap' = overlap
      BY <1>2, <2>2, OverlapStays DEF IInv, TypeOK
    <3>2. TypeOK /\ Current /\ Shape /\ (HookBusy => wmem = Without(LoadState, wnode))
      BY <1>2, <3>1 DEF IInv, Current
    <3>3. CASE SaveReplace
      <4>1. LoadState' = mem /\ PollBusy
        BY <1>2, <3>1, <3>3, LoadedBecomes DEF SaveReplace, PollBusy, Saving
      <4> QED
        BY <3>1, <3>2, <4>1, SaveIsPoll DEF Table!TableNext
    <3>4. CASE ConfirmReplace
      <4>1. LoadState' = wmem /\ HookBusy /\ wnode \in Node
        BY <1>2, <3>1, <3>2, <3>4, LoadedBecomes
           DEF ConfirmReplace, HookBusy, Saving, Shape
      <4>2. Without(LoadState, wnode) = Table!Others(LoadState, {wnode})
        BY DEF Without, Table!Others
      <4>3. Table!Confirm(wnode)
        BY <3>2, <4>1, <4>2 DEF Table!Confirm
      <4> QED
        BY <3>1, <4>1, <4>3 DEF Table!TableNext
    <3>5. CASE Tick
      <4>1. LoadState' = Older(LoadState)
        BY <1>2, <3>1, <3>5, LoadedBecomes
      <4>2. Table!Age
        BY <4>1 DEF Older, Table!Age
      <4> QED
        BY <3>1, <4>2 DEF Table!TableNext
    <3>6. CASE LoadState' = LoadState
      BY <3>1, <3>6 DEF Table!tableVars
    <3> QED
      BY <1>2, <3>1, <3>3, <3>4, <3>5, <3>6, LoadedChanges
  <2> QED
    BY <2>1, <2>2
<1> QED
  BY <1>1, <1>2, Invariance, CopiesCurrent, PTL
     DEF Spec, TableIsAtomic, Table!TableSpec
=============================================================================
