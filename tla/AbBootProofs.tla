---------------------------- MODULE AbBootProofs ----------------------------
(***************************************************************************)
(* Proofs about the environment of U-Boot: its variables stay within their *)
(* types, altbootcmd gives no slot up before the slot has used its tries,  *)
(* and a slot that was asked for is the one that is loaded, although two   *)
(* scripts may edit the environment at once and be cut off between any two *)
(* of their steps.                                                         *)
(***************************************************************************)
EXTENDS AbBoot, TLAPS

-----------------------------------------------------------------------------
(***************************************************************************)
(* The scripts                                                             *)
(***************************************************************************)

\* A step of a script: bootcount is only ever reset, bootlimit in its range.
State == {"active", "standby", "pending", "failed"}
Value == Int \cup Slot \cup State
Name == {"A", "B", "bootslot", "bootcount", "bootlimit", "BOOT_ORDER"} \cup Test

Step(var, val) ==
  /\ var \in Name /\ val \in Value
  /\ var = "bootcount" => val = 0
  /\ var = "bootlimit" => val \in 1..MaxLimit
  /\ var \in Slot => val \in State
  /\ var \in Test \cup {"bootslot", "BOOT_ORDER"} => val \in Slot

\* What every script keeps to: a slot is selected before the count is reset,
\* and once; a test comes last.
WellOrdered(s) ==
  /\ s \in Seq(Name \X Value) /\ Len(s) <= 3
  /\ \A i \in 1..Len(s) :
       /\ Step(s[i][1], s[i][2])
       /\ s[i][1] \in Test => i = Len(s)
       /\ s[i][1] = "bootslot" =>
            /\ \E j \in 1..Len(s) : j > i /\ s[j][1] = "bootcount"
            /\ \A j \in 1..Len(s) : j > i => s[j][1] # "bootslot"

\* Scripts of no, one, two and three steps.
LEMMA Script0 == WellOrdered(<<>>) /\ ~Unreset(<<>>)
BY DEF WellOrdered, Unreset

LEMMA Script1 ==
  ASSUME NEW v, NEW x, Step(v, x), v # "bootslot"
  PROVE  WellOrdered(<< <<v, x>> >>)
<1> DEFINE a == <<v, x>>
<1>1. a \in Name \X Value /\ a[1] = v /\ a[2] = x
  BY DEF Step
<1> HIDE DEF a
<1>2. <<a>> \in Seq(Name \X Value) /\ Len(<<a>>) = 1 /\ <<a>>[1] = a
  BY <1>1
<1>3. WellOrdered(<<a>>)
  BY <1>1, <1>2 DEF WellOrdered
<1> QED
  BY <1>3 DEF a

LEMMA Script2 ==
  ASSUME NEW v, NEW x, Step(v, x), v \notin Test,
         NEW w, NEW y, Step(w, y), w # "bootslot",
         v = "bootslot" => w = "bootcount"
  PROVE  WellOrdered(<< <<v, x>>, <<w, y>> >>)
<1> DEFINE a == <<v, x>>  b == <<w, y>>  s == <<a, b>>
<1>1. /\ a \in Name \X Value /\ a[1] = v /\ a[2] = x
      /\ b \in Name \X Value /\ b[1] = w /\ b[2] = y
  BY DEF Step
<1> HIDE DEF a, b
<1>2. s \in Seq(Name \X Value) /\ Len(s) = 2 /\ s[1] = a /\ s[2] = b
  BY <1>1
<1> HIDE DEF s
<1>3. WellOrdered(s)
  BY <1>1, <1>2 DEF WellOrdered
<1> QED
  BY <1>3 DEF s, a, b

LEMMA Script3 ==
  ASSUME NEW v, NEW x, Step(v, x), v \notin Test,
         NEW w, NEW y, Step(w, y), w \notin Test,
         NEW u, NEW z, Step(u, z), u # "bootslot",
         v = "bootslot" => w # "bootslot" /\ u = "bootcount",
         w = "bootslot" => u = "bootcount"
  PROVE  WellOrdered(<< <<v, x>>, <<w, y>>, <<u, z>> >>)
<1> DEFINE a == <<v, x>>  b == <<w, y>>  c == <<u, z>>  s == <<a, b, c>>
<1>1. /\ a \in Name \X Value /\ a[1] = v /\ a[2] = x
      /\ b \in Name \X Value /\ b[1] = w /\ b[2] = y
      /\ c \in Name \X Value /\ c[1] = u /\ c[2] = z
  BY DEF Step
<1> HIDE DEF a, b, c
<1>2. /\ s \in Seq(Name \X Value) /\ Len(s) = 3
      /\ s[1] = a /\ s[2] = b /\ s[3] = c
  BY <1>1
<1> HIDE DEF s
<1>3. WellOrdered(s)
  BY <1>1, <1>2 DEF WellOrdered
<1> QED
  BY <1>3 DEF s, a, b, c

\* The steps that occur.
LEMMA SlotStep ==
  ASSUME NEW p \in {"A", "B"}
  PROVE  /\ p \notin Test /\ p # "bootslot" /\ p # "bootcount"
         /\ Step(p, "pending") /\ Step(p, "active") /\ Step(p, "failed")
         /\ Step(p, "standby") /\ Step("bootslot", p) /\ Step("BOOT_ORDER", p)
         /\ Step("unless_failed", p) /\ Step("if_selected", p)
BY DEF Step, Name, Value, Test, Slot, State

LEMMA CountStep ==
  ASSUME NEW limit \in 1..MaxLimit
  PROVE  /\ Step("bootcount", 0) /\ Step("bootlimit", limit)
         /\ "bootslot" \notin Test /\ "bootcount" \notin Test
         /\ "bootlimit" \notin Test
BY MaxLimitAssumption DEF Step, Name, Value, Test, Slot

\* The scripts of ab-partition-setup.sh, uboot-bootcount-reset.sh and
\* rauc-post-install.sh are well ordered.
LEMMA ScriptsWellOrdered ==
  ASSUME NEW part \in Slot, NEW limit \in 1..MaxLimit
  PROVE  /\ WellOrdered(mode_mark_pending(part))
         /\ WellOrdered(mode_mark_active(part))
         /\ WellOrdered(mode_mark_failed(part))
         /\ WellOrdered(mode_switch(part))
         /\ WellOrdered(PostInstall(part))
         /\ WellOrdered(mode_set_bootlimit(limit))
         /\ WellOrdered(BootcountReset)
<1> DEFINE other == Other(part)
<1>1. part \in {"A", "B"} /\ other \in {"A", "B"}
  BY DEF Slot, Other
<1> HIDE DEF other
<1>2. DefaultLimit \in 1..MaxLimit
  BY MaxLimitAssumption DEF DefaultLimit
<1>3. WellOrdered(mode_mark_pending(part))
  BY <1>1, SlotStep, CountStep, Script3, Zenon DEF mode_mark_pending
<1>4. WellOrdered(<< <<part, "active">>, <<"bootcount", 0>>, <<"unless_failed", other>> >>)
  BY <1>1, SlotStep, CountStep, Script3, Zenon
<1>5. WellOrdered(mode_mark_failed(part))
  BY <1>1, SlotStep, Script2, Zenon DEF mode_mark_failed
<1>6. WellOrdered(<< <<"bootslot", other>>, <<other, "pending">>, <<"bootcount", 0>> >>)
  BY <1>1, SlotStep, CountStep, Script3, Zenon
<1>7. WellOrdered(PostInstall(part))
  BY <1>1, <1>2, SlotStep, CountStep, Script3, Zenon DEF PostInstall
<1>8. WellOrdered(mode_set_bootlimit(limit))
  BY CountStep, Script1, Zenon DEF mode_set_bootlimit
<1>9. WellOrdered(BootcountReset)
  BY CountStep, Script1, Zenon DEF BootcountReset
<1> QED
  BY <1>3, <1>4, <1>5, <1>6, <1>7, <1>8, <1>9
     DEF other, mode_mark_active, mode_switch

\* What is left of a script after its first step.
LEMMA TailOrdered ==
  ASSUME NEW s, WellOrdered(s), s # <<>>
  PROVE  /\ WellOrdered(Tail(s))
         /\ Step(Head(s)[1], Head(s)[2])
         /\ Head(s)[1] = "bootslot" => Unreset(Tail(s))
         /\ Head(s)[1] # "bootcount" /\ Unreset(s) => Unreset(Tail(s))
         /\ Head(s)[1] \in Test => ~Unreset(s)
<1>1. /\ s \in Seq(Name \X Value) /\ Len(s) \in Nat /\ Len(s) > 0
      /\ Head(s) = s[1] /\ DOMAIN s = 1..Len(s) /\ 1 \in 1..Len(s)
  BY DEF WellOrdered
<1>2. /\ Tail(s) \in Seq(Name \X Value) /\ Len(Tail(s)) = Len(s) - 1
      /\ DOMAIN Tail(s) = 1..(Len(s) - 1)
      /\ \A i \in 1..(Len(s) - 1) : Tail(s)[i] = s[i + 1]
  BY <1>1
<1>3. \A i \in 1..Len(s) :
        i # 1 => i - 1 \in 1..(Len(s) - 1) /\ Tail(s)[i - 1] = s[i]
  BY <1>1, <1>2
<1>4. Step(s[1][1], s[1][2])
  BY <1>1 DEF WellOrdered
<1>5. WellOrdered(Tail(s))
  <2>1. ASSUME NEW i \in 1..Len(Tail(s))
        PROVE  /\ Step(Tail(s)[i][1], Tail(s)[i][2])
               /\ Tail(s)[i][1] \in Test => i = Len(Tail(s))
               /\ Tail(s)[i][1] = "bootslot" =>
                    /\ \E j \in 1..Len(Tail(s)) : j > i /\ Tail(s)[j][1] = "bootcount"
                    /\ \A j \in 1..Len(Tail(s)) : j > i => Tail(s)[j][1] # "bootslot"
    <3>1. i + 1 \in 1..Len(s) /\ Tail(s)[i] = s[i + 1]
      BY <1>1, <1>2, <2>1
    <3>2. Step(s[i + 1][1], s[i + 1][2]) /\ (s[i + 1][1] \in Test => i + 1 = Len(s))
      BY <3>1 DEF WellOrdered
    <3>3. ASSUME s[i + 1][1] = "bootslot"
          PROVE  \E j \in 1..Len(Tail(s)) : j > i /\ Tail(s)[j][1] = "bootcount"
      <4>1. PICK j \in 1..Len(s) : j > i + 1 /\ s[j][1] = "bootcount"
        BY <3>1, <3>3 DEF WellOrdered
      <4>2. j - 1 \in 1..Len(Tail(s)) /\ j - 1 > i /\ Tail(s)[j - 1] = s[j]
        BY <1>1, <1>2, <1>3, <4>1
      <4> QED
        BY <4>1, <4>2
    <3>4. ASSUME s[i + 1][1] = "bootslot", NEW j \in 1..Len(Tail(s)), j > i
          PROVE  Tail(s)[j][1] # "bootslot"
      <4>1. j + 1 \in 1..Len(s) /\ j + 1 > i + 1 /\ Tail(s)[j] = s[j + 1]
        BY <1>1, <1>2, <3>4
      <4> QED
        BY <3>1, <3>4, <4>1 DEF WellOrdered
    <3>5. Tail(s)[i][1] \in Test => i = Len(Tail(s))
      <4>1. i \in Int /\ Len(Tail(s)) = Len(s) - 1 /\ Len(s) \in Int
        BY <1>1, <1>2, <2>1
      <4>2. \A a, b \in Int : a + 1 = b => a = b - 1
        OBVIOUS
      <4> QED
        BY <3>1, <3>2, <4>1, <4>2, Zenon
    <3> QED
      BY <3>1, <3>2, <3>3, <3>4, <3>5, Zenon
  <2>2. Len(Tail(s)) <= 3
    <3>1. Len(s) \in Nat /\ Len(s) <= 3 /\ Len(Tail(s)) = Len(s) - 1
      BY <1>1, <1>2 DEF WellOrdered
    <3>2. \A a \in Nat : \A b : a <= 3 /\ b = a - 1 => b <= 3
      OBVIOUS
    <3> QED
      BY <3>1, <3>2, Zenon
  <2> QED
    BY <1>2, <2>1, <2>2 DEF WellOrdered
<1>6. ASSUME s[1][1] = "bootslot" PROVE Unreset(Tail(s))
  <2>1. PICK j \in 1..Len(s) : j > 1 /\ s[j][1] = "bootcount"
    BY <1>1, <1>6 DEF WellOrdered
  <2>2. j - 1 \in DOMAIN Tail(s) /\ Tail(s)[j - 1][1] = "bootcount"
    BY <1>2, <1>3, <2>1
  <2>3. \A i \in DOMAIN Tail(s) : Tail(s)[i][1] # "bootslot"
    <3> TAKE i \in DOMAIN Tail(s)
    <3>1. i + 1 \in 1..Len(s) /\ i + 1 > 1 /\ Tail(s)[i] = s[i + 1]
      BY <1>1, <1>2
    <3>2. s[i + 1][1] # "bootslot"
      BY <1>1, <1>6, <3>1 DEF WellOrdered
    <3> QED
      BY <3>1, <3>2
  <2> QED
    BY <2>2, <2>3 DEF Unreset
<1>7. ASSUME s[1][1] # "bootcount", Unreset(s) PROVE Unreset(Tail(s))
  <2>1. PICK j \in 1..Len(s) : s[j][1] = "bootcount"
    BY <1>1, <1>7 DEF Unreset
  <2>2. j - 1 \in DOMAIN Tail(s) /\ Tail(s)[j - 1][1] = "bootcount"
    BY <1>2, <1>3, <1>7, <2>1
  <2>3. \A i \in DOMAIN Tail(s) : Tail(s)[i][1] # "bootslot"
    BY <1>1, <1>2, <1>7 DEF Unreset
  <2> QED
    BY <2>2, <2>3 DEF Unreset
<1>8. ASSUME s[1][1] \in Test PROVE ~Unreset(s)
  <2>1. DOMAIN s = {1}
    <3>1. Len(s) = 1
      BY <1>1, <1>8 DEF WellOrdered
    <3> QED
      BY <1>1, <3>1
  <2> QED
    BY <1>8, <2>1 DEF Unreset, Test
<1> QED
  BY <1>1, <1>4, <1>5, <1>6, <1>7, <1>8

\* What a test leaves to be done.
LEMMA AfterTestOrdered ==
  ASSUME NEW step, step[1] \in Test, step[2] \in Slot
  PROVE  WellOrdered(AfterTest(step))
<1>1. step[2] \in {"A", "B"} /\ Other(step[2]) \in {"A", "B"}
  BY DEF Slot, Other
<1>2. WellOrdered(<< <<step[2], "standby">> >>)
  BY <1>1, SlotStep, Script1, Zenon
<1>3. Step("bootcount", 0) /\ "bootslot" \notin Test
  <2>1. 1 \in 1..MaxLimit
    BY MaxLimitAssumption
  <2> QED
    BY <2>1, CountStep, Zenon
<1>4. WellOrdered(<< <<"bootslot", Other(step[2])>>, <<"bootcount", 0>> >>)
  BY <1>1, <1>3, SlotStep, Script2, Zenon
<1> QED
  BY <1>2, <1>4, Script0 DEF AfterTest, Test

-----------------------------------------------------------------------------
(***************************************************************************)
(* The invariant                                                           *)
(***************************************************************************)

\* bootcount exceeds the tries of the selected slot only after a script was
\* stopped between selecting the slot and resetting the count, or while a
\* script is there; scripts run under Linux only.
EarnedInv ==
  /\ bootcount \in Int /\ tries \in Int /\ bootlimit \in Int
  /\ bootslot \in Slot /\ running \in Slot
  /\ premature = FALSE
  /\ job = [p \in Process |-> job[p]]
  /\ \A p \in Process : WellOrdered(job[p])
  /\ mode # "linux" => \A p \in Process : job[p] = <<>>
  /\ bootcount <= tries \/ torn = TRUE \/ \E p \in Process : Unreset(job[p])

LEMMA EarnedInit == Init => EarnedInv
<1> SUFFICES ASSUME Init PROVE EarnedInv
  OBVIOUS
<1>1. /\ bootcount = 0 /\ tries = 0 /\ bootlimit = DefaultLimit
      /\ bootslot = "A" /\ running = "A" /\ premature = FALSE
      /\ job = [p \in Process |-> <<>>]
  BY DEF Init
<1>2. bootlimit \in Int /\ bootslot \in Slot /\ running \in Slot
  BY <1>1, MaxLimitAssumption DEF DefaultLimit, Slot
<1>3. \A p \in Process : job[p] = <<>>
  BY <1>1
<1> QED
  BY <1>1, <1>2, <1>3, Script0 DEF EarnedInv

\* U-Boot: no script is running, so what Exceeded(bootcount) says holds of
\* the tries.
LEMMA UbootEarned ==
  ASSUME EarnedInv, Uboot
  PROVE  EarnedInv'
<1>1. CASE UbootCount
  <2>1. /\ mode = "off" /\ bootcount' = bootcount + 1 /\ tries' = tries + 1
        /\ UNCHANGED <<bootslot, bootlimit, running, job, torn, premature>>
    BY <1>1 DEF UbootCount
  <2> QED
    BY <2>1 DEF EarnedInv
<1>2. CASE UbootBoot
  <2>1. /\ mode = "counted" /\ running' = bootslot
        /\ UNCHANGED <<bootcount, tries, bootslot, bootlimit, job, torn, premature>>
    BY <1>2 DEF UbootBoot, envVars
  <2> QED
    BY <2>1 DEF EarnedInv
<1>3. CASE UbootAltBoot
  <2>1. /\ mode = "counted" /\ Exceeded(bootcount) /\ running' = bootslot'
        /\ bootslot' = Other(bootslot) /\ bootcount' = 0 /\ tries' = 0
        /\ premature' = (premature \/ (~torn /\ ~Exceeded(tries)))
        /\ UNCHANGED <<bootlimit, job>>
    BY <1>3 DEF UbootAltBoot, ab_fallback
  <2>2. bootcount <= tries \/ torn = TRUE
    BY <2>1, Script0 DEF EarnedInv
  <2>3. bootcount <= tries => Exceeded(tries)
    BY <2>1 DEF Exceeded, EarnedInv
  <2>4. premature' = FALSE
    BY <2>1, <2>2, <2>3 DEF EarnedInv
  <2>5. bootslot' \in Slot
    BY <2>1 DEF Other, Slot
  <2> QED
    BY <2>1, <2>4, <2>5 DEF EarnedInv
<1>4. CASE Start
  <2>1. /\ mode = "loading"
        /\ UNCHANGED <<bootcount, tries, bootslot, bootlimit, running, job, torn,
                       premature>>
    BY <1>4 DEF Start, envVars, histVars
  <2> QED
    BY <2>1 DEF EarnedInv
<1> QED
  BY <1>1, <1>2, <1>3, <1>4 DEF Uboot

\* A script begins where none was running.
LEMMA BeginEarned ==
  ASSUME EarnedInv, NEW p \in Process, NEW script, WellOrdered(script),
         Begin(p, script), UNCHANGED <<mode, running>>
  PROVE  EarnedInv'
<1>1. /\ mode = "linux" /\ job[p] = <<>> /\ job' = [job EXCEPT ![p] = script]
      /\ UNCHANGED <<bootcount, tries, bootslot, bootlimit, torn, premature>>
  BY DEF Begin, envVars
<1>2. \A q \in Process : job'[q] = IF q = p THEN script ELSE job[q]
  BY <1>1 DEF EarnedInv
<1>3. job' = [q \in Process |-> job'[q]]
  BY <1>1 DEF EarnedInv
<1>4. (\E q \in Process : Unreset(job[q])) => \E q \in Process : Unreset(job'[q])
  BY <1>1, <1>2, Script0
<1> QED
  BY <1>1, <1>2, <1>3, <1>4 DEF EarnedInv

\* The scripts that are started are the ones above.
LEMMA AdministerEarned ==
  ASSUME EarnedInv, Confirm \/ Administer \/ \E good \in BOOLEAN : Install(good)
  PROVE  EarnedInv'
<1>1. "init" \in Process /\ "admin" \in Process /\ 1 \in 1..MaxLimit
  BY MaxLimitAssumption DEF Process
<1>3. ASSUME NEW p \in Process, NEW script, WellOrdered(script), Maintain(p, script)
      PROVE  EarnedInv'
  BY <1>3, BeginEarned DEF Maintain, machVars
<1>4. ASSUME NEW script, WellOrdered(script), NEW slot, Request(script, slot)
      PROVE  EarnedInv'
  BY <1>1, <1>4, BeginEarned DEF Request, machVars
<1>5. running \in Slot /\ bootslot \in Slot /\ Other(running) \in Slot
  BY DEF EarnedInv, Other, Slot
<1>6. CASE Confirm
  BY <1>1, <1>3, <1>5, <1>6, ScriptsWellOrdered DEF Confirm
<1>7. ASSUME NEW part \in Slot,
             \/ Request(mode_mark_pending(part), part)
             \/ Request(mode_mark_failed(part), NoSlot)
             \/ Maintain("admin", mode_mark_active(part))
      PROVE  EarnedInv'
  BY <1>1, <1>3, <1>4, <1>7, ScriptsWellOrdered
<1>8. CASE Request(mode_switch(bootslot), Other(bootslot))
  BY <1>1, <1>4, <1>5, <1>8, ScriptsWellOrdered
<1>9. ASSUME NEW limit \in 0..(MaxLimit + 1), SetLimit(limit)
      PROVE  EarnedInv'
  BY <1>1, <1>3, <1>5, <1>9, ScriptsWellOrdered DEF SetLimit
<1>10. ASSUME NEW good \in BOOLEAN, Install(good) PROVE EarnedInv'
  <2>1. WellOrdered(PostInstall(Other(running)))
    BY <1>1, <1>5, ScriptsWellOrdered
  <2> QED
    BY <1>1, <1>10, <2>1, BeginEarned DEF Install
<1> QED
  BY <1>6, <1>7, <1>8, <1>9, <1>10 DEF Administer

\* A step of a script: selecting a slot leaves the reset to be done.
LEMMA SetEnvEarned ==
  ASSUME EarnedInv, NEW p \in Process, SetEnv(p)
  PROVE  EarnedInv'
<1> DEFINE var == Head(job[p])[1]
           val == Head(job[p])[2]
<1>1. /\ mode = "linux" /\ job[p] # <<>> /\ var \notin Test
      /\ bootslot' = IF var = "bootslot" THEN val ELSE bootslot
      /\ bootcount' = IF var = "bootcount" THEN val ELSE bootcount
      /\ bootlimit' = IF var = "bootlimit" THEN val ELSE bootlimit
      /\ tries' = IF var = "bootcount" \/ bootslot' # bootslot THEN 0 ELSE tries
      /\ torn' = (torn /\ var # "bootcount")
      /\ job' = [job EXCEPT ![p] = Tail(@)]
      /\ UNCHANGED <<mode, running, premature>>
  BY DEF SetEnv, machVars
<1>2. \A q \in Process : job'[q] = IF q = p THEN Tail(job[p]) ELSE job[q]
  BY <1>1 DEF EarnedInv
<1>3. job' = [q \in Process |-> job'[q]]
  BY <1>1 DEF EarnedInv
<1>4. /\ WellOrdered(Tail(job[p])) /\ Step(var, val)
      /\ var = "bootslot" => Unreset(Tail(job[p]))
      /\ var # "bootcount" /\ Unreset(job[p]) => Unreset(Tail(job[p]))
  BY <1>1, TailOrdered DEF EarnedInv
<1> HIDE DEF var, val
<1>5. bootcount' \in Int /\ tries' \in Int /\ bootlimit' \in Int /\ bootslot' \in Slot
  BY <1>1, <1>4 DEF EarnedInv, Step
<1>6. bootcount' <= tries' \/ torn' = TRUE \/ \E q \in Process : Unreset(job'[q])
  <2>1. CASE var = "bootcount"
    BY <1>1, <1>4, <2>1 DEF Step
  <2>2. CASE var = "bootslot"
    BY <1>2, <1>4, <2>2
  <2>3. CASE var # "bootcount" /\ var # "bootslot"
    <3>1. UNCHANGED <<bootcount, tries>> /\ (torn = TRUE => torn' = TRUE)
      BY <1>1, <2>3
    <3>2. (\E q \in Process : Unreset(job[q])) => \E q \in Process : Unreset(job'[q])
      BY <1>2, <1>4, <2>3
    <3> QED
      BY <3>1, <3>2 DEF EarnedInv
  <2> QED
    BY <2>1, <2>2, <2>3
<1> QED
  BY <1>1, <1>2, <1>3, <1>4, <1>5, <1>6 DEF EarnedInv

\* A test is the last step of its script, which had no reset left.
LEMMA ReadEnvEarned ==
  ASSUME EarnedInv, NEW p \in Process, ReadEnv(p)
  PROVE  EarnedInv'
<1>1. /\ mode = "linux" /\ job[p] # <<>> /\ Head(job[p])[1] \in Test
      /\ job' = [job EXCEPT ![p] = AfterTest(Head(@))]
      /\ UNCHANGED <<bootcount, tries, bootslot, bootlimit, mode, running, torn,
                     premature>>
  BY DEF ReadEnv, envVars, machVars, histVars
<1>2. \A q \in Process :
        job'[q] = IF q = p THEN AfterTest(Head(job[p])) ELSE job[q]
  BY <1>1 DEF EarnedInv
<1>3. job' = [q \in Process |-> job'[q]]
  BY <1>1 DEF EarnedInv
<1>4. Step(Head(job[p])[1], Head(job[p])[2]) /\ ~Unreset(job[p])
  BY <1>1, TailOrdered DEF EarnedInv
<1>5. WellOrdered(AfterTest(Head(job[p])))
  BY <1>1, <1>4, AfterTestOrdered DEF Step
<1>6. (\E q \in Process : Unreset(job[q])) => \E q \in Process : Unreset(job'[q])
  BY <1>2, <1>4
<1> QED
  BY <1>1, <1>2, <1>3, <1>5, <1>6 DEF EarnedInv

\* A script that is stopped in between leaves its mark.
LEMMA DropEarned ==
  ASSUME EarnedInv, NEW ps \in SUBSET Process, Drop(ps),
         mode' # "linux" => ps = Process,
         UNCHANGED <<bootcount, tries, bootslot, bootlimit, running, premature>>
  PROVE  EarnedInv'
<1>1. /\ job' = [p \in Process |-> IF p \in ps THEN <<>> ELSE job[p]]
      /\ torn' = (torn \/ \E p \in ps : Unreset(job[p]))
  BY DEF Drop
<1>2. \A p \in Process : job'[p] = IF p \in ps THEN <<>> ELSE job[p]
  BY <1>1
<1>3. torn = TRUE \/ (\E p \in ps : Unreset(job[p])) => torn' = TRUE
  BY <1>1
<1>4. bootcount <= tries \/ torn' = TRUE \/ \E p \in Process : Unreset(job'[p])
  BY <1>2, <1>3 DEF EarnedInv
<1>5. job' = [p \in Process |-> job'[p]]
  BY <1>1
<1> QED
  BY <1>2, <1>4, <1>5, Script0 DEF EarnedInv

\* Every step keeps the invariant.
LEMMA EarnedStep == EarnedInv /\ [Next]_vars => EarnedInv'
<1> SUFFICES ASSUME EarnedInv, [Next]_vars PROVE EarnedInv'
  OBVIOUS
<1>1. ASSUME NEW p \in Process, SetEnv(p) \/ ReadEnv(p) \/ Abort(p)
      PROVE  EarnedInv'
  <2>1. CASE Abort(p)
    <3>1. /\ mode = "linux" /\ Drop({p}) /\ {p} \in SUBSET Process
          /\ UNCHANGED <<bootcount, tries, bootslot, bootlimit, mode, running, premature>>
      BY <2>1 DEF Abort, envVars, machVars
    <3> QED
      BY <3>1, DropEarned
  <2> QED
    BY <1>1, <2>1, SetEnvEarned, ReadEnvEarned
<1>2. CASE Cut
  <2>1. /\ Drop(Process) /\ Process \in SUBSET Process
        /\ UNCHANGED <<bootcount, tries, bootslot, bootlimit, running, premature>>
    BY <1>2 DEF Cut, envVars
  <2> QED
    BY <2>1, DropEarned
<1>3. CASE Reboot
  <2>1. /\ \A p \in Process : job[p] = <<>>
        /\ UNCHANGED <<bootcount, tries, bootslot, bootlimit, running, job, torn,
                       premature>>
    BY <1>3 DEF Reboot, envVars, histVars
  <2> QED
    BY <2>1 DEF EarnedInv
<1>4. CASE Reset
  <2>1. /\ mode = "stopped"
        /\ UNCHANGED <<bootcount, tries, bootslot, bootlimit, running, job, torn,
                       premature>>
    BY <1>4 DEF Reset, envVars, histVars
  <2> QED
    BY <2>1 DEF EarnedInv
<1>5. CASE UNCHANGED vars
  BY <1>5 DEF EarnedInv, vars, envVars, machVars, histVars
<1> QED
  BY <1>1, <1>2, <1>3, <1>4, <1>5, UbootEarned, AdministerEarned DEF Next

\* U-Boot's altbootcmd gives a slot up only after the slot has used its own
\* tries, for every bootlimit that --set-bootlimit accepts, either reading
\* of the limit, and any number of power failures - except after a script
\* that was stopped between selecting a slot and resetting the count.
THEOREM FallbackIsEarned == Spec => []FallbackEarned
<1>1. EarnedInv => FallbackEarned
  BY DEF EarnedInv, FallbackEarned
<1> QED
  BY <1>1, EarnedInit, EarnedStep, PTL DEF Spec
-----------------------------------------------------------------------------
(***************************************************************************)
(* Types                                                                   *)
(***************************************************************************)

\* bootcount passes the limit only while U-Boot has not looked at it, once
\* more with every power failure at that point.
CountInv ==
  /\ mode = "off" => bootcount <= MaxLimit + faults
  /\ mode = "counted" => bootcount <= MaxLimit + faults + 1
  /\ mode \in {"loading", "linux", "stopped"} => bootcount <= MaxLimit

LEMMA TypeInit == Init => TypeOK /\ CountInv
<1> SUFFICES ASSUME Init PROVE TypeOK /\ CountInv
  OBVIOUS
<1>1. bootlimit \in 1..MaxLimit
  BY MaxLimitAssumption DEF Init, DefaultLimit
<1>2. bootcount = 0 /\ faults = 0 /\ tries = 0 /\ MaxLimit \in Nat
      /\ bootcount \in 0..(MaxLimit + 1 + MaxFaults) /\ faults \in 0..MaxFaults
  BY MaxLimitAssumption, MaxFaultsAssumption DEF Init
<1>3. \A p \in Process : Len(job[p]) <= 3
  BY DEF Init
<1>4. /\ bootslot \in Slot /\ bootOrder \in Slot /\ running \in Slot
      /\ slotState \in [Slot -> {"active", "standby", "pending", "failed"}]
      /\ bootable \subseteq Slot
      /\ mode = "off" /\ torn \in BOOLEAN /\ premature \in BOOLEAN
      /\ wanted = NoSlot /\ installed = NoSlot
  BY DEF Init, Slot
<1> QED
  BY <1>1, <1>2, <1>3, <1>4 DEF TypeOK, CountInv

\* What the proof of the types needs of the scripts, and of nothing else.
LEMMA SetEnvType ==
  ASSUME TypeOK, CountInv, EarnedInv, NEW p \in Process, SetEnv(p)
  PROVE  /\ bootslot' \in Slot /\ bootOrder' \in Slot
         /\ slotState' \in [Slot -> {"active", "standby", "pending", "failed"}]
         /\ bootlimit' \in 1..MaxLimit
         /\ bootcount' \in 0..(MaxLimit + 1 + MaxFaults)
         /\ bootcount' <= MaxLimit
         /\ tries' \in Nat /\ torn' \in BOOLEAN
<1> DEFINE var == Head(job[p])[1]
           val == Head(job[p])[2]
<1>1. /\ mode = "linux" /\ job[p] # <<>>
      /\ bootslot' = IF var = "bootslot" THEN val ELSE bootslot
      /\ slotState' = [s \in Slot |-> IF s = var THEN val ELSE slotState[s]]
      /\ bootcount' = IF var = "bootcount" THEN val ELSE bootcount
      /\ bootlimit' = IF var = "bootlimit" THEN val ELSE bootlimit
      /\ bootOrder' = IF var = "BOOT_ORDER" THEN val ELSE bootOrder
      /\ tries' = IF var = "bootcount" \/ bootslot' # bootslot THEN 0 ELSE tries
      /\ torn' = (torn /\ var # "bootcount")
  BY DEF SetEnv
<1>2. Step(var, val)
  BY <1>1, TailOrdered DEF EarnedInv
<1> HIDE DEF var, val
<1>3. /\ bootslot' \in Slot /\ bootOrder' \in Slot
      /\ slotState' \in [Slot -> {"active", "standby", "pending", "failed"}]
      /\ bootlimit' \in 1..MaxLimit
  BY <1>1, <1>2 DEF TypeOK, Step, State
<1>4. /\ bootcount' \in 0..(MaxLimit + 1 + MaxFaults) /\ bootcount' <= MaxLimit
      /\ tries' \in Nat
  BY <1>1, <1>2, MaxLimitAssumption, MaxFaultsAssumption
     DEF TypeOK, CountInv, Step
<1>5. torn' \in BOOLEAN
  BY <1>1, Zenon DEF TypeOK
<1> QED
  BY <1>3, <1>4, <1>5

\* Every step keeps the types and the bound on bootcount.
LEMMA TypeStep ==
  TypeOK /\ CountInv /\ EarnedInv /\ [Next]_vars => TypeOK' /\ CountInv'
<1> SUFFICES ASSUME TypeOK, CountInv, EarnedInv, [Next]_vars
             PROVE  TypeOK' /\ CountInv'
  OBVIOUS
<1> USE MaxLimitAssumption, MaxFaultsAssumption
<1>0. /\ \A p \in Process : Len(job'[p]) <= 3
      /\ bootslot' \in Slot /\ running' \in Slot /\ premature' \in BOOLEAN
  BY EarnedStep DEF EarnedInv, WellOrdered
<1>1. CASE UbootCount
  BY <1>0, <1>1 DEF UbootCount, TypeOK, CountInv
<1>2. CASE UbootBoot
  <2>1. bootcount <= bootlimit
    BY <1>2 DEF UbootBoot, Exceeded, TypeOK
  <2> QED
    BY <1>0, <1>2, <2>1 DEF UbootBoot, envVars, TypeOK, CountInv
<1>3. CASE UbootAltBoot
  <2>1. /\ mode' = "loading" /\ bootcount' = 0 /\ tries' = 0 /\ torn' = FALSE
        /\ slotState' = [slotState EXCEPT ![bootslot] = "failed",
                                          ![Other(bootslot)] = "pending"]
        /\ wanted' = NoSlot /\ installed' = NoSlot
        /\ UNCHANGED <<bootlimit, bootOrder, bootable, faults>>
    BY <1>3 DEF UbootAltBoot, ab_fallback
  <2>2. slotState' \in [Slot -> {"active", "standby", "pending", "failed"}]
    BY <2>1 DEF TypeOK
  <2>3. bootcount' \in 0..(MaxLimit + 1 + MaxFaults) /\ bootcount' <= MaxLimit
    BY <2>1
  <2>4. torn' \in BOOLEAN /\ tries' \in Nat
    BY <2>1
  <2>5. CountInv'
    BY <2>1, <2>3 DEF CountInv
  <2>6. TypeOK'
    BY <1>0, <2>1, <2>2, <2>3, <2>4 DEF TypeOK
  <2> QED
    BY <2>5, <2>6
<1>4. CASE Start
  BY <1>0, <1>4 DEF Start, envVars, histVars, TypeOK, CountInv
<1>5. ASSUME NEW p, NEW script, Begin(p, script),
             UNCHANGED <<mode, running>>,
             bootable' \subseteq Slot,
             wanted' \in Slot \cup {NoSlot}, installed' \in Slot \cup {NoSlot}
      PROVE  TypeOK' /\ CountInv'
  BY <1>0, <1>5 DEF Begin, envVars, TypeOK, CountInv
<1>6. ASSUME NEW p, NEW script, Maintain(p, script)
      PROVE  TypeOK' /\ CountInv'
  BY <1>5, <1>6 DEF Maintain, machVars, TypeOK
<1>7. ASSUME NEW script, NEW slot \in Slot \cup {NoSlot}, Request(script, slot)
      PROVE  TypeOK' /\ CountInv'
  BY <1>5, <1>7 DEF Request, machVars, TypeOK
<1>8. CASE Confirm
  BY <1>6, <1>8 DEF Confirm
<1>9. CASE Administer
  <2>1. Other(bootslot) \in Slot
    BY DEF Other, Slot
  <2> QED
    BY <1>6, <1>7, <1>9, <2>1 DEF Administer, SetLimit
<1>10. ASSUME NEW good \in BOOLEAN, Install(good)
       PROVE  TypeOK' /\ CountInv'
  <2>1. Other(running) \in Slot
    BY DEF Other, Slot
  <2> QED
    BY <1>5, <1>10, <2>1 DEF Install, TypeOK
<1>11. ASSUME NEW p \in Process, SetEnv(p) PROVE TypeOK' /\ CountInv'
  <2>1. /\ mode = "linux"
        /\ UNCHANGED <<mode, running, bootable, faults, premature, wanted,
                       installed>>
    BY <1>11 DEF SetEnv, machVars
  <2> QED
    BY <1>0, <1>11, <2>1, SetEnvType DEF TypeOK, CountInv
<1>12. ASSUME NEW p \in Process, ReadEnv(p) PROVE TypeOK' /\ CountInv'
  BY <1>0, <1>12 DEF ReadEnv, envVars, machVars, histVars, TypeOK, CountInv
<1>13. ASSUME NEW p \in Process, Abort(p) PROVE TypeOK' /\ CountInv'
  <2>1. torn' \in BOOLEAN
    BY <1>13, Zenon DEF Abort, Drop, TypeOK
  <2>2. /\ mode = "linux" /\ faults' \in 0..MaxFaults
        /\ wanted' \in Slot \cup {NoSlot} /\ installed' \in Slot \cup {NoSlot}
        /\ UNCHANGED <<envVars, machVars, tries, premature>>
    BY <1>13 DEF Abort, TypeOK
  <2> QED
    BY <1>0, <2>1, <2>2 DEF TypeOK, CountInv, envVars, machVars
<1>14. CASE Cut
  <2>1. torn' \in BOOLEAN
    BY <1>14, Zenon DEF Cut, Drop, TypeOK
  <2>2. /\ mode' = "off" /\ faults' = faults + 1 /\ faults' \in 0..MaxFaults
        /\ wanted' \in Slot \cup {NoSlot} /\ installed' \in Slot \cup {NoSlot}
        /\ UNCHANGED <<envVars, running, bootable, tries, premature>>
    BY <1>14 DEF Cut, TypeOK
  <2>3. bootcount <= MaxLimit + faults + 1
    BY <1>14 DEF Cut, TypeOK, CountInv
  <2> QED
    BY <1>0, <2>1, <2>2, <2>3 DEF TypeOK, CountInv, envVars
<1>15. CASE Reboot
  BY <1>0, <1>15 DEF Reboot, envVars, histVars, TypeOK, CountInv
<1>16. CASE Reset
  BY <1>0, <1>16 DEF Reset, envVars, histVars, TypeOK, CountInv
<1>17. CASE UNCHANGED vars
  BY <1>0, <1>17 DEF vars, envVars, machVars, histVars, TypeOK, CountInv
<1> QED
  BY <1>1, <1>2, <1>3, <1>4, <1>8, <1>9, <1>10, <1>11, <1>12, <1>13, <1>14,
     <1>15, <1>16, <1>17 DEF Next, Uboot

\* Every variable keeps its type: bootlimit stays in the range that
\* --set-bootlimit checks, whatever scripts write it, and bootcount exceeds
\* it only by the power failures in U-Boot.
THEOREM TypeCorrect == Spec => []TypeOK
<1>1. Init => TypeOK /\ CountInv /\ EarnedInv
  BY TypeInit, EarnedInit
<1>2. TypeOK /\ CountInv /\ EarnedInv /\ [Next]_vars
        => TypeOK' /\ CountInv' /\ EarnedInv'
  BY TypeStep, EarnedStep
<1> QED
  BY <1>1, <1>2, PTL DEF Spec
-----------------------------------------------------------------------------
(***************************************************************************)
(* A request for a slot                                                    *)
(***************************************************************************)

\* The script still contains a step of that name; it selects no slot but this
\* one, unconditionally; it leaves the choice of the slot alone.
Has(s, name) == \E i \in 1..Len(s) : s[i][1] = name
Selecting(s, slot) ==
  \A i \in 1..Len(s) :
    /\ s[i][1] # "if_selected"
    /\ s[i][1] = "bootslot" => s[i][2] = slot
LeavesSlot(s) == \A i \in 1..Len(s) : s[i][1] \notin {"bootslot", "if_selected"}

\* What a step does to what is left of the script.
LEMMA TailSelecting ==
  ASSUME NEW s, WellOrdered(s), s # <<>>, NEW slot
  PROVE  /\ LeavesSlot(s) => LeavesSlot(Tail(s))
         /\ Selecting(s, slot) =>
              /\ Selecting(Tail(s), slot)
              /\ Head(s)[1] # "if_selected"
              /\ Head(s)[1] = "bootslot" => Head(s)[2] = slot
         /\ LeavesSlot(s) => Head(s)[1] \notin {"bootslot", "if_selected"}
         /\ \A name : Has(s, name) => Head(s)[1] = name \/ Has(Tail(s), name)
         /\ Head(s)[1] \in Test =>
              \A name \in {"bootslot", "bootcount"} : ~Has(s, name)
<1>1. /\ s \in Seq(Name \X Value) /\ Len(s) \in Nat /\ Len(s) > 0
      /\ Head(s) = s[1] /\ 1 \in 1..Len(s)
  BY DEF WellOrdered
<1>2. /\ Len(Tail(s)) = Len(s) - 1
      /\ \A i \in 1..(Len(s) - 1) : Tail(s)[i] = s[i + 1] /\ i + 1 \in 1..Len(s)
  BY <1>1
<1>3. \A i \in 1..Len(s) :
        i = 1 \/ (i - 1 \in 1..Len(Tail(s)) /\ Tail(s)[i - 1] = s[i])
  BY <1>1, <1>2
<1>4. LeavesSlot(s) =>
        LeavesSlot(Tail(s)) /\ Head(s)[1] \notin {"bootslot", "if_selected"}
  BY <1>1, <1>2 DEF LeavesSlot
<1>5. Selecting(s, slot) =>
        /\ Selecting(Tail(s), slot)
        /\ Head(s)[1] # "if_selected"
        /\ Head(s)[1] = "bootslot" => Head(s)[2] = slot
  BY <1>1, <1>2 DEF Selecting
<1>6. ASSUME NEW name, Has(s, name)
      PROVE  Head(s)[1] = name \/ Has(Tail(s), name)
  BY <1>1, <1>3, <1>6 DEF Has
<1>7. ASSUME Head(s)[1] \in Test, NEW name \in {"bootslot", "bootcount"}
      PROVE  ~Has(s, name)
  <2>1. Len(s) = 1
    BY <1>1, <1>7 DEF WellOrdered
  <2>2. \A i \in 1..Len(s) : s[i] = Head(s)
    BY <1>1, <2>1
  <2> QED
    BY <1>7, <2>2 DEF Has, Test
<1> QED
  BY <1>4, <1>5, <1>6, <1>7

\* A script that is done, has one step left, or has three.
LEMMA Leaves0 == LeavesSlot(<<>>) /\ \A slot : Selecting(<<>>, slot)
  BY DEF LeavesSlot, Selecting

LEMMA LeavesSelecting ==
  ASSUME NEW s, NEW slot, LeavesSlot(s) PROVE Selecting(s, slot)
  BY DEF LeavesSlot, Selecting

LEMMA Leaves1 ==
  ASSUME NEW v, NEW x, Step(v, x), v \notin {"bootslot", "if_selected"}
  PROVE  LeavesSlot(<< <<v, x>> >>)
<1> DEFINE a == <<v, x>>  s == <<a>>
<1>1. a \in Name \X Value /\ a[1] = v
  BY DEF Step
<1> HIDE DEF a
<1>2. s \in Seq(Name \X Value) /\ Len(s) = 1 /\ s[1] = a
  BY <1>1
<1> HIDE DEF s
<1>3. LeavesSlot(s)
  BY <1>1, <1>2 DEF LeavesSlot
<1> QED
  BY <1>3 DEF s, a

LEMMA Steps3 ==
  ASSUME NEW v, NEW x, Step(v, x), NEW w, NEW y, Step(w, y),
         NEW u, NEW z, Step(u, z), NEW slot,
         v # "if_selected", w # "if_selected", u # "if_selected",
         v = "bootslot" => x = slot,
         w = "bootslot" => y = slot,
         u # "bootslot"
  PROVE  /\ Selecting(<< <<v, x>>, <<w, y>>, <<u, z>> >>, slot)
         /\ Has(<< <<v, x>>, <<w, y>>, <<u, z>> >>, v)
         /\ Has(<< <<v, x>>, <<w, y>>, <<u, z>> >>, w)
         /\ Has(<< <<v, x>>, <<w, y>>, <<u, z>> >>, u)
         /\ v # "bootslot" /\ w # "bootslot" =>
              LeavesSlot(<< <<v, x>>, <<w, y>>, <<u, z>> >>)
<1> DEFINE a == <<v, x>>  b == <<w, y>>  c == <<u, z>>
           s == <<a, b, c>>
<1>1. /\ a \in Name \X Value /\ a[1] = v /\ a[2] = x
      /\ b \in Name \X Value /\ b[1] = w /\ b[2] = y
      /\ c \in Name \X Value /\ c[1] = u /\ c[2] = z
  BY DEF Step
<1> HIDE DEF a, b, c
<1>2. s \in Seq(Name \X Value) /\ Len(s) = 3 /\ s[1] = a /\ s[2] = b /\ s[3] = c
  BY <1>1
<1> HIDE DEF s
<1>3. v # "bootslot" /\ w # "bootslot" => LeavesSlot(s)
  BY <1>1, <1>2 DEF LeavesSlot
<1>4. Selecting(s, slot)
  BY <1>1, <1>2 DEF Selecting
<1>5. Has(s, v) /\ Has(s, w) /\ Has(s, u)
  BY <1>1, <1>2 DEF Has
<1> QED
  BY <1>3, <1>4, <1>5 DEF s, a, b, c

\* --mark-pending and --switch select one slot and reset the count;
\* --mark-active, --set-bootlimit and the reset leave the choice alone.
LEMMA ScriptsSelect ==
  ASSUME NEW part \in Slot
  PROVE  /\ Selecting(mode_mark_pending(part), part)
         /\ Has(mode_mark_pending(part), "bootslot")
         /\ Has(mode_mark_pending(part), "bootcount")
         /\ Selecting(mode_switch(part), Other(part))
         /\ Has(mode_switch(part), "bootslot")
         /\ Has(mode_switch(part), "bootcount")
         /\ LeavesSlot(mode_mark_active(part))
         /\ LeavesSlot(BootcountReset)
         /\ \A limit \in 1..MaxLimit : LeavesSlot(mode_set_bootlimit(limit))
<1> DEFINE other == Other(part)
<1>1. part \in {"A", "B"} /\ other \in {"A", "B"}
  BY DEF Slot, Other
<1> HIDE DEF other
<1>2. /\ part # "bootslot" /\ part # "if_selected"
      /\ other # "bootslot" /\ other # "if_selected"
      /\ "bootcount" # "bootslot" /\ "bootcount" # "if_selected"
      /\ "bootslot" # "if_selected"
      /\ "bootlimit" # "bootslot" /\ "bootlimit" # "if_selected"
      /\ \A v : v # "bootslot" /\ v # "if_selected"
               => v \notin {"bootslot", "if_selected"}
      /\ "unless_failed" # "bootslot" /\ "unless_failed" # "if_selected"
  BY <1>1
<1>c. 1 \in 1..MaxLimit /\ Step("bootcount", 0)
  <2>1. 1 \in 1..MaxLimit
    BY MaxLimitAssumption
  <2> QED
    BY <2>1, CountStep
<1>3. /\ Selecting(mode_mark_pending(part), part)
      /\ Has(mode_mark_pending(part), "bootslot")
      /\ Has(mode_mark_pending(part), "bootcount")
  BY <1>1, <1>2, <1>c, SlotStep, Steps3, Zenon DEF mode_mark_pending
<1> DEFINE switch == << <<"bootslot", other>>, <<other, "pending">>,
                        <<"bootcount", 0>> >>
<1>4. /\ Selecting(switch, other)
      /\ Has(switch, "bootslot") /\ Has(switch, "bootcount")
  BY <1>1, <1>2, <1>c, SlotStep, Steps3, Zenon
<1>5. LeavesSlot(<< <<part, "active">>, <<"bootcount", 0>>,
                    <<"unless_failed", other>> >>)
  BY <1>1, <1>2, <1>c, SlotStep, Steps3, Zenon
<1>6. /\ LeavesSlot(BootcountReset)
      /\ \A limit \in 1..MaxLimit : LeavesSlot(mode_set_bootlimit(limit))
  BY <1>2, <1>c, CountStep, Leaves1, Zenon DEF BootcountReset, mode_set_bootlimit
<1> QED
  BY <1>3, <1>4, <1>5, <1>6 DEF other, mode_switch, mode_mark_active

\* Until the machine has started a slot for it, a request keeps to its slot:
\* what the administrator's script has not written yet it still contains, no
\* other script chooses a slot, and the count is new.
RequestInv ==
  /\ LeavesSlot(job["init"])
  /\ wanted # NoSlot =>
       /\ mode \in {"off", "counted", "linux"}
       /\ Selecting(job["admin"], wanted)
       /\ bootslot = wanted \/ Has(job["admin"], "bootslot")
       /\ mode = "off" => bootcount = 0
       /\ mode = "counted" => bootcount = 1
       /\ mode = "linux" => bootcount = 0 \/ Has(job["admin"], "bootcount")

\* Without a script nothing is left to be written.
LEMMA NothingLeft == LeavesSlot(<<>>) /\ \A name : ~Has(<<>>, name)
  BY DEF LeavesSlot, Has

LEMMA RequestInit == Init => RequestInv
  BY NothingLeft DEF Init, RequestInv, Process

\* Every step keeps it.
LEMMA RequestStep ==
  TypeOK /\ EarnedInv /\ RequestInv /\ [Next]_vars => RequestInv'
<1> SUFFICES ASSUME TypeOK, EarnedInv, RequestInv, [Next]_vars
             PROVE  RequestInv'
  OBVIOUS
<1>0. /\ "init" \in Process /\ "admin" \in Process /\ "init" # "admin"
      /\ \A p \in Process : p = "init" \/ p = "admin"
      /\ job = [p \in Process |-> job[p]]
      /\ WellOrdered(job["init"]) /\ WellOrdered(job["admin"])
      /\ mode # "linux" => job["init"] = <<>> /\ job["admin"] = <<>>
  BY DEF Process, EarnedInv
<1>1. CASE UbootCount
  <2>1. /\ mode = "off" /\ mode' = "counted" /\ bootcount' = bootcount + 1
        /\ UNCHANGED <<bootslot, job, wanted>>
    BY <1>1 DEF UbootCount
  <2> QED
    BY <2>1 DEF RequestInv
<1>2. CASE UbootBoot \/ UbootAltBoot
  <2>1. wanted' = NoSlot /\ job' = job
    BY <1>2 DEF UbootBoot, UbootAltBoot
  <2> QED
    BY <2>1 DEF RequestInv
<1>3. CASE Start
  <2>1. mode = "loading" /\ UNCHANGED <<wanted, job>>
    BY <1>3 DEF Start, histVars
  <2> QED
    BY <2>1 DEF RequestInv
<1>4. ASSUME NEW p \in Process, NEW script, Begin(p, script),
             UNCHANGED mode
      PROVE  /\ mode = "linux" /\ mode' = "linux"
             /\ job[p] = <<>> /\ job'[p] = script
             /\ \A q \in Process : q # p => job'[q] = job[q]
             /\ UNCHANGED <<bootslot, bootcount>>
  BY <1>0, <1>4 DEF Begin, envVars
<1>5. ASSUME NEW p \in Process, NEW script, LeavesSlot(script),
             Maintain(p, script)
      PROVE  RequestInv'
  <2>1. /\ mode = "linux" /\ mode' = "linux"
        /\ job[p] = <<>> /\ job'[p] = script
        /\ \A q \in Process : q # p => job'[q] = job[q]
        /\ UNCHANGED <<bootslot, bootcount, wanted>>
    BY <1>4, <1>5 DEF Maintain, machVars
  <2>2. \A slot : Selecting(script, slot)
    BY <1>5, LeavesSelecting
  <2>3. CASE p = "init"
    <3>1. job'["init"] = script /\ job'["admin"] = job["admin"]
      BY <1>0, <2>1, <2>3
    <3> QED
      BY <1>5, <2>1, <3>1 DEF RequestInv
  <2>4. CASE p = "admin"
    <3>1. job'["init"] = job["init"] /\ job'["admin"] = script
          /\ job["admin"] = <<>>
      BY <1>0, <2>1, <2>4
    <3>2. wanted # NoSlot => bootslot = wanted /\ bootcount = 0
      BY <2>1, <3>1, NothingLeft DEF RequestInv
    <3> QED
      BY <2>1, <2>2, <3>1, <3>2 DEF RequestInv
  <2> QED
    BY <1>0, <2>3, <2>4
<1>6. ASSUME NEW script, NEW slot, Request(script, slot),
             slot = NoSlot \/ /\ Selecting(script, slot)
                              /\ Has(script, "bootslot")
                              /\ Has(script, "bootcount")
      PROVE  RequestInv'
  <2>1. /\ mode' = "linux" /\ wanted' = slot
        /\ job'["admin"] = script /\ job'["init"] = job["init"]
    BY <1>0, <1>4, <1>6 DEF Request, machVars
  <2> QED
    BY <1>6, <2>1 DEF RequestInv
<1>7. running \in Slot /\ bootslot \in Slot
  BY DEF TypeOK
<1>8. CASE Confirm
  BY <1>0, <1>5, <1>7, <1>8, ScriptsSelect DEF Confirm
<1>9. CASE Administer
  <2>1. ASSUME NEW part \in Slot,
               \/ Request(mode_mark_pending(part), part)
               \/ Request(mode_mark_failed(part), NoSlot)
               \/ Maintain("admin", mode_mark_active(part))
        PROVE  RequestInv'
    BY <1>0, <1>5, <1>6, <2>1, ScriptsSelect
  <2>2. CASE Request(mode_switch(bootslot), Other(bootslot))
    BY <1>6, <1>7, <2>2, ScriptsSelect
  <2>3. ASSUME NEW limit \in 0..(MaxLimit + 1), SetLimit(limit)
        PROVE  RequestInv'
    BY <1>0, <1>5, <1>7, <2>3, ScriptsSelect DEF SetLimit
  <2> QED
    BY <1>9, <2>1, <2>2, <2>3 DEF Administer
<1>10. ASSUME NEW good \in BOOLEAN, Install(good) PROVE RequestInv'
  <2>1. wanted' = NoSlot /\ job'["init"] = job["init"]
    BY <1>0, <1>4, <1>10 DEF Install
  <2> QED
    BY <2>1 DEF RequestInv
<1>11. ASSUME NEW p \in Process, SetEnv(p) PROVE RequestInv'
  <2> DEFINE s == job[p]
             var == Head(s)[1]
             val == Head(s)[2]
  <2>1. /\ mode = "linux" /\ mode' = mode /\ wanted' = wanted /\ s # <<>>
        /\ bootslot' = IF var = "bootslot" THEN val ELSE bootslot
        /\ bootcount' = IF var = "bootcount" THEN val ELSE bootcount
        /\ job'[p] = Tail(s)
        /\ \A q \in Process : q # p => job'[q] = job[q]
    BY <1>0, <1>11 DEF SetEnv, machVars
  <2>2. /\ WellOrdered(s) /\ Step(var, val)
        /\ LeavesSlot(s) => LeavesSlot(Tail(s)) /\ var # "bootslot"
        /\ \A slot : Selecting(s, slot) =>
             Selecting(Tail(s), slot) /\ (var = "bootslot" => val = slot)
        /\ \A name : Has(s, name) => var = name \/ Has(Tail(s), name)
    <3>1. WellOrdered(s)
      BY DEF EarnedInv
    <3> QED
      BY <2>1, <3>1, TailOrdered, TailSelecting
  <2> HIDE DEF s, var, val
  <2>3. var = "bootcount" => bootcount' = 0
    BY <2>1, <2>2 DEF Step
  <2>4. CASE p = "init"
    <3>1. job'["init"] = Tail(s) /\ job'["admin"] = job["admin"]
          /\ LeavesSlot(s)
      BY <1>0, <2>1, <2>4 DEF s, RequestInv
    <3>2. bootslot' = bootslot /\ (bootcount' = bootcount \/ bootcount' = 0)
      BY <2>1, <2>2, <2>3, <3>1
    <3> QED
      BY <2>1, <2>2, <3>1, <3>2 DEF RequestInv
  <2>5. CASE p = "admin"
    <3>1. job'["init"] = job["init"] /\ job'["admin"] = Tail(s)
          /\ s = job["admin"]
      BY <1>0, <2>1, <2>5 DEF s
    <3>2. ASSUME wanted # NoSlot
          PROVE  /\ Selecting(Tail(s), wanted)
                 /\ bootslot' = wanted \/ Has(Tail(s), "bootslot")
                 /\ bootcount' = 0 \/ Has(Tail(s), "bootcount")
      <4>1. Selecting(s, wanted) /\ (bootslot = wanted \/ Has(s, "bootslot"))
            /\ (bootcount = 0 \/ Has(s, "bootcount"))
        BY <2>1, <3>1, <3>2 DEF RequestInv
      <4>2. var = "bootslot" => bootslot' = wanted
        BY <2>1, <2>2, <4>1
      <4> QED
        BY <2>1, <2>2, <2>3, <4>1, <4>2
    <3> QED
      BY <2>1, <3>1, <3>2 DEF RequestInv
  <2> QED
    BY <1>0, <2>4, <2>5
<1>12. ASSUME NEW p \in Process, ReadEnv(p) PROVE RequestInv'
  <2> DEFINE s == job[p]
  <2>1. /\ mode = "linux" /\ mode' = mode /\ wanted' = wanted /\ s # <<>>
        /\ UNCHANGED <<bootslot, bootcount>>
        /\ Head(s)[1] \in Test
        /\ job'[p] = AfterTest(Head(s))
        /\ \A q \in Process : q # p => job'[q] = job[q]
    BY <1>0, <1>12 DEF ReadEnv, envVars, machVars, histVars
  <2>2. WellOrdered(s)
    BY DEF EarnedInv
  <2>3. /\ Step(Head(s)[1], Head(s)[2])
        /\ LeavesSlot(s) => Head(s)[1] # "if_selected"
        /\ \A slot : Selecting(s, slot) => Head(s)[1] # "if_selected"
        /\ ~Has(s, "bootslot") /\ ~Has(s, "bootcount")
    BY <2>1, <2>2, TailOrdered, TailSelecting
  <2>4. ASSUME Head(s)[1] # "if_selected"
        PROVE  LeavesSlot(AfterTest(Head(s)))
    <3>1. Head(s)[1] = "unless_failed" /\ Head(s)[2] \in {"A", "B"}
      BY <2>1, <2>3, <2>4 DEF Test, Step, Slot
    <3>2. LeavesSlot(<< <<Head(s)[2], "standby">> >>)
      BY <3>1, SlotStep, Leaves1
    <3> QED
      BY <3>1, <3>2, NothingLeft DEF AfterTest
  <2> HIDE DEF s
  <2>5. CASE p = "init"
    <3>1. /\ job'["init"] = AfterTest(Head(s)) /\ job'["admin"] = job["admin"]
          /\ LeavesSlot(s)
      BY <1>0, <2>1, <2>5 DEF s, RequestInv
    <3> QED
      BY <2>1, <2>3, <2>4, <3>1 DEF RequestInv
  <2>6. CASE p = "admin"
    <3>1. job'["init"] = job["init"] /\ job'["admin"] = AfterTest(Head(s))
          /\ s = job["admin"]
      BY <1>0, <2>1, <2>6 DEF s
    <3>2. ASSUME wanted # NoSlot
          PROVE  /\ Selecting(AfterTest(Head(s)), wanted)
                 /\ bootslot = wanted /\ bootcount = 0
      <4>1. Selecting(s, wanted) /\ bootslot = wanted /\ bootcount = 0
        BY <2>1, <2>3, <3>1, <3>2 DEF RequestInv
      <4> QED
        BY <2>3, <2>4, <4>1, LeavesSelecting
    <3> QED
      BY <2>1, <3>1, <3>2 DEF RequestInv
  <2> QED
    BY <1>0, <2>5, <2>6
<1>13. ASSUME NEW ps \in SUBSET Process, Drop(ps),
              "admin" \in ps => wanted' = NoSlot \/ job["admin"] = <<>>,
              wanted' = wanted \/ wanted' = NoSlot,
              mode' = mode \/ mode' = "off",
              wanted' # NoSlot => mode = "linux",
              mode' # "linux" => wanted' = NoSlot \/ job["admin"] = <<>>,
              UNCHANGED <<bootslot, bootcount>>
       PROVE  RequestInv'
  <2>1. \A q \in Process : job'[q] = IF q \in ps THEN <<>> ELSE job[q]
    BY <1>13 DEF Drop
  <2>2. LeavesSlot(job'["init"])
    BY <1>0, <2>1, NothingLeft DEF RequestInv
  <2>3. wanted' # NoSlot => job'["admin"] = job["admin"]
    BY <1>0, <1>13, <2>1
  <2>4. wanted' # NoSlot /\ mode' = "off" => bootcount = 0
    BY <1>13, NothingLeft DEF RequestInv
  <2> QED
    BY <1>13, <2>2, <2>3, <2>4 DEF RequestInv
<1>14. ASSUME NEW p \in Process, Abort(p) PROVE RequestInv'
  <2>1. /\ mode = "linux" /\ Drop({p}) /\ {p} \in SUBSET Process
        /\ wanted' = IF p = "admin" THEN NoSlot ELSE wanted
        /\ UNCHANGED <<bootslot, bootcount, mode>>
    BY <1>14 DEF Abort, envVars, machVars
  <2>2. "admin" \in {p} => wanted' = NoSlot
    BY <2>1
  <2> QED
    BY <1>13, <2>1, <2>2
<1>15. CASE Cut
  <2>1. /\ Drop(Process) /\ mode' = "off"
        /\ wanted' = IF mode = "linux" /\ job["admin"] = <<>> THEN wanted
                                                              ELSE NoSlot
        /\ UNCHANGED <<bootslot, bootcount>>
    BY <1>15 DEF Cut, envVars
  <2> QED
    BY <1>13, <2>1
<1>16. CASE Reboot
  <2>1. /\ mode = "linux" /\ mode' = "off" /\ job["admin"] = <<>>
        /\ UNCHANGED <<bootslot, bootcount, job, wanted>>
    BY <1>0, <1>16 DEF Reboot, envVars, histVars
  <2> QED
    BY <2>1, NothingLeft DEF RequestInv
<1>17. CASE Reset
  <2>1. mode = "stopped" /\ UNCHANGED <<wanted, job>>
    BY <1>17 DEF Reset, histVars
  <2> QED
    BY <2>1 DEF RequestInv
<1>18. CASE UNCHANGED vars
  BY <1>18 DEF RequestInv, vars, envVars, machVars, histVars
<1> QED
  BY <1>1, <1>2, <1>3, <1>8, <1>9, <1>10, <1>11, <1>12, <1>14, <1>15, <1>16,
     <1>17, <1>18 DEF Next, Uboot

\* The slot that --mark-pending or --switch asked for is the one the next
\* boot starts, whatever init's confirmation writes at the same time: U-Boot
\* finds a count of one, and that is a fallback only at a bootlimit of one.
THEOREM RequestsAreHonoured == Spec => RequestHonoured
<1>1. Init => TypeOK /\ CountInv /\ EarnedInv /\ RequestInv
  BY TypeInit, EarnedInit, RequestInit
<1>2. TypeOK /\ CountInv /\ EarnedInv /\ RequestInv /\ [Next]_vars
        => TypeOK' /\ CountInv' /\ EarnedInv' /\ RequestInv'
  BY TypeStep, EarnedStep, RequestStep
<1>3. TypeOK /\ EarnedInv /\ RequestInv /\ [Next]_vars
        => [mode = "counted" /\ mode' = "loading" /\ wanted # NoSlot
              /\ (AtLimit => bootlimit > 1)
            => running' = wanted]_vars
  <2> SUFFICES ASSUME TypeOK, EarnedInv, RequestInv, Next,
                      mode = "counted", mode' = "loading", wanted # NoSlot,
                      AtLimit => bootlimit > 1
               PROVE  running' = wanted
    BY DEF vars, machVars
  <2>1. UbootBoot \/ UbootAltBoot
    BY DEF Next, Uboot, UbootCount, Start, Confirm, Administer, Request,
           Maintain, SetLimit, Begin, Install, SetEnv, ReadEnv, Abort, Cut,
           Reset, Reboot
  <2>2. bootcount = 1 /\ bootslot = wanted
    BY NothingLeft DEF RequestInv, EarnedInv, Process
  <2>3. ~Exceeded(bootcount)
    BY <2>2 DEF Exceeded, TypeOK
  <2> QED
    BY <2>1, <2>2, <2>3 DEF UbootBoot, UbootAltBoot
<1> QED
  BY <1>1, <1>2, <1>3, PTL DEF Spec, RequestHonoured
=============================================================================
