------------------------------- MODULE AbBoot -------------------------------
(***************************************************************************)
(* A/B slot failover of boot-resilience/ and ota-updates/: U-Boot runs the *)
(* commands of uboot-bootcount.env against its saved environment, and the  *)
(* Linux side edits the same environment with ab-partition-setup.sh,       *)
(* uboot-bootcount-reset.sh and rauc-post-install.sh.  A script is a list  *)
(* of fw_setenv calls, each atomic (fw_setenv takes a lock and rewrites    *)
(* the environment); two scripts may run at once and the power may fail    *)
(* between any two steps.                                                  *)
(***************************************************************************)
EXTENDS Integers, Sequences

CONSTANTS
  MaxLimit,   \* largest bootlimit --set-bootlimit accepts (10 in the code)
  AtLimit,    \* TRUE: altbootcmd runs at bootcount >= bootlimit, as the
              \* repository says; FALSE: at bootcount > bootlimit
  MaxFaults   \* bound of the model: power failures and failed writes

ASSUME MaxLimitAssumption == MaxLimit \in Nat \ {0}
ASSUME AtLimitAssumption == AtLimit \in BOOLEAN
ASSUME MaxFaultsAssumption == MaxFaults \in Nat

VARIABLES
  \* The saved environment.
  bootslot, slotState, bootcount, bootlimit,
  bootOrder,  \* first slot of BOOT_ORDER
  \* The machine.
  mode,       \* "off", "counted" and "loading" (U-Boot), "linux", or
              \* "stopped": at U-Boot's prompt or in a kernel that hangs
  running,    \* slot U-Boot started last
  bootable,   \* slots whose image starts
  job,        \* steps left of the script each process is running
  \* Bound and history.
  faults,     \* power failures and failed writes so far
  tries,      \* power-ups since the slot was selected or the count reset
  torn,       \* a script was stopped between bootslot and bootcount
  premature,  \* a slot was given up before its tries were used
  wanted,     \* slot that an undisturbed --mark-pending or --switch asked for
  installed   \* slot that an undisturbed post-install asked for

envVars  == <<bootslot, slotState, bootcount, bootlimit, bootOrder>>
machVars == <<mode, running, bootable>>
histVars == <<faults, tries, torn, premature, wanted, installed>>
vars == <<envVars, machVars, job, histVars>>

-----------------------------------------------------------------------------
Slot == {"A", "B"}
NoSlot == "-"
Other(s) == IF s = "A" THEN "B" ELSE "A"
Process == {"init", "admin"}

\* The bootlimit that the environment file and post-install set: 3, or the
\* model's largest.
DefaultLimit == IF MaxLimit < 3 THEN MaxLimit ELSE 3

\* U-Boot's test for altbootcmd; a bootlimit of 0 switches it off.
Exceeded(count) ==
  bootlimit # 0 /\ IF AtLimit THEN count >= bootlimit ELSE count > bootlimit

Init ==
  /\ bootslot = "A"
  /\ slotState = [s \in Slot |-> IF s = "A" THEN "active" ELSE "standby"]
  /\ bootcount = 0 /\ bootlimit = DefaultLimit /\ bootOrder = "A"
  /\ mode = "off" /\ running = "A" /\ bootable \in SUBSET Slot
  /\ job = [p \in Process |-> <<>>]
  /\ faults = 0 /\ tries = 0 /\ torn = FALSE /\ premature = FALSE
  /\ wanted = NoSlot /\ installed = NoSlot

-----------------------------------------------------------------------------
(***************************************************************************)
(* U-Boot                                                                  *)
(***************************************************************************)

\* Power on: U-Boot increments bootcount and saves it.
UbootCount ==
  /\ mode = "off"
  /\ mode' = "counted"
  /\ bootcount' = bootcount + 1
  /\ tries' = tries + 1
  /\ UNCHANGED <<bootslot, slotState, bootlimit, bootOrder, running, bootable,
                 job, faults, torn, premature, wanted, installed>>

\* bootcmd: select_slot starts the image of bootslot.
UbootBoot ==
  /\ mode = "counted"
  /\ ~Exceeded(bootcount)
  /\ mode' = "loading"
  /\ running' = bootslot
  /\ wanted' = NoSlot /\ installed' = NoSlot
  /\ UNCHANGED <<envVars, bootable, job, faults, tries, torn, premature>>

\* Mutant: the count is not reset on fallback.
FallbackKeepsCount ==
  /\ slotState' = [slotState EXCEPT ![bootslot] = "failed",
                                    ![Other(bootslot)] = "pending"]
  /\ bootslot' = Other(bootslot)
  /\ UNCHANGED <<bootcount, bootlimit, bootOrder>>

\* Mutant: the failed slot stays selected.
FallbackKeepsSlot ==
  /\ slotState' = [slotState EXCEPT ![bootslot] = "failed",
                                    ![Other(bootslot)] = "pending"]
  /\ bootcount' = 0
  /\ UNCHANGED <<bootslot, bootlimit, bootOrder>>

\* ab_fallback: give the slot up for the other one, whatever its state, and
\* save the environment.
ab_fallback ==
  /\ slotState' = [slotState EXCEPT ![bootslot] = "failed",
                                    ![Other(bootslot)] = "pending"]
  /\ bootslot' = Other(bootslot)
  /\ bootcount' = 0
  /\ UNCHANGED <<bootlimit, bootOrder>>

\* altbootcmd: ab_fallback, then start the other slot.
UbootAltBoot ==
  /\ mode = "counted"
  /\ Exceeded(bootcount)
  /\ ab_fallback
  /\ mode' = "loading"
  /\ running' = bootslot'
  /\ premature' = (premature \/ (~torn /\ ~Exceeded(tries)))
  /\ tries' = 0 /\ torn' = FALSE
  /\ wanted' = NoSlot /\ installed' = NoSlot
  /\ UNCHANGED <<bootable, job, faults>>

\* load_fit and boot_fit: the image starts Linux, or the board stops.  A FIT
\* that cannot be loaded or that bootm refuses leads back to U-Boot's prompt,
\* since neither command list ends in a reset, and a kernel may hang.
Start ==
  /\ mode = "loading"
  /\ mode' = IF running \in bootable THEN "linux" ELSE "stopped"
  /\ UNCHANGED <<envVars, running, bootable, job, histVars>>

\* Somebody resets a board that has stopped: a person, or a watchdog if one
\* is armed this early (wdt-setup.sh arms it from Linux).
Reset ==
  /\ mode = "stopped"
  /\ mode' = "off"
  /\ UNCHANGED <<envVars, running, bootable, job, histVars>>

-----------------------------------------------------------------------------
(***************************************************************************)
(* The scripts.  A step <<variable, value>> is one fw_setenv; "A" and "B"  *)
(* stand for slot_a_state and slot_b_state.  A step <<test, slot>> reads   *)
(* the environment and continues accordingly.                              *)
(***************************************************************************)

\* Mutant: the count of the slot before is kept.
MarkPendingKeepingCount(part) == << <<part, "pending">>, <<"bootslot", part>> >>

\* Mutant: the slot is marked but not selected.
MarkPendingNotSelecting(part) == << <<part, "pending">>, <<"bootcount", 0>> >>

mode_mark_pending(part) ==
  << <<part, "pending">>, <<"bootslot", part>>, <<"bootcount", 0>> >>

mode_mark_active(part) ==
  << <<part, "active">>, <<"bootcount", 0>>, <<"unless_failed", Other(part)>> >>

mode_mark_failed(part) ==
  << <<part, "failed">>, <<"if_selected", part>> >>

mode_switch(current) ==
  << <<"bootslot", Other(current)>>, <<Other(current), "pending">>,
     <<"bootcount", 0>> >>

mode_set_bootlimit(limit) == << <<"bootlimit", limit>> >>

\* uboot-bootcount-reset.sh; upgrade_available is read by nobody else.
BootcountReset == << <<"bootcount", 0>> >>

\* rauc-post-install.sh, for the slot just written.
PostInstall(slot) ==
  << <<"bootcount", 0>>, <<"bootlimit", DefaultLimit>>, <<"BOOT_ORDER", slot>> >>

Test == {"unless_failed", "if_selected"}

\* How a script continues after a test.
AfterTest(step) ==
  CASE step[1] = "unless_failed" ->
         IF slotState[step[2]] = "failed" THEN <<>>
                                          ELSE << <<step[2], "standby">> >>
    [] step[1] = "if_selected" ->
         IF bootslot # step[2]
           THEN <<>>
           ELSE << <<"bootslot", Other(step[2])>>, <<"bootcount", 0>> >>

\* A script that has selected a slot and not yet reset its count.
Unreset(script) ==
  /\ \E i \in DOMAIN script : script[i][1] = "bootcount"
  /\ \A i \in DOMAIN script : script[i][1] # "bootslot"

Begin(p, script) ==
  /\ mode = "linux"
  /\ job[p] = <<>>
  /\ job' = [job EXCEPT ![p] = script]
  /\ UNCHANGED <<envVars, faults, tries, torn, premature>>

\* Start a script that asks for a slot (or, with NoSlot, against one).
Request(script, slot) ==
  /\ Begin("admin", script)
  /\ wanted' = slot /\ installed' = NoSlot
  /\ UNCHANGED machVars

\* Start a script that leaves the choice of the slot alone.
Maintain(p, script) ==
  /\ Begin(p, script)
  /\ UNCHANGED <<machVars, wanted, installed>>

\* Mutant: --set-bootlimit without its range check.
SetLimitUnchecked(limit) == Maintain("admin", mode_set_bootlimit(limit))

\* --set-bootlimit refuses what is not between 1 and 10.
SetLimit(limit) ==
  /\ limit \in 1..MaxLimit
  /\ Maintain("admin", mode_set_bootlimit(limit))

\* Once the system is up, init confirms the slot it runs from.
Confirm ==
  \/ Maintain("init", mode_mark_active(running))
  \/ bootcount # 0 /\ Maintain("init", BootcountReset)

\* The operator and the update agent, one script at a time.
Administer ==
  \/ \E part \in Slot :
       \/ Request(mode_mark_pending(part), part)
       \/ Request(mode_mark_failed(part), NoSlot)
       \/ Maintain("admin", mode_mark_active(part))
  \/ Request(mode_switch(bootslot), Other(bootslot))
  \/ \E limit \in 0..(MaxLimit + 1) : SetLimit(limit)

\* RAUC writes an image, good or bad, to the slot that is not running, and
\* calls post-install for it.
Install(good) ==
  LET slot == Other(running) IN
  /\ Begin("admin", PostInstall(slot))
  /\ bootable' = IF good THEN bootable \cup {slot} ELSE bootable \ {slot}
  /\ installed' = slot /\ wanted' = NoSlot
  /\ UNCHANGED <<mode, running>>

\* fw_setenv: one variable of the saved environment.
SetEnv(p) ==
  /\ mode = "linux"
  /\ job[p] # <<>>
  /\ LET var == Head(job[p])[1]
         val == Head(job[p])[2]
     IN /\ var \notin Test
        /\ bootslot' = IF var = "bootslot" THEN val ELSE bootslot
        /\ slotState' = [s \in Slot |-> IF s = var THEN val ELSE slotState[s]]
        /\ bootcount' = IF var = "bootcount" THEN val ELSE bootcount
        /\ bootlimit' = IF var = "bootlimit" THEN val ELSE bootlimit
        /\ bootOrder' = IF var = "BOOT_ORDER" THEN val ELSE bootOrder
        /\ tries' = IF var = "bootcount" \/ bootslot' # bootslot THEN 0 ELSE tries
        /\ torn' = (torn /\ var # "bootcount")
  /\ job' = [job EXCEPT ![p] = Tail(@)]
  /\ UNCHANGED <<machVars, faults, premature, wanted, installed>>

\* fw_printenv and the branch on what it returned.
ReadEnv(p) ==
  /\ mode = "linux"
  /\ job[p] # <<>>
  /\ Head(job[p])[1] \in Test
  /\ job' = [job EXCEPT ![p] = AfterTest(Head(@))]
  /\ UNCHANGED <<envVars, machVars, histVars>>

\* The scripts of the processes ps end early.
Drop(ps) ==
  /\ job' = [p \in Process |-> IF p \in ps THEN <<>> ELSE job[p]]
  /\ torn' = (torn \/ \E p \in ps : Unreset(job[p]))

\* fw_setenv fails: set -e ends the script.
Abort(p) ==
  /\ mode = "linux" /\ job[p] # <<>>
  /\ faults < MaxFaults
  /\ faults' = faults + 1
  /\ Drop({p})
  /\ wanted' = IF p = "admin" THEN NoSlot ELSE wanted
  /\ installed' = IF p = "admin" THEN NoSlot ELSE installed
  /\ UNCHANGED <<envVars, machVars, tries, premature>>

\* The power fails, at any point.
Cut ==
  /\ mode # "off"
  /\ faults < MaxFaults
  /\ faults' = faults + 1
  /\ mode' = "off"
  /\ Drop(Process)
  /\ LET kept == mode = "linux" /\ job["admin"] = <<>> IN
       /\ wanted' = IF kept THEN wanted ELSE NoSlot
       /\ installed' = IF kept THEN installed ELSE NoSlot
  /\ UNCHANGED <<envVars, running, bootable, tries, premature>>

\* An orderly reboot: the scripts have ended, the slot may be unconfirmed.
Reboot ==
  /\ mode = "linux"
  /\ \A p \in Process : job[p] = <<>>
  /\ mode' = "off"
  /\ UNCHANGED <<envVars, running, bootable, job, histVars>>

Uboot == UbootCount \/ UbootBoot \/ UbootAltBoot \/ Start

Next ==
  \/ Uboot
  \/ Confirm \/ Administer
  \/ \E good \in BOOLEAN : Install(good)
  \/ \E p \in Process : SetEnv(p) \/ ReadEnv(p) \/ Abort(p)
  \/ Cut \/ Reset \/ Reboot

Spec == Init /\ [][Next]_vars

\* U-Boot goes on until it has started an image or stops.  Nobody has to reset
\* a board that has stopped, and nothing on the Linux side has to happen.
FairSpec == Spec /\ WF_vars(Uboot)

-----------------------------------------------------------------------------
(***************************************************************************)
(* Properties                                                              *)
(***************************************************************************)

\* Every variable has its type: bootlimit keeps the range --set-bootlimit
\* checks, and bootcount exceeds it only by power failures in U-Boot.
TypeOK ==
  /\ bootslot \in Slot
  /\ slotState \in [Slot -> {"active", "standby", "pending", "failed"}]
  /\ bootcount \in 0 .. (MaxLimit + 1 + MaxFaults)
  /\ bootlimit \in 1..MaxLimit
  /\ bootOrder \in Slot
  /\ mode \in {"off", "counted", "loading", "linux", "stopped"}
  /\ running \in Slot
  /\ bootable \subseteq Slot
  /\ \A p \in Process : Len(job[p]) <= 3
  /\ faults \in 0..MaxFaults
  /\ tries \in Nat
  /\ torn \in BOOLEAN
  /\ premature \in BOOLEAN
  /\ wanted \in Slot \cup {NoSlot}
  /\ installed \in Slot \cup {NoSlot}

\* altbootcmd gives a slot up only after the slot itself has used its tries,
\* whatever scripts ran in between: the ones that select a slot also reset
\* bootcount.  The exception is a script stopped between the two.
FallbackEarned == ~premature

\* The slot that --mark-pending or --switch asked for is the one the next
\* boot starts, and not its fallback, even if init's confirmation ran at the
\* same time.  (At bootlimit 1 every boot is a fallback if AtLimit.)
RequestHonoured ==
  [][mode = "counted" /\ mode' = "loading" /\ wanted # NoSlot
       /\ (AtLimit => bootlimit > 1)
     => running' = wanted]_vars

\* As long as one slot has an image that starts, resets alone bring the board
\* up, with whatever environment the scripts and the power failures left
\* behind: nobody has to type at U-Boot's prompt.  The resets are a premise,
\* because no boot command resets a board whose image does not start.
EventuallyUp ==
  WF_vars(Reset) => ((mode = "off" /\ bootable # {}) ~> mode = "linux")

\* What rauc-post-install.sh says at its end: the system will reboot into the
\* slot just installed.
InstalledSlotStarted ==
  [][mode = "counted" /\ mode' = "loading" /\ installed # NoSlot
       /\ (AtLimit => bootlimit > 1)
     => running' = installed]_vars
=============================================================================
