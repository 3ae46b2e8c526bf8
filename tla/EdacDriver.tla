----------------------------- MODULE EdacDriver -----------------------------
(***************************************************************************)
(* The reference EDAC driver of edac-reference/edac_cortex_ref.c: errors   *)
(* written to debugfs are queued in two atomic counters, the EDAC core's   *)
(* workqueue drains them with cortex_ref_poll and the drain reports each   *)
(* batch to the core with edac_mc_handle_error.  Writers of the debugfs    *)
(* files, the poll work, module load/unload and the hardware's RAS record  *)
(* all run concurrently; every step below is one access to shared state.   *)
(***************************************************************************)
EXTENDS Integers

CONSTANTS
  NrCsrows,     \* module parameter nr_csrows
  NrChannels,   \* module parameter nr_channels
  CeLimit,      \* largest value inject_ce accepts (1000 in the code)
  UeLimit,      \* largest value inject_ue accepts (100 in the code)
  HalfRange,    \* 2^31: atomic_t holds -HalfRange .. HalfRange - 1
  CountRange,   \* 2^16: the core takes the size of a report as a u16
  MaxQueued,    \* bound of the model: errors queued per probe
  IrqModes      \* values the module parameter irq_mode may take

\* Probe rejects any other topology; one injection is smaller than an int.
ASSUME TopologyAssumption ==
  /\ NrCsrows \in 1..16
  /\ NrChannels \in 1..8
ASSUME LimitAssumption ==
  /\ CeLimit \in Nat \ {0}
  /\ UeLimit \in Nat \ {0}
  /\ HalfRange \in Nat
  /\ CeLimit < HalfRange
  /\ UeLimit < HalfRange
  /\ CountRange \in Nat \ {0}
  /\ MaxQueued \in Nat
  /\ IrqModes \subseteq BOOLEAN
  /\ IrqModes # {}

VARIABLES
  life,      \* how far probe / remove got
  debugfs,   \* the debugfs files exist
  irqMode,   \* module parameter irq_mode, writable at run time
  sim,       \* sim_ce_count, sim_ue_count
  csrow,     \* inject_csrow
  channel,   \* inject_channel
  total,     \* total_ce_injected, total_ue_injected
  stage,     \* where the poll work is
  kind,      \* which of the two counters it is draining
  batch,     \* ce_count / ue_count of the drain
  argRow,    \* inject_csrow as loaded for the pending report
  argCh,     \* inject_channel as loaded for the pending report
  mcCount,   \* EDAC core: ce_mc, ue_mc
  dimmCount, \* EDAC core: per csrow and channel
  noinfo,    \* EDAC core: reports without a valid location
  ras,       \* RAS error record 0
  \* History, for the properties only.
  queued,    \* errors accepted from debugfs since probe
  queuedAt,  \* the same, by the location that was the target then
  wrapped,   \* the kinds whose counter overflowed
  cut,       \* the kinds of which a batch did not fit the core's u16
  moved,     \* the target changed while errors were queued
  rasLost    \* a clear dropped an error that it had the time to log

driverVars == <<life, debugfs, irqMode>>
targetVars == <<csrow, channel>>
pollVars   == <<stage, kind, batch, argRow, argCh>>
coreVars   == <<mcCount, dimmCount, noinfo>>
histVars   == <<queued, queuedAt, wrapped, cut, moved>>
rasVars    == <<ras, rasLost>>
vars == <<driverVars, sim, targetVars, total, pollVars, coreVars, histVars,
          rasVars>>

-----------------------------------------------------------------------------
Kind == {"CE", "UE"}
Row  == 0 .. NrCsrows - 1
Ch   == 0 .. NrChannels - 1
Loc  == Row \X Ch

\* An argument of edac_mc_handle_error that has not been loaded yet.
NotLoaded == -1

\* mem_ctl_info is allocated: every handler below dereferences it.
Alive == life # "none"

\* edac_mc_add_mc has put the controller on the core's poll list.
Registered == life \in {"added", "bound", "removing"}

Limit(k) == IF k = "CE" THEN CeLimit ELSE UeLimit

\* The result of atomic_add on a 32-bit atomic_t.
AtomicAdd(a, n) == IF a + n < HalfRange THEN a + n ELSE a + n - 2 * HalfRange

Zero == [k \in Kind |-> 0]
ZeroAt == [k \in Kind |-> [l \in Loc |-> 0]]

\* The errors of kind k that the poll work has taken and not yet reported.
InFlight(k) ==
  IF kind = k /\ stage \in {"stats", "args", "report"} THEN batch ELSE 0

\* The bound of the model on what user space queues.
Room(val) == queued["CE"] + queued["UE"] + val <= MaxQueued

Busy == \E k \in Kind : sim[k] # 0 \/ InFlight(k) # 0

Init ==
  /\ life = "none" /\ debugfs = FALSE /\ irqMode \in IrqModes
  /\ sim = Zero /\ csrow = 0 /\ channel = 0 /\ total = Zero
  /\ stage = "idle" /\ kind = "CE" /\ batch = 0
  /\ argRow = NotLoaded /\ argCh = NotLoaded
  /\ mcCount = Zero /\ dimmCount = ZeroAt /\ noinfo = 0
  /\ ras = "empty" /\ rasLost = FALSE
  /\ queued = Zero /\ queuedAt = ZeroAt
  /\ wrapped = {} /\ cut = {} /\ moved = FALSE

-----------------------------------------------------------------------------
(***************************************************************************)
(* Load and unload                                                         *)
(***************************************************************************)

\* cortex_ref_probe up to edac_mc_add_mc: allocate and reset everything.  A
\* failed allocation returns -ENOMEM and changes nothing.
ProbeAlloc ==
  /\ life = "none"
  /\ life' = "alloc"
  /\ sim' = Zero /\ csrow' = 0 /\ channel' = 0 /\ total' = Zero
  /\ mcCount' = Zero /\ dimmCount' = ZeroAt /\ noinfo' = 0
  /\ queued' = Zero /\ queuedAt' = ZeroAt
  /\ wrapped' = {} /\ cut' = {} /\ moved' = FALSE
  /\ UNCHANGED <<debugfs, irqMode, pollVars, rasVars>>

\* edac_mc_add_mc; on failure probe frees the controller and gives up.
ProbeAddMc(ok) ==
  /\ life = "alloc"
  /\ life' = IF ok THEN "added" ELSE "none"
  /\ UNCHANGED <<debugfs, irqMode, sim, targetVars, total, pollVars, coreVars,
                 histVars, rasVars>>

\* cortex_ref_create_debugfs, whose failure is not fatal, and set_drvdata.
ProbeDebugfs(ok) ==
  /\ life = "added"
  /\ life' = "bound"
  /\ debugfs' = ok
  /\ UNCHANGED <<irqMode, sim, targetVars, total, pollVars, coreVars,
                 histVars, rasVars>>

\* cortex_ref_remove, first half: the debugfs files go first.
RemoveDebugfs ==
  /\ life = "bound"
  /\ life' = "removing"
  /\ debugfs' = FALSE
  /\ UNCHANGED <<irqMode, sim, targetVars, total, pollVars, coreVars,
                 histVars, rasVars>>

\* Mutant: the controller is freed while the poll work may be running.
FreeWithoutStoppingPoll ==
  /\ life = "removing"
  /\ life' = "none"
  /\ UNCHANGED <<debugfs, irqMode, sim, targetVars, total, pollVars, coreVars,
                 histVars, rasVars>>

\* cortex_ref_remove, second half: edac_mc_del_mc waits for the poll work to
\* end and takes it off the workqueue, then edac_mc_free.
RemoveDelMc ==
  /\ life = "removing"
  /\ stage = "idle"
  /\ life' = "none"
  /\ UNCHANGED <<debugfs, irqMode, sim, targetVars, total, pollVars, coreVars,
                 histVars, rasVars>>

\* A write to /sys/module/edac_cortex_ref/parameters/irq_mode.
SetIrqMode(mode) ==
  /\ irqMode' = mode
  /\ UNCHANGED <<life, debugfs, sim, targetVars, total, pollVars, coreVars,
                 histVars, rasVars>>

-----------------------------------------------------------------------------
(***************************************************************************)
(* The debugfs files; a value out of range is refused with -ERANGE.        *)
(***************************************************************************)

\* Mutant: the counter is overwritten instead of added to.
InjectBySet(k, val) ==
  /\ debugfs
  /\ val \in 1..Limit(k) /\ Room(val)
  /\ sim' = [sim EXCEPT ![k] = val]
  /\ queued' = [queued EXCEPT ![k] = @ + val]
  /\ queuedAt' = [queuedAt EXCEPT ![k][<<csrow, channel>>] = @ + val]
  /\ UNCHANGED <<driverVars, targetVars, total, pollVars, coreVars, wrapped,
                 cut, moved, rasVars>>

\* Mutant: the counter is a plain integer of unlimited width.
InjectUnbounded(k, val) ==
  /\ debugfs
  /\ val \in 1..Limit(k) /\ Room(val)
  /\ sim' = [sim EXCEPT ![k] = @ + val]
  /\ queued' = [queued EXCEPT ![k] = @ + val]
  /\ queuedAt' = [queuedAt EXCEPT ![k][<<csrow, channel>>] = @ + val]
  /\ UNCHANGED <<driverVars, targetVars, total, pollVars, coreVars, wrapped,
                 cut, moved, rasVars>>

\* inject_ce_write and inject_ue_write: queue val errors of kind k.
InjectWrite(k, val) ==
  /\ debugfs
  /\ val \in 1..Limit(k)
  /\ Room(val)
  /\ sim' = [sim EXCEPT ![k] = AtomicAdd(@, val)]
  /\ queued' = [queued EXCEPT ![k] = @ + val]
  /\ queuedAt' = [queuedAt EXCEPT ![k][<<csrow, channel>>] = @ + val]
  /\ wrapped' = IF sim[k] + val >= HalfRange THEN wrapped \cup {k} ELSE wrapped
  /\ UNCHANGED <<driverVars, targetVars, total, pollVars, coreVars, cut,
                 moved, rasVars>>

\* Mutant: the bound check lets one row too many through.
CsrowWriteOffByOne(val) ==
  /\ debugfs
  /\ val \in 0..NrCsrows
  /\ csrow' = val
  /\ moved' = (moved \/ (csrow # val /\ Busy))
  /\ UNCHANGED <<driverVars, sim, channel, total, pollVars, coreVars, queued,
                 queuedAt, wrapped, cut, rasVars>>

\* inject_csrow_write
InjectCsrowWrite(val) ==
  /\ debugfs
  /\ val < NrCsrows
  /\ csrow' = val
  /\ moved' = (moved \/ (csrow # val /\ Busy))
  /\ UNCHANGED <<driverVars, sim, channel, total, pollVars, coreVars, queued,
                 queuedAt, wrapped, cut, rasVars>>

\* inject_channel_write
InjectChannelWrite(val) ==
  /\ debugfs
  /\ val < NrChannels
  /\ channel' = val
  /\ moved' = (moved \/ (channel # val /\ Busy))
  /\ UNCHANGED <<driverVars, sim, csrow, total, pollVars, coreVars, queued,
                 queuedAt, wrapped, cut, rasVars>>

-----------------------------------------------------------------------------
(***************************************************************************)
(* The poll work: cortex_ref_poll and cortex_ref_irq_drain                 *)
(***************************************************************************)

\* Mutant: the drain returns after the correctable errors.
SkipUe(k) == /\ stage' = "ras" /\ kind' = "CE"

\* What follows the drain of kind k.
AfterKind(k) ==
  IF k = "CE" THEN stage' = "xchg" /\ kind' = "UE"
              ELSE stage' = "ras"  /\ kind' = "CE"

\* Mutant: with irq_mode on the poll is the no-op that the comment above the
\* parameter calls it.
PollBeginUnlessIrq ==
  /\ Registered
  /\ stage = "idle"
  /\ ~irqMode
  /\ stage' = "xchg"
  /\ kind' = "CE"
  /\ UNCHANGED <<driverVars, sim, targetVars, total, batch, argRow, argCh,
                 coreVars, histVars, rasVars>>

\* The workqueue calls cortex_ref_poll, which reads irq_mode once.
PollBegin ==
  /\ Registered
  /\ stage = "idle"
  /\ stage' = IF irqMode THEN "ras" ELSE "xchg"
  /\ kind' = "CE"
  /\ UNCHANGED <<driverVars, sim, targetVars, total, batch, argRow, argCh,
                 coreVars, histVars, rasVars>>

\* Mutant: the batch skips the statistics.
XchgSkippingStats ==
  /\ stage = "xchg"
  /\ sim' = [sim EXCEPT ![kind] = 0]
  /\ batch' = sim[kind]
  /\ IF sim[kind] > 0 THEN stage' = "args" /\ UNCHANGED kind
                      ELSE AfterKind(kind)
  /\ UNCHANGED <<driverVars, targetVars, total, argRow, argCh, coreVars,
                 histVars, rasVars>>

\* Mutant: the counter is read, and not cleared by the same access.
XchgLeaving ==
  /\ stage = "xchg"
  /\ batch' = sim[kind]
  /\ IF sim[kind] > 0 THEN stage' = "stats" /\ UNCHANGED kind
                      ELSE AfterKind(kind)
  /\ UNCHANGED <<driverVars, sim, targetVars, total, argRow, argCh, coreVars,
                 histVars, rasVars>>

\* atomic_xchg(counter, 0); a count that is not positive is dropped.
Xchg ==
  /\ stage = "xchg"
  /\ sim' = [sim EXCEPT ![kind] = 0]
  /\ batch' = sim[kind]
  /\ IF sim[kind] > 0 THEN stage' = "stats" /\ UNCHANGED kind
                      ELSE AfterKind(kind)
  /\ UNCHANGED <<driverVars, targetVars, total, argRow, argCh, coreVars,
                 histVars, rasVars>>

\* The statistics, under stats_lock.
AddStats ==
  /\ stage = "stats"
  /\ total' = [total EXCEPT ![kind] = @ + batch]
  /\ stage' = "args"
  /\ UNCHANGED <<driverVars, sim, targetVars, kind, batch, argRow, argCh,
                 coreVars, histVars, rasVars>>

\* The arguments of the call are two unlocked loads, in either order.
LoadCsrow ==
  /\ stage = "args" /\ argRow = NotLoaded
  /\ argRow' = csrow
  /\ stage' = IF argCh = NotLoaded THEN "args" ELSE "report"
  /\ UNCHANGED <<driverVars, sim, targetVars, total, kind, batch, argCh,
                 coreVars, histVars, rasVars>>

LoadChannel ==
  /\ stage = "args" /\ argCh = NotLoaded
  /\ argCh' = channel
  /\ stage' = IF argRow = NotLoaded THEN "args" ELSE "report"
  /\ UNCHANGED <<driverVars, sim, targetVars, total, kind, batch, argRow,
                 coreVars, histVars, rasVars>>

\* What is left of a report of n errors in the u16 parameter error_count.
AsU16(n) == n % CountRange

\* The EDAC core counts n errors of kind k: on the controller always, on the
\* location when it is one of the topology, else as an error without one.
edac_mc_handle_error(k, n, row, ch) ==
  /\ mcCount' = [mcCount EXCEPT ![k] = @ + AsU16(n)]
  /\ IF <<row, ch>> \in Loc
       THEN /\ dimmCount' = [dimmCount EXCEPT ![k][<<row, ch>>] = @ + AsU16(n)]
            /\ UNCHANGED noinfo
       ELSE /\ noinfo' = noinfo + AsU16(n)
            /\ UNCHANGED dimmCount
  /\ cut' = IF n < CountRange THEN cut ELSE cut \cup {k}

\* Mutant: the location arguments are swapped.
ReportSwapped ==
  /\ stage = "report"
  /\ edac_mc_handle_error(kind, batch, argCh, argRow)
  /\ argRow' = NotLoaded /\ argCh' = NotLoaded /\ batch' = 0
  /\ AfterKind(kind)
  /\ UNCHANGED <<driverVars, sim, targetVars, total, queued, queuedAt,
                 wrapped, moved, rasVars>>

\* The report itself.
Report ==
  /\ stage = "report"
  /\ edac_mc_handle_error(kind, batch, argRow, argCh)
  /\ argRow' = NotLoaded /\ argCh' = NotLoaded /\ batch' = 0
  /\ AfterKind(kind)
  /\ UNCHANGED <<driverVars, sim, targetVars, total, queued, queuedAt,
                 wrapped, moved, rasVars>>

-----------------------------------------------------------------------------
(***************************************************************************)
(* RAS error record 0, sampled at the end of every poll (arm64 builds).    *)
(* The hardware captures an error at any time.  One that finds the record  *)
(* valid takes its place, so that "fresh" stands for the last of them; one *)
(* that takes the place of a record just logged is "late": the driver has  *)
(* read the status before, and clears the record all the same.             *)
(***************************************************************************)

RasCapture ==
  /\ ras' = IF ras \in {"empty", "fresh"} THEN "fresh" ELSE "late"
  /\ UNCHANGED <<driverVars, sim, targetVars, total, pollVars, coreVars,
                 histVars, rasLost>>

\* Mutant: the record is cleared whether it was valid or not.
RasReadAlwaysClear ==
  /\ stage = "ras"
  /\ ras' = IF ras = "empty" THEN ras ELSE "logged"
  /\ stage' = "clear"
  /\ UNCHANGED <<driverVars, sim, targetVars, total, kind, batch, argRow,
                 argCh, coreVars, histVars, rasLost>>

\* cortex_ref_read_ras_record(0): a valid record is logged, then cleared.
RasRead ==
  /\ stage = "ras"
  /\ ras' = IF ras = "empty" THEN ras ELSE "logged"
  /\ stage' = IF ras = "empty" THEN "idle" ELSE "clear"
  /\ UNCHANGED <<driverVars, sim, targetVars, total, kind, batch, argRow,
                 argCh, coreVars, histVars, rasLost>>

\* cortex_ref_clear_ras_record(0): V is written, whatever the record holds by
\* now.
RasClear ==
  /\ stage = "clear"
  /\ ras' = "empty"
  /\ rasLost' = (rasLost \/ ras = "fresh")
  /\ stage' = "idle"
  /\ UNCHANGED <<driverVars, sim, targetVars, total, kind, batch, argRow,
                 argCh, coreVars, histVars>>

-----------------------------------------------------------------------------
Lifecycle ==
  \/ ProbeAlloc
  \/ \E ok \in BOOLEAN : ProbeAddMc(ok) \/ ProbeDebugfs(ok)
  \/ RemoveDebugfs
  \/ RemoveDelMc
  \/ \E mode \in IrqModes : SetIrqMode(mode)

\* What user space may write: every accepted value and the ones next to them.
Debugfs ==
  \/ \E k \in Kind : \E val \in 0..(Limit(k) + 1) : InjectWrite(k, val)
  \/ \E val \in 0..NrCsrows : InjectCsrowWrite(val)
  \/ \E val \in 0..NrChannels : InjectChannelWrite(val)

Poll ==
  PollBegin \/ Xchg \/ AddStats \/ LoadCsrow \/ LoadChannel \/ Report
  \/ RasRead \/ RasClear

Next == Lifecycle \/ Debugfs \/ Poll \/ RasCapture

Spec == Init /\ [][Next]_vars

\* The EDAC core re-queues the poll work every poll_msec while the controller
\* is registered, so the poll always makes progress; nobody has to inject,
\* load or unload.
FairSpec == Spec /\ WF_vars(Poll)

-----------------------------------------------------------------------------
(***************************************************************************)
(* Properties                                                              *)
(***************************************************************************)

\* Every variable has its type; in particular the two atomic counters stay in
\* the range of an int (inject_ce_write, inject_ue_write).
TypeOK ==
  /\ life \in {"none", "alloc", "added", "bound", "removing"}
  /\ debugfs \in BOOLEAN
  /\ irqMode \in BOOLEAN
  /\ sim \in [Kind -> (-HalfRange) .. (HalfRange - 1)]
  /\ csrow \in Row
  /\ channel \in Ch
  /\ total \in [Kind -> Nat]
  /\ stage \in {"idle", "xchg", "stats", "args", "report", "ras", "clear"}
  /\ kind \in Kind
  /\ batch \in (-HalfRange) .. (HalfRange - 1)
  /\ argRow \in Row \cup {NotLoaded}
  /\ argCh \in Ch \cup {NotLoaded}
  /\ mcCount \in [Kind -> Nat]
  /\ dimmCount \in [Kind -> [Loc -> Nat]]
  /\ noinfo \in Nat
  /\ ras \in {"empty", "fresh", "logged", "late"}
  /\ queued \in [Kind -> Nat]
  /\ queuedAt \in [Kind -> [Loc -> Nat]]
  /\ wrapped \subseteq Kind
  /\ cut \subseteq Kind
  /\ moved \in BOOLEAN
  /\ rasLost \in BOOLEAN

\* No error is lost or counted twice between the debugfs file and the EDAC
\* core, whatever the interleaving of writers and drain: what was queued is
\* still pending, in the hands of cortex_ref_irq_drain, or counted by the
\* core.  The exceptions are an overflow of the 32-bit counter, and a batch
\* too large for the 16 bits in which it is passed to the core.
Conserved ==
  \A k \in Kind :
    k \notin wrapped \cup cut => queued[k] = sim[k] + InFlight(k) + mcCount[k]

\* The debugfs stats file and the core's counters agree whenever no drain is
\* running: cortex_ref_irq_drain updates both, under different locks.  Only
\* the stats file shows all of a batch that the core was passed in part.
StatsAgree ==
  stage \in {"idle", "ras", "clear"} =>
    \A k \in Kind : k \notin cut => total[k] = mcCount[k]

\* Errors are counted at the csrow and channel that were the target when they
\* were queued, as long as nobody moves the target while errors are queued:
\* the drain reads inject_csrow and inject_channel itself, later.
AttributedWhenTargetStable ==
  \A k \in Kind : \A l \in Loc :
    ~moved /\ k \notin wrapped \cup cut =>
      queuedAt[k][l] = dimmCount[k][l] +
        (IF l = <<csrow, channel>> THEN sim[k] + InFlight(k) ELSE 0)

\* The core never sees a location outside the topology probe declared, even
\* when the two loads of the target are torn by concurrent writes.
LocationsInTopology == noinfo = 0

\* The controller's memory is never freed under the poll work or an open
\* debugfs file: cortex_ref_remove takes both away before edac_mc_free.
NoUseAfterFree == (debugfs \/ stage # "idle") => Alive

\* cortex_ref_poll clears no RAS record that it might have logged: an error
\* that was there when the poll read the record is in the log, and the only
\* one that its clear drops unlogged came after that read and took the place
\* of a record the poll had found valid.  (Such a late error is lost.)
RasLoggedBeforeClear == ~rasLost

\* An error that the RAS hardware captures, and no later one replaces, is
\* logged as long as the driver is loaded, irq_mode or not: the poll samples
\* the record after it has skipped the drain.
RasEventuallyLogged == (ras = "fresh") ~> (ras = "logged" \/ ~Registered)

\* Seen from user space the driver is a ledger: an error that was accepted is
\* counted later, once, and with it the location it is charged to; nothing is
\* counted that was not accepted, and only a new probe clears the accounts.
Ledger == INSTANCE ErrorLedger
  WITH Amount <- 0 .. (HalfRange - 1),
       accepted <- queued, acceptedAt <- queuedAt,
       counted <- mcCount, countedAt <- dimmCount,
       unsure <- wrapped \cup cut
ErrorsAccounted == Ledger!Spec

\* While irq_mode stays off, every queued error is eventually counted by the
\* EDAC core (or the driver is unloaded, or a counter has overflowed).
EventuallyCounted ==
  \A k \in Kind :
    (queued[k] > mcCount[k]) ~>
      (queued[k] = mcCount[k] \/ irqMode \/ ~Registered
                               \/ k \in wrapped \cup cut)

\* What the comment above the irq_mode parameter and the README promise: with
\* irq_mode on, the interrupt path drains the queued errors.
DrainedInIrqMode ==
  \A k \in Kind :
    (queued[k] > mcCount[k]) ~> (queued[k] = mcCount[k] \/ ~Registered)
=============================================================================
