# A TLA+ verification of fault-oracle

fault-oracle watches the hardware of a fleet of Linux nodes (memory errors,
PCIe, GPUs, storage, power), predicts failures, takes nodes out of service, and
keeps the nodes themselves bootable. It is not one program but many small ones.
This directory models the ones whose correctness depends on the *order* of
things: concurrent writers, crashes, lost answers, timers. Everything is
translated from the code under `src/`; `PROJECT.json` maps every definition to
the lines it stands for.

## Inventory

| Part | State | Operations | What is hard | Correct when |
|---|---|---|---|---|
| **EDAC reference driver** `edac-reference/edac_cortex_ref.c`, `cortex_ref_ras.c` | two atomic counters of pending errors, a target location, statistics, the EDAC core's counters, a RAS record | debugfs writes, poll work, probe/remove, `irq_mode` | writers race with the drain; the target is read when draining; overflow of the 32-bit counters and of the 16 bits a batch is passed in; unload under the poll work | nothing lost or counted twice, charged to the right DIMM, no use after free, everything eventually counted or logged |
| **Remediation controller and webhook** `remediation/remediation-controller.py`, `webhook-server.py` | `state.json` (cooldown per node), `spec.unschedulable` and taints in Kubernetes | poll, cordon, taint, save; replacement confirmed | two programs replace one file without a lock and share the temporary name; lost API answers; crash between acting and saving | at most one action per cooldown, no cooldown without an action, a confirmation clears the cooldown |
| **A/B boot failover** `boot-resilience/uboot-bootcount.env`, `ab-partition-setup.sh`, `uboot-bootcount-reset.sh`, `ota-updates/rauc-post-install.sh` | U-Boot environment: `bootslot`, slot states, `bootcount`, `bootlimit`, `BOOT_ORDER` | boot, fallback, mark-pending/active/failed, switch, set-bootlimit, confirm, post-install | each script is several separate writes; power failure between any two; confirmation concurrent with an update | given resets, the board comes up if a slot works; a slot is given up only after its tries; the slot asked for is started |
| **systemd watchdog example** `ota-updates/systemd-watchdog-example/hw-fault-monitor.c` | time since last ping and last poll | one-second loop, poll, ping | late wake-ups, lost pings against a deadline; deliberate suppression | killed only for cause; suppressed pings lead to a restart |
| **Leader election** `remediation/leader_election.py` | Kubernetes lease | try_acquire, renew | check and overwrite in two requests | one leader at a time |
| **Recovery webhook** `recovery/webhook-server.py` | last run per alert | requests, handler scripts with a timeout | one thread, so a request waits for its scripts and is sent again meanwhile | an alert runs at most once per window; every request is answered |
| **Restart operator** `operator/main.go` | restart events per (node, collector), last restart | poll, allow, find and delete the pod | slow and failing calls between the grant and the deletion; the list of events is pruned lazily | limits never exceeded |
| **Exporter** `exporter/main.go`, `exporter/collectors/*` | readiness flag, scrape semaphore, cardinality sets, eBPF counters | scrape, collect, shutdown | concurrent scrapes at the limit; readiness after a failed scrape | bounded concurrency and cardinality |
| **eBPF programs** `ebpf/*.bpf.c` | per-CPU/hash counters, ring buffer | tracepoint handlers | ring buffer full, lost increments | events and counters agree |
| **BMC pollers** `bmc/ipmi_sel_poller.py`, `bmc/redfish_collector.py` | last record id per node; set of ids seen | poll, save, emit | the one saves before it writes its output, the other after; files truncated by a crash; a cleared log restarts the ids | every record in an output once, or at least once |
| **Event correlation** `correlation/dmesg_watcher.py`, `event_correlator.py` | sliding window, keys already annotated | watch, add, expire, detect | stamped by one process, expired by another that lags | annotated just when the events were in one window |
| **Annotations** `annotations/annotation_pusher.py` | seen set | ask, mark, push | alerts that resolve and fire again, failed pushes, restarts | one attempt per alert and process |
| **Out-of-band heartbeat** `network-resilience/oob-heartbeat.py` | previous total, sequence number | read the counters one by one, send | counters move while they are read; unreadable files; resets | a burst shows in the next frame |
| **Connection monitor** `network-resilience/connection-monitor.sh` | active connection | monitor, failover | failover that fails half-way | some connection eventually active |
| **OTA pre-install, watchdog setup** `ota-updates/rauc-pre-install.sh`, `boot-resilience/wdt-setup.sh` | EDAC checkpoint, watchdog daemon | gate, ping | counters double-counted | no update on failing memory |
| **Host collectors** `storage/*_collector.py`, `network/*_collector.py`, `gpu/*_collector.py`, `power_cxl/*_collector.py` | the last `.prom` file | list, ask about each device, emit | a tool fails or answers nonsense for some devices, in some runs; the RAPL counter wraps | counters never show what was not counted; "up" means complete, but for adapters named without a port |
| **Wear predictor** `storage/wear_predictor.py` | Prometheus' samples | query, fit, emit | gaps, boundaries of the window, names of the series | the slope lies within the observed rates; a drive with data gets a line |
| **Model store** `ml/ce_forecaster.py`, `ml/probability_exporter.py` | three files per series | train, save; verify, load, publish | no lock between the programs; a training cut short | metadata never published with an older model; recovery |
| **Log replay** `replay/parse_edac_trace.py` | events of a log | look ahead, parse | lines of different errors interleave | an event has its own location if that is told first, within the look-ahead's reach |
| **Other exporters** SmartNIC, RAS, APEI, IPMI sensors | little or none | parse a tool's output, print metrics | - | pure I/O and formatting |
| **Aging, anomaly, survival** | models | score | floating point | out of TLC's reach |
| **Fault injection, chaos, kernel hardening, storage integrity, security, tools, CI** | none, or that of external tools | drive external tools | - | mostly I/O |

How the parts interact. The driver's counters appear in sysfs, where the
exporter and the watchdog example read them; Prometheus scrapes the exporter;
the host collectors, the BMC pollers and RAPL write `.prom` files that the node
exporter serves to it; the wear predictor reads the drives' series back and the
ML predictor turns the memory series into `failure_probability_7d`, which the
remediation controller polls; the kernel log goes through the watcher into the
correlator, and Alertmanager's alerts through the pusher, to Grafana; the
controller cordons nodes through the Kubernetes API and shares `state.json` with
the webhook; the OTA scripts and the boot scripts share the U-Boot environment.

## Modules

| Module | Models | State and actions |
|---|---|---|
| `EdacDriver` | the driver, with the EDAC core and the RAS hardware as its environment | one variable per field of `cortex_ref_priv`; one action per access to shared state: `InjectWrite`, `InjectCsrowWrite`, `InjectChannelWrite` are the debugfs files; `PollBegin`, `Xchg`, `AddStats`, `LoadCsrow`, `LoadChannel`, `Report`, `RasRead`, `RasClear` are the poll work; `Probe*`, `Remove*` load and unload; `RasCapture` is the hardware, which may capture an error at any time, also between `RasRead` and `RasClear` |
| `ErrorLedger` | abstract: what an EDAC driver promises | errors accepted and counted, in all and per location; `Accept`, `Count`, `Move`, and `Empty` again |
| `EdacDriverProofs` | theorems about `EdacDriver` | |
| `StateFile` | `_load_state` / `_save_state` on the file system | names, inodes and descriptors, because the two programs share `state.json.tmp` |
| `Remediation` | the controller and the webhook (extends `StateFile`) | `PollBegin`, `SkipNode`, `DryRemediate`, `PatchCordon`, `PatchTaint`, `Save*` follow `poll_once`; `Confirm*` follow `handle_replacement_confirmed`; `Crash`, `Restart`, `Tick` |
| `RemediationHistory` | `Remediation` with a history variable that tells which confirmations took an entry out of `state.json` | `HNext` is `Next` and adds no behaviour |
| `MCRemediation` | the symmetric instance of `Remediation` | |
| `CooldownTable` | abstract: `state.json` for those who use it one at a time | `Poll`, `Confirm`, `Age`, each one change of the table |
| `RemediationProofs` | theorems about `Remediation` | |
| `AbBoot` | U-Boot's commands and the scripts that edit its environment | a script is the sequence of its `fw_setenv` calls and tests, one of which a `SetEnv` or `ReadEnv` step performs; `Uboot*`, `Start`, `Cut`, `Abort`, `Reboot`; `Reset` is whoever resets a board that has stopped |
| `AbBootProofs` | theorems about `AbBoot` | |
| `WatchdogMonitor` | the example daemon under systemd | clocks in seconds; `Tick`, `Iterate`, `Expire`, `Terminate`, `Restart` |
| `WatchdogProofs` | theorems about `WatchdogMonitor` | |
| `RateLimiter` | abstract: what a rate limiter promises | the ages of the grants of the last window; `Grant`, `Elapse`, `Restart` |
| `RestartOperator` | the operator, with Prometheus and Kubernetes as its environment | `pc` is the place in the loop; `Poll`, `Query*`, `Skip`, `Grant`, `Find*`, `DryRun`, `Delete*`; `OpTick` is the clock, `Pod*` the life of a pod; the history has the deletions of the last hour, each with its age and that of its grant |
| `RecoveryWebhook` | the Alertmanager receiver | `Deliver` (again and again), `Accept`, `PassOver`, `RunHandler`, `HandlerExits`, `HandlerKilled`, `Respond`; `WhTick` is the clock |
| `MCLimiters` | both of them for TLC; they share no state, and a behaviour explores one | |
| `LimiterProofs` | theorems about both | |
| `SelPoller` | `ipmi_sel_poller.py` against BMCs that log and clear | `SelStart`, `CollectUp`/`CollectDown` per target, `Collected`, the two halves of `save_state`, `SaveFails`, `SelEmit`, `SelCrash` |
| `RedfishPoller` | `redfish_collector.py` against one BMC | `RfStart`, `RfCollect` (four GETs that fail separately), `RfOutput`, the two halves of the save, `RfStops` |
| `PollerProofs` | theorems about both pollers and about `TraceParser` | |
| `EventCorrelation` | the watcher, the pipe and the correlator | `CorrWatch` stamps, `Correlate` is the body of the loop; the window is the set of the events in it, told apart by their lines |
| `AnnotationPusher` | the pusher against Alertmanager and Grafana | `get_firing_alerts`, `SkipSeen`, `push_annotation`, `RunEnds`, `AnnRestart` |
| `OobHeartbeat` | the loop and `check_edac_health` | `OobWake`, `OobRead` per file, `OobSend`, `OobRestart` |
| `ModelStore` | the files between `ce_forecaster.py` and `probability_exporter.py` | a file is the version that wrote it, or torn; forecaster: `fetch_series`, `fit_model`, `MlOpen`, `MlWrite`, `MlAbandon`; exporter: `load_metadata`, `ReadDigest`, `HashModel`, `LoadModel`, `emit_metrics`, `MlExporterDies` |
| `HostCollectors` | the pure part of ten collectors: what a device's answers become | operators only, named after the functions |
| `HostTelemetry` | their runs | `HostStart`, `HostRead` (a loop over devices) or `HostReadAll` (one command), `HostEmit`; counters move in between; the history has the adapters that ibstat named without a port |
| `RaplCollector` | `rapl_collector.py` | `RaplStart`, the two readings of a package, `RaplEmit` |
| `WearPredictor` | `wear_predictor.py`, with fractions instead of floats | `WearTick` and `WearReplace` make the history, `WearRun` is a run |
| `TraceParser` | `parse_edac_trace.py` | a line is its kind and whose location it shows; `TraceRun` parses the log so far, whose length the history keeps |
| `HostProofs` | theorems about `OobHeartbeat`, `HostTelemetry` and `WearPredictor` | |
| `TelemetryProofs` | theorems about `AnnotationPusher`, `RaplCollector`, `ModelStore` and `EventCorrelation` | |
| `MCTelemetry` | the eleven modules above for TLC: ten programs that share no state, of which a behaviour explores one | |

Every module carries, next to the definitions they change, the *mutants* that
show what its properties detect: the same operator with a plausible mistake.

What the models abstract. Probabilities, thresholds and messages are reduced to
the sets of nodes and the outcomes they select; time is a counter that stops
where it no longer matters; an entry's `last_action` is its age. The JSON text
of `state.json` is a table or "garbage" (a file two programs wrote over each
other, which `json.load` refuses). History variables, marked as such, are read
only by the properties.

## Runs

All passing runs also check for deadlock.

| Run | Bounds and why they suffice | What it shows |
|---|---|---|
| `edac` | 2 locations (the target can move; torn loads need 4, for which the theorems stand), at most 3 errors per load of the driver, counters that overflow at 3 and reports that are cut at 2 (so that both happen, and a cut report need not have overflowed), both values of `irq_mode` | `TypeOK`, `Conserved`, `StatsAgree`, `NoUseAfterFree`, `RasLoggedBeforeClear`, `AttributedWhenTargetStable`, `LocationsInTopology`, `ErrorsAccounted`, `EventuallyCounted`, `RasEventuallyLogged` |
| `edac_irq` | 1 location, `irq_mode` on | *violated*: `DrainedInIrqMode` |
| `remediation` | 2 nodes, cooldown of 1 tick, 1 confirmation; crashes, failures and overlaps unbounded | `CooldownOnlyIfActed` and, unless a poll has overlapped a confirmation, `StateReadable`, `CooldownRespected`, `ConfirmationHolds`, `TableIsAtomic` |
| `remediation_confirm` | 1 node, 1 confirmation; module `RemediationHistory` | *violated*: `ConfirmationSticks` |
| `boot` | bootlimit up to 3, 1 power failure or failed write, any number of scripts and reboots | `TypeOK`, `FallbackEarned`, `RequestHonoured`, `EventuallyUp` |
| `boot_install` | no faults at all | *violated*: `InstalledSlotStarted` |
| `watchdog` | the unit's real 30 s / 10 s, wake-ups 1 to 4 s apart, lost pings | `TypeOK`, `KilledForCause`, `PingWithinTwoWakeups` |
| `watchdog_critical` | the real intervals, no delays, no losses | *violated*: `PersistentCriticalRestarts` |
| `limiters` | operator: 1 node with 2 collectors (they compete for the cooldown and share a pod), limit 2, an hour of 4 ticks, polls every 2, calls of any length; webhook: 2 alerts with a script and 1 without, requests of up to 2 alerts, 1 waiting, timeout below the cooldown as in the code | `RestartLimit`, `DeletionsBounded`, `HandlerLimit`, `RequestAnswered` |
| `operator_limited` | 1 collector | *violated*: `LimitedAfterRestarts` |
| `telemetry` | SEL: 2 BMCs, 2 records; Redfish: 3 entries; correlation: window of 1 tick, 3 events over 3 ticks (a storm needs 3); 3 alerts; heartbeat: 2 controllers, burst of 2 errors, sequence numbers modulo 2; 3 trainings; 2 devices per collector with every combination of answers; RAPL: range 3, a second burns up to 4 (so the counter wraps fully); wear: 4 samples, window of 3, history of 2; logs of 4 lines | `SelNoDuplicate`, `SelNoLoss`, `RfSeenWasReported`, `CorrSound`, `CorrComplete`, `AnnTriedOnce`, `OobBurstReported`, `MlForecastNotOlder`, `MlConverges`, `HostUpComplete`, `HostCountersReal`, `RaplThrottleReal`, `WearSlope`, `TraceFaithful` |
| `wear_reported` | the same | *violated*: `WearReported` |

Each of the bounds of `telemetry` is the smallest at which the case a property
is about happens: two records, so that a position can be between them; three
trainings, so that a torn save is followed by a whole one and a reader may hold
a version that was overwritten twice; four log lines, so that the header and
the location of one error enclose those of another.

The six violated properties state what a comment, a message or a document of
the repository says; `PROJECT.json` quotes them under `findings`:

- With `irq_mode=1` queued errors are never drained: the interrupt handler the
  comments name does not exist.
- An entry that a confirmation has removed from `state.json`, and answered 200
  for, is back when a poll that was in progress saves its older copy; the node
  stays in its cooldown.
- `rauc-post-install.sh` selects the new slot with `BOOT_ORDER`; the boot
  commands in `uboot-bootcount.env` read `bootslot`.
- The monitor suppresses the watchdog ping only in the one-second iteration
  whose poll was critical, so systemd never restarts it.
- The operator records a restart before it looks the pod up and deletes it, so
  attempts that fail use up the limit that is said to follow three restarts.
- The wear predictor asks Prometheus for `nvme_percentage_used` and
  `sata_smart_value`; the collectors publish `nvme_smart_percentage_used` and
  `sata_smart_attribute`. Their drives get no prediction, and no line that says
  there is not enough data. (`deploy/alerts/storage-rules.yaml` and the storage
  dashboard use the predictor's names too.)

Other things the models make visible, which no run is about:

- `edac_mc_handle_error` takes the number of errors as a `u16`. 66 writes of
  1000 to `inject_ce` within one poll interval make a batch of which the core
  counts 464, while the driver's `stats` file shows all 66000.
- `cortex_ref_clear_ras_record` writes V whatever the record holds by then. An
  error the hardware captures after the read, over a valid record, is cleared
  unseen; `RasLoggedBeforeClear` says that this is the only way to lose one.
- Neither `bootcmd` nor `altbootcmd` ends in a reset. A slot whose FIT cannot be
  loaded or is refused leaves the board at U-Boot's prompt, and `wdt-setup.sh`
  arms the hardware watchdog only from Linux, while `boot-resilience/README.md`
  counts on "WDT resets, bootcount increments, fallback activates".
- The SEL poller loses the records of a poll that dies between the save and the
  output, and repeats everything after a torn save; a log that is cleared
  restarts the ids, whose new records are passed over until they exceed the
  saved position. `SelNoLoss` and `SelNoDuplicate` name exactly these windows.
- The docstring of `event_correlator.py` (lines 11 and 12) gives `edac_ce` with
  `mce` 10 s and `pcie_aer_fatal` with `edac_ue` 30 s. The code has one window,
  `CORRELATION_WINDOW_S` of 60 s, for every rule, so events up to 60 s apart are
  annotated. `CorrSound` is stated against the window of the code: that the
  shorter ones are not kept needs no interleaving to see.
- `event_correlator.py:157` clears its keys "so recurring storms re-fire", when
  there are more than 100. At most twelve keys exist, so none ever does.
- A failed push of an annotation is not retried until the process restarts.
- Counters of `ZeroOnFailure` fall to 0 when their query fails and come back,
  which Prometheus counts as new errors; `smart_passed` is 0 when smartctl times
  out.
- A RAPL counter that wraps counts as no power, so a throttled package may go
  unnoticed for that run.
- An `ibstat` reply that has the header of an adapter and no Port section counts
  as a good one: `ib_collector_up` is 1 and the adapter has no
  `ib_port_state`. `HostUpComplete` excludes just these adapters (`hostBare`).
- One entry of the wrong shape in storcli's JSON raises, and the metrics of all
  controllers are left out of that run.
- The look-ahead of the trace parser takes the first location within three
  lines, be it another error's.

**Fairness.** `EdacDriver`: weak fairness of the poll work, which the EDAC core
re-queues every `poll_msec` while the controller is registered; nobody has to
inject, load or unload. `AbBoot`: weak fairness of U-Boot's steps; nothing on
the Linux side has to happen. That a board that has stopped is reset is not
assumed of the system, since nothing in the repository ensures it: it is the
premise of `EventuallyUp`, which says what resets, if they come, lead to.
`WatchdogMonitor`: the loop runs while the service is up, and systemd acts on an
expired watchdog. `RecoveryWebhook`: time passes and the server's thread runs,
which includes killing a script at its timeout; no script has to end by itself.
`ModelStore`: both programs are started again by their timers (weak fairness),
and a run of the exporter is not killed at the same point every time (strong
fairness of its later steps, since a kill disables them); no training has to
succeed.

**Limits.** The operator and the recovery webhook keep their limits in memory.
`RateLimiter` therefore has a `Restart` action, and the histories that the
properties read begin with the process. The operator's query has no timeout; a
Prometheus that never answers stops its loop, so no liveness is claimed for it.
Both clocks only run forwards.

**U-Boot.** The repository says that `altbootcmd` runs at
`bootcount >= bootlimit`; the constant `AtLimit` also allows `>`. At
`bootlimit` 1 and `>=` every boot is a fallback, which `RequestHonoured`
excludes.

## Proofs

TLC checks the instances above. TLAPS proves, for every value of the constants
that satisfies the modules' assumptions:

`EdacDriverProofs` (assumptions: the topology probe accepts,
`TopologyAssumption`, and one injection smaller than the counter's range,
`LimitAssumption`). `Invariance` shows the inductive invariant `IInv`. None of
the properties is inductive alone: conservation needs that a batch between the
exchange and the report is positive and that no batch exists elsewhere;
attribution needs that loaded arguments equal the target as long as it has not
moved; memory safety needs that debugfs files exist only while the driver is
bound; the RAS record needs that what is about to be cleared was read, or came
over what was read. From it follow `TypeCorrect`, `Conservation`,
`StatsCorrect`, `Attribution`, `Topology`, `MemorySafety` and `RasLogged`.
`DriverIsLedger` is the refinement: whoever sees only what was accepted and what
was counted cannot tell the driver from `ErrorLedger`, which does either at once
and never counts more than was accepted, in all or at a location. An injection
is an `Accept` at the current target and a report a `Count`; that the batch is
covered by what is not counted yet follows from `Conserved` and, for the
location, from `AttributedWhenTargetStable` and the arguments that have not
moved. The ledger is unsure of a kind of which a counter overflowed or a report
was cut. The lemmas `ResetTypes`, `ResetAccounts` and `CountOne` state what
resetting and incrementing the per-location counters do; there is one lemma per
action that disturbs several conjuncts.

`WatchdogProofs` (assumptions: a wake-up is late by less than half of
`WatchdogSec` and less than a poll interval). `Invariance` shows `IInv`, whose
core is: as long as no ping was suppressed or lost, systemd's clock equals the
loop's and is less than one wake-up past the interval; after a suppressed ping
the last poll is less than a wake-up old, so the next iteration cannot suppress
again. `NoSpuriousKill` and `CriticalDelaysOnce` follow. The second is the
general form of the finding: no sequence of critical polls delays a ping far
enough to matter.

`RemediationProofs` (assumptions: a positive cooldown, and a name that is no
node's). `IInv` has two parts. What holds always: the types, how the places in
the two programs, the temporary name and the descriptors hang together
(`Shape`), and that every entry, in memory or in any inode, is of a node that
was cordoned and tainted (`EntriesActed`; an inode without a name counts too,
because a writer may still hold it open). What holds until a poll overlaps a
confirmation: one program at a time works on the files, so that what is renamed
is whole (`FileWhole`); every action within its cooldown is on record wherever
the next decision or save looks for it (`Remembered`); and no copy that may be
saved holds an entry older than a confirmation (`Cleared`). The three need each
other: without whole files the next load would forget. Each of
`CooldownOnlyIfActed`, `StateReadable`, `CooldownRespected` and
`ConfirmationHolds` is one conjunct's consequence. `FileStep*` and the lemmas on
tables say once what an operation of `StateFile` may do to the entries.
`OneAtomicTable` is the refinement: until an overlap, the inodes, the two copies
and the steps of load, write and rename implement `CooldownTable`, of which a
poll and a confirmation each replace the content at once. It needs `Current`
(`CopiesCurrent`): the controller's copy is the file but for the nodes it acted
on, each of which has one entry in it and was not cooling down, and the
webhook's is the file without the confirmed node. A save is then a `Poll` of the
nodes in `unsaved` and a confirmation's rename a `Confirm`; all other steps, the
crashes among them, leave the table as it is (`LoadedChanges`).

`LimiterProofs` (assumptions: positive cooldowns, so that two grants never share
a tick, and a positive hour and poll interval; alerts with a script are alerts).
`OperatorIsLimiter` and `WebhookIsLimiter` show that the two implement
`RateLimiter`. The operator needs the invariant `RecordsInv`: the list that
`allowed` counts, pruned only when it grants, is up to expired events exactly
the grants of the last hour, and no grant is younger than `lastGlobal`. The
webhook needs `RecentInv`: the runs of the last cooldown are the one that
`_recent` holds, or none. `OperatorTypes` and `WebhookTypes` are the types,
which include the length of the list and the timeout of a script.
`DeletionsAreBounded` is about what the limiter does not promise, the deletions:
a call may hang between the grant and the deletion. `DeletionInv` orders them:
the loop acts on one grant at a time, so of two deletions the later has the
later grant too, and that grant was not made before the earlier deletion. Hence
at most the first deletion of an hour has a grant from before that hour; all
others have their own grant among those the limit counts.

`AbBootProofs` (assumptions: a largest bootlimit of at least 1; nothing about the
number of power failures). `FallbackIsEarned` needs two facts. The first is about
the scripts: each is `WellOrdered`, that is, it selects a slot before it resets
the count and a test comes last, so that what is left after selecting a slot
still holds the reset (`TailOrdered`). The second is `EarnedInv`: `bootcount` is
at most the tries of the selected slot, or some process still has a reset to do,
or a script was stopped before its reset. As U-Boot runs no script, what it
concludes from `bootcount` then holds of the tries. `TypeCorrect` needs
`CountInv`, which bounds `bootcount` by the place U-Boot is at and the power
failures so far. `RequestsAreHonoured` needs `RequestInv`: until a slot that was
asked for is loaded, the administrator's script still contains what it has not
written, init's script selects no slot, and the count is 0, or 1 once U-Boot has
counted.

`PollerProofs` (assumptions: the bounds are natural numbers, the look-aheads
positive). For the Redfish poller `RfInv` says that until the log is cleared an
entry's id is its arrival number, and that the ids in memory belong to entries
in an output or in the one about to be written; `RfTypeCorrect` and
`RfReportedBeforeSaved` follow. For the SEL poller `SelInv` says that no
position, saved or in memory, is beyond the last record of a log that was not
cleared, and that what a position covers was reported or is among the new events
of the poll; `SelTypeCorrect` and `SelNothingLost` follow. `SelReportedOnce`
needs the converse, `SelOnce`: while no save has gone wrong, what was reported
or is about to be is at or below the position the next poll starts from.
`MaxOfIds` shows that the maximum the poller takes exists. For the trace parser
`TraceInv` adds that a header shows its own location or none, that a type line
is some error's, and that the events are of headers the last run read. `EveryRank` shows
that the lines of a log can be counted off (a rank is an injection into a set of
the same size), `FirstTaken` that what the look-ahead finds is the first line in
reach that shows anything of its kind, and `ParsedOf` what a header's event has
therefore; `ParserIsFaithful` follows from them. The property speaks of all the
lines that tell something within reach and of their order, never of the search.

`HostProofs` (assumptions: finitely many memory controllers; positive threshold,
modulus and bound). The errors of several controllers are counted as pairs of a
controller and a number, so that their total is the cardinality of a set and
grows by one with each error (`TotalGrows`). `OobInv` relates the sum the loop
has built so far to what the files it is done with show, from above, and with
those to come from below; with it `BurstReported` is arithmetic. `HostInv` says
that every result of the present run, and every sample of the last file, is at
most what the device has counted, and that a metric that is left out on failure
is never less than it was, and that every adapter asked about has a port in the
results unless ibstat named it without one (`PortKnown`, `PortRemembered`).
`UpIsComplete` and `CountersAreReal` follow. `WearRateReal` is about a
computation: the slope that least squares finds for any number of samples is
between the smallest and the largest step from one to the next, and 0 just when
there was no wear. Sums are functions defined by recursion, and what they add up
to is shown by induction over a *set* of numbers (`UpTo`, from the minimum of
its complement) instead of over a formula, which the provers cannot do:
`PartialExists` and `PartialAgree` give every prefix its sum, `SumLinear` and
`SumOfNext` how sums combine. `CovSign` is Chebyshev's inequality: the
covariance of two sequences that rise together has their sign. If the fitted
line were steeper than every step of the samples, the difference of the two
would rise, and so have a positive covariance with the times, but the fit makes
it zero; the other bound is the same with the signs changed (`NotSteeper`).
`WearInv` says what the samples of a device are: its wear, in time order, with
gaps. The proof found an overlap in an earlier form of the model's
`predict_device`, a CASE two of whose guards could hold at once.

`TelemetryProofs` (assumptions: at least one attempt is counted; a counter with a
positive range; at least one training; a limit on the correlator's keys above
their number, which is 12 against 100 in the code). `AnnOneAttempt` is inductive
with the types. `RaplHonest` needs that the counter still has the first reading
when the second is taken, and `DeltaBound`: what a counter shows modulo its
range is no more than what it would have shown. `MlForecastFresh` needs `MlInv`:
the model on disk is torn or at least as new as the metadata on disk and as
those the exporter has loaded, because `save_model` writes the metadata last.
For the correlator `CorrInv` says that stamps follow the order of the lines,
among the events taken and in the pipe, and that the window holds every event
taken that has not expired. `KeysFinite` bounds the keys, so none is ever
cleared (`KeysAreNeverCleared`); `CountThree` and `ThreeCount` turn a count into
three events and back, which gives `NoFalseCorrelation` and `NoMissedStorm`.

TLC checked the larger inductive invariants before they were proved: `IInv` of
`Remediation` in the 1,775,636 states of its run, `DeletionInv`, `OobInv`,
`HostInv` and `CorrInv` on instances of the same size as in the runs.

Only model-checked, and why:

- Liveness (`EventuallyCounted`, `RasEventuallyLogged`, `EventuallyUp`, `RequestAnswered`,
  `MlConverges`): fairness and ENABLED are out of the prover's reach.
- The six disagreements: they are counterexamples, which TLC shows.

## Plan

Done: the driver, remediation, boot failover, the watchdog example, the
restart operator, the recovery webhook, and the programs that observe, predict
and report.

Every safety property that a passing run checks is proved, and of the abstract
specifications (`RateLimiter`, `ErrorLedger`, `CooldownTable`) that they are
implemented.

1. Proofs: a refinement of the two pollers to a delivery at most once and at
   least once.
2. `ExporterScrape`, `CardinalityGuard`, `EbpfPipeline`: the exporter under
   concurrent scrapes; the path from tracepoint to metric.
3. The pre-install gate and the watchdog daemon.

## Not modelled

- **Leader election**: nothing in the repository uses it, and whether the API
  server accepts its PUT without a `resourceVersion` decides everything.
- **Connection monitor**: after `nmcli connection down` NetworkManager's own
  policy decides whether a profile comes back, which the repository does not
  show.
- **Fits and scores** (`fit_model` itself, survival analysis, z-scores, DIMM
  aging, GPU failure predictor): floating point. The wear predictor is modelled
  because its line is a ratio of sums of integers.
- **Sensor, rasdaemon and BERT exporters**: one query, no state.
- **The text of a metric**: labels, HELP lines and numbers with decimals. The
  files whose names have hyphens call or repeat the ones with underscores.
- Fault injection, chaos and CI scripts drive external tools.

`PROJECT.json` lists every part.
