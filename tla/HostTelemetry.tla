--------------------------- MODULE HostTelemetry ---------------------------
(***************************************************************************)
(* The runs of one host collector after another.  The devices' counters    *)
(* move while it goes from device to device, and a device may fail, come   *)
(* and go at any time.                                                     *)
(***************************************************************************)
EXTENDS HostCollectors

CONSTANTS
  Dev,         \* devices: drives, adapters, interfaces or GPUs
  MaxCount     \* bound: the errors of a device

ASSUME HostAssumption == MaxCount \in Nat

VARIABLES
  collector,   \* which collector this host runs
  hw,          \* the counter at each device
  hostPc,      \* "idle", "read" or "emit"
  hostFound,   \* there is something to collect, and the tool for it
  hostList,    \* the devices that were listed
  hostTodo,    \* those still to be asked
  hostRes,     \* results so far, by device
  hostBare,    \* history: the adapters of which ibstat, asked in this run,
               \* showed no port
  prom         \* what the .prom file shows

hostVars ==
  <<collector, hw, hostPc, hostFound, hostList, hostTodo, hostRes, hostBare, prom>>

\* These ask about one device after the other, ...
OneByOne == {"nvme", "sata", "ib", "nic", "amd", "misc"}
\* ... and these with one command for all of them.
AllAtOnce == {"controller", "xid", "throttle", "pmem"}

HostInit ==
  /\ collector \in OneByOne \cup AllAtOnce
  /\ hw = [d \in Dev |-> 0]
  /\ hostPc = "idle" /\ hostFound = FALSE /\ hostList = {} /\ hostTodo = {}
  /\ hostRes = <<>> /\ hostBare = {} /\ prom = Output(FALSE, {})

HwError(d) ==
  /\ hw[d] < MaxCount
  /\ hw' = [hw EXCEPT ![d] = @ + 1]
  /\ UNCHANGED <<collector, hostPc, hostFound, hostList, hostTodo, hostRes, hostBare,
                 prom>>

-----------------------------------------------------------------------------
\* A directory of sysfs has entries of other kinds too; one that cannot be
\* read has no devices.
Other == "other"
Matching(readable, entries) == IF readable THEN entries \ {Other} ELSE {}

find_nvme_devices(readable, entries) == Matching(readable, entries)  \* nvme*
find_sata_devices(readable, entries) == Matching(readable, entries)  \* sd*
list_physical_interfaces(readable, entries) ==                       \* with a device
  Matching(readable, entries)

\* /sys/class/infiniband has adapters only.
list_ib_devices(readable, entries) == Matching(readable, entries)

\* The cards whose vendor file can be read and says AMD.
detect_amd_cards(readable, entries) == Matching(readable, entries)

Listed(readable, entries) ==
  CASE collector = "nvme" -> find_nvme_devices(readable, entries)
    [] collector = "sata" -> find_sata_devices(readable, entries)
    [] collector = "ib"   -> list_ib_devices(readable, entries)
    [] collector = "nic"  -> list_physical_interfaces(readable, entries)
    [] collector = "amd"  -> detect_amd_cards(readable, entries)
    [] collector = "misc" -> Matching(readable, entries)  \* with an AER file
    [] OTHER              -> Matching(TRUE, entries)

\* Whether there is anything to collect.  nvme and smartctl must be
\* installed; detect_ib looks into its directory before it is listed, which
\* may then fail; the GPUs are named by a query of their own; amdgpu must be
\* loaded.
Found(tool, devices) ==
  CASE collector \in {"nvme", "sata", "amd"} -> tool /\ devices # {}
    [] collector = "nic" -> devices # {}
    [] collector = "misc" -> TRUE
    [] OTHER -> tool

HostStart(tool, readable, entries) ==
  /\ hostPc = "idle"
  /\ hostFound' = Found(tool, Listed(readable, entries))
  /\ hostList' = IF hostFound' THEN Listed(readable, entries) ELSE {}
  /\ hostTodo' = hostList'
  /\ hostRes' = <<>> /\ hostBare' = {}
  /\ hostPc' = IF hostTodo' = {} THEN "emit" ELSE "read"
  /\ UNCHANGED <<collector, hw, prom>>

Raises(a) == \/ collector = "nvme" /\ nvme_raises(a)
             \/ collector = "sata" /\ sata_raises(a)

Collected1(n, a) ==
  CASE collector = "nvme" -> nvme_collect_device(n, a)
    [] collector = "sata" -> sata_collect_device(n, a)
    [] collector = "ib"   -> ib_collect_device_metrics(n, a)
    [] collector = "nic"  -> collect_interface_stats(n, a)
    [] collector = "amd"  -> amd_collect_card(n, a)
    [] collector = "misc" -> collect_pcie_aer(n, a)

\* The results with that of one more device.
With(res, d, r) == [e \in DOMAIN res \cup {d} |-> IF e = d THEN r ELSE res[e]]

\* The loop's body: a device whose collection raises is left out.
HostRead(d, a) ==
  /\ hostPc = "read" /\ collector \in OneByOne /\ d \in hostTodo
  /\ hostRes' = IF Raises(a) THEN hostRes ELSE With(hostRes, d, Collected1(hw[d], a))
  /\ hostBare' = IF collector = "ib" /\ HeaderOnly(a) THEN hostBare \cup {d} ELSE hostBare
  /\ hostTodo' = hostTodo \ {d}
  /\ hostPc' = IF hostTodo' = {} THEN "emit" ELSE "read"
  /\ UNCHANGED <<collector, hw, hostFound, hostList, prom>>

\* A command that fails tells of no device.
OneCommand(a) ==
  \A d, e \in DOMAIN a : /\ (a[d].first = "fail") = (a[e].first = "fail")
                         /\ (a[d].second = "fail") = (a[e].second = "fail")

HostReadAll(a) ==
  /\ hostPc = "read" /\ collector \in AllAtOnce /\ OneCommand(a)
  /\ hostRes' = CASE collector = "controller" -> collect_megaraid(hw, a)
                  [] collector = "xid"        -> xid_collect(hw, a)
                  [] collector = "throttle"   -> collect_throttle_data(hw, a)
                  [] collector = "pmem"       -> pmem_collect(hw, a)
  /\ hostTodo' = {}
  /\ hostPc' = "emit"
  /\ UNCHANGED <<collector, hw, hostFound, hostList, hostBare, prom>>

\* The end of main: the output, and the write of the .prom file.
HostMain ==
  CASE collector = "nvme"     -> nvme_main(hostFound, hostRes)
    [] collector = "sata"     -> sata_main(hostFound, hostRes)
    [] collector = "ib"       -> ib_main(hostFound, hostRes)
    [] collector = "nic"      -> nic_main(hostFound, hostRes)
    [] collector = "xid"      -> xid_main(hostFound, hostRes)
    [] collector = "throttle" -> throttle_main(hostFound, hostRes)
    [] collector = "amd"      -> amd_main(hostFound, hostRes)
    [] collector = "pmem"     -> pmem_main(hostRes)
    [] collector = "misc"     -> misc_emit_metrics(hostRes)
    [] collector = "controller" ->
         controller_main(IF hostFound THEN {DRIVER_MEGARAID} ELSE {}, hostRes)

HostEmit ==
  /\ hostPc = "emit"
  /\ prom' = HostMain
  /\ hostPc' = "idle" /\ hostTodo' = {} /\ hostRes' = <<>>
  /\ UNCHANGED <<collector, hw, hostFound, hostList, hostBare>>

HostNext ==
  \/ \E d \in Dev : HwError(d) \/ \E a \in Answer : HostRead(d, a)
  \/ \E tool, readable \in BOOLEAN, devices \in SUBSET Dev :
       HostStart(tool, readable, devices \cup {Other})
  \/ \E a \in [hostTodo -> Answer] : HostReadAll(a)
  \/ HostEmit

HostSpec == HostInit /\ [][HostNext]_hostVars

-----------------------------------------------------------------------------
\* A collector that says it is down shows no device, however many of them
\* answered.  An InfiniBand collector that says it is up shows the port state
\* of every adapter that was listed, whatever became of the others and of
\* perfquery, except of those that ibstat named without a port: such an
\* adapter does go missing while the collector looks healthy.
HostUpComplete ==
  hostPc = "idle" =>
    /\ ~prom.up => prom.series = {}
    /\ (collector = "ib" /\ prom.up) =>
         \A d \in hostList \ hostBare : \E s \in prom.series :
           s.dev = d /\ s.metric = "ib_port_state"

\* Counters that show 0 when their query fails.
ZeroOnFailure ==
  {"nvme_error_log_entries_total", "ib_port_error_total", "nic_errors_total",
   "gpu_ecc_sbe_total", "pmem_media_errors_total", "pcie_aer_correctable_total",
   "pcie_aer_fatal_total"}

\* The other counters.
SteadyCounter ==
  {"nvme_smart_media_errors_total", "storage_controller_ecc_errors_total",
   "roce_errors_total", "amd_gpu_ras_error_total", "pmem_unsafe_shutdowns_total"}

\* From run to run a counter never falls, which Prometheus would take for a
\* reset and count again, and it never shows errors the device has not
\* counted - whichever queries fail in between.  The counters that show 0
\* on a failed query do fall; for them only the second half holds.
HostCountersReal ==
  [][\A t \in prom'.series :
       t.metric \in ZeroOnFailure \cup SteadyCounter =>
         /\ t.value \in 0..hw[t.dev]
         /\ t.metric \in SteadyCounter =>
              \A s \in prom.series : (s.metric = t.metric /\ s.dev = t.dev)
                                       => t.value >= s.value]_hostVars
=============================================================================
