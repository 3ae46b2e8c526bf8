--------------------------- MODULE HostCollectors ---------------------------
(***************************************************************************)
(* The collectors that a timer runs on a host: storage/*_collector.py,     *)
(* network/*_collector.py, gpu/*_collector.py and power_cxl/{pmem,misc}_*. *)
(* Each asks a tool or sysfs about every device, and emit_metrics renders  *)
(* what it was told as the series of a .prom file.  Of the counters of a   *)
(* device, which the code treats alike, one stands for all; n is its value *)
(* at the device.                                                          *)
(***************************************************************************)
EXTENDS Integers, FiniteSets

\* What a query brings: "ok" the value; "odd" a reply in which the value is
\* missing or not a number; "bad" a reply of the wrong shape; "fail" no
\* reply: the tool is absent, exits with an error or times out, or the file
\* cannot be read.
Reply == {"ok", "odd", "bad", "fail"}

\* A device is asked twice; flag is the yes or no the collector asks for.
Answer == [first : Reply, second : Reply, flag : BOOLEAN]

None == -1
Told(reply, value) == IF reply = "ok" THEN value ELSE None
OrZero(reply, value) == IF reply = "ok" THEN value ELSE 0
Bit(b) == IF b THEN 1 ELSE 0

\* One line per device whose result has a value for the field.
Series(metric, res, field) ==
  {[metric |-> metric, dev |-> d, value |-> res[d][field]] :
     d \in {e \in DOMAIN res : res[e][field] # None}}

Output(up, series) == [up |-> up, series |-> series]

-----------------------------------------------------------------------------
(***************************************************************************)
(* storage/nvme_collector.py: first is smart-log, second is error-log.     *)
(***************************************************************************)
KELVIN_OFFSET == 273
Kelvin == 313        \* what every drive measures

\* Mutant: a counter that is not in the reply is 0.
parse_smart_log_zero(reply, n) ==
  [media_errors |-> OrZero(reply, n),
   temperature  |-> IF reply \in {"ok", "odd"} THEN Kelvin - KELVIN_OFFSET ELSE None]

parse_smart_log(reply, n) ==
  [media_errors |-> Told(reply, n),
   temperature  |-> IF reply \in {"ok", "odd"} THEN Kelvin - KELVIN_OFFSET ELSE None]

\* The log holds an entry per error; what cannot be parsed is an empty log.
count_error_log_entries(reply, n) == OrZero(reply, n)

\* The fields of a reply that is not an object cannot be asked for: the
\* exception leaves the device out.
nvme_raises(a) == a.first = "bad"
nvme_collect_device(n, a) ==
  LET smart == parse_smart_log(a.first, n)
  IN  [media_errors    |-> smart.media_errors,
       temperature     |-> smart.temperature,
       error_log_count |-> count_error_log_entries(a.second, n)]

nvme_emit_metrics(res, up) ==
  Output(up,
    Series("nvme_smart_media_errors_total", res, "media_errors") \cup
    Series("nvme_smart_temperature_celsius", res, "temperature") \cup
    Series("nvme_error_log_entries_total", res, "error_log_count"))

\* found: nvme is installed and some device is listed.
nvme_main(found, res) ==
  IF found THEN nvme_emit_metrics(res, DOMAIN res # {})
  ELSE nvme_emit_metrics(<<>>, FALSE)

-----------------------------------------------------------------------------
(***************************************************************************)
(* storage/sata_collector.py: first is smartctl -A, second is -H; flag:    *)
(* the rotational file says 0, so the drive is known to be an SSD.         *)
(***************************************************************************)
read_rotational(a) == IF a.flag THEN 0 ELSE 1

\* Attributes 231 and 233 are left out for a spinning disk.
parse_smart_attributes(reply, n, rotational) ==
  [reallocated |-> Told(reply, n),
   ssd_life    |-> IF rotational = 1 THEN None ELSE Told(reply, n)]

\* Anything but a plain "passed" is a failed drive, no answer too.
parse_smart_health(reply) == Bit(reply = "ok")

sata_raises(a) == "bad" \in {a.first, a.second}
sata_collect_device(n, a) ==
  LET attributes == parse_smart_attributes(a.first, n, read_rotational(a))
  IN  [reallocated  |-> attributes.reallocated,
       ssd_life     |-> attributes.ssd_life,
       smart_passed |-> parse_smart_health(a.second),
       rotational   |-> read_rotational(a)]

sata_emit_metrics(res, up) ==
  Output(up,
    Series("sata_smart_attribute", res, "reallocated") \cup
    Series("sata_smart_attribute_ssd", res, "ssd_life") \cup
    Series("sata_smart_passed", res, "smart_passed") \cup
    Series("sata_rotational", res, "rotational"))

sata_main(found, res) ==
  IF found THEN sata_emit_metrics(res, DOMAIN res # {})
  ELSE sata_emit_metrics(<<>>, FALSE)

-----------------------------------------------------------------------------
(***************************************************************************)
(* storage/controller_collector.py: one storcli call tells of every        *)
(* MegaRAID controller; the up line is about the drivers alone.            *)
(***************************************************************************)
DRIVER_MEGARAID == "megaraid_sas"

\* The drivers whose sysfs directory exists, is readable and not empty.
detect_drivers(loaded) == loaded \cap {DRIVER_MEGARAID, "hpsa", "aacraid"}

\* One entry of the wrong shape raises, and main goes on without any.
collect_megaraid(counts, a) ==
  [d \in {e \in DOMAIN a : \A f \in DOMAIN a : a[f].first \in {"ok", "odd"}} |->
     [ecc_correctable |-> Told(a[d].first, counts[d])]]

controller_emit_metrics(drivers, res) ==
  Output(drivers # {},
    Series("storage_controller_ecc_errors_total", res, "ecc_correctable"))

controller_main(loaded, res) ==
  LET drivers == detect_drivers(loaded)
  IN  controller_emit_metrics(drivers,
        IF DRIVER_MEGARAID \in drivers THEN res ELSE <<>>)

-----------------------------------------------------------------------------
(***************************************************************************)
(* network/ib_collector.py: first is ibstat, second perfquery; flag: the   *)
(* port is Active.  One port per adapter.                                  *)
(***************************************************************************)
\* The header of the adapter makes it known; its port is known from a Port
\* section, which may lack the State line ("odd") or be missing ("bad").
HeaderOnly(a) == a.first = "bad"
parse_ibstat(a) == [known  |-> a.first # "fail",
                    port   |-> a.first \in {"ok", "odd"},
                    active |-> a.first = "ok" /\ a.flag]

\* A counter that the output does not show, or not as a number, is 0.
parse_perfquery(reply, n) == OrZero(reply, n)

\* perfquery is asked only for an Active port; if it fails the port has no
\* counters.
ib_collect_device_metrics(n, a) ==
  LET port == parse_ibstat(a)
  IN  [ibstat_ok |-> port.known,
       state     |-> IF port.port THEN Bit(port.active) ELSE None,
       counters  |-> IF port.active /\ a.second # "fail"
                     THEN parse_perfquery(a.second, n) ELSE None]

ib_emit_metrics(up, res) ==
  Output(up,
    IF up THEN Series("ib_port_state", res, "state") \cup
               Series("ib_port_error_total", res, "counters")
    ELSE {})

\* Mutant: one adapter that answers is enough.
ib_main_any(found, res) ==
  ib_emit_metrics(found /\ \E d \in DOMAIN res : res[d].ibstat_ok, res)

\* One adapter that ibstat cannot tell of takes the whole collector down.
ib_main(found, res) ==
  ib_emit_metrics(found /\ \A d \in DOMAIN res : res[d].ibstat_ok, res)

-----------------------------------------------------------------------------
(***************************************************************************)
(* network/nic_collector.py: first is the sysfs file, second ethtool -S;   *)
(* flag: the driver is a RoCE driver.                                      *)
(***************************************************************************)
read_sysfs_stat(reply, n) == OrZero(reply, n)
is_roce_interface(a) == a.flag
collect_ethtool_roce(reply, n) == Told(reply, n)

collect_interface_stats(n, a) ==
  [rx_errors |-> read_sysfs_stat(a.first, n),
   roce      |-> IF is_roce_interface(a) THEN collect_ethtool_roce(a.second, n)
                 ELSE None]

nic_emit_metrics(found, res) ==
  Output(found,
    IF found THEN Series("nic_errors_total", res, "rx_errors") \cup
                  Series("roce_errors_total", res, "roce")
    ELSE {})

nic_main(found, res) ==
  IF found THEN nic_emit_metrics(TRUE, res) ELSE nic_emit_metrics(FALSE, <<>>)

-----------------------------------------------------------------------------
(***************************************************************************)
(* gpu/nvidia_xid_collector.py: first is dmon, second the ECC query; flag: *)
(* an XID is shown for the GPU, by dmon or, if dmon fails, in /proc.       *)
(***************************************************************************)
\* Without an xid column, or with something else in it, there is no event.
parse_dmon_xid(a) == a.flag /\ a.first = "ok"

collect_xid_errors(a) ==
  IF a.first = "fail" THEN Bit(a.flag) ELSE Bit(parse_dmon_xid(a))

\* "N/A" counts as 0; a row that is no number is left out.
collect_ecc_counts(reply, n) ==
  CASE reply = "ok" -> n
    [] reply = "odd" -> 0
    [] OTHER -> None

xid_collect(counts, a) ==
  [d \in DOMAIN a |->
     [xid |-> IF collect_xid_errors(a[d]) = 1 THEN 1 ELSE None,
      sbe |-> collect_ecc_counts(a[d].second, counts[d])]]

xid_emit_metrics(present, res) ==
  Output(present,
    IF present THEN Series("gpu_xid_error_total", res, "xid") \cup
                    Series("gpu_ecc_sbe_total", res, "sbe")
    ELSE {})

xid_main(present, res) == xid_emit_metrics(present, IF present THEN res ELSE <<>>)

-----------------------------------------------------------------------------
(***************************************************************************)
(* gpu/nvidia_throttle_collector.py: one query; flag: the reason is        *)
(* "Active".                                                               *)
(***************************************************************************)
\* "Not Active" and "N/A" are both 0.
parse_active(a) == Bit(a.first = "ok" /\ a.flag)

\* A row with too few columns is left out, a number that is none is 0.
collect_throttle_data(counts, a) ==
  [d \in {e \in DOMAIN a : a[e].first \in {"ok", "odd"}} |->
     [active |-> parse_active(a[d]), clock |-> OrZero(a[d].first, counts[d])]]

throttle_emit_metrics(present, res) ==
  Output(present,
    IF present THEN Series("gpu_throttle_active", res, "active") \cup
                    Series("gpu_clock_mhz", res, "clock")
    ELSE {})

throttle_main(present, res) ==
  throttle_emit_metrics(present, IF present THEN res ELSE <<>>)

-----------------------------------------------------------------------------
(***************************************************************************)
(* gpu/amd_collector.py: first is a file in ras/, second gpu_busy_percent. *)
(***************************************************************************)
\* A line that is not there, or no number, brings no count.
parse_ras_file(reply, n) == Told(reply, n)

amd_collect_card(n, a) ==
  [ras |-> parse_ras_file(a.first, n), utilization |-> Told(a.second, n)]

amd_emit_metrics(present, res) ==
  Output(present,
    IF present THEN Series("amd_gpu_ras_error_total", res, "ras") \cup
                    Series("amd_gpu_utilization_percent", res, "utilization")
    ELSE {})

\* found: the module is loaded and a card has AMD's vendor id.
amd_main(found, res) == amd_emit_metrics(found, IF found THEN res ELSE <<>>)

-----------------------------------------------------------------------------
(***************************************************************************)
(* power_cxl/pmem_collector.py: first is ndctl's list of healths, second   *)
(* that of media errors, with an entry per error.                          *)
(***************************************************************************)
\* An entry without a device or a health is left out.
parse_health_output(reply, n) ==
  [listed |-> reply \in {"ok", "odd"}, unsafe_shutdowns |-> Told(reply, n)]

count_media_errors(reply, n) == OrZero(reply, n)

\* A device with media errors is shown even without a health.
pmem_collect(counts, a) ==
  [d \in DOMAIN a |->
     LET health == parse_health_output(a[d].first, counts[d])
         errors == count_media_errors(a[d].second, counts[d])
     IN  [listed |-> health.listed,
          unsafe_shutdowns |-> health.unsafe_shutdowns,
          media_errors |-> IF health.listed \/ errors > 0 THEN errors ELSE None]]

pmem_emit_metrics(up, res) ==
  Output(up, Series("pmem_unsafe_shutdowns_total", res, "unsafe_shutdowns") \cup
             Series("pmem_media_errors_total", res, "media_errors"))

pmem_main(res) ==
  IF \E d \in DOMAIN res : res[d].listed THEN pmem_emit_metrics(TRUE, res)
  ELSE pmem_emit_metrics(FALSE, <<>>)

-----------------------------------------------------------------------------
(***************************************************************************)
(* power_cxl/misc_hardware_collector.py: first is aer_dev_correctable,     *)
(* second aer_dev_fatal.  The lines about no device are left out.          *)
(***************************************************************************)
\* A file that is absent or unreadable, or a line without a number, adds 0.
parse_aer_file(reply, n) == OrZero(reply, n)

collect_pcie_aer(n, a) ==
  [correctable |-> parse_aer_file(a.first, n), fatal |-> parse_aer_file(a.second, n)]

\* Always up.
misc_emit_metrics(res) ==
  Output(TRUE, Series("pcie_aer_correctable_total", res, "correctable") \cup
               Series("pcie_aer_fatal_total", res, "fatal"))
=============================================================================
