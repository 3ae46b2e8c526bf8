--------------------------- MODULE RaplCollector ---------------------------
(***************************************************************************)
(* power_cxl/rapl_collector.py: the power of a package is the difference   *)
(* of two readings of its energy counter, which wraps, taken a second      *)
(* apart; the package is throttled when that is above 95% of its limit.    *)
(***************************************************************************)
EXTENDS Integers

CONSTANTS
  Package,       \* RAPL domains, package level
  EnergyRange,   \* max_energy_range_uj, where the counter wraps
  MaxBurn,       \* bound: energy a package burns in a second
  Limits         \* power limits, 0 when none is set

ASSUME RaplAssumption ==
  EnergyRange \in Nat \ {0} /\ MaxBurn \in Nat /\ Limits \subseteq Nat

VARIABLES
  energy,        \* energy_uj of each package
  raplPc,        \* "idle", "first", "second" or "emit"
  raplTodo,      \* packages still to be read
  raplPkg,       \* the package being read
  raplE1,        \* e1
  raplRes,       \* results, with the energy really burned
  raplProm       \* what the .prom file shows

raplVars ==
  <<energy, raplPc, raplTodo, raplPkg, raplE1, raplRes, raplProm>>

-----------------------------------------------------------------------------
RaplInit ==
  /\ energy \in [Package -> 0..(EnergyRange - 1)]
  /\ raplPc = "idle" /\ raplTodo = {} /\ raplE1 = 0
  /\ raplPkg \in Package /\ raplRes = <<>>
  /\ raplProm = [up |-> FALSE, packages |-> <<>>]

NoReading == -1
NoLimit == -1

\* One of the sysfs files, or None.
read_int(ok, value) == IF ok THEN value ELSE NoReading

\* collect_rapl begins: the domains, without their sub-domains, if the
\* directory can be read.
RaplStart(domains) ==
  /\ raplPc = "idle"
  /\ raplTodo' = domains /\ raplRes' = <<>>
  /\ raplPc' = IF domains = {} THEN "emit" ELSE "first"
  /\ UNCHANGED <<energy, raplPkg, raplE1, raplProm>>

\* The next package; without a first reading it is passed over.
RaplFirst(p, ok) ==
  /\ raplPc = "first" /\ p \in raplTodo
  /\ raplTodo' = raplTodo \ {p}
  /\ raplPkg' = p /\ raplE1' = read_int(ok, energy[p])
  /\ raplPc' = CASE raplE1' # NoReading -> "second"
                 [] raplTodo' = {}      -> "emit"
                 [] OTHER               -> "first"
  /\ UNCHANGED <<energy, raplRes, raplProm>>

\* Mutant: the difference is taken modulo a range other than the counter's.
DeltaModulo(e1, e2) == (e2 - e1) % (2 * EnergyRange)

\* A counter that wrapped counts as no energy.
Delta(e1, e2) == IF e2 >= e1 THEN e2 - e1 ELSE 0

\* More than 95% of a limit that is known and not 0.
Throttled(power, limit) == limit # NoLimit /\ limit > 0 /\ 100 * power > 95 * limit

\* A second later: the other readings and the result.  The package burns
\* what it burns during the sleep, and its counter wraps.
RaplSecond(burn, ok, limit) ==
  /\ raplPc = "second"
  /\ energy' = [energy EXCEPT ![raplPkg] = (@ + burn) % EnergyRange]
  /\ LET e2 == read_int(ok, energy'[raplPkg])
         power == Delta(raplE1, e2)
         result == [power |-> power, limit |-> limit,
                    throttled |-> Throttled(power, limit), burnt |-> burn]
     IN  raplRes' = IF e2 = NoReading THEN raplRes
                    ELSE [p \in (DOMAIN raplRes) \cup {raplPkg} |->
                            IF p = raplPkg THEN result ELSE raplRes[p]]
  /\ raplPc' = IF raplTodo = {} THEN "emit" ELSE "first"
  /\ UNCHANGED <<raplTodo, raplPkg, raplE1, raplProm>>

\* collect_cpufreq: CPUs whose two frequencies could be read, and whose
\* maximum is not 0, have a ratio.
collect_cpufreq(cur, max) == cur # NoReading /\ max # NoReading /\ max # 0

\* emit_metrics and the end of main: up when either source had something.
RaplEmit(cur, max) ==
  /\ raplPc = "emit"
  /\ raplProm' = [up |-> DOMAIN raplRes # {} \/ collect_cpufreq(cur, max),
                  packages |-> raplRes]
  /\ raplPc' = "idle" /\ raplRes' = <<>> /\ raplE1' = 0
  /\ UNCHANGED <<energy, raplTodo, raplPkg>>

RaplNext ==
  \/ \E domains \in SUBSET Package : RaplStart(domains)
  \/ \E p \in Package, ok \in BOOLEAN : RaplFirst(p, ok)
  \/ \E burn \in 0..MaxBurn, ok \in BOOLEAN, limit \in Limits \cup {NoLimit} :
       RaplSecond(burn, ok, limit)
  \/ \E cur \in {NoReading, 1}, max \in {NoReading, 0, 1} : RaplEmit(cur, max)

RaplSpec == RaplInit /\ [][RaplNext]_raplVars

-----------------------------------------------------------------------------
\* The published power is never negative and never more than the package
\* burned, wherever the counter stood and wrapped, and a package is only
\* called throttled when it really burned more than 95% of its limit.  (One
\* that did may go unnoticed, when its counter wrapped.)
RaplThrottleReal ==
  \A p \in DOMAIN raplProm.packages :
    LET r == raplProm.packages[p]
    IN  /\ r.power \in 0..r.burnt
        /\ r.throttled => (r.limit > 0 /\ 100 * r.burnt > 95 * r.limit)
=============================================================================
