--------------------------- MODULE WearPredictor ---------------------------
(***************************************************************************)
(* storage/wear_predictor.py: it asks Prometheus for the wear of a drive   *)
(* over the last RANGE, fits a line by least squares and says when the     *)
(* drive will be worn out.  Fractions are kept as a numerator and a        *)
(* positive denominator; time is in samples.                               *)
(***************************************************************************)
EXTENDS Integers, Sequences, FiniteSets

CONSTANTS
  MIN_HISTORY,   \* MIN_HISTORY_HOURS, 72 h
  RANGE,         \* RANGE_SECONDS, 30 days
  MAX_DAYS,      \* the cap of a prediction
  FullWear,      \* 100 percent
  Soon,          \* 90 days
  MaxStep,       \* bound: wear added between two samples
  WearEnd        \* bound: the clock

ASSUME WearAssumption ==
  {MIN_HISTORY, RANGE, MAX_DAYS, FullWear, Soon, MaxStep, WearEnd} \subseteq Nat

VARIABLES
  wearNow,       \* the clock
  wear,          \* percentage used of the drive, which may exceed 100
  wearSeries,    \* the name under which Prometheus has it
  wearSamples,   \* its samples: <<time, value>>
  wearReplaced,  \* history: the drive was replaced
  wearProm       \* the last output: when, whether both queries were answered,
                 \* the samples of the drive, and its prediction if there is one

wearVars == <<wearNow, wear, wearSeries, wearSamples, wearReplaced, wearProm>>

-----------------------------------------------------------------------------
NVME_QUERY == "nvme_percentage_used"
SATA_QUERY == "sata_smart_value"

\* What the collectors of the repository call it.
NvmeSeries == "nvme_smart_percentage_used"
SataSeries == "sata_smart_attribute"

WearNothing == [at |-> 0, answered |-> FALSE, samples |-> <<>>, result |-> <<>>]

\* The samples come from the collectors here, or from another exporter that
\* uses a name the predictor asks for.
WearInit ==
  /\ wearNow = 0 /\ wear = 0 /\ wearSamples = <<>> /\ wearReplaced = FALSE
  /\ wearSeries \in {NVME_QUERY, SATA_QUERY, NvmeSeries, SataSeries}
  /\ wearProm = WearNothing

\* Time passes; the drive wears, and is scraped or not.
WearTick(step, scraped) ==
  /\ wearNow < WearEnd
  /\ wearNow' = wearNow + 1
  /\ wear' = wear + step
  /\ wearSamples' = IF scraped THEN Append(wearSamples, <<wearNow', wear'>>)
                    ELSE wearSamples
  /\ UNCHANGED <<wearSeries, wearReplaced, wearProm>>

\* Another drive takes its place and its name.
WearReplace ==
  /\ wear > 0
  /\ wear' = 0 /\ wearReplaced' = TRUE
  /\ UNCHANGED <<wearNow, wearSeries, wearSamples, wearProm>>

-----------------------------------------------------------------------------
\* The sum of the first n terms of a.
WearSum(a, n) ==
  LET sum[k \in 0..n] == IF k = 0 THEN 0 ELSE sum[k - 1] + a[k]
  IN  sum[n]

\* Mutant: a sum is not multiplied by the number of points.
ols_slope_short(points) ==
  LET n   == Len(points)
      sx  == WearSum([i \in 1..n |-> points[i][1]], n)
      sy  == WearSum([i \in 1..n |-> points[i][2]], n)
      sxy == WearSum([i \in 1..n |-> points[i][1] * points[i][2]], n)
      sxx == WearSum([i \in 1..n |-> points[i][1] * points[i][1]], n)
  IN  [num |-> n * sxy - sx * sy, den |-> n * sxx - sx]

\* The slope of y over x; den is 0 when there is none.
ols_slope_intercept(points) ==
  LET n   == Len(points)
      sx  == WearSum([i \in 1..n |-> points[i][1]], n)
      sy  == WearSum([i \in 1..n |-> points[i][2]], n)
      sxy == WearSum([i \in 1..n |-> points[i][1] * points[i][2]], n)
      sxx == WearSum([i \in 1..n |-> points[i][1] * points[i][1]], n)
  IN  [num |-> n * sxy - sx * sy, den |-> n * sxx - sx * sx]

\* Times are taken from the first sample.  A drive that is not wearing gets
\* no prediction, one past 100% has no days left.
predict_device(samples) ==
  LET t0     == samples[1][1]
      points == [i \in DOMAIN samples |-> <<samples[i][1] - t0, samples[i][2]>>]
      slope  == ols_slope_intercept(points)
      left   == FullWear - samples[Len(samples)][2]
      hours  == IF left < 0 THEN 0 ELSE left * slope.den   \* over slope.num
      none   == [insufficient |-> TRUE, slope |-> <<0, 1>>, days |-> <<0, 0>>,
                 prob_90d |-> FALSE]
  IN  IF points[Len(points)][1] < MIN_HISTORY \/ slope.den = 0 THEN none
      ELSE [insufficient |-> FALSE, slope |-> <<slope.num, slope.den>>,
            days |-> IF slope.num <= 0 THEN <<0, 0>>
                     ELSE IF hours > MAX_DAYS * slope.num THEN <<MAX_DAYS, 1>>
                     ELSE <<hours, slope.num>>,
            prob_90d |-> slope.num > 0 /\ hours < Soon * slope.num]

\* Prometheus' answer: nothing when it fails, or has no such series.
\* Its samples are in order of time, so those of the window are the last.
query_prometheus_range(query, ok) ==
  LET before == {i \in DOMAIN wearSamples : wearSamples[i][1] < wearNow - RANGE}
  IN  IF ok /\ query = wearSeries
      THEN SubSeq(wearSamples, Cardinality(before) + 1, Len(wearSamples))
      ELSE <<>>

\* A series without samples is left out.
extract_device_series(answers) == {a \in answers : a # <<>>}

\* main: both queries; the drive is in the answer of one of them at most.
WearRun(nvmeOk, sataOk) ==
  /\ LET found == extract_device_series(
                    {query_prometheus_range(NVME_QUERY, nvmeOk),
                     query_prometheus_range(SATA_QUERY, sataOk)})
         samples == IF found = {} THEN <<>> ELSE CHOOSE s \in found : TRUE
     IN  wearProm' = [at |-> wearNow, answered |-> nvmeOk /\ sataOk,
                      samples |-> samples,
                      result |-> IF found = {} THEN <<>>
                                 ELSE <<predict_device(samples)>>]
  /\ UNCHANGED <<wearNow, wear, wearSeries, wearSamples, wearReplaced>>

WearNext ==
  \/ \E step \in 0..MaxStep, scraped \in BOOLEAN : WearTick(step, scraped)
  \/ \E nvmeOk, sataOk \in BOOLEAN : WearRun(nvmeOk, sataOk)
  \/ WearReplace

WearSpec == WearInit /\ [][WearNext]_wearVars

-----------------------------------------------------------------------------
\* The wear and the time between two samples that follow each other.
WearRise(samples, i) == samples[i + 1][2] - samples[i][2]
WearSpan(samples, i) == samples[i + 1][1] - samples[i][1]

\* The wear rate that is published for a drive that was not replaced lies
\* between the slowest and the fastest rate in its history, gaps in the
\* scrapes or not; it is 0, with no prediction, just when there was no wear
\* in the window; and it is withheld only when the window is too short.
WearSlope ==
  (wearProm.result # <<>> /\ ~wearReplaced) =>
    LET s == wearProm.samples
        r == wearProm.result[1]
        Steps == 1..(Len(s) - 1)
    IN  IF r.insufficient THEN s[Len(s)][1] - s[1][1] < MIN_HISTORY \/ Len(s) = 1
        ELSE /\ \E i \in Steps : r.slope[1] * WearSpan(s, i) >= r.slope[2] * WearRise(s, i)
             /\ \E i \in Steps : r.slope[1] * WearSpan(s, i) <= r.slope[2] * WearRise(s, i)
             /\ (r.days[2] = 0) = (\A i \in Steps : WearRise(s, i) = 0)

\* A drive whose wear a collector has published for 72 hours, and lately,
\* gets a prediction or a line that says there is not enough data.
WearReported ==
  (wearProm.answered /\ wearSeries \in {NvmeSeries, SataSeries} /\
   wearSamples # <<>> /\ wearSamples[1][1] <= wearProm.at - MIN_HISTORY /\
   \E i \in DOMAIN wearSamples :
     wearSamples[i][1] \in (wearProm.at - RANGE)..wearProm.at)
    => wearProm.result # <<>>
=============================================================================
