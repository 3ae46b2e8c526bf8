-------------------------- MODULE EventCorrelation --------------------------
(***************************************************************************)
(* correlation/dmesg_watcher.py piped into correlation/event_correlator.py.*)
(* The watcher stamps an event with its own clock when it reads the line;  *)
(* the correlator keeps the events whose stamp is at most WINDOW old by    *)
(* the clock at the time it gets round to them.  A correlation is          *)
(* annotated the first time it is detected.                                *)
(***************************************************************************)
EXTENDS Integers, Sequences, FiniteSets, Functions

CONSTANTS
  WINDOW,       \* CORRELATION_WINDOW_S, in ticks
  Line,         \* kernel lines: each is the set of patterns it matches
  MaxSeen,      \* seen_correlations is cleared above this (100)
  MaxTime,      \* bound: the clock
  MaxLines      \* bound: kernel lines

\* The order in which the watcher tries its patterns.  A line about an
\* uncorrectable CXL error also matches the pattern for correctable ones.
PATTERNS == <<"edac_ce", "edac_ue", "mce", "pcie_aer_correctable",
              "pcie_aer_nonfatal", "pcie_aer_fatal", "cxl_ce", "cxl_ue",
              "thermal_critical", "undervoltage">>
EventType == Range(PATTERNS)

\* 100 is more than there are keys: one for each type and two others.
ASSUME CorrAssumption ==
  /\ Line \subseteq SUBSET EventType
  /\ MaxSeen \in Nat /\ Len(PATTERNS) + 2 <= MaxSeen
  /\ WINDOW \in Nat /\ MaxTime \in Nat /\ MaxLines \in Nat

VARIABLES
  corrNow,      \* time.time(), of both processes
  corrLines,    \* lines logged so far
  corrPipe,     \* events between the watcher and the correlator
  corrBuf,      \* EventBuffer._events: only how many there are of a type
                \* matters, so their order is left out
  corrSeen,     \* seen_correlations
  corrAll       \* history: events the correlator took, and when

corrVars == <<corrNow, corrLines, corrPipe, corrBuf, corrSeen, corrAll>>

-----------------------------------------------------------------------------
\* line, the number of the kernel line, tells events apart that look alike.
Event == [line : Nat, type : EventType, ts : Nat]

CorrInit ==
  /\ corrNow = 0 /\ corrLines = 0 /\ corrPipe = <<>>
  /\ corrBuf = {} /\ corrSeen = {} /\ corrAll = {}

CorrTick ==
  /\ corrNow < MaxTime
  /\ corrNow' = corrNow + 1
  /\ UNCHANGED <<corrLines, corrPipe, corrBuf, corrSeen, corrAll>>

\* The type of a line: the first pattern it matches.
parse_dmesg_line(line) ==
  PATTERNS[CHOOSE i \in DOMAIN PATTERNS :
             PATTERNS[i] \in line /\ \A j \in 1..(i - 1) : PATTERNS[j] \notin line]

\* The kernel logs a line and the watcher reads it; other lines are dropped.
CorrWatch(line) ==
  /\ corrLines < MaxLines /\ line # {}
  /\ corrLines' = corrLines + 1
  /\ corrPipe' = Append(corrPipe, [line |-> corrLines',
                                  type |-> parse_dmesg_line(line), ts |-> corrNow])
  /\ UNCHANGED <<corrNow, corrBuf, corrSeen, corrAll>>

\* Mutant: nothing expires.
KeepAll(events) == events

\* EventBuffer._expire: the cutoff itself is kept.
Unexpired(events) == {e \in events : e.ts >= corrNow - WINDOW}

\* EventBuffer.count_by_type
Count(events, t) == Cardinality({e \in events : e.type = t})

\* Mutant: a storm takes more than three events.
DetectLate(events) ==
  {<<"event_storm", t>> : t \in {u \in EventType : Count(events, u) > 3}}

\* The keys of the correlations in the window.
detect_correlations(events) ==
  LET has(t) == Count(events, t) > 0
  IN  {k \in {<<"memory_multi_source", "">>} : has("edac_ce") /\ has("mce")}
      \cup
      {k \in {<<"pcie_memory_cascade", "">>} :
         has("pcie_aer_fatal") /\ has("edac_ue")}
      \cup
      {<<"event_storm", t>> : t \in {u \in EventType : Count(events, u) >= 3}}

\* The loop's body: the event joins the window, and every correlation not
\* seen before is pushed.  Whether a push succeeds makes no difference.
Correlate ==
  /\ corrPipe # <<>>
  /\ corrPipe' = Tail(corrPipe)
  /\ corrBuf' = Unexpired(corrBuf \cup {Head(corrPipe)})
  /\ LET seen == corrSeen \cup detect_correlations(corrBuf')
     IN  corrSeen' = IF Cardinality(seen) > MaxSeen THEN {} ELSE seen
  /\ corrAll' = corrAll \cup {[event |-> Head(corrPipe), at |-> corrNow]}
  /\ UNCHANGED <<corrNow, corrLines>>

\* The correlator waits for the next event.
CorrWait == corrPipe = <<>> /\ UNCHANGED corrVars

CorrNext ==
  CorrTick \/ (\E line \in Line : CorrWatch(line)) \/ Correlate \/ CorrWait

CorrSpec == CorrInit /\ [][CorrNext]_corrVars

-----------------------------------------------------------------------------
\* Three events the correlator took, in the order of their lines.
Triple == {t \in corrAll \X corrAll \X corrAll :
             t[1].event.line < t[2].event.line /\ t[2].event.line < t[3].event.line}
SameType(t) ==
  t[1].event.type = t[2].event.type /\ t[2].event.type = t[3].event.type

\* Whether both types were taken with stamps at most WINDOW apart.
Close(s, t) ==
  \E a, b \in corrAll :
    /\ a.event.type = s /\ b.event.type = t
    /\ a.event.ts - b.event.ts \in -WINDOW..WINDOW

\* No annotation without its cause: a storm had three events of its type,
\* and a cascade its two sources, stamped within one window - whatever the
\* delay of the pipe and however many events expired in between.  All three
\* rules of detect_correlations share CORRELATION_WINDOW_S: the 10 s and 30 s
\* that the file's docstring gives for the two cascades are not in the code,
\* and sources 10 to 60 s apart are annotated.
CorrSound ==
  \A key \in corrSeen :
    \/ key[1] = "memory_multi_source" /\ Close("edac_ce", "mce")
    \/ key[1] = "pcie_memory_cascade" /\ Close("pcie_aer_fatal", "edac_ue")
    \/ /\ key[1] = "event_storm"
       /\ \E t \in Triple : /\ SameType(t) /\ t[1].event.type = key[2]
                            /\ t[3].event.ts - t[1].event.ts <= WINDOW

\* A storm is never missed: if three events of a type are in the window
\* when the correlator takes the last of them, the storm is annotated by
\* then.  (Events that waited too long in the pipe do not count.)
CorrComplete ==
  \A t \in Triple :
    (SameType(t) /\ t[1].event.ts >= t[3].at - WINDOW)
      => <<"event_storm", t[1].event.type>> \in corrSeen
=============================================================================
