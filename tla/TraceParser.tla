---------------------------- MODULE TraceParser ----------------------------
(***************************************************************************)
(* replay/parse_edac_trace.py: turns a kernel log into events.  A driver   *)
(* may print the location of an EDAC error, and the kernel prints the type *)
(* of an AER error, on a later line, where lines of other errors can come  *)
(* between; the parser looks ahead a few lines for them.                   *)
(***************************************************************************)
EXTENDS Integers, Sequences, FiniteSets, FiniteSetsExt

CONSTANTS
  EventTypes,  \* the sets of --event-types that are tried
  LocLines,    \* lookahead of _look_ahead_edac_location (3)
  TypeLines,   \* lookahead of _look_ahead_aer_type (5)
  MaxLog       \* bound: lines of the log

ASSUME TraceAssumption ==
  LocLines \in Nat \ {0} /\ TypeLines \in Nat \ {0} /\ MaxLog \in Nat

VARIABLES
  traceLog,    \* the lines of the log
  event_types, \* the types asked for
  traceEvents, \* the events of the last run
  traceRead    \* history: the lines of the log that it read

traceVars == <<traceLog, event_types, traceEvents, traceRead>>

-----------------------------------------------------------------------------
\* A line is the header of an error, a line with a location or an AER type,
\* or something else.  of is the header line whose location or type it
\* shows: itself for a header with the location inline, 0 if it shows none.
Edac == {"CE", "UE"}
Aer == {"AER_CE", "AER_UE"}
Header == Edac \cup Aer \cup {"MCE"}

TraceInit ==
  /\ traceLog = <<>> /\ event_types \in EventTypes
  /\ traceEvents = <<>> /\ traceRead = 0

\* The kernel logs an error, the location of an earlier one that has none
\* yet, the type of an earlier one, or something else.
LogLine(kind, of) ==
  /\ Len(traceLog) < MaxLog
  /\ traceLog' = Append(traceLog, [kind |-> kind, of |-> of])
  /\ UNCHANGED <<event_types, traceEvents, traceRead>>

LogError(kind, inline) ==
  LogLine(kind, IF inline /\ kind \in Edac THEN Len(traceLog) + 1 ELSE 0)

LogMore(i) ==
  /\ traceLog[i].of = 0
  /\ \A j \in (i + 1)..Len(traceLog) : traceLog[j].of # i
  /\ \/ traceLog[i].kind \in Edac /\ LogLine("location", i)
     \/ traceLog[i].kind \in Aer /\ LogLine("aer_type", i)

-----------------------------------------------------------------------------
\* The lines at or after i that match, the first of which is taken.
First(lines) == IF lines = {} THEN 0 ELSE traceLog[Min(lines)].of

\* Mutant: the last of the lines is left out.
look_ahead_edac_location_short(i) ==
  First({j \in (i + 1)..Min({i + LocLines - 1, Len(traceLog)}) :
           traceLog[j].kind \in Edac \cup {"location"} /\ traceLog[j].of # 0})

\* _look_ahead_edac_location: any line with a location, be it another
\* error's, inline or not.
look_ahead_edac_location(i) ==
  First({j \in (i + 1)..Min({i + LocLines, Len(traceLog)}) :
           traceLog[j].kind \in Edac \cup {"location"} /\ traceLog[j].of # 0})

look_ahead_aer_type(i) ==
  First({j \in (i + 1)..Min({i + TypeLines, Len(traceLog)}) :
           traceLog[j].kind = "aer_type"})

\* _make_edac_event searches the line, then the one that was looked up.
make_edac_event(i) ==
  IF traceLog[i].of # 0 THEN traceLog[i].of ELSE look_ahead_edac_location(i)

make_aer_event(i) == look_ahead_aer_type(i)

\* A header becomes an event; seq counts the events of every type.
parse_line(i) ==
  [type |-> traceLog[i].kind, line |-> i,
   seq  |-> Cardinality({j \in 1..(i - 1) : traceLog[j].kind \in Header}),
   of   |-> CASE traceLog[i].kind \in Edac -> make_edac_event(i)
              [] traceLog[i].kind \in Aer  -> make_aer_event(i)
              [] OTHER                     -> 0]

\* The events of the types asked for, in the order of their lines.
parse_file ==
  LET lines   == {i \in DOMAIN traceLog :
                    traceLog[i].kind \in Header \cap event_types}
      rank(i) == Cardinality({j \in lines : j <= i})
  IN  [k \in 1..Cardinality(lines) |->
         parse_line(CHOOSE i \in lines : rank(i) = k)]

\* main: the log so far is read, parsed and written out.
TraceRun ==
  /\ traceEvents' = parse_file
  /\ traceRead' = Len(traceLog)
  /\ UNCHANGED <<traceLog, event_types>>

TraceNext ==
  \/ \E kind \in Header, inline \in BOOLEAN : LogError(kind, inline)
  \/ \E i \in DOMAIN traceLog : LogMore(i)
  \/ LogLine("other", 0)
  \/ TraceRun

TraceSpec == TraceInit /\ [][TraceNext]_traceVars

-----------------------------------------------------------------------------
\* The lines that can show the location, or the type, of such an event.
DetailKinds(type) ==
  CASE type \in Edac -> Edac \cup {"location"}
    [] type \in Aer  -> {"aer_type"}
    [] OTHER         -> {}

Reach(type) == IF type \in Edac THEN LocLines ELSE TypeLines

\* The lines within reach after an event's own that the run read and that show
\* the location (or the type) of some error.
Telling(e) ==
  {j \in DOMAIN traceLog :
     /\ e.line < j /\ j <= e.line + Reach(e.type) /\ j <= traceRead
     /\ traceLog[j].of # 0 /\ traceLog[j].kind \in DetailKinds(e.type)}

\* Events keep the order of the log, and are numbered in it even when types
\* are left out.
EventsInOrder ==
  \A k, l \in DOMAIN traceEvents :
    k < l => /\ traceEvents[k].line < traceEvents[l].line
             /\ traceEvents[k].seq < traceEvents[l].seq

\* An event has its own location or type if its line shows it, or if a line
\* after it does, within reach and with no other error's before it.  It has
\* that of another error only if a line of that error's is within reach and
\* comes before any of its own.
EventFaithful(e) ==
  /\ traceLog[e.line].of = e.line => e.of = e.line
  /\ \A j \in Telling(e) :
       (traceLog[j].of = e.line /\ \A m \in Telling(e) : j <= m) => e.of = e.line
  /\ e.of \notin {0, e.line} =>
       \E j \in Telling(e) :
         /\ traceLog[j].of = e.of
         /\ \A m \in Telling(e) : traceLog[m].of = e.line => j < m

\* The events follow the log, and take the location or type that the log
\* shows for them, inline or up to so many lines later, however the lines of
\* other errors come between.
TraceFaithful ==
  EventsInOrder /\ \A k \in DOMAIN traceEvents : EventFaithful(traceEvents[k])
=============================================================================
