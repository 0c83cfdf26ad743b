----------------------------- MODULE TimeUsage -----------------------------
(***************************************************************************)
(* usage/time.go: how long each status lasted within a span of time, from  *)
(* the events of its changes, of which old ones are thrown away when a     *)
(* span has been counted.  A method runs under one lock from end to end.   *)
(* The data that callers put beside a status is left out.                  *)
(***************************************************************************)
EXTENDS Integers, FiniteSets, SequencesExt

CONSTANTS
  Statuses,
  MaxTime,   \* bound on the clock
  MaxUpdates \* bound on the events

ASSUME TimeUsageAssumption ==
  /\ Statuses \subseteq Nat
  /\ MaxTime \in Nat
  /\ MaxUpdates \in Nat

VARIABLES
  ds,    \* the events kept
  clock,
  log,   \* history: all events
  floor  \* history: the end of the last span that was counted and cleaned

usageVars == <<ds, clock, log, floor>>

\* The status before any event.
NoStatus == 0

AnyStatus == Statuses \cup {NoStatus}
Spans == {span \in (0 .. MaxTime) \X (0 .. MaxTime) : span[1] <= span[2]}

UsageInit ==
  /\ ds = <<>> /\ log = <<>>
  /\ clock = 0 /\ floor = 0
-----------------------------------------------------------------------------
\* One event of the loop of DoStatistics: before what was counted last it sets
\* the status, until tsE it closes a stretch, from tsE on it is left.
Event(acc, f, idx, tsE) ==
  IF f.at < acc.last THEN [acc EXCEPT !.status = f.status]
  ELSE IF tsE <= f.at THEN acc
  ELSE [last |-> f.at, lastIdx |-> idx, status |-> f.status,
        durations |-> [acc.durations EXCEPT ![acc.status] = @ + (f.at - acc.last)]]

Counted(tsB, tsE) ==
  LET after[i \in 0 .. Len(ds)] ==
        IF i = 0 THEN [last |-> tsB, lastIdx |-> 1, status |-> NoStatus,
                       durations |-> [s \in AnyStatus |-> 0]]
        ELSE Event(after[i - 1], ds[i], i, tsE)
      end == after[Len(ds)]
  IN [lastIdx |-> end.lastIdx,
      durations |-> [end.durations EXCEPT ![end.status] = @ + (tsE - end.last)]]

\* Mutant: keeps only what comes after the last event counted.
CleanedAfterLast(tsB, tsE) ==
  IF ds = <<>> THEN ds ELSE SubSeq(ds, Counted(tsB, tsE).lastIdx + 1, Len(ds))

\* The last event counted is kept: it is the status at the next span's start.
Cleaned(tsB, tsE) ==
  IF ds = <<>> THEN ds ELSE SubSeq(ds, Counted(tsB, tsE).lastIdx, Len(ds))
-----------------------------------------------------------------------------
Update(status) ==
  /\ Len(log) < MaxUpdates
  /\ ds' = Append(ds, [status |-> status, at |-> clock])
  /\ log' = Append(log, [status |-> status, at |-> clock])
  /\ UNCHANGED <<clock, floor>>

DoStatisticsAndClean(tsB, tsE) ==
  /\ ds' = Cleaned(tsB, tsE)
  /\ floor' = IF tsE > floor THEN tsE ELSE floor
  /\ UNCHANGED <<clock, log>>

Pass ==
  /\ clock < MaxTime
  /\ clock' = clock + 1
  /\ UNCHANGED <<ds, log, floor>>

UsageNext ==
  \/ \E s \in Statuses : Update(s)
  \/ \E span \in Spans : DoStatisticsAndClean(span[1], span[2])
  \/ Pass

UsageSpec == UsageInit /\ [][UsageNext]_usageVars
-----------------------------------------------------------------------------
\* The status at an instant, from all events.
StatusAt(t) ==
  LET before == {i \in DOMAIN log : log[i].at <= t}
  IN IF before = {} THEN NoStatus ELSE log[Max(before)].status

\* What is counted for a span is how long each status really lasted in it,
\* whatever was cleaned away before, for every span that starts where the ones
\* cleaned ended or later (DoStatistics, and ds[lastIdx:]).
UsageExact ==
  \A span \in Spans : floor <= span[1] =>
    \A s \in AnyStatus :
      Counted(span[1], span[2]).durations[s] =
        Cardinality({t \in span[1] .. (span[2] - 1) : StatusAt(t) = s})
=============================================================================
