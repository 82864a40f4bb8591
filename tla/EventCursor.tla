------------------------------ MODULE EventCursor ------------------------------
(***************************************************************************)
(* A session in memory (MemorySessionData), a part of it up to a cutoff    *)
(* (TruncatedSession), and the cursor that walks either in the order of    *)
(* time (EventCursor), with the loop every caller runs it in: the distinct *)
(* times of the events are the steps of a replay, derived from a cursor or *)
(* taken from the timeline the session has cached.                         *)
(*                                                                         *)
(* A cursor walks the order a session has cached, or merges the columns on *)
(* a heap when there is none.  The heap is a set: its comparison is a      *)
(* strict total order on runs of different instruments, so whatever its    *)
(* layout it gives up the least.  What a row holds besides its time is     *)
(* left out.  Rows count from 1.  Nobody appends while a cursor walks.     *)
(***************************************************************************)
EXTENDS Integers, Sequences, FiniteSets

CONSTANTS
  Instruments,    \* instrument ids
  LastTime,       \* bound: times are 0 .. LastTime
  MaxRows         \* bound: rows in the session

ASSUME CursorAssumption ==
  /\ Instruments \subseteq Nat /\ IsFiniteSet(Instruments)
  /\ {LastTime, MaxRows} \subseteq Nat

Times == 0 .. LastTime

VARIABLES
  column,     \* column[i]: the times of instrument i's rows
  order,      \* the cached order, empty if there is none
  timeline,   \* the cached distinct times
  count,      \* count[i]: the rows of i the replayed session shows
  cutoff,     \* time it was cut off at, LastTime for all of it
  mode,       \* "none", "walk" or "merge" of a cursor, "timeline" of a loop without one
  heap,       \* the runs being merged
  emitted,    \* the events the cursor has yielded
  steps       \* the distinct times the caller has derived from them

data == <<column, order, timeline>>
view == <<count, cutoff>>
vars == <<column, order, timeline, count, cutoff, mode, heap, emitted, steps>>

EventAt(i, row) == [ts |-> column[i][row], instrument |-> i, row |-> row]

\* The events of a session that shows n[i] rows of each instrument i.
Events(n) == UNION {{EventAt(i, row) : row \in 1 .. n[i]} : i \in Instruments}

R == INSTANCE Replay WITH session <- Events(count), emitted <- emitted

Lengths == [i \in Instruments |-> Len(column[i])]

-----------------------------------------------------------------------------
(* The session.                                                             *)

Dropped_Bug(cached) == cached

\* A cached order is stale once a row is appended.
Dropped(cached) == <<>>

\* append: never back in time within an instrument.  MaxRows bounds the session.
AppendRow(i, t) ==
  /\ mode = "none"
  /\ Cardinality(Events(Lengths)) < MaxRows
  /\ column[i] # <<>> => t >= column[i][Len(column[i])]
  /\ column' = [column EXCEPT ![i] = Append(@, t)]
  /\ order' = Dropped(order) /\ timeline' = Dropped(timeline)
  /\ UNCHANGED <<view, mode, heap, emitted, steps>>

Ascending(s) == \A a, b \in DOMAIN s : a < b => R!Before(s[a], s[b])

Sortings(events) ==
  {s \in [1 .. Cardinality(events) -> events] :
     Ascending(s) /\ {s[k] : k \in DOMAIN s} = events}

\* A list of times with one more, unless it is the last one's again.
Distinct(times, t) == IF times # <<>> /\ times[Len(times)] = t THEN times ELSE Append(times, t)

DistinctTimes(sorted) ==
  LET upto[k \in 0 .. Len(sorted)] == IF k = 0 THEN <<>> ELSE Distinct(upto[k - 1], sorted[k].ts)
  IN  upto[Len(sorted)]

\* build_event_order: a sort, and the distinct times on a walk over its result.
BuildEventOrder ==
  /\ mode = "none"
  /\ \E sorted \in Sortings(Events(Lengths)) :
       /\ order' = sorted
       /\ timeline' = DistinctTimes(sorted)
  /\ UNCHANGED <<column, view, mode, heap, emitted, steps>>

UpTo_Bug(i, t, n) == \A row \in DOMAIN column[i] : row <= n <=> column[i][row] < t

\* The first n rows of an instrument are those at or before a cutoff.
UpTo(i, t, n) == \A row \in DOMAIN column[i] : row <= n <=> column[i][row] <= t

-----------------------------------------------------------------------------
(* The cursor.                                                              *)

RunAt(i, row, n) == [instrument |-> i, row |-> row, end |-> n[i], ts |-> column[i][row]]

RunBefore_Bug(a, b) == a.ts <= b.ts

\* RunGreater, turned round.
RunBefore(a, b) == a.ts < b.ts \/ (a.ts = b.ts /\ a.instrument < b.instrument)

\* A cursor over what the session holds: all of it, or up to a cutoff.  A session
\* cut off has no cached order.
Open(cached, n, t) ==
  /\ mode = "none"
  /\ count' = n /\ cutoff' = t
  /\ mode' = IF cached # <<>> THEN "walk" ELSE "merge"
  /\ heap' = IF cached # <<>> THEN {} ELSE {RunAt(i, 1, n) : i \in {j \in Instruments : n[j] > 0}}
  /\ emitted' = <<>> /\ steps' = <<>>
  /\ UNCHANGED data

OpenWhole == Open(order, Lengths, LastTime)

OpenTruncated ==
  \E t \in Times, n \in [Instruments -> 0 .. MaxRows] :
    /\ \A i \in Instruments : n[i] <= Len(column[i]) /\ UpTo(i, t, n[i])
    /\ Open(<<>>, n, t)

Yield(e) ==
  /\ emitted' = Append(emitted, e)
  /\ steps' = Distinct(steps, e.ts)
  /\ UNCHANGED <<data, view, mode>>

WalkNext ==
  /\ mode = "walk" /\ Len(emitted) < Len(order)
  /\ Yield(order[Len(emitted) + 1])
  /\ UNCHANGED heap

\* What goes back on the heap in the place of the run popped.
Advanced(run) == IF run.row < run.end THEN {RunAt(run.instrument, run.row + 1, count)} ELSE {}

MergeNext ==
  /\ mode = "merge"
  /\ \E run \in heap :
       /\ \A other \in heap \ {run} : RunBefore(run, other)
       /\ Yield([ts |-> run.ts, instrument |-> run.instrument, row |-> run.row])
       /\ heap' = (heap \ {run}) \cup Advanced(run)

\* The loops of a replay open no cursor on a session that has a timeline.
TakeTimeline ==
  /\ mode = "none" /\ timeline # <<>>
  /\ mode' = "timeline"
  /\ steps' = timeline
  /\ UNCHANGED <<data, view, heap, emitted>>

\* next returns false, or the timeline is at its end, and the caller's loop is over.
Exhausted ==
  /\ \/ mode = "walk" /\ Len(emitted) = Len(order)
     \/ mode = "merge" /\ heap = {}
     \/ mode = "timeline"
  /\ mode' = "none"
  /\ UNCHANGED <<data, view, heap, emitted, steps>>

-----------------------------------------------------------------------------

Init ==
  /\ column = [i \in Instruments |-> <<>>]
  /\ order = <<>> /\ timeline = <<>>
  /\ count = [i \in Instruments |-> 0] /\ cutoff = LastTime
  /\ mode = "none" /\ heap = {}
  /\ emitted = <<>> /\ steps = <<>>

Next ==
  \/ \E i \in Instruments, t \in Times : AppendRow(i, t)
  \/ BuildEventOrder
  \/ OpenWhole \/ OpenTruncated
  \/ WalkNext \/ MergeNext \/ TakeTimeline \/ Exhausted

Spec == Init /\ [][Next]_vars

-----------------------------------------------------------------------------
(* Properties.                                                              *)

Event == [ts : Times, instrument : Instruments, row : Nat]
Run   == [instrument : Instruments, row : Nat, end : Nat, ts : Times]

\* Columns are in the order of time, no cursor reads past what its session
\* shows, and an instrument has at most one run on the heap.
Shape ==
  /\ column \in [Instruments -> Seq(Times)]
  /\ \A i \in Instruments : \A a, b \in DOMAIN column[i] : a <= b => column[i][a] <= column[i][b]
  /\ order \in Seq(Event) /\ timeline \in Seq(Times)
  /\ count \in [Instruments -> Nat] /\ \A i \in Instruments : count[i] <= Len(column[i])
  /\ cutoff \in Times
  /\ mode \in {"none", "walk", "merge", "timeline"}
  /\ heap \subseteq Run
  /\ \A run \in heap : run.row \in 1 .. run.end /\ run.end = count[run.instrument]
  /\ \A a, b \in heap : a.instrument = b.instrument => a = b
  /\ emitted \in Seq(Event)

\* Merged or walked, whole or cut off, every event of the session is yielded once
\* and in the same total order, and the cursor stops only after the last.
Replays == R!Spec

TimesOf(n) == {e.ts : e \in Events(n)}

Rising(times) == \A a, b \in DOMAIN times : a < b => times[a] < times[b]

\* A cached order and timeline are never stale: they are a walk over what the columns
\* hold now, and the distinct times on it.
CacheIsCurrent ==
  /\ order # <<>> =>
       /\ Ascending(order)
       /\ {order[k] : k \in DOMAIN order} = Events(Lengths)
  /\ timeline # <<>> =>
       /\ Rising(timeline)
       /\ {timeline[k] : k \in DOMAIN timeline} = TimesOf(Lengths)
  /\ order = <<>> <=> timeline = <<>>

\* The steps of a replay are the times at which something printed, ascending, taken
\* from the timeline or derived from a cursor; a session cut off steps through those
\* of the whole session up to its cutoff, so a run on it sees the same instants.
StepsAreTheTimes ==
  LET stepped == {steps[k] : k \in DOMAIN steps}
  IN  /\ Rising(steps)
      /\ mode = "timeline" => stepped = TimesOf(Lengths)
      /\ mode \in {"walk", "merge"} /\ R!Left = {} => stepped = {t \in TimesOf(Lengths) : t <= cutoff}
=============================================================================
