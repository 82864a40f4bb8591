--------------------------------- MODULE Bars ---------------------------------
(***************************************************************************)
(* What a strategy can read of one instrument's day: the quote as of now   *)
(* (QuoteColumns, MarketView), bars over the day's whole column            *)
(* (BarSeries), indicators over the bars (BarIndicator) and the crossing   *)
(* conditions.  Bars and indicators are computed from prints that have not *)
(* happened yet; every accessor is gated by the time it is asked at, and a *)
(* day cut off at that time (TruncatedSession) must give the same answers. *)
(*                                                                         *)
(* The state is the column, which grows print by print, so every column up *)
(* to the bound is looked at.  A moving average is kept as the sum over    *)
(* its window; what is compared with it is multiplied by the period.       *)
(***************************************************************************)
EXTENDS Integers, Sequences, FiniteSetsExt, SequencesExt

CONSTANTS
  Interval,     \* length of a bar
  Anchor,       \* time the bar boundaries are counted from
  Source,       \* "last" or "mid"
  Period,       \* bars in the moving average's window
  Books,        \* what a print may say: [last, bid, ask, qty]
  DayEnd,       \* bound: prints happen at 0 .. DayEnd
  MaxPrints     \* bound: prints in the column

ASSUME BarsAssumption ==
  /\ {Interval, Period} \subseteq Nat \ {0}
  /\ {Anchor, DayEnd, MaxPrints} \subseteq Nat
  /\ Source \in {"last", "mid"}
  /\ Books \subseteq [last : Nat, bid : Nat, ask : Nat, qty : Nat]

VARIABLE tape     \* the prints of the day, in the order of time

Nothing == [none |-> TRUE]

-----------------------------------------------------------------------------
(* QuoteColumns and MarketView.                                             *)

\* A column has its prints in the order of time.
Ordered(prints) ==
  /\ prints \in Seq([ts : Nat, last : Nat, bid : Nat, ask : Nat, qty : Nat])
  /\ \A i, j \in DOMAIN prints : i <= j => prints[i].ts <= prints[j].ts

\* The number of prints at or before t; the last of them is the current one.
AtOrBefore(prints, t) == Cardinality({i \in DOMAIN prints : prints[i].ts <= t})

QuoteAt(prints, t, back) ==
  LET n == AtOrBefore(prints, t) IN IF back >= n THEN Nothing ELSE prints[n - back]

\* TruncatedSession::quotes.
Truncated(prints, cutoff) == SubSeq(prints, 1, AtOrBefore(prints, cutoff))

-----------------------------------------------------------------------------
(* BarSeries.                                                               *)

TwoSided(q) == q.bid > 0 /\ q.ask > 0

PriceOf(q) == IF Source = "mid" /\ TwoSided(q) THEN (q.bid + q.ask) \div 2 ELSE q.last

BucketOf_Bug(t) ==
  LET delta == t - Anchor
  IN  IF delta >= 0 THEN delta \div Interval ELSE -((-delta) \div Interval)

\* Rounded down before the anchor too.
BucketOf(t) ==
  LET delta == t - Anchor
  IN  IF delta >= 0 THEN delta \div Interval ELSE -((-delta + Interval - 1) \div Interval)

FirstOf(q) ==
  LET open == Anchor + BucketOf(q.ts) * Interval
      px   == PriceOf(q)
  IN  [openTime |-> open, closeTime |-> open + Interval,
       open |-> px, high |-> px, low |-> px, close |-> px, volume |-> q.qty, observations |-> 1]

Joined(bar, q) ==
  LET px == PriceOf(q)
  IN  [bar EXCEPT !.high = Max({@, px}), !.low = Min({@, px}), !.close = px,
                  !.volume = @ + q.qty, !.observations = @ + 1]

\* A print with no price opens no bar and joins none.
WithPrint(bars, q) ==
  IF PriceOf(q) <= 0 THEN bars
  ELSE IF bars = <<>> \/ Last(bars).openTime # Anchor + BucketOf(q.ts) * Interval
  THEN Append(bars, FirstOf(q))
  ELSE [bars EXCEPT ![Len(bars)] = Joined(@, q)]

Build(prints) ==
  LET after[n \in 0 .. Len(prints)] == IF n = 0 THEN <<>> ELSE WithPrint(after[n - 1], prints[n])
  IN  after[Len(prints)]

\* Bars that have closed; one that closes now counts.
KnownCount(bars, t) == Cardinality({i \in DOMAIN bars : bars[i].closeTime <= t})

Completed(bars, t, back) ==
  LET k == KnownCount(bars, t) IN IF back >= k THEN Nothing ELSE bars[k - back]

\* The bar that q starts, in the interval of a stored one.
Started(stored, q) ==
  LET px == PriceOf(q)
  IN  [stored EXCEPT !.open = px, !.high = px, !.low = px, !.close = px,
                     !.volume = q.qty, !.observations = 1]

\* The first bar that has not closed, made again from the prints up to t.
Forming(prints, t) ==
  LET bars   == Build(prints)
      k      == KnownCount(bars, t)
      stored == bars[k + 1]
      upto   == AtOrBefore(prints, t)
      With(bar, q) ==
        IF q.ts < stored.openTime \/ PriceOf(q) <= 0 THEN bar
        ELSE IF bar = Nothing THEN Started(stored, q) ELSE Joined(bar, q)
      again[n \in 0 .. upto] == IF n = 0 THEN Nothing ELSE With(again[n - 1], prints[n])
  IN  IF k >= Len(bars) THEN Nothing
      ELSE IF t < stored.openTime THEN Nothing ELSE again[upto]

-----------------------------------------------------------------------------
(* Indicators and crossings.                                                *)

\* One value per bar; Nothing while the window is not full.
MovingSum(bars) ==
  LET running[i \in 0 .. Len(bars)] ==
        IF i = 0 THEN 0
        ELSE running[i - 1] + bars[i].close - (IF i > Period THEN bars[i - Period].close ELSE 0)
  IN  [i \in 1 .. Len(bars) |-> IF i >= Period THEN [sum |-> running[i]] ELSE Nothing]

LevelAt_Bug(bars, values, t, back) ==
  LET k == Min({KnownCount(bars, t) + 1, Len(bars)})
  IN  IF back >= k THEN Nothing ELSE values[k - back]

\* The level of the back-th last bar that has closed.
LevelAt(bars, values, t, back) ==
  LET k == KnownCount(bars, t) IN IF back >= k THEN Nothing ELSE values[k - back]

Crossed(price0, level0, price1, level1) ==
  price0 * Period <= level0.sum /\ price1 * Period > level1.sum

\* instant_cross, above: the last observation is over the level, the one before
\* it was not, each against the level known when it was made.
InstantCross(prints, t) ==
  LET bars     == Build(prints)
      values   == MovingSum(bars)
      now      == QuoteAt(prints, t, 0)
      previous == QuoteAt(prints, t, 1)
      level    == LevelAt(bars, values, t, 0)
  IN  /\ now # Nothing /\ previous # Nothing
      /\ level # Nothing
      /\ LET before == LevelAt(bars, values, previous.ts, 0)
         IN  before # Nothing /\ Crossed(previous.last, before, now.last, level)

\* bar_close_cross, above: the same of the last two bars that have closed.
BarCloseCross(prints, t) ==
  LET bars   == Build(prints)
      values == MovingSum(bars)
      b0 == Completed(bars, t, 0)
      b1 == Completed(bars, t, 1)
      l0 == LevelAt(bars, values, t, 0)
      l1 == LevelAt(bars, values, t, 1)
  IN  /\ b0 # Nothing /\ b1 # Nothing
      /\ l0 # Nothing /\ l1 # Nothing
      /\ Crossed(b1.close, l1, b0.close, l0)

-----------------------------------------------------------------------------

BarsInit == tape = <<>>

\* Observations are appended in the order of time; several may share one.
Observe ==
  /\ Len(tape) < MaxPrints
  /\ \E t \in (IF tape = <<>> THEN 0 ELSE Last(tape).ts) .. DayEnd, b \in Books :
       tape' = Append(tape, [ts |-> t, last |-> b.last, bid |-> b.bid, ask |-> b.ask, qty |-> b.qty])

BarsSpec == BarsInit /\ [][Observe]_tape

-----------------------------------------------------------------------------
(* Properties.                                                              *)

Asked == 0 .. DayEnd + Interval

\* Bars split the day: every print with a price is in one bar, the one whose
\* interval it falls into, whichever side of the anchor; a bar says of its prints
\* what they say, and a moving average is that of its window once it is full.
BarsAreOfTheirPrints ==
  LET bars == Build(tape)
      Of(bar) == {i \in DOMAIN tape : /\ PriceOf(tape[i]) > 0
                                      /\ bar.openTime <= tape[i].ts /\ tape[i].ts < bar.closeTime}
      PricesIn(bar) == {PriceOf(tape[i]) : i \in Of(bar)}
  IN  /\ \A b, c \in DOMAIN bars : b < c => bars[b].closeTime <= bars[c].openTime
      /\ \A i \in DOMAIN tape : PriceOf(tape[i]) > 0 => \E b \in DOMAIN bars : i \in Of(bars[b])
      /\ \A b \in DOMAIN bars :
           LET bar == bars[b]
           IN  /\ Of(bar) # {} /\ bar.observations = Cardinality(Of(bar))
               /\ bar.open = PriceOf(tape[Min(Of(bar))]) /\ bar.close = PriceOf(tape[Max(Of(bar))])
               /\ bar.high = Max(PricesIn(bar)) /\ bar.low = Min(PricesIn(bar))
               /\ bar.volume = SumFunctionOnSet([i \in DOMAIN tape |-> tape[i].qty], Of(bar))
      /\ \A b \in DOMAIN bars :
           MovingSum(bars)[b] =
             IF b < Period THEN Nothing
             ELSE [sum |-> SumFunctionOnSet([c \in DOMAIN bars |-> bars[c].close], b - Period + 1 .. b)]

\* Whatever is read of bars, all built from the whole day, is what the day cut off
\* at that time, or at any later one, gives: a completed bar at any offset, a
\* crossing of either kind, and the forming bar, which is the last bar of the day
\* as it is known so far.
BarReadingsAreCausal ==
  tape # <<>> =>
    \A t \in Asked :
      LET known == Build(Truncated(tape, t))
      IN  /\ \A back \in 0 .. 2 : Completed(Build(tape), t, back) = Completed(known, t, back)
          /\ Forming(tape, t) =
               IF known # <<>> /\ Last(known).closeTime > t THEN Last(known) ELSE Nothing
          /\ \A cutoff \in t .. DayEnd + Interval :
               /\ InstantCross(tape, t) = InstantCross(Truncated(tape, cutoff), t)
               /\ BarCloseCross(tape, t) = BarCloseCross(Truncated(tape, cutoff), t)
=============================================================================
