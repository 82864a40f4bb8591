------------------------------ MODULE QuoteProofs ------------------------------
(***************************************************************************)
(* Of what is computed from a day's quotes: bars tell what the prints in   *)
(* their intervals say, and what a strategy reads of bars, averages,       *)
(* crossings and the chain at a time does not depend on what prints later. *)
(* For any columns, intervals, anchors and strikes.                        *)
(***************************************************************************)
EXTENDS Chain, FiniteLemmas

-----------------------------------------------------------------------------
(* Columns.                                                                  *)

LEMMA OrderedTypes ==
  ASSUME NEW rows, Ordered(rows)
  PROVE  /\ Len(rows) \in Nat /\ DOMAIN rows = 1 .. Len(rows) /\ (rows # <<>> <=> Len(rows) > 0)
         /\ \A i \in 1 .. Len(rows) : rows[i].ts \in Nat
         /\ \A i, j \in 1 .. Len(rows) : i <= j => rows[i].ts <= rows[j].ts
<1> DEFINE Rows == [ts : Nat, last : Nat, bid : Nat, ask : Nat, qty : Nat]
<1>1. rows \in Seq(Rows)
  BY DEF Ordered
<1>2. \A row \in Rows : row.ts \in Nat
  OBVIOUS
<1> HIDE DEF Rows
<1>3. /\ Len(rows) \in Nat /\ DOMAIN rows = 1 .. Len(rows) /\ (rows # <<>> <=> Len(rows) > 0)
      /\ \A i \in 1 .. Len(rows) : rows[i] \in Rows
  BY <1>1
<1>4. \A i, j \in 1 .. Len(rows) : i <= j => rows[i].ts <= rows[j].ts
  BY <1>3 DEF Ordered
<1>5. QED
  BY <1>2, <1>3, <1>4

\* The prints by a time are the first ones.
LEMMA PrintsBy ==
  ASSUME NEW rows, Ordered(rows), NEW t \in Nat
  PROVE  /\ AtOrBefore(rows, t) \in 0 .. Len(rows) /\ Len(rows) \in Nat
         /\ {i \in DOMAIN rows : rows[i].ts <= t} = 1 .. AtOrBefore(rows, t)
<1> DEFINE n == Len(rows)
           P == {i \in DOMAIN rows : rows[i].ts <= t}
<1>1. n \in Nat /\ DOMAIN rows = 1 .. n
  BY OrderedTypes
<1>2. /\ \A i \in 1 .. n : rows[i].ts \in Nat
      /\ \A i, j \in 1 .. n : i <= j => rows[i].ts <= rows[j].ts
  BY OrderedTypes
<1> HIDE DEF n
<1>3. P \in SUBSET (1 .. n)
  BY <1>1
<1>4. ASSUME NEW i \in 1 .. n, NEW j \in P, i <= j PROVE i \in P
  <2>1. j \in 1 .. n /\ rows[j].ts <= t
    BY <1>1
  <2>2. rows[i].ts <= rows[j].ts /\ rows[i].ts \in Nat /\ rows[j].ts \in Nat
    BY <1>2, <1>4, <2>1
  <2>3. rows[i].ts <= t
    BY <2>1, <2>2
  <2>4. QED
    BY <1>1, <2>3
<1>5. Cardinality(P) = AtOrBefore(rows, t)
  BY DEF AtOrBefore
<1> HIDE DEF P
<1>6. Cardinality(P) \in 0 .. n /\ P = 1 .. Cardinality(P)
  BY <1>1, <1>3, <1>4, InitialSegment
<1>7. QED
  BY <1>1, <1>5, <1>6 DEF P, n

-----------------------------------------------------------------------------
(* Bars.  The boundaries of bars are a grid; a print falls between two.      *)

Row == [ts : Nat, last : Nat, bid : Nat, ask : Nat, qty : Nat]
Bar == [openTime : Int, closeTime : Int, open : Int, high : Int, low : Int, close : Int,
        volume : Nat, observations : Nat]

\* The boundary before a time, or at it.
OpenOf(t) == Anchor + BucketOf(t) * Interval

LEMMA DivBounds ==
  ASSUME NEW a \in Nat, NEW d \in Nat \ {0}
  PROVE  a \div d \in Nat /\ (a \div d) * d <= a /\ a < (a \div d) * d + d
OBVIOUS

LEMMA BucketSpan ==
  ASSUME NEW t \in Nat
  PROVE  BucketOf(t) \in Int /\ OpenOf(t) \in Int /\ OpenOf(t) <= t /\ t < OpenOf(t) + Interval
<1> Interval \in Nat \ {0} /\ Anchor \in Nat
  BY BarsAssumption
<1>1. CASE t - Anchor >= 0
  <2> DEFINE q == (t - Anchor) \div Interval
  <2>1. q \in Nat /\ q * Interval <= t - Anchor /\ t - Anchor < q * Interval + Interval
    BY <1>1, DivBounds
  <2>2. BucketOf(t) = q
    BY <1>1 DEF BucketOf
  <2> HIDE DEF q
  <2>3. q * Interval \in Int
    BY <2>1
  <2>4. QED
    BY <2>1, <2>2, <2>3 DEF OpenOf
<1>2. CASE ~(t - Anchor >= 0)
  <2> DEFINE e == -(t - Anchor) + Interval - 1
             q == e \div Interval
  <2>1. e \in Nat
    BY <1>2
  <2>2. BucketOf(t) = -q
    BY <1>2 DEF BucketOf
  <2> HIDE DEF e
  <2>3. q \in Nat /\ q * Interval <= e /\ e < q * Interval + Interval
    BY <2>1, DivBounds
  <2> HIDE DEF q
  <2>4. q * Interval \in Int /\ (-q) * Interval = -(q * Interval)
    BY <2>3
  <2>5. QED
    BY <2>2, <2>3, <2>4 DEF OpenOf, e
<1>3. QED
  BY <1>1, <1>2

\* Of two boundaries the earlier is at least one interval before the later; times are
\* in the order of their boundaries.
LEMMA Grid ==
  ASSUME NEW t \in Nat, NEW u \in Nat
  PROVE  /\ OpenOf(t) < OpenOf(u) => OpenOf(t) + Interval <= OpenOf(u)
         /\ t <= u => OpenOf(t) <= OpenOf(u)
         /\ OpenOf(u) <= t => OpenOf(u) <= OpenOf(t)
<1> Interval \in Nat \ {0} /\ Anchor \in Nat
  BY BarsAssumption
<1> DEFINE a == BucketOf(t)
           b == BucketOf(u)
<1>1. a \in Int /\ b \in Int
  BY BucketSpan
<1>2. OpenOf(t) = Anchor + a * Interval /\ OpenOf(u) = Anchor + b * Interval
  BY DEF OpenOf
<1> HIDE DEF a, b
<1>3. a * Interval \in Int /\ b * Interval \in Int
  BY <1>1
<1>4. a >= b => a * Interval >= b * Interval
  BY <1>1
<1>5. a < b => a * Interval + Interval <= b * Interval
  <2> SUFFICES ASSUME a < b PROVE a * Interval + Interval <= b * Interval
    OBVIOUS
  <2>1. (a + 1) * Interval <= b * Interval
    BY <1>1
  <2>2. (a + 1) * Interval = a * Interval + Interval
    BY <1>1
  <2>3. QED
    BY <2>1, <2>2
<1>6. b < a => b * Interval + Interval <= a * Interval
  <2> SUFFICES ASSUME b < a PROVE b * Interval + Interval <= a * Interval
    OBVIOUS
  <2>1. (b + 1) * Interval <= a * Interval
    BY <1>1
  <2>2. (b + 1) * Interval = b * Interval + Interval
    BY <1>1
  <2>3. QED
    BY <2>1, <2>2
<1>7. /\ OpenOf(t) <= t /\ t < OpenOf(t) + Interval
      /\ OpenOf(u) <= u /\ u < OpenOf(u) + Interval
  BY BucketSpan
<1>8. OpenOf(t) \in Int /\ OpenOf(u) \in Int
  BY BucketSpan
<1>9. OpenOf(t) < OpenOf(u) => OpenOf(t) + Interval <= OpenOf(u)
  BY <1>1, <1>2, <1>3, <1>4, <1>5
<1>10. t <= u => OpenOf(t) <= OpenOf(u)
  BY <1>1, <1>2, <1>3, <1>5, <1>6, <1>7
<1>11. OpenOf(u) <= t => OpenOf(u) <= OpenOf(t)
  BY <1>1, <1>2, <1>3, <1>5, <1>6, <1>7
<1>12. QED
  BY <1>9, <1>10, <1>11

LEMMA PriceType == ASSUME NEW q \in Row PROVE PriceOf(q) \in Int
<1> q.last \in Nat /\ q.bid \in Nat /\ q.ask \in Nat
  BY DEF Row
<1>1. (q.bid + q.ask) \div 2 \in Int
  OBVIOUS
<1>2. QED
  BY <1>1 DEF PriceOf

LEMMA Extremes == ASSUME NEW a \in Int, NEW b \in Int PROVE Max({a, b}) \in Int /\ Min({a, b}) \in Int
<1>1. \E x \in {a, b} : \A y \in {a, b} : x >= y
  OBVIOUS
<1>2. \E x \in {a, b} : \A y \in {a, b} : x <= y
  OBVIOUS
<1>3. Max({a, b}) \in {a, b}
  BY <1>1 DEF Max
<1>4. Min({a, b}) \in {a, b}
  BY <1>2 DEF Min
<1>5. QED
  BY <1>3, <1>4

\* What a print makes of a bar, and the bar it opens.
LEMMA JoinedType ==
  ASSUME NEW bar \in Bar, NEW q \in Row
  PROVE  Joined(bar, q) \in Bar /\ Joined(bar, q).openTime = bar.openTime
         /\ Joined(bar, q).closeTime = bar.closeTime
<1> DEFINE h == Max({bar.high, PriceOf(q)})
           l == Min({bar.low, PriceOf(q)})
<1>1. PriceOf(q) \in Int /\ bar.high \in Int /\ bar.low \in Int
  BY PriceType DEF Bar
<1>2. h \in Int /\ l \in Int
  BY <1>1, Extremes
<1>3. Joined(bar, q) = [bar EXCEPT !.high = h, !.low = l, !.close = PriceOf(q),
                                   !.volume = bar.volume + q.qty, !.observations = bar.observations + 1]
  BY DEF Joined, Bar
<1> HIDE DEF h, l
<1>4. bar.volume + q.qty \in Nat /\ bar.observations + 1 \in Nat
  BY DEF Bar, Row
<1>5. QED
  BY <1>1, <1>2, <1>3, <1>4 DEF Bar

LEMMA FirstType ==
  ASSUME NEW q \in Row
  PROVE  FirstOf(q) \in Bar /\ FirstOf(q).openTime = OpenOf(q.ts)
         /\ FirstOf(q).closeTime = OpenOf(q.ts) + Interval
<1>1. PriceOf(q) \in Int /\ q.ts \in Nat /\ q.qty \in Nat /\ Interval \in Nat
  BY PriceType, BarsAssumption DEF Row
<1>2. OpenOf(q.ts) \in Int
  BY <1>1, BucketSpan
<1>3. QED
  BY <1>1, <1>2 DEF FirstOf, Bar, OpenOf

-----------------------------------------------------------------------------
(* Building.  The bars after each print, and what never changes of them.     *)

\* Row k has a price.
Priced(rows, k) == PriceOf(rows[k]) > 0

\* after[k] are the bars of the first k rows.
Builds(after, rows) ==
  /\ after \in [0 .. Len(rows) -> Seq(Bar)] /\ after[0] = <<>>
  /\ \A k \in 1 .. Len(rows) : after[k] = WithPrint(after[k - 1], rows[k])

\* A print joins the last bar, or opens a new one, or has no price.
LEMMA PrintCases ==
  ASSUME NEW bars \in Seq(Bar), NEW q \in Row
  PROVE  /\ PriceOf(q) <= 0 => WithPrint(bars, q) = bars
         /\ PriceOf(q) > 0 /\ (bars = <<>> \/ Last(bars).openTime # OpenOf(q.ts)) =>
              WithPrint(bars, q) = Append(bars, FirstOf(q))
         /\ PriceOf(q) > 0 /\ bars # <<>> /\ Last(bars).openTime = OpenOf(q.ts) =>
              WithPrint(bars, q) = [bars EXCEPT ![Len(bars)] = Joined(Last(bars), q)]
         /\ PriceOf(q) \in Int
BY PriceType DEF WithPrint, OpenOf, Last

\* The bars, one by one.
LEMMA PrintBars ==
  ASSUME NEW bars \in Seq(Bar), NEW q \in Row
  PROVE  /\ WithPrint(bars, q) \in Seq(Bar)
         /\ PriceOf(q) > 0 /\ (bars = <<>> \/ Last(bars).openTime # OpenOf(q.ts)) =>
              /\ Len(WithPrint(bars, q)) = Len(bars) + 1
              /\ WithPrint(bars, q)[Len(bars) + 1] = FirstOf(q)
              /\ \A i \in 1 .. Len(bars) : WithPrint(bars, q)[i] = bars[i]
         /\ PriceOf(q) > 0 /\ bars # <<>> /\ Last(bars).openTime = OpenOf(q.ts) =>
              /\ Len(WithPrint(bars, q)) = Len(bars) /\ Len(bars) > 0
              /\ WithPrint(bars, q)[Len(bars)] = Joined(bars[Len(bars)], q)
              /\ \A i \in 1 .. Len(bars) - 1 : WithPrint(bars, q)[i] = bars[i]
<1> DEFINE added == FirstOf(q)
           grown == Joined(Last(bars), q)
<1>1. PriceOf(q) \in Int /\ added \in Bar
  BY PriceType, FirstType
<1>2. CASE PriceOf(q) <= 0
  BY <1>1, <1>2, PrintCases
<1>3. CASE PriceOf(q) > 0 /\ (bars = <<>> \/ Last(bars).openTime # OpenOf(q.ts))
  <2>1. WithPrint(bars, q) = Append(bars, added)
    BY <1>3, PrintCases
  <2> HIDE DEF added
  <2>2. Append(bars, added) \in Seq(Bar) /\ Len(Append(bars, added)) = Len(bars) + 1
        /\ Append(bars, added)[Len(bars) + 1] = added
        /\ \A i \in 1 .. Len(bars) : Append(bars, added)[i] = bars[i]
    BY <1>1
  <2>3. QED
    BY <1>1, <1>3, <2>1, <2>2 DEF added
<1>4. CASE PriceOf(q) > 0 /\ bars # <<>> /\ Last(bars).openTime = OpenOf(q.ts)
  <2>1. Len(bars) \in Nat \ {0} /\ bars[Len(bars)] \in Bar /\ Last(bars) = bars[Len(bars)]
    BY <1>4 DEF Last
  <2>2. grown \in Bar
    BY <2>1, JoinedType
  <2>3. WithPrint(bars, q) = [bars EXCEPT ![Len(bars)] = grown]
    BY <1>4, PrintCases
  <2> HIDE DEF grown
  <2> DEFINE new == [bars EXCEPT ![Len(bars)] = grown]
  <2>4. new \in Seq(Bar) /\ Len(new) = Len(bars) /\ new[Len(bars)] = grown
        /\ \A i \in 1 .. Len(bars) - 1 : new[i] = bars[i]
    BY <2>1, <2>2
  <2>5. WithPrint(bars, q) = new
    BY <2>3
  <2>6. grown = Joined(bars[Len(bars)], q)
    BY <2>1 DEF grown
  <2> HIDE DEF new
  <2>7. ~(PriceOf(q) <= 0)
    BY <1>1, <1>4
  <2>8. QED
    BY <1>4, <2>1, <2>4, <2>5, <2>6, <2>7
<1>5. QED
  BY <1>1, <1>2, <1>3, <1>4

LEMMA RowsTyped ==
  ASSUME NEW rows, Ordered(rows)
  PROVE  /\ Len(rows) \in Nat /\ DOMAIN rows = 1 .. Len(rows)
         /\ \A k \in 1 .. Len(rows) : rows[k] \in Row /\ rows[k].ts \in Nat
<1>1. rows \in Seq(Row)
  BY DEF Ordered, Row
<1>2. Len(rows) \in Nat /\ DOMAIN rows = 1 .. Len(rows) /\ \A k \in 1 .. Len(rows) : rows[k] \in Row
  BY <1>1
<1>3. \A k \in 1 .. Len(rows) : rows[k].ts \in Nat
  BY <1>2 DEF Row
<1>4. QED
  BY <1>2, <1>3

LEMMA BuildRuns ==
  ASSUME NEW rows, Ordered(rows)
  PROVE  \E after : Builds(after, rows) /\ Build(rows) = after[Len(rows)]
<1> DEFINE n == Len(rows)
           step == [p \in Seq(Bar) \X (1 .. n) |-> WithPrint(p[1], rows[p[2]])]
           Is(f) == f = [k \in 0 .. n |-> IF k = 0 THEN <<>> ELSE WithPrint(f[k - 1], rows[k])]
           after == CHOOSE f : Is(f)
<1>1. n \in Nat /\ \A k \in 1 .. n : rows[k] \in Row
  BY RowsTyped
<1>2. <<>> \in Seq(Bar)
  OBVIOUS
<1> HIDE DEF n
<1>3. step \in [Seq(Bar) \X (1 .. n) -> Seq(Bar)]
  BY <1>1, PrintBars
<1>4. \E f \in [0 .. n -> Seq(Bar)] : f[0] = <<>> /\ \A k \in 1 .. n : f[k] = step[<<f[k - 1], k>>]
  <2> DEFINE S == Seq(Bar)
             start == <<>>
  <2>1. start \in S /\ step \in [S \X (1 .. n) -> S]
    BY <1>2, <1>3
  <2> HIDE DEF step, S, start
  <2>2. \E f : Recursion(f, n, S, start, step)
    BY <1>1, <2>1, RecursionExists
  <2>3. QED
    BY <2>2 DEF Recursion, S, start
<1>5. PICK f \in [0 .. n -> Seq(Bar)] : f[0] = <<>> /\ \A k \in 1 .. n : f[k] = step[<<f[k - 1], k>>]
  BY <1>4
<1>6. \A k \in 1 .. n : f[k] = WithPrint(f[k - 1], rows[k])
  <2> SUFFICES ASSUME NEW k \in 1 .. n PROVE f[k] = WithPrint(f[k - 1], rows[k])
    OBVIOUS
  <2>1. k - 1 \in 0 .. n
    BY <1>1
  <2>2. f[k - 1] \in Seq(Bar)
    BY <1>5, <2>1
  <2>3. step[<<f[k - 1], k>>] = WithPrint(f[k - 1], rows[k])
    BY <2>2
  <2>4. QED
    BY <1>5, <2>3
<1>7. Is(f)
  <2>1. \A k \in 0 .. n : f[k] = IF k = 0 THEN <<>> ELSE WithPrint(f[k - 1], rows[k])
    BY <1>1, <1>5, <1>6
  <2>2. QED
    BY <2>1
<1>8. Is(after)
  <2> HIDE DEF Is
  <2> QED
    BY <1>7
<1>9. Build(rows) = after[n]
  BY DEF Build, n
<1> HIDE DEF after
<1>10. after[0] = <<>> /\ \A k \in 1 .. n : after[k] = WithPrint(after[k - 1], rows[k])
  BY <1>1, <1>8
<1>11. \A k \in 0 .. n : k \in {j \in 0 .. n : after[j] \in Seq(Bar)}
  <2> DEFINE P == {j \in 0 .. n : after[j] \in Seq(Bar)}
  <2>1. 0 \in P
    <3>1. after[0] \in Seq(Bar) /\ 0 \in 0 .. n
      BY <1>1, <1>2, <1>10
    <3>2. QED
      BY <3>1
  <2>2. ASSUME NEW k \in 1 .. n, k - 1 \in P PROVE k \in P
    <3>1. after[k - 1] \in Seq(Bar) /\ rows[k] \in Row /\ k \in 0 .. n
      BY <1>1, <2>2
    <3>2. after[k] = WithPrint(after[k - 1], rows[k])
      BY <1>10
    <3>3. after[k] \in Seq(Bar)
      BY <3>1, <3>2, PrintBars
    <3>4. QED
      BY <3>1, <3>3
  <2> HIDE DEF P
  <2>3. \A k \in 0 .. n : k \in P
    BY <1>1, <2>1, <2>2, NatUpTo
  <2>4. QED
    BY <2>3 DEF P
<1>12. after \in [0 .. n -> Seq(Bar)]
  BY <1>8, <1>11
<1>13. Builds(after, rows)
  BY <1>10, <1>12 DEF Builds, n
<1>14. QED
  BY <1>9, <1>13 DEF n

\* What is so of the bars of the first k rows: they are where rows with a price are,
\* one after the other, and the last of them where the last such row is.
Shape(bars, rows, k) ==
  /\ \A i \in 1 .. Len(bars) :
       /\ bars[i].closeTime = bars[i].openTime + Interval
       /\ \E j \in 1 .. k : Priced(rows, j) /\ bars[i].openTime = OpenOf(rows[j].ts)
  /\ \A i, j \in 1 .. Len(bars) : i < j => bars[i].closeTime <= bars[j].openTime
  /\ \A j \in 1 .. k : Priced(rows, j) => bars # <<>> /\ OpenOf(rows[j].ts) <= Last(bars).openTime

LEMMA BarTimes == ASSUME NEW bars \in Seq(Bar), NEW i \in 1 .. Len(bars)
                  PROVE  bars[i] \in Bar /\ bars[i].openTime \in Int /\ bars[i].closeTime \in Int
<1>1. bars[i] \in Bar
  OBVIOUS
<1>2. QED
  BY <1>1 DEF Bar

LEMMA ShapeNext ==
  ASSUME NEW rows, Ordered(rows), NEW k \in 1 .. Len(rows), NEW old \in Seq(Bar), Shape(old, rows, k - 1)
  PROVE  Shape(WithPrint(old, rows[k]), rows, k)
<1> DEFINE q   == rows[k]
           new == WithPrint(old, q)
           n   == Len(old)
           o   == OpenOf(q.ts)
<1>1. /\ q \in Row /\ q.ts \in Nat /\ k \in Nat /\ k - 1 \in Nat
      /\ \A j \in 1 .. k : rows[j].ts \in Nat /\ rows[j].ts <= q.ts /\ (Priced(rows, j) <=> PriceOf(rows[j]) > 0)
      /\ \A j \in 1 .. k : j = k \/ j \in 1 .. k - 1
  <2>1. Len(rows) \in Nat /\ k \in Nat /\ k - 1 \in Nat /\ \A j \in 1 .. k : j \in 1 .. Len(rows) /\ j <= k
    BY RowsTyped
  <2>2. q \in Row /\ q.ts \in Nat /\ \A j \in 1 .. k : rows[j].ts \in Nat
    BY <2>1, RowsTyped
  <2>3. \A j \in 1 .. k : rows[j].ts <= q.ts
    BY <2>1, OrderedTypes
  <2>4. \A j \in 1 .. k : j = k \/ j \in 1 .. k - 1
    BY <2>1
  <2>5. QED
    BY <2>1, <2>2, <2>3, <2>4 DEF Priced
<1>2. /\ PriceOf(q) <= 0 => new = old
      /\ PriceOf(q) > 0 /\ (old = <<>> \/ Last(old).openTime # o) =>
           Len(new) = n + 1 /\ new[n + 1] = FirstOf(q) /\ \A i \in 1 .. n : new[i] = old[i]
      /\ PriceOf(q) > 0 /\ old # <<>> /\ Last(old).openTime = o =>
           Len(new) = n /\ n > 0 /\ new[n] = Joined(old[n], q) /\ \A i \in 1 .. n - 1 : new[i] = old[i]
      /\ PriceOf(q) \in Int
  BY <1>1, PrintCases, PrintBars
<1>3. new \in Seq(Bar)
  BY <1>1, PrintBars
<1> HIDE DEF new
<1>4. n \in Nat /\ (old = <<>> <=> n = 0) /\ Last(old) = old[n] /\ Last(new) = new[Len(new)] /\ o \in Int
      /\ (new = <<>> <=> Len(new) = 0) /\ Len(new) \in Nat /\ Interval \in Nat \ {0}
  <2>1. o \in Int
    BY <1>1, BucketSpan
  <2>2. Interval \in Nat \ {0}
    BY BarsAssumption
  <2> HIDE DEF o
  <2>3. n \in Nat /\ (old = <<>> <=> n = 0) /\ (new = <<>> <=> Len(new) = 0) /\ Len(new) \in Nat
    BY <1>3
  <2>4. QED
    BY <2>1, <2>2, <2>3 DEF Last
<1> HIDE DEF n, q, o
<1>5. CASE PriceOf(q) <= 0
  <2>1. new = old /\ ~Priced(rows, k)
    BY <1>1, <1>2, <1>5 DEF q
  <2>2. \A j \in 1 .. k : Priced(rows, j) => j \in 1 .. k - 1
    BY <1>1, <2>1
  <2>3. \A j \in 1 .. k - 1 : j \in 1 .. k
    BY <1>1
  <2>4. Shape(old, rows, k)
    BY <2>2, <2>3 DEF Shape
  <2>5. QED
    BY <2>1, <2>4 DEF new, q
<1>6. CASE PriceOf(q) > 0 /\ (old = <<>> \/ Last(old).openTime # o)
  <2>1. /\ Len(new) = n + 1 /\ new[n + 1] = FirstOf(q) /\ \A i \in 1 .. n : new[i] = old[i]
        /\ new[n + 1].openTime = o /\ new[n + 1].closeTime = o + Interval
    BY <1>1, <1>2, <1>6, FirstType DEF o
  <2>2. Priced(rows, k) /\ o = OpenOf(rows[k].ts) /\ k \in 1 .. k
    BY <1>1, <1>6 DEF q, o
  <2>3. ASSUME NEW i \in 1 .. n
        PROVE  /\ old[i].openTime \in Int /\ old[i].closeTime = old[i].openTime + Interval
               /\ old[i].openTime <= o /\ (old[i].openTime < o => old[i].closeTime <= o)
    <3>1. old[i].openTime \in Int
      BY BarTimes DEF n
    <3>2. PICK j \in 1 .. k - 1 : old[i].openTime = OpenOf(rows[j].ts)
      BY DEF Shape, n
    <3>3. old[i].closeTime = old[i].openTime + Interval
      BY DEF Shape, n
    <3>4. rows[j].ts \in Nat /\ rows[j].ts <= q.ts
      BY <1>1
    <3>5. OpenOf(rows[j].ts) <= o /\ (OpenOf(rows[j].ts) < o => OpenOf(rows[j].ts) + Interval <= o)
      BY <1>1, <3>4, Grid DEF o
    <3>6. QED
      BY <3>1, <3>2, <3>3, <3>5
  <2>4. ASSUME NEW i \in 1 .. n PROVE old[i].closeTime <= o
    <3>1. old[n].openTime < o
      BY <1>4, <1>6, <2>3
    <3>2. old[n].closeTime <= o
      BY <1>4, <2>3, <3>1
    <3>3. i < n => old[i].closeTime <= old[n].openTime
      BY <1>4 DEF Shape, n
    <3>4. CASE i = n
      BY <3>2, <3>4
    <3>5. CASE i < n
      <4>1. n \in 1 .. n
        BY <1>4
      <4>2. old[n].openTime \in Int /\ old[i].closeTime \in Int
        BY <4>1, BarTimes DEF n
      <4>3. QED
        BY <1>4, <3>1, <3>3, <3>5, <4>2
    <3>6. QED
      BY <1>4, <3>4, <3>5
  <2>5. ASSUME NEW i \in 1 .. Len(new)
        PROVE  /\ new[i].closeTime = new[i].openTime + Interval
               /\ \E j \in 1 .. k : Priced(rows, j) /\ new[i].openTime = OpenOf(rows[j].ts)
    <3>1. CASE i = n + 1
      BY <1>4, <2>1, <2>2, <3>1
    <3>2. CASE i \in 1 .. n
      <4>1. new[i] = old[i]
        BY <2>1, <3>2
      <4>2. PICK j \in 1 .. k - 1 : Priced(rows, j) /\ old[i].openTime = OpenOf(rows[j].ts)
        BY <3>2 DEF Shape, n
      <4>3. j \in 1 .. k
        BY <1>1
      <4>4. QED
        BY <2>3, <3>2, <4>1, <4>2, <4>3
    <3>3. QED
      BY <1>4, <2>1, <3>1, <3>2
  <2>6. ASSUME NEW i \in 1 .. Len(new), NEW j \in 1 .. Len(new), i < j
        PROVE  new[i].closeTime <= new[j].openTime
    <3>1. i \in 1 .. n /\ new[i] = old[i]
      BY <1>4, <2>1, <2>6
    <3>2. CASE j = n + 1
      BY <2>1, <2>4, <3>1, <3>2
    <3>3. CASE j \in 1 .. n
      <4>1. new[j] = old[j]
        BY <2>1, <3>3
      <4>2. old[i].closeTime <= old[j].openTime
        BY <2>6, <3>1, <3>3 DEF Shape, n
      <4>3. QED
        BY <3>1, <4>1, <4>2
    <3>4. QED
      BY <1>4, <2>1, <3>2, <3>3
  <2>7. ASSUME NEW j \in 1 .. k PROVE new # <<>> /\ OpenOf(rows[j].ts) <= Last(new).openTime
    <3>1. OpenOf(rows[j].ts) <= o
      BY <1>1, Grid DEF o
    <3>2. QED
      BY <1>4, <2>1, <3>1
  <2>8. QED
    BY <2>5, <2>6, <2>7 DEF Shape, new, q
<1>7. CASE PriceOf(q) > 0 /\ old # <<>> /\ Last(old).openTime = o
  <2>1. Len(new) = n /\ n > 0 /\ new[n] = Joined(old[n], q) /\ \A i \in 1 .. n - 1 : new[i] = old[i]
    BY <1>2, <1>7
  <2>2. \A i \in 1 .. n : new[i].openTime = old[i].openTime /\ new[i].closeTime = old[i].closeTime
    <3>1. old[n] \in Bar
      BY <1>4, <2>1, BarTimes DEF n
    <3>2. new[n].openTime = old[n].openTime /\ new[n].closeTime = old[n].closeTime
      BY <1>1, <2>1, <3>1, JoinedType
    <3>3. \A i \in 1 .. n : i = n \/ i \in 1 .. n - 1
      BY <1>4
    <3>4. QED
      BY <2>1, <3>2, <3>3
  <2>3. ASSUME NEW i \in 1 .. n
        PROVE  /\ new[i].closeTime = new[i].openTime + Interval
               /\ \E j \in 1 .. k : Priced(rows, j) /\ new[i].openTime = OpenOf(rows[j].ts)
    <3>1. PICK j \in 1 .. k - 1 : Priced(rows, j) /\ old[i].openTime = OpenOf(rows[j].ts)
      BY DEF Shape, n
    <3>2. old[i].closeTime = old[i].openTime + Interval /\ j \in 1 .. k
      BY <1>1 DEF Shape, n
    <3>3. QED
      BY <2>2, <3>1, <3>2
  <2>4. \A i, j \in 1 .. n : i < j => new[i].closeTime <= new[j].openTime
    BY <2>2 DEF Shape, n
  <2>5. ASSUME NEW j \in 1 .. k, Priced(rows, j) PROVE new # <<>> /\ OpenOf(rows[j].ts) <= Last(new).openTime
    <3>1. Last(new).openTime = o /\ new # <<>>
      BY <1>4, <1>7, <2>1, <2>2
    <3>2. OpenOf(rows[j].ts) <= o
      BY <1>1, Grid DEF o
    <3>3. QED
      BY <3>1, <3>2
  <2>6. QED
    BY <2>1, <2>3, <2>4, <2>5 DEF Shape, new, q
<1>8. QED
  BY <1>2, <1>5, <1>6, <1>7

LEMMA Shapes ==
  ASSUME NEW rows, Ordered(rows), NEW after, Builds(after, rows)
  PROVE  \A k \in 0 .. Len(rows) : after[k] \in Seq(Bar) /\ Shape(after[k], rows, k)
<1> DEFINE P == {k \in 0 .. Len(rows) : Shape(after[k], rows, k)}
<1>1. Len(rows) \in Nat /\ \A k \in 0 .. Len(rows) : after[k] \in Seq(Bar)
  BY RowsTyped DEF Builds
<1>2. 0 \in P
  <2>1. after[0] = <<>> /\ 0 \in 0 .. Len(rows) /\ 1 .. 0 = {} /\ Len(<<>>) = 0
    BY <1>1 DEF Builds
  <2>2. Shape(<<>>, rows, 0)
    BY <2>1 DEF Shape
  <2>3. QED
    BY <2>1, <2>2
<1>3. ASSUME NEW k \in 1 .. Len(rows), k - 1 \in P PROVE k \in P
  <2>1. after[k - 1] \in Seq(Bar) /\ Shape(after[k - 1], rows, k - 1) /\ k \in 0 .. Len(rows)
    BY <1>1, <1>3
  <2>2. after[k] = WithPrint(after[k - 1], rows[k])
    BY DEF Builds
  <2>3. Shape(after[k], rows, k)
    BY <2>1, <2>2, ShapeNext
  <2>4. QED
    BY <2>1, <2>3
<1> HIDE DEF P
<1>4. \A k \in 0 .. Len(rows) : k \in P
  BY <1>1, <1>2, <1>3, NatUpTo
<1>5. QED
  BY <1>1, <1>4 DEF P

-----------------------------------------------------------------------------
(* What is known at a time.  Rows after it open bars that close later and    *)
(* join none that have closed, so the bars known of the whole column are     *)
(* those known of the rows by then.                                          *)

\* later are bars that rows after time u have been added to.
Extends(later, bars, u) ==
  /\ Len(bars) <= Len(later)
  /\ \A i \in 1 .. Len(bars) :
       /\ later[i].openTime = bars[i].openTime /\ later[i].closeTime = bars[i].closeTime
       /\ bars[i].closeTime <= u => later[i] = bars[i]
  /\ \A i \in Len(bars) + 1 .. Len(later) : later[i].closeTime > u

LEMMA ExtendsNext ==
  ASSUME NEW rows, Ordered(rows), NEW k \in 1 .. Len(rows), NEW u \in Nat, rows[k].ts > u,
         NEW bars \in Seq(Bar), NEW old \in Seq(Bar), Extends(old, bars, u), Shape(old, rows, k - 1)
  PROVE  Extends(WithPrint(old, rows[k]), bars, u)
<1> DEFINE q   == rows[k]
           new == WithPrint(old, q)
           n   == Len(old)
           m   == Len(bars)
           o   == OpenOf(q.ts)
<1>1. q \in Row /\ q.ts \in Nat /\ q.ts > u
  BY RowsTyped
<1>2. /\ PriceOf(q) <= 0 => new = old
      /\ PriceOf(q) > 0 /\ (old = <<>> \/ Last(old).openTime # o) =>
           Len(new) = n + 1 /\ new[n + 1] = FirstOf(q) /\ \A i \in 1 .. n : new[i] = old[i]
      /\ PriceOf(q) > 0 /\ old # <<>> /\ Last(old).openTime = o =>
           Len(new) = n /\ n > 0 /\ new[n] = Joined(old[n], q) /\ \A i \in 1 .. n - 1 : new[i] = old[i]
      /\ PriceOf(q) \in Int
  BY <1>1, PrintCases, PrintBars
<1>3. o \in Int /\ o + Interval > u /\ Interval \in Nat \ {0}
  <2>1. Interval \in Nat \ {0}
    BY BarsAssumption
  <2>2. o \in Int /\ q.ts < o + Interval
    BY <1>1, BucketSpan
  <2> HIDE DEF o, q
  <2>3. QED
    BY <1>1, <2>1, <2>2
<1> HIDE DEF new, o, q
<1>4. n \in Nat /\ m \in Nat /\ Last(old) = old[n]
  BY DEF Last
<1>5. m <= n
  BY DEF Extends
<1> HIDE DEF n, m
<1>6. CASE PriceOf(q) <= 0
  BY <1>2, <1>6 DEF new, q
<1>7. CASE PriceOf(q) > 0 /\ (old = <<>> \/ Last(old).openTime # o)
  <2>1. Len(new) = n + 1 /\ new[n + 1] = FirstOf(q) /\ \A i \in 1 .. n : new[i] = old[i]
    BY <1>2, <1>7
  <2>2. new[n + 1].closeTime > u
    BY <1>1, <1>3, <2>1, FirstType DEF o
  <2>3. m <= Len(new) /\ \A i \in 1 .. m : i \in 1 .. n
    BY <1>4, <1>5, <2>1
  <2>4. \A i \in m + 1 .. Len(new) : new[i].closeTime > u
    <3>1. \A i \in m + 1 .. Len(new) : i = n + 1 \/ (i \in m + 1 .. n /\ i \in 1 .. n)
      BY <1>4, <2>1
    <3>2. \A i \in m + 1 .. n : old[i].closeTime > u
      BY DEF Extends, n, m
    <3>3. QED
      BY <2>1, <2>2, <3>1, <3>2
  <2>5. \A i \in 1 .. m : /\ new[i].openTime = bars[i].openTime /\ new[i].closeTime = bars[i].closeTime
                          /\ bars[i].closeTime <= u => new[i] = bars[i]
    BY <2>1, <2>3 DEF Extends, m
  <2>6. QED
    BY <2>3, <2>4, <2>5 DEF Extends, new, q, m
<1>8. CASE PriceOf(q) > 0 /\ old # <<>> /\ Last(old).openTime = o
  <2>1. Len(new) = n /\ n > 0 /\ new[n] = Joined(old[n], q) /\ \A i \in 1 .. n - 1 : new[i] = old[i]
    BY <1>2, <1>8
  <2>2. n \in 1 .. Len(old) /\ \A i \in 1 .. n : i = n \/ i \in 1 .. n - 1
    BY <1>4, <2>1 DEF n
  <2>3. old[n] \in Bar /\ old[n].closeTime = o + Interval
    BY <1>4, <1>8, <2>2, BarTimes DEF Shape
  <2>4. new[n].openTime = old[n].openTime /\ new[n].closeTime = old[n].closeTime
    BY <1>1, <2>1, <2>3, JoinedType
  <2>5. \A i \in 1 .. n : /\ new[i].openTime = old[i].openTime /\ new[i].closeTime = old[i].closeTime
                          /\ old[i].closeTime <= u => new[i] = old[i]
    <3>1. ~(old[n].closeTime <= u)
      BY <1>3, <2>3
    <3>2. QED
      BY <2>1, <2>2, <2>4, <3>1
  <2>6. /\ \A i \in 1 .. m : i \in 1 .. n
        /\ \A i \in m + 1 .. n : i \in 1 .. n
    BY <1>4, <1>5
  <2>7. \A i \in 1 .. m : /\ old[i].openTime = bars[i].openTime /\ old[i].closeTime = bars[i].closeTime
                          /\ bars[i].closeTime <= u => old[i] = bars[i]
    BY DEF Extends, m
  <2>8. \A i \in 1 .. m : /\ new[i].openTime = bars[i].openTime /\ new[i].closeTime = bars[i].closeTime
                          /\ bars[i].closeTime <= u => new[i] = bars[i]
    BY <2>5, <2>6, <2>7
  <2>9. \A i \in m + 1 .. n : new[i].closeTime > u
    BY <2>5, <2>6 DEF Extends, n, m
  <2>10. QED
    BY <1>5, <2>1, <2>8, <2>9 DEF Extends, new, q, m
<1>9. QED
  BY <1>2, <1>6, <1>7, <1>8

\* The rows after the m-th are all after u.
LEMMA ExtendsFrom ==
  ASSUME NEW rows, Ordered(rows), NEW after, Builds(after, rows), NEW u \in Nat, NEW m \in 0 .. Len(rows),
         \A k \in m + 1 .. Len(rows) : rows[k].ts > u
  PROVE  Extends(after[Len(rows)], after[m], u)
<1> DEFINE n == Len(rows)
           P == {d \in 0 .. n - m : Extends(after[m + d], after[m], u)}
<1>1. n \in Nat /\ \A k \in 0 .. n : after[k] \in Seq(Bar) /\ Shape(after[k], rows, k)
  BY RowsTyped, Shapes
<1> HIDE DEF n
<1>2. m \in 0 .. n /\ m \in Nat /\ n - m \in Nat
  BY <1>1 DEF n
<1>3. 0 \in P
  <2>1. Len(after[m]) \in Nat
    BY <1>1, <1>2
  <2>2. Len(after[m]) + 1 .. Len(after[m]) = {}
    BY <2>1
  <2>3. Extends(after[m], after[m], u)
    BY <2>1, <2>2 DEF Extends
  <2>4. m + 0 = m /\ 0 \in 0 .. n - m
    BY <1>2
  <2>5. QED
    BY <2>3, <2>4
<1>4. ASSUME NEW d \in 1 .. n - m, d - 1 \in P PROVE d \in P
  <2>1. /\ m + d \in 1 .. n /\ m + d \in m + 1 .. n /\ m + d - 1 \in 0 .. n /\ m + (d - 1) = m + d - 1
        /\ d \in 0 .. n - m
    BY <1>1, <1>2
  <2>2. Extends(after[m + d - 1], after[m], u)
    BY <1>4, <2>1
  <2>3. after[m + d] = WithPrint(after[m + d - 1], rows[m + d])
    BY <2>1 DEF Builds, n
  <2>4. rows[m + d].ts > u
    BY <2>1 DEF n
  <2>5. /\ after[m] \in Seq(Bar) /\ after[m + d - 1] \in Seq(Bar)
        /\ Shape(after[m + d - 1], rows, m + d - 1)
    BY <1>1, <1>2, <2>1
  <2>6. Extends(after[m + d], after[m], u)
    BY <2>1, <2>2, <2>3, <2>4, <2>5, ExtendsNext DEF n
  <2>7. QED
    BY <2>1, <2>6
<1>5. \A d \in 0 .. n - m : d \in P
  <2> HIDE DEF P
  <2> QED
    BY <1>2, <1>3, <1>4, NatUpTo
<1>6. n - m \in 0 .. n - m /\ m + (n - m) = n
  BY <1>1, <1>2
<1>7. Extends(after[m + (n - m)], after[m], u)
  BY <1>5, <1>6
<1>8. QED
  BY <1>6, <1>7 DEF n

\* The bars known at a time are the first ones.
LEMMA KnownBars ==
  ASSUME NEW bars \in Seq(Bar), NEW rows, NEW k, Shape(bars, rows, k), NEW u \in Nat
  PROVE  /\ KnownCount(bars, u) \in 0 .. Len(bars) /\ Len(bars) \in Nat
         /\ {i \in DOMAIN bars : bars[i].closeTime <= u} = 1 .. KnownCount(bars, u)
<1> DEFINE n == Len(bars)
           P == {i \in DOMAIN bars : bars[i].closeTime <= u}
<1>1. n \in Nat /\ DOMAIN bars = 1 .. n
  OBVIOUS
<1>2. \A i \in 1 .. n : bars[i].openTime \in Int /\ bars[i].closeTime \in Int
                        /\ bars[i].closeTime = bars[i].openTime + Interval
  BY BarTimes DEF Shape
<1>3. \A i, j \in 1 .. n : i < j => bars[i].closeTime <= bars[j].openTime
  BY DEF Shape
<1>4. Interval \in Nat
  BY BarsAssumption
<1> HIDE DEF n
<1>5. P \in SUBSET (1 .. n)
  BY <1>1
<1>6. ASSUME NEW i \in 1 .. n, NEW j \in P, i <= j PROVE i \in P
  <2>1. j \in 1 .. n /\ bars[j].closeTime <= u
    BY <1>1
  <2>2. i = j \/ bars[i].closeTime <= bars[j].openTime
    BY <1>1, <1>3, <1>6, <2>1
  <2>3. bars[i].closeTime <= u
    BY <1>2, <1>4, <2>1, <2>2
  <2>4. QED
    BY <1>1, <2>3
<1>7. Cardinality(P) = KnownCount(bars, u)
  BY DEF KnownCount
<1> HIDE DEF P
<1>8. Cardinality(P) \in 0 .. n /\ P = 1 .. Cardinality(P)
  BY <1>1, <1>5, <1>6, InitialSegment
<1>9. QED
  BY <1>1, <1>7, <1>8 DEF P, n

\* A column cut off is built as its first rows are.
LEMMA PrefixBuilds ==
  ASSUME NEW rows, Ordered(rows), NEW after, Builds(after, rows), NEW m \in 0 .. Len(rows)
  PROVE  Build(SubSeq(rows, 1, m)) = after[m] /\ Ordered(SubSeq(rows, 1, m))
<1> DEFINE cut == SubSeq(rows, 1, m)
<1>1. Len(rows) \in Nat /\ rows \in Seq(Row)
  BY RowsTyped DEF Ordered, Row
<1>2. Len(cut) = m /\ DOMAIN cut = 1 .. m /\ cut \in Seq(Row) /\ \A k \in 1 .. m : cut[k] = rows[k]
  BY <1>1
<1> HIDE DEF cut
<1>3. \A k \in 1 .. m : k \in DOMAIN rows
  BY <1>1
<1>4. Ordered(cut)
  BY <1>2, <1>3 DEF Ordered, Row
<1>5. PICK f : Builds(f, cut) /\ Build(cut) = f[m]
  BY <1>2, <1>4, BuildRuns
<1> DEFINE P == {k \in 0 .. m : f[k] = after[k]}
<1>6. 0 \in P
  BY <1>1, <1>5 DEF Builds
<1>7. ASSUME NEW k \in 1 .. m, k - 1 \in P PROVE k \in P
  <2>1. k \in 1 .. Len(cut) /\ k \in 1 .. Len(rows) /\ k \in 0 .. m /\ cut[k] = rows[k]
    BY <1>1, <1>2
  <2>2. f[k] = WithPrint(f[k - 1], cut[k]) /\ after[k] = WithPrint(after[k - 1], rows[k])
    BY <1>5, <2>1 DEF Builds
  <2>3. f[k - 1] = after[k - 1]
    BY <1>7
  <2>4. QED
    BY <2>1, <2>2, <2>3
<1>8. \A k \in 0 .. m : k \in P
  <2> HIDE DEF P
  <2> QED
    BY <1>1, <1>6, <1>7, NatUpTo
<1>9. m \in 0 .. m
  BY <1>1
<1>10. f[m] = after[m]
  BY <1>8, <1>9
<1>11. QED
  BY <1>4, <1>5, <1>10 DEF cut

\* Two series know the same bars at a time.
SameKnown(bars, other, u) ==
  /\ KnownCount(bars, u) = KnownCount(other, u)
  /\ KnownCount(bars, u) \in 0 .. Len(bars) /\ KnownCount(bars, u) \in 0 .. Len(other)
  /\ Len(bars) \in Nat /\ Len(other) \in Nat
  /\ \A i \in 1 .. KnownCount(bars, u) : bars[i] = other[i]

LEMMA KnownSame ==
  ASSUME NEW later \in Seq(Bar), NEW bars \in Seq(Bar), NEW rows, NEW k, NEW m,
         Shape(later, rows, k), Shape(bars, rows, m), NEW u \in Nat, Extends(later, bars, u)
  PROVE  SameKnown(later, bars, u)
<1> DEFINE a == KnownCount(later, u)
           b == KnownCount(bars, u)
           n == Len(later)
           l == Len(bars)
<1>1. /\ a \in 0 .. n /\ n \in Nat /\ {i \in DOMAIN later : later[i].closeTime <= u} = 1 .. a
      /\ b \in 0 .. l /\ l \in Nat /\ {i \in DOMAIN bars : bars[i].closeTime <= u} = 1 .. b
      /\ DOMAIN later = 1 .. n /\ DOMAIN bars = 1 .. l
  <2>1. DOMAIN later = 1 .. n /\ DOMAIN bars = 1 .. l
    OBVIOUS
  <2>2. a \in 0 .. n /\ n \in Nat /\ {i \in DOMAIN later : later[i].closeTime <= u} = 1 .. a
    BY KnownBars
  <2>3. b \in 0 .. l /\ l \in Nat /\ {i \in DOMAIN bars : bars[i].closeTime <= u} = 1 .. b
    BY KnownBars
  <2>4. QED
    BY <2>1, <2>2, <2>3
<1>2. /\ \A i \in 1 .. n : later[i].closeTime \in Int
      /\ \A i \in 1 .. l : bars[i].closeTime \in Int
  BY BarTimes
<1> HIDE DEF a, b, n, l
<1>3. l <= n /\ \A i \in 1 .. l : later[i].closeTime = bars[i].closeTime /\ (bars[i].closeTime <= u => later[i] = bars[i])
  BY DEF Extends, n, l
<1>4. \A i \in l + 1 .. n : later[i].closeTime > u
  BY DEF Extends, n, l
<1>5. ASSUME NEW i \in 1 .. a PROVE i \in 1 .. b
  <2>1. i \in 1 .. n /\ later[i].closeTime <= u
    BY <1>1
  <2>2. i \in 1 .. l
    BY <1>1, <1>2, <1>4, <2>1
  <2>3. QED
    BY <1>1, <1>3, <2>1, <2>2
<1>6. ASSUME NEW i \in 1 .. b PROVE i \in 1 .. a /\ later[i] = bars[i]
  <2>1. i \in 1 .. l /\ bars[i].closeTime <= u
    BY <1>1
  <2>2. later[i].closeTime <= u /\ i \in 1 .. n /\ later[i] = bars[i]
    BY <1>1, <1>3, <2>1
  <2>3. QED
    BY <1>1, <2>2
<1>7. a \in Nat /\ b \in Nat
  BY <1>1
<1>8. a = b
  <2>1. a > 0 => a \in 1 .. b
    BY <1>5, <1>7
  <2>2. b > 0 => b \in 1 .. a
    BY <1>6, <1>7
  <2>3. QED
    BY <1>7, <2>1, <2>2
<1>9. QED
  BY <1>1, <1>6, <1>8 DEF SameKnown, a, b, n, l

\* The bars known at u are those known of the column cut off at any time from u on.
LEMMA CutKnows ==
  ASSUME NEW rows, Ordered(rows), NEW c \in Nat, NEW u \in Nat, u <= c
  PROVE  SameKnown(Build(rows), Build(Truncated(rows, c)), u)
<1>1. PICK after : Builds(after, rows) /\ Build(rows) = after[Len(rows)]
  BY BuildRuns
<1> DEFINE m == AtOrBefore(rows, c)
           n == Len(rows)
<1>2. /\ m \in 0 .. n /\ n \in Nat /\ {i \in DOMAIN rows : rows[i].ts <= c} = 1 .. m
      /\ DOMAIN rows = 1 .. n /\ \A k \in 1 .. n : rows[k].ts \in Nat
  BY PrintsBy, RowsTyped
<1>3. Build(Truncated(rows, c)) = after[m]
  BY <1>1, <1>2, PrefixBuilds DEF Truncated
<1> HIDE DEF m, n
<1>4. \A k \in m + 1 .. n : rows[k].ts > u
  BY <1>2
<1>5. Extends(after[n], after[m], u)
  BY <1>1, <1>2, <1>4, ExtendsFrom DEF n
<1>6. n \in 0 .. n
  BY <1>2
<1>7. /\ after[n] \in Seq(Bar) /\ Shape(after[n], rows, n)
      /\ after[m] \in Seq(Bar) /\ Shape(after[m], rows, m)
  BY <1>1, <1>2, <1>6, Shapes DEF n
<1>8. SameKnown(after[n], after[m], u)
  BY <1>5, <1>7, KnownSame
<1>9. QED
  BY <1>1, <1>3, <1>8 DEF n

-----------------------------------------------------------------------------
(* What is read of bars that have closed.                                    *)

LEMMA BuildType == ASSUME NEW rows, Ordered(rows) PROVE Build(rows) \in Seq(Bar) /\ Len(Build(rows)) \in Nat
<1>1. PICK after : Builds(after, rows) /\ Build(rows) = after[Len(rows)]
  BY BuildRuns
<1>2. Len(rows) \in 0 .. Len(rows)
  BY RowsTyped
<1>3. Build(rows) \in Seq(Bar)
  BY <1>1, <1>2 DEF Builds
<1>4. QED
  BY <1>3

LEMMA SameCompleted ==
  ASSUME NEW bars, NEW other, NEW u, SameKnown(bars, other, u), NEW back \in Nat
  PROVE  Completed(bars, u, back) = Completed(other, u, back)
<1> DEFINE k == KnownCount(bars, u)
<1>1. k = KnownCount(other, u) /\ k \in Nat /\ \A i \in 1 .. k : bars[i] = other[i]
  BY DEF SameKnown
<1> HIDE DEF k
<1>2. ~(back >= k) => k - back \in 1 .. k
  BY <1>1
<1>3. QED
  BY <1>1, <1>2 DEF Completed, k

\* The running sum of the closes, minus what has left the window.
WindowSums(running, bars) ==
  /\ running \in [0 .. Len(bars) -> Int] /\ running[0] = 0
  /\ \A i \in 1 .. Len(bars) :
       running[i] = running[i - 1] + bars[i].close - (IF i > Period THEN bars[i - Period].close ELSE 0)

LEMMA MovingSumRuns ==
  ASSUME NEW bars \in Seq(Bar)
  PROVE  \E running : /\ WindowSums(running, bars)
                      /\ MovingSum(bars) = [i \in 1 .. Len(bars) |-> IF i >= Period THEN [sum |-> running[i]] ELSE Nothing]
<1> DEFINE n == Len(bars)
           change == [i \in 1 .. n |-> bars[i].close - (IF i > Period THEN bars[i - Period].close ELSE 0)]
           step == [p \in Int \X (1 .. n) |-> p[1] + change[p[2]]]
           Is(f) == f = [i \in 0 .. n |->
                           IF i = 0 THEN 0
                           ELSE f[i - 1] + bars[i].close - (IF i > Period THEN bars[i - Period].close ELSE 0)]
           running == CHOOSE f : Is(f)
<1>1. n \in Nat /\ Period \in Nat \ {0} /\ \A i \in 1 .. n : bars[i].close \in Int
  <2>1. n \in Nat /\ \A i \in 1 .. n : bars[i] \in Bar
    OBVIOUS
  <2>2. QED
    BY <2>1, BarsAssumption DEF Bar
<1> HIDE DEF n
<1>2. \A i \in 1 .. n : (IF i > Period THEN bars[i - Period].close ELSE 0) \in Int
  <2> SUFFICES ASSUME NEW i \in 1 .. n PROVE (IF i > Period THEN bars[i - Period].close ELSE 0) \in Int
    OBVIOUS
  <2>1. i > Period => i - Period \in 1 .. n
    BY <1>1
  <2>2. QED
    BY <1>1, <2>1
<1>3. \A i \in 1 .. n : change[i] \in Int
  BY <1>1, <1>2
<1>4. step \in [Int \X (1 .. n) -> Int]
  <2> HIDE DEF change
  <2> QED
    BY <1>3
<1>5. \E f : Recursion(f, n, Int, 0, step)
  <2> HIDE DEF step
  <2>1. 0 \in Int
    OBVIOUS
  <2> QED
    BY <1>1, <1>4, <2>1, RecursionExists
<1>6. PICK f : Recursion(f, n, Int, 0, step)
  BY <1>5
<1>7. f \in [0 .. n -> Int] /\ f[0] = 0 /\ \A i \in 1 .. n : f[i] = f[i - 1] + change[i]
  <2>1. f \in [0 .. n -> Int] /\ f[0] = 0 /\ \A i \in 1 .. n : f[i] = step[<<f[i - 1], i>>]
    <3> HIDE DEF step
    <3> QED
      BY <1>6 DEF Recursion
  <2>2. ASSUME NEW i \in 1 .. n PROVE f[i] = f[i - 1] + change[i]
    <3>1. i - 1 \in 0 .. n
      BY <1>1
    <3>2. f[i - 1] \in Int
      BY <2>1, <3>1
    <3> HIDE DEF change
    <3>3. step[<<f[i - 1], i>>] = f[i - 1] + change[i]
      BY <3>2
    <3>4. QED
      BY <2>1, <3>3
  <2>3. QED
    BY <2>1, <2>2
<1>8. \A i \in 1 .. n : f[i] = f[i - 1] + bars[i].close - (IF i > Period THEN bars[i - Period].close ELSE 0)
  <2> SUFFICES ASSUME NEW i \in 1 .. n
               PROVE  f[i] = f[i - 1] + bars[i].close - (IF i > Period THEN bars[i - Period].close ELSE 0)
    OBVIOUS
  <2> DEFINE out == IF i > Period THEN bars[i - Period].close ELSE 0
  <2>1. f[i] = f[i - 1] + change[i] /\ i - 1 \in 0 .. n
    BY <1>1, <1>7
  <2>2. f[i - 1] \in Int /\ bars[i].close \in Int /\ out \in Int
    BY <1>1, <1>2, <1>7, <2>1
  <2>3. change[i] = bars[i].close - out
    OBVIOUS
  <2> HIDE DEF out, change
  <2>4. f[i] = f[i - 1] + bars[i].close - out
    BY <2>1, <2>2, <2>3
  <2>5. QED
    BY <2>4 DEF out
<1>9. Is(f)
  <2>1. \A i \in 0 .. n : f[i] = IF i = 0 THEN 0
          ELSE f[i - 1] + bars[i].close - (IF i > Period THEN bars[i - Period].close ELSE 0)
    BY <1>1, <1>7, <1>8
  <2>2. QED
    BY <1>7, <2>1
<1>10. Is(running)
  <2> HIDE DEF Is
  <2> QED
    BY <1>9
<1>11. MovingSum(bars) = [i \in 1 .. n |-> IF i >= Period THEN [sum |-> running[i]] ELSE Nothing]
  BY DEF MovingSum, n
<1> HIDE DEF running
<1>12. running[0] = 0 /\ \A i \in 1 .. n :
         running[i] = running[i - 1] + bars[i].close - (IF i > Period THEN bars[i - Period].close ELSE 0)
  <2>1. 0 \in 0 .. n /\ \A i \in 1 .. n : i \in 0 .. n /\ i # 0
    BY <1>1
  <2>2. running[0] = 0
    BY <1>10, <2>1
  <2>3. ASSUME NEW i \in 1 .. n
        PROVE  running[i] = running[i - 1] + bars[i].close - (IF i > Period THEN bars[i - Period].close ELSE 0)
    <3>1. i \in 0 .. n /\ i # 0
      BY <2>1
    <3>2. QED
      BY <1>10, <3>1
  <2> HIDE DEF n
  <2>4. QED
    BY <2>2, <2>3
<1>13. \A i \in 0 .. n : running[i] \in Int
  <2> DEFINE P == {i \in 0 .. n : running[i] \in Int}
  <2>1. 0 \in P
    BY <1>1, <1>12
  <2>2. ASSUME NEW i \in 1 .. n, i - 1 \in P PROVE i \in P
    <3> DEFINE out == IF i > Period THEN bars[i - Period].close ELSE 0
    <3>1. running[i - 1] \in Int /\ i \in 0 .. n
      BY <1>1, <2>2
    <3>2. running[i] = running[i - 1] + bars[i].close - out /\ out \in Int /\ bars[i].close \in Int
      BY <1>1, <1>2, <1>12
    <3> HIDE DEF out
    <3>3. QED
      BY <3>1, <3>2
  <2> HIDE DEF P
  <2>3. \A i \in 0 .. n : i \in P
    BY <1>1, <2>1, <2>2, NatUpTo
  <2>4. QED
    BY <2>3 DEF P
<1>14. running \in [0 .. n -> Int]
  BY <1>10, <1>13
<1>15. QED
  BY <1>11, <1>12, <1>14 DEF WindowSums, n

\* A level is of the bars up to it.
LEMMA SameLevels ==
  ASSUME NEW bars \in Seq(Bar), NEW other \in Seq(Bar), NEW u, SameKnown(bars, other, u), NEW back \in Nat
  PROVE  LevelAt(bars, MovingSum(bars), u, back) = LevelAt(other, MovingSum(other), u, back)
<1> DEFINE k == KnownCount(bars, u)
           n == Len(bars)
           m == Len(other)
<1>1. /\ k = KnownCount(other, u) /\ k \in 0 .. n /\ k \in 0 .. m /\ n \in Nat /\ m \in Nat
      /\ \A i \in 1 .. k : bars[i] = other[i]
  BY DEF SameKnown
<1>2. PICK f : /\ WindowSums(f, bars)
               /\ MovingSum(bars) = [i \in 1 .. n |-> IF i >= Period THEN [sum |-> f[i]] ELSE Nothing]
  BY MovingSumRuns
<1>3. PICK g : /\ WindowSums(g, other)
               /\ MovingSum(other) = [i \in 1 .. m |-> IF i >= Period THEN [sum |-> g[i]] ELSE Nothing]
  BY MovingSumRuns
<1> HIDE DEF k, n, m
<1> DEFINE P == {i \in 0 .. k : f[i] = g[i]}
<1>4. 0 \in P
  BY <1>1, <1>2, <1>3 DEF WindowSums
<1>5. ASSUME NEW i \in 1 .. k, i - 1 \in P PROVE i \in P
  <2>1. i \in 1 .. n /\ i \in 1 .. m /\ i \in 0 .. k /\ f[i - 1] = g[i - 1] /\ bars[i] = other[i]
    BY <1>1, <1>5
  <2>2. f[i] = f[i - 1] + bars[i].close - (IF i > Period THEN bars[i - Period].close ELSE 0)
    BY <1>2, <2>1 DEF WindowSums, n
  <2>3. g[i] = g[i - 1] + other[i].close - (IF i > Period THEN other[i - Period].close ELSE 0)
    BY <1>3, <2>1 DEF WindowSums, m
  <2>4. i > Period => i - Period \in 1 .. k
    BY <1>1, BarsAssumption
  <2>5. i > Period => bars[i - Period] = other[i - Period]
    BY <1>1, <2>4
  <2>6. f[i] = g[i]
    BY <2>1, <2>2, <2>3, <2>5
  <2>7. QED
    BY <2>1, <2>6
<1>6. \A i \in 0 .. k : i \in P
  <2>1. k \in Nat
    BY <1>1
  <2> HIDE DEF P
  <2>2. QED
    BY <1>4, <1>5, <2>1, NatUpTo
<1>7. \A i \in 1 .. k : f[i] = g[i] /\ i \in 1 .. n /\ i \in 1 .. m
  BY <1>1, <1>6
<1>8. \A i \in 1 .. k : MovingSum(bars)[i] = MovingSum(other)[i]
  BY <1>2, <1>3, <1>7
<1>9. ~(back >= k) => k - back \in 1 .. k
  BY <1>1
<1>10. QED
  BY <1>1, <1>8, <1>9 DEF LevelAt, k

-----------------------------------------------------------------------------
(* The forming bar.  Of the rows by now those from the stored bar's opening  *)
(* on are exactly those the last bar of the cut column was built from.       *)

\* What a row makes of the bar put together again.
Adds(stored, bar, q) ==
  IF q.ts < stored.openTime \/ PriceOf(q) <= 0 THEN bar
  ELSE IF bar = Nothing THEN Started(stored, q) ELSE Joined(bar, q)

Remakes(again, rows, stored, n) ==
  /\ again \in [0 .. n -> Bar \cup {Nothing}] /\ again[0] = Nothing
  /\ \A i \in 1 .. n : again[i] = Adds(stored, again[i - 1], rows[i])

LEMMA BarIsSomething == ASSUME NEW bar \in Bar PROVE bar # Nothing
<1>1. "openTime" \in DOMAIN bar
  BY DEF Bar
<1>2. "openTime" \notin DOMAIN Nothing
  BY DEF Nothing
<1>3. QED
  BY <1>1, <1>2

LEMMA SameBar ==
  ASSUME NEW bar \in Bar, NEW other \in Bar,
         bar.openTime = other.openTime, bar.closeTime = other.closeTime, bar.open = other.open,
         bar.high = other.high, bar.low = other.low, bar.close = other.close,
         bar.volume = other.volume, bar.observations = other.observations
  PROVE  bar = other
BY DEF Bar

LEMMA StartedType ==
  ASSUME NEW stored \in Bar, NEW q \in Row
  PROVE  /\ Started(stored, q) \in Bar
         /\ stored.openTime = OpenOf(q.ts) /\ stored.closeTime = OpenOf(q.ts) + Interval =>
              Started(stored, q) = FirstOf(q)
<1> DEFINE px == PriceOf(q)
           v  == q.qty
           x  == [stored EXCEPT !.open = px, !.high = px, !.low = px, !.close = px,
                                !.volume = v, !.observations = 1]
<1>1. px \in Int /\ v \in Nat
  BY PriceType DEF Row
<1>2. Started(stored, q) = x
  BY DEF Started
<1>3. /\ FirstOf(q).open = px /\ FirstOf(q).high = px /\ FirstOf(q).low = px /\ FirstOf(q).close = px
      /\ FirstOf(q).volume = v /\ FirstOf(q).observations = 1
  BY DEF FirstOf
<1> HIDE DEF px, v
<1>4. x \in Bar
  BY <1>1 DEF Bar
<1>5. /\ x.openTime = stored.openTime /\ x.closeTime = stored.closeTime
      /\ x.open = px /\ x.high = px /\ x.low = px /\ x.close = px /\ x.volume = v /\ x.observations = 1
  BY <1>1 DEF Bar
<1> HIDE DEF x
<1>6. stored.openTime = OpenOf(q.ts) /\ stored.closeTime = OpenOf(q.ts) + Interval => x = FirstOf(q)
  BY <1>3, <1>4, <1>5, FirstType, SameBar
<1>7. QED
  BY <1>2, <1>4, <1>6

LEMMA AddsType ==
  ASSUME NEW stored \in Bar, NEW bar \in Bar \cup {Nothing}, NEW q \in Row
  PROVE  Adds(stored, bar, q) \in Bar \cup {Nothing}
BY JoinedType, StartedType DEF Adds

LEMMA FormingRuns ==
  ASSUME NEW rows, Ordered(rows), NEW t \in Nat,
         KnownCount(Build(rows), t) \in Nat,
         ~(KnownCount(Build(rows), t) >= Len(Build(rows))),
         ~(t < Build(rows)[KnownCount(Build(rows), t) + 1].openTime)
  PROVE  \E again : /\ Remakes(again, rows, Build(rows)[KnownCount(Build(rows), t) + 1], AtOrBefore(rows, t))
                    /\ Forming(rows, t) = again[AtOrBefore(rows, t)]
<1> DEFINE bars   == Build(rows)
           k      == KnownCount(bars, t)
           stored == bars[k + 1]
           n      == AtOrBefore(rows, t)
           S      == Bar \cup {Nothing}
           step   == [p \in S \X (1 .. n) |-> Adds(stored, p[1], rows[p[2]])]
           Is(f)  == f = [i \in 0 .. n |-> IF i = 0 THEN Nothing ELSE Adds(stored, f[i - 1], rows[i])]
           again  == CHOOSE f : Is(f)
<1>1. n \in Nat /\ \A i \in 1 .. n : rows[i] \in Row
  <2>1. n \in 0 .. Len(rows) /\ Len(rows) \in Nat
    BY PrintsBy
  <2>2. \A i \in 1 .. Len(rows) : rows[i] \in Row
    BY RowsTyped
  <2> HIDE DEF n
  <2>3. QED
    BY <2>1, <2>2
<1>2. Forming(rows, t) = again[n]
  BY DEF Forming, Adds
<1>3. stored \in Bar
  <2>1. bars \in Seq(Bar) /\ Len(bars) \in Nat
    BY BuildType
  <2>2. k \in Nat /\ ~(k >= Len(bars))
    OBVIOUS
  <2> HIDE DEF bars, k
  <2>3. k + 1 \in 1 .. Len(bars)
    BY <2>1, <2>2
  <2>4. QED
    BY <2>1, <2>3, BarTimes
<1> HIDE DEF n, stored, S
<1>4. \A bar \in S, i \in 1 .. n : Adds(stored, bar, rows[i]) \in S
  BY <1>1, <1>3, AddsType DEF S
<1>5. step \in [S \X (1 .. n) -> S]
  BY <1>4
<1>6. \E f : Recursion(f, n, S, Nothing, step)
  <2>1. Nothing \in S
    BY DEF S
  <2> HIDE DEF step
  <2>2. QED
    BY <1>1, <1>5, <2>1, RecursionExists
<1>7. PICK f : Recursion(f, n, S, Nothing, step)
  BY <1>6
<1>8. f \in [0 .. n -> S] /\ f[0] = Nothing /\ \A i \in 1 .. n : f[i] = Adds(stored, f[i - 1], rows[i])
  <2>1. f \in [0 .. n -> S] /\ f[0] = Nothing /\ \A i \in 1 .. n : f[i] = step[<<f[i - 1], i>>]
    <3> HIDE DEF step
    <3> QED
      BY <1>7 DEF Recursion
  <2>2. ASSUME NEW i \in 1 .. n PROVE f[i] = Adds(stored, f[i - 1], rows[i])
    <3>1. i - 1 \in 0 .. n
      BY <1>1
    <3>2. f[i - 1] \in S
      BY <2>1, <3>1
    <3>3. step[<<f[i - 1], i>>] = Adds(stored, f[i - 1], rows[i])
      BY <3>2
    <3>4. QED
      BY <2>1, <3>3
  <2>3. QED
    BY <2>1, <2>2
<1>9. Is(f)
  <2>1. \A i \in 0 .. n : f[i] = IF i = 0 THEN Nothing ELSE Adds(stored, f[i - 1], rows[i])
    BY <1>1, <1>8
  <2>2. QED
    BY <1>8, <2>1
<1>10. Is(again)
  <2> HIDE DEF Is
  <2> QED
    BY <1>9
<1> HIDE DEF again
<1>11. again[0] = Nothing /\ \A i \in 1 .. n : again[i] = Adds(stored, again[i - 1], rows[i])
  BY <1>1, <1>10
<1>12. \A i \in 0 .. n : again[i] \in S
  <2> DEFINE P == {i \in 0 .. n : again[i] \in S}
  <2>1. 0 \in P
    BY <1>1, <1>11 DEF S
  <2>2. ASSUME NEW i \in 1 .. n, i - 1 \in P PROVE i \in P
    <3>1. again[i - 1] \in S /\ i \in 0 .. n
      BY <1>1, <2>2
    <3>2. again[i] \in S
      BY <1>4, <1>11, <3>1
    <3>3. QED
      BY <3>1, <3>2
  <2> HIDE DEF P
  <2>3. \A i \in 0 .. n : i \in P
    BY <1>1, <2>1, <2>2, NatUpTo
  <2>4. QED
    BY <2>3 DEF P
<1>13. again \in [0 .. n -> S]
  BY <1>10, <1>12
<1>14. Remakes(again, rows, stored, n)
  BY <1>11, <1>13 DEF Remakes, S
<1>15. QED
  BY <1>2, <1>14 DEF n, stored

\* Before the stored bar opens nothing is put together.
LEMMA NothingMade ==
  ASSUME NEW rows, NEW stored, NEW n \in Nat, NEW again, Remakes(again, rows, stored, n),
         \A i \in 1 .. n : rows[i].ts < stored.openTime \/ PriceOf(rows[i]) <= 0
  PROVE  again[n] = Nothing
<1> DEFINE P == {i \in 0 .. n : again[i] = Nothing}
<1>1. 0 \in P
  BY DEF Remakes
<1>2. ASSUME NEW i \in 1 .. n, i - 1 \in P PROVE i \in P
  <2>1. again[i] = Adds(stored, again[i - 1], rows[i]) /\ again[i - 1] = Nothing /\ i \in 0 .. n
    BY <1>2 DEF Remakes
  <2>2. again[i] = Nothing
    BY <2>1 DEF Adds
  <2>3. QED
    BY <2>1, <2>2
<1> HIDE DEF P
<1>3. \A i \in 0 .. n : i \in P
  BY <1>1, <1>2, NatUpTo
<1>4. QED
  BY <1>3 DEF P

\* The last bar after a row that has a price.
LEMMA LastAfter ==
  ASSUME NEW old \in Seq(Bar), NEW q \in Row, PriceOf(q) > 0
  PROVE  /\ WithPrint(old, q) # <<>> /\ Last(WithPrint(old, q)).openTime = OpenOf(q.ts)
         /\ IF old # <<>> /\ Last(old).openTime = OpenOf(q.ts)
            THEN Last(WithPrint(old, q)) = Joined(Last(old), q) /\ Last(old) \in Bar
            ELSE Last(WithPrint(old, q)) = FirstOf(q)
<1> DEFINE new == WithPrint(old, q)
           n   == Len(old)
           o   == OpenOf(q.ts)
<1>1. /\ (old = <<>> \/ Last(old).openTime # o) =>
           Len(new) = n + 1 /\ new[n + 1] = FirstOf(q) /\ \A i \in 1 .. n : new[i] = old[i]
      /\ old # <<>> /\ Last(old).openTime = o =>
           Len(new) = n /\ n > 0 /\ new[n] = Joined(old[n], q) /\ \A i \in 1 .. n - 1 : new[i] = old[i]
      /\ new \in Seq(Bar)
  BY PrintBars
<1>2. FirstOf(q).openTime = o
  BY FirstType
<1> HIDE DEF new, o
<1>3. n \in Nat /\ (new = <<>> <=> Len(new) = 0) /\ Len(new) \in Nat
  BY <1>1
<1>4. Last(old) = old[n] /\ Last(new) = new[Len(new)]
  BY DEF Last
<1>5. CASE old # <<>> /\ Last(old).openTime = o
  <2>1. n \in 1 .. Len(old)
    BY <1>1, <1>3, <1>5
  <2>2. old[n] \in Bar
    BY <2>1, BarTimes
  <2>3. Joined(old[n], q).openTime = old[n].openTime
    BY <2>2, JoinedType
  <2>4. new # <<>> /\ Last(new) = Joined(Last(old), q) /\ Last(new).openTime = o /\ Last(old) \in Bar
    BY <1>1, <1>3, <1>4, <1>5, <2>2, <2>3
  <2>5. QED
    BY <1>5, <2>4 DEF new, o
<1>6. CASE ~(old # <<>> /\ Last(old).openTime = o)
  <2>1. new # <<>> /\ Last(new) = FirstOf(q) /\ Last(new).openTime = o
    BY <1>1, <1>2, <1>3, <1>4, <1>6
  <2>2. QED
    BY <1>6, <2>1 DEF new, o
<1>7. QED
  BY <1>5, <1>6

\* The bar put together is the last one, as far as its interval has begun.
SoFar(bars, o) == IF bars # <<>> /\ Last(bars).openTime = o THEN Last(bars) ELSE Nothing

LEMMA SoFarNext ==
  ASSUME NEW rows, Ordered(rows), NEW i \in 1 .. Len(rows), NEW old \in Seq(Bar), Shape(old, rows, i - 1),
         NEW stored \in Bar, stored.closeTime = stored.openTime + Interval,
         NEW u \in Nat, stored.openTime = OpenOf(u),
         PriceOf(rows[i]) > 0 => OpenOf(rows[i].ts) <= stored.openTime
  PROVE  SoFar(WithPrint(old, rows[i]), stored.openTime) = Adds(stored, SoFar(old, stored.openTime), rows[i])
<1> DEFINE q   == rows[i]
           o   == stored.openTime
           b   == OpenOf(q.ts)
           new == WithPrint(old, q)
<1>1. q \in Row /\ q.ts \in Nat /\ i \in Nat
  BY RowsTyped
<1>2. o \in Int /\ b \in Int /\ b <= q.ts /\ PriceOf(q) \in Int
  BY <1>1, BucketSpan, PriceType
<1>3. o <= q.ts => o <= b
  BY <1>1, Grid
<1> HIDE DEF q, b
<1>4. CASE PriceOf(q) <= 0
  <2>1. new = old
    BY <1>1, <1>4, PrintCases
  <2>2. Adds(stored, SoFar(old, o), q) = SoFar(old, o)
    BY <1>4 DEF Adds
  <2>3. QED
    BY <2>1, <2>2 DEF q
<1>5. CASE PriceOf(q) > 0
  <2>1. /\ new # <<>> /\ Last(new).openTime = b
        /\ IF old # <<>> /\ Last(old).openTime = b
           THEN Last(new) = Joined(Last(old), q) /\ Last(old) \in Bar ELSE Last(new) = FirstOf(q)
    BY <1>1, <1>5, LastAfter DEF b
  <2> HIDE DEF new
  <2>2. ~(PriceOf(q) <= 0) /\ b <= o
    BY <1>2, <1>5 DEF q, b
  <2>3. CASE q.ts < o
    <3>1. b < o
      BY <1>1, <1>2, <2>3
    <3>2. SoFar(new, o) = Nothing
      BY <1>2, <2>1, <3>1 DEF SoFar
    <3>3. old # <<>> => Last(old).openTime <= b /\ Last(old).openTime \in Int
      <4> SUFFICES ASSUME old # <<>> PROVE Last(old).openTime <= b /\ Last(old).openTime \in Int
        OBVIOUS
      <4>1. Len(old) \in 1 .. Len(old) /\ Last(old) = old[Len(old)]
        BY DEF Last
      <4>2. PICK j \in 1 .. i - 1 : old[Len(old)].openTime = OpenOf(rows[j].ts)
        BY <4>1 DEF Shape
      <4>3. j \in 1 .. Len(rows) /\ j <= i /\ Len(rows) \in Nat
        BY <1>1, RowsTyped
      <4>4. rows[j].ts \in Nat /\ rows[j].ts <= q.ts
        BY <4>3, OrderedTypes, RowsTyped DEF q
      <4>5. OpenOf(rows[j].ts) <= b /\ OpenOf(rows[j].ts) \in Int
        BY <1>1, <4>4, Grid, BucketSpan DEF b
      <4>6. QED
        BY <4>1, <4>2, <4>5
    <3>4. SoFar(old, o) = Nothing
      BY <1>2, <3>1, <3>3 DEF SoFar
    <3>5. Adds(stored, SoFar(old, o), q) = SoFar(old, o)
      BY <2>3 DEF Adds
    <3>6. QED
      BY <3>2, <3>4, <3>5 DEF new, q
  <2>4. CASE ~(q.ts < o)
    <3>1. b = o
      BY <1>1, <1>2, <1>3, <2>2, <2>4
    <3>2. SoFar(new, o) = Last(new)
      BY <2>1, <3>1 DEF SoFar
    <3>3. CASE old # <<>> /\ Last(old).openTime = o
      <4>1. SoFar(old, o) = Last(old) /\ Last(old) # Nothing
        BY <2>1, <3>1, <3>3, BarIsSomething DEF SoFar
      <4>2. Adds(stored, SoFar(old, o), q) = Joined(Last(old), q)
        BY <2>2, <2>4, <4>1 DEF Adds
      <4>3. QED
        BY <2>1, <3>1, <3>2, <3>3, <4>2 DEF new, q
    <3>4. CASE ~(old # <<>> /\ Last(old).openTime = o)
      <4>1. SoFar(old, o) = Nothing
        BY <3>4 DEF SoFar
      <4>2. Adds(stored, SoFar(old, o), q) = Started(stored, q)
        BY <2>2, <2>4, <4>1 DEF Adds
      <4>3. Started(stored, q) = FirstOf(q)
        BY <1>1, <3>1, StartedType DEF b
      <4>4. QED
        BY <2>1, <3>1, <3>2, <3>4, <4>2, <4>3 DEF new, q
    <3>5. QED
      BY <3>3, <3>4
  <2>5. QED
    BY <2>3, <2>4
<1>6. QED
  BY <1>2, <1>4, <1>5

\* Put together from the rows up to the m-th, it is the last bar of these rows.
LEMMA Remade ==
  ASSUME NEW rows, Ordered(rows), NEW after, Builds(after, rows), NEW m \in 0 .. Len(rows),
         NEW stored \in Bar, stored.closeTime = stored.openTime + Interval,
         after[m] # <<>>, Last(after[m]).openTime = stored.openTime,
         NEW again, Remakes(again, rows, stored, m)
  PROVE  again[m] = Last(after[m])
<1> DEFINE n == Len(rows)
           o == stored.openTime
           P == {i \in 0 .. m : again[i] = SoFar(after[i], o)}
<1>1. n \in Nat /\ m \in Nat /\ m \in 0 .. n /\ \A i \in 0 .. n : after[i] \in Seq(Bar) /\ Shape(after[i], rows, i)
  BY RowsTyped, Shapes
<1>2. \A i \in 1 .. n : rows[i].ts \in Nat
  BY RowsTyped
<1>3. PICK j \in 1 .. m : o = OpenOf(rows[j].ts)
  <2>1. Len(after[m]) \in 1 .. Len(after[m]) /\ Last(after[m]) = after[m][Len(after[m])]
    BY <1>1 DEF Last
  <2>2. QED
    BY <1>1, <2>1 DEF Shape
<1>4. \A i \in 1 .. m : PriceOf(rows[i]) > 0 => OpenOf(rows[i].ts) <= o
  BY <1>1 DEF Shape, Priced
<1> HIDE DEF n
<1>5. 0 \in P
  BY <1>1 DEF Remakes, Builds, SoFar
<1>6. ASSUME NEW i \in 1 .. m, i - 1 \in P PROVE i \in P
  <2>1. i \in 1 .. n /\ i \in 0 .. m /\ i - 1 \in 0 .. n /\ j \in 1 .. n
    BY <1>1
  <2>2. again[i - 1] = SoFar(after[i - 1], o) /\ again[i] = Adds(stored, again[i - 1], rows[i])
    BY <1>6 DEF Remakes
  <2>3. after[i] = WithPrint(after[i - 1], rows[i])
    BY <2>1 DEF Builds, n
  <2>4. rows[j].ts \in Nat /\ after[i - 1] \in Seq(Bar) /\ Shape(after[i - 1], rows, i - 1)
    BY <1>1, <1>2, <2>1
  <2>5. SoFar(after[i], o) = Adds(stored, SoFar(after[i - 1], o), rows[i])
    BY <1>3, <1>4, <2>1, <2>3, <2>4, SoFarNext DEF n
  <2>6. QED
    BY <2>1, <2>2, <2>5
<1>7. \A i \in 0 .. m : i \in P
  <2> HIDE DEF P
  <2> QED
    BY <1>1, <1>5, <1>6, NatUpTo
<1>8. again[m] = SoFar(after[m], o)
  BY <1>1, <1>7
<1>9. QED
  BY <1>8 DEF SoFar

\* The forming bar is the last bar of the rows by now, if it has not closed.
LEMMA FormingIs ==
  ASSUME NEW rows, Ordered(rows), NEW t \in Nat
  PROVE  LET known == Build(Truncated(rows, t))
         IN  Forming(rows, t) = IF known # <<>> /\ Last(known).closeTime > t THEN Last(known) ELSE Nothing
<1> DEFINE n == Len(rows)
           m == AtOrBefore(rows, t)
<1>1. PICK after : Builds(after, rows) /\ Build(rows) = after[n]
  BY BuildRuns
<1> DEFINE all   == after[n]
           known == after[m]
           k     == KnownCount(all, t)
           l     == Len(known)
<1>2. /\ m \in 0 .. n /\ n \in Nat /\ {i \in DOMAIN rows : rows[i].ts <= t} = 1 .. m
      /\ DOMAIN rows = 1 .. n /\ \A i \in 1 .. n : rows[i].ts \in Nat
  BY PrintsBy, RowsTyped
<1>3. Build(Truncated(rows, t)) = known
  BY <1>1, <1>2, PrefixBuilds DEF Truncated
<1> HIDE DEF m, n
<1>4. all \in Seq(Bar) /\ Shape(all, rows, n) /\ known \in Seq(Bar) /\ Shape(known, rows, m)
  <2>1. n \in 0 .. n
    BY <1>2
  <2>2. QED
    BY <1>1, <1>2, <2>1, Shapes DEF n
<1>5. Extends(all, known, t)
  <2>1. \A i \in m + 1 .. n : rows[i].ts > t
    BY <1>2
  <2>2. QED
    BY <1>1, <1>2, <2>1, ExtendsFrom DEF n
<1> HIDE DEF all, known
<1>6. /\ k = KnownCount(known, t) /\ k \in 0 .. Len(all) /\ k \in 0 .. l /\ Len(all) \in Nat /\ l \in Nat
      /\ \A i \in 1 .. k : all[i] = known[i]
  BY <1>4, <1>5, KnownSame DEF SameKnown
<1>7. {i \in DOMAIN known : known[i].closeTime <= t} = 1 .. KnownCount(known, t)
  BY <1>4, KnownBars
<1>8. DOMAIN known = 1 .. l /\ (known = <<>> <=> l = 0) /\ Last(known) = known[l]
      /\ {i \in 1 .. l : known[i].closeTime <= t} = 1 .. k
  <2>1. DOMAIN known = 1 .. l /\ (known = <<>> <=> l = 0)
    BY <1>4
  <2>2. QED
    BY <1>6, <1>7, <2>1 DEF Last
<1>9. \A i \in 1 .. l : known[i].openTime \in Int /\ known[i].closeTime \in Int
                        /\ known[i].closeTime = known[i].openTime + Interval
  BY <1>4, BarTimes DEF Shape
<1>10. Interval \in Nat \ {0}
  BY BarsAssumption
<1> DEFINE stored == all[k + 1]
<1>11. ~(k >= Len(all)) => /\ k + 1 \in 1 .. Len(all) /\ stored \in Bar
                           /\ stored.openTime \in Int /\ stored.closeTime = stored.openTime + Interval
  <2> SUFFICES ASSUME ~(k >= Len(all))
               PROVE  /\ k + 1 \in 1 .. Len(all) /\ stored \in Bar
                      /\ stored.openTime \in Int /\ stored.closeTime = stored.openTime + Interval
    OBVIOUS
  <2>1. k + 1 \in 1 .. Len(all)
    BY <1>6
  <2>2. QED
    BY <1>4, <2>1, BarTimes DEF Shape
<1>12. k >= Len(all) \/ (k < Len(all) /\ t < stored.openTime) => Forming(rows, t) = Nothing
  BY <1>1, <1>6 DEF Forming, all
<1>13. ~(k >= Len(all)) /\ ~(t < stored.openTime) =>
         \E again : Remakes(again, rows, stored, m) /\ Forming(rows, t) = again[m]
  <2>1. Build(rows) = all /\ k \in Nat
    BY <1>1, <1>6 DEF all
  <2>2. QED
    BY <2>1, FormingRuns DEF m
<1> HIDE DEF k, l, stored
<1>14. CASE known # <<>> /\ Last(known).closeTime > t
  <2>1. l > 0 /\ l \in 1 .. l /\ ~(known[l].closeTime <= t)
    BY <1>6, <1>8, <1>9, <1>14
  <2>2. k < l
    BY <1>6, <1>8, <2>1
  <2>3. PICK j \in 1 .. m : known[l].openTime = OpenOf(rows[j].ts)
    BY <1>4, <2>1 DEF Shape, l
  <2>4. known[l].openTime <= t
    <3>1. j \in 1 .. n /\ rows[j].ts <= t
      BY <1>2
    <3>2. OpenOf(rows[j].ts) <= rows[j].ts
      BY <1>2, <3>1, BucketSpan
    <3>3. QED
      BY <1>2, <1>9, <2>1, <2>3, <3>1, <3>2
  <2>5. k = l - 1
    <3>1. CASE l = 1
      BY <1>6, <2>2, <3>1
    <3>2. CASE l # 1
      <4>1. l - 1 \in 1 .. l /\ l - 1 < l
        BY <1>6, <2>1, <3>2
      <4>2. known[l - 1].closeTime <= known[l].openTime
        BY <1>4, <2>1, <4>1 DEF Shape, l
      <4>3. known[l - 1].closeTime <= t
        BY <1>9, <2>1, <2>4, <4>1, <4>2
      <4>4. l - 1 \in 1 .. k
        BY <1>8, <4>1, <4>3
      <4>5. QED
        BY <1>6, <2>2, <4>4
    <3>3. QED
      BY <3>1, <3>2
  <2>6. k + 1 = l /\ l <= Len(all)
    BY <1>5, <1>6, <2>5 DEF Extends, l
  <2>7. stored.openTime = known[l].openTime
    BY <1>5, <2>1, <2>6 DEF Extends, stored, l
  <2>8. ~(k >= Len(all)) /\ ~(t < stored.openTime)
    BY <1>6, <1>9, <2>1, <2>4, <2>6, <2>7
  <2>9. PICK again : Remakes(again, rows, stored, m) /\ Forming(rows, t) = again[m]
    BY <1>13, <2>8
  <2>10. Last(known).openTime = stored.openTime
    BY <1>8, <2>7
  <2>11. again[m] = Last(known)
    BY <1>1, <1>2, <1>11, <1>14, <2>8, <2>9, <2>10, Remade DEF known, n
  <2>12. QED
    BY <1>3, <1>14, <2>9, <2>11 DEF known
<1>15. CASE ~(known # <<>> /\ Last(known).closeTime > t)
  <2>1. k = l
    <3>1. l > 0 => known[l].closeTime <= t /\ l \in 1 .. l
      BY <1>6, <1>8, <1>9, <1>15
    <3>2. l > 0 => l \in 1 .. k
      BY <1>8, <3>1
    <3>3. QED
      BY <1>6, <3>2
  <2>2. ASSUME ~(k >= Len(all)), ~(t < stored.openTime) PROVE Forming(rows, t) = Nothing
    <3>1. PICK again : Remakes(again, rows, stored, m) /\ Forming(rows, t) = again[m]
      BY <1>13, <2>2
    <3>2. ASSUME NEW i \in 1 .. m PROVE rows[i].ts < stored.openTime \/ PriceOf(rows[i]) <= 0
      <4>1. i \in 1 .. n /\ rows[i].ts \in Nat
        BY <1>2
      <4>2. PriceOf(rows[i]) \in Int
        BY <4>1, RowsTyped, PriceType DEF n
      <4>3. SUFFICES ASSUME PriceOf(rows[i]) > 0 PROVE rows[i].ts < stored.openTime
        BY <4>2
      <4>4. known # <<>> /\ OpenOf(rows[i].ts) <= known[l].openTime
        BY <1>4, <1>8, <4>3 DEF Shape, Priced
      <4>5. l \in 1 .. l /\ l \in 1 .. k
        BY <1>6, <1>8, <2>1, <4>4
      <4>6. all[l] = known[l] /\ l \in 1 .. Len(all) /\ k + 1 \in 1 .. Len(all) /\ l < k + 1
        BY <1>6, <1>11, <2>1, <2>2, <4>5
      <4>7. all[l].closeTime <= stored.openTime
        BY <1>4, <4>6 DEF Shape, stored
      <4>8. rows[i].ts < OpenOf(rows[i].ts) + Interval /\ OpenOf(rows[i].ts) \in Int
        BY <4>1, BucketSpan
      <4>9. known[l].closeTime = known[l].openTime + Interval /\ known[l].openTime \in Int
        BY <1>9, <4>5
      <4>10. stored.openTime \in Int
        BY <1>11, <2>2
      <4>11. QED
        BY <1>10, <4>1, <4>4, <4>6, <4>7, <4>8, <4>9, <4>10
    <3>3. m \in Nat
      BY <1>2
    <3>4. again[m] = Nothing
      BY <3>1, <3>2, <3>3, NothingMade
    <3>5. QED
      BY <3>1, <3>4
  <2>3. Forming(rows, t) = Nothing
    BY <1>6, <1>12, <2>2
  <2>4. QED
    BY <1>3, <1>15, <2>3
<1>16. QED
  BY <1>14, <1>15

\* TruncatedSession shows the quotes up to its cutoff as the session does.
LEMMA CutColumn ==
  ASSUME NEW rows, Ordered(rows), NEW t \in Nat, NEW c \in Nat, t <= c
  PROVE  /\ \A back \in Nat : QuoteAt(Truncated(rows, c), t, back) = QuoteAt(rows, t, back)
         /\ Truncated(rows, c) # <<>> /\ Truncated(rows, c)[1].ts <= t
              <=> rows # <<>> /\ rows[1].ts <= t
<1> DEFINE cut == Truncated(rows, c)
           n   == AtOrBefore(rows, c)
           k   == AtOrBefore(rows, t)
<1>1. /\ n \in 0 .. Len(rows) /\ k \in 0 .. Len(rows) /\ Len(rows) \in Nat
      /\ {i \in DOMAIN rows : rows[i].ts <= c} = 1 .. n
      /\ {i \in DOMAIN rows : rows[i].ts <= t} = 1 .. k
  BY PrintsBy
<1>2. DOMAIN rows = 1 .. Len(rows) /\ \A i \in DOMAIN rows : rows[i].ts \in Nat
  BY OrderedTypes
<1>3. cut = SubSeq(rows, 1, n)
  BY DEF Truncated
<1> HIDE DEF n, k, cut
<1>4. k <= n
  BY <1>1, <1>2
<1>5. DOMAIN cut = 1 .. n /\ Len(cut) = n /\ \A i \in 1 .. n : cut[i] = rows[i]
  BY <1>1, <1>3 DEF Ordered
<1>6. {i \in DOMAIN cut : cut[i].ts <= t} = {i \in DOMAIN rows : rows[i].ts <= t}
  BY <1>1, <1>2, <1>4, <1>5
<1>7. AtOrBefore(cut, t) = k
  BY <1>6 DEF AtOrBefore, k
<1>8. ASSUME NEW back \in Nat PROVE QuoteAt(cut, t, back) = QuoteAt(rows, t, back)
  <2>1. ~(back >= k) => k - back \in 1 .. n
    BY <1>1, <1>4
  <2>2. ~(back >= k) => cut[k - back] = rows[k - back]
    BY <1>5, <2>1
  <2>3. QED
    BY <1>7, <2>2 DEF QuoteAt, k
<1>9. (cut # <<>> /\ cut[1].ts <= t) <=> (rows # <<>> /\ rows[1].ts <= t)
  <2>1. cut # <<>> <=> n > 0
    BY <1>1, <1>3, <1>5
  <2>2. rows # <<>> <=> Len(rows) > 0
    BY OrderedTypes
  <2>3. rows # <<>> /\ rows[1].ts <= t => 1 \in 1 .. k
    BY <1>1, <1>2, <2>2
  <2>4. QED
    BY <1>1, <1>4, <1>5, <2>1, <2>2, <2>3
<1>10. QED
  BY <1>8, <1>9 DEF cut

-----------------------------------------------------------------------------
(* Crossings, and the theorem.                                               *)

\* A quote that was the current one by t was printed by then.
LEMMA QuoteBy ==
  ASSUME NEW rows, Ordered(rows), NEW t \in Nat, NEW back \in Nat, QuoteAt(rows, t, back) # Nothing
  PROVE  QuoteAt(rows, t, back).ts \in Nat /\ QuoteAt(rows, t, back).ts <= t
<1> DEFINE n == AtOrBefore(rows, t)
<1>1. n \in 0 .. Len(rows) /\ Len(rows) \in Nat /\ {i \in DOMAIN rows : rows[i].ts <= t} = 1 .. n
  BY PrintsBy
<1>2. ~(back >= n) /\ QuoteAt(rows, t, back) = rows[n - back]
  BY DEF QuoteAt
<1> HIDE DEF n
<1>3. n - back \in 1 .. n
  BY <1>1, <1>2
<1>4. n - back \in 1 .. Len(rows) /\ rows[n - back].ts <= t
  BY <1>1, <1>3
<1>5. rows[n - back].ts \in Nat
  BY <1>4, RowsTyped
<1>6. QED
  BY <1>2, <1>4, <1>5

LEMMA CutOrdered ==
  ASSUME NEW rows, Ordered(rows), NEW c \in Nat
  PROVE  Ordered(Truncated(rows, c))
<1>1. AtOrBefore(rows, c) \in 0 .. Len(rows)
  BY PrintsBy
<1>2. PICK after : Builds(after, rows)
  BY BuildRuns
<1>3. QED
  BY <1>1, <1>2, PrefixBuilds DEF Truncated

LEMMA CutCrossings ==
  ASSUME NEW rows, Ordered(rows), NEW t \in Nat, NEW c \in Nat, t <= c
  PROVE  /\ InstantCross(rows, t) = InstantCross(Truncated(rows, c), t)
         /\ BarCloseCross(rows, t) = BarCloseCross(Truncated(rows, c), t)
<1> DEFINE cut   == Truncated(rows, c)
           bars  == Build(rows)
           other == Build(cut)
           prev  == QuoteAt(rows, t, 1)
<1>1. bars \in Seq(Bar) /\ other \in Seq(Bar)
  BY CutOrdered, BuildType
<1>2. QuoteAt(cut, t, 0) = QuoteAt(rows, t, 0) /\ QuoteAt(cut, t, 1) = prev
  BY CutColumn
<1>3. \A u \in Nat : u <= c => SameKnown(bars, other, u)
  BY CutKnows
<1>4. prev # Nothing => prev.ts \in Nat /\ prev.ts <= c
  <2>1. prev # Nothing => prev.ts \in Nat /\ prev.ts <= t
    BY QuoteBy
  <2> HIDE DEF prev
  <2>2. QED
    BY <2>1
<1> HIDE DEF bars, other, prev, cut
<1>5. \A u \in Nat, back \in {0, 1} : u <= c =>
        LevelAt(bars, MovingSum(bars), u, back) = LevelAt(other, MovingSum(other), u, back)
  BY <1>1, <1>3, SameLevels
<1>6. \A back \in {0, 1} : Completed(bars, t, back) = Completed(other, t, back)
  BY <1>3, SameCompleted
<1>7. InstantCross(rows, t) = InstantCross(cut, t)
  BY <1>2, <1>4, <1>5 DEF InstantCross, bars, other, prev
<1>8. BarCloseCross(rows, t) = BarCloseCross(cut, t)
  BY <1>5, <1>6 DEF BarCloseCross, bars, other
<1>9. QED
  BY <1>7, <1>8 DEF cut

LEMMA TapeOrdered == BarsSpec => []Ordered(tape)
<1>1. BarsInit => Ordered(tape)
  BY DEF BarsInit, Ordered
<1>2. Ordered(tape) /\ [Observe]_tape => Ordered(tape)'
  <2> SUFFICES ASSUME Ordered(tape), Observe PROVE Ordered(tape')
    BY DEF Ordered
  <2>1. PICK t \in (IF tape = <<>> THEN 0 ELSE Last(tape).ts) .. DayEnd, b \in Books :
          tape' = Append(tape, [ts |-> t, last |-> b.last, bid |-> b.bid, ask |-> b.ask, qty |-> b.qty])
    BY DEF Observe
  <2> DEFINE q == [ts |-> t, last |-> b.last, bid |-> b.bid, ask |-> b.ask, qty |-> b.qty]
             n == Len(tape)
  <2>2. /\ n \in Nat /\ tape \in Seq(Row) /\ (tape = <<>> <=> n = 0) /\ Last(tape) = tape[n]
        /\ \A i \in 1 .. n : tape[i].ts \in Nat
    <3>1. tape \in Seq(Row)
      BY DEF Ordered, Row
    <3>2. \A i \in 1 .. n : tape[i].ts \in Nat
      BY RowsTyped
    <3>3. n \in Nat /\ (tape = <<>> <=> n = 0) /\ Last(tape) = tape[n]
      BY <3>1 DEF Last
    <3>4. QED
      BY <3>1, <3>2, <3>3
  <2>3. t \in Nat /\ \A i \in 1 .. n : tape[i].ts <= t
    <3>1. DayEnd \in Nat
      BY BarsAssumption
    <3>2. CASE n = 0
      BY <2>2, <3>1, <3>2
    <3>3. CASE n > 0
      <4>1. tape[n].ts \in Nat /\ t \in tape[n].ts .. DayEnd
        BY <2>2, <3>3
      <4>2. \A i \in 1 .. n : tape[i].ts <= tape[n].ts
        <5>1. \A i, j \in 1 .. n : i <= j => tape[i].ts <= tape[j].ts
          BY OrderedTypes
        <5> HIDE DEF n
        <5>2. n \in 1 .. n
          BY <2>2, <3>3
        <5>3. QED
          BY <2>2, <5>1, <5>2
      <4> HIDE DEF n
      <4>3. QED
        BY <2>2, <3>1, <4>1, <4>2
    <3>4. n = 0 \/ n > 0
      BY <2>2
    <3> HIDE DEF n
    <3>5. QED
      BY <3>2, <3>3, <3>4
  <2>4. q \in Row
    BY <2>3, BarsAssumption DEF Row
  <2>5. q.ts = t
    OBVIOUS
  <2> HIDE DEF q, n
  <2>6. /\ Append(tape, q) \in Seq(Row) /\ DOMAIN Append(tape, q) = 1 .. n + 1
        /\ Append(tape, q)[n + 1] = q /\ \A i \in 1 .. n : Append(tape, q)[i] = tape[i]
    BY <2>2, <2>4 DEF n
  <2>7. \A i, j \in 1 .. n : i <= j => tape[i].ts <= tape[j].ts
    BY OrderedTypes DEF n
  <2>8. \A i, j \in 1 .. n + 1 : i <= j => Append(tape, q)[i].ts <= Append(tape, q)[j].ts
    <3> SUFFICES ASSUME NEW i \in 1 .. n + 1, NEW j \in 1 .. n + 1, i <= j
                 PROVE  Append(tape, q)[i].ts <= Append(tape, q)[j].ts
      OBVIOUS
    <3>1. CASE j \in 1 .. n
      <4>1. i \in 1 .. n
        BY <2>2, <3>1
      <4>2. QED
        BY <2>6, <2>7, <3>1, <4>1
    <3>2. CASE j = n + 1 /\ i \in 1 .. n
      BY <2>3, <2>5, <2>6, <3>2
    <3>3. CASE i = n + 1 /\ j = n + 1
      BY <2>3, <2>5, <2>6, <3>3
    <3>4. n \in Nat
      BY <2>2
    <3>5. j \in 1 .. n \/ (j = n + 1 /\ i \in 1 .. n) \/ (i = n + 1 /\ j = n + 1)
      BY <3>4
    <3>6. QED
      BY <3>1, <3>2, <3>3, <3>5
  <2>9. tape' = Append(tape, q)
    BY <2>1 DEF q
  <2>10. QED
    BY <2>6, <2>8, <2>9 DEF Ordered, Row
<1>3. QED
  BY <1>1, <1>2, PTL DEF BarsSpec

\* What a strategy reads of bars at a time, a bar that has closed, the one that is
\* forming or a crossing, does not depend on prints after that time, although bars
\* and averages are computed from the whole column.
THEOREM BarsAreCausal == BarsSpec => []BarReadingsAreCausal
<1>1. Ordered(tape) => BarReadingsAreCausal
  <2> SUFFICES ASSUME Ordered(tape), NEW t \in Asked
               PROVE  LET known == Build(Truncated(tape, t))
                      IN  /\ \A back \in 0 .. 2 : Completed(Build(tape), t, back) = Completed(known, t, back)
                          /\ Forming(tape, t) =
                               IF known # <<>> /\ Last(known).closeTime > t THEN Last(known) ELSE Nothing
                          /\ \A cutoff \in t .. DayEnd + Interval :
                               /\ InstantCross(tape, t) = InstantCross(Truncated(tape, cutoff), t)
                               /\ BarCloseCross(tape, t) = BarCloseCross(Truncated(tape, cutoff), t)
    BY DEF BarReadingsAreCausal
  <2>1. t \in Nat /\ DayEnd + Interval \in Nat
    BY BarsAssumption DEF Asked
  <2>2. SameKnown(Build(tape), Build(Truncated(tape, t)), t)
    BY <2>1, CutKnows
  <2>3. \A back \in 0 .. 2 : Completed(Build(tape), t, back) = Completed(Build(Truncated(tape, t)), t, back)
    BY <2>1, <2>2, SameCompleted
  <2>4. LET known == Build(Truncated(tape, t))
        IN  Forming(tape, t) = IF known # <<>> /\ Last(known).closeTime > t THEN Last(known) ELSE Nothing
    BY <2>1, FormingIs
  <2>5. ASSUME NEW cutoff \in t .. DayEnd + Interval
        PROVE  /\ InstantCross(tape, t) = InstantCross(Truncated(tape, cutoff), t)
               /\ BarCloseCross(tape, t) = BarCloseCross(Truncated(tape, cutoff), t)
    <3>1. cutoff \in Nat /\ t <= cutoff
      BY <2>1
    <3>2. QED
      BY <2>1, <3>1, CutCrossings
  <2>6. QED
    BY <2>3, <2>4, <2>5
<1>2. QED
  BY <1>1, TapeOrdered, PTL

-----------------------------------------------------------------------------
(* What bars say of their prints.                                            *)

LEMMA MaxIs ==
  ASSUME NEW S \in SUBSET Int, NEW m \in S, \A y \in S : y <= m
  PROVE  Max(S) = m
<1>1. Max(S) \in S /\ \A y \in S : Max(S) >= y
  BY DEF Max
<1>2. Max(S) \in Int /\ m \in Int /\ Max(S) >= m /\ Max(S) <= m
  BY <1>1
<1>3. QED
  BY <1>2

LEMMA MinIs ==
  ASSUME NEW S \in SUBSET Int, NEW m \in S, \A y \in S : m <= y
  PROVE  Min(S) = m
<1>1. Min(S) \in S /\ \A y \in S : Min(S) <= y
  BY DEF Min
<1>2. Min(S) \in Int /\ m \in Int /\ Min(S) <= m /\ Min(S) >= m
  BY <1>1
<1>3. QED
  BY <1>2

Quantities(rows) == [i \in DOMAIN rows |-> rows[i].qty]

\* Row i has a price and is in the interval of a bar.
FallsInto(bar, rows, i) == Priced(rows, i) /\ bar.openTime <= rows[i].ts /\ rows[i].ts < bar.closeTime

\* Those of the first k rows.
RowsOf(bar, rows, k) == {i \in 1 .. k : FallsInto(bar, rows, i)}

\* A bar says of the rows S what they say.
Tells(bar, rows, S) ==
  /\ S # {} /\ bar.observations = Cardinality(S) /\ bar.volume = Sum(Quantities(rows), S)
  /\ \E i \in S : bar.open = PriceOf(rows[i]) /\ \A j \in S : i <= j
  /\ \E i \in S : bar.close = PriceOf(rows[i]) /\ \A j \in S : j <= i
  /\ \E i \in S : bar.high = PriceOf(rows[i]) /\ \A j \in S : PriceOf(rows[j]) <= PriceOf(rows[i])
  /\ \E i \in S : bar.low = PriceOf(rows[i]) /\ \A j \in S : PriceOf(rows[i]) <= PriceOf(rows[j])

LEMMA RowQuantities ==
  ASSUME NEW rows, Ordered(rows), NEW S \in SUBSET (1 .. Len(rows))
  PROVE  IsFiniteSet(S) /\ Summable(Quantities(rows), S)
<1>1. Len(rows) \in Nat /\ DOMAIN rows = 1 .. Len(rows) /\ \A k \in 1 .. Len(rows) : rows[k] \in Row
  BY RowsTyped
<1>2. IsFiniteSet(1 .. Len(rows))
  BY <1>1, FS_Interval
<1>3. IsFiniteSet(S)
  BY <1>2, FS_Subset
<1>4. \A k \in 1 .. Len(rows) : Quantities(rows)[k] = rows[k].qty /\ rows[k].qty \in Nat
  BY <1>1 DEF Quantities, Row
<1>5. QED
  BY <1>3, <1>4 DEF Summable

LEMMA FirstTells ==
  ASSUME NEW rows, Ordered(rows), NEW k \in 1 .. Len(rows)
  PROVE  Tells(FirstOf(rows[k]), rows, {k})
<1> DEFINE q   == rows[k]
           bar == FirstOf(q)
<1>1. q \in Row /\ PriceOf(q) \in Int /\ k \in Int /\ k \in DOMAIN rows /\ q.qty \in Nat
  <2>1. q \in Row /\ k \in Int /\ k \in DOMAIN rows
    BY RowsTyped
  <2>2. QED
    BY <2>1, PriceType DEF Row
<1>2. /\ bar.open = PriceOf(q) /\ bar.close = PriceOf(q) /\ bar.high = PriceOf(q) /\ bar.low = PriceOf(q)
      /\ bar.volume = q.qty /\ bar.observations = 1
  BY DEF FirstOf
<1>3. Summable(Quantities(rows), {k}) /\ Cardinality({k}) = 1
  BY RowQuantities, FS_Singleton
<1>4. Sum(Quantities(rows), {k}) = Quantities(rows)[k] + Sum(Quantities(rows), {k} \ {k})
  BY <1>3, SumRemove
<1>5. {k} \ {k} = {} /\ Sum(Quantities(rows), {}) = 0 /\ Quantities(rows)[k] = q.qty
  BY <1>1, SumEmpty DEF Quantities
<1>6. Sum(Quantities(rows), {k}) = q.qty
  <2>1. Sum(Quantities(rows), {k}) = q.qty + 0
    BY <1>4, <1>5
  <2>2. QED
    BY <1>1, <2>1
<1> HIDE DEF bar
<1>7. \A i \in {k} : rows[i] = q
  BY DEF q
<1> HIDE DEF q
<1>8. QED
  BY <1>1, <1>2, <1>3, <1>6, <1>7 DEF Tells, bar, q

LEMMA JoinedTells ==
  ASSUME NEW rows, Ordered(rows), NEW k \in 1 .. Len(rows), NEW bar \in Bar,
         NEW S \in SUBSET (1 .. k - 1), Tells(bar, rows, S)
  PROVE  Tells(Joined(bar, rows[k]), rows, S \cup {k})
<1> DEFINE q   == rows[k]
           new == Joined(bar, q)
           T   == S \cup {k}
           px(i) == PriceOf(rows[i])
<1>1. q \in Row /\ k \in Int /\ k \in DOMAIN rows /\ q.qty \in Nat /\ T \subseteq 1 .. Len(rows) /\ Len(rows) \in Nat
  <2>1. q \in Row /\ k \in Int /\ k \in DOMAIN rows /\ Len(rows) \in Nat
    BY RowsTyped
  <2>2. T \subseteq 1 .. Len(rows)
    BY <2>1
  <2>3. QED
    BY <2>1, <2>2 DEF Row
<1>2. \A i \in T : px(i) \in Int /\ i \in Int
  <2>1. \A i \in T : rows[i] \in Row /\ i \in Int
    BY <1>1, RowsTyped
  <2>2. QED
    BY <2>1, PriceType
<1>3. k \notin S /\ T \ {k} = S /\ \A i \in S : i <= k
  BY <1>1
<1>4. /\ new.open = bar.open /\ new.close = px(k) /\ new.high = Max({bar.high, px(k)}) /\ new.low = Min({bar.low, px(k)})
      /\ new.volume = bar.volume + q.qty /\ new.observations = bar.observations + 1
  BY DEF Joined, Bar
<1>5. bar.high \in Int /\ bar.low \in Int /\ bar.volume \in Nat /\ bar.observations \in Nat
  BY DEF Bar
<1> HIDE DEF new, T, q, px
<1>6. new.observations = Cardinality(T)
  <2>1. IsFiniteSet(S) /\ S \subseteq 1 .. Len(rows)
    BY <1>1, RowQuantities DEF T
  <2>2. Cardinality(T) = Cardinality(S) + 1
    BY <1>3, <2>1, FS_AddElement DEF T
  <2>3. QED
    BY <1>4, <2>2 DEF Tells
<1>7. new.volume = Sum(Quantities(rows), T)
  <2>1. Summable(Quantities(rows), T) /\ k \in T
    BY <1>1, RowQuantities DEF T
  <2>2. Sum(Quantities(rows), T) = Quantities(rows)[k] + Sum(Quantities(rows), T \ {k})
    BY <2>1, SumRemove
  <2>3. Quantities(rows)[k] = q.qty
    BY <1>1 DEF Quantities, q
  <2>4. bar.volume = Sum(Quantities(rows), S)
    BY DEF Tells
  <2>5. QED
    <3>1. Sum(Quantities(rows), T) = q.qty + bar.volume
      BY <1>3, <2>2, <2>3, <2>4
    <3>2. QED
      BY <1>1, <1>4, <1>5, <3>1
<1>8. \E i \in T : new.open = px(i) /\ \A j \in T : i <= j
  <2>1. PICK i \in S : bar.open = px(i) /\ \A j \in S : i <= j
    BY DEF Tells, px
  <2>2. \A j \in T : i <= j
    BY <1>1, <1>3, <2>1 DEF T
  <2>3. QED
    BY <1>4, <2>1, <2>2 DEF T
<1>9. \E i \in T : new.close = px(i) /\ \A j \in T : j <= i
  BY <1>1, <1>3, <1>4 DEF T
<1>10. \E i \in T : new.high = px(i) /\ \A j \in T : px(j) <= px(i)
  <2>1. PICK i \in S : bar.high = px(i) /\ \A j \in S : px(j) <= px(i)
    BY DEF Tells, px
  <2>2. i \in T /\ k \in T /\ px(i) \in Int /\ px(k) \in Int /\ \A j \in T : j \in S \/ j = k
    BY <1>2 DEF T
  <2>3. CASE px(k) <= px(i)
    <3>1. Max({px(i), px(k)}) = px(i)
      <4>1. {px(i), px(k)} \in SUBSET Int /\ \A y \in {px(i), px(k)} : y <= px(i)
        BY <2>2, <2>3
      <4>2. QED
        BY <4>1, MaxIs
    <3>2. QED
      BY <1>4, <2>1, <2>2, <2>3, <3>1
  <2>4. CASE px(i) < px(k)
    <3>1. Max({px(i), px(k)}) = px(k)
      <4>1. {px(i), px(k)} \in SUBSET Int /\ \A y \in {px(i), px(k)} : y <= px(k)
        BY <2>2, <2>4
      <4>2. QED
        BY <4>1, MaxIs
    <3>2. \A j \in T : px(j) <= px(k)
      BY <1>2, <2>1, <2>2, <2>4
    <3>3. QED
      BY <1>4, <2>1, <2>2, <3>1, <3>2
  <2>5. QED
    BY <2>2, <2>3, <2>4
<1>11. \E i \in T : new.low = px(i) /\ \A j \in T : px(i) <= px(j)
  <2>1. PICK i \in S : bar.low = px(i) /\ \A j \in S : px(i) <= px(j)
    BY DEF Tells, px
  <2>2. i \in T /\ k \in T /\ px(i) \in Int /\ px(k) \in Int /\ \A j \in T : j \in S \/ j = k
    BY <1>2 DEF T
  <2>3. CASE px(i) <= px(k)
    <3>1. Min({px(i), px(k)}) = px(i)
      <4>1. {px(i), px(k)} \in SUBSET Int /\ \A y \in {px(i), px(k)} : px(i) <= y
        BY <2>2, <2>3
      <4>2. QED
        BY <4>1, MinIs
    <3>2. QED
      BY <1>4, <2>1, <2>2, <2>3, <3>1
  <2>4. CASE px(k) < px(i)
    <3>1. Min({px(i), px(k)}) = px(k)
      <4>1. {px(i), px(k)} \in SUBSET Int /\ \A y \in {px(i), px(k)} : px(k) <= y
        BY <2>2, <2>4
      <4>2. QED
        BY <4>1, MinIs
    <3>2. \A j \in T : px(k) <= px(j)
      BY <1>2, <2>1, <2>2, <2>4
    <3>3. QED
      BY <1>4, <2>1, <2>2, <3>1, <3>2
  <2>5. QED
    BY <2>2, <2>3, <2>4
<1>12. T # {}
  BY DEF T
<1>13. Tells(new, rows, T)
  BY <1>6, <1>7, <1>8, <1>9, <1>10, <1>11, <1>12 DEF Tells, px
<1>14. QED
  BY <1>13 DEF new, T, q

\* The k-th row is of a bar or it is not.
LEMMA RowsOfNext ==
  ASSUME NEW rows, NEW bar, NEW k \in Nat \ {0}
  PROVE  /\ RowsOf(bar, rows, k - 1) \subseteq 1 .. k - 1
         /\ FallsInto(bar, rows, k) => RowsOf(bar, rows, k) = RowsOf(bar, rows, k - 1) \cup {k}
         /\ ~FallsInto(bar, rows, k) => RowsOf(bar, rows, k) = RowsOf(bar, rows, k - 1)
<1>1. \A i : i \in 1 .. k <=> i \in 1 .. k - 1 \/ i = k
  OBVIOUS
<1>2. QED
  BY <1>1 DEF RowsOf

\* Every one of the first k rows that has a price is in a bar, and the bars say what
\* their rows say.
Told(bars, rows, k) ==
  /\ \A i \in 1 .. k : Priced(rows, i) => \E b \in 1 .. Len(bars) : bars[b].openTime = OpenOf(rows[i].ts)
  /\ \A b \in 1 .. Len(bars) : Tells(bars[b], rows, RowsOf(bars[b], rows, k))

LEMMA ToldNext ==
  ASSUME NEW rows, Ordered(rows), NEW k \in 1 .. Len(rows), NEW old \in Seq(Bar),
         Shape(old, rows, k - 1), Told(old, rows, k - 1)
  PROVE  Told(WithPrint(old, rows[k]), rows, k)
<1> DEFINE q   == rows[k]
           new == WithPrint(old, q)
           n   == Len(old)
           o   == OpenOf(q.ts)
<1>1. /\ q \in Row /\ q.ts \in Nat /\ k \in Nat \ {0} /\ PriceOf(q) \in Int /\ n \in Nat
      /\ \A i \in 1 .. k : i = k \/ i \in 1 .. k - 1
      /\ \A i \in 1 .. k : rows[i].ts \in Nat
      /\ (Priced(rows, k) <=> PriceOf(q) > 0)
  <2>1. Len(rows) \in Nat /\ k \in Nat \ {0} /\ q \in Row /\ q.ts \in Nat /\ \A i \in 1 .. k : rows[i].ts \in Nat
    BY RowsTyped
  <2>2. PriceOf(q) \in Int
    BY <2>1, PriceType
  <2>3. \A i \in 1 .. k : i = k \/ i \in 1 .. k - 1
    BY <2>1
  <2>4. n \in Nat
    OBVIOUS
  <2>5. QED
    BY <2>1, <2>2, <2>3, <2>4 DEF Priced
<1>2. Interval \in Nat \ {0} /\ o \in Int /\ o <= q.ts /\ q.ts < o + Interval
  BY <1>1, BucketSpan, BarsAssumption
<1>3. \A b \in 1 .. n : /\ old[b] \in Bar /\ old[b].openTime \in Int /\ old[b].closeTime \in Int
                        /\ old[b].closeTime = old[b].openTime + Interval
                        /\ Tells(old[b], rows, RowsOf(old[b], rows, k - 1))
  BY BarTimes DEF Shape, Told
<1>4. \A b \in 1 .. n : ~Priced(rows, k) \/ old[b].closeTime <= q.ts => RowsOf(old[b], rows, k) = RowsOf(old[b], rows, k - 1)
  <2> SUFFICES ASSUME NEW b \in 1 .. n, ~Priced(rows, k) \/ old[b].closeTime <= q.ts
               PROVE  RowsOf(old[b], rows, k) = RowsOf(old[b], rows, k - 1)
    OBVIOUS
  <2>1. ~FallsInto(old[b], rows, k)
    <3>1. rows[k].ts \in Nat /\ old[b].closeTime \in Int
      BY <1>1, <1>3
    <3>2. QED
      BY <3>1 DEF FallsInto
  <2>2. k \in Nat \ {0}
    BY <1>1
  <2>3. QED
    BY <2>1, <2>2, RowsOfNext
<1>5. CASE PriceOf(q) <= 0
  <2>1. new = old /\ ~Priced(rows, k)
    BY <1>1, <1>5, PrintCases
  <2>2. \A i \in 1 .. k : Priced(rows, i) => \E b \in 1 .. n : old[b].openTime = OpenOf(rows[i].ts)
    BY <1>1, <2>1 DEF Told
  <2>3. \A b \in 1 .. n : Tells(old[b], rows, RowsOf(old[b], rows, k))
    BY <1>3, <1>4, <2>1
  <2> HIDE DEF new
  <2>4. QED
    BY <2>1, <2>2, <2>3 DEF Told, new, q
<1>6. CASE PriceOf(q) > 0 /\ (old = <<>> \/ Last(old).openTime # o)
  <2> DEFINE bar == FirstOf(q)
  <2>1. Len(new) = n + 1 /\ new[n + 1] = bar /\ \A b \in 1 .. n : new[b] = old[b]
    BY <1>1, <1>6, PrintBars
  <2>2. bar.openTime = o /\ bar.closeTime = o + Interval
    BY <1>1, FirstType
  <2>3. \A b \in 1 .. n : old[b].closeTime <= o
    <3>1. SUFFICES ASSUME n # 0, NEW b \in 1 .. n PROVE old[b].closeTime <= o
      BY <1>1
    <3>2. n \in 1 .. n /\ Last(old) = old[n] /\ old # <<>>
      BY <1>1, <3>1 DEF Last
    <3>3. old[n].openTime < o /\ old[n].closeTime <= o
      <4>1. PICK j \in 1 .. k - 1 : old[n].openTime = OpenOf(rows[j].ts)
        BY <3>2 DEF Shape
      <4>2. j \in 1 .. k /\ rows[j].ts \in Nat /\ rows[j].ts <= q.ts
        <5>1. j \in 1 .. Len(rows) /\ j <= k /\ j \in 1 .. k
          BY <1>1, RowsTyped
        <5>2. QED
          BY <1>1, <5>1, OrderedTypes
      <4>3. OpenOf(rows[j].ts) <= o /\ (OpenOf(rows[j].ts) < o => OpenOf(rows[j].ts) + Interval <= o)
        BY <1>1, <4>2, Grid
      <4>4. old[n].openTime # o /\ old[n].openTime \in Int /\ old[n].closeTime = old[n].openTime + Interval
        BY <1>3, <1>6, <3>2
      <4>5. QED
        BY <1>2, <4>1, <4>3, <4>4
    <3>4. b < n => old[b].closeTime <= old[n].openTime
      BY <3>2 DEF Shape
    <3>5. CASE b < n
      <4>1. old[b].closeTime \in Int /\ old[n].openTime \in Int
        BY <1>3, <3>2
      <4>2. QED
        BY <1>2, <3>3, <3>4, <3>5, <4>1
    <3>6. CASE b = n
      BY <3>3, <3>6
    <3>7. b < n \/ b = n
      BY <1>1
    <3>8. QED
      BY <3>5, <3>6, <3>7
  <2>4. \A b \in 1 .. n : RowsOf(old[b], rows, k) = RowsOf(old[b], rows, k - 1)
    <3>1. \A b \in 1 .. n : old[b].closeTime <= q.ts
      BY <1>1, <1>2, <1>3, <2>3
    <3>2. QED
      BY <1>4, <3>1
  <2>5. \A i \in 1 .. k - 1 : Priced(rows, i) => rows[i].ts < o
    <3> SUFFICES ASSUME NEW i \in 1 .. k - 1, Priced(rows, i) PROVE rows[i].ts < o
      OBVIOUS
    <3>1. i \in 1 .. k /\ rows[i].ts \in Nat
      BY <1>1
    <3>2. PICK b \in 1 .. n : old[b].openTime = OpenOf(rows[i].ts)
      BY DEF Told
    <3>3. OpenOf(rows[i].ts) \in Int /\ rows[i].ts < OpenOf(rows[i].ts) + Interval
      BY <3>1, BucketSpan
    <3>4. old[b].closeTime = OpenOf(rows[i].ts) + Interval /\ old[b].closeTime <= o
      BY <1>3, <2>3, <3>2
    <3>5. QED
      BY <1>2, <3>1, <3>3, <3>4
  <2>6. RowsOf(bar, rows, k) = {k}
    <3>1. RowsOf(bar, rows, k - 1) = {}
      <4> SUFFICES ASSUME NEW i \in RowsOf(bar, rows, k - 1) PROVE FALSE
        OBVIOUS
      <4>1. i \in 1 .. k - 1 /\ Priced(rows, i) /\ o <= rows[i].ts
        BY <2>2 DEF RowsOf, FallsInto
      <4>2. rows[i].ts < o /\ rows[i].ts \in Nat
        BY <1>1, <2>5, <4>1
      <4>3. QED
        BY <1>2, <4>1, <4>2
    <3>2. FallsInto(bar, rows, k)
      <4>1. Priced(rows, k) /\ o <= rows[k].ts /\ rows[k].ts < o + Interval
        BY <1>1, <1>2, <1>6
      <4>2. QED
        BY <2>2, <4>1 DEF FallsInto
    <3>3. k \in Nat \ {0}
      BY <1>1
    <3> HIDE DEF bar
    <3>4. RowsOf(bar, rows, k) = RowsOf(bar, rows, k - 1) \cup {k}
      BY <3>2, <3>3, RowsOfNext
    <3>5. QED
      BY <3>1, <3>4
  <2>7. Tells(bar, rows, {k})
    BY FirstTells
  <2> HIDE DEF new, bar
  <2>8. \A b \in 1 .. n + 1 : b = n + 1 \/ b \in 1 .. n
    BY <1>1
  <2>9. \A b \in 1 .. n + 1 : Tells(new[b], rows, RowsOf(new[b], rows, k))
    BY <1>3, <2>1, <2>4, <2>6, <2>7, <2>8
  <2>10. ASSUME NEW i \in 1 .. k, Priced(rows, i)
         PROVE  \E b \in 1 .. n + 1 : new[b].openTime = OpenOf(rows[i].ts)
    <3>1. CASE i = k
      <4>1. n + 1 \in 1 .. n + 1
        BY <1>1
      <4>2. QED
        BY <2>1, <2>2, <3>1, <4>1
    <3>2. CASE i \in 1 .. k - 1
      <4>1. PICK b \in 1 .. n : old[b].openTime = OpenOf(rows[i].ts)
        BY <2>10, <3>2 DEF Told
      <4>2. b \in 1 .. n + 1 /\ new[b] = old[b]
        BY <1>1, <2>1
      <4>3. QED
        BY <4>1, <4>2
    <3>3. QED
      BY <1>1, <3>1, <3>2
  <2>11. Told(new, rows, k)
    BY <2>1, <2>9, <2>10 DEF Told
  <2>12. QED
    BY <2>11 DEF new
<1>7. CASE PriceOf(q) > 0 /\ old # <<>> /\ Last(old).openTime = o
  <2>1. /\ Len(new) = n /\ n > 0 /\ new[n] = Joined(old[n], q) /\ Last(old) = old[n]
        /\ \A b \in 1 .. n - 1 : new[b] = old[b]
    BY <1>1, <1>7, PrintBars DEF Last
  <2>2. n \in 1 .. n /\ \A b \in 1 .. n : b = n \/ (b \in 1 .. n - 1 /\ b < n)
    BY <1>1, <2>1
  <2>3. old[n].openTime = o /\ old[n].closeTime = o + Interval /\ old[n] \in Bar
    BY <1>3, <1>7, <2>1, <2>2
  <2>4. new[n].openTime = o /\ new[n].closeTime = o + Interval
    BY <1>1, <2>1, <2>3, JoinedType
  <2>5. RowsOf(new[n], rows, k) = RowsOf(old[n], rows, k - 1) \cup {k}
    <3>1. FallsInto(old[n], rows, k)
      <4>1. Priced(rows, k) /\ o <= rows[k].ts /\ rows[k].ts < o + Interval
        BY <1>1, <1>2, <1>7
      <4>2. QED
        BY <2>3, <4>1 DEF FallsInto
    <3>2. RowsOf(old[n], rows, k) = RowsOf(old[n], rows, k - 1) \cup {k}
      <4>1. k \in Nat \ {0}
        BY <1>1
      <4>2. QED
        BY <3>1, <4>1, RowsOfNext
    <3>3. RowsOf(new[n], rows, k) = RowsOf(old[n], rows, k)
      BY <2>3, <2>4 DEF RowsOf, FallsInto
    <3>4. QED
      BY <3>2, <3>3
  <2>6. Tells(new[n], rows, RowsOf(new[n], rows, k))
    <3>1. RowsOf(old[n], rows, k - 1) \in SUBSET (1 .. k - 1)
      BY <1>1, RowsOfNext
    <3>2. Tells(Joined(old[n], q), rows, RowsOf(old[n], rows, k - 1) \cup {k})
      BY <1>3, <2>2, <2>3, <3>1, JoinedTells
    <3>3. QED
      BY <2>1, <2>5, <3>2
  <2>7. ASSUME NEW b \in 1 .. n, b < n PROVE Tells(new[b], rows, RowsOf(new[b], rows, k))
    <3>1. old[b].closeTime <= old[n].openTime
      BY <2>2, <2>7 DEF Shape
    <3>2. old[b].closeTime <= q.ts
      BY <1>1, <1>2, <1>3, <2>3, <3>1
    <3>3. new[b] = old[b]
      BY <2>1, <2>2, <2>7
    <3>4. QED
      BY <1>3, <1>4, <3>2, <3>3
  <2>8. \A b \in 1 .. n : Tells(new[b], rows, RowsOf(new[b], rows, k))
    <3> HIDE DEF new
    <3> QED
      BY <2>2, <2>6, <2>7
  <2>9. ASSUME NEW i \in 1 .. k, Priced(rows, i)
        PROVE  \E b \in 1 .. n : new[b].openTime = OpenOf(rows[i].ts)
    <3>1. CASE i = k
      BY <2>2, <2>4, <3>1
    <3>2. CASE i \in 1 .. k - 1
      <4>1. PICK b \in 1 .. n : old[b].openTime = OpenOf(rows[i].ts)
        BY <2>9, <3>2 DEF Told
      <4>2. new[b].openTime = old[b].openTime
        <5>1. CASE b = n
          BY <2>3, <2>4, <5>1
        <5>2. CASE b \in 1 .. n - 1
          BY <2>1, <5>2
        <5>3. QED
          BY <2>2, <5>1, <5>2
      <4>3. QED
        BY <4>1, <4>2
    <3>3. QED
      BY <1>1, <3>1, <3>2
  <2> HIDE DEF new
  <2>10. Told(new, rows, k)
    BY <2>1, <2>8, <2>9 DEF Told
  <2>11. QED
    BY <2>10 DEF new
<1>8. QED
  <2>1. \/ PriceOf(q) <= 0
        \/ PriceOf(q) > 0 /\ (old = <<>> \/ Last(old).openTime # o)
        \/ PriceOf(q) > 0 /\ old # <<>> /\ Last(old).openTime = o
    BY <1>1
  <2>2. QED
    BY <1>5, <1>6, <1>7, <2>1

LEMMA BuildTold ==
  ASSUME NEW rows, Ordered(rows)
  PROVE  /\ Build(rows) \in Seq(Bar)
         /\ Shape(Build(rows), rows, Len(rows))
         /\ Told(Build(rows), rows, Len(rows))
<1>1. PICK after : Builds(after, rows) /\ Build(rows) = after[Len(rows)]
  BY BuildRuns
<1>2. Len(rows) \in Nat /\ \A k \in 0 .. Len(rows) : after[k] \in Seq(Bar) /\ Shape(after[k], rows, k)
  BY <1>1, RowsTyped, Shapes
<1> DEFINE P == {k \in 0 .. Len(rows) : Told(after[k], rows, k)}
<1>3. 0 \in P
  <2>1. after[0] = <<>> /\ 0 \in 0 .. Len(rows) /\ 1 .. 0 = {} /\ Len(<<>>) = 0
    BY <1>1, <1>2 DEF Builds
  <2>2. Told(<<>>, rows, 0)
    BY <2>1 DEF Told
  <2>3. QED
    BY <2>1, <2>2
<1>4. ASSUME NEW k \in 1 .. Len(rows), k - 1 \in P PROVE k \in P
  <2>1. k - 1 \in 0 .. Len(rows) /\ k \in 0 .. Len(rows) /\ Told(after[k - 1], rows, k - 1)
    BY <1>2, <1>4
  <2>2. after[k - 1] \in Seq(Bar) /\ Shape(after[k - 1], rows, k - 1)
    BY <1>2, <2>1
  <2>3. after[k] = WithPrint(after[k - 1], rows[k])
    BY <1>1 DEF Builds
  <2>4. Told(after[k], rows, k)
    BY <2>1, <2>2, <2>3, ToldNext
  <2>5. QED
    BY <2>1, <2>4
<1> HIDE DEF P
<1>5. \A k \in 0 .. Len(rows) : k \in P
  BY <1>2, <1>3, <1>4, NatUpTo
<1>6. Told(after[Len(rows)], rows, Len(rows))
  <2>1. Len(rows) \in P
    BY <1>2, <1>5
  <2>2. QED
    BY <2>1 DEF P
<1>7. QED
  BY <1>1, <1>2, <1>6

-----------------------------------------------------------------------------
(* The running sum is that of the window.                                    *)

Closes(bars) == [c \in DOMAIN bars |-> bars[c].close]
Window(i) == {c \in 1 .. i : i - Period < c}

LEMMA WindowNext ==
  ASSUME NEW bars \in Seq(Bar), NEW i \in 1 .. Len(bars)
  PROVE  Sum(Closes(bars), Window(i)) =
           Sum(Closes(bars), Window(i - 1)) + bars[i].close - (IF i > Period THEN bars[i - Period].close ELSE 0)
<1> DEFINE T == Window(i - 1) \cup {i}
           F == Closes(bars)
           n == Len(bars)
<1>1. n \in Nat /\ Period \in Nat \ {0} /\ i \in Nat \ {0} /\ i <= n
  BY BarsAssumption
<1>2. \A c \in 1 .. n : F[c] = bars[c].close /\ F[c] \in Int
  <2>1. \A c \in 1 .. n : F[c] = bars[c].close /\ bars[c] \in Bar
    BY DEF Closes
  <2>2. QED
    BY <2>1 DEF Bar
<1> HIDE DEF n, F
<1>3. T \subseteq 1 .. n /\ Window(i - 1) \subseteq 1 .. n /\ Window(i) \subseteq 1 .. n
  BY <1>1 DEF Window
<1>4. \A S \in SUBSET (1 .. n) : Summable(F, S)
  <2>1. IsFiniteSet(1 .. n)
    BY <1>1, FS_Interval
  <2>2. QED
    BY <1>2, <2>1, FS_Subset DEF Summable
<1>5. i \in T /\ T \ {i} = Window(i - 1)
  BY <1>1 DEF Window
<1>6. T = IF i > Period THEN Window(i) \cup {i - Period} ELSE Window(i)
  BY <1>1 DEF Window
<1>7. i - Period \notin Window(i)
  BY <1>1 DEF Window
<1> HIDE DEF T
<1>8. Sum(F, T) = F[i] + Sum(F, Window(i - 1))
  <2>1. Summable(F, T)
    BY <1>3, <1>4
  <2>2. Sum(F, T) = F[i] + Sum(F, T \ {i})
    BY <1>5, <2>1, SumRemove
  <2>3. QED
    BY <1>5, <2>2
<1>9. Sum(F, T) \in Int /\ Sum(F, Window(i)) \in Int /\ Sum(F, Window(i - 1)) \in Int
  <2>1. Summable(F, T) /\ Summable(F, Window(i)) /\ Summable(F, Window(i - 1))
    BY <1>3, <1>4
  <2>2. QED
    BY <2>1, SumInt
<1>10. F[i] = bars[i].close /\ F[i] \in Int
  BY <1>1, <1>2
<1>11. CASE i > Period
  <2>1. i - Period \in T /\ T \ {i - Period} = Window(i)
    BY <1>6, <1>7, <1>11
  <2>2. Summable(F, T)
    BY <1>3, <1>4
  <2>3. Sum(F, T) = F[i - Period] + Sum(F, T \ {i - Period})
    BY <2>1, <2>2, SumRemove
  <2>4. F[i - Period] = bars[i - Period].close /\ F[i - Period] \in Int
    BY <1>2, <1>3, <2>1
  <2>5. Sum(F, T) = F[i - Period] + Sum(F, Window(i))
    BY <2>1, <2>3
  <2>6. Sum(F, Window(i)) = Sum(F, Window(i - 1)) + F[i] - F[i - Period]
    BY <1>8, <1>9, <1>10, <2>4, <2>5
  <2>7. QED
    BY <1>10, <1>11, <2>4, <2>6 DEF F
<1>12. CASE ~(i > Period)
  <2>1. Sum(F, Window(i)) = F[i] + Sum(F, Window(i - 1))
    BY <1>6, <1>8, <1>12
  <2>2. Sum(F, Window(i)) = Sum(F, Window(i - 1)) + F[i] - 0
    BY <1>9, <1>10, <2>1
  <2>3. QED
    BY <1>10, <1>12, <2>2 DEF F
<1>13. QED
  BY <1>11, <1>12

LEMMA MovingSumIs ==
  ASSUME NEW bars \in Seq(Bar), NEW b \in 1 .. Len(bars)
  PROVE  MovingSum(bars)[b] = IF b < Period THEN Nothing ELSE [sum |-> Sum(Closes(bars), b - Period + 1 .. b)]
<1>1. PICK running :
        /\ WindowSums(running, bars)
        /\ MovingSum(bars) = [i \in 1 .. Len(bars) |-> IF i >= Period THEN [sum |-> running[i]] ELSE Nothing]
  BY MovingSumRuns
<1>2. Len(bars) \in Nat /\ Period \in Nat \ {0} /\ b \in Nat \ {0} /\ b \in 0 .. Len(bars)
  BY BarsAssumption
<1> DEFINE P == {i \in 0 .. Len(bars) : running[i] = Sum(Closes(bars), Window(i))}
<1>3. 0 \in P
  <2>1. running[0] = 0 /\ Window(0) = {} /\ 0 \in 0 .. Len(bars)
    BY <1>1, <1>2 DEF WindowSums, Window
  <2>2. QED
    BY <2>1, SumEmpty
<1>4. ASSUME NEW i \in 1 .. Len(bars), i - 1 \in P PROVE i \in P
  <2>1. i \in 0 .. Len(bars)
    BY <1>2
  <2>2. running[i] = running[i - 1] + bars[i].close - (IF i > Period THEN bars[i - Period].close ELSE 0)
    BY <1>1 DEF WindowSums
  <2>3. running[i - 1] = Sum(Closes(bars), Window(i - 1))
    BY <1>4
  <2>4. running[i] = Sum(Closes(bars), Window(i))
    BY <2>2, <2>3, WindowNext
  <2>5. QED
    BY <2>1, <2>4
<1> HIDE DEF P
<1>5. \A i \in 0 .. Len(bars) : i \in P
  BY <1>2, <1>3, <1>4, NatUpTo
<1>6. running[b] = Sum(Closes(bars), Window(b))
  BY <1>2, <1>5 DEF P
<1>7. b >= Period => Window(b) = b - Period + 1 .. b
  BY <1>2 DEF Window
<1>8. MovingSum(bars)[b] = IF b >= Period THEN [sum |-> running[b]] ELSE Nothing
  BY <1>1
<1>9. b >= Period <=> ~(b < Period)
  BY <1>2
<1>10. QED
  BY <1>6, <1>7, <1>8, <1>9

\* Bars split the day, each says of its prints what they say, and the moving average
\* is that of its window.
THEOREM BarsTellTheirPrints == BarsSpec => []BarsAreOfTheirPrints
<1>1. Ordered(tape) => BarsAreOfTheirPrints
  <2> SUFFICES ASSUME Ordered(tape) PROVE BarsAreOfTheirPrints
    OBVIOUS
  <2> DEFINE bars == Build(tape)
             n    == Len(tape)
             Of(bar) == {i \in DOMAIN tape : /\ PriceOf(tape[i]) > 0
                                             /\ bar.openTime <= tape[i].ts /\ tape[i].ts < bar.closeTime}
             PricesIn(bar) == {PriceOf(tape[i]) : i \in Of(bar)}
  <2>1. /\ bars \in Seq(Bar) /\ DOMAIN bars = 1 .. Len(bars)
        /\ Shape(bars, tape, n) /\ Told(bars, tape, n)
    BY BuildTold
  <2>2. n \in Nat /\ DOMAIN tape = 1 .. n /\ \A i \in 1 .. n : tape[i] \in Row /\ tape[i].ts \in Nat
    BY RowsTyped
  <2> HIDE DEF bars, n
  <2>3. \A bar : Of(bar) = RowsOf(bar, tape, n)
    BY <2>2 DEF RowsOf, FallsInto, Priced
  <2>4. \A i \in 1 .. n : PriceOf(tape[i]) \in Int /\ i \in Int
    BY <2>2, PriceType
  <2> HIDE DEF Of
  <2>5. \A b, c \in DOMAIN bars : b < c => bars[b].closeTime <= bars[c].openTime
    BY <2>1 DEF Shape
  <2>6. \A i \in DOMAIN tape : PriceOf(tape[i]) > 0 => \E b \in DOMAIN bars : i \in Of(bars[b])
    <3> SUFFICES ASSUME NEW i \in 1 .. n, PriceOf(tape[i]) > 0 PROVE \E b \in DOMAIN bars : i \in Of(bars[b])
      BY <2>2
    <3>1. PICK b \in 1 .. Len(bars) : bars[b].openTime = OpenOf(tape[i].ts)
      BY <2>1 DEF Told, Priced
    <3>2. bars[b].closeTime = OpenOf(tape[i].ts) + Interval
      BY <2>1, <3>1 DEF Shape
    <3>3. OpenOf(tape[i].ts) <= tape[i].ts /\ tape[i].ts < OpenOf(tape[i].ts) + Interval
      BY <2>2, BucketSpan
    <3>4. i \in RowsOf(bars[b], tape, n)
      BY <3>1, <3>2, <3>3 DEF RowsOf, FallsInto, Priced
    <3>5. QED
      BY <2>1, <2>3, <3>4
  <2>7. ASSUME NEW b \in DOMAIN bars
        PROVE  LET bar == bars[b]
               IN  /\ Of(bar) # {} /\ bar.observations = Cardinality(Of(bar))
                   /\ bar.open = PriceOf(tape[Min(Of(bar))]) /\ bar.close = PriceOf(tape[Max(Of(bar))])
                   /\ bar.high = Max(PricesIn(bar)) /\ bar.low = Min(PricesIn(bar))
                   /\ bar.volume = SumFunctionOnSet([i \in DOMAIN tape |-> tape[i].qty], Of(bar))
    <3> DEFINE bar == bars[b]
               S   == Of(bar)
    <3>1. Tells(bar, tape, S)
      BY <2>1, <2>3 DEF Told
    <3>2. S \subseteq 1 .. n
      BY <2>3 DEF RowsOf
    <3> HIDE DEF bar, S
    <3>3. S \in SUBSET Int /\ \A i \in S : PriceOf(tape[i]) \in Int
      BY <2>4, <3>2
    <3> DEFINE prices == {PriceOf(tape[i]) : i \in S}
    <3>4. prices \in SUBSET Int
      BY <3>3
    <3>5. bar.open = PriceOf(tape[Min(S)])
      <4>1. PICK i \in S : bar.open = PriceOf(tape[i]) /\ \A j \in S : i <= j
        BY <3>1 DEF Tells
      <4>2. QED
        BY <3>3, <4>1, MinIs
    <3>6. bar.close = PriceOf(tape[Max(S)])
      <4>1. PICK i \in S : bar.close = PriceOf(tape[i]) /\ \A j \in S : j <= i
        BY <3>1 DEF Tells
      <4>2. QED
        BY <3>3, <4>1, MaxIs
    <3>7. bar.high = Max(prices)
      <4>1. PICK i \in S : bar.high = PriceOf(tape[i]) /\ \A j \in S : PriceOf(tape[j]) <= PriceOf(tape[i])
        BY <3>1 DEF Tells
      <4>2. bar.high \in prices /\ \A p \in prices : p <= bar.high
        BY <4>1
      <4> HIDE DEF prices
      <4>3. QED
        BY <3>4, <4>2, MaxIs
    <3>8. bar.low = Min(prices)
      <4>1. PICK i \in S : bar.low = PriceOf(tape[i]) /\ \A j \in S : PriceOf(tape[i]) <= PriceOf(tape[j])
        BY <3>1 DEF Tells
      <4>2. bar.low \in prices /\ \A p \in prices : bar.low <= p
        BY <4>1
      <4> HIDE DEF prices
      <4>3. QED
        BY <3>4, <4>2, MinIs
    <3>9. S # {} /\ bar.observations = Cardinality(S)
          /\ bar.volume = SumFunctionOnSet([i \in DOMAIN tape |-> tape[i].qty], S)
      BY <3>1 DEF Tells, Sum, Quantities
    <3>10. prices = PricesIn(bar)
      BY DEF S
    <3> HIDE DEF prices
    <3>11. QED
      BY <3>5, <3>6, <3>7, <3>8, <3>9, <3>10 DEF S, bar
  <2>8. ASSUME NEW b \in DOMAIN bars
        PROVE  MovingSum(bars)[b] =
                 IF b < Period THEN Nothing
                 ELSE [sum |-> SumFunctionOnSet([c \in DOMAIN bars |-> bars[c].close], b - Period + 1 .. b)]
    BY <2>1, MovingSumIs DEF Sum, Closes
  <2>9. QED
    BY <2>5, <2>6, <2>7, <2>8 DEF BarsAreOfTheirPrints, bars, Of
<1>2. QED
  BY <1>1, TapeOrdered, PTL

-----------------------------------------------------------------------------
(* The chain.  All a day says to what is asked of the chain at a time is     *)
(* which options have printed by then and the quotes of then, and a cutoff   *)
(* at that time or later changes neither.                                    *)

\* Two days that a strategy cannot tell apart at time t.
Alike(day, other, t) ==
  /\ \A k : \A right \in Rights :
       /\ PrintedBy(day, k, right, t) <=> PrintedBy(other, k, right, t)
       /\ Quoted(day, k, right, t) = Quoted(other, k, right, t)
  /\ QuoteAt(day.spot, t, 0) = QuoteAt(other.spot, t, 0)

OrderedColumns ==
  /\ \A k \in DOMAIN options : \A right \in Rights : Ordered(options[k][right])
  /\ Ordered(spot)

LEMMA CutIsAlike ==
  ASSUME OrderedColumns, NEW t \in Nat, NEW c \in Nat, t <= c
  PROVE  Alike(Today, CutOff(Today, c), t)
<1> DEFINE cut == CutOff(Today, c)
<1>1. /\ DOMAIN cut.options = DOMAIN options /\ Today.options = options /\ Today.spot = spot
      /\ \A k \in DOMAIN options : \A right \in Rights : cut.options[k][right] = Truncated(options[k][right], c)
      /\ cut.spot = Truncated(spot, c)
  BY DEF CutOff, Today
<1> HIDE DEF cut
<1>2. ASSUME NEW k, NEW right \in Rights
      PROVE  /\ PrintedBy(Today, k, right, t) <=> PrintedBy(cut, k, right, t)
             /\ Quoted(Today, k, right, t) = Quoted(cut, k, right, t)
  <2>1. CASE k \in DOMAIN options
    <3> DEFINE rows == options[k][right]
    <3>1. Ordered(rows) /\ cut.options[k][right] = Truncated(rows, c) /\ Today.options[k][right] = rows
      BY <1>1, <2>1 DEF OrderedColumns
    <3> HIDE DEF rows
    <3>2. /\ QuoteAt(Truncated(rows, c), t, 0) = QuoteAt(rows, t, 0)
          /\ Truncated(rows, c) # <<>> /\ Truncated(rows, c)[1].ts <= t
               <=> rows # <<>> /\ rows[1].ts <= t
      BY <3>1, CutColumn
    <3>3. QED
      BY <1>1, <2>1, <3>1, <3>2 DEF PrintedBy, Quoted
  <2>2. CASE k \notin DOMAIN options
    BY <1>1, <2>2 DEF PrintedBy, Quoted
  <2>3. QED
    BY <2>1, <2>2
<1>3. QuoteAt(cut.spot, t, 0) = QuoteAt(Today.spot, t, 0)
  BY <1>1, CutColumn DEF OrderedColumns
<1>4. QED
  BY <1>2, <1>3 DEF Alike, cut

LEMMA AlikeSeen ==
  ASSUME NEW day, NEW other, NEW t, Alike(day, other, t)
  PROVE  StrikesSeen(day, t) = StrikesSeen(other, t)
<1>1. {k \in Strikes : \E r \in Rights : PrintedBy(day, k, r, t)}
        = {k \in Strikes : \E r \in Rights : PrintedBy(other, k, r, t)}
  BY DEF Alike
<1>2. QED
  BY <1>1 DEF StrikesSeen

LEMMA AlikeTwoSided ==
  ASSUME NEW day, NEW other, NEW t, Alike(day, other, t)
  PROVE  \A k : \A r \in Rights : TwoSidedAt(day, k, r, t) <=> TwoSidedAt(other, k, r, t)
BY DEF Alike, TwoSidedAt

LEMMA AlikeParity ==
  ASSUME NEW day, NEW other, NEW t, Alike(day, other, t), NEW strikes
  PROVE  Parity(day, strikes, t) = Parity(other, strikes, t)
<1>1. "Call" \in Rights /\ "Put" \in Rights
  BY DEF Rights
<1>2. ASSUME NEW i \in DOMAIN strikes
      PROVE  /\ (\A r \in Rights : TwoSidedAt(day, strikes[i], r, t)) <=> (\A r \in Rights : TwoSidedAt(other, strikes[i], r, t))
             /\ Quoted(day, strikes[i], "Call", t) = Quoted(other, strikes[i], "Call", t)
             /\ Quoted(day, strikes[i], "Put", t) = Quoted(other, strikes[i], "Put", t)
  BY <1>1, AlikeTwoSided DEF Alike
<1>3. QED
  BY <1>2 DEF Parity

LEMMA AlikeForward ==
  ASSUME NEW day, NEW other, NEW t, Alike(day, other, t)
  PROVE  ForwardOf(day, t) = ForwardOf(other, t)
BY AlikeSeen, AlikeParity DEF ForwardOf

LEMMA AlikeAtm ==
  ASSUME NEW day, NEW other, NEW t, Alike(day, other, t), NEW strikes, NEW fwd
  PROVE  Atm(day, t, strikes, fwd) = Atm(other, t, strikes, fwd)
<1>1. Reference(day, t, fwd) = Reference(other, t, fwd)
  BY DEF Reference, Alike
<1>2. QED
  BY <1>1 DEF Atm

LEMMA AlikeOption ==
  ASSUME NEW day, NEW other, NEW t, Alike(day, other, t), NEW ks, NEW right \in Rights
  PROVE  Option(day, t, ks, right) = Option(other, t, ks, right)
<1>1. {x \in ks : PrintedBy(day, x, right, t)} = {x \in ks : PrintedBy(other, x, right, t)}
  BY DEF Alike
<1>2. QED
  BY <1>1 DEF Option

LEMMA AlikeByDelta ==
  ASSUME NEW day, NEW other, NEW t, Alike(day, other, t), NEW strikes, NEW fwd, NEW target, NEW right \in Rights
  PROVE  ByDelta(day, t, strikes, fwd, target, right) = ByDelta(other, t, strikes, fwd, target, right)
<1>1. ASSUME NEW i \in DOMAIN strikes
      PROVE  PrintedBy(day, strikes[i], right, t) /\ Solved(day, t, strikes[i], right, fwd)
               <=> PrintedBy(other, strikes[i], right, t) /\ Solved(other, t, strikes[i], right, fwd)
  BY AlikeTwoSided DEF Alike, Solved
<1>2. {i \in DOMAIN strikes : PrintedBy(day, strikes[i], right, t) /\ Solved(day, t, strikes[i], right, fwd)}
        = {i \in DOMAIN strikes : PrintedBy(other, strikes[i], right, t) /\ Solved(other, t, strikes[i], right, fwd)}
  BY <1>1
<1>3. QED
  BY <1>2 DEF ByDelta

\* Whatever a view answers.
LEMMA AlikeSelections ==
  ASSUME NEW day, NEW other, NEW t, Alike(day, other, t), NEW strikes, NEW fwd
  PROVE  Selections(day, t, strikes, fwd) = Selections(other, t, strikes, fwd)
<1> DEFINE atm == Atm(day, t, strikes, fwd)
<1>0. "Call" \in Rights /\ "Put" \in Rights
  BY DEF Rights
<1>1. atm = Atm(other, t, strikes, fwd)
  BY AlikeAtm
<1>2. \A n : Straddle(day, t, strikes, atm, n) = Straddle(other, t, strikes, atm, n)
  BY <1>0, AlikeOption DEF Straddle
<1>3. \A n : Strangle(day, t, strikes, atm, n) = Strangle(other, t, strikes, atm, n)
  BY <1>0, AlikeOption DEF Strangle
<1>4. \A d : StrangleByDelta(day, t, strikes, fwd, d) = StrangleByDelta(other, t, strikes, fwd, d)
  BY <1>0, AlikeByDelta DEF StrangleByDelta
<1> HIDE DEF atm
<1>5. /\ [n \in -1 .. 1 |-> Straddle(day, t, strikes, atm, n)] = [n \in -1 .. 1 |-> Straddle(other, t, strikes, atm, n)]
      /\ [n \in 1 .. 2 |-> Strangle(day, t, strikes, atm, n)] = [n \in 1 .. 2 |-> Strangle(other, t, strikes, atm, n)]
      /\ [d \in Targets |-> StrangleByDelta(day, t, strikes, fwd, d)] = [d \in Targets |-> StrangleByDelta(other, t, strikes, fwd, d)]
  BY <1>2, <1>3, <1>4
<1>6. QED
  BY <1>1, <1>5 DEF Selections, atm

-----------------------------------------------------------------------------
(* The forward kept for an instant is the one of that instant.              *)

Columns == UNION {UNION {OptionColumns[s][k] : k \in Strikes} : s \in 1 .. NumSessions}

ChainTypes ==
  /\ listed \in 0 .. NumStrikes /\ options \in Seq(Columns) /\ Len(options) = listed
  /\ Ordered(spot)
  /\ session \in 1 .. NumSessions /\ clock \in 0 .. SessionEnd
  /\ clock > 0 => listed = NumStrikes

CacheIsOfItsInstant ==
  cache # Nothing =>
    /\ clock > 0 /\ cache.at \in Nat /\ cache.at <= Instant(clock)
    /\ CacheHit => [value |-> cache.value] = ForwardOf(Today, clock)
LEMMA ColumnsAreOrdered == ChainTypes => OrderedColumns
<1> SUFFICES ASSUME ChainTypes PROVE OrderedColumns
  OBVIOUS
<1>1. \A pair \in Columns : \A right \in Rights : Ordered(pair[right])
  BY ChainAssumption DEF Columns
<1>2. \A k \in DOMAIN options : options[k] \in Columns
  BY DEF ChainTypes
<1>3. QED
  BY <1>1, <1>2 DEF OrderedColumns, ChainTypes

LEMMA NoPrintsAreOrdered == Ordered(<<>>)
BY DEF Ordered

LEMMA ChainTypesNext ==
  ASSUME ChainTypes, [ChainNext]_cvars
  PROVE  ChainTypes'
<1> NumStrikes \in Nat /\ SessionEnd \in Nat /\ NumSessions \in Nat
  BY ChainAssumption
<1>1. CASE List
  <2>1. PICK c \in OptionColumns[session][listed + 1] : options' = Append(options, c)
    BY <1>1 DEF List
  <2>2. listed' = listed + 1 /\ listed + 1 \in Strikes /\ UNCHANGED <<session, clock>> /\ listed < NumStrikes
    BY <1>1 DEF List, ChainTypes, Strikes
  <2>3. c \in Columns
    BY <2>1, <2>2 DEF Columns, ChainTypes
  <2>4. options' \in Seq(Columns) /\ Len(options') = listed'
    <3> HIDE DEF Columns
    <3> QED
      BY <2>1, <2>2, <2>3 DEF ChainTypes
  <2>5. Ordered(spot')
    BY <1>1, ChainAssumption DEF List, ChainTypes
  <2>6. QED
    BY <2>2, <2>4, <2>5 DEF ChainTypes, Columns
<1>2. CASE Tick
  BY <1>2 DEF Tick, ChainTypes, Columns
<1>3. CASE BindSession
  <2>1. options' \in Seq(Columns) /\ Len(options') = 0
    BY <1>3 DEF BindSession
  <2>2. QED
    BY <1>3, <2>1, NoPrintsAreOrdered DEF BindSession, ChainTypes, Columns
<1>4. CASE MakeView \/ AskForward \/ UNCHANGED cvars
  BY <1>4 DEF MakeView, AskForward, cvars, ChainTypes, Columns
<1>5. QED
  BY <1>1, <1>2, <1>3, <1>4 DEF ChainNext

\* A forward is a value or nothing.
LEMMA ForwardValue ==
  ASSUME NEW day, NEW t
  PROVE  ForwardOf(day, t) # Nothing => [value |-> ForwardOf(day, t).value] = ForwardOf(day, t)
<1>1. \A strikes, par : ForwardFrom(strikes, par) = Nothing \/ \E v : ForwardFrom(strikes, par) = [value |-> v]
  BY DEF ForwardFrom
<1>2. ForwardOf(day, t) = Nothing \/ \E v : ForwardOf(day, t) = [value |-> v]
  BY <1>1 DEF ForwardOf
<1>3. QED
  BY <1>2

LEMMA CacheNext ==
  ASSUME ChainTypes, CacheIsOfItsInstant, [ChainNext]_cvars
  PROVE  CacheIsOfItsInstant'
<1>1. /\ session \in Nat /\ clock \in Nat /\ SessionEnd \in Nat
      /\ Instant(clock) \in Nat /\ Instant(clock + 1) = Instant(clock) + 1
  BY ChainAssumption DEF ChainTypes, Instant
<1>2. CASE List
  <2>1. clock = 0 /\ cache = Nothing /\ cache' = cache
    BY <1>2 DEF List, ChainTypes, CacheIsOfItsInstant
  <2>2. QED
    BY <2>1 DEF CacheIsOfItsInstant, CacheHit
<1>3. CASE Tick
  <2>1. cache' = cache /\ clock' = clock + 1 /\ Instant(clock)' = Instant(clock + 1)
    BY <1>3 DEF Tick, Instant
  <2>2. QED
    BY <1>1, <2>1 DEF CacheIsOfItsInstant, CacheHit
<1>4. CASE AskForward
  <2>1. Forward = ForwardOf(Today, clock) /\ ForwardOf(Today, clock) # Nothing
    BY <1>4 DEF AskForward, Forward
  <2>2. /\ cache' = [at |-> Instant(clock), value |-> Forward.value]
        /\ UNCHANGED <<listed, options, spot, session, clock>> /\ clock > 0
    BY <1>4 DEF AskForward
  <2>3. (ForwardOf(Today, clock))' = ForwardOf(Today, clock) /\ Instant(clock)' = Instant(clock)
    BY <2>2 DEF ForwardOf, Today, Instant
  <2>4. QED
    BY <1>1, <2>1, <2>2, <2>3, ForwardValue DEF CacheIsOfItsInstant, CacheHit
<1>5. CASE BindSession
  BY <1>5 DEF BindSession, CacheIsOfItsInstant
<1>6. CASE MakeView \/ UNCHANGED cvars
  <2>1. UNCHANGED <<listed, options, spot, session, clock, cache>>
    BY <1>6 DEF MakeView, cvars
  <2>2. (ForwardOf(Today, clock))' = ForwardOf(Today, clock) /\ Instant(clock)' = Instant(clock)
    BY <2>1 DEF ForwardOf, Today, Instant
  <2>3. QED
    BY <2>1, <2>2 DEF CacheIsOfItsInstant, CacheHit
<1>7. QED
  BY <1>2, <1>3, <1>4, <1>5, <1>6 DEF ChainNext

\* Nothing a strategy learns from the chain depends on what prints later.
THEOREM ChainsAreCausal == ChainSpec => []ChainIsCausal
<1>1. ChainInit => ChainTypes /\ CacheIsOfItsInstant
  BY ChainAssumption, NoPrintsAreOrdered DEF ChainInit, ChainTypes, CacheIsOfItsInstant
<1>2. ChainTypes /\ CacheIsOfItsInstant /\ [ChainNext]_cvars => ChainTypes' /\ CacheIsOfItsInstant'
  BY ChainTypesNext, CacheNext
<1>3. ChainTypes /\ CacheIsOfItsInstant => ChainIsCausal
  <2> SUFFICES ASSUME ChainTypes, CacheIsOfItsInstant, clock > 0, NEW cutoff \in clock .. SessionEnd
               PROVE  LET cut == CutOff(Today, cutoff)
                      IN  /\ StrikesSeen(Today, clock) = StrikesSeen(cut, clock)
                          /\ Forward = ForwardOf(cut, clock)
                          /\ \A strikes \in {kept, StrikesSeen(Today, clock)} :
                               Selections(Today, clock, strikes, Forward) = Selections(cut, clock, strikes, Forward)
    BY DEF ChainIsCausal
  <2> DEFINE cut == CutOff(Today, cutoff)
  <2>1. clock \in Nat /\ cutoff \in Nat /\ clock <= cutoff
    BY ChainAssumption DEF ChainTypes
  <2>2. Alike(Today, cut, clock)
    BY <2>1, ColumnsAreOrdered, CutIsAlike
  <2> HIDE DEF cut
  <2>3. Forward = ForwardOf(Today, clock)
    BY DEF Forward, ForwardOf, CacheIsOfItsInstant, CacheHit
  <2>4. ForwardOf(Today, clock) = ForwardOf(cut, clock)
    BY <2>2, AlikeForward
  <2>5. StrikesSeen(Today, clock) = StrikesSeen(cut, clock)
    BY <2>2, AlikeSeen
  <2>6. \A strikes : Selections(Today, clock, strikes, Forward) = Selections(cut, clock, strikes, Forward)
    BY <2>2, AlikeSelections
  <2>7. QED
    BY <2>3, <2>4, <2>5, <2>6 DEF cut
<1>4. QED
  BY <1>1, <1>2, <1>3, PTL DEF ChainSpec

-----------------------------------------------------------------------------
(* The search for the forward's strike.                                      *)

\* A ladder of two-sided strikes whose parity falls.
Falling(par, n) ==
  /\ n \in Nat \ {0} /\ Len(par) = n /\ DOMAIN par = 1 .. n
  /\ \A i \in 1 .. n : par[i] # Nothing /\ par[i].diff \in Int
  /\ \A i, j \in 1 .. n : i < j => par[i].diff > par[j].diff

Searches(n) == [best : 1 .. n, lo : 1 .. n, hi : 1 .. n, stride : Nat \ {0}, over : BOOLEAN]

\* The crossing lies between two strikes looked at, and none so far is nearer to it.
Bracketed(par, st) ==
  /\ st.lo < st.hi /\ par[st.lo].diff >= 0 /\ par[st.hi].diff <= 0
  /\ Size(par[st.best].diff) <= Size(par[st.lo].diff)
  /\ Size(par[st.best].diff) <= Size(par[st.hi].diff)

\* It lies beyond the strike reached last.
Beyond(par, st, anchor) ==
  /\ st.lo <= st.hi
  /\ \/ par[st.best].diff > 0 /\ st.best = st.hi /\ anchor <= st.best
     \/ par[st.best].diff <= 0 /\ st.best = st.lo /\ st.best <= anchor

\* And that is at least half way to the end of the ladder.
HalfWay(par, n, st, anchor) ==
  IF par[st.best].diff > 0 THEN n - anchor <= 2 * (st.best - anchor)
  ELSE anchor - 1 <= 2 * (anchor - st.best)

\* Where the search has come to after widening k times.
Widened(par, n, st, anchor, k) ==
  IF st.over THEN Bracketed(par, st) \/ (Beyond(par, st, anchor) /\ HalfWay(par, n, st, anchor))
  ELSE /\ Beyond(par, st, anchor) /\ st.stride > k
       /\ st.stride = 1 + (IF par[st.best].diff > 0 THEN st.best - anchor ELSE anchor - st.best)

LEMMA SearchFields ==
  ASSUME NEW n \in Nat, NEW st \in Searches(n)
  PROVE  /\ st.best \in 1 .. n /\ st.lo \in 1 .. n /\ st.hi \in 1 .. n /\ st.stride \in Nat \ {0}
         /\ st.over \in BOOLEAN
BY DEF Searches

LEMMA NearerOf ==
  ASSUME NEW par, NEW n, Falling(par, n), NEW i \in 1 .. n, NEW j \in 1 .. n
  PROVE  /\ Nearer(par, i, j) \in {i, j}
         /\ Size(par[Nearer(par, i, j)].diff) <= Size(par[i].diff)
         /\ Size(par[Nearer(par, i, j)].diff) <= Size(par[j].diff)
         /\ Size(par[i].diff) < Size(par[j].diff) => Nearer(par, i, j) = i
         /\ Size(par[i].diff) >= Size(par[j].diff) => Nearer(par, i, j) = j
         /\ Size(par[i].diff) \in Nat
<1>1. par[i].diff \in Int /\ par[j].diff \in Int
  BY DEF Falling
<1>2. Size(par[i].diff) \in Nat /\ Size(par[j].diff) \in Nat
  BY <1>1 DEF Size
<1>3. QED
  BY <1>2 DEF Nearer

\* The two outcomes of a turn.
LEMMA WidenFields ==
  ASSUME NEW par, NEW n, Falling(par, n), NEW st \in Searches(n)
  PROVE  LET up    == par[st.best].diff > 0
             probe == IF up THEN st.best + st.stride ELSE st.best - st.stride
             new   == Widen(par, st)
         IN  /\ new \in Searches(n)
             /\ IF st.over \/ st.stride >= n \/ probe \notin 1 .. n
                THEN /\ new.best = st.best /\ new.lo = st.lo /\ new.hi = st.hi /\ new.stride = st.stride
                     /\ new.over
                ELSE /\ new.best = Nearer(par, probe, st.best)
                     /\ new.lo = (IF up THEN st.best ELSE probe) /\ new.hi = (IF up THEN probe ELSE st.best)
                     /\ new.stride = 2 * st.stride
                     /\ new.over <=> (IF up THEN par[probe].diff <= 0 ELSE par[probe].diff >= 0)
<1> DEFINE up    == par[st.best].diff > 0
           probe == IF up THEN st.best + st.stride ELSE st.best - st.stride
           new   == Widen(par, st)
           off   == st.over \/ st.stride >= n \/ probe \notin 1 .. n
           yes   == TRUE
           met   == IF up THEN par[probe].diff <= 0 ELSE par[probe].diff >= 0
           lo    == IF up THEN st.best ELSE probe
           hi    == IF up THEN probe ELSE st.best
           near  == Nearer(par, probe, st.best)
<1>1. /\ st.best \in 1 .. n /\ st.lo \in 1 .. n /\ st.hi \in 1 .. n /\ st.stride \in Nat \ {0}
      /\ st.over \in BOOLEAN /\ n \in Nat
  BY SearchFields DEF Falling
<1>2. Len(par) = n /\ DOMAIN par = 1 .. n /\ \A i \in 1 .. n : par[i] # Nothing
  BY DEF Falling
<1>3. CASE off
  <2>1. new = [st EXCEPT !.over = yes]
    BY <1>2, <1>3 DEF Widen
  <2>2. yes \in BOOLEAN /\ yes
    OBVIOUS
  <2> HIDE DEF new, yes
  <2>3. new \in Searches(n) /\ new.best = st.best /\ new.lo = st.lo /\ new.hi = st.hi
        /\ new.stride = st.stride /\ new.over = yes
    BY <2>1, <2>2 DEF Searches
  <2>4. QED
    BY <1>3, <2>2, <2>3 DEF new
<1>4. CASE ~off
  <2>1. probe \in 1 .. n
    BY <1>4
  <2>2. new = [best |-> near, lo |-> lo, hi |-> hi, stride |-> 2 * st.stride, over |-> met]
    BY <1>2, <1>4, <2>1 DEF Widen
  <2>3. near \in 1 .. n
    BY <1>1, <2>1 DEF Nearer
  <2>4. lo \in 1 .. n /\ hi \in 1 .. n /\ 2 * st.stride \in Nat \ {0}
    BY <1>1, <2>1
  <2>7. met \in BOOLEAN
    <3>1. par[probe].diff \in Int
      BY <2>1 DEF Falling
    <3> HIDE DEF probe
    <3>2. (par[probe].diff <= 0) \in BOOLEAN /\ (par[probe].diff >= 0) \in BOOLEAN
      BY <3>1
    <3>3. QED
      BY <3>2, Zenon
  <2> HIDE DEF near, lo, hi, met, new
  <2>5. /\ new \in Searches(n) /\ new.best = near /\ new.lo = lo /\ new.hi = hi
        /\ new.stride = 2 * st.stride /\ new.over = met
    BY <2>2, <2>3, <2>4, <2>7 DEF Searches
  <2>6. QED
    BY <1>4, <2>5 DEF near, lo, hi, met, new
<1>5. QED
  BY <1>3, <1>4

LEMMA WidenNext ==
  ASSUME NEW par, NEW n, Falling(par, n), NEW anchor \in 1 .. n, NEW st \in Searches(n), NEW k \in Nat,
         Widened(par, n, st, anchor, k)
  PROVE  Widened(par, n, Widen(par, st), anchor, k + 1)
<1> DEFINE up    == par[st.best].diff > 0
           probe == IF up THEN st.best + st.stride ELSE st.best - st.stride
           new   == Widen(par, st)
           off   == st.over \/ st.stride >= n \/ probe \notin 1 .. n
<1>1. /\ st.best \in 1 .. n /\ st.lo \in 1 .. n /\ st.hi \in 1 .. n /\ st.stride \in Nat \ {0}
      /\ st.over \in BOOLEAN /\ n \in Nat
  BY SearchFields DEF Falling
<1>2. /\ \A i \in 1 .. n : par[i].diff \in Int
      /\ \A i, j \in 1 .. n : i < j => par[i].diff > par[j].diff
  BY DEF Falling
<1>a. off => new.best = st.best /\ new.lo = st.lo /\ new.hi = st.hi /\ new.over
  BY WidenFields
<1>b. ~off => /\ new.best = Nearer(par, probe, st.best)
              /\ new.lo = (IF up THEN st.best ELSE probe) /\ new.hi = (IF up THEN probe ELSE st.best)
              /\ new.stride = 2 * st.stride
              /\ new.over <=> (IF up THEN par[probe].diff <= 0 ELSE par[probe].diff >= 0)
  BY WidenFields
<1> SUFFICES Widened(par, n, new, anchor, k + 1)
  OBVIOUS
<1> HIDE DEF new
<1>3. CASE off
  <2>1. /\ new.best = st.best /\ new.lo = st.lo /\ new.hi = st.hi /\ new.over
    BY <1>3, <1>a
  <2>2. CASE st.over
    <3>1. Bracketed(par, st) \/ (Beyond(par, st, anchor) /\ HalfWay(par, n, st, anchor))
      BY <2>2 DEF Widened
    <3>2. Bracketed(par, new) \/ (Beyond(par, new, anchor) /\ HalfWay(par, n, new, anchor))
      BY <2>1, <3>1 DEF Bracketed, Beyond, HalfWay
    <3>3. QED
      BY <2>1, <3>2 DEF Widened
  <2>3. CASE ~st.over
    <3>1. Beyond(par, st, anchor)
          /\ st.stride = 1 + (IF up THEN st.best - anchor ELSE anchor - st.best)
      BY <2>3 DEF Widened
    <3>2. st.stride >= n \/ probe \notin 1 .. n
      BY <1>3, <2>3
    <3>3. HalfWay(par, n, st, anchor)
      BY <1>1, <3>1, <3>2 DEF HalfWay
    <3>4. Beyond(par, new, anchor) /\ HalfWay(par, n, new, anchor)
      BY <2>1, <3>1, <3>3 DEF Beyond, HalfWay
    <3>5. QED
      BY <2>1, <3>4 DEF Widened
  <2>4. QED
    BY <2>2, <2>3
<1>4. CASE ~off
  <2>1. /\ new.best = Nearer(par, probe, st.best)
        /\ new.lo = (IF up THEN st.best ELSE probe) /\ new.hi = (IF up THEN probe ELSE st.best)
        /\ new.stride = 2 * st.stride
        /\ new.over <=> (IF up THEN par[probe].diff <= 0 ELSE par[probe].diff >= 0)
    BY <1>4, <1>b
  <2>2. probe \in 1 .. n /\ ~st.over
    BY <1>4
  <2>3. Beyond(par, st, anchor) /\ st.stride > k
        /\ st.stride = 1 + (IF up THEN st.best - anchor ELSE anchor - st.best)
    BY <2>2 DEF Widened
  <2>4. /\ Nearer(par, probe, st.best) \in {probe, st.best}
        /\ Size(par[Nearer(par, probe, st.best)].diff) <= Size(par[probe].diff)
        /\ Size(par[Nearer(par, probe, st.best)].diff) <= Size(par[st.best].diff)
        /\ Size(par[probe].diff) < Size(par[st.best].diff) => Nearer(par, probe, st.best) = probe
    BY <1>1, <2>2, NearerOf
  <2>8. par[probe].diff \in Int /\ par[st.best].diff \in Int
    BY <1>1, <1>2, <2>2
  <2>5. CASE up
    <3>1. probe = st.best + st.stride /\ st.best < probe /\ par[probe].diff < par[st.best].diff
      BY <1>1, <1>2, <2>2, <2>5
    <3> HIDE DEF probe
    <3>2. CASE par[probe].diff <= 0
      <4>1. new.over /\ new.lo = st.best /\ new.hi = probe
        BY <2>1, <2>5, <3>2
      <4>2. Bracketed(par, new)
        BY <2>1, <2>4, <2>5, <2>8, <3>1, <3>2, <4>1 DEF Bracketed
      <4>3. QED
        BY <4>1, <4>2 DEF Widened
    <3>3. CASE par[probe].diff > 0
      <4>1. ~new.over /\ new.lo = st.best /\ new.hi = probe
        BY <2>1, <2>5, <2>8, <3>3
      <4>2. Size(par[probe].diff) < Size(par[st.best].diff)
        BY <1>1, <1>2, <2>2, <2>5, <3>1, <3>3 DEF Size
      <4>3. new.best = probe
        BY <2>1, <2>4, <4>2
      <4>4. Beyond(par, new, anchor)
        <5>1. anchor <= st.best
          BY <2>3, <2>5, <2>8 DEF Beyond
        <5>2. QED
          BY <1>1, <3>1, <3>3, <4>1, <4>3, <5>1 DEF Beyond
      <4>5. new.stride > k + 1 /\ new.stride = 1 + (probe - anchor)
        BY <1>1, <2>1, <2>3, <2>5, <3>1
      <4>6. QED
        BY <3>3, <4>1, <4>3, <4>4, <4>5 DEF Widened
    <3>4. QED
      BY <1>2, <2>2, <3>2, <3>3 DEF probe
  <2>6. CASE ~up
    <3>1. probe = st.best - st.stride /\ probe < st.best /\ par[st.best].diff < par[probe].diff
          /\ par[st.best].diff <= 0
      BY <1>1, <1>2, <2>2, <2>6
    <3> HIDE DEF probe
    <3>2. CASE par[probe].diff >= 0
      <4>1. new.over /\ new.lo = probe /\ new.hi = st.best
        BY <2>1, <2>6, <3>2
      <4>2. Bracketed(par, new)
        BY <2>1, <2>4, <2>6, <2>8, <3>1, <3>2, <4>1 DEF Bracketed
      <4>3. QED
        BY <4>1, <4>2 DEF Widened
    <3>3. CASE par[probe].diff < 0
      <4>0. par[probe].diff \in Int /\ par[st.best].diff \in Int
        BY <1>1, <1>2, <2>2
      <4>1. ~new.over /\ new.lo = probe /\ new.hi = st.best
        BY <2>1, <2>6, <3>3, <4>0
      <4>2. Size(par[probe].diff) < Size(par[st.best].diff)
        BY <3>1, <3>3, <4>0 DEF Size
      <4>3. new.best = probe
        BY <2>1, <2>4, <4>2
      <4>4. Beyond(par, new, anchor)
        <5>1. st.best <= anchor
          BY <2>3, <2>6, <2>8 DEF Beyond
        <5>2. par[probe].diff <= 0
          BY <3>3, <4>0
        <5>3. QED
          BY <1>1, <2>2, <3>1, <4>1, <4>3, <5>1, <5>2 DEF Beyond
      <4>5. new.stride > k + 1 /\ new.stride = 1 + (anchor - probe)
        BY <1>1, <2>1, <2>3, <2>6, <3>1
      <4>6. ~(par[probe].diff > 0)
        BY <3>3, <4>0
      <4>7. QED
        BY <4>1, <4>3, <4>4, <4>5, <4>6 DEF Widened
    <3>4. QED
      BY <1>2, <2>2, <3>2, <3>3 DEF probe
  <2>7. QED
    BY <2>5, <2>6
<1>5. QED
  BY <1>3, <1>4

-----------------------------------------------------------------------------

\* Where it has come to after halving k times.
Halved(par, n, st, anchor, k) ==
  /\ ~st.over
  /\ \/ Bracketed(par, st) /\ (st.hi <= st.lo + 1 \/ st.hi - st.lo <= n - k)
     \/ Beyond(par, st, anchor) /\ HalfWay(par, n, st, anchor)

LEMMA BisectFields ==
  ASSUME NEW par, NEW n, Falling(par, n), NEW st \in Searches(n)
  PROVE  LET mid == st.lo + (st.hi - st.lo) \div 2
             new == Bisect(par, st)
         IN  /\ new \in Searches(n) /\ new.over = st.over
             /\ st.over \/ st.hi <= st.lo + 1 => new = st
             /\ ~(st.over \/ st.hi <= st.lo + 1) =>
                  /\ mid \in 1 .. n /\ st.lo < mid /\ mid < st.hi
                  /\ new.best = Nearer(par, mid, st.best)
                  /\ new.lo = (IF par[mid].diff > 0 THEN mid ELSE st.lo)
                  /\ new.hi = (IF par[mid].diff > 0 THEN st.hi ELSE mid)
<1> DEFINE mid  == st.lo + (st.hi - st.lo) \div 2
           new  == Bisect(par, st)
           lo   == IF par[mid].diff > 0 THEN mid ELSE st.lo
           hi   == IF par[mid].diff > 0 THEN st.hi ELSE mid
           near == Nearer(par, mid, st.best)
<1>1. /\ st.best \in 1 .. n /\ st.lo \in 1 .. n /\ st.hi \in 1 .. n /\ st.over \in BOOLEAN /\ n \in Nat
  BY SearchFields DEF Falling
<1>2. CASE st.over \/ st.hi <= st.lo + 1
  <2>1. new = st
    BY <1>2 DEF Bisect
  <2>2. QED
    BY <1>2, <2>1
<1>3. CASE ~(st.over \/ st.hi <= st.lo + 1)
  <2>1. mid \in 1 .. n /\ st.lo < mid /\ mid < st.hi
    BY <1>1, <1>3
  <2>2. par[mid] # Nothing
    BY <2>1 DEF Falling
  <2>3. new = [st EXCEPT !.best = near, !.lo = lo, !.hi = hi]
    BY <1>3, <2>2 DEF Bisect
  <2>4. near \in 1 .. n /\ lo \in 1 .. n /\ hi \in 1 .. n
    BY <1>1, <2>1 DEF Nearer
  <2> HIDE DEF near, lo, hi, new, mid
  <2>5. new \in Searches(n) /\ new.over = st.over /\ new.best = near /\ new.lo = lo /\ new.hi = hi
    BY <2>3, <2>4 DEF Searches
  <2>6. QED
    BY <1>3, <2>1, <2>5 DEF near, lo, hi, new, mid
<1>4. QED
  BY <1>2, <1>3

LEMMA BisectNext ==
  ASSUME NEW par, NEW n, Falling(par, n), NEW anchor \in 1 .. n, NEW st \in Searches(n), NEW k \in Nat,
         Halved(par, n, st, anchor, k)
  PROVE  Halved(par, n, Bisect(par, st), anchor, k + 1)
<1> DEFINE mid == st.lo + (st.hi - st.lo) \div 2
           new == Bisect(par, st)
<1>1. /\ st.best \in 1 .. n /\ st.lo \in 1 .. n /\ st.hi \in 1 .. n /\ n \in Nat /\ ~st.over
  BY SearchFields DEF Falling, Halved
<1>2. /\ \A i \in 1 .. n : par[i].diff \in Int
      /\ \A i, j \in 1 .. n : i < j => par[i].diff > par[j].diff
  BY DEF Falling
<1>3. new.over = st.over /\ (st.hi <= st.lo + 1 => new = st)
      /\ (~(st.hi <= st.lo + 1) =>
           /\ mid \in 1 .. n /\ st.lo < mid /\ mid < st.hi
           /\ new.best = Nearer(par, mid, st.best)
           /\ new.lo = (IF par[mid].diff > 0 THEN mid ELSE st.lo)
           /\ new.hi = (IF par[mid].diff > 0 THEN st.hi ELSE mid))
  BY <1>1, BisectFields
<1> SUFFICES Halved(par, n, new, anchor, k + 1)
  OBVIOUS
<1> HIDE DEF new, mid
<1>4. CASE st.hi <= st.lo + 1
  <2>1. new = st
    BY <1>3, <1>4
  <2>2. QED
    BY <1>4, <2>1 DEF Halved
<1>5. CASE ~(st.hi <= st.lo + 1)
  <2>1. /\ mid \in 1 .. n /\ st.lo < mid /\ mid < st.hi
        /\ new.best = Nearer(par, mid, st.best) /\ ~new.over
        /\ new.lo = (IF par[mid].diff > 0 THEN mid ELSE st.lo)
        /\ new.hi = (IF par[mid].diff > 0 THEN st.hi ELSE mid)
    BY <1>1, <1>3, <1>5
  <2>2. /\ Size(par[new.best].diff) <= Size(par[mid].diff)
        /\ Size(par[new.best].diff) <= Size(par[st.best].diff)
        /\ Size(par[mid].diff) >= Size(par[st.best].diff) => new.best = st.best
        /\ Size(par[mid].diff) \in Nat /\ Size(par[st.best].diff) \in Nat
    BY <1>1, <2>1, NearerOf
  <2>3. new.best \in 1 .. n /\ Size(par[new.best].diff) \in Nat
    <3>1. Nearer(par, mid, st.best) \in 1 .. n
      BY <1>1, <2>1 DEF Nearer
    <3>2. QED
      BY <1>2, <2>1, <3>1 DEF Size
  <2>4. par[mid].diff \in Int /\ par[st.best].diff \in Int /\ par[st.lo].diff \in Int /\ par[st.hi].diff \in Int
    BY <1>1, <1>2, <2>1
  <2>5. CASE Bracketed(par, st) /\ (st.hi <= st.lo + 1 \/ st.hi - st.lo <= n - k)
    <3>1. Size(par[st.lo].diff) \in Nat /\ Size(par[st.hi].diff) \in Nat
      BY <2>4 DEF Size
    <3>2. /\ Size(par[new.best].diff) <= Size(par[st.lo].diff)
          /\ Size(par[new.best].diff) <= Size(par[st.hi].diff)
      BY <2>2, <2>3, <2>5, <3>1 DEF Bracketed
    <3>3. Bracketed(par, new)
      <4>1. CASE par[mid].diff > 0
        BY <2>1, <2>2, <2>4, <2>5, <3>2, <4>1 DEF Bracketed
      <4>2. CASE ~(par[mid].diff > 0)
        BY <2>1, <2>2, <2>4, <2>5, <3>2, <4>2 DEF Bracketed
      <4>3. QED
        BY <4>1, <4>2
    <3>4. new.hi - new.lo <= n - (k + 1)
      BY <1>1, <1>5, <2>1, <2>5
    <3>5. QED
      BY <2>1, <3>3, <3>4 DEF Halved
  <2>6. CASE Beyond(par, st, anchor) /\ HalfWay(par, n, st, anchor)
    <3>1. CASE par[st.best].diff > 0
      <4>1. st.best = st.hi /\ anchor <= st.best
        BY <2>4, <2>6, <3>1 DEF Beyond
      <4>2. par[mid].diff > par[st.best].diff
        BY <1>1, <1>2, <2>1, <4>1
      <4>3. new.best = st.best /\ new.lo = mid /\ new.hi = st.hi
        <5>1. Size(par[mid].diff) >= Size(par[st.best].diff) /\ par[mid].diff > 0
          BY <2>4, <3>1, <4>2 DEF Size
        <5>2. QED
          BY <2>1, <2>2, <5>1
      <4>4. Beyond(par, new, anchor) /\ HalfWay(par, n, new, anchor)
        BY <1>1, <2>1, <2>6, <3>1, <4>1, <4>3 DEF Beyond, HalfWay
      <4>5. QED
        BY <2>1, <4>4 DEF Halved
    <3>2. CASE ~(par[st.best].diff > 0)
      <4>1. st.best = st.lo /\ st.best <= anchor /\ par[st.best].diff <= 0
        BY <2>4, <2>6, <3>2 DEF Beyond
      <4>2. par[mid].diff < par[st.best].diff
        BY <1>1, <1>2, <2>1, <4>1
      <4>3. new.best = st.best /\ new.lo = st.lo /\ new.hi = mid
        <5>1. Size(par[mid].diff) >= Size(par[st.best].diff) /\ ~(par[mid].diff > 0)
          BY <2>4, <4>1, <4>2 DEF Size
        <5>2. QED
          BY <2>1, <2>2, <5>1
      <4>4. Beyond(par, new, anchor) /\ HalfWay(par, n, new, anchor)
        BY <1>1, <2>1, <2>6, <3>2, <4>1, <4>3 DEF Beyond, HalfWay
      <4>5. QED
        BY <2>1, <4>4 DEF Halved
    <3>3. QED
      BY <3>1, <3>2
  <2>7. QED
    BY <2>5, <2>6 DEF Halved
<1>6. QED
  BY <1>4, <1>5

\* What such a search finds: no strike is nearer to the crossing, or the nearer ones are
\* beyond the end of the ladder it was half way to.
Found(par, n, best, anchor) ==
  \A i \in 1 .. n : Size(par[i].diff) < Size(par[best].diff) =>
    LET end == IF i > best THEN n ELSE 1
    IN  /\ par[best].diff > 0 <=> i > best
        /\ 2 * Distance(best, anchor) >= Distance(end, anchor)

LEMMA HalvedFinds ==
  ASSUME NEW par, NEW n, Falling(par, n), NEW anchor \in 1 .. n, NEW st \in Searches(n),
         Halved(par, n, st, anchor, n)
  PROVE  Found(par, n, st.best, anchor)
<1>1. /\ st.best \in 1 .. n /\ st.lo \in 1 .. n /\ st.hi \in 1 .. n /\ n \in Nat
  BY SearchFields DEF Falling
<1>2. /\ \A i \in 1 .. n : par[i].diff \in Int
      /\ \A i, j \in 1 .. n : i < j => par[i].diff > par[j].diff
  BY DEF Falling
<1> SUFFICES ASSUME NEW i \in 1 .. n, Size(par[i].diff) < Size(par[st.best].diff)
             PROVE  LET end == IF i > st.best THEN n ELSE 1
                    IN  /\ par[st.best].diff > 0 <=> i > st.best
                        /\ 2 * Distance(st.best, anchor) >= Distance(end, anchor)
  BY DEF Found
<1>3. /\ par[i].diff \in Int /\ par[st.best].diff \in Int /\ par[st.lo].diff \in Int /\ par[st.hi].diff \in Int
  BY <1>1, <1>2
<1>4. /\ i < st.best => par[i].diff > par[st.best].diff
      /\ i > st.best => par[i].diff < par[st.best].diff
      /\ i < st.lo => par[i].diff > par[st.lo].diff
      /\ i > st.hi => par[i].diff < par[st.hi].diff
  BY <1>1, <1>2
<1>5. CASE Bracketed(par, st) /\ (st.hi <= st.lo + 1 \/ st.hi - st.lo <= n - n)
  <2>1. i <= st.lo \/ i >= st.hi
    BY <1>1, <1>5 DEF Bracketed
  <2>2. CASE i <= st.lo
    <3>1. par[i].diff >= par[st.lo].diff /\ par[st.lo].diff >= 0
      BY <1>1, <1>3, <1>4, <1>5, <2>2 DEF Bracketed
    <3>2. Size(par[i].diff) >= Size(par[st.lo].diff)
      BY <1>3, <3>1 DEF Size
    <3>3. Size(par[st.best].diff) <= Size(par[st.lo].diff)
      BY <1>5 DEF Bracketed
    <3>4. QED
      BY <1>3, <3>2, <3>3 DEF Size
  <2>3. CASE i >= st.hi
    <3>1. par[i].diff <= par[st.hi].diff /\ par[st.hi].diff <= 0
      BY <1>1, <1>3, <1>4, <1>5, <2>3 DEF Bracketed
    <3>2. Size(par[i].diff) >= Size(par[st.hi].diff)
      BY <1>3, <3>1 DEF Size
    <3>3. Size(par[st.best].diff) <= Size(par[st.hi].diff)
      BY <1>5 DEF Bracketed
    <3>4. QED
      BY <1>3, <3>2, <3>3 DEF Size
  <2>4. QED
    BY <2>1, <2>2, <2>3
<1>6. CASE Beyond(par, st, anchor) /\ HalfWay(par, n, st, anchor)
  <2>1. CASE par[st.best].diff > 0
    <3>1. anchor <= st.best /\ n - anchor <= 2 * (st.best - anchor)
      BY <1>3, <1>6, <2>1 DEF Beyond, HalfWay
    <3>2. par[i].diff < par[st.best].diff
      BY <1>3, <2>1 DEF Size
    <3>3. i > st.best
      BY <1>1, <1>3, <1>4, <3>2
    <3>4. QED
      BY <1>1, <2>1, <3>1, <3>3 DEF Distance
  <2>2. CASE ~(par[st.best].diff > 0)
    <3>1. st.best <= anchor /\ anchor - 1 <= 2 * (anchor - st.best)
      BY <1>3, <1>6, <2>2 DEF Beyond, HalfWay
    <3>2. par[i].diff > par[st.best].diff
      BY <1>3, <2>2 DEF Size
    <3>3. i < st.best /\ ~(i > st.best)
      BY <1>1, <1>3, <1>4, <3>2
    <3>4. QED
      BY <1>1, <2>2, <3>1, <3>3 DEF Distance
  <2>3. QED
    BY <2>1, <2>2
<1>7. QED
  BY <1>5, <1>6 DEF Halved

\* After as many turns as there are strikes.
LEMMA WideningEnds ==
  ASSUME NEW par, NEW n, Falling(par, n), NEW anchor \in 1 .. n, NEW start \in Searches(n),
         Widened(par, n, start, anchor, 0)
  PROVE  LET wide == CHOOSE f : f = [k \in 0 .. n |-> IF k = 0 THEN start ELSE Widen(par, f[k - 1])]
         IN  wide[n] \in Searches(n) /\ Widened(par, n, wide[n], anchor, n)
<1> DEFINE step  == [p \in Searches(n) \X (1 .. n) |-> Widen(par, p[1])]
           Is(f) == f = [k \in 0 .. n |-> IF k = 0 THEN start ELSE Widen(par, f[k - 1])]
           wide == CHOOSE f : Is(f)
           P     == {k \in 0 .. n : wide[k] \in Searches(n) /\ Widened(par, n, wide[k], anchor, k)}
<1>1. n \in Nat
  BY DEF Falling
<1>2. step \in [Searches(n) \X (1 .. n) -> Searches(n)]
  BY WidenFields
<1>3. \E f : Recursion(f, n, Searches(n), start, step)
  <2> HIDE DEF step
  <2> QED
    BY <1>1, <1>2, RecursionExists
<1>4. PICK f : Recursion(f, n, Searches(n), start, step)
  BY <1>3
<1>5. \A k \in 1 .. n : f[k] = Widen(par, f[k - 1])
  <2> SUFFICES ASSUME NEW k \in 1 .. n PROVE f[k] = Widen(par, f[k - 1])
    OBVIOUS
  <2>1. f \in [0 .. n -> Searches(n)] /\ f[k] = step[<<f[k - 1], k>>]
    <3> HIDE DEF step
    <3> QED
      BY <1>4 DEF Recursion
  <2>2. k - 1 \in 0 .. n
    BY <1>1
  <2>3. f[k - 1] \in Searches(n)
    BY <2>1, <2>2
  <2>4. step[<<f[k - 1], k>>] = Widen(par, f[k - 1])
    BY <2>3
  <2>5. QED
    BY <2>1, <2>4
<1>6. Is(f)
  <2>1. DOMAIN f = 0 .. n /\ f[0] = start /\ f = [k \in DOMAIN f |-> f[k]]
    BY <1>4 DEF Recursion
  <2>2. \A k \in 0 .. n : f[k] = IF k = 0 THEN start ELSE Widen(par, f[k - 1])
    BY <1>1, <1>5, <2>1
  <2>3. QED
    BY <2>1, <2>2
<1>7. Is(wide)
  <2> HIDE DEF Is
  <2> QED
    BY <1>6
<1> SUFFICES wide[n] \in Searches(n) /\ Widened(par, n, wide[n], anchor, n)
  OBVIOUS
<1> HIDE DEF wide
<1>8. wide[0] = start /\ \A k \in 1 .. n : wide[k] = Widen(par, wide[k - 1])
  <2>1. 0 \in 0 .. n /\ \A k \in 1 .. n : k \in 0 .. n /\ k # 0
    BY <1>1
  <2>2. QED
    BY <1>7, <2>1
<1>9. 0 \in P
  BY <1>1, <1>8
<1>10. ASSUME NEW k \in 1 .. n, k - 1 \in P PROVE k \in P
  <2>1. k - 1 \in Nat /\ (k - 1) + 1 = k /\ k \in 0 .. n
    BY <1>1
  <2>2. wide[k - 1] \in Searches(n) /\ Widened(par, n, wide[k - 1], anchor, k - 1)
    BY <1>10
  <2>3. Widened(par, n, Widen(par, wide[k - 1]), anchor, k)
    BY <2>1, <2>2, WidenNext
  <2>4. Widen(par, wide[k - 1]) \in Searches(n)
    BY <2>2, WidenFields
  <2>5. QED
    BY <1>8, <2>1, <2>3, <2>4
<1> HIDE DEF P
<1>11. \A k \in 0 .. n : k \in P
  BY <1>1, <1>9, <1>10, NatUpTo
<1>12. n \in P
  BY <1>1, <1>11
<1>13. QED
  BY <1>12 DEF P

\* The same of the second loop.
LEMMA HalvingEnds ==
  ASSUME NEW par, NEW n, Falling(par, n), NEW anchor \in 1 .. n, NEW start \in Searches(n),
         Halved(par, n, start, anchor, 0)
  PROVE  LET half == CHOOSE f : f = [k \in 0 .. n |-> IF k = 0 THEN start ELSE Bisect(par, f[k - 1])]
         IN  half[n] \in Searches(n) /\ Halved(par, n, half[n], anchor, n)
<1> DEFINE step  == [p \in Searches(n) \X (1 .. n) |-> Bisect(par, p[1])]
           Is(f) == f = [k \in 0 .. n |-> IF k = 0 THEN start ELSE Bisect(par, f[k - 1])]
           half == CHOOSE f : Is(f)
           P     == {k \in 0 .. n : half[k] \in Searches(n) /\ Halved(par, n, half[k], anchor, k)}
<1>1. n \in Nat
  BY DEF Falling
<1>2. step \in [Searches(n) \X (1 .. n) -> Searches(n)]
  BY BisectFields
<1>3. \E f : Recursion(f, n, Searches(n), start, step)
  <2> HIDE DEF step
  <2> QED
    BY <1>1, <1>2, RecursionExists
<1>4. PICK f : Recursion(f, n, Searches(n), start, step)
  BY <1>3
<1>5. \A k \in 1 .. n : f[k] = Bisect(par, f[k - 1])
  <2> SUFFICES ASSUME NEW k \in 1 .. n PROVE f[k] = Bisect(par, f[k - 1])
    OBVIOUS
  <2>1. f \in [0 .. n -> Searches(n)] /\ f[k] = step[<<f[k - 1], k>>]
    <3> HIDE DEF step
    <3> QED
      BY <1>4 DEF Recursion
  <2>2. k - 1 \in 0 .. n
    BY <1>1
  <2>3. f[k - 1] \in Searches(n)
    BY <2>1, <2>2
  <2>4. step[<<f[k - 1], k>>] = Bisect(par, f[k - 1])
    BY <2>3
  <2>5. QED
    BY <2>1, <2>4
<1>6. Is(f)
  <2>1. DOMAIN f = 0 .. n /\ f[0] = start /\ f = [k \in DOMAIN f |-> f[k]]
    BY <1>4 DEF Recursion
  <2>2. \A k \in 0 .. n : f[k] = IF k = 0 THEN start ELSE Bisect(par, f[k - 1])
    BY <1>1, <1>5, <2>1
  <2>3. QED
    BY <2>1, <2>2
<1>7. Is(half)
  <2> HIDE DEF Is
  <2> QED
    BY <1>6
<1> SUFFICES half[n] \in Searches(n) /\ Halved(par, n, half[n], anchor, n)
  OBVIOUS
<1> HIDE DEF half
<1>8. half[0] = start /\ \A k \in 1 .. n : half[k] = Bisect(par, half[k - 1])
  <2>1. 0 \in 0 .. n /\ \A k \in 1 .. n : k \in 0 .. n /\ k # 0
    BY <1>1
  <2>2. QED
    BY <1>7, <2>1
<1>9. 0 \in P
  BY <1>1, <1>8
<1>10. ASSUME NEW k \in 1 .. n, k - 1 \in P PROVE k \in P
  <2>1. k - 1 \in Nat /\ (k - 1) + 1 = k /\ k \in 0 .. n
    BY <1>1
  <2>2. half[k - 1] \in Searches(n) /\ Halved(par, n, half[k - 1], anchor, k - 1)
    BY <1>10
  <2>3. Halved(par, n, Bisect(par, half[k - 1]), anchor, k)
    BY <2>1, <2>2, BisectNext
  <2>4. Bisect(par, half[k - 1]) \in Searches(n)
    BY <2>2, BisectFields
  <2>5. QED
    BY <1>8, <2>1, <2>3, <2>4
<1> HIDE DEF P
<1>11. \A k \in 0 .. n : k \in P
  BY <1>1, <1>9, <1>10, NatUpTo
<1>12. n \in P
  BY <1>1, <1>11
<1>13. QED
  BY <1>12 DEF P

\* By then the strides have left the ladder, and the second loop closes what the
\* first one has bracketed.
LEMMA SearchFinds ==
  ASSUME NEW par, NEW n, Falling(par, n), NEW anchor \in 1 .. n
  PROVE  Found(par, n, Search(par, anchor), anchor)
<1> DEFINE start == [best |-> anchor, lo |-> anchor, hi |-> anchor, stride |-> 1, over |-> FALSE]
           wide  == CHOOSE f : f = [k \in 0 .. n |-> IF k = 0 THEN start ELSE Widen(par, f[k - 1])]
           first == [wide[n] EXCEPT !.over = FALSE]
           half  == CHOOSE f : f = [k \in 0 .. n |-> IF k = 0 THEN first ELSE Bisect(par, f[k - 1])]
<1>1. n \in Nat \ {0} /\ Len(par) = n /\ \A i \in 1 .. n : par[i].diff \in Int
  BY DEF Falling
<1>2. Search(par, anchor) = half[n].best
  BY <1>1 DEF Search
<1>3. start \in Searches(n)
  BY DEF Searches
<1>4. Widened(par, n, start, anchor, 0)
  <2> DEFINE no == FALSE
  <2>1. start = [best |-> anchor, lo |-> anchor, hi |-> anchor, stride |-> 1, over |-> no] /\ ~no
    OBVIOUS
  <2> HIDE DEF start, no
  <2>2. start.best = anchor /\ start.lo = anchor /\ start.hi = anchor /\ start.stride = 1 /\ start.over = no
    BY <2>1
  <2>3. par[anchor].diff > 0 \/ par[anchor].diff <= 0
    BY <1>1
  <2>4. Beyond(par, start, anchor)
    BY <2>2, <2>3 DEF Beyond
  <2>5. QED
    BY <2>1, <2>2, <2>4 DEF Widened
<1>5. wide[n] \in Searches(n) /\ Widened(par, n, wide[n], anchor, n)
  <2> HIDE DEF start
  <2> QED
    BY <1>3, <1>4, WideningEnds
<1> HIDE DEF start, wide
<1>6. wide[n].over
  <2> SUFFICES ASSUME ~wide[n].over PROVE FALSE
    OBVIOUS
  <2>1. wide[n].stride > n /\ wide[n].best \in 1 .. n /\ wide[n].stride \in Nat
        /\ wide[n].stride = 1 + (IF par[wide[n].best].diff > 0 THEN wide[n].best - anchor ELSE anchor - wide[n].best)
    BY <1>1, <1>5, SearchFields DEF Widened
  <2>2. QED
    BY <1>1, <2>1
<1>7. first \in Searches(n) /\ Halved(par, n, first, anchor, 0)
  <2> DEFINE st == wide[n]
             no == FALSE
  <2>1. st \in Searches(n) /\ first = [st EXCEPT !.over = no] /\ no \in BOOLEAN /\ ~no
    BY <1>5
  <2>2. Bracketed(par, st) \/ (Beyond(par, st, anchor) /\ HalfWay(par, n, st, anchor))
    BY <1>5, <1>6 DEF Widened
  <2> HIDE DEF st, first, no
  <2>3. /\ first \in Searches(n) /\ first.best = st.best /\ first.lo = st.lo /\ first.hi = st.hi
        /\ first.over = no
    BY <2>1 DEF Searches
  <2>4. Bracketed(par, first) \/ (Beyond(par, first, anchor) /\ HalfWay(par, n, first, anchor))
    BY <2>2, <2>3 DEF Bracketed, Beyond, HalfWay
  <2>5. first.hi - first.lo <= n - 0
    <3>1. first.hi \in 1 .. n /\ first.lo \in 1 .. n
      BY <1>1, <2>3, SearchFields
    <3>2. QED
      BY <1>1, <3>1
  <2>6. QED
    BY <2>1, <2>3, <2>4, <2>5 DEF Halved
<1>8. half[n] \in Searches(n) /\ Halved(par, n, half[n], anchor, n)
  <2> HIDE DEF first
  <2> QED
    BY <1>7, HalvingEnds
<1> HIDE DEF half
<1>9. QED
  BY <1>2, <1>8, HalvedFinds

-----------------------------------------------------------------------------
(* The ladder the search is run on.                                          *)

\* A function of the first n numbers is a sequence of n.
LEMMA LengthOf ==
  ASSUME NEW f, NEW n \in Nat, DOMAIN f = 1 .. n, f = [i \in DOMAIN f |-> f[i]]
  PROVE  Len(f) = n /\ (f # <<>> => n # 0)
<1> DEFINE S == {f[i] : i \in 1 .. n}
<1>1. f \in [1 .. n -> S]
  OBVIOUS
<1>2. f \in Seq(S)
  BY <1>1
<1>3. DOMAIN f = 1 .. Len(f) /\ Len(f) \in Nat
  BY <1>2
<1>4. Len(f) = n
  BY <1>3
<1>5. n = 0 => f = <<>>
  BY <1>2, <1>4
<1>6. QED
  BY <1>4, <1>5

\* The differences of a ladder are numbers.
LEMMA ParityTypes ==
  ASSUME OrderedColumns, NEW t \in Nat, NEW strikes
  PROVE  /\ DOMAIN Parity(Today, strikes, t) = DOMAIN strikes
         /\ \A i \in DOMAIN strikes : Parity(Today, strikes, t)[i] # Nothing =>
              Parity(Today, strikes, t)[i].diff \in Int
<1>1. DOMAIN Parity(Today, strikes, t) = DOMAIN strikes
  BY DEF Parity
<1>2. ASSUME NEW i \in DOMAIN strikes, Parity(Today, strikes, t)[i] # Nothing
      PROVE  Parity(Today, strikes, t)[i].diff \in Int
  <2> DEFINE q(r) == Quoted(Today, strikes[i], r, t)
  <2>1. /\ \A r \in Rights : TwoSidedAt(Today, strikes[i], r, t)
        /\ Parity(Today, strikes, t)[i] = [diff |-> Mid(q("Call")) - Mid(q("Put"))]
    BY <1>2 DEF Parity
  <2>2. ASSUME NEW r \in Rights PROVE q(r).bid \in Nat /\ q(r).ask \in Nat
    <3> DEFINE rows == options[strikes[i]][r]
               k    == AtOrBefore(rows, t)
    <3>1. q(r) # Nothing
      BY <2>1, <2>2 DEF TwoSidedAt
    <3>2. strikes[i] \in DOMAIN options /\ q(r) = QuoteAt(rows, t, 0)
      BY <3>1 DEF Quoted, Today
    <3>3. Ordered(rows)
      BY <3>2, <2>2 DEF OrderedColumns
    <3>4. k \in 0 .. Len(rows) /\ Len(rows) \in Nat
      BY <3>3, PrintsBy
    <3>5. k # 0 /\ q(r) = rows[k - 0]
      BY <3>1, <3>2, <3>4 DEF QuoteAt
    <3> HIDE DEF rows, k, q
    <3>6. k \in 1 .. Len(rows) /\ q(r) = rows[k]
      BY <3>4, <3>5
    <3>7. q(r) \in Row
      BY <3>3, <3>6, RowsTyped
    <3>8. QED
      BY <3>7 DEF Row
  <2>3. "Call" \in Rights /\ "Put" \in Rights
    BY DEF Rights
  <2> HIDE DEF q
  <2>4. Mid(q("Call")) \in Int /\ Mid(q("Put")) \in Int
    BY <2>2, <2>3 DEF Mid
  <2>5. QED
    BY <2>1, <2>4
<1>3. QED
  BY <1>1, <1>2

LEMMA LadderDomain ==
  ASSUME NEW day, NEW t
  PROVE  \E n \in Nat : DOMAIN StrikesSeen(day, t) = 1 .. n
<1> DEFINE ks == {k \in Strikes : \E r \in Rights : PrintedBy(day, k, r, t)}
<1>1. IsFiniteSet(Strikes)
  BY ChainAssumption, FS_Interval DEF Strikes
<1>2. IsFiniteSet(ks)
  BY <1>1, FS_Subset
<1>3. Cardinality(ks) \in Nat
  BY <1>2, FS_CardinalityType
<1>4. DOMAIN StrikesSeen(day, t) = 1 .. Cardinality(ks)
  BY DEF StrikesSeen, Ladder
<1>5. QED
  BY <1>3, <1>4

\* On a ladder of two-sided strikes the search begins in the middle.
LEMMA AnchorOf ==
  ASSUME NEW par, NEW n, Falling(par, n)
  PROVE  (CHOOSE a \in Anchors(par) : TRUE) \in 1 .. n
<1> DEFINE middle == Len(par) \div 2 + 1
           near == {i \in DOMAIN par : par[i] # Nothing /\ Distance(i, middle) <= Reach + 1}
<1>1. n \in Nat \ {0} /\ Len(par) = n /\ DOMAIN par = 1 .. n /\ Reach \in Nat /\ \A i \in 1 .. n : par[i] # Nothing
  BY ChainAssumption DEF Falling
<1>2. middle \in 1 .. n
  BY <1>1
<1>3. Anchors(par) = {i \in near : \A j \in near :
         Distance(i, middle) < Distance(j, middle)
           \/ (Distance(i, middle) = Distance(j, middle) /\ i >= j)}
  BY DEF Anchors
<1> HIDE DEF middle
<1>4. near \subseteq 1 .. n
  BY <1>1
<1>5. Distance(middle, middle) = 0 /\ middle \in near
  BY <1>1, <1>2 DEF Distance
<1>6. \A j \in near : 0 < Distance(j, middle) \/ (0 = Distance(j, middle) /\ middle >= j)
  BY <1>2, <1>4 DEF Distance
<1> HIDE DEF near
<1>7. middle \in Anchors(par) /\ Anchors(par) \subseteq 1 .. n
  BY <1>3, <1>4, <1>5, <1>6
<1>8. QED
  BY <1>7

\* The search ends at the strike closest to the crossing, or more than half way to it,
\* on every ladder a session of these columns can show.
THEOREM ForwardFound == ChainSpec => []ForwardIsAtTheMoney
<1>1. ChainInit => ChainTypes
  BY ChainAssumption, NoPrintsAreOrdered DEF ChainInit, ChainTypes
<1>2. ChainTypes /\ [ChainNext]_cvars => ChainTypes'
  BY ChainTypesNext
<1>3. ChainTypes => ForwardIsAtTheMoney
  <2> DEFINE par     == Parity(Today, StrikesSeen(Today, clock), clock)
             falling == /\ \A i \in DOMAIN par : par[i] # Nothing
                        /\ \A i, j \in DOMAIN par : i < j => par[i].diff > par[j].diff
             anchor  == CHOOSE a \in Anchors(par) : TRUE
             best    == Search(par, anchor)
  <2> SUFFICES ASSUME ChainTypes, clock > 0, par # <<>>, falling
               PROVE  \A i \in DOMAIN par : Size(par[i].diff) < Size(par[best].diff) =>
                        LET end == IF i > best THEN Len(par) ELSE 1
                        IN  /\ par[best].diff > 0 <=> i > best
                            /\ 2 * Distance(best, anchor) >= Distance(end, anchor)
    BY DEF ForwardIsAtTheMoney
  <2>1. clock \in Nat /\ OrderedColumns
    BY ChainAssumption, ColumnsAreOrdered DEF ChainTypes
  <2>2. PICK n \in Nat : DOMAIN StrikesSeen(Today, clock) = 1 .. n
    BY LadderDomain
  <2>3. /\ DOMAIN par = 1 .. n
        /\ \A i \in 1 .. n : par[i] # Nothing => par[i].diff \in Int
    BY <2>1, <2>2, ParityTypes
  <2>4. par = [i \in DOMAIN par |-> par[i]]
    BY DEF Parity
  <2> HIDE DEF par
  <2>5. Len(par) = n /\ n # 0
    BY <2>3, <2>4, LengthOf
  <2>6. Falling(par, n)
    BY <2>3, <2>5 DEF Falling
  <2>7. anchor \in 1 .. n
    BY <2>6, AnchorOf
  <2> HIDE DEF anchor, falling
  <2>8. Found(par, n, best, anchor)
    BY <2>6, <2>7, SearchFinds
  <2> HIDE DEF best
  <2>9. QED
    BY <2>3, <2>5, <2>8 DEF Found
<1>4. QED
  BY <1>1, <1>2, <1>3, PTL DEF ChainSpec
=============================================================================
