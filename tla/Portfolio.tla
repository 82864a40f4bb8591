------------------------------ MODULE Portfolio ------------------------------
(***************************************************************************)
(* volforge::Portfolio: positions made of legs, the orders working against *)
(* them, the risk rules attached to them, and the money they have made.    *)
(*                                                                         *)
(* One action per public operation of the class, each the whole method.    *)
(* The object is passive: a host (the backtest loop, the session loop, the *)
(* strategy) calls it.  Here the host may make any legal call at any time  *)
(* and the market may show anything; Backtest restricts both.              *)
(*                                                                         *)
(* Three representation choices, none visible through the API:             *)
(*  - the vector of positions, each a vector of legs, is one function over *)
(*    the pairs <<position, leg index>>; a slot not used yet is "Absent".  *)
(*    Leg indexes start at 1 and 0 (Whole) is the rule that names no leg;  *)
(*  - the vector of pending orders is a set; an order carries how many     *)
(*    were submitted before it for its leg, so that two orders for one leg *)
(*    stay two.  Orders fill independently, so their order in the vector   *)
(*    only orders the trade log, which is a set here too;                  *)
(*  - an order's instrument, side and quantity are those of its leg, which *)
(*    never change after submit_open.                                      *)
(* A definition X_Bug is X with a slip a programmer could make.  No action  *)
(* uses one: it is put in the place of X to see that a property notices.   *)
(* Left out: labels, entry/exit timestamps of a leg (its trades have       *)
(* them), and the liquidity flags and counters of a fill, which nothing    *)
(* reads back.                                                             *)
(***************************************************************************)
EXTENDS Integers, Sequences, FiniteSets, Functions

CONSTANTS
  Instruments,    \* what the registry knows
  Expiry,         \* [Instruments -> Nat], the expiry date, 0 for a non-option
  Strike,         \* [Instruments -> Nat]
  Right,          \* [Instruments -> {"Call", "Put"}]
  Quotes,         \* the quotes a MarketView may return
  NoQuote,        \* MarketView::quote found no observation
  LegLists,       \* the instrument lists a strategy may trade as one position
  Lots,           \* the signed quantities it may trade, negative to sell
  RuleMenu,       \* the risk rules it may attach, position apart
  Levels,         \* settlement levels of the underlying
  Delay,          \* execution_delay_nanos
  Fee,            \* what the cost policy charges for an order's fill
  ExerciseFee,    \* and for exercising a long in-the-money option
  MaxPositions,   \* bound: positions submitted
  MaxLegs,        \* bound: legs of a position
  MaxLegsInAll,   \* bound: legs of all positions
  MaxOrders,      \* bound: orders submitted for one leg
  MaxRules,       \* bound: rules attached
  MaxTime         \* bound: the clock

Quote       == [bid : Nat, ask : Nat, last : Nat]
PositionIds == 0 .. MaxPositions - 1
LegIndexes  == 1 .. MaxLegs
Whole       == 0
LegIds      == PositionIds \X LegIndexes
NoMark      == -1
RuleKinds   == {"StopLoss", "TakeProfit", "ExitAt"}
MenuItem    == [kind : RuleKinds, leg : Nat, pct : Nat, deadline : Nat]
LegStates   == {"Absent", "PendingOpen", "Open", "PendingClose", "Closed", "Cancelled"}

ASSUME InstrumentsAssumption ==
  /\ Instruments # {}
  /\ Expiry \in [Instruments -> Nat]
  /\ Strike \in [Instruments -> Nat]
  /\ Right  \in [Instruments -> {"Call", "Put"}]

ASSUME MarketAssumption == Quotes \subseteq Quote /\ NoQuote \notin Quotes /\ Levels \subseteq Nat

\* submit_open refuses an empty list and a zero quantity; attach_stop_loss and
\* attach_take_profit refuse a percentage that is not positive.
ASSUME StrategyAssumption ==
  /\ LegLists \subseteq {s \in Seq(Instruments) : Len(s) \in LegIndexes}
  /\ Lots \subseteq Int \ {0}
  /\ RuleMenu \subseteq {m \in MenuItem : m.kind # "ExitAt" => m.pct > 0}

ASSUME BoundsAssumption ==
  {Delay, Fee, ExerciseFee, MaxPositions, MaxLegs, MaxLegsInAll, MaxOrders, MaxRules, MaxTime}
    \subseteq Nat

VARIABLES
  now,        \* the replay clock
  quotes,     \* what MarketView::quote returns for each instrument
  size,       \* positions submitted so far
  leg,        \* the legs of all positions
  pending,    \* working orders
  rules,      \* attached risk rules, in the order they were attached
  trades,     \* the trade log
  realized,   \* gross realised P&L
  costs,      \* total costs
  cancelled,  \* orders withdrawn before they filled
  left        \* history: positions the host or a rule has asked to leave

money == <<trades, realized, costs>>
vars  == <<now, quotes, size, leg, pending, rules, trades, realized, costs, cancelled, left>>

-----------------------------------------------------------------------------
(* Legs and positions.                                                      *)

Leg == [inst : Instruments, qty : Int, state : LegStates, entry : Nat, exit : Nat,
        mark : Nat \cup {NoMark}, settled : BOOLEAN, orders : Nat]

Blank == [inst |-> CHOOSE i \in Instruments : TRUE, qty |-> 0, state |-> "Absent",
          entry |-> 0, exit |-> 0, mark |-> NoMark, settled |-> FALSE, orders |-> 0]

\* How the methods below change a leg.
Submitted(inst, qty)   == [Blank EXCEPT !.inst = inst, !.qty = qty, !.state = "PendingOpen",
                                        !.orders = 1]
InState(lg, state)     == [lg EXCEPT !.state = state]
Exiting(lg)            == [lg EXCEPT !.state = "PendingClose", !.orders = @ + 1]
Opened(lg, price)      == [lg EXCEPT !.state = "Open", !.entry = price]
Exited(lg, price)      == [lg EXCEPT !.state = "Closed", !.exit = price]
SettledAt(lg, price)   == [lg EXCEPT !.state = "Closed", !.exit = price, !.settled = TRUE]
Marked(lg, price)      == [lg EXCEPT !.mark = price]

Live_Bug(lg) == lg.state \in {"Open", "PendingClose", "Closed"}

Live(lg)   == lg.state \in {"Open", "PendingClose"}
Filled(lg) == Live(lg) \/ lg.state = "Closed"

LegsOf(lf, p) == {l \in LegIds : l[1] = p /\ lf[l].state # "Absent"}

IsOpen(lf, p) == \E l \in LegsOf(lf, p) : Live(lf[l]) \/ lf[l].state = "PendingOpen"

Established_Bug(lf, p) == \A l \in LegsOf(lf, p) : Filled(lf[l])

Established(lf, p) ==
  LET kept == {l \in LegsOf(lf, p) : lf[l].state # "Cancelled"}
  IN  kept # {} /\ \A l \in kept : Filled(lf[l])

-----------------------------------------------------------------------------
(* Prices.                                                                  *)

\* CrossSpreadFill: only a two-sided, uncrossed book trades, and at its touch.
CanFill(q) == q.bid > 0 /\ q.ask > 0 /\ q.ask >= q.bid

QuoteFor(l) == quotes[leg[l].inst]

\* A short is opened by selling and closed by buying, a long the other way round.
Buys(l, closing) == (leg[l].qty < 0) = closing

FillPrice(l, closing) == IF Buys(l, closing) THEN QuoteFor(l).ask ELSE QuoteFor(l).bid

\* The exit-side price of a leg in its present quote, NoMark if there is none.
QuotedMark(lg) ==
  LET q    == quotes[lg.inst]
      side == IF lg.qty < 0 THEN q.ask ELSE q.bid
  IN  IF q = NoQuote THEN NoMark
      ELSE IF side > 0 THEN side
      ELSE IF lg.qty > 0 THEN 0
      ELSE IF q.last > 0 THEN q.last ELSE NoMark

\* Position::mark_for.  Every caller asks about a filled leg, so the negative
\* sentinel for "no valuation at all" cannot be reached.
MarkFor(lg) ==
  IF QuotedMark(lg) # NoMark THEN QuotedMark(lg)
  ELSE IF lg.mark # NoMark THEN lg.mark ELSE lg.entry

Magnitude(n) == IF n < 0 THEN -n ELSE n

Gain_Bug(lg, price) == (price - lg.entry) * Magnitude(lg.qty)

Gain(lg, price) == (price - lg.entry) * lg.qty

PnlOf(lg) ==
  IF ~Filled(lg) THEN 0 ELSE Gain(lg, IF lg.state = "Closed" THEN lg.exit ELSE MarkFor(lg))

\* A P&L as a fraction of the premium at risk, kept as the pair of the two: with
\* no premium the code calls the fraction 0, which no threshold reaches.
PnlAndRisk(lf, r) ==
  LET ls == IF r.leg = Whole THEN LegsOf(lf, r.position) ELSE {<<r.position, r.leg>>}
      filled == {l \in ls : Filled(lf[l])}
  IN  [pnl  |-> SumFunction([l \in filled |-> PnlOf(lf[l])]),
       risk |-> Magnitude(SumFunction([l \in filled |-> lf[l].entry * lf[l].qty]))]

-----------------------------------------------------------------------------
(* Orders.                                                                  *)

Order == [leg : LegIds, n : Nat, closing : BOOLEAN, submitted : Nat, eligible : Nat,
          fromRule : BOOLEAN]

\* The state of the leg an order works for.
Awaiting(o) == IF o.closing THEN "PendingClose" ELSE "PendingOpen"

\* Portfolio::submit, given the leg's order count so far.
NewOrder(l, n, closing, byRule) ==
  [leg |-> l, n |-> n + 1, closing |-> closing, submitted |-> now, eligible |-> now + Delay,
   fromRule |-> byRule]

SubmitOpen(insts, qty) ==
  LET slots == {l \in LegIds : l[1] = size /\ l[2] <= Len(insts)}
  IN  /\ size < MaxPositions
      /\ Cardinality(slots) + Cardinality({l \in LegIds : leg[l].state # "Absent"}) <= MaxLegsInAll
      /\ size' = size + 1
      /\ leg' = [l \in LegIds |->
                   IF l \in slots THEN Submitted(insts[l[2]], qty) ELSE leg[l]]
      /\ pending' = pending \cup {NewOrder(l, 0, FALSE, FALSE) : l \in slots}
      /\ UNCHANGED <<now, quotes, rules, money, cancelled, left>>

CountCancelled_Bug(orders) == cancelled + Cardinality({o \in orders : ~o.closing})

CountCancelled(orders) == cancelled + Cardinality(orders)

UnfilledOpenings_Bug(ps) == {o \in {} : o.leg[1] \in ps}

UnfilledOpenings(ps) == {o \in pending : o.leg[1] \in ps /\ ~o.closing}

CanExit_Bug(lg) == Live(lg)

CanExit(lg) == lg.state = "Open"

\* What submit_close does to the positions ps and submit_close_leg to the legs
\* ls: the opening orders of ps that have not filled are withdrawn first, then
\* every Open leg asked for gets an exit.  MaxOrders bounds the exits of a leg.
Leave(ps, ls, byRule) ==
  LET dropped   == UnfilledOpenings(ps)
      withdrawn == {o.leg : o \in dropped}
      exits     == {l \in LegIds : /\ l[1] \in ps \/ l \in ls
                                   /\ l \notin withdrawn
                                   /\ CanExit(leg[l])}
  IN  /\ \A l \in exits : leg[l].orders < MaxOrders
      /\ leg' = [l \in LegIds |->
                   IF l \in withdrawn THEN InState(leg[l], "Cancelled")
                   ELSE IF l \in exits THEN Exiting(leg[l]) ELSE leg[l]]
      /\ pending' = (pending \ dropped)
                      \cup {NewOrder(l, leg[l].orders, TRUE, byRule) : l \in exits}
      /\ cancelled' = CountCancelled(dropped)
      /\ left' = left \cup ps
      /\ UNCHANGED <<now, quotes, size, money>>

SubmitClose(p) == p < size /\ Leave({p}, {}, FALSE) /\ UNCHANGED rules

SubmitCloseLeg(l) == leg[l].state # "Absent" /\ Leave({}, {l}, FALSE) /\ UNCHANGED rules

Fillable_Bug(o) == now > o.eligible /\ QuoteFor(o.leg) # NoQuote /\ CanFill(QuoteFor(o.leg))

Fillable(o) == now >= o.eligible /\ QuoteFor(o.leg) # NoQuote /\ CanFill(QuoteFor(o.leg))

Trade == [leg : LegIds, n : Nat, closing : BOOLEAN, signal : Nat, fill : Nat, price : Nat,
          cost : Nat, fromRule : BOOLEAN, settled : BOOLEAN]

TradeOf(o) ==
  [leg |-> o.leg, n |-> o.n, closing |-> o.closing, signal |-> o.submitted, fill |-> now,
   price |-> FillPrice(o.leg, o.closing), cost |-> Fee, fromRule |-> o.fromRule, settled |-> FALSE]

\* Fills whatever is eligible and has a market; the rest keeps working.
ProcessPending ==
  LET fills  == {o \in pending : Fillable(o)}
      closes == {o \in fills : o.closing}
  IN  /\ leg' = [l \in LegIds |->
                   IF \E o \in closes : o.leg = l THEN Exited(leg[l], FillPrice(l, TRUE))
                   ELSE IF \E o \in fills : o.leg = l THEN Opened(leg[l], FillPrice(l, FALSE))
                   ELSE leg[l]]
      /\ pending' = pending \ fills
      /\ trades' = trades \cup {TradeOf(o) : o \in fills}
      /\ realized' = realized
           + SumFunction([o \in closes |-> Gain(leg[o.leg], FillPrice(o.leg, TRUE))])
      /\ costs' = costs + Fee * Cardinality(fills)
      /\ UNCHANGED <<now, quotes, size, rules, cancelled, left>>

-----------------------------------------------------------------------------
(* Marks, settlement and the end of the day.                                *)

RefreshMarks ==
  /\ leg' = [l \in LegIds |->
               IF Live(leg[l]) /\ QuotedMark(leg[l]) # NoMark
               THEN Marked(leg[l], QuotedMark(leg[l])) ELSE leg[l]]
  /\ UNCHANGED <<now, quotes, size, pending, rules, money, cancelled, left>>

Intrinsic(i, level) ==
  LET gain == IF Right[i] = "Call" THEN level - Strike[i] ELSE Strike[i] - level
  IN  IF gain > 0 THEN gain ELSE 0

\* Live option legs of the expiry close at intrinsic value, then the orders that
\* were working on the expiry are dropped.  expiry is a real date, never 0.
SettleExpiry(expiry, level) ==
  LET due       == {l \in LegIds : Live(leg[l]) /\ Expiry[leg[l].inst] = expiry}
      Value(l)  == Intrinsic(leg[l].inst, level)
      Charge(l) == IF leg[l].qty > 0 /\ Value(l) > 0 THEN ExerciseFee ELSE 0
      dropped   == {o \in pending : Expiry[leg[o.leg].inst] = expiry}
      withdrawn == {o.leg : o \in {d \in dropped : ~d.closing /\ leg[d.leg].state = "PendingOpen"}}
  IN  /\ leg' = [l \in LegIds |->
                   IF l \in due THEN SettledAt(leg[l], Value(l))
                   ELSE IF l \in withdrawn THEN InState(leg[l], "Cancelled") ELSE leg[l]]
      /\ pending' = pending \ dropped
      /\ cancelled' = CountCancelled(dropped)
      /\ trades' = trades \cup
           {[leg |-> l, n |-> 0, closing |-> TRUE, signal |-> now, fill |-> now,
             price |-> Value(l), cost |-> Charge(l), fromRule |-> FALSE, settled |-> TRUE]
              : l \in due}
      /\ realized' = realized
           + SumFunction([l \in due |-> Gain(leg[l], Value(l))])
      /\ costs' = costs + SumFunction([l \in due |-> Charge(l)])
      /\ UNCHANGED <<now, quotes, size, rules, left>>

Rearms_Bug(r, abandoned) == r.leg = Whole /\ r.position \in {l[1] : l \in abandoned}

Rearms(r, abandoned) == r.position \in {l[1] : l \in abandoned} /\ IsOpen(leg', r.position)

\* Day orders.  An exit that did not get done gives its leg back, and the fired
\* rules of that position are armed again.
CancelWorkingOrders ==
  LET abandoned == {o.leg : o \in {d \in pending : d.closing /\ leg[d.leg].state = "PendingClose"}}
      withdrawn == {o.leg : o \in {d \in pending : ~d.closing /\ leg[d.leg].state = "PendingOpen"}}
  IN  /\ leg' = [l \in LegIds |->
                   IF l \in abandoned THEN InState(leg[l], "Open")
                   ELSE IF l \in withdrawn THEN InState(leg[l], "Cancelled") ELSE leg[l]]
      /\ pending' = {}
      /\ cancelled' = CountCancelled(pending)
      /\ rules' = [i \in DOMAIN rules |->
                     IF Rearms(rules[i], abandoned) THEN [rules[i] EXCEPT !.fired = FALSE] ELSE rules[i]]
      /\ UNCHANGED <<now, quotes, size, money, left>>

-----------------------------------------------------------------------------
(* Risk rules.                                                              *)

Rule == [kind : RuleKinds, position : Nat, leg : Nat, pct : Nat, deadline : Nat,
         fired : BOOLEAN]

\* attach_stop_loss, attach_take_profit and attach_exit_at.
AttachRule(p, m) ==
  /\ p < size
  /\ Len(rules) < MaxRules
  /\ rules' = Append(rules, [kind |-> m.kind, position |-> p, leg |-> m.leg, pct |-> m.pct,
                             deadline |-> m.deadline, fired |-> FALSE])
  /\ UNCHANGED <<now, quotes, size, leg, pending, money, cancelled, left>>

Targets(r) == {l \in LegIds : l[1] = r.position /\ r.leg \in {Whole, l[2]}}

HasTarget(r) == r.leg = Whole \/ \E l \in LegsOf(leg, r.position) : l[2] = r.leg

Triggered(lf, r) ==
  LET v == PnlAndRisk(lf, r)
  IN  CASE r.kind = "StopLoss"   -> v.risk > 0 /\ 100 * v.pnl <= -r.pct * v.risk
        [] r.kind = "TakeProfit" -> v.risk > 0 /\ 100 * v.pnl >= r.pct * v.risk
        [] r.kind = "ExitAt"     -> now >= r.deadline

\* The rule is spent without an exit: its position is over, or it names a leg the
\* position does not have.
Retires(r) == ~r.fired /\ (~IsOpen(leg, r.position) \/ ~HasTarget(r))

\* The rule is armed on something held, and its condition is met.
Due(r) ==
  /\ ~r.fired /\ ~Retires(r)
  /\ IF r.leg = Whole THEN Established(leg, r.position)
                      ELSE \E l \in Targets(r) : leg[l].state = "Open"
  /\ Triggered(leg, r)

Fires_Bug(i) == Due(rules[i])

\* Rules are visited in order and an exit changes what later rules see: a leg
\* already asked to leave is no longer Open, so a later rule on that leg stays
\* armed, while a rule on the whole position fires again for the legs that are
\* left.  Nothing else a rule reads changes during the pass.
Fires(i) ==
  /\ Due(rules[i])
  /\ rules[i].leg = Whole
       \/ ~ \E j \in 1 .. i - 1 : Due(rules[j]) /\ Targets(rules[i]) \subseteq Targets(rules[j])

ProcessRiskRules ==
  LET firing == {i \in DOMAIN rules : Fires(i)}
      whole  == {i \in firing : rules[i].leg = Whole}
  IN  /\ Leave({rules[i].position : i \in whole},
               {<<rules[i].position, rules[i].leg>> : i \in firing \ whole}, TRUE)
      /\ rules' = [i \in DOMAIN rules |->
                     [rules[i] EXCEPT !.fired = @ \/ Retires(rules[i]) \/ i \in firing]]

-----------------------------------------------------------------------------
(* The object and any host.                                                 *)

Init ==
  /\ now = 0 /\ quotes = [i \in Instruments |-> NoQuote]
  /\ size = 0 /\ leg = [l \in LegIds |-> Blank]
  /\ pending = {} /\ rules = <<>> /\ trades = {}
  /\ realized = 0 /\ costs = 0 /\ cancelled = 0 /\ left = {}

\* The clock never goes back; what the market shows is the host's business.
Observe(t, q) ==
  /\ t >= now /\ t <= MaxTime
  /\ now' = t /\ quotes' = q
  /\ UNCHANGED <<size, leg, pending, rules, money, cancelled, left>>

Strategy ==
  \/ \E insts \in LegLists, qty \in Lots : SubmitOpen(insts, qty)
  \/ \E p \in PositionIds : SubmitClose(p)
  \/ \E l \in LegIds : SubmitCloseLeg(l)
  \/ \E p \in PositionIds, m \in RuleMenu : AttachRule(p, m)

Next ==
  \/ \E t \in now .. MaxTime, q \in [Instruments -> Quotes \cup {NoQuote}] : Observe(t, q)
  \/ Strategy
  \/ ProcessPending
  \/ RefreshMarks
  \/ ProcessRiskRules
  \/ \E expiry \in {Expiry[i] : i \in Instruments} \ {0}, level \in Levels :
       SettleExpiry(expiry, level)
  \/ CancelWorkingOrders

Spec == Init /\ [][Next]_vars

-----------------------------------------------------------------------------
(* Properties.                                                              *)

\* Everything but the three sums has its type; positions beyond size do not exist
\* and rules belong to positions that do.
TypeOK ==
  /\ now \in Nat
  /\ quotes \in [Instruments -> Quotes \cup {NoQuote}]
  /\ size \in 0 .. MaxPositions
  /\ leg \in [LegIds -> Leg]
  /\ pending \subseteq Order
  /\ rules \in Seq(Rule)
  /\ trades \subseteq Trade
  /\ left \subseteq 0 .. size - 1
  /\ \A l \in LegIds : l[1] >= size => leg[l].state = "Absent"
  /\ \A i \in DOMAIN rules : rules[i].position < size

\* A leg is waiting for a fill exactly while one order works for it, and that
\* order is of the kind it waits for.  Two orders on one leg would trade it twice,
\* an order on a settled or cancelled leg would bring it back, and a waiting leg
\* with no order would wait for ever (submit_close_leg's state test, the two
\* passes of settle_expiry, the re-opening in cancel_working_orders).
OneOrderPerWaitingLeg ==
  /\ \A o \in pending : leg[o.leg].state = Awaiting(o)
  /\ \A o1, o2 \in pending : o1.leg = o2.leg => o1 = o2
  /\ \A l \in LegIds :
       leg[l].state \in {"PendingOpen", "PendingClose"} => \E o \in pending : o.leg = l

\* A rule that has fired is protecting nothing: none of its legs is held without
\* an exit working, or about to be.  This is what re-arming the rules of
\* abandoned exits is for (cancel_working_orders), and why a rule may only be
\* spent on a position that is over, established, or asked to leave.
SpentRuleGuardsNothing ==
  \A i \in DOMAIN rules : rules[i].fired =>
    \A l \in Targets(rules[i]) : leg[l].state \notin {"Open", "PendingOpen"}

\* Once a position was asked to close, by the strategy or by a rule, none of its
\* opening orders is left to fill: no leg opens after the close and stays naked
\* (the withdrawal loop of submit_close).
NoOpeningAfterClose ==
  \A p \in left : \A l \in LegIds : l[1] = p => leg[l].state # "PendingOpen"

\* No order is filled less than the execution delay after it was submitted.
DelayRespected == \A t \in trades : ~t.settled => t.fill >= t.signal + Delay

TradesOf(l, closing) == {t \in trades : t.leg = l /\ t.closing = closing}

\* The trade log tells each leg's story once: one opening fill at its entry price
\* if it was ever held, one closing fill or settlement at its exit price if it is
\* over, nothing else.  Settlement racing a working exit must not book both.
TradeLogMatchesLegs ==
  \A l \in LegIds :
    /\ IF Filled(leg[l])
       THEN \E t \in trades : TradesOf(l, FALSE) = {t} /\ t.price = leg[l].entry
       ELSE TradesOf(l, FALSE) = {}
    /\ IF leg[l].state = "Closed"
       THEN \E t \in trades : /\ TradesOf(l, TRUE) = {t}
                              /\ t.price = leg[l].exit /\ t.settled = leg[l].settled
       ELSE TradesOf(l, TRUE) = {}

\* The realised P&L is what the trade log paid in and out, plus what the legs
\* still held cost: money is made by trades only, and each is counted once, in
\* the right direction, whichever of the three paths booked it.
BooksBalance ==
  LET Cash(t) == t.price * leg[t.leg].qty * (IF t.closing THEN 1 ELSE -1)
      held    == {l \in LegIds : Live(leg[l])}
  IN  /\ realized = SumFunction([t \in trades |-> Cash(t)])
                      + SumFunction([l \in held |-> leg[l].entry * leg[l].qty])
      /\ costs = SumFunction([t \in trades |-> t.cost])

\* Every order submitted is working, was filled, or was counted as cancelled:
\* none is lost or counted twice by the loops that rebuild the pending list.
OrdersConserved ==
  SumFunction([l \in LegIds |-> leg[l].orders])
    = Cardinality(pending) + Cardinality({t \in trades : ~t.settled}) + cancelled

\* What a leg has been through stays: the moves between states are those of an
\* order's life, and a held leg's entry and a closed leg's exit never change.
Moves == [Absent |-> {"PendingOpen"}, PendingOpen |-> {"Open", "Cancelled"},
          Open |-> {"PendingClose", "Closed"}, PendingClose |-> {"Open", "Closed"},
          Closed |-> {}, Cancelled |-> {}]

LegStep ==
  \A l \in LegIds :
    /\ leg'[l].state \in Moves[leg[l].state] \cup {leg[l].state}
    /\ Filled(leg[l]) => /\ leg'[l].entry = leg[l].entry /\ leg'[l].qty = leg[l].qty
                         /\ leg'[l].inst = leg[l].inst
    /\ leg[l].state = "Closed" => leg'[l].exit = leg[l].exit

LegHistory == [][LegStep]_vars
=============================================================================
