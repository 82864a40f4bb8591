--------------------------- MODULE BacktestProofs ---------------------------
(***************************************************************************)
(* The backtest loop implements the portfolio's specification, so that all *)
(* that is proved of Portfolio holds during a run; and what it promises    *)
(* about the nights between sessions.                                      *)
(***************************************************************************)
EXTENDS Backtest, PortfolioProofs

-----------------------------------------------------------------------------
(* Every step of the loop is a step of the portfolio under some host.       *)

\* The clock is where the calendar can take it.
Clock == date \in 0 .. NumDates /\ now \in 0 .. MaxTime

LEMMA Calendar ==
  /\ NumDates \in Nat /\ DayLength \in Nat /\ MaxTime \in Nat /\ Bell \in 1 .. DayLength
  /\ NumDates * DayLength <= MaxTime
BY CalendarAssumption, BoundsAssumption

\* No tick of a date of the calendar is past the end of time.
LEMMA TickBound ==
  ASSUME NEW d \in 0 .. NumDates, NEW n \in 1 .. DayLength
  PROVE  Tick(d, n) \in Int /\ Tick(d, n) <= MaxTime
<1>1. d \in Nat /\ n \in Nat /\ d <= NumDates /\ n <= DayLength
  BY Calendar
<1>2. (NumDates - d) * DayLength >= 0
  BY <1>1, Calendar
<1>3. (NumDates - d) * DayLength = NumDates * DayLength - d * DayLength
  BY <1>1, Calendar
<1>4. (d - 1) * DayLength = d * DayLength - DayLength
  BY <1>1, Calendar
<1>5. d * DayLength \in Int /\ NumDates * DayLength \in Int /\ (d - 1) * DayLength \in Int
  BY <1>1, Calendar
<1>6. QED
  BY <1>1, <1>2, <1>3, <1>4, <1>5, Calendar DEF Tick

\* Expiries due are expiries, and levels had are levels.
LEMMA SettlementParts ==
  ASSUME TypeOK
  PROVE  /\ DueExpiries \subseteq {Expiry[i] : i \in Instruments} \ {0}
         /\ SettlementLevels \subseteq Levels
<1>1. DueExpiries \subseteq {Expiry[i] : i \in Instruments} \ {0}
  BY TypeParts DEF DueExpiries
<1>2. SettlementLevels \subseteq Levels
  <2>1. CASE SpotPrint > 0
    <3>1. Spot # NoSpot /\ Spot \in Instruments /\ quotes[Spot] # NoQuote /\ SpotPrint = quotes[Spot].last
      BY <2>1, SettlementAssumption DEF SpotPrint
    <3>2. quotes[Spot] \in Quotes
      BY <3>1 DEF TypeOK
    <3>3. quotes[Spot].last \in Levels \cup {0}
      BY <3>2, SettlementAssumption
    <3>4. QED
      BY <2>1, <3>1, <3>3 DEF SettlementLevels
  <2>2. CASE ~(SpotPrint > 0)
    BY <2>2, SettlementAssumption DEF SettlementLevels
  <2>3. QED
    BY <2>1, <2>2
<1>3. QED
  BY <1>1, <1>2

\* An observation by the loop is one a host may make.
LEMMA ObserveIsNext ==
  ASSUME NEW t \in Nat, NEW q \in [Instruments -> Quotes \cup {NoQuote}], Observe(t, q), now \in Nat
  PROVE  Next
<1>1. t \in now .. MaxTime
  BY BoundsAssumption DEF Observe
<1>2. QED
  BY <1>1 DEF Next

\* And so is the bell: the clock goes on to it, or is past it and stays.
LEMMA BellObserves ==
  ASSUME Clock, RingBell
  PROVE  BellTime \in Nat /\ Observe(BellTime, quotes)
<1>1. Tick(date, Bell) \in Int /\ Tick(date, Bell) <= MaxTime
  BY TickBound, Calendar DEF Clock
<1>2. BellTime \in Nat /\ BellTime >= now /\ BellTime <= MaxTime
  BY <1>1, Calendar DEF BellTime, Clock
<1>3. QED
  BY <1>2 DEF RingBell, Observe

LEMMA StepImplements ==
  ASSUME Inv1, Clock, [BNext]_bvars
  PROVE  [Next]_vars
<1> now \in Nat /\ quotes \in [Instruments -> Quotes \cup {NoQuote}]
  BY DEF Inv1, TypeOK
<1>1. CASE LoadSession
  <2>1. [i \in Instruments |-> NoQuote] \in [Instruments -> Quotes \cup {NoQuote}]
    OBVIOUS
  <2>2. QED
    BY <1>1, <2>1, ObserveIsNext DEF LoadSession
<1>2. CASE Step
  <2>1. PICK n \in 1 .. DayLength, s \in SUBSET {i \in Instruments : Trading(i)} :
          /\ Tick(date, n) > now
          /\ \E q \in [s -> Quotes] :
               Observe(Tick(date, n), [i \in Instruments |-> IF i \in s THEN q[i] ELSE quotes[i]])
    BY <1>2 DEF Step
  <2>2. PICK q \in [s -> Quotes] :
          Observe(Tick(date, n), [i \in Instruments |-> IF i \in s THEN q[i] ELSE quotes[i]])
    BY <2>1
  <2>3. [i \in Instruments |-> IF i \in s THEN q[i] ELSE quotes[i]]
          \in [Instruments -> Quotes \cup {NoQuote}]
    OBVIOUS
  <2>4. Tick(date, n) \in Nat
    BY <2>1, TickBound DEF Clock
  <2>5. QED
    BY <2>2, <2>3, <2>4, ObserveIsNext
<1>3. CASE RingBell
  <2>1. BellTime \in Nat /\ Observe(BellTime, quotes)
    BY <1>3, BellObserves
  <2>2. QED
    BY <2>1, ObserveIsNext
<1>4. CASE Settle
  <2>1. PICK expiry \in DueExpiries, level \in SettlementLevels : SettleExpiry(expiry, level)
    BY <1>4 DEF Settle
  <2>2. expiry \in {Expiry[i] : i \in Instruments} \ {0} /\ level \in Levels
    BY SettlementParts DEF Inv1
  <2>3. QED
    BY <2>1, <2>2 DEF Next
<1>5. CASE Fill \/ Mark \/ Rules \/ EndSession \/ StrategyCall
  BY <1>5 DEF Fill, Mark, Rules, EndSession, StrategyCall, Next
<1>6. CASE Gap \/ Finish \/ Resume \/ NotYet \/ BodyEnds \/ StrategyThrows \/ CannotSettle \/ Settled \/ Over
           \/ UNCHANGED bvars
  BY <1>6 DEF Gap, Finish, Resume, NotYet, BodyEnds, StrategyThrows, CannotSettle, Settled, Over, bvars
<1>7. QED
  BY <1>1, <1>2, <1>3, <1>4, <1>5, <1>6 DEF BNext, Engine

LEMMA ClockNext ==
  ASSUME Clock, [BNext]_bvars
  PROVE  Clock'
<1>1. CASE LoadSession
  BY <1>1, Calendar DEF LoadSession, Observe, Clock
<1>2. CASE Gap
  BY <1>2, Calendar DEF Gap, vars, Clock
<1>3. CASE Step
  <2>1. PICK n \in 1 .. DayLength : now' = Tick(date, n) /\ now' >= now /\ now' <= MaxTime
    BY <1>3 DEF Step, Observe
  <2>2. QED
    BY <1>3, <2>1, TickBound DEF Step, Clock
<1>4. CASE RingBell
  BY <1>4, BellObserves, Calendar DEF RingBell, Observe, loop, Clock
<1>5. CASE Fill
  BY <1>5 DEF Fill, ProcessPending, loop, Clock
<1>6. CASE Mark
  BY <1>6 DEF Mark, RefreshMarks, loop, Clock
<1>7. CASE Rules
  BY <1>7 DEF Rules, ProcessRiskRules, Leave, Clock
<1>8. CASE EndSession
  BY <1>8 DEF EndSession, CancelWorkingOrders, Clock
<1>9. CASE Settle
  BY <1>9 DEF Settle, SettleExpiry, loop, Clock
<1>10. CASE StrategyCall
  BY <1>10 DEF StrategyCall, Strategy, SubmitOpen, SubmitClose, SubmitCloseLeg, AttachRule, Leave,
               loop, Clock
<1>11. CASE Finish \/ Resume \/ NotYet \/ BodyEnds \/ StrategyThrows \/ CannotSettle \/ Settled \/ Over
            \/ UNCHANGED bvars
  BY <1>11 DEF Finish, Resume, NotYet, BodyEnds, StrategyThrows, CannotSettle, Settled, Over, bvars, vars, loop, Clock
<1>12. QED
  BY <1>1, <1>2, <1>3, <1>4, <1>5, <1>6, <1>7, <1>8, <1>9, <1>10, <1>11 DEF BNext, Engine

\* A backtest is a legal use of the portfolio.
THEOREM BacktestImplementsPortfolio == BSpec => UsesPortfolio
<1>1. BInit => Init /\ Inv1 /\ Clock
  BY Inv1Init, Calendar DEF BInit, Init, Clock
<1>2. Inv1 /\ Clock /\ [BNext]_bvars => [Next]_vars /\ Inv1' /\ Clock'
  BY StepImplements, ClockNext, Inv1Next
<1>3. QED
  BY <1>1, <1>2, PTL DEF BSpec, UsesPortfolio, Spec

\* What is proved of the portfolio therefore holds throughout a backtest.
THEOREM BacktestKeepsPortfolio == BSpec => [](Inv1 /\ Inv2)
BY BacktestImplementsPortfolio, Inv1Holds, Inv2Holds, PTL DEF UsesPortfolio

\* Its books balance, its trade log tells of every leg and none of its orders is
\* lost, over a whole backtest, nights and settlements included.
THEOREM BacktestKeepsBooks == BSpec => [](TradeLogMatchesLegs /\ OrdersConserved /\ BooksBalance)
BY BacktestImplementsPortfolio, TradeLogTellsLegs, NoOrderIsLost, BooksAlwaysBalance, PTL DEF UsesPortfolio

-----------------------------------------------------------------------------
(* The nights.  A held leg outlives no expiry that a session has passed      *)
(* because it was opened on a quote of its session, and only instruments     *)
(* that still trade quote; nothing works overnight because the bell cancels  *)
(* all there is and the strategy runs only between opening and bell.         *)

Session == {"step", "fill", "mark", "rules", "ask", "body", "settle", "cancel"}

Alive(l, d) == Live(leg[l]) => Expiry[leg[l].inst] = 0 \/ Expiry[leg[l].inst] > d

Calendars ==
  /\ date \in Nat /\ last \in Nat /\ last <= date
  /\ date = 0 => pc \in {"body", "load", "done", "failed"}
  /\ date > 0 /\ pc \in Session => last < date

QuotesTrade == date > 0 /\ pc \in Session => \A i \in Instruments : quotes[i] # NoQuote => Trading(i)

SettledBeforeCancel == pc = "cancel" => \A l \in LegIds : Alive(l, date)

Night == /\ Calendars /\ QuotesTrade /\ SettledBeforeCancel
         /\ NothingWorksOvernight
         /\ \A l \in LegIds : Alive(l, last)

\* Nothing comes to be held but by a fill.
LEMMA OnlyFillsOpen ==
  ASSUME Inv1, Clock, [BNext]_bvars, ~Fill, NEW l \in LegIds, Live(leg'[l])
  PROVE  Live(leg[l]) /\ leg'[l].inst = leg[l].inst
<1>1. CASE UNCHANGED leg
  BY <1>1
<1>2. ASSUME NEW ps, NEW ls, NEW byRule \in BOOLEAN, Leave(ps, ls, byRule)
      PROVE  Live(leg[l]) /\ leg'[l].inst = leg[l].inst
  BY <1>2, LeaveEffect DEF Live, Same
<1>3. CASE Mark
  BY <1>3, RefreshMarksEffect DEF Mark, Live, Same
<1>4. CASE Rules
  BY <1>4, <1>2 DEF Rules, ProcessRiskRules
<1>5. CASE EndSession
  BY <1>5, CancelWorkingOrdersEffect DEF EndSession, Live, Same
<1>6. CASE Settle
  <2>1. PICK expiry \in DueExpiries, level \in SettlementLevels : SettleExpiry(expiry, level)
    BY <1>6 DEF Settle
  <2>2. level \in Levels
    BY SettlementParts DEF Inv1
  <2>3. QED
    BY <2>1, <2>2, SettleExpiryEffect DEF Live
<1>7. CASE StrategyCall
  <2>1. CASE \E insts \in LegLists, qty \in Lots : SubmitOpen(insts, qty)
    BY <2>1, SubmitOpenEffect DEF Live
  <2>2. CASE \E p \in PositionIds, m \in RuleMenu : AttachRule(p, m)
    BY <2>2, <1>1 DEF AttachRule
  <2>3. CASE (\E p \in PositionIds : SubmitClose(p)) \/ (\E k \in LegIds : SubmitCloseLeg(k))
    BY <2>3, <1>2 DEF SubmitClose, SubmitCloseLeg
  <2>4. QED
    BY <1>7, <2>1, <2>2, <2>3 DEF StrategyCall, Strategy
<1>8. CASE LoadSession \/ Step \/ RingBell
  BY <1>8, <1>1 DEF LoadSession, Step, RingBell, Observe
<1>9. CASE Gap \/ Finish \/ Resume \/ NotYet \/ BodyEnds \/ StrategyThrows \/ CannotSettle \/ Settled \/ Over
           \/ UNCHANGED bvars
  BY <1>9, <1>1 DEF Gap, Finish, Resume, NotYet, BodyEnds, StrategyThrows, CannotSettle, Settled, Over, bvars, vars
<1>10. QED
  BY <1>3, <1>4, <1>5, <1>6, <1>7, <1>8, <1>9 DEF BNext, Engine

\* And a fill opens a leg on a quote.
LEMMA FillsOpenOnQuotes ==
  ASSUME Inv1, ProcessPending, NEW l \in LegIds, Live(leg'[l])
  PROVE  leg'[l].inst = leg[l].inst /\ (Live(leg[l]) \/ QuoteFor(l) # NoQuote)
<1> DEFINE fills  == {o \in pending : Fillable(o)}
           closes == {o \in fills : o.closing}
<1>1. leg'[l] = IF \E o \in closes : o.leg = l THEN Exited(leg[l], FillPrice(l, TRUE))
                ELSE IF \E o \in fills : o.leg = l THEN Opened(leg[l], FillPrice(l, FALSE))
                ELSE leg[l]
  BY DEF ProcessPending
<1>2. leg[l] \in Leg
  BY TypeParts DEF Inv1
<1>3. \A o \in fills : o.leg = l => QuoteFor(l) # NoQuote
  BY DEF Fillable
<1>4. \A o \in closes : o \in fills
  OBVIOUS
<1>5. Opened(leg[l], FillPrice(l, FALSE)).inst = leg[l].inst
      /\ Exited(leg[l], FillPrice(l, TRUE)).inst = leg[l].inst
  BY <1>2 DEF Opened, Exited, Leg
<1> HIDE DEF fills, closes
<1>6. QED
  BY <1>1, <1>3, <1>4, <1>5

LEMMA CalendarsNext ==
  ASSUME Calendars, [BNext]_bvars
  PROVE  Calendars' /\ (last' = last \/ (EndSession /\ last' = date))
<1>1. CASE LoadSession
  BY <1>1 DEF LoadSession, Go, Calendars, Session
<1>2. CASE Gap
  BY <1>2 DEF Gap, Go, Calendars, Session
<1>3. CASE Finish \/ Step \/ Fill \/ Mark \/ Rules \/ Resume \/ NotYet \/ StrategyCall \/ StrategyThrows
           \/ RingBell \/ Settle \/ CannotSettle \/ Settled \/ Over \/ UNCHANGED bvars
  BY <1>3 DEF Finish, Step, Fill, Mark, Rules, Resume, NotYet, StrategyCall, StrategyThrows, RingBell,
              Settle, CannotSettle, Settled, Over, bvars, loop, Go, Calendars, Session
<1>4. CASE BodyEnds
  BY <1>4 DEF BodyEnds, AfterBody, Go, Calendars, Session
<1>5. CASE EndSession
  BY <1>5 DEF EndSession, Go, Calendars, Session
<1>6. QED
  BY <1>1, <1>2, <1>3, <1>4, <1>5 DEF BNext, Engine

LEMMA QuotesTradeNext ==
  ASSUME Inv1, Calendars, QuotesTrade, [BNext]_bvars
  PROVE  QuotesTrade'
<1>1. CASE LoadSession
  BY <1>1 DEF LoadSession, Observe, QuotesTrade
<1>2. CASE Step
  <2>1. PICK n \in 1 .. DayLength, s \in SUBSET {i \in Instruments : Trading(i)} :
          \E q \in [s -> Quotes] :
            Observe(Tick(date, n), [i \in Instruments |-> IF i \in s THEN q[i] ELSE quotes[i]])
    BY <1>2 DEF Step
  <2>2. PICK q \in [s -> Quotes] :
          Observe(Tick(date, n), [i \in Instruments |-> IF i \in s THEN q[i] ELSE quotes[i]])
    BY <2>1
  <2>3. \A i \in Instruments : i \in s => Trading(i)
    OBVIOUS
  <2>4. \A i \in Instruments : i \notin s => quotes'[i] = quotes[i]
    BY <2>2 DEF Observe
  <2>5. date' = date /\ pc = "step"
    BY <1>2 DEF Step
  <2>6. QED
    BY <2>3, <2>4, <2>5 DEF QuotesTrade, Trading, Session
<1>3. CASE Gap \/ Finish \/ EndSession \/ StrategyThrows \/ CannotSettle \/ Over
  BY <1>3 DEF Gap, Finish, EndSession, StrategyThrows, CannotSettle, Over, bvars, vars, loop, Go, QuotesTrade, Session,
              Trading
<1>4. CASE BodyEnds
  BY <1>4 DEF BodyEnds, AfterBody, Go, vars, QuotesTrade, Session, Trading
<1>5. CASE Fill \/ Mark \/ Rules \/ Settle \/ RingBell
  <2>1. pc \in Session /\ date' = date /\ quotes' = quotes
    BY <1>5 DEF Fill, Mark, Rules, Settle, RingBell, ProcessPending, RefreshMarks, ProcessRiskRules, Leave,
                SettleExpiry, Observe, loop, Session
  <2>2. QED
    BY <2>1 DEF QuotesTrade, Trading
<1>6. CASE StrategyCall
  <2>1. pc \in Session /\ date' = date /\ quotes' = quotes
    BY <1>6 DEF StrategyCall, Strategy, SubmitOpen, SubmitClose, SubmitCloseLeg, AttachRule, Leave, loop,
                Session
  <2>2. QED
    BY <2>1 DEF QuotesTrade, Trading
<1>7. CASE Resume \/ NotYet \/ Settled \/ UNCHANGED bvars
  <2>1. date' = date /\ quotes' = quotes /\ (pc' \in Session => pc \in Session)
    BY <1>7 DEF Resume, NotYet, Settled, bvars, vars, loop, Session
  <2>2. QED
    BY <2>1 DEF QuotesTrade, Trading
<1>8. QED
  BY <1>1, <1>2, <1>3, <1>4, <1>5, <1>6, <1>7 DEF BNext, Engine

LEMMA NightNext ==
  ASSUME Inv1, Inv1', Clock, Night, [BNext]_bvars
  PROVE  Night'
<1> Expiry \in [Instruments -> Nat] /\ \A l \in LegIds : leg[l].inst \in Instruments
  BY Constants, TypeParts DEF Inv1
<1>1. Calendars' /\ (last' = last \/ (EndSession /\ last' = date))
  BY CalendarsNext DEF Night
<1>2. QuotesTrade'
  BY QuotesTradeNext DEF Night
<1>3. SettledBeforeCancel'
  <2>1. CASE Settled
    <3>1. \A l \in LegIds : Live(leg[l]) => Expiry[leg[l].inst] \notin 1 .. date
      BY <2>1 DEF Settled, DueExpiries
    <3>2. date \in Nat /\ date' = date /\ leg' = leg
      BY <2>1 DEF Settled, loop, vars, Night, Calendars
    <3>3. \A l \in LegIds : Expiry[leg[l].inst] \in Nat
      OBVIOUS
    <3>4. QED
      BY <3>1, <3>2, <3>3 DEF SettledBeforeCancel, Alive
  <2>2. CASE UNCHANGED bvars \/ Over
    BY <2>2 DEF Over, bvars, vars, loop, Night, SettledBeforeCancel, Alive
  <2>3. CASE ~Settled /\ ~UNCHANGED bvars /\ ~Over
    <3>1. pc' # "cancel"
      BY <2>3 DEF BNext, Engine, LoadSession, Gap, Finish, Step, Fill, Mark, Rules, Resume, NotYet, BodyEnds,
                  StrategyThrows, AfterBody, RingBell, Settle, CannotSettle, EndSession, StrategyCall, Go
    <3>2. QED
      BY <3>1 DEF SettledBeforeCancel
  <2>4. QED
    BY <2>1, <2>2, <2>3
<1>4. NothingWorksOvernight'
  <2>1. CASE EndSession
    <3>1. pending' = {}
      BY <2>1 DEF EndSession, CancelWorkingOrders
    <3>2. QED
      BY <3>1 DEF NothingWorksOvernight, Inv1, OneOrderPerWaitingLeg
  <2>2. CASE Gap \/ Over \/ UNCHANGED bvars
    BY <2>2 DEF Gap, Over, bvars, vars, loop, Night, NothingWorksOvernight
  <2>3. CASE BodyEnds
    BY <2>3 DEF BodyEnds, AfterBody, Go, Night, Calendars, NothingWorksOvernight
  <2>4. CASE ~EndSession /\ ~Gap /\ ~Over /\ ~UNCHANGED bvars /\ ~BodyEnds
    <3>1. pc' # "load"
      BY <2>4 DEF BNext, Engine, LoadSession, Finish, Step, Fill, Mark, Rules, Resume, NotYet,
                  RingBell, Settle, CannotSettle, Settled, StrategyCall, StrategyThrows, Go
    <3>2. QED
      BY <3>1 DEF NothingWorksOvernight
  <2>5. QED
    BY <2>1, <2>2, <2>3, <2>4
<1>5. ASSUME NEW l \in LegIds PROVE Alive(l, last)'
  <2>1. CASE Fill
    <3>1. pc = "fill" /\ ProcessPending /\ last' = last
      BY <2>1 DEF Fill, loop
    <3>2. last < date /\ date \in Nat /\ last \in Nat
      BY <3>1 DEF Night, Calendars, Session
    <3>3. ASSUME Live(leg'[l]) PROVE Expiry[leg'[l].inst] = 0 \/ Expiry[leg'[l].inst] > last
      <4>1. leg'[l].inst = leg[l].inst /\ (Live(leg[l]) \/ QuoteFor(l) # NoQuote)
        BY <3>1, <3>3, FillsOpenOnQuotes
      <4>2. CASE Live(leg[l])
        BY <4>1, <4>2 DEF Night, Alive
      <4>3. CASE QuoteFor(l) # NoQuote
        <5>1. Trading(leg[l].inst)
          BY <3>1, <3>2, <4>3 DEF QuoteFor, Night, QuotesTrade, Session
        <5>2. Expiry[leg[l].inst] \in Nat
          OBVIOUS
        <5>3. QED
          BY <3>2, <4>1, <5>1, <5>2 DEF Trading
      <4>4. QED
        BY <4>1, <4>2, <4>3
    <3>4. QED
      BY <3>1, <3>3 DEF Alive
  <2>2. CASE ~Fill
    <3>1. Live(leg'[l]) => Live(leg[l]) /\ leg'[l].inst = leg[l].inst
      BY <2>2, OnlyFillsOpen
    <3>2. CASE last' = last
      BY <3>1, <3>2 DEF Night, Alive
    <3>3. CASE EndSession /\ last' = date
      BY <3>1, <3>3 DEF EndSession, Night, SettledBeforeCancel, Alive
    <3>4. QED
      BY <1>1, <3>2, <3>3
  <2>3. QED
    BY <2>1, <2>2
<1>6. QED
  BY <1>1, <1>2, <1>3, <1>4, <1>5 DEF Night

LEMMA NightHolds == BSpec => []Night
<1>1. BInit => Inv1 /\ Clock /\ Night
  <2> SUFFICES ASSUME BInit PROVE Inv1 /\ Clock /\ Night
    OBVIOUS
  <2>1. Inv1 /\ Clock
    BY Inv1Init, Calendar DEF BInit, Init, Clock
  <2>2. leg = [l \in LegIds |-> Blank] /\ date = 0 /\ last = 0 /\ pc = "body"
    BY DEF BInit, Init
  <2>3. \A l \in LegIds : ~Live(leg[l])
    BY <2>2, BlankType DEF Live
  <2>4. QED
    BY <2>1, <2>2, <2>3 DEF Night, Calendars, QuotesTrade, SettledBeforeCancel, NothingWorksOvernight,
                            Alive, Session
<1>2. Inv1 /\ Clock /\ [BNext]_bvars => Inv1' /\ Clock'
  BY StepImplements, ClockNext, Inv1Next
<1>3. Inv1 /\ Inv1' /\ Clock /\ Night /\ [BNext]_bvars => Night'
  BY NightNext
<1>4. QED
  BY <1>1, <1>2, <1>3, PTL DEF BSpec

\* Between sessions no order works and no leg waits for one.
THEOREM NightsAreQuiet == BSpec => []NothingWorksOvernight
<1>1. Night => NothingWorksOvernight
  BY DEF Night
<1>2. QED
  BY <1>1, NightHolds, PTL

\* No leg is held past a session that reached its expiry.
THEOREM ExpiriesSettle == BSpec => []NothingHeldPastExpiry
<1>1. Night => NothingHeldPastExpiry
  BY DEF Night, NothingHeldPastExpiry, Alive
<1>2. QED
  BY <1>1, NightHolds, PTL

-----------------------------------------------------------------------------
(* Marks.  A leg is opened by a fill at a two-sided quote, which the refresh *)
(* that follows the fill can mark it at; and a mark is never taken away.     *)

MarkedOrQuoting ==
  \A l \in LegIds : Live(leg[l]) =>
    leg[l].mark # NoMark \/ (pc = "mark" /\ QuotedMark(leg[l]) # NoMark)

\* The updates of a leg that leave its mark alone.
LEMMA UpdatesKeepMark ==
  ASSUME NEW lg \in Leg, NEW price, NEW state
  PROVE  /\ InState(lg, state).mark = lg.mark /\ Exiting(lg).mark = lg.mark
         /\ Opened(lg, price).mark = lg.mark /\ Exited(lg, price).mark = lg.mark
         /\ SettledAt(lg, price).mark = lg.mark
BY DEF InState, Exiting, Opened, Exited, SettledAt, Leg

\* A leg that no position uses yet is not held, and neither is one just submitted.
LEMMA SubmittedNotLive ==
  ASSUME Inv1, NEW insts \in LegLists, NEW qty \in Lots, SubmitOpen(insts, qty), NEW l \in LegIds,
         Live(leg'[l])
  PROVE  leg'[l] = leg[l]
BY SubmitOpenEffect DEF Live

\* Whatever is held after any other step than a refresh has the mark it had.
LEMMA MarksKept ==
  ASSUME Inv1, [BNext]_bvars, ~Mark, NEW l \in LegIds, Live(leg'[l])
  PROVE  leg'[l].mark = leg[l].mark
<1>1. leg[l] \in Leg
  BY TypeParts DEF Inv1
<1>2. ASSUME NEW ps, NEW ls, NEW byRule, Leave(ps, ls, byRule) PROVE leg'[l].mark = leg[l].mark
  BY <1>1, <1>2, UpdatesKeepMark DEF Leave
<1>3. CASE Rules
  BY <1>2, <1>3 DEF Rules, ProcessRiskRules
<1>4. CASE EndSession
  BY <1>1, <1>4, UpdatesKeepMark DEF EndSession, CancelWorkingOrders
<1>5. CASE Fill
  BY <1>1, <1>5, UpdatesKeepMark DEF Fill, ProcessPending
<1>6. CASE Settle
  <2>1. PICK expiry \in DueExpiries, level \in SettlementLevels : SettleExpiry(expiry, level)
    BY <1>6 DEF Settle
  <2>2. QED
    BY <2>1, <1>1, UpdatesKeepMark DEF SettleExpiry
<1>7. CASE StrategyCall
  <2>1. CASE \E insts \in LegLists, qty \in Lots : SubmitOpen(insts, qty)
    BY <2>1, SubmittedNotLive
  <2>2. CASE \E p \in PositionIds, m \in RuleMenu : AttachRule(p, m)
    BY <2>2 DEF AttachRule
  <2>3. CASE (\E p \in PositionIds : SubmitClose(p)) \/ (\E k \in LegIds : SubmitCloseLeg(k))
    BY <2>3, <1>2 DEF SubmitClose, SubmitCloseLeg
  <2>4. QED
    BY <1>7, <2>1, <2>2, <2>3 DEF StrategyCall, Strategy
<1>8. CASE LoadSession \/ Step \/ RingBell
  BY <1>8 DEF LoadSession, Step, RingBell, Observe
<1>9. CASE Gap \/ Finish \/ Resume \/ NotYet \/ BodyEnds \/ StrategyThrows \/ CannotSettle \/ Settled \/ Over
           \/ UNCHANGED bvars
  BY <1>9 DEF Gap, Finish, Resume, NotYet, BodyEnds, StrategyThrows, CannotSettle, Settled, Over, bvars, vars
<1>10. QED
  BY <1>3, <1>4, <1>5, <1>6, <1>7, <1>8, <1>9 DEF BNext, Engine

\* What a fill opens can be marked at the quote it filled on.
LEMMA FillsQuote ==
  ASSUME Inv1, ProcessPending, NEW l \in LegIds, Live(leg'[l])
  PROVE  Live(leg[l]) \/ QuotedMark(leg[l])' # NoMark
<1> DEFINE fills  == {o \in pending : Fillable(o)}
           closes == {o \in fills : o.closing}
<1>1. leg'[l] = IF \E o \in closes : o.leg = l THEN Exited(leg[l], FillPrice(l, TRUE))
                ELSE IF \E o \in fills : o.leg = l THEN Opened(leg[l], FillPrice(l, FALSE))
                ELSE leg[l]
  BY DEF ProcessPending
<1>2. leg[l] \in Leg /\ quotes' = quotes
  BY TypeParts DEF Inv1, ProcessPending
<1>3. CASE \E o \in fills : o.leg = l
  <2>1. QuoteFor(l) # NoQuote /\ CanFill(QuoteFor(l))
    BY <1>3 DEF Fillable
  <2>2. QuoteFor(l) \in Quote
    BY <2>1, QuoteType DEF Inv1
  <2>3. leg'[l].inst = leg[l].inst
    BY <1>1, <1>2 DEF Opened, Exited, Leg
  <2>4. QED
    BY <1>2, <2>1, <2>2, <2>3 DEF QuotedMark, QuoteFor, CanFill, Quote, NoMark
<1>4. CASE ~ \E o \in fills : o.leg = l
  BY <1>1, <1>4
<1>5. QED
  BY <1>3, <1>4

LEMMA MarkedNext ==
  ASSUME Inv1, Clock, MarkedOrQuoting, [BNext]_bvars
  PROVE  MarkedOrQuoting'
<1> SUFFICES ASSUME NEW l \in LegIds, Live(leg'[l])
             PROVE  leg'[l].mark # NoMark \/ (pc' = "mark" /\ QuotedMark(leg[l])' # NoMark)
  BY DEF MarkedOrQuoting
<1>1. CASE Fill
  <2>1. pc = "fill" /\ pc' = "mark" /\ ProcessPending /\ ~Mark
    BY <1>1 DEF Fill, Go, Mark
  <2>2. leg'[l].mark = leg[l].mark
    BY <1>1, <2>1, MarksKept DEF BNext, Engine
  <2>3. QED
    BY <2>1, <2>2, FillsQuote DEF MarkedOrQuoting
<1>2. CASE Mark
  <2>1. pc = "mark" /\ leg'[l] = IF Live(leg[l]) /\ QuotedMark(leg[l]) # NoMark
                                 THEN Marked(leg[l], QuotedMark(leg[l])) ELSE leg[l]
    BY <1>2 DEF Mark, RefreshMarks
  <2>2. leg[l] \in Leg
    BY TypeParts DEF Inv1
  <2>3. Live(leg[l])
    BY <1>2, RefreshMarksEffect DEF Mark, Live
  <2>4. Marked(leg[l], QuotedMark(leg[l])).mark = QuotedMark(leg[l])
    BY <2>2 DEF Marked, Leg
  <2>5. QED
    BY <2>1, <2>3, <2>4 DEF MarkedOrQuoting
<1>3. CASE ~Fill /\ ~Mark /\ pc # "mark"
  <2>1. Live(leg[l])
    BY <1>3, OnlyFillsOpen
  <2>2. leg'[l].mark = leg[l].mark
    BY <1>3, MarksKept
  <2>3. QED
    BY <1>3, <2>1, <2>2 DEF MarkedOrQuoting
<1>4. CASE ~Mark /\ pc = "mark"
  <2>1. UNCHANGED bvars
    BY <1>4 DEF BNext, Engine, LoadSession, Gap, Finish, Step, Fill, Rules, Resume, NotYet, BodyEnds,
                StrategyThrows, RingBell, Settle, CannotSettle, Settled, EndSession, StrategyCall, Over
  <2>2. pc' = pc /\ leg' = leg /\ quotes' = quotes
    BY <2>1 DEF bvars, vars
  <2>3. QED
    BY <2>2 DEF MarkedOrQuoting, QuotedMark
<1>5. QED
  BY <1>1, <1>2, <1>3, <1>4

\* Every held leg has a mark whenever a valuation may be read.
THEOREM ValuationsHaveMarks == BSpec => []HeldLegsAreMarked
<1>1. BInit => Inv1 /\ Clock /\ MarkedOrQuoting
  <2> SUFFICES ASSUME BInit PROVE Inv1 /\ Clock /\ MarkedOrQuoting
    OBVIOUS
  <2>1. Inv1 /\ Clock
    BY Inv1Init, Calendar DEF BInit, Init, Clock
  <2>2. leg = [l \in LegIds |-> Blank]
    BY DEF BInit, Init
  <2>3. QED
    BY <2>1, <2>2, BlankType DEF MarkedOrQuoting, Live
<1>2. Inv1 /\ Clock /\ [BNext]_bvars => Inv1' /\ Clock'
  BY StepImplements, ClockNext, Inv1Next
<1>3. Inv1 /\ Clock /\ MarkedOrQuoting /\ [BNext]_bvars => MarkedOrQuoting'
  BY MarkedNext
<1>4. MarkedOrQuoting => HeldLegsAreMarked
  BY DEF MarkedOrQuoting, HeldLegsAreMarked
<1>5. QED
  BY <1>1, <1>2, <1>3, <1>4, PTL DEF BSpec

-----------------------------------------------------------------------------
(* Timing.  The fill pass leaves no order that could fill, and until the next *)
(* observation nothing but decisions touches the orders: they submit at the   *)
(* clock's time, so what they submit was not there before this observation.   *)

Observed == {"mark", "rules", "ask", "body", "step"}

NoneOverdue == pc \in Observed => \A o \in pending : ~Overdue(o)

\* Rules and strategy submit now, and leave the other orders' legs as traded.
LEMMA DecisionsAreNew ==
  ASSUME Inv1, Strategy \/ ProcessRiskRules, NEW o \in pending'
  PROVE  /\ now' = now /\ quotes' = quotes
         /\ o.submitted = now \/ (o \in pending /\ leg'[o.leg].inst = leg[o.leg].inst)
<1> \A d \in pending : d.leg \in LegIds /\ leg[d.leg] \in Leg /\ leg[d.leg].state = Awaiting(d)
  BY TypeParts DEF Inv1, TypeOK, Order, OneOrderPerWaitingLeg
<1>1. ASSUME NEW ps, NEW ls, NEW byRule, Leave(ps, ls, byRule)
      PROVE  /\ now' = now /\ quotes' = quotes
             /\ o.submitted = now \/ (o \in pending /\ leg'[o.leg].inst = leg[o.leg].inst)
  <2>1. o.submitted = now \/ o \in pending
    BY <1>1 DEF Leave, NewOrder
  <2>2. ASSUME o \in pending PROVE leg'[o.leg].inst = leg[o.leg].inst
    <3>1. leg'[o.leg] \in {leg[o.leg], InState(leg[o.leg], "Cancelled"), Exiting(leg[o.leg])}
      BY <1>1, <2>2 DEF Leave
    <3>2. InState(leg[o.leg], "Cancelled").inst = leg[o.leg].inst /\ Exiting(leg[o.leg]).inst = leg[o.leg].inst
      BY <2>2 DEF InState, Exiting, Leg
    <3>3. QED
      BY <3>1, <3>2
  <2>3. QED
    BY <1>1, <2>1, <2>2 DEF Leave
<1>2. ASSUME NEW insts \in LegLists, NEW qty \in Lots, SubmitOpen(insts, qty)
      PROVE  /\ now' = now /\ quotes' = quotes
             /\ o.submitted = now \/ (o \in pending /\ leg'[o.leg].inst = leg[o.leg].inst)
  <2>1. o.submitted = now \/ o \in pending
    BY <1>2 DEF SubmitOpen, NewOrder
  <2>2. ASSUME o \in pending PROVE leg'[o.leg].inst = leg[o.leg].inst
    BY <1>2, <2>2, SubmitOpenEffect DEF Awaiting
  <2>3. QED
    BY <1>2, <2>1, <2>2 DEF SubmitOpen
<1>3. CASE \E p \in PositionIds, m \in RuleMenu : AttachRule(p, m)
  BY <1>3 DEF AttachRule
<1>4. QED
  BY <1>1, <1>2, <1>3 DEF Strategy, SubmitClose, SubmitCloseLeg, ProcessRiskRules

\* What still works after a fill pass could not have filled.
LEMMA FillsLeaveNoneOverdue ==
  ASSUME Inv1, OrdersTimed, ProcessPending, NEW o \in pending'
  PROVE  ~Overdue(o)'
<1>1. o \in pending /\ ~Fillable(o) /\ now' = now /\ quotes' = quotes
  BY DEF ProcessPending
<1>2. o.leg \in LegIds /\ leg[o.leg] \in Leg /\ o.eligible = o.submitted + Delay
  BY <1>1, TypeParts DEF Inv1, TypeOK, Order, OrdersTimed
<1>3. leg'[o.leg].inst = leg[o.leg].inst
  <2>1. leg'[o.leg] \in {leg[o.leg], Exited(leg[o.leg], FillPrice(o.leg, TRUE)),
                        Opened(leg[o.leg], FillPrice(o.leg, FALSE))}
    BY <1>2 DEF ProcessPending
  <2>2. /\ Exited(leg[o.leg], FillPrice(o.leg, TRUE)).inst = leg[o.leg].inst
        /\ Opened(leg[o.leg], FillPrice(o.leg, FALSE)).inst = leg[o.leg].inst
    BY <1>2 DEF Exited, Opened, Leg
  <2>3. QED
    BY <2>1, <2>2
<1>4. QED
  BY <1>1, <1>2, <1>3 DEF Overdue, Fillable, QuoteFor

LEMMA NoneOverdueNext ==
  ASSUME Inv1, Inv2, NoneOverdue, [BNext]_bvars
  PROVE  NoneOverdue'
<1> \A o \in pending : o.leg \in LegIds /\ leg[o.leg] \in Leg /\ leg[o.leg].inst \in Instruments
  BY TypeParts DEF Inv1, TypeOK, Order
<1>1. CASE Fill
  BY <1>1, FillsLeaveNoneOverdue DEF Fill, Inv2, NoneOverdue
<1>2. CASE Mark
  <2>1. pc = "mark" /\ UNCHANGED <<now, quotes, pending>>
        /\ \A o \in pending : leg'[o.leg].inst = leg[o.leg].inst
    BY <1>2, RefreshMarksEffect DEF Mark, RefreshMarks, Same
  <2>2. QED
    BY <2>1 DEF NoneOverdue, Observed, Overdue, QuoteFor
<1>3. CASE Rules \/ StrategyCall
  <2> SUFFICES ASSUME NEW o \in pending' PROVE ~Overdue(o)'
    BY DEF NoneOverdue
  <2>1. pc \in Observed /\ (Strategy \/ ProcessRiskRules)
    BY <1>3 DEF Rules, StrategyCall, Observed
  <2>2. now \in Nat
    BY DEF Inv1, TypeOK
  <2>3. QED
    BY <2>1, <2>2, DecisionsAreNew DEF NoneOverdue, Overdue, QuoteFor
<1>4. CASE LoadSession
  <2>1. pending' = pending /\ leg' = leg /\ quotes' = [i \in Instruments |-> NoQuote]
    BY <1>4 DEF LoadSession, Observe
  <2>2. QED
    BY <2>1 DEF NoneOverdue, Overdue, QuoteFor
<1>5. CASE NotYet \/ Resume \/ BodyEnds \/ Over \/ UNCHANGED bvars
  <2>1. UNCHANGED vars /\ (pc' \in Observed => pc \in Observed)
    BY <1>5 DEF NotYet, Resume, BodyEnds, Over, bvars, Go, Observed
  <2>2. QED
    BY <2>1 DEF vars, NoneOverdue, Overdue, QuoteFor
<1>6. CASE Gap \/ Finish \/ Step \/ StrategyThrows \/ RingBell \/ Settle \/ CannotSettle \/ Settled \/ EndSession
  <2>1. pc' \notin Observed
    BY <1>6 DEF Gap, Finish, Step, StrategyThrows, RingBell, Settle, CannotSettle, Settled, EndSession, Go, Observed
  <2>2. QED
    BY <2>1 DEF NoneOverdue
<1>7. QED
  BY <1>1, <1>2, <1>3, <1>4, <1>5, <1>6 DEF BNext, Engine

\* An order fills at the first observation at which it may, never earlier or later.
THEOREM FillsKeepTime == BSpec => []FillsOnTime
<1>1. BInit => NoneOverdue
  BY DEF BInit, Init, NoneOverdue
<1>2. Inv1 /\ Inv2 /\ NoneOverdue /\ [BNext]_bvars => NoneOverdue'
  BY NoneOverdueNext
<1>3. Inv2 /\ NoneOverdue => FillsOnTime
  BY DEF Inv2, NoneOverdue, Observed, FillsOnTime
<1>4. QED
  BY <1>1, <1>2, <1>3, BacktestKeepsPortfolio, PTL DEF BSpec

-----------------------------------------------------------------------------
(* Protection.  A rule pass leaves no leg held that a rule says to leave: a  *)
(* rule that is due either fires, or an earlier rule that is due has the same *)
(* leg for its target, and the earliest of those fires.                      *)

\* An opening is withdrawn only in a position that is left as a whole.
LEMMA WithdrawnFromLeft ==
  ASSUME Inv1, NEW ps, NEW ls, NEW byRule \in BOOLEAN, Leave(ps, ls, byRule), NEW l \in LegIds,
         leg'[l].state = "Cancelled", leg[l].state # "Cancelled"
  PROVE  l[1] \in ps
<1> DEFINE withdrawn == {o.leg : o \in UnfilledOpenings(ps)}
           exits     == {k \in LegIds : (k[1] \in ps \/ k \in ls) /\ k \notin withdrawn /\ CanExit(leg[k])}
<1>1. leg'[l] = IF l \in withdrawn THEN InState(leg[l], "Cancelled")
                ELSE IF l \in exits THEN Exiting(leg[l]) ELSE leg[l]
  BY DEF Leave
<1>2. leg[l] \in Leg
  BY TypeParts DEF Inv1
<1>3. Exiting(leg[l]).state = "PendingClose"
  BY <1>2, ExitingFacts
<1>4. l \in withdrawn => l[1] \in ps
  BY DEF UnfilledOpenings
<1> HIDE DEF withdrawn, exits
<1>5. QED
  BY <1>1, <1>3, <1>4

\* Leaving values every filled leg as before, whichever rule asks.
LEMMA LeaveKeepsValue ==
  ASSUME Inv1, NEW ps, NEW ls, NEW byRule \in BOOLEAN, Leave(ps, ls, byRule),
         NEW r, r.leg = Whole \/ <<r.position, r.leg>> \in LegIds,
         NEW s, s.leg = r.leg, s.position = r.position
  PROVE  PnlAndRisk(leg, s)' = PnlAndRisk(leg, r)
<1>1. ASSUME NEW l \in LegIds
      PROVE  /\ (leg'[l].state = "Absent") <=> (leg[l].state = "Absent")
             /\ Filled(leg'[l]) <=> Filled(leg[l])
             /\ Filled(leg[l]) => /\ PnlOf(leg[l])' = PnlOf(leg[l])
                                  /\ leg'[l].entry * leg'[l].qty = leg[l].entry * leg[l].qty
  <2>1. leg[l] \in Leg /\ quotes' = quotes
    BY TypeParts DEF Inv1, Leave
  <2>2. CASE leg'[l] = leg[l]
    BY <2>1, <2>2 DEF PnlOf, MarkFor, QuotedMark
  <2>3. CASE leg[l].state = "PendingOpen" /\ leg'[l].state = "Cancelled"
    BY <2>3 DEF Filled, Live
  <2>4. CASE leg[l].state = "Open" /\ leg'[l].state = "PendingClose" /\ Same(l)
    <3>1. leg'[l].mark = leg[l].mark
      BY <2>1, UpdatesKeepMark DEF Leave
    <3>2. QED
      BY <2>1, <2>4, <3>1 DEF Filled, Live, Same, PnlOf, MarkFor, QuotedMark, Gain
  <2>5. QED
    BY <2>2, <2>3, <2>4, LeaveEffect
<1>2. ASSUME NEW p PROVE LegsOf(leg', p) = LegsOf(leg, p)
  BY <1>1 DEF LegsOf
<1> DEFINE of(lf)     == IF r.leg = Whole THEN LegsOf(lf, r.position) ELSE {<<r.position, r.leg>>}
           filled(lf) == {l \in of(lf) : Filled(lf[l])}
<1>3. of(leg') = of(leg) /\ of(leg) \subseteq LegIds
  BY <1>2 DEF LegsOf
<1>4. filled(leg') = filled(leg) /\ filled(leg) \subseteq LegIds /\ \A l \in filled(leg) : Filled(leg[l])
  BY <1>1, <1>3
<1>5. [l \in filled(leg) |-> PnlOf(leg[l])'] = [l \in filled(leg) |-> PnlOf(leg[l])]
  BY <1>1, <1>4
<1>6. [l \in filled(leg) |-> leg'[l].entry * leg'[l].qty] = [l \in filled(leg) |-> leg[l].entry * leg[l].qty]
  BY <1>1, <1>4
<1>7. PnlAndRisk(leg, r) = [pnl  |-> SumFunction([l \in filled(leg) |-> PnlOf(leg[l])]),
                       risk |-> Magnitude(SumFunction([l \in filled(leg) |-> leg[l].entry * leg[l].qty]))]
  BY DEF PnlAndRisk
<1>8. PnlAndRisk(leg, s)' = [pnl  |-> SumFunction([l \in filled(leg') |-> PnlOf(leg[l])']),
                        risk |-> Magnitude(SumFunction([l \in filled(leg') |-> leg'[l].entry * leg'[l].qty]))]
  BY DEF PnlAndRisk
<1> HIDE DEF filled
<1>9. QED
  BY <1>4, <1>5, <1>6, <1>7, <1>8

\* So a rule's condition is what it was.
LEMMA LeaveKeepsTriggered ==
  ASSUME Inv1, NEW ps, NEW ls, NEW byRule \in BOOLEAN, Leave(ps, ls, byRule),
         NEW r \in Rule, r.leg = Whole \/ <<r.position, r.leg>> \in LegIds,
         NEW s, s.leg = r.leg, s.position = r.position, s.kind = r.kind, s.pct = r.pct,
         s.deadline = r.deadline
  PROVE  Triggered(leg, s)' <=> Triggered(leg, r)
<1>1. PnlAndRisk(leg, s)' = PnlAndRisk(leg, r) /\ now' = now
  BY LeaveKeepsValue DEF Leave
<1>2. r.kind \in RuleKinds
  BY DEF Rule
<1>3. QED
  BY <1>1, <1>2 DEF Triggered, RuleKinds

\* After a rule pass nothing a rule says to leave is held without an exit working.
LEMMA PassProtects ==
  ASSUME Inv1, Inv2, ProcessRiskRules, NEW i \in DOMAIN rules', NEW s, s = rules'[i],
         NEW l \in Targets(s), leg'[l].state = "Open",
         s.leg = Whole => Established(leg', s.position), Triggered(leg, s)'
  PROVE  FALSE
<1> DEFINE firing == {j \in DOMAIN rules : Fires(j)}
           whole  == {j \in firing : rules[j].leg = Whole}
           ps     == {rules[j].position : j \in whole}
           ls     == {<<rules[j].position, rules[j].leg>> : j \in firing \ whole}
           covers == {j \in DOMAIN rules : Due(rules[j]) /\ l \in Targets(rules[j])}
<1>1. Leave(ps, ls, TRUE)
  BY DEF ProcessRiskRules
<1>2. rules' = [j \in DOMAIN rules |->
                  [rules[j] EXCEPT !.fired = @ \/ Retires(rules[j]) \/ j \in firing]]
  BY DEF ProcessRiskRules
<1>3. i \in DOMAIN rules /\ rules[i] \in Rule
  BY <1>2, RuleParts DEF Inv1
<1>4. s = [rules[i] EXCEPT !.fired = @ \/ Retires(rules[i]) \/ i \in firing]
  BY <1>2, <1>3
<1>5. \A j \in firing : /\ j \in DOMAIN rules
                        /\ rules[j].leg = Whole => rules[j].position \in ps
                        /\ rules[j].leg # Whole => <<rules[j].position, rules[j].leg>> \in ls
  OBVIOUS
<1>6. \A j \in DOMAIN rules : Fires(j) => j \in firing
  OBVIOUS
<1> HIDE DEF firing, whole, ps, ls
<1>7. /\ s.position = rules[i].position /\ s.leg = rules[i].leg
      /\ s.kind = rules[i].kind /\ s.pct = rules[i].pct /\ s.deadline = rules[i].deadline
  BY <1>3, <1>4 DEF Rule
<1>8. l \in Targets(rules[i]) /\ l \in LegIds /\ l[1] = rules[i].position
  BY <1>7 DEF Targets
\* The leg was held before, and it was not asked to leave.
<1>9. leg'[l] = leg[l] /\ leg[l].state = "Open" /\ l[1] \notin ps /\ l \notin ls
  BY <1>1, <1>8, LeaveEffect
<1>10. ~rules[i].fired
  BY <1>3, <1>8, <1>9 DEF Inv2, SpentRuleGuardsNothing
<1>11. ~Retires(rules[i])
  <2>1. l \in LegsOf(leg, rules[i].position)
    BY <1>8, <1>9 DEF LegsOf
  <2>2. IsOpen(leg, rules[i].position)
    BY <1>9, <2>1 DEF IsOpen, Live
  <2>3. HasTarget(rules[i])
    BY <1>8, <2>1 DEF HasTarget, Targets
  <2>4. QED
    BY <2>2, <2>3 DEF Retires
\* Its rule's condition was met before the pass as it is after it.
<1>12. Triggered(leg, rules[i])
  <2>1. rules[i].leg = Whole \/ <<rules[i].position, rules[i].leg>> \in LegIds
    BY <1>8, LegIdParts DEF Targets
  <2>2. QED
    BY <1>1, <1>3, <1>7, <2>1, LeaveKeepsTriggered
<1>13. rules[i].leg = Whole => Established(leg, rules[i].position)
  <2> SUFFICES ASSUME Established(leg', rules[i].position)
               PROVE  Established(leg, rules[i].position)
    BY <1>7
  <2> DEFINE p == rules[i].position
  <2>1. ASSUME NEW k \in LegIds, k[1] = p
        PROVE  /\ leg'[k].state = "Absent" <=> leg[k].state = "Absent"
               /\ leg'[k].state = "Cancelled" <=> leg[k].state = "Cancelled"
               /\ Filled(leg'[k]) <=> Filled(leg[k])
    <3>1. k[1] \notin ps
      BY <1>8, <1>9, <2>1
    <3>2. ~(leg[k].state = "PendingOpen" /\ leg'[k].state = "Cancelled")
      BY <1>1, <3>1, WithdrawnFromLeft
    <3>3. leg'[k] = leg[k] \/ (leg[k].state = "Open" /\ leg'[k].state = "PendingClose")
      BY <1>1, <3>2, LeaveEffect
    <3>4. QED
      BY <3>3 DEF Filled, Live
  <2>2. QED
    BY <2>1 DEF Established, LegsOf
<1>14. i \in covers
  BY <1>3, <1>8, <1>9, <1>10, <1>11, <1>12, <1>13 DEF Due
<1>15. PICK j \in covers : \A k \in covers : ~(k < j)
  <2>1. DOMAIN rules \subseteq Nat
    BY DEF Inv1, TypeOK
  <2>2. covers \subseteq Nat /\ covers # {}
    BY <1>14, <2>1
  <2>3. QED
    BY <2>2, LeastNatural
<1>16. j \in DOMAIN rules /\ Due(rules[j]) /\ l \in Targets(rules[j]) /\ l = <<l[1], l[2]>>
       /\ l[1] = rules[j].position /\ rules[j].leg \in {Whole, l[2]}
  BY LegIdParts DEF Targets
<1>17. Fires(j)
  <2> SUFFICES ASSUME rules[j].leg # Whole, NEW k \in 1 .. j - 1, Due(rules[k]),
                      Targets(rules[j]) \subseteq Targets(rules[k])
               PROVE  FALSE
    BY <1>16 DEF Fires
  <2>1. rules \in Seq(Rule) /\ j \in 1 .. Len(rules)
    BY <1>16 DEF Inv1, TypeOK
  <2>2. k \in DOMAIN rules /\ k < j
    BY <2>1
  <2>3. QED
    BY <1>15, <1>16, <2>2
<1>18. QED
  BY <1>5, <1>6, <1>9, <1>16, <1>17

\* Between rule passes the loop asks again only after a resume, which it counted.
ResumesCounted == guard \in Nat /\ (pc = "body" /\ date > 0 => guard > 0)

LEMMA ResumesCountedNext ==
  ASSUME ResumesCounted, [BNext]_bvars
  PROVE  ResumesCounted'
<1>1. CASE Rules \/ Resume
  BY <1>1 DEF Rules, Resume, Go, ResumesCounted
<1>2. CASE StrategyCall \/ Over \/ UNCHANGED bvars
  BY <1>2 DEF StrategyCall, Over, bvars, loop, ResumesCounted
<1>3. CASE LoadSession \/ Gap \/ Finish \/ Step \/ Fill \/ Mark \/ NotYet \/ StrategyThrows \/ RingBell
           \/ Settle \/ CannotSettle \/ Settled \/ EndSession \/ BodyEnds
  <2>1. guard' = guard /\ pc' # "body"
    BY <1>3 DEF LoadSession, Gap, Finish, Step, Fill, Mark, NotYet, StrategyThrows, RingBell, Settle,
                CannotSettle, Settled, EndSession, BodyEnds, AfterBody, Go, loop
  <2>2. QED
    BY <2>1 DEF ResumesCounted
<1>4. QED
  BY <1>1, <1>2, <1>3 DEF BNext, Engine

LEMMA ProtectedNext ==
  ASSUME Inv1, Inv2, Night, ResumesCounted, EstablishedPositionsProtected, [BNext]_bvars
  PROVE  EstablishedPositionsProtected'
<1>1. CASE Rules
  <2> SUFFICES ASSUME NEW i \in DOMAIN rules', NEW s, s = rules'[i], NEW l \in Targets(s),
                      leg'[l].state = "Open",
                      s.leg = Whole => Established(leg', s.position), Triggered(leg, s)'
               PROVE  FALSE
    BY DEF EstablishedPositionsProtected, Targets, Triggered, PnlAndRisk
  <2>1. QED
    BY <1>1, PassProtects DEF Rules
<1>2. CASE BodyEnds
  <2>1. pc' # "ask" \/ guard' # 0
    BY <1>2 DEF BodyEnds, AfterBody, Go, ResumesCounted, Night, Calendars
  <2>2. QED
    BY <2>1 DEF EstablishedPositionsProtected
<1>3. CASE Over \/ UNCHANGED bvars
  <2>1. UNCHANGED <<now, quotes, leg, rules, pc, guard>>
    BY <1>3 DEF Over, bvars, vars, loop
  <2>2. ASSUME NEW r PROVE Triggered(leg, r)' <=> Triggered(leg, r)
    BY <2>1 DEF Triggered, PnlAndRisk, PnlOf, MarkFor, QuotedMark, LegsOf
  <2>3. QED
    <3> SUFFICES ASSUME pc = "ask", guard = 0, NEW i \in DOMAIN rules, NEW l \in Targets(rules[i]),
                        leg[l].state = "Open",
                        rules[i].leg = Whole => Established(leg, rules[i].position),
                        Triggered(leg, rules[i])'
                 PROVE  FALSE
      BY <2>1 DEF EstablishedPositionsProtected, Targets
    <3>1. PICK r : r = rules[i]
      OBVIOUS
    <3>2. Triggered(leg, r)' <=> Triggered(leg, rules[i])'
      BY <2>1, <3>1 DEF Triggered, PnlAndRisk
    <3>3. QED
      BY <2>2, <3>1, <3>2 DEF EstablishedPositionsProtected
<1>4. CASE ~Rules /\ ~BodyEnds /\ ~Over /\ ~UNCHANGED bvars
  <2>1. pc' # "ask"
    BY <1>4 DEF BNext, Engine, LoadSession, Gap, Finish, Step, Fill, Mark, Resume, NotYet, StrategyThrows,
                RingBell, Settle, CannotSettle, Settled, EndSession, StrategyCall, Go
  <2>2. QED
    BY <2>1 DEF EstablishedPositionsProtected
<1>5. QED
  BY <1>1, <1>2, <1>3, <1>4

\* Once an observation has been processed, no held leg of an established position
\* is past a rule that covers it without an exit working.
THEOREM PositionsProtected == BSpec => []EstablishedPositionsProtected
<1>1. BInit => ResumesCounted /\ EstablishedPositionsProtected
  BY DEF BInit, Init, ResumesCounted, EstablishedPositionsProtected
<1>2. ResumesCounted /\ [BNext]_bvars => ResumesCounted'
  BY ResumesCountedNext
<1>3. Inv1 /\ Inv2 /\ Night /\ ResumesCounted /\ EstablishedPositionsProtected /\ [BNext]_bvars
        => EstablishedPositionsProtected'
  BY ProtectedNext
<1>4. QED
  BY <1>1, <1>2, <1>3, BacktestKeepsPortfolio, NightHolds, PTL DEF BSpec
=============================================================================
