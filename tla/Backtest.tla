------------------------------ MODULE Backtest ------------------------------
(***************************************************************************)
(* run_backtest: sessions replayed one after the other over one portfolio, *)
(* one clock and one strategy.                                             *)
(*                                                                         *)
(* Every step of the loop is one action, in the order the loop makes them: *)
(* the clock moves to an observation, orders fill, marks refresh, risk     *)
(* rules fire, and then the strategy is resumed for as long as what it     *)
(* awaits is true.  A resumed strategy may make any calls before it awaits *)
(* again or returns.  At the end of the data of a day come the bell, the   *)
(* settlement of what expired and the cancelling of day orders.            *)
(*                                                                         *)
(* The market data are the environment: which dates load, when instruments *)
(* print, and what.  Left out: the margin sample and the daily summary,    *)
(* which only read the portfolio, and the condition's own evaluation.      *)
(***************************************************************************)
EXTENDS Portfolio

CONSTANTS
  NumDates,       \* the calendar is the dates 1 .. NumDates
  DayLength,      \* clock ticks of a date
  Bell,           \* the tick at which a date settles
  Spot,           \* the underlying's own instrument, or NoSpot
  NoSpot,
  Forwards,       \* what the parity forward may come to
  OnExpiry,       \* ExpiryHandling: "Settle" or "Forbid"
  MaxResumes      \* max_resumes_per_step

ASSUME CalendarAssumption ==
  /\ {NumDates, DayLength, Bell, MaxResumes} \subseteq Nat
  /\ Bell \in 1 .. DayLength
  /\ NumDates * DayLength <= MaxTime

ASSUME SettlementAssumption ==
  /\ Spot \in Instruments \cup {NoSpot} /\ NoSpot \notin Instruments
  /\ Forwards \subseteq Levels
  /\ {q.last : q \in Quotes} \subseteq Levels \cup {0}
  /\ OnExpiry \in {"Settle", "Forbid"}

VARIABLES
  pc,         \* where the loop is
  date,       \* the date being replayed, 0 before the first
  guard,      \* resumes since this observation
  finished,   \* the strategy has returned
  printed,    \* history: when each instrument last printed this session, 0 if not
  last        \* history: the last session completed, 0 if none

loop  == <<date, guard, finished, printed, last>>
bvars == <<vars, pc, loop>>

Tick(d, n) == (d - 1) * DayLength + n

Go(phase) == pc' = phase

\* The strategy is first resumed before any session is opened, and runs to its
\* first await with the clock at zero and nothing to see.
BInit ==
  /\ Init
  /\ pc = "body" /\ date = 0 /\ guard = 0 /\ finished = FALSE
  /\ printed = [i \in Instruments |-> 0] /\ last = 0

-----------------------------------------------------------------------------
(* A session's data.                                                        *)

\* The session is bound: nothing of it has printed yet.  The clock outlives it.
LoadSession ==
  /\ pc = "load" /\ date < NumDates
  /\ date' = date + 1
  /\ Observe(now, [i \in Instruments |-> NoQuote])
  /\ printed' = [i \in Instruments |-> 0]
  /\ Go("step") /\ UNCHANGED <<guard, finished, last>>

\* A date that does not load is skipped, but the first has to.
Gap ==
  /\ pc = "load" /\ 0 < date /\ date < NumDates
  /\ date' = date + 1
  /\ Go("load") /\ UNCHANGED <<vars, guard, finished, printed, last>>

Finish ==
  /\ pc = "load" /\ date = NumDates
  /\ Go("done") /\ UNCHANGED <<vars, loop>>

Trading(i) == Expiry[i] = 0 \/ Expiry[i] >= date

\* The next distinct timestamp of the day: at least one instrument prints.
Step ==
  /\ pc = "step"
  /\ \E n \in 1 .. DayLength, s \in SUBSET {i \in Instruments : Trading(i)} :
       /\ s # {} /\ Tick(date, n) > now
       /\ \E q \in [s -> Quotes] :
            Observe(Tick(date, n), [i \in Instruments |-> IF i \in s THEN q[i] ELSE quotes[i]])
       /\ printed' = [i \in Instruments |-> IF i \in s THEN Tick(date, n) ELSE printed[i]]
  /\ Go("fill") /\ UNCHANGED <<date, guard, finished, last>>

-----------------------------------------------------------------------------
(* One observation.                                                         *)

Fill == pc = "fill" /\ ProcessPending /\ Go("mark") /\ UNCHANGED loop

Mark_Bug == pc = "mark" /\ Go("rules") /\ UNCHANGED <<vars, loop>>

Mark == pc = "mark" /\ RefreshMarks /\ Go("rules") /\ UNCHANGED loop

Rules_Bug ==
  /\ pc = "rules" /\ guard' = 0 /\ Go("ask") /\ UNCHANGED <<date, finished, printed, last>>
  /\ IF finished THEN UNCHANGED vars ELSE ProcessRiskRules

Rules ==
  /\ pc = "rules" /\ ProcessRiskRules
  /\ guard' = 0
  /\ Go("ask") /\ UNCHANGED <<date, finished, printed, last>>

Resume_Bug ==
  /\ pc = "ask" /\ ~finished
  /\ Go("body") /\ UNCHANGED <<vars, loop>>

\* What the strategy awaits is true.
Resume ==
  /\ pc = "ask" /\ ~finished
  /\ guard' = guard + 1
  /\ Go("body") /\ UNCHANGED <<vars, date, finished, printed, last>>

\* What it awaits is false, or it has returned.
NotYet == pc = "ask" /\ Go("step") /\ UNCHANGED <<vars, loop>>

StrategyCall == pc = "body" /\ Strategy /\ UNCHANGED <<pc, loop>>

\* More than max_resumes_per_step resumes at one timestamp end the run.
AfterBody == IF date = 0 THEN "load" ELSE IF guard > MaxResumes THEN "failed" ELSE "ask"

\* The strategy awaits again, or returns.
BodyEnds ==
  /\ pc = "body"
  /\ finished' \in {finished, TRUE}
  /\ Go(AfterBody)
  /\ UNCHANGED <<vars, date, guard, printed, last>>

\* An exception leaves the coroutine, and the run with it.
StrategyThrows == pc = "body" /\ Go("failed") /\ UNCHANGED <<vars, loop>>

-----------------------------------------------------------------------------
(* The end of a session.                                                    *)

BellTime_Bug == Tick(date, Bell)

\* Data may run past the bell: the clock is never turned back to it.
BellTime == IF Tick(date, Bell) > now THEN Tick(date, Bell) ELSE now

RingBell ==
  /\ pc = "step" /\ now' = BellTime
  /\ Go("settle")
  /\ UNCHANGED <<quotes, size, leg, pending, rules, money, cancelled, left, loop>>

DueExpiries_Bug == {Expiry[leg[l].inst] : l \in {k \in LegIds : Live(leg[k])}} \cap {date}

\* Driven by what is held, so that an expiry on a date that did not load is
\* settled at the next session.
DueExpiries == {Expiry[leg[l].inst] : l \in {k \in LegIds : Live(leg[k])}} \cap 1 .. date

SpotPrint == IF Spot = NoSpot \/ quotes[Spot] = NoQuote THEN 0 ELSE quotes[Spot].last

\* The spot's last print of the session, or else a parity forward if there is one.
SettlementLevels == IF SpotPrint > 0 THEN {SpotPrint} ELSE Forwards

Settle ==
  /\ pc = "settle" /\ DueExpiries # {} /\ OnExpiry = "Settle"
  /\ \E expiry \in DueExpiries, level \in SettlementLevels :
       /\ \A later \in DueExpiries : expiry <= later
       /\ SettleExpiry(expiry, level)
  /\ UNCHANGED <<pc, loop>>

\* Something was held to its expiry under Forbid, or no level can be had for it.
CannotSettle ==
  /\ pc = "settle" /\ DueExpiries # {}
  /\ OnExpiry = "Forbid" \/ SpotPrint = 0
  /\ Go("failed") /\ UNCHANGED <<vars, loop>>

Settled == pc = "settle" /\ DueExpiries = {} /\ Go("cancel") /\ UNCHANGED <<vars, loop>>

EndSession_Bug ==
  /\ pc = "cancel" /\ last' = date
  /\ Go("load") /\ UNCHANGED <<vars, date, guard, finished, printed>>

EndSession ==
  /\ pc = "cancel" /\ CancelWorkingOrders
  /\ last' = date
  /\ Go("load") /\ UNCHANGED <<date, guard, finished, printed>>

\* The run has returned its result or thrown.
Over == pc \in {"done", "failed"} /\ UNCHANGED bvars

-----------------------------------------------------------------------------
Engine ==
  \/ LoadSession \/ Gap \/ Finish \/ Step
  \/ Fill \/ Mark \/ Rules \/ Resume \/ NotYet \/ BodyEnds \/ StrategyThrows
  \/ RingBell \/ Settle \/ CannotSettle \/ Settled \/ EndSession

BNext == Engine \/ StrategyCall \/ Over

BSpec == BInit /\ [][BNext]_bvars

\* The loop runs on its own and a resumed strategy is ordinary code that reaches
\* its next co_await or its end; nothing obliges it to make a call.
FairBSpec == BSpec /\ WF_bvars(Engine)

-----------------------------------------------------------------------------
(* Properties.                                                              *)

\* The loop only ever uses the portfolio as its interface allows, with a clock
\* that never goes back: everything proved of Portfolio holds during a backtest.
UsesPortfolio == Spec

\* Nothing works overnight: between sessions there is no order left, and every leg
\* is held, over, or never was (cancel_working_orders at the bell).
NothingWorksOvernight ==
  pc = "load" /\ last > 0 =>
    /\ pending = {}
    /\ \A l \in LegIds : leg[l].state \notin {"PendingOpen", "PendingClose"}

\* Nothing is held past a session that could settle it, even when the expiry fell
\* on a date that did not load (due_expiries' comparison with today).
NothingHeldPastExpiry ==
  \A l \in LegIds : Live(leg[l]) /\ Expiry[leg[l].inst] # 0 => Expiry[leg[l].inst] > last

\* Whenever something reads a valuation, every held leg has a mark to fall back
\* on when its instrument is quiet or a new session has not reached it.
HeldLegsAreMarked ==
  pc # "mark" => \A l \in LegIds : Live(leg[l]) => leg[l].mark # NoMark

\* When an observation has been processed no held leg is past a stop, a target or
\* a deadline that covers it without an exit working, once its position is
\* established: whatever the strategy awaits or whether it has returned, and even
\* if the rule had fired on an earlier day and its exit was abandoned.
EstablishedPositionsProtected ==
  pc = "ask" /\ guard = 0 =>
    \A i \in DOMAIN rules : \A l \in Targets(rules[i]) :
      ~ /\ leg[l].state = "Open"
        /\ rules[i].leg = Whole => Established(leg, rules[i].position)
        /\ Triggered(leg, rules[i])

\* portfolio.hpp: an order never fills against the observation that triggered it,
\* so the quote it fills at is later than its submission.
FillsAreFresh ==
  [][pc = "fill" => \A o \in pending \ pending' : printed[leg[o.leg].inst] > o.submitted]_bvars

\* An order that had been submitted before this observation, whose delay is over and
\* which has a market, and which still works.
Overdue(o) ==
  /\ o.submitted < now /\ o.submitted + Delay <= now
  /\ QuoteFor(o.leg) # NoQuote /\ CanFill(QuoteFor(o.leg))

\* An order fills at the first observation at which it may, and at no other: not
\* before its delay is over, and not one observation after the one at which its
\* delay was over and its leg had a market (process_pending's eligibility test, and
\* its place before everything else that happens at an observation).
FillsOnTime ==
  /\ DelayRespected
  /\ pc \in {"mark", "rules", "ask", "body", "step"} => ~ \E o \in pending : Overdue(o)

\* A run ends, however long the strategy keeps its condition true.
RunEnds == <>(pc \in {"done", "failed"})
=============================================================================
