----------------------------- MODULE SessionLoop -----------------------------
(***************************************************************************)
(* run_session: one session over a portfolio of its own, and the coroutine *)
(* it resumes.                                                             *)
(*                                                                         *)
(* The loop makes the same steps as the backtest's, one action each, but   *)
(* it never records a mark, and nothing settles or is cancelled at the     *)
(* end: what still works or is held is reported.  Here the strategy's      *)
(* condition is part of the state: a strategy awaits a set of alternatives, *)
(* evaluated over the portfolio and the quotes of each observation.  The   *)
(* default condition, which is never evaluated, and a condition that never *)
(* holds are both the empty set.                                           *)
(*                                                                         *)
(* A strategy written in Python is driven by a coroutine that awaits each  *)
(* condition it yields, so its steps are those of Awaits, Returns and      *)
(* Throws.  Left out: the margin samples and the counters of the result,   *)
(* which only read, and the conditions over prices and bars (Bars).        *)
(***************************************************************************)
EXTENDS Portfolio

CONSTANTS
  CondMenu,       \* what a strategy may await, each a set of alternatives
  MaxWakes        \* max_resumes_per_step

CondKinds == {"At", "PnlAtMost", "PnlAtLeast", "Closed"}
Cond      == [kind : CondKinds, position : Nat, pct : Int, at : Nat]

ASSUME SessionAssumption == CondMenu \subseteq SUBSET Cond /\ MaxWakes \in Nat

VARIABLES
  pc,         \* where the loop is
  cond,       \* what the suspended strategy awaits: any of these
  guard,      \* resumes since this observation
  finished    \* the strategy has returned

svars == <<vars, pc, cond, guard, finished>>

Go(phase) == pc' = phase

\* task.done() is false and the strategy function is yet to produce a task.
SInit ==
  /\ Init
  /\ pc = "enter" /\ cond = {} /\ guard = 0 /\ finished = FALSE

-----------------------------------------------------------------------------
(* What is awaited.                                                         *)

IsClosed(p) == Established(leg, p) /\ ~IsOpen(leg, p)

\* pnl_pct against a percentage; with no premium at risk the fraction is zero.
AtMost(v, pct)  == IF v.risk = 0 THEN 0 <= pct ELSE 100 * v.pnl <= pct * v.risk
AtLeast(v, pct) == IF v.risk = 0 THEN 0 >= pct ELSE 100 * v.pnl >= pct * v.risk

PositionPnl(p) == PnlAndRisk(leg, [position |-> p, leg |-> Whole])

Holds(c) ==
  CASE c.kind = "At"         -> now >= c.at
    [] c.kind = "PnlAtMost"  -> /\ Established(leg, c.position)
                                /\ AtMost(PositionPnl(c.position), c.pct)
    [] c.kind = "PnlAtLeast" -> /\ Established(leg, c.position)
                                /\ AtLeast(PositionPnl(c.position), c.pct)
    [] c.kind = "Closed"     -> IsClosed(c.position)

Awake == \E c \in cond : Holds(c)

\* What the strategy can name: times, and conditions of positions it has.
Nameable == {cs \in CondMenu : \A c \in cs : c.kind = "At" \/ c.position < size}

-----------------------------------------------------------------------------
(* The loop.                                                                *)

\* The strategy is resumed once before any data.
Enter == pc = "enter" /\ Go("body") /\ UNCHANGED <<vars, cond, guard, finished>>

\* The factory threw, produced no task, or was not a coroutine.
EnterFails == pc = "enter" /\ Go("failed") /\ UNCHANGED <<vars, cond, guard, finished>>

StepAgain_Bug ==
  /\ pc = "step"
  /\ \E t \in now .. MaxTime, q \in [Instruments -> Quotes] : Observe(t, q)
  /\ Go("fill") /\ UNCHANGED <<cond, guard, finished>>

StepBack_Bug ==
  /\ pc = "step"
  /\ now' \in 1 .. MaxTime
  /\ quotes' \in [Instruments -> Quotes]
  /\ UNCHANGED <<size, leg, pending, rules, money, cancelled, left>>
  /\ Go("fill") /\ UNCHANGED <<cond, guard, finished>>

\* The next distinct timestamp: at least one instrument prints.
Step ==
  /\ pc = "step"
  /\ \E t \in now + 1 .. MaxTime, s \in SUBSET Instruments :
       /\ s # {}
       /\ \E q \in [s -> Quotes] :
            Observe(t, [i \in Instruments |-> IF i \in s THEN q[i] ELSE quotes[i]])
  /\ Go("fill") /\ UNCHANGED <<cond, guard, finished>>

Fill ==
  /\ pc = "fill" /\ ProcessPending
  /\ Go("rules") /\ UNCHANGED <<cond, guard, finished>>

Rules ==
  /\ pc = "rules" /\ ProcessRiskRules
  /\ guard' = 0
  /\ Go("ask") /\ UNCHANGED <<cond, finished>>

Resume_Bug ==
  /\ pc = "ask" /\ ~finished /\ Awake
  /\ cond' = {}
  /\ Go("body") /\ UNCHANGED <<vars, guard, finished>>

\* task.resume() forgets the condition before the coroutine runs on.
Resume ==
  /\ pc = "ask" /\ ~finished /\ Awake
  /\ guard' = guard + 1
  /\ cond' = {}
  /\ Go("body") /\ UNCHANGED <<vars, finished>>

NotYet ==
  /\ pc = "ask" /\ (finished \/ ~Awake)
  /\ Go("step") /\ UNCHANGED <<vars, cond, guard, finished>>

\* The data are over and the result is read off the portfolio.
SessionOver ==
  /\ pc = "step"
  /\ Go("done") /\ UNCHANGED <<vars, cond, guard, finished>>

Over == pc \in {"done", "failed"} /\ UNCHANGED svars

-----------------------------------------------------------------------------
(* The strategy, between two awaits.                                        *)

StrategyCall == pc = "body" /\ Strategy /\ UNCHANGED <<pc, cond, guard, finished>>

AfterBody_Bug == IF now = 0 \/ guard = 1 THEN "step" ELSE IF guard > MaxWakes THEN "failed" ELSE "ask"

\* Back to run_session: to the data after the first resume, else to the condition
\* just awaited, unless the strategy was resumed too often at this timestamp.
AfterBody == IF now = 0 THEN "step" ELSE IF guard > MaxWakes THEN "failed" ELSE "ask"

Awaits ==
  /\ pc = "body"
  /\ cond' \in Nameable
  /\ Go(AfterBody) /\ UNCHANGED <<vars, guard, finished>>

Returns ==
  /\ pc = "body"
  /\ finished' = TRUE
  /\ Go(AfterBody) /\ UNCHANGED <<vars, cond, guard>>

\* An exception, or in Python an await of anything but a condition.
Throws == pc = "body" /\ Go("failed") /\ UNCHANGED <<vars, cond, guard, finished>>

-----------------------------------------------------------------------------
Engine ==
  \/ Enter \/ EnterFails \/ Step \/ Fill \/ Rules \/ Resume \/ NotYet \/ SessionOver
  \/ Awaits \/ Returns \/ Throws

SNext == Engine \/ StrategyCall \/ Over

\* As in Backtest: the loop runs on, and a resumed strategy reaches its next await.
SSpec == SInit /\ [][SNext]_svars /\ WF_svars(Engine)

-----------------------------------------------------------------------------
(* Properties.                                                              *)

\* run_session too uses the portfolio as its interface allows.
SessionUsesPortfolio == Spec

\* event_loop.hpp: an order cannot execute against the observation that triggered
\* it, with no execution delay configured either, because the fill pass of a
\* timestamp is over before a rule or the strategy can submit at it.
DecidedBeforeFilled == \A t \in trades : t.fill > t.signal

\* The loop never goes on to the next timestamp while what the strategy awaits
\* holds at this one, however often it was resumed here already: a time, a fill,
\* a stop or a close is not met one observation late.
NotLeftWaiting == pc = "step" /\ now > 0 /\ ~finished => ~Awake

\* A position asked to leave whose orders have all come to an end is closed() to
\* a strategy that awaits it, the legs that never opened notwithstanding; unless
\* no leg ever opened: then it is neither open nor closed, and closed() never holds.
LeftPositionsClose ==
  \A p \in left : (\A o \in pending : o.leg[1] # p) =>
    \/ IsClosed(p)
    \/ ~IsOpen(leg, p) /\ \A l \in LegsOf(leg, p) : leg[l].state = "Cancelled"

\* A session ends, however long the strategy keeps its condition true.
SessionEnds == <>(pc \in {"done", "failed"})

\* portfolio.hpp: the loop records a fresh mark, once per observation, for every
\* open leg that is quoting.
MarksAreFresh ==
  pc = "ask" => \A l \in LegIds :
    Live(leg[l]) /\ QuotedMark(leg[l]) # NoMark => leg[l].mark = QuotedMark(leg[l])
=============================================================================
