------------------------------ MODULE Lookahead ------------------------------
(***************************************************************************)
(* check_lookahead: a strategy is run over a session and over the session  *)
(* cut off at some of its times, and the trades up to each cutoff are      *)
(* compared.                                                               *)
(*                                                                         *)
(* The strategy is any: at each observation it decides by what it reads,   *)
(* which may be an observation Horizon later.  `informed' is what it       *)
(* decides when that one is in the session it is run on, `blind' when it   *)
(* is not; the observations before are the same in every run.  A strategy  *)
(* for which the two are equal is causal.  An order fills at the first     *)
(* later observation that has a market, at its price (SessionLoop).        *)
(* Observations are numbered, and the numbers are their times.             *)
(***************************************************************************)
EXTENDS Integers, Sequences, FiniteSets

CONSTANTS
  Prices,            \* what an observation may say, 0 for no market
  Sides,             \* what a strategy may decide, 0 for nothing
  Horizon,           \* how far ahead a strategy that leaks reads
  Cutoffs,           \* cutoffs asked for
  MaxObservations    \* bound: observations of the session

ASSUME LookaheadAssumption ==
  /\ Prices \subseteq Nat
  /\ {Horizon, Cutoffs, MaxObservations} \subseteq Nat /\ Horizon > 0

VARIABLES
  seen,       \* the session: what each observation says
  informed,   \* what the strategy decides at each
  blind,
  stage,      \* "session", "sample", "compare" or "report"
  full,       \* the trades of the whole run
  chosen,     \* the cutoffs
  tested,     \* those tried so far
  clean       \* no difference found

lvars == <<seen, informed, blind, stage, full, chosen, tested, clean>>

-----------------------------------------------------------------------------
(* A run over the first n observations.                                     *)

Decided(n, t) == IF t + Horizon <= n THEN informed[t] ELSE blind[t]

Markets(n, t) == {f \in t + 1 .. n : seen[f] > 0}

Earliest(times) == CHOOSE f \in times : \A g \in times : f <= g

\* The log has its trades in the order of their signals, for orders fill in the
\* order they were submitted, and no two of one signal: it is kept as a set.
TradeLog(n) ==
  LET Fill(t) == Earliest(Markets(n, t))
      trading == {t \in 1 .. n : Decided(n, t) # 0 /\ Markets(n, t) # {}}
  IN  {[signal |-> t, fill |-> Fill(t), side |-> Decided(n, t), price |-> seen[Fill(t)]] : t \in trading}

-----------------------------------------------------------------------------
(* The check.                                                               *)

LookInit ==
  /\ seen = <<>> /\ informed = <<>> /\ blind = <<>>
  /\ stage = "session" /\ full = {}
  /\ chosen = {} /\ tested = {} /\ clean = TRUE

\* The session and the strategy it is checked over.
Grow ==
  /\ stage = "session" /\ Len(seen) < MaxObservations
  /\ \E p \in Prices, a, b \in Sides :
       /\ seen' = Append(seen, p)
       /\ informed' = Append(informed, a) /\ blind' = Append(blind, b)
  /\ UNCHANGED <<stage, full, chosen, tested, clean>>

\* The whole run; a session of a single time leaves nothing to compare.
RunWhole ==
  /\ stage = "session"
  /\ full' = TradeLog(Len(seen))
  /\ stage' = IF Len(seen) < 2 THEN "report" ELSE "sample"
  /\ UNCHANGED <<seen, informed, blind, chosen, tested, clean>>

\* The time of every fill, and the observation before it.
NextToFills == UNION {{trade.fill, trade.fill - 1} \cap DOMAIN seen : trade \in full}

\* Times drawn at random fill up the number asked for, as far as there are any.
Sample ==
  /\ stage = "sample"
  /\ \E drawn \in SUBSET DOMAIN seen :
       LET all == NextToFills \cup drawn
       IN  /\ drawn \cap NextToFills = {}
           /\ drawn # {} => Cardinality(all) <= Cutoffs
           /\ Cardinality(all) >= Cutoffs \/ all = DOMAIN seen
           /\ chosen' = all
  /\ stage' = "compare"
  /\ UNCHANGED <<seen, informed, blind, full, tested, clean>>

Expected_Bug(cutoff) == {trade \in full : trade.signal <= cutoff}

Expected(cutoff) == {trade \in full : trade.fill <= cutoff}

\* One cutoff, in ascending order: the trades are compared, their number and fields.
Compare ==
  /\ stage = "compare" /\ chosen \ tested # {}
  /\ LET cutoff == Earliest(chosen \ tested)
     IN  /\ tested' = tested \cup {cutoff}
         /\ clean' = (clean /\ TradeLog(cutoff) = Expected(cutoff))
  /\ UNCHANGED <<seen, informed, blind, stage, full, chosen>>

Report ==
  /\ stage = "compare" /\ chosen = tested
  /\ stage' = "report"
  /\ UNCHANGED <<seen, informed, blind, full, chosen, tested, clean>>

LookNext == Grow \/ RunWhole \/ Sample \/ Compare \/ Report

LookSpec == LookInit /\ [][LookNext]_lvars

-----------------------------------------------------------------------------
(* Properties.                                                              *)

\* The trades that a look ahead decided, at times it had something to look at.
Leaks ==
  {trade \in full : trade.signal + Horizon <= Len(seen) /\ informed[trade.signal] # blind[trade.signal]}

\* A causal strategy is never reported, whatever the cutoffs: trades that fill
\* after one are not expected of the run cut off there.  A trade decided by an
\* observation later than its own fill always is: the session is cut off at every
\* fill, and there the observation is missing.
VerdictIsRight ==
  stage = "report" =>
    /\ informed = blind => clean
    /\ Len(seen) > 1 /\ (\E trade \in Leaks : trade.fill < trade.signal + Horizon) => ~clean

\* docs/execution-semantics.md: leaks, wherever they are, "all ... change behaviour
\* under truncation": one that decided a trade is reported, here with the session
\* cut off at every time.
LeaksThatTradeAreSeen == stage = "report" /\ chosen = DOMAIN seen /\ Leaks # {} => ~clean
=============================================================================
