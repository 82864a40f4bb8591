----------------------------- MODULE MCBacktest -----------------------------
(* Values for Backtest's constants.                                         *)
EXTENDS Backtest, TLC

CONSTANTS i1, i2

\* i1 is a call expiring on the second date; i2 is no option, and may be the spot.
MCExpiry == i1 :> 2 @@ i2 :> 0
MCStrike == i1 :> 3 @@ i2 :> 0
MCRight  == i1 :> "Call" @@ i2 :> "Call"

\* A market, and a book with no offer, which fills no exit of a short but still
\* marks it, at a profit.
Tight    == [bid |-> 2, ask |-> 3, last |-> 2]
NoOffer  == [bid |-> 2, ask |-> 0, last |-> 1]
MCQuotes == {Tight, NoOffer}

MCLevels == {1, 2, 4}
MCForwards == {4}

MCCall   == {<<i1>>}
MCPair   == {<<i1, i2>>}
MCSell   == {-1}

Item(kind, l, pct, deadline) == [kind |-> kind, leg |-> l, pct |-> pct, deadline |-> deadline]
ExitWhole == Item("ExitAt", Whole, 0, 2)
TakeWhole == Item("TakeProfit", Whole, 40, 0)
MCExit    == {ExitWhole}
MCRules   == {ExitWhole, TakeWhole}
=============================================================================
