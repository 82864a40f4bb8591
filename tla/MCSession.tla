------------------------------ MODULE MCSession ------------------------------
(* Values for the constants of SessionLoop.                                 *)
EXTENDS SessionLoop, RiskRulePass, TLC

CONSTANTS i1, i2

MCExpiry == i1 :> 2 @@ i2 :> 0
MCStrike == i1 :> 3 @@ i2 :> 0
MCRight  == i1 :> "Call" @@ i2 :> "Call"

\* A market, and a book with no offer and no trade: neither fills nor marks a short.
Tight    == [bid |-> 2, ask |-> 3, last |-> 2]
Bare     == [bid |-> 2, ask |-> 0, last |-> 0]
MCQuotes == {Tight, Bare}

MCNoLevels == {}
MCPair     == {<<i1, i2>>}
MCSell     == {-1}

\* A rule on the first leg, one on the position, one on a leg it does not have.
Item(kind, l, pct, deadline) == [kind |-> kind, leg |-> l, pct |-> pct, deadline |-> deadline]
MCRules == {Item("StopLoss", 1, 50, 0), Item("ExitAt", Whole, 0, 2), Item("ExitAt", 3, 0, 1)}

Await(kind, pct, at) == [kind |-> kind, position |-> 0, pct |-> pct, at |-> at]
MCConds == {{}, {Await("Closed", 0, 0), Await("At", 0, 2)}, {Await("PnlAtMost", -25, 0)},
            {Await("PnlAtLeast", 0, 0)}}
=============================================================================
