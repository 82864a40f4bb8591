----------------------------- MODULE MCPortfolio -----------------------------
(* Values for Portfolio's constants.                                        *)
EXTENDS Portfolio, TLC

CONSTANTS i1, i2

\* i1 is a call, i2 not an option.
MCExpiryMixed == i1 :> 2 @@ i2 :> 0
MCStrike      == i1 :> 3 @@ i2 :> 5
MCRight       == i1 :> "Call" @@ i2 :> "Put"

\* A market whose spread is more than half of its bid.
Market == [bid |-> 2, ask |-> 3, last |-> 2]

MCQuotes   == {Market}
MCLevels   == {2, 4}
MCMixed    == {<<i1, i2>>, <<i1>>}
MCBoth     == {-1, 1}

Item(kind, l, pct, deadline) == [kind |-> kind, leg |-> l, pct |-> pct, deadline |-> deadline]
StopWhole == Item("StopLoss", Whole, 50, 0)
ExitFirst == Item("ExitAt", 1, 0, 1)
MCRules   == {StopWhole, ExitFirst}
=============================================================================
