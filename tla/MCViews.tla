------------------------------- MODULE MCViews -------------------------------
(***************************************************************************)
(* What a strategy may see, and when: the event cursor, the bars, the      *)
(* chain, the look-ahead check and the strategy's clock.  None of them     *)
(* changes what another keeps, so they are checked one at a time: `turn'   *)
(* says which moves while the others rest in an initial state.             *)
(***************************************************************************)
EXTENDS MCEventCursor, Chain, Lookahead, MCStrategyClock

VARIABLE turn

MCBooks == {[last |-> 1, bid |-> 0, ask |-> 3, qty |-> 1],
            [last |-> 3, bid |-> 1, ask |-> 4, qty |-> 2],
            [last |-> 0, bid |-> 0, ask |-> 0, qty |-> 0]}

Row(ts, bid, ask) == [ts |-> ts, last |-> ask, bid |-> bid, ask |-> ask, qty |-> 1]
Prints(mid) == <<Row(1, mid, mid)>>
Pair(c, p) == [Call |-> c, Put |-> p]
\* Call minus put above or below zero, falling with the strike; a strike two-sided
\* only later, one listed later by its put alone, and one that does not print.
MCHigh(k)   == Pair(Prints(8 - k), Prints(1))
MCLow(k)    == Pair(Prints(1), Prints(k + 1))
MCLater(k)  == Pair(<<Row(1, 0, 6), Row(2, 8 - k, 8 - k)>>, Prints(1))
MCListed    == Pair(<<>>, <<Row(2, 1, 1)>>)
MCSilent    == Pair(<<>>, <<>>)
MCFirst(k)  == {MCHigh(k), MCLow(k), MCSilent}
                 \cup (IF k < 3 THEN {MCLater(k)} ELSE IF k > 4 THEN {MCListed} ELSE {})
MCSecond(k) == IF k = 2 THEN {MCLater(k), MCSilent} ELSE IF k < 4 THEN {MCLater(k)} ELSE {MCSilent}
MCColumns   == <<[k \in 1 .. 6 |-> MCFirst(k)], [k \in 1 .. 6 |-> MCSecond(k)]>>
MCSpots == {<<>>, <<Row(2, 2, 2)>>}
MCDelta == [k \in 1 .. 6 |-> [Call |-> 70 - 10 * k, Put |-> IF k = 2 THEN Unsolved ELSE 10 * k]]

\* The clock at rest: one date, and nothing prints on it.
ClockRests == calendar = {} /\ \A d \in loads : prints[d] = {}

ViewsInit ==
  /\ turn \in {"cursor", "bars", "chain", "check", "clock"}
  /\ Init /\ BarsInit /\ ChainInit /\ LookInit /\ ClockInit
  /\ turn # "clock" => ClockRests

CursorTurn == turn = "cursor" /\ Next /\ UNCHANGED <<turn, tape, cvars, lvars, timeVars>>
BarsTurn   == turn = "bars" /\ Observe /\ UNCHANGED <<turn, vars, cvars, lvars, timeVars>>
ChainTurn  == turn = "chain" /\ ChainNext /\ UNCHANGED <<turn, vars, tape, lvars, timeVars>>
CheckTurn  == turn = "check" /\ LookNext /\ UNCHANGED <<turn, vars, tape, cvars, timeVars>>
ClockTurn  == turn = "clock" /\ ClockNext /\ UNCHANGED <<turn, vars, tape, cvars, lvars>>

ViewsNext == CursorTurn \/ BarsTurn \/ ChainTurn \/ CheckTurn \/ ClockTurn

ViewsSpec == ViewsInit /\ [][ViewsNext]_<<turn, vars, tape, cvars, lvars, timeVars>>
=============================================================================
