--------------------------- MODULE PortfolioProofs ---------------------------
(***************************************************************************)
(* Theorems of the portfolio, for every market, strategy, bound and host.  *)
(* First the life of legs and orders; then the books: the trade log tells  *)
(* each leg's story once, no order is lost or counted twice, and the       *)
(* realised P&L and the costs are what the trades add up to.               *)
(***************************************************************************)
EXTENDS Portfolio, FiniteLemmas

-----------------------------------------------------------------------------
(* Facts about the operators.                                               *)

\* The assumptions on the constants, one by one.
LEMMA Constants ==
  /\ Expiry \in [Instruments -> Nat] /\ Strike \in [Instruments -> Nat]
  /\ Quotes \subseteq Quote /\ NoQuote \notin Quotes /\ Levels \subseteq Nat
  /\ \A s \in LegLists : s \in Seq(Instruments) /\ Len(s) \in LegIndexes
  /\ \A q \in Lots : q \in Int
  /\ RuleMenu \subseteq MenuItem
  /\ Delay \in Nat /\ Fee \in Nat /\ ExerciseFee \in Nat
  /\ MaxPositions \in Nat /\ MaxLegs \in Nat /\ MaxOrders \in Nat /\ MaxRules \in Nat
BY InstrumentsAssumption, MarketAssumption, StrategyAssumption, BoundsAssumption

\* A slot of the leg table is a position and a leg index.
LEMMA LegIdParts == \A l \in LegIds : l[1] \in PositionIds /\ l[2] \in LegIndexes /\ l = <<l[1], l[2]>>
BY DEF LegIds

\* The leg a slot holds before it is submitted.
LEMMA BlankType == Blank \in Leg /\ Blank.state = "Absent"
<1>1. (CHOOSE i \in Instruments : TRUE) \in Instruments
  BY InstrumentsAssumption
<1>2. QED
  BY <1>1 DEF Blank, Leg, LegStates, NoMark

\* What the market shows of a leg is a quote, or nothing.
LEMMA QuoteType ==
  ASSUME TypeOK, NEW l \in LegIds
  PROVE  /\ QuoteFor(l) \in Quotes \cup {NoQuote}
         /\ QuoteFor(l) # NoQuote => QuoteFor(l) \in Quote
BY Constants DEF TypeOK, QuoteFor, Leg

\* A fill has a price.
LEMMA FillPriceType ==
  ASSUME TypeOK, NEW l \in LegIds, QuoteFor(l) # NoQuote, NEW c \in BOOLEAN
  PROVE  FillPrice(l, c) \in Nat
BY QuoteType DEF FillPrice, Quote

\* A mark is a price or the sentinel.
LEMMA QuotedMarkType ==
  ASSUME TypeOK, NEW l \in LegIds
  PROVE  QuotedMark(leg[l]) \in Nat \cup {NoMark}
<1>1. QuoteFor(l) = quotes[leg[l].inst]
  BY DEF QuoteFor
<1>2. CASE quotes[leg[l].inst] = NoQuote
  BY <1>2 DEF QuotedMark
<1>3. CASE quotes[leg[l].inst] # NoQuote
  <2>1. quotes[leg[l].inst] \in Quote
    BY <1>1, <1>3, QuoteType
  <2>2. QED
    BY <2>1, <1>3 DEF QuotedMark, Quote
<1>4. QED
  BY <1>2, <1>3

\* An intrinsic value is a price.
LEMMA IntrinsicType ==
  ASSUME NEW i \in Instruments, NEW level \in Levels
  PROVE  Intrinsic(i, level) \in Nat
BY Constants DEF Intrinsic

\* The ways a leg is changed keep it a leg, and set the state they say.
LEMMA SubmittedFacts ==
  ASSUME NEW inst \in Instruments, NEW qty \in Int
  PROVE  Submitted(inst, qty) \in Leg /\ Submitted(inst, qty).state = "PendingOpen"
BY BlankType DEF Submitted, Leg, LegStates

LEMMA InStateFacts ==
  ASSUME NEW lg \in Leg, NEW state \in LegStates
  PROVE  /\ InState(lg, state) \in Leg /\ InState(lg, state).state = state
         /\ InState(lg, state).inst = lg.inst
BY DEF InState, Leg

LEMMA ExitingFacts ==
  ASSUME NEW lg \in Leg
  PROVE  Exiting(lg) \in Leg /\ Exiting(lg).state = "PendingClose" /\ Exiting(lg).inst = lg.inst
<1> DEFINE mid == [lg EXCEPT !.state = "PendingClose"]
<1>1. mid \in Leg /\ mid.state = "PendingClose" /\ mid.inst = lg.inst
  BY DEF Leg, LegStates
<1>2. Exiting(lg) = [mid EXCEPT !.orders = mid.orders + 1]
  BY DEF Exiting
<1> HIDE DEF mid
<1>3. QED
  BY <1>1, <1>2 DEF Leg

LEMMA TradedFacts ==
  ASSUME NEW lg \in Leg, NEW price \in Nat
  PROVE  /\ Opened(lg, price) \in Leg /\ Opened(lg, price).state = "Open"
         /\ Exited(lg, price) \in Leg /\ Exited(lg, price).state = "Closed"
         /\ SettledAt(lg, price) \in Leg /\ SettledAt(lg, price).state = "Closed"
         /\ Marked(lg, price) \in Leg /\ Marked(lg, price).state = lg.state
BY DEF Opened, Exited, SettledAt, Marked, Leg, LegStates

\* What the type invariant says, part by part.
LEMMA TypeParts ==
  ASSUME TypeOK
  PROVE  /\ now \in Nat /\ size \in Nat /\ size <= MaxPositions
         /\ leg \in [LegIds -> Leg]
         /\ \A l \in LegIds : leg[l] \in Leg /\ leg[l].state \in LegStates /\ leg[l].inst \in Instruments
         /\ \A o \in pending : /\ o \in Order /\ o.leg \in LegIds /\ o.closing \in BOOLEAN
         /\ \A p \in left : p \in Nat /\ p < size
         /\ \A l \in LegIds : leg[l].state # "Absent" => l[1] < size
<1>1. /\ now \in Nat /\ size \in 0 .. MaxPositions /\ leg \in [LegIds -> Leg]
      /\ pending \subseteq Order /\ left \subseteq 0 .. size - 1
      /\ \A l \in LegIds : l[1] >= size => leg[l].state = "Absent"
  BY DEF TypeOK
<1>2. size \in Nat /\ size <= MaxPositions
  BY <1>1, Constants
<1>3. \A l \in LegIds : leg[l] \in Leg /\ leg[l].state \in LegStates /\ leg[l].inst \in Instruments
  BY <1>1 DEF Leg
<1>4. \A o \in pending : o \in Order /\ o.leg \in LegIds /\ o.closing \in BOOLEAN
  BY <1>1 DEF Order
<1>5. \A p \in left : p \in Nat /\ p < size
  BY <1>1, <1>2
<1>6. \A l \in LegIds : leg[l].state # "Absent" => l[1] < size
  BY <1>1, <1>2, LegIdParts DEF PositionIds
<1>7. QED
  BY <1>1, <1>2, <1>3, <1>4, <1>5, <1>6

LEMMA RuleParts ==
  ASSUME TypeOK, NEW i \in DOMAIN rules
  PROVE  /\ rules[i] \in Rule /\ rules[i].position \in Nat /\ rules[i].position < size
         /\ rules[i].leg \in Nat /\ rules[i].fired \in BOOLEAN
<1>1. rules \in Seq(Rule) /\ rules[i].position < size
  BY DEF TypeOK
<1>2. rules[i] \in Rule
  BY <1>1
<1>3. QED
  BY <1>1, <1>2 DEF Rule

\* A change of the working set keeps one order per waiting leg when the orders
\* that stay keep their legs as they were, and the new ones are each for a leg
\* that had none.
LEMMA OrdersReplaced ==
  ASSUME OneOrderPerWaitingLeg, NEW kept, NEW new,
         pending' = kept \cup new, kept \subseteq pending,
         \A o \in kept : leg'[o.leg].state = leg[o.leg].state,
         \A o \in new : leg'[o.leg].state = Awaiting(o),
         \A o1 \in new, o2 \in kept : o1.leg # o2.leg,
         \A o1, o2 \in new : o1.leg = o2.leg => o1 = o2,
         \A l \in LegIds : leg'[l].state \in {"PendingOpen", "PendingClose"}
                             => \E o \in kept \cup new : o.leg = l
  PROVE  OneOrderPerWaitingLeg'
<1>1. \A o \in pending' : leg'[o.leg].state = Awaiting(o)
  BY DEF OneOrderPerWaitingLeg
<1>2. \A o1, o2 \in pending' : o1.leg = o2.leg => o1 = o2
  BY DEF OneOrderPerWaitingLeg
<1>3. QED
  BY <1>1, <1>2 DEF OneOrderPerWaitingLeg, Awaiting

LEMMA OrdersRemoved ==
  ASSUME OneOrderPerWaitingLeg, NEW kept, pending' = kept, kept \subseteq pending,
         \A o \in kept : leg'[o.leg].state = leg[o.leg].state,
         \A l \in LegIds : leg'[l].state \in {"PendingOpen", "PendingClose"}
                             => \E o \in kept : o.leg = l
  PROVE  OneOrderPerWaitingLeg'
<1>1. \A o \in pending' : leg'[o.leg].state = Awaiting(o)
  BY DEF OneOrderPerWaitingLeg
<1>2. \A o1, o2 \in pending' : o1.leg = o2.leg => o1 = o2
  BY DEF OneOrderPerWaitingLeg
<1>3. QED
  BY <1>1, <1>2 DEF OneOrderPerWaitingLeg, Awaiting

-----------------------------------------------------------------------------
(* Types, and one order per waiting leg.  Neither is inductive alone: a     *)
(* fill gives its leg a price because the leg it works for exists, and an   *)
(* order works for its leg alone because both have their types.             *)

Inv1 == TypeOK /\ OneOrderPerWaitingLeg

\* The parts of Inv1 an action changes when it only touches legs and orders.
LEMMA OnlyLegsAndOrders ==
  ASSUME TypeOK, UNCHANGED <<now, quotes, size, rules>>,
         leg' \in [LegIds -> Leg], pending' \subseteq Order, trades' \subseteq Trade,
         left' \subseteq 0 .. size - 1,
         \A l \in LegIds : l[1] >= size => leg'[l].state = "Absent"
  PROVE  TypeOK'
BY DEF TypeOK

LEMMA Inv1Init == Init => Inv1
<1> SUFFICES ASSUME Init PROVE Inv1
  OBVIOUS
<1>1. size \in 0 .. MaxPositions
  BY Constants DEF Init
<1>2. leg \in [LegIds -> Leg] /\ \A l \in LegIds : leg[l].state = "Absent"
  BY BlankType DEF Init
<1>3. TypeOK
  BY <1>1, <1>2 DEF Init, TypeOK
<1>4. OneOrderPerWaitingLeg
  BY <1>2 DEF Init, OneOrderPerWaitingLeg
<1>5. QED
  BY <1>3, <1>4 DEF Inv1

LEMMA Inv1SubmitOpen ==
  ASSUME Inv1, NEW insts \in LegLists, NEW qty \in Lots, SubmitOpen(insts, qty)
  PROVE  Inv1'
<1> DEFINE slots == {l \in LegIds : l[1] = size /\ l[2] <= Len(insts)}
<1>1. size < MaxPositions /\ size' = size + 1
  BY DEF SubmitOpen
<1>2. leg' = [l \in LegIds |-> IF l \in slots THEN Submitted(insts[l[2]], qty) ELSE leg[l]]
  BY DEF SubmitOpen
<1>3. pending' = pending \cup {NewOrder(l, 0, FALSE, FALSE) : l \in slots}
  BY DEF SubmitOpen
<1>4. UNCHANGED <<now, quotes, rules, trades, left>>
  BY DEF SubmitOpen, money
<1>5. size \in 0 .. MaxPositions /\ MaxPositions \in Nat /\ MaxLegs \in Nat
  BY Constants DEF Inv1, TypeOK
<1>6. size' \in 0 .. MaxPositions /\ size \in Nat /\ size' > size
  BY <1>1, <1>5
<1>7. ASSUME NEW l \in slots
      PROVE  Submitted(insts[l[2]], qty) \in Leg /\ Submitted(insts[l[2]], qty).state = "PendingOpen"
  <2>1. insts \in Seq(Instruments) /\ Len(insts) \in Nat /\ qty \in Int
    BY Constants, <1>5 DEF LegIndexes
  <2>2. l[2] \in 1 .. Len(insts)
    BY <2>1, <1>5, LegIdParts DEF LegIndexes
  <2>3. insts[l[2]] \in Instruments
    BY <2>1, <2>2
  <2>4. QED
    BY <2>1, <2>3, SubmittedFacts
<1>8. \A l \in slots : l \in LegIds /\ l[1] = size /\ leg[l].state = "Absent"
  BY <1>6 DEF Inv1, TypeOK
<1>9. \A l \in LegIds : l[1] >= size' => l \notin slots /\ l[1] >= size
  BY <1>6, LegIdParts DEF PositionIds
<1> HIDE DEF slots
<1>10. leg' \in [LegIds -> Leg]
  BY <1>2, <1>7, <1>8 DEF Inv1, TypeOK
<1>11. \A l \in slots : NewOrder(l, 0, FALSE, FALSE) \in Order
  BY <1>8, Constants DEF Inv1, TypeOK, Order, NewOrder
<1>12. TypeOK'
  <2>1. pending' \subseteq Order
    BY <1>3, <1>11 DEF Inv1, TypeOK
  <2>2. \A l \in LegIds : l[1] >= size' => leg'[l].state = "Absent"
    BY <1>2, <1>9 DEF Inv1, TypeOK
  <2>3. \A p \in left : p \in 0 .. size' - 1
    BY <1>6, TypeParts, <1>1 DEF Inv1
  <2>4. ASSUME NEW i \in DOMAIN rules PROVE rules[i].position < size'
    BY RuleParts, <1>6, <1>1 DEF Inv1
  <2>5. now \in Nat /\ quotes \in [Instruments -> Quotes \cup {NoQuote}] /\ rules \in Seq(Rule)
        /\ trades \subseteq Trade
    BY DEF Inv1, TypeOK
  <2>6. QED
    BY <1>4, <1>6, <1>10, <2>1, <2>2, <2>3, <2>4, <2>5 DEF TypeOK
<1>13. OneOrderPerWaitingLeg'
  <2> DEFINE kept == pending
             new == {NewOrder(l, 0, FALSE, FALSE) : l \in slots}
  <2>1. \A o \in new : o.leg \in slots /\ o = NewOrder(o.leg, 0, FALSE, FALSE)
                       /\ Awaiting(o) = "PendingOpen"
    BY DEF NewOrder, Awaiting
  <2>2. \A o \in pending : o.leg \in LegIds /\ leg[o.leg].state # "Absent"
    BY TypeParts DEF Inv1, OneOrderPerWaitingLeg, Awaiting
  <2>3. \A l \in LegIds : leg'[l] = IF l \in slots THEN Submitted(insts[l[2]], qty) ELSE leg[l]
    BY <1>2
  <2>4. \A l \in slots : leg'[l].state = "PendingOpen" /\ NewOrder(l, 0, FALSE, FALSE) \in new
                         /\ NewOrder(l, 0, FALSE, FALSE).leg = l
    BY <2>3, <1>7, <1>8 DEF NewOrder
  <2> HIDE DEF new, kept
  <2>5. pending' = kept \cup new /\ kept \subseteq pending /\ pending \subseteq kept
    BY <1>3 DEF new, kept
  <2>6. \A o \in kept : o.leg \notin slots /\ leg'[o.leg].state = leg[o.leg].state
    BY <2>2, <2>3, <2>5, <1>8
  <2>7. \A l \in LegIds : leg'[l].state \in {"PendingOpen", "PendingClose"}
                             => \E o \in kept \cup new : o.leg = l
    BY <2>3, <2>4, <2>5 DEF Inv1, OneOrderPerWaitingLeg
  <2>8. \A o \in new : leg'[o.leg].state = Awaiting(o)
    BY <2>1, <2>4
  <2>9. \A o1 \in new, o2 \in kept : o1.leg # o2.leg
    BY <2>1, <2>6
  <2>10. \A o1, o2 \in new : o1.leg = o2.leg => o1 = o2
    BY <2>1
  <2>11. \A o \in kept : leg'[o.leg].state = leg[o.leg].state
    BY <2>6
  <2>12. OneOrderPerWaitingLeg /\ pending' = kept \cup new /\ kept \subseteq pending
    BY <2>5 DEF Inv1
  <2>13. QED
    BY <2>7, <2>8, <2>9, <2>10, <2>11, <2>12, OrdersReplaced, SMTT(30)
<1>14. QED
  BY <1>12, <1>13 DEF Inv1

\* Leaving positions and legs: types and orders.
LEMMA Inv1Leave ==
  ASSUME Inv1, NEW ps \in SUBSET (0 .. size - 1), NEW ls, NEW byRule \in BOOLEAN,
         Leave(ps, ls, byRule)
  PROVE  /\ leg' \in [LegIds -> Leg] /\ pending' \subseteq Order
         /\ left' \subseteq 0 .. size - 1
         /\ \A l \in LegIds : l[1] >= size => leg'[l].state = "Absent"
         /\ UNCHANGED <<now, quotes, size, trades>>
         /\ OneOrderPerWaitingLeg'
<1> DEFINE dropped   == UnfilledOpenings(ps)
           withdrawn == {o.leg : o \in dropped}
           exits     == {l \in LegIds : (l[1] \in ps \/ l \in ls) /\ l \notin withdrawn /\ CanExit(leg[l])}
           kept      == pending \ dropped
           new       == {NewOrder(l, leg[l].orders, TRUE, byRule) : l \in exits}
<1>1. leg' = [l \in LegIds |->
                IF l \in withdrawn THEN InState(leg[l], "Cancelled")
                ELSE IF l \in exits THEN Exiting(leg[l]) ELSE leg[l]]
  BY DEF Leave
<1>2. pending' = kept \cup new /\ left' = left \cup ps
      /\ UNCHANGED <<now, quotes, size, trades>>
  BY DEF Leave, money
<1>3. \A o \in dropped : o \in pending /\ o.closing = FALSE /\ o.leg \in withdrawn
  BY TypeParts DEF UnfilledOpenings, Inv1
<1>4. \A l \in withdrawn : l \in LegIds /\ leg[l].state = "PendingOpen"
                           /\ \E o \in dropped : o.leg = l
  BY <1>3, TypeParts DEF Inv1, OneOrderPerWaitingLeg, Awaiting
<1>5. \A l \in exits : l \in LegIds /\ l \notin withdrawn /\ leg[l].state = "Open"
  BY DEF CanExit
<1>6. \A o \in new : o.leg \in exits /\ o = NewOrder(o.leg, leg[o.leg].orders, TRUE, byRule)
                     /\ Awaiting(o) = "PendingClose"
  BY DEF NewOrder, Awaiting
<1>7. \A l \in exits : /\ NewOrder(l, leg[l].orders, TRUE, byRule) \in new
                       /\ NewOrder(l, leg[l].orders, TRUE, byRule).leg = l
  BY DEF NewOrder
<1>8. new \subseteq Order
  <2>1. \A l \in exits : NewOrder(l, leg[l].orders, TRUE, byRule) \in Order
    BY <1>5, Constants, TypeParts DEF Inv1, Order, NewOrder, Leg
  <2>2. QED
    BY <2>1
<1>kept. kept \subseteq pending /\ (\A o \in pending : o \in dropped \/ o \in kept)
      /\ \A o \in kept : o \notin dropped
  OBVIOUS
<1> HIDE DEF dropped, withdrawn, exits, kept, new
<1>9. \A l \in LegIds : leg[l] \in Leg
  BY TypeParts DEF Inv1
<1>10. \A l \in LegIds : leg'[l] = IF l \in withdrawn THEN InState(leg[l], "Cancelled")
                                   ELSE IF l \in exits THEN Exiting(leg[l]) ELSE leg[l]
  BY <1>1
<1>11. "Cancelled" \in LegStates
  BY DEF LegStates
<1>12. \A l \in LegIds : leg'[l] \in Leg
  BY <1>9, <1>10, <1>11, InStateFacts, ExitingFacts
<1>13. \A l \in LegIds : leg'[l].state = IF l \in withdrawn THEN "Cancelled"
                                         ELSE IF l \in exits THEN "PendingClose" ELSE leg[l].state
  BY <1>9, <1>10, <1>11, InStateFacts, ExitingFacts
<1>14. leg' \in [LegIds -> Leg]
  BY <1>1, <1>12
<1>15. \A l \in LegIds : l[1] >= size => leg[l].state = "Absent"
  BY DEF Inv1, TypeOK
<1>16. \A l \in LegIds : l[1] >= size => leg'[l].state = "Absent"
  BY <1>4, <1>5, <1>13, <1>15
<1>17. pending' \subseteq Order
  BY <1>2, <1>8, <1>kept DEF Inv1, TypeOK
<1>18. left' \subseteq 0 .. size - 1
  BY <1>2 DEF Inv1, TypeOK
<1>19. OneOrderPerWaitingLeg'
  <2>1. \A o \in kept : o.leg \in LegIds /\ leg[o.leg].state = Awaiting(o)
    BY <1>kept, TypeParts DEF Inv1, OneOrderPerWaitingLeg
  <2>2. \A o \in kept : o.leg \notin withdrawn /\ o.leg \notin exits
    <3> SUFFICES ASSUME NEW o \in kept
                 PROVE  o.leg \notin withdrawn /\ o.leg \notin exits
      OBVIOUS
    <3>1. o.leg \notin exits
      BY <1>5, <2>1 DEF Awaiting
    <3>2. ASSUME o.leg \in withdrawn PROVE FALSE
      <4>1. PICK d \in dropped : d.leg = o.leg
        BY <3>2, <1>4
      <4>2. d = o
        BY <4>1, <1>3, <1>kept DEF Inv1, OneOrderPerWaitingLeg
      <4>3. QED
        BY <4>1, <4>2, <1>kept
    <3>3. QED
      BY <3>1, <3>2
  <2>3. \A o \in kept : leg'[o.leg].state = leg[o.leg].state
    BY <1>13, <2>1, <2>2
  <2>4. \A o \in new : leg'[o.leg].state = Awaiting(o)
    BY <1>5, <1>6, <1>13
  <2>5. \A o1 \in new, o2 \in kept : o1.leg # o2.leg
    BY <1>6, <2>2
  <2>6. \A o1, o2 \in new : o1.leg = o2.leg => o1 = o2
    BY <1>6
  <2>7. ASSUME NEW l \in LegIds, leg'[l].state \in {"PendingOpen", "PendingClose"}
        PROVE  \E o \in kept \cup new : o.leg = l
    <3>1. CASE l \in exits
      BY <3>1, <1>7
    <3>2. CASE l \notin exits
      <4>1. l \notin withdrawn /\ leg[l].state \in {"PendingOpen", "PendingClose"}
        BY <2>7, <3>2, <1>13
      <4>2. PICK o \in pending : o.leg = l
        BY <4>1 DEF Inv1, OneOrderPerWaitingLeg
      <4>3. o \notin dropped
        BY <4>1, <4>2, <1>3
      <4>4. QED
        BY <4>2, <4>3, <1>kept
    <3>3. QED
      BY <3>1, <3>2
  <2>8. \A l \in LegIds : leg'[l].state \in {"PendingOpen", "PendingClose"}
                             => \E o \in kept \cup new : o.leg = l
    BY <2>7
  <2>9. OneOrderPerWaitingLeg /\ pending' = kept \cup new /\ kept \subseteq pending
    BY <1>2, <1>kept DEF Inv1
  <2>10. QED
    BY <2>3, <2>4, <2>5, <2>6, <2>8, <2>9, OrdersReplaced, SMTT(30)
<1>20. QED
  BY <1>2, <1>14, <1>16, <1>17, <1>18, <1>19

\* What a step that only touches legs and orders has to show for Inv1.
LEMMA Inv1Assembled ==
  ASSUME Inv1, UNCHANGED <<now, quotes, size, rules>>,
         \A l \in LegIds : leg'[l] \in Leg, leg' = [l \in LegIds |-> leg'[l]],
         \A l \in LegIds : leg[l].state = "Absent" => leg'[l].state = "Absent",
         pending' \subseteq Order, trades' \subseteq Trade,
         left' \subseteq 0 .. size - 1, OneOrderPerWaitingLeg'
  PROVE  Inv1'
<1>1. leg' \in [LegIds -> Leg]
  OBVIOUS
<1>2. \A l \in LegIds : l[1] >= size => leg'[l].state = "Absent"
  BY DEF Inv1, TypeOK
<1>3. QED
  BY <1>1, <1>2, OnlyLegsAndOrders DEF Inv1

LEMMA Inv1ProcessPending ==
  ASSUME Inv1, ProcessPending
  PROVE  Inv1'
<1> DEFINE fills  == {o \in pending : Fillable(o)}
           closes == {o \in fills : o.closing}
           kept   == pending \ fills
<1>1. leg' = [l \in LegIds |->
                IF \E o \in closes : o.leg = l THEN Exited(leg[l], FillPrice(l, TRUE))
                ELSE IF \E o \in fills : o.leg = l THEN Opened(leg[l], FillPrice(l, FALSE))
                ELSE leg[l]]
  BY DEF ProcessPending
<1>2. pending' = pending \ fills /\ trades' = trades \cup {TradeOf(o) : o \in fills}
      /\ UNCHANGED <<now, quotes, size, rules, left>>
  BY DEF ProcessPending
<1>3. \A o \in fills : /\ o \in pending /\ o \in Order /\ o.leg \in LegIds /\ o.closing \in BOOLEAN
                       /\ leg[o.leg].state = Awaiting(o) /\ QuoteFor(o.leg) # NoQuote
  BY TypeParts DEF Inv1, OneOrderPerWaitingLeg, Fillable
<1>4. \A o \in closes : o \in fills
  OBVIOUS
<1>5. \A o \in fills : /\ FillPrice(o.leg, TRUE) \in Nat /\ FillPrice(o.leg, FALSE) \in Nat
                       /\ FillPrice(o.leg, o.closing) \in Nat
  BY <1>3, FillPriceType DEF Inv1
<1>6. \A o \in fills : TradeOf(o) \in Trade
  BY <1>3, <1>5, Constants, TypeParts DEF Inv1, Trade, TradeOf, Order
<1>kept. kept \subseteq pending /\ (\A o \in pending : o \in fills \/ o \in kept)
      /\ \A o \in kept : o \notin fills
  OBVIOUS
<1>left. pending' = kept
  BY <1>2
<1> HIDE DEF fills, closes, kept
<1>7. \A l \in LegIds :
        leg'[l] = IF \E o \in closes : o.leg = l THEN Exited(leg[l], FillPrice(l, TRUE))
                  ELSE IF \E o \in fills : o.leg = l THEN Opened(leg[l], FillPrice(l, FALSE))
                  ELSE leg[l]
  BY <1>1
<1>8. ASSUME NEW l \in LegIds
      PROVE  /\ leg'[l] \in Leg
             /\ leg[l].state = "Absent" => leg'[l].state = "Absent"
             /\ (\E o \in fills : o.leg = l) => leg'[l].state \in {"Open", "Closed"}
             /\ ~(\E o \in fills : o.leg = l) => leg'[l] = leg[l]
  <2>1. leg[l] \in Leg
    BY TypeParts DEF Inv1
  <2>2. CASE \E o \in closes : o.leg = l
    <3>1. leg'[l] = Exited(leg[l], FillPrice(l, TRUE)) /\ FillPrice(l, TRUE) \in Nat
      BY <2>2, <1>4, <1>5, <1>7
    <3>2. leg[l].state # "Absent"
      BY <2>2, <1>3, <1>4 DEF Awaiting
    <3>3. QED
      <4>1. Exited(leg[l], FillPrice(l, TRUE)) \in Leg
            /\ Exited(leg[l], FillPrice(l, TRUE)).state = "Closed"
        BY <3>1, <2>1, TradedFacts
      <4>2. \E o \in fills : o.leg = l
        BY <2>2, <1>4
      <4>3. QED
        BY <3>1, <3>2, <4>1, <4>2
  <2>3. CASE ~(\E o \in closes : o.leg = l) /\ \E o \in fills : o.leg = l
    <3>1. leg'[l] = Opened(leg[l], FillPrice(l, FALSE)) /\ FillPrice(l, FALSE) \in Nat
      BY <2>3, <1>5, <1>7
    <3>2. leg[l].state # "Absent"
      BY <2>3, <1>3 DEF Awaiting
    <3>3. QED
      <4>1. Opened(leg[l], FillPrice(l, FALSE)) \in Leg
            /\ Opened(leg[l], FillPrice(l, FALSE)).state = "Open"
        BY <3>1, <2>1, TradedFacts
      <4>2. QED
        BY <3>1, <3>2, <4>1, <2>3
  <2>4. CASE ~(\E o \in closes : o.leg = l) /\ ~(\E o \in fills : o.leg = l)
    BY <2>4, <2>1, <1>7
  <2>5. QED
    BY <2>2, <2>3, <2>4
<1>9. OneOrderPerWaitingLeg'
  <2>1. pending' = kept
    BY <1>left
  <2>2. \A o \in kept : leg'[o.leg].state = leg[o.leg].state
    <3> SUFFICES ASSUME NEW o \in kept PROVE leg'[o.leg] = leg[o.leg]
      OBVIOUS
    <3>1. \A f \in fills : f.leg # o.leg
      BY <1>3, <1>kept DEF Inv1, OneOrderPerWaitingLeg
    <3>2. QED
      BY <3>1, <1>8, <1>kept, TypeParts DEF Inv1
  <2>3. \A l \in LegIds : leg'[l].state \in {"PendingOpen", "PendingClose"}
                             => \E o \in kept : o.leg = l
    <3> SUFFICES ASSUME NEW l \in LegIds, leg'[l].state \in {"PendingOpen", "PendingClose"}
                 PROVE  \E o \in kept : o.leg = l
      OBVIOUS
    <3>1. ~(\E o \in fills : o.leg = l) /\ leg'[l] = leg[l]
      BY <1>8
    <3>2. QED
      BY <3>1, <1>kept DEF Inv1, OneOrderPerWaitingLeg
  <2>4. OneOrderPerWaitingLeg /\ kept \subseteq pending
    BY <1>kept DEF Inv1
  <2>5. QED
    BY <2>1, <2>2, <2>3, <2>4, OrdersRemoved
<1>10. leg' = [l \in LegIds |-> leg'[l]]
  BY <1>1
<1>11. pending' \subseteq Order /\ trades' \subseteq Trade /\ left' \subseteq 0 .. size - 1
  BY <1>2, <1>6, <1>left, <1>kept DEF Inv1, TypeOK
<1>12. QED
  BY <1>2, <1>8, <1>9, <1>10, <1>11, Inv1Assembled

LEMMA Inv1RefreshMarks ==
  ASSUME Inv1, RefreshMarks
  PROVE  Inv1'
<1>1. /\ leg' = [l \in LegIds |-> IF Live(leg[l]) /\ QuotedMark(leg[l]) # NoMark
                                  THEN Marked(leg[l], QuotedMark(leg[l])) ELSE leg[l]]
      /\ UNCHANGED <<now, quotes, size, pending, rules, trades, left>>
  BY DEF RefreshMarks, money
<1>2. ASSUME NEW l \in LegIds
      PROVE  leg'[l] \in Leg /\ leg'[l].state = leg[l].state
  <2>1. leg[l] \in Leg /\ QuotedMark(leg[l]) \in Nat \cup {NoMark}
    BY QuotedMarkType, TypeParts DEF Inv1
  <2>2. leg'[l] = IF Live(leg[l]) /\ QuotedMark(leg[l]) # NoMark
                  THEN Marked(leg[l], QuotedMark(leg[l])) ELSE leg[l]
    BY <1>1
  <2>3. CASE Live(leg[l]) /\ QuotedMark(leg[l]) # NoMark
    <3>1. QuotedMark(leg[l]) \in Nat
      BY <2>1, <2>3
    <3>2. Marked(leg[l], QuotedMark(leg[l])) \in Leg
          /\ Marked(leg[l], QuotedMark(leg[l])).state = leg[l].state
      BY <2>1, <3>1, TradedFacts
    <3>3. QED
      BY <2>2, <2>3, <3>2
  <2>4. QED
    BY <2>1, <2>2, <2>3
<1>3. OneOrderPerWaitingLeg'
  BY <1>1, <1>2, TypeParts DEF Inv1, OneOrderPerWaitingLeg, Awaiting
<1>4. leg' = [l \in LegIds |-> leg'[l]]
  BY <1>1
<1>5. pending' \subseteq Order /\ trades' \subseteq Trade /\ left' \subseteq 0 .. size - 1
  BY <1>1 DEF Inv1, TypeOK
<1>6. QED
  BY <1>1, <1>2, <1>3, <1>4, <1>5, Inv1Assembled

LEMMA Inv1SettleExpiry ==
  ASSUME Inv1, NEW expiry, NEW level \in Levels, SettleExpiry(expiry, level)
  PROVE  Inv1'
<1> DEFINE due       == {l \in LegIds : Live(leg[l]) /\ Expiry[leg[l].inst] = expiry}
           Value(l)  == Intrinsic(leg[l].inst, level)
           Charge(l) == IF leg[l].qty > 0 /\ Value(l) > 0 THEN ExerciseFee ELSE 0
           dropped   == {o \in pending : Expiry[leg[o.leg].inst] = expiry}
           withdrawn == {o.leg : o \in {d \in dropped : ~d.closing /\ leg[d.leg].state = "PendingOpen"}}
           kept      == pending \ dropped
           Record(l) == [leg |-> l, n |-> 0, closing |-> TRUE, signal |-> now, fill |-> now,
                         price |-> Value(l), cost |-> Charge(l), fromRule |-> FALSE, settled |-> TRUE]
<1>1. leg' = [l \in LegIds |-> IF l \in due THEN SettledAt(leg[l], Value(l))
                               ELSE IF l \in withdrawn THEN InState(leg[l], "Cancelled") ELSE leg[l]]
  BY DEF SettleExpiry
<1>2. pending' = kept /\ UNCHANGED <<now, quotes, size, rules, left>>
  BY DEF SettleExpiry
<1>3. trades' = trades \cup {Record(l) : l \in due}
  BY DEF SettleExpiry
<1>4. \A l \in LegIds : leg[l] \in Leg /\ leg[l].inst \in Instruments
  BY TypeParts DEF Inv1
<1>5. \A l \in LegIds : Value(l) \in Nat /\ Charge(l) \in Nat
  BY <1>4, IntrinsicType, Constants
<1>6. now \in Nat
  BY TypeParts DEF Inv1
<1>7. \A l \in due : Record(l) \in Trade
  BY <1>5, <1>6 DEF Trade
<1>8. \A l \in due : leg[l].state \in {"Open", "PendingClose"} /\ Expiry[leg[l].inst] = expiry
  BY DEF Live
<1>9. \A l \in withdrawn : leg[l].state = "PendingOpen" /\ Expiry[leg[l].inst] = expiry
                           /\ \E o \in dropped : o.leg = l
  OBVIOUS
<1>10. \A o \in pending : o \in dropped => \/ o.leg \in due
                                           \/ o.leg \in withdrawn
  BY TypeParts DEF Inv1, OneOrderPerWaitingLeg, Awaiting, Live
<1>11. kept \subseteq pending /\ \A o \in kept : Expiry[leg[o.leg].inst] # expiry
  OBVIOUS
<1>12. \A o \in pending : o \in kept \/ o \in dropped
  OBVIOUS
<1> HIDE DEF due, Value, Charge, dropped, withdrawn, kept, Record
<1>13. \A l \in LegIds : leg'[l] = IF l \in due THEN SettledAt(leg[l], Value(l))
                                   ELSE IF l \in withdrawn THEN InState(leg[l], "Cancelled")
                                   ELSE leg[l]
  BY <1>1
<1>14. ASSUME NEW l \in LegIds
       PROVE  /\ leg'[l] \in Leg
              /\ leg[l].state = "Absent" => leg'[l].state = "Absent"
              /\ l \in due \/ l \in withdrawn => leg'[l].state \in {"Closed", "Cancelled"}
              /\ l \notin due /\ l \notin withdrawn => leg'[l] = leg[l]
  <2>1. SettledAt(leg[l], Value(l)) \in Leg /\ SettledAt(leg[l], Value(l)).state = "Closed"
    BY <1>4, <1>5, TradedFacts
  <2>2. InState(leg[l], "Cancelled") \in Leg /\ InState(leg[l], "Cancelled").state = "Cancelled"
    BY <1>4, InStateFacts DEF LegStates
  <2>3. QED
    BY <1>4, <1>8, <1>9, <1>13, <2>1, <2>2
<1>15. OneOrderPerWaitingLeg'
  <2>1. ASSUME NEW o \in kept PROVE leg'[o.leg].state = leg[o.leg].state
    BY <1>8, <1>9, <1>11, <1>14, TypeParts DEF Inv1
  <2>2. ASSUME NEW l \in LegIds, leg'[l].state \in {"PendingOpen", "PendingClose"}
        PROVE  \E o \in kept : o.leg = l
    <3>1. l \notin due /\ l \notin withdrawn /\ leg'[l] = leg[l]
      BY <2>2, <1>14
    <3>2. PICK o \in pending : o.leg = l
      BY <2>2, <3>1 DEF Inv1, OneOrderPerWaitingLeg
    <3>3. QED
      BY <3>1, <3>2, <1>10, <1>12
  <2>3. \A o \in kept : leg'[o.leg].state = leg[o.leg].state
    BY <2>1
  <2>4. \A l \in LegIds : leg'[l].state \in {"PendingOpen", "PendingClose"}
                            => \E o \in kept : o.leg = l
    BY <2>2
  <2>5. OneOrderPerWaitingLeg /\ pending' = kept /\ kept \subseteq pending
    BY <1>2, <1>11 DEF Inv1
  <2>6. QED
    BY <2>3, <2>4, <2>5, OrdersRemoved
<1>16. leg' = [l \in LegIds |-> leg'[l]]
  BY <1>1
<1>17. pending' \subseteq Order /\ trades' \subseteq Trade /\ left' \subseteq 0 .. size - 1
  BY <1>2, <1>3, <1>7, <1>11 DEF Inv1, TypeOK
<1>18. QED
  BY <1>2, <1>14, <1>15, <1>16, <1>17, Inv1Assembled

LEMMA Inv1CancelWorkingOrders ==
  ASSUME Inv1, CancelWorkingOrders
  PROVE  Inv1'
<1> DEFINE abandoned == {o.leg : o \in {d \in pending : d.closing /\ leg[d.leg].state = "PendingClose"}}
           withdrawn == {o.leg : o \in {d \in pending : ~d.closing /\ leg[d.leg].state = "PendingOpen"}}
<1>1. leg' = [l \in LegIds |-> IF l \in abandoned THEN InState(leg[l], "Open")
                               ELSE IF l \in withdrawn THEN InState(leg[l], "Cancelled") ELSE leg[l]]
  BY DEF CancelWorkingOrders
<1>2. pending' = {} /\ UNCHANGED <<now, quotes, size, trades, left>>
  BY DEF CancelWorkingOrders, money
<1>3. rules' = [i \in DOMAIN rules |->
                  IF Rearms(rules[i], abandoned) THEN [rules[i] EXCEPT !.fired = FALSE] ELSE rules[i]]
  BY DEF CancelWorkingOrders
<1>4. \A l \in LegIds : leg[l].state \in {"PendingOpen", "PendingClose"}
                          => l \in abandoned \/ l \in withdrawn
  BY DEF Inv1, OneOrderPerWaitingLeg, Awaiting
<1>5. \A l \in abandoned : leg[l].state = "PendingClose"
  OBVIOUS
<1>6. \A l \in withdrawn : leg[l].state = "PendingOpen"
  OBVIOUS
<1> HIDE DEF abandoned, withdrawn
<1>7. ASSUME NEW l \in LegIds
      PROVE  /\ leg'[l] \in Leg
             /\ leg[l].state = "Absent" => leg'[l].state = "Absent"
             /\ leg'[l].state \notin {"PendingOpen", "PendingClose"}
  <2>1. leg[l] \in Leg
    BY TypeParts DEF Inv1
  <2>2. /\ InState(leg[l], "Cancelled") \in Leg /\ InState(leg[l], "Cancelled").state = "Cancelled"
        /\ InState(leg[l], "Open") \in Leg /\ InState(leg[l], "Open").state = "Open"
    BY <2>1, InStateFacts DEF LegStates
  <2>3. leg'[l] = IF l \in abandoned THEN InState(leg[l], "Open")
                  ELSE IF l \in withdrawn THEN InState(leg[l], "Cancelled") ELSE leg[l]
    BY <1>1
  <2>4. QED
    BY <1>4, <1>5, <1>6, <2>1, <2>2, <2>3
<1>8. OneOrderPerWaitingLeg'
  BY <1>2, <1>7 DEF OneOrderPerWaitingLeg
<1>9. rules' \in Seq(Rule) /\ \A i \in DOMAIN rules' : rules'[i].position < size
  <2>1. ASSUME NEW i \in DOMAIN rules
        PROVE  rules'[i] \in Rule /\ rules'[i].position < size
    <3>1. rules[i] \in Rule /\ rules[i].position < size
      BY RuleParts DEF Inv1
    <3>2. [rules[i] EXCEPT !.fired = FALSE] \in Rule
          /\ [rules[i] EXCEPT !.fired = FALSE].position = rules[i].position
      BY <3>1 DEF Rule
    <3>3. rules'[i] = rules[i] \/ rules'[i] = [rules[i] EXCEPT !.fired = FALSE]
      BY <1>3
    <3>4. QED
      BY <3>1, <3>2, <3>3
  <2>2. DOMAIN rules = 1 .. Len(rules) /\ Len(rules) \in Nat
    BY DEF Inv1, TypeOK
  <2>3. rules' = [i \in 1 .. Len(rules) |-> rules'[i]]
    BY <1>3, <2>2
  <2>4. QED
    BY <2>1, <2>2, <2>3
<1>10. TypeOK'
  <2>1. leg' \in [LegIds -> Leg]
    BY <1>1, <1>7
  <2>2. \A l \in LegIds : l[1] >= size => leg'[l].state = "Absent"
    BY <1>7 DEF Inv1, TypeOK
  <2>3. QED
    BY <1>2, <1>9, <2>1, <2>2 DEF Inv1, TypeOK
<1>11. QED
  BY <1>8, <1>10 DEF Inv1

LEMMA Inv1SubmitClose ==
  ASSUME Inv1, NEW p \in PositionIds, SubmitClose(p)
  PROVE  Inv1'
<1>1. p < size /\ Leave({p}, {}, FALSE) /\ rules' = rules
  BY DEF SubmitClose
<1>2. {p} \in SUBSET (0 .. size - 1) /\ FALSE \in BOOLEAN
  BY <1>1, TypeParts, Constants DEF PositionIds, Inv1
<1>3. /\ leg' \in [LegIds -> Leg] /\ pending' \subseteq Order /\ left' \subseteq 0 .. size - 1
      /\ \A l \in LegIds : l[1] >= size => leg'[l].state = "Absent"
      /\ UNCHANGED <<now, quotes, size, trades>> /\ OneOrderPerWaitingLeg'
  BY <1>1, <1>2, Inv1Leave
<1>4. QED
  BY <1>1, <1>3 DEF Inv1, TypeOK

LEMMA Inv1SubmitCloseLeg ==
  ASSUME Inv1, NEW l \in LegIds, SubmitCloseLeg(l)
  PROVE  Inv1'
<1>1. Leave({}, {l}, FALSE) /\ rules' = rules
  BY DEF SubmitCloseLeg
<1>2. {} \in SUBSET (0 .. size - 1) /\ FALSE \in BOOLEAN
  OBVIOUS
<1>3. /\ leg' \in [LegIds -> Leg] /\ pending' \subseteq Order /\ left' \subseteq 0 .. size - 1
      /\ \A k \in LegIds : k[1] >= size => leg'[k].state = "Absent"
      /\ UNCHANGED <<now, quotes, size, trades>> /\ OneOrderPerWaitingLeg'
  BY <1>1, <1>2, Inv1Leave
<1>4. QED
  BY <1>1, <1>3 DEF Inv1, TypeOK

LEMMA Inv1ProcessRiskRules ==
  ASSUME Inv1, ProcessRiskRules
  PROVE  Inv1'
<1> DEFINE firing == {i \in DOMAIN rules : Fires(i)}
           whole  == {i \in firing : rules[i].leg = Whole}
           ps     == {rules[i].position : i \in whole}
           ls     == {<<rules[i].position, rules[i].leg>> : i \in firing \ whole}
<1>1. Leave(ps, ls, TRUE)
  BY DEF ProcessRiskRules
<1>2. rules' = [i \in DOMAIN rules |->
                  [rules[i] EXCEPT !.fired = @ \/ Retires(rules[i]) \/ i \in firing]]
  BY DEF ProcessRiskRules
<1>3. ps \in SUBSET (0 .. size - 1) /\ TRUE \in BOOLEAN
  <2>1. \A i \in whole : rules[i].position \in 0 .. size - 1
    BY RuleParts, TypeParts DEF Inv1
  <2>2. QED
    BY <2>1
<1> HIDE DEF ps, ls
<1>4. /\ leg' \in [LegIds -> Leg] /\ pending' \subseteq Order /\ left' \subseteq 0 .. size - 1
      /\ \A l \in LegIds : l[1] >= size => leg'[l].state = "Absent"
      /\ UNCHANGED <<now, quotes, size, trades>> /\ OneOrderPerWaitingLeg'
  BY <1>1, <1>3, Inv1Leave
<1>5. rules' \in Seq(Rule) /\ \A i \in DOMAIN rules' : rules'[i].position < size
  <2>1. ASSUME NEW i \in DOMAIN rules
        PROVE  rules'[i] \in Rule /\ rules'[i].position < size
    <3>1. rules[i] \in Rule /\ rules[i].position < size /\ rules[i].fired \in BOOLEAN
      BY RuleParts DEF Inv1
    <3>2. PICK b \in BOOLEAN : rules'[i] = [rules[i] EXCEPT !.fired = b]
      <4>1. (rules[i].fired \/ Retires(rules[i]) \/ i \in firing) \in BOOLEAN
        OBVIOUS
      <4>2. QED
        BY <1>2, <4>1
    <3>3. QED
      BY <3>1, <3>2 DEF Rule
  <2>2. DOMAIN rules = 1 .. Len(rules) /\ Len(rules) \in Nat
    BY DEF Inv1, TypeOK
  <2>3. rules' = [i \in 1 .. Len(rules) |-> rules'[i]]
    BY <1>2, <2>2
  <2>4. QED
    BY <2>1, <2>2, <2>3
<1>6. QED
  BY <1>4, <1>5 DEF Inv1, TypeOK

LEMMA Inv1AttachRule ==
  ASSUME Inv1, NEW p \in PositionIds, NEW m \in RuleMenu, AttachRule(p, m)
  PROVE  Inv1'
<1> DEFINE r == [kind |-> m.kind, position |-> p, leg |-> m.leg, pct |-> m.pct,
                 deadline |-> m.deadline, fired |-> FALSE]
<1>1. p < size /\ rules' = Append(rules, r)
      /\ UNCHANGED <<now, quotes, size, leg, pending, trades, left>>
  BY DEF AttachRule, money
<1>2. r \in Rule /\ r.position = p
  BY Constants DEF Rule, MenuItem, PositionIds
<1> HIDE DEF r
<1>3. rules \in Seq(Rule) /\ Len(rules) \in Nat
  BY DEF Inv1, TypeOK
<1>4. rules' \in Seq(Rule) /\ Len(rules') = Len(rules) + 1
  BY <1>1, <1>2, <1>3
<1>5. ASSUME NEW i \in DOMAIN rules' PROVE rules'[i].position < size
  <2>1. CASE i = Len(rules) + 1
    BY <2>1, <1>1, <1>2, <1>3
  <2>2. CASE i # Len(rules) + 1
    <3>1. i \in DOMAIN rules /\ rules'[i] = rules[i]
      BY <2>2, <1>1, <1>3, <1>4
    <3>2. QED
      BY <3>1, RuleParts DEF Inv1
  <2>3. QED
    BY <2>1, <2>2
<1>6. QED
  BY <1>1, <1>4, <1>5 DEF Inv1, TypeOK, OneOrderPerWaitingLeg, Awaiting

LEMMA Inv1Observe ==
  ASSUME Inv1, NEW t \in Nat, NEW q \in [Instruments -> Quotes \cup {NoQuote}], Observe(t, q)
  PROVE  Inv1'
BY DEF Observe, money, Inv1, TypeOK, OneOrderPerWaitingLeg, Awaiting

\* One step per action.
LEMMA Inv1Next ==
  ASSUME Inv1, [Next]_vars
  PROVE  Inv1'
<1>1. CASE \E t \in now .. MaxTime, q \in [Instruments -> Quotes \cup {NoQuote}] : Observe(t, q)
  <2>1. now .. MaxTime \subseteq Nat
    BY TypeParts, BoundsAssumption DEF Inv1
  <2>2. QED
    BY <1>1, <2>1, Inv1Observe
<1>2. CASE Strategy
  BY <1>2, Inv1SubmitOpen, Inv1SubmitClose, Inv1SubmitCloseLeg, Inv1AttachRule DEF Strategy
<1>3. CASE ProcessPending
  BY <1>3, Inv1ProcessPending
<1>4. CASE RefreshMarks
  BY <1>4, Inv1RefreshMarks
<1>5. CASE ProcessRiskRules
  BY <1>5, Inv1ProcessRiskRules
<1>6. CASE \E expiry \in {Expiry[i] : i \in Instruments} \ {0}, level \in Levels :
             SettleExpiry(expiry, level)
  BY <1>6, Inv1SettleExpiry
<1>7. CASE CancelWorkingOrders
  BY <1>7, Inv1CancelWorkingOrders
<1>8. CASE UNCHANGED vars
  BY <1>8 DEF vars, money, Inv1, TypeOK, OneOrderPerWaitingLeg, Awaiting
<1>9. QED
  BY <1>1, <1>2, <1>3, <1>4, <1>5, <1>6, <1>7, <1>8 DEF Next

\* The two halves of the inductive invariant hold of every execution.
THEOREM Inv1Holds == Spec => []Inv1
<1>1. Inv1 /\ [Next]_vars => Inv1'
  BY Inv1Next
<1>2. QED
  BY <1>1, Inv1Init, PTL DEF Spec

\* Every state of the portfolio has its type, whatever the host does.
THEOREM TypeCorrect == Spec => []TypeOK
<1>1. Inv1 => TypeOK
  BY DEF Inv1
<1>2. QED
  BY <1>1, Inv1Holds, PTL

\* A leg never has two orders working, never waits without one, and no order
\* outlives the state it was meant for.
THEOREM WorkingOrdersCorrect == Spec => []OneOrderPerWaitingLeg
<1>1. Inv1 => OneOrderPerWaitingLeg
  BY DEF Inv1
<1>2. QED
  BY <1>1, Inv1Holds, PTL

-----------------------------------------------------------------------------
(* What a portfolio promises its strategy: risk rules are never spent on a  *)
(* leg that is still held, nothing opens in a position asked to close, the  *)
(* execution delay is kept, and a leg's past does not change.  First what   *)
(* each action does to a leg.                                               *)

\* The instrument, the quantity and the entry of a leg stay.
Same(l) == leg'[l].inst = leg[l].inst /\ leg'[l].qty = leg[l].qty /\ leg'[l].entry = leg[l].entry

LEMMA UpdatesKeep ==
  ASSUME NEW lg \in Leg, NEW price \in Nat, NEW state \in LegStates
  PROVE  /\ Exited(lg, price).inst = lg.inst /\ Exited(lg, price).qty = lg.qty
         /\ Exited(lg, price).entry = lg.entry
         /\ SettledAt(lg, price).inst = lg.inst /\ SettledAt(lg, price).qty = lg.qty
         /\ SettledAt(lg, price).entry = lg.entry
         /\ Marked(lg, price).inst = lg.inst /\ Marked(lg, price).qty = lg.qty
         /\ Marked(lg, price).entry = lg.entry /\ Marked(lg, price).exit = lg.exit
         /\ InState(lg, state).inst = lg.inst /\ InState(lg, state).qty = lg.qty
         /\ InState(lg, state).entry = lg.entry
BY DEF Exited, SettledAt, Marked, InState, Leg

LEMMA ExitingKeeps ==
  ASSUME NEW lg \in Leg
  PROVE  Exiting(lg).inst = lg.inst /\ Exiting(lg).qty = lg.qty /\ Exiting(lg).entry = lg.entry
BY DEF Exiting, Leg

\* Submitting a position only fills slots of a position that did not exist.
LEMMA SubmitOpenEffect ==
  ASSUME Inv1, NEW insts \in LegLists, NEW qty \in Lots, SubmitOpen(insts, qty), NEW l \in LegIds
  PROVE  leg'[l] = leg[l] \/ /\ leg[l].state = "Absent" /\ l[1] = size
                             /\ leg'[l].state = "PendingOpen"
<1> DEFINE slots == {k \in LegIds : k[1] = size /\ k[2] <= Len(insts)}
<1>1. leg' = [k \in LegIds |-> IF k \in slots THEN Submitted(insts[k[2]], qty) ELSE leg[k]]
  BY DEF SubmitOpen
<1>2. size \in Nat /\ insts \in Seq(Instruments) /\ qty \in Int /\ Len(insts) \in Nat
  BY Constants, TypeParts DEF Inv1
<1>3. CASE l \in slots
  <2>1. l[1] = size /\ l[2] \in 1 .. Len(insts)
    BY <1>2, <1>3, LegIdParts, Constants DEF LegIndexes
  <2>2. leg[l].state = "Absent"
    BY <2>1, <1>2 DEF Inv1, TypeOK
  <2>3. insts[l[2]] \in Instruments
    BY <2>1, <1>2
  <2>4. Submitted(insts[l[2]], qty).state = "PendingOpen"
    BY <2>3, <1>2, SubmittedFacts
  <2> HIDE DEF slots
  <2>5. QED
    BY <1>1, <1>3, <2>1, <2>2, <2>4
<1>4. CASE l \notin slots
  BY <1>1, <1>4
<1>5. QED
  BY <1>3, <1>4

\* Leaving withdraws openings and puts exits on open legs, and reaches every leg
\* it is asked to.
LEMMA LeaveEffect ==
  ASSUME Inv1, NEW ps, NEW ls, NEW byRule \in BOOLEAN, Leave(ps, ls, byRule), NEW l \in LegIds
  PROVE  /\ \/ leg'[l] = leg[l]
            \/ leg[l].state = "PendingOpen" /\ leg'[l].state = "Cancelled"
            \/ leg[l].state = "Open" /\ leg'[l].state = "PendingClose" /\ Same(l)
         /\ l[1] \in ps => leg'[l].state \notin {"Open", "PendingOpen"}
         /\ l \in ls => leg'[l].state # "Open"
<1> DEFINE withdrawn == {o.leg : o \in UnfilledOpenings(ps)}
           exits     == {k \in LegIds : (k[1] \in ps \/ k \in ls) /\ k \notin withdrawn /\ CanExit(leg[k])}
<1>1. leg'[l] = IF l \in withdrawn THEN InState(leg[l], "Cancelled")
                ELSE IF l \in exits THEN Exiting(leg[l]) ELSE leg[l]
  BY DEF Leave
<1>2. leg[l] \in Leg /\ "Cancelled" \in LegStates
  BY TypeParts DEF Inv1, LegStates
<1>3. InState(leg[l], "Cancelled").state = "Cancelled"
  BY <1>2, InStateFacts
<1>4. Exiting(leg[l]).state = "PendingClose" /\ Exiting(leg[l]).inst = leg[l].inst
      /\ Exiting(leg[l]).qty = leg[l].qty /\ Exiting(leg[l]).entry = leg[l].entry
  BY <1>2, ExitingFacts, ExitingKeeps
<1>5. l \in withdrawn => leg[l].state = "PendingOpen"
  BY TypeParts DEF Inv1, OneOrderPerWaitingLeg, Awaiting, UnfilledOpenings
<1>6. l[1] \in ps /\ leg[l].state = "PendingOpen" => l \in withdrawn
  BY TypeParts DEF Inv1, OneOrderPerWaitingLeg, Awaiting, UnfilledOpenings
<1>7. l \in exits => leg[l].state = "Open"
  BY DEF CanExit
<1>8. (l[1] \in ps \/ l \in ls) /\ leg[l].state = "Open" => l \in exits
  BY <1>5 DEF CanExit
<1> HIDE DEF withdrawn, exits
<1>9. QED
  BY <1>1, <1>3, <1>4, <1>5, <1>6, <1>7, <1>8 DEF Same

\* A fill opens a leg that was waiting to open or closes one waiting to close.
LEMMA ProcessPendingEffect ==
  ASSUME Inv1, ProcessPending, NEW l \in LegIds
  PROVE  \/ leg'[l] = leg[l]
         \/ leg[l].state = "PendingOpen" /\ leg'[l].state = "Open"
         \/ leg[l].state = "PendingClose" /\ leg'[l].state = "Closed" /\ Same(l)
<1> DEFINE fills  == {o \in pending : Fillable(o)}
           closes == {o \in fills : o.closing}
<1>1. leg'[l] = IF \E o \in closes : o.leg = l THEN Exited(leg[l], FillPrice(l, TRUE))
                ELSE IF \E o \in fills : o.leg = l THEN Opened(leg[l], FillPrice(l, FALSE))
                ELSE leg[l]
  BY DEF ProcessPending
<1>2. leg[l] \in Leg
  BY TypeParts DEF Inv1
<1>3. ASSUME NEW o \in fills, o.leg = l
      PROVE  /\ leg[l].state = (IF o.closing THEN "PendingClose" ELSE "PendingOpen")
             /\ FillPrice(l, TRUE) \in Nat /\ FillPrice(l, FALSE) \in Nat
  <2>1. o \in pending /\ QuoteFor(l) # NoQuote
    BY <1>3 DEF Fillable
  <2>2. leg[l].state = (IF o.closing THEN "PendingClose" ELSE "PendingOpen")
    BY <1>3, <2>1 DEF Inv1, OneOrderPerWaitingLeg, Awaiting
  <2>3. QED
    BY <2>1, <2>2, FillPriceType DEF Inv1
<1>4. \A o \in closes : o \in fills /\ o.closing
  OBVIOUS
<1>5. \A o \in fills : ~(o \in closes) => ~o.closing
  OBVIOUS
<1> HIDE DEF fills, closes
<1>6. CASE \E o \in closes : o.leg = l
  <2>1. leg[l].state = "PendingClose" /\ FillPrice(l, TRUE) \in Nat
    BY <1>3, <1>4, <1>6
  <2>2. Exited(leg[l], FillPrice(l, TRUE)).state = "Closed"
    BY <2>1, <1>2, TradedFacts
  <2>3. /\ Exited(leg[l], FillPrice(l, TRUE)).inst = leg[l].inst
        /\ Exited(leg[l], FillPrice(l, TRUE)).qty = leg[l].qty
        /\ Exited(leg[l], FillPrice(l, TRUE)).entry = leg[l].entry
    BY <2>1, <1>2, UpdatesKeep DEF LegStates
  <2>4. QED
    BY <1>1, <1>6, <2>1, <2>2, <2>3 DEF Same
<1>7. CASE ~(\E o \in closes : o.leg = l) /\ \E o \in fills : o.leg = l
  <2>1. leg[l].state = "PendingOpen" /\ FillPrice(l, FALSE) \in Nat
    BY <1>3, <1>5, <1>7
  <2>2. Opened(leg[l], FillPrice(l, FALSE)).state = "Open"
    BY <2>1, <1>2, TradedFacts
  <2>3. QED
    BY <1>1, <1>7, <2>1, <2>2
<1>8. CASE ~(\E o \in closes : o.leg = l) /\ ~(\E o \in fills : o.leg = l)
  BY <1>1, <1>8
<1>9. QED
  BY <1>6, <1>7, <1>8

LEMMA RefreshMarksEffect ==
  ASSUME Inv1, RefreshMarks, NEW l \in LegIds
  PROVE  leg'[l].state = leg[l].state /\ leg'[l].exit = leg[l].exit /\ Same(l)
<1>1. leg'[l] = IF Live(leg[l]) /\ QuotedMark(leg[l]) # NoMark
                THEN Marked(leg[l], QuotedMark(leg[l])) ELSE leg[l]
  BY DEF RefreshMarks
<1>2. leg[l] \in Leg /\ QuotedMark(leg[l]) \in Nat \cup {NoMark} /\ "Open" \in LegStates
  BY QuotedMarkType, TypeParts DEF Inv1, LegStates
<1>3. CASE Live(leg[l]) /\ QuotedMark(leg[l]) # NoMark
  <2>1. QuotedMark(leg[l]) \in Nat
    BY <1>2, <1>3
  <2>2. /\ Marked(leg[l], QuotedMark(leg[l])).state = leg[l].state
        /\ Marked(leg[l], QuotedMark(leg[l])).inst = leg[l].inst
        /\ Marked(leg[l], QuotedMark(leg[l])).qty = leg[l].qty
        /\ Marked(leg[l], QuotedMark(leg[l])).entry = leg[l].entry
        /\ Marked(leg[l], QuotedMark(leg[l])).exit = leg[l].exit
    BY <2>1, <1>2, TradedFacts, UpdatesKeep
  <2>3. QED
    BY <1>1, <1>3, <2>2 DEF Same
<1>4. CASE ~(Live(leg[l]) /\ QuotedMark(leg[l]) # NoMark)
  BY <1>1, <1>4 DEF Same
<1>5. QED
  BY <1>3, <1>4

LEMMA SettleExpiryEffect ==
  ASSUME Inv1, NEW expiry, NEW level \in Levels, SettleExpiry(expiry, level), NEW l \in LegIds
  PROVE  \/ leg'[l] = leg[l]
         \/ Live(leg[l]) /\ leg'[l].state = "Closed" /\ Same(l)
         \/ leg[l].state = "PendingOpen" /\ leg'[l].state = "Cancelled"
<1> DEFINE due       == {k \in LegIds : Live(leg[k]) /\ Expiry[leg[k].inst] = expiry}
           Value(k)  == Intrinsic(leg[k].inst, level)
           dropped   == {o \in pending : Expiry[leg[o.leg].inst] = expiry}
           withdrawn == {o.leg : o \in {d \in dropped : ~d.closing /\ leg[d.leg].state = "PendingOpen"}}
<1>1. leg'[l] = IF l \in due THEN SettledAt(leg[l], Value(l))
                ELSE IF l \in withdrawn THEN InState(leg[l], "Cancelled") ELSE leg[l]
  BY DEF SettleExpiry
<1>2. leg[l] \in Leg /\ leg[l].inst \in Instruments /\ "Cancelled" \in LegStates
  BY TypeParts DEF Inv1, LegStates
<1>3. Value(l) \in Nat
  BY <1>2, IntrinsicType
<1>4. (l \in due => Live(leg[l])) /\ (l \in withdrawn => leg[l].state = "PendingOpen")
  OBVIOUS
<1> HIDE DEF due, Value, dropped, withdrawn
<1>5. SettledAt(leg[l], Value(l)).state = "Closed"
  BY <1>2, <1>3, TradedFacts
<1>6. /\ SettledAt(leg[l], Value(l)).inst = leg[l].inst
      /\ SettledAt(leg[l], Value(l)).qty = leg[l].qty
      /\ SettledAt(leg[l], Value(l)).entry = leg[l].entry
  BY <1>2, <1>3, UpdatesKeep
<1>7. InState(leg[l], "Cancelled").state = "Cancelled"
  BY <1>2, InStateFacts
<1>8. QED
  BY <1>1, <1>4, <1>5, <1>6, <1>7 DEF Same

LEMMA CancelWorkingOrdersEffect ==
  ASSUME Inv1, CancelWorkingOrders, NEW l \in LegIds
  PROVE  \/ leg'[l] = leg[l]
         \/ /\ leg[l].state = "PendingClose" /\ leg'[l].state = "Open" /\ Same(l)
            /\ l \in {o.leg : o \in {d \in pending : d.closing /\ leg[d.leg].state = "PendingClose"}}
         \/ leg[l].state = "PendingOpen" /\ leg'[l].state = "Cancelled"
<1> DEFINE abandoned == {o.leg : o \in {d \in pending : d.closing /\ leg[d.leg].state = "PendingClose"}}
           withdrawn == {o.leg : o \in {d \in pending : ~d.closing /\ leg[d.leg].state = "PendingOpen"}}
<1>1. leg'[l] = IF l \in abandoned THEN InState(leg[l], "Open")
                ELSE IF l \in withdrawn THEN InState(leg[l], "Cancelled") ELSE leg[l]
  BY DEF CancelWorkingOrders
<1>2. (l \in abandoned => leg[l].state = "PendingClose") /\ (l \in withdrawn => leg[l].state = "PendingOpen")
  OBVIOUS
<1>3. leg[l] \in Leg /\ {"Open", "Cancelled"} \subseteq LegStates /\ 0 \in Nat
  BY TypeParts DEF Inv1, LegStates
<1>4. InState(leg[l], "Open").state = "Open" /\ InState(leg[l], "Cancelled").state = "Cancelled"
  BY <1>3, InStateFacts
<1>5. /\ InState(leg[l], "Open").inst = leg[l].inst /\ InState(leg[l], "Open").qty = leg[l].qty
      /\ InState(leg[l], "Open").entry = leg[l].entry
  BY <1>3, UpdatesKeep
<1>6. CASE l \in abandoned
  BY <1>1, <1>2, <1>4, <1>5, <1>6 DEF Same
<1>7. CASE l \notin abandoned
  <2> HIDE DEF abandoned, withdrawn
  <2>1. QED
    BY <1>1, <1>2, <1>4, <1>7
<1>8. QED
  BY <1>6, <1>7
-----------------------------------------------------------------------------
(* Rules, closes and delays.  The delay of a trade is that of its order, and *)
(* a rule is spent safely because of what the same step did to its legs, so  *)
(* the invariant needs Inv1 and the timing of the orders that still work.    *)

OrdersTimed == \A o \in pending : o.eligible = o.submitted + Delay

Inv2 == SpentRuleGuardsNothing /\ NoOpeningAfterClose /\ DelayRespected /\ OrdersTimed

\* A leg comes to be held or about to be held only from being so.
Settles == \A l \in LegIds : leg'[l].state \in {"Open", "PendingOpen"}
                               => leg[l].state \in {"Open", "PendingOpen"}

\* Spent rules stay safe when nothing new is held and no rule is spent.
LEMMA SpentKept ==
  ASSUME SpentRuleGuardsNothing, Settles, UNCHANGED rules
  PROVE  SpentRuleGuardsNothing'
BY DEF SpentRuleGuardsNothing, Settles, Targets

LEMMA NoOpeningKept ==
  ASSUME NoOpeningAfterClose, UNCHANGED left,
         \A l \in LegIds : leg'[l].state = "PendingOpen" => leg[l].state = "PendingOpen"
  PROVE  NoOpeningAfterClose'
BY DEF NoOpeningAfterClose

LEMMA Inv2Init == Init => Inv2
BY DEF Init, Inv2, SpentRuleGuardsNothing, NoOpeningAfterClose, DelayRespected, OrdersTimed

LEMMA Inv2SubmitOpen ==
  ASSUME Inv1, Inv2, NEW insts \in LegLists, NEW qty \in Lots, SubmitOpen(insts, qty)
  PROVE  Inv2'
<1>1. UNCHANGED <<rules, trades, left>>
      /\ \E s : pending' = pending \cup {NewOrder(l, 0, FALSE, FALSE) : l \in s}
  BY DEF SubmitOpen, money
<1>2. \A l \in LegIds : leg'[l] = leg[l] \/ l[1] = size
  BY SubmitOpenEffect
<1>3. size \in Nat /\ \A p \in left : p \in Nat /\ p < size
  BY TypeParts DEF Inv1
<1>4. SpentRuleGuardsNothing'
  <2> SUFFICES ASSUME NEW i \in DOMAIN rules, rules[i].fired, NEW l \in Targets(rules[i])
               PROVE  leg'[l].state \notin {"Open", "PendingOpen"}
    BY <1>1 DEF SpentRuleGuardsNothing, Targets
  <2>1. l \in LegIds /\ l[1] = rules[i].position
    BY DEF Targets
  <2>2. l[1] # size
    BY <2>1, <1>3, RuleParts DEF Inv1
  <2>3. QED
    BY <1>2, <2>1, <2>2 DEF Inv2, SpentRuleGuardsNothing
<1>5. NoOpeningAfterClose'
  BY <1>1, <1>2, <1>3 DEF Inv2, NoOpeningAfterClose
<1>6. DelayRespected' /\ OrdersTimed'
  BY <1>1 DEF Inv2, DelayRespected, OrdersTimed, NewOrder
<1>7. QED
  BY <1>4, <1>5, <1>6 DEF Inv2

\* Leaving, the rules apart.
LEMMA Inv2Leave ==
  ASSUME Inv1, Inv2, NEW ps, NEW ls, NEW byRule \in BOOLEAN, Leave(ps, ls, byRule)
  PROVE  Settles /\ NoOpeningAfterClose' /\ DelayRespected' /\ OrdersTimed'
<1>1. \A l \in LegIds : /\ \/ leg'[l] = leg[l]
                           \/ leg'[l].state = "Cancelled"
                           \/ leg'[l].state = "PendingClose"
                        /\ l[1] \in ps => leg'[l].state \notin {"Open", "PendingOpen"}
  BY LeaveEffect
<1>2. trades' = trades /\ left' = left \cup ps
  BY DEF Leave, money
<1>3. \A o \in pending' : o \in pending \/ \E l \in LegIds : o = NewOrder(l, leg[l].orders, TRUE, byRule)
  BY DEF Leave
<1>4. OrdersTimed'
  BY <1>3 DEF Inv2, OrdersTimed, NewOrder
<1>5. QED
  BY <1>1, <1>2, <1>4 DEF Inv2, Settles, NoOpeningAfterClose, DelayRespected

LEMMA Inv2SubmitClose ==
  ASSUME Inv1, Inv2, NEW p \in PositionIds, SubmitClose(p)
  PROVE  Inv2'
<1>1. Leave({p}, {}, FALSE) /\ rules' = rules
  BY DEF SubmitClose
<1>2. Settles /\ NoOpeningAfterClose' /\ DelayRespected' /\ OrdersTimed'
  BY <1>1, Inv2Leave
<1>3. QED
  BY <1>1, <1>2, SpentKept DEF Inv2

LEMMA Inv2SubmitCloseLeg ==
  ASSUME Inv1, Inv2, NEW l \in LegIds, SubmitCloseLeg(l)
  PROVE  Inv2'
<1>1. Leave({}, {l}, FALSE) /\ rules' = rules
  BY DEF SubmitCloseLeg
<1>2. Settles /\ NoOpeningAfterClose' /\ DelayRespected' /\ OrdersTimed'
  BY <1>1, Inv2Leave
<1>3. QED
  BY <1>1, <1>2, SpentKept DEF Inv2

LEMMA Inv2AttachRule ==
  ASSUME Inv1, Inv2, NEW p \in PositionIds, NEW m \in RuleMenu, AttachRule(p, m)
  PROVE  Inv2'
<1> DEFINE r == [kind |-> m.kind, position |-> p, leg |-> m.leg, pct |-> m.pct,
                 deadline |-> m.deadline, fired |-> FALSE]
<1>1. rules' = Append(rules, r) /\ UNCHANGED <<leg, pending, trades, left>>
  BY DEF AttachRule, money
<1>2. r.fired = FALSE /\ rules \in Seq(Rule) /\ r \in Rule
  BY Constants DEF Inv1, TypeOK, Rule, MenuItem, PositionIds
<1> HIDE DEF r
<1>3. \A i \in DOMAIN rules' : rules'[i].fired => i \in DOMAIN rules /\ rules'[i] = rules[i]
  BY <1>1, <1>2
<1>4. SpentRuleGuardsNothing'
  BY <1>1, <1>3 DEF Inv2, SpentRuleGuardsNothing, Targets
<1>5. QED
  BY <1>1, <1>4 DEF Inv2, NoOpeningAfterClose, DelayRespected, OrdersTimed

LEMMA Inv2ProcessPending ==
  ASSUME Inv1, Inv2, ProcessPending
  PROVE  Inv2'
<1> DEFINE fills == {o \in pending : Fillable(o)}
<1>1. UNCHANGED <<rules, left>> /\ pending' = pending \ fills
      /\ trades' = trades \cup {TradeOf(o) : o \in fills}
  BY DEF ProcessPending
<1>2. Settles /\ \A l \in LegIds : leg'[l].state = "PendingOpen" => leg[l].state = "PendingOpen"
  <2> SUFFICES ASSUME NEW l \in LegIds
               PROVE  /\ leg'[l].state \in {"Open", "PendingOpen"} => leg[l].state \in {"Open", "PendingOpen"}
                      /\ leg'[l].state = "PendingOpen" => leg[l].state = "PendingOpen"
    BY DEF Settles
  <2>1. QED
    BY ProcessPendingEffect
<1>3. \A o \in fills : TradeOf(o).fill >= TradeOf(o).signal + Delay
  <2> SUFFICES ASSUME NEW o \in fills PROVE now >= o.submitted + Delay
    BY DEF TradeOf
  <2>1. QED
    BY DEF Fillable, Inv2, OrdersTimed
<1>4. DelayRespected' /\ OrdersTimed'
  BY <1>1, <1>3 DEF Inv2, DelayRespected, OrdersTimed
<1>5. QED
  BY <1>1, <1>2, <1>4, SpentKept, NoOpeningKept DEF Inv2

LEMMA Inv2RefreshMarks ==
  ASSUME Inv1, Inv2, RefreshMarks
  PROVE  Inv2'
<1>1. UNCHANGED <<pending, rules, trades, left>>
  BY DEF RefreshMarks, money
<1>2. \A l \in LegIds : leg'[l].state = leg[l].state
  BY RefreshMarksEffect
<1>3. QED
  BY <1>1, <1>2, SpentKept, NoOpeningKept DEF Inv2, Settles, DelayRespected, OrdersTimed

LEMMA Inv2SettleExpiry ==
  ASSUME Inv1, Inv2, NEW expiry, NEW level \in Levels, SettleExpiry(expiry, level)
  PROVE  Inv2'
<1> DEFINE due       == {l \in LegIds : Live(leg[l]) /\ Expiry[leg[l].inst] = expiry}
           Value(l)  == Intrinsic(leg[l].inst, level)
           Charge(l) == IF leg[l].qty > 0 /\ Value(l) > 0 THEN ExerciseFee ELSE 0
           Record(l) == [leg |-> l, n |-> 0, closing |-> TRUE, signal |-> now, fill |-> now,
                         price |-> Value(l), cost |-> Charge(l), fromRule |-> FALSE, settled |-> TRUE]
<1>0. trades' = trades \cup {Record(l) : l \in due}
  BY DEF SettleExpiry
<1>1. UNCHANGED <<rules, left>> /\ pending' \subseteq pending
      /\ \A t \in trades' : t \in trades \/ t.settled
  <2>1. UNCHANGED <<rules, left>> /\ pending' \subseteq pending
    BY DEF SettleExpiry
  <2>2. \A l \in due : Record(l).settled
    OBVIOUS
  <2> HIDE DEF due, Record
  <2>3. QED
    BY <1>0, <2>1, <2>2
<1>2. \A l \in LegIds : leg'[l] = leg[l] \/ leg'[l].state \in {"Closed", "Cancelled"}
  BY SettleExpiryEffect
<1>3. Settles /\ \A l \in LegIds : leg'[l].state = "PendingOpen" => leg[l].state = "PendingOpen"
  BY <1>2 DEF Settles
<1>4. QED
  BY <1>1, <1>3, SpentKept, NoOpeningKept DEF Inv2, DelayRespected, OrdersTimed

\* The rules of a position one of whose exits is abandoned are all armed again,
\* because the leg that is given back keeps the position open.
LEMMA Inv2CancelWorkingOrders ==
  ASSUME Inv1, Inv2, CancelWorkingOrders
  PROVE  Inv2'
<1> DEFINE abandoned == {o.leg : o \in {d \in pending : d.closing /\ leg[d.leg].state = "PendingClose"}}
<1>1. UNCHANGED <<trades, left>> /\ pending' = {}
  BY DEF CancelWorkingOrders, money
<1>2. rules' = [i \in DOMAIN rules |->
                  IF Rearms(rules[i], abandoned) THEN [rules[i] EXCEPT !.fired = FALSE] ELSE rules[i]]
  BY DEF CancelWorkingOrders
<1>3. ASSUME NEW l \in LegIds
      PROVE  \/ leg'[l] = leg[l]
             \/ l \in abandoned /\ leg'[l].state = "Open"
             \/ leg'[l].state = "Cancelled"
  BY CancelWorkingOrdersEffect
<1> HIDE DEF abandoned
<1>4. SpentRuleGuardsNothing'
  <2> SUFFICES ASSUME NEW i \in DOMAIN rules, rules'[i].fired, NEW l \in Targets(rules'[i]),
                      leg'[l].state \in {"Open", "PendingOpen"}
               PROVE  FALSE
    BY <1>2 DEF SpentRuleGuardsNothing, Targets
  <2>1. rules[i] \in Rule
    BY RuleParts DEF Inv1
  <2>2. ~Rearms(rules[i], abandoned) /\ rules'[i] = rules[i]
    BY <1>2, <2>1 DEF Rule
  <2>3. l \in LegIds /\ l[1] = rules[i].position
    BY <2>2 DEF Targets
  <2>4. CASE l \in abandoned /\ leg'[l].state = "Open"
    <3>1. IsOpen(leg', rules[i].position)
      BY <2>3, <2>4 DEF IsOpen, LegsOf, Live
    <3>2. rules[i].position \in {k[1] : k \in abandoned}
      BY <2>3, <2>4
    <3>3. QED
      BY <2>2, <3>1, <3>2 DEF Rearms
  <2>5. CASE leg'[l] = leg[l]
    BY <2>2, <2>5 DEF Inv2, SpentRuleGuardsNothing
  <2>6. QED
    BY <1>3, <2>3, <2>4, <2>5
<1>5. NoOpeningAfterClose'
  BY <1>1, <1>3, NoOpeningKept DEF Inv2
<1>6. QED
  BY <1>1, <1>4, <1>5 DEF Inv2, DelayRespected, OrdersTimed

\* A rule is spent only when its position is over, when it names no leg, or with
\* an exit asked for on everything it guards.
LEMMA Inv2ProcessRiskRules ==
  ASSUME Inv1, Inv2, ProcessRiskRules
  PROVE  Inv2'
<1> DEFINE firing == {i \in DOMAIN rules : Fires(i)}
           whole  == {i \in firing : rules[i].leg = Whole}
           ps     == {rules[i].position : i \in whole}
           ls     == {<<rules[i].position, rules[i].leg>> : i \in firing \ whole}
<1>1. Leave(ps, ls, TRUE)
  BY DEF ProcessRiskRules
<1>2. rules' = [i \in DOMAIN rules |->
                  [rules[i] EXCEPT !.fired = @ \/ Retires(rules[i]) \/ i \in firing]]
  BY DEF ProcessRiskRules
<1>3. \A i \in firing : i \in DOMAIN rules /\ (i \in whole \/ i \notin whole) /\ (i \in whole <=> rules[i].leg = Whole)
  OBVIOUS
<1>4. /\ \A i \in whole : rules[i].position \in ps
      /\ \A i \in firing : i \notin whole => <<rules[i].position, rules[i].leg>> \in ls
  OBVIOUS
<1>5. \A i \in firing : Due(rules[i])
  BY DEF Fires
<1> HIDE DEF firing, whole, ps, ls
<1>6. ASSUME NEW l \in LegIds
      PROVE  /\ leg'[l].state \in {"Open", "PendingOpen"} => leg'[l] = leg[l]
             /\ l[1] \in ps => leg'[l].state \notin {"Open", "PendingOpen"}
             /\ l \in ls => leg'[l].state # "Open"
  BY <1>1, LeaveEffect
<1>7. Settles /\ NoOpeningAfterClose' /\ DelayRespected' /\ OrdersTimed'
  BY <1>1, Inv2Leave
<1>8. SpentRuleGuardsNothing'
  <2> SUFFICES ASSUME NEW i \in DOMAIN rules, rules'[i].fired, NEW l \in Targets(rules'[i]),
                      leg'[l].state \in {"Open", "PendingOpen"}
               PROVE  FALSE
    BY <1>2 DEF SpentRuleGuardsNothing, Targets
  <2>1. rules[i] \in Rule /\ rules[i].fired \in BOOLEAN
    BY RuleParts DEF Inv1
  <2>2. rules'[i].position = rules[i].position /\ rules'[i].leg = rules[i].leg
    BY <1>2, <2>1 DEF Rule
  <2>3. rules[i].fired \/ Retires(rules[i]) \/ i \in firing
    BY <1>2, <2>1 DEF Rule
  <2>4. l \in LegIds /\ l[1] = rules[i].position /\ rules[i].leg \in {Whole, l[2]}
        /\ l \in Targets(rules[i])
    BY <2>2 DEF Targets
  <2>5. leg'[l] = leg[l] /\ leg[l].state \in {"Open", "PendingOpen"}
    BY <1>6, <2>4
  <2>6. CASE rules[i].fired
    BY <2>4, <2>5, <2>6 DEF Inv2, SpentRuleGuardsNothing
  <2>7. CASE Retires(rules[i])
    <3>1. l \in LegsOf(leg, rules[i].position)
      BY <2>4, <2>5 DEF LegsOf
    <3>2. IsOpen(leg, rules[i].position)
      BY <3>1, <2>5 DEF IsOpen, Live
    <3>3. HasTarget(rules[i])
      BY <3>1, <2>4 DEF HasTarget
    <3>4. QED
      BY <3>2, <3>3, <2>7 DEF Retires
  <2>8. CASE i \in firing
    <3>1. CASE i \in whole
      BY <1>4, <1>6, <2>4, <3>1
    <3>2. CASE i \notin whole
      <4>1. rules[i].leg # Whole /\ l = <<rules[i].position, rules[i].leg>>
        BY <1>3, <2>4, <2>8, <3>2, LegIdParts
      <4>2. l \in ls
        BY <1>4, <2>8, <3>2, <4>1
      <4>3. \E k \in Targets(rules[i]) : leg[k].state = "Open"
        BY <1>5, <2>8, <4>1 DEF Due
      <4>4. \A k \in Targets(rules[i]) : k = l
        BY <4>1, LegIdParts DEF Targets
      <4>5. QED
        BY <1>6, <2>4, <2>5, <4>2, <4>3, <4>4
    <3>3. QED
      BY <3>1, <3>2
  <2>9. QED
    BY <2>3, <2>6, <2>7, <2>8
<1>9. QED
  BY <1>7, <1>8 DEF Inv2

\* One step per action.
LEMMA Inv2Next ==
  ASSUME Inv1, Inv2, [Next]_vars
  PROVE  Inv2'
<1>1. CASE \E t \in now .. MaxTime, q \in [Instruments -> Quotes \cup {NoQuote}] : Observe(t, q)
  <2>1. UNCHANGED <<leg, pending, rules, trades, left>>
    BY <1>1 DEF Observe, money
  <2>2. QED
    BY <2>1 DEF Inv2, SpentRuleGuardsNothing, Targets, NoOpeningAfterClose, DelayRespected, OrdersTimed
<1>2. CASE Strategy
  BY <1>2, Inv2SubmitOpen, Inv2SubmitClose, Inv2SubmitCloseLeg, Inv2AttachRule DEF Strategy
<1>3. CASE ProcessPending
  BY <1>3, Inv2ProcessPending
<1>4. CASE RefreshMarks
  BY <1>4, Inv2RefreshMarks
<1>5. CASE ProcessRiskRules
  BY <1>5, Inv2ProcessRiskRules
<1>6. CASE \E expiry \in {Expiry[i] : i \in Instruments} \ {0}, level \in Levels :
             SettleExpiry(expiry, level)
  BY <1>6, Inv2SettleExpiry
<1>7. CASE CancelWorkingOrders
  BY <1>7, Inv2CancelWorkingOrders
<1>8. CASE UNCHANGED vars
  BY <1>8 DEF vars, money, Inv2, SpentRuleGuardsNothing, Targets, NoOpeningAfterClose,
              DelayRespected, OrdersTimed
<1>9. QED
  BY <1>1, <1>2, <1>3, <1>4, <1>5, <1>6, <1>7, <1>8 DEF Next

\* Rules, orders and their times, under every sequence of calls on a Portfolio.
THEOREM Inv2Holds == Spec => []Inv2
<1>1. Inv1 /\ Inv2 /\ [Next]_vars => Inv2'
  BY Inv2Next
<1>2. QED
  BY <1>1, Inv2Init, Inv1Holds, PTL DEF Spec

\* A rule that is spent guards no leg that is held without an exit working.
THEOREM RulesProtect == Spec => []SpentRuleGuardsNothing
<1>1. Inv2 => SpentRuleGuardsNothing
  BY DEF Inv2
<1>2. QED
  BY <1>1, Inv2Holds, PTL

\* Nothing opens in a position after it was asked to close.
THEOREM ClosedPositionsStayClosed == Spec => []NoOpeningAfterClose
<1>1. Inv2 => NoOpeningAfterClose
  BY DEF Inv2
<1>2. QED
  BY <1>1, Inv2Holds, PTL

\* No order fills before its execution delay has passed.
THEOREM DelayKept == Spec => []DelayRespected
<1>1. Inv2 => DelayRespected
  BY DEF Inv2
<1>2. QED
  BY <1>1, Inv2Holds, PTL

-----------------------------------------------------------------------------
(* The history of a leg.                                                    *)

\* A leg whose state moves as an order's life allows, keeping what it was.
LEMMA MovesFacts ==
  /\ Moves["Absent"] = {"PendingOpen"} /\ Moves["PendingOpen"] = {"Open", "Cancelled"}
  /\ Moves["Open"] = {"PendingClose", "Closed"} /\ Moves["PendingClose"] = {"Open", "Closed"}
BY DEF Moves

LEMMA LegStepNext ==
  ASSUME Inv1, [Next]_vars
  PROVE  LegStep \/ UNCHANGED vars
<1>1. CASE UNCHANGED leg
  BY <1>1 DEF LegStep
<1>2. ASSUME NEW insts \in LegLists, NEW qty \in Lots, SubmitOpen(insts, qty) PROVE LegStep
  BY <1>2, SubmitOpenEffect, MovesFacts DEF LegStep, Filled, Live
<1>3. ASSUME NEW ps, NEW ls, NEW byRule \in BOOLEAN, Leave(ps, ls, byRule) PROVE LegStep
  BY <1>3, LeaveEffect, MovesFacts DEF LegStep, Filled, Live, Same
<1>4. CASE ProcessPending
  BY <1>4, ProcessPendingEffect, MovesFacts DEF LegStep, Filled, Live, Same
<1>5. CASE RefreshMarks
  BY <1>5, RefreshMarksEffect DEF LegStep, Same
<1>6. ASSUME NEW expiry, NEW level \in Levels, SettleExpiry(expiry, level) PROVE LegStep
  BY <1>6, SettleExpiryEffect, MovesFacts DEF LegStep, Filled, Live, Same
<1>7. CASE CancelWorkingOrders
  BY <1>7, CancelWorkingOrdersEffect, MovesFacts DEF LegStep, Filled, Live, Same
<1>8. CASE Strategy
  <2>1. CASE \E p \in PositionIds, m \in RuleMenu : AttachRule(p, m)
    BY <2>1, <1>1 DEF AttachRule
  <2>2. QED
    BY <2>1, <1>2, <1>3, <1>8 DEF Strategy, SubmitClose, SubmitCloseLeg
<1>9. CASE ProcessRiskRules
  BY <1>9, <1>3 DEF ProcessRiskRules
<1>10. CASE \E t \in now .. MaxTime, q \in [Instruments -> Quotes \cup {NoQuote}] : Observe(t, q)
  BY <1>10, <1>1 DEF Observe
<1>11. QED
  BY <1>4, <1>5, <1>6, <1>7, <1>8, <1>9, <1>10 DEF Next

\* Legs move as orders do, and what they were bought and sold for never changes.
THEOREM LegHistoryKept == Spec => LegHistory
<1>1. Inv1 /\ [Next]_vars => [LegStep]_vars
  BY LegStepNext
<1>2. QED
  BY <1>1, Inv1Holds, PTL DEF Spec, LegHistory

-----------------------------------------------------------------------------
(* What each action does to the fields of a leg that the books read.        *)

LEMMA StateFields ==
  ASSUME NEW lg \in Leg, NEW state
  PROVE  /\ InState(lg, state).exit = lg.exit /\ InState(lg, state).settled = lg.settled
         /\ InState(lg, state).orders = lg.orders
         /\ Exiting(lg).exit = lg.exit /\ Exiting(lg).settled = lg.settled
         /\ Exiting(lg).orders = lg.orders + 1
BY DEF InState, Exiting, Leg

LEMMA PriceFields ==
  ASSUME NEW lg \in Leg, NEW price
  PROVE  /\ Opened(lg, price).entry = price /\ Opened(lg, price).qty = lg.qty
         /\ Opened(lg, price).settled = lg.settled /\ Opened(lg, price).orders = lg.orders
         /\ Opened(lg, price).state = "Open"
         /\ Exited(lg, price).exit = price /\ Exited(lg, price).settled = lg.settled
         /\ Exited(lg, price).orders = lg.orders
         /\ SettledAt(lg, price).exit = price /\ SettledAt(lg, price).settled = TRUE
         /\ SettledAt(lg, price).orders = lg.orders
         /\ Marked(lg, price).settled = lg.settled /\ Marked(lg, price).orders = lg.orders
BY DEF Opened, Exited, SettledAt, Marked, Leg

LEMMA SubmittedFields ==
  ASSUME NEW inst \in Instruments, NEW qty \in Int
  PROVE  Submitted(inst, qty).settled = FALSE /\ Submitted(inst, qty).orders = 1
BY DEF Submitted, Blank

\* Nothing of the leg that a trade records changes.
Unbooked(l) ==
  /\ Filled(leg'[l]) <=> Filled(leg[l])
  /\ leg'[l].state = "Closed" <=> leg[l].state = "Closed"
  /\ Filled(leg[l]) => leg'[l].entry = leg[l].entry /\ leg'[l].qty = leg[l].qty
  /\ leg[l].state = "Closed" => leg'[l].exit = leg[l].exit
  /\ leg'[l].settled => leg[l].settled
  /\ leg[l].state = "Closed" => leg'[l].settled = leg[l].settled

LEMMA SubmitOpenBooks ==
  ASSUME Inv1, NEW insts \in LegLists, NEW qty \in Lots, SubmitOpen(insts, qty), NEW l \in LegIds
  PROVE  Unbooked(l)
<1> DEFINE slots == {k \in LegIds : k[1] = size /\ k[2] <= Len(insts)}
<1>1. leg'[l] = IF l \in slots THEN Submitted(insts[l[2]], qty) ELSE leg[l]
  BY DEF SubmitOpen
<1>2. CASE l \in slots
  <2>1. insts \in Seq(Instruments) /\ qty \in Int /\ l[2] \in 1 .. Len(insts)
    BY <1>2, Constants, LegIdParts DEF LegIndexes
  <2>2. insts[l[2]] \in Instruments
    BY <2>1
  <2>3. ~leg'[l].settled
    BY <1>1, <1>2, <2>1, <2>2, SubmittedFields
  <2>4. leg'[l] = leg[l] \/ (leg[l].state = "Absent" /\ leg'[l].state = "PendingOpen")
    BY SubmitOpenEffect
  <2>5. QED
    BY <2>3, <2>4 DEF Unbooked, Filled, Live
<1>3. CASE l \notin slots
  BY <1>1, <1>3 DEF Unbooked
<1>4. QED
  BY <1>2, <1>3

LEMMA LeaveBooks ==
  ASSUME Inv1, NEW ps, NEW ls, NEW byRule \in BOOLEAN, Leave(ps, ls, byRule), NEW l \in LegIds
  PROVE  Unbooked(l)
<1>1. leg[l] \in Leg
  BY TypeParts DEF Inv1
<1>2. leg'[l] \in {leg[l], InState(leg[l], "Cancelled"), Exiting(leg[l])}
  BY DEF Leave
<1>3. leg'[l].exit = leg[l].exit /\ leg'[l].settled = leg[l].settled
  BY <1>1, <1>2, StateFields
<1>4. QED
  BY <1>3, LeaveEffect DEF Unbooked, Filled, Live, Same

LEMMA RefreshMarksBooks ==
  ASSUME Inv1, RefreshMarks, NEW l \in LegIds
  PROVE  Unbooked(l)
<1>1. leg[l] \in Leg
  BY TypeParts DEF Inv1
<1>2. leg'[l].settled = leg[l].settled
  BY <1>1, PriceFields DEF RefreshMarks
<1>3. QED
  BY <1>2, RefreshMarksEffect DEF Unbooked, Filled, Live, Same

LEMMA CancelWorkingOrdersBooks ==
  ASSUME Inv1, CancelWorkingOrders, NEW l \in LegIds
  PROVE  Unbooked(l)
<1>1. leg[l] \in Leg
  BY TypeParts DEF Inv1
<1>2. leg'[l] \in {leg[l], InState(leg[l], "Cancelled"), InState(leg[l], "Open")}
  BY DEF CancelWorkingOrders
<1>3. leg'[l].exit = leg[l].exit /\ leg'[l].settled = leg[l].settled
  BY <1>1, <1>2, StateFields
<1>4. QED
  BY <1>3, CancelWorkingOrdersEffect DEF Unbooked, Filled, Live, Same

\* Only fills and settlements trade.
LEMMA NothingElseTrades ==
  ASSUME Inv1, [Next]_vars, ~ProcessPending,
         ~ \E expiry \in {Expiry[i] : i \in Instruments} \ {0}, level \in Levels :
             SettleExpiry(expiry, level)
  PROVE  UNCHANGED money /\ \A l \in LegIds : Unbooked(l)
<1>1. CASE leg' = leg
  <2>1. \A l \in LegIds : Unbooked(l)
    BY <1>1 DEF Unbooked
  <2>2. UNCHANGED money
    BY DEF Next, Observe, Strategy, SubmitOpen, SubmitClose, SubmitCloseLeg, Leave, AttachRule, RefreshMarks,
           ProcessRiskRules, CancelWorkingOrders, vars, money
  <2>3. QED
    BY <2>1, <2>2
<1>2. CASE \E t \in now .. MaxTime, q \in [Instruments -> Quotes \cup {NoQuote}] : Observe(t, q)
  BY <1>1, <1>2 DEF Observe
<1>3. CASE Strategy
  <2>1. CASE \E insts \in LegLists, qty \in Lots : SubmitOpen(insts, qty)
    BY <2>1, SubmitOpenBooks DEF SubmitOpen, money
  <2>2. CASE (\E p \in PositionIds : SubmitClose(p)) \/ (\E k \in LegIds : SubmitCloseLeg(k))
    <3>1. PICK ps, ls : Leave(ps, ls, FALSE)
      BY <2>2 DEF SubmitClose, SubmitCloseLeg
    <3>2. QED
      BY <3>1, LeaveBooks DEF Leave
  <2>3. CASE \E p \in PositionIds, m \in RuleMenu : AttachRule(p, m)
    BY <1>1, <2>3 DEF AttachRule
  <2>4. QED
    BY <1>3, <2>1, <2>2, <2>3 DEF Strategy
<1>4. CASE RefreshMarks
  BY <1>4, RefreshMarksBooks DEF RefreshMarks, money
<1>5. CASE ProcessRiskRules
  BY <1>5, LeaveBooks DEF ProcessRiskRules, Leave, money
<1>6. CASE CancelWorkingOrders
  BY <1>6, CancelWorkingOrdersBooks DEF CancelWorkingOrders, money
<1>7. CASE UNCHANGED vars
  BY <1>1, <1>7 DEF vars
<1>8. QED
  BY <1>2, <1>3, <1>4, <1>5, <1>6, <1>7 DEF Next

\* The orders a fill pass fills, and the exits among them.
Fills  == {o \in pending : Fillable(o)}
Closes == {o \in Fills : o.closing}

\* What a fill pass does to a leg, by the order that filled.
LEMMA FillOutcome ==
  ASSUME Inv1, ProcessPending, NEW l \in LegIds
  PROVE  /\ \A o \in Fills : o.leg = l /\ o.closing =>
              /\ leg[l].state = "PendingClose" /\ leg'[l].state = "Closed" /\ Same(l)
              /\ FillPrice(l, TRUE) \in Nat /\ leg'[l].exit = FillPrice(l, TRUE)
              /\ leg'[l].settled = leg[l].settled
         /\ \A o \in Fills : o.leg = l /\ ~o.closing =>
              /\ leg[l].state = "PendingOpen" /\ leg'[l].state = "Open"
              /\ FillPrice(l, FALSE) \in Nat /\ leg'[l].entry = FillPrice(l, FALSE)
              /\ leg'[l].qty = leg[l].qty /\ leg'[l].settled = leg[l].settled
         /\ (\A o \in Fills : o.leg # l) => leg'[l] = leg[l]
         /\ leg'[l].orders = leg[l].orders
<1>1. leg'[l] = IF \E o \in Closes : o.leg = l THEN Exited(leg[l], FillPrice(l, TRUE))
                ELSE IF \E o \in Fills : o.leg = l THEN Opened(leg[l], FillPrice(l, FALSE))
                ELSE leg[l]
  BY DEF ProcessPending, Fills, Closes
<1>2. leg[l] \in Leg
  BY TypeParts DEF Inv1
<1>3. ASSUME NEW o \in Fills, o.leg = l
      PROVE  /\ leg[l].state = (IF o.closing THEN "PendingClose" ELSE "PendingOpen")
             /\ FillPrice(l, TRUE) \in Nat /\ FillPrice(l, FALSE) \in Nat
             /\ (\E c \in Closes : c.leg = l) <=> o.closing
  <2>1. o \in pending /\ QuoteFor(l) # NoQuote
    BY <1>3 DEF Fillable, Fills
  <2>2. leg[l].state = (IF o.closing THEN "PendingClose" ELSE "PendingOpen")
    BY <1>3, <2>1 DEF Inv1, OneOrderPerWaitingLeg, Awaiting
  <2>3. \A c \in Closes : c.leg = l => c = o /\ c.closing
    BY <1>3, <2>1 DEF Inv1, OneOrderPerWaitingLeg, Closes, Fills
  <2>4. o.closing => o \in Closes
    BY DEF Closes
  <2>5. QED
    BY <1>3, <2>1, <2>2, <2>3, <2>4, FillPriceType DEF Inv1
<1>4. \A o \in Closes : o \in Fills
  BY DEF Closes
<1>5. \A price \in Nat : /\ Exited(leg[l], price).state = "Closed"
                         /\ Exited(leg[l], price).inst = leg[l].inst
                         /\ Exited(leg[l], price).qty = leg[l].qty
                         /\ Exited(leg[l], price).entry = leg[l].entry
  BY <1>2, TradedFacts, UpdatesKeep DEF LegStates
<1>6. ASSUME NEW o \in Fills, o.leg = l, o.closing
      PROVE  /\ leg[l].state = "PendingClose" /\ leg'[l].state = "Closed" /\ Same(l)
             /\ FillPrice(l, TRUE) \in Nat /\ leg'[l].exit = FillPrice(l, TRUE)
             /\ leg'[l].settled = leg[l].settled /\ leg'[l].orders = leg[l].orders
  <2>1. leg'[l] = Exited(leg[l], FillPrice(l, TRUE)) /\ FillPrice(l, TRUE) \in Nat
    BY <1>1, <1>3, <1>6
  <2> DEFINE x == Exited(leg[l], FillPrice(l, TRUE))
  <2>2. x.exit = FillPrice(l, TRUE) /\ x.settled = leg[l].settled /\ x.orders = leg[l].orders
    BY <1>2, PriceFields
  <2>3. x.state = "Closed" /\ x.inst = leg[l].inst /\ x.qty = leg[l].qty /\ x.entry = leg[l].entry
    BY <1>5, <2>1
  <2> HIDE DEF x
  <2>4. leg[l].state = "PendingClose"
    BY <1>3, <1>6
  <2>5. QED
    BY <2>1, <2>2, <2>3, <2>4 DEF Same, x
<1>7. ASSUME NEW o \in Fills, o.leg = l, ~o.closing
      PROVE  /\ leg[l].state = "PendingOpen" /\ leg'[l].state = "Open"
             /\ FillPrice(l, FALSE) \in Nat /\ leg'[l].entry = FillPrice(l, FALSE)
             /\ leg'[l].qty = leg[l].qty /\ leg'[l].settled = leg[l].settled
             /\ leg'[l].orders = leg[l].orders
  <2>1. leg'[l] = Opened(leg[l], FillPrice(l, FALSE)) /\ FillPrice(l, FALSE) \in Nat
    BY <1>1, <1>3, <1>7
  <2> DEFINE x == Opened(leg[l], FillPrice(l, FALSE))
  <2>2. /\ x.state = "Open" /\ x.entry = FillPrice(l, FALSE) /\ x.qty = leg[l].qty
        /\ x.settled = leg[l].settled /\ x.orders = leg[l].orders
    <3>1. leg[l] \in Leg
      BY <1>2
    <3>2. QED
      BY <3>1, SMT DEF Opened, Leg
  <2> HIDE DEF x
  <2>3. leg[l].state = "PendingOpen"
    BY <1>3, <1>7
  <2>4. QED
    BY <2>1, <2>2, <2>3 DEF x
<1>8. (\A o \in Fills : o.leg # l) => leg'[l] = leg[l]
  BY <1>1, <1>4
<1>9. leg'[l].orders = leg[l].orders
  BY <1>6, <1>7, <1>8
<1>10. QED
  BY <1>6, <1>7, <1>8, <1>9

-----------------------------------------------------------------------------
(* The trade log.  That a leg still held is not settled is what tells a fill *)
(* from a settlement when it is closed.                                      *)

TradeLog ==
  /\ TradeLogMatchesLegs
  /\ \A l \in LegIds : leg[l].state # "Closed" => ~leg[l].settled

\* One leg's part of it.
Told(l) ==
  /\ IF Filled(leg[l])
     THEN \E t \in trades : TradesOf(l, FALSE) = {t} /\ t.price = leg[l].entry
     ELSE TradesOf(l, FALSE) = {}
  /\ IF leg[l].state = "Closed"
     THEN \E t \in trades : /\ TradesOf(l, TRUE) = {t}
                            /\ t.price = leg[l].exit /\ t.settled = leg[l].settled
     ELSE TradesOf(l, TRUE) = {}
  /\ leg[l].state # "Closed" => ~leg[l].settled

LEMMA TradeLogByLeg == TradeLog <=> \A l \in LegIds : Told(l)
BY DEF TradeLog, TradeLogMatchesLegs, Told

LEMMA ToldUnbooked ==
  ASSUME NEW l \in LegIds, Told(l), Unbooked(l), UNCHANGED trades
  PROVE  Told(l)'
BY DEF Told, Unbooked, TradesOf

LEMMA ToldProcessPending ==
  ASSUME Inv1, TradeLog, ProcessPending, NEW l \in LegIds
  PROVE  Told(l)'
<1>1. trades' = trades \cup {TradeOf(o) : o \in Fills}
  BY DEF ProcessPending, Fills
<1>2. ASSUME NEW o \in Fills
      PROVE  /\ TradeOf(o).leg = o.leg /\ TradeOf(o).closing = o.closing /\ o.closing \in BOOLEAN
             /\ TradeOf(o).price = FillPrice(o.leg, o.closing) /\ TradeOf(o).settled = FALSE
             /\ TradeOf(o) \in trades'
  BY <1>1, TypeParts DEF TradeOf, Fills, Inv1
<1>3. Told(l)
  BY TradeLogByLeg
<1>4. trades \subseteq trades'
  BY <1>1
\* The only trade a pass can add to the leg's is that of its one order.
<1>5. ASSUME NEW t \in trades', t \notin trades, t.leg = l
      PROVE  \E o \in Fills : o.leg = l /\ t = TradeOf(o)
  <2>1. PICK o \in Fills : t = TradeOf(o)
    BY <1>1, <1>5
  <2>2. QED
    BY <1>2, <1>5, <2>1
<1>6. ASSUME NEW o \in Fills, o.leg = l, NEW t \in trades', t \notin trades, t.leg = l
      PROVE  t = TradeOf(o)
  <2>1. PICK c \in Fills : c.leg = l /\ t = TradeOf(c)
    BY <1>5, <1>6
  <2>2. c = o
    BY <1>6, <2>1 DEF Fills, Inv1, OneOrderPerWaitingLeg
  <2>3. QED
    BY <2>1, <2>2
<1>7. CASE \A o \in Fills : o.leg # l
  <2>1. TradesOf(l, TRUE)' = TradesOf(l, TRUE) /\ TradesOf(l, FALSE)' = TradesOf(l, FALSE)
    BY <1>4, <1>5, <1>7 DEF TradesOf
  <2>2. leg'[l] = leg[l]
    BY <1>7, FillOutcome
  <2>3. QED
    BY <1>3, <1>4, <2>1, <2>2 DEF Told
<1>8. ASSUME NEW o \in Fills, o.leg = l, o.closing PROVE Told(l)'
  <2>1. /\ leg[l].state = "PendingClose" /\ leg'[l].state = "Closed" /\ leg'[l].entry = leg[l].entry
        /\ leg'[l].exit = FillPrice(l, TRUE) /\ leg'[l].settled = leg[l].settled
    BY <1>8, FillOutcome DEF Same
  <2>2. TradeOf(o).closing = TRUE /\ TradeOf(o).leg = l /\ TradeOf(o) \in trades'
    BY <1>2, <1>8
  <2>3. TradesOf(l, TRUE) = {}
    BY <1>3, <2>1 DEF Told
  <2>4. TradesOf(l, TRUE)' = {TradeOf(o)} /\ TradesOf(l, FALSE)' = TradesOf(l, FALSE)
    BY <1>4, <1>6, <1>8, <2>2, <2>3 DEF TradesOf
  <2>5. Filled(leg[l]) /\ Filled(leg'[l]) /\ leg[l].settled = FALSE
    BY <1>3, <2>1, TypeParts DEF Told, Filled, Live, Inv1, Leg
  <2>6. TradeOf(o).price = leg'[l].exit /\ TradeOf(o).settled = leg'[l].settled
    BY <1>2, <1>8, <2>1, <2>5
  <2>7. QED
    BY <1>3, <1>4, <2>1, <2>2, <2>4, <2>5, <2>6 DEF Told
<1>9. ASSUME NEW o \in Fills, o.leg = l, ~o.closing PROVE Told(l)'
  <2>1. /\ leg[l].state = "PendingOpen" /\ leg'[l].state = "Open"
        /\ leg'[l].entry = FillPrice(l, FALSE) /\ leg'[l].settled = leg[l].settled
    BY <1>9, FillOutcome
  <2>2. TradeOf(o).closing = FALSE /\ TradeOf(o).leg = l /\ TradeOf(o) \in trades'
    BY <1>2, <1>9
  <2>3. TradesOf(l, FALSE) = {}
    BY <1>3, <2>1 DEF Told, Filled, Live
  <2>4. TradesOf(l, FALSE)' = {TradeOf(o)} /\ TradesOf(l, TRUE)' = TradesOf(l, TRUE)
    BY <1>4, <1>6, <1>9, <2>2, <2>3 DEF TradesOf
  <2>5. TradeOf(o).price = leg'[l].entry
    BY <1>2, <1>9, <2>1, <2>2
  <2>6. QED
    BY <1>3, <2>1, <2>2, <2>4, <2>5 DEF Told, Filled, Live
<1>10. QED
  BY <1>7, <1>8, <1>9

\* The legs a settlement closes, and what it writes to the log for one.
Expiring(expiry) == {l \in LegIds : Live(leg[l]) /\ Expiry[leg[l].inst] = expiry}

SettlementPrice(l, level) == Intrinsic(leg[l].inst, level)

SettlementCost(l, level) ==
  IF leg[l].qty > 0 /\ SettlementPrice(l, level) > 0 THEN ExerciseFee ELSE 0

SettlementOf(l, level) ==
  [leg |-> l, n |-> 0, closing |-> TRUE, signal |-> now, fill |-> now,
   price |-> SettlementPrice(l, level), cost |-> SettlementCost(l, level),
   fromRule |-> FALSE, settled |-> TRUE]

LEMMA SettleOutcome ==
  ASSUME Inv1, NEW expiry, NEW level \in Levels, SettleExpiry(expiry, level), NEW l \in LegIds
  PROVE  /\ l \in Expiring(expiry) =>
              /\ Live(leg[l]) /\ leg'[l].state = "Closed" /\ Same(l)
              /\ SettlementPrice(l, level) \in Nat /\ leg'[l].exit = SettlementPrice(l, level)
              /\ leg'[l].settled = TRUE
         /\ l \notin Expiring(expiry) => Unbooked(l)
         /\ leg'[l].orders = leg[l].orders
<1> DEFINE dropped   == {o \in pending : Expiry[leg[o.leg].inst] = expiry}
           withdrawn == {o.leg : o \in {d \in dropped : ~d.closing /\ leg[d.leg].state = "PendingOpen"}}
<1>1. leg'[l] = IF l \in Expiring(expiry) THEN SettledAt(leg[l], SettlementPrice(l, level))
                ELSE IF l \in withdrawn THEN InState(leg[l], "Cancelled") ELSE leg[l]
  BY DEF SettleExpiry, Expiring, SettlementPrice
<1>2. leg[l] \in Leg /\ leg[l].inst \in Instruments /\ "Cancelled" \in LegStates
  BY TypeParts DEF Inv1, LegStates
<1>3. SettlementPrice(l, level) \in Nat
  BY <1>2, IntrinsicType DEF SettlementPrice
<1>4. l \in Expiring(expiry) => Live(leg[l])
  BY DEF Expiring
<1>5. l \in withdrawn => leg[l].state = "PendingOpen"
  OBVIOUS
<1> HIDE DEF dropped, withdrawn
<1>6. CASE l \in Expiring(expiry)
  <2> DEFINE x == SettledAt(leg[l], SettlementPrice(l, level))
  <2>0. x.state = "Closed"
    BY <1>2, <1>3, TradedFacts
  <2>1. x.exit = SettlementPrice(l, level) /\ x.settled = TRUE /\ x.orders = leg[l].orders
    BY <1>2, PriceFields
  <2>2. x.inst = leg[l].inst /\ x.qty = leg[l].qty /\ x.entry = leg[l].entry
    BY <1>2, <1>3, UpdatesKeep
  <2>3. leg'[l] = x
    BY <1>1, <1>6
  <2> HIDE DEF x
  <2>4. QED
    BY <1>3, <1>4, <1>6, <2>0, <2>1, <2>2, <2>3 DEF Same
<1>7. CASE l \notin Expiring(expiry) /\ l \in withdrawn
  <2> DEFINE x == InState(leg[l], "Cancelled")
  <2>1. x.state = "Cancelled" /\ x.settled = leg[l].settled /\ x.orders = leg[l].orders
    BY <1>2, InStateFacts, StateFields
  <2>2. leg'[l] = x
    BY <1>1, <1>7
  <2> HIDE DEF x
  <2>3. QED
    BY <1>5, <1>7, <2>1, <2>2 DEF Unbooked, Filled, Live
<1>8. CASE l \notin Expiring(expiry) /\ l \notin withdrawn
  BY <1>1, <1>8 DEF Unbooked
<1>9. QED
  BY <1>6, <1>7, <1>8

LEMMA SettleTrades ==
  ASSUME NEW expiry, NEW level, SettleExpiry(expiry, level)
  PROVE  trades' = trades \cup {SettlementOf(l, level) : l \in Expiring(expiry)}
BY DEF SettleExpiry, Expiring, SettlementOf, SettlementCost, SettlementPrice

LEMMA ToldSettleExpiry ==
  ASSUME Inv1, TradeLog, NEW expiry, NEW level \in Levels, SettleExpiry(expiry, level), NEW l \in LegIds
  PROVE  Told(l)'
<1>1. trades' = trades \cup {SettlementOf(k, level) : k \in Expiring(expiry)}
  BY SettleTrades
<1>2. ASSUME NEW k
      PROVE  /\ SettlementOf(k, level).leg = k /\ SettlementOf(k, level).closing = TRUE
             /\ SettlementOf(k, level).price = SettlementPrice(k, level)
             /\ SettlementOf(k, level).settled = TRUE
  BY DEF SettlementOf
<1>3. Told(l)
  BY TradeLogByLeg
<1>4. trades \subseteq trades'
  BY <1>1
<1>5. ASSUME NEW t \in trades', t \notin trades, t.leg = l
      PROVE  l \in Expiring(expiry) /\ t = SettlementOf(l, level)
  <2>1. PICK k \in Expiring(expiry) : t = SettlementOf(k, level)
    BY <1>1, <1>5
  <2>2. k = l
    BY <1>2, <1>5, <2>1
  <2>3. QED
    BY <2>1, <2>2
<1>6. CASE l \in Expiring(expiry)
  <2>1. /\ Live(leg[l]) /\ leg'[l].state = "Closed" /\ leg'[l].entry = leg[l].entry
        /\ leg'[l].exit = SettlementPrice(l, level) /\ leg'[l].settled = TRUE
    BY <1>6, SettleOutcome DEF Same
  <2>2. TradesOf(l, TRUE) = {} /\ Filled(leg[l]) /\ Filled(leg'[l])
    BY <1>3, <2>1 DEF Told, Live, Filled
  <2>3. SettlementOf(l, level) \in trades'
    BY <1>1, <1>6
  <2>4. TradesOf(l, TRUE)' = {SettlementOf(l, level)} /\ TradesOf(l, FALSE)' = TradesOf(l, FALSE)
    BY <1>2, <1>4, <1>5, <2>2, <2>3 DEF TradesOf
  <2>5. QED
    BY <1>2, <1>3, <1>4, <2>1, <2>2, <2>3, <2>4 DEF Told
<1>7. CASE l \notin Expiring(expiry)
  <2>1. Unbooked(l)
    BY <1>7, SettleOutcome
  <2>2. TradesOf(l, TRUE)' = TradesOf(l, TRUE) /\ TradesOf(l, FALSE)' = TradesOf(l, FALSE)
    BY <1>4, <1>5, <1>7 DEF TradesOf
  <2>3. QED
    BY <1>3, <1>4, <2>1, <2>2 DEF Told, Unbooked
<1>8. QED
  BY <1>6, <1>7

LEMMA TradeLogNext ==
  ASSUME Inv1, TradeLog, [Next]_vars
  PROVE  TradeLog'
<1>1. \A l \in LegIds : Told(l)
  BY TradeLogByLeg
<1>2. ASSUME NEW l \in LegIds PROVE Told(l)'
  <2>1. CASE ProcessPending
    BY <2>1, ToldProcessPending
  <2>2. CASE \E expiry \in {Expiry[i] : i \in Instruments} \ {0}, level \in Levels :
               SettleExpiry(expiry, level)
    BY <2>2, ToldSettleExpiry
  <2>3. CASE ~ProcessPending /\ ~ \E expiry \in {Expiry[i] : i \in Instruments} \ {0}, level \in Levels :
                                     SettleExpiry(expiry, level)
    <3>1. UNCHANGED trades /\ Unbooked(l)
      BY <2>3, NothingElseTrades DEF money
    <3>2. QED
      BY <1>1, <3>1, ToldUnbooked
  <2>4. QED
    BY <2>1, <2>2, <2>3
<1>3. TradeLog' <=> \A l \in LegIds : Told(l)'
  BY DEF TradeLog, TradeLogMatchesLegs, Told
<1>4. QED
  BY <1>2, <1>3

LEMMA TradeLogInit == Init => TradeLog
<1> SUFFICES ASSUME Init PROVE TradeLog
  OBVIOUS
<1>1. trades = {} /\ \A l \in LegIds : leg[l] = Blank
  BY DEF Init
<1>2. Blank.state = "Absent" /\ Blank.settled = FALSE
  BY DEF Blank
<1>3. QED
  BY <1>1, <1>2 DEF TradeLog, TradeLogMatchesLegs, TradesOf, Filled, Live

LEMMA TradeLogHolds == Spec => []TradeLog
<1>1. Inv1 /\ TradeLog /\ [Next]_vars => TradeLog'
  BY TradeLogNext
<1>2. QED
  BY <1>1, TradeLogInit, Inv1Holds, PTL DEF Spec

\* The trade log records each leg's opening and its end once, at the leg's prices.
THEOREM TradeLogTellsLegs == Spec => []TradeLogMatchesLegs
<1>1. TradeLog => TradeLogMatchesLegs
  BY DEF TradeLog
<1>2. QED
  BY <1>1, TradeLogHolds, PTL

-----------------------------------------------------------------------------
(* No order is lost or counted twice.  Every action moves orders between     *)
(* working, filled and cancelled, and each order it sends is one more on one *)
(* leg: the sum moves by as much as the counts do.  That a slot not used yet *)
(* has sent nothing is what makes the first order of a leg its first.        *)

Done == {t \in trades : ~t.settled}

Submissions == [l \in LegIds |-> leg[l].orders]

OrderBook ==
  /\ IsFiniteSet(pending) /\ IsFiniteSet(trades) /\ cancelled \in Nat
  /\ \A l \in LegIds : leg[l].state = "Absent" => leg[l].orders = 0
  /\ OrdersConserved

LEMMA LegIdsFinite == IsFiniteSet(LegIds)
<1>1. IsFiniteSet(0 .. MaxPositions - 1) /\ IsFiniteSet(1 .. MaxLegs)
  BY Constants, FS_Interval
<1>2. QED
  BY <1>1, FS_Product DEF LegIds, PositionIds, LegIndexes

LEMMA ConservedAsSum ==
  OrdersConserved
    <=> Sum(Submissions, LegIds) = Cardinality(pending) + Cardinality(Done) + cancelled
BY DEF OrdersConserved, SumFunction, Sum, Submissions, Done

\* Orders sent, one for each leg of sent, orders gone from the pending list, and
\* the counts of those filled and cancelled.
LEMMA OrderFlow ==
  ASSUME Inv1, OrderBook, NEW sent \in SUBSET LegIds, NEW gone \in SUBSET pending, NEW new,
         \A l \in LegIds : leg'[l].orders = leg[l].orders + (IF l \in sent THEN 1 ELSE 0),
         \A l \in LegIds : leg'[l].state = "Absent" => leg[l].state = "Absent" /\ l \notin sent,
         pending' = (pending \ gone) \cup new, new \cap pending = {},
         IsFiniteSet(new), Cardinality(new) = Cardinality(sent),
         IsFiniteSet(trades'), cancelled' \in Nat,
         Cardinality(Done') + cancelled' = Cardinality(Done) + cancelled + Cardinality(gone)
  PROVE  OrderBook'
<1> DEFINE one == [l \in LegIds |-> IF l \in sent THEN 1 ELSE 0]
<1>1. \A l \in LegIds : leg[l].orders \in Nat
  BY TypeParts DEF Inv1, Leg
<1>2. Sum(one, LegIds) = Cardinality(sent)
  <2>1. (\A l \in sent : one[l] = 1) /\ (\A l \in LegIds \ sent : one[l] = 0)
    OBVIOUS
  <2> HIDE DEF one
  <2>2. QED
    BY <2>1, LegIdsFinite, SumIndicator
<1>3. Sum(Submissions', LegIds) = Sum(Submissions, LegIds) + Cardinality(sent)
  <2>1. \A l \in LegIds : Submissions[l] \in Int /\ one[l] \in Int
    BY <1>1 DEF Submissions
  <2>2. \A l \in LegIds : (Submissions')[l] = Submissions[l] + one[l]
    BY DEF Submissions
  <2> HIDE DEF one
  <2>3. QED
    BY <1>2, <2>1, <2>2, LegIdsFinite, SumPlus DEF Summable
<1>4. IsFiniteSet(pending') /\ Cardinality(pending') = Cardinality(pending) - Cardinality(gone) + Cardinality(sent)
  <2>1. IsFiniteSet(pending) /\ pending \cap gone = gone /\ (pending \ gone) \cap new = {}
    BY DEF OrderBook
  <2>2. IsFiniteSet(pending \ gone) /\ Cardinality(pending \ gone) = Cardinality(pending) - Cardinality(gone)
    <3>1. /\ IsFiniteSet(pending \ gone)
          /\ Cardinality(pending \ gone) = Cardinality(pending) - Cardinality(pending \cap gone)
      BY <2>1, FS_Difference
    <3>2. QED
      BY <2>1, <3>1
  <2>3. /\ IsFiniteSet((pending \ gone) \cup new)
        /\ Cardinality((pending \ gone) \cup new)
             = Cardinality(pending \ gone) + Cardinality(new) - Cardinality({})
    BY <2>1, <2>2, FS_Union
  <2>4. Cardinality(new) \in Nat /\ Cardinality(pending \ gone) \in Nat /\ Cardinality({}) = 0
    BY <2>2, FS_CardinalityType, FS_EmptySet
  <2>5. QED
    BY <2>2, <2>3, <2>4
<1>5. /\ Cardinality(pending) \in Nat /\ Cardinality(gone) \in Nat /\ Cardinality(sent) \in Nat
      /\ Cardinality(Done) \in Nat /\ Cardinality(Done') \in Nat
  <2>1. IsFiniteSet(gone) /\ IsFiniteSet(sent) /\ IsFiniteSet(pending) /\ IsFiniteSet(Done) /\ IsFiniteSet(Done')
    BY LegIdsFinite, FS_Subset DEF OrderBook, Done
  <2>2. QED
    BY <2>1, FS_CardinalityType
<1>6. Sum(Submissions, LegIds) = Cardinality(pending) + Cardinality(Done) + cancelled /\ cancelled \in Nat
  BY ConservedAsSum DEF OrderBook
<1>7. Sum(Submissions', LegIds) = Cardinality(pending') + Cardinality(Done') + cancelled'
  BY <1>3, <1>4, <1>5, <1>6
<1>8. OrdersConserved'
  BY <1>7 DEF OrdersConserved, SumFunction, Sum, Submissions, Done
<1>9. \A l \in LegIds : leg'[l].state = "Absent" => leg'[l].orders = 0
  BY DEF OrderBook
<1>10. QED
  BY <1>4, <1>8, <1>9 DEF OrderBook

\* Orders sent for different legs are different orders.
LEMMA NewOrders ==
  ASSUME NEW S \in SUBSET LegIds, NEW m, \A l \in S : m[l].leg = l
  PROVE  IsFiniteSet(ImageOf(m, S)) /\ Cardinality(ImageOf(m, S)) = Cardinality(S)
<1>1. IsFiniteSet(S)
  BY LegIdsFinite, FS_Subset
<1>2. \A k, l \in S : m[k] = m[l] => k = l
  OBVIOUS
<1>3. QED
  BY <1>1, <1>2, FiniteImage

LEMMA OrdersSubmitOpen ==
  ASSUME Inv1, OrderBook, NEW insts \in LegLists, NEW qty \in Lots, SubmitOpen(insts, qty)
  PROVE  OrderBook'
<1> DEFINE slots == {l \in LegIds : l[1] = size /\ l[2] <= Len(insts)}
           m     == [l \in slots |-> NewOrder(l, 0, FALSE, FALSE)]
           new   == ImageOf(m, slots)
<1>1. /\ pending' = pending \cup new /\ UNCHANGED <<trades, cancelled>>
      /\ \A l \in LegIds : leg'[l] = IF l \in slots THEN Submitted(insts[l[2]], qty) ELSE leg[l]
  BY DEF SubmitOpen, money, ImageOf
<1>2. \A l \in slots : m[l].leg = l
  BY DEF NewOrder
<1>3. \A l \in slots : leg[l].state = "Absent" /\ leg[l].orders = 0
  BY TypeParts, LegIdParts DEF Inv1, OrderBook
<1>4. \A l \in slots : leg'[l].orders = 1 /\ leg'[l].state = "PendingOpen"
  <2>1. TAKE l \in slots
  <2>2. insts \in Seq(Instruments) /\ qty \in Int /\ l[2] \in 1 .. Len(insts)
    BY Constants, LegIdParts DEF LegIndexes
  <2>3. insts[l[2]] \in Instruments
    BY <2>2
  <2>4. leg'[l] = Submitted(insts[l[2]], qty)
    BY <1>1
  <2>5. leg'[l].orders = 1
    BY <2>2, <2>3, <2>4, SubmittedFields
  <2>6. leg'[l].state = "PendingOpen"
    BY <2>2, <2>3, <2>4, SubmittedFacts
  <2>7. QED
    BY <2>5, <2>6
<1>5. slots \in SUBSET LegIds
  OBVIOUS
<1>6. new \cap pending = {}
  <2>1. ASSUME NEW o \in new, o \in pending PROVE FALSE
    <3>1. leg[o.leg].state = "Absent"
      BY <1>2, <1>3, <2>1 DEF ImageOf
    <3>2. leg[o.leg].state = Awaiting(o)
      BY <2>1 DEF Inv1, OneOrderPerWaitingLeg
    <3>3. QED
      BY <3>1, <3>2 DEF Awaiting
  <2>2. QED
    BY <2>1
<1> HIDE DEF m, slots
<1>7. IsFiniteSet(new) /\ Cardinality(new) = Cardinality(slots)
  BY <1>2, <1>5, NewOrders
<1> HIDE DEF new
<1>8. \A l \in LegIds :
        /\ leg'[l].orders = leg[l].orders + (IF l \in slots THEN 1 ELSE 0)
        /\ leg'[l].state = "Absent" => leg[l].state = "Absent" /\ l \notin slots
  <2>1. \A l \in LegIds : leg[l].orders \in Nat
    BY TypeParts DEF Inv1, Leg
  <2>2. QED
    BY <1>1, <1>3, <1>4, <2>1
<1>9. pending' = (pending \ {}) \cup new /\ {} \in SUBSET pending /\ Cardinality({}) = 0
  BY <1>1, FS_EmptySet
<1>10. Done' = Done /\ cancelled \in Nat /\ IsFiniteSet(trades') /\ Cardinality(Done) \in Nat
  <2>1. IsFiniteSet(Done)
    BY FS_Subset DEF Done, OrderBook
  <2>2. QED
    BY <1>1, <2>1, FS_CardinalityType DEF Done, OrderBook
<1>11. cancelled' \in Nat /\ Cardinality(Done') + cancelled' = Cardinality(Done) + cancelled + Cardinality({})
  BY <1>1, <1>9, <1>10
<1>12. QED
  BY <1>5, <1>6, <1>7, <1>8, <1>9, <1>10, <1>11, OrderFlow

LEMMA OrdersLeave ==
  ASSUME Inv1, OrderBook, NEW ps, NEW ls, NEW byRule \in BOOLEAN, Leave(ps, ls, byRule)
  PROVE  OrderBook'
<1> DEFINE dropped   == UnfilledOpenings(ps)
           withdrawn == {o.leg : o \in dropped}
           exits     == {l \in LegIds : (l[1] \in ps \/ l \in ls) /\ l \notin withdrawn /\ CanExit(leg[l])}
           m         == [l \in exits |-> NewOrder(l, leg[l].orders, TRUE, byRule)]
           new       == ImageOf(m, exits)
<1>1. /\ pending' = (pending \ dropped) \cup new /\ UNCHANGED trades
      /\ cancelled' = cancelled + Cardinality(dropped)
      /\ \A l \in LegIds : leg'[l] = IF l \in withdrawn THEN InState(leg[l], "Cancelled")
                                     ELSE IF l \in exits THEN Exiting(leg[l]) ELSE leg[l]
  BY DEF Leave, money, CountCancelled, ImageOf
<1>2. \A l \in exits : m[l].leg = l
  BY DEF NewOrder
<1>3. \A l \in exits : leg[l].state = "Open" /\ l \notin withdrawn
  BY DEF CanExit
<1>4. exits \in SUBSET LegIds /\ dropped \in SUBSET pending
  BY DEF UnfilledOpenings
<1>5. new \cap pending = {}
  <2>1. ASSUME NEW o \in new, o \in pending PROVE FALSE
    <3>1. leg[o.leg].state = "Open"
      BY <1>2, <1>3, <2>1 DEF ImageOf
    <3>2. leg[o.leg].state = Awaiting(o)
      BY <2>1 DEF Inv1, OneOrderPerWaitingLeg
    <3>3. QED
      BY <3>1, <3>2 DEF Awaiting
  <2>2. QED
    BY <2>1
<1> HIDE DEF m, exits
<1>6. IsFiniteSet(new) /\ Cardinality(new) = Cardinality(exits)
  BY <1>2, <1>4, NewOrders
<1> HIDE DEF new, withdrawn, dropped
<1>7. ASSUME NEW l \in LegIds
      PROVE  /\ leg'[l].orders = leg[l].orders + (IF l \in exits THEN 1 ELSE 0)
             /\ leg'[l].state = "Absent" => leg[l].state = "Absent" /\ l \notin exits
  <2>1. leg[l] \in Leg /\ leg[l].orders \in Nat
    BY TypeParts DEF Inv1, Leg
  <2>2. InState(leg[l], "Cancelled").orders = leg[l].orders /\ Exiting(leg[l]).orders = leg[l].orders + 1
    BY <2>1, StateFields
  <2>3. InState(leg[l], "Cancelled").state = "Cancelled" /\ Exiting(leg[l]).state = "PendingClose"
    BY <2>1, InStateFacts, ExitingFacts DEF LegStates
  <2>4. QED
    BY <1>1, <1>3, <2>1, <2>2, <2>3
<1>8. Done' = Done /\ cancelled \in Nat /\ IsFiniteSet(trades') /\ IsFiniteSet(dropped) /\ IsFiniteSet(Done)
  BY <1>1, <1>4, FS_Subset DEF Done, OrderBook
<1>9. Cardinality(dropped) \in Nat /\ Cardinality(Done) \in Nat
  BY <1>8, FS_CardinalityType
<1>10. cancelled' \in Nat /\ Cardinality(Done') + cancelled' = Cardinality(Done) + cancelled + Cardinality(dropped)
  BY <1>1, <1>8, <1>9
<1>11. QED
  BY <1>1, <1>4, <1>5, <1>6, <1>7, <1>8, <1>10, OrderFlow

-----------------------------------------------------------------------------
(* The trades an action writes are new, one for each order or settled leg.   *)

FillTrades == [o \in Fills |-> TradeOf(o)]

SettlementTrades(expiry, level) == [l \in Expiring(expiry) |-> SettlementOf(l, level)]

LEMMA FillTradesAreNew ==
  ASSUME Inv1, TradeLog, ProcessPending
  PROVE  /\ trades' = trades \cup ImageOf(FillTrades, Fills)
         /\ ImageOf(FillTrades, Fills) \cap trades = {}
         /\ \A o1, o2 \in Fills : FillTrades[o1] = FillTrades[o2] => o1 = o2
<1>1. trades' = trades \cup ImageOf(FillTrades, Fills)
  BY DEF ProcessPending, Fills, FillTrades, ImageOf
<1>2. \A o \in Fills : FillTrades[o].leg = o.leg /\ FillTrades[o].closing = o.closing
  BY DEF FillTrades, TradeOf
<1>3. ASSUME NEW o \in Fills, FillTrades[o] \in trades PROVE FALSE
  <2>1. o \in pending /\ o.leg \in LegIds /\ o.closing \in BOOLEAN
    BY TypeParts DEF Fills, Inv1
  <2>2. leg[o.leg].state = Awaiting(o) /\ Told(o.leg)
    BY <2>1, TradeLogByLeg DEF Inv1, OneOrderPerWaitingLeg
  <2>3. TradesOf(o.leg, o.closing) = {}
    BY <2>1, <2>2 DEF Told, Awaiting, Filled, Live
  <2>4. QED
    BY <1>2, <1>3, <2>3 DEF TradesOf
<1>4. \A o1, o2 \in Fills : FillTrades[o1] = FillTrades[o2] => o1 = o2
  BY <1>2 DEF Fills, Inv1, OneOrderPerWaitingLeg
<1>5. QED
  BY <1>1, <1>3, <1>4 DEF ImageOf

LEMMA SettlementTradesAreNew ==
  ASSUME Inv1, TradeLog, NEW expiry, NEW level \in Levels, SettleExpiry(expiry, level)
  PROVE  /\ trades' = trades \cup ImageOf(SettlementTrades(expiry, level), Expiring(expiry))
         /\ ImageOf(SettlementTrades(expiry, level), Expiring(expiry)) \cap trades = {}
         /\ \A k, l \in Expiring(expiry) :
              SettlementTrades(expiry, level)[k] = SettlementTrades(expiry, level)[l] => k = l
<1> DEFINE m == SettlementTrades(expiry, level)
<1>1. \A l \in Expiring(expiry) : m[l] = SettlementOf(l, level)
  BY DEF SettlementTrades
<1> HIDE DEF m
<1>2. \A l \in Expiring(expiry) : m[l].leg = l /\ m[l].closing = TRUE
  <2>1. \A l \in Expiring(expiry) : SettlementOf(l, level).leg = l /\ SettlementOf(l, level).closing = TRUE
    BY DEF SettlementOf
  <2>2. QED
    BY <1>1, <2>1
<1>3. trades' = trades \cup ImageOf(m, Expiring(expiry))
  BY <1>1, SettleTrades DEF ImageOf
<1>4. ASSUME NEW l \in Expiring(expiry), m[l] \in trades PROVE FALSE
  <2>1. l \in LegIds /\ Live(leg[l]) /\ Told(l)
    BY TradeLogByLeg DEF Expiring
  <2>2. TradesOf(l, TRUE) = {}
    BY <2>1 DEF Told, Live
  <2>3. QED
    BY <1>2, <1>4, <2>2 DEF TradesOf
<1>5. \A k, l \in Expiring(expiry) : m[k] = m[l] => k = l
  BY <1>2
<1>6. ImageOf(m, Expiring(expiry)) \cap trades = {}
  BY <1>4 DEF ImageOf
<1>7. QED
  BY <1>3, <1>5, <1>6 DEF m

LEMMA ExpiringFinite == ASSUME NEW expiry PROVE IsFiniteSet(Expiring(expiry))
BY LegIdsFinite, FS_Subset DEF Expiring

\* Only orders leave the pending list: what was sent stays as it was.
LEMMA NothingSent ==
  ASSUME Inv1, OrderBook, NEW gone \in SUBSET pending, pending' = pending \ gone,
         \A l \in LegIds : leg'[l].orders = leg[l].orders,
         \A l \in LegIds : leg'[l].state = "Absent" => leg[l].state = "Absent",
         IsFiniteSet(trades'), cancelled' \in Nat,
         Cardinality(Done') + cancelled' = Cardinality(Done) + cancelled + Cardinality(gone)
  PROVE  OrderBook'
<1>1. \A l \in LegIds : leg[l].orders \in Nat
  BY TypeParts DEF Inv1, Leg
<1>2. \A l \in LegIds : leg'[l].orders = leg[l].orders + (IF l \in {} THEN 1 ELSE 0)
  BY <1>1
<1>3. /\ pending' = (pending \ gone) \cup {} /\ {} \cap pending = {} /\ {} \in SUBSET LegIds
      /\ \A l \in LegIds : leg'[l].state = "Absent" => leg[l].state = "Absent" /\ l \notin {}
  OBVIOUS
<1>4. IsFiniteSet({}) /\ Cardinality({}) = Cardinality({})
  BY FS_EmptySet
<1>5. QED
  BY <1>2, <1>3, <1>4, OrderFlow

LEMMA OrdersProcessPending ==
  ASSUME Inv1, TradeLog, OrderBook, ProcessPending
  PROVE  OrderBook'
<1> DEFINE im == ImageOf(FillTrades, Fills)
<1>1. Fills \in SUBSET pending /\ pending' = pending \ Fills /\ cancelled' = cancelled
  BY DEF ProcessPending, Fills
<1>2. trades' = trades \cup im /\ im \cap trades = {}
  BY FillTradesAreNew
<1>3. IsFiniteSet(Fills) /\ IsFiniteSet(Done) /\ IsFiniteSet(trades) /\ cancelled \in Nat
  BY <1>1, FS_Subset DEF OrderBook, Done
<1>4. IsFiniteSet(im) /\ Cardinality(im) = Cardinality(Fills)
  <2>1. \A o1, o2 \in Fills : FillTrades[o1] = FillTrades[o2] => o1 = o2
    BY FillTradesAreNew
  <2>2. QED
    BY <1>3, <2>1, FiniteImage
<1>5. \A t \in im : t.settled = FALSE
  BY DEF ImageOf, FillTrades, TradeOf
<1> HIDE DEF im
<1>6. Done' = Done \cup im /\ Done \cap im = {}
  BY <1>2, <1>5 DEF Done
<1>7. IsFiniteSet(trades')
  BY <1>2, <1>3, <1>4, FS_Union
<1>8. Cardinality(Done') = Cardinality(Done) + Cardinality(Fills)
  <2>1. Cardinality(Done \cup im) = Cardinality(Done) + Cardinality(im) - Cardinality(Done \cap im)
    BY <1>3, <1>4, FS_Union
  <2>2. Cardinality(Done) \in Nat /\ Cardinality(im) \in Nat /\ Cardinality({}) = 0
    BY <1>3, <1>4, FS_CardinalityType, FS_EmptySet
  <2>3. Cardinality(Done \cap im) = 0 /\ Cardinality(Done') = Cardinality(Done \cup im)
    BY <1>6, <2>2
  <2>4. QED
    BY <1>4, <2>1, <2>2, <2>3
<1>9. Cardinality(Done) \in Nat /\ Cardinality(Fills) \in Nat
  BY <1>3, FS_CardinalityType
<1>10. cancelled' \in Nat /\ Cardinality(Done') + cancelled' = Cardinality(Done) + cancelled + Cardinality(Fills)
  BY <1>1, <1>3, <1>8, <1>9
<1>11. \A l \in LegIds : leg'[l].orders = leg[l].orders
  BY FillOutcome
<1>12. \A l \in LegIds : leg'[l].state = "Absent" => leg[l].state = "Absent"
  BY ProcessPendingEffect
<1>13. QED
  BY <1>1, <1>7, <1>10, <1>11, <1>12, NothingSent

LEMMA OrdersSettleExpiry ==
  ASSUME Inv1, TradeLog, OrderBook, NEW expiry, NEW level \in Levels, SettleExpiry(expiry, level)
  PROVE  OrderBook'
<1> DEFINE dropped == {o \in pending : Expiry[leg[o.leg].inst] = expiry}
           im == ImageOf(SettlementTrades(expiry, level), Expiring(expiry))
<1>1. dropped \in SUBSET pending /\ pending' = pending \ dropped
      /\ cancelled' = cancelled + Cardinality(dropped)
  BY DEF SettleExpiry, CountCancelled
<1> HIDE DEF dropped
<1>2. trades' = trades \cup im
  BY SettlementTradesAreNew
<1>3. IsFiniteSet(dropped) /\ IsFiniteSet(Done) /\ IsFiniteSet(trades) /\ cancelled \in Nat
  BY <1>1, FS_Subset DEF OrderBook, Done
<1>4. IsFiniteSet(im)
  BY ExpiringFinite, FiniteImage
<1>5. \A t \in im : t.settled = TRUE
  BY DEF ImageOf, SettlementTrades, SettlementOf
<1> HIDE DEF im
<1>6. Done' = Done
  BY <1>2, <1>5 DEF Done
<1>7. IsFiniteSet(trades')
  BY <1>2, <1>3, <1>4, FS_Union
<1>8. Cardinality(Done) \in Nat /\ Cardinality(dropped) \in Nat
  BY <1>3, FS_CardinalityType
<1>9. cancelled' \in Nat /\ Cardinality(Done') + cancelled' = Cardinality(Done) + cancelled + Cardinality(dropped)
  BY <1>1, <1>3, <1>6, <1>8
<1>10. \A l \in LegIds : leg'[l].orders = leg[l].orders
  BY SettleOutcome
<1>11. \A l \in LegIds : leg'[l].state = "Absent" => leg[l].state = "Absent"
  BY SettleExpiryEffect
<1>12. QED
  BY <1>1, <1>7, <1>9, <1>10, <1>11, NothingSent

LEMMA OrdersCancelWorkingOrders ==
  ASSUME Inv1, OrderBook, CancelWorkingOrders
  PROVE  OrderBook'
<1>1. pending' = pending \ pending /\ cancelled' = cancelled + Cardinality(pending) /\ UNCHANGED trades
  BY DEF CancelWorkingOrders, CountCancelled, money
<1>2. IsFiniteSet(pending) /\ IsFiniteSet(Done) /\ IsFiniteSet(trades) /\ cancelled \in Nat
  BY FS_Subset DEF OrderBook, Done
<1>3. Cardinality(pending) \in Nat /\ Cardinality(Done) \in Nat /\ Done' = Done
  BY <1>1, <1>2, FS_CardinalityType DEF Done
<1>4. cancelled' \in Nat /\ Cardinality(Done') + cancelled' = Cardinality(Done) + cancelled + Cardinality(pending)
  BY <1>1, <1>2, <1>3
<1>5. ASSUME NEW l \in LegIds
      PROVE  /\ leg'[l].orders = leg[l].orders
             /\ leg'[l].state = "Absent" => leg[l].state = "Absent"
  <2>1. leg[l] \in Leg
    BY TypeParts DEF Inv1
  <2>2. leg'[l] \in {leg[l], InState(leg[l], "Cancelled"), InState(leg[l], "Open")}
    BY DEF CancelWorkingOrders
  <2>3. leg'[l].orders = leg[l].orders
    BY <2>1, <2>2, StateFields
  <2>4. QED
    BY <2>3, CancelWorkingOrdersEffect
<1>6. pending \in SUBSET pending /\ IsFiniteSet(trades')
  BY <1>1, <1>2
<1>7. QED
  BY <1>1, <1>4, <1>5, <1>6, NothingSent

LEMMA OrdersRefreshMarks ==
  ASSUME Inv1, OrderBook, RefreshMarks
  PROVE  OrderBook'
<1>1. pending' = pending \ {} /\ UNCHANGED <<trades, cancelled>>
  BY DEF RefreshMarks, money
<1>2. IsFiniteSet(Done) /\ IsFiniteSet(trades) /\ cancelled \in Nat /\ Cardinality({}) = 0
  BY FS_Subset, FS_EmptySet DEF OrderBook, Done
<1>3. Cardinality(Done) \in Nat /\ Done' = Done
  BY <1>1, <1>2, FS_CardinalityType DEF Done
<1>4. cancelled' \in Nat /\ Cardinality(Done') + cancelled' = Cardinality(Done) + cancelled + Cardinality({})
  BY <1>1, <1>2, <1>3
<1>5. ASSUME NEW l \in LegIds
      PROVE  /\ leg'[l].orders = leg[l].orders
             /\ leg'[l].state = "Absent" => leg[l].state = "Absent"
  <2>1. leg[l] \in Leg
    BY TypeParts DEF Inv1
  <2>2. leg'[l].orders = leg[l].orders
    BY <2>1, PriceFields DEF RefreshMarks
  <2>3. QED
    BY <2>2, RefreshMarksEffect
<1>6. {} \in SUBSET pending /\ IsFiniteSet(trades')
  BY <1>1, <1>2
<1>7. QED
  BY <1>1, <1>4, <1>5, <1>6, NothingSent

LEMMA OrdersNext ==
  ASSUME Inv1, TradeLog, OrderBook, [Next]_vars
  PROVE  OrderBook'
<1>1. CASE UNCHANGED <<leg, pending, trades, cancelled>>
  BY <1>1 DEF OrderBook, OrdersConserved
<1>2. CASE \E t \in now .. MaxTime, q \in [Instruments -> Quotes \cup {NoQuote}] : Observe(t, q)
  BY <1>1, <1>2 DEF Observe, money
<1>3. CASE Strategy
  <2>1. CASE \E insts \in LegLists, qty \in Lots : SubmitOpen(insts, qty)
    BY <2>1, OrdersSubmitOpen
  <2>2. CASE (\E p \in PositionIds : SubmitClose(p)) \/ (\E k \in LegIds : SubmitCloseLeg(k))
    <3>1. PICK ps, ls : Leave(ps, ls, FALSE)
      BY <2>2 DEF SubmitClose, SubmitCloseLeg
    <3>2. QED
      BY <3>1, OrdersLeave
  <2>3. CASE \E p \in PositionIds, m \in RuleMenu : AttachRule(p, m)
    BY <1>1, <2>3 DEF AttachRule, money
  <2>4. QED
    BY <1>3, <2>1, <2>2, <2>3 DEF Strategy
<1>4. CASE ProcessPending
  BY <1>4, OrdersProcessPending
<1>5. CASE RefreshMarks
  BY <1>5, OrdersRefreshMarks
<1>6. CASE ProcessRiskRules
  BY <1>6, OrdersLeave DEF ProcessRiskRules
<1>7. CASE \E expiry \in {Expiry[i] : i \in Instruments} \ {0}, level \in Levels : SettleExpiry(expiry, level)
  BY <1>7, OrdersSettleExpiry
<1>8. CASE CancelWorkingOrders
  BY <1>8, OrdersCancelWorkingOrders
<1>9. CASE UNCHANGED vars
  BY <1>1, <1>9 DEF vars
<1>10. QED
  BY <1>2, <1>3, <1>4, <1>5, <1>6, <1>7, <1>8, <1>9 DEF Next

LEMMA OrdersInit == Init => OrderBook
<1> SUFFICES ASSUME Init PROVE OrderBook
  OBVIOUS
<1>1. pending = {} /\ trades = {} /\ cancelled = 0 /\ \A l \in LegIds : leg[l] = Blank
  BY DEF Init
<1>2. Blank.orders = 0
  BY DEF Blank
<1>3. IsFiniteSet({}) /\ Cardinality({}) = 0 /\ Done = {}
  BY <1>1, FS_EmptySet DEF Done
<1>4. Sum(Submissions, LegIds) = 0
  <2>1. {} \in SUBSET LegIds
    OBVIOUS
  <2>2. \A l \in LegIds \ {} : Submissions[l] = 0
    BY <1>1, <1>2 DEF Submissions
  <2>3. Sum(Submissions, LegIds) = Cardinality({})
    BY <2>1, <2>2, LegIdsFinite, SumIndicator
  <2>4. QED
    BY <1>3, <2>3
<1>5. OrdersConserved
  BY <1>1, <1>3, <1>4, ConservedAsSum
<1>6. QED
  BY <1>1, <1>2, <1>3, <1>5 DEF OrderBook

LEMMA OrderBookHolds == Spec => []OrderBook
<1>1. Inv1 /\ TradeLog /\ OrderBook /\ [Next]_vars => OrderBook'
  BY OrdersNext
<1>2. QED
  BY <1>1, OrdersInit, Inv1Holds, TradeLogHolds, PTL DEF Spec

\* Every order ever sent is working, was filled, or was counted as cancelled, and
\* no more than one of these: the loops that rebuild the pending list lose none.
THEOREM NoOrderIsLost == Spec => []OrdersConserved
<1>1. OrderBook => OrdersConserved
  BY DEF OrderBook
<1>2. QED
  BY <1>1, OrderBookHolds, PTL

-----------------------------------------------------------------------------
(* The money.  A closed leg has made what it was sold for less what it cost,  *)
(* and the realised P&L is the sum of that over the closed legs; the costs   *)
(* are the sum over the trades.  This is kept by every step.  That the sum   *)
(* over the legs is the sum over the trade log then follows from the log     *)
(* telling each leg's story once.                                            *)

ClosedLegs == {l \in LegIds : leg[l].state = "Closed"}
HeldLegs   == {l \in LegIds : Live(leg[l])}

GainOf == [l \in LegIds |-> Gain(leg[l], leg[l].exit)]
CostOf == [t \in trades |-> t.cost]

Books ==
  /\ realized = Sum(GainOf, ClosedLegs)
  /\ costs = Sum(CostOf, trades)

LEMMA LegNumbers ==
  ASSUME Inv1, NEW l \in LegIds
  PROVE  leg[l].entry \in Nat /\ leg[l].exit \in Nat /\ leg[l].qty \in Int
BY TypeParts DEF Inv1, Leg

LEMMA GainType ==
  ASSUME NEW lg, NEW price \in Int, lg.entry \in Int, lg.qty \in Int
  PROVE  Gain(lg, price) \in Int
<1>1. price - lg.entry \in Int
  OBVIOUS
<1>2. QED
  BY <1>1 DEF Gain

LEMMA GainOfType ==
  ASSUME Inv1
  PROVE  /\ \A l \in LegIds : GainOf[l] \in Int
         /\ IsFiniteSet(ClosedLegs) /\ Summable(GainOf, ClosedLegs)
<1>1. ASSUME NEW l \in LegIds PROVE GainOf[l] \in Int
  <2>1. Gain(leg[l], leg[l].exit) \in Int
    BY LegNumbers, GainType
  <2>2. QED
    BY <2>1 DEF GainOf
<1>2. IsFiniteSet(ClosedLegs)
  BY LegIdsFinite, FS_Subset DEF ClosedLegs
<1>3. QED
  BY <1>1, <1>2 DEF Summable, ClosedLegs

LEMMA CostOfType ==
  ASSUME Inv1, OrderBook
  PROVE  Summable(CostOf, trades)
<1>1. \A t \in trades : CostOf[t] \in Int
  BY DEF Inv1, TypeOK, Trade, CostOf
<1>2. QED
  BY <1>1 DEF Summable, OrderBook

\* The same, of the next state.
LEMMA TypesNext ==
  /\ Inv1' => (\A l \in LegIds : (GainOf')[l] \in Int) /\ Summable(GainOf', ClosedLegs')
  /\ Inv1' /\ OrderBook' => Summable(CostOf', trades')
<1>1. Inv1 => (\A l \in LegIds : GainOf[l] \in Int) /\ Summable(GainOf, ClosedLegs)
  BY GainOfType
<1>2. Inv1 /\ OrderBook => Summable(CostOf, trades)
  BY CostOfType
<1>3. /\ Inv1' => ((\A l \in LegIds : GainOf[l] \in Int) /\ Summable(GainOf, ClosedLegs))'
      /\ (Inv1 /\ OrderBook)' => Summable(CostOf, trades)'
  BY <1>1, <1>2, PTL
<1>4. QED
  BY <1>3 DEF Summable

\* A closed leg's gain is settled: it stays while the leg does.
LEMMA GainStays ==
  ASSUME NEW l \in LegIds, leg'[l].exit = leg[l].exit, leg'[l].entry = leg[l].entry,
         leg'[l].qty = leg[l].qty
  PROVE  (GainOf')[l] = GainOf[l]
BY DEF GainOf, Gain

LEMMA BooksUnbooked ==
  ASSUME Inv1, Books, UNCHANGED money, \A l \in LegIds : Unbooked(l)
  PROVE  Books'
<1>1. ClosedLegs' = ClosedLegs
  BY DEF ClosedLegs, Unbooked
<1>2. ASSUME NEW l \in ClosedLegs PROVE (GainOf')[l] = GainOf[l]
  <2>1. l \in LegIds /\ leg[l].state = "Closed" /\ Unbooked(l)
    BY DEF ClosedLegs
  <2>2. QED
    BY <2>1, GainStays DEF Unbooked, Filled
<1>3. Sum(GainOf', ClosedLegs) = Sum(GainOf, ClosedLegs)
  BY <1>2, GainOfType, SumSame
<1>4. CostOf' = CostOf /\ trades' = trades /\ realized' = realized /\ costs' = costs
  BY DEF CostOf, money
<1>5. QED
  BY <1>1, <1>3, <1>4 DEF Books

\* A step that closes legs and writes trades books both: the gains of the legs it
\* closes, and the costs of the trades it writes.
LEMMA BooksGrow ==
  ASSUME Inv1, Inv1', OrderBook, OrderBook', Books,
         NEW ended \in SUBSET LegIds, NEW new,
         ClosedLegs' = ClosedLegs \cup ended, ClosedLegs \cap ended = {},
         \A l \in ClosedLegs : (GainOf')[l] = GainOf[l],
         trades' = trades \cup new, new \cap trades = {},
         realized' = realized + Sum(GainOf', ended),
         costs' = costs + Sum(CostOf', new)
  PROVE  Books'
<1>1. Summable(GainOf, ClosedLegs) /\ Summable(GainOf', ClosedLegs') /\ Summable(CostOf, trades)
  BY GainOfType, CostOfType, TypesNext
<1>2. Summable(CostOf', trades')
  BY TypesNext
<1>3. /\ Summable(GainOf', ClosedLegs) /\ Summable(GainOf', ended)
      /\ Summable(CostOf', trades) /\ Summable(CostOf', new)
  BY <1>1, <1>2, SubsetSummable
<1>4. Sum(GainOf', ClosedLegs') = Sum(GainOf', ClosedLegs) + Sum(GainOf', ended)
  BY <1>3, SumUnion
<1>5. Sum(GainOf', ClosedLegs) = Sum(GainOf, ClosedLegs)
  BY <1>1, SumSame
<1>6. Sum(CostOf', trades') = Sum(CostOf', trades) + Sum(CostOf', new)
  <2>1. trades \cap new = {}
    OBVIOUS
  <2>2. Sum(CostOf', trades \cup new) = Sum(CostOf', trades) + Sum(CostOf', new)
    BY <1>3, <2>1, SumUnion
  <2>3. QED
    BY <2>2
<1>7. Sum(CostOf', trades) = Sum(CostOf, trades)
  <2>1. \A t \in trades : (CostOf')[t] = CostOf[t]
    BY DEF CostOf
  <2>2. QED
    BY <1>1, <2>1, SumSame
<1>8. QED
  BY <1>4, <1>5, <1>6, <1>7 DEF Books

LEMMA BooksProcessPending ==
  ASSUME Inv1, Inv1', TradeLog, OrderBook, OrderBook', Books, ProcessPending
  PROVE  Books'
<1> DEFINE legs  == [o \in Closes |-> o.leg]
           gains == [o \in Closes |-> Gain(leg[o.leg], FillPrice(o.leg, TRUE))]
           ended == ImageOf(legs, Closes)
           im    == ImageOf(FillTrades, Fills)
           fees  == [o \in Fills |-> Fee]
<1>1. realized' = realized + Sum(gains, Closes) /\ costs' = costs + Fee * Cardinality(Fills)
  BY DEF ProcessPending, Closes, Fills, SumFunction, Sum
<1>2. trades' = trades \cup im /\ im \cap trades = {}
  BY FillTradesAreNew
<1>3. \A o \in Closes : o \in Fills /\ o \in pending /\ o.leg \in LegIds /\ o.closing
  BY TypeParts DEF Closes, Fills, Inv1
<1>4. IsFiniteSet(Fills) /\ IsFiniteSet(Closes)
  BY FS_Subset DEF OrderBook, Fills, Closes
\* Each exit filled ends its own leg, and books that leg's gain.
<1>5. ASSUME NEW o \in Closes
      PROVE  /\ leg[o.leg].state = "PendingClose" /\ leg'[o.leg].state = "Closed"
             /\ (GainOf')[o.leg] = gains[o] /\ (GainOf')[o.leg] \in Int
  <2>1. /\ leg[o.leg].state = "PendingClose" /\ leg'[o.leg].state = "Closed" /\ Same(o.leg)
        /\ leg'[o.leg].exit = FillPrice(o.leg, TRUE)
    BY <1>3, FillOutcome
  <2>2. (GainOf')[o.leg] = gains[o]
    BY <1>3, <2>1 DEF GainOf, Gain, Same
  <2>3. \A l \in LegIds : (GainOf')[l] \in Int
    BY TypesNext
  <2>4. QED
    BY <1>3, <2>1, <2>2, <2>3
<1>6. ended \in SUBSET LegIds /\ \A l \in LegIds : l \in ended <=> \E o \in Closes : o.leg = l
  BY <1>3 DEF ImageOf
<1>7. ASSUME NEW l \in LegIds, l \notin ended
      PROVE  leg'[l].state = "Closed" <=> leg[l].state = "Closed"
  <2>1. \A o \in Fills : o.leg = l => ~o.closing
    BY <1>6, <1>7 DEF Closes
  <2>2. CASE \E o \in Fills : o.leg = l
    BY <2>1, <2>2, FillOutcome
  <2>3. CASE \A o \in Fills : o.leg # l
    BY <2>3, FillOutcome
  <2>4. QED
    BY <2>2, <2>3
<1>8. ClosedLegs' = ClosedLegs \cup ended /\ ClosedLegs \cap ended = {}
  <2>1. ASSUME NEW l \in LegIds
        PROVE  /\ l \in ClosedLegs' <=> l \in ClosedLegs \/ l \in ended
               /\ ~(l \in ClosedLegs /\ l \in ended)
    <3>1. CASE l \in ended
      <4>1. PICK o \in Closes : o.leg = l
        BY <1>6, <3>1
      <4>2. QED
        BY <1>5, <3>1, <4>1 DEF ClosedLegs
    <3>2. CASE l \notin ended
      BY <1>7, <3>2 DEF ClosedLegs
    <3>3. QED
      BY <3>1, <3>2
  <2>2. ClosedLegs \subseteq LegIds /\ ClosedLegs' \subseteq LegIds
    BY DEF ClosedLegs
  <2>3. QED
    BY <1>6, <2>1, <2>2
<1>9. ASSUME NEW l \in ClosedLegs PROVE (GainOf')[l] = GainOf[l]
  <2>1. l \in LegIds /\ leg[l].state = "Closed"
    BY DEF ClosedLegs
  <2>2. leg'[l] = leg[l]
    BY <2>1, ProcessPendingEffect
  <2>3. QED
    BY <2>1, <2>2, GainStays
<1>10. Sum(GainOf', ended) = Sum(gains, Closes)
  <2>1. \A x, y \in Closes : legs[x] = legs[y] => x = y
    BY <1>3 DEF Inv1, OneOrderPerWaitingLeg
  <2>2. \A o \in Closes : (GainOf')[legs[o]] \in Int /\ gains[o] = (GainOf')[legs[o]]
    BY <1>5
  <2> HIDE DEF legs, gains
  <2>3. QED
    BY <1>4, <2>1, <2>2, SumImage
\* Each fill writes one trade, at the fee.
<1>11. Sum(CostOf', im) = Fee * Cardinality(Fills)
  <2>1. \A o \in Fills : (CostOf')[FillTrades[o]] = Fee /\ fees[o] = Fee
    <3>1. \A o \in Fills : FillTrades[o] \in trades' /\ FillTrades[o].cost = Fee
      BY <1>2 DEF ImageOf, FillTrades, TradeOf
    <3>2. QED
      BY <3>1 DEF CostOf
  <2>2. Fee \in Int
    BY Constants
  <2>3. \A x, y \in Fills : FillTrades[x] = FillTrades[y] => x = y
    BY FillTradesAreNew
  <2> HIDE DEF fees
  <2>4. Sum(CostOf', im) = Sum(fees, Fills)
    BY <1>4, <2>1, <2>2, <2>3, SumImage
  <2>5. Sum(fees, Fills) = Fee * Cardinality(Fills)
    BY <1>4, <2>1, <2>2, SumConstant
  <2>6. QED
    BY <2>4, <2>5
<1> HIDE DEF legs, gains, ended, im
<1>12. QED
  BY <1>1, <1>2, <1>6, <1>8, <1>9, <1>10, <1>11, BooksGrow

LEMMA BooksSettleExpiry ==
  ASSUME Inv1, Inv1', TradeLog, OrderBook, OrderBook', Books,
         NEW expiry, NEW level \in Levels, SettleExpiry(expiry, level)
  PROVE  Books'
<1> DEFINE m     == SettlementTrades(expiry, level)
           ended == Expiring(expiry)
           gains == [l \in ended |-> Gain(leg[l], SettlementPrice(l, level))]
           fees  == [l \in ended |-> SettlementCost(l, level)]
           im    == ImageOf(m, ended)
<1>1. realized' = realized + Sum(gains, ended) /\ costs' = costs + Sum(fees, ended)
  BY DEF SettleExpiry, Expiring, SettlementPrice, SettlementCost, SumFunction, Sum
<1>2. /\ trades' = trades \cup im /\ im \cap trades = {}
      /\ \A k, l \in ended : m[k] = m[l] => k = l
  BY SettlementTradesAreNew
<1>3. \A l \in ended : m[l].cost = fees[l] /\ m[l] \in im
  BY DEF SettlementTrades, SettlementOf, ImageOf
<1>4. IsFiniteSet(ended) /\ ended \in SUBSET LegIds
  BY ExpiringFinite DEF Expiring
<1>5. ASSUME NEW l \in LegIds
      PROVE  /\ l \in ended => leg[l].state # "Closed" /\ leg'[l].state = "Closed" /\ (GainOf')[l] = gains[l]
             /\ l \notin ended => (leg'[l].state = "Closed" <=> leg[l].state = "Closed")
  <2>1. CASE l \in ended
    <3>1. /\ Live(leg[l]) /\ leg'[l].state = "Closed" /\ Same(l)
          /\ leg'[l].exit = SettlementPrice(l, level)
      BY <2>1, SettleOutcome
    <3>2. (GainOf')[l] = gains[l]
      BY <2>1, <3>1 DEF GainOf, Gain, Same
    <3>3. QED
      BY <2>1, <3>1, <3>2 DEF Live
  <2>2. CASE l \notin ended
    BY <2>2, SettleOutcome DEF Unbooked
  <2>3. QED
    BY <2>1, <2>2
<1> HIDE DEF m, ended, gains, fees
<1>6. ClosedLegs' = ClosedLegs \cup ended /\ ClosedLegs \cap ended = {}
  BY <1>4, <1>5 DEF ClosedLegs
<1>7. ASSUME NEW l \in ClosedLegs PROVE (GainOf')[l] = GainOf[l]
  <2>1. l \in LegIds /\ leg[l].state = "Closed" /\ ~Live(leg[l])
    BY DEF ClosedLegs, Live
  <2>2. leg'[l] = leg[l]
    BY <2>1, SettleExpiryEffect
  <2>3. QED
    BY <2>1, <2>2, GainStays
<1>8. Sum(GainOf', ended) = Sum(gains, ended)
  <2>1. \A l \in LegIds : (GainOf')[l] \in Int
    BY TypesNext
  <2>2. Summable(GainOf', ended) /\ \A l \in ended : gains[l] = (GainOf')[l]
    BY <1>4, <1>5, <2>1 DEF Summable
  <2>3. QED
    BY <2>2, SumSame
<1>9. Sum(CostOf', im) = Sum(fees, ended)
  <2>1. \A t \in trades' : t.cost \in Int /\ (CostOf')[t] = t.cost
    BY DEF Inv1, TypeOK, Trade, CostOf
  <2>2. \A l \in ended : (CostOf')[m[l]] \in Int /\ fees[l] = (CostOf')[m[l]]
    BY <1>2, <1>3, <2>1
  <2>3. QED
    BY <1>2, <1>4, <2>2, SumImage
<1> HIDE DEF im
<1>10. QED
  BY <1>1, <1>2, <1>4, <1>6, <1>7, <1>8, <1>9, BooksGrow

LEMMA BooksNext ==
  ASSUME Inv1, Inv1', TradeLog, OrderBook, OrderBook', Books, [Next]_vars
  PROVE  Books'
<1>1. CASE ProcessPending
  BY <1>1, BooksProcessPending
<1>2. CASE \E expiry \in {Expiry[i] : i \in Instruments} \ {0}, level \in Levels : SettleExpiry(expiry, level)
  BY <1>2, BooksSettleExpiry
<1>3. CASE ~ProcessPending /\ ~ \E expiry \in {Expiry[i] : i \in Instruments} \ {0}, level \in Levels :
                                   SettleExpiry(expiry, level)
  BY <1>3, NothingElseTrades, BooksUnbooked
<1>4. QED
  BY <1>1, <1>2, <1>3

LEMMA BooksInit == Init => Books
<1> SUFFICES ASSUME Init PROVE Books
  OBVIOUS
<1>1. trades = {} /\ realized = 0 /\ costs = 0 /\ \A l \in LegIds : leg[l].state = "Absent"
  BY BlankType DEF Init
<1>2. ClosedLegs = {}
  BY <1>1 DEF ClosedLegs
<1>3. QED
  BY <1>1, <1>2, SumEmpty DEF Books

LEMMA BooksHold == Spec => []Books
<1>1. Inv1 /\ Inv1' /\ TradeLog /\ OrderBook /\ OrderBook' /\ Books /\ [Next]_vars => Books'
  BY BooksNext
<1>2. QED
  BY <1>1, BooksInit, Inv1Holds, TradeLogHolds, OrderBookHolds, PTL DEF Spec

\* From the legs to the log.  What a leg cost, what it cost with the sign of the
\* cash, what a closed one brought back, and the cash of a trade.
Outlay  == [l \in LegIds |-> leg[l].entry * leg[l].qty]
PaidOut == [l \in LegIds |-> -(leg[l].entry * leg[l].qty)]
GotBack == [l \in LegIds |-> leg[l].exit * leg[l].qty]
CashOf  == [t \in trades |-> t.price * leg[t.leg].qty * (IF t.closing THEN 1 ELSE -1)]

FilledLegs == {l \in LegIds : Filled(leg[l])}
Openings == {t \in trades : ~t.closing}
Endings  == {t \in trades : t.closing}

OpeningOf == [l \in FilledLegs |-> CHOOSE t \in trades : TradesOf(l, FALSE) = {t}]
EndingOf  == [l \in ClosedLegs |-> CHOOSE t \in trades : TradesOf(l, TRUE) = {t}]

LEMMA TradeParts ==
  ASSUME Inv1
  PROVE  \A t \in trades : t.leg \in LegIds /\ t.closing \in BOOLEAN /\ t.price \in Nat
BY DEF Inv1, TypeOK, Trade

LEMMA Products == \A a, b \in Int : a * b \in Int /\ a * b * 1 = a * b /\ a * b * (-1) = -(a * b)
OBVIOUS

LEMMA CashTypes ==
  ASSUME Inv1
  PROVE  /\ \A l \in LegIds : Outlay[l] \in Int /\ PaidOut[l] \in Int /\ GotBack[l] \in Int
         /\ \A t \in trades : CashOf[t] \in Int
         /\ \A l \in LegIds : GainOf[l] = GotBack[l] + PaidOut[l] /\ PaidOut[l] + Outlay[l] = 0
<1>1. ASSUME NEW l \in LegIds
      PROVE  /\ Outlay[l] \in Int /\ PaidOut[l] \in Int /\ GotBack[l] \in Int
             /\ GainOf[l] = GotBack[l] + PaidOut[l] /\ PaidOut[l] + Outlay[l] = 0
  <2>1. leg[l].entry \in Int /\ leg[l].exit \in Int /\ leg[l].qty \in Int
    BY LegNumbers
  <2>2. \A e, x, q \in Int : (x - e) * q = x * q + (-(e * q)) /\ -(e * q) + e * q = 0
    OBVIOUS
  <2>3. leg[l].entry * leg[l].qty \in Int /\ leg[l].exit * leg[l].qty \in Int
    BY <2>1, Products
  <2>4. GainOf[l] = (leg[l].exit - leg[l].entry) * leg[l].qty
    BY DEF GainOf, Gain
  <2>5. QED
    BY <2>1, <2>2, <2>3, <2>4 DEF Outlay, PaidOut, GotBack
<1>2. ASSUME NEW t \in trades PROVE CashOf[t] \in Int
  <2>1. t.price \in Int /\ leg[t.leg].qty \in Int
    BY TradeParts, LegNumbers
  <2>2. t.price * leg[t.leg].qty \in Int
    BY <2>1, Products
  <2>3. CashOf[t] \in {t.price * leg[t.leg].qty * 1, t.price * leg[t.leg].qty * (-1)}
    BY DEF CashOf
  <2>4. QED
    BY <2>1, <2>2, <2>3, Products
<1>3. QED
  BY <1>1, <1>2

\* The trades that opened a leg are its filled legs', one each.
LEMMA OpeningsByLeg ==
  ASSUME Inv1, TradeLog
  PROVE  /\ Openings = ImageOf(OpeningOf, FilledLegs)
         /\ \A k, l \in FilledLegs : OpeningOf[k] = OpeningOf[l] => k = l
         /\ \A l \in FilledLegs : OpeningOf[l] \in trades /\ CashOf[OpeningOf[l]] = PaidOut[l]
<1>1. ASSUME NEW l \in FilledLegs
      PROVE  /\ OpeningOf[l] \in trades /\ TradesOf(l, FALSE) = {OpeningOf[l]}
             /\ OpeningOf[l].leg = l /\ OpeningOf[l].closing = FALSE
             /\ OpeningOf[l].price = leg[l].entry
  <2>1. l \in LegIds /\ Filled(leg[l])
    BY DEF FilledLegs
  <2>2. PICK t \in trades : TradesOf(l, FALSE) = {t} /\ t.price = leg[l].entry
    BY <2>1, TradeLogByLeg DEF Told
  <2>3. \A u \in trades : TradesOf(l, FALSE) = {u} <=> u = t
    BY <2>2
  <2>4. OpeningOf[l] = t
    BY <2>2, <2>3 DEF OpeningOf
  <2>5. t.leg = l /\ t.closing = FALSE
    BY <2>2 DEF TradesOf
  <2>6. QED
    BY <2>2, <2>4, <2>5
<1>2. \A k, l \in FilledLegs : OpeningOf[k] = OpeningOf[l] => k = l
  BY <1>1
<1>3. ASSUME NEW l \in FilledLegs PROVE CashOf[OpeningOf[l]] = PaidOut[l]
  <2>1. l \in LegIds
    BY DEF FilledLegs
  <2>2. CashOf[OpeningOf[l]] = leg[l].entry * leg[l].qty * (-1)
    BY <1>1 DEF CashOf
  <2>3. PaidOut[l] = -(leg[l].entry * leg[l].qty)
    BY <2>1 DEF PaidOut
  <2>4. QED
    BY <2>1, <2>2, <2>3, LegNumbers, Products
<1>4. ASSUME NEW t \in Openings PROVE t \in ImageOf(OpeningOf, FilledLegs)
  <2>1. t \in trades /\ t.leg \in LegIds /\ t.closing = FALSE
    BY TradeParts DEF Openings
  <2>2. t \in TradesOf(t.leg, FALSE)
    BY <2>1 DEF TradesOf
  <2>3. t.leg \in FilledLegs
    BY <2>1, <2>2, TradeLogByLeg DEF Told, FilledLegs
  <2>4. t = OpeningOf[t.leg]
    <3>1. TradesOf(t.leg, FALSE) = {OpeningOf[t.leg]}
      BY <1>1, <2>3
    <3>2. QED
      BY <2>2, <3>1
  <2>5. QED
    BY <2>3, <2>4 DEF ImageOf
<1>5. \A t \in ImageOf(OpeningOf, FilledLegs) : t \in Openings
  BY <1>1 DEF ImageOf, Openings
<1>6. QED
  BY <1>1, <1>2, <1>3, <1>4, <1>5

\* And those that ended one are the closed legs'.
LEMMA EndingsByLeg ==
  ASSUME Inv1, TradeLog
  PROVE  /\ Endings = ImageOf(EndingOf, ClosedLegs)
         /\ \A k, l \in ClosedLegs : EndingOf[k] = EndingOf[l] => k = l
         /\ \A l \in ClosedLegs : EndingOf[l] \in trades /\ CashOf[EndingOf[l]] = GotBack[l]
<1>1. ASSUME NEW l \in ClosedLegs
      PROVE  /\ EndingOf[l] \in trades /\ TradesOf(l, TRUE) = {EndingOf[l]}
             /\ EndingOf[l].leg = l /\ EndingOf[l].closing = TRUE
             /\ EndingOf[l].price = leg[l].exit
  <2>1. l \in LegIds /\ leg[l].state = "Closed"
    BY DEF ClosedLegs
  <2>2. PICK t \in trades : TradesOf(l, TRUE) = {t} /\ t.price = leg[l].exit
    BY <2>1, TradeLogByLeg DEF Told
  <2>3. \A u \in trades : TradesOf(l, TRUE) = {u} <=> u = t
    BY <2>2
  <2>4. EndingOf[l] = t
    BY <2>2, <2>3 DEF EndingOf
  <2>5. t.leg = l /\ t.closing = TRUE
    BY <2>2 DEF TradesOf
  <2>6. QED
    BY <2>2, <2>4, <2>5
<1>2. \A k, l \in ClosedLegs : EndingOf[k] = EndingOf[l] => k = l
  <2>1. \A l \in ClosedLegs : EndingOf[l].leg = l
    BY <1>1
  <2>2. QED
    BY <2>1, Zenon
<1>3. ASSUME NEW l \in ClosedLegs PROVE CashOf[EndingOf[l]] = GotBack[l]
  <2>1. l \in LegIds
    BY DEF ClosedLegs
  <2>2. CashOf[EndingOf[l]] = leg[l].exit * leg[l].qty * 1
    BY <1>1 DEF CashOf
  <2>3. GotBack[l] = leg[l].exit * leg[l].qty
    BY <2>1 DEF GotBack
  <2>4. QED
    BY <2>1, <2>2, <2>3, LegNumbers, Products
<1>4. ASSUME NEW t \in Endings PROVE t \in ImageOf(EndingOf, ClosedLegs)
  <2>1. t \in trades /\ t.leg \in LegIds /\ t.closing = TRUE
    BY TradeParts DEF Endings
  <2>2. t \in TradesOf(t.leg, TRUE)
    BY <2>1 DEF TradesOf
  <2>3. t.leg \in ClosedLegs
    BY <2>1, <2>2, TradeLogByLeg DEF Told, ClosedLegs
  <2>4. t = EndingOf[t.leg]
    <3>1. TradesOf(t.leg, TRUE) = {EndingOf[t.leg]}
      BY <1>1, <2>3
    <3>2. QED
      BY <2>2, <3>1
  <2>5. QED
    BY <2>3, <2>4 DEF ImageOf
<1>5. \A t \in ImageOf(EndingOf, ClosedLegs) : t \in Endings
  <2>1. \A l \in ClosedLegs : EndingOf[l] \in Endings
    BY <1>1 DEF Endings
  <2>2. QED
    BY <2>1 DEF ImageOf
<1>6. QED
  BY <1>1, <1>2, <1>3, <1>4, <1>5

LEMMA CashByLeg ==
  ASSUME Inv1, TradeLog, OrderBook
  PROVE  Sum(CashOf, trades) = Sum(PaidOut, FilledLegs) + Sum(GotBack, ClosedLegs)
<1>1. Openings \cup Endings = trades /\ Openings \cap Endings = {}
  BY TradeParts DEF Openings, Endings
<1>2. Summable(CashOf, trades)
  BY CashTypes DEF Summable, OrderBook
<1>3. Summable(CashOf, Openings) /\ Summable(CashOf, Endings)
  BY <1>2, SubsetSummable DEF Openings, Endings
<1>4. Sum(CashOf, trades) = Sum(CashOf, Openings) + Sum(CashOf, Endings)
  <2>1. Sum(CashOf, Openings \cup Endings) = Sum(CashOf, Openings) + Sum(CashOf, Endings)
    BY <1>1, <1>3, SumUnion
  <2>2. QED
    BY <1>1, <2>1
<1>5. IsFiniteSet(FilledLegs) /\ IsFiniteSet(ClosedLegs)
  BY LegIdsFinite, FS_Subset DEF FilledLegs, ClosedLegs
<1>6. Sum(CashOf, Openings) = Sum(PaidOut, FilledLegs)
  <2>1. /\ Openings = ImageOf(OpeningOf, FilledLegs)
        /\ \A k, l \in FilledLegs : OpeningOf[k] = OpeningOf[l] => k = l
    BY OpeningsByLeg
  <2>2. \A l \in FilledLegs : CashOf[OpeningOf[l]] \in Int /\ PaidOut[l] = CashOf[OpeningOf[l]]
    BY OpeningsByLeg, CashTypes
  <2>3. Sum(CashOf, ImageOf(OpeningOf, FilledLegs)) = Sum(PaidOut, FilledLegs)
    BY <1>5, <2>1, <2>2, SumImage
  <2>4. QED
    BY <2>1, <2>3
<1>7. Sum(CashOf, Endings) = Sum(GotBack, ClosedLegs)
  <2>1. /\ Endings = ImageOf(EndingOf, ClosedLegs)
        /\ \A k, l \in ClosedLegs : EndingOf[k] = EndingOf[l] => k = l
    BY EndingsByLeg
  <2>2. \A l \in ClosedLegs : CashOf[EndingOf[l]] \in Int /\ GotBack[l] = CashOf[EndingOf[l]]
    BY EndingsByLeg, CashTypes
  <2>3. Sum(CashOf, ImageOf(EndingOf, ClosedLegs)) = Sum(GotBack, ClosedLegs)
    BY <1>5, <2>1, <2>2, SumImage
  <2>4. QED
    BY <2>1, <2>3
<1>8. QED
  BY <1>4, <1>6, <1>7

LEMMA GainsByLeg ==
  ASSUME Inv1
  PROVE  Sum(GainOf, ClosedLegs)
           = Sum(PaidOut, FilledLegs) + Sum(GotBack, ClosedLegs) + Sum(Outlay, HeldLegs)
<1>1. IsFiniteSet(HeldLegs) /\ IsFiniteSet(ClosedLegs)
  BY LegIdsFinite, FS_Subset DEF HeldLegs, ClosedLegs
<1>2. HeldLegs \subseteq LegIds /\ ClosedLegs \subseteq LegIds
  BY DEF HeldLegs, ClosedLegs
<1>3. /\ Summable(PaidOut, HeldLegs) /\ Summable(PaidOut, ClosedLegs)
      /\ Summable(GotBack, ClosedLegs) /\ Summable(Outlay, HeldLegs)
  BY <1>1, <1>2, CashTypes DEF Summable
<1>4. FilledLegs = HeldLegs \cup ClosedLegs /\ HeldLegs \cap ClosedLegs = {}
  BY DEF FilledLegs, HeldLegs, ClosedLegs, Filled, Live
<1>5. Sum(PaidOut, FilledLegs) = Sum(PaidOut, HeldLegs) + Sum(PaidOut, ClosedLegs)
  <2>1. Sum(PaidOut, HeldLegs \cup ClosedLegs) = Sum(PaidOut, HeldLegs) + Sum(PaidOut, ClosedLegs)
    BY <1>3, <1>4, SumUnion
  <2>2. QED
    BY <1>4, <2>1
<1>6. Sum(GainOf, ClosedLegs) = Sum(GotBack, ClosedLegs) + Sum(PaidOut, ClosedLegs)
  <2>1. \A l \in ClosedLegs : GainOf[l] = GotBack[l] + PaidOut[l]
    BY <1>2, CashTypes
  <2>2. QED
    BY <1>3, <2>1, SumPlus
<1>7. Sum(PaidOut, HeldLegs) + Sum(Outlay, HeldLegs) = 0
  <2> DEFINE none == [l \in HeldLegs |-> 0]
  <2>1. \A l \in HeldLegs : none[l] = PaidOut[l] + Outlay[l] /\ none[l] = 0
    BY <1>2, CashTypes
  <2> HIDE DEF none
  <2>2. Sum(none, HeldLegs) = Sum(PaidOut, HeldLegs) + Sum(Outlay, HeldLegs)
    BY <1>3, <2>1, SumPlus
  <2>3. Sum(none, HeldLegs) = 0 * Cardinality(HeldLegs)
    BY <1>1, <2>1, SumConstant
  <2>4. 0 * Cardinality(HeldLegs) = 0
    BY <1>1, FS_CardinalityType
  <2>5. QED
    BY <2>2, <2>3, <2>4
<1>8. /\ Sum(PaidOut, HeldLegs) \in Int /\ Sum(PaidOut, ClosedLegs) \in Int
      /\ Sum(GotBack, ClosedLegs) \in Int /\ Sum(Outlay, HeldLegs) \in Int
  BY <1>3, SumInt
<1>9. QED
  BY <1>5, <1>6, <1>7, <1>8

LEMMA BooksFollow ==
  ASSUME Inv1, TradeLog, OrderBook, Books
  PROVE  BooksBalance
<1> DEFINE outlay == [l \in HeldLegs |-> leg[l].entry * leg[l].qty]
<1>1. realized = Sum(CashOf, trades) + Sum(Outlay, HeldLegs)
  BY CashByLeg, GainsByLeg DEF Books
<1>2. Sum(outlay, HeldLegs) = Sum(Outlay, HeldLegs)
  <2>1. Summable(Outlay, HeldLegs)
    BY CashTypes, LegIdsFinite, FS_Subset DEF Summable, HeldLegs
  <2>2. \A l \in HeldLegs : outlay[l] = Outlay[l]
    BY DEF Outlay, HeldLegs
  <2> HIDE DEF outlay
  <2>3. QED
    BY <2>1, <2>2, SumSame
<1>3. DOMAIN outlay = HeldLegs
  OBVIOUS
<1>4. SumFunction(outlay) = Sum(Outlay, HeldLegs)
  BY <1>2, <1>3 DEF SumFunction, Sum
<1>5. SumFunction(CashOf) = Sum(CashOf, trades) /\ SumFunction(CostOf) = Sum(CostOf, trades)
  BY DEF SumFunction, Sum, CashOf, CostOf
<1>6. realized = SumFunction(CashOf) + SumFunction(outlay) /\ costs = SumFunction(CostOf)
  BY <1>1, <1>4, <1>5 DEF Books
<1>7. QED
  BY <1>6 DEF BooksBalance, CashOf, CostOf, HeldLegs

\* The realised P&L is the cash of the trade log plus what the legs still held
\* cost, and the costs are those of its trades, after any history of the portfolio.
THEOREM BooksAlwaysBalance == Spec => []BooksBalance
<1>1. Inv1 /\ TradeLog /\ OrderBook /\ Books => BooksBalance
  BY BooksFollow
<1>2. QED
  BY <1>1, Inv1Holds, TradeLogHolds, OrderBookHolds, BooksHold, PTL
=============================================================================
