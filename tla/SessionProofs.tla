---------------------------- MODULE SessionProofs ----------------------------
(***************************************************************************)
(* The session loop implements the portfolio's specification too, so what  *)
(* is proved of Portfolio holds during a session; and what the loop itself *)
(* promises a strategy: decisions come before fills, a condition that      *)
(* holds is never left for the next timestamp, and a position asked to     *)
(* leave is closed once its orders are done.  Last, that a pass over the   *)
(* risk rules, which Portfolio states by its outcome, is the loop it is in *)
(* the code.                                                               *)
(***************************************************************************)
EXTENDS SessionLoop, RiskRulePass, PortfolioProofs

-----------------------------------------------------------------------------
(* Every step of the loop is a step of the portfolio under some host.       *)

\* What a new timestamp makes of the market is something the market may show.
LEMMA StepObserves ==
  ASSUME TypeOK, Step
  PROVE  \E t \in now + 1 .. MaxTime, q \in [Instruments -> Quotes \cup {NoQuote}] : Observe(t, q)
<1>1. PICK t \in now + 1 .. MaxTime, s \in SUBSET Instruments :
        \E q \in [s -> Quotes] : Observe(t, [i \in Instruments |-> IF i \in s THEN q[i] ELSE quotes[i]])
  BY DEF Step
<1>2. PICK q \in [s -> Quotes] : Observe(t, [i \in Instruments |-> IF i \in s THEN q[i] ELSE quotes[i]])
  BY <1>1
<1>3. quotes \in [Instruments -> Quotes \cup {NoQuote}]
  BY DEF TypeOK
<1>4. [i \in Instruments |-> IF i \in s THEN q[i] ELSE quotes[i]] \in [Instruments -> Quotes \cup {NoQuote}]
  BY <1>3
<1>5. QED
  BY <1>1, <1>2, <1>4

\* Timestamps are distinct and go forward.
LEMMA StepMovesClock ==
  ASSUME TypeOK, Step
  PROVE  now' \in Nat /\ now' > now
<1>1. PICK t \in now + 1 .. MaxTime : now' = t
  BY StepObserves DEF Observe
<1>2. now \in Nat /\ MaxTime \in Nat
  BY BoundsAssumption DEF TypeOK
<1>3. QED
  BY <1>1, <1>2

LEMMA SessionStepImplements ==
  ASSUME Inv1, [SNext]_svars
  PROVE  [Next]_vars
<1>1. CASE Step
  <2>1. PICK t \in now + 1 .. MaxTime, q \in [Instruments -> Quotes \cup {NoQuote}] : Observe(t, q)
    BY <1>1, StepObserves DEF Inv1
  <2>2. t \in now .. MaxTime
    BY <2>1, BoundsAssumption DEF Inv1, TypeOK
  <2>3. QED
    BY <2>1, <2>2 DEF Next
<1>2. CASE Fill \/ Rules \/ StrategyCall
  BY <1>2 DEF Fill, Rules, StrategyCall, Next
<1>3. CASE Enter \/ EnterFails \/ Resume \/ NotYet \/ SessionOver \/ Awaits \/ Returns \/ Throws \/ Over
           \/ UNCHANGED svars
  BY <1>3 DEF Enter, EnterFails, Resume, NotYet, SessionOver, Awaits, Returns, Throws, Over, svars
<1>4. QED
  BY <1>1, <1>2, <1>3 DEF SNext, Engine

\* A session is a legal use of the portfolio.
THEOREM SessionImplementsPortfolio == SSpec => SessionUsesPortfolio
<1>1. SInit => Init /\ Inv1
  BY Inv1Init DEF SInit
<1>2. Inv1 /\ [SNext]_svars => [Next]_vars /\ Inv1'
  BY SessionStepImplements, Inv1Next
<1>3. QED
  BY <1>1, <1>2, PTL DEF SSpec, SessionUsesPortfolio, Spec

\* What is proved of the portfolio therefore holds throughout a session.
THEOREM SessionKeepsPortfolio == SSpec => [](Inv1 /\ Inv2)
BY SessionImplementsPortfolio, Inv1Holds, Inv2Holds, PTL DEF SessionUsesPortfolio

\* Its books balance, its trade log tells of every leg and none of its orders is
\* lost, over a session.
THEOREM SessionKeepsBooks == SSpec => [](TradeLogMatchesLegs /\ OrdersConserved /\ BooksBalance)
BY SessionImplementsPortfolio, TradeLogTellsLegs, NoOrderIsLost, BooksAlwaysBalance, PTL DEF SessionUsesPortfolio

-----------------------------------------------------------------------------
(* Decisions come before fills: an order is submitted at the clock's time,   *)
(* and by the time of a fill pass the clock has moved on.                    *)

Decided ==
  /\ DecidedBeforeFilled
  /\ \A o \in pending : o.submitted <= now
  /\ pc = "fill" => \A o \in pending : o.submitted < now

\* Strategy and rules submit at the clock's time, and move neither it nor the log.
LEMMA SubmittedNow ==
  ASSUME Strategy \/ ProcessRiskRules
  PROVE  now' = now /\ trades' = trades /\ \A o \in pending' : o \in pending \/ o.submitted = now
<1>1. ASSUME NEW ps, NEW ls, NEW byRule, Leave(ps, ls, byRule)
      PROVE  now' = now /\ trades' = trades /\ \A o \in pending' : o \in pending \/ o.submitted = now
  BY <1>1 DEF Leave, NewOrder, money
<1>2. ASSUME NEW insts, NEW qty, SubmitOpen(insts, qty)
      PROVE  now' = now /\ trades' = trades /\ \A o \in pending' : o \in pending \/ o.submitted = now
  BY <1>2 DEF SubmitOpen, NewOrder, money
<1>3. CASE \E p \in PositionIds, m \in RuleMenu : AttachRule(p, m)
  BY <1>3 DEF AttachRule, money
<1>4. QED
  BY <1>1, <1>2, <1>3 DEF Strategy, SubmitClose, SubmitCloseLeg, ProcessRiskRules

LEMMA DecidedNext ==
  ASSUME Inv1, Decided, [SNext]_svars
  PROVE  Decided'
<1> now \in Nat /\ \A o \in pending : o.submitted \in Nat
  BY DEF Inv1, TypeOK, Order
<1>1. CASE Step
  <2>1. now' \in Nat /\ now' > now
    BY <1>1, StepMovesClock DEF Inv1
  <2>2. UNCHANGED <<pending, trades>>
    BY <1>1 DEF Step, Observe, money
  <2>3. QED
    BY <2>1, <2>2 DEF Decided, DecidedBeforeFilled
<1>2. CASE Fill
  <2>1. pc = "fill" /\ pc' = "rules" /\ now' = now /\ pending' \subseteq pending
        /\ trades' = trades \cup {TradeOf(o) : o \in {k \in pending : Fillable(k)}}
    BY <1>2 DEF Fill, ProcessPending, Go
  <2>2. \A o \in pending : TradeOf(o).fill > TradeOf(o).signal
    BY <2>1 DEF TradeOf, Decided
  <2>3. QED
    BY <2>1, <2>2 DEF Decided, DecidedBeforeFilled
<1>3. CASE Rules \/ StrategyCall
  <2>1. pc' # "fill"
    BY <1>3 DEF Rules, StrategyCall, Go
  <2>2. now' = now /\ trades' = trades /\ \A o \in pending' : o \in pending \/ o.submitted = now
    BY <1>3, SubmittedNow DEF Rules, StrategyCall
  <2>3. QED
    BY <2>1, <2>2 DEF Decided, DecidedBeforeFilled
<1>4. CASE Enter \/ EnterFails \/ Resume \/ NotYet \/ SessionOver \/ Awaits \/ Returns \/ Throws \/ Over
           \/ UNCHANGED svars
  <2>1. UNCHANGED vars /\ (pc' = "fill" => pc = "fill")
    BY <1>4 DEF Enter, EnterFails, Resume, NotYet, SessionOver, Awaits, Returns, Throws, Over, svars, Go,
                AfterBody
  <2>2. QED
    BY <2>1 DEF Decided, DecidedBeforeFilled, vars, money
<1>5. QED
  BY <1>1, <1>2, <1>3, <1>4 DEF SNext, Engine

\* No order fills at the timestamp at which it was decided.
THEOREM DecisionsComeFirst == SSpec => []DecidedBeforeFilled
<1>1. SInit => Inv1 /\ Decided
  BY Inv1Init DEF SInit, Init, Decided, DecidedBeforeFilled
<1>2. Inv1 /\ [SNext]_svars => Inv1'
  BY SessionStepImplements, Inv1Next
<1>3. Inv1 /\ Decided /\ [SNext]_svars => Decided'
  BY DecidedNext
<1>4. Decided => DecidedBeforeFilled
  BY DEF Decided
<1>5. QED
  BY <1>1, <1>2, <1>3, <1>4, PTL DEF SSpec

-----------------------------------------------------------------------------
(* Nothing is left waiting: only a condition found false, or the first       *)
(* resume, lets the loop go on to the data.                                  *)

\* Whether a condition holds depends on the portfolio and the clock alone.
LEMMA AwakeUnchanged ==
  ASSUME UNCHANGED vars, cond' = cond
  PROVE  Awake' = Awake
<1>1. now' = now /\ quotes' = quotes /\ leg' = leg
  BY DEF vars
<1>2. ASSUME NEW c PROVE Holds(c)' = Holds(c)
  BY <1>1 DEF Holds, IsClosed, PositionPnl, PnlAndRisk, PnlOf, MarkFor, QuotedMark, LegsOf
<1>3. QED
  BY <1>2 DEF Awake

LEMMA WaitingNext ==
  ASSUME NotLeftWaiting, [SNext]_svars
  PROVE  NotLeftWaiting'
<1>1. CASE NotYet
  <2>1. pc = "ask" /\ (finished \/ ~Awake) /\ UNCHANGED vars /\ cond' = cond /\ finished' = finished
    BY <1>1 DEF NotYet
  <2>2. QED
    BY <2>1, AwakeUnchanged DEF NotLeftWaiting
<1>2. CASE Awaits \/ Returns
  BY <1>2 DEF Awaits, Returns, Go, AfterBody, NotLeftWaiting, vars
<1>3. CASE Over \/ UNCHANGED svars
  <2>1. UNCHANGED <<vars, pc, cond, finished>>
    BY <1>3 DEF Over, svars
  <2>2. now' = now
    BY <2>1 DEF vars
  <2>3. QED
    BY <2>1, <2>2, AwakeUnchanged DEF NotLeftWaiting
<1>4. CASE Enter \/ EnterFails \/ Step \/ Fill \/ Rules \/ Resume \/ SessionOver \/ Throws \/ StrategyCall
  BY <1>4 DEF Enter, EnterFails, Step, Fill, Rules, Resume, SessionOver, Throws, StrategyCall, Go,
              NotLeftWaiting
<1>5. QED
  BY <1>1, <1>2, <1>3, <1>4 DEF SNext, Engine

\* The loop never moves on while what the strategy awaits holds.
THEOREM ConditionsMetInTime == SSpec => []NotLeftWaiting
<1>1. SInit => NotLeftWaiting
  BY DEF SInit, NotLeftWaiting
<1>2. NotLeftWaiting /\ [SNext]_svars => NotLeftWaiting'
  BY WaitingNext
<1>3. QED
  BY <1>1, <1>2, PTL DEF SSpec

-----------------------------------------------------------------------------
(* A position asked to leave.  Nothing gives a leg back within a session, so *)
(* none of its legs is ever held again without an exit working.              *)

LeavingLegs == \A p \in left : \A l \in LegIds : l[1] = p => leg[l].state \notin {"Open", "PendingOpen"}

\* A leg comes to be held or opening only from being so, or in a new position.
LEMMA SessionHolds ==
  ASSUME Inv1, Fill \/ Rules \/ StrategyCall, NEW l \in LegIds,
         leg'[l].state \in {"Open", "PendingOpen"}
  PROVE  leg[l].state \in {"Open", "PendingOpen"} \/ l[1] = size
<1>1. CASE Fill
  BY <1>1, ProcessPendingEffect DEF Fill
<1>2. ASSUME NEW ps, NEW ls, NEW byRule \in BOOLEAN, Leave(ps, ls, byRule)
      PROVE  leg[l].state \in {"Open", "PendingOpen"} \/ l[1] = size
  BY <1>2, LeaveEffect
<1>3. CASE Rules
  BY <1>2, <1>3 DEF Rules, ProcessRiskRules
<1>4. CASE StrategyCall
  <2>1. CASE \E insts \in LegLists, qty \in Lots : SubmitOpen(insts, qty)
    BY <2>1, SubmitOpenEffect
  <2>2. CASE \E p \in PositionIds, m \in RuleMenu : AttachRule(p, m)
    BY <2>2 DEF AttachRule
  <2>3. CASE (\E p \in PositionIds : SubmitClose(p)) \/ (\E k \in LegIds : SubmitCloseLeg(k))
    BY <2>3, <1>2 DEF SubmitClose, SubmitCloseLeg
  <2>4. QED
    BY <1>4, <2>1, <2>2, <2>3 DEF StrategyCall, Strategy
<1>5. QED
  BY <1>1, <1>3, <1>4

\* A position that is added to those asked to leave is left by the same step.
LEMMA SessionLeaves ==
  ASSUME Inv1, Fill \/ Rules \/ StrategyCall, NEW p \in left', p \notin left, NEW l \in LegIds, l[1] = p
  PROVE  leg'[l].state \notin {"Open", "PendingOpen"}
<1>1. ASSUME NEW ps, NEW ls, NEW byRule \in BOOLEAN, Leave(ps, ls, byRule)
      PROVE  leg'[l].state \notin {"Open", "PendingOpen"}
  <2>1. p \in ps
    BY <1>1 DEF Leave
  <2>2. QED
    BY <2>1, <1>1, LeaveEffect
<1>2. CASE UNCHANGED left
  BY <1>2
<1>3. CASE Fill
  BY <1>2, <1>3 DEF Fill, ProcessPending
<1>4. CASE Rules
  BY <1>1, <1>4 DEF Rules, ProcessRiskRules
<1>5. CASE StrategyCall
  <2>1. CASE (\E insts \in LegLists, qty \in Lots : SubmitOpen(insts, qty))
             \/ (\E k \in PositionIds, m \in RuleMenu : AttachRule(k, m))
    BY <2>1, <1>2 DEF SubmitOpen, AttachRule
  <2>2. CASE (\E k \in PositionIds : SubmitClose(k)) \/ (\E k \in LegIds : SubmitCloseLeg(k))
    BY <2>2, <1>1 DEF SubmitClose, SubmitCloseLeg
  <2>3. QED
    BY <1>5, <2>1, <2>2 DEF StrategyCall, Strategy
<1>6. QED
  BY <1>3, <1>4, <1>5

LEMMA LeavingNext ==
  ASSUME Inv1, LeavingLegs, [SNext]_svars
  PROVE  LeavingLegs'
<1>1. CASE Fill \/ Rules \/ StrategyCall
  <2> SUFFICES ASSUME NEW p \in left', NEW l \in LegIds, l[1] = p
               PROVE  leg'[l].state \notin {"Open", "PendingOpen"}
    BY DEF LeavingLegs
  <2>1. CASE p \in left
    <3>1. p \in Nat /\ p < size /\ size \in Nat
      BY <2>1, TypeParts DEF Inv1
    <3>2. QED
      BY <1>1, <2>1, <3>1, SessionHolds DEF LeavingLegs
  <2>2. CASE p \notin left
    BY <1>1, <2>2, SessionLeaves
  <2>3. QED
    BY <2>1, <2>2
<1>2. CASE Step
  BY <1>2 DEF Step, Observe, LeavingLegs
<1>3. CASE Enter \/ EnterFails \/ Resume \/ NotYet \/ SessionOver \/ Awaits \/ Returns \/ Throws \/ Over
           \/ UNCHANGED svars
  BY <1>3 DEF Enter, EnterFails, Resume, NotYet, SessionOver, Awaits, Returns, Throws, Over, svars, vars,
              LeavingLegs
<1>4. QED
  BY <1>1, <1>2, <1>3 DEF SNext, Engine

\* With no order of it working, every leg of such a position is over or never was.
LEMMA LeavingCloses ==
  ASSUME Inv1, LeavingLegs
  PROVE  LeftPositionsClose
<1> SUFFICES ASSUME NEW p \in left, \A o \in pending : o.leg[1] # p
             PROVE  \/ IsClosed(p)
                    \/ ~IsOpen(leg, p) /\ \A l \in LegsOf(leg, p) : leg[l].state = "Cancelled"
  BY DEF LeftPositionsClose
<1>1. ASSUME NEW l \in LegsOf(leg, p) PROVE leg[l].state \in {"Closed", "Cancelled"}
  <2>1. l \in LegIds /\ l[1] = p /\ leg[l].state # "Absent"
    BY DEF LegsOf
  <2>2. leg[l].state \notin {"PendingOpen", "PendingClose"}
    BY <2>1 DEF Inv1, OneOrderPerWaitingLeg
  <2>3. leg[l].state \in LegStates /\ leg[l].state # "Open"
    BY <2>1, TypeParts DEF Inv1, LeavingLegs
  <2>4. QED
    BY <2>1, <2>2, <2>3 DEF LegStates
<1>2. ~IsOpen(leg, p)
  BY <1>1 DEF IsOpen, Live
<1>3. (\E l \in LegsOf(leg, p) : leg[l].state = "Closed") => Established(leg, p)
  BY <1>1 DEF Established, Filled
<1>4. QED
  BY <1>1, <1>2, <1>3 DEF IsClosed

\* A position asked to leave is closed once none of its orders is working.
THEOREM LeavingEndsClosed == SSpec => []LeftPositionsClose
<1>1. SInit => Inv1 /\ LeavingLegs
  BY Inv1Init DEF SInit, Init, LeavingLegs
<1>2. Inv1 /\ [SNext]_svars => Inv1'
  BY SessionStepImplements, Inv1Next
<1>3. Inv1 /\ LeavingLegs /\ [SNext]_svars => LeavingLegs'
  BY LeavingNext
<1>4. Inv1 /\ LeavingLegs => LeftPositionsClose
  BY LeavingCloses
<1>5. QED
  BY <1>1, <1>2, <1>3, <1>4, PTL DEF SSpec

-----------------------------------------------------------------------------
(* A position's legs are a list: process_risk_rules compares a rule's leg    *)
(* with their number.                                                        *)

LegsAreAList ==
  \A l, k \in LegIds : l[1] = k[1] /\ k[2] < l[2] /\ leg[l].state # "Absent" => leg[k].state # "Absent"

LEMMA ListNext ==
  ASSUME Inv1, LegsAreAList, [Next]_vars
  PROVE  LegsAreAList'
<1>1. ASSUME \A l \in LegIds : leg'[l].state = "Absent" <=> leg[l].state = "Absent"
      PROVE  LegsAreAList'
  BY <1>1 DEF LegsAreAList
<1>2. ASSUME NEW insts \in LegLists, NEW qty \in Lots, SubmitOpen(insts, qty) PROVE LegsAreAList'
  <2> DEFINE slots == {k \in LegIds : k[1] = size /\ k[2] <= Len(insts)}
  <2>1. leg' = [k \in LegIds |-> IF k \in slots THEN Submitted(insts[k[2]], qty) ELSE leg[k]]
    BY <1>2 DEF SubmitOpen
  <2>2. size \in Nat /\ insts \in Seq(Instruments) /\ qty \in Int /\ Len(insts) \in Nat
    BY Constants, TypeParts DEF Inv1
  <2>3. ASSUME NEW l \in LegIds
        PROVE  /\ l \in slots <=> l[1] = size /\ l[2] <= Len(insts)
               /\ l \in slots => leg'[l].state # "Absent"
               /\ l \notin slots => leg'[l] = leg[l]
               /\ l[1] = size => leg[l].state = "Absent"
               /\ l[1] \in Nat /\ l[2] \in Nat
    <3>1. l[1] \in Nat /\ l[2] \in Nat /\ l[2] > 0
      BY LegIdParts, Constants DEF PositionIds, LegIndexes
    <3>2. l[1] = size => leg[l].state = "Absent"
      BY <2>2 DEF Inv1, TypeOK
    <3>3. l \in slots => leg'[l].state # "Absent"
      <4> SUFFICES ASSUME l \in slots PROVE leg'[l].state # "Absent"
        OBVIOUS
      <4>1. insts[l[2]] \in Instruments
        BY <2>2, <3>1
      <4>2. leg'[l] = Submitted(insts[l[2]], qty)
        BY <2>1
      <4>3. QED
        BY <2>2, <4>1, <4>2, SubmittedFacts
    <3>4. QED
      BY <2>1, <3>1, <3>2, <3>3
  <2> HIDE DEF slots
  <2>4. QED
    BY <2>2, <2>3 DEF LegsAreAList
<1>3. ASSUME NEW ps, NEW ls, NEW byRule \in BOOLEAN, Leave(ps, ls, byRule) PROVE LegsAreAList'
  BY <1>1, <1>3, LeaveEffect
<1>4. CASE ProcessPending
  BY <1>1, <1>4, ProcessPendingEffect
<1>5. CASE RefreshMarks
  BY <1>1, <1>5, RefreshMarksEffect
<1>6. ASSUME NEW expiry, NEW level \in Levels, SettleExpiry(expiry, level) PROVE LegsAreAList'
  BY <1>1, <1>6, SettleExpiryEffect DEF Live
<1>7. CASE CancelWorkingOrders
  BY <1>1, <1>7, CancelWorkingOrdersEffect
<1>8. CASE UNCHANGED leg
  BY <1>1, <1>8
<1>9. CASE Strategy
  <2>1. CASE \E p \in PositionIds, m \in RuleMenu : AttachRule(p, m)
    BY <2>1, <1>8 DEF AttachRule
  <2>2. QED
    BY <2>1, <1>2, <1>3, <1>9 DEF Strategy, SubmitClose, SubmitCloseLeg
<1>10. CASE ProcessRiskRules
  BY <1>10, <1>3 DEF ProcessRiskRules
<1>11. CASE \E t \in now .. MaxTime, q \in [Instruments -> Quotes \cup {NoQuote}] : Observe(t, q)
  BY <1>11, <1>8 DEF Observe
<1>12. CASE UNCHANGED vars
  BY <1>8, <1>12 DEF vars
<1>13. QED
  BY <1>4, <1>5, <1>6, <1>7, <1>9, <1>10, <1>11, <1>12 DEF Next

\* A rule's leg is past the end of the list exactly if the position does not have it.
LEMMA PastTheEnd ==
  ASSUME TypeOK, LegsAreAList, NEW p \in PositionIds, NEW m \in Nat \ {0}
  PROVE  m > Cardinality(LegsOf(leg, p)) <=> ~(\E l \in LegsOf(leg, p) : l[2] = m)
<1> DEFINE P == {i \in 1 .. MaxLegs : leg[<<p, i>>].state # "Absent"}
           c == Cardinality(P)
           f == [i \in 1 .. c |-> <<p, i>>]
<1>1. MaxLegs \in Nat /\ \A i \in 1 .. MaxLegs : <<p, i>> \in LegIds /\ <<p, i>>[1] = p /\ <<p, i>>[2] = i
  BY Constants DEF LegIds, LegIndexes
<1>2. \A i \in 1 .. MaxLegs, j \in P : i <= j => i \in P
  <2> SUFFICES ASSUME NEW i \in 1 .. MaxLegs, NEW j \in P, i < j PROVE leg[<<p, i>>].state # "Absent"
    BY <1>1
  <2>1. QED
    BY <1>1 DEF LegsAreAList
<1>3. c \in 0 .. MaxLegs /\ P = 1 .. c
  <2>1. P \in SUBSET (1 .. MaxLegs)
    OBVIOUS
  <2> HIDE DEF P
  <2>2. QED
    BY <1>1, <1>2, <2>1, InitialSegment
<1>4. \A l : l \in LegsOf(leg, p) <=> \E i \in P : l = <<p, i>>
  <2> SUFFICES ASSUME NEW l PROVE l \in LegsOf(leg, p) <=> \E i \in P : l = <<p, i>>
    OBVIOUS
  <2>1. l \in LegsOf(leg, p) => \E i \in P : l = <<p, i>>
    BY LegIdParts DEF LegsOf, LegIndexes
  <2>2. (\E i \in P : l = <<p, i>>) => l \in LegsOf(leg, p)
    BY <1>1 DEF LegsOf
  <2>3. QED
    BY <2>1, <2>2
<1> HIDE DEF P, c
<1>5. f \in Bijection(1 .. c, LegsOf(leg, p))
  <2>1. f \in [1 .. c -> LegsOf(leg, p)]
    BY <1>3, <1>4
  <2>2. \A i, j \in 1 .. c : f[i] = f[j] => i = j
    OBVIOUS
  <2>3. \A l \in LegsOf(leg, p) : \E i \in 1 .. c : f[i] = l
    BY <1>3, <1>4
  <2> HIDE DEF f
  <2>4. QED
    BY <2>1, <2>2, <2>3 DEF Bijection, Injection, Surjection, IsInjective
<1>6. Cardinality(LegsOf(leg, p)) = c
  BY <1>3, <1>5, FS_CountingElements DEF ExistsBijection
<1>7. (\E l \in LegsOf(leg, p) : l[2] = m) <=> m \in P
  <2>1. \A i \in P : <<p, i>> \in LegsOf(leg, p) /\ <<p, i>>[2] = i
    BY <1>4
  <2>2. \A l \in LegsOf(leg, p) : l[2] \in P
    BY <1>4
  <2>3. QED
    BY <2>1, <2>2
<1>8. m \in P <=> m <= c
  BY <1>3
<1>9. QED
  BY <1>3, <1>6, <1>7, <1>8

-----------------------------------------------------------------------------
(* What a pass has done after so many rules.                                 *)

\* One of the first k rules asks for the leg.
AskedBy(k, l) == \E i \in 1 .. k : Fires(i) /\ l \in Targets(rules[i])

LegsAfter(k) ==
  [l \in LegIds |-> IF leg[l].state = "Open" /\ AskedBy(k, l) THEN Exiting(leg[l]) ELSE leg[l]]

FiredAfter(k) ==
  [i \in DOMAIN rules |-> IF i <= k /\ (Retires(rules[i]) \/ Fires(i)) THEN TRUE ELSE rules[i].fired]

AfterRule(k) == [leg |-> LegsAfter(k), fired |-> FiredAfter(k), dropped |-> {}]

\* An exit changes nothing of a leg that its valuation reads.
LEMMA ExitingFields ==
  ASSUME NEW lg \in Leg
  PROVE  /\ Exiting(lg).inst = lg.inst /\ Exiting(lg).qty = lg.qty /\ Exiting(lg).entry = lg.entry
         /\ Exiting(lg).mark = lg.mark /\ Exiting(lg).state = "PendingClose"
<1>1. lg.inst = lg.inst /\ Exiting(lg).state = "PendingClose"
  BY ExitingFacts
<1>2. /\ Exiting(lg).inst = lg.inst /\ Exiting(lg).qty = lg.qty /\ Exiting(lg).entry = lg.entry
      /\ Exiting(lg).mark = lg.mark
  BY DEF Exiting, Leg
<1>3. QED
  BY <1>1, <1>2

\* In the middle of a pass legs are Open that have not been asked for, and held or
\* not as before.
LEMMA InThePass ==
  ASSUME TypeOK, NEW k, NEW l \in LegIds
  PROVE  LET now1 == LegsAfter(k)[l]
         IN  /\ now1.state = "Absent" <=> leg[l].state = "Absent"
             /\ now1.state = "PendingOpen" <=> leg[l].state = "PendingOpen"
             /\ now1.state = "Cancelled" <=> leg[l].state = "Cancelled"
             /\ now1.state = "Open" <=> leg[l].state = "Open" /\ ~AskedBy(k, l)
             /\ Live(now1) <=> Live(leg[l])
             /\ Filled(now1) <=> Filled(leg[l])
             /\ Filled(leg[l]) => /\ PnlOf(now1) = PnlOf(leg[l])
                                  /\ now1.entry * now1.qty = leg[l].entry * leg[l].qty
<1> DEFINE now1 == LegsAfter(k)[l]
<1>1. leg[l] \in Leg
  BY TypeParts
<1>2. now1 = IF leg[l].state = "Open" /\ AskedBy(k, l) THEN Exiting(leg[l]) ELSE leg[l]
  BY DEF LegsAfter
<1> HIDE DEF now1
<1>3. CASE leg[l].state = "Open" /\ AskedBy(k, l)
  <2>1. now1.inst = leg[l].inst /\ now1.qty = leg[l].qty /\ now1.entry = leg[l].entry
        /\ now1.mark = leg[l].mark /\ now1.state = "PendingClose"
    BY <1>1, <1>2, <1>3, ExitingFields
  <2>2. PnlOf(now1) = PnlOf(leg[l])
    BY <1>3, <2>1 DEF PnlOf, Filled, Live, MarkFor, QuotedMark, Gain
  <2>3. QED
    BY <1>3, <2>1, <2>2 DEF Live, Filled, now1
<1>4. CASE ~(leg[l].state = "Open" /\ AskedBy(k, l))
  BY <1>2, <1>4 DEF now1
<1>5. QED
  BY <1>3, <1>4

\* So every test of the loop finds what it would have found before the pass.
LEMMA TestsInThePass ==
  ASSUME TypeOK, NEW k, NEW p
  PROVE  /\ LegsOf(LegsAfter(k), p) = LegsOf(leg, p)
         /\ IsOpen(LegsAfter(k), p) <=> IsOpen(leg, p)
         /\ Established(LegsAfter(k), p) <=> Established(leg, p)
<1> DEFINE lf == LegsAfter(k)
<1>1. \A l \in LegIds : /\ lf[l].state = "Absent" <=> leg[l].state = "Absent"
                        /\ lf[l].state = "PendingOpen" <=> leg[l].state = "PendingOpen"
                        /\ lf[l].state = "Cancelled" <=> leg[l].state = "Cancelled"
                        /\ Live(lf[l]) <=> Live(leg[l])
                        /\ Filled(lf[l]) <=> Filled(leg[l])
  BY InThePass
<1> HIDE DEF lf
<1>2. LegsOf(lf, p) = LegsOf(leg, p)
  BY <1>1 DEF LegsOf
<1>3. \A l \in LegsOf(leg, p) : l \in LegIds
  BY DEF LegsOf
<1>4. IsOpen(lf, p) <=> IsOpen(leg, p)
  BY <1>1, <1>2, <1>3 DEF IsOpen
<1>5. {l \in LegsOf(lf, p) : lf[l].state # "Cancelled"} = {l \in LegsOf(leg, p) : leg[l].state # "Cancelled"}
  BY <1>1, <1>2, <1>3
<1>6. Established(lf, p) <=> Established(leg, p)
  BY <1>1, <1>3, <1>5 DEF Established
<1>7. QED
  BY <1>2, <1>4, <1>6 DEF lf

LEMMA ConditionInThePass ==
  ASSUME TypeOK, NEW k, NEW r \in Rule, r.leg = Whole \/ <<r.position, r.leg>> \in LegIds
  PROVE  Triggered(LegsAfter(k), r) <=> Triggered(leg, r)
<1> DEFINE lf == LegsAfter(k)
           of(lg) == IF r.leg = Whole THEN LegsOf(lg, r.position) ELSE {<<r.position, r.leg>>}
           filled(lg) == {l \in of(lg) : Filled(lg[l])}
<1>1. \A l \in LegIds : /\ Filled(lf[l]) <=> Filled(leg[l])
                        /\ Filled(leg[l]) => /\ PnlOf(lf[l]) = PnlOf(leg[l])
                                             /\ lf[l].entry * lf[l].qty = leg[l].entry * leg[l].qty
  BY InThePass
<1>2. LegsOf(lf, r.position) = LegsOf(leg, r.position)
  BY TestsInThePass
<1> HIDE DEF lf
<1>3. of(lf) = of(leg) /\ of(leg) \subseteq LegIds
  BY <1>2 DEF LegsOf
<1>4. filled(lf) = filled(leg) /\ filled(leg) \subseteq LegIds /\ \A l \in filled(leg) : Filled(leg[l])
  BY <1>1, <1>3
<1>5. \A lg : PnlAndRisk(lg, r) = [pnl  |-> SumFunction([l \in filled(lg) |-> PnlOf(lg[l])]),
                                   risk |-> Magnitude(SumFunction([l \in filled(lg) |-> lg[l].entry * lg[l].qty]))]
  BY DEF PnlAndRisk
<1>6. [l \in filled(leg) |-> PnlOf(lf[l])] = [l \in filled(leg) |-> PnlOf(leg[l])]
  BY <1>1, <1>4
<1>7. [l \in filled(leg) |-> lf[l].entry * lf[l].qty] = [l \in filled(leg) |-> leg[l].entry * leg[l].qty]
  BY <1>1, <1>4
<1> HIDE DEF filled
<1>8. PnlAndRisk(lf, r) = PnlAndRisk(leg, r)
  BY <1>4, <1>5, <1>6, <1>7
<1>9. r.kind \in RuleKinds
  BY DEF Rule
<1>10. QED
  BY <1>8, <1>9 DEF Triggered, RuleKinds, lf

\* Of the due rules that aim at a leg, the first fires.
LEMMA FirstDueFires ==
  ASSUME NEW k \in 0 .. Len(rules), NEW l,
         \E j \in 1 .. k : Due(rules[j]) /\ l \in Targets(rules[j])
  PROVE  AskedBy(k, l)
<1> DEFINE D == {j \in 1 .. k : Due(rules[j]) /\ l \in Targets(rules[j])}
<1>1. D \subseteq Nat /\ D # {}
  OBVIOUS
<1>2. PICK m \in D : \A j \in D : ~(j < m)
  <2> HIDE DEF D
  <2> QED
    BY <1>1, LeastNatural
<1>3. ~(\E j \in 1 .. m - 1 : Due(rules[j]) /\ Targets(rules[m]) \subseteq Targets(rules[j]))
  <2> SUFFICES ASSUME NEW j \in 1 .. m - 1, Due(rules[j]), Targets(rules[m]) \subseteq Targets(rules[j])
               PROVE  FALSE
    OBVIOUS
  <2>1. j \in D /\ j < m
    BY <1>2
  <2>2. QED
    BY <1>2, <2>1
<1>4. Fires(m)
  BY <1>2, <1>3 DEF Fires
<1>5. QED
  BY <1>2, <1>4 DEF AskedBy

LEMMA AskedNext ==
  ASSUME NEW k \in 1 .. Len(rules), NEW l
  PROVE  AskedBy(k, l) <=> AskedBy(k - 1, l) \/ (Fires(k) /\ l \in Targets(rules[k]))
<1>1. k \in 1 .. k /\ (\A i \in 1 .. k - 1 : i \in 1 .. k) /\ \A i \in 1 .. k : i = k \/ i \in 1 .. k - 1
  OBVIOUS
<1>2. QED
  BY <1>1 DEF AskedBy

LEMMA LegsNext ==
  ASSUME TypeOK, NEW k \in 1 .. Len(rules)
  PROVE  LegsAfter(k) =
           [l \in LegIds |->
              IF Fires(k) /\ l \in Targets(rules[k]) /\ LegsAfter(k - 1)[l].state = "Open"
              THEN Exiting(LegsAfter(k - 1)[l]) ELSE LegsAfter(k - 1)[l]]
<1> DEFINE past == LegsAfter(k - 1)
<1>1. ASSUME NEW l \in LegIds
      PROVE  (IF leg[l].state = "Open" /\ AskedBy(k, l) THEN Exiting(leg[l]) ELSE leg[l])
               = IF Fires(k) /\ l \in Targets(rules[k]) /\ past[l].state = "Open" THEN Exiting(past[l]) ELSE past[l]
  <2>1. past[l].state = "Open" <=> leg[l].state = "Open" /\ ~AskedBy(k - 1, l)
    BY InThePass
  <2>2. past[l] = IF leg[l].state = "Open" /\ AskedBy(k - 1, l) THEN Exiting(leg[l]) ELSE leg[l]
    BY DEF LegsAfter
  <2> HIDE DEF past
  <2>3. QED
    BY <2>1, <2>2, AskedNext
<1>2. QED
  BY <1>1 DEF LegsAfter

LEMMA FiredNext ==
  ASSUME NEW k \in 1 .. Len(rules), DOMAIN rules = 1 .. Len(rules)
  PROVE  FiredAfter(k) = IF Retires(rules[k]) \/ Fires(k) THEN [FiredAfter(k - 1) EXCEPT ![k] = TRUE]
                         ELSE FiredAfter(k - 1)
<1>1. \A i \in DOMAIN rules : (i <= k <=> i <= k - 1 \/ i = k) /\ ~(k <= k - 1)
  OBVIOUS
<1>2. QED
  BY <1>1 DEF FiredAfter

\* What the model says of a rule is what the loop's tests say when it comes to it.
LEMMA TestsOfARule ==
  ASSUME TypeOK, LegsAreAList, NEW k \in 1 .. Len(rules), ~rules[k].fired
  PROVE  LET r == rules[k]
             t == <<r.position, r.leg>>
         IN  /\ Retires(r) <=> \/ ~IsOpen(leg, r.position)
                               \/ r.leg # Whole /\ r.leg > Cardinality(LegsOf(leg, r.position))
             /\ Retires(r) => ~Fires(k)
             /\ ~Retires(r) /\ r.leg = Whole =>
                  (Fires(k) <=> Established(leg, r.position) /\ Triggered(leg, r))
             /\ ~Retires(r) /\ r.leg # Whole =>
                  /\ t \in LegIds /\ Targets(r) = {t}
                  /\ Fires(k) <=> LegsAfter(k - 1)[t].state = "Open" /\ Triggered(leg, r)
<1> DEFINE r == rules[k]
           p == r.position
           t == <<r.position, r.leg>>
<1>1. k \in DOMAIN rules /\ DOMAIN rules = 1 .. Len(rules) /\ Len(rules) \in Nat
  BY DEF TypeOK
<1>2. r \in Rule /\ p \in Nat /\ p < size /\ r.leg \in Nat
  BY <1>1, RuleParts
<1>3. p \in PositionIds
  BY <1>2, TypeParts, Constants DEF PositionIds
<1>4. r.leg # Whole => (r.leg > Cardinality(LegsOf(leg, p)) <=> ~HasTarget(r))
  BY <1>2, <1>3, PastTheEnd DEF HasTarget, Whole
<1>5. Retires(r) <=> ~IsOpen(leg, p) \/ (r.leg # Whole /\ r.leg > Cardinality(LegsOf(leg, p)))
  BY <1>4 DEF Retires, HasTarget
<1>6. Retires(r) => ~Fires(k)
  BY DEF Fires, Due
<1>7. ~Retires(r) /\ r.leg = Whole => (Fires(k) <=> Established(leg, p) /\ Triggered(leg, r))
  BY DEF Fires, Due
<1>8. ASSUME ~Retires(r), r.leg # Whole
      PROVE  /\ t \in LegIds /\ Targets(r) = {t}
             /\ Fires(k) <=> LegsAfter(k - 1)[t].state = "Open" /\ Triggered(leg, r)
  <2>1. PICK l \in LegsOf(leg, p) : l[2] = r.leg
    BY <1>8 DEF Retires, HasTarget
  <2>2. l \in LegIds /\ l = t
    BY <2>1, LegIdParts DEF LegsOf
  <2>3. Targets(r) = {t}
    BY <1>8, <2>2, LegIdParts DEF Targets
  <2>4. Due(r) <=> leg[t].state = "Open" /\ Triggered(leg, r)
    BY <1>8, <2>3 DEF Due
  <2>5. LegsAfter(k - 1)[t].state = "Open" <=> leg[t].state = "Open" /\ ~AskedBy(k - 1, t)
    BY <2>2, InThePass
  <2>6. Due(r) => (AskedBy(k - 1, t) <=> \E j \in 1 .. k - 1 : Due(rules[j]) /\ Targets(r) \subseteq Targets(rules[j]))
    <3>1. (\E j \in 1 .. k - 1 : Due(rules[j]) /\ Targets(r) \subseteq Targets(rules[j])) => AskedBy(k - 1, t)
      <4> SUFFICES ASSUME NEW j \in 1 .. k - 1, Due(rules[j]), Targets(r) \subseteq Targets(rules[j])
                   PROVE  AskedBy(k - 1, t)
        OBVIOUS
      <4>1. t \in Targets(rules[j]) /\ k - 1 \in 0 .. Len(rules)
        BY <1>1, <2>3
      <4> HIDE DEF r, t
      <4>2. QED
        BY <4>1, FirstDueFires
    <3>2. AskedBy(k - 1, t) => \E j \in 1 .. k - 1 : Due(rules[j]) /\ Targets(r) \subseteq Targets(rules[j])
      BY <2>3 DEF AskedBy, Fires
    <3>3. QED
      BY <3>1, <3>2
  <2>7. Fires(k) <=> Due(r) /\ ~(\E j \in 1 .. k - 1 : Due(rules[j]) /\ Targets(r) \subseteq Targets(rules[j]))
    BY <1>8 DEF Fires
  <2>8. QED
    BY <2>2, <2>3, <2>4, <2>5, <2>6, <2>7
<1>9. QED
  BY <1>5, <1>6, <1>7, <1>8

\* submit_close asks each leg of the position in turn.
LEMMA ExitLegsIs ==
  ASSUME NEW lf, DOMAIN lf = LegIds, lf = [l \in LegIds |-> lf[l]], NEW p \in PositionIds
  PROVE  ExitLegs(lf, p) =
           [l \in LegIds |-> IF l[1] = p /\ lf[l].state = "Open" THEN Exiting(lf[l]) ELSE lf[l]]
<1> DEFINE Is(f)   == f = [i \in 0 .. MaxLegs |-> IF i = 0 THEN lf ELSE ExitLeg(f[i - 1], <<p, i>>)]
           upto    == CHOOSE f : Is(f)
           Then(i) == [l \in LegIds |-> IF l[1] = p /\ l[2] <= i /\ lf[l].state = "Open"
                                        THEN Exiting(lf[l]) ELSE lf[l]]
           then    == [i \in 0 .. MaxLegs |-> Then(i)]
<1>1. MaxLegs \in Nat /\ \A l \in LegIds : l[2] \in Nat /\ l[2] > 0 /\ l[2] <= MaxLegs
  BY Constants, LegIdParts DEF LegIndexes
<1>2. Then(0) = lf
  BY <1>1
<1>3. ASSUME NEW i \in 1 .. MaxLegs PROVE ExitLeg(Then(i - 1), <<p, i>>) = Then(i)
  <2> DEFINE t == <<p, i>>
  <2>1. t \in LegIds /\ \A l \in LegIds : l[1] = p /\ l[2] = i <=> l = t
    BY LegIdParts DEF LegIds, LegIndexes
  <2>2. \A l \in LegIds : l[2] <= i <=> l[2] <= i - 1 \/ l[2] = i
    BY <1>1
  <2>3. t[1] = p /\ t[2] = i /\ ~(i <= i - 1)
    OBVIOUS
  <2> HIDE DEF t
  <2>4. Then(i - 1)[t] = lf[t]
    BY <2>1, <2>3
  <2>5. Then(i) = IF lf[t].state = "Open" THEN [Then(i - 1) EXCEPT ![t] = Exiting(lf[t])] ELSE Then(i - 1)
    BY <2>1, <2>2, <2>3
  <2> HIDE DEF Then
  <2>6. QED
    BY <2>4, <2>5 DEF ExitLeg, t
<1>4. ExitLegs(lf, p) = upto[MaxLegs]
  BY DEF ExitLegs
<1> HIDE DEF Then
<1>5. Is(then)
  <2>1. \A i \in 0 .. MaxLegs : then[i] = IF i = 0 THEN lf ELSE ExitLeg(then[i - 1], <<p, i>>)
    BY <1>1, <1>2, <1>3
  <2>2. then = [i \in 0 .. MaxLegs |-> then[i]]
    OBVIOUS
  <2> HIDE DEF then
  <2>3. QED
    BY <2>1, <2>2
<1>6. Is(upto)
  <2> HIDE DEF Is
  <2> QED
    BY <1>5
<1> DEFINE P == {i \in 0 .. MaxLegs : upto[i] = Then(i)}
<1>7. \A i \in 1 .. MaxLegs : upto[i] = ExitLeg(upto[i - 1], <<p, i>>)
  <2> HIDE DEF upto
  <2> QED
    BY <1>1, <1>6
<1>8. upto[0] = lf
  <2> HIDE DEF upto
  <2> QED
    BY <1>1, <1>6
<1> HIDE DEF upto
<1>9. 0 \in P /\ \A i \in 1 .. MaxLegs : i - 1 \in P => i \in P
  <2>1. 0 \in P
    BY <1>1, <1>2, <1>8
  <2>2. ASSUME NEW i \in 1 .. MaxLegs, i - 1 \in P PROVE i \in P
    <3>1. upto[i - 1] = Then(i - 1) /\ i \in 0 .. MaxLegs
      BY <1>1, <2>2
    <3>2. upto[i] = Then(i)
      BY <1>3, <1>7, <3>1
    <3>3. QED
      BY <3>1, <3>2
  <2>3. QED
    BY <2>1, <2>2
<1>10. \A i \in 0 .. MaxLegs : i \in P
  <2> HIDE DEF P
  <2> QED
    BY <1>1, <1>9, NatUpTo
<1>11. upto[MaxLegs] = Then(MaxLegs)
  BY <1>1, <1>10
<1>12. Then(MaxLegs) = [l \in LegIds |-> IF l[1] = p /\ lf[l].state = "Open" THEN Exiting(lf[l]) ELSE lf[l]]
  BY <1>1 DEF Then
<1>13. QED
  BY <1>4, <1>11, <1>12

\* An established position has no opening left to withdraw.
LEMMA NothingToWithdraw ==
  ASSUME Inv1, NEW p, Established(leg, p), NEW o \in pending, o.leg[1] = p
  PROVE  o.closing
<1> SUFFICES ASSUME ~o.closing PROVE FALSE
  OBVIOUS
<1>1. o.leg \in LegIds /\ leg[o.leg].state = "PendingOpen"
  BY TypeParts DEF Inv1, OneOrderPerWaitingLeg, Awaiting
<1>2. o.leg \in LegsOf(leg, p)
  BY <1>1 DEF LegsOf
<1>3. QED
  BY <1>1, <1>2 DEF Established, Filled, Live

\* One turn of the loop takes what is so after k - 1 rules to what is so after k.
LEMMA VisitIs ==
  ASSUME Inv1, LegsAreAList, NEW k \in 1 .. Len(rules)
  PROVE  Visit(k, AfterRule(k - 1)) = AfterRule(k)
<1> DEFINE r == rules[k]
           p == r.position
           t == <<r.position, r.leg>>
           st == AfterRule(k - 1)
           lf == LegsAfter(k - 1)
           fr == FiredAfter(k - 1)
<1>1. TypeOK /\ k \in DOMAIN rules /\ DOMAIN rules = 1 .. Len(rules)
  BY DEF Inv1, TypeOK
<1>2. r \in Rule /\ r.fired \in BOOLEAN /\ p \in PositionIds
  BY <1>1, RuleParts, TypeParts, Constants DEF PositionIds
<1>3. st = [leg |-> lf, fired |-> fr, dropped |-> {}] /\ st.leg = lf /\ st.fired = fr /\ st.dropped = {}
  BY DEF AfterRule
<1>4. fr[k] = r.fired
  <2>1. ~(k <= k - 1)
    OBVIOUS
  <2>2. QED
    BY <1>1, <2>1 DEF FiredAfter
<1>5. lf = [l \in LegIds |-> lf[l]] /\ DOMAIN lf = LegIds
  BY DEF LegsAfter
<1>6. /\ LegsOf(lf, p) = LegsOf(leg, p)
      /\ IsOpen(lf, p) <=> IsOpen(leg, p)
      /\ Established(lf, p) <=> Established(leg, p)
  BY <1>1, TestsInThePass
<1>7. r.leg = Whole \/ t \in LegIds => (Triggered(lf, r) <=> Triggered(leg, r))
  BY <1>1, <1>2, ConditionInThePass
<1>8. FiredAfter(k) = IF Retires(r) \/ Fires(k) THEN [fr EXCEPT ![k] = TRUE] ELSE fr
  BY <1>1, FiredNext
<1>9. LegsAfter(k) = [l \in LegIds |-> IF Fires(k) /\ l \in Targets(r) /\ lf[l].state = "Open"
                                       THEN Exiting(lf[l]) ELSE lf[l]]
  BY <1>1, LegsNext
<1>10. AfterRule(k) = [leg |-> LegsAfter(k), fired |-> FiredAfter(k), dropped |-> {}]
  BY DEF AfterRule
<1>11. Fire(k, st) = [leg |-> lf, fired |-> [fr EXCEPT ![k] = TRUE], dropped |-> {}]
  <2> DEFINE spent == [st.fired EXCEPT ![k] = TRUE]
  <2>1. Fire(k, st) = [st EXCEPT !.fired = spent]
    BY DEF Fire
  <2>2. spent = [fr EXCEPT ![k] = TRUE]
    BY <1>3
  <2> HIDE DEF st, lf, fr, spent
  <2>3. Fire(k, st) = [leg |-> lf, fired |-> spent, dropped |-> {}]
    BY <1>3, <2>1
  <2>4. QED
    BY <2>2, <2>3
<1>12. ~Fires(k) => LegsAfter(k) = lf
  BY <1>5, <1>9
<1>13. /\ Retires(r) /\ ~Fires(k) => AfterRule(k) = Fire(k, st)
       /\ ~Retires(r) /\ ~Fires(k) => AfterRule(k) = st
  BY <1>3, <1>8, <1>10, <1>11, <1>12
<1>14. Visit(k, st) =
         IF st.fired[k] THEN st
         ELSE IF ~IsOpen(st.leg, p) THEN Fire(k, st)
         ELSE IF r.leg # Whole /\ r.leg > Cardinality(LegsOf(st.leg, p)) THEN Fire(k, st)
         ELSE IF r.leg # Whole /\ st.leg[t].state # "Open" THEN st
         ELSE IF r.leg = Whole /\ ~Established(st.leg, p) THEN st
         ELSE IF ~Triggered(st.leg, r) THEN st
         ELSE IF r.leg = Whole THEN ExitPosition(Fire(k, st), p)
         ELSE [Fire(k, st) EXCEPT !.leg = ExitLeg(@, t)]
  BY DEF Visit
<1> HIDE DEF st, lf, fr
<1>15. CASE r.fired
  <2>1. ~Fires(k) /\ ~Retires(r)
    BY <1>15 DEF Fires, Due, Retires
  <2>2. Visit(k, st) = st
    BY <1>3, <1>4, <1>14, <1>15
  <2>3. QED
    BY <1>13, <2>1, <2>2 DEF st
<1>16. CASE ~r.fired
  <2>1. /\ Retires(r) <=> ~IsOpen(leg, p) \/ (r.leg # Whole /\ r.leg > Cardinality(LegsOf(leg, p)))
        /\ Retires(r) => ~Fires(k)
        /\ ~Retires(r) /\ r.leg = Whole => (Fires(k) <=> Established(leg, p) /\ Triggered(leg, r))
        /\ ~Retires(r) /\ r.leg # Whole =>
             /\ t \in LegIds /\ Targets(r) = {t}
             /\ Fires(k) <=> lf[t].state = "Open" /\ Triggered(leg, r)
    BY <1>1, <1>16, TestsOfARule DEF lf
  <2>2. ~st.fired[k]
    BY <1>3, <1>4, <1>16
  <2>3. CASE Retires(r)
    <3>1. Visit(k, st) = Fire(k, st)
      BY <1>3, <1>6, <1>14, <2>1, <2>2, <2>3
    <3>2. QED
      BY <1>13, <2>1, <2>3, <3>1 DEF st
  <2>4. CASE ~Retires(r) /\ ~Fires(k)
    <3>1. Visit(k, st) = st
      BY <1>3, <1>6, <1>7, <1>14, <2>1, <2>2, <2>4
    <3>2. QED
      BY <1>13, <2>4, <3>1 DEF st
  <2>5. CASE ~Retires(r) /\ Fires(k) /\ r.leg = Whole
    <3> DEFINE on == Fire(k, st)
    <3>1. Visit(k, st) = ExitPosition(on, p)
      BY <1>3, <1>6, <1>7, <1>14, <2>1, <2>2, <2>5
    <3>2. on.leg = lf /\ on.fired = [fr EXCEPT ![k] = TRUE] /\ on.dropped = {}
          /\ on = [leg |-> on.leg, fired |-> on.fired, dropped |-> on.dropped]
      BY <1>11
    <3> HIDE DEF on
    <3>3. {o \in pending \ on.dropped : o.leg[1] = p /\ ~o.closing} = {}
      BY <2>1, <2>5, NothingToWithdraw
    <3>4. ExitPosition(on, p) = [on EXCEPT !.leg = ExitLegs(lf, p), !.dropped = @ \cup {}]
      <4>1. lf = [l \in LegIds |-> IF \E o \in {} : o.leg = l THEN InState(on.leg[l], "Cancelled") ELSE on.leg[l]]
        BY <1>5, <3>2
      <4>2. QED
        BY <3>3, <4>1 DEF ExitPosition
    <3>5. ExitPosition(on, p) = [leg |-> ExitLegs(lf, p), fired |-> [fr EXCEPT ![k] = TRUE], dropped |-> {}]
      BY <3>2, <3>4
    <3>6. \A l \in LegIds : l \in Targets(r) <=> l[1] = p
      BY <2>5 DEF Targets
    <3>7. LegsAfter(k) = ExitLegs(lf, p)
      BY <1>2, <1>5, <1>9, <2>5, <3>6, ExitLegsIs
    <3>8. QED
      BY <1>8, <1>10, <2>5, <3>1, <3>5, <3>7 DEF st
  <2>6. CASE ~Retires(r) /\ Fires(k) /\ r.leg # Whole
    <3> DEFINE on == Fire(k, st)
    <3>1. Visit(k, st) = [on EXCEPT !.leg = ExitLeg(@, t)]
      BY <1>3, <1>6, <1>7, <1>14, <2>1, <2>2, <2>6
    <3>2. on.leg = lf /\ on.fired = [fr EXCEPT ![k] = TRUE] /\ on.dropped = {}
          /\ on = [leg |-> on.leg, fired |-> on.fired, dropped |-> on.dropped]
      BY <1>11
    <3> HIDE DEF on
    <3>3. Visit(k, st) = [leg |-> ExitLeg(lf, t), fired |-> [fr EXCEPT ![k] = TRUE], dropped |-> {}]
      BY <3>1, <3>2
    <3>4. t \in LegIds /\ Targets(r) = {t} /\ lf[t].state = "Open"
      BY <2>1, <2>6
    <3>5. LegsAfter(k) = [lf EXCEPT ![t] = Exiting(lf[t])]
      BY <1>5, <1>9, <2>6, <3>4
    <3>6. LegsAfter(k) = ExitLeg(lf, t)
      BY <3>4, <3>5 DEF ExitLeg
    <3>7. QED
      BY <1>8, <1>10, <2>6, <3>3, <3>6 DEF st
  <2>7. QED
    BY <2>3, <2>4, <2>5, <2>6
<1>17. QED
  BY <1>2, <1>15, <1>16

\* Before the first rule nothing has been done.
LEMMA StartIs ==
  ASSUME TypeOK
  PROVE  Start = AfterRule(0)
<1>1. leg = LegsAfter(0)
  <2>1. \A l : ~AskedBy(0, l)
    BY DEF AskedBy
  <2>2. leg = [l \in LegIds |-> leg[l]]
    BY DEF TypeOK
  <2>3. QED
    BY <2>1, <2>2 DEF LegsAfter
<1>2. [i \in DOMAIN rules |-> rules[i].fired] = FiredAfter(0)
  <2>1. \A i \in DOMAIN rules : ~(i <= 0)
    BY DEF TypeOK
  <2>2. QED
    BY <2>1 DEF FiredAfter
<1>3. QED
  BY <1>1, <1>2 DEF Start, AfterRule

\* The loop's end.
LEMMA VisitsIs ==
  ASSUME Inv1, LegsAreAList
  PROVE  Visits = AfterRule(Len(rules))
<1> DEFINE n     == Len(rules)
           Is(f) == f = [i \in 0 .. n |-> IF i = 0 THEN Start ELSE Visit(i, f[i - 1])]
           upto  == CHOOSE f : Is(f)
           then  == [i \in 0 .. n |-> AfterRule(i)]
<1>1. n \in Nat
  BY DEF Inv1, TypeOK
<1>2. Start = AfterRule(0) /\ \A i \in 1 .. n : Visit(i, AfterRule(i - 1)) = AfterRule(i)
  BY StartIs, VisitIs DEF Inv1
<1>3. Visits = upto[n]
  BY DEF Visits
<1> HIDE DEF n
<1>4. Is(then)
  <2>1. \A i \in 0 .. n : then[i] = IF i = 0 THEN Start ELSE Visit(i, then[i - 1])
    BY <1>1, <1>2
  <2>2. then = [i \in 0 .. n |-> then[i]]
    OBVIOUS
  <2> HIDE DEF then
  <2>3. QED
    BY <2>1, <2>2
<1>5. Is(upto)
  <2> HIDE DEF Is
  <2> QED
    BY <1>4
<1> HIDE DEF upto
<1>6. upto[0] = Start /\ \A i \in 1 .. n : upto[i] = Visit(i, upto[i - 1])
  BY <1>1, <1>5
<1> DEFINE P == {i \in 0 .. n : upto[i] = AfterRule(i)}
<1>7. 0 \in P
  BY <1>1, <1>2, <1>6
<1>8. ASSUME NEW i \in 1 .. n, i - 1 \in P PROVE i \in P
  <2>1. upto[i - 1] = AfterRule(i - 1) /\ i \in 0 .. n
    BY <1>1, <1>8
  <2>2. upto[i] = AfterRule(i)
    BY <1>2, <1>6, <2>1
  <2>3. QED
    BY <2>1, <2>2
<1>9. \A i \in 0 .. n : i \in P
  <2> HIDE DEF P
  <2> QED
    BY <1>1, <1>7, <1>8, NatUpTo
<1>10. QED
  BY <1>1, <1>3, <1>9 DEF n

\* The pass as the model has it.
LEMMA PassIs ==
  ASSUME Inv1, LegsAreAList, ProcessRiskRules
  PROVE  /\ leg' = LegsAfter(Len(rules))
         /\ \A i \in DOMAIN rules : rules'[i].fired = FiredAfter(Len(rules))[i]
         /\ pending \ pending' = {}
<1> DEFINE firing == {i \in DOMAIN rules : Fires(i)}
           whole  == {i \in firing : rules[i].leg = Whole}
           ps     == {rules[i].position : i \in whole}
           ls     == {<<rules[i].position, rules[i].leg>> : i \in firing \ whole}
           exits  == {l \in LegIds : (l[1] \in ps \/ l \in ls) /\ CanExit(leg[l])}
<1>1. DOMAIN rules = 1 .. Len(rules) /\ leg = [l \in LegIds |-> leg[l]]
  BY DEF Inv1, TypeOK
<1>2. Leave(ps, ls, TRUE)
        /\ rules' = [i \in DOMAIN rules |-> [rules[i] EXCEPT !.fired = @ \/ Retires(rules[i]) \/ i \in firing]]
  BY DEF ProcessRiskRules
<1>3. UnfilledOpenings(ps) = {}
  <2> SUFFICES ASSUME NEW i \in whole, NEW o \in pending, o.leg[1] = rules[i].position PROVE o.closing
    BY DEF UnfilledOpenings
  <2>1. Established(leg, rules[i].position)
    BY DEF Fires, Due
  <2>2. QED
    BY <2>1, NothingToWithdraw
<1>4. ASSUME NEW l \in LegIds
      PROVE  l[1] \in ps \/ l \in ls <=> AskedBy(Len(rules), l)
  <2>1. l[1] \in ps <=> \E i \in firing : rules[i].leg = Whole /\ rules[i].position = l[1]
    OBVIOUS
  <2>2. l \in ls <=> \E i \in firing : rules[i].leg # Whole /\ l = <<rules[i].position, rules[i].leg>>
    OBVIOUS
  <2>3. \A i : i \in firing <=> i \in 1 .. Len(rules) /\ Fires(i)
    BY <1>1
  <2> HIDE DEF firing, ps, ls, whole
  <2>4. \A i \in firing : l \in Targets(rules[i]) <=>
                            (\/ rules[i].leg = Whole /\ rules[i].position = l[1]
                             \/ rules[i].leg # Whole /\ l = <<rules[i].position, rules[i].leg>>)
    BY LegIdParts DEF Targets
  <2>5. QED
    BY <2>1, <2>2, <2>3, <2>4 DEF AskedBy
<1>5. leg' = [l \in LegIds |-> IF l \in exits THEN Exiting(leg[l]) ELSE leg[l]]
  <2> HIDE DEF ps, ls
  <2>1. {o.leg : o \in UnfilledOpenings(ps)} = {}
    BY <1>3
  <2>2. QED
    BY <1>2, <2>1 DEF Leave
<1>6. pending \ pending' = {}
  <2> HIDE DEF ps, ls
  <2> QED
    BY <1>2, <1>3 DEF Leave
<1>7. \A l \in LegIds : l \in exits <=> leg[l].state = "Open" /\ AskedBy(Len(rules), l)
  BY <1>4 DEF CanExit
<1>8. leg' = LegsAfter(Len(rules))
  <2> HIDE DEF exits
  <2> QED
    BY <1>5, <1>7 DEF LegsAfter
<1>9. ASSUME NEW i \in DOMAIN rules PROVE rules'[i].fired = FiredAfter(Len(rules))[i]
  <2>1. rules[i] \in Rule /\ rules[i].fired \in BOOLEAN
    BY RuleParts DEF Inv1
  <2> DEFINE spent == rules[i].fired \/ Retires(rules[i]) \/ i \in firing
  <2>2. rules'[i] = [rules[i] EXCEPT !.fired = spent]
    BY <1>2
  <2>3. rules'[i].fired = spent
    <3> HIDE DEF spent
    <3> QED
      BY <2>1, <2>2 DEF Rule
  <2>4. i <= Len(rules) /\ (i \in firing <=> Fires(i))
    BY <1>1
  <2>5. FiredAfter(Len(rules))[i] = IF Retires(rules[i]) \/ Fires(i) THEN TRUE ELSE rules[i].fired
    BY <2>4 DEF FiredAfter
  <2> HIDE DEF firing
  <2>6. QED
    BY <2>1, <2>3, <2>4, <2>5
<1>10. QED
  BY <1>6, <1>8, <1>9

LEMMA ListHolds == Spec => []LegsAreAList
<1>1. Init => LegsAreAList
  BY BlankType DEF Init, LegsAreAList
<1>2. Inv1 /\ LegsAreAList /\ [Next]_vars => LegsAreAList'
  BY ListNext
<1>3. QED
  BY <1>1, <1>2, Inv1Holds, PTL DEF Spec

\* RulePassIsTheLoop: whatever rules are attached, on whatever positions and legs and in
\* whatever order, process_risk_rules leaves the legs, the rules and the working orders
\* as the outcome does that Portfolio states without a loop.
THEOREM PassesAreLoops == Spec => RulePassIsTheLoop
<1>1. Inv1 /\ LegsAreAList /\ ProcessRiskRules =>
        /\ leg' = Visits.leg
        /\ \A i \in DOMAIN rules : rules'[i].fired = Visits.fired[i]
        /\ pending \ pending' = Visits.dropped
  BY VisitsIs, PassIs DEF AfterRule
<1>2. QED
  BY <1>1, Inv1Holds, ListHolds, PTL DEF RulePassIsTheLoop, Spec

\* So it does throughout a session.
THEOREM SessionPassesAreLoops == SSpec => RulePassIsTheLoop
BY SessionImplementsPortfolio, PassesAreLoops, PTL DEF SessionUsesPortfolio
=============================================================================
