------------------------------ MODULE ViewProofs ------------------------------
(***************************************************************************)
(* Of what a strategy sees, and when: it is resumed at the times it waits  *)
(* for; the look-ahead check tells causal strategies from leaking ones; a  *)
(* replay, on the whole session or up to a cutoff, is one of Replay's,     *)
(* whether it walks a cached order or merges, and the steps derived are    *)
(* the times of its events.  For any dates, any of them without data, any  *)
(* observations, plans, strategies, instruments and rows.                  *)
(***************************************************************************)
EXTENDS StrategyClock, Lookahead, EventCursor, FiniteLemmas

-----------------------------------------------------------------------------
(* The invariants.                                                          *)

InSession == phase \in {"step", "resume"}

ClockTypes ==
  /\ loads \subseteq AllDates
  /\ calendar = AllDates \/ (calendar = {} /\ loads = {Dates[1]})
  /\ prints \in [loads -> SUBSET PrintTimes]
  /\ at \in 0 .. LastDate
  /\ phase \in {"step", "resume", "between", "over", "failed"}
  /\ date \in AllDates /\ now \in Nat
  /\ waits \in Nat \cup {Never} /\ next \in DOMAIN Plan /\ resumes \in Nat
  /\ series \in Nat \cup {NoSeries} /\ series <= date
  /\ met \in Seq([time : TimesOfDay, on : Nat, at : Nat])
  /\ IF at = 0 THEN date = Dates[1] /\ phase = "between" ELSE date <= Dates[at]
  /\ InSession => at > 0 /\ date = Dates[at] /\ date \in loads
  /\ phase = "resume" => now \in Observed(date)

\* What is waited for is a time of the plan on a date of the run.
WaitsForPlan == waits # Never => \E d \in AllDates : waits = Timestamp(d, Plan[next])

\* The session d is past.
Past(d) == at > 0 /\ d <= Dates[at] /\ ~(d = date /\ (InSession \/ phase = "failed"))

\* The clock is at or after every observation of the sessions that are past ...
Replayed == \A d \in loads : Past(d) => \A u \in Observed(d) : u <= now

\* ... and no observation it has passed was due: the one it is at may be.
NoneMissed ==
  calendar # {} =>
    \A d \in loads : \A u \in Observed(d) :
      u <= now => waits = Never \/ u < waits \/ (phase = "resume" /\ u = now)

\* Nothing resumes twice in a step: what is waited for next is later.
OnceAStep == calendar # {} => resumes <= 1 /\ (phase = "resume" /\ Holds(waits, now) => resumes = 0)

ClockInv == ClockTypes /\ WaitsForPlan /\ Replayed /\ NoneMissed /\ OnceAStep

\* The time waited for once the plan of the i-th date is done.
NextDay(i) == IF i = Len(Dates) THEN Never ELSE Timestamp(Dates[i + 1], Plan[1])

\* A daily loop, if there is data on every date and observations enough.
Daily ==
  Dense /\ loads = calendar =>
    /\ at = 0 => met = <<>> /\ next = 1 /\ waits = Timestamp(Dates[1], Plan[1])
    /\ at > 0 => date = Dates[at]
    /\ Len(met) <= Len(Plan)
    /\ \A i \in DOMAIN met :
         /\ met[i].time = Plan[i] /\ met[i].on = date
         /\ met[i].at >= Timestamp(date, Plan[i]) /\ met[i].at <= now
    /\ InSession /\ Len(met) < Len(Plan) =>
         next = Len(met) + 1 /\ waits = Timestamp(date, Plan[next])
    /\ InSession /\ Len(met) = Len(Plan) => next = 1 /\ waits = NextDay(at)
    /\ phase = "between" /\ at > 0 => Len(met) = Len(Plan) /\ next = 1 /\ waits = NextDay(at)


-----------------------------------------------------------------------------
(* Time.                                                                    *)

LEMMA TimesAreNat == ASSUME NEW d \in Nat, NEW t \in Nat PROVE Timestamp(d, t) \in Nat
<1>1. d * DayLength \in Nat
  BY ClockAssumption
<1>2. QED
  BY <1>1 DEF Timestamp

LEMMA SameDay ==
  ASSUME NEW d \in Nat, NEW s \in Nat, NEW t \in Nat
  PROVE  Timestamp(d, s) < Timestamp(d, t) <=> s < t
<1>1. d * DayLength \in Nat
  BY ClockAssumption
<1>2. QED
  BY <1>1 DEF Timestamp

\* A time of a day is before any time of a later one ...
LEMMA LaterDay ==
  ASSUME NEW d \in Nat, NEW e \in Nat, d < e, NEW s \in TimesOfDay, NEW t \in Nat
  PROVE  Timestamp(d, s) < Timestamp(e, t)
<1> DayLength \in Nat /\ d * DayLength \in Nat /\ e * DayLength \in Nat
  BY ClockAssumption
<1>1. d * DayLength + DayLength <= e * DayLength
  OBVIOUS
<1>2. QED
  BY <1>1 DEF Timestamp, TimesOfDay

\* ... and its date can be told from it.
LEMMA DayOf ==
  ASSUME NEW d \in Nat, NEW t \in TimesOfDay
  PROVE  Timestamp(d, t) \div DayLength = d
<1> DEFINE n == DayLength
<1>1. n \in Nat \ {0} /\ t \in Nat /\ t < n
  BY ClockAssumption DEF TimesOfDay
<1> HIDE DEF n
<1>2. (d * n + t) \div n = d
  BY <1>1
<1>3. QED
  BY <1>2 DEF Timestamp, n

-----------------------------------------------------------------------------
(* Dates.                                                                   *)

LEMMA DatesAreNat ==
  /\ Len(Dates) \in Nat \ {0} /\ DOMAIN Dates = 1 .. Len(Dates)
  /\ \A i \in 1 .. Len(Dates) : Dates[i] \in Nat \ {0}
  /\ AllDates \subseteq Nat \ {0} /\ Dates[1] \in AllDates
BY ClockAssumption DEF AllDates

LEMMA DatesAscend ==
  ASSUME NEW i \in 1 .. Len(Dates), NEW j \in 1 .. Len(Dates), i < j
  PROVE  Dates[i] < Dates[j]
<1> DEFINE T == {k \in 1 .. Len(Dates) : i < k /\ ~(Dates[i] < Dates[k])}
<1> SUFFICES ASSUME T # {} PROVE FALSE
  OBVIOUS
<1> USE DatesAreNat
<1>0. T \subseteq Nat
  OBVIOUS
<1>1. PICK m \in T : \A k \in T : ~(k < m)
  <2> HIDE DEF T
  <2> QED
    BY <1>0, LeastNatural
<1>2. m - 1 \in 1 .. Len(Dates) - 1 /\ Dates[m - 1] < Dates[m]
  BY <1>1, ClockAssumption
<1>3. m - 1 \notin T
  BY <1>1
<1>4. Dates[i] < Dates[m - 1] \/ m - 1 = i
  BY <1>2, <1>3
<1>5. ~(Dates[i] < Dates[m]) /\ Dates[i] \in Nat /\ Dates[m] \in Nat /\ Dates[m - 1] \in Nat
  BY <1>1, <1>2
<1>6. QED
  BY <1>2, <1>4, <1>5

\* Of two places in the calendar the later has the later date.
LEMMA DatesOrdered ==
  ASSUME NEW i \in 1 .. Len(Dates), NEW j \in 1 .. Len(Dates)
  PROVE  Dates[i] <= Dates[j] <=> i <= j
BY DatesAscend, DatesAreNat

LEMMA PlanTimes ==
  /\ Len(Plan) \in Nat \ {0} /\ DOMAIN Plan = 1 .. Len(Plan)
  /\ \A i \in DOMAIN Plan : Plan[i] \in TimesOfDay /\ Plan[i] \in Nat
BY ClockAssumption DEF TimesOfDay

LEMMA Observations ==
  ASSUME ClockTypes, NEW d \in loads, NEW u \in Observed(d)
  PROVE  \E time \in prints[d] : time \in TimesOfDay /\ time \in Nat /\ u = Timestamp(d, time) /\ u \in Nat
<1>1. PICK time \in prints[d] : u = Timestamp(d, time)
  BY DEF Observed
<1>2. time \in TimesOfDay /\ time \in Nat
  BY <1>1, ClockAssumption DEF ClockTypes, TimesOfDay
<1>3. d \in Nat
  BY DatesAreNat DEF ClockTypes
<1>4. QED
  BY <1>1, <1>2, <1>3, TimesAreNat

\* The next date of the calendar is the least of those after.
LEMMA FirstLater ==
  ASSUME ClockTypes, NEW d \in Nat, LaterDates(d) # {}
  PROVE  LET e == CHOOSE e \in LaterDates(d) : \A f \in LaterDates(d) : e <= f
         IN  e \in LaterDates(d) /\ e \in AllDates /\ e > d /\ \A f \in LaterDates(d) : e <= f
<1>1. LaterDates(d) \subseteq AllDates /\ LaterDates(d) \subseteq Nat /\ \A e \in LaterDates(d) : e > d
  BY DatesAreNat DEF LaterDates, ClockTypes
<1>2. PICK e \in LaterDates(d) : \A f \in LaterDates(d) : ~(f < e)
  BY <1>1, LeastNatural
<1>3. \A f \in LaterDates(d) : e <= f
  BY <1>1, <1>2
<1>4. QED
  BY <1>1, <1>3

\* What Ctx::at answers is a time of the plan on a date of the run ...
LEMMA ResolvesOnDate ==
  ASSUME ClockTypes, NEW i \in DOMAIN Plan, NEW d \in AllDates, NEW t \in Nat
  PROVE  Resolve(Plan[i], d, t) = Never
           \/ \E e \in AllDates : Resolve(Plan[i], d, t) = Timestamp(e, Plan[i])
<1>1. d \in Nat
  BY DatesAreNat
<1>2. CASE LaterDates(d) = {}
  BY <1>2 DEF Resolve
<1>3. CASE LaterDates(d) # {}
  BY <1>1, <1>3, FirstLater DEF Resolve
<1>4. QED
  BY <1>2, <1>3

LEMMA ResolvesToTime ==
  ASSUME ClockTypes, NEW i \in DOMAIN Plan, NEW d \in AllDates, NEW t \in Nat
  PROVE  Resolve(Plan[i], d, t) \in Nat \cup {Never}
<1>1. \A e \in AllDates : Timestamp(e, Plan[i]) \in Nat
  BY TimesAreNat, DatesAreNat, PlanTimes, ClockAssumption
<1>2. QED
  BY <1>1, ResolvesOnDate

\* ... and, with a calendar, later than any time of the day it was asked on.
LEMMA ResolvesAhead ==
  ASSUME ClockTypes, calendar # {}, NEW i \in DOMAIN Plan, NEW d \in AllDates, NEW s \in TimesOfDay
  PROVE  LET w == Resolve(Plan[i], d, Timestamp(d, s)) IN w = Never \/ w > Timestamp(d, s)
<1> DEFINE e == CHOOSE e \in LaterDates(d) : \A f \in LaterDates(d) : e <= f
<1>1. d \in Nat /\ Plan[i] \in Nat
  BY DatesAreNat, PlanTimes, ClockAssumption
<1>2. CASE Timestamp(d, s) < Timestamp(d, Plan[i])
  BY <1>2 DEF Resolve
<1>3. CASE ~(Timestamp(d, s) < Timestamp(d, Plan[i])) /\ LaterDates(d) = {}
  BY <1>3 DEF Resolve
<1>4. CASE ~(Timestamp(d, s) < Timestamp(d, Plan[i])) /\ LaterDates(d) # {}
  <2>1. e \in AllDates /\ d < e
    BY <1>1, <1>4, FirstLater
  <2>2. e \in Nat
    BY <2>1, DatesAreNat
  <2>3. Resolve(Plan[i], d, Timestamp(d, s)) = Timestamp(e, Plan[i])
    BY <1>4 DEF Resolve
  <2>4. Timestamp(d, s) < Timestamp(e, Plan[i])
    <3> HIDE DEF e
    <3> QED
      BY <1>1, <2>1, <2>2, LaterDay
  <2>5. QED
    BY <2>3, <2>4
<1>5. QED
  BY <1>2, <1>3, <1>4

\* The observation the loop steps to is the first one after the clock.
LEMMA StepsToFirst ==
  ASSUME ClockTypes, InSession, SessionLeft
  PROVE  NextPrint \in Observed(date) /\ NextPrint \in Nat /\ NextPrint > now
           /\ \A u \in Observed(date) : u > now => NextPrint <= u
<1> DEFINE T == {t \in Observed(date) : t > now}
<1>1. Observed(date) \subseteq Nat
  BY Observations DEF ClockTypes
<1>2. T \subseteq Nat /\ T # {}
  BY <1>1 DEF SessionLeft
<1>3. PICK t \in T : \A u \in T : ~(u < t)
  <2> HIDE DEF T
  <2> QED
    BY <1>2, LeastNatural
<1>4. \A u \in Observed(date) : u > now => t <= u
  BY <1>1, <1>3
<1>5. QED
  BY <1>1, <1>3, <1>4 DEF NextPrint

-----------------------------------------------------------------------------
(* The types, and the times waited for.                                     *)

LEMMA TypesInit == ClockInit => ClockTypes /\ WaitsForPlan /\ waits = Timestamp(Dates[1], Plan[1])
<1> SUFFICES ASSUME ClockInit PROVE ClockTypes /\ WaitsForPlan /\ waits = Timestamp(Dates[1], Plan[1])
  OBVIOUS
<1> USE DatesAreNat, PlanTimes
<1>1. waits = Timestamp(Dates[1], Plan[1]) \/ ~(0 < Timestamp(Dates[1], Plan[1]))
  BY DEF ClockInit, Resolve
<1>2. Dates[1] * DayLength > 0
  BY ClockAssumption
<1>3. Timestamp(Dates[1], Plan[1]) \in Nat \ {0}
  <2>1. Dates[1] * DayLength \in Nat
    BY ClockAssumption
  <2>2. QED
    BY <1>2, <2>1 DEF Timestamp
<1>4. waits = Timestamp(Dates[1], Plan[1]) /\ waits \in Nat
  BY <1>1, <1>3
<1>5. at \in 0 .. LastDate
  BY DEF ClockInit, LastDate
<1>6. Dates[1] \in Nat /\ date = Dates[1] /\ date \in AllDates
  BY DEF ClockInit
<1>7. ClockTypes
  BY <1>4, <1>5, <1>6, ClockAssumption DEF ClockInit, ClockTypes, InSession, NoSeries
<1>8. WaitsForPlan
  BY <1>4, <1>6 DEF ClockInit, WaitsForPlan
<1>9. QED
  BY <1>4, <1>7, <1>8

LEMMA FeedKept == ASSUME [ClockNext]_timeVars PROVE UNCHANGED <<loads, prints, calendar>> /\ LastDate' = LastDate
<1>1. UNCHANGED feed
  BY DEF ClockNext, timeVars, feed, LoadDate, Finish, StepOn, Resume, Wait, RingBell
<1>2. QED
  BY <1>1 DEF feed, LastDate

LEMMA TypesNext ==
  ASSUME ClockTypes, [ClockNext]_timeVars
  PROVE  ClockTypes'
<1> USE DatesAreNat, PlanTimes
<1>0. /\ UNCHANGED <<loads, prints, calendar>> /\ LastDate' = LastDate
      /\ date \in Nat /\ LastDate \in 1 .. Len(Dates)
  BY FeedKept DEF ClockTypes, LastDate
<1>1. CASE LoadDate
  <2>1. at + 1 \in 1 .. Len(Dates) /\ at' = at + 1 /\ at' \in 0 .. LastDate
    BY <1>0, <1>1 DEF LoadDate, ClockTypes
  <2>2. Dates[at'] \in AllDates /\ Dates[at'] \in Nat
    BY <2>1 DEF AllDates
  <2>3. date <= Dates[at']
    BY <2>1, <2>2, <1>0, DatesOrdered DEF ClockTypes
  <2>4. CASE Loaded(Dates[at'])
    BY <1>0, <1>1, <2>1, <2>2, <2>3, <2>4, SMTT(30) DEF LoadDate, Loaded, ClockTypes, InSession
  <2>5. CASE ~Loaded(Dates[at'])
    BY <1>0, <1>1, <2>1, <2>2, <2>3, <2>5 DEF LoadDate, ClockTypes, InSession
  <2>6. QED
    BY <2>4, <2>5
<1>2. CASE Finish
  BY <1>0, <1>2 DEF ClockTypes, InSession, Finish
<1>3. CASE StepOn
  <2>1. NextPrint \in Observed(date) /\ NextPrint \in Nat
    BY <1>3, StepsToFirst DEF StepOn, InSession
  <2>2. now' \in Observed(date)' /\ now' \in Nat
    BY <1>0, <1>3, <2>1 DEF StepOn, Observed
  <2>3. QED
    BY <1>0, <1>3, <2>2 DEF ClockTypes, InSession, StepOn
<1>4. CASE Resume
  <2>1. next' \in DOMAIN Plan
    BY <1>4 DEF Resume, ClockTypes
  <2>2. Resolve(Plan[next'], date, now) \in Nat \cup {Never}
    BY <2>1, ResolvesToTime DEF ClockTypes
  <2>3. waits \div DayLength \in Nat
    <3>1. waits \in Nat /\ DayLength \in Nat \ {0}
      BY <1>4, ClockAssumption DEF Resume, Holds, ClockTypes
    <3>2. QED
      BY <3>1
  <2>4. met' \in Seq([time : TimesOfDay, on : Nat, at : Nat])
    BY <1>4, <2>3 DEF Resume, ClockTypes
  <2>5. phase' \in {"resume", "failed"} /\ series' \in {series, date} /\ resumes' = resumes + 1
    BY <1>4 DEF Resume, Asking
  <2>6. UNCHANGED <<at, date, now>> /\ phase = "resume" /\ waits' = Resolve(Plan[next'], date, now)
    BY <1>4 DEF Resume
  <2>7. Observed(date)' = Observed(date)
    BY <1>0, <2>6 DEF Observed
  <2>8. QED
    BY <1>0, <2>1, <2>2, <2>4, <2>5, <2>6, <2>7, SMTT(30) DEF ClockTypes, InSession
<1>5. CASE Wait
  BY <1>0, <1>5 DEF ClockTypes, InSession, Wait, Asking
<1>6. CASE RingBell
  <2>1. Timestamp(date, SettleTime) \in Nat
    <3>1. SettleTime \in Nat
      BY ClockAssumption DEF TimesOfDay
    <3>2. QED
      BY <1>0, <3>1, TimesAreNat
  <2>2. now' \in Nat
    BY <1>6, <2>1 DEF RingBell, ClockTypes
  <2>3. QED
    BY <1>0, <1>6, <2>2 DEF ClockTypes, InSession, RingBell
<1>7. CASE UNCHANGED timeVars
  <2>1. Observed(date)' = Observed(date)
    BY <1>7 DEF timeVars, Observed
  <2>2. QED
    BY <1>0, <1>7, <2>1 DEF ClockTypes, InSession, timeVars
<1>8. QED
  BY <1>1, <1>2, <1>3, <1>4, <1>5, <1>6, <1>7 DEF ClockNext


-----------------------------------------------------------------------------
(* No observation is missed.                                                *)

LEMMA WaitsNext ==
  ASSUME ClockTypes, WaitsForPlan, [ClockNext]_timeVars
  PROVE  WaitsForPlan'
<1>1. CASE Resume
  <2>1. next' \in DOMAIN Plan
    BY <1>1, PlanTimes DEF Resume, ClockTypes
  <2>2. QED
    BY <1>1, <2>1, ResolvesOnDate DEF Resume, ClockTypes, WaitsForPlan
<1>2. CASE UNCHANGED <<waits, next>>
  BY <1>2 DEF WaitsForPlan
<1>3. QED
  BY <1>1, <1>2 DEF ClockNext, timeVars, LoadDate, Finish, StepOn, Wait, RingBell

\* The clock never moves back.
LEMMA ClockAdvances ==
  ASSUME ClockTypes, [ClockNext]_timeVars
  PROVE  now <= now'
<1>1. CASE StepOn
  BY <1>1, StepsToFirst DEF StepOn, InSession, ClockTypes
<1>2. CASE RingBell
  <2>1. Timestamp(date, SettleTime) \in Nat
    <3>1. SettleTime \in Nat /\ date \in Nat
      BY DatesAreNat, ClockAssumption DEF TimesOfDay, ClockTypes
    <3>2. QED
      BY <3>1, TimesAreNat
  <2>2. QED
    BY <1>2, <2>1 DEF RingBell, ClockTypes
<1>3. CASE UNCHANGED now
  BY <1>3 DEF ClockTypes
<1>4. QED
  BY <1>1, <1>2, <1>3 DEF ClockNext, timeVars, LoadDate, Finish, Resume, Wait

LEMMA ReplayedNext ==
  ASSUME ClockTypes, Replayed, [ClockNext]_timeVars
  PROVE  Replayed'
<1> SUFFICES ASSUME NEW d \in loads, Past(d)', NEW u \in Observed(d) PROVE u <= now'
  <2>1. loads' = loads /\ \A d : Observed(d)' = Observed(d)
    BY FeedKept DEF Observed
  <2>2. QED
    BY <2>1 DEF Replayed
<1>1. u \in Nat /\ d \in AllDates /\ d \in Nat
  BY Observations, DatesAreNat DEF ClockTypes
<1>2. now \in Nat /\ now' \in Nat /\ now <= now'
  BY ClockAdvances, TypesNext DEF ClockTypes
<1>3. SUFFICES Past(d) \/ u <= now'
  BY <1>1, <1>2 DEF Replayed
<1>4. CASE LoadDate
  <2>1. at \in Nat /\ at + 1 \in 1 .. Len(Dates) /\ at' = at + 1 /\ phase = "between"
    BY <1>4, DatesAreNat DEF LoadDate, ClockTypes, LastDate
  <2>2. PICK j \in 1 .. Len(Dates) : d = Dates[j]
    BY <1>1, DatesAreNat DEF AllDates
  <2>3. j <= at + 1
    BY <2>1, <2>2, DatesOrdered DEF Past
  <2>4. j # at + 1
    BY <1>4, <2>1, <2>2 DEF LoadDate, Loaded, Past, InSession
  <2>5. j <= at /\ at \in 1 .. Len(Dates)
    BY <2>1, <2>3, <2>4
  <2>6. QED
    BY <2>1, <2>2, <2>5, DatesOrdered DEF Past, InSession
<1>5. CASE RingBell
  <2>1. CASE d = date
    BY <1>1, <1>2, <1>5, <2>1 DEF RingBell, SessionLeft
  <2>2. CASE d # date
    BY <1>5, <2>2 DEF RingBell, Past
  <2>3. QED
    BY <2>1, <2>2
<1>6. CASE Finish \/ StepOn \/ Resume \/ Wait \/ UNCHANGED timeVars
  BY <1>6 DEF Finish, StepOn, Resume, Wait, Asking, timeVars, Past, InSession
<1>7. QED
  BY <1>4, <1>5, <1>6 DEF ClockNext

\* The clock passes no observation but the one it steps to.
LEMMA PassesNone ==
  ASSUME ClockTypes, Replayed, StepOn \/ RingBell, calendar # {},
         NEW d \in loads, NEW u \in Observed(d), u <= now', ~(u <= now)
  PROVE  StepOn /\ u = now'
<1>1. PICK time \in prints[d] : time \in TimesOfDay /\ time \in Nat /\ u = Timestamp(d, time) /\ u \in Nat
  BY Observations
<1>2. /\ d \in AllDates /\ d \in Nat /\ date \in Nat /\ now \in Nat
      /\ at \in 1 .. Len(Dates) /\ date = Dates[at] /\ phase = "step"
  BY DatesAreNat DEF ClockTypes, StepOn, RingBell, InSession, LastDate
<1>3. now' = now \/ \E s \in TimesOfDay : now' = Timestamp(date, s)
  <2>1. CASE StepOn
    <3>1. now' \in Observed(date) /\ date \in loads
      BY <2>1, StepsToFirst DEF StepOn, InSession, ClockTypes
    <3>2. QED
      BY <3>1, Observations
  <2>2. CASE RingBell
    BY <2>2, ClockAssumption DEF RingBell
  <2>3. QED
    BY <2>1, <2>2
<1>4. PICK s \in TimesOfDay : now' = Timestamp(date, s)
  BY <1>3
<1>5. d <= date
  <2>1. s \in Nat /\ Timestamp(date, s) \in Nat
    <3>1. s \in Nat
      BY ClockAssumption DEF TimesOfDay
    <3>2. QED
      BY <1>2, <3>1, TimesAreNat
  <2>2. date < d => Timestamp(date, s) < Timestamp(d, time)
    BY <1>1, <1>2, LaterDay
  <2>3. QED
    BY <1>1, <1>2, <1>4, <2>1, <2>2
<1>6. d = date
  BY <1>2, <1>5 DEF Replayed, Past
<1>7. CASE RingBell
  BY <1>1, <1>2, <1>6, <1>7 DEF RingBell, SessionLeft
<1>8. CASE StepOn
  BY <1>1, <1>2, <1>6, <1>8, StepsToFirst DEF StepOn, InSession
<1>9. QED
  BY <1>7, <1>8

LEMMA NoneMissedNext ==
  ASSUME ClockTypes, Replayed, NoneMissed, [ClockNext]_timeVars
  PROVE  NoneMissed'
<1> SUFFICES ASSUME calendar # {}, NEW d \in loads, NEW u \in Observed(d), u <= now'
             PROVE  waits' = Never \/ u < waits' \/ (phase' = "resume" /\ u = now')
  <2>1. loads' = loads /\ calendar' = calendar /\ \A d : Observed(d)' = Observed(d)
    BY FeedKept DEF Observed
  <2>2. QED
    BY <2>1 DEF NoneMissed
<1>1. u \in Nat /\ now \in Nat /\ waits \in Nat \cup {Never}
  BY Observations DEF ClockTypes
<1>2. CASE StepOn
  <2>1. CASE u <= now
    BY <1>2, <2>1 DEF StepOn, NoneMissed
  <2>2. CASE ~(u <= now)
    BY <1>2, <2>2, PassesNone DEF StepOn
  <2>3. QED
    BY <2>1, <2>2
<1>3. CASE RingBell
  <2>1. u <= now
    BY <1>3, PassesNone DEF StepOn, RingBell
  <2>2. QED
    BY <1>3, <2>1 DEF RingBell, NoneMissed
<1>4. CASE Resume
  <2>1. now' = now /\ next' \in DOMAIN Plan /\ waits' = Resolve(Plan[next'], date, now)
    BY <1>4, PlanTimes DEF Resume, ClockTypes
  <2>2. now \in Observed(date) /\ date \in loads /\ date \in AllDates
    BY <1>4 DEF Resume, ClockTypes, InSession
  <2>3. PICK s \in TimesOfDay : now = Timestamp(date, s)
    BY <2>2, Observations
  <2>4. waits' = Never \/ waits' > now
    BY <2>1, <2>2, <2>3, ResolvesAhead
  <2>5. waits' \in Nat \cup {Never}
    BY TypesNext DEF ClockTypes
  <2>6. QED
    BY <1>1, <2>1, <2>4, <2>5
<1>5. CASE Wait
  <2>1. now' = now /\ waits' = waits /\ (waits = Never \/ ~(now >= waits))
    BY <1>5 DEF Wait, Holds
  <2>2. u <= now
    BY <2>1
  <2>3. QED
    BY <1>1, <2>1, <2>2
<1>6. CASE UNCHANGED <<now, waits>> /\ phase # "resume"
  BY <1>6 DEF NoneMissed
<1>7. CASE UNCHANGED timeVars
  BY <1>7 DEF timeVars, NoneMissed
<1>8. QED
  BY <1>2, <1>3, <1>4, <1>5, <1>6, <1>7 DEF ClockNext, LoadDate, Finish

LEMMA OnceNext ==
  ASSUME ClockTypes, OnceAStep, [ClockNext]_timeVars
  PROVE  OnceAStep'
<1> SUFFICES ASSUME calendar # {}
             PROVE  resumes' <= 1 /\ (phase' = "resume" /\ Holds(waits', now') => resumes' = 0)
  BY FeedKept DEF OnceAStep, Holds
<1>1. CASE Resume
  <2>1. now' = now /\ next' \in DOMAIN Plan /\ waits' = Resolve(Plan[next'], date, now)
    BY <1>1, PlanTimes DEF Resume, ClockTypes
  <2>2. now \in Observed(date) /\ date \in loads /\ date \in AllDates
    BY <1>1 DEF Resume, ClockTypes, InSession
  <2>3. PICK s \in TimesOfDay : now = Timestamp(date, s)
    BY <2>2, Observations
  <2>4. waits' = Never \/ waits' > now
    BY <2>1, <2>2, <2>3, ResolvesAhead
  <2>5. waits' \in Nat \cup {Never} /\ now \in Nat
    BY TypesNext DEF ClockTypes
  <2>6. resumes = 0 /\ resumes' = 1
    BY <1>1 DEF Resume, OnceAStep
  <2>7. QED
    BY <2>1, <2>4, <2>5, <2>6 DEF Holds
<1>2. CASE StepOn
  BY <1>2 DEF StepOn
<1>3. CASE UNCHANGED resumes /\ phase' # "resume"
  BY <1>3 DEF OnceAStep
<1>4. CASE UNCHANGED timeVars
  BY <1>4 DEF timeVars, OnceAStep
<1>5. CASE Wait
  BY <1>5 DEF Wait, Asking, OnceAStep
<1>6. QED
  BY <1>1, <1>2, <1>3, <1>4, <1>5 DEF ClockNext, LoadDate, Finish, RingBell

LEMMA ClockInvHolds == ClockSpec => []ClockInv
<1>1. ClockInit => ClockInv
  <2> SUFFICES ASSUME ClockInit PROVE Replayed /\ NoneMissed /\ OnceAStep
    BY TypesInit DEF ClockInv
  <2>1. Replayed /\ OnceAStep
    BY DEF ClockInit, Replayed, Past, OnceAStep
  <2>2. ASSUME NEW d \in loads, NEW u \in Observed(d) PROVE ~(u <= now)
    <3>1. PICK time \in prints[d] : time \in Nat /\ u = Timestamp(d, time) /\ u \in Nat
      BY TypesInit, Observations
    <3>2. d \in Nat \ {0}
      BY TypesInit, DatesAreNat DEF ClockTypes
    <3>3. d * DayLength > 0 /\ d * DayLength \in Nat
      BY <3>2, ClockAssumption
    <3>4. QED
      BY <3>1, <3>3 DEF Timestamp, ClockInit
  <2>3. QED
    BY <2>1, <2>2 DEF NoneMissed
<1>2. ClockInv /\ [ClockNext]_timeVars => ClockInv'
  BY TypesNext, WaitsNext, ReplayedNext, NoneMissedNext, OnceNext DEF ClockInv
<1>3. QED
  BY <1>1, <1>2, PTL DEF ClockSpec

\* A time waited for is met on a date of the run, at the first observation after it.
LEMMA MetWhenDue ==
  ASSUME ClockInv, Resume
  PROVE  \E e \in AllDates :
           /\ waits = Timestamp(e, Plan[next]) /\ waits \div DayLength = e /\ now >= waits
           /\ calendar # {} => \A d \in loads : \A u \in Observed(d) : u >= waits => u >= now
<1>1. PICK e \in AllDates : waits = Timestamp(e, Plan[next])
  BY DEF ClockInv, WaitsForPlan, Resume, Holds
<1>2. waits \div DayLength = e
  BY <1>1, DayOf, DatesAreNat, PlanTimes DEF ClockInv, ClockTypes
<1>3. ASSUME calendar # {}, NEW d \in loads, NEW u \in Observed(d), u >= waits PROVE u >= now
  <2>1. u \in Nat /\ now \in Nat /\ waits \in Nat
    BY Observations DEF ClockInv, ClockTypes, Resume, Holds
  <2>2. QED
    BY <1>3, <2>1 DEF ClockInv, NoneMissed, Resume, Holds
<1>4. QED
  BY <1>1, <1>2, <1>3 DEF Resume, Holds

\* A time waited for is met at the first observation at or after it, whatever dates
\* have no data, and once.
THEOREM TimesAreMet == ClockSpec => []MetAtFirstObservation
<1>1. ClockInit => MetAtFirstObservation
  BY DEF ClockInit, MetAtFirstObservation
<1>2. ASSUME ClockInv, ClockInv', MetAtFirstObservation, [ClockNext]_timeVars PROVE MetAtFirstObservation'
  <2>0. UNCHANGED <<loads, calendar>> /\ \A d : Observed(d)' = Observed(d)
    BY <1>2, FeedKept DEF Observed
  <2>1. calendar' # {} => resumes' <= 1
    BY <1>2 DEF ClockInv, OnceAStep
  <2>2. CASE met' = met \/ met' = <<>>
    BY <1>2, <2>0, <2>1, <2>2 DEF MetAtFirstObservation
  <2>3. CASE Resume
    <3>1. PICK e \in AllDates :
            /\ waits = Timestamp(e, Plan[next]) /\ waits \div DayLength = e /\ now >= waits
            /\ calendar # {} => \A d \in loads : \A u \in Observed(d) : u >= waits => u >= now
      BY <1>2, <2>3, MetWhenDue
    <3>2. met' = Append(met, [time |-> Plan[next], on |-> e, at |-> now])
      BY <2>3, <3>1 DEF Resume
    <3>3. ASSUME NEW i \in DOMAIN met'
          PROVE  (i \in DOMAIN met /\ met'[i] = met[i]) \/ met'[i] = [time |-> Plan[next], on |-> e, at |-> now]
      <4> DEFINE one == [time |-> Plan[next], on |-> e, at |-> now]
      <4>1. \E S : met \in Seq(S)
        BY <1>2 DEF ClockInv, ClockTypes
      <4> HIDE DEF one
      <4>2. met' = Append(met, one)
        BY <3>2 DEF one
      <4>3. (i \in DOMAIN met /\ met'[i] = met[i]) \/ met'[i] = one
        BY <3>3, <4>1, <4>2
      <4>4. QED
        BY <4>3 DEF one
    <3>4. QED
      BY <1>2, <2>0, <2>1, <3>1, <3>3 DEF MetAtFirstObservation
  <2>4. QED
    BY <1>2, <2>2, <2>3 DEF ClockNext, timeVars, LoadDate, Finish, StepOn, Wait, RingBell
<1>3. QED
  BY <1>1, <1>2, ClockInvHolds, PTL DEF ClockSpec

-----------------------------------------------------------------------------
(* Bars.                                                                    *)

\* Asked at an observation of a day, the series of that day answers, and one of an
\* earlier day only if it is of the day before and the session has not opened.
LEMMA SeriesExpires ==
  ASSUME ClockTypes, phase = "resume", NEW of \in Nat, of <= date
  PROVE  /\ Answers(date, now)
         /\ Answers(of, now) /\ of # date => date = of + 1 /\ now <= Timestamp(date, SessionOpen)
<1>1. PICK time \in prints[date] : time \in TimesOfDay /\ time \in Nat /\ now = Timestamp(date, time)
  BY Observations DEF ClockTypes, InSession
<1>2. date \in Nat /\ SessionOpen \in Nat /\ SessionOpen \in TimesOfDay /\ DayLength \in Nat
  BY DatesAreNat, ClockAssumption DEF ClockTypes, TimesOfDay
<1>3. time < DayLength
  BY <1>1, <1>2 DEF TimesOfDay
<1>4. of * DayLength \in Nat /\ date * DayLength \in Nat
  BY <1>2
<1>5. Answers(date, now)
  BY <1>1, <1>2, <1>3, <1>4 DEF Answers, ValidUntil, Timestamp
<1>6. ASSUME Answers(of, now), of # date PROVE date = of + 1 /\ now <= Timestamp(date, SessionOpen)
  <2>1. now <= of * DayLength + SessionOpen + DayLength
    BY <1>6 DEF Answers, ValidUntil, Timestamp
  <2>2. date * DayLength <= now
    BY <1>1, <1>2, <1>4 DEF Timestamp
  <2>3. CASE date = of + 1
    <3>1. date * DayLength = of * DayLength + DayLength
      BY <1>2, <2>3
    <3>2. QED
      BY <2>1, <2>3, <3>1, <1>2, <1>4 DEF Timestamp
  <2>4. CASE of + 2 <= date
    <3>1. of * DayLength + 2 * DayLength <= date * DayLength
      BY <1>2, <2>4
    <3>2. SessionOpen < DayLength
      BY <1>2 DEF TimesOfDay
    <3>3. now \in Nat /\ of * DayLength \in Nat /\ date * DayLength \in Nat
      BY <1>4 DEF ClockTypes
    <3>4. QED
      BY ONLY <1>2, <2>1, <2>2, <3>1, <3>2, <3>3
  <2>5. QED
    BY <1>2, <1>6, <2>3, <2>4
<1>7. QED
  BY <1>5, <1>6

\* A strategy that keeps a bar series gets bars of another day from it only until
\* that day has opened, and is never refused the bars of the day itself.
THEOREM SeriesEndsAtTheOpen == ClockSpec => []SeriesOutlivesNoOpen
<1>1. ClockInit => SeriesOutlivesNoOpen
  BY DEF ClockInit, SeriesOutlivesNoOpen
<1>2. ASSUME ClockTypes, ClockTypes', SeriesOutlivesNoOpen, [ClockNext]_timeVars PROVE SeriesOutlivesNoOpen'
  <2> DEFINE Timely(a) == a.of # a.on => a.on = a.of + 1 /\ a.at <= Timestamp(a.on, SessionOpen)
  <2>1. SeriesOutlivesNoOpen <=> Timely(answer) /\ (phase = "failed" /\ resumes <= MaxResumes => series # date)
    BY DEF SeriesOutlivesNoOpen
  <2>2. date \in Nat /\ series \in Nat \cup {NoSeries} /\ series <= date /\ NoSeries \notin Nat
    BY <1>2, DatesAreNat DEF ClockTypes, NoSeries
  <2>3. ASSUME NEW of \in Nat \cup {NoSeries}, of <= date, NEW to, phase = "resume", Asking(of, to)
        PROVE  /\ Timely(answer')
               /\ phase' # to => of # date
    <3>1. PICK asks \in BOOLEAN :
            LET asked == asks /\ of # NoSeries
            IN  /\ answer' = IF asked /\ Answers(of, now) THEN [of |-> of, on |-> date, at |-> now] ELSE answer
                /\ phase' = IF asked /\ ~Answers(of, now) THEN "failed" ELSE to
      BY <2>3 DEF Asking
    <3>2. CASE of = NoSeries \/ ~asks
      BY <1>2, <2>1, <2>2, <3>1, <3>2
    <3>3. CASE of # NoSeries /\ asks
      <4>1. of \in Nat
        BY <2>3, <3>3
      <4>2. /\ Answers(date, now)
            /\ Answers(of, now) /\ of # date => date = of + 1 /\ now <= Timestamp(date, SessionOpen)
        BY <1>2, <2>3, <4>1, SeriesExpires
      <4>3. CASE Answers(of, now)
        BY <3>1, <3>3, <4>2, <4>3
      <4>4. CASE ~Answers(of, now)
        BY <1>2, <2>1, <3>1, <3>3, <4>2, <4>4
      <4>5. QED
        BY <4>3, <4>4
    <3>4. QED
      BY <3>2, <3>3
  <2>4. CASE Resume
    <3>1. /\ phase = "resume" /\ date' = date /\ series' \in Nat \cup {NoSeries} /\ series' <= date
          /\ Asking(series', IF resumes' > MaxResumes THEN "failed" ELSE "resume")
      BY <2>2, <2>4 DEF Resume
    <3>2. /\ Timely(answer')
          /\ phase' # (IF resumes' > MaxResumes THEN "failed" ELSE "resume") => series' # date
      BY <2>3, <3>1
    <3>3. resumes' \in Nat /\ MaxResumes \in Nat
      BY <1>2, ClockAssumption DEF ClockTypes
    <3>4. QED
      BY <3>1, <3>2, <3>3 DEF SeriesOutlivesNoOpen
  <2>5. CASE Wait
    <3>1. phase = "resume" /\ date' = date /\ series' = series /\ Asking(series, "step")
      BY <2>5 DEF Wait
    <3>2. Timely(answer') /\ (phase' # "step" => series # date)
      BY <2>2, <2>3, <3>1
    <3>3. QED
      BY <3>1, <3>2 DEF SeriesOutlivesNoOpen
  <2>6. CASE LoadDate \/ Finish \/ StepOn \/ RingBell
    <3>1. answer' = answer /\ phase' # "failed"
      <4>1. CASE LoadDate
        BY <4>1 DEF LoadDate
      <4>2. QED
        BY <2>6, <4>1 DEF Finish, StepOn, RingBell
    <3>2. QED
      BY <1>2, <3>1 DEF SeriesOutlivesNoOpen
  <2>7. CASE UNCHANGED timeVars
    BY <1>2, <2>7 DEF SeriesOutlivesNoOpen, timeVars
  <2>8. QED
    BY <1>2, <2>4, <2>5, <2>6, <2>7 DEF ClockNext
<1>3. ClockInv => ClockTypes
  BY DEF ClockInv
<1>4. QED
  BY <1>1, <1>2, <1>3, ClockInvHolds, PTL DEF ClockSpec

-----------------------------------------------------------------------------
(* The daily loop.                                                          *)

\* What a daily loop waits for once the plan of the i-th date is done.
LEMMA ResolvesToNextDay ==
  ASSUME ClockTypes, calendar # {}, NEW i \in 1 .. Len(Dates), NEW t \in Nat,
         ~(t < Timestamp(Dates[i], Plan[1]))
  PROVE  Resolve(Plan[1], Dates[i], t) = NextDay(i)
<1> DEFINE d == Dates[i]
           later == LaterDates(d)
<1>1. d \in Nat /\ calendar = AllDates
  BY DatesAreNat DEF ClockTypes
<1>2. \A j \in 1 .. Len(Dates) : Dates[j] \in later <=> i < j
  BY <1>1, DatesOrdered, DatesAreNat DEF LaterDates, AllDates
<1>3. later \subseteq AllDates
  BY <1>1 DEF LaterDates
<1>4. CASE i = Len(Dates)
  <2>1. later = {}
    BY <1>2, <1>3, <1>4, DatesAreNat DEF AllDates
  <2>2. QED
    BY <1>1, <1>4, <2>1, DatesAreNat DEF Resolve, NextDay
<1>5. CASE i # Len(Dates)
  <2> DEFINE n == Dates[i + 1]
             e == CHOOSE e \in later : \A f \in later : e <= f
  <2>0. i + 1 \in 1 .. Len(Dates) /\ i < i + 1
    <3>1. Len(Dates) \in Nat
      BY DatesAreNat
    <3>2. QED
      BY <1>5, <3>1
  <2>1. n \in later /\ n \in Nat
    <3>1. Dates[i + 1] \in later
      <4> HIDE DEF later
      <4> QED
        BY <1>2, <2>0
    <3>2. QED
      BY <2>0, <3>1, DatesAreNat
  <2>2. \A f \in later : n <= f
    BY <1>2, <1>3, <2>0, <2>1, DatesOrdered, DatesAreNat DEF AllDates
  <2>3. e \in later /\ e \in AllDates /\ \A f \in later : e <= f
    BY <1>1, <2>1, FirstLater
  <2>4. e = n
    BY <2>1, <2>2, <2>3, DatesAreNat
  <2>5. Resolve(Plan[1], d, t) = Timestamp(e, Plan[1])
    BY <1>1, <2>1 DEF Resolve
  <2>6. QED
    BY <1>5, <2>4, <2>5 DEF NextDay
<1>6. QED
  BY <1>4, <1>5

\* With observations enough, the clock of a resumption is before the next time of
\* the plan.
LEMMA NextTimeIsAhead ==
  ASSUME ClockInv, calendar # {}, Dense, phase = "resume", waits # Never, NEW k \in 1 .. Len(Plan) - 1,
         waits = Timestamp(date, Plan[k])
  PROVE  now < Timestamp(date, Plan[k + 1])
<1>1. date \in loads /\ date \in Nat /\ now \in Nat /\ k \in DOMAIN Plan /\ k + 1 \in DOMAIN Plan
  BY DatesAreNat, PlanTimes DEF ClockInv, ClockTypes, InSession
<1>2. PICK time \in prints[date] : time >= Plan[k] /\ time < Plan[k + 1]
  BY <1>1, PlanTimes DEF Dense
<1>3. time \in Nat /\ Plan[k] \in Nat /\ Plan[k + 1] \in Nat
  BY <1>1, <1>2, PlanTimes, ClockAssumption DEF ClockInv, ClockTypes, TimesOfDay
<1> DEFINE u == Timestamp(date, time)
<1>4. u \in Observed(date) /\ u \in Nat
  BY <1>1, <1>2, <1>3, TimesAreNat DEF Observed
<1>5. u >= waits /\ u < Timestamp(date, Plan[k + 1]) /\ Timestamp(date, Plan[k + 1]) \in Nat
  <2>1. ~(u < waits) /\ waits \in Nat
    BY <1>1, <1>2, <1>3, SameDay, TimesAreNat
  <2>2. u < Timestamp(date, Plan[k + 1])
    BY <1>1, <1>2, <1>3, SameDay
  <2>3. Timestamp(date, Plan[k + 1]) \in Nat
    BY <1>1, <1>3, TimesAreNat
  <2>4. QED
    BY <1>4, <2>1, <2>2, <2>3
<1>6. now <= u
  <2> HIDE DEF u
  <2> QED
    BY <1>1, <1>4, <1>5 DEF ClockInv, ClockTypes, NoneMissed
<1>7. QED
  BY <1>1, <1>4, <1>5, <1>6

\* A session ends with the plan done.
LEMMA BellAfterPlan ==
  ASSUME ClockInv, Daily, Dense, loads = calendar, RingBell
  PROVE  Len(met) = Len(Plan)
<1>1. SUFFICES ASSUME Len(met) < Len(Plan) PROVE FALSE
  BY PlanTimes DEF ClockInv, ClockTypes, Daily
<1>2. date \in loads /\ date \in Nat /\ now \in Nat /\ next \in DOMAIN Plan /\ phase = "step"
  BY DatesAreNat DEF ClockInv, ClockTypes, InSession, RingBell
<1>3. waits = Timestamp(date, Plan[next])
  BY <1>1, <1>2 DEF Daily, InSession
<1>4. PICK time \in prints[date] : time >= Plan[next]
  BY <1>2 DEF Dense
<1>5. time \in Nat /\ Plan[next] \in Nat
  BY <1>2, <1>4, PlanTimes, ClockAssumption DEF ClockInv, ClockTypes, TimesOfDay
<1> DEFINE u == Timestamp(date, time)
<1>6. u \in Observed(date) /\ u \in Nat /\ u >= waits /\ waits \in Nat
  <2>1. u \in Observed(date) /\ u \in Nat
    BY <1>2, <1>4, <1>5, TimesAreNat DEF Observed
  <2>2. ~(u < waits) /\ waits \in Nat
    BY <1>2, <1>3, <1>4, <1>5, TimesAreNat, SameDay
  <2>3. QED
    BY <2>1, <2>2
<1> HIDE DEF u
<1>7. u <= now
  BY <1>2, <1>6 DEF RingBell, SessionLeft
<1>8. QED
  BY <1>2, <1>6, <1>7 DEF ClockInv, NoneMissed, Never

LEMMA DailyResumes ==
  ASSUME ClockInv, Daily, Dense, loads = calendar, Resume
  PROVE  /\ Len(met) < Len(Plan) /\ waits = Timestamp(date, Plan[next]) /\ next = Len(met) + 1
         /\ now >= waits /\ waits \div DayLength = date /\ calendar # {}
         /\ at > 0 /\ at \in 1 .. Len(Dates) /\ date = Dates[at] /\ date \in Nat /\ now \in Observed(date)
<1>1. at \in 1 .. Len(Dates) /\ date = Dates[at] /\ date \in loads /\ date \in Nat /\ phase = "resume" /\ now \in Observed(date)
  BY DatesAreNat DEF ClockInv, ClockTypes, InSession, Resume, LastDate
<1>2. waits # Never /\ now >= waits /\ next \in DOMAIN Plan
  BY DEF Resume, Holds, ClockInv, ClockTypes
<1>3. PICK s \in TimesOfDay : now = Timestamp(date, s) /\ now \in Nat
  BY <1>1, Observations DEF ClockInv
<1>4. Len(met) # Len(Plan)
  <2> SUFFICES ASSUME Len(met) = Len(Plan) PROVE FALSE
    OBVIOUS
  <2>1. waits = NextDay(at)
    BY <1>1 DEF Daily, InSession
  <2>2. at + 1 \in 1 .. Len(Dates) /\ waits = Timestamp(Dates[at + 1], Plan[1])
    <3>1. Len(Dates) \in Nat
      BY DatesAreNat
    <3>2. QED
      BY <1>1, <1>2, <2>1, <3>1 DEF NextDay
  <2>3. Dates[at] < Dates[at + 1] /\ Dates[at + 1] \in Nat
    BY <1>1, <2>2, DatesAscend, DatesAreNat
  <2>4. Plan[1] \in Nat
    BY PlanTimes
  <2>5. now < waits /\ waits \in Nat
    BY <1>1, <1>3, <2>2, <2>3, <2>4, LaterDay, TimesAreNat
  <2>6. QED
    BY <1>2, <1>3, <2>5
<1>5. Len(met) < Len(Plan)
  BY <1>4, PlanTimes DEF Daily, ClockInv, ClockTypes
<1>6. next = Len(met) + 1 /\ waits = Timestamp(date, Plan[next])
  BY <1>1, <1>5 DEF Daily, InSession
<1>7. waits \div DayLength = date
  BY <1>1, <1>2, <1>6, PlanTimes, DayOf
<1>8. QED
  BY <1>1, <1>2, <1>5, <1>6, <1>7 DEF ClockInv, ClockTypes

LEMMA MetTypes == ASSUME ClockTypes PROVE \A i \in DOMAIN met : met[i].at \in Nat
<1> DEFINE M == [time : TimesOfDay, on : Nat, at : Nat]
<1>1. \A m \in M : m.at \in Nat
  OBVIOUS
<1>2. met \in Seq(M)
  BY DEF ClockTypes
<1>3. \A i \in DOMAIN met : met[i] \in M
  <2> HIDE DEF M
  <2> QED
    BY <1>2
<1>4. QED
  BY <1>1, <1>3

LEMMA DailyNext ==
  ASSUME ClockInv, ClockInv', Daily, [ClockNext]_timeVars
  PROVE  Daily'
<1> SUFFICES ASSUME Dense, loads = calendar PROVE Daily'
  BY FeedKept DEF Daily, Dense
<1>0. calendar = AllDates /\ calendar # {} /\ LastDate = Len(Dates) /\ Len(met) \in Nat /\ now \in Nat /\ now <= now'
  <2>1. ClockTypes /\ now <= now'
    BY ClockAdvances DEF ClockInv
  <2>2. AllDates # {}
    BY DatesAreNat DEF AllDates
  <2>3. now \in Nat /\ Len(met) \in Nat /\ (calendar = AllDates \/ calendar = {})
    BY <2>1 DEF ClockTypes
  <2>4. calendar = AllDates
    BY <2>1, <2>2, <2>3 DEF ClockTypes
  <2>5. QED
    BY <2>1, <2>2, <2>3, <2>4 DEF LastDate
<1>1. CASE LoadDate
  <2>1. at + 1 \in 1 .. Len(Dates) /\ at' = at + 1 /\ at \in Nat
    BY <1>0, <1>1 DEF LoadDate, ClockInv, ClockTypes
  <2>2. Loaded(Dates[at'])
    BY <1>0, <2>1, DatesAreNat DEF Loaded, AllDates
  <2>3. next = 1 /\ waits = Timestamp(Dates[at'], Plan[1])
    BY <1>1, <2>1 DEF LoadDate, Daily, NextDay
  <2>4. QED
    BY <1>1, <2>1, <2>2, <2>3, PlanTimes DEF LoadDate, Daily, InSession
<1>2. CASE Resume
  <2> DEFINE k == Len(met) + 1
  <2>1. /\ Len(met) < Len(Plan) /\ waits = Timestamp(date, Plan[next]) /\ next = k
        /\ now >= waits /\ waits \div DayLength = date
        /\ at > 0 /\ at \in 1 .. Len(Dates) /\ date = Dates[at] /\ date \in Nat
    BY <1>2, DailyResumes
  <2>2. met' = Append(met, [time |-> Plan[k], on |-> date, at |-> now]) /\ Len(met') = k
    <3> DEFINE e == [time |-> Plan[k], on |-> date, at |-> now]
    <3>1. met' = Append(met, e)
      BY <1>2, <2>1 DEF Resume
    <3>2. \E M : met \in Seq(M)
      BY DEF ClockInv, ClockTypes
    <3> HIDE DEF e
    <3>3. Len(met') = k
      BY <3>1, <3>2
    <3>4. QED
      BY <3>1, <3>3 DEF e
  <2>3. \A i \in DOMAIN met' :
          /\ met'[i].time = Plan[i] /\ met'[i].on = date
          /\ met'[i].at >= Timestamp(date, Plan[i]) /\ met'[i].at <= now
    <3> SUFFICES ASSUME NEW i \in DOMAIN met'
                 PROVE  /\ met'[i].time = Plan[i] /\ met'[i].on = date
                        /\ met'[i].at >= Timestamp(date, Plan[i]) /\ met'[i].at <= now
      OBVIOUS
    <3>1. (i = k /\ met'[i] = [time |-> Plan[k], on |-> date, at |-> now])
            \/ (i \in DOMAIN met /\ met'[i] = met[i])
      <4> DEFINE M == [time : TimesOfDay, on : Nat, at : Nat]
                 e == [time |-> Plan[k], on |-> date, at |-> now]
      <4>1. met \in Seq(M) /\ met' = Append(met, e)
        BY <2>2 DEF ClockInv, ClockTypes
      <4> HIDE DEF M, e
      <4>2. \A j \in DOMAIN Append(met, e) : (j = k /\ Append(met, e)[j] = e) \/ (j \in DOMAIN met /\ Append(met, e)[j] = met[j])
        BY <4>1
      <4>3. QED
        BY <4>1, <4>2 DEF e
    <3>2. QED
      BY <1>0, <2>1, <3>1 DEF Daily
  <2>4. UNCHANGED <<at, date, now>> /\ waits' = Resolve(Plan[next'], date, now) /\ next' = (k % Len(Plan)) + 1
        /\ phase = "resume" /\ phase' \in {"resume", "failed"}
    BY <1>2, <2>1 DEF Resume, Asking
  <2>5. k < Len(Plan) => next' = k + 1 /\ waits' = Timestamp(date, Plan[k + 1])
    <3> SUFFICES ASSUME k < Len(Plan) PROVE next' = k + 1 /\ waits' = Timestamp(date, Plan[k + 1])
      OBVIOUS
    <3>1. next' = k + 1 /\ k \in 1 .. Len(Plan) - 1
      BY <1>0, <2>4, PlanTimes
    <3>2. now < Timestamp(date, Plan[k + 1])
      BY <1>0, <1>2, <2>1, <2>4, <3>1, NextTimeIsAhead DEF Resume, Holds
    <3>3. QED
      BY <2>4, <3>1, <3>2 DEF Resolve
  <2>6. k = Len(Plan) => next' = 1 /\ waits' = NextDay(at)
    <3> SUFFICES ASSUME k = Len(Plan) PROVE next' = 1 /\ waits' = NextDay(at)
      OBVIOUS
    <3>1. next' = 1
      BY <2>4, PlanTimes
    <3>2. Timestamp(date, Plan[1]) \in Nat
      <4>1. Plan[1] \in Nat
        BY PlanTimes
      <4>2. QED
        BY <2>1, <4>1, TimesAreNat
    <3>3. now >= Timestamp(date, Plan[1])
      <4>1. CASE k = 1
        BY <2>1, <4>1
      <4>2. CASE k # 1
        <5>1. 1 \in DOMAIN met
          BY <1>0, <4>2 DEF ClockInv, ClockTypes
        <5>2. met[1].at >= Timestamp(date, Plan[1]) /\ met[1].at <= now /\ met[1].at \in Nat
          BY <5>1, MetTypes DEF Daily, ClockInv
        <5>3. QED
          BY <1>0, <3>2, <5>2
      <4>3. QED
        BY <4>1, <4>2
    <3>4. QED
      BY <1>0, <2>1, <2>4, <3>1, <3>2, <3>3, ResolvesToNextDay DEF ClockInv
  <2>7. QED
    BY <1>0, <2>1, <2>2, <2>3, <2>4, <2>5, <2>6 DEF Daily, InSession
<1>3. CASE RingBell
  <2>1. Len(met) = Len(Plan)
    BY <1>3, BellAfterPlan
  <2>2. /\ UNCHANGED <<at, date, waits, next, met>> /\ phase = "step" /\ phase' = "between"
    BY <1>3 DEF RingBell
  <2>3. \A i \in DOMAIN met : met[i].at <= now => met[i].at <= now'
    <3>1. \A i \in DOMAIN met : met[i].at \in Nat
      BY MetTypes DEF ClockInv
    <3>2. now' \in Nat
      BY DEF ClockInv, ClockTypes
    <3>3. QED
      BY <1>0, <3>1, <3>2
  <2>4. QED
    BY <1>0, <2>1, <2>2, <2>3 DEF Daily, InSession
<1>4. CASE Finish \/ StepOn \/ Wait \/ UNCHANGED timeVars
  <2>1. UNCHANGED <<at, date, waits, next, met>>
    BY <1>4 DEF Finish, StepOn, Wait, timeVars
  <2>2. (InSession' => InSession) /\ (phase' = "between" => phase = "between")
    BY <1>4 DEF Finish, StepOn, Wait, Asking, InSession, timeVars
  <2>3. \A i \in DOMAIN met : met[i].at <= now => met[i].at <= now'
    <3>1. \A i \in DOMAIN met : met[i].at \in Nat
      BY MetTypes DEF ClockInv
    <3>2. now' \in Nat
      BY DEF ClockInv, ClockTypes
    <3>3. QED
      BY <1>0, <3>1, <3>2
  <2>4. QED
    BY <1>0, <2>1, <2>2, <2>3 DEF Daily, InSession
<1>5. QED
  BY <1>1, <1>2, <1>3, <1>4 DEF ClockNext

\* Over dates that all have data, and observations enough, a daily loop meets each
\* time of its plan once a session, in order, on its own day and no earlier.
THEOREM DailyLoopsRepeat == ClockSpec => []DailyLoopRepeats
<1>1. ClockInit => Daily
  BY TypesInit, PlanTimes DEF ClockInit, Daily, InSession
<1>2. ClockInv /\ Daily => DailyLoopRepeats
  BY DEF ClockInv, ClockTypes, Daily, DailyLoopRepeats
<1>3. QED
  BY <1>1, <1>2, DailyNext, ClockInvHolds, PTL DEF ClockSpec


-----------------------------------------------------------------------------
(* The look-ahead check.  The log of a run is compared with what the whole   *)
(* run logged by the cutoff, so what matters is that a cutoff takes from the *)
(* markets an order may fill at exactly the later ones.                      *)

LookTypes ==
  /\ seen \in Seq(Nat) /\ Len(informed) = Len(seen) /\ Len(blind) = Len(seen)
  /\ stage \in {"session", "sample", "compare", "report"}
  /\ stage # "session" => full = TradeLog(Len(seen))

\* What the check knows of the cutoffs it has tried.
LookTested ==
  /\ tested \subseteq chosen /\ chosen \subseteq DOMAIN seen
  /\ clean <=> \A c \in tested : TradeLog(c) = Expected(c)
  /\ stage \in {"session", "sample"} => chosen = {}
  /\ stage = "compare" => NextToFills \subseteq chosen
  /\ stage = "report" /\ Len(seen) > 1 => chosen = tested /\ NextToFills \subseteq chosen

LEMMA PricesSeen ==
  ASSUME LookTypes
  PROVE  /\ Len(seen) \in Nat /\ DOMAIN seen = 1 .. Len(seen)
         /\ \A n \in Nat : \A t \in Nat : Markets(n, t) \subseteq Nat
BY DEF LookTypes, Markets

LEMMA EarliestIs ==
  ASSUME NEW T, T \subseteq Nat, T # {}
  PROVE  Earliest(T) \in T /\ \A f \in T : Earliest(T) <= f
<1>1. PICK m \in T : \A f \in T : ~(f < m)
  BY LeastNatural
<1>2. m \in T /\ \A f \in T : m <= f
  BY <1>1
<1>3. QED
  BY <1>2 DEF Earliest

\* A cutoff leaves an order the fill it had if that was by then, and none otherwise.
LEMMA CutMarkets ==
  ASSUME NEW n \in Nat, NEW c \in 0 .. n, NEW t \in Nat
  PROVE  /\ Markets(c, t) # {} <=> Markets(n, t) # {} /\ Earliest(Markets(n, t)) <= c
         /\ Markets(c, t) # {} => Earliest(Markets(c, t)) = Earliest(Markets(n, t))
<1>1. Markets(n, t) \subseteq Nat /\ Markets(c, t) = {f \in Markets(n, t) : f <= c}
  BY DEF Markets
<1> DEFINE N == Markets(n, t)
           C == Markets(c, t)
<1> HIDE DEF N, C
<1>2. N \subseteq Nat /\ C = {f \in N : f <= c}
  BY <1>1 DEF N, C
<1>3. N # {} => Earliest(N) \in N /\ \A f \in N : Earliest(N) <= f
  BY <1>2, EarliestIs
<1>4. C # {} => Earliest(C) \in C /\ \A f \in C : Earliest(C) <= f
  BY <1>2, EarliestIs
<1>5. (C # {} <=> N # {} /\ Earliest(N) <= c) /\ (C # {} => Earliest(C) = Earliest(N))
  <2> DEFINE a == Earliest(N)
             b == Earliest(C)
  <2>1. N # {} => a \in N /\ a \in Nat /\ \A f \in N : a <= f
    BY <1>2, <1>3
  <2>2. C # {} => b \in N /\ b \in Nat /\ b <= c /\ \A f \in C : b <= f
    BY <1>2, <1>4
  <2> HIDE DEF a, b
  <2>3. N # {} /\ a <= c => a \in C
    BY <1>2, <2>1
  <2>4. C # {} => N # {} /\ a <= c /\ a = b
    BY <2>1, <2>2, <2>3
  <2>5. QED
    BY <2>3, <2>4 DEF a, b
<1>6. QED
  BY <1>5 DEF N, C

\* The trade of a signal over the first n observations.
TradeOf(n, t) ==
  [signal |-> t, fill |-> Earliest(Markets(n, t)), side |-> Decided(n, t),
   price |-> seen[Earliest(Markets(n, t))]]

LEMMA LogHas ==
  ASSUME NEW n \in Nat
  PROVE  \A trade : trade \in TradeLog(n) <=>
           \E t \in 1 .. n : Decided(n, t) # 0 /\ Markets(n, t) # {} /\ trade = TradeOf(n, t)
BY DEF TradeLog, TradeOf

\* A causal strategy decides the same over the session and over any part of it.
LEMMA CausalIsClean ==
  ASSUME LookTypes, stage # "session", informed = blind, NEW c \in 0 .. Len(seen)
  PROVE  TradeLog(c) = Expected(c)
<1> DEFINE n == Len(seen)
<1>1. n \in Nat /\ c \in Nat /\ c <= n /\ full = TradeLog(n)
  BY PricesSeen DEF LookTypes
<1>2. \A t : Decided(c, t) = Decided(n, t)
  BY DEF Decided
<1> HIDE DEF n
<1>3. ASSUME NEW t \in 1 .. n, Decided(n, t) # 0, Markets(n, t) # {}
      PROVE  TradeOf(n, t).fill <= c <=> t <= c /\ Markets(c, t) # {}
  <2>1. t \in Nat /\ Markets(n, t) \subseteq Nat /\ \A f \in Markets(n, t) : f > t
    BY <1>1 DEF Markets
  <2>2. Earliest(Markets(n, t)) \in Markets(n, t)
    BY <1>3, <2>1, EarliestIs
  <2>3. Markets(c, t) # {} <=> Earliest(Markets(n, t)) <= c
    BY <1>1, <1>3, <2>1, CutMarkets
  <2>4. QED
    BY <1>1, <2>1, <2>2, <2>3 DEF TradeOf
<1>4. ASSUME NEW t \in 1 .. c, Markets(c, t) # {}
      PROVE  t \in 1 .. n /\ Markets(n, t) # {} /\ TradeOf(c, t) = TradeOf(n, t)
  <2>1. Markets(n, t) # {} /\ Earliest(Markets(c, t)) = Earliest(Markets(n, t))
    BY <1>1, <1>4, CutMarkets
  <2>2. QED
    BY <1>1, <1>2, <2>1 DEF TradeOf
<1>5. ASSUME NEW trade PROVE trade \in TradeLog(c) <=> trade \in Expected(c)
  <2>1. trade \in Expected(c) <=> trade \in TradeLog(n) /\ trade.fill <= c
    BY <1>1 DEF Expected
  <2>2. trade \in TradeLog(c) => trade \in Expected(c)
    <3> SUFFICES ASSUME trade \in TradeLog(c) PROVE trade \in Expected(c)
      OBVIOUS
    <3>1. PICK t \in 1 .. c : Decided(c, t) # 0 /\ Markets(c, t) # {} /\ trade = TradeOf(c, t)
      BY <1>1, LogHas
    <3>2. t \in 1 .. n /\ Markets(n, t) # {} /\ trade = TradeOf(n, t) /\ Decided(n, t) # 0
      BY <1>2, <1>4, <3>1
    <3>3. trade.fill <= c
      BY <1>3, <3>1, <3>2
    <3>4. trade \in TradeLog(n)
      BY <1>1, <3>2, LogHas
    <3>5. QED
      BY <2>1, <3>3, <3>4
  <2>3. trade \in Expected(c) => trade \in TradeLog(c)
    <3> SUFFICES ASSUME trade \in Expected(c) PROVE trade \in TradeLog(c)
      OBVIOUS
    <3>1. PICK t \in 1 .. n : Decided(n, t) # 0 /\ Markets(n, t) # {} /\ trade = TradeOf(n, t)
      BY <1>1, <2>1, LogHas
    <3>2. t \in 1 .. c /\ Markets(c, t) # {}
      BY <1>1, <1>3, <2>1, <3>1
    <3>3. trade = TradeOf(c, t) /\ Decided(c, t) # 0
      BY <1>2, <1>4, <3>1, <3>2
    <3>4. QED
      BY <1>1, <3>2, <3>3, LogHas
  <2>4. QED
    BY <2>2, <2>3
<1>6. QED
  BY <1>5

\* A trade whose decision read an observation later than its fill is not made when
\* the session is cut off at the fill.
LEMMA LeakIsSeen ==
  ASSUME LookTypes, stage # "session", NEW trade \in Leaks, trade.fill < trade.signal + Horizon
  PROVE  trade.fill \in NextToFills /\ TradeLog(trade.fill) # Expected(trade.fill)
<1> DEFINE n == Len(seen)
           c == trade.fill
<1>1. n \in Nat /\ full = TradeLog(n) /\ trade \in full /\ Horizon \in Nat
  BY PricesSeen, LookaheadAssumption DEF LookTypes, Leaks
<1>2. PICK t \in 1 .. n : Decided(n, t) # 0 /\ Markets(n, t) # {} /\ trade = TradeOf(n, t)
  BY <1>1, LogHas
<1>3. t \in Nat /\ Markets(n, t) \subseteq Nat /\ Markets(n, t) \subseteq 1 .. n
  BY <1>1, <1>2 DEF Markets
<1>4. c \in Markets(n, t) /\ c \in 1 .. n /\ c \in Nat
  BY <1>2, <1>3, EarliestIs DEF TradeOf
<1>5. trade.signal = t /\ trade.side = Decided(n, t)
  BY <1>2 DEF TradeOf
<1>6. trade.side = informed[t] /\ informed[t] # blind[t]
  BY <1>1, <1>5 DEF Leaks, Decided
<1>7. trade \in Expected(c)
  BY <1>1, <1>4 DEF Expected
<1>8. trade \notin TradeLog(c)
  <2> SUFFICES ASSUME trade \in TradeLog(c) PROVE FALSE
    OBVIOUS
  <2>1. PICK s \in 1 .. c : trade = TradeOf(c, s)
    BY <1>4, LogHas
  <2>2. s = t /\ trade.side = Decided(c, t)
    BY <1>5, <2>1 DEF TradeOf
  <2>3. Decided(c, t) = blind[t]
    BY <1>1, <1>3, <1>4, <1>5 DEF Decided
  <2>4. QED
    BY <1>6, <2>2, <2>3
<1>9. c \in NextToFills
  BY <1>1, <1>4, PricesSeen DEF NextToFills
<1>10. QED
  BY <1>7, <1>8, <1>9
LEMMA LookTypesNext ==
  ASSUME LookTypes, [LookNext]_lvars
  PROVE  LookTypes'
<1>1. CASE Grow
  BY <1>1, LookaheadAssumption DEF Grow, LookTypes
<1>2. CASE RunWhole
  <2>1. UNCHANGED <<seen, informed, blind>> /\ stage' \in {"sample", "report"}
    BY <1>2 DEF RunWhole
  <2>2. full' = TradeLog(Len(seen))'
    BY <1>2, <2>1 DEF RunWhole, TradeLog, Markets, Decided
  <2>3. QED
    BY <2>1, <2>2 DEF LookTypes
<1>3. CASE Sample \/ Compare \/ Report \/ UNCHANGED lvars
  <2>1. UNCHANGED <<seen, informed, blind, full>> /\ stage' \in {stage, "compare", "report"} /\ (stage' # "session" => stage # "session")
    BY <1>3 DEF Sample, Compare, Report, lvars
  <2>2. TradeLog(Len(seen))' = TradeLog(Len(seen))
    BY <2>1 DEF TradeLog, Markets, Decided
  <2>3. QED
    BY <2>1, <2>2 DEF LookTypes
<1>4. QED
  BY <1>1, <1>2, <1>3 DEF LookNext

LEMMA LookTestedNext ==
  ASSUME LookTypes, LookTested, [LookNext]_lvars
  PROVE  LookTested'
<1>1. CASE Grow \/ RunWhole
  BY <1>1, PricesSeen DEF Grow, RunWhole, LookTested
<1>2. CASE ~(Grow \/ RunWhole)
  <2>1. UNCHANGED <<seen, informed, blind, full>>
    BY <1>2 DEF LookNext, Sample, Compare, Report, lvars
  <2>2. /\ \A c : (TradeLog(c))' = TradeLog(c) /\ Expected(c)' = Expected(c)
        /\ NextToFills' = NextToFills
    BY <2>1 DEF TradeLog, Markets, Decided, Expected, NextToFills
  <2>3. CASE Sample
    BY <2>1, <2>2, <2>3 DEF Sample, LookTested, NextToFills
  <2>4. CASE Compare
    <3> DEFINE c == Earliest(chosen \ tested)
    <3>1. c \in chosen \ tested
      <4>1. chosen \ tested \subseteq Nat /\ chosen \ tested # {}
        BY <2>4, PricesSeen DEF Compare, LookTested
      <4>2. QED
        BY <4>1, EarliestIs
    <3>2. tested' = tested \cup {c} /\ clean' = (clean /\ TradeLog(c) = Expected(c)) /\ UNCHANGED <<stage, chosen>>
      BY <2>4 DEF Compare
    <3> HIDE DEF c
    <3>3. clean' <=> \A x \in tested' : TradeLog(x) = Expected(x)
      BY <3>2 DEF LookTested
    <3>4. QED
      BY <2>1, <2>2, <2>4, <3>1, <3>2, <3>3 DEF Compare, LookTested
  <2>5. CASE Report \/ UNCHANGED lvars
    BY <2>1, <2>2, <2>5 DEF Report, lvars, LookTested
  <2>6. QED
    BY <1>2, <2>3, <2>4, <2>5 DEF LookNext
<1>3. QED
  BY <1>1, <1>2

\* The verdict of a check: a causal strategy is never reported, and a trade decided
\* by an observation later than its own fill always is.
THEOREM ChecksAreRight == LookSpec => []VerdictIsRight
<1>1. LookInit => LookTypes /\ LookTested
  BY DEF LookInit, LookTypes, LookTested
<1>2. LookTypes /\ LookTested => VerdictIsRight
  <2> SUFFICES ASSUME LookTypes, LookTested, stage = "report"
               PROVE  /\ informed = blind => clean
                      /\ Len(seen) > 1 /\ (\E trade \in Leaks : trade.fill < trade.signal + Horizon) => ~clean
    BY DEF VerdictIsRight
  <2>1. ASSUME informed = blind PROVE clean
    <3>1. \A c \in tested : c \in 0 .. Len(seen)
      BY PricesSeen DEF LookTested
    <3>2. \A c \in tested : TradeLog(c) = Expected(c)
      BY <2>1, <3>1, CausalIsClean
    <3>3. QED
      BY <3>2 DEF LookTested
  <2>2. ASSUME Len(seen) > 1, NEW trade \in Leaks, trade.fill < trade.signal + Horizon PROVE ~clean
    <3>1. trade.fill \in NextToFills /\ TradeLog(trade.fill) # Expected(trade.fill)
      BY <2>2, LeakIsSeen
    <3>2. QED
      BY <2>2, <3>1 DEF LookTested
  <2>3. QED
    BY <2>1, <2>2
<1>3. LookTypes /\ LookTested /\ [LookNext]_lvars => LookTypes' /\ LookTested'
  BY LookTypesNext, LookTestedNext
<1>4. QED
  BY <1>1, <1>2, <1>3, PTL DEF LookSpec


-----------------------------------------------------------------------------
(* The session and its cursor.                                              *)

\* The events a merge has not yielded yet are those from its runs on.
Pending ==
  \A i \in Instruments : \A row \in 1 .. count[i] :
    EventAt(i, row) \in R!Left <=> \E run \in heap : run.instrument = i /\ run.row <= row

\* Where a cursor is, in terms of what it has yielded.
Placed ==
  /\ R!Replayed \subseteq Events(count)
  /\ mode \in {"none", "timeline"} => R!Left = {}
  /\ mode = "walk" => /\ order # <<>> /\ count = Lengths
                      /\ Len(emitted) <= Len(order)
                      /\ \A k \in DOMAIN emitted : emitted[k] = order[k]
  /\ mode = "merge" => Pending
  /\ \A run \in heap : run.ts = column[run.instrument][run.row]

CursorInv == Shape /\ CacheIsCurrent /\ Placed

-----------------------------------------------------------------------------
(* Events.                                                                  *)

\* What an event of a session is.
LEMMA EventsAre ==
  ASSUME NEW n, NEW e
  PROVE  e \in Events(n) <=> \E i \in Instruments : \E row \in 1 .. n[i] : e = EventAt(i, row)
BY DEF Events

\* Two rows of a session are different events, which say where they are.
LEMMA EventFields ==
  ASSUME NEW i, NEW row
  PROVE  /\ EventAt(i, row).ts = column[i][row]
         /\ EventAt(i, row).instrument = i /\ EventAt(i, row).row = row
BY DEF EventAt

\* Times and rows are numbers, and an event that is shown is of some row.
LEMMA Typed ==
  ASSUME Shape, NEW i \in Instruments, NEW row \in 1 .. Len(column[i])
  PROVE  /\ column[i][row] \in Times /\ column[i][row] \in Nat
         /\ EventAt(i, row) \in Event
         /\ i \in Nat /\ row \in Nat
<1>1. column[i] \in Seq(Times)
  BY DEF Shape
<1>2. column[i][row] \in Times
  BY <1>1
<1> QED
  BY <1>2, CursorAssumption DEF Times, EventAt, Event

\* Before is a strict order on events.
LEMMA BeforeIsStrict ==
  ASSUME NEW a \in Event, NEW b \in Event, NEW c \in Event
  PROVE  /\ ~R!Before(a, a)
         /\ R!Before(a, b) /\ R!Before(b, c) => R!Before(a, c)
         /\ R!Before(a, b) => a.ts <= b.ts
<1>1. ASSUME NEW e \in Event
      PROVE  e.ts \in Nat /\ e.instrument \in Nat /\ e.row \in Nat
  <2>1. e.ts \in Times /\ e.instrument \in Instruments /\ e.row \in Nat
    BY DEF Event
  <2>2. Times \subseteq Nat /\ Instruments \subseteq Nat
    BY CursorAssumption DEF Times
  <2> QED
    BY <2>1, <2>2
<1>2. ~R!Before(a, a)
  BY <1>1 DEF R!Before
<1>3. R!Before(a, b) => a.ts <= b.ts
  BY <1>1 DEF R!Before
<1>4. R!Before(a, b) /\ R!Before(b, c) => R!Before(a, c)
  BY <1>1 DEF R!Before
<1> QED
  BY <1>2, <1>3, <1>4

\* All events shown are events.
LEMMA EventsTyped ==
  ASSUME Shape
  PROVE  Events(count) \subseteq Event
<1> SUFFICES ASSUME NEW e \in Events(count)
             PROVE  e \in Event
  OBVIOUS
<1>0. PICK i \in Instruments : \E row \in 1 .. count[i] : e = EventAt(i, row)
  BY EventsAre
<1>1. PICK row \in 1 .. count[i] : e = EventAt(i, row)
  BY <1>0
<1>2. row \in 1 .. Len(column[i])
  BY DEF Shape
<1> QED
  BY <1>1, <1>2, Typed

\* A session has finitely many.
LEMMA EventsFinite ==
  ASSUME Shape
  PROVE  IsFiniteSet(Events(Lengths))
<1> DEFINE Row(i) == {EventAt(i, row) : row \in 1 .. Lengths[i]}
           Rows == {Row(i) : i \in Instruments}
<1>1. ASSUME NEW i \in Instruments
      PROVE  IsFiniteSet(Row(i))
  <2> DEFINE place == [row \in 1 .. Lengths[i] |-> EventAt(i, row)]
  <2>1. Lengths[i] \in Nat
    BY <1>1 DEF Shape, Lengths
  <2>2. IsFiniteSet(1 .. Lengths[i])
    BY <2>1, FS_Interval
  <2>3. place \in Surjection(1 .. Lengths[i], Row(i))
    BY DEF Surjection
  <2> QED
    BY <2>2, <2>3, FS_Surjection
<1>2. IsFiniteSet(Rows)
  <2> DEFINE of == [i \in Instruments |-> Row(i)]
  <2>1. of \in Surjection(Instruments, Rows)
    BY DEF Surjection
  <2> QED
    BY <2>1, CursorAssumption, FS_Surjection
<1>3. IsFiniteSet(UNION Rows)
  BY <1>1, <1>2, FS_UNION
<1> QED
  BY <1>3 DEF Events

-----------------------------------------------------------------------------
(* Distinct times.                                                          *)

TimesIn(times) == {times[k] : k \in DOMAIN times}

\* Rising times with one more that is none of theirs before, or the last one's again.
LEMMA DistinctStep ==
  ASSUME NEW times \in Seq(Times), Rising(times), NEW t \in Times, \A k \in DOMAIN times : times[k] <= t,
         NEW new, new = Distinct(times, t)
  PROVE  /\ new \in Seq(Times) /\ new # <<>> /\ Rising(new)
         /\ TimesIn(new) = TimesIn(times) \cup {t}
<1>1. Times \subseteq Nat /\ DOMAIN times = 1 .. Len(times) /\ Len(times) \in Nat
  BY CursorAssumption DEF Times
<1>2. CASE times # <<>> /\ times[Len(times)] = t
  <2>1. new = times /\ Len(times) \in DOMAIN times
    BY <1>1, <1>2 DEF Distinct
  <2> QED
    BY <1>2, <2>1 DEF TimesIn
<1>3. CASE ~(times # <<>> /\ times[Len(times)] = t)
  <2>1. new = Append(times, t)
    BY <1>3 DEF Distinct
  <2>2. /\ new \in Seq(Times) /\ new # <<>> /\ DOMAIN new = DOMAIN times \cup {Len(times) + 1}
        /\ new[Len(times) + 1] = t /\ \A k \in DOMAIN times : new[k] = times[k]
    BY <2>1, <1>1
  <2>3. ASSUME NEW k \in DOMAIN times
        PROVE  times[k] < t
    <3>1. Len(times) \in DOMAIN times /\ times # <<>>
      BY <1>1, <2>3
    <3>2. times[k] \in Nat /\ times[Len(times)] \in Nat /\ t \in Nat
      <4>1. times[k] \in Times /\ times[Len(times)] \in Times
        BY <2>3, <3>1
      <4> QED
        BY <1>1, <4>1
    <3>3. times[Len(times)] < t
      BY <1>3, <3>1, <3>2
    <3>4. k < Len(times) => times[k] < times[Len(times)]
      BY <2>3, <3>1 DEF Rising
    <3> QED
      BY <1>1, <2>3, <3>2, <3>3, <3>4
  <2>4. ASSUME NEW a \in DOMAIN new, NEW b \in DOMAIN new, a < b
        PROVE  new[a] < new[b]
    <3>1. CASE b \in DOMAIN times
      BY <1>1, <2>2, <2>4, <3>1 DEF Rising
    <3>2. CASE b = Len(times) + 1
      BY <1>1, <2>2, <2>3, <2>4, <3>2
    <3> QED
      BY <2>2, <3>1, <3>2
  <2>5. Rising(new)
    BY <2>4 DEF Rising
  <2>6. TimesIn(new) = TimesIn(times) \cup {t}
    BY <2>2 DEF TimesIn
  <2> QED
    BY <2>2, <2>5, <2>6
<1> QED
  BY <1>2, <1>3

\* The distinct times of events in order rise, and are all of theirs.
LEMMA DistinctTimesAre ==
  ASSUME NEW sorted \in Seq(Event), Ascending(sorted)
  PROVE  LET times == DistinctTimes(sorted)
         IN  /\ times \in Seq(Times) /\ Rising(times)
             /\ {times[k] : k \in DOMAIN times} = {sorted[k].ts : k \in DOMAIN sorted}
             /\ times = <<>> <=> sorted = <<>>
<1> DEFINE n == Len(sorted)
           step == [arg \in Seq(Times) \X (1 .. n) |-> Distinct(arg[1], sorted[arg[2]].ts)]
           walk == CHOOSE f : f = [k \in 0 .. n |-> IF k = 0 THEN <<>> ELSE Distinct(f[k - 1], sorted[k].ts)]
<1>1. n \in Nat /\ DOMAIN sorted = 1 .. n
  OBVIOUS
<1>2. ASSUME NEW k \in 1 .. n
      PROVE  sorted[k] \in Event /\ sorted[k].ts \in Times
  <2>1. sorted[k] \in Event
    BY <1>1
  <2> QED
    BY <2>1 DEF Event
<1>3. ASSUME NEW times \in Seq(Times), NEW t \in Times
      PROVE  Distinct(times, t) \in Seq(Times)
  BY DEF Distinct
<1>4. step \in [Seq(Times) \X (1 .. n) -> Seq(Times)]
  BY <1>2, <1>3
<1> DEFINE f0 == <<>>
<1>5. f0 \in Seq(Times)
  OBVIOUS
<1>6. \E f : f = [k \in 0 .. n |-> IF k = 0 THEN <<>> ELSE Distinct(f[k - 1], sorted[k].ts)]
  <2> HIDE DEF step
  <2>1. PICK f : Recursion(f, n, Seq(Times), <<>>, step)
    BY <1>1, <1>4, <1>5, RecursionExists
  <2>2. ASSUME NEW k \in 1 .. n
        PROVE  f[k] = Distinct(f[k - 1], sorted[k].ts)
    <3>1. k - 1 \in 0 .. n /\ f[k - 1] \in Seq(Times) /\ f[k] = step[<<f[k - 1], k>>]
      BY <2>1 DEF Recursion
    <3> QED
      BY <3>1 DEF step
  <2>3. f = [k \in 0 .. n |-> IF k = 0 THEN <<>> ELSE Distinct(f[k - 1], sorted[k].ts)]
    BY <1>1, <2>1, <2>2 DEF Recursion
  <2> QED
    BY <2>3
<1>7. walk = [k \in 0 .. n |-> IF k = 0 THEN <<>> ELSE Distinct(walk[k - 1], sorted[k].ts)]
  <2> HIDE DEF n
  <2> QED
    BY <1>6
<1>8. DistinctTimes(sorted) = walk[n]
  BY DEF DistinctTimes
<1> HIDE DEF walk, step, f0
<1> DEFINE Walked(k) == /\ walk[k] \in Seq(Times) /\ Rising(walk[k])
                        /\ TimesIn(walk[k]) = {sorted[j].ts : j \in 1 .. k}
                        /\ walk[k] = <<>> <=> k = 0
           P == {k \in 0 .. n : Walked(k)}
<1> HIDE DEF Walked
<1>9. 0 \in P
  <2>1. walk[0] = <<>>
    BY <1>1, <1>7
  <2>2. DOMAIN walk[0] = {} /\ 1 .. 0 = {} /\ walk[0] \in Seq(Times)
    BY <2>1
  <2>3. Rising(walk[0])
    BY <2>2 DEF Rising
  <2>4. TimesIn(walk[0]) = {} /\ {sorted[j].ts : j \in 1 .. 0} = {}
    BY <2>2 DEF TimesIn
  <2>5. Walked(0)
    BY <2>1, <2>2, <2>3, <2>4 DEF Walked
  <2> QED
    BY <1>1, <2>5
<1>10. ASSUME NEW k \in 1 .. n, k - 1 \in P
       PROVE  k \in P
  <2>0. Walked(k - 1) /\ k - 1 \in 0 .. n /\ k \in 0 .. n /\ k # 0
    BY <1>1, <1>10
  <2>1. walk[k] = Distinct(walk[k - 1], sorted[k].ts)
    BY <1>7, <2>0
  <2>2. ASSUME NEW j \in DOMAIN walk[k - 1]
        PROVE  walk[k - 1][j] <= sorted[k].ts
    <3>1. walk[k - 1][j] \in {sorted[i].ts : i \in 1 .. k - 1}
      BY <2>0, <2>2 DEF Walked, TimesIn
    <3>2. PICK i \in 1 .. k - 1 : walk[k - 1][j] = sorted[i].ts
      BY <3>1
    <3>3. i \in DOMAIN sorted /\ k \in DOMAIN sorted /\ i < k
      BY <1>1, <3>2
    <3>4. R!Before(sorted[i], sorted[k])
      BY <3>3 DEF Ascending
    <3>5. sorted[i] \in Event /\ sorted[k] \in Event
      BY <1>1, <1>2, <3>3
    <3> QED
      BY <3>2, <3>4, <3>5, BeforeIsStrict
  <2>3. /\ walk[k] \in Seq(Times) /\ walk[k] # <<>> /\ Rising(walk[k])
        /\ TimesIn(walk[k]) = TimesIn(walk[k - 1]) \cup {sorted[k].ts}
    <3>1. walk[k - 1] \in Seq(Times) /\ Rising(walk[k - 1]) /\ sorted[k].ts \in Times
      BY <1>2, <2>0 DEF Walked
    <3> DEFINE times == walk[k - 1]
               t == sorted[k].ts
    <3>2. times \in Seq(Times) /\ Rising(times) /\ t \in Times /\ (\A j \in DOMAIN times : times[j] <= t)
          /\ walk[k] = Distinct(times, t)
      BY <2>1, <2>2, <3>1
    <3> HIDE DEF times, t
    <3>3. /\ walk[k] \in Seq(Times) /\ walk[k] # <<>> /\ Rising(walk[k])
          /\ TimesIn(walk[k]) = TimesIn(times) \cup {t}
      BY <3>2, DistinctStep
    <3> QED
      BY <3>3 DEF times, t
  <2>4. 1 .. k = (1 .. k - 1) \cup {k}
    OBVIOUS
  <2>5. {sorted[j].ts : j \in 1 .. k} = {sorted[j].ts : j \in 1 .. k - 1} \cup {sorted[k].ts}
    BY <2>4
  <2>6. TimesIn(walk[k - 1]) = {sorted[j].ts : j \in 1 .. k - 1}
    BY <2>0 DEF Walked
  <2>7. Walked(k)
    BY <2>0, <2>3, <2>5, <2>6 DEF Walked
  <2> QED
    BY <2>0, <2>7
<1>11. n \in P
  <2>1. \A k \in 1 .. n : k - 1 \in P => k \in P
    BY <1>10
  <2> HIDE DEF P, n
  <2>2. \A k \in 0 .. n : k \in P
    BY <1>1, <1>9, <2>1, NatUpTo
  <2> QED
    BY <1>1, <2>2
<1>12. Walked(n)
  BY <1>11
<1>13. sorted = <<>> <=> n = 0
  OBVIOUS
<1> QED
  BY <1>1, <1>8, <1>12, <1>13 DEF Walked, TimesIn

\* What is cached stays current while it and the columns stay.
LEMMA CacheKept ==
  ASSUME CacheIsCurrent, UNCHANGED <<column, order, timeline>>
  PROVE  CacheIsCurrent'
<1>1. Events(Lengths)' = Events(Lengths)
  BY DEF Events, EventAt, Lengths
<1>2. TimesOf(Lengths)' = TimesOf(Lengths)
  BY <1>1 DEF TimesOf
<1>3. Ascending(order)' = Ascending(order)
  BY DEF Ascending, R!Before
<1>4. Rising(timeline)' = Rising(timeline)
  BY DEF Rising
<1> QED
  BY <1>1, <1>2, <1>3, <1>4 DEF CacheIsCurrent

-----------------------------------------------------------------------------
(* The session.                                                             *)

\* What appending leaves of the rows that were there.
LEMMA AppendKeepsRows ==
  ASSUME CursorInv, NEW j \in Instruments, NEW t \in Times, AppendRow(j, t)
  PROVE  /\ \A i \in Instruments : \A row \in 1 .. Len(column[i]) :
              EventAt(i, row)' = EventAt(i, row)
         /\ Events(count)' = Events(count)
         /\ \A i \in Instruments : Len(column[i]) <= Len(column'[i])
         /\ column' \in [Instruments -> Seq(Times)]
<1>1. column[j] \in Seq(Times) /\ column \in [Instruments -> Seq(Times)]
  BY DEF CursorInv, Shape
<1>2. /\ column' \in [Instruments -> Seq(Times)]
      /\ \A i \in Instruments : Len(column[i]) <= Len(column'[i])
      /\ \A i \in Instruments : \A row \in 1 .. Len(column[i]) : column'[i][row] = column[i][row]
  BY <1>1 DEF AppendRow
<1>3. \A i \in Instruments : \A row \in 1 .. Len(column[i]) : EventAt(i, row)' = EventAt(i, row)
  BY <1>2 DEF EventAt
<1>4. count' = count /\ \A i \in Instruments : 1 .. count[i] \subseteq 1 .. Len(column[i])
  BY <1>1 DEF AppendRow, view, CursorInv, Shape
<1>5. Events(count)' = Events(count)
  <2>1. \A i \in Instruments : \A row \in 1 .. count[i] : EventAt(i, row)' = EventAt(i, row)
    BY <1>3, <1>4
  <2> QED
    BY <2>1, <1>4 DEF Events
<1> QED
  BY <1>2, <1>3, <1>5

\* append keeps the columns in order, drops the cache and touches no replay.
LEMMA AppendStep ==
  ASSUME CursorInv, NEW j \in Instruments, NEW t \in Times, AppendRow(j, t)
  PROVE  CursorInv'
<1> USE DEF CursorInv
<1>1. mode = "none" /\ mode' = "none" /\ count' = count /\ emitted' = emitted /\ heap' = heap
      /\ cutoff' = cutoff /\ steps' = steps /\ order' = <<>> /\ timeline' = <<>>
  BY DEF AppendRow, view, Dropped
<1>2. column[j] \in Seq(Times) /\ column' \in [Instruments -> Seq(Times)]
      /\ column' = [column EXCEPT ![j] = Append(@, t)]
  BY AppendKeepsRows DEF Shape, AppendRow
<1>3. Shape'
  <2>1. ASSUME NEW i \in Instruments, NEW a \in DOMAIN column'[i], NEW b \in DOMAIN column'[i], a <= b
        PROVE  column'[i][a] <= column'[i][b]
    <3>1. CASE i # j
      BY <2>1, <3>1, <1>2 DEF Shape
    <3>2. CASE i = j /\ b <= Len(column[j])
      BY <2>1, <3>2, <1>2 DEF Shape
    <3>3. CASE i = j /\ b = Len(column[j]) + 1 /\ a <= Len(column[j])
      <4>1. column[j] # <<>> /\ a \in DOMAIN column[j] /\ Len(column[j]) \in DOMAIN column[j]
        BY <3>3, <2>1, <1>2
      <4>2. column[j][a] <= column[j][Len(column[j])] /\ column[j][Len(column[j])] <= t
        BY <4>1, <3>3 DEF Shape, AppendRow
      <4>3. column'[j][a] = column[j][a] /\ column'[j][b] = t
        BY <3>3, <4>1, <1>2
      <4>4. column[j][a] \in Nat /\ column[j][Len(column[j])] \in Nat /\ t \in Nat
        <5>1. column[j][a] \in Times /\ column[j][Len(column[j])] \in Times
          BY <4>1, <1>2
        <5>2. Times \subseteq Nat
          BY CursorAssumption DEF Times
        <5> QED
          BY <5>1, <5>2
      <4> QED
        BY <4>2, <4>3, <4>4, <3>3
    <3>4. CASE i = j /\ b = Len(column[j]) + 1 /\ a = Len(column[j]) + 1
      <4>1. column'[i][a] \in Times /\ a = b
        BY <3>4, <1>2
      <4> QED
        BY <4>1, CursorAssumption DEF Times
    <3> QED
      BY <3>1, <3>2, <3>3, <3>4, <2>1, <1>2
  <2>2. \A i \in Instruments : count'[i] <= Len(column'[i])
    <3>1. ASSUME NEW i \in Instruments
          PROVE  count[i] <= Len(column'[i])
      <4>1. count[i] <= Len(column[i]) /\ Len(column[i]) <= Len(column'[i])
        BY AppendKeepsRows DEF Shape
      <4>2. count[i] \in Nat /\ Len(column[i]) \in Nat /\ Len(column'[i]) \in Nat
        BY <1>2 DEF Shape
      <4> QED
        BY <4>1, <4>2
    <3> QED
      BY <3>1, <1>1
  <2>3. order' \in Seq(Event) /\ timeline' \in Seq(Times)
    BY <1>1
  <2> QED
    BY <2>1, <2>2, <2>3, <1>1, <1>2 DEF Shape
<1>4. CacheIsCurrent'
  BY <1>1 DEF CacheIsCurrent
<1>5. Placed'
  <2>1. Events(count)' = Events(count) /\ R!Replayed' = R!Replayed /\ R!Left' = R!Left
    BY <1>1, AppendKeepsRows DEF R!Left, R!Replayed
  <2>2. \A run \in heap : column'[run.instrument][run.row] = column[run.instrument][run.row]
    <3>1. ASSUME NEW run \in heap
          PROVE  column'[run.instrument][run.row] = column[run.instrument][run.row]
      <4>1. run.instrument \in Instruments /\ run.row \in 1 .. Len(column[run.instrument])
        BY <1>2 DEF Shape, Run
      <4> QED
        BY <4>1, AppendKeepsRows DEF EventAt
    <3> QED
      BY <3>1
  <2> QED
    BY <2>1, <2>2, <1>1 DEF Placed
<1> QED
  BY <1>3, <1>4, <1>5

\* build_event_order touches no column and no replay.
LEMMA BuildStep ==
  ASSUME CursorInv, BuildEventOrder
  PROVE  CursorInv'
<1> USE DEF CursorInv
<1>1. mode = "none" /\ mode' = "none" /\ column' = column /\ count' = count /\ cutoff' = cutoff
      /\ emitted' = emitted /\ heap' = heap /\ steps' = steps
      /\ order' \in Sortings(Events(Lengths)) /\ timeline' = DistinctTimes(order')
  BY DEF BuildEventOrder, view
<1>2. Lengths' = Lengths /\ Events(Lengths)' = Events(Lengths) /\ Events(count)' = Events(count)
  BY <1>1 DEF Lengths, Events, EventAt
<1>3. Events(Lengths) \subseteq Event
  <2>1. ASSUME NEW e \in Events(Lengths)
        PROVE  e \in Event
    <3>1. PICK i \in Instruments : \E row \in 1 .. Lengths[i] : e = EventAt(i, row)
      BY EventsAre
    <3>2. PICK row \in 1 .. Len(column[i]) : e = EventAt(i, row)
      BY <3>1 DEF Lengths
    <3> QED
      BY <3>2, Typed
  <2> QED
    BY <2>1
<1>4. /\ order' \in Seq(Event) /\ Ascending(order')
      /\ {order'[k] : k \in DOMAIN order'} = Events(Lengths)
  <2>0. Cardinality(Events(Lengths)) \in Nat
    BY EventsFinite, FS_CardinalityType
  <2>1. order' \in Seq(Events(Lengths))
    BY <1>1, <2>0 DEF Sortings
  <2> QED
    BY <1>1, <1>3, <2>1 DEF Sortings
<1>5. /\ timeline' \in Seq(Times) /\ Rising(timeline')
      /\ {timeline'[k] : k \in DOMAIN timeline'} = TimesOf(Lengths)
      /\ order' = <<>> <=> timeline' = <<>>
  <2>1. /\ timeline' \in Seq(Times) /\ Rising(timeline')
        /\ {timeline'[k] : k \in DOMAIN timeline'} = {order'[k].ts : k \in DOMAIN order'}
        /\ timeline' = <<>> <=> order' = <<>>
    BY <1>1, <1>4, DistinctTimesAre
  <2>2. {order'[k].ts : k \in DOMAIN order'} = TimesOf(Lengths)
    BY <1>4 DEF TimesOf
  <2> QED
    BY <2>1, <2>2
<1>6. CacheIsCurrent'
  <2>1. TimesOf(Lengths)' = TimesOf(Lengths)
    BY <1>2 DEF TimesOf
  <2>2. order' # <<>> => Ascending(order)' /\ {order[k] : k \in DOMAIN order}' = Events(Lengths)'
    BY <1>2, <1>4 DEF Ascending, R!Before
  <2>3. timeline' # <<>> => Rising(timeline)' /\ {timeline[k] : k \in DOMAIN timeline}' = TimesOf(Lengths)'
    BY <1>5, <2>1 DEF Rising
  <2> QED
    BY <1>5, <2>2, <2>3 DEF CacheIsCurrent
<1>7. Shape'
  BY <1>1, <1>4, <1>5 DEF Shape
<1>8. Placed'
  BY <1>1, <1>2 DEF Placed, R!Replayed, R!Left
<1> QED
  BY <1>6, <1>7, <1>8
-----------------------------------------------------------------------------
(* The cursor.                                                              *)

\* A cursor starts with every event of its session to come.
LEMMA OpenStep ==
  ASSUME CursorInv, OpenWhole \/ OpenTruncated
  PROVE  CursorInv' /\ R!Begin /\ R!Replayed' = {}
<1> USE DEF CursorInv
<1>1. PICK cached \in {order, <<>>}, n \in [Instruments -> Nat], t \in Times :
        /\ Open(cached, n, t)
        /\ \A i \in Instruments : n[i] <= Len(column[i])
        /\ cached # <<>> => n = Lengths
  <2>1. CASE OpenWhole
    <3>1. Lengths \in [Instruments -> Nat] /\ \A i \in Instruments : Lengths[i] <= Len(column[i])
      BY DEF Lengths, Shape
    <3>2. LastTime \in Times
      BY CursorAssumption DEF Times
    <3> QED
      BY <2>1, <3>1, <3>2 DEF OpenWhole
  <2>2. CASE OpenTruncated
    <3>1. PICK t \in Times, n \in [Instruments -> 0 .. MaxRows] :
            /\ \A i \in Instruments : n[i] <= Len(column[i])
            /\ Open(<<>>, n, t)
      BY <2>2 DEF OpenTruncated
    <3>2. n \in [Instruments -> Nat]
      BY CursorAssumption
    <3> QED
      BY <3>1, <3>2
  <2> QED
    BY <2>1, <2>2
<1>2. /\ mode = "none" /\ count' = n /\ cutoff' = t /\ emitted' = <<>>
      /\ column' = column /\ order' = order /\ timeline' = timeline
      /\ mode' = IF cached # <<>> THEN "walk" ELSE "merge"
      /\ heap' = IF cached # <<>> THEN {} ELSE {RunAt(i, 1, n) : i \in {j \in Instruments : n[j] > 0}}
  BY <1>1 DEF Open, data
<1>3. \A i \in Instruments : n[i] \in Nat /\ Len(column[i]) \in Nat /\ n[i] <= Len(column[i])
  BY <1>1 DEF Shape
<1>4. ASSUME NEW run \in heap'
      PROVE  /\ run \in Run /\ run.row = 1 /\ run.end = n[run.instrument] /\ run.end > 0
             /\ run = RunAt(run.instrument, 1, n) /\ run.ts = column[run.instrument][1]
  <2>1. PICK i \in Instruments : n[i] > 0 /\ run = RunAt(i, 1, n)
    BY <1>2, <1>4
  <2>2. column[i][1] \in Times
    BY <2>1, <1>3, Typed
  <2> QED
    BY <2>1, <2>2, <1>3 DEF RunAt, Run
<1>5. Shape'
  <2>1. \A run \in heap' : run \in Run /\ run.row \in 1 .. run.end /\ run.end = count'[run.instrument]
    BY <1>2, <1>3, <1>4 DEF Run
  <2>2. \A a, b \in heap' : a.instrument = b.instrument => a = b
    BY <1>4
  <2>3. emitted' \in Seq(Event)
    BY <1>2
  <2> QED
    BY <1>1, <1>2, <1>3, <2>1, <2>2, <2>3 DEF Shape
<1>6. CacheIsCurrent'
  BY <1>2, CacheKept
<1>7. R!Replayed' = {} /\ R!Left' = Events(count)'
  BY <1>2 DEF R!Replayed, R!Left
<1>8. Placed'
  <2>1. mode' = "walk" => /\ order' # <<>> /\ count' = Lengths' /\ Len(emitted') <= Len(order')
                          /\ \A k \in DOMAIN emitted' : emitted'[k] = order'[k]
    BY <1>1, <1>2 DEF Lengths, Shape
  <2>2. ASSUME mode' = "merge"
        PROVE  Pending'
    <3> SUFFICES ASSUME NEW i \in Instruments, NEW row \in 1 .. count'[i]
                 PROVE  EventAt(i, row)' \in R!Left' /\ \E run \in heap' : run.instrument = i /\ run.row <= row
      BY DEF Pending
    <3>1. EventAt(i, row)' \in Events(count)'
      BY DEF Events
    <3>2. RunAt(i, 1, n) \in heap'
      BY <1>2, <1>3, <2>2
    <3>3. RunAt(i, 1, n).instrument = i /\ RunAt(i, 1, n).row = 1
      BY DEF RunAt
    <3> QED
      BY <3>1, <3>2, <3>3, <1>7, <1>2, <1>3
  <2>3. \A run \in heap' : run.ts = column'[run.instrument][run.row]
    BY <1>2, <1>4
  <2> QED
    BY <1>2, <1>7, <2>1, <2>2, <2>3 DEF Placed
<1>9. R!Begin
  BY <1>2 DEF R!Begin, Placed
<1> QED
  BY <1>5, <1>6, <1>7, <1>8, <1>9

\* Yielding the least event that is left is a step of Replay's.
LEMMA YieldStep ==
  ASSUME CursorInv, NEW e \in R!Left, \A f \in R!Left \ {e} : R!Before(e, f), Yield(e)
  PROVE  /\ R!Emit
         /\ R!Replayed' = R!Replayed \cup {e} /\ R!Left' = R!Left \ {e}
         /\ emitted' = Append(emitted, e) /\ emitted' \in Seq(Event)
         /\ Events(count)' = Events(count)
         /\ UNCHANGED <<column, order, timeline, count, cutoff, mode>>
         /\ CacheIsCurrent'
<1> USE DEF CursorInv
<1>1. /\ emitted' = Append(emitted, e)
      /\ UNCHANGED <<column, order, timeline, count, cutoff, mode>>
  BY DEF Yield, data, view
<1>2. Events(count)' = Events(count) /\ Lengths' = Lengths /\ Events(Lengths)' = Events(Lengths)
  BY <1>1 DEF Events, EventAt, Lengths
<1>3. e \in Event
  BY EventsTyped DEF R!Left
<1>4. emitted \in Seq(Event) /\ emitted' \in Seq(Event)
  BY <1>1, <1>3 DEF Shape
<1>5. R!Replayed' = R!Replayed \cup {e}
  <2>1. Len(emitted') = Len(emitted) + 1 /\ emitted'[Len(emitted) + 1] = e
        /\ \A k \in 1 .. Len(emitted) : emitted'[k] = emitted[k]
    BY <1>1, <1>3, <1>4
  <2>2. DOMAIN emitted' = DOMAIN emitted \cup {Len(emitted) + 1} /\ DOMAIN emitted = 1 .. Len(emitted)
    BY <2>1, <1>4
  <2> QED
    BY <2>1, <2>2 DEF R!Replayed
<1>6. R!Left' = R!Left \ {e}
  BY <1>2, <1>5 DEF R!Left
<1>7. R!Emit
  BY <1>1, <1>2 DEF R!Emit
<1>8. CacheIsCurrent'
  BY <1>1, CacheKept
<1> QED
  BY <1>1, <1>2, <1>4, <1>5, <1>6, <1>7, <1>8
\* Walking the cached order yields the least event left, and stays on it.
LEMMA WalkStep ==
  ASSUME CursorInv, WalkNext
  PROVE  /\ CursorInv'
         /\ \E e \in R!Left : Yield(e) /\ \A f \in R!Left \ {e} : R!Before(e, f)
<1> USE DEF CursorInv
<1> DEFINE k == Len(emitted) + 1
           e == order[k]
<1>1. /\ mode = "walk" /\ k \in DOMAIN order /\ Yield(e) /\ heap' = heap
      /\ order \in Seq(Event) /\ emitted \in Seq(Event) /\ DOMAIN emitted = 1 .. Len(emitted)
      /\ order # <<>> /\ count = Lengths /\ \A a \in DOMAIN emitted : emitted[a] = order[a]
  BY DEF WalkNext, Placed, Shape
<1>2. /\ \A a, b \in DOMAIN order : a < b => R!Before(order[a], order[b])
      /\ {order[a] : a \in DOMAIN order} = Events(count)
  BY <1>1 DEF CacheIsCurrent, Ascending
<1>3. \A a \in DOMAIN order : order[a] \in Event
  BY <1>1
<1>4. ASSUME NEW a \in DOMAIN order
      PROVE  order[a] \in R!Replayed <=> a < k
  <2>1. CASE a < k
    <3>1. a \in DOMAIN emitted /\ emitted[a] = order[a]
      BY <1>1, <2>1
    <3> QED
      BY <2>1, <3>1 DEF R!Replayed
  <2>2. CASE ~(a < k)
    <3>1. ASSUME order[a] \in R!Replayed
          PROVE  FALSE
      <4>1. PICK b \in DOMAIN emitted : order[a] = order[b]
        BY <1>1, <3>1 DEF R!Replayed
      <4>2. b < a /\ b \in DOMAIN order
        BY <1>1, <2>2, <4>1
      <4>3. R!Before(order[b], order[a])
        BY <1>2, <4>2
      <4> QED
        BY <4>1, <4>3, <1>3, BeforeIsStrict
    <3> QED
      BY <2>2, <3>1
  <2> QED
    BY <2>1, <2>2
<1>5. e \in R!Left
  BY <1>1, <1>2, <1>4 DEF R!Left
<1>6. ASSUME NEW f \in R!Left \ {e}
      PROVE  R!Before(e, f)
  <2>1. PICK b \in DOMAIN order : f = order[b]
    BY <1>2 DEF R!Left
  <2>2. ~(b < k) /\ b # k
    BY <1>4, <1>6, <2>1 DEF R!Left
  <2> QED
    BY <1>1, <1>2, <2>1, <2>2
<1>7. /\ R!Replayed' = R!Replayed \cup {e} /\ R!Left' = R!Left \ {e}
      /\ emitted' = Append(emitted, e) /\ emitted' \in Seq(Event) /\ Events(count)' = Events(count)
      /\ UNCHANGED <<column, order, timeline, count, cutoff, mode>>
      /\ CacheIsCurrent'
  BY <1>1, <1>5, <1>6, YieldStep
<1>8. Shape'
  BY <1>1, <1>7 DEF Shape
<1>9. Placed'
  <2>1. e \in Events(count) /\ Lengths' = Lengths
    BY <1>5, <1>7 DEF R!Left, Lengths
  <2>2. Len(emitted') <= Len(order) /\ \A a \in DOMAIN emitted' : emitted'[a] = order[a]
    BY <1>1, <1>3, <1>7
  <2> QED
    BY <1>1, <1>7, <2>1, <2>2 DEF Placed
<1> QED
  BY <1>1, <1>5, <1>6, <1>7, <1>8, <1>9

\* The least run of a merge is at the least event left, and the runs put back
\* are at those still to come.
LEMMA MergeStep ==
  ASSUME CursorInv, MergeNext
  PROVE  /\ CursorInv'
         /\ \E e \in R!Left : Yield(e) /\ \A f \in R!Left \ {e} : R!Before(e, f)
<1> USE DEF CursorInv
<1>1. PICK run \in heap :
        /\ \A other \in heap \ {run} : RunBefore(run, other)
        /\ Yield([ts |-> run.ts, instrument |-> run.instrument, row |-> run.row])
        /\ heap' = (heap \ {run}) \cup Advanced(run)
  BY DEF MergeNext
<1>2. mode = "merge" /\ Pending
  BY DEF MergeNext, Placed
<1> DEFINE i == run.instrument
           e == EventAt(i, run.row)
<1>3. /\ i \in Instruments /\ run.row \in 1 .. count[i] /\ run.end = count[i]
      /\ run.ts = column[i][run.row]
  BY DEF Shape, Run, Placed
<1>4. Yield(e)
  BY <1>1, <1>3 DEF EventAt
<1>5. e \in R!Left
  BY <1>2, <1>3 DEF Pending
<1>6. \A j \in Instruments : /\ count[j] \in Nat /\ count[j] <= Len(column[j]) /\ column[j] \in Seq(Times)
                             /\ \A row \in 1 .. count[j] : column[j][row] \in Nat /\ row \in DOMAIN column[j]
  BY CursorAssumption DEF Shape, Times
<1>7. ASSUME NEW f \in R!Left \ {e}
      PROVE  R!Before(e, f)
  <2>1. PICK j \in Instruments : \E row \in 1 .. count[j] : f = EventAt(j, row)
    BY EventsAre DEF R!Left
  <2>2. PICK row \in 1 .. count[j] : f = EventAt(j, row)
    BY <2>1
  <2>3. PICK other \in heap : other.instrument = j /\ other.row <= row
    BY <1>2, <2>2 DEF Pending
  <2>4. other.row \in 1 .. count[j] /\ other.ts = column[j][other.row]
    BY <2>3 DEF Shape, Placed
  <2>5. column[j][other.row] <= column[j][row]
    BY <1>6, <2>2, <2>3, <2>4 DEF Shape
  <2>6. /\ e.ts = column[i][run.row] /\ e.instrument = i /\ e.row = run.row
        /\ f.ts = column[j][row] /\ f.instrument = j /\ f.row = row
    BY <2>2, EventFields
  <2>7. CASE other = run
    <3>1. j = i /\ run.row <= row /\ row # run.row
      BY <1>7, <2>2, <2>3, <2>7
    <3> QED
      BY <1>3, <1>6, <2>2, <2>4, <2>5, <2>6, <2>7, <3>1 DEF R!Before
  <2>8. CASE other # run
    <3>1. RunBefore(run, other)
      BY <1>1, <2>8
    <3>2. i \in Nat /\ j \in Nat
      BY <1>3, CursorAssumption
    <3>3. /\ column[i][run.row] \in Nat /\ column[j][other.row] \in Nat /\ column[j][row] \in Nat
      BY <1>3, <1>6, <2>2, <2>4
    <3>4. \/ column[i][run.row] < column[j][other.row]
          \/ column[i][run.row] = column[j][other.row] /\ i < j
      BY <1>3, <2>3, <2>4, <3>1 DEF RunBefore
    <3>5. column[i][run.row] < column[j][row] \/ (column[i][run.row] = column[j][row] /\ i < j)
      BY <2>5, <3>2, <3>3, <3>4
    <3> QED
      BY <2>6, <3>5 DEF R!Before
  <2> QED
    BY <2>7, <2>8
<1>8. /\ R!Replayed' = R!Replayed \cup {e} /\ R!Left' = R!Left \ {e}
      /\ emitted' \in Seq(Event) /\ Events(count)' = Events(count)
      /\ UNCHANGED <<column, order, timeline, count, cutoff, mode>>
      /\ CacheIsCurrent'
  BY <1>4, <1>5, <1>7, YieldStep
<1>9. ASSUME NEW new \in heap'
      PROVE  /\ new \in Run /\ new.row \in 1 .. new.end /\ new.end = count[new.instrument]
             /\ new.ts = column[new.instrument][new.row]
             /\ \/ new \in heap \ {run} /\ new.instrument # i
                \/ new \in Advanced(run) /\ new.instrument = i /\ new.row = run.row + 1
  <2>1. CASE new \in heap \ {run}
    BY <2>1 DEF Shape, Placed
  <2>2. CASE new \in Advanced(run)
    <3>1. run.row < run.end /\ new = RunAt(i, run.row + 1, count)
      BY <2>2 DEF Advanced
    <3>2. /\ count[i] \in Nat /\ Len(column[i]) \in Nat /\ count[i] <= Len(column[i])
          /\ run.row \in 1 .. count[i] /\ run.row < count[i]
      BY <1>3, <1>6, <3>1
    <3> HIDE DEF i
    <3>3. run.row + 1 \in 1 .. count[i] /\ run.row + 1 \in 1 .. Len(column[i])
      BY ONLY <3>2
    <3> USE DEF i
    <3>4. column[i][run.row + 1] \in Times
      BY <1>3, <3>3, Typed
    <3> QED
      BY <2>2, <1>3, <1>6, <3>1, <3>3, <3>4 DEF RunAt, Run
  <2> QED
    BY <1>1, <2>1, <2>2
<1>10. Shape'
  <2>1. \A a, b \in heap' : a.instrument = b.instrument => a = b
    <3>1. ASSUME NEW a \in heap', NEW b \in heap', a.instrument = i, b.instrument = i
          PROVE  a = b
      BY <1>1, <1>9, <3>1 DEF Advanced, RunAt
    <3>2. ASSUME NEW a \in heap', NEW b \in heap', a.instrument = b.instrument, a.instrument # i
          PROVE  a = b
      BY <1>9, <3>2 DEF Shape
    <3> QED
      BY <3>1, <3>2
  <2> QED
    BY <1>8, <1>9, <2>1 DEF Shape
<1>11. Pending'
  <2> SUFFICES ASSUME NEW j \in Instruments, NEW row \in 1 .. count[j]
               PROVE  EventAt(j, row) \in R!Left \ {e} <=> \E new \in heap' : new.instrument = j /\ new.row <= row
    BY <1>8 DEF Pending, EventAt
  <2>1. EventAt(j, row) = e <=> j = i /\ row = run.row
    BY EventFields
  <2>2. CASE j # i
    <3>1. (\E new \in heap' : new.instrument = j /\ new.row <= row)
            <=> \E new \in heap : new.instrument = j /\ new.row <= row
      BY <1>1, <1>9, <2>2
    <3> QED
      BY <1>2, <2>1, <2>2, <3>1 DEF Pending
  <2>3. CASE j = i
    <3>1. EventAt(j, row) \in R!Left <=> run.row <= row
      BY <1>2, <2>3 DEF Pending, Shape
    <3>2. (\E new \in heap' : new.instrument = j /\ new.row <= row) <=> run.row + 1 <= row
      <4>1. ASSUME run.row + 1 <= row
            PROVE  \E new \in heap' : new.instrument = j /\ new.row <= row
        <5>1. run.row < run.end
          BY <1>3, <1>6, <2>3, <4>1
        <5>2. RunAt(i, run.row + 1, count) \in heap'
          BY <1>1, <5>1 DEF Advanced
        <5> QED
          BY <2>3, <4>1, <5>2 DEF RunAt
      <4>2. ASSUME NEW new \in heap', new.instrument = j, new.row <= row
            PROVE  run.row + 1 <= row
        BY <1>9, <2>3, <4>2
      <4> QED
        BY <4>1, <4>2
    <3> QED
      BY <1>3, <1>6, <2>1, <2>3, <3>1, <3>2
  <2> QED
    BY <2>2, <2>3
<1>12. Placed'
  <2>1. e \in Events(count)
    BY <1>5 DEF R!Left
  <2> QED
    BY <1>2, <1>8, <1>9, <1>11, <2>1 DEF Placed
<1> QED
  BY <1>4, <1>5, <1>7, <1>8, <1>10, <1>12
\* A loop that is over has yielded everything.
LEMMA ExhaustedStep ==
  ASSUME CursorInv, Exhausted
  PROVE  CursorInv' /\ UNCHANGED <<Events(count), emitted>>
<1> USE DEF CursorInv
<1>1. mode' = "none" /\ UNCHANGED <<column, order, timeline, count, cutoff, heap, emitted>>
  BY DEF Exhausted, data, view
<1>2. R!Left = {}
  <2>1. CASE mode = "walk"
    <3>1. DOMAIN emitted = DOMAIN order /\ order # <<>> /\ count = Lengths
          /\ \A k \in DOMAIN emitted : emitted[k] = order[k]
      BY <2>1 DEF Exhausted, Placed, Shape
    <3>2. Events(count) \subseteq R!Replayed
      BY <3>1 DEF R!Replayed, CacheIsCurrent
    <3> QED
      BY <3>2 DEF R!Left
  <2>2. CASE mode = "merge"
    <3>1. heap = {} /\ Pending
      BY <2>2 DEF Exhausted, Placed
    <3>2. ASSUME NEW e \in R!Left
          PROVE  FALSE
      <4>1. PICK i \in Instruments : \E row \in 1 .. count[i] : e = EventAt(i, row)
        BY EventsAre DEF R!Left
      <4> QED
        BY <3>1, <4>1 DEF Pending
    <3> QED
      BY <3>2
  <2>3. CASE mode = "timeline"
    BY <2>3 DEF Placed
  <2> QED
    BY <2>1, <2>2, <2>3 DEF Exhausted
<1>3. /\ Lengths' = Lengths /\ Events(Lengths)' = Events(Lengths) /\ Events(count)' = Events(count)
      /\ R!Replayed' = R!Replayed /\ R!Left' = R!Left
  BY <1>1 DEF Lengths, Events, EventAt, R!Replayed, R!Left
<1>4. Shape'
  BY <1>1 DEF Shape
<1>5. CacheIsCurrent'
  BY <1>1, CacheKept
<1>6. Placed'
  BY <1>1, <1>2, <1>3 DEF Placed
<1> QED
  BY <1>1, <1>3, <1>4, <1>5, <1>6

\* A loop over the timeline opens no cursor.
LEMMA TimelineStep ==
  ASSUME CursorInv, TakeTimeline
  PROVE  CursorInv' /\ UNCHANGED <<Events(count), emitted>>
<1> USE DEF CursorInv
<1>1. mode' = "timeline" /\ UNCHANGED <<column, order, timeline, count, cutoff, heap, emitted>>
  BY DEF TakeTimeline, data, view
<1>2. R!Left = {}
  BY DEF TakeTimeline, Placed
<1>3. /\ Lengths' = Lengths /\ Events(Lengths)' = Events(Lengths) /\ Events(count)' = Events(count)
      /\ R!Replayed' = R!Replayed /\ R!Left' = R!Left
  BY <1>1 DEF Lengths, Events, EventAt, R!Replayed, R!Left
<1>4. Shape'
  BY <1>1 DEF Shape
<1>5. CacheIsCurrent'
  BY <1>1, CacheKept
<1>6. Placed'
  BY <1>1, <1>2, <1>3 DEF Placed
<1> QED
  BY <1>1, <1>3, <1>4, <1>5, <1>6

\* Nothing in memory changes in a step that stutters.
LEMMA StutterStep ==
  ASSUME CursorInv, UNCHANGED vars
  PROVE  CursorInv' /\ UNCHANGED <<Events(count), emitted>>
<1>1. UNCHANGED <<column, order, timeline, count, cutoff, mode, heap, emitted>>
  BY DEF vars
<1>2. /\ Lengths' = Lengths /\ Events(Lengths)' = Events(Lengths) /\ Events(count)' = Events(count)
      /\ R!Replayed' = R!Replayed /\ R!Left' = R!Left
  BY <1>1 DEF Lengths, Events, EventAt, R!Replayed, R!Left
<1>3. Pending' <=> Pending
  BY <1>1, <1>2 DEF Pending, EventAt
<1> QED
  BY <1>1, <1>2, <1>3, CacheKept DEF CursorInv, Shape, Placed

-----------------------------------------------------------------------------
(* The session and its replays.                                             *)

LEMMA InvInit ==
  ASSUME Init
  PROVE  CursorInv /\ R!Init
<1>1. Events(count) = {} /\ R!Left = {} /\ R!Replayed = {}
  BY DEF Init, Events, R!Left, R!Replayed
<1>2. LastTime \in Times
  BY CursorAssumption DEF Times
<1> QED
  BY <1>1, <1>2 DEF Init, CursorInv, Shape, CacheIsCurrent, Placed, R!Init

\* Every step keeps the invariant and is a step of Replay's, or one it does not see.
LEMMA InvNext ==
  ASSUME CursorInv, [Next]_vars
  PROVE  CursorInv' /\ [R!Next]_(R!rvars)
<1>1. ASSUME NEW i \in Instruments, NEW t \in Times, AppendRow(i, t)
      PROVE  CursorInv' /\ UNCHANGED <<Events(count), emitted>>
  <2>1. emitted' = emitted
    BY <1>1 DEF AppendRow
  <2> QED
    BY <1>1, <2>1, AppendStep, AppendKeepsRows
<1>2. CASE BuildEventOrder
  <2>1. CursorInv'
    BY <1>2, BuildStep
  <2>2. column' = column /\ count' = count /\ emitted' = emitted
    BY <1>2 DEF BuildEventOrder, view
  <2>3. Events(count)' = Events(count)
    BY <2>2 DEF Events, EventAt
  <2> QED
    BY <2>1, <2>2, <2>3 DEF R!rvars
<1>3. CASE OpenWhole \/ OpenTruncated
  BY <1>3, OpenStep DEF R!Next
<1>4. CASE WalkNext
  <2>1. PICK e \in R!Left : Yield(e) /\ \A f \in R!Left \ {e} : R!Before(e, f)
    BY <1>4, WalkStep
  <2>2. R!Emit
    BY <2>1, YieldStep
  <2> QED
    BY <1>4, <2>2, WalkStep DEF R!Next
<1>5. CASE MergeNext
  <2>1. PICK e \in R!Left : Yield(e) /\ \A f \in R!Left \ {e} : R!Before(e, f)
    BY <1>5, MergeStep
  <2>2. R!Emit
    BY <2>1, YieldStep
  <2> QED
    BY <1>5, <2>2, MergeStep DEF R!Next
<1>6. CASE Exhausted
  BY <1>6, ExhaustedStep DEF R!rvars
<1>7. CASE TakeTimeline
  BY <1>7, TimelineStep DEF R!rvars
<1>8. CASE UNCHANGED vars
  BY <1>8, StutterStep DEF R!rvars
<1> QED
  BY <1>1, <1>2, <1>3, <1>4, <1>5, <1>6, <1>7, <1>8 DEF Next, R!rvars

\* A cached order and timeline are never stale: whatever is appended drops them, and
\* they are built together (append, build_event_order).
THEOREM CacheNeverStale == Spec => []CacheIsCurrent
<1>1. CursorInv => CacheIsCurrent
  BY DEF CursorInv
<1> QED
  BY <1>1, InvInit, InvNext, PTL DEF Spec

\* The replay of a session, walked along its cached order or merged, of all of it
\* or up to a cutoff, yields every event once, in the order of time and ties in
\* that of instruments (EventCursor::next).
THEOREM CursorReplays == Spec => Replays
<1> QED
  BY InvInit, InvNext, PTL DEF Spec, Replays, R!Spec
-----------------------------------------------------------------------------
(* The steps.                                                               *)

\* The steps a cursor's loop has derived so far are the times of what has been
\* yielded, and nothing still to come is earlier than what has; those of a loop on
\* the timeline are the session's.
Stepped ==
  /\ steps \in Seq(Times) /\ Rising(steps)
  /\ mode = "timeline" => {steps[k] : k \in DOMAIN steps} = TimesOf(Lengths)
  /\ mode \in {"walk", "merge"} =>
       /\ {steps[k] : k \in DOMAIN steps} = {e.ts : e \in R!Replayed}
       /\ \A e \in R!Replayed, f \in R!Left : e.ts <= f.ts
       /\ \A i \in Instruments : UpTo(i, cutoff, count[i])

\* Yielding the least event left adds its time, unless it is the last one's.
LEMMA SteppedYield ==
  ASSUME CursorInv, Stepped, mode \in {"walk", "merge"},
         NEW e \in R!Left, \A f \in R!Left \ {e} : R!Before(e, f), Yield(e)
  PROVE  Stepped'
<1>1. /\ R!Replayed' = R!Replayed \cup {e} /\ R!Left' = R!Left \ {e}
      /\ column' = column /\ count' = count /\ cutoff' = cutoff /\ mode' = mode
  BY YieldStep
<1>2. steps' = Distinct(steps, e.ts)
  BY DEF Yield
<1>3. Events(count) \subseteq Event
  BY EventsTyped DEF CursorInv
<1>4. R!Left \subseteq Event /\ R!Replayed \subseteq Event
  BY <1>3 DEF CursorInv, Placed, R!Left
<1>5. e.ts \in Times
  BY <1>4 DEF Event
<1>6. ASSUME NEW k \in DOMAIN steps
      PROVE  steps[k] <= e.ts
  <2>1. PICK f \in R!Replayed : f.ts = steps[k]
    BY DEF Stepped
  <2> QED
    BY <2>1 DEF Stepped
<1>7. /\ steps' \in Seq(Times) /\ Rising(steps')
      /\ {steps'[k] : k \in DOMAIN steps'} = {steps[k] : k \in DOMAIN steps} \cup {e.ts}
  <2> DEFINE t == e.ts
  <2>1. /\ steps \in Seq(Times) /\ Rising(steps) /\ t \in Times /\ steps' = Distinct(steps, t)
        /\ \A k \in DOMAIN steps : steps[k] <= t
    BY <1>2, <1>5, <1>6 DEF Stepped
  <2> HIDE DEF t
  <2>2. /\ steps' \in Seq(Times) /\ Rising(steps')
        /\ TimesIn(steps') = TimesIn(steps) \cup {t}
    BY <2>1, DistinctStep
  <2> QED
    BY <2>2 DEF t, TimesIn
<1>8. {steps'[k] : k \in DOMAIN steps'} = {f.ts : f \in R!Replayed'}
  BY <1>1, <1>7 DEF Stepped
<1>9. \A f \in R!Replayed', g \in R!Left' : f.ts <= g.ts
  <2>1. ASSUME NEW g \in R!Left \ {e}
        PROVE  e.ts <= g.ts
    BY <1>4, <2>1, BeforeIsStrict
  <2> QED
    BY <1>1, <2>1 DEF Stepped
<1>10. \A i \in Instruments : UpTo(i, cutoff, count[i])'
  BY <1>1 DEF Stepped, UpTo
<1> QED
  BY <1>1, <1>7, <1>8, <1>9, <1>10 DEF Stepped, Rising

\* A cursor opens with no step derived, on the rows up to its cutoff.
LEMMA SteppedOpen ==
  ASSUME CursorInv, OpenWhole \/ OpenTruncated
  PROVE  Stepped'
<1>1. R!Replayed' = {}
  BY OpenStep
<1>2. steps' = <<>> /\ column' = column
  BY DEF OpenWhole, OpenTruncated, Open, data
<1>3. ASSUME NEW i \in Instruments
      PROVE  UpTo(i, cutoff', count'[i])
  <2>1. CASE OpenWhole
    <3>1. cutoff' = LastTime /\ count' = Lengths
      BY <2>1 DEF OpenWhole, Open
    <3>2. column[i] \in Seq(Times) /\ count'[i] = Len(column[i])
      BY <1>3, <3>1 DEF CursorInv, Shape, Lengths
    <3>3. ASSUME NEW row \in DOMAIN column[i]
          PROVE  row <= count'[i] /\ column[i][row] <= cutoff'
      <4>1. column[i][row] \in Times /\ row \in 1 .. Len(column[i])
        BY <3>2
      <4> QED
        BY <4>1, <3>1, <3>2, CursorAssumption DEF Times
    <3> QED
      BY <3>3 DEF UpTo
  <2>2. CASE OpenTruncated
    BY <1>3, <2>2 DEF OpenTruncated, Open
  <2> QED
    BY <2>1, <2>2
<1>4. mode' # "timeline"
  BY DEF OpenWhole, OpenTruncated, Open
<1> QED
  BY <1>1, <1>2, <1>3, <1>4 DEF Stepped, Rising, UpTo

\* What leaves the session's replay alone leaves its steps alone.
LEMMA SteppedStill ==
  ASSUME CursorInv, Stepped, UNCHANGED <<Events(count), emitted, steps>>,
         mode' # "none" => mode' = mode /\ column' = column /\ UNCHANGED view
  PROVE  Stepped'
<1>1. R!Replayed' = R!Replayed /\ R!Left' = R!Left /\ steps' = steps
  BY DEF R!Replayed, R!Left
<1>2. mode' \in {"walk", "merge"} => \A i \in Instruments : UpTo(i, cutoff, count[i])'
  BY DEF Stepped, UpTo, view
<1>3. mode' # "none" => TimesOf(Lengths)' = TimesOf(Lengths)
  BY DEF TimesOf, Events, EventAt, Lengths
<1> QED
  BY <1>1, <1>2, <1>3 DEF Stepped, Rising

LEMMA SteppedNext ==
  ASSUME CursorInv, Stepped, [Next]_vars
  PROVE  Stepped'
<1>1. ASSUME NEW i \in Instruments, NEW t \in Times, AppendRow(i, t)
      PROVE  Stepped'
  <2>1. Events(count)' = Events(count)
    BY <1>1, AppendKeepsRows
  <2>2. mode' = "none" /\ emitted' = emitted /\ steps' = steps
    BY <1>1 DEF AppendRow
  <2> QED
    BY <2>1, <2>2, SteppedStill
<1>2. CASE BuildEventOrder
  <2>1. column' = column /\ count' = count /\ emitted' = emitted /\ steps' = steps /\ mode' = "none"
    BY <1>2 DEF BuildEventOrder, view
  <2>2. Events(count)' = Events(count)
    BY <2>1 DEF Events, EventAt
  <2> QED
    BY <2>1, <2>2, SteppedStill
<1>3. CASE OpenWhole \/ OpenTruncated
  BY <1>3, SteppedOpen
<1>4. CASE WalkNext
  BY <1>4, WalkStep, SteppedYield DEF WalkNext
<1>5. CASE MergeNext
  BY <1>5, MergeStep, SteppedYield DEF MergeNext
<1>6. CASE Exhausted
  <2>1. mode' = "none" /\ steps' = steps
    BY <1>6 DEF Exhausted
  <2> QED
    BY <1>6, <2>1, ExhaustedStep, SteppedStill
<1>7. CASE TakeTimeline
  <2>1. steps' = timeline /\ timeline # <<>> /\ column' = column /\ mode' = "timeline"
    BY <1>7 DEF TakeTimeline, data
  <2>2. timeline \in Seq(Times) /\ Rising(timeline) /\ {timeline[k] : k \in DOMAIN timeline} = TimesOf(Lengths)
    BY <2>1 DEF CursorInv, Shape, CacheIsCurrent
  <2>3. TimesOf(Lengths)' = TimesOf(Lengths)
    BY <2>1 DEF TimesOf, Events, EventAt, Lengths
  <2> QED
    BY <2>1, <2>2, <2>3 DEF Stepped, Rising
<1>8. CASE UNCHANGED vars
  <2>1. mode' = mode /\ column' = column /\ UNCHANGED view /\ steps' = steps
    BY <1>8 DEF vars, view
  <2> QED
    BY <1>8, <2>1, StutterStep, SteppedStill
<1> QED
  BY <1>1, <1>2, <1>3, <1>4, <1>5, <1>6, <1>7, <1>8 DEF Next

\* What is at or before the cutoff is what a cursor on it has to yield.
LEMMA SteppedIsEnough ==
  ASSUME CursorInv, Stepped
  PROVE  StepsAreTheTimes
<1> SUFFICES ASSUME mode \in {"walk", "merge"}, R!Left = {}
             PROVE  {e.ts : e \in R!Replayed} = {t \in TimesOf(Lengths) : t <= cutoff}
  BY DEF StepsAreTheTimes, Stepped
<1>1. R!Replayed = Events(count)
  BY DEF R!Left, CursorInv, Placed
<1>2. ASSUME NEW i \in Instruments
      PROVE  /\ Lengths[i] = Len(column[i]) /\ count[i] \in Nat /\ count[i] <= Len(column[i])
             /\ \A row \in 1 .. Len(column[i]) : row <= count[i] <=> column[i][row] <= cutoff
  BY <1>2 DEF CursorInv, Shape, Lengths, Stepped, UpTo
<1>3. ASSUME NEW e \in Events(count)
      PROVE  e.ts \in {t \in TimesOf(Lengths) : t <= cutoff}
  <2>1. PICK i \in Instruments : \E row \in 1 .. count[i] : e = EventAt(i, row)
    BY <1>3, EventsAre
  <2>2. PICK row \in 1 .. count[i] : e = EventAt(i, row)
    BY <2>1
  <2>3. row \in 1 .. Lengths[i] /\ e.ts = column[i][row] /\ column[i][row] <= cutoff
    BY <1>2, <2>2, EventFields
  <2>4. e \in Events(Lengths)
    BY <2>2, <2>3, EventsAre
  <2> QED
    BY <2>3, <2>4 DEF TimesOf
<1>4. ASSUME NEW e \in Events(Lengths), e.ts <= cutoff
      PROVE  e \in Events(count)
  <2>1. PICK i \in Instruments : \E row \in 1 .. Lengths[i] : e = EventAt(i, row)
    BY <1>4, EventsAre
  <2>2. PICK row \in 1 .. Lengths[i] : e = EventAt(i, row)
    BY <2>1
  <2>3. row \in 1 .. count[i]
    BY <1>2, <1>4, <2>2, EventFields
  <2> QED
    BY <2>2, <2>3, EventsAre
<1> QED
  BY <1>1, <1>3, <1>4 DEF TimesOf

\* The instants of a replay, taken from the timeline or derived from a cursor, are the
\* distinct times at which something printed, in ascending order, and a session cut
\* off shows those of the whole session up to its cutoff (event_loop.cpp, backtest.cpp,
\* TruncatedSession).
THEOREM StepsAreExact == Spec => []StepsAreTheTimes
<1>1. Init => Stepped
  <2>1. ASSUME Init
        PROVE  Stepped
    <3>1. R!Replayed = {}
      BY <2>1 DEF Init, R!Replayed
    <3> QED
      BY <2>1, <3>1 DEF Init, Stepped, Rising
  <2> QED
    BY <2>1
<1>2. CursorInv /\ Stepped => StepsAreTheTimes
  BY SteppedIsEnough
<1> QED
  BY <1>1, <1>2, InvInit, InvNext, SteppedNext, PTL DEF Spec
=============================================================================
