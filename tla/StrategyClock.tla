---------------------------- MODULE StrategyClock -----------------------------
(***************************************************************************)
(* What time a strategy lives in: run_backtest's (and, with one date and   *)
(* no calendar, run_session's) stepping over the observations of each      *)
(* date, the condition Ctx::at gives a strategy written as a daily loop,   *)
(* and the bar series Ctx::bars gives it, which a strategy may keep.       *)
(*                                                                         *)
(* A timestamp is a date times DayLength plus a time of day; the offset    *)
(* from UTC, the same in every conversion, is left out.  What a session    *)
(* holds besides the times of its observations is left out too.            *)
(***************************************************************************)
EXTENDS Integers, Sequences, FiniteSets

CONSTANTS
  Dates,           \* the run's dates in order, each a number of days
  DayLength,       \* time units in a day
  SessionOpen,     \* time of day bars are anchored at
  SettleTime,      \* time of day the bell rings
  PrintTimes,      \* times of day there may be observations at
  Plan,            \* the times of day the strategy waits for, over and over
  MaxResumes       \* resumptions in a step that count as spinning

TimesOfDay == 0 .. DayLength - 1
Timestamp(date, time) == date * DayLength + time

\* The clock of a run starts at 0, before every date.
ASSUME ClockAssumption ==
  /\ DayLength \in Nat \ {0} /\ MaxResumes \in Nat \ {0}
  /\ Dates \in Seq(Nat \ {0}) /\ Dates # <<>>
  /\ \A i \in 1 .. Len(Dates) - 1 : Dates[i] < Dates[i + 1]
  /\ SessionOpen \in TimesOfDay /\ SettleTime \in TimesOfDay
  /\ PrintTimes \subseteq TimesOfDay
  /\ Plan \in Seq(TimesOfDay) /\ Plan # <<>>

Never == -1       \* a condition that can never hold
NoSeries == -1

AllDates == {Dates[i] : i \in DOMAIN Dates}

VARIABLES
  loads,      \* the dates there is data for
  prints,     \* prints[d]: the times of day of d's observations
  calendar,   \* the dates set_calendar was given: none in a run of a single session
  at,         \* index in Dates of the date being replayed, 0 before the first
  phase,      \* "step", "resume", "between", "over" or "failed"
  date,       \* the context's date
  now,        \* the clock
  waits,      \* timestamp the pending condition waits for, or Never
  next,       \* index in Plan of the time being waited for
  resumes,    \* resumptions in the current step
  series,     \* date of the bar series the strategy holds, or NoSeries
  met,        \* history: the time of day each time of Plan was met at, this session
  answer      \* history: [of, on, at]: the day of the last bars answered, and day and time they were asked for

feed == <<loads, prints, calendar>>
timeVars == <<loads, prints, calendar, at, phase, date, now, waits, next, resumes, series, met, answer>>

-----------------------------------------------------------------------------
(* Ctx.                                                                     *)

LaterDates_Bug(d) == {e \in calendar : e >= d}

\* Dates of the calendar, loaded or not.
LaterDates(d) == {e \in calendar : e > d}

\* Ctx::at: the timestamp its condition waits for, asked at time t on date d.
Resolve(time, d, t) ==
  IF t < Timestamp(d, time) THEN Timestamp(d, time)
  ELSE IF calendar = {} THEN Timestamp(d, time)
  ELSE IF LaterDates(d) = {} THEN Never
  ELSE Timestamp(CHOOSE e \in LaterDates(d) : \A f \in LaterDates(d) : e <= f, time)

Holds(target, t) == target # Never /\ t >= target

ValidUntil_Bug(d) == Timestamp(d, SessionOpen) + 2 * DayLength

\* Ctx::bars bounds a series by its anchor and a day.
ValidUntil(d) == Timestamp(d, SessionOpen) + DayLength

\* BarSeries::known_count answers rather than throwing.
Answers(d, t) == t <= ValidUntil(d)

-----------------------------------------------------------------------------
(* The loops.                                                               *)

Observed(d) == {Timestamp(d, time) : time \in prints[d]}

NextPrint_Bug == CHOOSE t \in Observed(date) : \A u \in Observed(date) : u <= t

\* The observation the loop steps to, among those left of the session.
NextPrint == CHOOSE t \in Observed(date) : t > now /\ \A u \in Observed(date) : u > now => t <= u

SessionLeft == \E t \in Observed(date) : t > now

\* run_backtest over all dates, any but the first of which may have no data, or
\* run_session over the first.
ClockInit ==
  /\ \/ calendar = AllDates /\ loads \in {d \in SUBSET AllDates : Dates[1] \in d}
     \/ calendar = {} /\ loads = {Dates[1]}
  /\ prints \in [loads -> SUBSET PrintTimes]
  /\ at = 0 /\ phase = "between"
  /\ date = Dates[1] /\ now = 0
  /\ next = 1
  /\ waits = Resolve(Plan[1], Dates[1], 0)
  /\ resumes = 0
  /\ series = NoSeries
  /\ met = <<>>
  /\ answer = [of |-> NoSeries, on |-> NoSeries, at |-> 0]

\* What load returned for a date is not null.
Loaded(d) == d \in loads

\* The last date to replay: run_session is given one.
LastDate == IF calendar = {} THEN 1 ELSE Len(Dates)

\* The next date: taken as the session, or passed over when there is no data.
LoadDate ==
  /\ phase = "between" /\ at < LastDate
  /\ at' = at + 1
  /\ IF Loaded(Dates[at'])
     THEN /\ date' = Dates[at']
          /\ phase' = "step"
          /\ met' = <<>>
     ELSE UNCHANGED <<date, phase, met>>
  /\ UNCHANGED <<feed, now, waits, next, resumes, series, answer>>

Finish ==
  /\ phase = "between" /\ at = LastDate
  /\ phase' = "over"
  /\ UNCHANGED <<feed, at, date, now, waits, next, resumes, series, met, answer>>

\* The clock moves to the next observation and the pending condition is due.
StepOn ==
  /\ phase = "step" /\ SessionLeft
  /\ now' = NextPrint
  /\ phase' = "resume"
  /\ resumes' = 0
  /\ UNCHANGED <<feed, at, date, waits, next, series, met, answer>>

\* Whoever asks the bars of series `of' at the current time gets an answer, or
\* an exception that ends the run; the run goes on in phase `to' otherwise.
Asking(of, to) ==
  \E asks \in BOOLEAN :
    LET asked == asks /\ of # NoSeries
    IN  /\ answer' = IF asked /\ Answers(of, now) THEN [of |-> of, on |-> date, at |-> now] ELSE answer
        /\ phase' = IF asked /\ ~Answers(of, now) THEN "failed" ELSE to

\* The condition holds: the strategy runs on to its next wait, and may take a
\* new series and ask the one it has on the way.
Resume ==
  /\ phase = "resume" /\ Holds(waits, now)
  /\ met' = Append(met, [time |-> Plan[next], on |-> waits \div DayLength, at |-> now])
  /\ next' = (next % Len(Plan)) + 1
  /\ waits' = Resolve(Plan[next'], date, now)
  /\ resumes' = resumes + 1
  /\ series' \in {series, date}
  /\ Asking(series', IF resumes' > MaxResumes THEN "failed" ELSE "resume")
  /\ UNCHANGED <<feed, at, date, now>>

\* It does not hold; evaluated with it, an indicator's level may ask the series.
Wait ==
  /\ phase = "resume" /\ ~Holds(waits, now)
  /\ Asking(series, "step")
  /\ UNCHANGED <<feed, at, date, now, waits, next, resumes, series, met>>

\* The bell: the clock of a backtest moves to the settlement time, never back.
RingBell ==
  /\ phase = "step" /\ ~SessionLeft
  /\ now' = IF calendar # {} /\ Timestamp(date, SettleTime) > now THEN Timestamp(date, SettleTime) ELSE now
  /\ phase' = "between"
  /\ UNCHANGED <<feed, at, date, waits, next, resumes, series, met, answer>>

ClockNext == LoadDate \/ Finish \/ StepOn \/ Resume \/ Wait \/ RingBell

ClockSpec == ClockInit /\ [][ClockNext]_timeVars

-----------------------------------------------------------------------------
(* Properties.                                                              *)

\* Between any two times of the plan there is an observation, in every session.
Dense ==
  \A d \in loads : \A i \in DOMAIN Plan : \E time \in prints[d] :
    time >= Plan[i] /\ (i < Len(Plan) => time < Plan[i + 1])

\* With data on every date and observations enough, a daily loop repeats: in
\* every session each of its times is met once, in order, on its own day and no
\* earlier.
DailyLoopRepeats ==
  Dense /\ loads = calendar =>
  /\ Len(met) <= Len(Plan)
  /\ \A i \in DOMAIN met : met[i].time = Plan[i] /\ met[i].on = date /\ met[i].at >= Timestamp(date, Plan[i])
  /\ phase = "between" /\ at > 0 => Len(met) = Len(Plan)

\* A kept bar series answers until the open of the calendar day after its own, that
\* instant included, and never later: no strategy is shown bars of two sessions ago,
\* or of the last one once the day has opened.  And it is never refused on its day.
SeriesOutlivesNoOpen ==
  /\ answer.of # answer.on =>
       answer.on = answer.of + 1 /\ answer.at <= Timestamp(answer.on, SessionOpen)
  /\ phase = "failed" /\ resumes <= MaxResumes => series # date

\* Whatever dates are missing and however rarely anything prints, a time waited
\* for in a backtest is met at the first observation of the run at or after it,
\* and that observation resumes the strategy once: what it waits for next is
\* still to come.
MetAtFirstObservation ==
  calendar # {} =>
    /\ resumes <= 1
    /\ \A i \in DOMAIN met :
         LET target == Timestamp(met[i].on, met[i].time)
         IN  /\ met[i].at >= target
             /\ \A d \in loads : \A u \in Observed(d) : u >= target => u >= met[i].at

\* docs/sessions-and-expiry.md: a time of day that has passed "resolves onto the
\* next trading session": on no day is the strategy resumed before that time,
\* if every session that has data has enough of it.
OnTime == Dense => \A i \in DOMAIN met : met[i].at >= Timestamp(date, met[i].time)

\* docs/sessions-and-expiry.md: "Querying one from a later day throws rather than
\* answering": the bars a strategy gets are of the day it asks for them.
BarsOfTheDay == answer.of = answer.on
=============================================================================
