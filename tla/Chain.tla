-------------------------------- MODULE Chain --------------------------------
(***************************************************************************)
(* The option chain of one expiry as a strategy sees it: ChainView over    *)
(* the strikes that have printed, and the forward of Ctx, recovered from   *)
(* those quotes by put-call parity and kept for the instant it was asked.  *)
(*                                                                         *)
(* The registry knows every strike of every session; a session holds the   *)
(* columns of those that print in it.  A session is loaded strike by       *)
(* strike, then its clock runs; a view the strategy made may outlive it.   *)
(* The times of a session are counted from its own start.                  *)
(*                                                                         *)
(* Interest rates are zero, so that the discount factor is one, and what   *)
(* the Greeks solve to is a table; the rest of a forward is as in the code. *)
(***************************************************************************)
EXTENDS Bars

CONSTANTS
  NumStrikes,      \* the strikes of the expiry are 1 .. NumStrikes
  StrikeGap,       \* and their prices this far apart
  OptionColumns,   \* what call and put may print, for each session and strike
  SpotColumns,     \* what the underlying may print, if it has a feed
  Delta,           \* |delta| that a strike's option solves to, or Unsolved
  Unsolved,
  Targets,         \* the |delta| a strategy may ask for
  Reach,           \* steps after which the anchor search gives up
  SessionEnd,      \* bound: a session prints at 1 .. SessionEnd
  NumSessions,     \* bound: sessions
  Expires          \* the instant of the expiry, in sessions and times

Strikes == 1 .. NumStrikes
Rights  == {"Call", "Put"}

ASSUME ChainAssumption ==
  /\ {NumStrikes, StrikeGap, Reach, SessionEnd, NumSessions} \subseteq Nat
  /\ NumSessions > 0 /\ Expires \in Nat /\ Targets \subseteq Nat
  /\ Delta \in [Strikes -> [Rights -> Nat \cup {Unsolved}]]
  /\ \A s \in 1 .. NumSessions : \A k \in Strikes : \A pair \in OptionColumns[s][k] :
       \A r \in Rights : Ordered(pair[r])
  /\ \A prints \in SpotColumns : Ordered(prints)

VARIABLES
  listed,     \* strikes of the bound session loaded so far
  options,    \* their columns
  spot,       \* the underlying's column
  session,    \* number of the session
  clock,      \* its clock
  kept,       \* the strikes of the ChainView the strategy keeps
  cache       \* the last entry of forward_cache_: older ones cannot be hit again

cvars == <<listed, options, spot, session, clock, kept, cache>>

Today == [options |-> options, spot |-> spot]

\* TruncatedSession, of every column.
CutOff(day, t) ==
  [options |-> [k \in DOMAIN day.options |->
                  [r \in Rights |-> Truncated(day.options[k][r], t)]],
   spot |-> Truncated(day.spot, t)]

Instant(t) == session * (SessionEnd + 1) + t

-----------------------------------------------------------------------------
(* What has printed.                                                        *)

PrintedBy_Bug(day, k, right, t) == k \in DOMAIN day.options /\ day.options[k][right] # <<>>

PrintedBy(day, k, right, t) ==
  /\ k \in DOMAIN day.options
  /\ day.options[k][right] # <<>> /\ day.options[k][right][1].ts <= t

\* In ascending order.
Ladder(ks) == [n \in 1 .. Cardinality(ks) |-> CHOOSE k \in ks : Cardinality({j \in ks : j <= k}) = n]

\* ChainView's strikes.
StrikesSeen(day, t) == Ladder({k \in Strikes : \E r \in Rights : PrintedBy(day, k, r, t)})

Quoted(day, k, right, t) ==
  IF k \in DOMAIN day.options THEN QuoteAt(day.options[k][right], t, 0) ELSE Nothing

TwoSidedAt(day, k, right, t) ==
  LET q == Quoted(day, k, right, t) IN q # Nothing /\ TwoSided(q)

Mid(q) == (q.bid + q.ask) \div 2

-----------------------------------------------------------------------------
(* The forward.                                                             *)

\* Call minus put at each strike of the view, Nothing where either is not two-sided.
Parity(day, strikes, t) ==
  [i \in DOMAIN strikes |->
     IF \A r \in Rights : TwoSidedAt(day, strikes[i], r, t)
     THEN [diff |-> Mid(Quoted(day, strikes[i], "Call", t)) - Mid(Quoted(day, strikes[i], "Put", t))]
     ELSE Nothing]

Distance(i, j) == IF i < j THEN j - i ELSE i - j

\* usable_near the middle: outward, upper side first, as far as Reach lets it.
Anchors(par) ==
  LET middle == Len(par) \div 2 + 1
      near   == {i \in DOMAIN par : par[i] # Nothing /\ Distance(i, middle) <= Reach + 1}
  IN  {i \in near : \A j \in near :
         Distance(i, middle) < Distance(j, middle)
           \/ (Distance(i, middle) = Distance(j, middle) /\ i >= j)}

Size(x) == IF x < 0 THEN -x ELSE x

Nearer(par, i, j) == IF Size(par[i].diff) < Size(par[j].diff) THEN i ELSE j

\* Bracket the crossing: strides double, from the best strike so far.
Widen(par, st) ==
  LET up    == par[st.best].diff > 0
      probe == IF up THEN st.best + st.stride ELSE st.best - st.stride
  IN  IF st.over \/ st.stride >= Len(par) \/ probe \notin DOMAIN par THEN [st EXCEPT !.over = TRUE]
      ELSE IF par[probe] = Nothing THEN [st EXCEPT !.over = TRUE]
      ELSE [best   |-> Nearer(par, probe, st.best),
            lo     |-> IF up THEN st.best ELSE probe,
            hi     |-> IF up THEN probe ELSE st.best,
            stride |-> 2 * st.stride,
            over   |-> IF up THEN par[probe].diff <= 0 ELSE par[probe].diff >= 0]

Bisect_Bug(par, st) ==
  LET mid == st.lo + (st.hi - st.lo) \div 2
  IN  IF st.over \/ st.hi <= st.lo + 1 THEN st
      ELSE IF par[mid] = Nothing THEN [st EXCEPT !.over = TRUE]
      ELSE [st EXCEPT !.lo = IF par[mid].diff > 0 THEN mid ELSE @,
                      !.hi = IF par[mid].diff > 0 THEN @ ELSE mid]

Bisect(par, st) ==
  LET mid == st.lo + (st.hi - st.lo) \div 2
  IN  IF st.over \/ st.hi <= st.lo + 1 THEN st
      ELSE IF par[mid] = Nothing THEN [st EXCEPT !.over = TRUE]
      ELSE [st EXCEPT !.best = Nearer(par, mid, st.best),
                      !.lo = IF par[mid].diff > 0 THEN mid ELSE @,
                      !.hi = IF par[mid].diff > 0 THEN @ ELSE mid]

\* The index of the strike the forward is taken at, given an anchor; either loop
\* makes fewer turns than there are strikes.
Search(par, anchor) ==
  LET start == [best |-> anchor, lo |-> anchor, hi |-> anchor, stride |-> 1, over |-> FALSE]
      widened[n \in 0 .. Len(par)] == IF n = 0 THEN start ELSE Widen(par, widened[n - 1])
      halved[n \in 0 .. Len(par)] ==
        IF n = 0 THEN [widened[Len(par)] EXCEPT !.over = FALSE] ELSE Bisect(par, halved[n - 1])
  IN  halved[Len(par)].best

ForwardFrom(strikes, par) ==
  LET anchors == Anchors(par)
      i       == Search(par, CHOOSE a \in anchors : TRUE)
      value   == strikes[i] * StrikeGap + par[i].diff
  IN  IF anchors # {} /\ value > 0 THEN [value |-> value] ELSE Nothing

\* Ctx::forward, computed.
ForwardOf(day, t) ==
  LET strikes == StrikesSeen(day, t)
  IN  IF Instant(t) >= Expires THEN Nothing ELSE ForwardFrom(strikes, Parity(day, strikes, t))

CacheHit == cache # Nothing /\ cache.at = Instant(clock)

\* What Ctx::forward answers now.
Forward ==
  IF Instant(clock) >= Expires THEN Nothing
  ELSE IF CacheHit THEN [value |-> cache.value] ELSE ForwardOf(Today, clock)

-----------------------------------------------------------------------------
(* Selection: a kept's strikes, over a day's quotes and a forward.          *)

Reference(day, t, fwd) ==
  LET q == QuoteAt(day.spot, t, 0)
  IN  IF q # Nothing THEN [value |-> q.last] ELSE fwd

\* The index in the view of the strike closest to the money, the lower of two, as
\* a set: empty if there is no strike or no money to speak of.
Atm(day, t, strikes, fwd) ==
  LET ref    == Reference(day, t, fwd)
      Gap(i) == Size(strikes[i] * StrikeGap - ref.value)
  IN  IF ref = Nothing THEN {}
      ELSE {i \in DOMAIN strikes : \A j \in DOMAIN strikes :
              Gap(i) < Gap(j) \/ (Gap(i) = Gap(j) /\ i <= j)}

\* The strike so many places from the money, if the ladder has it.
StrikeAt(strikes, atm, offset) == {strikes[i + offset] : i \in {a \in atm : a + offset \in DOMAIN strikes}}

Option(day, t, ks, right) == {[strike |-> k, right |-> right] : k \in {x \in ks : PrintedBy(day, x, right, t)}}

\* Both legs or none.
Both(calls, puts) == IF calls = {} \/ puts = {} THEN {} ELSE calls \cup puts

Straddle(day, t, strikes, atm, offset) ==
  LET k == StrikeAt(strikes, atm, offset)
  IN  Both(Option(day, t, k, "Call"), Option(day, t, k, "Put"))

Strangle(day, t, strikes, atm, width) ==
  Both(Option(day, t, StrikeAt(strikes, atm, width), "Call"),
       Option(day, t, StrikeAt(strikes, atm, -width), "Put"))

\* Ctx::greeks answers for a two-sided option when there is a forward and its
\* volatility can be solved.
Solved(day, t, k, right, fwd) ==
  TwoSidedAt(day, k, right, t) /\ fwd # Nothing /\ Delta[k][right] # Unsolved

\* The first strike of the view whose |delta| is closest.
ByDelta(day, t, strikes, fwd, target, right) ==
  LET solved == {i \in DOMAIN strikes : PrintedBy(day, strikes[i], right, t)
                                          /\ Solved(day, t, strikes[i], right, fwd)}
      Gap(i) == Size(Delta[strikes[i]][right] - target)
      best   == {i \in solved : \A j \in solved : Gap(i) < Gap(j) \/ (Gap(i) = Gap(j) /\ i <= j)}
  IN  {[strike |-> strikes[i], right |-> right] : i \in best}

StrangleByDelta(day, t, strikes, fwd, target) ==
  Both(ByDelta(day, t, strikes, fwd, target, "Call"), ByDelta(day, t, strikes, fwd, target, "Put"))

\* Everything a view answers.
Selections(day, t, strikes, fwd) ==
  LET atm == Atm(day, t, strikes, fwd)
  IN  [straddles |-> [n \in -1 .. 1 |-> Straddle(day, t, strikes, atm, n)],
       strangles |-> [n \in 1 .. 2 |-> Strangle(day, t, strikes, atm, n)],
       deltas    |-> [d \in Targets |-> StrangleByDelta(day, t, strikes, fwd, d)]]

-----------------------------------------------------------------------------

ChainInit ==
  /\ listed = 0 /\ options = <<>> /\ spot = <<>>
  /\ session = 1 /\ clock = 0
  /\ kept = <<>> /\ cache = Nothing

\* The session is put together before its clock runs.
List ==
  /\ listed < NumStrikes
  /\ \E c \in OptionColumns[session][listed + 1] : options' = Append(options, c)
  /\ listed' = listed + 1
  /\ IF listed = 0 THEN spot' \in SpotColumns ELSE UNCHANGED spot
  /\ UNCHANGED <<session, clock, kept, cache>>

Tick ==
  /\ listed = NumStrikes /\ clock < SessionEnd
  /\ clock' = clock + 1
  /\ UNCHANGED <<listed, options, spot, session, kept, cache>>

\* Ctx::chain(expiry).
MakeView ==
  /\ clock > 0
  /\ kept' = StrikesSeen(Today, clock)
  /\ UNCHANGED <<listed, options, spot, session, clock, cache>>

\* Any question whose answer needs the forward: it is kept if there is one.
AskForward ==
  /\ clock > 0 /\ ~CacheHit /\ Forward # Nothing
  /\ cache' = [at |-> Instant(clock), value |-> Forward.value]
  /\ UNCHANGED <<listed, options, spot, session, clock, kept>>

\* Ctx::bind_session.
BindSession ==
  /\ clock > 0 /\ session < NumSessions
  /\ session' = session + 1 /\ clock' = 0
  /\ listed' = 0 /\ options' = <<>> /\ spot' = <<>>
  /\ cache' = Nothing
  /\ UNCHANGED kept

ChainNext == List \/ Tick \/ MakeView \/ AskForward \/ BindSession

ChainSpec == ChainInit /\ [][ChainNext]_cvars

-----------------------------------------------------------------------------
(* Properties.                                                              *)

\* What is asked of the chain now is answered as it would be if the session ended
\* now or at any later time: which strikes there are, the forward, kept from an
\* earlier question or not, and every leg chosen by offset or by delta, from a
\* view of now or one the strategy made before, in an earlier session included.
ChainIsCausal ==
  clock > 0 =>
    \A cutoff \in clock .. SessionEnd :
      LET cut == CutOff(Today, cutoff)
      IN  /\ StrikesSeen(Today, clock) = StrikesSeen(cut, clock)
          /\ Forward = ForwardOf(cut, clock)
          /\ \A strikes \in {kept, StrikesSeen(Today, clock)} :
               Selections(Today, clock, strikes, Forward) = Selections(cut, clock, strikes, Forward)

\* Call minus put falls as the strike rises.  On a ladder of two-sided strikes the
\* search then stops at the strike closest to the crossing; when a stride falls
\* off the ladder it stops short of it, at least half way from where it began to
\* the end the crossing lies towards.
ForwardIsAtTheMoney ==
  clock > 0 =>
    LET par     == Parity(Today, StrikesSeen(Today, clock), clock)
        falling == /\ \A i \in DOMAIN par : par[i] # Nothing
                   /\ \A i, j \in DOMAIN par : i < j => par[i].diff > par[j].diff
    IN  par # <<>> /\ falling =>
          LET anchor == CHOOSE a \in Anchors(par) : TRUE
              best   == Search(par, anchor)
          IN  \A i \in DOMAIN par : Size(par[i].diff) < Size(par[best].diff) =>
                LET end == IF i > best THEN Len(par) ELSE 1
                IN  /\ par[best].diff > 0 <=> i > best
                    /\ 2 * Distance(best, anchor) >= Distance(end, anchor)
=============================================================================
