# volforge: specifications

volforge is a backtester for index-option strategies. A strategy is a C++20
coroutine: it awaits a condition on the market or on its positions, is resumed
when the condition is true, trades, and awaits again. The engine replays recorded
one-second quotes of some 900 instruments and decides when orders fill, what a
held leg is worth, when a stop fires and how an option expires. All of this runs
in one thread: what is hard is not a data race but the order in which several
actors (strategy, fill pass, risk rules, settlement, end of day) get at the same
legs over many observations and several days, with data that may be missing.

The modules here model the code under `src/cpp`. Line numbers in comments of
`PROJECT.json` are those of that source.

## 1. The system

### Components

| Component | Source | State | Operations | Correct when |
|---|---|---|---|---|
| Portfolio | `cpp/core/src/portfolio.cpp` | positions with their legs, pending orders, risk rules, trade log, realised P&L, costs, cancelled count | `submit_open`, `submit_close`, `submit_close_leg`, `process_pending`, `refresh_marks`, `settle_expiry`, `cancel_working_orders`, `attach_*`, `process_risk_rules` | one order per waiting leg; nothing opens after a close; no fill before its delay; a spent rule guards nothing; log, money and counts agree with the legs |
| Backtest loop | `core/src/backtest.cpp` | the date, the bound session, the clock, the strategy's task, the portfolio, summaries | `run_backtest`: load, step, fill, mark, rules, resume, bell, settle, cancel | nothing works overnight, nothing is held past an expiry that can settle, the clock never goes back, held legs are always valued and protected, every run ends |
| Session loop | `core/src/event_loop.cpp` | the same for one session | `run_session` | orders are decided after the fill pass, what is awaited is met at once, the session ends |
| Strategy context | `core/src/strategy.cpp`, `strategy.hpp` | the bound session, view and date, the calendar, series caches | `sell`/`buy`, `at`, `at_on`, `chain`, `forward`, `bars`, position handles | a time of day resolves to a session that comes; chain, forward and selections show nothing that has not printed |
| Conditions | `core/src/condition.cpp` | none (predicates) | `eval`, `&&`, `\|\|`, `!` | pure in market, portfolio and clock |
| Clock, cursor, view | `core/src/data_source.cpp` | time; a heap of runs or a walk of an index | `advance_to`, `next`, `quote(back)` | time never goes back; total order on (time, instrument, row); no observation later than now |
| Memory source | `core/src/memory_source.cpp` | columns per instrument, cached order, timeline | `append`, `build_event_order` | the cached order is the merge of what the columns hold |
| Quotes, bars, indicators | `quotes.cpp`, `bars.cpp`, `indicators.cpp` | columns; derived bars | `index_at_or_before`, `completed`, `forming` | a bar is seen only once it is complete, or as what has printed of it |
| Look-ahead check | `core/src/lookahead.cpp` | the whole run's trades, cutoffs, a verdict | `check_lookahead`: run, sample, run cut off, compare | a causal strategy is clean, one that traded on the future is reported |
| Margin, costs, greeks | `margin.cpp`, `costs.cpp`, `greeks.cpp` | none | scenario margin, charges, implied volatility | numeric |
| Registry, types | `instrument.cpp`, `types.cpp` | contracts by identity | `add`, lookups, dates | one id per identity, the same for ever |
| Column codec | `store/src/codec.cpp` | none | `encode_column`, `decode_column` | a round trip for every column |
| VFDAY store | `store/src/vfday.cpp` | a day file; an opened session with a lazy cache | `write_vfday`, `open`, `materialise`, `VfdaySource::load` | an accepted file gives back what was written, into any registry; a damaged one is refused and reported |
| GFDL ingest | `adapters/src/gfdl_csv.cpp` | the session under construction | row filter, day and archive readers | one date, in time order, every row kept or counted, damage to a file its own |
| Conversion | `examples/convert.cpp` | the output directory | convert, skip, remove | no half-written day is taken for a whole one |

Not parts of the core: the Python bindings (but for the bridge that drives a Python
coroutine) and statistics, sample strategies, tools and benchmarks, the synthetic
market, vendored miniz.

### How they interact

`run_backtest` owns everything. It loads a session from a `DataSource`, binds it
to the context, and steps the clock over the day's distinct timestamps. At every
timestamp it calls, in this order, `process_pending`, `refresh_marks`,
`process_risk_rules`, then resumes the strategy while the awaited condition holds
(at most `max_resumes_per_step` times). A resumed strategy calls back into the
portfolio through its context: it may open positions, attach rules, close all or a
leg. After the data of the day the clock moves to the settlement time, every due
expiry is settled against the spot or a parity forward, and working orders are
cancelled. Portfolio, rules, clock and the suspended coroutine live across nights.

`run_session` is the same loop for one day, over a portfolio of its own, without
marks, settlement or a bell. `check_lookahead` runs it over a session and over the
session cut off at some times. Sessions come from `load_gfdl_day` and
`load_gfdl_zip`, which build a `MemorySessionData` row by row, or from a directory
of day files: `convert` writes them with `write_vfday`, `VfdaySource` scans them.

### What is hard

- Five actors change one leg's state; exits asked twice, exits outlived by a
  settlement, openings that fill after a close, exits abandoned overnight.
- Rules that fired on an exit that never happened have to be armed again.
- Observations are instants at which *some* instrument printed. Others show old
  quotes, one-sided books or, on a new morning, nothing at all.
- Dates that do not load, expiries that fall on them, strategies that return early
  or never stop being ready.
- A registry that knows tomorrow's contracts, bars built from the whole day, caches
  keyed by the instant: everything a strategy reads has to be as of now.
- Two programs and two registries: a contract's id in one says nothing in the other.

`PROJECT.json` lists each hazard with its line and the properties that watch it.

## 2. Plan

In place:

1. `Portfolio` — every method of the class under an arbitrary host. It is a
   component and also the abstract specification of what a portfolio's user may see.
2. `Backtest` — the session loop over `Portfolio`, shown to implement it.
3. `SessionLoop` — `run_session` over `Portfolio`, shown to implement it, with the
   conditions a strategy awaits; `RiskRulePass` — the loop of `process_risk_rules`
   against the loop-free statement of its outcome in `Portfolio`.
4. `PortfolioProofs`, `BacktestProofs`, `SessionProofs`, on the lemmas of `FiniteLemmas`.
5. `StrategyClock` — `Ctx::at` over a calendar with gaps, and bar series kept too long.
6. `Bars` — quotes by time, bars, crossings and a moving average, against truncation;
   `Chain` — chain, forward and selection over it, against truncation; `QuoteProofs`.
7. `Lookahead` — the check itself, for any strategy.
8. `Replay`, `EventCursor` — a session, what a cutoff shows of it and the cursor, shown
   to implement a replay in one total order. `ViewProofs` — clock, check and cursor.
9. `Codec` — the column codec at scaled widths, its loops as recursive functions.
10. `Registry`, `Ingest`, `DayFile` — contracts by identity, archives into sessions,
    sessions into day files and back into another registry; `ArchiveProofs`, on archives
    and files.
11. `DayStore` — conversion runs and a reader on one directory; `StoreProofs`, on the
    store and on the codec its columns go through.

Next, in order:

12. The session summaries of `run_backtest`, which have to add up to the result, and
    the two ways a deadline is turned into a timestamp (`strategy.cpp:388` uses the
    IST offset, `at` the session's).

## 3. The modules

### Portfolio

| TLA+ | C++ |
|---|---|
| `leg`, a function on position × leg index | `positions_[p].legs_[i]`; `"Absent"` is a slot not allocated |
| `pending`, a set | `pending_`; fills do not depend on each other, so the vector's order only orders the log |
| `rules`, a sequence | `rules_`; their order matters |
| `trades`, a set | `trades_` |
| `realized`, `costs`, `cancelled` | `realized_`, `costs_`, `cancelled_` |
| `now`, `quotes` | the clock and `MarketView::quote(i)` |
| `left` | history only: positions asked to close |

Each public method is one action with all it does: `SubmitOpen`, `SubmitClose`,
`SubmitCloseLeg` (both through `Leave`), `ProcessPending` (with `CrossSpreadFill`:
both sides present and not crossed, at the touch), `RefreshMarks`, `SettleExpiry`,
`CancelWorkingOrders`, `AttachRule`, `ProcessRiskRules`. Prices are naturals,
quantities signed integers. A P&L percentage stays the pair of P&L and premium at
risk and thresholds compare by cross-multiplication, in place of a division of
doubles.

`Spec` lets any method be called at any time with any market. Whatever holds there
holds for every loop and every strategy.

### SessionLoop and RiskRulePass

`pc` is the place in `run_session`: `enter` (the factory is called), `step`, `fill`,
`rules`, `ask`, `body`, `done` or `failed`. `cond` is the condition the suspended
coroutine awaits, as a set of alternatives (`operator|`); the default condition and
one that never holds are both the empty set. `Holds` is `eval` of each kind: a time,
a P&L percentage at most or at least, a position closed. `Resume` is
`StrategyTask::resume`, which forgets the condition before the coroutine runs on.
`Awaits`, `Returns` and `Throws` are also the steps of a Python strategy, driven by
`drive_python`; `EnterFails` is `make_strategy`'s refusal of what is no coroutine.

A position all of whose legs were cancelled is neither open nor closed:
`LeftPositionsClose` says that this is the only such case, so a strategy that awaits
`closed()` after its own close waits in vain only if nothing ever opened.

`ProcessRiskRules` of `Portfolio` says which rules fire without a loop. `Visits` is the
loop: one rule after the other, early `continue`s in order, each visit reading the legs
(states, marks, the position's P&L) as the exits before it left them.
`RulePassIsTheLoop` compares legs, fired flags and withdrawn orders after every pass.

### Backtest

`pc` is the loop's place: `load`, `step`, `fill`, `mark`, `rules`, `ask` (the while
condition), `body` (inside the coroutine), `settle`, `cancel`, and `done` or
`failed`. The environment chooses which dates load (`Gap`), which instruments print
and what, whether the awaited condition holds (`Resume`, `NotYet`), what the strategy
does before it awaits again, returns or throws, and the parity forward. A timestamp
is `Tick(date, n)`; a step's tick may be past the settlement time `Bell`.

One assumption is made of the data (`Trading`): nothing prints for an instrument
after its expiry date. The last step of the strategy's body at date 0 is the first
`resume()`, before any data.

`EstablishedPositionsProtected` is about positions none of whose openings still
work: rules on a whole position, `exit_at` included, wait for that
(`portfolio.cpp:425`), so a half-filled position is protected only by rules on its
legs.

### StrategyClock

The loops' stepping alone, with a strategy that waits for the times of a plan, over
and over (`Ctx::at`), and may keep a bar series (`Ctx::bars`). `calendar` is what
`set_calendar` was given: all dates under `run_backtest`, none under `run_session`,
one behaviour each from `ClockInit`. `Resolve` is `Ctx::at` with its three outcomes: today,
the next date of the calendar, never. `StepOn`, `Resume`, `Wait`, `RingBell` and
`LoadDate` are the loop's parts; more than `MaxResumes` resumptions in a step fail the
run. Without a calendar a time that has passed resolves to itself, so a daily loop
spins until that limit in a single-session run: `MetAtFirstObservation` is about
runs with one. A kept series is refused after the next calendar day's open, not at it
(`ValidUntil`, `Answers`): `SeriesOutlivesNoOpen` says exactly how long it answers, and
`BarsOfTheDay` (Findings) is the documents' promise that it answers on its own day only.

### Bars

The state is one instrument's column. `AtOrBefore`, `QuoteAt`, `Truncated`, the bar
operators (`BucketOf` with its rounding before the anchor, `KnownCount`, `Forming`),
the crossing conditions and the moving average are operators of a column and a time.
Causality is stated as one idea throughout: asked at `t`, the whole day and the day
truncated at `t` give the same answer.

### Chain

The strikes of one expiry, each with a call's and a put's column, put together before
the session's clock runs; sessions follow one another (`BindSession`). `kept` is the
`ChainView` a strategy made, perhaps in an earlier session, and `cache` the last entry
of `forward_cache_`. `ForwardOf` is `Ctx::forward`: the parity of every strike
(`Parity`), the usable one nearest to the middle (`Anchors`, `Reach` in place of 12
steps), strides that double until the crossing is bracketed (`Widen`), bisection
(`Bisect`). `Selections` is all a view answers: straddles and strangles by offset and
strangles by delta. Rates are zero and the delta an option's quote solves to is a table
(`Delta`), `Unsolved` where no volatility reproduces it.

`ChainIsCausal` compares all of it with the session cut off now or later.
`ForwardIsAtTheMoney` says where the search stops on a ladder of two-sided strikes:
at the strike closest to the crossing, or, because a stride that falls off the ladder
ends the search, at least half way from where it began to the end of the ladder.

`chain()`, `expiries()` and `next_expiry()` choose an expiry from the registry, which
after a scan holds those of every day on disk: an expiry listed only later can be
chosen early. The modules take the expiry as given.

### Lookahead

`seen` is the session, one observation after the other, `informed` and `blind` what the
strategy decides at each: with the observation `Horizon` later in the session it runs
on, and without. That is every strategy whose decision at an observation depends on
the observations up to it, the same in every run, and on one that is too late. `TradeLog(n)`
is `run_session` over the first `n` observations, an order filling at the first later
one with a market. A strategy trades at most once an observation, so the log, in signal
order in the code, is a set. `Sample` takes the times around every fill and then any others until
there are `Cutoffs`, as the seeded draw does; `Compare` takes one cutoff.
`VerdictIsRight` has both halves of the promise, the second for trades decided by an
observation later than their own fill; `LeaksThatTradeAreSeen` (Findings) is the
promise without that restriction.

### Codec

`Encode` and `Decode` bit for bit: divisor and base, deltas with
wrap-around, zig-zag, block widths, bit packing, blocks stored as whole words and every
refusal of the decoder. Widths are scaled: a word of 6 bits, a byte of 3, a block of 2 values,
in place of 64, 8 and 128. What depends on the ratios (how wide a block may be packed
before whole words are stored, how many bytes a varint takes, wrap-around) happens at
these sizes too.

Shifts and masks are products, quotients and remainders of powers of two. A loop is a
recursive function of the number of its turns, and `Packed` and `Unpacked` take one turn
per byte or value that passes through the accumulator, so that what the accumulator loses
when a value does not fit is lost here too. The assumption `MaxLength < Word` is what the
code has for free: the size of a vector is a word.

### Registry, Ingest and DayFile

A registry is the sequence of specifications added to it, an id a position. Identity
(`KeyOf`) leaves out lot and tick size, so a contract keeps those it was first added
with, whatever lot size a later file states.

`Ingest` is the adapter. `NextFile` hands over the archive's next file, any that may be
there: unparsable, not asked for, unreadable, empty, or rows and damage in any order.
`Accept` is a row's way through `parse_csv_rows`: a line that is no row, the date, which
the first row decides when neither caller nor archive's name does, and the order of
time within the file. `ReadFile` adds the contract even when no row is kept. Two files of
one contract share an instrument, and the second's rows are appended, or `append`
throws and the load with it (`stage = "thrown"`). The warning about a file of another
date (`gfdl_csv.cpp:315`) can never be given: the row that decides `row_date` has
passed the test of `expected`. A damaged but well-formed row late in the day drops all
that follow it in its file; `InOrder` states exactly that.

`DayFile` is `write_vfday` from one registry (`FileOf`, `Verifies`), `open` into another
(`Opened`, `Entered`) and the scan (`ScanFile`), over files any of which may be damaged
or of a date already claimed. What was opened of a file that is then refused stays in
the registry. `VfdaySource::load` finds every file of its listing in its cache: the
branch that opens one again (`vfday.cpp:594`) is never taken.

### DayStore

| TLA+ | C++ |
|---|---|
| `files`, `path` | the inodes and the names `YYYY-MM-DD.vfday` |
| `written`, `damaged` of a file | how many of its parts reached the disk, in the order `write_vfday` puts them; those that changed later |
| `run` | `main` of `convert.cpp`: place in its loop over archives, `--force`, `--verify`, failures seen |
| `scan` | `VfdaySource`'s constructor: the listing, and the file `open` is in the middle of |
| `sessions` | opened days with their stream and lazily decoded instruments |
| `abandoned`, `found` | history only: days left half-written by a kill or a failed removal; days an unforced run found on disk |

A part carries which archive it was made from; a checksum tells archives apart.
Batch and reader interleave at every part written and every part read, and a stream
keeps reading the file it opened when its name is gone. `Kill` and `Damage` are the
environment's. A day that was written and verified may still end the run (`Succeeded`):
the size of its archive is asked for outside the `try` (`convert.cpp:148`), which throws
for a directory of CSV files.

### Replay and EventCursor

`Replay` is what whoever replays a session may count on: one fixed total order, each
event once, the end only after the last. `EventCursor` is the code: `AppendRow` and
`BuildEventOrder` (a session's cached order and timeline), `OpenWhole` and
`OpenTruncated` (the cursor's constructor, over `MemorySessionData` or
`TruncatedSession`), `WalkNext` and `MergeNext` (`EventCursor::next` with and without a
cached order), the caller's loop that derives distinct times, and `TakeTimeline`, the
branch of both loops that opens no cursor on a session with a timeline and steps by
that (`event_loop.cpp:41`, `backtest.cpp:113`). The heap is a set that
gives up its least run: its comparison is a strict total order on runs of different
instruments, so its layout does not matter.

### MC modules

They give the constants. `MCPortfolio` has a market whose spread is more than half of
its bid, so that a filled position is at once beyond a stop; `MCBacktest` and
`MCSession` have a tight book and one with no offer, which cannot fill a short's exit.

`MCViews` and `MCArchive` put components side by side that do not change each other's
state: a variable `turn` says which one moves while the others rest in an initial
state, so their state spaces add up and do not multiply. In `MCArchive`'s turn of the
store, a behaviour has at most two of a second run, a reader and damage.

## 4. The runs

| Run | Question | Bounds |
|---|---|---|
| `portfolio` | do several actors on one position, or on two, keep orders, rules, log, books and legs right and apart? | two legs in all (`MaxLegsInAll`): one position of an option and a non-option, or two of the option, long or short; one rule of two; three orders; two ticks; one market |
| `backtest_days` | what is carried, settled, cancelled and armed again across nights? | three dates, the later two may not load; a call expiring on the second; a deadline |
| `backtest_pair` | do orders fill when they first may; is a position with a leg that never fills processed and protected; does every run end? | two dates of two ticks, two legs, a deadline or a profit target, settlement forbidden |
| `session` | does a session decide after it fills, meet what is awaited at once, close what was left, and end; is the rule pass the loop? | one position of two legs, up to three rules (on a leg, on the whole, on a leg it does not have), no delay, three observations, two books; five things to await; one resumption beyond the first per observation |
| `views` | does anything a strategy reads show what has not happened; is a replay one order; is the forward taken at the money; is the check's verdict right; is a time of day met once and on time? | cursor: four rows of three instruments at three times, every cutoff. Bars: four prints at seven times, of three kinds. Chain: six strikes, two sessions of two times. Check: four observations, two of them cutoffs or more around fills. Clock: three dates around a weekend, two times of day, four print times, with and without calendar |
| `archive` | is what a strategy is given what was recorded, or reported; which files do conversion runs leave, keep and repair, and what does a reader serve meanwhile? | archives of two files and three lines; two day files, three rows, registries empty or with the contracts in another order; all columns of up to four of 13 values; two archives of one day, one instrument, and any two of a second run, a scan and a damaged part |
| `stale_fills`, `store_resumed`, `clock_missing`, `kept_bars`, `session_marks`, `leaks` | violated: see Findings | as `backtest_days` with one date, the store without reader, the clock (twice), `session`, and the check with a horizon of one |

Why the bounds are enough. Legs interact only through their position, positions
only through sums, cancellation and settlement: two of each show every pair. The
history of one leg has at most five state changes apart from abandoned exits, which
return to an earlier state; rules have one bit. `MaxOrders` bounds how often a leg is
asked to leave. It could stop `ProcessRiskRules` (which the code never refuses), and
in the backtest runs that would be a deadlock at `pc = "rules"`: they check for
deadlock, so the bound is never met there. In the store two archives of one day are the
only way one run writes a file twice, and two runs the least that shows what a killed
run leaves to the next; days do not share anything, and the theorems cover any number
of them. Four rows give a cursor three-way
ties in time and an instrument that prints twice in one instant; four values are two
blocks of the codec. Six strikes leave room for a stride of four and a bisection, and
for one that falls off the ladder. Four observations hold a decision, its fill, and a
later one to look at, before or after another trade. Two files and three lines are a
second file of the same contract that overlaps the first.

Deadlock is checked except where the system stops: a clock's run ends, a column fills,
a verdict is given (`views`), an archive is loaded or a directory's runs and scans are
used up (`archive`).

### Fairness

`FairBSpec` has weak fairness of `Engine` alone: the loop is ordinary sequential code
and goes on by itself, and a resumed coroutine reaches its next `co_await`, its end or
an exception. Calls of the strategy (`StrategyCall`) are under no fairness. A strategy
that never leaves its body would hang the program and is not counted as the loop's
failure. Data of a day are finite (`DayLength`). `RunEnds` then depends on
`max_resumes_per_step`, on settlement leaving nothing due, and on the calendar.
`SSpec` has the same fairness of `SessionLoop`'s `Engine`, and `SessionEnds` rests on
the guard and on the day's end of data. No other run assumes fairness.

### Mutants

A definition named `X_Bug` (or beginning so) is `X` with a plausible slip: a dropped state test, a delay
not looked at, marks not refreshed, a cache not dropped, a cutoff excluded, a failed day
counted as converted. No specification uses one. Each property is known to fail when
the pair listed in `PROJECT.json` is swapped.

## 5. The proofs

Every theorem holds for all values of the constants that meet the named assumptions of
its modules: that constants have their types, that `submit_open` and `attach_*` refuse
what they refuse, that the calendar fits the clock, that dates come after the clock's
start and columns in order of time, that registries are sequences, that an archive's
contracts are options no two of which are the same but for the lot, that instruments are
finitely many.

**`FiniteLemmas`.** What several proofs need. Of finite sets of integers: that the community
modules' `SumFunction` is a sum, whatever order its `CHOOSE` visits the set in. The
prover cannot use the library's induction; a least natural (`LeastNatural`) or a minimal
subset of a finite set (`MinimalSubset`) without the property takes its place, from the
well-foundedness of the two orders. Adding or removing one member, disjoint unions,
images and constants follow (`SumStep`, `SumUnion`, `SumImage`). `NatUpTo` is induction
up to a number with a set in place of the predicate. A recursive function is a `CHOOSE`,
and nothing is known of it until one exists: `LoopExists` says so of any loop,
`LoopKeeps` that a loop whose turns lead from each set to the next stays in them (so an
invariant of a loop is a family of sets), `RecursionExists` is the case of one set. `InitialSegment`
says that a set of positions closed downwards is the first so many. Last, division:
quotients and remainders of sums and products.

**`PortfolioProofs`.** `Inv1 == TypeOK /\ OneOrderPerWaitingLeg` is inductive. Types
alone are not: that an exit is a `PendingClose` leg's is what makes a fill produce a
well-typed trade at all. One lemma per action; the shared shapes (orders replaced,
orders removed, only legs and orders change) are lemmas of their own.
Gives `TypeCorrect`, `WorkingOrdersCorrect`.

Then an effect lemma per action: what it can do to a leg's state and to the pending set,
given `Inv1`; and
`Inv2 == SpentRuleGuardsNothing /\ NoOpeningAfterClose /\ DelayRespected /\ OrdersTimed`,
where `OrdersTimed` (an order is eligible one delay after its submission) carries
`DelayRespected` from submission to fill. The delicate step is
`CancelWorkingOrders`, where legs become `Open` again under fired rules, and the rule
pass, where a rule is spent because another one covers it. Gives `RulesProtect`,
`ClosedPositionsStayClosed`, `DelayKept`; `LegHistoryKept` proves the action property
from `Inv1`.

The books, in the second half, are three more inductive invariants over `Inv1`.
`TradeLog` tells each leg's trades from its state: none, its opening, or its opening and
its end at the leg's prices; a fill or a settlement moves leg and log together, and no
other action touches either. `OrderBook` says that the orders ever sent, summed over the
legs, are as many as are working, done or cancelled (an absent leg has sent none), so
that one order moves one unit from one count to another. `Books` is about two
accumulators: `realized` is the sum of the gains of closed legs, `costs` that of the
trades' costs. `BooksBalance` then compares the gains with the cash of the log through
`TradeLog` (`CashByLeg`), leg by leg. Gives `TradeLogTellsLegs`, `NoOrderIsLost`,
`BooksAlwaysBalance`.

**`BacktestProofs`.** `BacktestImplementsPortfolio`: each step of the loop is a
portfolio step or leaves the portfolio alone (refinement by the identity on the shared
variables). The only invariant needed is the clock's range, which bounds `Tick`. So
`BacktestKeepsPortfolio` and `BacktestKeepsBooks` carry all of the above over. `Night`
adds: no leg of an expired instrument is held, or can become held because no expired
instrument has a quote (`QuotesTrade`, from the `Trading` assumption); at `cancel`
everything due is settled; between sessions nothing works. Gives `NightsAreQuiet`,
`ExpiriesSettle`.

`MarkedOrQuoting` is why a valuation finds a mark: a leg that just opened has a
two-sided quote until the marks are refreshed, and a mark is never taken away
(`ValuationsHaveMarks`). `FillsKeepTime` is two-sided: its early half is `DelayRespected`,
from `Inv2`; its late half says that the fill pass leaves nothing that could have filled
(`FillsLeaveNoneOverdue`), and that until the next observation only decisions add orders,
which are of now (`DecisionsAreNew`). `PositionsProtected` is the argument about one rule pass
(`PassProtects`): of the due rules with a common leg the first fires, and what it leaves
untouched had left already; between passes, only a resumed strategy may leave a leg
unprotected, which `ResumesCounted` ties to the guard that sends the loop through the
rules again.

**`SessionProofs`.** `SessionImplementsPortfolio` by the same argument; a step's quotes
are what the market may show. `Decided` says that an order is submitted at or before
the clock, and that after a timestamp's fills none of them is as late as the clock
(`DecisionsComeFirst`). `NotLeftWaiting` is inductive with what `ask` found
(`ConditionsMetInTime`). `LeavingLegs` says that no leg of a position that was asked to
leave rests open, or waits to open: it is on its way out, out, or was cancelled
(`LeavingEndsClosed`); it holds of a session, which never cancels at a bell.

Its second half compares two ways of saying one pass, for any host (`PassesAreLoops`) and
in a session (`SessionPassesAreLoops`). `Portfolio` decides every rule on the legs as the
pass finds them and takes the first of those due on a leg. The loop decides each
on what the exits before it left. A pass only moves legs from `Open` to `PendingExit`,
which still counts as held and keeps its marks, so a turn finds what the pass found of
everything but which legs are still `Open` (`InThePass`, `ConditionInThePass`). A leg is
no longer `Open` exactly if an earlier rule on it fired, and of the due rules on a leg
the first does (`FirstDueFires`). So each turn takes the outcome of the rules before it
to that of one more (`AfterRule`, `VisitIs`). Two facts come from invariants: a
position's legs are a list without gaps (`LegsAreAList`), so that a rule for a leg past
the end is one for no leg; and a rule for a whole position exits only when no leg
waits to open, so `submit_close` finds no opening to withdraw (`NothingToWithdraw`).

**`ViewProofs`.** The clock's invariant relates four things: what is waited for is a time
of the plan (`WaitsForPlan`), past sessions lie behind the clock (`Replayed`), no
observation the clock has passed was due (`NoneMissed`), and a step meets one time at
most (`OnceAStep`: with a calendar, what `at` resolves to next is always later). Gives
`TimesAreMet` and `SeriesEndsAtTheOpen`; `Daily` adds how much of the plan a session has
met, for `DailyLoopsRepeat`.

`ChecksAreRight`: a cutoff takes from the markets an order may fill at exactly the later
ones, so a causal strategy's log up to the cutoff is unchanged (`CausalIsClean`); and a
cutoff at the fill of a leaking trade is among those tried and differs (`LeakIsSeen`).

Of the cursor, `CursorInv == Shape /\ CacheIsCurrent /\ Placed`. `Placed` says where
a cursor is: on a walk, what was yielded is a prefix of the cached order; on a merge, an
event is left exactly if some run of its instrument is at or before its row (`Pending`).
Either way the next event is the least of those left: by irreflexivity and transitivity
of the order for the walk, by the columns' order and the heap's comparison for the
merge. Each step is then one of `Replay`'s, or leaves session and replay alone
(refinement with `session` the events of the rows shown). Gives `CacheNeverStale` and
`CursorReplays`. `Stepped` adds that the steps are the times yielded and nothing left is
earlier, and gives `StepsAreExact`. The timeline is built with the order, event by event:
after each, it rises and holds the times of those so far (`DistinctTimesAre`), so a loop
that steps by it takes the same instants (`TimelineStep`).

**`QuoteProofs`.** Bar boundaries are a grid (`Grid`): rounding down is monotone, and two
prints whose boundaries differ are an interval apart. `Build` runs through the bars of
each number of prints (`BuildRuns`). `Shape` is what is so after each: bars lie on the
grid where prints with a price are, in order, and no such print is past the last bar.
From it come two inductions. `Told` says that each print with a price is in a bar
and that each bar says of its prints what they say (`FirstTells`, `JoinedTells`);
with the running sum as that of the window (`WindowNext`) it gives
`BarsTellTheirPrints`. `Extends` says that prints after a time leave
the bars that had closed by then as they were and add none that had, hence
what is known of the whole day is what is known of the day cut off (`CutKnows`).
The forming bar is made again from the prints by now: after each print it is the last
bar of those so far, if that is the stored one (`Remade`). Crossings read
levels, which are sums over known bars (`SameLevels`). Together they give `BarsAreCausal`.

`ChainsAreCausal`: two days are `Alike` at a time if they have the same prints and
quotes by then. Truncation gives such a day (`CutIsAlike`, from the order of the
columns), and everything a view answers is a function of those, down to the forward's
search (`AlikeForward`), whose recursive functions are equal because what they are made
of is. `CacheIsOfItsInstant` is the invariant about the cached forward.

`ForwardFound` is about the search on one ladder, whatever session shows it. While
strides double, the crossing is `Beyond` the best strike so far, and the next stride is
one more than the way come (`Widened`); hence a stride that falls off the ladder leaves
at least as much behind as ahead (`HalfWay`), and otherwise the crossing is `Bracketed`.
Bisection keeps the bracket, shrinks it at each turn and never loses the nearest strike
(`Halved`); it also leaves alone what was not bracketed. Either loop ends within as many
turns as there are strikes, which is why `Search` runs that many.

**`StoreProofs`.** Of the store: `Typed` is `TypeOK` with what a run is in the middle of (a day
being written has a file) and gives `StoreTypes`. `Untorn` is about the reader: what a
half-opened or open session has gathered is of its header's archive, because each part
was accepted against the header's checksum. It needs nothing of the batch, hence
`ReaderServesOneDay` against any rewriting. `BatchInv` is about the runs: names differ, half days
were abandoned (`HalfDaysWereAbandoned`), every archive passed without failure has its
day (`Converted`), and, forced, whole and of its last archive (`Repaired`). That names
differ is what keeps writing one day from touching another. Gives
`OnlyAbandonedDaysAreHalf`, `CleanRuns`, `ForcedRuns`. `UnforcedRunsKeepDays` rests on
`KeepsFound`: a day that was found is still there, and is not the one a run is writing
or about to remove, since a found day was skipped.

Of the codec: one pair of predicates carries a column through. A piece `Lies` in a stream
from a position on as far as the stream goes, and a reader `Reads` the value the piece was
made of, or refuses if the stream ends first. Each reader (`VarintRead`, `RawRead`,
`PackRead`, `BlockRead`, `BlocksRead`, `ColumnRead`) is shown to read what its writer made
of any value, and both halves of `RoundTrip` are the last of these: a longer stream is
read, a proper prefix refused.

- *Packing.* After every turn, the bytes out and the accumulator are one number, and it is
  the number of the values taken in (`Packing`); unpacking keeps the mirror image
  (`Unpacking`). A value shifted in fits because at most seven bits are held and it has at
  most 56 (`MaxPackedBits`), 63 of 64 together: this is what the code's constant is
  for. One bit more would still fit, and two would not.
- *Scale.* Euclid's algorithm ends within as many turns as its second number, and keeps
  which numbers divide both (`Euclid`, `GcdIs`); so the scale divides every difference
  (`ScaleIs`), and as a signed word still, although half the word's range is negative
  (`DividedIs`).
- *Wrap-around.* Differences, residuals and restored values are each known mod the word
  (`UnsignedSame`, `UnsignedPlus`, `UnsignedTimes`); a signed word is the only one of its
  remainder (`SignedBack`). So residuals, least difference and scale give each difference
  back (`GivesBack`), and the decoder's running value is the column's (`RestoredIs`).
- *Blocks.* They cover the column without gap or overlap (`BlocksAre`), and after block
  `b` the decoder has the first `With(v, b)` values and stands behind the block's bytes
  (`BlocksTurn`).

Gives `ColumnRoundTrip`, for any sizes of word, byte and block, any following bytes and
any column whose length is a word, and from it `RoundTrips`.

**`ArchiveProofs`.** `FileTypes` says that every file is one `write_vfday` makes of a
session that fits its registry (`Fits`: its instruments are the registry's, each once), but for being
sound. Registries only grow (`AddedGrows`): what was found is still found, under the same
id. So a walk over a directory whose contracts differ ends well (`WalkEnds`, by
`RecursionExists`), with each contract under the id of the reader's registry and with its
own lot unless it was known (`WalkedTo`). `ScanInv` relates the scan to the files passed:
dates served and problems (`Accounted`), where the reader's contracts come from
(`Provenance`, which the clause about lots rests on), and each session to the one written
(`SessionsReload`). Gives `FilesAccounted`, `SessionsReloaded`.

`LoadsAsPrinted` relates two ways of reading one archive. The parser carries an expected
date and the last time kept from row to row; the property selects rows of the whole file.
`Along` says what the parser's state is after each row: the date, once a row has come,
is that of the file's first row or the one known before, and the last time kept is the
latest of the day's so far, so a row is kept exactly if it is `InOrder` (`AlongNext`).
From file to file, `LoadInv` says that the expected date is `DayOf` the files so far, and that
columns and counts are the sums over their rows (`SoFarRead`). A file that first gives
the day its date changes what earlier files come to only if one of them had a row, and
none had (`NoRowYet`, `SummedNext`). A registry may hold what its caller put in before,
each contract found under one id for as long as the load lasts (`IdGiven`).

Every safety property the passing runs check is a theorem. Only model-checked are `RunEnds`
and `SessionEnds`: liveness needs fairness, which the prover does not handle.

## 6. Findings

- **An order can fill at a quote its submitter had already seen** (`stale_fills`).
  `process_pending` fills at the last quote at or before now (`portfolio.cpp:208`). A
  later step is enough, and any instrument's print makes one. The documents say an
  order fills at market data at or after submission plus delay, and never against the
  observation that triggered it.
- **A conversion is not resumable after a kill** (`store_resumed`). A day is skipped
  when its file exists (`convert.cpp:135`), half-written or not; later runs report
  success and the reader refuses the day. The program's comment says an interrupted run
  picks up where it stopped. `ForcedRunRepairs` shows that `--force` does.
- **A date without data makes a time of day early** (`clock_missing`). `Ctx::at`
  resolves onto the next date of the calendar (`strategy.cpp:415`), loaded or not; when
  that date has no session the strategy is resumed at the next one's first observation.
  The documents say it resolves onto the next trading session.
- **A kept bar series still answers at the next day's open** (`kept_bars`). It is refused
  only after `valid_until` (`bars.cpp:70`), which is the open plus 24 hours
  (`strategy.cpp:323`). An observation exactly at the open, the ordinary first one, gets
  the day before's bars. The documents say that querying a series from a later day
  throws. `SeriesOutlivesNoOpen` shows that nothing after that instant is answered.
- **A single session records no marks** (`session_marks`). `run_session` never calls
  `refresh_marks` (`event_loop.cpp:66`), so a held leg whose book goes one-sided is
  valued at its entry and a stop on it reads flat. `portfolio.hpp:220` says the loop
  records a mark once per observation.
- **A leak of one observation is not seen** (`leaks`). With the session cut off at a fill,
  the observation of that fill is still there; cut off one earlier, the trade is not
  expected. A strategy that reads just the observation it will be filled at is reported
  clean at every cutoff (`lookahead.cpp:118`). The documents say that all leaks change
  behaviour under truncation.

## 7. Not modelled

Planned: item 12 of the plan. Left out for good:

- option valuation, implied volatility, margin, indicators other than the moving
  average, cost schedules and the synthetic market: floating point. Margin and Greeks
  only read; `Chain` has what their answers decide (which leg is selected).
- taking a symbol or a line of text apart, and formatting.
- the Python layer beyond the bridge, sample strategies, tools, benchmarks and miniz.
- the bounds checks of `VfdaySession::open` inside a file whose checksums hold: no file
  of `write_vfday` fails them, and `DayStore` and `DayFile` know a file as sound or not.

Integer overflow of money and prices is not modelled: amounts are unbounded integers,
except in `Codec`, where words wrap.
