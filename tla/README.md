# TLA+ verification of the trading engine

TLA+ modules, TLC configurations and TLAPS proofs for the Python trading engine of this
repository: the replay of candles through the execution state machine, the run harness around
it, the audit logs it leaves, and the tools that check those logs. `PROJECT.json` ties every
definition to the lines it models; this file is the guide.

Paths below are relative to `src/src/barakat_engine/` for the engine (`contract_N_...py` is
written cN), to `src/tools/` for the tools.

## 1. The system

The engine is one synchronous process. There are no threads, no callbacks from outside and no
network; what makes it hard is the *order* of effects inside long handlers, state kept twice,
files that are opened by several parts of a run, I/O that fails half way, a configuration that
is read twice, and calendar arithmetic on gaps in the data.

| part | state | operations | model |
|---|---|---|---|
| c0 run harness | request, resolved snapshot, run directory, loggers, adapter | `run` (steps 1 to 9), `_write_audit_header` | `RunHarness`, `Engine` |
| c1 run identity | none (fresh uuid, directory name) | `create_run_identity` | in `RunHarness` |
| c2 clock | none | derivation of close times | `EngineClock` |
| c3 config resolver | none; reads files | `resolve_config` | `ConfigResolver` |
| c4 execution mode | none | `build_execution_mode_context` | in `RunHarness` |
| c5 data adapter | the two candle streams, a pointer, the EOF flag | constructor, `next_event` | `DataAdapter`, `CandleStream` |
| c6 execution state machine | trades and their views, setups, histories, last times | `on_candle_close` | `ExecutionStateMachine` |
| c7 single-trade policy | none | gate on the number of open trades | in `ExecutionStateMachine` |
| c8 bias provider | none (always neutral) | `get_bias_at` | its failure, in `ExecutionStateMachine` |
| c9 to c13, strategy boundary | none | withheld stubs | not modelled |
| c14 outcome simulator | none | never resolves a trade in public | not modelled |
| c15 mandatory sink | two open files and a closed flag | constructor, two log calls, `flush`, `close` | `MandatorySink`; the row of a trade: `TradeLog` |
| c16 diagnostic sink | open files | constructor (opens), `flush`, `close` | the opens, in `RunHarness` |
| `run_backtest.py` | none | builds the request, chooses the output root | in `RunHarness` |
| `max_drawdown_r.py` | one pass over a log | the whole script | `MaxDrawdown`, `Reports` |
| `verify_outcomes_against_m5.py` | one scan per trade | the whole script | `OutcomeVerifier` |
| `verify_realised_r.py`, `run_full_breakdown.py` | one pass over a log each | the whole scripts | `Reports` |
| `verify_run_config.py` | none; reads a run's audit header and a configuration | the whole script | `RunConfigVerifier` |
| MT5 experiment | a broker terminal | copies of ticks, two tables made of them; orders and bars | `TickTable`: the ticks |

How they interact: `run_backtest.main` builds a request, resolves the configuration once to
learn the output root, and calls the harness. The harness validates the request, resolves the
configuration *again*, compares every control that has more than one source, opens the mandatory
logs, then the diagnostic ones, builds the adapter from the snapshot overlaid with the request's
`adapter_params`, settles the start of the evaluation, and enters the loop. The loop asks the
adapter for one closed candle at a time and hands it to `on_candle_close`, which calls the
policy and the strategy modules and, on a resolution, the mandatory sink. The tools read what
the sinks wrote: three of them the log of executed trades, one that log and the candles, one the
audit header and, again, the configuration file. The MT5 experiment shares no code with the engine.

**What the repository does not contain.** `contract_0_run_harness_orchestration.py` ends inside
`run()`, after the bias timeline is built (line 406), and
`contract_6_execution_state_machine.py` ends inside `on_candle_close` (line 382). The candle
loop, `run_v1`, `_call_spokes_in_order`, the bookkeeping after the spokes and the hook at the end
of a run are therefore modelled as *external* operators (`HubTail`, `Advance`, and the loop of
`Engine`): they are constrained only by what the code above them and the data types require, and
by the policy's gate. A property that speaks of trades holds under those constraints; what it
says about the text we have is that the reset, the guardrails, the gate and the failing paths
keep it.

What each part has to get right:

- *state machine*: the copies of the open trades agree; the cap holds though it is tested on a
  count taken earlier; nothing survives a weekend, nothing disappears otherwise; a refused candle
  has no effect although the reset runs first; histories show closed candles, in order, once;
- *adapter*: one chronological stream and one EOF, whatever the distribution over files;
- *loop*: the adapter's checks are strong enough for the state machine's guardrail;
- *sink*: an acknowledged row is durable; a closed log is complete; nothing is overwritten;
- *resolver and harness*: one meaning per configuration, nothing written before all sources
  agree, a header that is written once, a settled start;
- *tools*: what they print is true of the log and the candles, and they do not contradict each
  other but where they read a row differently; a matching digest means the same settings;
- *tick tables*: rows in the order in which the ticks came, each at a time of its own.

## 2. Modules

`EngineClock` (no variables). Time is a number of ticks since a Monday 00:00; a day has `DayLen`
ticks and 22:00 is `Cut` (1440 and 1320 minutes in the code). `CloseOf`, `LastFriday`,
`LatestBoundary` and `CrossedFriday2200` are c6's arithmetic; `Boundary(k)`, `IsBoundary` and
`BoundaryBetween` are the reference, "the k-th Friday 22:00", with no arithmetic on weekdays.

`ExecutionStateMachine` (c6 239-382, c7). One action of `OnCandleClose(c)` is one call: each
action is one way the call can end.

| action | code |
|---|---|
| `RejectCandle` | reset (247-258), then the guardrail on open times raises (270-279) |
| `FailBias` | the last open time is set (280), the bias timeline raises (293-326) |
| `FailPolicy` | history and context are built (343-362), c7 refuses the provider (58-66) |
| `WarmUpStep` | before the evaluation start (379-382) |
| `EvaluatedStep` | the gate (c7 85), the spokes, the bookkeeping |

`OnlyReset` is what every raising path leaves: the trading state as the reset left it. Variables
have the names of the fields they stand for, in the comments of their declaration. A trade is
identified by the close at which it entered; `open_trades` is the set of them, because trades are
appended in that order and `open_trades[0]` is the oldest. `logged` is a history variable.

`CandleStream` is the abstract promise of c5; `DataAdapter` is the constructor, file by file, and
`next_event`. A row is the open time it parses to, or `BadRow`. `Abstract!Spec` is the refinement:
`delivered` is the prefix of the M5 stream up to the pointer, `ended` the EOF flag.

`Engine` composes `DataAdapter` and `ExecutionStateMachine`: the constructor, then one candle per
step through `on_candle_close`, until EOF or the first exception.

`MandatorySink` (c15 93-383). A call buffers a row and flushes it; a flush that raises has
written an arbitrary prefix, and the rest stays in the file object's buffer, where a later flush,
`close()` or the exit of the interpreter may write it. Bytes are counted in half rows, so a row
can be torn. The end of the process is an action that can happen in any state.

`ConfigResolver` (c3): layers are functions from keys to JSON texts; merge, defaults, key checks,
validation, freezing. The digest is identified with the canonical snapshot. Python's own
truths are kept: `true` is an `int`, `1.0` is not, and becomes `1` only when the snapshot is
frozen, after validation.

`RunHarness` extends it with `run()` up to line 396, one action per numbered step, the command
line before it (`ChooseRoot`), the audit header after it, and an environment that may edit the
configuration file between the two readings (`EditConfig`). A run directory is
the history of the opens in it: which file, by which logger, in order, all of them truncating. The
diagnostic list is opened entry by entry by base name, so entries that repeat a name, or end in the
same one, or in that of a mandatory log, open a file again. Each step has its failing outcomes, with what was already
created left in place; `error` tells a guardrail violation from any other exception.

`RunConfigVerifier` extends `RunHarness` with the verifier, started after a run has ended: words of
a command line (the option's name is taken out of them, its value is not), the digest of a whole
audit header, a second resolution, the comparison. `EditLater` edits the configuration file after
the run.

`TradeLog` has no variables: `RowOf` is what c15 writes for a resolved trade, as far as another
program reads it. RR keeps four decimals, so the column is a rounding; a missing risk becomes one,
a missing RR stays blank, every end but a target hit is a loss.

`MaxDrawdown` is the drawdown script, one action per row after the sort. `Reports` runs it, then
`verify_realised_r.py`, then `run_full_breakdown.py` on the same log, row by row. They are
separate commands that only read the log, so one order stands for all.

`OutcomeVerifier` is the script of that name, one action per candle of a trade's scan.

`TickTable` is `mt5_rates.py` from the copy of the ticks to the table of intrabar rows
(`ToIntrabar`) and of one-second bars (`ToSeconds`). The sort of pandas is not stable, hence the
choice of an order in `ToIntrabar`.

`MC*` modules give the constants their values. Operators with a suffix after an underscore
(`Gate_offByOne`, `Joins_duplicateKept`, ...) are plausible bugs: `PROJECT.json` lists, for every
property of every passing run, one with which TLC finds that property violated.

## 3. Runs

Every passing run is exhaustive for its bounds.

| run | shows | bounds |
|---|---|---|
| `MCExecutionStateMachine` | views in sync, cap, pending information, weekend, no look-ahead, refused candles inert, no silent drop | two-tick day, two Friday 22:00s, 7 possible candles before, on and after them in any order, caps 1 and 2, a wrong provider, history caps 2 and 3 |
| `MCDataAdapter` | chronology, completeness, refinement of `CandleStream`, EOF is reached | every pair of M5 files of up to two rows over three times, with an empty file between them; four kinds of H1 input |
| `MCEngine` | the cadence guardrail never fires, histories are the delivered stream and, at EOF, every row of the files, a run ends | ten M5 files, all pairs; two weekends; two policies |
| `MCMandatorySink` | durability, headers, completeness of a closed log, append-only | four rows per file, any failure at any call |
| `MCRunHarness` | nothing written before agreement, snapshots reproduce, a settled start, dead default, files kept apart, an untouched run verifies, a match means the same settings | 14 requests, 29 contents of the configuration file, an edit at any time before it is read and one after the run, any open failing, 10 command lines of the verifier |
| `MCReports` | the drawdown is the deepest, with its end points, each with the R of the trades closed by its time stamp; the programs agree; breakdowns add up; rounding alone is a match | every log of up to 4 rows over 10 rows; 4 units to an R, a rounding of 2, a tolerance of 2 (in the code 20000, 2 and 20) |
| `MCOutcomeVerifier` | no false alarm; a clean win is explained by its candles | every path of up to 4 candles of 4 shapes, logs of up to 3 trades, limit 2 instead of 20 |
| `MCTickTable` | the true tick sequence; bars and rows agree | every copy of up to 4 ticks at 3 times with 5 kinds of quotes, with and without milliseconds; the index wraps at 3 instead of a million |

Why the bounds are enough: the interesting cases of the state machine are a close before, on and
after a boundary, at gaps shorter and longer than a week, with the history shorter and longer
than its cap; a day of two ticks has them all, and the proofs remove the bound. Overlap between
files is decided by neighbouring files, so two, with an empty one between, show it. In the sink
each call affects the last row of one file. In the harness each control has an agreeing, a
disagreeing and an absent value. The deepest drawdown needs two peaks and two troughs, which
four rows have. Two rounded wins reach the scaled tolerance and a third exceeds it. Four ticks
have a wrap of an index that wraps at three, inside a millisecond and, without milliseconds,
inside a second. Deadlock is not checked in runs whose system really stops (a run that ended, a
process that is gone, a log that is read).

Named bounds: `MaxRows` (rows per log file), `MaxTicks` and `Milliseconds` (ticks), `Horizon` and
`MaxGap` (walk of closes in `MCEngineClock`). `Opens`, `Configs`, `Inputs`, `Requests`, `Sources`,
`CommandLines`, `Logs`, `Tables`, `Quotes` and `M5Files` are finite sets in the `MC` modules.

Four further runs each check one sentence of the repository that the code does not keep:

| run | the sentence | what the code does |
|---|---|---|
| `MCEngineClock_AsDocumented` | c6:91, "there is a Friday 22:00 UTC boundary between" | only the latest boundary is looked at, and strictly: a candle that closes on a boundary misses an earlier one; the reset then comes one candle late |
| `MCRunHarness_SeparateSinks` | README.md:31, mandatory and diagnostic sinks are separate | a diagnostic sink is opened under the base name of its entry (c16:25), over a mandatory log if it has that name |
| `MCOutcomeVerifier_AsReported` | tool, line 167, "no SL-first" | a win whose stop was touched first is neither examined nor reported |
| `MCReports_HoldTheirTrades` | `run_full_breakdown.py`:84, the table is by the "entry candle date" | a trade whose time of entry is blank or unreadable is counted on Monday and at 00:00 (line 63) |

One more finding is a property of a passing run: the "first-candle default" of c0:225 and c0:395 is
never taken, since the resolver refuses a finite run without boundaries first
(`DefaultStartIsDead`).

Where a sentence holds but for a case, the property names the case. `FilesKeptApart`: a list of
diagnostic sinks that repeats a base name opens one file twice. `BreakdownsAddUp`: the lines hold
their trades when every time of entry can be read. `TrueSequence`: `mt5_rates.py`:109 promises the
true tick sequence, and `Parted` is where the index wrapped between two ticks of one time.

Two disagreements are read off the text and have no run. The request's `adapter_params` replace the
audited data set silently (c0:374; `AdapterConfig` has it), where contract 5, line 87, makes a
mismatch a hard fail. A log without a win ends `verify_realised_r.py` with a `TypeError` (line 112;
the outcome "crashed" of `PrintReport`), where its line 9 promises "any discrepancy".

## 4. Fairness and liveness

Liveness is checked in two runs. `DataAdapter!FairSpec` and `FairEngineSpec` assume weak fairness
of the constructor and of the loop: both are straight-line code of one thread that waits for
nothing, so a step that can be taken is taken. No fairness is assumed of failures, of the
environment, or of calls after EOF. `ReachesEOF` and `RunEnds` depend on the EOF flag and on the
pointer's progress, as their mutants show. The sink, the harness and the tools state safety only.

## 5. Proofs

All checked by TLAPS with the SMT, Zenon and PTL backends, for every value of the constants under
the named assumptions of the modules (`ClockAssumption`, `StateMachineAssumption`,
`AdapterAssumption`, `EngineAssumption`, `SinkAssumption`, `ResolverAssumption`,
`HarnessAssumption`, `VerifierAssumption`, `LogAssumption`, `DrawdownAssumption`,
`ReportsAssumption`, `TickAssumption`), which TLC evaluates in the runs.

- `ExecutionStateMachine_proofs` begins with the clock: the arithmetic finds the latest Friday 22:00
  (`LatestBoundaryCorrect`); a detected crossing is real (`CrossingSound`); every crossing is
  detected unless the candle closes on a boundary (`CrossingComplete`). These are the two
  directions of the first finding. The state machine follows: the inductive invariant `IInv` adds to the properties that the
  two remembered times belong to one candle while the machine runs (`TimesAgree`), and that no
  trade or setup is younger than the last close (`NothingFromTheFuture`). The second is what makes
  `WeekendFlat` inductive: together with `CrossingComplete` it says that a boundary between a
  trade's entry and now, but not before the last close, lies in the interval the reset looks at.
  The three copies of the trades, the cap, the pending information, `RefusedCandleInert` (a refused
  candle closes no later than the last one, so `CrossingSound` leaves no boundary between them)
  and `NoSilentDrop` follow. `NeverLooksAhead` needs an invariant of its own, `HistoryInv`: the
  prior history is increasing and not younger than the last open time, and the recent buffer is its
  tail while the machine runs. Taking the tail before or after appending gives the same buffer
  (`LastNOfAppend`), so both histories are tails of one increasing list.
- `DataAdapter_proofs`: chronology, the place of EOF (`EOFAfterAll`, which the refinement implies
  and no run repeats), and the refinement of `CandleStream`; the invariant adds that nothing is
  read before the loading is done. `NothingSkipped` has an invariant of its own, `LoadedSoFar`: at
  every step of the constructor the stream holds the rows of the files already loaded. Its
  reference, `RowsUpTo`, is a recursive function over the list of files; that the function exists,
  and hence satisfies its equation, is `RowsExist`, from the order of the naturals being
  well-founded. What it computes is never unfolded: one step of the constructor is one step of it.
- `Engine_proofs`: the adapter's invariant and a gluing one (the last open time is the last
  delivered candle, the history is what was delivered) give `CadenceHolds`; with `LoadedSoFar`, and
  since the loop asks for no event after an exception, `HistoryComplete`: a run at its EOF has taken
  in every row of every M5 file. The composition implements each component, `EngineIsAdapter` and
  `EngineIsMachine`; the second needs the invariant, for the machine is specified for candles in
  `Opens` only. `ReplayIsSafe` then carries the theorems about the machine over to the loop.
- `MandatorySink_proofs`: the invariant adds which files are open and headed in each phase of
  construction; `SinkSafety`, `HeadersFirst`, `NothingLeftBehind` and `SinkAppendOnly`, for every
  number of rows.
- `RunHarness_proofs`: freezing is idempotent, keeps validity, and a snapshot covers what is below
  it, hence `SnapshotsReproduce`; the invariant of the steps (what has been validated, agreed and
  written at each `pc`) gives `AgreementBeforeWriting`, `StartSettled` and
  `DefaultStartNeverApplies`. `FilesApart` rests on the order of the opens: the two mandatory logs,
  then the entries of the configured list, then the header, each part a prefix when its step
  failed; a file that occurs twice was opened the second time by an entry, which repeats an earlier
  one or names a mandatory log.
  `MatchesAreMeant` is about `VerifierSpec`: a match is only said of an audited run, whose snapshot
  then equals the merge of the layers the verifier read. `UntouchedVerifies` is the converse for a
  run of the command line: until the file is edited, the snapshot is the resolution of what the
  file holds (`Untouched`), the verifier's words name that file and that output root
  (`WordsOfUsage`), and a verdict once given is the one of the state it was given in (`Judged`).
  `VerifiedRunIsSafe` carries the theorems about the harness alone over to `VerifierSpec`, the
  specification the run checks: the later edit disturbs only the type of `source`.
- `Reports_proofs`: the peak so far is the highest point of the curve, hence no fall is deeper than
  the reported one (`DrawdownCorrect`), the reported points are on the curve (`EndPointsCorrect`).
  The curve is the sum of the rows so far (`CurveInv`), and in sorted rows those up to one that
  closes alone are the ones that closed by its time: `DrawdownIsDated`. `ReportsRunDrawdown` carries these facts to the
  three programs on one log. `RoundingsMatch`: while every win so far is faithful, twice the
  difference of the methods is at most a grid step per win. `BreakdownsCorrect` and `ReportsAgree`
  are about sums over the rows read so far, the first also about sums over the lines of a table,
  of which a row changes one (`SumOneChanged`). The reference sums are folds over a finite set of
  indices, and a section on such folds comes first. Their recursion has exactly one solution
  (`PartialSumExists`, `PartialSumsAgree`, each at a smallest set where it would fail,
  `MinimalSubset`), and any index may be taken out first (`SumTakeOut`); what a sum is over no
  index, over one more, and over equal terms follows. The invariants (`BreakdownInv`;
  `DrawRelated`, `VerifyRelated`,
  `TallyRelated`) then say, program by program, that its running totals are those sums.
- `OutcomeVerifier_proofs`: the invariant says what a scan has already seen (no candle of the
  trade before `pos` touches either price) and what its two flags mean at the end; `AlarmsAreMeant`
  and `SilenceIsExplained` follow for every candle file and log.

- `TickTable_proofs`: what the two tables owe to the ticks. The invariant (`TInv`) is that the copy
  is in time order, that the rows are the usable ticks in the order of their stamps and, for equal
  stamps, in some order (`RowsInOrder`), and that each bar is made of the ticks of its second
  (`BarsMade`). A stamp is a time and an index modulo the wrap, and `StampOrder` says when it
  orders two ticks as they came: unless they are of one time and the index wrapped between them.
  `RowsAreTrueSequence` follows for every outcome of the unstable sort, and, with the ends of a
  second (`EndsOfSecond`), `TablesTellOneStory`.

Every safety invariant and every action property of the passing runs is stated by a theorem. Only
model-checked is liveness (`ReachesEOF`, `RunEnds`): it rests on fairness, and so on ENABLED, which
is out of the prover's reach. `ImplementsStream` is proved; its abstract specification is safety.

## 6. Abstractions a reader should know

- Prices, OHLC values and volumes are absent from the engine's models: a row is good or bad, a
  candle is its open time. The bias is only whether it can be had.
- R is counted in integer units in the reports; the tools add floats. Ties round upwards in
  `FourDecimals`; in binary they fall either way. Points and prices keep six decimals in the log
  and are exact in the model.
- The three programs on the log are run in one order; they only read it.
- A log's header, and how columns are found in it, is left out, as are rows too short for it.
- The terminal gives ticks in time order, all of them with milliseconds or none; two prices have
  an integer midpoint.
- Exit time stamps are compared as the strings' order; the log writes one format.
- Roots and time stamps are tokens: path normalisation is not modelled.
- The outer white space `run_backtest.py`:68 strips from a root, and the trailing slash c0:330
  strips, are both gone in the token.
- A refusal of the resolver stands for every exception it ends with. Some are not guardrail
  violations: a list where a mode or a verbosity is expected (`TypeError`, c3:92 and c3:96), text
  that is not UTF-8 (c3:43), a NaN in the canonical form (`ValueError`, c3:62).
- Two branches that the adapter's candles (c5:190) cannot take are left out: a close time given
  with the candle (c6:117-118), and the guardrails on time zones and on the alias of the open time
  (c6:261-269 and 282-291).
- `OutcomeVerifier` is given candles in strictly increasing order, as the adapter accepts them;
  `load_m5` itself would read any.
- A difference of exactly the tolerance is a match in integers; in floats it may be on either side.
- A run directory is fresh (uuid4), so no other run's files are in it.
- The end of the evaluation window is not in the models: what the state machine does with it is
  in the missing text.

## 7. Hazards without a property

`PROJECT.json` lists every hazard at its line. Four have a note and no property: a buffer that is
never trimmed (c6:382; memory is not modelled); files left open when the harness raises after
opening them (c0:350; the model has these end states, and no document forbids them); the overlay of
`adapter_params` (c0:374) and the crash on a log of losses (`verify_realised_r.py`:112), both in the
model and described in section 3.

## 8. Plan

Done, in this order: clock, state machine, adapter, their composition, sink, resolver, harness,
the drawdown and the outcome verifier; then the rest of the tools on the log, the run-config
verifier behind the harness, the tick tables; and the proofs above.

What would come next: the sink inside the harness, with the rows, the close and the audit header of
one run, for which the writers of a file (`RunHarness`) and its content (`MandatorySink`) meet. It
waits for the text of `run()` after line 406, which decides when the header is written and the logs
are closed.

Not modelled:

- c9 to c13, the strategy boundary and c14: withheld; the files are stubs without state.
- what `run()` and `on_candle_close` do after the text ends, but for the external operators.
- c16's row of its header, `flush` and `close`: a file that holds a header and nothing else.
- contract 5's demo mode: the repository has only the CSV adapter, which always ends with EOF.
- the conversion of bars, orders and the smoke test of the MT5 experiment: external service.
- types, guardrail classes and their messages, percentages and layout of the reports.

## 9. Running

    tlc -config MCEngine.cfg MCEngine.tla        # a run; MCMandatorySink.cfg goes with MandatorySink.tla
    tlapm Engine_proofs.tla                      # the proofs of a module
