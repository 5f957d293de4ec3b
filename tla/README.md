# Verification of the trading backend

TLA+ models of `src/backend`: the FastAPI service that runs trading experiments, either over
historical bars or as paper trading through a broker. The models were written from the code; the
business rules (`docs/02_domain/03_business-rules.md`, "BR-nnn") and the milestone notes
(`docs/07_implementation/tasks`) say what it should do. Paths below are relative to
`src/backend/app` unless they start with `docs/`.

Check one run with `tlc -config MCPaperSteps_steps.cfg MCPaperSteps` and one proof module with
`tlapm PaperStepsProofs.tla`. `PROJECT.json` has the list of runs, the source lines of every
definition, and for every property a mutant: a plausible bug in the code that breaks it.

Contents: [the system](#the-system) · [plan](#plan) · [modules](#modules-and-code) ·
[runs](#runs) · [disagreements found](#where-code-and-documents-disagree) ·
[fairness](#fairness) · [proofs](#proofs) · [limits](#what-is-not-modelled)

## The system

One FastAPI process, one PostgreSQL database, one broker (Alpaca paper account). Requests run in
a thread pool; APScheduler runs four jobs in the same process (`modules/scheduler/scheduler.py`,
`jobs.py`); a start request of a historical experiment launches the full run as a background task.
All of them talk to each other only through the database, in READ COMMITTED transactions.
SQLAlchemy writes back the columns it has changed, there are no version columns and no
`SELECT ... FOR UPDATE`; the only locks are `pg_try_advisory_xact_lock(experiment_id)` and two
unique constraints (`execution_steps (experiment_id, sequence_number)`,
`event_decisions (event_id, experiment_id)`).

| component | state it keeps | operations | interacts with |
|---|---|---|---|
| experiment lifecycle (`modules/experiments`) | `experiments.status` | create, start, pause, resume, stop; `status_machine.py` validates | launches full runs; every runner writes the same column |
| paper-trading step runner (`modules/execution/paper_step_runner.py`) | execution steps, risk checks, orders, trades, portfolio, snapshots | `run_next_step`, `run_event_step` | advisory lock, strategies and agents, risk check, broker, event decisions |
| event scanner (`modules/events`) | events, relevance per symbol, event decisions | scan, classify, `_trigger_once` | news provider; calls `run_event_step` in its own thread |
| scheduler (`modules/scheduler`) | none: due slots are computed from the clock | paper-trading, historical, sync and event jobs | calendar and feed; asks the runners for steps |
| order synchronisation (`modules/execution/broker_sync.py`) | order status, trades, portfolio | `sync_open_orders` | broker, same portfolio row as the step runner |
| paper provider and broker adapter (`paper_provider.py`, `modules/broker`) | none | `place_order`, `get_order_status` | the broker, which executes orders in its own time |
| risk validation (`risk.py`) | none | `evaluate`, `evaluate_target_exposure` | reads the portfolio row, decides quantity |
| historical step runner (`step_runner.py`) | steps, portfolio, status | `run_next_step` | advisory lock; does not know the full run |
| full runs (`orchestrator.py`) | the same rows, and the session in memory | `run` | takes no lock, reads the status once |
| simulated fill and metrics (`simulation_provider.py`, `metrics.py`) | portfolio, metric snapshots | execute, calculate | called by both historical runners |
| strategies (`modules/strategies`) | none | `decide` | called with prices and portfolio; the paper runner rebuilds the session for them from trades |
| agent pipeline (`modules/agents`) | agent decision logs | stages, repairs, fallbacks, gate | LLM, research providers; target-exposure risk check |
| research data cache (`provider_factory.py`, `research_data_cache_repository.py`) | one row per symbol and dataset, shared by all experiments | `load`: fresh row, fetch and upsert, or stale row | inside the step's transaction |
| market data and calendar (`modules/market_data`) | files, HTTP | `load_range`, sessions, slots | called by the runners and the scheduler |
| authentication, read API, frontend | users, tokens | login, queries | no influence on trading |

What is hard here:

- *Interleaving.* A manual request, two scheduler jobs, the event scanner, the synchronisation job,
  a background run and lifecycle requests act on the same rows. What one of them has read may be
  outdated when it writes.
- *Atomicity.* A paper step is up to four transactions with a broker call between two of them; an
  event decision is committed before its step; a sequence number is read before it is inserted.
- *Failure.* The broker may take an order and the answer, or the commit that records it, may be
  lost; the process may die between any two transactions; `scheduler.shutdown(wait=False)` does the same.
  Model and research providers fail, time out or answer with something that does not parse.
- *Retry.* The scheduler finds a slot due on every tick; orders are synchronised again and again;
  the scan's window covers every article twice; a malformed answer is repaired.
- *Long transactions.* A step holds the cache rows it has written until its agents have decided.
- *Boundaries.* Whole shares, last bars, opening ranges, early closes, holidays, drawdown, rounded exposures.

The properties that make each component correct:

- *lifecycle*: only the transitions of BR-007; STOPPED is permanent.
- *step runners*: one step at a time (BR-013), one step per slot, per event and per bar; every step
  that starts ends; the rows form an audit trail (BR-011, BR-014); an order only after its risk check (BR-039).
- *event scanner*: a triggered decision is not abandoned, an event triggers once and only if it is
  relevant (BR-027C), no article is lost to one failing scan.
- *agents*: no order without an answer that parsed (BR-027), the log tells what happened (BR-025), every decision ends.
- *research cache*: a fresh row is fresh, steps do not block or fail each other over it.
- *synchronisation and booking*: no fill booked twice or missed, the portfolio equals what the
  trades make of the capital, cash and position never negative (BR-043 to BR-048, BR-052).
- *risk check*: a BUY is covered by cash and a SELL by the position; a target is not overshot.
- *full runs*: every bar in order, COMPLETED means all bars were executed, every run reaches a verdict.
- *strategies, metrics*: round trips per session, no position kept past a session's last exit, the
  drawdown is the worst fall.

## Plan

Ordered by what matters most to an experiment's owner: first that steps do not overlap and orders
are not duplicated, then that the money is right, then the historical runs, then what decides when to
trade and what to trade.

| order | module | proofs | state |
|---|---|---|---|
| 1 | `StatusMachine`, `StepLedger` (abstract), `PaperSteps` (implements it) | `PaperStepsProofs` | done |
| 2 | `RiskSizing` | in the proofs of the modules that use it | done |
| 3 | `FillLedger` (abstract), `PaperAccounting` (implements it, uses `RiskSizing`) | `PaperAccountingProofs` | done |
| 4 | `HistoricalRuns` (uses `StatusMachine`) | `HistoricalRunsProofs` | done |
| 5 | `SimulatedPortfolio` (uses `RiskSizing`) | `SimulatedPortfolioProofs` | done |
| 6 | `TradingCalendar`, `OrbSession` (extends it) | `OrbSessionProofs` | done |
| 7 | `NewsEvents` | `NewsEventsProofs` | done |
| 8 | `AgentPipeline` (uses `RiskSizing`) | `AgentPipelineProofs` | done |
| 9 | `ResearchCache` | `ResearchCacheProofs` | done |
| 10 | `SyncRound`: the synchronisation of several experiments, with the exception that ends a round (`broker_sync.py:70`) | none: liveness | open |
| 11 | `PaperTrading`: `PaperSteps` and `PaperAccounting` composed, so that the order of an accounting round is the order of a step | refinement | open |

Abstract specifications: the audit ledger (`StepLedger`, implemented by `PaperSteps`), and the ledger of
fills in which each share of each order is booked once (`FillLedger`, implemented by `PaperAccounting`).
Until 11 is there, the modules meet in what one proves and another assumes: `PaperAccounting` has one runner because of
`PaperSteps!OneRunningStep`, `SimulatedPortfolio` makes bars one after the other because of
`HistoricalRuns!BarsInOrder`, and both size orders with the operators of `RiskSizing`.

## Modules and code

Every action is one database transaction, the part of one up to its next read, or one broker call.
A history variable is marked so in the module; no action reads one.

### StatusMachine, StepLedger

`StatusMachine` is `modules/experiments/status_machine.py`: which action is accepted in which
status, and its target. `StepLedger` is the abstract specification of the rows of
`execution_steps`: a step is opened under the next number while none is running, and closed once.

### PaperSteps

One paper-trading experiment. The variables are the columns that control anything
(`expStatus`, `status`, `trigger`, `scheduledFor`, `riskCheck`, `order`, `decision`), the advisory
`lock`, the clock (`slot`), and per thread its place (`pc`) and local variables. `submissions`
counts what the broker accepted for a step. Market data, strategy and agent are a choice of the
step's outcome: HOLD, BUY or SELL, failure, failure that also fails the experiment.

| code | actions |
|---|---|
| `POST run-next-step`, `trigger_due_paper_trading_experiments`, `scan_once` and `_trigger_once` | `Request`, `Tick`, `SelectEvent`, `InsertDecision`, `DecisionConflict` |
| `_validate_and_create_step` | `ReadStatus`, `RefuseConfiguration`, `AcquireLock`, `CheckSteps`, `InsertStep` |
| `_run_*_step_artifacts` | `HoldStep`, `ApproveOrder`, `ArtifactsFail` |
| `_run_broker_execution` | `PlaceOrder`, `PlaceOrderRaises`, `RecordOrder`, `RecordFails` |
| handlers of failures | `PersistFailure` (`run_next_step`), `FailEventDecision` (`_trigger_once`) |
| `apply_lifecycle_action` | `ReadLifecycle`, `CommitLifecycle` |
| time; the end of the process | `AdvanceSlot`, `Crash` |

The status is read before the lock, so the insert may happen in an experiment that has been paused
since. `RecordOrder` writes FAILED only if the experiment it loaded was not FAILED already, because
SQLAlchemy emits no UPDATE for an unchanged column. `OutOfSteps` is the bound and no code.

The scheduler's jobs have `max_instances=1`, so one process has one job run and one scan at a time. Two
event workers are the scans of two backend processes, which meet when a deployment replaces one by
the other; the unique constraint of `event_decisions` and the advisory lock in the database are there for them.

### RiskSizing

`risk.py` and the fixed lot of the smoke test, as operators on integers. Amounts are in the smallest
unit; `Decimal` arithmetic of the code is exact in the range it is used in. A target exposure is
`target / Scale` of the portfolio value, so `Scale` stands for 100 %.

### PaperAccounting

The portfolio row and its two writers. `PaperSteps!OneRunningStep` is why there is one runner, and
`max_instances=1` why there is one synchronisation (one backend process is assumed). Both load a copy (`rcopy`, `scopy`), compute,
and write back the columns that differ from the copy (`WritePortfolio`), which is what a SQLAlchemy
flush does. `broker` is the broker's own view; the market fills one share at a time at any of
`Prices`, and an order may be cancelled or expire (`BrokerFills`, `BrokerCancels`, external).
`LoadPortfolio`, `HoldStep`, `ApproveOrder`, `PlaceOrder`, `PlaceOrderRaises`, `RecordOrder` and
`RecordFails` are the step; `ListOpenOrders`, `FetchStatus`, `FetchFails` and `SyncCommit` are
`sync_open_orders`. Three history variables say what happened: `net` (sums of the trades),
`staleWrite` and `lostFill` (a commit was computed from an outdated copy). `filled_avg_price` is optional in
the broker's answer, so `Reports` leaves it out at will; both writers then store `average_fill_price` as NULL
(`average`) with the new status and book nothing (`paper_provider.py:103`, `broker_sync.py:137`).

`FillLedger` is the abstract specification of the orders in it, without threads, answers and money: an
order is accepted, worked on by the broker, booked in portions that have been filled, and settled with
the last of them; or it is written off, with what is booked by then, which is what a final answer without an
average price comes to (`Unpriced`).

### HistoricalRuns

The steps of one historical experiment. A client is a request thread together with the background
run that its start request launches; a stepper is a thread in `HistoricalStepRunner`, asked by a
user or by the historical scheduler job (`MANUAL` stands for `SCHEDULED` too). Both kinds go through
`LoadBars`, `ReadMax`, `InsertStep` and `RunStep`; only steppers read the status, take the lock
and look for a running step (`ReadStatus`, `AcquireLock`, `CheckRunning`). A run takes its bar from
its loop, a stepper from the number of rows (`NextBar`). `Raises` is an exception at any point and
`PersistFailure` its handler. `mixed` (history) says that a full run was not alone: it overlapped
another thread, or steps existed when it started.

### SimulatedPortfolio

The money of a historical experiment when its bars are made one after the other, which
`HistoricalRuns!BarsInOrder` says of a run that is not `mixed`. A bar is one action, `RunBar`,
because the code commits it in one transaction; a bar that raises leaves no trace in the portfolio
and ends the run. `Decide` is the strategy, `Evaluate` the risk check, `Execute` the simulated fill,
`Valued` and `MaxDrawdown` the snapshot and its metric. A session of opening range breakout is
its range, which the run computes in advance from the opening bars (`Closes` makes the bars fit it), a
flag for a completed round trip, and an end chosen freely, so that early closes are included.
Drawdowns are rounded down here and half-even in the code; the property compares falls rounded alike.

### TradingCalendar, OrbSession

`TradingCalendar` is `UsEquitiesTradingCalendar` (`market_data/trading_calendar.py`) as operators on
`date.toordinal()`: leap years, weekdays, the computus for Good Friday, observed holidays (the Jan 1 that
falls on a Saturday makes Dec 31 a holiday, which the exchange does not do), early closes, the bars of a
session and the hourly windows. `MCOrbSession` evaluates it against references of another form as
assumptions, for all years from 1990 to 2060.

`OrbSession` is an Opening Range Breakout experiment in paper trading over the calendar's days. The
question it asks is what becomes of "one round trip per session" when the session is not a loop in
memory, as in the full run, but is rebuilt at each step from the trades booked so far.

| code | actions |
|---|---|
| `jobs.py`: due slot, `_opening_range_breakout_slot_is_available` | `FindDueSlot` |
| `_validate_and_create_step` | `CreateStep` |
| `_orb_round_trip_completed`, in a transaction of its own | `ReadTrades`, `LoadFails` |
| the portfolio, `opening_range_breakout.decide`, risk check | `Decide` |
| order placement | `SubmitOrder`, `SubmitFails` |
| broker (external); `broker_sync` | `BrokerFills`, `BookFill`; `AtClose` for day orders |
| clock | `NextBar`, `NextDay` |

A price is what the strategy tells apart: above, inside or below the range. `booked` and `before` of a
step are history.

### NewsEvents

`scan_once`: the query for experiments (`Scan`), the loop over articles and symbols (`Look`, `Store`,
`NextEntry`: the queries and the inserts of `_store_event_and_impact` are apart, because its unique
constraint is what two processes meet in), and `_trigger_once` for each experiment (`TriggerOnce`,
`InsertDecision`). `Conflict` is the IntegrityError that nobody catches, `ScanFails` any other exception.
`Publish`, `Edit`, `Start` and `Halt` are the news and the users. `Tick` is the interval of the job:
`misfire_grace_time` and `max_instances` let one late or busy scanner miss it, at the price of a mishap.
What `run_event_step` does with a decision is in `PaperSteps`.

### AgentPipeline

One decision, in both agent modes. The single agent has one stage and one repair; the pipeline has its
analysts, the risk manager and the decision stage, with two repairs each. `LoadContext` and `LoadRaises`
are the part before the first model call; `CompleteRaises`, `ValidAnswer`, `MalformedAnswer`,
`RepairRaises`, `RepairUnavailable` and `ParserRaises` are the outcomes of a call, and `EndStage` and
`FallBack` what the stage leaves in the log and hands on. `Decide` is `decision_gate.py`, with the exposure
rounded half-even as `quantize` does, the decision, and the risk check on its target. An answer is the few
fields that the gate looks at. `told` is history. Two details that reading the documents would not
suggest: an answer with NaN raises `decimal.InvalidOperation`, which is no `AgentOutputParseError`, so it
is neither repaired nor replaced by the fallback of BR-026 and BR-027 (`ParserRaises`); and the histogram
of the MACD indicator (`technical_analysis.py:139`) is always zero or missing, which changes what the
model is told and nothing in this module.

### ResearchCache

`ResearchCache.load` over the datasets of FMP and Yahoo, called one after the other by steps that share a
symbol. A step's writes stay in `mine` until `Commit`, and lock their key until then: `Write` waits for
another's lock, `Conflict` is the insert of a key that was committed meanwhile. `Fetch` and `FetchFails`
are the request; without an old row a failure drops the provider's remaining datasets. `read` is history:
when the payload was really read.

## Runs

States are distinct states. Every property is broken by a mutant of the code under the same run.

| run | instance | properties | states |
|---|---|---|---|
| `steps` | 1 manual thread, 1 job run, scans of 2 processes, 1 client, 1 event, 2 steps, 1 slot, 1 crash | `TypeOK`, `OneRunningStep`, `SlotOnce`, `EventOnce`, `OrderNeedsRiskCheck`, `CompletedIsAudited`, `TriggeredIsServed`, refinement of `StepLedger` (`LedgerSpec`) | 2 480 000 |
| `liveness` | 1 manual thread, 1 job run, 2 steps, fairness | `StepEnds` | 68 000 |
| `books` | 2 orders, 2 targets, 1 crash, fairness | `TypeOK`, `BooksBalance`, `NoDoubleFill`, `FinalOrdersAreBooked`, `FinalStatusStays`, `OrdersCatchUp`, refinement of `FillLedger` (`FillsSpec`) | 175 000 |
| `bars` | 1 client, 2 steppers, 2 bars, 3 rows, 1 crash, fairness | `StepsTakeTurns`, `BarsInOrder`, `CompletedIsCovered`, `AuditTrail`, `StepEnds`, `RunReachesVerdict` | 387 000 |
| `simulation` | 3 strategies, 6 bars, 3 prices, window 2, opening range 1 | `NeverNegative`, `SellClosesBuy`, `OneRoundTrip`, `HeldOvernight`, `DrawdownIsWorstFall` | 92 000 |
| `session` | regular day, early close and holiday (2 to 4 July 2024), sessions of 4 and 2 bars, 5 orders, 1 mishap | `SlotsInOrder`, `SecondBuyIsExplained`, `CarriedIsExplained` | 5 190 000 |
| `news` | 2 scanners, 2 articles, 1 experiment, window of 2 intervals, 3 intervals, 1 mishap | `DecisionIsRelevant`, `ServedInWindow` | 4 160 000 |
| `agent` | both modes, 1 analyst, 3 portfolios, 2 prices, targets in thirds, fairness | `TypeOK`, `OrderFollowsDecision`, `OrderIsAdvised`, `AuditIsTrue`, `DecisionEnds` | 499 000 |
| `cache` | 2 steps, 2 datasets of FMP and 1 of Yahoo, one without expiry, fairness | `CollisionIsFirstFetch`, `HitsAreFresh`, `LoadsEnd` | 509 000 |

Why the bounds are enough:

- *steps*: a conflict needs two steps, two threads of different kinds, and for events two scans. One
  slot that stays due is found due again and again by the same job, which is what `SlotOnce` is about.
  The proofs cover all larger instances.
- *books*: two orders are open at once, are placed and synchronised in any order; the crash falls
  between any two actions, and any answer may lack the average price. Prices do not matter to the properties, and the proofs have any.
- *bars*: a first and a last bar; two steppers so that the lock and the check matter; a crash,
  so that the run is gone and steppers take over. A third row is where a stepper would go one too far.
  The inductive invariant of the proofs was also checked with three bars and with two clients.
- *simulation*: six bars hold two round trips, three sessions of two bars, and every order of rise and
  fall between three prices; drawdown needs a peak, a fall, a new peak and another fall.
- *session*: four bars are two round trips, and the fifth order enters once more the next day, when a SELL
  of the day before may still be unbooked. The opening range is left out (`RangeBars = 0`: a bar in it only
  holds), because five orders that overlap over two sessions are what the causes in
  `SecondBuyIsExplained` and `CarriedIsExplained` need; `blocked` starts on the early close, has a range of
  one bar, and the holiday between its sessions. The inductive invariant of the proofs was also checked
  with a range and four orders.
- *news*: with a window of two intervals an article is out of sight in the third, and one mishap is all
  that `ServedInWindow` allows for. Two articles make the
  order of the loop matter, and an exception in the first lose the second.
- *agent*: one analyst stands for all, since the code treats them alike and only counts failures; the
  risk stage and the deciding stage follow. Thirds and portfolios that do not divide evenly give the gate a
  rounded exposure on both sides of the target.
- *cache*: two of one provider's datasets, so that a step waits while it holds a lock, and one of another,
  so that one provider's failure goes on with the next; a row expires after one unit of time.

Deadlock is checked in `steps`, `liveness`, `bars`, `news` and `cache`. It is off where the system really
stops: an experiment that has failed with all its orders final (`books`, `short`), a simulation after its
last bar, the last of the days (`session`, `blocked`), a decision that is made (`agent`), an event step
that blocks (`event_step_ends`). Symmetry is used for interchangeable threads in
runs without liveness only.

## Where code and documents disagree

Three runs check a rule of the documents that the code does not keep; each is expected to be violated.

| run | rule | what happens |
|---|---|---|
| `event_step_ends` | `EventStepEnds`; a failure fails the step and keeps the experiment running (business rules, failure policy) | `run_event_step` has no handler of failures: the step stays RUNNING, and since `has_running_step` then holds for ever, no step of the experiment is made again |
| `short` | `NeverShort`; "The system never opens short positions" | two SELL orders are sized from the same local position, because the first is still open or its answer was lost; the broker sells twice |
| `blocked` | `BlockedByOwnSession`; M16 and M23: without a position a close above the range buys, one round trip per session | the final bar is due when the market has closed, so its exit fills at the next opening; the trade's date is that session, which then counts as having traded and holds to its end |

More rules are stated in their modules and not kept. They have no run of their own; adding one to a
configuration of its module shows the behaviour:

- `PaperSteps!StepsOnlyWhileRunning`: `ReadStatus`, then a pause commits, then `InsertStep`. The paused
  experiment gets one more step and perhaps an order.
- `PaperSteps!LegalTransitions`: a stop and a step that fails the experiment each read RUNNING; STOPPED
  becomes FAILED or FAILED becomes STOPPED. A stop and a pause, both validated against RUNNING, give
  STOPPED to PAUSED, which may then be resumed.
- `PaperAccounting!CashMatchesTrades` (BR-052): the step runner has loaded the portfolio and waits for the
  broker, the synchronisation job books a fill of another order, the runner writes its own cash over it
  (`broker_sync.py:92`).
- `PaperAccounting!CashNotNegative`: the quantity is sized at the bar's price and filled at a higher
  one, or a second BUY is sized while the first is open.
- `PaperAccounting!TradesCostWhatWasFilled`: two shares filled at 2 and at 4. The first trade is booked
  at 2, the second at the order's average, 3: together 5, paid were 6.
- `PaperAccounting!FinalOrdersAreBookedInFull` (M20; `docs/02_domain/02_workflows.md:263` and 267): the
  answer says `filled` with a quantity and no `filled_avg_price`. The row becomes FILLED, no trade is made,
  cash and position do not change, and `list_open_paper_orders` never selects the order again
  (`broker_sync.py:137`; `paper_provider.py:103` when it is the answer to `place_order`).
- `PaperAccounting!NoOrderGivenUp`: `place_order` answers `held`; the row becomes FAILED, and
  `list_open_paper_orders` never selects it again while the broker works on the order.
- `HistoricalRuns!OneRunningStep` (BR-013): a manual or scheduled step runs between two transactions of
  the full run, which takes no lock (`orchestrator.py:125`).
- `HistoricalRuns!StopIsPermanent` (`docs/05_backend/service-contracts.md:272`): the full run never reads
  the status again and writes COMPLETED over STOPPED (`orchestrator.py:322`).
- `HistoricalRuns!CompletedIsQuiet`: a stepper has found no running step, the run inserts its last
  row, the stepper then counts as many rows as bars and completes the experiment.
- `OrbSession!NoReentry` (M23): a SELL is booked between the transaction that reads the trades and the one
  that reads the portfolio; the step sees no round trip and no position, and buys again.

What does hold is stated so that it says how far the code's guarantee goes: `BooksBalance` up to lost
updates and clamped shares, `FinalOrdersAreBooked` and `FillsSpec` up to a last answer without a price,
`StepsTakeTurns` and `BarsInOrder` unless a full run was not alone,
`SecondBuyIsExplained` and `CarriedIsExplained` with the list of races, `CollisionIsFirstFetch` for
datasets nobody has fetched before, `ServedInWindow` for fewer mishaps than the window has intervals.

Further observations made while modelling, which no property states:

- The final bar of a session may still BUY. In a historical run the position is then held overnight
  (`HeldOvernight` says that nothing else is); in paper trading the order fills at the next opening.
- A bar that the feed has late, or that another experiment holds up, is skipped for ever. The job runs
  the daily, hourly and smoke experiments first. The daily slot is due at 15:55 also after an early close.
- An hourly agent step by hand or by an event uses the present time as its slot, which is no hourly
  window: it always ends with `MarketDataUnavailableError`, and in the event's case stays RUNNING.
- The classifier's relevance is never below 0.70, so the default threshold 0.65 lets everything
  through; a decision that has FAILED is never tried again, since it exists.
- A step that fetches slowly may set `fetched_at` of a row back; transcripts are kept for ever, also if
  the answer was empty.
- The gate's `fallbackReason` replaces that of the stage that failed; `AuditIsTrue` is about the stages' logs.

## Fairness

`Spec` has none: users, clock, news and market are never obliged to act, and the runs for safety alone
use it. The others use `FairSpec`:

- `PaperSteps` and `HistoricalRuns`: weak fairness of `Proceed(t)` for each thread. A request thread
  or job that has started is scheduled by the operating system until it returns; every location but
  `idle` has an enabled action, and no action waits (`pg_try_advisory_xact_lock` returns at once).
  External calls end with an answer or an exception, because the HTTP clients have timeouts.
- `PaperAccounting`: weak fairness of `ListOpenOrders` (an APScheduler interval job), of the answer or
  failure of `get_order_status`, and of the commit; strong fairness of the broker answering about each
  order, since an order that is asked about on every round is answered some day. Without it a broker
  that always fails refutes `OrdersCatchUp`, rightly.
- `AgentPipeline`: weak fairness of `Next`: every call of the model ends, with an answer or by the
  timeout of the HTTP client. Nothing is assumed of the answers: they may all be malformed.
- `ResearchCache`: weak fairness of what a step does by itself, for the same reason, and strong fairness
  of `Flush`, which waits for locks: PostgreSQL serves the waiters of a lock in their order, so none is
  overtaken for ever. With weak fairness a step could starve while another takes the row again and again.

Crashes are excluded in the liveness properties of steps: after one a RUNNING step has no owner and, as
the code has no recovery of such steps, stays RUNNING.

## Proofs

Proved with TLAPS for all values of the constants, from the assumptions in the modules. These say
that the kinds of thread are disjoint, bounds and capital are natural numbers, prices are positive,
targets and portfolios integers, a ttl positive or `Forever`.

**PaperStepsProofs.** `IInv` is inductive: `Init => IInv`, `IInv /\ [Next]_vars => IInv'`. `OneRunningStep`
alone is not: between the check and the insert of a step a second thread could insert another one. The
argument: whoever is between `AcquireLock` and the commit of `InsertStep` holds the lock (`LockInv`), so
what `CheckSteps` has seen is still true when the step is inserted (`ReadyInv`), since steps and slots are
only taken under the lock. A thread that is in a step owns it, alone (`OwnerInv`). `RowInv` and `PhaseInv`
say what exists of a step at each point of its run, and give the order of risk check, submission and
order. `EventInv` and `ServedInv` follow an event from its decision to its step. From it follow
`TypeCorrect`, `NoConcurrentSteps`, `SlotsRunOnce`, `EventsRunOnce`, `OrdersAreChecked`,
`CompletedStepsAreAudited`, `DecisionsAreServed`, `FailuresHaveSteps`, and `ImplementsLedger`: every step
of `PaperSteps` is `Open`, `Close` or a stutter of `StepLedger`.

**PaperAccountingProofs.** `FillsBookedOnce`, `FinalOrdersBooked`, `BooksAreBalanced`, `ValueStaysCurrent`,
`PositionStaysNotNegative`, `FinalStatusIsKept` and `ImplementsFillLedger`, for any number of orders, prices and targets. The
invariant has three parts. Of the orders: an answer in a thread's hands is a past state of the broker's
order, and a final answer is its last state (`Reported`); an order that is placed and not recorded has no
trades (`RunnerInv`); every order in the job's list is still SUBMITTED, since nothing else closes it
(`SyncInv`). Hence the shares the job adds are the answer's less those booked, and never too many. Of the
loaded copies: their position is not negative (`CopyInv`), so whatever is written over the row is not
either. Of the money: `Money`, where `FillWritten` and `ValueWritten` say what a flush makes of an up-to-date
and of an outdated copy. `BooksAreBalanced` and `ValueStaysCurrent` are about histories in which no outdated
copy was written; `CashMatchesTrades` fails in the others. `FinalOrdersBooked` is about rows that have an
average price: the last answer had it, so its commit booked the rest. `ImplementsFillLedger` covers every
row: placing an order is `Accept`, what the broker does is `Work`, the two commits that write the status are
`Book`, or `WriteOff` if the answer is final and lacks the price (`RecordBooks`, `SyncBooks`, both from
`BookingStep`), and every other step is a stutter of `FillLedger`.

**SimulatedPortfolioProofs.** `NeverNegativeHolds`, `ValueIsCurrentHolds`, `SellClosesBuyHolds`,
`OneRoundTripHolds` and `HeldOvernightHolds`, for every market, capital, window, session and length of run.
The invariant adds that the position is the quantity of the trade that is still open (`PairInv`), without
which nothing relates a SELL to its BUY, and that the session knows of its completed round trip and then
has no position (`SessionInv`), without which a later BUY in the session could not be excluded. `BarFacts`
is the whole effect of a bar on portfolio and trades, from `EvaluateFollows` about the risk check;
`BreakoutFacts` says when the strategy stays out of the market. `DrawdownIsWorstFallHolds`: the loop over
the values computes the worst fall between any two of them. It is about all sequences of values, and its
induction is over the least counterexample (`LeastNumber`, `AllNumbers`): first that the recurrence of the
loop has a solution (`LoopHasResult`), then what the loop knows after n values (`KnowsMore`), where the only
arithmetic is that a rounded fall to the same value is worse from a higher peak (`HigherPeakWorse`). That
needs values that are never negative, which `NeverNegative` and `ValueIsCurrent` give.

**HistoricalRunsProofs.** `RunnersTakeTurns`, `BarsStayInOrder`, `CompletionCovers` and
`RowsAreAnAuditTrail`, for any sets of clients and step runners and any number of bars and crashes.
`BarsInOrder` alone is not inductive: nothing in it relates a run's loop index, or a stepper's count of
rows, to the rows. The invariant adds that the rows are numbered 1 to n (`RowsAre`; `MaxIsLast` says that
`max_sequence_number` is that n), that a thread owns its RUNNING step alone and inserts at most after the
last row (`OwnerInv`), that only the holder of the lock is between check and insert (`LockInv`), that
whoever is about to insert knows of no RUNNING step (`QuietInv`), that a run which is not mixed is alone
(`AloneInv`) and at the bar after the last row's (`BarInv`), and that all steps behind a stepper have ended
(`BehindInv`), without which its last bar would not say that the others are done. `WaysIn` and `RowEffects`
say once, for all actions, where a thread comes from and what it does to the rows; each part of the
invariant is then one lemma.

**AgentPipelineProofs.** `OrdersFollowDecisions`, `OrdersAreAdvised` and `AuditStaysTrue`, for any number
of analysts, any scale, integer portfolios, prices and thresholds. The invariant relates the entry of each
finished stage to the answers it got, and says that a stage which failed as risk manager has left HIGH. The
first theorem is arithmetic: the rounded exposure is one of the two neighbours of the exact one, so a
whole target above the one is not below the other (`RoundingKeepsOrder`), and the risk check's order
points where the target is (`OrderPointsToTarget`), cut to zero at worst. The operators of `RiskSizing`
have theorems of their own here. `EvaluateIsCovered` and `TargetExposureIsCovered`: for every integer
portfolio, a BUY is at least one share and costs no more than the cash, a SELL is at least one share and no
more than the position, however old the stored value is. `TargetIsNotOvershot`: an order never moves the
position's value past the target. Their lemmas are about the integer quotient.

**NewsEventsProofs.** `DecisionsAreRelevant`: between the query that found a row missing and the insert,
the row may have been committed by another scan with another text; the unique constraint then refuses the
insert, so the targets of a scan always come from the relevance on record (`TargetInv`), and
`RelevantForEver` says that neither a decision nor this relevance is ever taken back. `ServedBeforeWindowEnds`, for any number of
scanners, articles and experiments and every window: as long as fewer mishaps have happened than the window
has intervals, an experiment that has been running is served when the window has passed. `CountInv`: each
full interval that went by without serving has cost a mishap, and the present one still may serve (`Hope`) or
has cost one too. `Hope` is the point: every scan under way reaches the article, and one of them is not
doomed to a conflict. A scan is doomed by the insert of another, which thereby is not; so conflicts, however
many, never end all scans of an interval (`StepHope`). A tick without mishap finds every scan ended, so that
hope must have come true (`TickCount`). The first version of the property also assumed that no scan still
had the article on its list; the proof does not need it, and the property no longer says it.

**ResearchCacheProofs.** `OnlyFirstFetchCollides`: rows are never deleted, so a dataset known at the start
is updated, not inserted (`KnownInv`). `HitsStayFresh`: every row's `fetched_at` is no later than its
payload was read, through fetch, wait for the lock and commit (`AgeInv`). `NoCircularWait`: what a step has
locked is behind its present dataset (`OrderInv`), so whoever is waited for is further on; together with `LoadsEnd`, checked by TLC, nobody waits for ever.

**OrbSessionProofs.** `SlotsAreInOrder`, `SecondBuysAreExplained` and `CarriedIsAlwaysExplained`, for any
days, lengths of session, number of orders and mishaps, with an opening range shorter than an early session
(6 bars of 42 in the code). None of the three is inductive. The invariant adds where the job is and which row
is its own (`JobInv`), that no slot is of the future (`ClockInv`), what an order's states and dates allow
(`OrderInv`) and what a step can have read (`ReadInv`). The argument is about the portfolio a step has read:
a position that is zero after a BUY was booked means that a SELL was booked after that BUY's step read it
(`HeldInv`), because an earlier one the BUY would have seen. `EntryInv` says what the position and the flag
of the round trip, read in two transactions, tell of a BUY; `ExitInv` the same of the final bar's SELL; and
`SentInv` that a completed step which decided to sell has its order. The first version of both explanations,
true with the former bounds of `session`, could not be proved, and TLC with a fifth order showed why: of two
SELLs that overlap, the one filled earlier may be booked last, takes the lots of a BUY it did not know of,
and carries the date of the session before, so that no step takes it for a round trip. The properties now
name this cause and the run reaches it.

The module also holds what is proved of `TradingCalendar`, for all years. `GoodFridayIsAFriday`: the
algorithm's remainders add up to a Friday between 20 March and 23 April (`CenturyWeekday` counts the weekday by
century and year, `SpringDates` the days of March and April in one number, as the algorithm does).
`HolidaysAreWeekdays`, from a lemma per kind of holiday. `SessionsAreTheTradingDays`: the code looks for a day
among the holidays of three years (`range(start_year - 1, end_year + 2)`), because New Year's Day may be
observed in the year before; it misses none, since the holidays of a year lie in it or on the day before
(`HolidayFacts`) and the years follow each other (`YearsInOrder`, `YearOfDay`).

Only model-checked: liveness and `ENABLED` (`StepEnds`, `OrdersCatchUp`, `RunReachesVerdict`,
`DecisionEnds`, `LoadsEnd`), which the prover does not do under fairness, and of the calendar that Good Friday
belongs to Easter and that hourly windows are full: `MCOrbSession` compares the calendar with other definitions
of the same days for the years 1990 to 2060.

## What is not modelled

- *Parsing of market data, prompts and the texts of answers*: input. Their failures are modelled as
  failures of the step, the stage or the dataset that asked.
- *Several experiments*: their rows do not meet, except in the research cache (modelled), the news events
  (modelled), and the order of a job's list, which belongs to `SyncRound`; `PaperAccounting` assumes that
  the exception which ends a round does not come every time.
- *Daily, hourly and smoke-test slots of the scheduler*: `PaperSteps` has slots without times. Only the
  five-minute slots are modelled with the clock and the calendar.
- *Historical agent steps*: `HistoricalStepRunner._run_agentic_ai_step` cannot be reached, since
  `step_runner.py:166` refuses the strategy.
- *Return and profit metrics*: single formulas without history.
- *Fractions of the smallest unit*: amounts are integers. The columns keep four decimals of amounts and
  eight of prices; only averages of fills are rounded, which the model rounds down.
- *Authentication, validation of requests, read API, frontend, migrations*: no state of the trading system.
