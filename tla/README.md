# TraderAI verification

TLA+ models of the parts of the TraderAI backend (`backend/app`) in which
concurrency, failure, order or time decide whether the program is correct: paper
trading, the candle pipeline, the quote stream, the market operations scheduler, the
Kite login, instrument sync and universe selection, the scanner and the evaluation of
candidates by a model. TLC checks them on small
instances (`MC*.tla`, `*.cfg`); TLAPS proves the theorems of the modules `*Proofs.tla`
for every value of the constants.

    tlc -workers 4 -config MCPaperTrading.cfg MCPaperTrading
    tlapm PaperTradingProofs.tla
    tlapm CandleBuilderProofs.tla
    tlapm StreamServiceProofs.tla
    tlapm MarketOpsSchedulerProofs.tla
    tlapm DecisionEvaluationProofs.tla
    tlapm ScannerProofs.tla
    tlapm BrokerSessionProofs.tla
    tlapm UniverseSelectionProofs.tla

`PROJECT.json` maps every definition to the source lines it models and lists the
runs, the mutants, the hazards, the findings and the theorems.

## The system

The backend is one asyncio process (FastAPI) with PostgreSQL and Redis behind it,
a Kite ticker with a thread of its own, and command line tools that may run the
same services beside it.

| Component | State it keeps | Operations | What is hard | What makes it correct |
|---|---|---|---|---|
| Paper simulator (`paper/simulator.py`) | none | instruction, fill, exit | one bar meets several exit conditions; sessions are IST days of UTC times; bars arrive after a simulation | no look-ahead, stop before target, flat by force-flat time, later bars keep final fills |
| Paper replay (`paper/service.py`, `repository.py`) | trades, orders, order events, journal | `run_replay` | requests interleave between check and write; unique-index conflicts; crashes | one trade per signal, the cap, tables that agree |
| Paper report (`paper/reporting.py`) | none | `build_paper_report` | several journal rows per signal | each trade counted once |
| Candle builder (`market_data/candle_builder.py`) | candle in progress, last tick, cumulative volume | `accept_tick`, `flush_completed_before`, `invalidate_after_stream_gap` | repeated, late and volumeless ticks; gaps | emitted candles are exact, whole, in order, once |
| Quote stream (`market_data/websocket_service.py`) | stream, connected, last error, saves in flight | `start`, `stop`, ticker callbacks | two threads; awaits between check and use; late callbacks of old tickers | healthy means subscribed, no lost ticker, gaps invalidate |
| Scheduler (`ops/market_ops_scheduler.py`) | task, job lock, completed keys, login recovery | `start`, `stop`, `run_job`, loop | cancellation inside a job; operators beside the loop; state that outlives stop and midnight | one job at a time, once per slot, retries inside the window, recovery ends |
| Scheduler's jobs (`ops/market_ops.py`) | none | preopen check, start, verify, stop, scan, universe | each reads what may change under it | the summary reaches the recovery |
| Kite session (`broker/`) | login states (Redis), session rows | login URL, callback, status, logout | racing callbacks at READ COMMITTED, late marks, an exchange at 06:00, lost answers of Kite | one session per login URL, nothing older in use after a logout, a logged-out token is dead |
| Watchlist and instrument sync (`market_data/watchlist*.py`, `instrument_sync.py`) | instruments | parse, diagnose, sync | a failed statement aborts a transaction that goes on counting; two syncs; two parsers | honest counts, diagnosis and strict parser agree |
| Stream readiness (`market_data/stream_readiness.py`) | none | readiness, gate of the start route | read before, used after several awaits | what the gate admits the stream accepts |
| Scanner (`scanners/`) | signals, loop task, run lock | `run_once`, `run_batch`, `run_now`, auto loop | overlapping runs, cancelled runs, late candles, a failing symbol | one signal per strategy and bar, candidates on complete sessions only, exact results |
| Decision (`decision/`) | recommendations, evaluation lock | `evaluate`, batch automation | concurrent evaluation of one key, bad model answers, failures after the commit | one recommendation per key, one paid answer per candidate, nothing ELIGIBLE that was not earned |
| Universe (`universe/`) | universe runs | select, validate | candles and instruments change while symbols are scored one by one | every entry ranked or excluded, only whole sessions selected, selections stay resolvable |
| Analysis, notifier, CLI, settings, schema | none of their own | pure computation and I/O | - | - |

How they interact: the ticker's thread feeds the candle builder, completed candles
go to the `candles` table through the event loop; the scanner reads candles and
writes `signals`; paper replay and decisions read signals. The scheduler calls the
stream service, the scanner and the universe selection through the orchestrator;
operators call the same services through routes, without the scheduler's job lock.
Sync, stream and readiness read the latest Kite session; stream, scanner and universe
selection read the instruments that syncs store; the scanner may take its symbols from
the latest universe run.

## Modules

| Module | Models | Extended by |
|---|---|---|
| `PaperSimulator` | `paper/simulator.py`, outcomes of `paper/schemas.py` | `PaperReplay`, `PaperTrading` |
| `PaperReplay` | the replay of one signal while its bars are stored | `MCPaperSimulator`, `PaperTradingProofs` |
| `PaperTrading` | `paper/service.py`, `paper/repository.py`, the rows it reads | `PaperReport` |
| `PaperReport` | `paper/reporting.py` over the journal | `MCPaperTrading`, `PaperTradingProofs` |
| `PaperLedger` | what paper trading promises (abstract) | instantiated by `PaperTrading` |
| `PaperTradingProofs` | theorems about `PaperTrading`, `PaperReport` and `PaperReplay` | |
| `CandleBuilder` | `market_data/candle_builder.py`, volume rule of `normalize_tick` | `MCCandleBuilder`, `CandleBuilderProofs` |
| `CandleBuilderProofs` | theorems about `CandleBuilder` | |
| `StreamService` | `market_data/websocket_service.py`, `kite_market_client.py` | `MCStreamService`, `StreamServiceProofs` |
| `StreamServiceProofs` | theorems about `StreamService` | |
| `MarketOpsScheduler` | `ops/market_ops_scheduler.py`, effects of the jobs of `ops/market_ops.py` | `MCMarketOpsScheduler`, `MarketOpsSchedulerProofs` |
| `MarketOpsSchedulerProofs` | theorems about `MarketOpsScheduler` | |
| `DecisionEvaluation` | `decision/service.py`, `repository.py`, `automation.py` | `MCDecisionEvaluation`, `DecisionEvaluationProofs` |
| `DecisionEvaluationProofs` | theorems about `DecisionEvaluation` | |
| `CandleSessions` | the sessions of a candle series (`analysis/feature_builder.py`) | `Scanner`, `UniverseSelection` |
| `Scanner` | `scanners/service.py`, `auto_loop.py`, `repository.py`, `vetoes.py` | `MCScanner`, `ScannerProofs` |
| `ScannerProofs` | theorems about `Scanner` | |
| `BrokerSession` | `broker/kite_auth_service.py`, `session_store.py`, `session_provider.py` | `MCBrokerSession`, `BrokerSessionProofs` |
| `BrokerSessionProofs` | theorems about `BrokerSession` | |
| `Watchlist` | `market_data/watchlist.py`, `watchlist_validation.py`, `stream_readiness.py` | `InstrumentSync` |
| `InstrumentSync` | `market_data/instrument_sync.py`, `repository.py`, gate of `api/routes/market_data.py` | `UniverseSelection` |
| `UniverseSelection` | `universe/service.py`, `validation.py`, `scoring.py`, `repository.py` | `MCUniverseSelection`, `UniverseSelectionProofs` |
| `UniverseSelectionProofs` | theorems about `InstrumentSync`, `Watchlist` and `UniverseSelection` | |

Definitions with `Mutant:` in their comment are plausible bugs; each property has
one that must break it.

### PaperSimulator and PaperReplay

Pure operators: `Instruction` (`build_instruction`), `Simulate` (`simulate`) with
`SameDayFuture`, `EntryCandles`, `ExitAt`, `ExitPrice`, and `Outcome`, what
`run_replay` makes of a signal and its bars. Prices are integers; percentages are
units of `1/Unit`, and rounding to a paisa is `Q`. `PaperReplay` stores the
bars of a session minute by minute, with every combination of shapes, and checks
the outcome of the stored bars in every state; because a state keeps the earlier
bars, `LaterBarsKeepFills` compares a simulation with the same one after more bars.

### PaperTrading and PaperReport

A worker is one execution of `run_replay`. Its program counter stops at each
database await: `DupCheck`, `CapCheck`, `SimulateSignal`, then the transaction,
which commits (`RecordOutcome`) or meets the unique index (`RecordConflict`) and is
then recorded as a duplicate. `Crash` ends a worker anywhere. `StoreCandle` adds or
overwrites a bar, `InsertSignal` adds a signal of a stored bar. `trades`, `orders`
and `journal` are sequences whose index is the primary key.

`PaperLedger` is the promise to a reader of the tables: a book of trades and an audit
trail, both only ever extended, by one trade and its entry, for a signal that has
none. `Ledger` maps the book to the stored trades and the audit trail to the journal
rows that name a trade; `ImplementsLedger` says that every behaviour of `PaperTrading`
is one of the ledger.

### CandleBuilder

The builder's three maps, one action per operation. `NormalizeVolume` is
`volume_traded or volume`: a zero in the first field gives way to the second, in which
it counts. `log` and `emitted` are history:
the ticks taken and the candles returned, from which the reference candle of a
minute is computed. Ticks of one connection come in exchange order or are repeated;
after a gap the feed begins no earlier than before it.

### StreamService

The event loop and the reactor thread. Callers advance from await to await;
`onLoop` is the caller that is between two steps without an await, so that only the
reactor thread can interleave there. Ticker phases are external: `lost`, `closing`
and `aborting` have an `on_close` still to come. A failed subscription is two steps of the
reactor thread: `SubscribeFails` stores the error, `DropStream` reads `_stream` again and
closes it; `blamed` and `victim` remember whose subscription failed and which other
stream was closed for it. Of the builder only the connection of its volume baseline is
kept.

### MarketOpsScheduler

`task` is the await the loop is at, `job[c]` the job of a caller and the await it is
at. `RunDueJob`, `RunRecovery` and `WarningDone` are the loop's polls; `JobBody`,
`JobReport` and `LinkDone` are the steps of `run_job`. `Stop` cancels the loop at any
await. Time is in polls. `launched` and `episode` are history: keys already
launched, and the recovery episode as the documentation describes it.

### DecisionEvaluation

A batch is a scanner job or an evaluate-latest request, an operator is an evaluate
request; `job[c].pc` is the await it is at: the list of candidates, the lock, the
lookup of the key, the model, the insert, the read after a conflict or after the
commit, the notification. Batches share the service and its lock (`AcquireLock`),
operators do not. `Verdict` is `_validate_output`: what the model says after the checks
and downgrades. A forced evaluation has no key. `Fail` is an exception of any await,
`Cancel` a stop of the scheduler, `ApiRestart` may change the evaluation mode, which
is part of the key (the run has one mode; the theorems hold for any set of modes). `told` and `calls` are history.

### Scanner

A caller is a task of the auto loop or an operator; `job[c].pc` is the await it is at:
the symbols of the run, the bars of a symbol, the benchmark, an insert. What lies
between two awaits, all strategies included, depends on what was loaded and is one
step. Candles are minutes: `LoadCompletedBars`, `CurrentSession` and the context vetoes
are computed from them, while the indicator conditions are a free choice (`met`).
The evaluations of a scan that wait for their inserts are numbered (`n`) by their strategy,
and `NextEval` is the first of them. `StopLoop` only marks the run it cancels; `Unwind` ends it, later, and a new loop may
be started in between. `Fail` and `Unwind` may leave an insert committed.

### BrokerSession

A request is at one of its awaits; calls to Kite block the event loop, so only the clock
moves during one. `ConsumeState`, `ExchangeRequestToken`, `SaveBegin`, `SaveUpdate` and
`SaveCommit` are the callback. The save is written out at READ COMMITTED: the UPDATE sees
the rows that were ACTIVE when it began (`want`), waits for row locks, and takes those
that are still ACTIVE (`held`); the row that a concurrent save has not committed is
invisible to it. `rows` is in the order of the commits while `created` is the order of
the exchanges, and `LatestSession` goes by the latter. `ReadStatus` and `Logout` remember
an id over an await, `MarkExpired` and `MarkLoggedOut` use it. `Abandon` is a failed call
or a restart. The readers `StatusAuthenticated`, `GetActiveSession` and `ReadinessSession`
are three pieces of code that should agree; `Usable` is what any of them would use.
Histories: `state`, `kiteEnd` and `seen` of a row.

### Watchlist, InstrumentSync and UniverseSelection

`Watchlist` has no state: the strict parser (`StrictAccepts`), the diagnosis (`Parsed`,
`Normalized`, `DiagnosisErrors`, `ReadyForStream`) and readiness (`ReadinessErrors`,
`RecommendedAction`) as operators on a list of lines and a table. A line is the sequence
of its parts between commas: the strict parser drops the blank parts and takes the others
one by one (`Places`), the diagnosis takes the line as a whole (`OneColon`, `Key`), so
that `,`, `,NSE:A`, `NSE:A,` and `NSE:A,B` are told apart. `InstrumentSync` adds
the table, the sync with one step per statement (`SyncItem` looks up, `SyncWrite` writes,
`SyncWriteFails` aborts) and the gate of the start route. `UniverseSelection` composes it
with candles and selections: `SelectBegin` validates the pool, `Score` loads and scores
one symbol, `Save` ranks, chooses and stores the run, whose exclusions are listed only
if the request includes them (`full`). Prices, turnover, ATR and points
are a free choice (`Markets`), bars are minutes (`CandleSessions`).

## Runs

| Run | Checks | Distinct states | Shows |
|---|---|---|---|
| `simulator` | `FillsWithinSession`, `ExitsAreConservative`, `LaterBarsKeepFills` | 1.1 M | the fill rules over all bar shapes |
| `paper_trading` | `OneTradePerSignal`, `CapOvershootBounded`, `TablesAgree`, `ReportReconciles`, `ImplementsLedger` | 0.51 M | racing and crashing replays while bars are added and overwritten, the ledger's promise |
| `candle_builder` | `TypeOK`, `EmittedExact` | 2.2 M | candles against their reference: whole, in order, once |
| `stream_racing` | `HealthyIsSubscribed`, `DeadStreamReported`, `ReconnectInvalidates` | 4.4 M | two callers, three tickers |
| `scheduler` | `RecoveryStateConsistent`, `LinksAccountedFor`, `RetriesSpaced`, `OncePerSlot`, `RecoveryEnds` | 0.31 M | loop, operator, restarts, with a fair event loop |
| `decision` | `OneDecisionPerKey`, `LockHeldByEvaluation`, `BatchesCallModelOnce`, `NotifiedOnce` | 1.7 M | two batches and an operator, failures, restarts |
| `scanner` | `SignalsImmutable`, `AutoRunsExclusive`, `ReportsAreExact`, `CandidatesHaveContext` | 0.38 M | loop, its successor and an operator; late candles, failures |
| `session` | `NothingOlderAfterLogout`, `LogoutRevokesToken`, `ActiveRowsOverlapped`, `StatusSparesNewLogin`, `LoginOncePerState`, `UsableBeforeKiteEnds` | 1.0 M | logins, logouts and status calls around 06:00 |
| `universe` | `SyncReportIsHonest`, `GateImpliesStart`, `ReadinessAgreesWithStart`, `PoolAccountedFor`, `SelectedHaveFullSession`, `SelectionStaysResolvable` | 0.13 M | syncs, start gates and selections beside each other |
| `scheduler_episode` | `EpisodeEndsWithItsWindow`, violated | | finding |
| `stream_orphan` | `NoOrphanStream`, violated | | finding |
| `stream_gap` | `GapInvalidates`, violated | | finding |

Several properties name in a disjunct what the code does not promise. Some of these
exceptions contradict nothing that is written: two sessions are ACTIVE if their saves
overlap; an exchange at 06:00 yields a session that outlives its token; a sync with a
failed statement counts rows that were rolled back. The others do contradict a document
or a test, and are listed below as findings.

Hazards that no property covers, because nothing says what should happen: one-shot jobs
configured for one minute hide each other (`market_ops_scheduler.py:356`); a scanner slot
passes while the loop is busy (`:370`); an attempt at the end of the window starts the
stream after it (`:281`); an error survives a reconnection until the next start
(`websocket_service.py:256`); candidates beyond a batch's limit are left to
evaluate-latest (`automation.py:123`); of two overlapping universe runs the
one whose transaction began later counts as the latest, even if it is empty
(`universe/repository.py:141`).

`docs/WATCHLIST_AND_SCANNER_OPERATIONS.md:86` says "One-symbol failures are reported
without stopping the rest of the batch". In `Scanner` a failing symbol gets an empty
result and the batch goes on (`Fail`); `ReportsAreExact` checks the counts of every scan
that reports no failure, and leaves the others open, because an insert may have been
committed by the call that failed. The symbols of a batch share a database session
(`scanners/service.py:149`), so that an error which leaves its transaction unusable makes
the later symbols fail as well, against that sentence. `Scanner` lets any set of symbols
fail, which includes this outcome; what the session does belongs to SQLAlchemy, and no
property forbids it.

### Findings

Each with a run in which TLC finds the documented statement violated:

- *End of an episode* (`docs/MARKET_OPS_AUTOMATION.md:92`): only a running loop ends
  an episode. If the scheduler is stopped inside the window and started the next day before it, the
  preopen check finds the session missing and sends no link, because the episode of
  the day before is still pending. The run uses `PromptSpec`, in which jobs are
  quick and the loop polls in time, to show that no slowness is needed.
- *Lost ticker* (`docs/KITE_INTEGRATION.md:67`): `start` tests `_stream` before two
  awaits and not after; the scheduler's job and the operator's route can both pass.
- *Gap* (`docs/KITE_INTEGRATION.md:65`): `stop` leaves the builder to an `on_close`
  that comes later from the other thread; ticks of the next stream may come first.

Each stated as the exception of a property that holds with it and not without it:

- *Second link* (`LinksAccountedFor`; `docs/MARKET_OPS_AUTOMATION.md:92`, "Only one link
  is sent per recovery episode"): a start inside the window forgets that a link was sent
  (`market_ops_scheduler.py:252`), and the session that is still missing gets a second one.
- *Wrong ticker closed* (`DeadStreamReported`): a failed subscription stores its error
  (`websocket_service.py:238`) and closes whatever `_stream` is later (`:243`). A second
  start that clears the error (`:118`) and sets its own ticker (`:122`) in between has
  that ticker closed for good, with no error to show (`victim`).
- *Token after logout* (`LogoutRevokesToken`; `docs/KITE_INTEGRATION.md:68`, "Logout
  invalidates the Kite access token"): if an older login is saved after a newer one, its
  save sets the newer row, which stays the latest, to EXPIRED (`session_store.py:94`). A
  logout then calls Kite for neither token. The property excuses only a row that such a
  save had set to EXPIRED.
- *Commas* (`ReadinessAgreesWithStart`; `docs/WATCHLIST_AND_SCANNER_OPERATIONS.md:62-65`,
  validation reports "whether instrument sync or stream start is safe"): a file line
  `NSE:A,B` is reported ready for a sync that raises, and `,NSE:A` is refused although the
  sync would succeed. What is reported ready for the stream the strict parser accepts.

Seen in the code beside these: with `UNIVERSE_SELECTION_REQUIRE_ACTIVE_INSTRUMENT` off an
inactive symbol is listed as excluded and is ranked too, while
`docs/DYNAMIC_UNIVERSE_SELECTION.md:31` says that inactive instruments are excluded before
the ranking. `PoolAccountedFor` names the symbols that a setting admits as its exception;
the run has the special characters, the theorem both settings.

### Bounds and why they are enough

- Simulator: a six-minute day with an IST offset of two minutes; the bars are one of the
  previous session, the signal's minute, three before force-flat, one at it and one of
  the next session.
- Paper trading: two workers in `PAPER` mode suffice for check-then-write races, a
  third in `SHADOW` mode for the refusal; three candidates, of which a replay takes two,
  with a cap of one make both the conflict and the overshoot happen; two replays by one
  worker are the rerun after a crash. A bar of a replayed signal is overwritten by one of
  another shape. The theorems remove these bounds.
- Candle builder: three minutes of two seconds, two prices, both volume fields absent or
  0 to 2, and five events: enough for a baseline, a whole minute, and a gap or repetition inside it.
  Tokens share no state, so there is one. The theorems remove these bounds.
- Stream: two callers and three tickers (one stopped, one lost, one current), two
  connections each, one save in flight. Tickers are alike, hence the symmetry set; no liveness is
  checked there.
- Scheduler: a day of three minutes has the preopen check, the window and a scanner
  slot. Two polls per minute make a one-shot due twice in its minute; the window spans
  three polls and the interval two, so that an episode has two attempts of the loop. The
  theorem `SlotsCorrect` covers every number of days. The finding needs the second
  morning and a day of four minutes. `stream_verify` and `stream_stop` are run by the
  operator.
- Decision: two batches overlap in every way, an operator is beside them; two
  candidates with a limit of one per batch make a candidate fall outside; one is
  short of context. One forced evaluation gives a signal two recommendations. Batches
  are alike, hence the symmetry set. The theorems remove these bounds.
- Scanner: days of four minutes: the minute before the open, two of entries, one
  after. The benchmark misses a minute that comes after a later one, so its session has
  a hole or is whole, and the load limit cuts off the day before. Two runs
  are enough for two scans of one bar; two loops for one that unwinds beside its
  successor. Loops are alike, hence the symmetry set.
- Session: two requests are two callbacks, or a callback beside a logout or a status
  call; three logins are an old session and two that race. Days of three ticks with
  06:00 at the second one and calls of up to a tick put 06:00 before, into and after an
  exchange; a state lives two ticks, so it also expires. Requests are alike.
- Universe: two requests may be two syncs whose dumps have the tokens exchanged, a sync
  beside a gate or a selection, or two selections. The pool has a repeated, a malformed, a
  foreign and a special entry. `ReadinessAgreesWithStart` goes over all lists of two of
  fourteen lines (plain ones, malformed ones, seven with commas) and of three of four
  lines, all settings and all initial tables, with a limit of two. Requests are alike.

`CHECK_DEADLOCK FALSE` is in every configuration because clocks, bars, tickers and
requests are bounded and nobody has to call anything.

### Fairness

- `MarketOpsScheduler!FairSpec`: weak fairness of the loop's steps, of a job under
  way and of the clock: asyncio runs ready coroutines, the awaited calls have
  timeouts, time passes. Operators, logins and the ticker owe nothing. `RecoveryEnds`
  therefore allows the scheduler to be stopped instead.

### Assumptions of the models

- The database is at READ COMMITTED; a transaction is atomic; the unique index is
  checked when the transaction commits its insert.
- Scheduler: the `MARKET_OPS_REQUIRE_*` settings have their defaults; jobs never
  raise (the orchestrator catches everything and the notifier its send errors); the
  lifecycle lock makes `start` and `stop` atomic.
- Stream: a `close()` that raises has had no effect; `stop` then ends with the stream still
  set (`websocket_service.py:143`), which changes nothing and is a stuttering step of the
  model. After a `close()` that returns a ticker does not reconnect, and it ends
  with an `on_close`. A callback's two or three assignments are one step, except
  `on_connect`, which reads `_stream` again and again. Routes consult the readiness
  report before `start`; its answer may be stale by then, so the model lets callers
  start at any time (`InstrumentSync!StartGate` models the gate itself).
- Decision: notifications and decision automation are enabled; confidence is in
  percent; the adapter raises only `DecisionAdapterError`, to which `openai_adapter.py` maps
  what its client raises; the structural checks of an answer are one Boolean of it, and
  so are the context warnings of a signal.
- Scanner: scanner and auto loop are enabled; the observation mode is `SHADOW`, in which
  no quote is required; symbols are well-formed.
- Session: authentication is enabled and configured; tokens can be decrypted; no two
  exchanges end in the same microsecond, so `created_at` orders them.
- Sync: after a failed statement PostgreSQL refuses the rest of the transaction and its
  commit is a rollback; of two transactions that wait for each other one fails. Kite's
  dump lists a symbol once.
- Universe: the validation, which reads one row per symbol, is one step; a query's candle
  limit is above the candles there are; the pool is not given with the request.

## Proofs

`PaperTradingProofs` extends `PaperReport`, with it `PaperTrading`, and `PaperReplay`, with
the assumptions of the modules they use (`SimulatorAssumption`, `PaperAssumption`,
`ReplayAssumption`): finitely many workers, well-typed
settings, signals and bars, and nothing about how many there are.

- `TypeCorrect`: `Spec => []TypeOK`. `TypeOK` is inductive. The work is in the
  simulator: `OutcomeTyped` rests on the existence of the bars it looks for
  (`EarliestExists`, `LatestExists`), which need that a session is bounded.
- `OneTradeCorrect`: `Spec => []OneTradePerSignal`. Only `RecordOutcome` adds a trade
  (`TradesStep`), and it is disabled by the unique index if the signal has one.
- `CapCorrect`: `Spec => []CapOvershootBounded`. The cap is not inductive: a worker
  between its check and its write has a trade in flight. `CapInv` counts, for each
  day, the stored trades and the workers past the check (`simulate`, `record`) of that
  day: together they never exceed `MaxTradesPerDay - 1` plus the workers that may
  replay, as a worker passes only while the stored trades are below the cap. The proof
  splits the steps into those that leave the count alone (`CapQuietStep`), the check
  (`CapPassStep`) and the write (`CapTradeStep`).
- `LedgerCorrect`: `Spec => ImplementsLedger`. The initial tables map to an empty book
  and trail (`Book`, `Audit`). `TradesStep` and `JournalStep` say what a step does to the
  tables; `LedgerStep` shows that a committed trade is `Open` of the ledger, with the
  unique index and the new row's index giving the two conditions on the other trades,
  and that every other step (attempts, conflicts, crashes, refusals) is a stutter: the
  journal rows they add name no trade.
- `TablesCorrect`: `Spec => []TablesAgree`. What a request is about to record must already
  be consistent (`OutcomesOK`: a filled entry is a trade, which has an exit unless its data
  ended), which is proved of the simulator (`SimulateOK`). `JournalMatchesTrades` is then
  inductive; for the orders, `OrdersOwned` says that a filled order has a trade, and one
  trade per signal makes it the only one (`OwnedOnce`).
- `ReportCorrect`: `Spec => []ReportReconciles`. Three invariants carry it: every journal
  row has a consistent outcome, one without a trade has no result (`JournalRowsOK`); the
  rows with a trade and the trades correspond one to one (`JournalMatchesTrades`); and a
  result that a worker holds as created is that of a stored trade (`ResultsTraded`). The
  counters are then cardinalities of sets that partition the journal. The sums are
  `MapThenSumSet`, whose recursion takes an unspecified element of the set at each step:
  the lemmas on sums show that functions with these equations exist (`SumsExist`) and are
  unique (`SumsUnique`), that any element may be taken first (`SumTakes`), that rows of
  result zero may be left out (`SumSkipsZeros`) and that a one-to-one image has the same
  sum (`SumOfImage`). Each is an induction on the size of the set, stated with a set of
  numbers in place of a predicate (`SetInduction`, from the well-foundedness of `<`).
- `FillsCorrect`, `ExitsCorrect`, `NoLookAhead`: `ReplaySpec => []FillsWithinSession`,
  `ReplaySpec => []ExitsAreConservative` and `ReplaySpec => LaterBarsKeepFills`, for every
  signal, every shape and order of bars and all settings. `ReplayInv` says of the stored
  bars that there is one per minute, which the unique index of `candles` ensures, and that
  a close lies between low and high, which is the assumption on `Shapes` and what the
  candle builder makes. `SimulateCases` and `OutcomeCases` say what a filled outcome
  rests on; the rest is that a minute of the session at force-flat comes after every minute
  before it (`SameSessionOrder`), that the bars between entry and exit belong to the session
  (`BetweenSession`), and that a later bar leaves the instruction, the first fill and the
  first trigger alone (`LaterBar`).

`CandleBuilderProofs` extends `CandleBuilder` with `BuilderAssumption`: any instruments,
prices, cumulative volumes, length of a minute, and number of ticks, gaps and flushes.

- `TypeCorrect`: `Spec => []TypeOK`. A candle's prices are extrema of finite sets of ticks
  (`Max`, `Min`), which exist, and the volume difference is never negative.
- `EmittedCorrect`: `Spec => []EmittedExact`: every candle returned is the reference candle
  of its minute, and minutes are returned once and in order. `BuilderInv` says of each
  instrument that ticks were taken in the order of their times and the cached time and
  cumulative volume are those of the log (`LogOK`), that a complete candle in progress
  describes the ticks of its minute so far (`WorkingOK`), and that the returned candles do
  so for minutes that are over (`EmittedOK`). It is stated with the ticks that witness
  open, close and volume (`Whole`): a tick of a later minute leaves them alone, while the
  extrema of the reference definition would have to be computed again at each step.
- `RepeatsCorrect`: `Spec => RepeatsChangeNothing`: a tick of this connection that is
  delivered again changes nothing, because what was taken is not later than the last tick.

`StreamServiceProofs` extends `StreamService`: any number of callers, tickers and
connections.

- `TypeCorrect`: `Spec => []TypeOK`, which is inductive.
- `HealthCorrect`: `Spec => []HealthyIsSubscribed`. `Backed` covers the moment between
  `on_connect`'s subscription and its mark: a ticker that is open and subscribed, or one
  whose `on_close` is still to come and will unmark the service.
- `DeathCorrect`: `Spec => []DeadStreamReported`, up to the stated exception. `LoopOK` says
  who can be between two steps without an await, `BlameOK` that between `SubscribeFails`
  and `DropStream` the stream whose subscription failed shows its error.
- `BaselineCorrect`: `Spec => ReconnectInvalidates`. `BaselineOK`: the builder's baseline is
  of the current connection of its ticker, and only open tickers are subscribed.

`MarketOpsSchedulerProofs` extends `MarketOpsScheduler` with `SchedulerAssumption`: any
schedule, window, interval and day length, any set of operators other than the loop.

- `TypeCorrect`: `Spec => []TypeOK`. `TypeOK` is inductive with its last conjunct, the
  loop waits for a job exactly while it runs one.
- `LockCorrect`: `Spec => []JobLockHeldByItsJob`. Every step takes a free lock for one
  caller, leaves lock and job stages alone, or gives the lock back (`Takes`, `Keeps`,
  `Returns`); `Stop` and `ApiRestart` are the cases in which a job ends without its
  own last step.
- `RecoveryCorrect` and `RetriesCorrect`: `Spec => []RecoveryStateConsistent` and
  `Spec => RetriesSpaced`. The pace of the retries needs `Paced`: after an attempt
  the next retry is at least an interval later than it, which every report that moves
  the retry preserves because the clock is past the attempt (`NextRetryLater`).
- `SlotsCorrect`: `Spec => OncePerSlot`. A job that ends makes the loop forget the keys
  of other days, so the keys alone are not enough: `SlotsRemembered` says that what has
  run of the slots due now is remembered, and that no remembered key is of a later day
  (`DayMonotone`), hence forgetting keeps today's.
- `LinksCorrect`: `Spec => LinksAccountedFor`. The invariant adds that a link that was sent
  in the episode is remembered by the pending action and by the flag that a new link
  tests, unless a start inside the window cleared the flag.

`DecisionEvaluationProofs` extends `DecisionEvaluation` with `DecisionAssumption`: any sets
of batches and operators, any signals, answers, modes and limits. `IInv` is the
inductive invariant. `NextShape` shows that every step of a caller changes its own job
and at most one of lock, history of calls and recommendations (`LockPart`, `CallPart`,
`RecsPart`); one lemma per part of `IInv` then goes through these changes.

- `TypeCorrect`, `LockCorrect`: `TypeOK` with `JobsOK`, what a caller holds at each await,
  is inductive; so is `LockHeldByEvaluation`, since only the holder is inside.
- `KeyCorrect`: `Spec => []OneDecisionPerKey`, by the unique key at the insert.
- `CallsCorrect`: `Spec => []BatchesCallModelOnce`. A batch calls the model after it has
  found no recommendation under the lock, and gives the lock up after its own is stored
  or lost. `CallsOK` therefore relates the calls of a signal to the recommendations of the
  batches and to the answer that the holder of the lock may still store.
- `NotifyCorrect`: `Spec => []NotifiedOnce`. `PendingOK`: at most one caller is about to
  notify a recommendation, the one that recorded it, and nobody has yet.

`ScannerProofs` extends `Scanner` with `ScannerAssumption` and the session assumptions: any
loops, operators, symbols, strategies and days; candles are finitely many, as a table is.
`Inv` is inductive: `TInv` (what a job holds at each await), `AutoRunsExclusive`,
`UniqueKeys`, `CandidatesHaveContext`, `Accounts`, `Numbers` and `ReportsAreExact`. Every
step is sorted by what it does to runs (`Outside`, `Begins`, `Moves`, `Ends`).

- `NoOverlap`: `Spec => []AutoRunsExclusive`. The run lock is given back by the run that
  holds it, cancelled or not.
- `ExactReports`: `Spec => []ReportsAreExact`. A run's counts must equal its rows at every
  await (`Account`), and an insert that was committed unnoticed marks the run as failed;
  `Numbers` keeps the rows of different runs apart.
- `CompleteContext`: `Spec => []CandidatesHaveContext`. `FullSession`: a loaded session that
  begins at the open and passes the continuity check has every minute up to its last bar
  (`NoHole`, by induction along the minutes), and its last bar is the one evaluated (`LatestInSession`). What was loaded stays
  true because candles are never removed (`Loaded`).
- `FirstVerdictStands`: `Spec => SignalsImmutable`.

`BrokerSessionProofs` extends `BrokerSession` with `BrokerSessionAssumption`: any number of
requests, logins and rows, any day of at least one tick with 06:00 somewhere in it, any
duration of a call to Kite. `TInv` says what a request holds at each await and which
fields of a row never change; `TFrame` shows that a step of one request that keeps its
own record and the rows in order keeps it, and one lemma per action gives the fields
after it. `StepKinds` says what every step keeps (`Kept`: rows are only added, tokens and
expiries stay, time and revocations grow, no row becomes ACTIVE again).

- `TypeCorrect`: `TypeOK`, from `TInv`.
- `OneSessionPerLogin`: `LoginOncePerState` is inductive with `TInv`: deleting the key
  decides who goes on, and a request gives its state up when it ends or is committed.
- `EndedStaysEnded`: `CreatedOK`, every token is in one place only, makes the latest row
  unique, so an ended row is strictly older than the row a reader uses.
- `TokensInUseAreLive`: `ExpiryIsKiteEnd` proves, from the uniqueness of quotient and
  remainder, that `next_kite_expiry` computes the only 06:00 of the next day.
- `ActiveTogether`: `SavesOK`, an UPDATE wants and then holds every row that was ACTIVE when
  it began and still is; the rows it did not see are those of overlapping saves.
- `LogoutIsComplete`, `StatusEndsExpiredOnly`: `EndsOK`. A logout does not call Kite for a row
  that is not ACTIVE, so the invariant says why such a row gets no call (`Gone`): its
  token is invalidated or over, or the save of a login exchanged before it took the row.

`UniverseSelectionProofs` extends `UniverseSelection`, and with it `InstrumentSync` and
`Watchlist`, with their assumptions: any requests, pools, watchlists, dumps, settings and
initial tables. `TableAssumption` is about the rows found at the beginning: they come from
earlier syncs, whose names the strict parser let through, so no name has a comma. The
candles of the beginning are finitely many, as a table is.

- `HonestSync`: `Spec => []SyncReportIsHonest`. `SyncInv` relates the counts of a sync to its
  place in the dump (`Counts`), to the rows its open transaction holds (`Holds`) and, after
  the commit, to the table (`Stored`), which other syncs only extend (`Grows`).
- `GateSound`: `Spec => []GateImpliesStart`, from `Stored` and `Grows`: a symbol that was
  resolved stays resolved.
- `DiagnosisSound`: `Spec => []ReadinessAgreesWithStart`, a theorem about the parsers'
  operators on every list of lines and every table: a list that is ready for the stream has
  lines of one part each (a comma makes its key one that no table has), on which the two
  parsers agree; and the order of the recommended actions.
- `NothingLost`, `FullSessions`, `SelectionResolvable`: `Spec => []PoolAccountedFor`,
  `[]SelectedHaveFullSession` and `[]SelectionStaysResolvable`. `SelInv` follows a symbol
  from validation to ranking: it is to be scored or has one result (`OneResult`), every entry
  is excluded or chosen, and both only if a setting admits it (`Shared`), what was included has its session (`Sound`), and stored
  runs keep what they promise (`RunOK`). That the ranking fills every place of the limit is
  a counting argument (`Ranking`): positions are distinct numbers, so as many symbols are
  within the limit as there are places.

Only model-checked: liveness (`RecoveryEnds`), which is out of the
prover's reach. Every other property of a passing run is stated by a theorem. Only proved,
where checking them too would add nothing: `TypeOK` of some modules with theorems,
`RepeatsChangeNothing` and the scheduler's `JobLockHeldByItsJob`.

## Not modelled

Indicators, the conditions of the strategies and scores are decimal formulas without
state. The scanner's `run_replay`, used by an offline command on tables of its own, is
left out, as are the readers of universe runs (`/latest`, `/runs`). Notifier formatting,
the morning report, the command line and the HTTP layer hold no protocol of their own.
`agents`, `execution`, `indicators`, `journal`, `risk`, `services` and `workers` are empty
packages. Encryption, the Kite client, Redis and PostgreSQL are external.

## Plan

1. Paper trading: simulator, replay, report, first theorems (done).
2. Candle builder, quote stream, scheduler (done); a composition in which the
   stream's callbacks drive the candle builder and candles reach the table.
3. `PaperLedger`, the abstract promise of paper trading, shown to be implemented by TLC
   and by TLAPS (done).
4. `DecisionEvaluation` and `Scanner` with their theorems (done).
5. `BrokerSession`, `Watchlist`, `InstrumentSync`, `UniverseSelection` (done).
6. Proofs: simulator, paper trading and its report, candle builder, stream, scheduler,
   decisions, scanner, sessions, sync and universe selection (done).
7. Compositions still missing: the stream's callbacks driving the candle builder, and
   `BrokerSession` in place of the scheduler's external session.
