# A formal model of kalshi-research

`kalshi_research` (under `src/src/kalshi_research`) is a research platform for the
Kalshi prediction market: an API client with rate limiting and retries, a trade
safety harness, a WebSocket client, a database kept current by periodic fetches, a
portfolio synchronised from the exchange, alerts, news collection, and an agent that
buys research from Exa under a budget.  Most of it is `asyncio` code around external
services, so what goes wrong is what tests rarely exercise: calls that overlap, tasks
cancelled while they sleep, answers that arrive after the caller gave up, and steps of
which one fails.

This directory holds TLA+ modules of those parts, TLC configurations that check them
on small instances, and TLAPS proofs of what matters most for all instances.

Contents: [inventory](#inventory), [modules](#modules), [each model and the
code](#each-model-and-the-code), [runs](#what-each-run-checks), [bounds](#bounds),
[fairness](#fairness), [proofs](#what-is-proved), [findings](#where-code-and-documentation-disagree),
[not modelled](#what-is-not-modelled), [plan](#plan).

## Inventory

File names are relative to `src/src/kalshi_research`.  "Hard" names the behaviour a
unit test hardly reaches.

| component | state | operations | talks to | hard | correct when |
|---|---|---|---|---|---|
| rate limiter `api/rate_limiter.py` | tokens, last update, lock | `acquire` | every request | sleeping with the lock held, cancellation, costs above the burst | bounded rate, nobody starves, lock never lost |
| order client `api/_mixins/orders.py`, `trading.py` | the retry loop of one request | create, cancel, amend, decrease, batch | rate limiter, exchange | timeout after acceptance, duplicates, late requests | at most one order per id, answers are true |
| read client `api/_base.py` | the retry loop of one GET | `_get`, `_auth_get` | rate limiter, exchange | 429, `Retry-After` | bounded attempts |
| trade safety harness `execution/` | audit log, kill switch, limits | create, cancel, amend | client, providers, user | check-then-act across awaits, lost audit events | only approved orders, gates hold, log agrees with the exchange |
| WebSocket client `api/websocket/` | connection, `_running`, handlers, subscriptions | connect, subscribe, run, close | exchange, callbacks | close during reconnect, subscribe during resubscribe | closed stays closed, every subscription survives a reconnect |
| scheduler `data/scheduler.py` | tasks, `running` | `schedule_interval`, `schedule_once`, start, stop | fetcher | drift, overruns, failing jobs, stop while running | slots kept, stop stops |
| continuous collection `cli/data/collect.py` | a scheduler, an `asyncio.Lock` around database writes | `kalshi data collect` | scheduler, fetcher, database | a job that outlasts its interval, Ctrl+C inside a write | one writer, database closed only when quiet |
| data pipeline `data/`, `cli/data/` | markets, events, prices, settlements tables; Parquet or CSV files | sync-markets, sync-settlements, snapshot, full sync, prune, export | read client, SQLite | reads before the write lock, pages of different ages, aborts between statements | foreign keys, nothing known is forgotten, exactly the old rows go, exports agree |
| portfolio `portfolio/` | positions, trades, settlements tables | sync trades, positions, settlements, mark prices, P&L | client, SQLite | duplicate fills over pages, concurrent syncs, aborts | every fill once, tables agree with the exchange, profit is cash |
| research agent `agent/research_agent/`, `agent/state.py`, `exa/_research.py` | budget, one recovery file per market | plan, deep research, recovery, finalise | Exa | crash between paying and saving, lost answers, overlapping runs | no task paid for twice, budget kept, own report |
| agent kernel `agent/orchestrator.py`, `verify.py` | none that lasts | analyse, escalate, verify quotes | research agent, LLM | failing steps | verified citations only |
| research commands `research/`, `cli/research/`, `exa/cache.py`, `exa/policy.py` | cache files, budget of a command | context, topic, similar, thesis research, cache clear | Exa, file system | concurrent writers, expiry, an answer paid for and not recorded | never a torn, foreign or expired answer; budget kept |
| theses `research/thesis.py` | `theses.json` | create, edit, resolve, check invalidation | CLI, research | two processes rewrite the file | lifecycle, no lost update without overlap, file always whole |
| alerts `alerts/`, `cli/alerts/` | conditions in `alerts.json`; the daemon holds an `fcntl` lock on its log file | add, remove, monitor, daemon, trim-log | read client, notifiers | crossings across passes, failing notifiers, a lock inherited by a child | every crossing told once, one daemon, file always whole |
| news `news/`, `cli/news.py` | tracked items, articles, links | track, untrack, collect | Exa, SQLite | lookups before the lock, partial failure of an item | every article linked, no orphan |
| scans and liquidity `cli/scan/`, `analysis/` | none that lasts | opportunities, new-markets, movers, arbitrage; slippage and depth | read client, SQLite | requests seconds apart about a moving market, order of levels, boundaries | a report says what its requests warrant |
| golden fixtures `src/scripts/` (of the repository) | recorded answers, orders left at the demo exchange | record, sanitize, validate, freshness | exchange | failure between placing and cancelling, interrupts, torn files | leftovers explained, writes only when asked, checks not misled |
| CLI, models, migrations, scripts | none of their own | | | | not modelled: I/O and generated code |

How they interact: every request takes tokens from the rate limiter before the first
attempt; the safety harness calls the order client; the scheduler calls the fetcher,
which calls the read client and writes SQLite, as the data and news commands do from
processes of their own; the portfolio sync reads through the
read client and writes the same SQLite file from processes of its own; the research
agent, the research commands, theses and alerts keep their state in files that other
processes read and replace.

## Modules

| module | extends or uses | models | runs | proofs |
|---|---|---|---|---|
| `TokenBucket` | | `TokenBucket.acquire` | `MCTokenBucket` | `KalshiClientProofs` |
| `OrderSubmission` | | abstract: what a layer above may rely on when it hands over an order | implemented by the next two | |
| `OrderClient` | `OrderSubmission` by refinement | the retry loop of every endpoint | `exchange` | `KalshiClientProofs` |
| `TradeExecutor` | `OrderSubmission` by refinement | the safety harness around the order client | `MCTradeExecutor`, `MCTradeExecutorChecks`, `MCTradeExecutorAudit` | `TradeExecutorProofs` |
| `KalshiWebSocket` | | the streaming client | `MCKalshiWebSocket` | `KalshiClientProofs` |
| `DataScheduler` | | `schedule_interval`, `schedule_once`, start, stop | `MCDataScheduler` | `DataSchedulerProofs` |
| `DataCollect` | composes an instance of `DataScheduler` with the write lock | `kalshi data collect` | `MCDataCollect` | `MarketDataProofs` |
| `PortfolioLedger` | | FIFO cost basis, FIFO profit, settlements: pure operators | used by the next | `PortfolioProofs` |
| `PortfolioSync` | extends `PortfolioLedger` | `kalshi portfolio sync` in several processes | `MCPortfolioSync` | `PortfolioProofs` |
| `Tables` | | rows of the SQLite file, what each repository statement does to them: pure operators | used by the next two | |
| `DataPipeline` | extends `Tables` | the data commands as processes over one write lock | `MCNewsDesk` | `NewsDeskProofs` |
| `NewsDesk` | extends `DataPipeline` | the news commands beside them | `MCNewsDesk` | `NewsDeskProofs` |
| `JsonFile` | | looking up an entry of a JSON storage file | used by the next two | |
| `ResearchDesk` | extends `JsonFile` | research commands, cache, `theses.json` | `desks` | `DesksProofs` |
| `AlertDesk` | extends `JsonFile` | alerts commands, monitor, daemon, log | `desks` | `DesksProofs` |
| `Desks` | extends `ResearchDesk`, `AlertDesk` | both at once: what they promise together of their files | `desks` | `DesksProofs` |
| `Orderbook` | | levels, slippage, safe size, depth: pure operators | used by the next | |
| `MarketScan` | extends `Orderbook` | the scan commands and `market liquidity` | `exchange` | `MarketDataProofs` |
| `GoldenFixtures` | | the fixture scripts | `exchange` | `KalshiClientProofs` |
| `MCDesks` | extends `Desks` | one of the two is at work in a behaviour | `desks` | |
| `MCExchange` | extends `OrderClient`, `MarketScan`, `GoldenFixtures` | one of the three is at work in a behaviour | `exchange` | |
| `ResearchAgent` | | `execute_plan`, recovery and the create request | `MCResearchAgent` | `ResearchAgentProofs` |

Each component has a module with its state and one action per operation, an `MC`
module with model values, and configurations.  Theorems live in a module of their own
that extends the component's.  Definitions that begin with "Mutant" in their comment
are variants of the definition below them as a plausible bug would leave it; no
specification uses them, and with one of them in its place the property named in
`PROJECT.json` fails.

`OrderSubmission` is the seam of the trading stack.  `OrderClient` shows that the loop
of attempts, with copies that are late, lost or repeated, looks from above like one
request that is placed at most once and answered only then.  `TradeExecutor` sees its
client through the same contract (a request on the wire, placed at most once, an answer
or an exception, also while the request is still on the wire) and shows that it hands
over nothing else.

## Each model and the code

### `TokenBucket` (`api/rate_limiter.py`)

Time is counted in the time the bucket takes to earn one token, tokens in the smallest
cost a caller pays, so `elapsed * rate` is `now - lastUpdate`.  `tokens`, `lastUpdate`
and the lock (`holder`, `queue`) are the attributes of the class.  `Request` is the
arrival at `async with self._lock`; `AcquireNow` and `StartSleep` are the two ways
through the method after the refill; `Wake` is what follows the sleep: `_tokens` is set
to zero and `_last_update` is left at the time before the sleep.  `CancelQueued` and
`CancelAsleep` are a cancelled task at each of the two awaits.  `granted` and `slept`
are history.

What a reader may not expect: the tokens earned during a sleep are paid to the sleeper
and credited again by the next refill, so the real promise is the burst plus *twice*
the rate (`TwiceRateBound`), and `ExactAccount` says exactly which part is paid twice.

### `OrderClient` (`api/_base.py`, `api/client.py`, `api/_mixins/`)

All endpoints run one loop: `acquire` once, then up to `max_retries` attempts with
tenacity.  `pc` is where the coroutine is, `net` the copies under way, `seen` the
`client_order_id`s the exchange has taken.  `Send`, `Handle`, `TimeOut`, `Retry` and
`Cancel` are the loop; `Receive` and `LoseCopy` are the exchange and the network, which
may delay a copy beyond the end of the call.  Endpoints differ by what one copy does:
keyed (create, amend), absolute (cancel, `reduce_to`), relative (`reduce_by`, order
groups, batches without ids), read; and by whether a `Retry-After` that is no number
raises.  Only the first attempt asks the rate limiter (`_base.py:99`), and the
signature is made once, before the loop (`orders.py:130`), so late attempts carry an old
timestamp.

### `TradeExecutor` (`execution/`)

`call[a]` is one coroutine of `create_order`.  Its `pc` walks the checks in the order
`run_live_checks` awaits them (`sync`, `loss`, `spend`, `position`, `book`, `grade`,
`confirm`), with a suspension at each provider, so that other calls, midnight, the kill
switch and the exchange run in between.  `Refuse` and `Submit` are the end of the
checks; `Respond`, `Fail` the two ways the client returns; each writes one audit event in
the `finally` block, which may fail without anyone noticing.  `Escape` is an exception
out of a check, before the `try`.  `CancelOrder` and `AmendOrder` run the kill switch
and production gating only.  `Crash` ends a process.  A dry run is one step: the code
has no suspension in it.

### `KalshiWebSocket` (`api/websocket/client.py`)

A connection is a number; `known[c]` is what was sent on it.  `loop` is the position in
`run_forever`, `_reconnect` and `_resubscribe`; every await is a separate value.  The
three callers of `_reconnect` (check, exhausted iterator, `ConnectionClosed`) differ in
where its failure goes.  `Subscribe`/`Subscribed`/`SubscribeFails` are other tasks; the
handler is added before the send.  `Close`/`CloseReturns` are `close()`, with the await
in it.  `_resubscribe` iterates over a set others add to: if it has grown the
`RuntimeError` costs an attempt.

### `DataScheduler` and `DataCollect` (`data/scheduler.py`, `cli/data/collect.py`)

Time is relative (`due[j]` is `next_run` minus the clock), so runs are unbounded.
`NextDue` is the catching-up loop.  `Stop` cancels the tasks it knows and gathers them;
what is scheduled while it waits is cleared without being cancelled (`strays`).  A
`schedule_once` job whose delay is over before `start()` is dropped.  `DataCollect`
composes an instance of the scheduler with the stages of `_collect` and the FIFO of the
`asyncio.Lock`; the initial full sync writes without the lock.

### `PortfolioLedger` and `PortfolioSync` (`portfolio/`)

`PortfolioLedger` holds the arithmetic: `CostBasis` with the sides trades name,
`Fifo` with sales normalised to the side they close, `Realized` with settlements.  A lot
of n contracts is n lots of one, which is exact because fees are not stored.
`PortfolioSync` runs `kalshi portfolio sync` in several processes: each function's
request, its SELECT and its writes are separate steps, because pysqlite takes no lock
before the first write; `Put` is what an ORM UPDATE writes (columns that differ from
what was read).  The exchange trades and settles at any moment, and a page of fills may
overlap the previous one.  `synced` remembers that a run nobody overlapped has ended and
that the exchange has not moved since; `fresh` are the markets such a run has marked.

### `ResearchAgent` (`agent/research_agent/`, `agent/state.py`, `exa/_research.py`, `exa/_http.py`)

`run[r]` is one `execute_plan` in a process of its own: the step it is at, what it has
recorded, and, in a deep step, its position between `recover_or_create_research_task`
and `finalize_research_task`.  `file[t]` is the recovery file of a market (`Torn` while
`write_text` has emptied it and not yet written).  `tasks` are Exa's, `wire` the create
requests that may still be carried out.  `StepOver` is the end of a loop iteration with
its cost; a failed step costs 0.  `mishaps[t]` counts what the program cannot be blamed
for in a market: overlapping runs, lost answers, failed writes and lookups, deaths, a
changed title.

### `Tables`, `DataPipeline`, `NewsDesk` (`data/`, `cli/data/`, `news/`, `cli/news.py`)

`db` is what is committed, `work` what the process that holds SQLite's write lock
(`holder`) sees; a process that holds it gives up with `Fail`, which restores `db`, and
publishes with `WriteAndCommit` or a commit of its own.  SQLite lets readers go on, so
every SELECT before the first write (`CountRows`, `LookUp`, `FindEvent`, `FindMarket`)
sees `db` as it was then and the write that follows sees it as it is now.  `Tables`
holds what each statement of a repository does to a row (`insert_ignore`, `upsert`,
`merge`), with the columns that differ between writers: the category of an event, the
status of a market.  `phases` are the parts of a command (events, multivariate events,
markets, settlements, prices), `rest` what a phase has not seen, and an answer has one
time for each page (`Listed`, `Ahead`).  `Store` and `Link` are the two halves of an
article, in one transaction.

One answer per tracked item stands for its queries; `url_hash` stands for the URL;
`last_collected_at` is left out.

### `JsonFile`, `ResearchDesk`, `AlertDesk` (`research/`, `cli/research/`, `alerts/`, `cli/alerts/`)

`theses` and `alerts` are files: `whole` says they parse, `items` is their list.  A
command loads (`copy`), changes its copy, writes a temporary file and renames it.
`cache[k]` is a cache entry in two halves, because it is written in place: `shared`
marks one that two processes had open at once.  A research command walks its `plan`,
call by call: read the entry, judge it fresh, evict it if it does not parse or has
expired, weigh the estimate against the budget, ask, write the answer, record the cost
(`Answered`, in that order).  A retried request is one call with its outcome.

In `AlertDesk` a monitor passes over its conditions with the quotes of one fetch;
`seen` is the price of the pass before.  `loglock` are the processes that hold the open
file description that locked the log: the parent that opened it and the daemon that
inherited it.  `trim-log` reads the tail, truncates and writes.  The daemon loads the
alerts once, at its start.

### `Orderbook`, `MarketScan` (`analysis/`, `cli/scan/`, `cli/market/liquidity.py`)

`Orderbook` walks levels for an order of a given size, in the order Python's stable
`sorted` gives them (`Order` picks the one order of the indices by key, then place);
`MaxSafeSize` is the binary
search of `max_safe_order_size`, and `SizingSound` compares it with the definition (the
largest size that can be filled within the slippage).  A scan goes through its requests
one at a time, `board` and `history` changing between them: the exchange status, the
pages, the orderbooks of the best candidates, the events, the stored prices.  Scores
are exact fractions; which markets correlate is an input.  At most
`min(5 * top, 50)` candidates get an orderbook; `movers` reads the newest 1000
snapshots.

### `GoldenFixtures` (`src/scripts/`)

A recorder is a sequence of steps (`StepsOf`); one step is a request with what its
answer decides: which later steps it cuts off (`NotAfter`), whether a failure raises
(`Raising`), which order it leaves (`PlacedBy`, `RemovedBy`).  `plan` lists the steps of
the recorder at work and `todo` says which of them are left, so that a step can be cut
off without disturbing the order of the others.  `resting` are the orders at the demo
exchange.  The sanitizer goes file by file; the validation and the freshness
check are verdicts over what is on disk.  One outcome stands for a request and its
retries (`missing` is thirty attempts that found nothing); orders are not filled by
others and a batch is answered as a whole.

## What each run checks

| run | instance | properties and what they show |
|---|---|---|
| `MCTokenBucket` | 3 callers, burst 3, costs 1, 2, 4, until time 5 | `TwiceRateBound`: the rate actually delivered; `BucketSound`: the exact account (`ExactAccount`), and who waits is queued exactly once, also after cancellations (`LockDiscipline`); `EveryAcquireEnds`: also a cost above the burst |
| `MCTradeExecutor` | 3 calls, 2 at a time, 2 days, a failing audit write, a crash | `NoUntracedOrder`; `LimitsHold`: by how much check-then-act overruns the daily and the notional limit; `ImplementsSubmission` |
| `MCTradeExecutorChecks` | 2 live calls, one at a time, and a dry run, every provider, one amendment, kill switch flipped once | `PlacedOrderWasApproved`, `AuditAgreesWithExchange`, `KillSwitchLeakBounded`, `GatedExecutorIsInert`, `EveryCallEnds` |
| `MCTradeExecutorAudit` | one call | violation, see below |
| `exchange` | one call of any of 4 endpoints, 5 attempts; or one scan of 11 over 3 markets and 2 events; or two scripts over 4 fixtures | `RepeatsHarmless`: keyed calls happen once and others repeat only what got no answer; `OutcomeIsTrue`: what the caller is told; `ImplementsSubmission`; `SizingSound`; `ScansRight`: rows, order and cuts of every report, said by counting; `LeftoversExplained`: an order rests only if a request on its way failed or the recording was interrupted; `WritesAsked`: orders only on the demo exchange and only if asked for, a second market only after a lost answer; `VerdictsRight`: what the checks of CI say is so of the files they look at |
| `MCKalshiWebSocket` | 2 subscribers, 2 drops, 5 connections, 2 attempts | `ConnectionsSound`: reading means everything tracked was sent on this connection, and only a disturbed reconnect leaks one; `LossIsHandled` |
| `MCDataScheduler` | 2 repeating jobs (2 and 1 ticks), one delayed | `TimetableKept`: no drift (`OnGrid`), no backlog (`Punctual`), nothing runs after `stop()` (`NothingRunsAfterStop`); `KeepsCalling` |
| `MCDataCollect` | 2 jobs that outlast their intervals | `WritesAlone`: one writer, none once the database is closed; `EveryCallWrites` |
| `MCPortfolioSync` | 2 processes, 3 syncs, 2 fills on either side, 1 market | `TablesFollow`: one undisturbed sync repairs whatever aborted or overlapping ones left, and duplicate rows are bounded; `ProfitIsCash`: realised profit equals what the exchange paid |
| `MCResearchAgent` | 3 runs, 1 market, 2 titles that begin alike, 2 attempts, 1 mishap | `BudgetKept`; `NothingBoughtTwice`: without a mishap no task is bought while another waits; `ReportsAreOwn` |
| `MCNewsDesk` | 2 processes, any 2 of 9 commands, 2 markets (one settled from the start), 2 events, 2 URLs, 2 moments | `NewsWhole`: no orphan row and every article linked, committed or not; `IntegrityErrorsNeedOverlap`: a command alone never meets a duplicate key or a foreign key, with others only track and prune do; `CatalogueNeverForgets`: which commands may undo what is known of an event or market; `PruneExact`: a prune removes exactly what was old enough; `ExportsAgree`: the files of an export nobody disturbed fit together |
| `desks` | 2 processes, 2 of the research commands over one cache, two modes, two days; or 2 users, 2 monitors, 3 conditions, 3 passes | `SpendBounded`; `CacheSound`: a whole entry answers the question it is filed under and is not used after it expired; `FilesKept`: the JSON files are always whole and change by just what a completed command says, unless two overlap; `MonitorTellsAll`: each crossing is told once, and none is missed; `OneDaemon` |

A property that names several parts (`BucketSound`, `LimitsHold`, `ConnectionsSound`,
...) is a conjunction of definitions that each have a comment of their own; the type
invariant of a module is one of the parts.  `MCExchange` and `MCDesks` put programs that
share no state into one run: the first state chooses which is at work, so each behaves
exactly as alone.

## Bounds

Every bound is a constant whose comment says "bound".

* *Callers, calls, users, processes*: two that interleave show every pairwise race; a
  third (bucket, executor, research runs) shows what happens behind two others, or after
  them.  The overrun properties are stated with `MaxConcurrent`, so that a run with two
  at a time exercises both the sum and the bound.
* *One order call in `exchange`*: calls share nothing but the exchange, which keys
  everything by call.
* *Attempts*: the default of the client (5) for orders; 2 where an attempt only repeats
  what the one before did (WebSocket, research).
* *Time*: `MaxTime` 5 lets a burst be spent, slept for and refilled twice.  The
  scheduler needs no bound on time; `MaxRun` exceeds every interval in the collection,
  so runs skip slots.
* *Fills, syncs, rows*: two fills make a purchase and a partial sale on the other side;
  three syncs make one that aborts, one that overlaps and one that repairs.  `MaxRows`
  is above what two processes can insert in three syncs.
* *Failures* (drops, failing writes, crashes, mishaps) are counted, so that properties
  about what failures can do are not vacuous and properties about their absence still
  have behaviours with them.
* *Commands* (`MaxCommands` 2, `MaxTasks` 2, `MaxScripts` 2): two commands in two
  processes are every pair of commands, one after the other or overlapping anywhere;
  for the monitors, two starts beside an `add`, a `remove` or a `trim-log`.
* *Days*: `MaxTime` 1 (`MaxDay`, `MaxHour`) is one boundary to cross: a retention, an
  expiry, a window.  In the desks and pipeline the clock moves only while a command is
  left to start, since later nothing is judged by it.
* *Starting tables*: empty, or curated by an earlier news track; the start of the
  fixtures: empty or committed.
* *Scans*: boards with close races, wide spreads and unpriced markets, one change of a
  market between requests, a limit of 2 candidates and of 3 snapshots so that both cut.
* *Ladders*: up to three levels a side, listed in either order.
* Symmetry is used for attempts, processes and runs in runs without liveness
  properties that depend on it.

`CHECK_DEADLOCK FALSE` is set everywhere because the systems end: all calls are made,
the run is over, the client is closed.

## Fairness

* `TokenBucket`: `WF(Tick)`, and per caller the steps that are ready: the event loop runs
  what is ready, `asyncio.Lock` is first come first served.  Nobody has to call or cancel.
* `TradeExecutor`: `WF(CallStep(a))`: providers, the confirmation callback and the client
  answer or raise (httpx has a timeout, the retry loop is bounded).  Nothing is assumed of
  the exchange: an order may stay on the wire for ever.
* `KalshiWebSocket`: `WF(LoopStep)` for the loop as one task; connections and users owe
  nothing.
* `DataScheduler`, `DataCollect`: time passes, each job's task gets its turn, `gather`
  returns when its tasks are done.  Nobody has to stop, schedule or press Ctrl+C.
* The other runs check safety only.

## What is proved

All proofs hold for every value of the constants that the named assumption of the module
admits, in particular for any number of callers, calls and runs.

* `KalshiClientProofs` holds what is proved of the modules that only talk to the exchange:
  `TokenBucket`, `OrderClient`, `KalshiWebSocket` and `GoldenFixtures`.  From
  `BucketAssumption`: `BucketTypeCorrect`, `LockDisciplineHolds`,
  `ExactAccountHolds`, the three together as `BucketIsSound`, and `TwiceRateBoundHolds`.  `TwiceRateBound` is not inductive: it
  follows from `ExactAccount`, which needs that sleeps do not overlap (`LockDiscipline`:
  one holder, who is not queued, and nobody is queued twice) and `SleepAccount`: the time
  slept so far had passed before the current sleep began, and that sleep lasts exactly
  the deficit left by the last update.
  From `ClientAssumption`: `RepeatingIsHarmless`, `OutcomesAreTrue`,
  and the refinement `ImplementsOrderSubmission`.  None of the three is inductive: the
  exchange may carry out a late copy long after the loop went on.  `AttemptsCounted`
  keeps the account: what was carried out plus the copies on their way never exceeds the
  unanswered attempts plus one, and not even that one once the last attempt is settled (it
  timed out, or was answered with 429 or a refusal).  `KeyTaken` says that a key is taken
  exactly when the call was carried out, `EndsTrue` on what word a call ends.  The
  refinement is proved call by call: `Seen` is what `OrderSubmission` sees of one call,
  and each action is one of the steps `OneStep` lists for its call and none for the others.

  From `WebSocketAssumption` (finitely many subscribers, at least one attempt):
  `ConnectionsAreSound`.  `Coverage` says what is owed while
  `_resubscribe` is under way: what is tracked was sent on the connection, or is still in
  the set it iterates over, or came late.  `Leaks` bounds the connections left open by the
  disturbed reconnects, and it becomes inductive only by counting the one that is `Doomed`:
  open while the loop sleeps, or about to be given up because the set it iterates over has
  grown.  `RacesCounted`: each disturbance is some task's subscription, which gives the
  bound on `raced` that the type invariant states.

  From `FixtureAssumption` (what a command line may say, that the lookup file is among the
  files looked at): `LeftoversHaveReasons`, `VerdictsAreRight` and the action property
  `WritesAreAsked`.  `GoldenInv` is inductive.  Of the recorder it says
  how its plan is made (`PlanFits`): each request that creates something comes before the
  one that undoes it, with nothing in between but requests on the way of that order.  So
  whatever rests is explained by a failure, or is about to be undone (`RestFits`), and a
  create is never left to do without its undo (`TodoFits`): what an answer cuts off, it
  cuts off together.  Of the files it says that a whole one holds the last answer and that
  account data is only in files the sanitizer looks at (`FilesFit`), which makes the
  verdicts true; the sanitizer gets there file by file (`SanitizedSoFar`).  That a
  market is created only while the lookup is unrecorded, and a second one only after a
  lost answer, holds because one recorder alone creates one, which looks for the file
  first and is run once.
* `TradeExecutorProofs` (from `ExecutorAssumption`): `TypeCorrect`,
  `OnlyApprovedOrdersArePlaced`, `AuditIsTrue`, `GatesHold`.  The inductive invariant
  adds to the type invariant `ChecksRecorded` (a live call inside the checks has already
  recorded the failures of the synchronous ones, and a call that is being sent was
  approved), `SentOnly` (what reached the wire or the books comes from an approved call
  and, until it is amended, has the side, count and price that call asked for) and `LogInv` (an event
  belongs to a call that is over; a live event with failed checks to a call that was
  refused; one with an order id to a call that has an order).  The three safety theorems
  are its consequences.
  `OrdersAreTraced`, `KillSwitchLeaksLittle` and `DailyLimitHolds` count calls, so their
  invariant `LInv` keeps the sets finite and at most
  `MaxConcurrent` calls running.  `DayKept`: the calls whose limit check passed on a day
  and whose event is not lost number at most the limit plus the other running calls; only
  the check itself adds one (`CountedShrinks`), and at that moment there are fewer events
  than the limit and no more than `MaxConcurrent` calls without one (`CheckedDay`).
  `DailyLimitsHold` adds the notional limit, and with it all of `LimitsHold`.  `SpendKept`
  weighs instead of counting: what the orders of a day risk, together with what the calls
  past their budget check may still risk, is at most the limit and the risk of
  `MaxConcurrent - 1` orders, because the call that passes last has seen all but the
  others under way.  Orders accepted after the end of their call are left out of that sum
  and added at the end, one largest risk each.  The sums over finite sets it needs
  (adding an element, a subset, a bound on each term) are proved by induction on the set.
  `Leak`: the orders handed over since the kill switch went on, plus the calls that were
  past its check, never grow.  `NoUntracedOrder` is inductive given `IInv`.
  `ImplementsOrderSubmission` is the refinement, call by call as for the client;
  what has to be added to `IInv` is that a call waiting for the client has its order on
  the wire or placed (`SentIsOut`), so that a crash there is a failure and not a rejection.
* `DataSchedulerProofs` (from `SchedulerAssumption`): `TimetableIsKept`, an invariant and
  an action property.  `NotBehind` bounds how late a runner can be (the lateness of the event loop,
  and of a call that runs its length besides), `Aligned` that a runner keeps its distance
  from its grid also while its function runs, and `Accounted` that whatever runs is known
  to the scheduler, is waited for by `stop()`, or is a stray.  The catching-up loop is
  proved by division with remainder (`Division`, `RemainderIsUnique`, `Multiple`).
* `MarketDataProofs` holds the theorems of `DataCollect` and `MarketScan`. From
  `CollectAssumption`: `DatabaseIsWrittenAlone`, and
  `CollectorKeepsTimetable`: `kalshi data collect` implements the scheduler's
  specification, and so inherits its timetable.  `Queued` says that the calls under way
  are exactly those in the queue of the lock, each once, and that only the first writes;
  `Stages` what scheduler and tasks may be doing at each stage of `_collect`, in particular
  that nothing calls any more once the database is closed.

  From `ScanAssumption`: `SizesAreRight` and `ReportsAreRight`.  It says which commands
  there are and what their options hold, that prices are integers and quantities natural
  numbers, that histories are newest first and not of the future, that finitely many
  pairs correlate and that every event has a class.  `--top` and `--limit` are at least one:
  the command line sets no bound, but `new-markets` appends a row before it compares, so
  that `--limit 0` shows one, and a negative `--top` cuts the rows from the end.

  For `SizesAreRight` the invariant over the requests (`ScanInv`) is the
  easy part; the rest is arithmetic of one orderbook.  Indices can be put in order in exactly
  one way (`OrderExists`, `OrderFacts`), so the k-th ask is known; after k levels an order
  has filled the lesser of what it asks and what they hold (`FillGrows`), so its cost is
  the sum `ListedCost` over the levels as the exchange lists them (`CostIsListed`).  One
  contract more costs what the level it comes from asks, and none bought before
  costs more (`OneMoreCosts`, `CostBounded`): the sizes within the slippage are those up to
  the largest (`BudgetShrinks`, `LargestFacts`).  That is what makes the search right:
  `SearchFinds` is an induction over the length of the range it looks at (`Answer`).

  `ReportsAreRight` needs to know two things.  What a row is: a comprehension lists each
  of its elements once and in order (`Enumerates`, `KeptFacts`), and of a sorted list cut
  off at `top` whatever is left out has as many better before it (`TopIsListed`).  And that
  what a command holds at its last step still means what it meant when it was read:
  `ReportInv` joins the types of exchange and database (`World`) with `RowsInv`, which says of
  the command what stages, options and rows fit together (`Typed`, `InCommand`), what each row
  under construction owes to the requests so far (`OnTheWay`), and that what is shown stays
  right (`AsShown`).  For `opportunities` the rows keep the order of the candidates, which are
  the best of the verified markets (`BestOf`, `Reports`); for `new-markets` the candidates
  looked at so far each have a row or a category nobody asked for (`LookedAt`); for `movers`
  a row is the change over a window of the stored prices, and snapshots stored meanwhile only
  come before it (`Spanned`); for `arbitrage` the rows of pairs and of groups are
  joined, sorted and cut (`RowOf`, `Sifted`).
* `ResearchAgentProofs` (from `AgentAssumption`): `TypeCorrect`, `SpendStaysBounded`,
  together `BudgetIsKept`.
  `SpendBounded` is not inductive because the cost of a deep step is known long after
  `can_spend` was asked: between the two, requests are retried, tasks recovered and other
  runs' tasks reported.  `GoodRun` keeps, for every run between the create request and
  the report, that its recorded spend plus the estimate still fits the budget, and
  `TasksOK` that a completed task costs no more than the estimate and `MaxOvershoot`.

  `NothingIsBoughtTwice` counts what a market has paid for: tasks nobody collected, requests
  on the wire nobody waits for, and runs that may still send one (`Dues`).  `Paid` says
  that one purchase is free and every other one is paid for by a mishap, and it is
  inductive because it says which of the two it is at each moment: whether the file names a task, whether
  a run has loaded it, and whether one holds a task that somebody else collected.
  `ReportsStayOwn` adds `Tidy`: as long as nothing went wrong for a market, one run of it
  is at work and the file follows that run step by step (`InStep`).  `AgentAssumption` says
  that a plan has at most one research step, which is how `_plan_builder.py:104` builds it;
  with two, TLC refutes `NothingBoughtTwice`.
* `DesksProofs` (from `DeskAssumption`, `StartAssumption`, `AlertAssumption`) holds the
  theorems of `ResearchDesk` and `AlertDesk`.
  `OneDaemonAtATime`: `Locked` says who may hold the open file that locked the log in
  each stage of a command, for a daemon's whole life included.
  `NoAlertIsLost` and `NoThesisIsLost`, together `NothingIsLost`: what a command is about
  to write comes from the file as it is now unless another one replaced it meanwhile
  (`CopiesCurrent`, `UpToDate`), and ids are distinct also while an `add` is under
  way (`IdsDistinct`), so that a removal removes one alert.
  `EveryAlertIsTold`: `FiringAddsUp` says that a condition has come true in all a monitor
  saw exactly when it had before the last quote or the comparison of that quote with the
  price before it fires; `Watched` that the price the monitor remembers is that price, and
  that of a condition it has not told nothing has happened up to the pass.
  `BudgetsHold`: `WithinBudget`, together with what `can_spend` established for the call
  under way.  `CacheIsSound`: `EntrySound` files every whole entry under its question;
  `WriterSound` says that who has an entry open wrote its first half, or the entry was
  shared, so that the second half belongs to it.
* `NewsDeskProofs` (from `TablesAssumption`, `PipelineAssumption`): `NoOrphans`,
  `AloneNothingIsRefused`, `PruneTakesTheOld`, `ExportsAreConsistent` and
  `CatalogueIsKept`.  `NewsWhole` speaks of the file and of the lock holder's
  uncommitted rows.  That it holds of both at every step needs to know what each command
  remembers from before its lock (`Good`): the phase a sweep is in and what it has
  fetched (`Sweeping`), what `prune` counted and which tables it has been through
  (`Pruning`), the rows `track` and `export` have read, which are still the rows unless
  somebody committed meanwhile (`Tracking`, `Exporting`), and what `untrack` and `collect`
  are about to link or delete (`Untracking`, `Collecting`).  `LockSound` says that a
  command keeps uncommitted rows from one step to the next only in a sweep and between
  storing an article and linking it, and what these rows add to the file (`WorkOf`).
  `PruneTakesTheOld` needs no more than that.  Every step is somebody's (`Acts`), the
  others stand by and learn only that the file has changed (`StandBy`), and of the six
  kinds of commit (`Commits`) a prune alone deletes.
  `ExportsAreConsistent`: `FilesAgree` says that the files an undisturbed export has
  written equal the tables, and that of every exported price, which months of earlier
  exports may be part of, the market has its row.  This uses `PipelineAssumption` on the
  files there are at the start; that rows never go (`RowsStay`) keeps it true.
  `CatalogueIsKept`: `Faithful` says that a market the file calls settled is settled
  (`Final`, assumed of the files at the start), that what a command was told and has yet
  to write was true and, unless somebody committed since, does not reopen a market
  (`Truthful`), and what a sweep may have changed in the rows that were there, phase by
  phase (`Keeping`).  It is an invariant beside the first one, and with it each commit is
  seen to lose only what `CatalogueStep` lists.

* `PortfolioProofs` (from `PortfolioAssumption`) holds the theorems of `PortfolioSync` and
  what they need of `PortfolioLedger`.
  `ProfitMatchesCash`: `LedgerInv` compares the cash of a market not with the table but
  with the two books `Fifo` makes of all its fills.  While the market is open, at most one
  side holds lots, their number is the position, and the cash is the profit of both books
  less what the lots cost (`OpenBooks`); a settlement pays for the lots.  That it is
  inductive is a fact about one more fill (`OpenBuy`, `OpenSell`): a purchase adds lots or
  first closes those of the other side, at the inverted price.  The profit of the
  table is that of the books once all fills are stored.
  `TablesFollowAlways`: `SyncInv` says of every run what it may carry at each of its stages
  (`Staged`), of a run that nobody overlaps that what it has read is what there is and
  what it has written is right (`LoneRight`), and, from the end of such a run until the exchange moves,
  that the tables are right (`Kept`) and that no run which began later, lone or not,
  aborted or not, can undo it (`InStep`): what it carries agrees with the table in
  everything an UPDATE would change.  `RowsFew` bounds the rows: a market's open rows that
  hold contracts and the runs about to insert one are together no more than the processes.

Folds, sums and recursive functions are reasoned about by induction over the natural
numbers, over finite sets and along sequences: the library's well-founded induction yields a least
counterexample, which needs no operator as parameter (`LeastNatural`).

Only model-checked: liveness (`EveryAcquireEnds`, `EveryCallEnds`, `LossIsHandled`,
`KeepsCalling`, `EveryCallWrites`), which is outside the reach of the prover.  Every
invariant and every action property that a passing run checks is proved.

## Where code and documentation disagree

One run is expected to fail:

* `MCTradeExecutorAudit`: `create_order` "always writes an audit event", but
  `run_live_checks` is awaited before the `try`, so what escapes from it leaves none.

The models also contain these, which no run is spent on:

* `create_order` of the harness documents `yes_price_cents` as a YES price
  (`_executor.py:167`), checks and audits it as one, but the client sends it in the field
  of the order's side (`orders.py:97`): a NO order is placed at 100 minus it.
* `close()` during a reconnect does not last: `connect()` sets `_running` again
  (`websocket/client.py:92`).
* `get_markets` follows an empty cursor (`api/_mixins/markets.py:153`), which the API
  reference calls the end (`docs/_vendor-docs/kalshi-api-reference.md:98`).
* An alert for "all markets" (`alerts/conditions.py:39`) is looked up as a market of that
  name and never fires.
* The recorder prints that it only reads in production, and `--include-phase5-writes`
  posts there all the same.
* News articles are "many-to-many" with markets and events (`data/models.py:186`), but
  the collector links an article only to the item that found it first.
* `_arbitrage.py:77` says a partial sum is not meaningful; with `--max-pages` the groups
  are partial and reported.

Behaviour that surprised us and is described by a property or the model rather than by a
failing run:

* tokens earned during a sleep are credited twice (`TwiceRateBound`), and retries do not
  ask the rate limiter (`_base.py:99`);
* overlapping calls exceed the daily order limit and the notional limit by what
  overlapped (`DailyLimitOverrunBounded`, `NotionalOverrunBounded`); an amended order is
  not checked again;
* a duplicate (409) of an order whose first answer was lost is reported as an error;
* a WebSocket subscription whose send failed keeps its handler; a second try delivers
  every message twice;
* tasks scheduled while `stop()` waits outlive it; `schedule_once` before `start()` is
  dropped;
* two runs that mark prices at once can leave a row with the mark of one and the profit of
  the other: a quote equal to the mark that was read leaves that column out of the UPDATE
  (`_mark_prices.py:78`), so only a mark made alone is `fresh`;
* a fill that comes on two pages undoes the whole `sync_trades`; overlapping syncs insert
  duplicate open rows that no later sync merges; the stored cost basis uses the sides
  trades name (`_sync_helpers.py:45`), while the profit normalises them: a YES position
  bought at 40 and at 60 with one contract sold keeps 50 where FIFO leaves 60;
* a task that was paid for is orphaned when the process dies, or the answer is lost,
  before `save_research_task`, because the list is searched only when a file exists;
  `POST /research/v1` is retried without a key; a failed step is recorded at cost 0 and
  a recovered task is booked by the run that collects it; the list is matched by the
  first 50 characters of the instructions; `httpx.RemoteProtocolError` is not caught by
  `_request` and ends the run; with the default budget of `agent analyze` (0.25) the deep
  step (estimate 0.50) is always skipped.

## What is not modelled

* Of the modelled parts: `RateLimiter` (which bucket, what cost), how long
  backoffs last, the contents of messages, `OrderSide()` raising `ValueError` before the
  audit, the GET of a dry-run decrease, fees, trades of unknown side, lots implied by
  settlements, statistics of `PnLSummary`, what Exa bills for requests without an answer.
  A canceled research task is treated as a failed one, as the code does.  In the data
  pipeline: vacuum, statistics, the trades command (it stores nothing), queries over
  Parquet, full-text search.  In research: scoring and rendering, list and show of
  theses.  In the scans: `estimate_price_impact` and the hints about timing.  Of the
  scripts: the Exa recorders, which have the shape of the exchange's without its writes,
  and the check of mocks.
* Parts that stay out: statistics over floating-point numbers (calibration,
  correlation, edge, sentiment, backtest), text written by language models and the
  kernel that passes it on, validation models, authentication, the remaining commands,
  migrations, notebooks.

## Plan

What is left, in this order:

1. `RateLimiter` on top of `TokenBucket`: which bucket, what cost.
2. The agent kernel: what a failing provider or synthesizer leaves, and when the second
   synthesizer is asked.
