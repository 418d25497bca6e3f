# Investment Overview: TLA+ models and proofs

Formal models of the parts of the portfolio dashboard whose correctness depends on order,
failure or date arithmetic: the server's caches, jobs, scheduler and backups, the event
stream and the browser tab that follows it, and the companion site that pulls prices on its
own under the budgets of two providers. TLC checks small instances of every module; TLAPS
proves the main safety properties for all values of the constants. Paths:
`…` is `src/backend/src/investment_dashboard/`, `web/` is `src/web/src/`, `fe/` is
`src/frontend/src/`.

## 1. The system

**The server** is one Python process: FastAPI on a thread pool, a scheduler coroutine,
threads for maintenance jobs and warm-ups, and one SQLite file (ledger, config and cache
tiers). It may stop at any moment; the database, the backup directory and what browsers hold
survive. **The desktop front end** (`fe/`) is a React app over the server: queries, optimistic
writes, an event stream. **The companion** (`web/`) is a static site without a server: it
opens an encrypted export the server published, then pulls quotes, rates and bars from Twelve
Data and Tiingo with the user's keys, caches them in localStorage and IndexedDB, and
paints.

| Component | State | Operations | What is hard |
|---|---|---|---|
| read cache `…/services/read_cache.py` | entries by key and generations, flights, boot nonce | cached read, wait, store, invalidate, warm-up, conditional reply | computations race with bumps; waiters depend on another thread; generations restart at 0 |
| sessions `…/db.py`, write middleware `…/api/app.py`, `deps.py` | one transaction per request, per-session memo | load, commit, bump | the bump and the commit are far apart |
| job runner `…/services/job_runner.py` | running jobs, heavy mutex, last results | start, run, finish, store | two starts at once; a thread that cannot be created |
| scheduler `…/services/scheduler.py` | clocks, requests, pauses (memory and `app_config`) | poll, decide, run, stamp, pause, request | API threads act while a pass awaits its jobs; restarts |
| sealed backups `…/services/backup_service.py` | files by second, dirty flag in `…/db.py` | mark, due, copy, write, prune | writes go on during a backup; SQLAlchemy hooks; crashes |
| live events and state `…/services/live_bus.py`, `live_state.py`, `refresh_status.py` | bounded queue per subscriber, tick sequence, depth of refreshes | publish, drop, catch up, begin, end | full queues, announcements out of order, a sequence that starts over |
| tab's live client `fe/lib/live.ts`, `refresh.ts`, `serverStatus.ts` | connection, last sequence, banner, bar, graph query | open, retry, catch up, patch, poll | gaps, restarts, answers that cross |
| tab's writes and sign-in `fe/lib/optimistic.ts`, `queries.ts`, `ledger.ts`, `auth.ts` | query cache, mutations, cached session check | draw, confirm, roll back, refetch, wipe, guard | rollbacks and fetches cross; late 401s |
| provider budgets `web/cache.ts`, `reservation.ts`, `provider-breaker.ts` | two ledgers, two breakers | reserve, refund, freeze | two pulls between each other's awaits |
| price pulls `web/quotes.ts`, `tiingo-fallback.ts`, `app.ts` | quote cache, report of a pull | currency, market, funds, backup, safety net | three passes report on the same symbols; partial failure |
| refresh rounds `web/app.ts`, `refresh-policy.ts` | flags, timer, session number, promoted tap | tick, wake, hide, lock, unlock, save, reset | rounds abandoned in the middle; one timer armed by everyone |
| deferred queue `web/deferred-queue.ts` | bounded queue and its stored copy | enqueue, promote, drain, settle | reload, attempts, forced entries |
| session store and close probes `web/timeseries-store.ts`, `close-completeness.ts`, `live-graph.ts` | the day's record, probes, strikes | build, merge, append, probe, regenerate | load and save without transactions |
| calendar `web/market-hours.ts` | none | holidays, sessions, fund publication, currency week | weekends, New Year's, boundaries |
| staleness and coverage `web/freshness.ts`, `quotes.ts`, `coverage-check.ts` | none | ages, outdated symbols, marks, headline, verdict | five places judge the same thing |
| planning and fan-out `web/data-orchestrator.ts`, `provider-fanout.ts`, `refresh-window.ts` | none | legs, promotions, delays, scopes, split over providers | paid twice, or by nobody |
| curve repairs and exports `web/week-repair.ts`, `springboard.ts` | none | repair a leg, rebuild a session, seed a curve from an export | which leg is broken; whose session it is |
| calculator `web/allocation.ts` | the form | weights, gaps, orders | rounding, zero prices, negative cash |
| companion valuation `web/compute.ts`, `cache.ts` | cached quotes | price, step, baseline, day's move, movers, priming | old moves, a baseline that follows arrivals |
| imports, restore, settings, authentication, server-side Tiingo budget, prices and snapshots, ledger walk, returns | see `PROJECT.json` | | not modelled (section 6) |

How they interact. A route handler reads through the read cache; a write is bumped by the
middleware and committed by its session; jobs commit and publish an event, and publishing
bumps generations before any browser hears of it. The scheduler asks the job runner whether a
heavy job runs and the backup service whether a backup is due. The tab patches its queries
from events and refetches what it cannot patch; a write draws on the same queries. In the
companion a round asks the planner what to pull, the fan-out who pulls it, and the ledgers
whether there is credit; what it did not get goes to the deferred queue; the graph's builders
share one stored record with the pull of bars and the trail of ticks; the staleness functions
decide both what is fetched and what the page says about it.

What makes each component correct is stated by the properties of section 3. `PROJECT.json`
lists every component with what is and is not modelled, and every hazard at its line with the
property that covers it.

## 2. Modules

| Module | Models | Composes |
|---|---|---|
| `FreshReads` | what cached reads promise, without a cache (abstract specification) | |
| `ReadCache` | read cache, sessions, middleware, publishing jobs, ETags, restart | implements `FreshReads` |
| `JobRunner` | `job_runner.py` | |
| `Scheduler` | `scheduler.py` | extends `JobRunner` |
| `Backup` | `backup_service.py`, the hooks of `db.py`, savepoints of `transactions_repo.py` | |
| `LiveStream` | server's bus, sequence, refresh depth; the tab's stream, banner, graph query, bar | |
| `Writes` | optimistic edits and creates, refetches, sign-in, guard, wipe | |
| `Credits` | ledgers, reservations, breakers of both providers | |
| `Pulls` | `refreshPrices` and the login warm-up | extends `Credits` |
| `DeferredQueue` | the queue and its stored copy | |
| `Rounds` | the refresh loop and everything that touches it | extends `DeferredQueue` |
| `CloseProbes` | probes of a close, strikes | |
| `SessionCurve` | the day's record and its concurrent writers | extends `CloseProbes` |
| `Calendar` | `market-hours.ts` | |
| `Staleness` | ages, times to live, fund and market holdings | extends `Calendar` |
| `Coverage` | what the page says about a painted book | extends `Staleness` |
| `PullPlans` | legs, promotions, delays, scopes | |
| `FanOut` | the split over providers and the chase after fund values | |
| `CurveRepair` | repairs of curves that lack a leg | extends `Calendar` |
| `Springboard` | exports that stand in for a pull | extends `CurveRepair` |
| `Allocation` | the calculator | |
| `Valuation` | cached quotes, the day's move, the movers | extends `Calendar` |
| `Algorithms` | what the proved algorithms promise of one case | extends `Coverage`, `PullPlans`, `FanOut`, `Allocation`, `Valuation` |
| `MCAlgorithms` | the cases, and what the repaired curves promise of one | extends `Algorithms`, `Springboard` |
| `MC…` | instances for TLC | |
| `…Proofs` | theorems, one module per state machine; `CompanionProofs` also those about `Algorithms` and `Valuation` | |

**ReadCache.** Data are version numbers: `db[d]` counts commits to a dependency, an answer is
the version of each dependency its endpoint read. A thread is a program counter and the locals
of the wrapper; an action is one critical section of `read_cache._lock`, a reading of the
clock, a load, or the response. `bumped` is a history variable: what the database held when a
generation was last bumped. A request is answered, then committed (`RespondRequest`,
`CommitRequest`), the order in which fastapi runs the middleware and a dependency's teardown.
`SharedSession` threads are those of `warm()`, which share one session and its memo.

**JobRunner.** A run is `none`, `starting` (registered), `body`, `storing`, `done`. `Start` is
the locked part of `start()`, `SpawnFails` the failure to create a thread, `Finish` the
function's end with the locked part of `_finish()`, `Store` the write of the result outside
the lock. Job events and the deque of recent runs are left out: nothing reads them back.

**Scheduler.** `Decide` reads everything a pass reads: clock, pauses, mutex, requests, each
once. `CrossOff` then takes the requests it read off the list, so that one may arrive between
the two. `StartJob` and `EndJob` are the two sides of the `await` in `_run_job`. Any access to
the pauses loads the stored ones once per process, and each reading and writing of the settings
may fail at the instants of `Outages` (`read`, `wrote`, `rewrote`); as in the code, the caller
goes on. `Snapshot` is the page that looks. Two history variables say what such a failure cost:
`sure` the jobs whose pause memory vouches for, `stored` those the settings do. Time counts poll
periods; constants give the exchange calendar. What a market job finds is nondeterministic: it
may raise, and a rate lands only while EUR/USD trades.

**Backup.** A session runs a script of statements (`flush`, `bulk`, `insert` under its
savepoint, `row` of an import, which may be a duplicate). The hooks fire as SQLAlchemy calls
them, also at the end of a savepoint. The driver (sqlite3, legacy transaction control) opens a
transaction at the first INSERT, UPDATE or DELETE, so a savepoint outside one is committed by
its release (`InsertAlone`) and one inside fires the hook early (`InsertNested`). A backup
thread is `idle`, `named`, `copied`, `written`; only the scheduled one clears the flag.
`unhooked` is a history variable, the writes the flag does not vouch for: bulk writes; what a
crash made it forget; what a session had written when a backup started between the release of a
savepoint, which used the session's flag up, and the commit it stood for; and what a file lost
that was replaced by an older copy of the same second. A commit whose hook finds the flag
vouches for all its session wrote.

**LiveStream.** One tab and one subscriber's queue; samples are numbers. Refreshes are
announced outside the lock, so that an end may be announced before a start. The server may go
down announced or not, and its sequence starts over. The health poll is atomic, the two
refetch timers are one, and the graph asks once at a time. Four history variables serve
`NoHole`: `lastOf` is the process that numbered `lastSeq`, `known` the newest sample the tab was
told of, `overtaken` says that the last fetch to land was older than that, and `mixed` that a
process has since answered a catch-up from a tick of another one.

**Writes.** Three writes of one tab over one list. An edit first cancels the fetches (`Begin`),
then, after that await, takes its snapshot, draws and is sent (`Draw`); a create is only sent.
Each is served (or refused, lost, barred by a 401) and settled; a rollback restores the
snapshot, a barred one too. Fetches read
the server and land later. `missed` is a history variable for the rows the tab has no cause to
fetch again.

**Pulls.** A pull is a phase and what its awaits return; between them the other pull runs. The
ledgers count grants and refunds per instant; a call may be served, refused with a 429, fail
or serve part of a batch. A minute and an hour are two instants, the horizon is within a day;
retries are part of a call's duration. `billed` is a history variable.

**Rounds.** A round is `idle`, `prices`, `bars` or `tail` with two flags: it owns the refresh
flags, and it belongs to the present session (`same`). Times are capped ages. What a round
pulls is a subset of the symbols. Awaits on device storage and the login's own are
instantaneous; a timer of an earlier session counts as off, since it does nothing when it fires.

**SessionCurve.** One symbol; bars are their newest instant, or none. A builder loads the
record, asks one or two providers, draws, then merges by loading again and saving, with other
writers in between. `Patience` bounds how long an answer takes, `Writers` the writers
at work at a time.

**The pure modules** (`Calendar` to `Allocation` and `Valuation`) are operators over small records. The variable
`case` of `Algorithms` holds the algorithm and the input a property is about; `MCAlgorithms`
picks one in a step and compares with definitions written another way (the
holidays of a year from its weekdays, a plan's legs against what each symbol is owed, a damaged
curve against the curve it was made from, orders against the cash that pays them). Times are
minutes of the exchange's wall clock; amounts are integers (rates in thousandths, money in
cents, weights in hundredths of a percent).

## 3. Runs

Ten runs pass and two are expected to end with a violation. Type invariants are not among
their properties: TLAPS proves them.

| Run | Question | Properties |
|---|---|---|
| `ReadCacheFresh` | Is any answer older than what was announced; is every request answered, even behind a stuck leader? | `CacheNotOlderThanBump`, `PublishedDataCurrent`, `KeepsPromise`, `RequestEnds` |
| `ReadCacheFlight` | Do threads share computations; are cap and time to live kept? | `SingleFlight`, `WaitersHaveLeader`, `CacheBounded`, `NoExpiredAnswer` |
| `Scheduler` | Do pauses last, requests run, the closes arrive; is the mutex given back? | `PausesKept`, `RequestRuns`, `EodArrives`, `MutexOwned`, `MutexFreed` |
| `Backup` | Is a write forgotten in any but the four known ways, does each reach a backup? | `Covered`, `BackedUp` |
| `BackupNested` | violated: every write marks the database dirty until a backup has it | `WritesRemembered` |
| `LiveStream` | Does the tab keep a stream, miss a sample for good, lose a banner or a bar? | `StreamHeld`, `NoHole`, `BannerEnds`, `BarEnds` |
| `Writes` | Is a fresh list what the server holds; does the guard act on old news; does a wipe last? | `RowsConfirmed`, `GuardFresh`, `WipeKept` |
| `Pulls` | Can two pulls spend a credit twice, lose one, or report a price wrongly? | `LedgerTruthful`, `GrantsPaced`, `WaitFillsMinute`, `Airtight` |
| `Rounds` | Do the flags have one owner, does the loop go on, is a forced symbol kept? | `OneOwner`, `LoopHeld`, `QueueSaved`, `DeferralKept` |
| `RoundsLost` | violated: after a login the loop is always armed | `LoopArmed` |
| `Session` | Is a day settled only when it was earned; are dead series parked? | `SettledEarned`, `StrikesBounded` |
| `Algorithms` | Are the pure algorithms right on enumerated inputs? | `CalendarRight`, `VerdictsAgree`, `HeadlineHonest`, `PlansRight`, `MoveHonest`, `CurvesHealed`, `SprungTrue`, `OrdersSound` |

### Bounds

* ReadCache: two reader threads, one job and one request, one version per dependency.
  `ReadCacheFresh` has one key, a restart, and a thread (`r2`, not in `Prompt`) that may never
  return; `ReadCacheFlight` two keys with one slot, two ticks, one exception, and a thread that
  reads through a shared session. Two threads are what a
  flight, a waiter and a timeout need; two keys with one slot force an eviction; one commit
  makes an answer old, one restart resets the generations under a browser's copy.
  `RequestEnds` assumes a cap of at least the number of keys: with one slot for two keys, two
  threads can evict each other's answers for ever.
* Scheduler: instants 0 to 2, both markets close after 0, one pause, one request (also of an
  unknown name), one heavy job started once, whose thread may fail, one restart: the shortest
  calendar with a live period, a close and time to retry. The settings fail at instant 1 only
  (`Outages = {1}`), so that a pause may be set before, during and after it; the theorem holds
  for any `Outages`.
* Backup: instants 0 to 2, debounce 1, nightly 2, one request of any kind but the routed one
  (it sends what a manual and a `newSymbol` transaction send, in a row; the theorem has all six),
  a scheduled and a direct backup, one failure, one restart, a retention that
  deletes. A second session only waits for the write lock; the theorem holds for any number.
  `BackupNested` needs one `newSymbol` request and neither failure nor restart.
* LiveStream: three samples, a queue of one, one refresh, two events that happen to the tab or
  the server. A queue of one is full with the first undelivered event, and three samples are
  what a catch-up, a live tick and a fetch need to bring one each, in any order.
* Writes: two edits and a create, one sign-in, one lost answer. Two edits are what a rollback
  of a rollback needs; the create is the write that draws nothing. The edits are symmetric.
* Pulls: two pulls, a stock and a fund, instants 0 to 2, a minute and an hour of two, Twelve
  Data caps 2 and 3 a day, Tiingo's 2 and 3. Both caps can be reached by either pull, the
  pool fills again within the horizon, and the day's cap is met after the minute's.
* Rounds: two rounds, one symbol, every delay one step, a queue of two, one attempt. A second
  symbol would only order the queue, which the theorems cover for any book; a third round
  would need an owner that is neither the newest nor the last; the theorems hold for any
  number.
* Session: two builders, close at 3 of 4 instants, tolerance 1, an hour of 2, two agreements,
  two strikes, cooldown 3, one crumb on the trail, horizon 3; builders are symmetric.
* Algorithms: the published closings of 2021 to 2024 and moments around two New Years and a
  long weekend; curves of 7 points over 3 sessions with holes of
  20, 40 and 70 percent; exports drawn at 11 moments around a long weekend; forms of 3 funds in
  2 categories; books of two holdings, a
  sweep fund and cash, quotes of three sessions around a long weekend, three arrivals in the cache.

The constants whose names begin with `Max`, `Horizon`, `Patience` and `Writers` bound the
exploration and nothing else; the theorems hold for all their values (`Patience` below half the
cooldown, section 4). `CHECK_DEADLOCK FALSE` is
set where the system comes to rest when its bounds are used up: Backup, LiveStream, Pulls,
Session, Algorithms.

### Fairness

* `ReadCacheFresh`: a thread whose endpoint returns (`Prompt`) keeps running and its waits time
  out (the wrapper passes a timeout to `Event.wait`). Nothing is assumed of other threads or
  writers.
* `Scheduler`: threads run, job functions return, the event loop polls, time passes. None on
  API calls, on a failing thread creation, or on restarts.
* `Backup`: the scheduler polls and runs a due backup, a backup ends or fails, time passes.
* `LiveStream`: weak fairness of two disjunctions. `ServerGoesOn`: a server that is down comes
  up, its refreshes end and are announced. `TabGoesOn`: something that is due in the tab happens
  (it is shown or online again, a timer, a listener, an answer). No single one of them is
  assumed to have its turn before the others are used up, and nothing of events, drops, hides
  or restarts.

## 4. What is proved

TLAPS proves, for all values of the constants that meet the stated assumptions:

* `ReadCacheProofs`
  * types, then `FlightsTracked`, which ties each flight to the thread that leads it and each
    waiter to a flight; `SingleFlight` and `WaitersHaveLeader` are not inductive without it;
  * `CacheNotOlderThanBump` needs `FreshInv`: whatever a thread has loaded, computed or
    answered, and whatever a browser holds under a current ETag, is not older than the bump its
    generations stand for. With `CommitsAnnounced` (what is committed and not bumped is owed by
    a writer) `PublishedDataCurrent` follows;
  * `CacheBounded` (the cap, and one answer per key) from `SlotsInv`: the order of use strictly
    orders what is cached, so that a finite cache has an entry to evict and evicts one. That it
    is the least recently used is modelled (`Trim`, `MoveToEnd`) and is no part of the claim;
  * `NoExpiredAnswer` from `AgesInv`: an entry's expiry, and the reading of the clock in each
    call, bound the age of what is handed out;
  * `KeepsPromise`, the refinement of `FreshReads`, step by step.

  Freshness, `PublishedDataCurrent` and the refinement assume `SharedSession = {}`, since they
  fail with a shared session (section 5); the others hold with one.
* `SchedulerProofs`: `RunnerInv` (the table of running jobs holds exactly the live runs, which
  exclude each other), hence no two heavy jobs and `MutexOwned`; every scheduler step is a
  runner step or leaves the runner alone; types; `PausesKept`, for any `Outages`: memory is
  right about the jobs in `sure` and the settings about those in `stored`. A failed read takes
  all jobs out of `sure` for the life of the process, but for those set again; a failed write
  takes its job out of `stored`, and the next that succeeds makes `stored` what `sure` is.
* `BackupProofs`: types, and `Covered` for all kinds of request and any number of sessions and
  backups, also of one second. `FlagInv` adds that a
  session's flag, or `unhooked`, answers for what it flushed (`Vouched`), that a backup under
  way is as new as the files by the time it counts (`Dated`), and that a write the flag gave up
  is carried by a file, a backup or a copy (`NotForgotten`).
* `LiveStreamProofs`: `StreamHeld`, inductive by itself, and `NoHole` from `HoleInv`, in which
  the ticks of a process number the samples taken since it started (`Numbered`), `lastSeq` names
  a sample the tab was told of when that process still runs (`Noted`), a catch-up asks since
  such a sample and, if the process that numbered it answers, brings every later one (`Asked`,
  `Answered`), and, `overtaken` and `mixed` apart, with no fetch under way or scheduled the
  graph is complete up to the newest sample told of (`Complete`). It covers restarts,
  announced or not, until a new process answers a catch-up of the old one's numbers. Types,
  part by part, and `DepthCounts`: the depth is the number of refreshes that run.
* `WritesProofs`: types, `RowsConfirmed` from `RowsInv` (each write's snapshot and the list
  differ from the server by the writes under way, unless a fetch is owed), `GuardFresh`,
  `WipeKept`.
* `PullsProofs`: types, and
  * `Airtight` from `PullsInv`, which follows each symbol through the passes of a pull: what a
    pass holds to be priced is cached, and what it still asks for was not yet reported;
  * `GrantsPaced`: every step books nothing, one grant or one refund (`Books`), none ahead of
    the clock (`NothingAhead`), so the window a grant is read from is the fullest of those it
    falls in and its cap is everyone's;
  * `WaitFillsMinute`: the delay counts from the newest booking in the window, and whatever is
    older has left it by then;
  * `LedgerTruthful` from `Owed`: what of its grant a call under way has not yet settled is what
    the ledger holds beyond the bills; `Weighed` says that a grant is one credit per symbol
    asked for.
* `RoundsProofs`: types, and
  * `OneOwner` and `LoopHeld` from `RoundsInv`: the flags name one round, a round of the present
    session that lost them was replaced or let go, and whoever clears the timer leaves a round
    that will arm it;
  * `QueueSaved` from `QueueInv`: the queue is bounded, holds a symbol once and equals its copy.
    The reload is the step that needs it: the loop of `restore` over such a queue gives it back
    entry by entry;
  * `DeferralKept`, for a book that fits the queue (`Cardinality(Symbols) <= QueueMax`, 64 in
    the code): parking evicts nobody then, and a drain keeps a forced entry that has attempts
    left. In a larger book the oldest entry is evicted, forced or not, by design.
* `CompanionProofs`, of `SessionCurve`: types, `SettledEarned` from `EarnedInv` (each probe's
  count of agreements is at most the number of agreed hours up to its last attempt, also in the
  copies that builders hold), and `StrikesBounded` from `StrikeInv` (a series is armed from its
  last strike on, and a build that began before the arming strike is over when the cooldown is).
  It assumes `2 * Patience < Cooldown`: no request outlives half the 30-minute cooldown.
* `CompanionProofs`, of `Algorithms`: what the run checks of enumerated inputs, for all inputs.
  * `ExchangeNeverShut`: six days in a row hold a session. From Tuesday to Thursday the exchange
    is closed for one of four dates, the Friday before Easter or Thanksgiving
    (`MidweekClosings`); six days hold two such days, one or five apart, and no two closings
    are. `EasterInSpring` bounds Easter, and `YearFound` finds a day's year, up to `LastDay` in
    2790, where the model's `yearOf` stops looking far enough.
  * `CalendarAlwaysRight` (`CalendarRight`). Its years are the four whose closings are known,
    computed day by day (`ClosingsOf2021` to `ClosingsOf2024`). Its moments are all minutes from
    March 1970 to `LastDay` (the lemma `ClockAlwaysConsistent`): each answer of the clock is a
    session with no other between it and the moment or the next answer (`PreviousIs`,
    `SettledIs`, `FollowingIs`, `LastIs`), and the sessions counted one by one from the settled
    one are in bijection with those after the day asked about, up to the cap of seven
    (`CountedBack`).
  * `VerdictsAlwaysAgree`: a quote that holds the settled close is younger than the long time to
    live as long as the exchange is shut, because the settled session is at most six days back
    (`ContextFits`). It assumes what the code has: a long time to live of a week, and quotes of
    sessions that had begun when they were asked for (`Quotes`).
  * `HeadlineAlwaysHonest`: the counts behind the sentence are cardinalities of subsets of the
    book, which are equal exactly when the sets are.
  * `PlansAlwaysRight`: every plan by its legs (`PullSound`), every delay (`DelayRight`: the
    relief is the moment of the first spend to leave the window, and the slowdown is monotone
    through its rounding), every fan-out and chase by the parts of the sequence (`FanoutRight`,
    `StartupRight`, `ChaseRight`). Inputs are typed, not bounded.
  * `OrdersAlwaysSound`: sums over the funds are taken element by element, and what a division
    by weights loses is less than one unit per fund. `IsForm` asks that each fund lies in one
    category and that a category's target, in hundredths of a percent, is no smaller than its
    number of ticked funds, so that no share of it rounds to nothing.
* `CompanionProofs`, of `Valuation`: `MoveAlwaysHonest` (`MoveHonest`), in three parts.
  * The baseline (`BaselineTrue`), for books of any size on any session up to `LastDay`. The
    total is the book's worth at the newest mark of each holding, and the anchor its worth at
    the session before, or at the newest mark where that is older (`TotalsTrue`): of each
    holding the value shown less its step is its value at the close before (`ExactParts`,
    `ViewIs`), whether a quote or the export supplies the mark (`ShownIs`, `BaseIs`), and what
    the sums leave out is nothing (`SumOverAll`). The move by the rate is what the baseline
    gained by the rate alone (`RateMoveTrue`). Hypotheses (`IsPortfolio`): each mark carries
    the close of the session before its own, which a mark that a bar has begun does not
    (section 5); amounts leave no rest at today's rate, because
    the model's whole numbers stand for the code's fractions; today's rate is known or neither
    is; and the worth is below the number that stands for null. Which quotes have arrived is
    free, so the anchor depends on them only where a holding has nothing newer.
  * The board (`BoardTrue`), over those views: the order by money and the order by share, in
    which ties go to the earlier holding, each have a first in every finite pool (`LeaderOf`,
    and `CrossTransitive` for fractions), so the choices of `pickMoverSide` are made. That a
    gainer's dollar figure is a gain follows from the same exactness (`SameSide`);
    `BoardAlwaysTrue` states it for any views that no conversion rounds to the other side.
  * The cache (`CacheAlwaysTrue`, `CacheTrue`), with the invariant that no mark is of a later
    session than its own instant (`Dated`), which every arrival keeps. A mark with the close
    before it has it after every arrival but a bar that begins a session or comes to an empty
    cache. So the cache does not guarantee the first of the hypotheses above. It assumes that
    providers and exports deliver a price with the close before it (`Delivered`).

`PullsAssumption` and `RoundsAssumption` ask for finitely many pulls and symbols. Sums over
instants and loops over a queue are recursive functions, that is, the chosen solutions of an
equation. The library's induction theorems cannot be instantiated here, so `PullsProofs` and
`RoundsProofs` show by a least counterexample (`FirstOf`) that a solution exists (`SumIs`,
`LoopRuns`) and that what every pass keeps holds at its end (`LoopStays`).

Only model-checked: liveness (`RequestEnds`, `MutexFreed`, `RequestRuns`, `EodArrives`,
`BackedUp`, `BannerEnds`, `BarEnds`), which TLAPS cannot prove here, and two properties of
`MCAlgorithms`. `CurvesHealed` and `SprungTrue` compare what is drawn with a curve or an export
that the run makes up, within a tolerance that is that curve's; the repairs are heuristics, and
hold for curves like these, not for all. What is drawn is also cut by `SelectSeq` (the code's
`filter`), which neither the prover's backends nor its library say anything about, and whose
value for every sequence is an induction over data. All other properties of the passing runs are theorems;
TLC checked that each case the run enumerates satisfies the hypotheses of the theorems about it.

## 5. Findings, and what does not hold

Two runs contradict statements of the repository, quoted in `PROJECT.json`.

* `RoundsLost`: settings saved
  while the first round is in flight leave a visible, unlocked page with neither a timer nor a
  round; a wake right after another one ends the loop the same way.
* `BackupNested`: `docs/v6_progress.md` 75 promises a backup within about two minutes of any
  write. The commit hook also fires when a savepoint inside the transaction is released, and
  uses the session's flag up (`…/db.py` 426-431). A scheduled backup that starts then clears the
  mark and copies the database without the write; the commit itself marks nothing, and the write
  waits for the next one or for the nightly backup.

Other statements TLC refutes are written in their modules, beside the properties that hold,
with the reason. They are not part of a run; each, added to the configuration of its module as
an invariant or a property, gives a counterexample.

Server:

* A successful write bumps the cache before its session commits; a read in between caches the
  old rows for the time to live (`ReadCache!WriteVisible`). A warm-up stores answers computed
  from what its shared session loaded before a bump.
* Market jobs of a running pass, and requested ones, start beside a heavy job
  (`Scheduler!MarketWaits`); a weekend run without a rate counts as a good reading
  (`WeekendReading`).
* A failed write of the pauses is logged and the API answers as if it had been stored; a failed
  read at the start leaves the process without pauses, and it does not try again
  (`…/services/scheduler.py` 348-374). A pause that was answered is then gone after a restart, or
  a resumed one back, although 33-34 say that a restart keeps them
  (`Scheduler!RestartKeepsPauses`; `PausesKept` says that nothing else loses one).
* A manual transaction's savepoint is committed by its release, so a request that fails later
  leaves the row (`Backup!RolledBack`).
* Two things leave a hole in the graph that nothing refetches, although `fe/lib/live.ts` 94-97
  says that a gap is filled by asking for what was missed (`LiveStream!GapFilled`). The tick
  sequence starts over with the process and the tab's `lastSeq` does not, so that a new process
  answers a catch-up of the old one's numbers with too little, or with nothing (`mixed`). And a
  catch-up that lands between the answer of a fetch and its landing is overwritten, although
  `lastSeq` moves on (`overtaken`). `NoHole` exempts these two until the next fetch lands, and
  nothing else.

Tab:

* A half-open stream is never noticed; the "planned" banner of a restart that does not happen
  stays and keeps "lost" from being shown.
* The wipe of a lost session is undone by the rollback of the very write that got the 401
  (`Writes!WipeHolds`; `WipeKept` says what does hold). A 401 of a write sent before a new
  sign-in wipes and bounces the new session.
* Settings and preferences are written one after the other without an order; a rollback leaves a
  value the server does not have. Reloading during an edit restores the drawn row.

Companion:

* A cut-off pull freezes Tiingo without any 429 of Tiingo's (`Pulls!FreezeEarned`). Refunds
  inflate a minute's budget (`GrantsPaced` states the bound that holds). A partial batch is
  refunded whole and its served quotes are discarded; a 429 on the currency call is never told
  to the breaker.
* A reset in the middle of a round leaves the loop at rest over an empty book
  (`Rounds!RestEarned`); an abandoned round's prices may be painted over newer ones
  (`PaintForward`); a fatal key error leaves the loop unarmed behind the error screen; a tap
  during a start or reset round does nothing.
* Two merges of the day's record lose each other's additions (`SessionCurve!TrailKept`,
  `SettledSticky`); a regeneration's delete is undone by a build under way; the two sources that
  agree on a close may both be Tiingo, and need not agree on the same newest bar.
* The coverage check's `warn` level is not reachable from painted books.
* A week whose settled days and today's run are both collapsed is healed for today only; repairs
  are not idempotent; a genuine rise above 15 % beside an 8 % step is lifted by design.
* With sales in whole shares the cut toward zero (`web/allocation.ts` 302) lets purchases exceed
  cash and proceeds by up to a share per sold fund, and by the whole sale of a fund without a
  price; `OrdersSound` states that bound.
* Priming the cache from bars or rates (`web/cache.ts` 196-212, 477-505) keeps the cached
  previous close across a session, or leaves it empty, so that a move of two sessions shows as
  today's and the day's anchor jumps when the genuine quote lands, although
  `web/compute.ts` 1559-1565 calls it session-stable; `CacheTrue` states what holds.
* A mover's side is decided by its move in euros, rate included, although `web/compute.ts` 1874
  calls the sign invariant: a gainer in dollars can be listed as a loser. `BoardTrue` states the
  bound: in euros, or while the rate stands still.
* Without any rate a dollar holding that has no price in euros is left out of `holdingsValueUsd`
  (1519) and counted in `prevHoldingsValueUsd` (1535), so the day's move in dollars reads minus
  its value; `BaselineTrue` claims dollars only while a rate is known.

## 6. What is not modelled, and why

* Server: start-up and maintenance bodies, restore, import staging, importers, settings,
  authentication, its own Tiingo counters, prices, snapshots, ledger walk, returns. They are
  sequential code over data, I/O, or decimal arithmetic; where they matter to something above
  they appear as jobs that commit, scripts of a session, or constants.
* Tab: settings and preference queries, the copy kept over a reload, passkeys, a wrong password,
  the sign-in a sensitive action asks for; pages and charts.
* Companion: user interface, charts, projection, demo data, and of the valuation the
  returns, gains, periods and the slices of an allocation; reconstruction of the
  week and of a session from bars; the market sleeve (unused by the page); the handshake that
  compares a login with the last one, resume tokens and the idle lock; parsing of exports.
* Abstractions: offsets of time zones and the conversion at a change of clock
  (`etOffsetMinutes`, `exchangeWallToUtcMs`: the exchange's wall clock is used throughout); a
  series is its newest instant; a batch's retries are part of its duration; one tab, one
  symbol's track and one list stand for several.
* Cryptography (sealing, passkeys, the export's envelope) is taken as given.

The mapped lines are a small share of the implementation: most of it is presentation, generated
types, styling, numeric analysis and demo data, which has no behaviour a state machine or a
bounded check says more about than a unit test.

## 7. What is left

In order of what matters most:

1. `Restore` (database, WAL and swap with a crash at every step) and `ImportBatches` (staging,
   double confirmation, exact undo), composed with the sessions of `Backup`.
2. The login handshake and the idle lock beside `Rounds`; the reconstruction of a week beside
   `SessionCurve`.
3. Server-side `TiingoBudget`, `FeedStall` and the currency pool.
4. Theorems about `CurveRepair` and `Springboard`, for curves and exports of any shape instead of
   those the run makes up.
