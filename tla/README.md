# OpenTrifi in TLA+

TLA+ specifications of the OpenTrifi backend (`src/backend/app`), TLC
configurations that check them on small instances, and TLAPS proofs, in eight
modules, for instances of any size. Paths below are relative
to `backend/app/` unless they start with `docs/`, `frontend/` or `tests/`.

Contents: [the system](#the-system) · [plan](#plan) ·
[modules and code](#modules-and-the-code) · [runs](#runs) ·
[fairness](#fairness) · [proofs](#proofs) · [finding](#finding) ·
[what else the models show](#what-else-the-models-show) ·
[not modelled](#not-modelled)

## The system

A portfolio tracker: users keep cash accounts, security trades and other assets,
and look at a dashboard of their value over time. It is deployed as

- an **API process** (FastAPI). Synchronous handlers run in a thread pool, each
  with one database session; dashboard reads are coroutines on one event loop.
- one **worker process** (`worker.py`) that polls an outbox table and executes
  one job at a time, and runs the loop of the realtime sampler beside it.
- **PostgreSQL** at its default isolation, READ COMMITTED. The models declare no
  foreign keys and no handler uses `SELECT ... FOR UPDATE`, so references
  between tables and derived columns are kept by handler code alone.
- **Redis** (`runtime_state.py`, `cache.py`): named locks with an expiry, the
  dashboard cache entry of each user, the live value of the running hour, quotes
  and exchange rates, login counters.
- market-data **providers** over HTTP, and a React **frontend**.

### Inventory

Each part: the state it keeps, its operations, what makes it correct, and what
is hard about it.

**Cash accounts, ledger, transfers** (`services/cash_account_service.py`,
`services/holding_projection_parts/cash_ledger.py`).
State: `CashAccount.balance` (a copy), `CashLedgerEntry`, `CashTransfer`.
Operations: create, edit, delete account; create, edit, delete a manual
adjustment; create, edit, delete a transfer.
Correct when each balance is the sum of its account's entries, each transfer has
exactly one withdrawal and one deposit, each account one opening entry, and
nothing refers to a row that is gone. Hard: a dozen call sites must re-derive
the balances they touch; deletion cascades by hand over other accounts; an edited
transfer is taken back before its replacement is checked.

**Trades, settlements, holdings** (`services/holding_transaction_service.py`,
`services/holding_projection_parts/{repository,settlements,state}.py`).
State: `SecurityHoldingTransaction`, `HoldingTransactionCashSettlement`, and
`SecurityHolding`, a projection of the trades. Operations: record, edit and
delete a buy or sell; edit a holding's quantity, cost or date (which becomes an
`ADJUST` trade); delete a holding. Correct when the stored trades of a symbol
always replay, the holding row is what they project to, and undoing a trade
takes back exactly the cash it posted. Hard: trades replay in an order (day,
side, age) that is not the order of entry; a settlement may have created the
account it pays into; conversions use the rate of the moment.

**Replay into lots** (`services/holding_projection_parts/state.py`). A pure
function: first in, first out, with a tolerance of one quantum. Hard: the
tolerance accumulates, and adjustments cut history off.

**Other assets, asset records, audit** (`services/asset_entry_service.py`,
`services/asset_record_service.py`). State: the rows of fixed assets,
liabilities and other assets; the audit log every portfolio handler appends to
in its own transaction. Operations: create, edit and delete an asset; list the
records of what the user did, with the profit of each sell. Correct when one
request is one record and the audits tell the same trades as the tables. Hard:
the profits are replayed from the audits alone, over a window of the newest, and
half of the audits are side effects that must not show.

**Concurrent writes.** Every handler reads, computes and updates in one
transaction without locking what it read. Hard: which sums survive two handlers
at once, and who deadlocks with whom.

**Background jobs** (`services/job_service.py`, `history_sync_service.py`,
`history_service.py`, `worker.py`). State: `OutboxJob`, `AgentTask`,
`HoldingHistorySyncRequest`, the snapshot tables. Operations: enqueue (with a
dedup key), claim, rebuild a history, rebuild the portfolio, execute an agent's
command, complete, fail, reset after a restart. Correct when jobs end, what
completes has covered what was queued for it, and effects are not repeated.
Hard: crash between any two commits, absorption of changes by running jobs,
deletion of the old series before the new one exists.

**Idempotent calls** (`services/common_service.py`). State:
`AgentIdempotencyKey`. Four create handlers replay their stored response when
the same key comes again. Hard: concurrent retries, and the one handler that
commits twice.

**Dashboard** (`services/dashboard_query_service.py`,
`dashboard_live_service.py`). State in Redis: the entry of a user, valid in the
second it was generated, a build lock of fifteen seconds, the live value of the
running hour; in the database the hourly snapshots, to which a read adds the
hour that has ended. Operations: read, forced refresh, invalidation after every
commit, and the rebuild in the other process. Hard: builds that overlap commits,
lost invalidations, locks that expire, rolls beside a rebuild.

**Market data** (`services/cache.py`, `services/market_data_parts/client.py`).
State in Redis: quotes and rates with a time of freshness and a longer life.
Operations: fetch (fresh entry, providers, stale entry), expire everything. Hard:
answers that arrive in another order than they were given, and an expiry that
reads and writes back while fetches store.

**Realtime sampler** (`services/realtime_analytics_service.py`): samples values
every second under a one-second lock and keeps minutes and hours; a forced
refresh samples without the lock. Hard: no unique keys on what it writes, and a
sample that outlives its lock.

**API keys and agent registrations** (`services/auth_service.py`,
`agent_service.py`). State: `AgentAccessToken`, `AgentRegistration`. Operations:
create a key, use it, let it expire, revoke it; every request that names an agent
updates the agent's registration. Correct when the limits (active keys, keys of
a day, distinct names) hold and a registration's status follows its key. Hard:
the status is derived through the *name* of a key, and revocation takes no lock.

**Feedback, inbox, release notes** (`services/feedback_*_service.py`,
`inbox_service.py`, `release_note_service.py`): items with status, time of
resolution, reply and read marks; hidden messages; one delivery row per user that
moves from note to note. Hard: every handler reads, then writes without a lock,
limits are counted before an insert, and several of them act on one row.

**Accounts and sessions; providers; chart-point corrections; demo workspace; HTTP
routers; frontend; migrations, scripts and nginx.** See
[not modelled](#not-modelled).

### Interactions

```
 handlers ──(one transaction: rows + audits + outbox row)──▶ PostgreSQL ◀──(claim, rebuild)── worker
    │                                                         ▲      ▲                        │
    └─(after commit: drop entry)─▶ Redis ◀─(entry, live hour, │      └─(rows of the hour)── sampler
                                     ▲       lock)─ dashboard reads                           │
                                     └────────────────(quotes, lock)──────────────────────────┘
```

A handler that changes data enqueues a rebuild in its own transaction, commits,
and then drops the user's dashboard entry. The worker claims the job and
rewrites the snapshot tables. A dashboard read shows the current rows and the
stored series, with the quotes that are in the cache; it also writes the hour
that has just ended. The sampler keeps the quotes fresh. An agent task is a
handler executed by the worker.

## Plan

The order puts first what users would lose money figures by.

1. `CashLedger`, then its proofs — **done**.
2. `HoldingLots` against reference definitions, `Portfolio` = `CashLedger` +
   `HoldingLots` + the trade handlers — **done**.
3. `BackgroundJobs`, `Idempotency`, `LedgerConcurrency` — **done**.
4. `Dashboard` — **done**, without the numbers of the series.
5. `JobQueue`, the abstract queue that `BackgroundJobs` implements, and the
   proofs of the queue — **done**.
6. `MarketData` and `Sampler`, `Feedback` and `ReleaseNotes` over
   `InboxService`, `AgentAccess`, `AssetRecords` over `Portfolio` — **done**.
7. Proofs of `CashLedger` and, over them, of `Portfolio`, with the amounts of the
   ledger, which need sums over finite sets — **done**.
8. Proofs of `Idempotency`, `Dashboard`, `AgentAccess`, `Feedback` and `Sampler`
   — **done**.
9. Proofs of `AuditsTellTrades` (AssetRecords over `Linked`), `DeliveredIsPublished`
   (ReleaseNotes), and of `BuysKeepBalance` and `LoneCommitsSound`
   (LedgerConcurrency) — **done**.
10. Two more abstractions: a store of results that `Idempotency` implements for
   handlers with one commit, and a ledger of movements without stored balances
   that `CashLedger` implements (`BalanceIsLedgerSum` is its mapping).
11. Edits and deletions in `LedgerConcurrency`.

## Modules and the code

```
 FixedPrecision ─┬─ CashLedger ──┬─ Portfolio ── AssetRecords ─┬─ Portfolio_proofs
                 └─ HoldingLots ─┘                             └─ MCHoldingLots
 JobQueue ┄┄ BackgroundJobs ── BackgroundJobs_proofs
 InboxService ─┬─ Feedback ─────┬─ Inbox_proofs       UnitOfWork ─┬─ Feedback
               └─ ReleaseNotes ─┘                                 ├─ ReleaseNotes
 MarketData ── Sampler ── Sampler_proofs                          └─ AgentAccess ── AgentAccess_proofs
 Dashboard ── Dashboard_proofs     Idempotency ── Idempotency_proofs
 LedgerConcurrency ── LedgerConcurrency_proofs
```

(`──` extends, `┄┄` instance with a refinement mapping; the MC modules that only
give constants their values are left out.)

Conventions used by all modules:

- Amounts, prices and quantities are integers that count quanta of `1e-8`, the
  precision of `fixed_precision.py`; its epsilon is one quantum (`Epsilon`).
- In `CashLedger`, `Portfolio` and `AssetRecords` an action is a whole handler up
  to its commit: its reads, checks, writes, the re-derivation of balances, the
  projection, the audits. A refused request rolls back, so it is a guard that is
  not met. The other modules break handlers into the steps that other processes
  can come between.
- Rows that a query filters by `user_id` are those of one user; names, notes
  and timestamps that no property needs are left out.
- Definitions that carry the comment *Mutant* are plausible mistakes of the code.
  No specification uses them. Each property of a passing run is violated when the
  definition after it is replaced by one of them.
- `PROJECT.json` maps every definition to the source lines it stands for.

### `FixedPrecision`, `UnitOfWork`

The tolerance, for the modules that compare amounts. What SQLAlchemy's session
writes of a changed object: the columns whose value is not the loaded one, the
others staying as the table has them by then. Several properties below hold
because of the second, and several fail to be stronger because of it.

### `CashLedger`

| state | code |
| --- | --- |
| `accounts` | `CashAccount`: currency, whether the platform is the one of sale proceeds, stored balance |
| `entries` | `CashLedgerEntry`: account, type, amount, currency, transfer, trade |
| `transfers` | `CashTransfer`: source and target account and amounts |
| `settlements` | `HoldingTransactionCashSettlement` (written by `Portfolio`, deleted here too) |

The four tables form a *book*. The helpers of `cash_ledger.py` are operators from
book to book: `Posted` (add an entry and re-derive the balance), `Reconciled`
(rewrite the opening entry so that the ledger adds up to the typed balance),
`Unwound`, `Transferred`. An action is a guard and `Commit` of the book its
helpers leave: `CreateAccount`, `UpdateAccount` (the currency is fixed once there
is activity), `DeleteAccount` (transfers on both sides, settlements, entries),
`CreateAdjustment`, `UpdateAdjustment`, `DeleteAdjustment`, `CreateTransfer`,
`UpdateTransfer` (take back, then check, then write), `DeleteTransfer`.

Ids of deleted accounts and transfers are taken again. The database does not do
this, but as nothing refers to the old rows (which is what the invariants say) it
makes no difference, and it keeps the state space finite without cutting
histories short.

### `HoldingLots`, `MCHoldingLots`

`Replay` takes the trades of a set in the order of `ReplaysBefore`, the sort key,
and applies `ApplyTrade`, which is `_apply_holding_transaction_to_state`; `SellLot`
one turn of the loop that consumes lots; `Projection` the row
`_sync_holding_projection_for_symbol` writes. `MCHoldingLots` holds the replay
against definitions that know no lots, on the trades that the requests of
`AssetRecords` leave behind.

### `Portfolio`

`EXTENDS CashLedger, HoldingLots`, and adds `trades`, `holdings`, `nextTrade`. Its
actions are the trade and holding handlers, and every action of `CashLedger`
(`CashStep`). `Settled`, `Funded`, `Credited` and `Reversed` are the settlement
helpers: paying for a buy from an account, adding proceeds to an existing account
or to one created for them, and taking either back, with deletion of a created
account that is empty again. `Projected` is the replay that refuses the request
or writes the holding row. `UpdateHolding*` are the forms of a holding edit, one
per set of fields in the request.

### `AssetRecords`

`EXTENDS Portfolio`, and adds `assets` (one row of each other kind) and `log`, the
audits in the order of their ids. Each handler of `Portfolio` is conjoined with
the audits it writes (`Written`), in the order it writes them: those of the
settlement, of the reversal, of automatic accounts, of the trade itself. `Listing`
is the read: the newest audits (`Fetched`), which of them are business records and
of which class and operation (`Recorded`, `ClassOf`, `OperationOf`), and the
profits replayed from the trade audits (`ProfitMap`, a fold whose state is the map
of current trades), which refuse the whole listing when they do not replay.
`NewestFirst` is the order in which `delete_holding` goes through the trades of a
symbol: the place of a trade is the number of trades that are newer.

### `JobQueue`, `BackgroundJobs`

The granularity is the transaction. `version[u]` counts the committed changes of
a user's data; `built[u]` is the version the snapshots were built from. A rebuild
reads several tables, so that it builds from any version between the one at its
start and the one at its end. `request[s]` is an open transaction of an API
thread: `ChangeData`/`CreateTask` look for an active job of the key, and
`CommitChange`/`CommitTask` make row and data visible together; two requests may
both find none. The worker's `step` follows `_process_snapshot_rebuild_job` and
`_process_agent_task_execution_job` from commit to commit. `Crash` leaves the
claimed rows as they are, `Restart` is `reset_running_jobs_to_pending`.

`JobQueue` is what the rest of the server relies on, without rows that are being
inserted, history requests or tasks: jobs are served one at a time, oldest first;
a rebuild finishes only over what was committed when its job was taken; a command
takes effect at most once each time its job is taken; results are final; a lost
worker's job goes back. `ServesQueue` is its specification under the mapping of
the worker's state to the `hand` that serves:

| BackgroundJobs | JobQueue |
| --- | --- |
| `CommitChange` | `Change`, with or without a new job |
| `CommitTask` | `Submit` |
| `Claim` | `Take` |
| `FinishHistory`, `RebuildPortfolio` | `Build` |
| `CommitCommand` | `Work` |
| the end of a rebuild, `StartTask` of a task that is over, every failure | `Yield` |
| `CompleteJob`, `FailJob` | `Finish` |
| `Crash`, `Restart` | `Lose`, `Recover` |
| everything else | a stutter |

### `Idempotency`

One key in one scope. `Load`, `CommitWork` (only where the handler commits
twice), `Store` and `Commit` are the database steps of a create handler, `Fail` an
error or the end of the process at any of them. `twoCommits` says which handler it
is (`create_holding_transaction`, or one of the other three), `patient` whether
clients wait for an answer before they retry; both are chosen by `Init`.

### `LedgerConcurrency`

A request is a program of statements over rows: load, check, sum, lock, write.
`AdjustSteps`, `TransferSteps`, `BuySteps` and `SellSteps` are the programs of the
handlers in the order the ORM flushes them; `RequestsAreHandled` says that every
request runs one of them and has entries only on its rows. Two details of the ORM decide what
goes wrong and are modelled: a new note on the account is flushed together with
the ledger entry and so locks the row *before* the sum is read, and a column whose
new value equals the loaded one is left out of the UPDATE.

### `Dashboard`

What a build shows is abstracted to the number of commits it has read. `cache`,
`lock` and `live` are the Redis keys, `rows` the hourly snapshots, `rebuild` the
worker's rebuild in three steps (compute, flush, commit). `Arrive`, `LookUp`,
`Acquire`, `Load`, `Roll`, `Store` are the stages of
`_get_cached_dashboard` and `_build_dashboard` between awaits; `LoopFree` is the
event loop, which runs `Roll` and `Store` of one read without interruption.
`Write` is a handler's commit and `Invalidate` the call that follows it, which
`LoseInvalidation` leaves out. `expired`, `overlap`, `lastOf` and a read's `floor`
record history for the properties alone: no guard reads them.

### `MarketData`, `Sampler`

A price is the number of times the market has moved. `cache` is
`RedisBackedTTLCache`, `fetch` how far each caller has come through
`fetch_quote`/`fetch_fx_rate` (`StartFetch`, `Answer`, `StoreAnswer`, `FallBack`),
`clearing` and `expiring` the get and the set of `expire_all`. The chain of
providers answers or fails as a whole. Dashboards read the cache however stale
(`Shown`).

`Sampler` extends it with the loop's lock, the sample each process is at, and the
rows of one hour. `Acquire`, `Enter`, `Prefetch`, `FindRow`, `CommitSample`,
`NoteSecond`, `Leave` follow one turn of the loop from await to commit; `Refresh`,
`Clear`, `EnterCleared` the forced refresh in the API process; `Lapse` is the lock
running out after its second, `Trouble` the bounded supply of crashes, errors and
refreshes.

### `InboxService`, `Feedback`, `ReleaseNotes`

`InboxService` has what the two share: who has hidden which message, and `call`,
what each request thread has read and is about to write. Every handler of the
other two is a step that reads and begins a call and one that commits it (with
`UnitOfWork`: only changed columns), or fails.

`Feedback`: `items` with kind, status, resolution, reply and read marks. A badge is
counted and a list filtered by operators of their own, as in the code, so that
`BadgeMatchesLists` compares two translations. `ReleaseNotes`: `notes`, and
`deliveries` with their ids; `Upsert` is
`_upsert_release_note_stream_deliveries_for_users` with its choice of the row that
stays, `Sync` and `CommitPublished` its callers at publication, `Ensure` and
`LoadOwn` at a visit. Publication and delivery are separate commits.

### `AgentAccess`

`tokens` and `registration` are the two tables, `lock` the Redis locks of key
creation and of each agent, `call` the point a request has reached. Creation first
commits the revocation of expired keys, then checks the limits, then inserts;
revocation loads the links and commits without a lock; a request loads the
registration under the agent's lock and commits. A registration refers to its key
by name. `served` and `overlapped` are history for the properties.

## Runs

`tlc -config X.cfg M` in this directory. Times are for two workers of a small
machine.

| run | module, cfg | distinct states | result |
| --- | --- | --- | --- |
| ledger | `Portfolio`, `MCLedger.cfg` | 135,000, 70 s | all hold |
| portfolio | `Portfolio`, `MCPortfolio.cfg` | 43,000, 50 s | all hold |
| holding_lots | `MCHoldingLots` | 378,000, 60 s | all hold |
| jobs | `MCBackgroundJobs` | 537,000, 70 s | all hold |
| idempotency | `MCIdempotency` | 9,000 | all hold |
| retried_trade | `MCIdempotency`, `MCIdempotencyTrade.cfg` | | violated: the [finding](#finding) |
| concurrency | `MCLedgerConcurrency` | 24,000, 28 s | all hold |
| dashboard | `Dashboard`, `MCDashboard.cfg` | 3,830,000, 60 s | all hold |
| feedback | `MCFeedback` | 2,230,000, 60 s | all hold |
| release_notes | `ReleaseNotes`, `MCReleaseNotes.cfg` | 64,000, 25 s | all hold |
| agent_access | `MCAgentAccess` | 1,940,000, 26 s | all hold |
| sampling | `Sampler`, `MCSampler.cfg` | 532,000, 50 s | all hold |

**ledger.** Is the cash ledger sound under every handler that touches it? Two
accounts in two currencies with a rate of 2, one transfer at a time, two trades of
one symbol with and without a price, five entries. `BalanceIsLedgerSum`,
`TransfersPaired`, `EntriesPlaced` and `SettlementsBacked` say so of every state;
`WithdrawalsCovered` and `FundingCovered` of the steps that write a transfer or pay
for a buy: neither, new or edited, overdraws the account it draws on. *Bounds:*
two accounts give a transfer its ends and a sale an account to create; the typed
target amount is one quantum off the converted one; five entries are two opening
entries, a pair and a settlement. Manual adjustments are in `holding_lots`; the
theorems below cover all these properties without bounds.

**portfolio.** Do trades, holdings and settlements stay in step through edits,
redatings and deletions, with holding edits between (`TradesReplay`,
`PositionsHeld`, `LiveTradesSettled`), and does an account end with the balance
that was typed for it, whatever its entries (`BalanceAsTyped`)? Three trades, two
days, two quantities, and an account that exists, is deleted or is created by a
sale. Three trades allow a settled buy, a sale that creates an account and a
further trade that uses it. `MaxQuantity` bounds what a holding edit carries over into an adjustment.

**holding_lots.** Does the replay compute what it should, and do the records tell
what happened? Over every history of three requests that create or edit, of any
kind, and any deletions between them; quantities 2 and 5, where 2 + 2 and 5 are as
close as the tolerance and other sums are not. `FirstInFirstOut`: what is left is a
tail of the purchases, with a drift of at most one quantum per sell.
`ExactWhenSpaced`: where no two sums of quantities come so close without being
equal, the replay is exact and refuses a trade precisely when a sale would outrun
what was held by its date. `ProfitsAtFifoCost`: the profit of the next sell, whichever is possible,
is its gain over the FIFO cost of all that is held, so that it ranges over
histories of four trades. `AuditsTellTrades`: the audits alone reproduce the trades.
`OneRecordPerRequest`: what shows is one record per request, and exactly which
side effects show besides. `ListingFailsOnlyAfterDelete`: the one way to a
listing that is refused. *Bounds:* three trades reach every combination of a cut
lot, a consumed lot, an adjustment and a same-day order; two accounts and
`MaxEntries` 4 a transfer or two settlements; `MaxFetched` 20 is more than three
requests write, so that the properties, which speak of complete listings, always
apply.

**jobs.** Two API transactions at a time, one agent task, one worker, two changes
of one user's data, three outbox rows, and one fault, a crash or a database error
at any step. Two slots suffice for the race of two enqueues; three rows for a
rebuild, its duplicate and the task. `ServesQueue`: the outbox implements
`JobQueue`. `GapsAreClaimed`: deleted history is never forgotten.
`StrandedByFaults`: a request is left RUNNING with nobody at work only by a fault.
`EffectsOnlyRepeatAfterFaults`: one repetition per fault at most. `JobsEnd`:
once no more changes and tasks arrive every job ends, unless there was a fault, and
however often quotes are missing.

**idempotency.** Four requests with one key, one of them with other parameters, in
either kind of handler, sent one after the other or at once, each failing at any
step. Four allow two that race, one that retries and one that conflicts.
`AppliedOnce` is about clients that wait, `LateRequestsDoNothing` and
`ReplaysCommitted` about all.

**concurrency.** Any three of six requests at once: two buys on one account, a
sale, two opposite transfers, an adjustment. Concurrent requests do corrupt
balances ([below](#what-else-the-models-show)), so the run asks what still holds:
buys alone keep the balance right because the note they flush first locks the row
(`BuysKeepBalance`); a request that overlaps with no other commit repairs what
earlier ones left and neither oversells nor overdraws (`LoneCommitsSound`); and all
requests end, deadlocks included (`RequestsEnd`). Three at a time reach a cycle of
two waiting transactions beside a third writer.

**dashboard.** A plain and a refreshing reader that come again and again, three
seconds with an hour boundary between the second and the third, two commits, each
with an invalidation that may be lost, a lock that may expire at any time, and a
rebuild. `ReadsAreFresh`: a read shows all commits made before it, apart from those
an older build or a missing invalidation of the same second hides.
`HoursKeepLast`: an ended hour keeps the value of its last build. The state before
any commit is one in which the user owns nothing (`Bare`), which exercises the
branches without a live value.

**feedback.** A user, the administrator and a monitor (whose events are the
administrator's items) with two overlapping requests on three rows, the
first of which is handled while the others only count. `Targets` leaves out two of
the statuses an item can be classified as, ACKED and IN_PROGRESS, which the
properties treat like OPEN and which other handlers write. `BadgeMatchesLists`: the
number beside the inbox is that of the messages one finds there.
`DailyLimitOvershoot`: how far the limit, counted without a lock, can be exceeded.
`ResolvedUntilReopened`: a close survives replies and acknowledgements that read
the item before it. Two threads are what each of these races takes.

**release_notes.** One user, two notes, two overlapping requests, one publication
beyond the first, and failures between any two commits. One user suffices since
deliveries of different users share nothing but the note; two requests give
publication against visit, two first visits at once, and hiding against both.
`DeliveredIsPublished`, and under fairness `StreamSettles`: after whatever races
made of the deliveries, a user who comes back ends with one message, at the latest
note, read.

**agent_access.** Two names for keys, at most one active and two a day, one agent,
two requests at a time, one lock that lapses under its holder, and keys that expire
at any time. `KeysLimited` and `RequestsCounted` bound what a lapse can cost;
`RegistrationsFollowKeys` says that, without overlaps, a registration is active as
long as the key of its last request is, also when a name is used again. Two names
and three insertions (one after a lapse) include a name that is used again. That
keys which are active together differ in name is of interest from two of them on
and without a lapse, which this bound does not reach; `LimitsHold` proves it.

**sampling.** Two loops and a forced refresh, one symbol, one move of the market,
one crash, error or refresh, in one hour whose seconds pass at any moment.
`HourRowsBounded`: one row per hour unless a sample outlived its lock or ran
beside a refresh, and never more than processes. `KnownQuotesSampled`: failing
providers and an expiry under way do not make a known quote missing.
`DashboardsConverge`: once the market rests, dashboards come to show it.

Deadlock is checked except where requests simply run out (idempotency,
concurrency) or the clock reaches its bound (dashboard).

## Fairness

Liveness is stated under the fairness the runtime gives, and nothing more.

- `BackgroundJobs`: weak fairness of the worker as a whole, because its loop runs
  for ever and its container restarts it; weak fairness of every open request to
  commit or abort; strong fairness of `DropHistory`, `WriteHistory` and
  `FinishHistory`: a history rebuild that fails for want of quotes is tried again
  at once, and is assumed to get them in the end. Without that assumption the loop
  of `_process_snapshot_rebuild_job` does not end and holds up every other job.
- `LedgerConcurrency`: weak fairness of every request's statements, since its
  thread runs on, and of the deadlock detector of PostgreSQL.
- `ReleaseNotes`: weak fairness of every request's next commit, since its thread
  runs on; strong fairness of a visit that marks as read and of its steps, which is
  the user who comes back and whose requests do not fail every time. Nothing is
  assumed of publications.
- `Sampler`: time passes and locks run out (`Tick`, `Lapse`, freshness); some loop
  acquires a free lock and some process goes on; providers do not fail every time
  they are asked (strong fairness of `Answer`).
- No fairness of `Crash`, `Fail`, `Abort`, of the market, or of clients otherwise.

## Proofs

Eight modules, each named for what it is about; `Portfolio_proofs` covers the line
from `CashLedger` to `AssetRecords`, `Inbox_proofs` both users of `InboxService`.
Everything is proved from the
constants' named assumptions alone, for every set of ids, users, tasks, requests,
keys, amounts and rates and every bound. The assumptions say that constants are of
their kind, that a special value (`Nobody`, `Nothing`, `NoRef`) is not an ordinary one,
and where the properties count them that processes are finitely many.

A safety property is proved by an invariant of its module that every step
preserves: a lemma per part of the invariant or per group of actions, with one step
per action, and theorems at the end that name what follows from it.

`Portfolio_proofs`, first part: the cash ledger, from `LedgerConstants`:

| theorem | states |
| --- | --- |
| `LedgerSound` | `Spec => []Sound(Book)`, the inductive invariant |
| `TypeCorrect` | `Spec => []TypeOK` |
| `BalancesFollowLedger` | `Spec => []BalanceIsLedgerSum` |
| `TransfersStayPaired` | `Spec => []TransfersPaired` |
| `EntriesWellPlaced` | `Spec => []EntriesPlaced` |
| `LedgerCounted` | `Spec => []Countable`: also, rows are finitely many and amounts integers |
| `BalancesAsTyped` | `Spec => BalanceAsTyped` |
| `WithdrawalsAreCovered` | `Spec => WithdrawalsCovered` |

*Why a stronger invariant.* None of the state invariants is inductive alone.
Deleting an account removes the pairs of its transfers, so that a balance at the
other end is right only if pairing told which accounts to re-derive; entries of
deleted accounts would be summed again if their id were taken anew, so `Balanced`
needs `Owned`; an opening entry is rewritten without a second one appearing only if
there was exactly one. `Sound` is the conjunction `Typed /\ Balanced /\ Owned /\
Paired /\ Backed /\ Coherent /\ Initialised` of a book.

*Argument.* The invariant is a predicate of book values, not of variables, so that
each helper gets a lemma of its own: opening an account (`OpenedSound`), posting
and replacing an adjustment (`AdjustmentSound`, `AdjustmentReplaced`), taking back
a transfer (`UnwoundSound`: everything but that transfer's pairing holds), writing
one (`TransferredSound`, whose hypothesis is exactly what `UnwoundSound` leaves),
and the cascade of a deleted account (`DeletedAccountSound`). The handlers are
compositions of these, so that the step lemmas only put them together, one step
per action.

*Sums.* For the invariants above sums may stay opaque: the sum is taken again, over
the right entries, whenever an account's entries change. Amounts need more: that
adding a row adds its amount. `LedgerSum` adds rows in an order that is chosen, and
without induction over data its independence of that order is shown by taking a
smallest set of rows for which it would matter, which exists since the rows are
finitely many (`SmallestSet`, `SumsAgree`, `SumsExist`, `SumWithout`). With it the
opening entry that `Reconciled` rewrites makes the sum the typed balance, and a
transfer lowers its source by its amount and by nothing else.

Second part: trades, holdings and settlements, from these and `TradeConstants` (ids
of trades are numbers; quantities, prices and days are integers, days being counted
from some date):

| theorem | states |
| --- | --- |
| `TablesLinked` | `PortfolioSpec => []Linked`, the inductive invariant |
| `PortfolioTypeCorrect` | `PortfolioSpec => []PortfolioTypeOK` |
| `TradesKeepBalances`, `TradesKeepTransfers`, `TradesKeepPlaces` | the three invariants of the ledger, under trades |
| `SettlementsStayBacked` | `PortfolioSpec => []SettlementsBacked` |
| `LiveTradesStaySettled` | `PortfolioSpec => []LiveTradesSettled` |
| `TradesAlwaysReplay` | `PortfolioSpec => []TradesReplay` |
| `PositionsAlwaysHeld` | `PortfolioSpec => []PositionsHeld` |
| `FundingIsCovered` | `PortfolioSpec => FundingCovered` |
| `TradesKeepCover`, `TradesKeepTypedBalances` | `WithdrawalsCovered` and `BalanceAsTyped`, under trades |

`Linked == Sound(Book) /\ RowsLinked /\ LiveTradesSettled`. A settlement can be taken
back soundly only if its entry is the only one of its trade, and a new trade is
settled soundly only if no entry refers to its id yet: `RowsLinked` has the ids of
trades, entries and settlements below `nextTrade`, also those of trades that are
gone. Two more book lemmas, `SettledSound` and `ReversedSound`, and what each helper
does to the entries of a trade (`SettledTracks`, `FundedTracks`, `CreditedTracks`,
`UndoneTracks`) make every handler a composition. Cash handlers touch no trade's
entries except by the cascade of a deleted account, which deletes settlement and
entry together (`CashStepLinked`). `TradesReplay` and `PositionsHeld` are inductive
together (`Positioned`) and need of the replay only what it does of no trades: every
handler writes the trades of one symbol and replays those it has written.
`FundingCovered` holds although an edit takes the old payment back first, because
the reversal only removes the entry it takes back (`ReversedReduces`).

Third part: the records.

| theorem | states |
| --- | --- |
| `RecordsFollowPortfolio` | `RecordSpec => PortfolioSpec`: a request of the records is one of the portfolio, or a stutter |
| `AuditsAlwaysTellTrades` | `RecordSpec => []AuditsTellTrades` |

By the first theorem everything above holds of the records too. The second is proved
of all audits, whether or not a listing reads them all (`Complete`): `Told` says that
the trades learned from the log are those of the table. It is inductive with `Linked`,
by which the audit of a row is about that row alone, since ids never come back, and
with `Dated`: an edit of a holding finds one earliest trade, and a deletion meets each
trade once, only because days are ordered and trades finitely many
(`NewestFirstMeetsAll`: the ranks of the trades are a bijection).

What a log tells is a fold, of which nothing can be proved by unfolding a
definition. The library's fold is a function that is chosen among those that satisfy a
recursive equation. That one exists, and that logs which agree up to a position tell
the same up to it, is shown by looking at the smallest position for which it fails
(`LeastNumber`, `LearningExists`, `LearningAgrees`). It follows that a log tells what
it told before, updated by its last audit (`ProfitMapUnfolds`, `LearnedUnfolds`), and
of batches that audits of anything else teach nothing (`AsideTeachesNothing`) and
deletions take just their trades away (`DeletionsLearned`). There is then a lemma for
each thing a handler does to trades: none (`ToldAside`), one more (`ToldCreated`), one
rewritten (`ToldEdited`), some gone (`ToldDeleted`).

`BackgroundJobs_proofs`, from `JobConstants` (which has the users finite, since
stranded requests are counted):

| theorem | states |
| --- | --- |
| `JobsSound` | `Spec => []IInv`, the inductive invariant |
| `JobsTyped` | `Spec => []TypeOK` |
| `GapsStayClaimed` | `Spec => []GapsAreClaimed` |
| `EffectsBounded` | `Spec => []EffectsOnlyRepeatAfterFaults` |
| `StrandingBounded` | `Spec => []StrandedByFaults` |
| `OutboxServesQueue` | `Spec => ServesQueue`, the refinement of `JobQueue` |

*Why a stronger invariant.* `IInv == Typed /\ Holds /\ RowsFresh /\ VersionsOrdered
/\ GapsHeld /\ TasksOnce`. That a gap is claimed depends on the worker: while it is
between the deletion and the rebuild, the request it holds must not become DONE
(`GapsHeld`). That the claimed job is the only RUNNING one, so that `Take` of the
abstract queue finds none, is `Holds`; that a commit adds a job rather than
overwriting one, `RowsFresh`, because ids are chosen before the commit. That a
rebuild which finishes has covered what was committed when its job was taken needs
the order of the versions it read, built and found (`VersionsOrdered`). The bound on
effects needs that a task has one job, be it in the table or in an open
transaction, and that an unspent job has had effects for faults only
(`TasksOnce`).

*Argument.* One lemma per part of `IInv` (`TypedStep`, `HoldsStep`, `RowsStep`,
`VersionsStep`, `GapsStep`, `TasksStep`), each by cases over the actions, grouped
where they disturb the same thing. `StrandingBounded` is a second induction, on the
set of stranded users, which only a fault enlarges, by one (`StrandedStep`,
with the library's facts on cardinality). The refinement maps each group of actions
by a lemma of its own (`QueueRequestStep`, `QueueSnapshotStep`, `QueueTaskStep`,
`QueueHandStep`), after the table above; `HandSeen` says what the mapped `hand` is
in each of the worker's steps.

`Idempotency_proofs`, from `IdempotencyConstants`:

| theorem | states |
| --- | --- |
| `AnswersHold` | `Spec => []Answers`, the inductive invariant |
| `ReplaysTellTruth` | `Spec => []ReplaysCommitted` |
| `OneCallSucceeds` | `Spec => []AppliedOnce` |
| `LateRequestsAreAnswered` | `Spec => LateRequestsDoNothing` |

`Answers` adds what the stored row is worth: it tells of a committed effect with its
parameters (`RecordTrue`), and success is not reported before there is one
(`DoneIsStored`). Of clients that wait, one request at most is under way, and while
one is there is still no row (`OneAtATime`): a row would have come from a request
that ended in success, and then the lookup would have found it.

`Dashboard_proofs`, from `DashboardConstants`:

| theorem | states |
| --- | --- |
| `DashboardSound` | `Spec => []Sound`, the inductive invariant |
| `HoursAreKept` | `Spec => []HoursKeepLast` |
| `ReadsStayFresh` | `Spec => ReadsAreFresh` |

`Fresh` bounds from below what the entry and all builds under way show, by the floor of
every read: the floor is set on arrival, and only where neither an older build nor a
missing invalidation hides a commit. As long as no
build outlives its lock, `OneBuild` has builds exclude each other and no build meet a
live state of a later hour, and `Kept` strengthens the property to rows that no
rebuild is about to delete, for otherwise the deletion's commit would break it.

`AgentAccess_proofs`, from `AccessConstants`:

| theorem | states |
| --- | --- |
| `AccessSound` | `Spec => []Sound`, the inductive invariant |
| `LimitsHold` | `Spec => []KeysLimited` |
| `NoRequestIsMissed` | `Spec => []RequestsCounted` |
| `StatusFollowsKey` | `Spec => []RegistrationsFollowKeys` |

Four inductions over `Typed`. `Limited` counts keys together with insertions that have
passed their check, and creations that have lost the lock against the lapses:
whoever checks holds the lock, so that the insertions it does not see are among
those who lost theirs. `NamesDiffer` likewise includes the names about to be inserted.
`Counts`: who is about to commit a count holds the agent's lock, and nobody has
changed the count since. `Alone` says of requests that do not overlap that what
they have read is still so (`StillSo`), and that a registration's key is the name of
the last request's key as long as that key is not revoked (`KeysFollowed`); an
expired key that nobody has revoked yet is why this is about revocation and not
about use.

`LedgerConcurrency_proofs`, from `ConcurrencyConstants` (requests are finitely many)
and `RequestsAreHandled`:

| theorem | states |
| --- | --- |
| `TypesHold` | `Spec => []TypeOK` |
| `LoneCommitsAreSound` | `Spec => LoneCommitsSound` |
| `BuysKeepBalances` | `Spec => []BuysKeepBalance` |

Three inductions, over `Typed`: what a request has set are rows that it writes, and it
holds their locks. Of the programs the proofs use only their shape (`Shaped`: a row is
loaded before it is checked or written, and a write follows the sum of its row), for
which there is a lemma for each handler. `Undisturbed` says of a request that no
commit has overlapped that what it loaded is what is stored, what it set is the sum
with its own entry, and what it left unset holds that sum already. `BuysKeep` says of
a row that only buys write that a buy which has summed its entries holds the lock,
and that what a buy loaded is no less than what is stored: a balance that it leaves
unset because it loaded the same is then right. The ledger of committed requests is a
sum over a finite set, which unfolds by any request (`SumWithout`, shown like that of
the cash ledger).

`Inbox_proofs`, from `InboxConstants`, `FeedbackConstants` and `NoteConstants`:

| theorem | states |
| --- | --- |
| `FeedbackSound` | `Spec => []Sound`, the inductive invariant |
| `LimitOvershootIsBounded` | `Spec => []DailyLimitOvershoot` |
| `BadgeIsTrue` | `Spec => []BadgeMatchesLists` |
| `ResolutionsStay` | `Spec => ResolvedUntilReopened` |
| `NotesAreTyped` | `NotesSpec => []NotesTyped`, the inductive invariant of release notes |
| `NotesTypesHold` | `NotesSpec => []NotesTypeOK` |
| `DeliveriesArePublished` | `NotesSpec => []DeliveredIsPublished` |

`WithinLimit` counts the submitted items together with those that requests are about
to insert: a request begins below the limit and each of the others holds one. That
badge and lists agree holds of every well-typed table, so that what has to be shown
is that no combination of overlapping column updates leaves another kind of row;
the derived status is then RESOLVED exactly when `resolved_at` is set
(`DerivedResolved`), and the lists are disjoint and filtered by it.
`ResolutionsStay` needs that no pending write but a classification and a repeated
event clears `resolved_at` (`CallOf`). `LatestExists`: the latest event is
chosen among finitely many.

Notes and the set of published ones only grow, so that whatever a request has read of
them is still so when it commits (`NoteCallOf`, `NoteCallStays`); a message therefore
never comes to name a note that is not published, whether its row is written with the
request's note or keeps the one another request wrote (`WrittenMessage`). The rest of
`NotesTyped` has the choices of the handlers exist: ids in use have an upper bound
(`IdsBelow`), users can be listed in an order (`UsersInOrder`), and drafts under way
find room (`DraftsStep`).

`Sampler_proofs`, from `SamplerConstants` and `MarketConstants`:

| theorem | states |
| --- | --- |
| `SamplersSound` | `Spec => []Sound`, the inductive invariant |
| `SamplersTypeCorrect` | `Spec => []TypeOK` |
| `HoursHaveOneRow` | `Spec => []HourRowsBounded` |
| `KnownQuotesStay` | `Spec => []KnownQuotesSampled` |

`Placed`: as long as no sample was overtaken, a loop that samples holds the lock and
none samples beside a forced refresh; so none inserts the row that another is about
to insert. `RowsCounted` counts the rows together with the samples that have found
none. `FetchesKept`: an entry that was there when a fetch began is still there, since
expiry writes entries back and only makes them stale, so that a fetch which fails
falls back on it.

*What stays with TLC:*

- liveness (`JobsEnd`, `RequestsEnd`, `StreamSettles`, `DashboardsConverge`), which
  needs fairness and ENABLED;
- what the replay computes (`FirstInFirstOut`, `ExactWhenSpaced`,
  `ProfitsAtFifoCost`): folds over sorted trades, which need induction over data;
- `ListingFailsOnlyAfterDelete`, which takes that a replay still succeeds without its
  last sells (induction over trades and lots), and `OneRecordPerRequest`, which counts
  in a filtered log.

## Finding

A disagreement between what the code does and what the repository says, with the
run that shows it.

**A retried trade is recorded twice** (`retried_trade`,
`services/holding_transaction_service.py:621`). Trade and stored response are
committed separately; a failure between the two defeats the Idempotency-Key, which
`docs/agent-api.md:26` says prevents duplicate side effects of retried calls.

## What else the models show

Behaviours met while modelling which the specifications contain as they are. The
properties are stated so that they hold in spite of them.

*Ledger and trades*

- *Account deletion.* `docs/agent-api.md` allows it only without activity beyond the
  opening entry; the code cascades over transfers, settlements and entries, which is
  what `DeleteAccount` does.
- *Concurrent adjustments lose an amount.* The ledger is summed before the row lock
  is taken (`services/holding_projection_parts/cash_ledger.py:117`), so the later
  commit may store a sum without the earlier one's entry. The next lone request
  repairs it.
- *Equal and opposite amounts.* When the new sum equals the balance a session loaded,
  the ORM leaves the column out and a concurrent change of it is kept, although the
  ledger says otherwise.
- *Concurrent sales* of one position can both be accepted.
- *Correcting the cost of a holding changes its quantity.* The edit turns the earliest
  trade into an adjustment to the *current* total
  (`services/holding_transaction_service.py:244`); later trades are then counted
  again. Two buys of 2 become a holding of 6. `docs/agent-api.md:384` describes the
  field as a correction of the cost.
- *A holding row without a position.* `update_holding` adds the row that its own
  projection has just deleted back to the session
  (`services/holding_transaction_service.py:291`), so `PositionsHeld` is an
  implication, not an equivalence.
- *Orphaned proceeds.* A sale that a holding edit turned into an adjustment is not
  unwound when the holding is deleted
  (`services/holding_projection_parts/repository.py:109`); nor are the entries of buys.
  Their entries refer to trades that are gone, hence `nextTrade`.
- *Concurrent retries* of a two-commit handler both take effect, and the later one
  overwrites the stored response. `AppliedOnce` is claimed of clients that wait.

*Records*

- *A listing that is refused.* `delete_holding` records the trades as gone in the
  order of their age from the newest; between two of its audits a sell may stand
  without the buy it sold from, and every later listing answers 422
  (`ListingFailsOnlyAfterDelete`).
- *The window.* Profits are replayed over the newest audits only (between 400 and
  5000 of them); a user with more sees other profits, or a refusal.
- *What shows.* A deleted trade reads as an edit (the branch for DELETE is not
  reached); deleting an account with transfers shows an edit of each account at the
  other end and nothing of the transfers; a holding edit of broker and note shows
  nothing; an automatic account that a reversal empties shows as a deletion of its
  own.
- *The profit of a sell entered late* is taken over lots bought after its date.

*Jobs*

- *Changes absorbed by a running job.* An enqueue that finds a RUNNING job adds none
  (`services/job_service.py:89`) although the job may have read the data already;
  nothing is queued when it is done. What a job promises is therefore only what was
  committed before it was taken (`JobQueue!Finish`).
- *Two active jobs of one key.* The enqueue lock is released before the row is
  committed, so two requests may both insert. `tests/test_app_modularization.py`
  expects one job and relies on the timing of its threads. The duplicate is harmless:
  it rebuilds once more.
- *A failed task runs again after a crash* between the commit that marks it FAILED
  and the one that marks its job FAILED.
- *A history request left RUNNING* by a crash or a database error is not reset, and
  the worker's loop waits for it for ever. `JobsEnd` is therefore claimed only
  without faults, and `StrandedByFaults` counts them.

*Dashboard, quotes, sampler*

- *Dashboard reads write.* `docs/agent-api.md:480` and `CHANGELOG.md` call them
  read-only; the first read after an hour persists that hour's row.
- *A rebuild over an hour boundary* drops the live value of the new hour, which
  then starts over.
- *A build that outlives its lock* may set the live value back to an earlier hour;
  hence `expired` in `HoursKeepLast`.
- *A roll beside an uncommitted rebuild* inserts a second row for its hour or fails
  because the row it updates is gone.
- *Dashboards never ask the providers.* They pass `prefer_stale`, and the background
  refresh that this was meant to start (`_ensure_quote_refresh`) has no caller; only
  the sampler and a forced refresh renew quotes.
- *An expiry may undo a fetch.* `expire_all` reads an entry and writes it back: a
  quote stored in between is replaced by the older one, whose six hours start again.
  A slow answer, too, overwrites a newer one. The next samples correct both
  (`DashboardsConverge`).
- *Duplicate rows of an hour or a second* persist once made; old seconds are purged
  only by a sample in second 0; `last_sampled_at` may be set back by a slow one, and
  a slow sample values the assets it loaded before it waited for quotes.

*Inbox, keys*

- *The daily limit* of feedback is counted before the insert
  (`DailyLimitOvershoot`). The login throttle, which is not modelled, likewise reads
  its clock before its lock.
- *Feedback races.* A heartbeat that comes again reopens the row that was resolved on
  arrival; a second reply that commits beside the mark-as-read of the first is not
  announced; a user's item can be classified as SILENCED.
- *Release notes.* What a user hid is a delivery row that is used again for the next
  note, which is then hidden too; publishing an older note moves all deliveries back
  to it; versions are unique by a check only.
- *Keys by name.* A request that authenticates beside the revocation of its key leaves
  the registration naming that key; a new key of the same name makes it read ACTIVE
  again; expiry found late unlinks registrations by name, also one that uses a new
  key of that name. Hence `overlapped` in `RegistrationsFollowKeys`.

## Not modelled

| part | why |
| --- | --- |
| Market-data providers, histories, search | requests to external services and the parsing of their answers; `MarketData` has them answer or fail |
| Accounts, sessions, login throttle | registration, passwords and sessions are single statements on one row; the throttle counts time stamps and decides nothing else |
| Corrections of chart points | overrides of single points of a chart, which no other component reads |
| Demo workspace | seeds rows through the services above |
| HTTP routers, schemas, settings | routing and validation; validated ranges are the inputs of the models |
| Frontend | views and forms; its refresh loop and request layer are clients of what is modelled |
| Migrations, scripts, nginx | run once, by an operator |

Left out of components that are modelled in part:

| component | what is left out |
| --- | --- |
| Holdings | `create_holding`, which has no route; only tests call it |
| Concurrent writes | edits and deletions: their statements follow the pattern of those modelled, and their effect is in the atomic modules |
| Jobs | the fourteen task commands are one step that commits, being handlers modelled elsewhere; a stop of the worker while a command's thread runs on: the crash of the model ends both at once |
| Rebuild, dashboard | the numbers of the series, returns and warnings, computed from quotes: a series is the changes it contains |
| Sampler | the rows of the second, their purge and the valuation |
| Market data | the background refresh without callers; entries dropped after six hours |
| Redis | serialisation; several API processes and clock adjustments, as the deployment runs one of each |
| Records | the actor behind an audit; what lists of other assets show |
