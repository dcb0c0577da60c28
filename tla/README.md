# dledger-go: TLA+ specifications

A TLA+ model of [dledger-go](https://github.com/caxqueiroz/dledger-go), a
double-entry ledger service: accounts, idempotent atomic flows, reservations with
auto-expiry, a transactional outbox, snapshots, reconciliation and currency
exchange, over SQLite, CockroachDB or DynamoDB. Paths below are relative to the
repository (`internal/...`) unless they name a file of this directory.

## 1. The system

| Part | State it keeps | Operations | Hard parts |
|---|---|---|---|
| Domain model, `internal/ledger` | none (pure) | `Journal.Validate`, `NormalizedBalance`, `ParseAmount`, status rules | per-currency balance, zero and sign boundaries |
| Flow orchestrator, `internal/service/execute_flow.go`, `post_journal.go`, `create_account.go` | none between calls; per call the locked balances and accumulated totals | `ExecuteFlow`, `PostJournal`, `CreateAccount` | decisions on balances read earlier; idempotent replay; retries |
| DynamoDB backend, `internal/repo/dynamo` | one table: `ACC#`, `ACCU#`, `BAL#` (versioned), `FLOW#`, `FIDEMP#`, `JRN#`, `EVT#`, `OBX#`, `RES#` (versioned), `RIDEMP#`; per `Tx` a write buffer and overlays | `loadBalance`, `LockBalance`, `UpdateBalance`, `Insert*`, `put`, `Commit`, `Rollback` | no locks: reads at different instants, one conditional `TransactWriteItems`; lost answers; classification of conflicts; item limit |
| SQL backends, `internal/repo/{sqlite,crdb}`, `gen/{sqlite,crdb}` | the same entities as tables; SQLite also its one connection | the same `repo.Tx` interface, one query per method, written twice | row locks and their order, a connection left inside a transaction, serialization failures; times as text, sums as REAL |
| Reservations, `internal/service/*_reservation.go` | a row per reservation: status, outstanding, committed, released | create, commit, release (RPCs), expire (scheduler) | partial amounts in any order, races of the four transitions, retries |
| Scheduler, `internal/scheduler` | its current batch | `expiryTick`, `snapshotTick`, `retentionTick` | stale lists, several servers, failing rows, starvation |
| Outbox dispatcher, `internal/outbox` | its current batch; `publish_state`, `attempts` of events | `tick`: list, publish, mark | crash between publish and mark, several dispatchers |
| Snapshots and `GetBalance(as_of)` | snapshot rows | `TakeBalanceSnapshot`, `GetBalance` | instant of the snapshot against the instant of its reads |
| Reconciliation | external records, batches, discrepancies | ingest, run, resolve | repeated and overlapping windows |
| Exchange and FX rates | rate rows | `PutFXRate`, `GetFXRate`, `ExecuteExchange` | accounts and rate read outside the transaction |
| Wallet SDK, clients, commands, observability | none of their own | wrap the calls above | several calls seen as one |

How they interact: every state change of the server goes through a `repo.Tx`.
The reservation, exchange and reconciliation handlers call `executeFlowInTx` (or
its parts) inside their own transaction, so the orchestrator's idempotency check,
locking and outbox event come with them. The scheduler and the dispatcher run in
every server process and share nothing but the store.

What makes each part correct, and the module that says so:

- a posted flow is balanced per currency, posted once, at one instant, and leaves
  no non-overdraft account negative (`AtomicLedger`, `DynamoFlow`);
- balance rows are the sums of the journals and balance per currency (`DynamoFlow`,
  `SqlFlow`), and what a SQL transaction has read stays current until it commits (`SqlFlow`);
- answers to callers are true, retries are safe, and a persistent caller is
  answered (`DynamoFlow`); on SQL every call returns and only reused event ids make calls
  block each other (`SqlFlow`);
- a reservation's amounts, status, journals and events tell the same story, funds
  stay covered, nothing is stranded, and closed is final (`Reservations`), also
  when transitions race (`DynamoReservations`);
- what expired gets closed, by the lifecycle's own rules (`ReservationExpiry`), and a
  player's `GetWallet` misses no reservation that stays open (`Wallet`);
- no event is lost, a duplicate has a fault as its cause, and what the sink takes is
  delivered (`Outbox`);
- a point-in-time balance counts every posting exactly once (`Snapshots`);
- a match is a match, what is in a reconciled window is matched or reported, and a
  resolution is final (`Recon`);
- the backends answer alike, as far as each tells instants apart (`Stores`).

## 2. Modules

```
Ledger  <--EXTENDS--  DynamoFlow  --INSTANCE-->  AtomicLedger
   ^                      ^-- MCDynamoFlow, DynamoFlowProofs
   +------EXTENDS---  SqlFlow     --INSTANCE-->  AtomicLedger
   ^                      ^-- MCSqlFlow, SqlFlowProofs
   +-- LedgerTheorems  --EXTENDS-->  SumTheorems     (used by the proof modules)
Reservations  <--EXTENDS--  ReservationExpiry  <--EXTENDS--  Wallet
      ^                                                         ^-- MCWallet, ReservationsProofs
      ^--INSTANCE--  DynamoReservations
                          ^-- MCDynamoReservations, DynamoReservationsProofs
Outbox     <--  MCOutbox,    WorkerProofs
Snapshots  <--  MCSnapshots, WorkerProofs
Recon      <--  MCRecon,     WorkerProofs
SqlRows  <--EXTENDS--  CrdbStore, SqliteStore, DynamoStore
   ^                      ^--INSTANCE--  Stores
   +------EXTENDS---  Stores  <--  MCStores, StoresProofs
```

**`Ledger`** is `internal/ledger` as operators: what a request contains
(`Entries`, `Places`, `Events`, `AccountsOf`), what it adds to an account (`DebitOf`,
`CreditOf`), `Validate`, `NormalizedBalance` and the orchestrator's overdraft rule
`Overdrawn`. Amounts are integers (`decimal.Decimal` is exact, so only sums and
signs matter), accounts are numbers (their order is the sorted order in which
`executeFlowInTx` locks them), one tenant is modelled (no operation spans two).

**`AtomicLedger`** is the promise: accounts are opened, and a flow is posted in
one step if its key and event ids are unused, it is valid, its accounts are open
with the right currency and none would be overdrawn.

**`DynamoFlow`** is `ExecuteFlow` on DynamoDB. Each handler goes through

| `pc` | action | code |
|---|---|---|
| idle, done | `Submit`, `Retry`, `GiveUp` | the caller; `ExecuteFlow`, `stepsFromProto` |
| lookup | `Lookup` | `GetFlowByIdempotency`, replay |
| load | `Load` | next sorted key: `GetAccount` and its checks, first `GetItem` of `loadBalance` |
| probe | `Probe` | second `GetItem` of `loadBalance`: does the row exist? |
| load, nothing pending | `Apply` | `Validate`, accumulation, overdraft check, buffered writes, item limit |
| commit | `Commit`, `CommitLost`, `CommitCancelled` | `TransactWriteItems`; applied with a lost answer; a condition failed |
| any | `Abandon` | a call without effect fails, or the server dies |

`ov`, `loaded` and `existed` are the `txBalance` overlay; `accounts`, `rows`, `bal`
and `log` the table, where `log` keeps the committed requests in order (the
`FLOW#`, `FIDEMP#`, `JRN#`, `EVT#` and `OBX#` items that one write creates
together). `began` and `faults` are history. A `FLOW#` item is written only as
COMPLETED, so the "not completed" branch of the idempotency check and the
non-ACTIVE account branch (no operation changes an account's status) cannot be
reached and are left out.

**`SqlFlow`** is `ExecuteFlow` and `ExecuteExchange` on CockroachDB and on SQLite
(`backend`), one database statement per action:

| `pc` | action | code |
|---|---|---|
| idle | `ExecuteFlow`, `ExecuteExchange` | the caller |
| from, to, rate | `ReadFrom`, `ReadTo`, `ResolveRate` | Store reads of `ExecuteExchange`, before its transaction |
| begin | `BeginFlowTx` | BEGIN; amounts against the rate; `stepsFromProto` |
| lookup | `GetFlowByIdempotency` | `SELECT ... FOR UPDATE`, which locks nothing when there is no row |
| insert | `InsertFlowRun` | the unique key of `flow_runs` |
| load | `LoadAccount` | next sorted key: `GetAccount` and its checks, `LockBalance` |
| journal | `InsertJournal`, `Refuse`, `Commit` | per step `Validate` and the unique event id; overdraft check; COMMIT |
| replayed | `CommitReplay` | the existing flow is returned |
| any | `StatementFails`, `CommitLost`, `CommitFails`, `AbortDeadlocked` | a failed statement, a lost answer, a failed COMMIT on SQLite, CockroachDB's choice of a victim |

`held` is what each call holds: locked and inserted rows and, on SQLite, the one
connection. `Needs` is what its next statement needs; it waits while another call holds
that. Locks are exclusive on both backends (SQLite's write lock covers every row, so its
rows are never waited for). `dirty` says that a failed COMMIT left the pooled connection
inside a transaction: `finalize` sets `done` first, so the deferred Rollback does nothing.
A read-only row that no other transaction changes (an account) is read without a lock.

**`Wallet`** adds `GetWallet` of the SDK to the schedulers and handlers: balances, then the
HELD and the PARTIAL reservations, each a call of its own. `through` is history.

**`CrdbStore`**, **`SqliteStore`** and **`DynamoStore`** are the queries of the three
backends as operators on a database: filters, order, limits, upserts, sums, and what each
does to an instant. An answer is the *set* of pages SQL allows (rows the order does not
tell apart come in any order). Operators keep the names of the generated constants (lower
case) and of the Store methods. **`Stores`** feeds the same writes to all of them, and to
a CockroachDB whose clock and clients know whole milliseconds only (`rounded`); a
behaviour is about one part of the schema (`subject`), because the parts are independent.

**`Reservations`** has one atomic action per reservation handler. That is what a
transaction on SQLite (one writer) or CockroachDB (SERIALIZABLE) gives; `SqlFlow` shows
it for the flows inside them.
`InnerFlow` is `executeFlowInTx` under the derived key, replay included;
`UniqueOutbox` says whether the store's outbox key is unique (SQL) or not
(DynamoDB). A handler that refuses rolls back and is a stuttering step.

**`ReservationExpiry`** adds the schedulers: a listing (`Listable`, `Batches`:
status, `expires_at`, order and limit), then one transaction per listed row, any
of which may fail.

**`DynamoReservations`** splits the four handlers at their DynamoDB calls:
`Lock` (the `RES#` read), `Flow` (the inner flow's reads), `Commit` /
`CommitCancelled`. It refines `Reservations` with `UniqueOutbox <- FALSE`.

**`Outbox`** is the dispatcher of every server: `List` (the oldest `BatchSize` pending
events), then per event `Publish` and `Mark`, each a call of its own that may fail
before or after its effect; `Crash` forgets the batch. An event is its `created_at`;
the transactions that insert events commit in any order. `sent` and `faults` are
history. `Rejected` are events a sink never takes (the built-in `LogSink` takes all;
`Sink` is an interface).

**`Snapshots`** puts `TakeBalanceSnapshot` (`Begin` takes the instant, `ReadBalance` or
`ListTenantBalances` reads, `InsertSnapshot` inserts row by row, `EndCall` fails),
`retentionTick` (`PruneSnapshotsOlderThan`) and the two queries of `GetBalance(as_of)`
(`GetSnapshotBefore`, `SumEntriesBetween`) next to posting transactions, whose entries
get their `created_at` (`InsertEntries`) before they are visible (`CommitPosting`). A
balance is the *set* of postings in it, so a reconstruction can be asked how often it
counts each. `readAt`, `posted` and `seen` are history.

**`Recon`** has `InsertExternalRecord`, `RunReconciliation` (the matcher is `Verdict`,
its updates `StatusAfter` and `Opened`) and `ResolveDiscrepancy` (`Close`, `Adjust`),
one transaction each, next to `PostJournal`. The `records` and `journals` of a batch
are history: what its window held.

`MC*` modules hold the instances; definitions marked `Mutant:` are wrong variants
of the definition below them, which show that each property notices such a bug.

## 3. Runs

| Run | Config | States | What it asks |
|---|---|---|---|
| contended | `DynamoFlowContended.cfg` | 83 000 | Two callers, any of a deposit, a bet, a flow that is negative half-way and one with the deposit's event id, with accounts created in any order, one fault, retries or giving up. No lost update, no overdraft, rows equal the journals, reads and refusals true of an instant of the attempt (`AttemptsAreTrue`), version conflicts only for what is not posted (`RetryOnlyIfNotPosted`), an implementation of `AtomicLedger`, and under the retry contract every submission settles (`EverySubmissionSettles`). |
| doubtful | `DynamoFlowDoubtful.cfg` | 994 000 | A key reused with another payload, whose two journals share an event id, an event id reused under another key, and every kind of request the orchestrator refuses, next to a good one; two currencies, one fault: `ExactlyOnce`, `RepliesAreTrue`, and only good flows are posted (`TrialBalance`). |
| sql | `SqlFlow.cfg` | 71 000 | Two callers on either SQL backend: a withdrawal and a flow with the same event ids in the opposite order, an exchange at the market rate that locks the same accounts, every kind of refusal, an account and a rate that appear meanwhile, one fault: `SqlInvariant`, `BooksAreRight`, `OnlyEventIdsDeadlock`, `AnswersAreExact`, an implementation of `AtomicLedger`, `EveryCallReturns`. |
| exchange_retry | `SqlExchangeRetry.cfg` | | Violation, finding 3. |
| reservations | `Wallet.cfg` | 296 000 | The atomic lifecycle with a unique outbox key: two reservations, partial commits and releases, reused keys, with two schedulers, batches of one and a failing call, next to a `GetWallet`: amounts, statuses, journals and events agree (`RowsAndEventsMatchJournals`), schedulers never leave the lifecycle, everything expired gets closed, what stays open is listed. |
| races | `DynamoReservations.cfg` | 520 000 | Creates, commits, releases and expiries of two reservations that share balance rows, at the same time on DynamoDB, all calls resent at will: versions tell what is outdated (`VersionsTell`), implements `Reservations`, stays covered, money moves once (`DBooksAreRight`). |
| resent_transition | `DynamoReservationRetry.cfg` | | Violation, finding 1. |
| outbox | `Outbox.cfg` | 9 800 | Two dispatchers, three events, batches of two, one event rejected for ever, one fault each: `NeverDropped`, `DuplicatesAreFaults`, `EventuallyPublished`. |
| snapshots | `Snapshots.cfg` | 2 933 000 | Two snapshot calls that may fail half-way, retention and a reconstruction next to two postings: `ExactApartFromSnapshot`, `NewestIsKept`. |
| snapshot_overlap | `SnapshotsOverlap.cfg` | | Violation, finding 2. |
| recon | `Recon.cfg` | 472 000 | Late records and journals, two batches over apart or overlapping windows, resolutions and adjustments in any order: `MismatchReportedOnce`, `NothingSlips`, `AdjustedOnce`, `ResolutionIsFinal`. |
| stores | `Stores.cfg` | 86 000 | Up to two rows per table and every query of the Stores with every argument: `StoresAgree`, `RightUpToResolution`. |

### Properties worth a remark

- `AttemptsAreTrue`: `INSUFFICIENT_FUNDS` is answered without validating the reads
  it rests on. It is nevertheless (`RefusedForCause`) true of some instant since the attempt began.
  The reason is that every account is read before the check and the check is per
  account.
- `ReadsWereTrue` is what it rests on: whatever a handler holds of an account was the
  table's balance since the attempt began, each account at an instant of its own. The
  zeros that `loadBalance` assumes between its two reads are included.
- `VersionsTell` is the reason why the conditions of a reservation's `TransactWriteItems`
  suffice: a row or a balance that a handler read is what the table holds, or has a
  version that the table has left behind for good.
- `RepliesAreTrue` includes that `SERIALIZATION_RETRY_EXHAUSTED` means that another
  flow committed since the attempt began. Retrying callers therefore cannot all
  fail for ever; this is what `EverySubmissionSettles` rests on.
- `RetryOnlyIfNotPosted` is about the order of the write buffer. `Commit` reports the first
  failed condition in `t.order`, and a duplicate nearly always finds the balances changed
  too. `Puts` has every put of a flow and its place (`FLOW#`, `FIDEMP#`, then per step
  `JRN#`, `EVT#`, `OBX#`, then the balances), and `ConflictCode` takes the first that fails;
  a mutant that updates the balances first breaks the property.
- `EverySubmissionSettles` has one exception: a flow with an event id that another key has
  posted is told `FLOW_CONFLICT`, and the sample loop of `internal/repo/dynamo/README.md`
  retries that, in vain, until its `maxRetries`.
- `OccInvariant` is the reason why the version conditions are enough (section 5).
  Its probe part is about the two reads of `loadBalance`: a row created between
  them is recorded as existing with version 0, which no row has.
- `DuplicatesAreFaults` is per server: overlapping batches of two servers deliver an
  event once each, without any fault.
- `ExactApartFromSnapshot` excepts exactly the postings that ran while the snapshot it
  starts from was being taken. Finding 2 shows that the exception is needed.
- `NothingSlips` is about journals that were committed when the batch ran. A journal
  whose `created_at` is in the window but which commits later is seen by a later
  batch only if its window reaches back.
- `AnswersAreExact` is stronger on SQL than `RepliesAreTrue` on DynamoDB: a refusal is true
  of the very instant it is given, and a flow that is posted is never refused, because the
  balances it rests on are locked. A duplicate that overlaps its original waits for it and
  is then replayed, or fails with CodeInternal.
- `OnlyEventIdsDeadlock`: balances are locked in sorted order and after the flow row, so
  only the unique event ids, inserted in the order of the request, can be waited for in a
  circle. CockroachDB then aborts one of the calls (`AbortDeadlocked`), and
  `EveryCallReturns` still holds.
- `OpenIsListed` depends on the order of GetWallet's listings: the HELD rows before the
  PARTIAL ones, as a reservation only goes from HELD to PARTIAL. (One that does so between the two listings is
  listed twice.) It needs that each status fits on one page (`PageAssumption`).
- `StoresAgree` is exact for SQLite's lists (the same sets of pages). Its sums are REAL:
  the model lets each addition of fractions be off by one in the last digit, and the
  property says that the same entries are added, up to that error, and that whole amounts
  add up exactly below `RealLimit`. For DynamoDB it is about the open reservations of an
  owner: for every limit, what `ListReservations` filters out of the three pages it reads
  is complete as long as the open ones fit in three pages and those of the status in one.
- `RightUpToResolution` compares with the instants clients and clocks gave: expiry is never
  early or late by a whole unit, `GetFXRateAt` returns a rate in force, the outbox is
  oldest first.
- `NothingStranded` is an equality: the reserved account holds exactly what the
  open reservations still need.

### Bounds

Two handlers (a conflict is between two; with symmetry), three accounts (overdraft
allowed, debit-normal wallet, credit-normal house), four contended or ten doubtful requests,
amounts of 1 to 3, `MaxFaults` = 1 fault at any point, `MaxTxItems` = 11 in place of
100 (the smallest bound that admits every two-step request and refuses the
three-step one), `MaxErrors` = 1 failing expiry, `BatchN` = 1 (every listing
is cut off). Each flow is posted at most once, so versions, balances and the log
are bounded without a constraint.

Outbox: three events and `BatchSize` = 2, so that a listing is cut off and one rejected
event may or may not fill it; two dispatchers with `MaxFaults` = 1 each. Snapshots: two
accounts (a bulk call can fail between them), two postings, one with entries in both,
two calls, a clock of 3 so that an instant lies before, at and after `as_of` = 2,
`RetentionAge` = 0 and `BatchN` = 1 so that retention acts at once and row by row. Recon: two references,
one with diverging amounts, two batches, a clock of 3 under windows that are apart and
that overlap. Interchangeable calls and batch keys are symmetric.

SqlFlow: two callers, four accounts in two currencies of which one is created meanwhile,
one rate (two in `exchange_retry`, so that it can change), `MaxFaults` = 1. A circle of
waiting calls of any length has the same cause as one of two; `DeadlockCorrect` covers the
rest. Wallet: `PageSize` = 100, the code's default. Stores: `Unit` = 4 instants to a
millisecond or second, told by two binary digits (`DigitValues` = 1, 2 and 4, so that a text may
drop no, one or both digits), and a clock of 4, so that two instants are in one unit or in
neighbouring ones; two rows per table, ids in either order (ids are random), `Limits` of
none and 1 (a page that is cut off, full or not full), `Whole` = 2 so that an amount of 1 is a fraction,
and `RealLimit` = 4, which two amounts of 2 reach. Larger instances are
what the theorems are for.

`CHECK_DEADLOCK FALSE` is set where the system may really stop: all reservations
closed and every key used; all events published; all calls and batches made.

### Fairness

`LiveSpec` of `DynamoFlow`: weak fairness of each handler's own steps (a goroutine
that has a request is scheduled, DynamoDB calls return) and of `Retry` (the caller
contract of `internal/repo/dynamo/README.md` section 3: retry with the same key).
Submitting, creating accounts and faults are never forced. `WSpec` of
`Wallet` (as `ESpec` of `ReservationExpiry`): weak fairness of each scheduler (the ticker fires again and
again, `ExpireReservation` returns). `OSpec` of `Outbox`: weak fairness of each
dispatcher's own steps (the 250 ms ticker, calls return); faults are bounded by
`MaxFaults`, inserting is never forced. `Spec` of
`SqlFlow`: strong fairness of each call's own steps. Weak fairness would not do, since a
lock or the connection may be taken by others again and again; `database/sql` hands a
returned connection to a waiting request before a new one, and CockroachDB queues the
waiters of a row, so a call that can go on again and again does. Nothing obliges callers
to act or time to pass.

## 4. Findings

1. **A resent commit or release is applied twice to the row (DynamoDB).** The inner
   flow of a repeated `CommitReservation` is replayed and moves nothing, but the
   handler goes on to decrement `outstanding`, and `OBX#` items have no unique key
   to stop it (`internal/service/commit_reservation.go:71-104`,
   `internal/repo/dynamo/tx.go:654`). The dynamo README says a retry with the same
   key "is safe". On the SQL backends the unique outbox key rolls the second
   attempt back, which run *reservations* checks (`RowsAndEventsMatchJournals`).
2. **A snapshot next to a running posting spoils later reconstructions.** `snapshot_at`
   is taken before the balances are read (`internal/service/take_snapshot.go:20`). A
   posting with a later `created_at` that commits before the read is counted twice; one
   with an earlier `created_at` that commits after the read is not counted. `README.md:16`:
   "`GetBalance(as_of=T)` reconstructs balances at any past time."
3. **The retry of a posted exchange may be refused.** `ExecuteExchange` resolves the rate
   and compares the amounts (`internal/service/execute_exchange.go:49-78`) before the inner
   flow looks its key up. Once `PutFXRate` has changed the rate, the retry of an exchange
   that was posted at the market rate is answered `FX_AMOUNT_MISMATCH`.
   `docs/ARCHITECTURE.md:152`: "atomicity, locking, idempotency, and outbox are inherited".

Remarks that no run is about:

- On DynamoDB a duplicate whose key lookup precedes the commit of its original and whose
  balance reads follow it is answered `INSUFFICIENT_FUNDS` for a flow that is posted
  (`internal/service/execute_flow.go:184`); `docs/ARCHITECTURE.md` (96, 203, 243) says
  `FLOW_CONFLICT` or replay. `AnswersAreExact` shows that the SQL backends do not do this.
- The matcher loads only UNMATCHED records but all journals of the window, so a second batch
  over an overlapping window reports a journal whose record is MATCHED as
  `MISSING_IN_EXTERNAL` (`internal/recon/matcher.go:96`, `docs/ARCHITECTURE.md:162-165`).
- On the SQL backends a duplicate event id is a raw unique violation, CodeInternal;
  `docs/ARCHITECTURE.md:204` says `DUPLICATE_IDEMPOTENCY_KEY`.
- After a failed COMMIT on SQLite every later `BEGIN IMMEDIATE` on that connection fails
  (`internal/repo/sqlite/tx.go:26`): calls return, with CodeInternal, until the server is
  restarted. Store reads go on, on the same connection, and may see the rows of the failed
  flow. `SqlFlow` has the failing BEGIN (`dirty`), not those reads.
- SQLite sums entries as REAL and converts with `decimal.NewFromFloat`
  (`internal/repo/sqlite/store.go:240`): 0.1 + 0.2 is 0.30000000000000004 in a
  point-in-time balance. `docs/ARCHITECTURE.md:268` speaks of arbitrary precision.
- Idempotency keys and event ids are unique over all tenants in the SQL schemas, while the lookups
  are per tenant: two tenants that choose one key collide.
- `GetFlowSteps` sorts by `created_at`, which one transaction gives to all its steps: a
  replay may list them in another order.
- On DynamoDB `put` coalesces the two `EVT#` items of a flow that has the same event id
  twice, so the flow is posted; `docs/ARCHITECTURE.md:204` says that it is rejected with
  `DUPLICATE_IDEMPOTENCY_KEY`, a code that nothing produces.
- `EventuallyPublished` needs fewer than `BatchSize` events that the sink always rejects.
  They stay at the head of every list, and `attempts` is counted but never read. The
  `LogSink` of `cmd/server` rejects nothing; this is about other sinks.
- `ExpiredGetClosed` likewise: a failing row is logged and listed again
  (`internal/scheduler/scheduler.go:116`), first as long as it expired first. The model bounds
  failures by `MaxErrors`. A row can fail for ever only through something outside the
  lifecycle, a flow that uses the event id `<id>:expire` or empties the reserved account;
  `BatchN` such rows would keep all later ones from expiring.
- DynamoDB's `ListReservations` reads `3 * limit` items of the owner before it filters by
  status (`internal/repo/dynamo/reads_reservations.go:97`): an owner with more open
  reservations may see a page that is not full, or empty, though there are more.
- The table of `internal/repo/dynamo/README.md` section 3 lists `FLOW_CONFLICT` as not
  retryable, while its sample loop retries it. For a taken key this is harmless, the retry
  replays; for an event id that another key has posted every retry gets the same answer, up
  to the loop's `maxRetries` of 50.
- `repo.WithRetry` is never called, though `README.md:18` and `docs/ARCHITECTURE.md`
  (123, 191, 244) say that serialization failures are retried.

## 5. Proofs

Checked by TLAPS for all values of the constants (any sets of accounts, requests,
handlers, reservations, keys, servers, events, postings, batches and windows; any
limits), from the ASSUMEs of the modules only: accounts, reservations and events are
numbers, accounts and reservations are finitely many, requests have the shape of an
`ExecuteFlowRequest` and name known accounts (amounts are any integers: that they are
positive when parsed is proved), an exchange's inner flow is such a request, original amounts
and asked amounts are positive, all open reservations fit on one page of `GetWallet`,
windows and the times asked for are times, an account's id determines its owner, ids of rows
are numbers and a time text has a positive number of ticks to its step (`Unit`). A theorem that needs more says so in its
statement.

### Sums

Balances, rows and journals are compared through sums over sets, which the community
modules define by a recursive function. `SumTheorems` proves what that function computes:
the empty sum, adding and removing an element, union, equal summands, signs and order,
regrouping (`SumGroups`: a sum over entries is the sum over accounts of the sums of their
entries). The library's induction theorems cannot be instantiated with these statements.
Each induction is a choice instead: the subsets of a finite set for which a claim fails, if
any, have a least one (`LeastSubset`), and that one contradicts the recursion.

`LedgerTheorems` applies this to `Ledger`: totals of parsed requests are natural, a request adds
nothing to an account it does not name, a history's totals grow by what is appended, and a
request that `Validate` accepts and whose accounts have the entries' currencies adds as
much to the debits as to the credits of each currency.

### `DynamoFlowProofs`

| Theorem | States |
|---|---|
| `OccCorrect` | `Spec => [](TypeOK /\ OccInvariant)` |
| `NoLostUpdateCorrect` | each commit adds exactly its entries |
| `NonNegativeCorrect` | no forbidden overdraft |
| `ExactlyOnceCorrect` | keys and event ids are posted once |
| `BalancesMatchJournalsCorrect` | balance rows are the sums of the posted entries |
| `TrialBalanceCorrect` | debits equal credits in every currency |
| `AttemptsAreTrueCorrect` | what a handler holds was true during its attempt, and refusals for want of funds were justified then |
| `RepliesAreTrueCorrect` | replies are true; conflicts imply progress |
| `RetryOnlyIfNotPostedCorrect` | a version conflict only if neither the key nor an event id is posted |
| `Refinement` | `Spec => ImplementsAtomicLedger` |

`TypeOK` alone is not inductive (`Write` adds totals of a request that
must have been parsed), nor are the safety properties: a handler's overlay may be
arbitrarily old. `OccInvariant` says what is known of an old overlay: a row's version
is positive, never goes back and never names two contents, so an overlay with the
current version *is* the current row; a row that did not exist was read as zeros; and
if anything changed since, a flow committed since the attempt began. From it follows
`CommitReadsCurrent`: if the write's conditions hold, then all balances the handler
decided on are the balances of this instant. `NoLostUpdate`, `NonNegative` and the
refinement are consequences: the write is `AtomicLedger!Post`. `ConflictMeansProgress`
is its contrapositive. `BalancesMatchJournals` follows from `NoLostUpdate` and the growth of a history's
totals, `TrialBalance` from what `Validate` guarantees. `RefusedForCause` is not
inductive: a reply is about reads that are gone. The invariant is `TrueFor`: every
balance in the overlay was held after some prefix of the log that is not shorter than
`began`, and a reply of INSUFFICIENT_FUNDS has such a prefix as its cause. Prefixes survive an append,
so a commit of another handler keeps both. `RetryOnlyIfNotPosted` is an argument about positions: `PutsAre` says where
each put of a flow stands in `t.order`, so every marker comes before every balance (`MarkersFirst`).
If the first failed condition is a balance's, then no marker failed, and neither the key nor an
event id is posted (`ConflictTells`).

### `SqlFlowProofs`

| Theorem | States |
|---|---|
| `LockingCorrect` | `Spec => []SqlInvariant` |
| `SqlRefinement` | `Spec => ImplementsAtomicLedger` |
| `SqlBooksCorrect` | balance rows are the sums of the posted entries; debits equal credits in every currency |
| `AnswersCorrect` | `Spec => AnswersAreExact`, if requests with equal keys parse alike |
| `DeadlockCorrect` | `Spec => []OnlyEventIdsDeadlock` |

The argument is the pessimistic counterpart of `OccInvariant`. `SqlInvariant` says that
what a call holds is exactly what it has touched (`Holdings`), that nothing is held twice
(`Exclusive`), and therefore that its reads are still true (`ReadsAreCurrent`): totals are
those of the balance rows, its key and event ids are not posted. A commit of another call
writes only rows which that call holds, so it disturbs none of this. `Commit` is then
`AtomicLedger!Post` on the current state, every other step a stutter. For deadlock (`WaitingFor`): a
call that has not begun to insert journals waits for the connection holding nothing, for a
flow row holding no balance, or for a balance greater than all it has locked. In a set of such calls
that all wait for each other some lock balances; the one whose next account is the greatest
waits for a call whose next account is greater still. There is a greatest because accounts
are finitely many (`AccountsBounded`). The extra hypothesis of `AnswersCorrect` is needed: a key reused with an
amount that does not parse is refused before the key is looked up, posted or not.

### `ReservationsProofs`

| Theorem | States |
|---|---|
| `LifecycleCorrect` | types, `Conservation`, `StatusMatchesAmounts`, on every backend |
| `ClosedIsFinalCorrect` | `ClosedIsFinal`, on every backend |
| `ReservationsCoveredCorrect` | the reserved account covers the open rows and is the sum of the posted flows, on every backend |
| `OutboxCorrect` | with a unique outbox key, one event per posted transition |
| `NothingStrandedCorrect` | with a unique outbox key, nothing is left in the reserved account |
| `AmountsMatchJournalsCorrect` | with a unique outbox key, a row's amounts are the sums of its flows |
| `RowsAndEventsCorrect` | both of these |
| `SchedulersCorrect` | `WSpec => SchedulersFollowLifecycle` |
| `OpenIsListedCorrect` | `WSpec => OpenIsListed` |

The first two rest on the conjunction in `LifecycleCorrect`, row by row
(`RowOK`): conservation is what makes the status rule inductive, since "HELD" is told
from "PARTIAL" by the amounts that were taken. Money needs `BooksInvariant` besides: a row
that does not exist is empty and none of its create flows is posted, so that the inner flow
of a new reservation is never taken for a replay and moves what the row records. On DynamoDB a
replay moves nothing while the row shrinks, hence *covered* there and *equal* only where
the outbox key is unique; that is finding 1, seen from the books. Schedulers refine the
lifecycle because what is still on a list is due (`ListedAreDue`; the clock does not go
back) and every other check is made again under the lock. `WalletSees` is what GetWallet knows half way: a reservation
open all along was listed as HELD or is PARTIAL by now, and never HELD again.

### `DynamoReservationsProofs`

| Theorem | States |
|---|---|
| `VersionsTellCorrect` | `DSpec => []VersionsTell` |
| `ReservationsRefinement` | `DSpec => ImplementsReservations` |
| `DBooksCorrect` | the books of `ReservationsProofs`, on DynamoDB |
| `DynamoLifecycleCorrect` | `LifecycleInvariant` and `ClosedIsFinal`, on DynamoDB |

`VersionsTell` is inductive with the types: a commit raises the version of every row and
balance that it writes, so another handler's reads of them are outdated for good, and
reads of other rows are untouched. A commit whose conditions hold therefore decided on
current values and is one action of `Reservations`; everything else is a stutter. The
last two theorems are those of `ReservationsProofs`, instantiated with
`UniqueOutbox <- FALSE` and carried over by the refinement.

### `WorkerProofs`

About the dispatcher: `DispatcherCorrect` (`OInvariant`), `NeverDroppedCorrect`,
`DuplicatesAreFaultsCorrect`. That a marked event
was sent is not inductive, because `Mark` does not look at `sent`; `OInvariant` says that
what is being marked was sent, and bounds what a dispatcher sent of an event that is
still pending or in its batch by its faults.

About snapshots: `SnapshotInvariant`, `ExactApartFromSnapshotCorrect`, `NewestIsKeptCorrect`. `SInvariant`
says what a row is worth (`RowIsBetween`): it contains every posting that committed
before its instant and none that committed after its read, for the rows of the table,
the rows a call still holds and the row a query holds that may be deleted meanwhile. A
posting apart from the snapshot is then on one side of both, and `(snapshot_at, as_of]`
adds it exactly if the row does not have it. `NewestIsKept` follows from `Prunable`, which
asks for a newer row of the account, and the fact that there is a newest (`NewestExists`).

About reconciliation: `ReconInvariant`, `MismatchReportedOnceCorrect`, `NothingSlipsCorrect`,
`AdjustedOnceCorrect`, `ResolutionIsFinalCorrect`. `BatchesAgree` ties rows that one
transaction writes: a reported mismatch means a MISMATCHED record, which no later batch
loads; an adjustment is a journal, whose event id is therefore used; an unused batch has
no rows. The matcher's step is proved through what `Verdict` means (`VerdictMeans`,
`RunEffect`).

### `StoresProofs`

| Theorem | States |
|---|---|
| `StoresAgreeCorrect` | `Spec => []StoresAgree`: to every query SQLite gives exactly the pages that a CockroachDB of whole milliseconds may give; sums agree within one unit per entry, and exactly for whole amounts below `RealLimit`; DynamoDB lists the same open reservations of an owner, if they fit in a page of their status and three pages in all |
| `RightUpToResolutionCorrect` | `Spec => []RightUpToResolution`: expiry lists, the rate in force and outbox lists of each backend are right up to less than one of its units |

They hold for any `Unit`, so the resolution of a backend is not an accident of the texts it
happens to write, and for any accounts, ids, clock and page sizes.

A query is a selection, an order and a limit. `SameQuery` is the lemma that carries the
listings: if a bijection between two tables respects the filter and the order, the sets of
sorted pages correspond. What is left per query is that truncated instants are selected and
ordered as rounded ones (`UnitsOfInstants`, `FormatThenParse`) and that the conversions of the
rows undo the texts. These sections assume `SameTables`: the tables of SQLite and of `rounded`
hold the same rows, up to `parseTime`.

`SameTables` is inductive for the tables that only grow. It says nothing of instants that a
text does not tell apart, and nothing of DynamoDB. The inductive invariant `IInv` has three
more parts:

- `TypeInv`: the rows of CockroachDB have their kinds and are finitely many, so that a page
  exists;
- `SameInstants`: SQLite's reservations and events and DynamoDB's items are images of
  CockroachDB's rows, with one row per id. The DynamoDB index keys are functions of the status,
  which a whole-item put keeps (`StatusUpdate`); an id names the same row everywhere, so that
  the update of one row is the update of one image;
- `RatesUpToDate`: for every put there is a row of its source and its instant, as far as the
  backend tells instants apart, and every row has the rate of the *last* such put. A state
  without the history of puts does not say which of two upserts of a millisecond came last.
  The two dialects' upserts are shown to do the same (`OneUpsert`) and to keep this
  (`StaysUpToDate`).

TLC checked `IInv` on the instance of run *stores* before it was proved. The answers follow
from it without further induction: a listing whose filter and order are right up to `u`
(`TimelySelection`, `OrderedSelection`) gives a page that is (`TimelyPage`, `OrderedPage`), since what a
page leaves out is not before anything on it (`PageFacts`); for DynamoDB, whose texts put a
whole second after its fractions, the order of texts is right up to a second (`TextsInOrder`).

### Only model-checked

Liveness: `EverySubmissionSettles`, `ExpiredGetClosed`, `EventuallyPublished` and
`EveryCallReturns` (fairness and ENABLED are out of the prover's reach). Every other property
that a passing run checks is also a theorem. The three violations are TLC counterexamples.

## 6. What is abstracted, and what is not modelled

- Item and protobuf encoding, ids, timestamps, metadata, payloads, logging, metrics.
- `DynamoReservations` reads both balances of the inner flow in one step;
  `DynamoFlow` has the reads one by one and `Refinement` shows their order does not
  matter for a commit. Its account and currency checks are taken to succeed.
- A listing from the eventually consistent expiry index is taken to be current in
  `ReservationExpiry`; in `DynamoReservations` the scheduler may expire any
  reservation that is due, whatever its state, so nothing rests on the index.
- The SQL backends' transactions are taken to be atomic in `Reservations` and `Recon`. In
  `SqlFlow` they are statements, in `Snapshots` a beginning and a commit. All clocks agree, there and in `Recon`.
- DynamoDB lists pending events from an index that lags: more duplicates and delay than
  `Outbox` has. Snapshots and reconciliation do not exist there (`unsupported.go`).
- In `Recon` amounts agree or not per reference, adjustments are of the reconciled
  source, and batch counts and outbox events are left out.
- `SqlFlow` serializes by locks only. CockroachDB may abort more (40001); that is
  `StatementFails`. FX rates are integers and one pair is modelled; the reservation row that
  a reservation handler locks before its inner flow is not in `SqlFlow`.
- `CrdbStore` and `SqliteStore` keep the columns that a query filters, sorts or sums by.
  Reads of one row by its key are part of the handlers. Times are compared as numbers of the
  text's resolution, since the text is of fixed width; DynamoDB's, which is not, has its own
  order (`TextBefore`, for any number of digits). How far a REAL sum may be off is an assumption
  (`RealSums`); SQLite is not modelled further. The delay of DynamoDB's indexes is left out.
- `snapshotTick` decides when snapshots are taken; in `Snapshots` it may be any time.

Not modelled: generated protobuf and transport code, process wiring, client transports,
interceptors, observability, migrations, and the React and Go examples, which have no
protocol of their own; `EnsurePlayerAccounts` of the wallet SDK (two independent idempotent
creations). `Deposit`, `Withdraw` and `Settle` are one-step flows.

## 7. Plan

In order of importance; what is done is described above.

1. *Done:* `Ledger`, `AtomicLedger`, `DynamoFlow`, `SqlFlow` with exchanges, `Reservations`,
   `Outbox`, `Snapshots` and `Recon`, each with its proofs; `ReservationExpiry` and `Wallet`
   with the proof that schedulers follow the lifecycle; `DynamoReservations` with the proof
   of its refinement; the sums; the three stores and `Stores` with its proofs.
2. The reservation row in `SqlFlow`, so that the atomicity of `Reservations` is shown
   rather than taken from the isolation level.
3. The delay of DynamoDB's indexes in `DynamoStore`.
