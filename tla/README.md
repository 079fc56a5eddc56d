# The ledger in TLA+

A verification development of the double-entry ledger in `src/backend`: TLA+
modules translated from its code, TLC runs over small instances, and theorems
that TLAPS proves for every instance.

The service is FastAPI over Postgres. Every request runs in one database
transaction of its own, every `await` inside it is a round trip during which
other requests go on, and several worker processes serve at once. So the
questions worth asking are about what lies between two statements of two
handlers: a balance that is compared after it was read, a retry that races the
request it repeats, a hold that lapses while it is captured, an event that is
marked as delivered before it is.

Contents: [the system](#the-system), [the modules](#the-modules),
[the runs](#the-runs), [fairness](#fairness), [the theorems](#the-theorems),
[what the code does not keep](#what-the-code-does-not-keep),
[what is not modelled](#what-is-not-modelled), [the plan](#the-plan).

## The system

Paths are below `src/backend`. One line for state, one for operations, then what
is hard and what correctness means.

**Sessions and locks** (`data/database/engine.py`,
`services/transfers_locking.py`). State: one `AsyncSession` per request with
`autoflush=False`, READ COMMITTED; row locks; `pg_advisory_xact_lock` per
account. Operations: open, flush, commit, rollback, `account_lock`. Locks end
with the transaction, also when the handler dies. Correct: the handler that has
passed `account_lock` is alone on the account; nothing is left behind by a
request that failed; nobody waits forever.

**Idempotency store** (`services/idempotency_store.py`). State: one record per
(endpoint, key) with a fingerprint of the body and the response. Operations:
`lookup`, `record`. Two requests may both miss in the lookup and meet at the
primary key. Correct: the key commits exactly with the money it guards.

**Idempotency sweeper** (`services/idempotency_sweeper.py`, started by
`api/lifespan.py` in every worker). Operations: delete the records older than
24 hours, every hour, for ever. Correct: no key is freed while a request that
used it, or a retry of it, is running; old records go.

**Posting engine** (`services/postings_engine.py`). State: append-only
transactions and postings, a snapshot row per account, an outbox row per
transaction. Operation: `post_transaction`, leg by leg, each leg an `INSERT` and
an `UPDATE` of a snapshot row, in the caller's transaction. The update's row
lock is held to the end, so opposite transfers can deadlock. Correct: every
snapshot is the sum of its postings.

**Balance reads** (`services/balances_service.py`). `available_balance` is two
statements: the snapshot, then the sum of the active holds at `now()`, the
transaction's start. Money and holds move between them.

**Transfers** (`services/transfers_service.py`, `services/fx_service.py`).
`execute_transfer`: lookup, lock the source, compare, post one or two
transactions, record, commit. Correct: no overdraft, money changes hands within
one currency only.

**Holds** (`services/holds_service.py`). State: `active`, `captured`,
`released`, and an `expires_at` that only reads interpret. `place_hold` locks
and compares with the available balance; `capture_hold` reads the hold's state
first, then locks and compares with the posted balance; `release_hold` takes no
lock. Correct: reserved money is there when it is captured, a hold is resolved
once.

**Reversals** (`services/reversals_service.py`). `reverse_transaction` looks for
an earlier reversal, posts the negated legs, commits. No lock, no funds check.

**Outbox** (`services/outbox_service.py`). State: events with `created_at`, an
id and a status. `dispatch_pending` reads the oldest pending events, commits
them as published, and returns them. Correct: events exist for committed
transactions only, every one is published, in order, and none is lost.

**Rates and money** (`services/fx_rates.py`, `routers/fx_routes.py`,
`money/types.py`). State: append-only quotes with any `effective_at`. Operations:
publish, one `INSERT`; `resolve_rate`, a statement for the pair and, if that
finds nothing, another for its inverse. Conversion rounds once, half to even.
Hard: quotes arrive late, tie, or between the two statements. Correct: an answer
was effective, an instant that has been used resolves to what it resolved to
before, rounding has no direction.

**Read models** (`services/accounts_service.py`, `services/admin_service.py`,
`services/statements_service.py`, `check_balance_drift` of
`api/observability.py`). State: an account, its snapshot, its postings with an
`effective_at` in any order. Readers: the journal, a page a call with a cursor
on `effective_at`; statements of `[start, end)`; the drift check, snapshot and
sum in two statements. Hard: postings go on arriving, before the cursor and
after it, with equal instants. Correct: a journal read to its end has
everything, periods add up to the balance, a statement issued again has what it
had, a drift report means something.

**Partitioning** (`data/database/partitioning.py`, `migrations/.../0006`). Pure
functions: the key of a row, the bounds and the name of its partition, the DDL a
migration runs. Hard: names are unquoted identifiers, folded in case and cut at 63
bytes, and a child that is missing or refused shows only when rows come. Correct:
every row has one partition and fits into it, and every partition can be made.

**Reconciliation** (`services/reconciliation_importer.py`,
`services/reconciliation_matcher.py`). State: imports and their lines.
`import_statement` looks for an import of the file's hash, inserts one, adds the
lines and commits; nothing unique stands behind the lookup. `match_line` is pure
and proposes a posting for a line. Hard: uploads that overlap or crash; postings
that arrive between two runs of the matcher. Correct: a retry imports nothing
twice, a proposal does not move.

**Everything else** is wiring: routers, tenant tokens, logging, metrics,
settings, migrations.

They interact through rows and locks, and through nothing else: transfers,
holds and reversals share the posting engine, the snapshots, the advisory locks
and the idempotency store; the engine feeds the outbox; the sweeper deletes what
the store wrote. There is no shared memory between requests, and no queue.

## The modules

| module | models | lines of code it stands for |
|---|---|---|
| `LedgerDatabase` | rows, locks, sessions, idempotency store, balance reads | `engine.py`, `transfers_locking.py`, `idempotency_store.py`, `balances_service.py`, the tables |
| `PostingEngine` | `post_transaction` | `postings_engine.py` |
| `Money` | `convert`, `round_minor` | `money/types.py` |
| `FxRouting` | `route_conversion` | `fx_service.py` |
| `Transfers`, `Holds`, `Reversals` | the handlers, one action per round trip | the services of these names |
| `Ledger` | all of them over one database, crashes, deadlock detection, the properties | the routers |
| `LedgerInvariants` | the inductive invariant | |
| `ReservedPayments` | the abstract ledger: a payment, exchange, reservation, capture or reversal is one instant | |
| `LedgerRefinement` | how `Ledger` implements it | |
| `Outbox` | events, dispatch | `postings_engine.py`, `outbox_service.py` |
| `IdempotencySweep` | one key, its requests and the sweepers, with a clock | `idempotency_sweeper.py`, `lifespan.py` |
| `FxRates` | publishing and resolving rates | `fx_rates.py`, `fx_routes.py` |
| `Partitioning` | keys, names as Postgres keeps them, bounds, and what the DDL creates or fails at, as functions | `partitioning.py` |
| `Journal` | one account's history and its readers, over `Partitioning` | `accounts_service.py`, `admin_service.py`, `statements_service.py`, `observability.py` |
| `Reconciliation` | imports, and the matcher on their lines | `reconciliation_importer.py`, `reconciliation_matcher.py` |
| `MCLedger`, `MCFxLedger`, `MCOutbox`, `MCRates`, `MCJournal`, `MCReconciliation` | instances for TLC | |
| `LedgerSessionProofs` | lemmas: the legs of a transaction, the shapes of the actions, sessions, locks and keys | |
| `LedgerProofs` | theorems of the core and its refinement, over `LedgerSessionProofs` | |
| `MoneyProofs` | theorems about rounding, lemmas about sums | |
| `OutboxProofs`, `IdempotencySweepProofs`, `FxRatesProofs`, `ReconciliationProofs` | theorems | |
| `JournalProofs` | theorems about partitions and about the readers | |

`LedgerDatabase` is the base of a chain of `EXTENDS`: `PostingEngine`,
`FxRouting`, then `Transfers` and `Holds` side by side, `Reversals` on both, and
`Ledger`. `Outbox`, `IdempotencySweep`, `FxRates` and `Reconciliation` stand by
themselves, with a handler reduced to what they need of it; `Journal` extends
`Partitioning`.

**A request in the core.** A request is a process. `pc[r]` names the next
statement of its handler; the other session variables are its locals: `req` the
body, `seen` the balance figure, `applied` the legs already posted, `began` the
holds that had expired at `now()`. A retry is another request with an equal
body, and a hold is named after the request that placed it.

| `pc` | what comes next |
|---|---|
| `idle` | the first statement: `lookup`, or the read of the hold |
| `lock` | `account_lock` |
| `posted`, `held` | the two statements of `available_balance`, the second with the decision |
| `original` | a reversal reads the original and its reversals |
| `posting` | the next leg |
| `after` | a capture reads the balance for its response |
| `commit` | `record` (if the endpoint has a key) and the commit |
| `done` | the answer is in `outcome` |

Of a row under update there are two versions: `balance`, which others read, and
`draft`, the newest, which belongs to `rowOwner` until that transaction ends.
`Commit` and `Rollback` say which of the two survives. `Crash` may happen at
every point of a handler; `AbortDeadlock` takes a request that waits in a cycle.

**The other readers.** Each is a process with a `pc` and one action per
statement, since at READ COMMITTED each statement sees what is committed when it
runs. `from` and `upto` are history: the rows when a reader began and when it
read last. In `FxRates` a row's id is its publication, and a publication is the
instant of its commit. In `Journal` a transaction has one leg on the account or
two (a transfer to itself), a page is the set of rows its `ORDER BY` and `LIMIT`
select, and `cursor` is the `next_cursor` of the last page; `issued` is a statement
a reader was given, row by row with its running balance. A transaction is one step
there, its postings and its snapshot update together: what can happen between
them, the race for the snapshot row, is the core's subject. In `Reconciliation`
an import is named after its upload; `InsertImport` changes no table, because a
flushed row is seen by nobody; `known` is history, the imports an upload could
see when it looked. What calls the matcher is not in the repository: `Match`
gives it the postings there are, `AddPosting` adds to them.

**Names of partitions.** `Partitioning` keeps a name as the sequence of its
characters: the tenant's part with `-` replaced and folded, the digits of year and
month, the prefix, cut at 63. Tenants' names are of letters, digits, `-` and `_`, what
an unquoted identifier can have. `Created` is `partition_ddl` as one transaction
of a migration: `CREATE TABLE IF NOT EXISTS` passes over a name that is taken, and
then `CREATE CONSTRAINT TRIGGER` fails on it if it is the child of postings; bounds
that overlap fail too. The module takes the parents as partitioned by a range of one
instant, which is what the DDL of the children says; see the end of
[what the code does not keep](#what-the-code-does-not-keep) for what the
repository says of them elsewhere.

**Abstractions of the core.** One tenant. Rows of the core belong to a tenant, and
what a handler reads of another one it does not use: it filters on `tenant_id` or,
with `session.get`, compares it after the read. (Outside the core it is not so:
rates are shared by all tenants, and `stream_statement` and `recompute`, the
drift check's second statement, filter on the account alone.) Postings are not rows but follow from the committed requests: the legs of a transaction are a
function of the body. Reads that only fill the response are merged into the
commit, with one exception: the second `available_balance` of a capture, which
shows a defect. What it reads of the snapshot is the figure of the first read and
the capture's own legs, for `session.get` answers from the identity map; the map
is weak, and if nothing holds the object any more the newest row is read, so
`ReadAfterCapture` allows both. A hold may lapse from the moment of its `INSERT`,
for a client may give an `expires_at` that is past already. Accounts are open from the
start. Rates are a constant function of the pair and the amount; `Money` gives it the rounding of the code. The order
of the two legs of a reversal is that of the original.

## The runs

The bounds are the smallest in which every case meets every other: three
requests make an original, a competitor and a third that reads between them;
two keys let two requests collide or not; two accounts transfer to each other
and deadlock; amounts of one and two units against opening balances of one and
two let one request fit and two not. Requests and keys are interchangeable, so
the runs without liveness use their symmetry.

| run | instance | what it shows |
|---|---|---|
| `MCHolds` | 3 requests, 2 keys, amounts to 2; transfers, placed holds, captures, releases | locks exclude, keys and money commit together, reserved money is there while holds are resolved in order, no overdraft even if they are not |
| `MCInvariant` | 3 requests, 2 keys, amount 1; all five handlers | the inductive invariant, every snapshot is the sum of its postings, all of it implements `ReservedPayments` (what a handler read is still good when it commits), under retries, deadlocks, crashes and double reversals |
| `MCFx` | 2 requests, 1 key, amounts to 2, 5 accounts in 3 currencies, one of them without a route; all five handlers; fair | no currency gains or loses money, although a dollar converts to nothing and a reversal takes back half a conversion; a conversion is one instant of `ReservedPayments`; every request that began is answered |
| `MCOutbox` | 2 handlers with up to 2 events, 2 relays, limits to 2; fair | events exist for what committed, no relay gets one twice, order where transactions do not overlap, every event is published |
| `MCSweep` | 2 requests, 2 sweepers, retention 2, in-flight window 1, clock to 6; fair | a key works again only when its record is old, never for an overlapping retry; old records go |
| `MCRates` | 2 currencies, 3 publications, 2 resolutions, 2 instants, a rate that is stored as zero and one that is not | answers were effective, a quoted pair is refused only for a newest inverse row stored as zero, an instant resolves to another row only for a late quote or a tie |
| `MCJournal` | 3 transactions of up to 2 legs, 1 reader, instants in December, at New Year and in February, pages to 2 | pages miss only what shares an instant with what they have and repeat nothing, a drift report is what was committed meanwhile, periods add up, a statement issued again has more rows only by what was backdated into it |
| `MCReconciliation` | 3 uploads of 4 files for 2 tenants and 2 accounts, 2 postings that fit two lines at both edges of the matcher's window, one or none of them | duplicates come only from uploads that overlapped, an answer stands for stored lines, proposals do not move, lines that share a posting agree |
| `MCDoubleCapture`, `MCLapsedCapture`, `MCDoubleReversal`, `MCOutboxLost` | the sizes of the runs above | what the code does not keep, below |

Deadlock is checked in the runs of the core, the outbox and the sweep. `Ledger`
may stop only when every request is done (`Quiescent`); a relay may always call
and a sweeper always sweep. `FxRates`, `Journal` and `Reconciliation` do stop
when their publications, calls, transactions or uploads are used up, and nothing
in them waits for anything.

*Bounds by name.* `MaxAmount`, `Requests` and `Keys` in the core; `MaxEvents`,
`MaxLimit` in the outbox, where the number of events is bounded by the handlers;
`MaxTime` in the sweep, large enough for a record to be written, to lapse, and
for a second request to be written and lapse as well. `MaxTime` in the rates:
two instants, since only their order matters, make a quote early, late or tied.
`Quoted` there: both sides of the pair, but no rate of a currency for itself,
which the endpoint would store and no resolution would read.
`Times` and `MaxLimit` in the journal: with pages of one and two and up to six
postings at three instants a tie is split and a posting is backdated behind the
cursor, or into a period whose statement was issued. The constants of names and
characters there are those of `Partitioning`, as far as the assumptions ask.
`Days`, `Amounts`, `Refs` and `Arriving` in the reconciliation: the lines are of
days 1, 5 and 9 and amount 1, and of day 5 and amount 2; postings are of day 3, two
days from the first lines and six from that of day 9. So one posting is proposed for two different
lines that lie two windows apart, not for the one of their day with the other
amount nor for the one that is further away, a reference decides between the two,
and a second posting makes a proposal ambiguous.

*Deliberate premises.* `NoOverdraft` excepts an account that a committed
reversal took money back from (a reversal checks no funds by design) and
conversion accounts, which are debited without a check; all others are `Guarded`,
whatever was reversed elsewhere. `ReservedFundsCovered` adds that the holds on
the account were captured once, before they lapsed and not after a release, which
is what the violations below are about; `MCHolds` reaches both sides of that.
Reversals are in `MCInvariant` and `MCFx`, where `IInv` says of guarded accounts
what `NoOverdraft` says, and there are guarded accounts beside others. `OverlappingExecuteOnce` asks for
a retention of two in-flight windows. The comment in DECISIONS.md asks for one;
with one it fails, as the mutant of that run shows: a record is stamped before
it commits, so the request takes a window of its age and the retry another. The
24 hours of the code are far above either. `AnswerWasEffective` and `NeverOlder`
ask that one side of the pair is maintained, as `fx_rates.py:9` says operators
do, and `NeverOlder` that no rate is stored as zero; with both sides, a direct
quote wins over a newer inverse. `QuotedPairIsAnswered` excepts a pair whose newest
inverse row is stored as zero. In `Journal` no two postings have one `created_at`, so the
order of a statement is total. `HistoryRepeats` excepts late quotes and ties,
`JournalIsComplete` postings that share their instant with one on a page;
`MCRates` and `MCJournal` reach both sides of each premise.

## Fairness

`Ledger`: weak fairness of each request's next step and of its abort. Uvicorn
runs the coroutine of a request that has begun, Postgres grants a free lock, and
its deadlock detector runs. A step that waits for a lock is disabled, so nothing
is assumed about locks that are not released. Clients need not send requests,
requests need not crash, holds need not lapse. `MCFx` checks
`EveryRequestAnswered` under it, with conversions, whose four legs make
the longest waits; two requests are enough for a cycle of locks.

`Outbox`: relays keep calling, calls proceed, and for each relay not every call
dies between its read and its commit (strong fairness of `MarkPublished`,
because a crash takes the call back to its start). Without it a relay that dies
each time publishes nothing.

`IdempotencySweep`: time goes on, requests proceed, every worker sweeps again
after its sleep (`run_forever` catches what a pass raises) and not all passes
fail.

## The theorems

For every set of accounts, requests and keys, every amount, opening balance and
rate (the assumptions are named in the modules: opening balances are natural
numbers, requests and accounts are finitely many, a conversion account is an account of its currency,
a conversion gives a natural number, published rates are positive, ids are
distinct, and so are creations; nothing is assumed of instants, pages, files or
references; of characters, that the ten digits differ):

| theorem | says |
|---|---|
| `Invariance` | `IInv` holds in every reachable state of `Ledger` |
| `TypeCorrect` | tables and locals keep their types |
| `MutualExclusion` | one checker per account |
| `KeysAreOnce` | of the requests under a key exactly the recorded one took effect |
| `FundsAreSafe` | no overdraft on guarded accounts |
| `MoneyIsConserved` | the balances of a currency add up to what they were, whatever was converted, reversed or crashed |
| `SnapshotAddsUp` | every snapshot is its opening balance and the sum of its postings |
| `ReservationsAreSafe` | reserved money is there, on a guarded account whose holds are resolved in order |
| `ReservedPaymentsImplemented` | `Ledger` implements `ReservedPayments`, with conversions and reversals |
| `OutboxInvariance`, `EventsAreCommitted`, `NoRedelivery`, `PublishedInOrder` | the safety properties of `MCOutbox` |
| `SweepInvariance`, `KeyReusedLate`, `SweepIsSafe` | the safety properties of `MCSweep` |
| `RatesInvariance`, `RateWasEffective`, `NoFalseRefusal`, `HistoryIsStable`, `RatesMoveForward` | the properties of `MCRates` |
| `JournalInvariance`, `JournalsAreComplete`, `JournalsRepeatNothing`, `DriftsAreInFlight`, `PeriodsAddUp`, `ReissuesAddLatePostings` | the properties of `MCJournal` |
| `ReconciliationInvariance`, `RetriesFindTheImport`, `AnswersAreStored`, `LinksNeverMove`, `SharedPostingsAgree` | the properties of `MCReconciliation` |
| `BoundsAreTheMonth`, `RouteIsTheOnlyPartition` | a row fits into the one partition of its tenant it is routed to |
| `NamesAreTheKeys` | names are as different as keys, up to 40 characters of tenant, unless two tenants' names become one |
| `OnlyMonthsAreApart`, `OneChildPerMonth`, `LongNamesLoseMonths` | and where that ends: the bounds of tenants are the same, so the DDL of a second tenant's month fails; a long tenant's second month has no child of transactions |
| `RoundingIsNearest`, `TiesGoToEven`, `RoundingIsUnbiased` | what half-even rounding promises |

**Why the core needs an invariant.** That an account is not overdrawn depends
on the figure in a handler's local variable. It is compared two statements after
it was read and spent several statements later, so the claim is only inductive
with everything that keeps the figure good in between. Besides types, `IInv` has
seven parts:

- `SessionInv`: a handler is at a point of its own code, with a hold that was
  placed and legs that exist.
- `LockInv`: the advisory lock of an account is held by exactly the handler
  between `account_lock` and its end.
- `KeyInv`: records and committed requests correspond.
- `RowInv`: a free row has one version; a locked one belongs to a handler that
  has posted, and if that is neither a reversal nor the holder of the advisory
  lock, it has only added money.
- `PostedInv`: the version a handler has written is the committed one with
  exactly the legs it has posted so far, and it leaves the posting engine with
  all of them.
- `HoldInv`: only placed holds lapse, a hold's final state is the work of a
  committed request, and a capture stays inside its hold's amount and currency.
- `FundsInv`: both versions of a guarded account's row are non-negative, and what
  the lock's holder has checked stays covered by the committed balance until it
  has ended: its own amount, and for a transfer or a new hold also what is reserved
  besides (`Covered`).

`FundsInv` follows from the others thus: between the read and the debit the
committed balance can fall only by a commit of someone who took money out; that
one holds the advisory lock; and the reader does. What is reserved can only grow
by a new hold on the account, and placing one needs the same lock; releases and
lapses, which need none, make it smaller (`HeldStep`). A capture checks against
the posted balance, hence the difference in `Besides`.

`LedgerSessionProofs` first reduces the actions to a few shapes (begin, advance,
post a leg, roll back, commit, expire), then shows the parts without money for
each shape; `LedgerProofs` shows those with money.

**Sums.** Balances, holds and statements are sums over finite sets, folds in the
community modules. Induction over sets has a theorem of the library that takes
an operator, which the provers cannot instantiate, so `MoneyProofs` proves each
fact about sums (removing a point, splitting, pointwise addition, monotonicity)
at a minimal set at which it would fail; there is one, because inclusion among
subsets of a finite set is well-founded.

**From the invariant to the money.** By `PostedInv` a commit adds exactly the
legs of its transaction to the balances, and no other step changes any
(`RowEffects`, `CommitEffect`). The legs come in pairs of one currency that
cancel (`PairBalances`), which is `MoneyIsConserved`; and they are what the sum
of the account's postings gains (`RecomputedStep`), which is `SnapshotAddsUp`. A
second reversal of one transaction is a further set of legs there, counted as
often as it was committed. `ReservationsAreSafe` is inductive relative to
`IInv`, since its premise, once broken, stays so: a transfer and a new hold leave
the reserved money covered by `Covered`, a capture takes its hold out of the
reserved sum when it takes the amount.

**The refinement.** `ReservedPaymentsImplemented` has no hypotheses. It maps
the committed balances to the funds, the sum of active holds to what is reserved,
the keys with a record to what is settled, the transactions to the moves that can
be undone, and the accounts that are not guarded to the exempt ones. The commit
of a transfer is then `Pay`, or `Exchange` if it converts: both its halves are
carried at once (`CommitCarries`) and can be undone apart. That of a placed hold
is `Reserve`, that of a capture `Capture`, that of a reversal `Undo`; a lapse and
the commit of a release are `Unreserve`; every other step stutters. That the
abstract guard holds at the commit is `Covered`, which is why that part is
stronger than `NoOverdraft` needs. An exempt account has no such guard, and
only `Undo` makes one exempt (`TakenBackStep`). A double capture is a `Capture`
that ends no reservation, a second reversal a second `Undo` under another key:
the abstract ledger forbids neither, as the code does not.

In `Outbox` the strengthening is what a call holds: an event in a batch is not
yet given to that relay, and with an event the batch has every older one that
was there. The second rests on a lemma about `ORDER BY ... LIMIT`, proved with
cardinalities. In `IdempotencySweep` it is that every executed request other
than the recorded one has outlived its retention.

In `FxRates` the strengthening is that a call between its two statements has
found nothing when it began, and that its answer is newest among the rows of the
statement it was read by. In `Journal` it is that everything on a page lies
behind the cursor, and everything behind the cursor that was there from the
start was on a page or shares its instant with something that was; that no page
repeats anything and that none of it is lost are the two directions of one
order, for which `JournalProofs` has the lemmas. For its two properties about sums
the balance is kept equal to the sum of all rows, and the figure a drift check
has read to the sum of those at its first statement; for the statements, that what
was issued is the statement of the rows at that moment, from which the rows that
came later split off. The theorems about names compare sequences of characters: what is
appended to names of one length keeps them apart or equal, year and month are of
fixed length, so equal names have equal parts (`PartsAreEqual`), and digits
determine a number. In `Reconciliation` it is
that an upload that goes on to insert has seen no import of its file, and that a
proposal has the postings behind it that made it one.

**Only model-checked.** The liveness properties, `EveryRequestAnswered`,
`EveryEventPublished` and `OldRecordsReclaimed`: they need fairness and
`ENABLED`, which the provers do not support.

## What the code does not keep

Each of these is a statement of the repository that TLC refutes.

- `MCDoubleCapture`: "a hold captures at most once" (`holds_service.py:15`).
  The state is read before the lock and not again, so two captures both post.
  `release_hold` does the same without a lock, so a hold can be captured and
  released.
- `MCLapsedCapture`: "posted must already cover the capture"
  (`holds_service.py:140`). A hold that has lapsed can be captured, with money
  that another hold has reserved since.
- `MCDoubleReversal`: "at most one reversal per transaction"
  (`reversals_service.py:8`). Nothing but a read enforces it.
- `MCOutboxLost`: dispatch is "at-least-once" (`outbox_service.py:6`). The commit
  comes before the response, so what a dying call has read is delivered to
  nobody.

Not given a run, but visible in the models:

- A retry that overlaps its original ends in the unhandled unique violation
  (`outcome` `clash`) and not in a replay.
- After a capture "the reservation is gone" (`tests/test_holds.py:132`), but the
  response still counts it: the production session has `autoflush=False`, so
  `ReadAfterCapture` reads before the hold's new state is written. The test's
  session flushes.
- Events of transactions that do overlap can be delivered against
  `(created_at, id)` (`NotOvertaken` says what remains of the order).
- Records live for `DEFAULT_MIN_AGE`, 24 hours, although `.env.example:27-28`
  gives them 48, because nothing reads the configured values.
- "A historical conversion always resolves the same row it originally saw"
  (`fx_rates.py:6`): not if a quote for that instant is published later, and not
  if two rows tie, for the query has no second sort key (`HistoryRepeats`).
- "Raises `RateUnavailableError` when neither direction has an effective quote"
  (`fx_rates.py:52-53`): also when there is one, but the newest inverse row is stored as
  zero in `NUMERIC(20, 10)`. `_latest` reads that row only, and an older inverse quote
  that is effective and usable is not tried (`QuotedPairIsAnswered`).
- Re-issuing a statement "yields byte-identical output"
  (`statements_service.py:5-7`, DECISIONS.md:424): a posting may be backdated into
  a closed period, and then it does not. `ReissueAddsLatePostings` says what
  remains: no row goes, and running balances differ by what was backdated.
- A drift other than zero "means the materialized balance and the posting ledger
  disagree" (`observability.py:83`): with a transaction between the two
  statements it means that there was one (`DriftIsInFlight`).
- The journal's cursor skips postings that share the last `effective_at` of a
  page (`JournalIsComplete`); a transfer to oneself is enough.
- "The unique key that makes re-import idempotent" (`tables/reconciliation.py:28`)
  is an index that is not unique, so overlapping uploads both import
  (`RetryFindsImport`); and a file uploaded for a second account of the tenant is
  answered with the first account's import.
- "A tenant's rows for a calendar month land in a single child"
  (`partitioning.py:9-10`). `partition_ddl` bounds a child by its month and not by its
  tenant, so a second tenant's children of a month are refused
  (`OnlyMonthsAreApart`, `OneChildPerMonth`), or, if the names of the two become
  one, its trigger is. A tenant of 42 to 44 characters gets one child of
  transactions a year, and no error (`LongNamesLoseMonths`).
- What the parents are partitioned by is said in three ways: `PARTITION BY LIST
  (tenant_id), RANGE (created_at)` (`partitioning.py:6`), by `LIST (tenant_id)` with
  monthly ranges on `effective_at` (`0006_partition_postings.py:9-10`,
  DECISIONS.md:184-185), and, in the DDL of the children, by the range of one column
  alone. `route` takes `effective_at`, so that "a backdated posting belongs with the
  month it affects" (`partitioning.py:53-55`); with a range on `created_at` it would lie in
  the child of the month it was written in, and a statement of one month would read
  several. None of this is in effect: no migration declares the parents
  partitioned, so Postgres refuses the seed partition of `0006` outright, and
  nothing calls `route`. So no theorem here says that a query reads one
  partition; they are about keys, bounds, names and DDL.

## What is not modelled

The connection pool; the `version` and watermark columns; the payloads of
events and responses; tenants' tokens, routers' status codes, logging and
request metrics; the balance trigger, which rejects what the posting engine
never writes, and the order of migrations; `get_account`, the balance and
idempotency views and the reconciliation lists, which only read single rows; the
order of postings created in one microsecond within a statement; time zones, for `route` takes
the month of the datetime as given and the bounds are in UTC: instants here are
in UTC.

## The plan

Done, in this order: the core of money movement, since everything else reads
what it writes; the two background protocols around it, and rounding; rates;
accounts, journal, statements and partitions; reconciliation.

Every safety and action property that a passing run checks is also a theorem.

Left: the outbox composed with the core, so that the events are those of a
committed request; the core with `FxRates` instead of constant rates.
