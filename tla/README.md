# go-messaging: TLA+ models, checks and proofs

go-messaging is a Go library that implements a transactional inbox and outbox on
PostgreSQL. This directory models its concurrent behaviour in TLA+, checks the
models with TLC on small instances and proves the main safety properties with
TLAPS for every instance.

## 1. The system

| Part | Code | State | Operations |
|---|---|---|---|
| Inbox | `messaging.go` `Receive`, `store.go` `insertDedup`, `insertHot` | `dedup` table, caller's transaction | receive, commit or roll back, duplicates |
| Outbox | `Enqueue`, `EnqueueBatch`, `insertHotBatch` | `hot` table | insert, keep an existing row |
| Processing | `ProcessBatch`, `handleOne`, `handleRetry`, `claimBatch`, `markDoneAndArchive`, `markRetry`, `markFailed`, `deadLetter` | `hot`, `archive`, one goroutine per claimed row, a semaphore | claim, run the handler, finish, retry, fail, dead-letter |
| Cleanup | `cleanup.go` | all three tables | `RecoverStuck`, `ArchiveExhausted`, `PurgeExpiredDedup`, `PurgeOldArchive`, `RunAll` |
| Dead-letter tools | `messaging_admin.go` | `hot`, `dedup` | `DeadLetter`, `RetryOne`, `RetryFailed`, `RetryAllFailed`, `RemoveDedup` |
| Listings | `messaging_admin.go`, `scanMessagesSafe`, `scanArchivedSafe` | none | `ListFailed`, `ListPending`, `ListArchived` page by page |
| Runner | `runner.go` | `cancel`, `done`, the loop goroutine | `Start`, `Stop`, poll |
| Backoff | `backoff.go` | none | delay for a retry count |
| Encryption | `crypto.go`, `New`, `prepareFields`, `hydrate` | ciphers by version, one current | seal with the current one, open by the version stored, dead-letter what does not open |
| Schema, migration, config, logging, metrics, errors | the rest | none at run time | |

Workers interact only through the tables. A worker claims rows by an `UPDATE`
over a `FOR UPDATE SKIP LOCKED` sub-select, works on the snapshot `RETURNING` gave
it, and writes the result under the guard `processing_by = me AND status =
'PROCESSING'`. Meanwhile `RecoverStuck` takes rows back, an operator requeues
them, other workers claim them again and producers insert the same id again. The
hard behaviours are therefore: results written for claims that are gone, counters
computed from stale snapshots, crashes and failed writes between two steps, rows
moved between tables by competing transactions, duplicate deliveries that overlap
open transactions, statements whose sub-select is stale when they write, nodes
with different keys during a rollout, and the start and stop of the polling
goroutine.

## 2. Modules

| Module | Models | Used by |
|---|---|---|
| `HotTable` | one hot row and the effect of each SQL statement on it | `ProcessBatch`, `Cleanup` |
| `ProcessBatch` | workers, producers, cleanup and admin on one hot table | `DeadLetterQueue`, `MCProcessBatch`, `ProcessBatchProofs`, `MessageProofs` |
| `Lifecycle` | abstract specification: what the library promises of one message | `ProcessBatch` (`ImplementsLifecycle`), `MessageProofs` |
| `DeadLetterQueue` | `RetryFailed` and `RetryAllFailed`, composed with `ProcessBatch` | `MCDeadLetterQueue`, `DeadLetterQueueProofs` |
| `Inbox` | `Receive`, the dedup table, the source that redelivers | `MCInbox`, `InboxProofs` |
| `Cleanup` | `RunAll` and the purges, several processes at once | `MCCleanup`, `CleanupProofs` |
| `Runner` | `Start`, `Stop`, `loop` | its own `.cfg` files, `RunnerProofs` |
| `Encryption` | `New` with `WithCiphers`, the cipher registry, what nodes write and read | `Listing`, `EncryptionProofs` |
| `Listing` | the paged listings, composed with `Encryption` | `MCListing`, `ListingProofs` |
| `Backoff` | the retry delays of one row, in integers of fixed width | its own `.cfg` file |
| `MC...` | values of the constants for TLC | |
| `...Proofs` | theorems and proofs | |

**HotTable.** A row keeps the columns that some `WHERE` or `CASE` reads. Times are
distances from the database's `now()`, which is all the statements compare; ages
stop counting one past the threshold they are compared with, so the state space
is finite and no outcome is lost.

**ProcessBatch.** `hot` and `archive` are the tables (archive rows are counted per
`final_status`), `task[w][m]` is the goroutine of worker `w` for message `m` with
the snapshot it works on, `cancelled[w]` is the context of the current call.
`claimant`, `attempts`, `handled` and `born` are history variables: no guard reads
them. Each guarded SQL statement, and each transaction that first locks the rows
it moves, is one action: under READ COMMITTED it waits for a concurrent writer and
then evaluates its guard again. `Claim(w, S)` takes any eligible set that fits the
batch, since locked rows are skipped. `wg.Wait` makes a worker sequential: it
claims only when no goroutine of its last batch is left. `WriteFails` is any write
that returns an error, also because the context is done; `Crash` is the death of
the process or an error while the claimed rows are read. A message for which a
worker has no handler (`Routes`) ends in `WorkerDeadLetter`, and one that it cannot
always decrypt (`Readable`; the cipher of a row depends on the node that inserted
it) may; like the code it has no ownership guard.

**Lifecycle.** A message is absent, queued, being worked on or dead, with its
attempts, its budget, whether an attempt succeeded, and how often it was archived
as `PROCESSED` and as `FAILED`. There are no tables, owners, tasks or clocks. The
refinement mapping `lifeBar` in `ProcessBatch` reads the phase from the row's
status and the rest from the histories.

**DeadLetterQueue.** `RetryFailed` runs `UPDATE ... WHERE message_id IN (SELECT ...
LIMIT n)`. The sub-select takes no row lock and the outer `WHERE` does not repeat
`status = 'FAILED'`, so what was selected and what is updated are two steps,
`RetryFailedSelect` and `RetryFailedUpdate`, and any step of `ProcessBatch` may come
between them. `fence` is the set of rows with `processed_at` at or before the cutoff
of `RetryAllFailed`; a row that fails again leaves it. Every step of `ProcessBatch`
is also a step here, with `Followed` bringing the calls under way up to date.

**Inbox.** `call[r]` is where receiver `r` is: before the dedup insert, before the
hot insert, before its commit, or with a result to acknowledge. `InTx[r]` says
whether it passes a transaction. With one, both inserts become visible at
`Commit`, and another insert of the same key waits; without one, each insert is
visible at once. `Drain` stands for the processing side. The source delivers any
message to any idle receiver at any time. The history `torn` notes a failure
between the two inserts of a receiver without a transaction.

**Cleanup.** `purgeBatched` runs `DELETE ... WHERE ctid IN (SELECT ctid ... LIMIT n)`
in a loop until a statement affects fewer than `n` rows; again select and delete
are two steps. A `ctid` is `<<key, number>>`: the database does not give the place
of a dead row to another one while a statement that can see it runs, so a key
that is stored again has another `ctid`. `RunAll` is a process that goes through purge, recover and archive, and
`Error` ends it at any statement, as its early returns do.

**Runner.** Loops and channels are numbered by the `Start` that made them. The loop
goroutine captures `r.done` in its first step (`Enter`), without the mutex, as
`defer close(r.done)` does. `Prompt` says whether `Stop` may come before that step.

**Encryption.** A cipher is its version and its secret, and a stored value is known
by the cipher that sealed it. `Deploy(n)` is `New` in the process of node `n`, with
any option that `New` and `NewCipherRegistry` accept; `Stop(n)` ends the process. A
version string outside the pattern stands for one with a colon in it, which
`Decrypt` would cut at the wrong place. The history `given` keeps the ciphers that a
node was given, to compare with what its registry reads: two of one version would
leave one of them out. `created_at` is `time.Now()` of the process that inserts and
`archived_at` the start of a database transaction; neither orders rows as they
become visible, so each is any reading in `Times`. `SafeDeployment` is the rule a rollout has
to follow; `careful` records whether all deployments did. It asks more than the
comment of `WithCiphers`, which speaks of stored rows only: the running nodes must
have the new cipher before the first node writes with it. `CarefulRotation` excludes
the other order by its precondition; it shows that breaking the rule is the only way
to an unreadable row.

**Listing.** A client opens a listing and asks any running node for page after page
until one is shorter than `Limit`. Rows with equal `created_at` (`archived_at`) come
in any order, a new one in every query. `stable` and `shifted` are histories: which
rows have had a fixed place in the list all the time, and whether a row the client
had passed has left it.

**Backoff.** `Bits` stands for the 64 bits of `time.Duration`. The product of a
float64 and a power of two is exact, and the conversion of one that is out of
range gives the least or the greatest integer, depending on the architecture.

Definitions named in a module's header as faulty variants (`OwnedByAnyone`,
`SpentEarly`, ...) are plausible mistakes in the definition after them. They take
part in no specification; putting one in the place of its definition breaks the
property it is paired with in `PROJECT.json`.

## 3. Runs

Passing:

| Run | Instance | Shows |
|---|---|---|
| `core` | 1 message inserted up to twice, 2 workers of which one may fail to decrypt it, budgets 1 and 2, delays 0 and 1, a claim timeout of 0 | ownership, retry budget, conservation, columns that agree with the status, stale results, `PROCESSED` only after a success, and that all of it implements `Lifecycle` |
| `batch` | 2 messages, batches of 2, one slot, a claim timeout of 0, 1 operator with batches of 1 | partial batches, batch archiving, claims recovered while their goroutine waits for the slot, whose result then changes nothing; the bulk requeueing loses nothing and drains completely |
| `live` | 1 message, a healthy worker, one that has no handler and may hang, 1 operator | every message is settled; `RetryAllFailed` returns; ownership and budget survive `RetryFailed` |
| `inbox` | 1 message, 2 transactional receivers and 1 with nil, 2 releases | a message is lost only by a torn `Receive` with a nil transaction; it is stored once per entry and acknowledged at last |
| `runner` | 2 callers, 3 starts, `Prompt = FALSE` | no loop forgotten, no channel closed twice, no `Stop` that waits for nobody, `Stop` returns |
| `cleanup` | 1 key and 1 message stored up to twice, 2 processes, batches of 1 | only expired rows are purged, a purge drains, stuck claims are recovered and expired entries purged in spite of errors |
| `listing` | 2 nodes, 2 messages, 4 ciphers of which 2 have one version and 1 has a bad one, 2 clock readings, up to 3 writes, pages of 1 | a node reads what it writes and what it was given the cipher of, a careful rotation keeps every row readable, a listing misses nothing that stood still |

Bounds. Rows do not interact except through batches, so one message and two
workers already give every interleaving of claims over a row; the second
insertion lets a stale task meet a new row under its id, and a budget of 2 gives
two retries before exhaustion. The second message is needed only for batches, the
semaphore and the multi-row statements; with a limit of 1 its rows make two full
batches of `RetryAllFailed` and a short one. Two releases of a dedup entry let a
message be stored three times. In `cleanup` two rows per key let a key be stored
again between a purge's select and its delete, and a batch size of 1 makes every
deletion a full batch. Thresholds of 0 ticks make every row expire after one, which
is also what the code does with a `ClaimTimeout` below a millisecond; `live` has a
timeout of 1. In `listing` two clock readings put a new row before, after or level
with another. Two ciphers and two nodes give every stage of a rotation (no cipher, the
old one, both with either current, the new one); a third repeats a version with
another secret. Three writes give two rows in
a list and one that moves. `MaxInserts`, `MaxReleases`, `MaxStarts`, `MaxRows`,
`MaxCiphers` and `MaxWrites` are the only bounds on behaviours; the other constants
are parameters of the code. `listing` uses the symmetry of nodes and of messages,
and checks no liveness. `CHECK_DEADLOCK FALSE` is used for the Runner, which may
stay stopped, and for Backoff, where a row ends in `FAILED`.

`LoopsAccountedFor` is what ties the Runner to `ProcessBatch`: with one goroutine
calling `Start` and `Stop` it means one loop, and so the one sequential worker per
id that `ProcessBatch` models. With several callers a `Start` can overlap a `Stop`
that still waits, and two loops then run under one id until it returns; a `Stop`
that overlaps another returns at once.

`PurgeComplete` and `DrainComplete` have an exception each, and the code needs it:
both loops take a statement that affected fewer rows than its limit for the last
one, and so stop early when another process deleted rows they had picked.
`ExpiredPurged` shows that for the purges this does no lasting harm. `ListingComplete`
excepts what `OFFSET` over a changing table cannot give: a row that leaves the list
behind the client shifts the others under it.

Disagreements with the documentation. Five are runs that TLC refutes:

| Run | Said | Done |
|---|---|---|
| `lost_row` | a stale worker cannot overwrite a row reclaimed by `RecoverStuck` | the dead letter of the processing path is unguarded and does |
| `auto_tx` | `Receive` with a nil transaction opens one | it runs two autocommitted inserts; a failure between them loses the message |
| `runner_prompt` | `Stop` waits for the loop and returns | called before the goroutine's first step it makes the loop close a nil channel |
| `retry_failed` | `RetryFailed` takes `FAILED` rows to `PENDING` | a row requeued and claimed between its select and its update is taken from the worker |
| `backoff` | the exponential delay is capped at `MaxDelay` | the conversion to an integer overflows first, and a negative delay passes the cap (16 bits in the run; with 64 bits and a `BaseDelay` of 1 s from retry 35 on) |

`OwnerHasLatestClaim` in `live` and its theorem put a limit to what `retry_failed`
shows: the worker's result is rejected by its guard, so the message is handled
again, and its late result is not applied. `ColumnsFollowStatus` is checked and
proved of `ProcessBatch` only: the row that `RetryFailed` takes from a worker is
PENDING and keeps `processing_by` and `processing_at`, which its `UPDATE` does not
reset. The guards test the status as well, and the next claim overwrites both.

In the sixth the code does more than is said. The repository's README has it
(README.md:204) that `ArchiveExhausted`, `PurgeExpiredDedup` and `PurgeOldArchive`
"process one batch per call — call periodically rather than expecting a single call
to drain everything". That is true of `ArchiveExhausted`. Both purges call
`purgeBatched`, which loops until a batch is short (`cleanup.go:29-42`): one call
drains what was expired when it began, with the exception named above.
`PurgeComplete` states what the code does, and `cleanup` and `PurgeDrains` show it.

Two more sentences of that README are not true of the code as it
stands, and the models allow for both. "Never re-delivered" after a nil return
(README.md:162) is not meant to hold against a recovery between that return and
the archiving: delivery is at least once, which `ProcessedWasHandled` states. And
the ownership guard needs different `WorkerID`s, while the default one is the same
in every process: `UniqueWorkerIDs` is a hypothesis of the theorems, and the runs
give each worker its own.

## 4. Fairness

`ProcessBatch` and `DeadLetterQueue`: time passes; `RecoverStuck` runs again and
again (`RunAll` is meant for a schedule, and `StuckRecovered` shows that its errors
only delay it); the goroutines of *healthy* workers advance and their handlers
return; a healthy worker keeps polling (the Runner's loop), and as claims are
ordered by `created_at` an eligible row is not passed over for ever, hence strong
fairness of the claims of each message (`created_at` comes from the clocks of the
processes that insert, so this assumes that those clocks advance). No write has to succeed, and nothing is
assumed of other workers. An operator's call that has begun goes on; nobody has to
begin one.

`Inbox`: the source redelivers what is not acknowledged, and steps that are tried
again and again, by whichever receiver, succeed at last (strong fairness), since a
database that always fails stores nothing. No single receiver has to get anywhere.

`Cleanup`: time passes, and one process, the caller's cron, calls `RunAll` again
and again. Each statement up to `RecoverStuck` that it tries for ever succeeds at
last (strong fairness); any pass may fail at any statement.

`Runner`: goroutines are scheduled and `ProcessBatch` returns. Nobody has to call
`Start` or `Stop`.

## 5. Proofs

The theorems hold for any sets of messages, workers, receivers, processes, nodes
and ciphers and any values of the constants that meet the named assumptions.

*ProcessBatch.* `OwnerHasLatestClaim` and `RetryBudget` are not inductive: that a
guard admits the right task depends on who claimed the row last and on what the
row's counter was then. `ClaimInv` adds both. For each row: a queued row's
`retry_count` equals its claims so far, a PROCESSING row's is one less and the row
names its latest claimant, a FAILED row is within the budget (`RowInv`). For each
task that holds the latest claim: its snapshot equals the row's counters, and a
success is recorded (`TaskInv`). With distinct worker ids (`UniqueWorkerIDs`) a
PROCESSING row with my id is then a row whose latest claimant I am. From `ClaimInv`
follow `OwnerIsLatest`, `BudgetKept`, `StaleResultsHarmless`,
`OnlyHandledIsProcessed` and `NeverGivesUpEarly`. `NewOwnerSafe` delimits what
`lost_row` shows: if every worker has every handler and can read every message,
`NewOwnerUndisturbed` holds, so the unguarded dead letter is the only way in which
a late worker disturbs a new owner.

*MessageProofs.* `RowStep` lists what one step may do to one row: leave it, insert
it, delete it or rewrite it by one of six statements, each from the statuses it
needs. `ColumnsAgree` follows without distinct ids: `processing_by` and
`processing_at` are set exactly while a row is PROCESSING, and `processed_at` exactly
while it is FAILED, so neither `RecoverStuck` nor `ArchiveExhausted` passes over a
row for a missing timestamp. `NothingLost` needs no distinct ids either: whoever
passes the guard, the row moves once. `Implementation` shows that `ProcessBatch` implements
`Lifecycle`. There is one lemma per edge of the abstract life, which says what
change of a row is that step, and one step per action. `ClaimInv` is needed where
the abstract step has a guard the code does not test in the same words: a claim is
within the budget, and what is archived as `PROCESSED` has succeeded.

*DeadLetterQueueProofs.* All steps of `ProcessBatch` keep `ClaimInv`, and so does
`RetryFailedUpdate`, although it may hit a row in any status: it resets row and
history together, and no task holds a row that is PENDING. Hence
`OwnerSurvivesRetryFailed` and `BudgetSurvivesRetryFailed`, and with the step lemmas
of `ProcessBatchProofs` the action properties as well:
`StaleHarmlessWithRetryFailed`, `OnlyHandledWithRetryFailed` and
`NeverGivesUpEarlyWithRetryFailed`. `NothingLostByRetryFailed` needs no distinct ids.
`RetryAllFailedDrains` rests on `CallInv`: the rows a call's cutoff admits are FAILED, and a statement that
picked fewer rows than its limit has picked all of them.

*InboxProofs.* `EntryInv` is proved for any mixture of receivers. The open
transaction that holds a dedup key is the only one, and no committed entry exists
beside it (`KeyInv`); what was reported has been stored, or the message is torn
(`ReportInv`, `StoreInv`); insertions, and the calls without a transaction that
still have theirs to make, do not exceed the entries released and present
(`PaidFor`). `NothingLostUnlessTorn` and `StoredOnce` follow without a hypothesis,
`AckedIsStored` for transactional receivers; `auto_tx` shows that it needs that.

*CleanupProofs.* `TypeCorrect`, and: a `ctid` in use is never given to another row, so a picked row is
gone or still expired when it is deleted (`JobInv`): `PurgesExpiredOnly`. A statement
that picked fewer rows than its limit has picked all that were due:
`PurgeDrains`.

*EncryptionProofs.* `RoundTrip`: a registry reads what it writes. `GivenIsReadable`: if
`New` accepted the options, it reads what was sealed with any cipher among them,
since no other has the same version. `NodeReadsItsOwn` follows. `CarefulRotation` is not
inductive, since a node may write next with a cipher that no row has yet:
`RotationInv` adds that each running node reads what each running node writes.
`RotationKeepsRowsReadable` follows.

*RunnerProofs.* `RunnerInv`: `r.done` and `r.cancel` belong to the same loop, every loop
past its first step has captured its own channel, a loop's channel is closed
exactly when it has ended, and a call of `Stop` that has cancelled a loop waits for
the channel of that loop (`CallInv`). `LoopsSafe`, `CloseNeverPanics` and
`StopIsAnswered` follow for `Prompt = FALSE`; `runner_prompt` shows that they need
that. `StopIsAnswered` is the safety half of `StopReturns`: what a `Stop` waits for is
closed already, or a live loop whose context is done will close it. With
`Prompt = FALSE` no loop captures nil, so `CloseNeverPanics` is about the other panic,
a channel closed twice.

*ListingProofs.* `ListingComplete` says nothing of a listing under way. `PagingInv`
does: as long as no row that the client had passed has left the list, every row
with a fixed place that comes before `offset` has been seen. An insertion can only
raise the rank of such a row, a row that leaves from behind `offset` sets `shifted`,
and a page shows the rows with the ranks from `offset` on. A page shorter than
`Limit` is the end of the list, hence `ListingMissesNothing`. `ListingReadsOnly`:
listings change no row, so what is proved of `Encryption` holds beside them.

Only model-checked: the liveness properties `Settled`, `RetryReturns`,
`EventuallyAcked`, `StopReturns`, `StuckRecovered` and `ExpiredPurged` (fairness and
`ENABLED` are outside the proof system), and the arithmetic of `Backoff`, which
multiplies by powers of two that the provers cannot expand.

## 6. Not modelled

- Payload, headers and the text of errors; AES-GCM itself, of which `Encryption`
  assumes that a secret opens only what it has sealed.
- The DDL and the migration, except for the keys and columns that statements read.
- `GetMetrics`, `FindByMessageID` and `IsDuplicate`: each is one read of one
  statement. The topic and partition filters, which only make a result smaller.
- Logging, metrics, errors and the interfaces to the driver: they decide nothing.
- The registration of handlers while a batch runs: `ProcessBatch` copies the map
  under the lock. Which worker has which handler is fixed for a behaviour.
- Call and handler timeouts as clocks: a call that times out is one whose context
  is done or whose handler returns an error, at any time.
- Differences between the clocks of the application and the database, except in
  `Listing`, where the order of rows is not the order of insertion. They matter
  for `next_retry_at`, where any delay of the set is allowed, and for the cutoff of
  `RetryAllFailed`, which the model takes from the database's clock.
- Workers that share an id. The ownership guard cannot tell them apart, so the
  properties about ownership are stated for distinct ids; `NothingLost` and
  `ColumnsAgree` are proved without that.
- The result of `Receive` when the row of an earlier life is still in `hot`: `isNew` is
  true and nothing is inserted. The interleaving is in `Inbox`, but its properties
  count insertions and do not look at what was reported.
- `Inbox` and `ProcessBatch` are not composed: `Drain` stands for all that
  `ProcessBatch` may do to a row, since `Receive` reads nothing of it but its
  presence.
