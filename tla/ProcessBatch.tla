---------------------------- MODULE ProcessBatch ----------------------------
(***************************************************************************)
(* The processing core: workers that call Messaging.ProcessBatch on one    *)
(* hot table while producers insert, the cleanup job recovers and archives *)
(* and an operator uses the dead-letter tools.                             *)
(*                                                                         *)
(* Upserted, SpentEarly, doneUnguarded and RetryOneUnguarded are faulty    *)
(* variants of the definition that follows each.                           *)
(*                                                                         *)
(* A worker is one sequential caller of ProcessBatch (a Runner loop, or a  *)
(* cron job) with its own Messaging instance; its configured WorkerID is   *)
(* WorkerID[w].  Every SQL statement that guards its own WHERE clause, and *)
(* every transaction that first locks the rows it then moves, is one step. *)
(* Between two steps of a task anything else may happen.                   *)
(***************************************************************************)
EXTENDS HotTable, FiniteSets

CONSTANTS Messages,      \* message ids
          Workers,
          WorkerID,      \* Config.WorkerID of each worker
          BatchSize,     \* the size argument of ProcessBatch
          Concurrency,   \* Config.Concurrency
          Requested,     \* values of Message.MaxRetries that producers pass
          Delays,        \* what Backoff.Next may return, in ticks
          Routes,        \* Routes[w]: messages whose topic has a handler at w
          Readable,      \* Readable[w]: messages that w can decrypt whichever
                         \* node encrypted their row
          Healthy,       \* workers that keep polling and whose handlers return
          MaxInserts     \* bound: insertions of one message id

ASSUME ProcessBatchAssumption ==
    /\ WorkerID \in [Workers -> IDs]
    /\ BatchSize \in Nat \ {0}
    /\ Concurrency \in Nat \ {0}
    /\ Requested \subseteq Int
    /\ Delays \subseteq Nat
    /\ Routes \in [Workers -> SUBSET Messages]
    /\ Readable \in [Workers -> SUBSET Messages]
    /\ Healthy \subseteq Workers
    /\ MaxInserts \in Nat

VARIABLES hot,        \* message id -> row, NoRow when there is none
          archive,    \* message id -> number of archive rows per final_status
          task,       \* worker -> message id -> its goroutine, Idle when none
          cancelled,  \* worker -> the ctx of its current call is done
          claimant,   \* history: the worker of the latest claim of a row
          attempts,   \* history: claims of a row since it was last queued
          handled,    \* history: its handler returned nil for a current claim
          born        \* history: rows inserted under a message id

vars == <<hot, archive, task, cancelled, claimant, attempts, handled, born>>

ArchiveCounts == [PROCESSED : Nat, FAILED : Nat]

(* The Message value a goroutine works on is the snapshot RETURNING gave.  *)
(*   claimed  not yet past the semaphore    running  inside handleOne      *)
(*   ok, err  the handler has returned, its result is not yet written      *)
Tasks == [pc          : {"idle", "claimed", "running", "ok", "err"},
          retry_count : Nat,
          max_retry   : Nat]

Idle == [pc |-> "idle", retry_count |-> 0, max_retry |-> 0]

Present(m) == hot[m] # NoRow

Active(w, m) == task[w][m].pc # "idle"

InBatch(w) == \E m \in Messages : Active(w, m)

(* w is working on the latest claim of m and nothing has taken it away.    *)
Holds(w, m) == Active(w, m) /\ hot[m].status = "PROCESSING" /\ claimant[m] = w

TypeOK ==
    /\ hot \in [Messages -> Row \cup {NoRow}]
    /\ archive \in [Messages -> ArchiveCounts]
    /\ task \in [Workers -> [Messages -> Tasks]]
    /\ cancelled \in [Workers -> BOOLEAN]
    /\ claimant \in [Messages -> Workers \cup {NULL}]
    /\ attempts \in [Messages -> Nat]
    /\ handled \in [Messages -> BOOLEAN]
    /\ born \in [Messages -> Nat]

Init ==
    /\ hot = [m \in Messages |-> NoRow]
    /\ archive = [m \in Messages |-> [PROCESSED |-> 0, FAILED |-> 0]]
    /\ task = [w \in Workers |-> [m \in Messages |-> Idle]]
    /\ cancelled = [w \in Workers |-> FALSE]
    /\ claimant = [m \in Messages |-> NULL]
    /\ attempts = [m \in Messages |-> 0]
    /\ handled = [m \in Messages |-> FALSE]
    /\ born = [m \in Messages |-> 0]

-----------------------------------------------------------------------------
(* Producers.  ON CONFLICT DO NOTHING keeps an existing row as it is.      *)

Upserted(S) == S

Inserted(S) == {m \in S : ~Present(m)}

insertHotBatch(S, max) ==
    LET fresh == Inserted(S)
    IN /\ \A m \in fresh : born[m] < MaxInserts
       /\ hot' = [m \in Messages |-> IF m \in fresh THEN NewRow(max[m]) ELSE hot[m]]
       /\ attempts' = [m \in Messages |-> IF m \in fresh THEN 0 ELSE attempts[m]]
       /\ handled' = [m \in Messages |-> m \notin fresh /\ handled[m]]
       /\ born' = [m \in Messages |-> IF m \in fresh THEN born[m] + 1 ELSE born[m]]
       /\ UNCHANGED <<archive, task, cancelled, claimant>>

Enqueue(m) == \E n \in Requested : insertHotBatch({m}, [x \in {m} |-> n])

EnqueueBatch(S) == \E max \in [S -> Requested] : insertHotBatch(S, max)

-----------------------------------------------------------------------------
(* ProcessBatch.                                                           *)

(* The rows another transaction has locked are skipped, so the claimed set *)
(* is any part of the eligible rows that fits the batch.  Eligible rows    *)
(* are dispatched one by one in the unspecified order of RETURNING; each   *)
(* iteration of that loop has one effect, so it needs no state of its own. *)
Claim(w, S) ==
    /\ ~InBatch(w)
    /\ S # {}
    /\ Cardinality(S) <= BatchSize
    /\ \A m \in S : Claimable(hot[m])
    /\ hot' = [m \in Messages |->
                 IF m \in S THEN Claimed(hot[m], WorkerID[w]) ELSE hot[m]]
    /\ task' = [task EXCEPT ![w] = [m \in Messages |->
                 IF m \in S THEN [pc          |-> "claimed",
                                  retry_count |-> hot[m].retry_count,
                                  max_retry   |-> hot[m].max_retry]
                            ELSE Idle]]
    /\ cancelled' = [cancelled EXCEPT ![w] = FALSE]
    /\ claimant' = [m \in Messages |-> IF m \in S THEN w ELSE claimant[m]]
    /\ attempts' = [m \in Messages |-> IF m \in S THEN attempts[m] + 1 ELSE attempts[m]]
    /\ UNCHANGED <<archive, handled, born>>

ToPc(w, m, pc) == task' = [task EXCEPT ![w][m].pc = pc]

EndTask(w, m) == task' = [task EXCEPT ![w][m] = Idle]

(* The goroutines inside handleOne hold a slot of sem.                     *)
SlotFree(w) ==
    Cardinality({m \in Messages : task[w][m].pc \in {"running", "ok", "err"}})
        < Concurrency

Start(w, m) ==
    /\ task[w][m].pc = "claimed"
    /\ m \in Routes[w]
    /\ SlotFree(w)
    /\ ToPc(w, m, "running")
    /\ UNCHANGED <<hot, archive, cancelled, claimant, attempts, handled, born>>

(* select took <-ctx.Done(): the row stays PROCESSING.                     *)
Skip(w, m) ==
    /\ task[w][m].pc = "claimed"
    /\ m \in Routes[w]
    /\ cancelled[w]
    /\ EndTask(w, m)
    /\ UNCHANGED <<hot, archive, cancelled, claimant, attempts, handled, born>>

(* handleOne up to the handler's return, when hydrate finds no error.      *)
HandlerReturn(w, m) ==
    /\ task[w][m].pc = "running"
    /\ \/ /\ ToPc(w, m, "ok")
          /\ handled' = [handled EXCEPT ![m] = @ \/ Holds(w, m)]
       \/ /\ ToPc(w, m, "err")
          /\ UNCHANGED handled
    /\ UNCHANGED <<hot, archive, cancelled, claimant, attempts, born>>

-----------------------------------------------------------------------------
(* The writes that end a task.  database/sql refuses a call whose context  *)
(* is done, and any write may fail: WriteFails.                            *)

Unhandled(w, m) == task[w][m].pc = "claimed" /\ m \notin Routes[w]

(* hydrate fails: w may lack the cipher of the row.                        *)
Undecryptable(w, m) == task[w][m].pc = "running" /\ m \notin Readable[w]

SpentEarly(t) == t.retry_count + 1 >= t.max_retry

Spent(t) == t.retry_count + 1 > t.max_retry

SetRow(m, r) == hot' = [hot EXCEPT ![m] = r]

(* The processing path's use of deadLetter; an absent row stays absent.    *)
WorkerDeadLetter(w, m) ==
    /\ Unhandled(w, m) \/ Undecryptable(w, m)
    /\ ~cancelled[w]
    /\ SetRow(m, IF Present(m) THEN DeadLettered(hot[m]) ELSE NoRow)
    /\ EndTask(w, m)
    /\ UNCHANGED <<archive, cancelled, claimant, attempts, handled, born>>

doneUnguarded(w, m) ==
    /\ task[w][m].pc = "ok"
    /\ ~cancelled[w]
    /\ archive' = [archive EXCEPT ![m].PROCESSED = @ + 1]
    /\ SetRow(m, NoRow)
    /\ EndTask(w, m)
    /\ UNCHANGED <<cancelled, claimant, attempts, handled, born>>

markDoneAndArchive(w, m) ==
    /\ task[w][m].pc = "ok"
    /\ ~cancelled[w]
    /\ IF OwnedBy(hot[m], WorkerID[w])
       THEN /\ archive' = [archive EXCEPT ![m].PROCESSED = @ + 1]
            /\ SetRow(m, NoRow)
       ELSE UNCHANGED <<archive, hot>>
    /\ EndTask(w, m)
    /\ UNCHANGED <<cancelled, claimant, attempts, handled, born>>

markRetry(w, m) ==
    /\ task[w][m].pc = "err"
    /\ ~Spent(task[w][m])
    /\ ~cancelled[w]
    /\ \E d \in Delays :
         SetRow(m, IF OwnedBy(hot[m], WorkerID[w])
                   THEN MarkedRetry(hot[m], task[w][m].retry_count + 1, d)
                   ELSE hot[m])
    /\ EndTask(w, m)
    /\ UNCHANGED <<archive, cancelled, claimant, attempts, handled, born>>

markFailed(w, m) ==
    /\ task[w][m].pc = "err"
    /\ Spent(task[w][m])
    /\ ~cancelled[w]
    /\ SetRow(m, IF OwnedBy(hot[m], WorkerID[w]) THEN MarkedFailed(hot[m]) ELSE hot[m])
    /\ EndTask(w, m)
    /\ UNCHANGED <<archive, cancelled, claimant, attempts, handled, born>>

AtWrite(w, m) ==
    \/ Unhandled(w, m)
    \/ Undecryptable(w, m)
    \/ task[w][m].pc \in {"ok", "err"}

WriteFails(w, m) ==
    /\ AtWrite(w, m)
    /\ EndTask(w, m)
    /\ UNCHANGED <<hot, archive, cancelled, claimant, attempts, handled, born>>

-----------------------------------------------------------------------------
(* What happens to a worker.                                               *)

Cancel(w) ==
    /\ InBatch(w)
    /\ ~cancelled[w]
    /\ cancelled' = [cancelled EXCEPT ![w] = TRUE]
    /\ UNCHANGED <<hot, archive, task, claimant, attempts, handled, born>>

(* The process dies, or claimBatch fails reading the rows it has claimed.  *)
Crash(w) ==
    /\ InBatch(w)
    /\ task' = [task EXCEPT ![w] = [m \in Messages |-> Idle]]
    /\ UNCHANGED <<hot, archive, cancelled, claimant, attempts, handled, born>>

-----------------------------------------------------------------------------
(* Cleanup and admin.                                                      *)

RecoverStuck ==
    /\ \E m \in Messages : Stuck(hot[m])
    /\ hot' = [m \in Messages |-> IF Stuck(hot[m]) THEN Recovered(hot[m]) ELSE hot[m]]
    /\ UNCHANGED <<archive, task, cancelled, claimant, attempts, handled, born>>

(* One batch: any part of the exhausted rows.                              *)
ArchiveExhausted(S) ==
    /\ S # {}
    /\ \A m \in S : Exhausted(hot[m])
    /\ archive' = [m \in Messages |->
                     IF m \in S THEN [archive[m] EXCEPT !.FAILED = @ + 1] ELSE archive[m]]
    /\ hot' = [m \in Messages |-> IF m \in S THEN NoRow ELSE hot[m]]
    /\ UNCHANGED <<task, cancelled, claimant, attempts, handled, born>>

DeadLetter(m) ==
    /\ Present(m)
    /\ SetRow(m, DeadLettered(hot[m]))
    /\ UNCHANGED <<archive, task, cancelled, claimant, attempts, handled, born>>

RetryOneUnguarded(m) ==
    /\ Present(m)
    /\ SetRow(m, Requeued(hot[m]))
    /\ attempts' = [attempts EXCEPT ![m] = 0]
    /\ handled' = [handled EXCEPT ![m] = FALSE]
    /\ UNCHANGED <<archive, task, cancelled, claimant, born>>

RetryOne(m) ==
    /\ hot[m].status = "FAILED"
    /\ SetRow(m, Requeued(hot[m]))
    /\ attempts' = [attempts EXCEPT ![m] = 0]
    /\ handled' = [handled EXCEPT ![m] = FALSE]
    /\ UNCHANGED <<archive, task, cancelled, claimant, born>>

Tick ==
    /\ hot' = [m \in Messages |-> IF Present(m) THEN Aged(hot[m]) ELSE NoRow]
    /\ UNCHANGED <<archive, task, cancelled, claimant, attempts, handled, born>>

-----------------------------------------------------------------------------

TaskStep(w, m) ==
    \/ Start(w, m)
    \/ Skip(w, m)
    \/ HandlerReturn(w, m)
    \/ WorkerDeadLetter(w, m)
    \/ markDoneAndArchive(w, m)
    \/ markRetry(w, m)
    \/ markFailed(w, m)
    \/ WriteFails(w, m)

Next ==
    \/ \E m \in Messages : Enqueue(m) \/ DeadLetter(m) \/ RetryOne(m)
    \/ \E S \in SUBSET Messages : EnqueueBatch(S) \/ ArchiveExhausted(S)
    \/ \E w \in Workers : Cancel(w) \/ Crash(w)
    \/ \E w \in Workers, S \in SUBSET Messages : Claim(w, S)
    \/ \E w \in Workers, m \in Messages : TaskStep(w, m)
    \/ RecoverStuck
    \/ Tick

Spec == Init /\ [][Next]_vars

(* Time passes and the cleanup job runs (RunAll on a schedule).  A healthy *)
(* worker's goroutines advance, its handlers return, and it polls forever  *)
(* (the Runner loop); claims take the oldest rows first, so an eligible    *)
(* row is not passed over for ever: strong fairness per message, because a *)
(* worker is free only between batches.  Nothing is assumed of the other   *)
(* workers, which may hang or die on every message, nor of any write,      *)
(* which may fail.                                                         *)
Fairness ==
    /\ WF_vars(Tick)
    /\ WF_vars(RecoverStuck)
    /\ \A w \in Healthy, m \in Messages : WF_vars(TaskStep(w, m))
    /\ \A m \in Messages :
         SF_vars(\E w \in Healthy, S \in SUBSET Messages : m \in S /\ Claim(w, S))

FairSpec == Spec /\ Fairness

-----------------------------------------------------------------------------
(* Properties.                                                             *)

(* Different workers have different Config.WorkerID values, as the quick   *)
(* start does with the hostname.                                           *)
UniqueWorkerIDs == \A v, w \in Workers : WorkerID[v] = WorkerID[w] => v = w

(* The ownership test of the guarded writes (processing_by = me AND status *)
(* = 'PROCESSING') succeeds for exactly the task of the latest claim, and  *)
(* then the snapshot it computes the next retry_count from still agrees    *)
(* with the row, whatever recovery, requeueing and re-insertion happened   *)
(* since the claim.                                                        *)
OwnerHasLatestClaim ==
    \A w \in Workers, m \in Messages :
        Active(w, m) /\ OwnedBy(hot[m], WorkerID[w]) =>
            /\ claimant[m] = w
            /\ task[w][m].retry_count = hot[m].retry_count
            /\ task[w][m].max_retry = hot[m].max_retry

(* retry_count counts the claims since the message was queued, over        *)
(* handler errors, crashes and recoveries alike, and a message is never    *)
(* claimed more than max_retry + 1 times: the claim and recover loop of    *)
(* handleRetry and RecoverStuck is bounded.                                *)
RetryBudget ==
    \A m \in Messages : Present(m) =>
        /\ attempts[m] <= hot[m].max_retry + 1
        /\ hot[m].status \in {"PENDING", "RETRY"} => hot[m].retry_count = attempts[m]
        /\ hot[m].status = "PROCESSING" => hot[m].retry_count + 1 = attempts[m]

(* The strengthening that makes the two properties above inductive.  A row *)
(* accounts for its claims in every status, and a PROCESSING row names its *)
(* latest claimant.                                                        *)
RowInv(m) ==
    /\ hot[m].status \in {"PENDING", "RETRY"} =>
         hot[m].retry_count = attempts[m] /\ attempts[m] <= hot[m].max_retry
    /\ hot[m].status = "PROCESSING" =>
         /\ hot[m].retry_count + 1 = attempts[m]
         /\ hot[m].retry_count <= hot[m].max_retry
         /\ claimant[m] \in Workers
         /\ hot[m].processing_by = WorkerID[claimant[m]]
    /\ hot[m].status = "FAILED" => attempts[m] <= hot[m].max_retry + 1

(* The task that holds the latest claim has the row's own counters, and    *)
(* its success, once there, is recorded.                                   *)
TaskInv(w, m) ==
    Holds(w, m) =>
        /\ task[w][m].retry_count = hot[m].retry_count
        /\ task[w][m].max_retry = hot[m].max_retry
        /\ task[w][m].pc = "ok" => handled[m]

ClaimInv ==
    /\ \A m \in Messages : RowInv(m)
    /\ \A w \in Workers, m \in Messages : TaskInv(w, m)

(* Every statement finds its rows by status and by a timestamp or owner    *)
(* that SQL never matches when it is NULL.  The two agree in every row,    *)
(* whichever of the workers, RecoverStuck, DeadLetter and RetryOne wrote   *)
(* it last: a claimed row is owned and dated, so RecoverStuck will find    *)
(* it; a FAILED row is dated, so ArchiveExhausted will; and no other row   *)
(* carries an owner or a date left over from an earlier life.              *)
Consistent(r) ==
    /\ r.processing_by # NULL <=> r.status = "PROCESSING"
    /\ r.processing_at # NULL <=> r.status = "PROCESSING"
    /\ r.processed_at # NULL <=> r.status = "FAILED"

ColumnsFollowStatus == \A m \in Messages : Present(m) => Consistent(hot[m])

(* No insertion is lost or duplicated: every row ever inserted is either   *)
(* still in hot or is exactly one archive row (markDoneAndArchive and      *)
(* ArchiveExhausted move, and neither moves what the other moved).         *)
Conserved(m) ==
    born[m] = archive[m].PROCESSED + archive[m].FAILED + (IF Present(m) THEN 1 ELSE 0)

Conservation == \A m \in Messages : Conserved(m)

(* A worker whose claim was recovered, dead-lettered, requeued or archived *)
(* under it changes nothing when its handler's result is written.          *)
StaleResultIgnored(w, m) ==
    /\ task[w][m].pc \in {"ok", "err"}
    /\ task'[w][m].pc = "idle"
    /\ ~Holds(w, m)
    => hot'[m] = hot[m] /\ archive'[m] = archive[m]

StaleWorkerHarmless ==
    [][\A w \in Workers, m \in Messages : StaleResultIgnored(w, m)]_vars

(* At least once: a message is archived as PROCESSED only if, since it was *)
(* last queued, a handler returned nil for it under the claim then held.   *)
ArchivedWhenHandled(m) ==
    archive'[m].PROCESSED # archive[m].PROCESSED => handled[m]

ProcessedWasHandled == [][\A m \in Messages : ArchivedWhenHandled(m)]_vars

(* The processing path gives a message up (handleRetry's markFailed, or    *)
(* RecoverStuck) only at the claim that spends its whole budget, never     *)
(* earlier; only a dead letter does so before.                             *)
GivesUp(m) ==
    /\ hot[m].status = "PROCESSING"
    /\ hot'[m].status = "FAILED"
    /\ \/ hot'[m].retry_count # hot[m].retry_count
       \/ \E w \in Workers : task[w][m].pc = "err" /\ task'[w][m] = Idle

GivesUpOnlyWhenSpent ==
    [][\A m \in Messages : GivesUp(m) => attempts[m] = hot[m].max_retry + 1]_vars

(* Each message follows Lifecycle: at most budget + 1 attempts per time it *)
(* is queued, PROCESSED only out of a successful attempt, back from the    *)
(* dead-letter queue only with a fresh budget, and one archive row for     *)
(* each time it leaves.  Workers, owners, tasks and time are hidden.       *)
PhaseOf == [ABSENT     |-> "absent",
            PENDING    |-> "queued",
            RETRY      |-> "queued",
            PROCESSING |-> "working",
            FAILED     |-> "dead"]

LifeOf(m) ==
    [phase     |-> PhaseOf[hot[m].status],
     tries     |-> IF Present(m) THEN attempts[m] ELSE 0,
     budget    |-> IF Present(m) THEN hot[m].max_retry ELSE 0,
     succeeded |-> IF Present(m) THEN handled[m] ELSE FALSE,
     processed |-> archive[m].PROCESSED,
     failed    |-> archive[m].FAILED]

lifeBar == [m \in Messages |-> LifeOf(m)]

LC == INSTANCE Lifecycle WITH life <- lifeBar

ImplementsLifecycle == LC!Spec

(* Every message in hot is eventually archived or in the dead-letter       *)
(* queue: one healthy worker and the cleanup job are enough, whatever the  *)
(* other workers do with the rows they claim.                              *)
Settled ==
    \A m \in Messages : Present(m) ~> (~Present(m) \/ hot[m].status = "FAILED")

(* The documented reach of the ownership guard: when RecoverStuck has      *)
(* taken the row from w (its retry_count is past w's snapshot) and another *)
(* worker has claimed it, the end of w's task leaves row and archive as    *)
(* they are.                                                               *)
NewOwnerUndisturbed ==
    [][\A w \in Workers, m \in Messages :
          /\ Active(w, m)
          /\ task'[w][m].pc = "idle"
          /\ hot[m].status = "PROCESSING"
          /\ claimant[m] # w
          /\ hot[m].retry_count > task[w][m].retry_count
          => hot'[m] = hot[m] /\ archive'[m] = archive[m]]_vars
=============================================================================
