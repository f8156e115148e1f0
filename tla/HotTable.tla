------------------------------ MODULE HotTable ------------------------------
(***************************************************************************)
(* One row of the hot table (message_<name>_hot) and the effect on it of   *)
(* every SQL statement of the library, as operators from row to row.       *)
(*                                                                         *)
(* Payload, headers, topic, source and last_error are left out: no guard   *)
(* of the code reads them back.  A timestamp is kept only as its distance  *)
(* from the database's now(), because that is all a statement compares:    *)
(*   next_retry_at   ticks until it is reached (0: reached)                *)
(*   processing_at   ticks since the claim                                 *)
(*   processed_at    ticks since the row became FAILED                     *)
(* and the last two stop counting once past the one threshold they are     *)
(* compared with.  Aged is the passage of one tick.                        *)
(*                                                                         *)
(* NoDefaultMaxRetries, ClaimedUndated, OwnedByAnyone, RecoveredForever    *)
(* and RequeuedDated are faulty variants of the definition that follows    *)
(* each: they show that the properties notice the fault.                   *)
(***************************************************************************)
EXTENDS Integers

CONSTANTS IDs,              \* values of Config.WorkerID
          NULL,             \* SQL NULL
          DefaultMaxRetries,
          ClaimTimeout,
          FailedRetention

ASSUME HotTableAssumption ==
    /\ NULL \notin IDs
    /\ NULL \notin Int
    /\ DefaultMaxRetries \in Nat \ {0}
    /\ ClaimTimeout \in Nat
    /\ FailedRetention \in Nat

Statuses == {"PENDING", "PROCESSING", "RETRY", "FAILED"}

Timestamp == Nat \cup {NULL}

Row == [status        : Statuses,
        retry_count   : Nat,
        max_retry     : Nat \ {0},
        next_retry_at : Timestamp,
        processing_by : IDs \cup {NULL},
        processing_at : Timestamp,
        processed_at  : Timestamp]

NoRow == [status |-> "ABSENT"]

-----------------------------------------------------------------------------
(* Insert.                                                                 *)

NoDefaultMaxRetries(n) == n

EffectiveMaxRetries(n) == IF n <= 0 THEN DefaultMaxRetries ELSE n

NewRow(n) == [status        |-> "PENDING",
              retry_count   |-> 0,
              max_retry     |-> EffectiveMaxRetries(n),
              next_retry_at |-> NULL,
              processing_by |-> NULL,
              processing_at |-> NULL,
              processed_at  |-> NULL]

-----------------------------------------------------------------------------
(* Claim, and the writes that end a claim.                                 *)

Claimable(r) ==
    /\ r.status \in {"PENDING", "RETRY"}
    /\ r.next_retry_at \in {NULL, 0}

ClaimedUndated(r, id) == [r EXCEPT !.status = "PROCESSING", !.processing_by = id]

Claimed(r, id) ==
    [r EXCEPT !.status = "PROCESSING", !.processing_by = id, !.processing_at = 0]

OwnedByAnyone(r, id) == r.status = "PROCESSING"

OwnedBy(r, id) == r.status = "PROCESSING" /\ r.processing_by = id

MarkedRetry(r, n, delay) ==
    [r EXCEPT !.status        = "RETRY",
              !.retry_count   = n,
              !.next_retry_at = delay,
              !.processing_by = NULL,
              !.processing_at = NULL]

MarkedFailed(r) ==
    [r EXCEPT !.status        = "FAILED",
              !.processed_at  = 0,
              !.processing_by = NULL,
              !.processing_at = NULL]

DeadLettered(r) == MarkedFailed(r)

-----------------------------------------------------------------------------
(* Cleanup and admin statements.                                           *)

After(t, limit) == t # NULL /\ t > limit

Stuck(r) == r.status = "PROCESSING" /\ After(r.processing_at, ClaimTimeout)

RecoveredForever(r) ==
    [r EXCEPT !.retry_count   = @ + 1,
              !.status        = "RETRY",
              !.next_retry_at = 0,
              !.processing_by = NULL,
              !.processing_at = NULL]

Recovered(r) ==
    LET spent == r.retry_count + 1 > r.max_retry
    IN [r EXCEPT !.retry_count   = @ + 1,
                 !.status        = IF spent THEN "FAILED" ELSE "RETRY",
                 !.processed_at  = IF spent THEN 0 ELSE @,
                 !.next_retry_at = IF spent THEN @ ELSE 0,
                 !.processing_by = NULL,
                 !.processing_at = NULL]

RequeuedDated(r) ==
    [r EXCEPT !.status = "PENDING", !.retry_count = 0, !.next_retry_at = NULL]

Requeued(r) ==
    [r EXCEPT !.status        = "PENDING",
              !.retry_count   = 0,
              !.next_retry_at = NULL,
              !.processed_at  = NULL]

Exhausted(r) == r.status = "FAILED" /\ After(r.processed_at, FailedRetention)

-----------------------------------------------------------------------------
(* Time.                                                                   *)

Older(t, limit) == IF t # NULL /\ t <= limit THEN t + 1 ELSE t

Nearer(t) == IF t # NULL /\ t > 0 THEN t - 1 ELSE t

Aged(r) ==
    [r EXCEPT !.next_retry_at = Nearer(@),
              !.processing_at = Older(@, ClaimTimeout),
              !.processed_at  = Older(@, FailedRetention)]
=============================================================================
