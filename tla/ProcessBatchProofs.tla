------------------------- MODULE ProcessBatchProofs -------------------------
(***************************************************************************)
(* Proofs about ProcessBatch for every set of messages and workers and     *)
(* every value of the configuration.                                       *)
(***************************************************************************)
EXTENDS ProcessBatch, TLAPS

-----------------------------------------------------------------------------
(* What the statements of HotTable do to a row.                            *)

(* A row is told from its absence by its status.                           *)
LEMMA RowOrNone ==
    /\ NoRow.status = "ABSENT"
    /\ \A r \in Row : r # NoRow /\ r.status \in Statuses /\ r.status # "ABSENT"
BY DEF NoRow, Row, Statuses

(* insertHot: a fresh row starts PENDING with no retries counted and a     *)
(* positive budget, whatever MaxRetries the producer passed.               *)
LEMMA NewRowFields ==
    ASSUME NEW n \in Int
    PROVE  /\ NewRow(n) \in Row
           /\ NewRow(n).status = "PENDING"
           /\ NewRow(n).retry_count = 0
BY HotTableAssumption DEF NewRow, EffectiveMaxRetries, Row, Statuses, Timestamp

(* claimBatch changes status and owner and keeps the counters.             *)
LEMMA ClaimedFields ==
    ASSUME NEW r \in Row, NEW id \in IDs
    PROVE  /\ Claimed(r, id) \in Row
           /\ Claimed(r, id).status = "PROCESSING"
           /\ Claimed(r, id).processing_by = id
           /\ Claimed(r, id).retry_count = r.retry_count
           /\ Claimed(r, id).max_retry = r.max_retry
BY DEF Claimed, Row, Statuses, Timestamp

(* markRetry installs the retry count it is given.                         *)
LEMMA MarkedRetryFields ==
    ASSUME NEW r \in Row, NEW n \in Nat, NEW d \in Nat
    PROVE  /\ MarkedRetry(r, n, d) \in Row
           /\ MarkedRetry(r, n, d).status = "RETRY"
           /\ MarkedRetry(r, n, d).retry_count = n
           /\ MarkedRetry(r, n, d).max_retry = r.max_retry
BY DEF MarkedRetry, Row, Statuses, Timestamp

(* markFailed, and deadLetter, make the row FAILED and keep the counters.  *)
LEMMA MarkedFailedFields ==
    ASSUME NEW r \in Row
    PROVE  /\ MarkedFailed(r) \in Row
           /\ MarkedFailed(r).status = "FAILED"
           /\ MarkedFailed(r).retry_count = r.retry_count
           /\ MarkedFailed(r).max_retry = r.max_retry
BY DEF MarkedFailed, Row, Statuses, Timestamp

(* RecoverStuck counts one more retry and gives up only past the budget.   *)
LEMMA RecoveredFields ==
    ASSUME NEW r \in Row
    PROVE  /\ Recovered(r) \in Row
           /\ Recovered(r).retry_count = r.retry_count + 1
           /\ Recovered(r).max_retry = r.max_retry
           /\ r.retry_count + 1 > r.max_retry => Recovered(r).status = "FAILED"
           /\ ~(r.retry_count + 1 > r.max_retry) => Recovered(r).status = "RETRY"
<1> USE DEF Recovered, Row, Statuses, Timestamp
<1>1. r.retry_count \in Nat /\ r.retry_count + 1 \in Nat
  OBVIOUS
<1>2. CASE r.retry_count + 1 > r.max_retry
  BY <1>1, <1>2
<1>3. CASE ~(r.retry_count + 1 > r.max_retry)
  BY <1>1, <1>3
<1> QED
  BY <1>2, <1>3

(* RetryOne makes the row PENDING with its whole budget again.             *)
LEMMA RequeuedFields ==
    ASSUME NEW r \in Row
    PROVE  /\ Requeued(r) \in Row
           /\ Requeued(r).status = "PENDING"
           /\ Requeued(r).retry_count = 0
           /\ Requeued(r).max_retry = r.max_retry
BY DEF Requeued, Row, Statuses, Timestamp

(* Time changes timestamps only.                                           *)
LEMMA AgedFields ==
    ASSUME NEW r \in Row
    PROVE  /\ Aged(r) \in Row
           /\ Aged(r).status = r.status
           /\ Aged(r).retry_count = r.retry_count
           /\ Aged(r).max_retry = r.max_retry
           /\ Aged(r).processing_by = r.processing_by
<1>1. \A t \in Timestamp, limit \in Nat : Older(t, limit) \in Timestamp
  BY HotTableAssumption DEF Older, Timestamp
<1>2. \A t \in Timestamp : Nearer(t) \in Timestamp
  BY HotTableAssumption DEF Nearer, Timestamp
<1> QED
  BY <1>1, <1>2, HotTableAssumption DEF Aged, Row

-----------------------------------------------------------------------------
(* Type correctness.                                                       *)

(* Ending, or moving on, one task keeps the tasks well formed.             *)
LEMMA TaskUpdates ==
    ASSUME TypeOK, NEW w \in Workers, NEW m \in Messages
    PROVE  /\ EndTask(w, m) => task' \in [Workers -> [Messages -> Tasks]]
           /\ \A pc \in {"running", "ok", "err"} :
                ToPc(w, m, pc) => task' \in [Workers -> [Messages -> Tasks]]
<1>1. Idle \in Tasks
  BY DEF Idle, Tasks
<1>2. \A pc \in {"running", "ok", "err"} : [task[w][m] EXCEPT !.pc = pc] \in Tasks
  <2>1. task[w][m] \in Tasks
    BY DEF TypeOK
  <2>2. \A t \in Tasks, pc \in {"running", "ok", "err"} : [t EXCEPT !.pc = pc] \in Tasks
    BY DEF Tasks
  <2> QED
    BY <2>1, <2>2
<1>3. ASSUME NEW t \in Tasks
      PROVE  [task EXCEPT ![w][m] = t] \in [Workers -> [Messages -> Tasks]]
  BY DEF TypeOK
<1>4. EndTask(w, m) => task' \in [Workers -> [Messages -> Tasks]]
  BY <1>1, <1>3 DEF EndTask
<1>5. ASSUME NEW pc \in {"running", "ok", "err"}, ToPc(w, m, pc)
      PROVE  task' \in [Workers -> [Messages -> Tasks]]
  <2>1. task' = [task EXCEPT ![w][m] = [task[w][m] EXCEPT !.pc = pc]]
    BY <1>5 DEF ToPc
  <2> QED
    BY <2>1, <1>2, <1>3
<1> QED
  BY <1>4, <1>5

(* Adding one archive row keeps the counts well formed.                    *)
LEMMA OneMoreArchived ==
    \A a \in ArchiveCounts : /\ [a EXCEPT !.PROCESSED = @ + 1] \in ArchiveCounts
                             /\ [a EXCEPT !.FAILED = @ + 1] \in ArchiveCounts
BY DEF ArchiveCounts

(* Writing one row keeps the hot table well formed.                        *)
LEMMA RowUpdates ==
    ASSUME TypeOK, NEW m \in Messages, NEW r \in Row \cup {NoRow}, SetRow(m, r)
    PROVE  hot' \in [Messages -> Row \cup {NoRow}]
BY DEF TypeOK, SetRow

(* Every statement writes only legal rows and tasks.                       *)
LEMMA TypeStep ==
    ASSUME TypeOK, [Next]_vars
    PROVE  TypeOK'
<1> USE ProcessBatchAssumption, HotTableAssumption
<1>1. ASSUME NEW S \in SUBSET Messages, NEW max \in [S -> Requested],
             insertHotBatch(S, max)
      PROVE  TypeOK'
  <2>1. hot' \in [Messages -> Row \cup {NoRow}]
    BY <1>1, NewRowFields DEF insertHotBatch, Inserted, TypeOK
  <2> QED
    BY <1>1, <2>1 DEF insertHotBatch, TypeOK
<1>2. ASSUME NEW w \in Workers, NEW S \in SUBSET Messages, Claim(w, S)
      PROVE  TypeOK'
  <2>1. \A m \in S : hot[m] \in Row
    BY <1>2, RowOrNone DEF Claim, Claimable, TypeOK
  <2>2. hot' \in [Messages -> Row \cup {NoRow}]
    BY <1>2, <2>1, ClaimedFields DEF Claim, TypeOK
  <2>3. task' \in [Workers -> [Messages -> Tasks]]
    BY <1>2, <2>1 DEF Claim, TypeOK, Tasks, Idle, Row
  <2> QED
    BY <1>2, <2>2, <2>3 DEF Claim, TypeOK
<1>3. ASSUME NEW w \in Workers, NEW m \in Messages, TaskStep(w, m)
      PROVE  TypeOK'
  <2>1. CASE Start(w, m)
    BY <2>1, TaskUpdates DEF Start, TypeOK
  <2>2. CASE Skip(w, m)
    BY <2>2, TaskUpdates DEF Skip, TypeOK
  <2>3. CASE HandlerReturn(w, m)
    <3>1. task' \in [Workers -> [Messages -> Tasks]]
      BY <2>3, TaskUpdates DEF HandlerReturn
    <3>2. handled' \in [Messages -> BOOLEAN]
      BY <2>3 DEF HandlerReturn, TypeOK, Holds
    <3> QED
      BY <2>3, <3>1, <3>2 DEF HandlerReturn, TypeOK
  <2>4. CASE WorkerDeadLetter(w, m)
    <3>1. (IF Present(m) THEN DeadLettered(hot[m]) ELSE NoRow) \in Row \cup {NoRow}
      BY MarkedFailedFields DEF TypeOK, DeadLettered, Present
    <3> QED
      BY <2>4, <3>1, TaskUpdates, RowUpdates DEF WorkerDeadLetter, TypeOK
  <2>5. CASE markDoneAndArchive(w, m)
    <3>1. archive' \in [Messages -> ArchiveCounts]
      <4>1. [archive[m] EXCEPT !.PROCESSED = @ + 1] \in ArchiveCounts
        BY OneMoreArchived DEF TypeOK
      <4>2. \/ archive' = archive
            \/ archive' = [archive EXCEPT ![m] = [archive[m] EXCEPT !.PROCESSED = @ + 1]]
        BY <2>5 DEF markDoneAndArchive
      <4> QED
        BY <4>1, <4>2 DEF TypeOK
    <3>2. hot' \in [Messages -> Row \cup {NoRow}]
      BY <2>5, RowUpdates DEF markDoneAndArchive, TypeOK
    <3> QED
      BY <2>5, <3>1, <3>2, TaskUpdates DEF markDoneAndArchive, TypeOK
  <2>6. CASE markRetry(w, m)
    <3>1. PICK d \in Delays :
             SetRow(m, IF OwnedBy(hot[m], WorkerID[w])
                       THEN MarkedRetry(hot[m], task[w][m].retry_count + 1, d)
                       ELSE hot[m])
      BY <2>6 DEF markRetry
    <3>2. hot[m] \in Row \cup {NoRow} /\ task[w][m].retry_count + 1 \in Nat
      BY DEF TypeOK, Tasks
    <3>3. OwnedBy(hot[m], WorkerID[w]) => hot[m] \in Row
      BY <3>2, RowOrNone DEF OwnedBy
    <3>4. hot' \in [Messages -> Row \cup {NoRow}]
      BY <3>1, <3>2, <3>3, MarkedRetryFields, RowUpdates
    <3> QED
      BY <2>6, <3>4, TaskUpdates DEF markRetry, TypeOK
  <2>7. CASE markFailed(w, m)
    <3>1. hot[m] \in Row \cup {NoRow}
      BY DEF TypeOK
    <3>2. OwnedBy(hot[m], WorkerID[w]) => hot[m] \in Row
      BY <3>1, RowOrNone DEF OwnedBy
    <3>3. hot' \in [Messages -> Row \cup {NoRow}]
      BY <2>7, <3>1, <3>2, MarkedFailedFields, RowUpdates DEF markFailed
    <3> QED
      BY <2>7, <3>3, TaskUpdates DEF markFailed, TypeOK
  <2>8. CASE WriteFails(w, m)
    BY <2>8, TaskUpdates DEF WriteFails, TypeOK
  <2> QED
    BY <1>3, <2>1, <2>2, <2>3, <2>4, <2>5, <2>6, <2>7, <2>8 DEF TaskStep
<1>4. ASSUME NEW w \in Workers, Cancel(w) \/ Crash(w)
      PROVE  TypeOK'
  <2>1. [m \in Messages |-> Idle] \in [Messages -> Tasks]
    BY DEF Idle, Tasks
  <2>2. CASE Cancel(w)
    BY <2>2 DEF Cancel, TypeOK
  <2>3. CASE Crash(w)
    BY <2>1, <2>3 DEF Crash, TypeOK
  <2> QED
    BY <1>4, <2>2, <2>3
<1>5. CASE RecoverStuck
  <2>1. \A m \in Messages : Stuck(hot[m]) => hot[m] \in Row
    BY RowOrNone DEF TypeOK, Stuck
  <2> QED
    BY <1>5, <2>1, RecoveredFields DEF RecoverStuck, TypeOK
<1>6. ASSUME NEW S \in SUBSET Messages, ArchiveExhausted(S)
      PROVE  TypeOK'
  <2>1. archive' \in [Messages -> ArchiveCounts]
    <3>1. \A m \in Messages : [archive[m] EXCEPT !.FAILED = @ + 1] \in ArchiveCounts
      BY OneMoreArchived DEF TypeOK
    <3> QED
      BY <1>6, <3>1 DEF ArchiveExhausted, TypeOK
  <2>2. hot' \in [Messages -> Row \cup {NoRow}]
    BY <1>6 DEF ArchiveExhausted, TypeOK
  <2> QED
    BY <1>6, <2>1, <2>2 DEF ArchiveExhausted, TypeOK
<1>7. ASSUME NEW m \in Messages, DeadLetter(m)
      PROVE  TypeOK'
  BY <1>7, MarkedFailedFields, RowUpdates DEF DeadLetter, DeadLettered, Present, TypeOK
<1>8. ASSUME NEW m \in Messages, RetryOne(m)
      PROVE  TypeOK'
  <2>1. hot[m] \in Row
    BY <1>8, RowOrNone DEF RetryOne, TypeOK
  <2> QED
    BY <1>8, <2>1, RequeuedFields, RowUpdates DEF RetryOne, TypeOK
<1>9. CASE Tick
  BY <1>9, AgedFields DEF Tick, Present, TypeOK
<1>10. CASE UNCHANGED vars
  BY <1>10 DEF vars, TypeOK
<1>11. ASSUME NEW m \in Messages, Enqueue(m)
       PROVE  TypeOK'
  <2>1. PICK n \in Requested : insertHotBatch({m}, [x \in {m} |-> n])
    BY <1>11 DEF Enqueue
  <2> QED
    BY <2>1, <1>1
<1>12. ASSUME NEW S \in SUBSET Messages, EnqueueBatch(S)
       PROVE  TypeOK'
  BY <1>12, <1>1 DEF EnqueueBatch
<1> QED
  BY <1>2, <1>3, <1>4, <1>5, <1>6, <1>7, <1>8, <1>9, <1>10, <1>11, <1>12 DEF Next

(* The hot table, archive and tasks keep their types: every statement      *)
(* writes only legal rows, for every configuration.                        *)
THEOREM TypeCorrect == Spec => []TypeOK
<1> USE ProcessBatchAssumption, HotTableAssumption
<1>1. Init => TypeOK
  BY DEF Init, TypeOK, Tasks, Idle, ArchiveCounts
<1>2. TypeOK /\ [Next]_vars => TypeOK'
  BY TypeStep
<1> QED
  BY <1>1, <1>2, PTL DEF Spec

-----------------------------------------------------------------------------
(* The claim invariant.                                                    *)

(* A step that writes at most one row.                                     *)
LEMMA OtherRows ==
    ASSUME TypeOK, NEW m \in Messages, NEW n \in Messages, NEW r, SetRow(m, r)
    PROVE  hot'[n] = IF n = m THEN r ELSE hot[n]
BY DEF SetRow, TypeOK

(* With distinct WorkerIDs the ownership test of a guarded write picks out *)
(* the task that holds the latest claim.                                   *)
LEMMA OwnerHolds ==
    ASSUME UniqueWorkerIDs, TypeOK, ClaimInv,
           NEW w \in Workers, NEW m \in Messages,
           Active(w, m), OwnedBy(hot[m], WorkerID[w])
    PROVE  /\ Holds(w, m)
           /\ hot[m] \in Row
           /\ task[w][m].retry_count = hot[m].retry_count
           /\ task[w][m].max_retry = hot[m].max_retry
<1>1. claimant[m] \in Workers /\ WorkerID[claimant[m]] = WorkerID[w]
  BY DEF ClaimInv, RowInv, OwnedBy
<1>2. claimant[m] = w
  BY <1>1 DEF UniqueWorkerIDs
<1>3. Holds(w, m)
  BY <1>2 DEF Holds, OwnedBy
<1>4. hot[m] \in Row
  BY RowOrNone DEF OwnedBy, TypeOK
<1> QED
  BY <1>3, <1>4 DEF ClaimInv, TaskInv

(* In every status a row has been claimed within its budget.               *)
LEMMA WithinBudget ==
    ASSUME TypeOK, ClaimInv, NEW m \in Messages, hot[m] \in Row
    PROVE  attempts[m] <= hot[m].max_retry + 1
<1>1. /\ hot[m].status \in {"PENDING", "PROCESSING", "RETRY", "FAILED"}
      /\ hot[m].retry_count \in Nat
      /\ hot[m].max_retry \in Nat
      /\ attempts[m] \in Nat
  BY DEF TypeOK, Row, Statuses
<1>2. RowInv(m)
  BY DEF ClaimInv
<1> QED
  BY <1>1, <1>2 DEF RowInv

(* A row that becomes FAILED with its counters kept satisfies its part.    *)
LEMMA FailedRow ==
    ASSUME TypeOK, ClaimInv, NEW m \in Messages, hot[m] \in Row,
           hot'[m] = MarkedFailed(hot[m]), attempts'[m] = attempts[m]
    PROVE  RowInv(m)' /\ hot'[m].status # "PROCESSING"
<1>1. hot'[m].status = "FAILED" /\ hot'[m].max_retry = hot[m].max_retry
  BY MarkedFailedFields
<1>2. attempts'[m] <= hot'[m].max_retry + 1
  BY <1>1, WithinBudget
<1> QED
  BY <1>1, <1>2 DEF RowInv

(* A step that leaves a row and its history alone keeps the row's part.    *)
LEMMA RowFrame ==
    ASSUME ClaimInv, NEW m \in Messages,
           hot'[m] = hot[m], attempts'[m] = attempts[m], claimant'[m] = claimant[m]
    PROVE  RowInv(m)'
BY DEF ClaimInv, RowInv

(* A step that leaves a row's claim alone, and a task too or ends it or    *)
(* moves it on without success, keeps the task's part.                     *)
LEMMA TaskFrame ==
    ASSUME ClaimInv, NEW w \in Workers, NEW m \in Messages,
           \/ hot'[m].status # "PROCESSING"
           \/ /\ hot'[m].status = hot[m].status
              /\ hot'[m].retry_count = hot[m].retry_count
              /\ hot'[m].max_retry = hot[m].max_retry,
           claimant'[m] = claimant[m],
           hot'[m].status = "PROCESSING" => (handled[m] => handled'[m]),
           \/ task'[w][m] = task[w][m]
           \/ task'[w][m].pc = "idle"
           \/ /\ Active(w, m)
              /\ task'[w][m].pc # "ok"
              /\ task'[w][m].retry_count = task[w][m].retry_count
              /\ task'[w][m].max_retry = task[w][m].max_retry
    PROVE  TaskInv(w, m)'
BY DEF ClaimInv, TaskInv, Holds, Active

(* A step that changes at most one task.                                   *)
LEMMA OtherTasks ==
    ASSUME TypeOK, NEW w \in Workers, NEW m \in Messages,
           NEW v \in Workers, NEW n \in Messages
    PROVE  /\ EndTask(w, m) => \/ task'[v][n] = task[v][n]
                               \/ task'[v][n].pc = "idle"
           /\ \A pc \in {"running", "ok", "err"} : ToPc(w, m, pc) =>
                \/ task'[v][n] = task[v][n]
                \/ /\ v = w /\ n = m
                   /\ task'[v][n].pc = pc
                   /\ task'[v][n].retry_count = task[v][n].retry_count
                   /\ task'[v][n].max_retry = task[v][n].max_retry
<1>1. EndTask(w, m) => \/ task'[v][n] = task[v][n]
                       \/ task'[v][n].pc = "idle"
  <2>1. EndTask(w, m) => task'[v][n] = IF v = w /\ n = m THEN Idle ELSE task[v][n]
    BY DEF EndTask, TypeOK
  <2> QED
    BY <2>1 DEF Idle
<1>2. ASSUME NEW pc \in {"running", "ok", "err"}, ToPc(w, m, pc)
      PROVE  \/ task'[v][n] = task[v][n]
             \/ /\ v = w /\ n = m
                /\ task'[v][n].pc = pc
                /\ task'[v][n].retry_count = task[v][n].retry_count
                /\ task'[v][n].max_retry = task[v][n].max_retry
  <2>1. task'[v][n] = IF v = w /\ n = m THEN [task[v][n] EXCEPT !.pc = pc]
                                         ELSE task[v][n]
    BY <1>2 DEF ToPc, TypeOK
  <2>2. task[v][n] \in Tasks
    BY DEF TypeOK
  <2>3. \A t \in Tasks : /\ [t EXCEPT !.pc = pc].pc = pc
                         /\ [t EXCEPT !.pc = pc].retry_count = t.retry_count
                         /\ [t EXCEPT !.pc = pc].max_retry = t.max_retry
    BY DEF Tasks
  <2> QED
    BY <2>1, <2>2, <2>3
<1> QED
  BY <1>1, <1>2

(* Every action keeps the claim invariant.  Distinct WorkerIDs are needed  *)
(* for markRetry alone: it writes the retry count of its own snapshot.     *)
LEMMA ClaimInvStep ==
    ASSUME UniqueWorkerIDs, TypeOK, ClaimInv, [Next]_vars
    PROVE  ClaimInv'
<1> USE ProcessBatchAssumption, HotTableAssumption
<1> SUFFICES ASSUME NEW n \in Messages
             PROVE  RowInv(n)' /\ \A v \in Workers : TaskInv(v, n)'
  BY DEF ClaimInv
<1> DEFINE Goal == RowInv(n)' /\ \A v \in Workers : TaskInv(v, n)'
<1>1. ASSUME NEW S \in SUBSET Messages, NEW max \in [S -> Requested],
             insertHotBatch(S, max)
      PROVE  Goal
  <2>1. CASE n \in Inserted(S)
    <3>1. n \in S /\ max[n] \in Int
      BY <2>1 DEF Inserted
    <3>2. hot'[n] = NewRow(max[n]) /\ attempts'[n] = 0
      BY <1>1, <2>1 DEF insertHotBatch
    <3>3. /\ hot'[n].status = "PENDING"
          /\ hot'[n].retry_count = 0
          /\ hot'[n].max_retry \in Nat
      BY <3>1, <3>2, NewRowFields DEF Row
    <3>4. RowInv(n)'
      BY <3>2, <3>3 DEF RowInv
    <3>5. \A v \in Workers : TaskInv(v, n)'
      BY <3>3 DEF TaskInv, Holds
    <3> QED
      BY <3>4, <3>5
  <2>2. CASE n \notin Inserted(S)
    <3>1. /\ hot'[n] = hot[n]
          /\ attempts'[n] = attempts[n]
          /\ handled[n] => handled'[n]
          /\ claimant' = claimant
          /\ task' = task
      BY <1>1, <2>2 DEF insertHotBatch
    <3> QED
      BY <3>1, RowFrame, TaskFrame
  <2> QED
    BY <2>1, <2>2
<1>2. ASSUME NEW w \in Workers, NEW S \in SUBSET Messages, Claim(w, S)
      PROVE  Goal
  <2>1. CASE n \in S
    <3>1. hot[n] \in Row /\ hot[n].status \in {"PENDING", "RETRY"}
      BY <1>2, <2>1, RowOrNone DEF Claim, Claimable, TypeOK
    <3>2. /\ hot'[n] = Claimed(hot[n], WorkerID[w])
          /\ attempts'[n] = attempts[n] + 1
          /\ claimant'[n] = w
      BY <1>2, <2>1 DEF Claim
    <3>3. task'[w][n] = [pc          |-> "claimed",
                         retry_count |-> hot[n].retry_count,
                         max_retry   |-> hot[n].max_retry]
      BY <1>2, <2>1 DEF Claim, TypeOK
    <3>4. /\ hot'[n].status = "PROCESSING"
          /\ hot'[n].processing_by = WorkerID[w]
          /\ hot'[n].retry_count = hot[n].retry_count
          /\ hot'[n].max_retry = hot[n].max_retry
      BY <3>1, <3>2, ClaimedFields
    <3>5. hot[n].retry_count = attempts[n] /\ attempts[n] <= hot[n].max_retry
      BY <3>1 DEF ClaimInv, RowInv
    <3>6. RowInv(n)'
      BY <3>2, <3>4, <3>5 DEF RowInv
    <3>7. \A v \in Workers : TaskInv(v, n)'
      BY <3>2, <3>3, <3>4 DEF TaskInv, Holds
    <3> QED
      BY <3>6, <3>7
  <2>2. CASE n \notin S
    <3>1. /\ hot'[n] = hot[n]
          /\ attempts'[n] = attempts[n]
          /\ claimant'[n] = claimant[n]
          /\ handled' = handled
      BY <1>2, <2>2 DEF Claim
    <3>2. \A v \in Workers : task'[v][n] = task[v][n] \/ task'[v][n].pc = "idle"
      BY <1>2, <2>2 DEF Claim, TypeOK, Idle
    <3> QED
      BY <3>1, <3>2, RowFrame, TaskFrame
  <2> QED
    BY <2>1, <2>2
<1>3. ASSUME NEW w \in Workers, Cancel(w) \/ Crash(w)
      PROVE  Goal
  <2>1. /\ hot' = hot /\ attempts' = attempts
        /\ claimant' = claimant /\ handled' = handled
    BY <1>3 DEF Cancel, Crash
  <2>2. \A v \in Workers : task'[v][n] = task[v][n] \/ task'[v][n].pc = "idle"
    BY <1>3 DEF Cancel, Crash, TypeOK, Idle
  <2> QED
    BY <2>1, <2>2, RowFrame, TaskFrame
<1>4. CASE RecoverStuck
  <2>1. /\ attempts' = attempts /\ claimant' = claimant
        /\ handled' = handled /\ task' = task
    BY <1>4 DEF RecoverStuck
  <2>2. CASE Stuck(hot[n])
    <3>1. hot[n] \in Row /\ hot[n].status = "PROCESSING"
      BY <2>2, RowOrNone DEF Stuck, TypeOK
    <3>2. hot'[n] = Recovered(hot[n])
      BY <1>4, <2>2 DEF RecoverStuck
    <3>3. hot[n].retry_count \in Nat /\ hot[n].max_retry \in Nat
      BY <3>1 DEF Row
    <3>4. /\ hot[n].retry_count + 1 = attempts[n]
          /\ hot[n].retry_count <= hot[n].max_retry
      BY <3>1 DEF ClaimInv, RowInv
    <3>5. RowInv(n)'
      BY <2>1, <3>1, <3>2, <3>3, <3>4, RecoveredFields DEF RowInv
    <3>6. hot'[n].status # "PROCESSING"
      BY <3>1, <3>2, RecoveredFields
    <3> QED
      BY <3>5, <3>6 DEF TaskInv, Holds
  <2>3. CASE ~Stuck(hot[n])
    <3>1. hot'[n] = hot[n]
      BY <1>4, <2>3 DEF RecoverStuck
    <3> QED
      BY <2>1, <3>1, RowFrame, TaskFrame
  <2> QED
    BY <2>2, <2>3
<1>5. ASSUME NEW S \in SUBSET Messages, ArchiveExhausted(S)
      PROVE  Goal
  <2>1. /\ attempts' = attempts /\ claimant' = claimant
        /\ handled' = handled /\ task' = task
        /\ hot'[n] = hot[n] \/ hot'[n] = NoRow
    BY <1>5 DEF ArchiveExhausted
  <2>2. CASE hot'[n] = hot[n]
    BY <2>1, <2>2, RowFrame, TaskFrame
  <2>3. CASE hot'[n] = NoRow
    BY <2>3, RowOrNone DEF RowInv, TaskInv, Holds
  <2> QED
    BY <2>1, <2>2, <2>3
<1>6. ASSUME NEW m \in Messages, DeadLetter(m)
      PROVE  Goal
  <2>1. /\ attempts' = attempts /\ claimant' = claimant
        /\ handled' = handled /\ task' = task
        /\ hot'[n] = IF n = m THEN MarkedFailed(hot[n]) ELSE hot[n]
    BY <1>6, OtherRows DEF DeadLetter, DeadLettered
  <2>2. CASE n = m
    <3>1. hot[n] \in Row
      BY <1>6, <2>2 DEF DeadLetter, Present, TypeOK
    <3> QED
      BY <2>1, <2>2, <3>1, FailedRow DEF TaskInv, Holds
  <2>3. CASE n # m
    BY <2>1, <2>3, RowFrame, TaskFrame
  <2> QED
    BY <2>2, <2>3
<1>7. ASSUME NEW m \in Messages, RetryOne(m)
      PROVE  Goal
  <2>1. /\ claimant' = claimant /\ task' = task
        /\ attempts'[n] = IF n = m THEN 0 ELSE attempts[n]
        /\ n # m => handled'[n] = handled[n]
        /\ hot'[n] = IF n = m THEN Requeued(hot[n]) ELSE hot[n]
    BY <1>7, OtherRows DEF RetryOne, TypeOK
  <2>2. CASE n = m
    <3>1. hot[n] \in Row
      BY <1>7, <2>2, RowOrNone DEF RetryOne, TypeOK
    <3>2. /\ hot'[n].status = "PENDING"
          /\ hot'[n].retry_count = 0
          /\ hot'[n].max_retry \in Nat
      BY <2>1, <2>2, <3>1, RequeuedFields DEF Row
    <3> QED
      BY <2>1, <2>2, <3>2 DEF RowInv, TaskInv, Holds
  <2>3. CASE n # m
    BY <2>1, <2>3, RowFrame, TaskFrame
  <2> QED
    BY <2>2, <2>3
<1>8. CASE Tick
  <2>1. /\ attempts' = attempts /\ claimant' = claimant
        /\ handled' = handled /\ task' = task
        /\ hot'[n] = IF Present(n) THEN Aged(hot[n]) ELSE NoRow
    BY <1>8 DEF Tick
  <2>2. CASE Present(n)
    <3>1. hot[n] \in Row
      BY <2>2 DEF Present, TypeOK
    <3>2. /\ hot'[n].status = hot[n].status
          /\ hot'[n].retry_count = hot[n].retry_count
          /\ hot'[n].max_retry = hot[n].max_retry
          /\ hot'[n].processing_by = hot[n].processing_by
      BY <2>1, <2>2, <3>1, AgedFields
    <3>3. RowInv(n)'
      BY <2>1, <3>2 DEF ClaimInv, RowInv
    <3> QED
      BY <2>1, <3>2, <3>3, TaskFrame
  <2>3. CASE ~Present(n)
    BY <2>1, <2>3, RowOrNone DEF RowInv, TaskInv, Holds
  <2> QED
    BY <2>2, <2>3
<1>9. CASE UNCHANGED vars
  BY <1>9, RowFrame, TaskFrame DEF vars
<1>10. ASSUME NEW w \in Workers, NEW m \in Messages, TaskStep(w, m)
       PROVE  Goal
  <2>1. attempts' = attempts /\ claimant' = claimant
    BY <1>10 DEF TaskStep, Start, Skip, HandlerReturn, WorkerDeadLetter,
       markDoneAndArchive, markRetry, markFailed, WriteFails
  <2>2. ASSUME Start(w, m) \/ Skip(w, m) \/ WriteFails(w, m)
        PROVE  Goal
    <3>1. hot' = hot /\ handled' = handled
      BY <2>2 DEF Start, Skip, WriteFails
    <3>2. (ToPc(w, m, "running") /\ task[w][m].pc = "claimed") \/ EndTask(w, m)
      BY <2>2 DEF Start, Skip, WriteFails
    <3>3. \A v \in Workers : \/ task'[v][n] = task[v][n]
                             \/ task'[v][n].pc = "idle"
                             \/ /\ Active(v, n)
                                /\ task'[v][n].pc # "ok"
                                /\ task'[v][n].retry_count = task[v][n].retry_count
                                /\ task'[v][n].max_retry = task[v][n].max_retry
      BY <3>2, OtherTasks DEF Active
    <3> QED
      BY <2>1, <3>1, <3>3, RowFrame, TaskFrame
  <2>3. CASE HandlerReturn(w, m)
    <3>1. hot' = hot
      BY <2>3 DEF HandlerReturn
    <3>2. RowInv(n)'
      BY <2>1, <3>1, RowFrame
    <3>3. CASE ToPc(w, m, "err") /\ handled' = handled
      <4>1. \A v \in Workers : \/ task'[v][n] = task[v][n]
                               \/ /\ Active(v, n)
                                  /\ task'[v][n].pc # "ok"
                                  /\ task'[v][n].retry_count = task[v][n].retry_count
                                  /\ task'[v][n].max_retry = task[v][n].max_retry
        BY <2>3, <3>3, OtherTasks DEF Active, HandlerReturn
      <4> QED
        BY <2>1, <3>1, <3>2, <3>3, <4>1, TaskFrame
    <3>4. CASE ToPc(w, m, "ok") /\ handled' = [handled EXCEPT ![m] = @ \/ Holds(w, m)]
      <4>1. /\ handled[n] => handled'[n]
            /\ n = m /\ Holds(w, m) => handled'[n]
        BY <3>4 DEF TypeOK
      <4>2. ASSUME NEW v \in Workers
            PROVE  TaskInv(v, n)'
        <5>1. CASE task'[v][n] = task[v][n]
          BY <2>1, <3>1, <4>1, <5>1, TaskFrame
        <5>2. CASE task'[v][n] # task[v][n]
          <6>1. /\ v = w /\ n = m
                /\ task'[v][n].retry_count = task[v][n].retry_count
                /\ task'[v][n].max_retry = task[v][n].max_retry
            BY <3>4, <5>2, OtherTasks
          <6>2. Active(v, n)
            BY <2>3, <6>1 DEF HandlerReturn, Active
          <6>3. Holds(v, n)' => Holds(v, n)
            BY <2>1, <3>1, <6>2 DEF Holds
          <6> QED
            BY <3>1, <4>1, <6>1, <6>3 DEF ClaimInv, TaskInv
        <5> QED
          BY <5>1, <5>2
      <4> QED
        BY <3>2, <4>2
    <3> QED
      BY <2>3, <3>3, <3>4 DEF HandlerReturn
  <2>4. ASSUME \/ WorkerDeadLetter(w, m)
               \/ markDoneAndArchive(w, m)
               \/ markRetry(w, m)
               \/ markFailed(w, m)
        PROVE  Goal
    <3>1. handled' = handled /\ EndTask(w, m)
      BY <2>4 DEF WorkerDeadLetter, markDoneAndArchive, markRetry, markFailed
    <3>2. \A v \in Workers : task'[v][n] = task[v][n] \/ task'[v][n].pc = "idle"
      BY <3>1, OtherTasks
    <3>3. CASE hot'[n] = hot[n]
      BY <2>1, <3>1, <3>2, <3>3, RowFrame, TaskFrame
    <3>4. ASSUME hot'[n] # hot[n]
          PROVE  RowInv(n)' /\ hot'[n].status # "PROCESSING"
      <4>1. CASE WorkerDeadLetter(w, m)
        <5>1. /\ n = m /\ hot[n] \in Row
              /\ hot'[n] = MarkedFailed(hot[n])
          BY <3>4, <4>1, OtherRows DEF WorkerDeadLetter, DeadLettered, Present, TypeOK
        <5> QED
          BY <2>1, <5>1, FailedRow
      <4>2. CASE markDoneAndArchive(w, m)
        <5>1. hot'[n] = NoRow
          BY <3>4, <4>2, OtherRows DEF markDoneAndArchive
        <5> QED
          BY <5>1, RowOrNone DEF RowInv
      <4>3. CASE markRetry(w, m)
        <5>1. PICK d \in Delays :
                 SetRow(m, IF OwnedBy(hot[m], WorkerID[w])
                           THEN MarkedRetry(hot[m], task[w][m].retry_count + 1, d)
                           ELSE hot[m])
          BY <4>3 DEF markRetry
        <5>2. /\ n = m /\ OwnedBy(hot[m], WorkerID[w])
              /\ hot'[m] = MarkedRetry(hot[m], task[w][m].retry_count + 1, d)
          BY <3>4, <5>1, OtherRows
        <5>3. /\ hot[m] \in Row
              /\ task[w][m].retry_count = hot[m].retry_count
              /\ task[w][m].max_retry = hot[m].max_retry
          BY <4>3, <5>2, OwnerHolds DEF markRetry, Active
        <5>4. /\ hot[m].retry_count \in Nat
              /\ hot[m].max_retry \in Nat
              /\ hot[m].retry_count + 1 <= hot[m].max_retry
          <6>1. hot[m].retry_count \in Nat /\ hot[m].max_retry \in Nat
            BY <5>3 DEF Row
          <6>2. ~(task[w][m].retry_count + 1 > task[w][m].max_retry)
            BY <4>3 DEF markRetry, Spent
          <6> QED
            BY <5>3, <6>1, <6>2
        <5>5. hot[m].retry_count + 1 = attempts[m]
          BY <5>2 DEF ClaimInv, RowInv, OwnedBy
        <5>6. /\ hot'[m].status = "RETRY"
              /\ hot'[m].retry_count = hot[m].retry_count + 1
              /\ hot'[m].max_retry = hot[m].max_retry
          <6>1. hot'[m] = MarkedRetry(hot[m], hot[m].retry_count + 1, d)
            BY <5>2, <5>3
          <6>2. hot[m].retry_count + 1 \in Nat
            BY <5>4
          <6>3. d \in Nat
            OBVIOUS
          <6>4. \A k \in Nat : /\ MarkedRetry(hot[m], k, d).status = "RETRY"
                               /\ MarkedRetry(hot[m], k, d).retry_count = k
                               /\ MarkedRetry(hot[m], k, d).max_retry = hot[m].max_retry
            BY <5>3, <6>3, MarkedRetryFields
          <6> QED
            BY <6>1, <6>2, <6>4
        <5> QED
          BY <2>1, <5>2, <5>4, <5>5, <5>6 DEF RowInv
      <4>4. CASE markFailed(w, m)
        <5>1. /\ n = m /\ OwnedBy(hot[m], WorkerID[w])
              /\ hot'[m] = MarkedFailed(hot[m])
          BY <3>4, <4>4, OtherRows DEF markFailed
        <5>2. hot[m] \in Row
          BY <5>1, RowOrNone DEF OwnedBy, TypeOK
        <5> QED
          BY <2>1, <5>1, <5>2, FailedRow
      <4> QED
        BY <2>4, <4>1, <4>2, <4>3, <4>4
    <3> QED
      BY <3>3, <3>4 DEF TaskInv, Holds
  <2> QED
    BY <1>10, <2>2, <2>3, <2>4 DEF TaskStep
<1>11. ASSUME NEW m \in Messages, Enqueue(m)
       PROVE  Goal
  <2>1. PICK k \in Requested : insertHotBatch({m}, [x \in {m} |-> k])
    BY <1>11 DEF Enqueue
  <2> QED
    BY <2>1, <1>1
<1>12. ASSUME NEW S \in SUBSET Messages, EnqueueBatch(S)
       PROVE  Goal
  BY <1>12, <1>1 DEF EnqueueBatch
<1> QED
  BY <1>2, <1>3, <1>4, <1>5, <1>6, <1>7, <1>8, <1>9, <1>10, <1>11, <1>12 DEF Next

-----------------------------------------------------------------------------
(* The theorems.                                                           *)

(* With distinct WorkerIDs every reachable state satisfies the claim       *)
(* invariant.                                                              *)
THEOREM ClaimInvariant ==
    ASSUME UniqueWorkerIDs
    PROVE  Spec => []ClaimInv
<1>1. Init => ClaimInv
  BY RowOrNone DEF Init, ClaimInv, RowInv, TaskInv, Holds
<1>2. TypeOK /\ ClaimInv /\ [Next]_vars => ClaimInv'
  BY ClaimInvStep
<1> QED
  BY <1>1, <1>2, TypeCorrect, PTL DEF Spec

(* The ownership test of markDoneAndArchive, markRetry and markFailed      *)
(* admits the latest claimant only, and its snapshot is then current.      *)
THEOREM OwnerIsLatest ==
    ASSUME UniqueWorkerIDs
    PROVE  Spec => []OwnerHasLatestClaim
<1>1. TypeOK /\ ClaimInv => OwnerHasLatestClaim
  BY OwnerHolds DEF OwnerHasLatestClaim, Holds
<1> QED
  BY <1>1, TypeCorrect, ClaimInvariant, PTL

(* The budget property follows from the claim invariant.                   *)
LEMMA BudgetFollows ==
    ASSUME TypeOK, ClaimInv
    PROVE  RetryBudget
<1> SUFFICES ASSUME NEW m \in Messages, Present(m)
             PROVE  /\ attempts[m] <= hot[m].max_retry + 1
                    /\ hot[m].status \in {"PENDING", "RETRY"} =>
                         hot[m].retry_count = attempts[m]
                    /\ hot[m].status = "PROCESSING" =>
                         hot[m].retry_count + 1 = attempts[m]
  BY DEF RetryBudget
<1>1. hot[m] \in Row
  BY DEF TypeOK, Present
<1> QED
  BY <1>1, WithinBudget DEF ClaimInv, RowInv

(* retry_count counts claims exactly, and no message is claimed more often *)
(* than max_retry + 1 times between queueings: handleRetry and             *)
(* RecoverStuck together keep one budget.                                  *)
THEOREM BudgetKept ==
    ASSUME UniqueWorkerIDs
    PROVE  Spec => []RetryBudget
<1>1. TypeOK /\ ClaimInv => RetryBudget
  BY BudgetFollows
<1> QED
  BY <1>1, TypeCorrect, ClaimInvariant, PTL

(* A task whose claim was taken away ends without a trace, unless it ends  *)
(* in a dead letter: the ownership test of its write does not admit it.    *)
LEMMA UnheldTaskEnds ==
    ASSUME UniqueWorkerIDs, TypeOK, ClaimInv, [Next]_vars,
           NEW w \in Workers, NEW m \in Messages,
           Active(w, m), ~Holds(w, m), task'[w][m].pc = "idle", ~WorkerDeadLetter(w, m)
    PROVE  hot'[m] = hot[m] /\ archive'[m] = archive[m]
<1>1. InBatch(w) /\ task'[w][m] # task[w][m]
  BY DEF Active, InBatch
<1>2. ~OwnedBy(hot[m], WorkerID[w])
  BY OwnerHolds
<1>3. ASSUME NEW v \in Workers, NEW S \in SUBSET Messages, Claim(v, S)
      PROVE  FALSE
  BY <1>1, <1>3 DEF Claim, TypeOK
<1>4. CASE UNCHANGED <<hot, archive>>
  BY <1>4
<1>5. CASE task' = task
  BY <1>1, <1>5
<1>6. ASSUME NEW v \in Workers, NEW n \in Messages, TaskStep(v, n)
      PROVE  hot'[m] = hot[m] /\ archive'[m] = archive[m]
  <2>1. CASE Start(v, n) \/ Skip(v, n) \/ HandlerReturn(v, n) \/ WriteFails(v, n)
    BY <2>1, <1>4 DEF Start, Skip, HandlerReturn, WriteFails
  <2>2. CASE \/ WorkerDeadLetter(v, n)
             \/ markDoneAndArchive(v, n)
             \/ markRetry(v, n)
             \/ markFailed(v, n)
    <3>1. EndTask(v, n)
      BY <2>2 DEF WorkerDeadLetter, markDoneAndArchive, markRetry, markFailed
    <3>2. v = w /\ n = m
      BY <1>1, <3>1 DEF EndTask, TypeOK
    <3>3. CASE WorkerDeadLetter(v, n)
      BY <3>2, <3>3
    <3>4. CASE markDoneAndArchive(v, n)
      BY <1>2, <3>2, <3>4 DEF markDoneAndArchive
    <3>5. CASE markRetry(v, n) \/ markFailed(v, n)
      <4>1. SetRow(m, hot[m]) /\ archive' = archive
        BY <1>2, <3>2, <3>5 DEF markRetry, markFailed
      <4> QED
        BY <4>1, OtherRows
    <3> QED
      BY <2>2, <3>3, <3>4, <3>5
  <2> QED
    BY <1>6, <2>1, <2>2 DEF TaskStep
<1>7. ASSUME NEW v \in Workers, Cancel(v) \/ Crash(v)
      PROVE  UNCHANGED <<hot, archive>>
  BY <1>7 DEF Cancel, Crash
<1>8. ASSUME NEW n \in Messages, Enqueue(n) \/ DeadLetter(n) \/ RetryOne(n)
      PROVE  task' = task
  BY <1>8 DEF Enqueue, insertHotBatch, DeadLetter, RetryOne
<1>9. ASSUME NEW S \in SUBSET Messages, EnqueueBatch(S) \/ ArchiveExhausted(S)
      PROVE  task' = task
  BY <1>9 DEF EnqueueBatch, insertHotBatch, ArchiveExhausted
<1>10. ASSUME RecoverStuck \/ Tick \/ UNCHANGED vars
       PROVE  task' = task
  BY <1>10 DEF RecoverStuck, Tick, vars
<1> QED
  BY <1>3, <1>4, <1>5, <1>6, <1>7, <1>8, <1>9, <1>10 DEF Next

(* In particular when the handler has returned: hydrate and the lookup of  *)
(* the handler, which dead-letter, are behind it.                          *)
LEMMA StaleStep ==
    ASSUME UniqueWorkerIDs, TypeOK, ClaimInv, [Next]_vars
    PROVE  \A w \in Workers, m \in Messages : StaleResultIgnored(w, m)
<1> SUFFICES ASSUME NEW w \in Workers, NEW m \in Messages,
                    task[w][m].pc \in {"ok", "err"},
                    task'[w][m].pc = "idle",
                    ~Holds(w, m)
             PROVE  hot'[m] = hot[m] /\ archive'[m] = archive[m]
  BY DEF StaleResultIgnored
<1>1. Active(w, m) /\ ~WorkerDeadLetter(w, m)
  BY DEF Active, WorkerDeadLetter, Unhandled, Undecryptable
<1> QED
  BY <1>1, UnheldTaskEnds

(* A result that arrives after the claim was taken away changes neither    *)
(* the row nor the archive.                                                *)
THEOREM StaleResultsHarmless ==
    ASSUME UniqueWorkerIDs
    PROVE  Spec => StaleWorkerHarmless
<1>1. TypeOK /\ ClaimInv /\ [Next]_vars =>
        \A w \in Workers, m \in Messages : StaleResultIgnored(w, m)
  BY StaleStep
<1> QED
  BY <1>1, TypeCorrect, ClaimInvariant, PTL DEF Spec, StaleWorkerHarmless

(* The documented reach of the ownership guard holds for a fleet in which  *)
(* every worker has a handler for every topic and every key: then no end   *)
(* of a task disturbs the row's new owner.  Without this assumption the    *)
(* unguarded deadLetter of the processing path refutes it.                 *)
THEOREM NewOwnerSafe ==
    ASSUME UniqueWorkerIDs,
           \A w \in Workers : Routes[w] = Messages /\ Readable[w] = Messages
    PROVE  Spec => NewOwnerUndisturbed
<1>1. ASSUME TypeOK, ClaimInv, [Next]_vars, NEW w \in Workers, NEW m \in Messages,
             Active(w, m), task'[w][m].pc = "idle", claimant[m] # w
      PROVE  hot'[m] = hot[m] /\ archive'[m] = archive[m]
  <2>1. ~WorkerDeadLetter(w, m)
    BY DEF WorkerDeadLetter, Unhandled, Undecryptable
  <2>2. ~Holds(w, m)
    BY <1>1 DEF Holds
  <2> QED
    BY <1>1, <2>1, <2>2, UnheldTaskEnds
<1>2. TypeOK /\ ClaimInv /\ [Next]_vars =>
        [\A w \in Workers, m \in Messages :
            /\ Active(w, m)
            /\ task'[w][m].pc = "idle"
            /\ hot[m].status = "PROCESSING"
            /\ claimant[m] # w
            /\ hot[m].retry_count > task[w][m].retry_count
            => hot'[m] = hot[m] /\ archive'[m] = archive[m]]_vars
  BY <1>1
<1> QED
  BY <1>2, TypeCorrect, ClaimInvariant, PTL DEF Spec, NewOwnerUndisturbed

(* Only markDoneAndArchive adds to PROCESSED, and its ownership test       *)
(* admits the task whose handler's success is on record.                   *)
LEMMA HandledStep ==
    ASSUME UniqueWorkerIDs, TypeOK, ClaimInv, [Next]_vars
    PROVE  \A m \in Messages : ArchivedWhenHandled(m)
<1> SUFFICES ASSUME NEW m \in Messages, archive'[m].PROCESSED # archive[m].PROCESSED
             PROVE  handled[m]
  BY DEF ArchivedWhenHandled
<1>1. ASSUME NEW S \in SUBSET Messages, ArchiveExhausted(S)
      PROVE  FALSE
  <2>1. archive[m] \in ArchiveCounts
    BY DEF TypeOK
  <2>2. archive'[m] = archive[m] \/ archive'[m] = [archive[m] EXCEPT !.FAILED = @ + 1]
    BY <1>1 DEF ArchiveExhausted
  <2> QED
    BY <2>1, <2>2 DEF ArchiveCounts
<1>2. ASSUME NEW w \in Workers, NEW n \in Messages, markDoneAndArchive(w, n)
      PROVE  handled[m]
  <2>1. n = m /\ OwnedBy(hot[n], WorkerID[w])
    BY <1>2 DEF markDoneAndArchive, TypeOK
  <2>2. Holds(w, m)
    BY <1>2, <2>1, OwnerHolds DEF markDoneAndArchive, Active
  <2> QED
    BY <1>2, <2>1, <2>2 DEF markDoneAndArchive, ClaimInv, TaskInv
<1>3. CASE archive' = archive
  BY <1>3
<1>4. ASSUME NEW w \in Workers, NEW n \in Messages, TaskStep(w, n)
      PROVE  archive' = archive \/ markDoneAndArchive(w, n)
  BY <1>4 DEF TaskStep, Start, Skip, HandlerReturn, WorkerDeadLetter, markRetry,
     markFailed, WriteFails
<1>5. ASSUME NEW w \in Workers, \/ Cancel(w) \/ Crash(w)
                                \/ \E S \in SUBSET Messages : Claim(w, S)
      PROVE  archive' = archive
  BY <1>5 DEF Cancel, Crash, Claim
<1>6. ASSUME NEW n \in Messages, Enqueue(n) \/ DeadLetter(n) \/ RetryOne(n)
      PROVE  archive' = archive
  BY <1>6 DEF Enqueue, insertHotBatch, DeadLetter, RetryOne
<1>7. ASSUME NEW S \in SUBSET Messages, EnqueueBatch(S)
      PROVE  archive' = archive
  BY <1>7 DEF EnqueueBatch, insertHotBatch
<1>8. ASSUME RecoverStuck \/ Tick \/ UNCHANGED vars
      PROVE  archive' = archive
  BY <1>8 DEF RecoverStuck, Tick, vars
<1> QED
  BY <1>1, <1>2, <1>3, <1>4, <1>5, <1>6, <1>7, <1>8 DEF Next

(* A message is archived as PROCESSED only after its handler returned nil  *)
(* under the claim that then archives it.                                  *)
THEOREM OnlyHandledIsProcessed ==
    ASSUME UniqueWorkerIDs
    PROVE  Spec => ProcessedWasHandled
<1>1. TypeOK /\ ClaimInv /\ [Next]_vars => \A m \in Messages : ArchivedWhenHandled(m)
  BY HandledStep
<1> QED
  BY <1>1, TypeCorrect, ClaimInvariant, PTL DEF Spec, ProcessedWasHandled

(* markFailed and RecoverStuck compare the same count with the same budget *)
(* and the count is that of the claims.                                    *)
LEMMA GivesUpStep ==
    ASSUME UniqueWorkerIDs, TypeOK, ClaimInv, [Next]_vars
    PROVE  \A m \in Messages : GivesUp(m) => attempts[m] = hot[m].max_retry + 1
<1> SUFFICES ASSUME NEW m \in Messages, GivesUp(m)
             PROVE  attempts[m] = hot[m].max_retry + 1
  OBVIOUS
<1>1. hot[m].status = "PROCESSING" /\ hot'[m].status = "FAILED" /\ hot[m] \in Row
  BY RowOrNone DEF GivesUp, TypeOK
<1>2. /\ hot[m].retry_count \in Nat
      /\ hot[m].max_retry \in Nat
      /\ attempts[m] = hot[m].retry_count + 1
      /\ hot[m].retry_count <= hot[m].max_retry
  BY <1>1 DEF ClaimInv, RowInv, Row
<1>3. ASSUME hot[m].retry_count + 1 > hot[m].max_retry
      PROVE  attempts[m] = hot[m].max_retry + 1
  BY <1>2, <1>3
<1>4. CASE hot'[m] = hot[m]
  BY <1>1, <1>4
<1>5. CASE RecoverStuck
  <2>1. hot'[m] = Recovered(hot[m])
    BY <1>1, <1>5 DEF RecoverStuck
  <2> QED
    BY <1>1, <1>3, <2>1, RecoveredFields
<1>6. ASSUME hot'[m] = MarkedFailed(hot[m]), NEW v \in Workers,
             task[v][m].pc # "err",
             \A w \in Workers : w # v => task'[w][m] = task[w][m]
      PROVE  FALSE
  <2>1. hot'[m].retry_count = hot[m].retry_count
    BY <1>1, <1>6, MarkedFailedFields
  <2>2. PICK w \in Workers : task[w][m].pc = "err" /\ task'[w][m] = Idle
    BY <2>1 DEF GivesUp
  <2> QED
    BY <1>6, <2>2 DEF Idle
<1>7. ASSUME NEW n \in Messages, DeadLetter(n)
      PROVE  FALSE
  <2>1. hot'[m] = MarkedFailed(hot[m]) /\ task' = task
    BY <1>1, <1>7, OtherRows DEF DeadLetter, DeadLettered
  <2>2. hot'[m].retry_count = hot[m].retry_count
    BY <1>1, <2>1, MarkedFailedFields
  <2> QED
    BY <2>1, <2>2 DEF GivesUp, Idle
<1>8. ASSUME NEW v \in Workers, NEW n \in Messages, TaskStep(v, n)
      PROVE  attempts[m] = hot[m].max_retry + 1
  <2>1. CASE Start(v, n) \/ Skip(v, n) \/ HandlerReturn(v, n) \/ WriteFails(v, n)
    BY <1>4, <2>1 DEF Start, Skip, HandlerReturn, WriteFails
  <2>2. CASE markDoneAndArchive(v, n)
    <3>1. hot'[m] = hot[m] \/ hot'[m] = NoRow
      BY <2>2, OtherRows DEF markDoneAndArchive
    <3> QED
      BY <1>1, <3>1, RowOrNone
  <2>3. CASE markRetry(v, n)
    <3>1. \/ hot'[m] = hot[m]
          \/ \E d \in Delays :
               hot'[m] = MarkedRetry(hot[m], task[v][m].retry_count + 1, d)
      BY <2>3, OtherRows DEF markRetry
    <3>2. \A k, d : MarkedRetry(hot[m], k, d).status = "RETRY"
      BY <1>1 DEF MarkedRetry, Row
    <3> QED
      BY <1>1, <3>1, <3>2
  <2>4. CASE WorkerDeadLetter(v, n)
    <3>1. SetRow(n, IF Present(n) THEN DeadLettered(hot[n]) ELSE NoRow)
      BY <2>4 DEF WorkerDeadLetter
    <3>2. n = m
      BY <1>1, <3>1, OtherRows
    <3>3. Present(m)
      BY <1>1 DEF Present, NoRow
    <3>4. n = m /\ hot'[m] = MarkedFailed(hot[m])
      BY <3>1, <3>2, <3>3, OtherRows DEF DeadLettered
    <3>5. task[v][m].pc # "err" /\ EndTask(v, m)
      BY <2>4, <3>4 DEF WorkerDeadLetter, Unhandled, Undecryptable
    <3>6. \A w \in Workers : w # v => task'[w][m] = task[w][m]
      BY <3>5 DEF EndTask, TypeOK
    <3> QED
      BY <1>6, <3>4, <3>5, <3>6
  <2>5. CASE markFailed(v, n)
    <3>1. n = m /\ OwnedBy(hot[m], WorkerID[v])
      BY <1>1, <2>5, OtherRows DEF markFailed
    <3>2. /\ task[v][m].retry_count = hot[m].retry_count
          /\ task[v][m].max_retry = hot[m].max_retry
      BY <2>5, <3>1, OwnerHolds DEF markFailed, Active
    <3>3. task[v][m].retry_count + 1 > task[v][m].max_retry
      BY <2>5, <3>1 DEF markFailed, Spent
    <3> QED
      BY <1>3, <3>2, <3>3
  <2> QED
    BY <1>8, <2>1, <2>2, <2>3, <2>4, <2>5 DEF TaskStep
<1>9. ASSUME NEW S \in SUBSET Messages, NEW max, insertHotBatch(S, max)
      PROVE  hot'[m] = hot[m]
  BY <1>1, <1>9, RowOrNone DEF insertHotBatch, Inserted, Present
<1>10. ASSUME NEW w \in Workers, NEW S \in SUBSET Messages, Claim(w, S)
       PROVE  hot'[m] = hot[m]
  BY <1>1, <1>10 DEF Claim, Claimable
<1>11. ASSUME NEW w \in Workers, Cancel(w) \/ Crash(w)
       PROVE  hot'[m] = hot[m]
  BY <1>11 DEF Cancel, Crash
<1>12. ASSUME NEW S \in SUBSET Messages, ArchiveExhausted(S)
       PROVE  hot'[m] = hot[m]
  BY <1>1, <1>12 DEF ArchiveExhausted, Exhausted
<1>13. ASSUME NEW n \in Messages, RetryOne(n)
       PROVE  hot'[m] = hot[m]
  BY <1>1, <1>13, OtherRows DEF RetryOne
<1>14. CASE Tick
  <2>1. hot'[m] = Aged(hot[m])
    BY <1>1, <1>14, RowOrNone DEF Tick, Present
  <2> QED
    BY <1>1, <2>1, AgedFields
<1>15. ASSUME UNCHANGED vars
       PROVE  hot'[m] = hot[m]
  BY <1>15 DEF vars
<1>16. ASSUME NEW n \in Messages, Enqueue(n)
       PROVE  hot'[m] = hot[m]
  BY <1>9, <1>16 DEF Enqueue
<1>17. ASSUME NEW S \in SUBSET Messages, EnqueueBatch(S)
       PROVE  hot'[m] = hot[m]
  BY <1>9, <1>17 DEF EnqueueBatch
<1> QED
  BY <1>4, <1>5, <1>7, <1>8, <1>10, <1>11, <1>12, <1>13, <1>14, <1>15, <1>16, <1>17 DEF Next

(* handleRetry and RecoverStuck give a message up exactly at the claim     *)
(* that spends its budget.                                                 *)
THEOREM NeverGivesUpEarly ==
    ASSUME UniqueWorkerIDs
    PROVE  Spec => GivesUpOnlyWhenSpent
<1>1. TypeOK /\ ClaimInv /\ [Next]_vars =>
        \A m \in Messages : GivesUp(m) => attempts[m] = hot[m].max_retry + 1
  BY GivesUpStep
<1> QED
  BY <1>1, TypeCorrect, ClaimInvariant, PTL DEF Spec, GivesUpOnlyWhenSpent
=============================================================================
