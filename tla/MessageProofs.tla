---------------------------- MODULE MessageProofs ----------------------------
(***************************************************************************)
(* What becomes of a message under ProcessBatch, for every fleet: its row  *)
(* is always one that some statement will find, it is neither lost nor     *)
(* duplicated, and every step of workers, cleanup and operators moves it   *)
(* along one edge of the life that Lifecycle describes, or leaves it.      *)
(***************************************************************************)
EXTENDS ProcessBatchProofs

-----------------------------------------------------------------------------
(* What a step may do to one row.                                          *)

(* The statements that replace a row, each with the status it needs.       *)
Rewritten(r, s) ==
    \/ r.status \in {"PENDING", "RETRY"} /\ \E id \in IDs : s = Claimed(r, id)
    \/ r.status = "PROCESSING" /\ \E k, d \in Nat : s = MarkedRetry(r, k, d)
    \/ r.status = "PROCESSING" /\ s = Recovered(r)
    \/ r.status = "FAILED" /\ s = Requeued(r)
    \/ s = MarkedFailed(r)
    \/ s = Aged(r)

(* Every step leaves a row alone, inserts it, deletes it or rewrites it by *)
(* one statement.                                                          *)
LEMMA RowStep ==
    ASSUME TypeOK, [Next]_vars, NEW n \in Messages
    PROVE  \/ hot'[n] = hot[n]
           \/ hot'[n] = NoRow
           \/ \E k \in Int : hot'[n] = NewRow(k)
           \/ hot[n] \in Row /\ Rewritten(hot[n], hot'[n])
<1> USE ProcessBatchAssumption DEF Rewritten
<1> DEFINE Goal == \/ hot'[n] = hot[n]
                   \/ hot'[n] = NoRow
                   \/ \E k \in Int : hot'[n] = NewRow(k)
                   \/ hot[n] \in Row /\ Rewritten(hot[n], hot'[n])
<1>0. hot[n] \in Row \cup {NoRow}
  BY DEF TypeOK
<1>1. ASSUME NEW S \in SUBSET Messages, NEW max \in [S -> Requested],
             insertHotBatch(S, max)
      PROVE  Goal
  <2>1. n \in S => max[n] \in Int
    OBVIOUS
  <2> QED
    BY <1>1, <2>1 DEF insertHotBatch, Inserted
<1>2. ASSUME NEW w \in Workers, NEW S \in SUBSET Messages, Claim(w, S)
      PROVE  Goal
  <2>1. CASE n \in S
    <3>1. hot[n].status \in {"PENDING", "RETRY"} /\ hot'[n] = Claimed(hot[n], WorkerID[w])
      BY <1>2, <2>1 DEF Claim, Claimable
    <3>2. hot[n] \in Row /\ WorkerID[w] \in IDs
      BY <1>0, <3>1, RowOrNone
    <3> QED
      BY <3>1, <3>2
  <2>2. CASE n \notin S
    BY <1>2, <2>2 DEF Claim
  <2> QED
    BY <2>1, <2>2
<1>3. ASSUME NEW w \in Workers, NEW m \in Messages, TaskStep(w, m)
      PROVE  Goal
  <2>1. CASE Start(w, m) \/ Skip(w, m) \/ HandlerReturn(w, m) \/ WriteFails(w, m)
    BY <2>1 DEF Start, Skip, HandlerReturn, WriteFails
  <2>2. CASE WorkerDeadLetter(w, m)
    BY <1>0, <2>2, OtherRows DEF WorkerDeadLetter, DeadLettered, Present
  <2>3. CASE markDoneAndArchive(w, m)
    BY <2>3, OtherRows DEF markDoneAndArchive
  <2>4. CASE markRetry(w, m)
    <3>1. task[w][m].retry_count + 1 \in Nat
      BY DEF TypeOK, Tasks
    <3>2. OwnedBy(hot[m], WorkerID[w]) => hot[m].status = "PROCESSING"
      BY DEF OwnedBy
    <3>3. hot[n].status = "PROCESSING" => hot[n] \in Row
      BY <1>0, RowOrNone
    <3> QED
      BY <2>4, <3>1, <3>2, <3>3, OtherRows DEF markRetry
  <2>5. CASE markFailed(w, m)
    <3>1. OwnedBy(hot[n], WorkerID[w]) => hot[n] \in Row
      BY <1>0, RowOrNone DEF OwnedBy
    <3> QED
      BY <2>5, <3>1, OtherRows DEF markFailed
  <2> QED
    BY <1>3, <2>1, <2>2, <2>3, <2>4, <2>5 DEF TaskStep
<1>4. ASSUME NEW w \in Workers, Cancel(w) \/ Crash(w)
      PROVE  Goal
  BY <1>4 DEF Cancel, Crash
<1>5. CASE RecoverStuck
  <2>1. Stuck(hot[n]) => hot[n] \in Row /\ hot[n].status = "PROCESSING"
    BY <1>0, RowOrNone DEF Stuck
  <2> QED
    BY <1>5, <2>1 DEF RecoverStuck
<1>6. ASSUME NEW S \in SUBSET Messages, ArchiveExhausted(S)
      PROVE  Goal
  BY <1>6 DEF ArchiveExhausted
<1>7. ASSUME NEW m \in Messages, DeadLetter(m)
      PROVE  Goal
  BY <1>0, <1>7, OtherRows DEF DeadLetter, DeadLettered, Present
<1>8. ASSUME NEW m \in Messages, RetryOne(m)
      PROVE  Goal
  <2>1. hot[m].status = "FAILED" /\ (hot[n].status = "FAILED" => hot[n] \in Row)
    BY <1>0, <1>8, RowOrNone DEF RetryOne
  <2> QED
    BY <1>8, <2>1, OtherRows DEF RetryOne
<1>9. CASE Tick
  BY <1>0, <1>9 DEF Tick, Present
<1>10. CASE UNCHANGED vars
  BY <1>10 DEF vars
<1>11. ASSUME NEW m \in Messages, Enqueue(m)
       PROVE  Goal
  <2>1. PICK k \in Requested : insertHotBatch({m}, [x \in {m} |-> k])
    BY <1>11 DEF Enqueue
  <2> QED
    BY <1>1, <2>1
<1>12. ASSUME NEW S \in SUBSET Messages, EnqueueBatch(S)
       PROVE  Goal
  BY <1>1, <1>12 DEF EnqueueBatch
<1> QED
  BY <1>2, <1>3, <1>4, <1>5, <1>6, <1>7, <1>8, <1>9, <1>10, <1>11, <1>12 DEF Next

(* Each statement leaves owner and dates in agreement with the status.     *)
LEMMA RewrittenConsistent ==
    ASSUME NEW r \in Row, NEW s, Consistent(r), Rewritten(r, s)
    PROVE  Consistent(s)
<1> USE HotTableAssumption DEF Consistent, Row
<1>1. ASSUME NEW id \in IDs, r.status \in {"PENDING", "RETRY"}, s = Claimed(r, id)
      PROVE  Consistent(s)
  BY <1>1 DEF Claimed
<1>2. ASSUME NEW k, NEW d, r.status = "PROCESSING", s = MarkedRetry(r, k, d)
      PROVE  Consistent(s)
  BY <1>2 DEF MarkedRetry
<1>3. ASSUME r.status = "PROCESSING", s = Recovered(r)
      PROVE  Consistent(s)
  <2>1. CASE r.retry_count + 1 > r.max_retry
    BY <1>3, <2>1 DEF Recovered
  <2>2. CASE ~(r.retry_count + 1 > r.max_retry)
    BY <1>3, <2>2 DEF Recovered
  <2> QED
    BY <2>1, <2>2
<1>4. ASSUME r.status = "FAILED", s = Requeued(r)
      PROVE  Consistent(s)
  BY <1>4 DEF Requeued
<1>5. ASSUME s = MarkedFailed(r)
      PROVE  Consistent(s)
  BY <1>5 DEF MarkedFailed
<1>6. ASSUME s = Aged(r)
      PROVE  Consistent(s)
  <2>1. \A t \in Timestamp, limit \in Nat : Older(t, limit) = NULL <=> t = NULL
    BY DEF Older, Timestamp
  <2>2. /\ s.status = r.status
        /\ s.processing_by = r.processing_by
        /\ s.processing_at = Older(r.processing_at, ClaimTimeout)
        /\ s.processed_at = Older(r.processed_at, FailedRetention)
    BY <1>6 DEF Aged
  <2> QED
    BY <2>1, <2>2
<1> QED
  BY <1>1, <1>2, <1>3, <1>4, <1>5, <1>6 DEF Rewritten

(* Owner and dates agree with the status of every row in every state, for  *)
(* any workers and any WorkerIDs: neither RecoverStuck nor                 *)
(* ArchiveExhausted ever passes a row over because of a NULL.              *)
THEOREM ColumnsAgree == Spec => []ColumnsFollowStatus
<1>1. Init => ColumnsFollowStatus
  BY DEF Init, ColumnsFollowStatus, Present
<1>2. TypeOK /\ ColumnsFollowStatus /\ [Next]_vars => ColumnsFollowStatus'
  <2> SUFFICES ASSUME TypeOK, ColumnsFollowStatus, [Next]_vars, NEW n \in Messages, Present(n)'
               PROVE  Consistent(hot'[n])
    BY DEF ColumnsFollowStatus, Consistent
  <2>1. CASE hot'[n] = hot[n]
    BY <2>1 DEF ColumnsFollowStatus, Present
  <2>2. CASE hot'[n] = NoRow
    BY <2>2 DEF Present
  <2>3. ASSUME NEW k \in Int, hot'[n] = NewRow(k)
        PROVE  Consistent(hot'[n])
    BY <2>3 DEF NewRow, Consistent
  <2>4. CASE hot[n] \in Row /\ Rewritten(hot[n], hot'[n])
    BY <2>4, RowOrNone, RewrittenConsistent DEF ColumnsFollowStatus, Present
  <2> QED
    BY <2>1, <2>2, <2>3, <2>4, RowStep
<1> QED
  BY <1>1, <1>2, TypeCorrect, PTL DEF Spec

-----------------------------------------------------------------------------
(* Conservation.                                                           *)

(* One archive row more, by either mover, accounts for one row less.       *)
LEMMA MovedIsConserved ==
    ASSUME TypeOK, NEW m \in Messages, Conserved(m), Present(m),
           born'[m] = born[m], hot'[m] = NoRow,
           \/ archive'[m] = [archive[m] EXCEPT !.PROCESSED = @ + 1]
           \/ archive'[m] = [archive[m] EXCEPT !.FAILED = @ + 1]
    PROVE  Conserved(m)'
<1>1. archive[m] \in ArchiveCounts /\ born[m] \in Nat
  BY DEF TypeOK
<1>2. archive'[m].PROCESSED + archive'[m].FAILED
        = archive[m].PROCESSED + archive[m].FAILED + 1
  BY <1>1 DEF ArchiveCounts
<1>3. archive[m].PROCESSED \in Nat /\ archive[m].FAILED \in Nat
  BY <1>1 DEF ArchiveCounts
<1> QED
  BY <1>2, <1>3 DEF Conserved, Present

(* No action loses a row or moves it twice.                                *)
LEMMA ConservedStep ==
    ASSUME TypeOK, TypeOK', Conservation, [Next]_vars
    PROVE  Conservation'
<1> SUFFICES ASSUME NEW m \in Messages
             PROVE  Conserved(m)'
  BY DEF Conservation
<1>1. Conserved(m)
  BY DEF Conservation
<1>2. ASSUME born' = born, archive'[m] = archive[m], Present(m)' <=> Present(m)
      PROVE  Conserved(m)'
  BY <1>1, <1>2 DEF Conserved
<1>3. ASSUME NEW S \in SUBSET Messages, NEW max, insertHotBatch(S, max)
      PROVE  Conserved(m)'
  <2>1. archive' = archive
    BY <1>3 DEF insertHotBatch
  <2>2. CASE m \in Inserted(S)
    <3>1. hot'[m] = NewRow(max[m]) /\ born'[m] = born[m] + 1 /\ ~Present(m)
      BY <1>3, <2>2 DEF insertHotBatch, Inserted
    <3>2. Present(m)'
      BY <3>1, RowOrNone DEF Present, NewRow, NoRow
    <3>3. archive[m].PROCESSED \in Nat /\ archive[m].FAILED \in Nat
      BY DEF TypeOK, ArchiveCounts
    <3> QED
      BY <1>1, <2>1, <3>1, <3>2, <3>3 DEF Conserved
  <2>3. CASE m \notin Inserted(S)
    <3>1. hot'[m] = hot[m] /\ born'[m] = born[m]
      BY <1>3, <2>3 DEF insertHotBatch
    <3> QED
      BY <1>1, <2>1, <3>1 DEF Conserved, Present
  <2> QED
    BY <2>2, <2>3
<1>4. ASSUME NEW w \in Workers, NEW S \in SUBSET Messages, Claim(w, S)
      PROVE  Conserved(m)'
  <2>1. m \in S => hot[m] \in Row /\ hot'[m] = Claimed(hot[m], WorkerID[w])
    BY <1>4, RowOrNone DEF Claim, Claimable, TypeOK
  <2>2. m \notin S => hot'[m] = hot[m]
    BY <1>4 DEF Claim
  <2>3. Present(m)' <=> Present(m)
    BY <2>1, <2>2, ClaimedFields, RowOrNone, ProcessBatchAssumption DEF Present
  <2> QED
    BY <1>2, <1>4, <2>3 DEF Claim
<1>5. ASSUME NEW w \in Workers, NEW n \in Messages, TaskStep(w, n)
      PROVE  Conserved(m)'
  <2>1. born' = born
    BY <1>5 DEF TaskStep, Start, Skip, HandlerReturn, WorkerDeadLetter,
       markDoneAndArchive, markRetry, markFailed, WriteFails
  <2>2. CASE markDoneAndArchive(w, n)
    <3>1. CASE n = m /\ OwnedBy(hot[n], WorkerID[w])
      <4>1. hot'[m] = NoRow /\ archive'[m] = [archive[m] EXCEPT !.PROCESSED = @ + 1]
        BY <2>2, <3>1, OtherRows DEF markDoneAndArchive, TypeOK
      <4>2. Present(m)
        BY <3>1, RowOrNone DEF OwnedBy, Present
      <4> QED
        BY <1>1, <2>1, <4>1, <4>2, MovedIsConserved
    <3>2. CASE ~(n = m /\ OwnedBy(hot[n], WorkerID[w]))
      <4>1. hot'[m] = hot[m] /\ archive'[m] = archive[m]
        BY <2>2, <3>2, OtherRows DEF markDoneAndArchive, TypeOK
      <4> QED
        BY <1>2, <2>1, <4>1 DEF Present
    <3> QED
      BY <3>1, <3>2
  <2>3. CASE Start(w, n) \/ Skip(w, n) \/ HandlerReturn(w, n) \/ WriteFails(w, n)
    <3>1. hot' = hot /\ archive' = archive
      BY <2>3 DEF Start, Skip, HandlerReturn, WriteFails
    <3> QED
      BY <1>2, <2>1, <3>1 DEF Present
  <2>4. CASE WorkerDeadLetter(w, n) \/ markRetry(w, n) \/ markFailed(w, n)
    <3>1. archive' = archive
      BY <2>4 DEF WorkerDeadLetter, markRetry, markFailed
    <3>2. hot'[m] = hot[m] \/ (hot[m] \in Row /\ hot'[m] # NoRow)
      <4>1. CASE WorkerDeadLetter(w, n)
        <5>1. hot'[m] = hot[m] \/ (Present(m) /\ hot'[m] = MarkedFailed(hot[m]))
          BY <4>1, OtherRows DEF WorkerDeadLetter, DeadLettered, Present
        <5> QED
          BY <5>1, MarkedFailedFields, RowOrNone DEF Present, TypeOK
      <4>2. CASE markRetry(w, n)
        <5>1. \/ hot'[m] = hot[m]
              \/ /\ OwnedBy(hot[m], WorkerID[w])
                 /\ \E d \in Delays :
                      hot'[m] = MarkedRetry(hot[m], task[w][m].retry_count + 1, d)
          BY <4>2, OtherRows DEF markRetry
        <5>2. OwnedBy(hot[m], WorkerID[w]) => hot[m] \in Row
          BY RowOrNone DEF OwnedBy, TypeOK
        <5>3. \A r \in Row : \A k, d : MarkedRetry(r, k, d).status = "RETRY"
          BY DEF MarkedRetry, Row
        <5> QED
          BY <5>1, <5>2, <5>3, RowOrNone
      <4>3. CASE markFailed(w, n)
        <5>1. hot'[m] = hot[m] \/ (OwnedBy(hot[m], WorkerID[w])
                                     /\ hot'[m] = MarkedFailed(hot[m]))
          BY <4>3, OtherRows DEF markFailed
        <5>2. OwnedBy(hot[m], WorkerID[w]) => hot[m] \in Row
          BY RowOrNone DEF OwnedBy, TypeOK
        <5> QED
          BY <5>1, <5>2, MarkedFailedFields, RowOrNone
      <4> QED
        BY <2>4, <4>1, <4>2, <4>3
    <3> QED
      BY <1>2, <2>1, <3>1, <3>2, RowOrNone DEF Present
  <2> QED
    BY <1>5, <2>2, <2>3, <2>4 DEF TaskStep
<1>6. ASSUME NEW w \in Workers, Cancel(w) \/ Crash(w)
      PROVE  Conserved(m)'
  BY <1>2, <1>6 DEF Cancel, Crash, Present
<1>7. CASE RecoverStuck
  <2>1. \/ hot'[m] = hot[m]
        \/ hot[m] \in Row /\ hot'[m] = Recovered(hot[m])
    BY <1>7, RowOrNone DEF RecoverStuck, Stuck, TypeOK
  <2>2. Present(m)' <=> Present(m)
    BY <2>1, RecoveredFields, RowOrNone DEF Present
  <2> QED
    BY <1>2, <1>7, <2>2 DEF RecoverStuck
<1>8. ASSUME NEW S \in SUBSET Messages, ArchiveExhausted(S)
      PROVE  Conserved(m)'
  <2>1. CASE m \in S
    <3>1. Present(m)
      BY <1>8, <2>1, RowOrNone DEF ArchiveExhausted, Exhausted, Present
    <3> QED
      BY <1>1, <1>8, <2>1, <3>1, MovedIsConserved DEF ArchiveExhausted
  <2>2. CASE m \notin S
    BY <1>2, <1>8, <2>2 DEF ArchiveExhausted, Present
  <2> QED
    BY <2>1, <2>2
<1>9. ASSUME NEW n \in Messages, DeadLetter(n)
      PROVE  Conserved(m)'
  <2>1. hot'[m] = hot[m] \/ (Present(m) /\ hot'[m] = MarkedFailed(hot[m]))
    BY <1>9, OtherRows DEF DeadLetter, DeadLettered
  <2>2. Present(m)' <=> Present(m)
    BY <2>1, MarkedFailedFields, RowOrNone DEF Present, TypeOK
  <2> QED
    BY <1>2, <1>9, <2>2 DEF DeadLetter
<1>10. ASSUME NEW n \in Messages, RetryOne(n)
       PROVE  Conserved(m)'
  <2>1. hot'[m] = hot[m] \/ (hot[m] \in Row /\ hot'[m] = Requeued(hot[m]))
    BY <1>10, OtherRows, RowOrNone DEF RetryOne, TypeOK
  <2>2. Present(m)' <=> Present(m)
    BY <2>1, RequeuedFields, RowOrNone DEF Present
  <2> QED
    BY <1>2, <1>10, <2>2 DEF RetryOne
<1>11. CASE Tick
  <2>1. Present(m)' <=> Present(m)
    BY <1>11, AgedFields, RowOrNone DEF Tick, Present, TypeOK
  <2> QED
    BY <1>2, <1>11, <2>1 DEF Tick
<1>12. CASE UNCHANGED vars
  BY <1>2, <1>12 DEF vars, Present
<1>13. ASSUME NEW n \in Messages, Enqueue(n)
       PROVE  Conserved(m)'
  BY <1>3, <1>13 DEF Enqueue
<1>14. ASSUME NEW S \in SUBSET Messages, EnqueueBatch(S)
       PROVE  Conserved(m)'
  BY <1>3, <1>14 DEF EnqueueBatch
<1> QED
  BY <1>4, <1>5, <1>6, <1>7, <1>8, <1>9, <1>10, <1>11, <1>12, <1>13, <1>14 DEF Next

(* Every insertion is in hot or is one archive row, whatever workers,      *)
(* cleanup and operators do; distinct WorkerIDs are not needed.            *)
THEOREM NothingLost == Spec => []Conservation
<1>1. Init => Conservation
  BY DEF Init, Conservation, Conserved, Present
<1>2. TypeOK /\ TypeOK' /\ Conservation /\ [Next]_vars => Conservation'
  BY ConservedStep
<1> QED
  BY <1>1, <1>2, TypeCorrect, PTL DEF Spec

-----------------------------------------------------------------------------
(* ProcessBatch implements Lifecycle.  One lemma per edge: when a change   *)
(* of the row is that step of its life.                                    *)

(* The phase a row is in.                                                  *)
LEMMA Phases ==
    /\ PhaseOf["ABSENT"] = "absent"
    /\ PhaseOf["PENDING"] = "queued"
    /\ PhaseOf["RETRY"] = "queued"
    /\ PhaseOf["PROCESSING"] = "working"
    /\ PhaseOf["FAILED"] = "dead"
BY DEF PhaseOf

Moves(m) == LifeOf(m)' = LifeOf(m) \/ LC!Step(LifeOf(m), LifeOf(m)')

(* A row whose status, budget and history stay keeps its life: claims are  *)
(* stamped and timestamps aged behind it.                                  *)
LEMMA Stays ==
    ASSUME NEW m \in Messages, hot'[m].status = hot[m].status,
           Present(m)' <=> Present(m),
           Present(m) => hot'[m].max_retry = hot[m].max_retry,
           attempts'[m] = attempts[m], handled'[m] = handled[m],
           archive'[m] = archive[m]
    PROVE  Moves(m)
BY DEF Moves, LifeOf

(* insertHot submits.                                                      *)
LEMMA Submits ==
    ASSUME NEW m \in Messages, hot[m] = NoRow, hot'[m] \in Row,
           hot'[m].status = "PENDING",
           attempts'[m] = 0, handled'[m] = FALSE, archive'[m] = archive[m]
    PROVE  Moves(m)
<1>1. LifeOf(m) = [phase |-> "absent", tries |-> 0, budget |-> 0,
                   succeeded |-> FALSE, processed |-> archive[m].PROCESSED,
                   failed |-> archive[m].FAILED]
  BY Phases, RowOrNone DEF LifeOf, Present
<1>2. LifeOf(m)' = [phase |-> "queued", tries |-> 0, budget |-> hot'[m].max_retry,
                    succeeded |-> FALSE, processed |-> archive[m].PROCESSED,
                    failed |-> archive[m].FAILED]
  BY Phases, RowOrNone DEF LifeOf, Present
<1>3. hot'[m].max_retry \in Nat \ {0}
  BY DEF Row
<1>4. LC!Submit(LifeOf(m), LifeOf(m)')
  BY <1>1, <1>2, <1>3 DEF LC!Submit, LC!Life
<1> QED
  BY <1>4 DEF Moves, LC!Step

(* A change between two rows, in terms of its life.                        *)
LEMMA RowLife ==
    ASSUME NEW m \in Messages, hot[m] \in Row
    PROVE  LifeOf(m) = [phase |-> PhaseOf[hot[m].status], tries |-> attempts[m],
                        budget |-> hot[m].max_retry, succeeded |-> handled[m],
                        processed |-> archive[m].PROCESSED,
                        failed |-> archive[m].FAILED]
BY RowOrNone DEF LifeOf, Present

(* The same of the next state.                                             *)
LEMMA NextRowLife ==
    ASSUME NEW m \in Messages, hot'[m] \in Row
    PROVE  LifeOf(m)' = [phase |-> PhaseOf[hot'[m].status], tries |-> attempts'[m],
                         budget |-> hot'[m].max_retry, succeeded |-> handled'[m],
                         processed |-> archive'[m].PROCESSED,
                         failed |-> archive'[m].FAILED]
BY RowOrNone DEF LifeOf, Present

(* claimBatch starts an attempt.                                           *)
LEMMA Attempts ==
    ASSUME NEW m \in Messages, hot[m] \in Row, hot'[m] \in Row,
           hot[m].status \in {"PENDING", "RETRY"}, hot'[m].status = "PROCESSING",
           hot'[m].max_retry = hot[m].max_retry,
           attempts'[m] = attempts[m] + 1, attempts[m] <= hot[m].max_retry,
           handled'[m] = handled[m], archive'[m] = archive[m]
    PROVE  Moves(m)
<1>1. LC!Attempt(LifeOf(m), LifeOf(m)')
  BY RowLife, NextRowLife, Phases DEF LC!Attempt, LC!Living, LC!Life
<1> QED
  BY <1>1 DEF Moves, LC!Step

(* A handler's success under the current claim is a success of the life.   *)
LEMMA Succeeds ==
    ASSUME NEW m \in Messages, hot[m] \in Row, hot'[m] = hot[m],
           hot[m].status = "PROCESSING",
           attempts'[m] = attempts[m], handled'[m] = TRUE, archive'[m] = archive[m]
    PROVE  Moves(m)
<1>1. LC!Succeed(LifeOf(m), LifeOf(m)')
  BY RowLife, NextRowLife, Phases DEF LC!Succeed, LC!Living, LC!Life
<1> QED
  BY <1>1 DEF Moves, LC!Step

(* markRetry and RecoverStuck give a claimed message back to the queue.    *)
LEMMA Yields ==
    ASSUME NEW m \in Messages, hot[m] \in Row, hot'[m] \in Row,
           hot[m].status = "PROCESSING", hot'[m].status = "RETRY",
           hot'[m].max_retry = hot[m].max_retry, attempts[m] <= hot[m].max_retry,
           attempts'[m] = attempts[m], handled'[m] = handled[m],
           archive'[m] = archive[m]
    PROVE  Moves(m)
<1>1. LC!Yield(LifeOf(m), LifeOf(m)')
  BY RowLife, NextRowLife, Phases DEF LC!Yield, LC!Living, LC!Life
<1> QED
  BY <1>1 DEF Moves, LC!Step

(* markFailed, RecoverStuck past the budget and deadLetter bury it.        *)
LEMMA Buries ==
    ASSUME NEW m \in Messages, hot[m] \in Row, hot'[m] \in Row,
           hot'[m].status = "FAILED", hot'[m].max_retry = hot[m].max_retry,
           attempts'[m] = attempts[m], handled'[m] = handled[m],
           archive'[m] = archive[m]
    PROVE  Moves(m)
<1>1. PhaseOf[hot[m].status] # "absent"
  BY Phases DEF Row, Statuses
<1>2. LC!Bury(LifeOf(m), LifeOf(m)')
  BY <1>1, RowLife, NextRowLife, Phases DEF LC!Bury, LC!Living, LC!Life
<1> QED
  BY <1>2 DEF Moves, LC!Step

(* RetryOne revives a FAILED message with its whole budget.                *)
LEMMA Revives ==
    ASSUME NEW m \in Messages, hot[m] \in Row, hot'[m] \in Row,
           hot[m].status = "FAILED", hot'[m].status = "PENDING",
           hot'[m].max_retry = hot[m].max_retry,
           attempts'[m] = 0, handled'[m] = FALSE, archive'[m] = archive[m]
    PROVE  Moves(m)
<1>1. LC!Revive(LifeOf(m), LifeOf(m)')
  BY RowLife, NextRowLife, Phases DEF LC!Revive, LC!Living, LC!Life
<1> QED
  BY <1>1 DEF Moves, LC!Step

(* markDoneAndArchive completes a message whose attempt succeeded.         *)
LEMMA Completes ==
    ASSUME TypeOK, NEW m \in Messages, hot[m] \in Row, hot'[m] = NoRow,
           hot[m].status = "PROCESSING", handled[m],
           archive'[m] = [archive[m] EXCEPT !.PROCESSED = @ + 1]
    PROVE  Moves(m)
<1>1. archive[m] \in ArchiveCounts
  BY DEF TypeOK
<1>2. /\ archive'[m].PROCESSED = archive[m].PROCESSED + 1
      /\ archive'[m].FAILED = archive[m].FAILED
  BY <1>1 DEF ArchiveCounts
<1>3. LifeOf(m)' = LC!Absent(archive[m].PROCESSED + 1, archive[m].FAILED)
  BY <1>2, Phases, RowOrNone DEF LifeOf, Present, LC!Absent, LC!Life
<1>4. LC!Complete(LifeOf(m), LifeOf(m)')
  BY <1>3, RowLife, Phases DEF LC!Complete
<1> QED
  BY <1>4 DEF Moves, LC!Step

(* ArchiveExhausted discards a FAILED message.                             *)
LEMMA Discards ==
    ASSUME TypeOK, NEW m \in Messages, hot[m] \in Row, hot'[m] = NoRow,
           hot[m].status = "FAILED",
           archive'[m] = [archive[m] EXCEPT !.FAILED = @ + 1]
    PROVE  Moves(m)
<1>1. archive[m] \in ArchiveCounts
  BY DEF TypeOK
<1>2. /\ archive'[m].PROCESSED = archive[m].PROCESSED
      /\ archive'[m].FAILED = archive[m].FAILED + 1
  BY <1>1 DEF ArchiveCounts
<1>3. LifeOf(m)' = LC!Absent(archive[m].PROCESSED, archive[m].FAILED + 1)
  BY <1>2, Phases, RowOrNone DEF LifeOf, Present, LC!Absent, LC!Life
<1>4. LC!Discard(LifeOf(m), LifeOf(m)')
  BY <1>3, RowLife, Phases DEF LC!Discard
<1> QED
  BY <1>4 DEF Moves, LC!Step

-----------------------------------------------------------------------------

(* Every step of ProcessBatch is a step of each message's life, or leaves  *)
(* it.                                                                     *)
LEMMA LifeStep ==
    ASSUME UniqueWorkerIDs, TypeOK, TypeOK', ClaimInv, [Next]_vars, NEW n \in Messages
    PROVE  Moves(n)
<1> USE ProcessBatchAssumption, HotTableAssumption
<1>0. hot[n] \in Row \cup {NoRow} /\ hot'[n] \in Row \cup {NoRow}
  BY DEF TypeOK
<1>00. ASSUME hot'[n] = hot[n], attempts'[n] = attempts[n],
              handled'[n] = handled[n], archive'[n] = archive[n]
       PROVE  Moves(n)
  BY <1>00, Stays DEF Present
<1>1. ASSUME NEW S \in SUBSET Messages, NEW max \in [S -> Requested],
             insertHotBatch(S, max)
      PROVE  Moves(n)
  <2>1. CASE n \in Inserted(S)
    <3>1. n \in S /\ max[n] \in Int /\ hot[n] = NoRow
      BY <2>1 DEF Inserted, Present
    <3>2. /\ hot'[n] = NewRow(max[n]) /\ attempts'[n] = 0
          /\ handled'[n] = FALSE /\ archive' = archive
      BY <1>1, <2>1 DEF insertHotBatch
    <3> QED
      BY <3>1, <3>2, NewRowFields, Submits
  <2>2. CASE n \notin Inserted(S)
    <3>1. hot'[n] = hot[n] /\ attempts'[n] = attempts[n] /\ archive' = archive
      BY <1>1, <2>2 DEF insertHotBatch
    <3>2. handled'[n] = handled[n]
      <4>1. handled'[n] = (n \notin Inserted(S) /\ handled[n])
        BY <1>1 DEF insertHotBatch
      <4>2. handled[n] \in BOOLEAN
        BY DEF TypeOK
      <4> QED
        BY <2>2, <4>1, <4>2
    <3> QED
      BY <1>00, <3>1, <3>2
  <2> QED
    BY <2>1, <2>2
<1>2. ASSUME NEW w \in Workers, NEW S \in SUBSET Messages, Claim(w, S)
      PROVE  Moves(n)
  <2>1. CASE n \in S
    <3>1. hot[n] \in Row /\ hot[n].status \in {"PENDING", "RETRY"}
      BY <1>0, <1>2, <2>1, RowOrNone DEF Claim, Claimable
    <3>2. /\ hot'[n] = Claimed(hot[n], WorkerID[w])
          /\ attempts'[n] = attempts[n] + 1
          /\ handled' = handled /\ archive' = archive
      BY <1>2, <2>1 DEF Claim
    <3>3. attempts[n] <= hot[n].max_retry
      BY <3>1 DEF ClaimInv, RowInv
    <3>4. /\ hot'[n] \in Row /\ hot'[n].status = "PROCESSING"
          /\ hot'[n].max_retry = hot[n].max_retry
      BY <3>1, <3>2, ClaimedFields
    <3> QED
      BY <3>1, <3>2, <3>3, <3>4, Attempts
  <2>2. CASE n \notin S
    BY <1>00, <1>2, <2>2 DEF Claim
  <2> QED
    BY <2>1, <2>2
<1>3. ASSUME NEW w \in Workers, Cancel(w) \/ Crash(w)
      PROVE  Moves(n)
  BY <1>00, <1>3 DEF Cancel, Crash
<1>4. CASE RecoverStuck
  <2>1. attempts' = attempts /\ handled' = handled /\ archive' = archive
    BY <1>4 DEF RecoverStuck
  <2>2. CASE Stuck(hot[n])
    <3>1. hot[n] \in Row /\ hot[n].status = "PROCESSING"
      BY <1>0, <2>2, RowOrNone DEF Stuck
    <3>2. hot'[n] = Recovered(hot[n])
      BY <1>4, <2>2 DEF RecoverStuck
    <3>3. /\ hot[n].retry_count \in Nat /\ hot[n].max_retry \in Nat
          /\ hot[n].retry_count + 1 = attempts[n]
      BY <3>1 DEF ClaimInv, RowInv, Row
    <3>4. CASE hot[n].retry_count + 1 > hot[n].max_retry
      BY <2>1, <3>1, <3>2, <3>4, RecoveredFields, Buries
    <3>5. CASE ~(hot[n].retry_count + 1 > hot[n].max_retry)
      <4>1. attempts[n] <= hot[n].max_retry
        BY <3>3, <3>5
      <4> QED
        BY <2>1, <3>1, <3>2, <3>5, <4>1, RecoveredFields, Yields
    <3> QED
      BY <3>4, <3>5
  <2>3. CASE ~Stuck(hot[n])
    BY <1>00, <1>4, <2>1, <2>3 DEF RecoverStuck
  <2> QED
    BY <2>2, <2>3
<1>5. ASSUME NEW S \in SUBSET Messages, ArchiveExhausted(S)
      PROVE  Moves(n)
  <2>1. CASE n \in S
    <3>1. hot[n] \in Row /\ hot[n].status = "FAILED"
      BY <1>0, <1>5, <2>1, RowOrNone DEF ArchiveExhausted, Exhausted
    <3>2. hot'[n] = NoRow /\ archive'[n] = [archive[n] EXCEPT !.FAILED = @ + 1]
      BY <1>5, <2>1 DEF ArchiveExhausted
    <3> QED
      BY <3>1, <3>2, Discards
  <2>2. CASE n \notin S
    BY <1>00, <1>5, <2>2 DEF ArchiveExhausted
  <2> QED
    BY <2>1, <2>2
<1>6. ASSUME NEW m \in Messages, DeadLetter(m)
      PROVE  Moves(n)
  <2>1. /\ attempts' = attempts /\ handled' = handled /\ archive' = archive
        /\ hot'[n] = IF n = m THEN MarkedFailed(hot[n]) ELSE hot[n]
    BY <1>6, OtherRows DEF DeadLetter, DeadLettered
  <2>2. CASE n = m
    <3>1. hot[n] \in Row
      BY <1>0, <1>6, <2>2 DEF DeadLetter, Present
    <3> QED
      BY <2>1, <2>2, <3>1, MarkedFailedFields, Buries
  <2>3. CASE n # m
    BY <1>00, <2>1, <2>3
  <2> QED
    BY <2>2, <2>3
<1>7. ASSUME NEW m \in Messages, RetryOne(m)
      PROVE  Moves(n)
  <2>1. /\ archive' = archive
        /\ attempts'[n] = IF n = m THEN 0 ELSE attempts[n]
        /\ hot'[n] = IF n = m THEN Requeued(hot[n]) ELSE hot[n]
    BY <1>7, OtherRows DEF RetryOne, TypeOK
  <2>2. CASE n = m
    <3>1. hot[n] \in Row /\ hot[n].status = "FAILED"
      BY <1>0, <1>7, <2>2, RowOrNone DEF RetryOne
    <3>2. handled'[n] = FALSE
      BY <1>7, <2>2 DEF RetryOne, TypeOK
    <3> QED
      BY <2>1, <2>2, <3>1, <3>2, RequeuedFields, Revives
  <2>3. CASE n # m
    <3>1. handled'[n] = handled[n]
      BY <1>7, <2>3 DEF RetryOne, TypeOK
    <3> QED
      BY <1>00, <2>1, <2>3, <3>1
  <2> QED
    BY <2>2, <2>3
<1>8. CASE Tick
  <2>1. /\ attempts' = attempts /\ handled' = handled /\ archive' = archive
        /\ hot'[n] = IF Present(n) THEN Aged(hot[n]) ELSE NoRow
    BY <1>8 DEF Tick
  <2>2. CASE Present(n)
    <3>1. hot[n] \in Row
      BY <1>0, <2>2 DEF Present
    <3>2. Present(n)' /\ hot'[n].status = hot[n].status
                     /\ hot'[n].max_retry = hot[n].max_retry
      BY <2>1, <2>2, <3>1, AgedFields, RowOrNone DEF Present
    <3> QED
      BY <2>1, <2>2, <3>2, Stays
  <2>3. CASE ~Present(n)
    BY <1>00, <2>1, <2>3 DEF Present
  <2> QED
    BY <2>2, <2>3
<1>9. CASE UNCHANGED vars
  BY <1>00, <1>9 DEF vars
<1>10. ASSUME NEW w \in Workers, NEW m \in Messages, TaskStep(w, m)
       PROVE  Moves(n)
  <2>1. attempts' = attempts
    BY <1>10 DEF TaskStep, Start, Skip, HandlerReturn, WorkerDeadLetter,
       markDoneAndArchive, markRetry, markFailed, WriteFails
  <2>2. CASE Start(w, m) \/ Skip(w, m) \/ WriteFails(w, m)
    BY <1>00, <2>2 DEF Start, Skip, WriteFails
  <2>3. CASE HandlerReturn(w, m)
    <3>1. hot' = hot /\ archive' = archive
      BY <2>3 DEF HandlerReturn
    <3>2. CASE n = m /\ Holds(w, m) /\ handled' # handled
      <4>1. handled' = [handled EXCEPT ![m] = @ \/ Holds(w, m)]
        BY <2>3, <3>2 DEF HandlerReturn
      <4>2. handled'[n] = TRUE
        BY <3>2, <4>1 DEF TypeOK
      <4>3. hot[n] \in Row /\ hot[n].status = "PROCESSING"
        BY <1>0, <3>2, RowOrNone DEF Holds
      <4> QED
        BY <2>1, <3>1, <4>2, <4>3, Succeeds
    <3>3. CASE ~(n = m /\ Holds(w, m) /\ handled' # handled)
      <4>1. handled'[n] = handled[n]
        <5>1. CASE handled' = handled
          BY <5>1
        <5>2. CASE handled' # handled
          <6>1. handled' = [handled EXCEPT ![m] = @ \/ Holds(w, m)]
            BY <2>3, <5>2 DEF HandlerReturn
          <6>2. CASE n # m
            BY <6>1, <6>2 DEF TypeOK
          <6>3. CASE n = m
            <7>1. ~Holds(w, m)
              BY <3>3, <5>2, <6>3
            <7>2. handled[n] \in BOOLEAN /\ handled'[n] = (handled[n] \/ Holds(w, m))
              BY <6>1, <6>3 DEF TypeOK
            <7> QED
              BY <7>1, <7>2
          <6> QED
            BY <6>2, <6>3
        <5> QED
          BY <5>1, <5>2
      <4> QED
        BY <1>00, <2>1, <3>1, <4>1
    <3> QED
      BY <3>2, <3>3
  <2>4. ASSUME hot'[n] = MarkedFailed(hot[n]), hot[n] \in Row,
               handled' = handled, archive' = archive
        PROVE  Moves(n)
    BY <2>1, <2>4, MarkedFailedFields, Buries
  <2>5. CASE WorkerDeadLetter(w, m)
    <3>1. handled' = handled /\ archive' = archive
      BY <2>5 DEF WorkerDeadLetter
    <3>2. hot'[n] = hot[n] \/ (hot[n] \in Row /\ hot'[n] = MarkedFailed(hot[n]))
      BY <1>0, <2>5, OtherRows DEF WorkerDeadLetter, DeadLettered, Present
    <3> QED
      BY <1>00, <2>1, <2>4, <3>1, <3>2
  <2>6. CASE markFailed(w, m)
    <3>1. handled' = handled /\ archive' = archive
      BY <2>6 DEF markFailed
    <3>2. hot'[n] = hot[n] \/ (OwnedBy(hot[n], WorkerID[w])
                                 /\ hot'[n] = MarkedFailed(hot[n]))
      BY <2>6, OtherRows DEF markFailed
    <3>3. OwnedBy(hot[n], WorkerID[w]) => hot[n] \in Row
      BY <1>0, RowOrNone DEF OwnedBy
    <3> QED
      BY <1>00, <2>1, <2>4, <3>1, <3>2, <3>3
  <2>7. CASE markDoneAndArchive(w, m)
    <3>1. handled' = handled
      BY <2>7 DEF markDoneAndArchive
    <3>2. CASE n = m /\ OwnedBy(hot[n], WorkerID[w])
      <4>1. hot'[n] = NoRow /\ archive'[n] = [archive[n] EXCEPT !.PROCESSED = @ + 1]
        BY <2>7, <3>2, OtherRows DEF markDoneAndArchive, TypeOK
      <4>2. Holds(w, n) /\ hot[n] \in Row
        BY <2>7, <3>2, OwnerHolds DEF markDoneAndArchive, Active
      <4>3. handled[n]
        BY <2>7, <3>2, <4>2 DEF markDoneAndArchive, ClaimInv, TaskInv
      <4> QED
        BY <3>2, <4>1, <4>2, <4>3, Completes DEF OwnedBy
    <3>3. CASE ~(n = m /\ OwnedBy(hot[n], WorkerID[w]))
      <4>1. hot'[n] = hot[n] /\ archive'[n] = archive[n]
        BY <2>7, <3>3, OtherRows DEF markDoneAndArchive, TypeOK
      <4> QED
        BY <1>00, <2>1, <3>1, <4>1
    <3> QED
      BY <3>2, <3>3
  <2>8. CASE markRetry(w, m)
    <3>1. handled' = handled /\ archive' = archive
      BY <2>8 DEF markRetry
    <3>2. CASE hot'[n] = hot[n]
      BY <1>00, <2>1, <3>1, <3>2
    <3>3. CASE hot'[n] # hot[n]
      <4>1. PICK d \in Delays :
               SetRow(m, IF OwnedBy(hot[m], WorkerID[w])
                         THEN MarkedRetry(hot[m], task[w][m].retry_count + 1, d)
                         ELSE hot[m])
        BY <2>8 DEF markRetry
      <4>2. /\ n = m /\ OwnedBy(hot[n], WorkerID[w])
            /\ hot'[n] = MarkedRetry(hot[n], task[w][n].retry_count + 1, d)
        BY <3>3, <4>1, OtherRows
      <4>3. /\ hot[n] \in Row
            /\ task[w][n].retry_count = hot[n].retry_count
            /\ task[w][n].max_retry = hot[n].max_retry
        BY <2>8, <4>2, OwnerHolds DEF markRetry, Active
      <4>4. hot[n].retry_count \in Nat /\ hot[n].max_retry \in Nat /\ d \in Nat
        BY <4>3 DEF Row
      <4>5. attempts[n] = hot[n].retry_count + 1
        BY <4>2 DEF ClaimInv, RowInv, OwnedBy
      <4>6. ~(task[w][n].retry_count + 1 > task[w][n].max_retry)
        BY <2>8, <4>2 DEF markRetry, Spent
      <4>7. attempts[n] <= hot[n].max_retry
        BY <4>3, <4>4, <4>5, <4>6
      <4>8. /\ hot'[n] \in Row /\ hot'[n].status = "RETRY"
            /\ hot'[n].max_retry = hot[n].max_retry
        <5>1. task[w][n].retry_count + 1 \in Nat
          BY <4>3, <4>4
        <5>2. \A k \in Nat : /\ MarkedRetry(hot[n], k, d) \in Row
                             /\ MarkedRetry(hot[n], k, d).status = "RETRY"
                             /\ MarkedRetry(hot[n], k, d).max_retry = hot[n].max_retry
          <6>1. hot[n] \in Row /\ d \in Nat
            BY <4>3, <4>4
          <6> QED
            BY <6>1, MarkedRetryFields
        <5> DEFINE c == task[w][n].retry_count + 1
        <5>3. c \in Nat /\ hot'[n] = MarkedRetry(hot[n], c, d)
          BY <4>2, <5>1
        <5> HIDE DEF c
        <5> QED
          BY <5>2, <5>3
      <4> QED
        BY <2>1, <3>1, <4>2, <4>3, <4>7, <4>8, Yields DEF OwnedBy
    <3> QED
      BY <3>2, <3>3
  <2> QED
    BY <1>10, <2>2, <2>3, <2>5, <2>6, <2>7, <2>8 DEF TaskStep
<1>11. ASSUME NEW m \in Messages, Enqueue(m)
       PROVE  Moves(n)
  <2>1. PICK k \in Requested : insertHotBatch({m}, [x \in {m} |-> k])
    BY <1>11 DEF Enqueue
  <2> QED
    BY <2>1, <1>1
<1>12. ASSUME NEW S \in SUBSET Messages, EnqueueBatch(S)
       PROVE  Moves(n)
  BY <1>12, <1>1 DEF EnqueueBatch
<1> QED
  BY <1>2, <1>3, <1>4, <1>5, <1>6, <1>7, <1>8, <1>9, <1>10, <1>11, <1>12 DEF Next

LifeTyped == lifeBar \in [Messages -> LC!Lives]

(* A well-typed state has a well-typed life for every message.             *)
LEMMA LifeType ==
    ASSUME TypeOK
    PROVE  LifeTyped
<1> SUFFICES ASSUME NEW m \in Messages
             PROVE  LifeOf(m) \in LC!Lives
  BY DEF LifeTyped, lifeBar
<1>1. archive[m].PROCESSED \in Nat /\ archive[m].FAILED \in Nat
  BY DEF TypeOK, ArchiveCounts
<1>2. CASE hot[m] \in Row
  <2>1. PhaseOf[hot[m].status] \in {"absent", "queued", "working", "dead"}
    BY <1>2, Phases DEF Row, Statuses
  <2>2. /\ attempts[m] \in Nat /\ hot[m].max_retry \in Nat
        /\ handled[m] \in BOOLEAN
    BY <1>2 DEF TypeOK, Row
  <2> QED
    BY <1>1, <1>2, <2>1, <2>2, RowLife DEF LC!Lives
<1>3. CASE hot[m] = NoRow
  <2>1. LifeOf(m) = LC!Absent(archive[m].PROCESSED, archive[m].FAILED)
    BY <1>3, Phases, RowOrNone DEF LifeOf, Present, LC!Absent, LC!Life
  <2> QED
    BY <1>1, <2>1 DEF LC!Lives, LC!Absent, LC!Life
<1> QED
  BY <1>2, <1>3 DEF TypeOK

(* With distinct WorkerIDs the processing core implements the abstract     *)
(* life of its messages: claiming, retrying, recovering, dead-lettering,   *)
(* requeueing and archiving never leave it, for every fleet.               *)
THEOREM Implementation ==
    ASSUME UniqueWorkerIDs
    PROVE  Spec => ImplementsLifecycle
<1>1. Init => LC!Init
  <2> SUFFICES ASSUME Init
               PROVE  lifeBar = [m \in Messages |-> LC!Absent(0, 0)]
    BY DEF LC!Init
  <2>1. ASSUME NEW m \in Messages
        PROVE  LifeOf(m) = LC!Absent(0, 0)
    BY Phases, RowOrNone DEF Init, LifeOf, Present, LC!Absent, LC!Life
  <2> QED
    BY <2>1 DEF lifeBar
<1>2. ASSUME TypeOK, TypeOK', ClaimInv, LifeTyped', [Next]_vars
      PROVE  [LC!Next]_lifeBar
  <2>1. lifeBar' \in [Messages -> LC!Lives]
    BY <1>2 DEF LifeTyped
  <2>2. \A m \in Messages : lifeBar[m] = LifeOf(m) /\ lifeBar'[m] = LifeOf(m)'
    BY DEF lifeBar
  <2>3. \A m \in Messages : Moves(m)
    BY <1>2, LifeStep
  <2> QED
    BY <2>1, <2>2, <2>3 DEF LC!Next, Moves
<1>3. TypeOK => LifeTyped
  BY LifeType
<1> QED
  BY <1>1, <1>2, <1>3, TypeCorrect, ClaimInvariant, PTL
     DEF Spec, LC!Spec, ImplementsLifecycle
=============================================================================
