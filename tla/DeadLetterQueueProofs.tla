----------------------- MODULE DeadLetterQueueProofs -----------------------
(***************************************************************************)
(* Ownership, retry budget, conservation and the action properties of      *)
(* ProcessBatch hold with any number of RetryFailed and RetryAllFailed     *)
(* calls beside it, although their UPDATE does not check the status of the *)
(* rows it writes; and RetryAllFailed drains.  ColumnsFollowStatus does    *)
(* not: that UPDATE leaves owner and claim time in a row it took away.     *)
(***************************************************************************)
EXTENDS DeadLetterQueue, MessageProofs, FiniteSetTheorems

-----------------------------------------------------------------------------
(* What a call knows of the table.                                         *)

(* The rows it will write are there; the rows its cutoff admits are        *)
(* FAILED; and once its statement has picked fewer rows than the limit, it *)
(* has picked all of those.                                                *)
CallInv(c) ==
    /\ \A m \in c.picked : Present(m)
    /\ \A m \in c.fence : hot[m].status = "FAILED"
    /\ c.pc = "update" /\ c.drain /\ ~c.missed /\ Cardinality(c.picked) < Limit =>
         c.fence \subseteq c.picked

CallsInv == \A o \in Operators : CallInv(call[o])

(* A call that another step leaves alone keeps its place, loses the rows   *)
(* that changed, and notes a picked row that was deleted.                  *)
LEMMA FollowedFields ==
    ASSUME NEW c \in Calls
    PROVE  /\ Followed(c) \in Calls
           /\ Followed(c).pc = c.pc
           /\ Followed(c).drain = c.drain
           /\ Followed(c).fence = {m \in c.fence : /\ m \in FailedRows'
                                       /\ hot'[m].processed_at >= hot[m].processed_at}
           /\ Followed(c).picked = {m \in c.picked : Present(m)'}
           /\ ~Followed(c).missed => ~c.missed /\ Followed(c).picked = c.picked
<1>1. /\ c.pc \in {"idle", "select", "update"}
      /\ c.drain \in BOOLEAN
      /\ c.fence \in SUBSET Messages
      /\ c.picked \in SUBSET Messages
      /\ c.missed \in BOOLEAN
  BY DEF Calls
<1> QED
  <2>1. CASE \E m \in c.picked : ~Present(m)'
    BY <1>1, <2>1 DEF Followed, Calls, Call
  <2>2. CASE \A m \in c.picked : Present(m)'
    BY <1>1, <2>2 DEF Followed, Calls, Call
  <2> QED
    BY <2>1, <2>2

(* RetryFailed's UPDATE writes present rows only, each of which becomes    *)
(* PENDING with its whole budget whatever its status was, and no other.    *)
LEMMA UpdatedRows ==
    ASSUME TypeOK, CallsOK, CallsInv, NEW o \in Operators, RetryFailedUpdate(o),
           NEW m \in Messages
    PROVE  /\ m \notin call[o].picked => /\ hot'[m] = hot[m]
                                         /\ attempts'[m] = attempts[m]
                                         /\ handled'[m] = handled[m]
           /\ m \in call[o].picked => /\ hot[m] \in Row
                                      /\ hot'[m] = Requeued(hot[m])
                                      /\ attempts'[m] = 0
<1>1. m \in call[o].picked => Present(m)
  BY DEF CallsInv, CallInv
<1>2. hot[m] \in Row \cup {NoRow}
  BY DEF TypeOK
<1>3. m \in call[o].picked => hot[m] \in Row
  BY <1>1, <1>2 DEF Present
<1>4. handled[m] \in BOOLEAN
  BY DEF TypeOK
<1>5. handled'[m] = (m \notin call[o].picked /\ handled[m])
  BY DEF RetryFailedUpdate
<1>6. m \notin call[o].picked => handled'[m] = handled[m]
  BY <1>4, <1>5, Zenon
<1> QED
  BY <1>3, <1>6 DEF RetryFailedUpdate

(* The tables and tasks keep their types.                                  *)
LEMMA AllTypeStep ==
    ASSUME TypeOK, CallsOK, CallsInv, [AllNext]_allVars
    PROVE  TypeOK'
<1>1. CASE Next
  BY <1>1, TypeStep
<1>2. CASE UNCHANGED vars
  BY <1>2, TypeStep
<1>3. ASSUME NEW o \in Operators, RetryFailedUpdate(o)
      PROVE  TypeOK'
  <2>1. hot' \in [Messages -> Row \cup {NoRow}]
    <3>1. \A m \in Messages : hot'[m] \in Row \cup {NoRow}
      BY <1>3, UpdatedRows, RequeuedFields DEF TypeOK
    <3>2. hot' = [m \in Messages |-> hot'[m]]
      BY <1>3 DEF RetryFailedUpdate
    <3> QED
      BY <3>1, <3>2
  <2>2. attempts' \in [Messages -> Nat]
    BY <1>3 DEF RetryFailedUpdate, TypeOK
  <2>3. handled' \in [Messages -> BOOLEAN]
    BY <1>3, Zenon DEF RetryFailedUpdate
  <2> QED
    BY <1>3, <2>1, <2>2, <2>3 DEF RetryFailedUpdate, TypeOK
<1> QED
  BY <1>1, <1>2, <1>3
     DEF AllNext, allVars, OperatorStep, RetryAllFailed, RetryFailedSelect,
         RetryFailedError

(* RetryFailed's UPDATE takes a row from a worker without harm: the row is *)
(* queued afresh and the worker's task no longer holds it.                 *)
LEMMA AllClaimInvStep ==
    ASSUME UniqueWorkerIDs, TypeOK, CallsOK, CallsInv, ClaimInv, [AllNext]_allVars
    PROVE  ClaimInv'
<1>1. CASE Next
  BY <1>1, ClaimInvStep
<1>2. CASE UNCHANGED vars
  BY <1>2, ClaimInvStep
<1>3. ASSUME NEW o \in Operators, RetryFailedUpdate(o)
      PROVE  ClaimInv'
  <2>1. ASSUME NEW m \in Messages
        PROVE  RowInv(m)'
    <3>1. CASE m \in call[o].picked
      BY <1>3, <3>1, UpdatedRows, RequeuedFields DEF RowInv, Row
    <3>2. CASE m \notin call[o].picked
      <4>1. /\ hot'[m] = hot[m]
            /\ attempts'[m] = attempts[m]
            /\ claimant' = claimant
        BY <1>3, <3>2, UpdatedRows DEF RetryFailedUpdate
      <4> QED
        BY <4>1 DEF ClaimInv, RowInv
    <3> QED
      BY <3>1, <3>2
  <2>2. ASSUME NEW w \in Workers, NEW m \in Messages
        PROVE  TaskInv(w, m)'
    <3>1. CASE m \in call[o].picked
      BY <1>3, <3>1, UpdatedRows, RequeuedFields DEF TaskInv, Holds
    <3>2. CASE m \notin call[o].picked
      <4>1. /\ hot'[m] = hot[m]
            /\ handled'[m] = handled[m]
            /\ claimant' = claimant
            /\ task' = task
        BY <1>3, <3>2, UpdatedRows DEF RetryFailedUpdate
      <4> QED
        BY <4>1, Zenon DEF ClaimInv, TaskInv, Holds, Active
    <3> QED
      BY <3>1, <3>2
  <2> QED
    BY <2>1, <2>2 DEF ClaimInv
<1> QED
  BY <1>1, <1>2, <1>3
     DEF AllNext, allVars, OperatorStep, RetryAllFailed, RetryFailedSelect,
         RetryFailedError

(* It neither inserts nor moves a row.                                     *)
LEMMA AllConservedStep ==
    ASSUME TypeOK, TypeOK', CallsOK, CallsInv, Conservation, [AllNext]_allVars
    PROVE  Conservation'
<1>1. CASE Next
  BY <1>1, ConservedStep
<1>2. CASE UNCHANGED vars
  BY <1>2, ConservedStep
<1>3. ASSUME NEW o \in Operators, RetryFailedUpdate(o), NEW m \in Messages
      PROVE  Conserved(m)'
  <2>1. Present(m)' <=> Present(m)
    BY <1>3, UpdatedRows, RequeuedFields, RowOrNone DEF Present
  <2>2. archive' = archive /\ born' = born
    BY <1>3 DEF RetryFailedUpdate
  <2> QED
    BY <2>1, <2>2 DEF Conservation, Conserved
<1> QED
  BY <1>1, <1>2, <1>3
     DEF AllNext, allVars, OperatorStep, RetryAllFailed, RetryFailedSelect,
         RetryFailedError, Conservation

-----------------------------------------------------------------------------
(* What becomes of the calls.                                              *)

(* Any step that is not its own preserves what a call knows.               *)
LEMMA FollowedKeeps ==
    ASSUME NEW c \in Calls, CallInv(c)
    PROVE  \A d : d = Followed(c) => CallInv(d)'
<1> TAKE d
<1> HAVE d = Followed(c)
<1>1. \A m \in d.picked : Present(m)'
  BY FollowedFields
<1>2. \A m \in d.fence : hot'[m].status = "FAILED"
  BY FollowedFields DEF FailedRows
<1>3. ASSUME d.pc = "update", d.drain, ~d.missed, Cardinality(d.picked) < Limit
      PROVE  d.fence \subseteq d.picked
  <2>1. /\ d.fence \subseteq c.fence
        /\ d.picked = c.picked
        /\ c.pc = "update" /\ c.drain /\ ~c.missed
    BY <1>3, FollowedFields
  <2> QED
    BY <1>3, <2>1 DEF CallInv
<1> QED
  BY <1>1, <1>2, <1>3 DEF CallInv

(* A statement that selects fewer rows than its limit selects them all.    *)
LEMMA ShortSelection ==
    ASSUME NEW S, NEW E \in SUBSET Messages, OldestOf(S, E), Cardinality(S) < Limit
    PROVE  S = E
<1>1. IsFiniteSet(E)
  BY DeadLetterQueueAssumption, FS_Subset
<1>2. Cardinality(E) \in Nat
  BY <1>1, FS_CardinalityType
<1>3. S \in SUBSET E /\ Cardinality(S) = Cardinality(E)
  BY <1>2, DeadLetterQueueAssumption DEF OldestOf
<1> QED
  BY <1>1, <1>3, FS_Subset

(* Each call goes on from what it knows, whoever takes the step.           *)
LEMMA CallStep ==
    ASSUME TypeOK, CallsOK, CallsInv, [AllNext]_allVars, NEW p \in Operators
    PROVE  call'[p] \in Calls /\ CallInv(call[p])'
<1>0. call[p] \in Calls /\ CallInv(call[p])
  BY DEF CallsOK, CallsInv
<1>1. CASE call'[p] = Followed(call[p])
  <2>1. call'[p] \in Calls
    BY <1>0, <1>1, FollowedFields
  <2>2. \A d : d = Followed(call[p]) => CallInv(d)'
    BY <1>0, FollowedKeeps DEF CallInv
  <2> QED
    BY <1>1, <2>1, <2>2 DEF CallInv
<1>2. CASE UNCHANGED vars /\ call'[p] = call[p]
  BY <1>0, <1>2 DEF CallInv, vars, Present
<1>3. CASE call'[p] = NoCall
  BY <1>3 DEF NoCall, Call, Calls, CallInv
<1>4. CASE RetryAllFailed(p)
  <2>1. call'[p] = Call("select", TRUE, FailedRows, {}, FALSE)
    BY <1>4 DEF RetryAllFailed, CallsOK
  <2> QED
    BY <1>4, <2>1 DEF RetryAllFailed, Call, Calls, CallInv, FailedRows, vars
<1>5. CASE RetryFailedSelect(p)
  <2> DEFINE c == IF call[p].pc = "idle" THEN NoCall ELSE call[p]
  <2>1. PICK S \in SUBSET Messages :
            /\ OldestOf(S, Eligible(c))
            /\ call'[p] = Call("update", c.drain, c.fence, S, c.missed)
    BY <1>5 DEF RetryFailedSelect, CallsOK
  <2>2. c \in Calls /\ \A m \in c.fence : hot[m].status = "FAILED"
    BY <1>0 DEF NoCall, Call, Calls, CallInv
  <2>3. Eligible(c) \in SUBSET Messages
    BY DEF Eligible, FailedRows
  <2>4. c.drain => c.fence \subseteq Eligible(c)
    BY <2>2 DEF Eligible, FailedRows, Calls
  <2>5. \A m \in S : hot[m].status = "FAILED"
    BY <2>1 DEF OldestOf, Eligible, FailedRows
  <2>6. \A m \in S : Present(m)
    BY <2>5, RowOrNone DEF Present
  <2>7. c.drain /\ Cardinality(S) < Limit => c.fence \subseteq S
    BY <2>1, <2>3, <2>4, ShortSelection
  <2> HIDE DEF c
  <2>8. /\ call'[p] \in Calls
        /\ call'[p].fence = c.fence
        /\ call'[p].picked = S
        /\ call'[p].drain = c.drain
    BY <2>1, <2>2 DEF Call, Calls
  <2>9. UNCHANGED hot
    BY <1>5 DEF RetryFailedSelect, vars
  <2> QED
    BY <2>2, <2>6, <2>7, <2>8, <2>9 DEF CallInv, Present
<1>6. CASE RetryFailedUpdate(p) /\ call'[p] # NoCall
  <2>1. call'[p] = Call("select", TRUE, call[p].fence \ call[p].picked, {}, call[p].missed)
    BY <1>6 DEF RetryFailedUpdate, Others
  <2>2. call'[p] \in Calls
    BY <1>0, <2>1 DEF Call, Calls
  <2>3. \A m \in call[p].fence \ call[p].picked : hot'[m].status = "FAILED"
    BY <1>0, <1>6, UpdatedRows DEF CallInv, Calls
  <2> QED
    BY <2>1, <2>2, <2>3 DEF Call, CallInv
<1>7. CASE Next /\ call' = [o \in Operators |-> Followed(call[o])]
  BY <1>1, <1>7
<1>8. ASSUME NEW o \in Operators, o # p, OperatorStep(o)
      PROVE  \/ UNCHANGED vars /\ call'[p] = call[p]
             \/ call'[p] = Followed(call[p])
  BY <1>8 DEF OperatorStep, RetryAllFailed, RetryFailedSelect, RetryFailedUpdate,
              RetryFailedError, Others, CallsOK
<1>9. CASE RetryFailedError(p)
  BY <1>3, <1>9 DEF RetryFailedError, CallsOK
<1>10. CASE OperatorStep(p)
  BY <1>3, <1>4, <1>5, <1>6, <1>9, <1>10 DEF OperatorStep
<1>11. CASE UNCHANGED allVars
  BY <1>2, <1>11 DEF allVars
<1> QED
  BY <1>1, <1>2, <1>7, <1>8, <1>10, <1>11 DEF AllNext

LEMMA CallsStep ==
    ASSUME TypeOK, CallsOK, CallsInv, [AllNext]_allVars
    PROVE  CallsOK' /\ CallsInv'
<1>1. \A p \in Operators : call'[p] \in Calls /\ CallInv(call[p])'
  BY CallStep
<1>2. call' = [p \in Operators |-> call'[p]]
  BY DEF CallsOK, AllNext, allVars, OperatorStep, RetryAllFailed, RetryFailedSelect,
         RetryFailedUpdate, RetryFailedError, Others
<1> QED
  BY <1>1, <1>2 DEF CallsOK, CallsInv

-----------------------------------------------------------------------------
(* The results.                                                            *)

(* What the calls know, and the types, in every reachable state.           *)
LEMMA CallsInvariant == AllSpec => [](TypeOK /\ CallsOK /\ CallsInv)
<1>1. AllInit => TypeOK /\ CallsOK /\ CallsInv
  BY HotTableAssumption DEF AllInit, Init, TypeOK, CallsOK, CallsInv, CallInv, NoCall, Call, Calls,
         ArchiveCounts, Tasks, Idle
<1>2. TypeOK /\ CallsOK /\ CallsInv /\ [AllNext]_allVars
        => (TypeOK /\ CallsOK /\ CallsInv)'
  BY AllTypeStep, CallsStep
<1> QED
  BY <1>1, <1>2, PTL DEF AllSpec

(* The claim invariant of ProcessBatch survives the bulk calls.            *)
LEMMA ClaimsInvariant ==
    ASSUME UniqueWorkerIDs
    PROVE  AllSpec => [](TypeOK /\ CallsOK /\ CallsInv /\ ClaimInv)
<1>1. AllInit => ClaimInv
  BY DEF AllInit, Init, ClaimInv, RowInv, TaskInv, Holds, Active, Idle, NoRow
<1>2. TypeOK /\ CallsOK /\ CallsInv /\ ClaimInv /\ [AllNext]_allVars => ClaimInv'
  BY AllClaimInvStep
<1> QED
  BY <1>1, <1>2, CallsInvariant, PTL DEF AllSpec

(* With distinct WorkerIDs, the ownership test of the guarded writes still *)
(* identifies the latest claim, although RetryFailed may set a row that a  *)
(* worker holds back to PENDING.                                           *)
THEOREM OwnerSurvivesRetryFailed ==
    ASSUME UniqueWorkerIDs
    PROVE  AllSpec => []OwnerHasLatestClaim
<1>1. TypeOK /\ ClaimInv => OwnerHasLatestClaim
  BY OwnerHolds DEF OwnerHasLatestClaim, ClaimInv, TaskInv, Holds
<1> QED
  BY <1>1, ClaimsInvariant, PTL

(* Requeueing a row that a worker holds gives it a fresh budget and resets *)
(* its count, and the worker's late write does not disturb either: no      *)
(* message is claimed more than max_retry + 1 times between queueings.     *)
THEOREM BudgetSurvivesRetryFailed ==
    ASSUME UniqueWorkerIDs
    PROVE  AllSpec => []RetryBudget
<1>1. TypeOK /\ ClaimInv => RetryBudget
  BY BudgetFollows
<1> QED
  BY <1>1, ClaimsInvariant, PTL

(* A step of the composition is one of ProcessBatch, changes only the      *)
(* calls, or is RetryFailed's UPDATE.                                      *)
LEMMA AllSteps ==
    ASSUME [AllNext]_allVars
    PROVE  [Next]_vars \/ \E o \in Operators : RetryFailedUpdate(o)
  BY DEF AllNext, allVars, OperatorStep, RetryAllFailed, RetryFailedSelect,
         RetryFailedError

(* A worker whose claim RetryFailed took away writes nothing either.       *)
THEOREM StaleHarmlessWithRetryFailed ==
    ASSUME UniqueWorkerIDs
    PROVE  AllSpec => StaleWorkerHarmless
<1>1. ASSUME TypeOK, ClaimInv, [AllNext]_allVars
      PROVE  \A w \in Workers, m \in Messages : StaleResultIgnored(w, m)
  <2>1. CASE [Next]_vars
    BY <1>1, <2>1, StaleStep
  <2>2. ASSUME NEW o \in Operators, RetryFailedUpdate(o)
        PROVE  \A w \in Workers, m \in Messages : StaleResultIgnored(w, m)
    BY <2>2 DEF RetryFailedUpdate, StaleResultIgnored
  <2> QED
    BY <1>1, <2>1, <2>2, AllSteps
<1>2. TypeOK /\ ClaimInv /\ [AllNext]_allVars =>
        [\A w \in Workers, m \in Messages : StaleResultIgnored(w, m)]_vars
  BY <1>1
<1> QED
  BY <1>2, ClaimsInvariant, PTL DEF AllSpec, StaleWorkerHarmless

(* Bulk requeueing cannot make an unhandled message PROCESSED: the success *)
(* of a claim it took away is forgotten with the claim.                    *)
THEOREM OnlyHandledWithRetryFailed ==
    ASSUME UniqueWorkerIDs
    PROVE  AllSpec => ProcessedWasHandled
<1>1. ASSUME TypeOK, ClaimInv, [AllNext]_allVars
      PROVE  \A m \in Messages : ArchivedWhenHandled(m)
  <2>1. CASE [Next]_vars
    BY <1>1, <2>1, HandledStep
  <2>2. ASSUME NEW o \in Operators, RetryFailedUpdate(o)
        PROVE  \A m \in Messages : ArchivedWhenHandled(m)
    BY <2>2 DEF RetryFailedUpdate, ArchivedWhenHandled
  <2> QED
    BY <1>1, <2>1, <2>2, AllSteps
<1>2. TypeOK /\ ClaimInv /\ [AllNext]_allVars =>
        [\A m \in Messages : ArchivedWhenHandled(m)]_vars
  BY <1>1
<1> QED
  BY <1>2, ClaimsInvariant, PTL DEF AllSpec, ProcessedWasHandled

(* Nor does it make the processing path give a message up early.           *)
THEOREM NeverGivesUpEarlyWithRetryFailed ==
    ASSUME UniqueWorkerIDs
    PROVE  AllSpec => GivesUpOnlyWhenSpent
<1>1. ASSUME TypeOK, CallsOK, CallsInv, ClaimInv, [AllNext]_allVars
      PROVE  \A m \in Messages : GivesUp(m) => attempts[m] = hot[m].max_retry + 1
  <2>1. CASE [Next]_vars
    BY <1>1, <2>1, GivesUpStep
  <2>2. ASSUME NEW o \in Operators, RetryFailedUpdate(o), NEW m \in Messages
        PROVE  ~GivesUp(m)
    BY <1>1, <2>2, UpdatedRows, RequeuedFields DEF GivesUp
  <2> QED
    BY <1>1, <2>1, <2>2, AllSteps
<1>2. TypeOK /\ CallsOK /\ CallsInv /\ ClaimInv /\ [AllNext]_allVars =>
        [\A m \in Messages : GivesUp(m) => attempts[m] = hot[m].max_retry + 1]_vars
  BY <1>1
<1> QED
  BY <1>2, ClaimsInvariant, PTL DEF AllSpec, GivesUpOnlyWhenSpent

(* No insertion is lost or duplicated by bulk requeueing.                  *)
THEOREM NothingLostByRetryFailed == AllSpec => []Conservation
<1>1. AllInit => Conservation
  BY DEF AllInit, Init, Conservation, Conserved, Present
<1>2. TypeOK /\ TypeOK' /\ CallsOK /\ CallsInv /\ Conservation /\ [AllNext]_allVars
        => Conservation'
  BY AllConservedStep
<1> QED
  BY <1>1, <1>2, CallsInvariant, PTL DEF AllSpec

(* RetryAllFailed ends only when the rows its cutoff admits are gone from  *)
(* the dead-letter queue, however many calls and workers run beside it,    *)
(* unless a row it had picked was archived under it.                       *)
THEOREM RetryAllFailedDrains == AllSpec => DrainComplete
<1> DEFINE Drained(o) ==
        /\ call[o].drain
        /\ call[o].pc = "update"
        /\ RetryFailedUpdate(o)
        /\ call'[o].pc = "idle"
        /\ ~call[o].missed
        => call[o].fence \cap FailedRows' = {}
<1>1. ASSUME TypeOK, CallsOK, CallsInv, [AllNext]_allVars, NEW o \in Operators
      PROVE  Drained(o)
  <2> USE <1>1
  <2> SUFFICES ASSUME call[o].drain, call[o].pc = "update", RetryFailedUpdate(o),
                      call'[o].pc = "idle", ~call[o].missed,
                      NEW m \in call[o].fence, m \in FailedRows'
               PROVE  FALSE
    OBVIOUS
  <2>1. Cardinality(call[o].picked) < Limit
    BY DEF RetryFailedUpdate, Others, LastBatch, Call
  <2>2. m \in call[o].picked
    BY <2>1 DEF CallsInv, CallInv
  <2>3. m \in Messages
    BY DEF FailedRows
  <2>4. hot'[m].status = "PENDING"
    BY <2>2, <2>3, UpdatedRows, RequeuedFields
  <2> QED
    BY <2>4 DEF FailedRows
<1>2. TypeOK /\ CallsOK /\ CallsInv /\ [AllNext]_allVars
        => [\A o \in Operators : Drained(o)]_allVars
  BY <1>1
<1> QED
  BY <1>2, CallsInvariant, PTL DEF AllSpec, DrainComplete
=============================================================================
