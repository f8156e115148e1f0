-------------------------- MODULE DeadLetterQueue --------------------------
(***************************************************************************)
(* The bulk requeueing of the dead-letter queue, Messaging.RetryFailed and *)
(* Messaging.RetryAllFailed, composed with ProcessBatch.                   *)
(*                                                                         *)
(* Their statement is UPDATE ... WHERE message_id IN (SELECT ... LIMIT n), *)
(* with no row lock in the SELECT and no status in the outer WHERE.  Under *)
(* READ COMMITTED a row that another transaction changes between the       *)
(* statement's snapshot and its row lock is tested again only against the  *)
(* outer WHERE, which still holds; one that was deleted is passed over.    *)
(* So the SELECT and the UPDATE are two steps here.                        *)
(*                                                                         *)
(* EligibleUnfenced and LastBatchEarly are faulty variants of the          *)
(* definition that follows each.                                           *)
(***************************************************************************)
EXTENDS ProcessBatch

CONSTANTS Operators,
          Limit          \* RetryFailedOptions.Limit, RetryAllFailed's batch size

ASSUME DeadLetterQueueAssumption ==
    /\ Limit \in Nat \ {0}
    /\ IsFiniteSet(Messages)

VARIABLE call   \* operator -> its RetryFailed or RetryAllFailed call

allVars == <<vars, call>>

(*   select  about to run RetryFailed's statement (again)                  *)
(*   update  the statement has picked its rows, not yet locked them        *)
(* drain: the call is RetryAllFailed, and fence is the set of rows with    *)
(* processed_at <= cutoff.  history missed: a picked row was deleted.      *)
Calls == [pc     : {"idle", "select", "update"},
          drain  : BOOLEAN,
          fence  : SUBSET Messages,
          picked : SUBSET Messages,
          missed : BOOLEAN]

Call(pc, drain, fence, picked, missed) ==
    [pc |-> pc, drain |-> drain, fence |-> fence, picked |-> picked, missed |-> missed]

NoCall == Call("idle", FALSE, {}, {}, FALSE)

CallsOK == call \in [Operators -> Calls]

AllInit == Init /\ call = [o \in Operators |-> NoCall]

FailedRows == {m \in Messages : hot[m].status = "FAILED"}

-----------------------------------------------------------------------------

EligibleUnfenced(c) == FailedRows

Eligible(c) == IF c.drain THEN FailedRows \cap c.fence ELSE FailedRows

(* ORDER BY processed_at LIMIT: the rows that have been FAILED longest.    *)
OldestOf(S, E) ==
    /\ S \subseteq E
    /\ Cardinality(S) = IF Cardinality(E) < Limit THEN Cardinality(E) ELSE Limit
    /\ \A m \in S, n \in E \ S : hot[m].processed_at >= hot[n].processed_at

(* What any other step means for a call under way: a row that fails again, *)
(* or is dead-lettered again, has a processed_at past the cutoff, and the  *)
(* UPDATE will not find a deleted row, nor one inserted in its place.      *)
Followed(c) ==
    Call(c.pc, c.drain,
         {m \in c.fence : /\ m \in FailedRows'
                          /\ hot'[m].processed_at >= hot[m].processed_at},
         {m \in c.picked : Present(m)'},
         IF \E m \in c.picked : ~Present(m)' THEN TRUE ELSE c.missed)

Others(o, c) == call' = [p \in Operators |-> IF p = o THEN c ELSE Followed(call[p])]

-----------------------------------------------------------------------------

(* RetryAllFailed up to its loop: the cutoff is the time of the call.      *)
RetryAllFailed(o) ==
    /\ call[o].pc = "idle"
    /\ call' = [call EXCEPT ![o] = Call("select", TRUE, FailedRows, {}, FALSE)]
    /\ UNCHANGED vars

(* The SELECT of RetryFailed, called alone or by the loop.                 *)
RetryFailedSelect(o) ==
    /\ call[o].pc \in {"idle", "select"}
    /\ LET c == IF call[o].pc = "idle" THEN NoCall ELSE call[o]
       IN \E S \in SUBSET Messages :
            /\ OldestOf(S, Eligible(c))
            /\ call' = [call EXCEPT ![o] = Call("update", c.drain, c.fence, S, c.missed)]
    /\ UNCHANGED vars

LastBatchEarly(n) == n <= Limit

LastBatch(n) == n < Limit

(* Its UPDATE, and the loop's test of the number of rows affected.         *)
RetryFailedUpdate(o) ==
    LET c == call[o]
        done == ~c.drain \/ LastBatch(Cardinality(c.picked))
    IN /\ c.pc = "update"
       /\ hot' = [m \in Messages |-> IF m \in c.picked THEN Requeued(hot[m]) ELSE hot[m]]
       /\ attempts' = [m \in Messages |-> IF m \in c.picked THEN 0 ELSE attempts[m]]
       /\ handled' = [m \in Messages |-> m \notin c.picked /\ handled[m]]
       /\ UNCHANGED <<archive, task, cancelled, claimant, born>>
       /\ Others(o, IF done THEN NoCall
                    ELSE Call("select", TRUE, c.fence \ c.picked, {}, c.missed))

(* The statement fails, or its ctx is done: the call returns the error.    *)
RetryFailedError(o) ==
    /\ call[o].pc # "idle"
    /\ call' = [call EXCEPT ![o] = NoCall]
    /\ UNCHANGED vars

-----------------------------------------------------------------------------

OperatorStep(o) ==
    \/ RetryAllFailed(o)
    \/ RetryFailedSelect(o)
    \/ RetryFailedUpdate(o)
    \/ RetryFailedError(o)

AllNext ==
    \/ Next /\ call' = [o \in Operators |-> Followed(call[o])]
    \/ \E o \in Operators : OperatorStep(o)

AllSpec == AllInit /\ [][AllNext]_allVars

(* ProcessBatch's fairness, each step followed by the calls under way, and *)
(* an operator's call that has begun goes on.                              *)
Composed(A) == A /\ call' = [o \in Operators |-> Followed(call[o])]

AllFairness ==
    /\ WF_allVars(Composed(Tick))
    /\ WF_allVars(Composed(RecoverStuck))
    /\ \A w \in Healthy, m \in Messages : WF_allVars(Composed(TaskStep(w, m)))
    /\ \A m \in Messages :
         SF_allVars(Composed(\E w \in Healthy, S \in SUBSET Messages :
                                 m \in S /\ Claim(w, S)))
    /\ \A o \in Operators : WF_allVars(call[o].pc # "idle" /\ OperatorStep(o))

AllFairSpec == AllSpec /\ AllFairness

-----------------------------------------------------------------------------
(* Properties.                                                             *)

(* RetryAllFailed drains the rows FAILED at the call: when its loop ends   *)
(* without an error, none of them that has stayed FAILED since is left,    *)
(* unless ArchiveExhausted deleted a row it had picked (which makes a full *)
(* batch look like the last one).                                          *)
DrainComplete ==
    [][\A o \in Operators :
          /\ call[o].drain
          /\ call[o].pc = "update"
          /\ RetryFailedUpdate(o)
          /\ call'[o].pc = "idle"
          /\ ~call[o].missed
          => call[o].fence \cap FailedRows' = {}]_allVars

(* The fence at the cutoff ends the loop: RetryAllFailed returns although  *)
(* the rows it requeues may fail again at once.                            *)
RetryReturns == \A o \in Operators : call[o].pc # "idle" ~> call[o].pc = "idle"

(* The documented effect of RetryFailed and RetryAllFailed is FAILED to    *)
(* PENDING: they change no row that a worker has claimed since.            *)
OnlyFailedRequeued ==
    [][\A m \in Messages :
          hot[m].status = "PROCESSING" => hot'[m].status # "PENDING"]_allVars
=============================================================================
