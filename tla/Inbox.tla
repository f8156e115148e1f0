------------------------------- MODULE Inbox -------------------------------
(***************************************************************************)
(* Messaging.Receive behind a source that delivers a message again and     *)
(* again until it is acknowledged.  A receiver calls Receive, commits its  *)
(* own transaction when it passed one, and then acknowledges.              *)
(*                                                                         *)
(* InTx[r] says whether receiver r passes a transaction.  If it does, what *)
(* Receive inserted is invisible until Commit, and a second insert of the  *)
(* same dedup key waits for it; if it does not, each INSERT commits on its *)
(* own.  The hot row is only present or absent here: Drain is the          *)
(* processing side, which takes rows away.                                 *)
(*                                                                         *)
(* AlwaysAutoCommits, RowsIgnored, AckNewOnly and FailHalfReset are faulty *)
(* variants of the definition that follows each.                           *)
(***************************************************************************)
EXTENDS Integers, FiniteSets

CONSTANTS Messages, Receivers, NULL,
          InTx,          \* receiver -> it passes its transaction to Receive
          DedupTTL,
          MaxReleases    \* bound: removals of one message's dedup entry

ASSUME InboxAssumption ==
    /\ NULL \notin Int
    /\ NULL \notin Messages
    /\ IsFiniteSet(Receivers)
    /\ InTx \in [Receivers -> BOOLEAN]
    /\ DedupTTL \in Nat
    /\ MaxReleases \in Nat

VARIABLES dedup,     \* message -> ticks since its expire_at was set, or NULL
          hot,       \* message -> it has a row in hot
          call,      \* receiver -> the call it is in
          acked,     \* message -> acknowledged to the source
          inserted,  \* history: hot rows inserted for a message
          released,  \* history: dedup entries purged or removed
          torn       \* history: Receive failed between its two commits

vars == <<dedup, hot, call, acked, inserted, released, torn>>

(*   begun    before insertDedup          deduped  before insertHot        *)
(*   stored   inserted, not committed     new, dup what Receive returned,  *)
(*                                        nothing left but to acknowledge  *)
Calls == [pc    : {"idle", "begun", "deduped", "stored", "new", "dup"},
          msg   : Messages \cup {NULL},
          age   : Nat,       \* ticks since expireAt was computed
          fresh : BOOLEAN]   \* insertHot did insert a row

NoCall == [pc |-> "idle", msg |-> NULL, age |-> 0, fresh |-> FALSE]

TypeOK ==
    /\ dedup \in [Messages -> Nat \cup {NULL}]
    /\ hot \in [Messages -> BOOLEAN]
    /\ call \in [Receivers -> Calls]
    /\ \A r \in Receivers :
         /\ call[r].pc # "idle" => call[r].msg \in Messages
         /\ call[r].pc = "stored" => InTx[r]
    /\ acked \in [Messages -> BOOLEAN]
    /\ inserted \in [Messages -> Nat]
    /\ released \in [Messages -> Nat]
    /\ torn \in [Messages -> BOOLEAN]

Init ==
    /\ dedup = [m \in Messages |-> NULL]
    /\ hot = [m \in Messages |-> FALSE]
    /\ call = [r \in Receivers |-> NoCall]
    /\ acked = [m \in Messages |-> FALSE]
    /\ inserted = [m \in Messages |-> 0]
    /\ released = [m \in Messages |-> 0]
    /\ torn = [m \in Messages |-> FALSE]

(* r has inserted the dedup key of m in a transaction that is still open.  *)
Holding(r, m) ==
    InTx[r] /\ call[r].msg = m /\ call[r].pc \in {"deduped", "stored"}

(* r has committed the dedup key of m on its own and not yet the hot row.  *)
Midway(r, m) == ~InTx[r] /\ call[r].msg = m /\ call[r].pc = "deduped"

-----------------------------------------------------------------------------
(* A delivery, possibly of a message already received or acknowledged.     *)
Deliver(r, m) ==
    /\ call[r].pc = "idle"
    /\ call' = [call EXCEPT ![r] = [pc |-> "begun", msg |-> m, age |-> 0, fresh |-> FALSE]]
    /\ UNCHANGED <<dedup, hot, acked, inserted, released, torn>>

AlwaysAutoCommits(r) == TRUE

(* run(m.store.db): each statement is a transaction of its own.            *)
AutoCommits(r) == ~InTx[r]

RowsIgnored(m) == TRUE

(* ON CONFLICT DO NOTHING affects a row.                                   *)
NotSeen(m) == dedup[m] = NULL

insertDedup(r, m) ==
    /\ call[r].pc = "begun" /\ call[r].msg = m
    /\ \A s \in Receivers : ~Holding(s, m)
    /\ call' = [call EXCEPT ![r].pc = IF NotSeen(m) THEN "deduped" ELSE "dup"]
    /\ dedup' = IF NotSeen(m) /\ AutoCommits(r) THEN [dedup EXCEPT ![m] = call[r].age] ELSE dedup
    /\ UNCHANGED <<hot, acked, inserted, released, torn>>

(* A row that is already in hot is kept, ON CONFLICT DO NOTHING, and one   *)
(* that another transaction has inserted is waited for.                    *)
insertHot(r, m) ==
    /\ call[r].pc = "deduped" /\ call[r].msg = m
    /\ \A s \in Receivers : call[s].msg = m => ~(call[s].pc = "stored" /\ call[s].fresh)
    /\ IF AutoCommits(r)
       THEN /\ call' = [call EXCEPT ![r].pc = "new"]
            /\ hot' = [hot EXCEPT ![m] = TRUE]
            /\ inserted' = [inserted EXCEPT ![m] = IF hot[m] THEN @ ELSE @ + 1]
       ELSE /\ call' = [call EXCEPT ![r].pc = "stored", ![r].fresh = ~hot[m]]
            /\ UNCHANGED <<hot, inserted>>
    /\ UNCHANGED <<dedup, acked, released, torn>>

(* The caller's own writes and COMMIT.                                     *)
Commit(r, m) ==
    /\ call[r].pc = "stored" /\ call[r].msg = m
    /\ dedup' = [dedup EXCEPT ![m] = call[r].age]
    /\ hot' = [hot EXCEPT ![m] = @ \/ call[r].fresh]
    /\ inserted' = [inserted EXCEPT ![m] = IF call[r].fresh THEN @ + 1 ELSE @]
    /\ call' = [call EXCEPT ![r].pc = "new"]
    /\ UNCHANGED <<acked, released, torn>>

AckNewOnly(r, m) ==
    /\ call[r].pc = "new" /\ call[r].msg = m
    /\ acked' = [acked EXCEPT ![m] = TRUE]
    /\ call' = [call EXCEPT ![r] = NoCall]
    /\ UNCHANGED <<dedup, hot, inserted, released, torn>>

(* Receive returned without error, and the caller's commit succeeded.      *)
Ack(r, m) ==
    /\ call[r].pc \in {"new", "dup"} /\ call[r].msg = m
    /\ acked' = [acked EXCEPT ![m] = TRUE]
    /\ call' = [call EXCEPT ![r] = NoCall]
    /\ UNCHANGED <<dedup, hot, inserted, released, torn>>

FailHalfReset(r) ==
    /\ call[r].pc # "idle"
    /\ call' = [call EXCEPT ![r].msg = NULL]
    /\ UNCHANGED <<dedup, hot, acked, inserted, released, torn>>

(* A statement fails, ctx is done, the caller rolls back or the process    *)
(* dies: an open transaction vanishes, nothing is acknowledged.            *)
Fail(r) ==
    /\ call[r].pc # "idle"
    /\ call' = [call EXCEPT ![r] = NoCall]
    /\ torn' = [m \in Messages |-> torn[m] \/ Midway(r, m)]
    /\ UNCHANGED <<dedup, hot, acked, inserted, released>>

-----------------------------------------------------------------------------

Drain(m) ==
    /\ hot[m]
    /\ hot' = [hot EXCEPT ![m] = FALSE]
    /\ UNCHANGED <<dedup, call, acked, inserted, released, torn>>

Release(S) ==
    /\ S # {}
    /\ \A m \in S : released[m] < MaxReleases
    /\ dedup' = [m \in Messages |-> IF m \in S THEN NULL ELSE dedup[m]]
    /\ released' = [m \in Messages |-> IF m \in S THEN released[m] + 1 ELSE released[m]]
    /\ UNCHANGED <<hot, call, acked, inserted, torn>>

Expired(m) == dedup[m] # NULL /\ dedup[m] > DedupTTL

(* One DELETE of purgeBatched.                                             *)
PurgeExpiredDedup(S) == (\A m \in S : Expired(m)) /\ Release(S)

RemoveDedup(m) == dedup[m] # NULL /\ Release({m})

Grown(t) == IF t <= DedupTTL THEN t + 1 ELSE t

Tick ==
    /\ dedup' = [m \in Messages |-> IF dedup[m] = NULL THEN NULL ELSE Grown(dedup[m])]
    /\ call' = [r \in Receivers |->
                  IF call[r].pc \in {"begun", "deduped", "stored"}
                  THEN [call[r] EXCEPT !.age = Grown(@)] ELSE call[r]]
    /\ UNCHANGED <<hot, acked, inserted, released, torn>>

-----------------------------------------------------------------------------

Receive(r, m) == insertDedup(r, m) \/ insertHot(r, m)

Next ==
    \/ \E r \in Receivers, m \in Messages :
         Deliver(r, m) \/ Receive(r, m) \/ Commit(r, m) \/ Ack(r, m)
    \/ \E r \in Receivers : Fail(r)
    \/ \E m \in Messages : Drain(m) \/ RemoveDedup(m)
    \/ \E S \in SUBSET Messages : PurgeExpiredDedup(S)
    \/ Tick

Spec == Init /\ [][Next]_vars

(* The source redelivers what is not acknowledged, and failures are not    *)
(* permanent: a step that is attempted again and again, by whichever       *)
(* receiver, succeeds at last.                                             *)
Fairness ==
    \A m \in Messages :
        /\ SF_vars(\E r \in Receivers : ~acked[m] /\ Deliver(r, m))
        /\ SF_vars(\E r \in Receivers : insertDedup(r, m))
        /\ SF_vars(\E r \in Receivers : insertHot(r, m))
        /\ SF_vars(\E r \in Receivers : Commit(r, m))
        /\ SF_vars(\E r \in Receivers : Ack(r, m))

FairSpec == Spec /\ Fairness

-----------------------------------------------------------------------------
(* Properties.                                                             *)

(* Something took the message m itself out of the unit Receive is meant to *)
(* be: a Receive without a transaction is, or has failed, between its two  *)
(* commits.                                                                *)
TornApart(m) == torn[m] \/ \E r \in Receivers : Midway(r, m)

(* While the dedup entry of a message exists, so that further deliveries   *)
(* are answered as duplicates, and once one was acknowledged, the message  *)
(* has been stored.  The only exception is a Receive with a nil tx between *)
(* its two inserts: callers with a transaction lose nothing, whatever      *)
(* fails between the inserts, the commit and the acknowledgement.          *)
KeptUnlessTorn ==
    \A m \in Messages :
        dedup[m] # NULL \/ acked[m] => inserted[m] > 0 \/ TornApart(m)

(* No delivery is acknowledged unless its message was stored.              *)
AckedMeansStored == \A m \in Messages : acked[m] => inserted[m] > 0

(* Redeliveries, also concurrent ones, put a message into hot once per     *)
(* life of its dedup entry.                                                *)
StoredOncePerEntry == \A m \in Messages : inserted[m] <= released[m] + 1

(* Every receiver passes its transaction to Receive.                       *)
Transactional == \A r \in Receivers : InTx[r]

(* The strengthening that makes the three properties above inductive.  An  *)
(* open transaction that has inserted a dedup key is the only one, and no  *)
(* committed entry exists beside it.  Insertions, and the calls without a  *)
(* transaction that still have theirs to make, are paid for by the entries *)
(* there are and were.  What Receive reported as done has been stored,     *)
(* also where it found the hot row already there.                          *)
Kept(m) == inserted[m] > 0 \/ TornApart(m)

KeyInv(r, m) ==
    Holding(r, m) =>
        /\ dedup[m] = NULL
        /\ \A s \in Receivers : Holding(s, m) => s = r
        /\ call[r].pc = "stored" /\ ~call[r].fresh => inserted[m] > 0

ReportInv(r, m) == call[r].pc \in {"new", "dup"} /\ call[r].msg = m => Kept(m)

Underway(m) == {r \in Receivers : Midway(r, m)}

StoreInv(m) ==
    /\ dedup[m] # NULL => Kept(m)
    /\ hot[m] => inserted[m] > 0
    /\ acked[m] => Kept(m)

PaidFor(m) ==
    inserted[m] + Cardinality(Underway(m)) <= released[m] + (IF dedup[m] = NULL THEN 0 ELSE 1)

EntryInv ==
    /\ \A r \in Receivers, m \in Messages : KeyInv(r, m) /\ ReportInv(r, m)
    /\ \A m \in Messages : StoreInv(m) /\ PaidFor(m)

(* Every message is eventually acknowledged, although Receive fails, rolls *)
(* back, waits for other receivers and answers duplicates.                 *)
EventuallyAcked == \A m \in Messages : <>acked[m]
=============================================================================
