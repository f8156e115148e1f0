------------------------------ MODULE Cleanup ------------------------------
(***************************************************************************)
(* The cleanup calls as several processes make them at once: RunAll, that  *)
(* is PurgeExpiredDedup, RecoverStuck and ArchiveExhausted in this order,  *)
(* each only if those before it returned no error, and the two purges on   *)
(* their own.                                                              *)
(*                                                                         *)
(* purgeBatched's statement is DELETE ... WHERE ctid IN (SELECT ctid ...   *)
(* LIMIT n) without a row lock in the SELECT, so what it picks and what it *)
(* deletes are two steps.  A ctid names one version of one row: here it is *)
(* <<k, g>>, the g-th row stored under key k.  A timestamp is the number   *)
(* of ticks since, and stops one past the threshold it is compared with.   *)
(*                                                                         *)
(* ReceiveRefreshing, UnseenUnlessExpired, DeletedByKey, LastBatchEarly    *)
(* and AfterPurgeIfAny are faulty variants of Receive, Unseen, Deleted,    *)
(* LastBatch and AfterPurge.                                               *)
(***************************************************************************)
EXTENDS HotTable, FiniteSets

CONSTANTS Keys,          \* message ids in the dedup table
          Messages,      \* message ids in the hot table
          Jobs,          \* processes that call the cleanup functions
          Cron,          \* the one of them that calls RunAll on a schedule
          PurgeBatch,    \* batch size of the purges
          ArchiveBatch,  \* batch size of ArchiveExhausted
          Retention,     \* table -> ticks after which its rows are purged
          MaxRows        \* bound: rows ever stored under one key

ASSUME CleanupAssumption ==
    /\ Cron \in Jobs
    /\ PurgeBatch \in Nat \ {0}
    /\ ArchiveBatch \in Nat \ {0}
    /\ Retention \in [{"dedup", "archive"} -> Nat]
    /\ MaxRows \in Nat
    /\ IsFiniteSet(Keys) /\ IsFiniteSet(Messages)

VARIABLES hot,     \* message -> row, NoRow when there is none
          rows,    \* the rows of dedup and archive: table -> ctid -> age
          stored,  \* table -> key -> number of rows stored under it so far
          job      \* process -> the call it is in

vars == <<hot, rows, stored, job>>

Tables == {"dedup", "archive"}

KeysOf(t) == IF t = "dedup" THEN Keys ELSE Messages

Ctids(t) == KeysOf(t) \X (1..MaxRows)

(*   select   about to run the purge's statement (again)                   *)
(*   delete   the statement has picked its rows, not yet deleted them      *)
(*   recover, archive   the later calls of RunAll                          *)
(* history due: the rows expired at the call.                              *)
JobsOn(t) == [pc     : {"idle", "select", "delete", "recover", "archive"},
              table  : {t},
              all    : BOOLEAN,
              picked : SUBSET Ctids(t),
              due    : SUBSET Ctids(t)]

Job(pc, t, all, picked, due) ==
    [pc |-> pc, table |-> t, all |-> all, picked |-> picked, due |-> due]

NoJob == Job("idle", "dedup", FALSE, {}, {})

In(t) == {c \in Ctids(t) : rows[t][c] # NULL}

Expired(t) == {c \in In(t) : After(rows[t][c], Retention[t])}

(* message_id is dedup's primary key.                                      *)
TypeOK ==
    /\ hot \in [Messages -> Row \cup {NoRow}]
    /\ rows = [t \in Tables |-> rows[t]]
    /\ stored = [t \in Tables |-> stored[t]]
    /\ \A t \in Tables :
         /\ rows[t] \in [Ctids(t) -> Timestamp]
         /\ stored[t] \in [KeysOf(t) -> 0..MaxRows]
    /\ job \in [Jobs -> JobsOn("dedup") \cup JobsOn("archive")]
    /\ \A c, d \in In("dedup") : c[1] = d[1] => c = d

Init ==
    /\ hot = [m \in Messages |-> NoRow]
    /\ rows = [t \in Tables |-> [c \in Ctids(t) |-> NULL]]
    /\ stored = [t \in Tables |-> [k \in KeysOf(t) |-> 0]]
    /\ job = [j \in Jobs |-> NoJob]

Store(t, S) ==
    /\ \A k \in S : stored[t][k] < MaxRows
    /\ stored' = [stored EXCEPT ![t] = [k \in KeysOf(t) |->
                    IF k \in S THEN stored[t][k] + 1 ELSE stored[t][k]]]
    /\ rows' = [rows EXCEPT ![t] = [c \in Ctids(t) |->
                  IF c[1] \in S /\ c[2] = stored[t][c[1]] + 1 THEN 0 ELSE rows[t][c]]]

Remove(t, S) ==
    rows' = [rows EXCEPT ![t] = [c \in Ctids(t) |-> IF c \in S THEN NULL ELSE rows[t][c]]]

-----------------------------------------------------------------------------
(* The rest of the system, as far as cleanup meets it.                     *)

ReceiveRefreshing(k) ==
    /\ IF \A c \in In("dedup") : c[1] # k
       THEN Store("dedup", {k})
       ELSE /\ rows' = [rows EXCEPT !["dedup"] = [c \in Ctids("dedup") |->
                          IF c \in In("dedup") /\ c[1] = k THEN 0 ELSE @[c]]]
            /\ UNCHANGED stored
    /\ UNCHANGED <<hot, job>>

UnseenUnlessExpired(k) == \A c \in In("dedup") \ Expired("dedup") : c[1] # k

Unseen(k) == \A c \in In("dedup") : c[1] # k

(* Receive stores a dedup entry unless there is one, expired or not.       *)
Receive(k) ==
    /\ Unseen(k)
    /\ Store("dedup", {k})
    /\ UNCHANGED <<hot, job>>

RemoveDedup(k) ==
    /\ \E c \in In("dedup") : c[1] = k
    /\ Remove("dedup", {c \in In("dedup") : c[1] = k})
    /\ UNCHANGED <<hot, stored, job>>

Enqueue(m) ==
    /\ hot[m] = NoRow
    /\ stored["archive"][m] < MaxRows
    /\ hot' = [hot EXCEPT ![m] = NewRow(1)]
    /\ UNCHANGED <<rows, stored, job>>

(* A worker claims the row and dies.                                       *)
Claim(m) ==
    /\ Claimable(hot[m])
    /\ \E id \in IDs : hot' = [hot EXCEPT ![m] = Claimed(@, id)]
    /\ UNCHANGED <<rows, stored, job>>

Tick ==
    /\ hot' = [m \in Messages |-> IF hot[m] = NoRow THEN NoRow ELSE Aged(hot[m])]
    /\ rows' = [t \in Tables |->
                  [c \in Ctids(t) |-> Older(rows[t][c], Retention[t])]]
    /\ UNCHANGED <<stored, job>>

-----------------------------------------------------------------------------
(* The calls.                                                              *)

Begin(j, t, all) ==
    /\ job[j].pc = "idle"
    /\ job' = [job EXCEPT ![j] = Job("select", t, all, {}, Expired(t))]
    /\ UNCHANGED <<hot, rows, stored>>

PurgeExpiredDedup(j) == Begin(j, "dedup", FALSE)

PurgeOldArchive(j) == Begin(j, "archive", FALSE)

RunAll(j) == Begin(j, "dedup", TRUE)

Least(a, b) == IF a < b THEN a ELSE b

(* purgeBatched: the SELECT ctid ... LIMIT of its statement.               *)
PurgeSelect(j) ==
    LET b == job[j]
    IN /\ b.pc = "select"
       /\ \E S \in SUBSET Expired(b.table) :
            /\ Cardinality(S) = Least(Cardinality(Expired(b.table)), PurgeBatch)
            /\ job' = [job EXCEPT ![j] = Job("delete", b.table, b.all, S, b.due)]
       /\ UNCHANGED <<hot, rows, stored>>

DeletedByKey(t, S) == {c \in In(t) : \E d \in S : c[1] = d[1]}

Deleted(t, S) == S \cap In(t)

LastBatchEarly(n) == n <= PurgeBatch

LastBatch(n) == n < PurgeBatch

AfterPurgeIfAny(b, n) ==
    IF b.all /\ n > 0 THEN Job("recover", b.table, TRUE, {}, {}) ELSE NoJob

(* RunAll goes on when the purge has returned no error.                    *)
AfterPurge(b, n) == IF b.all THEN Job("recover", b.table, TRUE, {}, {}) ELSE NoJob

(* purgeBatched: the DELETE, and the loop's test of the rows affected.     *)
PurgeDelete(j) ==
    LET b    == job[j]
        gone == Deleted(b.table, b.picked)
        n    == Cardinality(gone)
    IN /\ b.pc = "delete"
       /\ Remove(b.table, gone)
       /\ job' = [job EXCEPT ![j] = IF LastBatch(n) THEN AfterPurge(b, n)
                                    ELSE Job("select", b.table, b.all, {}, b.due)]
       /\ UNCHANGED <<hot, stored>>

RecoverStuck(j) ==
    /\ job[j].pc = "recover"
    /\ hot' = [m \in Messages |-> IF Stuck(hot[m]) THEN Recovered(hot[m]) ELSE hot[m]]
    /\ job' = [job EXCEPT ![j] = Job("archive", job[j].table, job[j].all, {}, {})]
    /\ UNCHANGED <<rows, stored>>

(* FOR UPDATE SKIP LOCKED: the rows it moves are its own until it commits. *)
(* Ages past the threshold are not told apart, so any may be the oldest.   *)
ArchiveExhausted(j) ==
    LET exhausted == {m \in Messages : Exhausted(hot[m])}
    IN /\ job[j].pc = "archive"
       /\ \E S \in SUBSET exhausted :
            /\ Cardinality(S) = Least(Cardinality(exhausted), ArchiveBatch)
            /\ Store("archive", S)
            /\ hot' = [m \in Messages |-> IF m \in S THEN NoRow ELSE hot[m]]
       /\ job' = [job EXCEPT ![j] = NoJob]

(* A statement fails or ctx is done: the call returns its error at once.   *)
Error(j) ==
    /\ job[j].pc # "idle"
    /\ job' = [job EXCEPT ![j] = NoJob]
    /\ UNCHANGED <<hot, rows, stored>>

-----------------------------------------------------------------------------

JobStep(j) ==
    \/ PurgeExpiredDedup(j)
    \/ PurgeOldArchive(j)
    \/ RunAll(j)
    \/ PurgeSelect(j)
    \/ PurgeDelete(j)
    \/ RecoverStuck(j)
    \/ ArchiveExhausted(j)
    \/ Error(j)

Next ==
    \/ \E k \in Keys : Receive(k) \/ RemoveDedup(k)
    \/ \E m \in Messages : Enqueue(m) \/ Claim(m)
    \/ \E j \in Jobs : JobStep(j)
    \/ Tick

Spec == Init /\ [][Next]_vars

(* Time passes, and one process, the caller's cron, calls RunAll again and *)
(* again; a statement of RunAll that it tries again and again succeeds at  *)
(* last, but any one pass may still end in an error at any of them.  The   *)
(* other processes may do what they like, or hang.                         *)
Fairness ==
    /\ WF_vars(Tick)
    /\ WF_vars(job[Cron].pc # "idle" /\ JobStep(Cron))
    /\ SF_vars(RunAll(Cron))
    /\ SF_vars(job[Cron].all /\ PurgeSelect(Cron))
    /\ SF_vars(job[Cron].all /\ PurgeDelete(Cron))
    /\ SF_vars(RecoverStuck(Cron))

FairSpec == Spec /\ Fairness

-----------------------------------------------------------------------------
(* Properties.                                                             *)

(* A purge deletes only expired rows, also when another process purged the *)
(* rows it had picked and their keys were stored again since: a message    *)
(* received again keeps its dedup entry for the whole DedupTTL.            *)
ExpiredOnly ==
    [][\A j \in Jobs, t \in Tables :
          PurgeDelete(j) => In(t) \ In(t)' \subseteq Expired(t)]_vars

(* purgeBatched drains: when its loop ends without an error, no row that   *)
(* was expired at the call is left, unless another process deleted rows    *)
(* that its last statement had picked (which makes a full batch look like  *)
(* the last one).  README.md:204 says otherwise of PurgeExpiredDedup and   *)
(* PurgeOldArchive: "process one batch per call - call periodically rather *)
(* than expecting a single call to drain everything".  The loop at         *)
(* cleanup.go:29-42 does drain; the README is right of ArchiveExhausted.   *)
PurgeComplete ==
    [][\A j \in Jobs, t \in Tables :
          /\ PurgeDelete(j) /\ job[j].table = t
          /\ job'[j].pc # "select"
          /\ job[j].picked \subseteq In(t)
          => job[j].due \cap In(t)' = {}]_vars

(* A claim whose worker is gone is taken back although RunAll recovers     *)
(* only after a purge that may fail, and stops at its first error.         *)
StuckRecovered == \A m \in Messages : Stuck(hot[m]) ~> ~Stuck(hot[m])

(* An expired entry does not block its message for ever, although two      *)
(* concurrent purges may each leave rows that the other one was to delete. *)
ExpiredPurged == \A c \in Ctids("dedup") : c \in Expired("dedup") ~> c \notin In("dedup")
=============================================================================
