---------------------------- MODULE CleanupProofs ----------------------------
(***************************************************************************)
(* Proofs about Cleanup for any keys, messages, processes, batch sizes and *)
(* retentions.  What makes a purge's late DELETE harmless is that a ctid   *)
(* is never used again: a row that was expired when it was picked is       *)
(* expired still, or gone for good.                                        *)
(***************************************************************************)
EXTENDS Cleanup, FiniteSetTheorems, TLAPS

TablesOK ==
    /\ rows = [t \in Tables |-> rows[t]]
    /\ stored = [t \in Tables |-> stored[t]]
    /\ \A t \in Tables : /\ rows[t] \in [Ctids(t) -> Timestamp]
                         /\ stored[t] \in [KeysOf(t) -> Nat]

(* A ctid of the table that has been given to a row.                       *)
Used(t, c) == c[2] <= stored[t][c[1]]

(* Only ctids in use have rows.                                            *)
RowsUsed == \A t \in Tables : \A c \in In(t) : Used(t, c)

JobInv(b) ==
    /\ b.table \in Tables
    /\ b.picked \subseteq Ctids(b.table)
    /\ b.due \subseteq Ctids(b.table)
    /\ \A c \in b.picked \cup b.due :
         Used(b.table, c) /\ (c \in In(b.table) => c \in Expired(b.table))
    /\ b.pc = "delete" /\ Cardinality(b.picked) < PurgeBatch =>
         b.due \cap In(b.table) \subseteq b.picked

JobsInv == job = [j \in Jobs |-> job[j]] /\ \A j \in Jobs : JobInv(job[j])

CleanupInv == TablesOK /\ RowsUsed /\ JobsInv

(* A row that was there before the step is not replaced and not rejuvenated*)
(* by it, and its ctid stays used.                                         *)
Kept ==
    \A t \in Tables : \A c \in Ctids(t) : Used(t, c) =>
        /\ Used(t, c)'
        /\ c \in In(t)' => c \in In(t)
        /\ c \in Expired(t) /\ c \in In(t)' => c \in Expired(t)'

-----------------------------------------------------------------------------
(* The statements that change the tables.                                  *)

(* Constants, and the shape of a ctid.                                     *)
LEMMA Ctid ==
    ASSUME NEW t \in Tables, NEW c \in Ctids(t)
    PROVE  /\ c[1] \in KeysOf(t) /\ c[2] \in Nat /\ c[2] >= 1
           /\ Retention[t] \in Nat
           /\ NULL \notin Int
  BY CleanupAssumption, HotTableAssumption DEF Ctids, Tables

(* Storing rows uses new ctids and leaves the others alone.                *)
LEMMA StoreKeeps ==
    ASSUME TablesOK, RowsUsed, NEW u \in Tables, NEW S \in SUBSET KeysOf(u), Store(u, S)
    PROVE  TablesOK' /\ RowsUsed' /\ Kept
<1> USE DEF TablesOK
<1>1. /\ rows'[u] = [c \in Ctids(u) |->
            IF c[1] \in S /\ c[2] = stored[u][c[1]] + 1 THEN 0 ELSE rows[u][c]]
      /\ stored'[u] = [k \in KeysOf(u) |->
            IF k \in S THEN stored[u][k] + 1 ELSE stored[u][k]]
      /\ \A t \in Tables \ {u} : rows'[t] = rows[t] /\ stored'[t] = stored[t]
  BY DEF Store
<1>2. rows' = [t \in Tables |-> rows'[t]] /\ stored' = [t \in Tables |-> stored'[t]]
  BY DEF Store
<1>3. \A t \in Tables : /\ rows'[t] \in [Ctids(t) -> Timestamp]
                        /\ stored'[t] \in [KeysOf(t) -> Nat]
  <2>1. rows'[u] \in [Ctids(u) -> Timestamp]
    BY <1>1 DEF Timestamp
  <2>2. stored'[u] \in [KeysOf(u) -> Nat]
    BY <1>1
  <2> QED
    BY <1>1, <2>1, <2>2
<1>4. ASSUME NEW t \in Tables, NEW c \in Ctids(t)
      PROVE  /\ Used(t, c) => rows'[t][c] = rows[t][c] /\ stored'[t][c[1]] >= stored[t][c[1]]
             /\ rows'[t][c] # NULL => Used(t, c)'
  <2>1. c[1] \in KeysOf(t) /\ c[2] \in Nat /\ stored[t][c[1]] \in Nat
    BY Ctid
  <2>2. rows[t][c] # NULL => Used(t, c)
    BY DEF RowsUsed, In
  <2>3. CASE t = u
    <3>1. /\ rows'[t][c] = IF c[1] \in S /\ c[2] = stored[t][c[1]] + 1 THEN 0 ELSE rows[t][c]
          /\ stored'[t][c[1]] = IF c[1] \in S THEN stored[t][c[1]] + 1 ELSE stored[t][c[1]]
      BY <1>1, <2>1, <2>3
    <3> QED
      BY <2>1, <2>2, <3>1 DEF Used
  <2>4. CASE t # u
    <3>1. rows'[t] = rows[t] /\ stored'[t] = stored[t]
      BY <1>1, <2>4
    <3> QED
      BY <2>1, <2>2, <3>1 DEF Used
  <2> QED
    BY <2>3, <2>4
<1>5. RowsUsed'
  BY <1>4 DEF RowsUsed, In
<1>6. Kept
  <2> SUFFICES ASSUME NEW t \in Tables, NEW c \in Ctids(t), Used(t, c)
               PROVE  /\ Used(t, c)'
                      /\ c \in In(t)' => c \in In(t)
                      /\ c \in Expired(t) /\ c \in In(t)' => c \in Expired(t)'
    BY DEF Kept
  <2>1. stored[t][c[1]] \in Nat /\ stored'[t][c[1]] \in Nat /\ c[2] \in Nat
    BY <1>3, Ctid
  <2>2. rows'[t][c] = rows[t][c] /\ stored'[t][c[1]] >= stored[t][c[1]]
    BY <1>4
  <2> QED
    BY <2>1, <2>2 DEF Used, In, Expired
<1> QED
  BY <1>2, <1>3, <1>5, <1>6

(* Deleting rows leaves the others alone.                                  *)
LEMMA RemoveKeeps ==
    ASSUME TablesOK, RowsUsed, NEW u \in Tables, NEW S, Remove(u, S), UNCHANGED stored
    PROVE  /\ TablesOK' /\ RowsUsed' /\ Kept
           /\ In(u)' = In(u) \ S
           /\ \A t \in Tables \ {u} : In(t)' = In(t)
<1> USE DEF TablesOK
<1>1. /\ rows'[u] = [c \in Ctids(u) |-> IF c \in S THEN NULL ELSE rows[u][c]]
      /\ \A t \in Tables \ {u} : rows'[t] = rows[t]
  BY DEF Remove
<1>2. rows' = [t \in Tables |-> rows'[t]]
  BY DEF Remove
<1>3. \A t \in Tables : rows'[t] \in [Ctids(t) -> Timestamp]
  <2>1. rows'[u] \in [Ctids(u) -> Timestamp]
    BY <1>1 DEF Timestamp
  <2> QED
    BY <1>1, <2>1
<1>4. \A t \in Tables : \A c \in Ctids(t) : rows'[t][c] \in {rows[t][c], NULL}
  <2>1. \A c \in Ctids(u) : rows'[u][c] \in {rows[u][c], NULL}
    BY <1>1
  <2> QED
    BY <1>1, <2>1
<1>5. In(u)' = In(u) \ S /\ \A t \in Tables \ {u} : In(t)' = In(t)
  BY <1>1 DEF In
<1>6. RowsUsed'
  BY <1>4 DEF RowsUsed, In, Used
<1>7. Kept
  BY <1>4 DEF Kept, Used, In, Expired
<1> QED
  BY <1>2, <1>3, <1>5, <1>6, <1>7

(* Rows grow older.                                                        *)
LEMMA TickKeeps ==
    ASSUME TablesOK, RowsUsed, Tick
    PROVE  TablesOK' /\ RowsUsed' /\ Kept
<1> USE DEF TablesOK
<1>1. \A t \in Tables : rows'[t] = [c \in Ctids(t) |-> Older(rows[t][c], Retention[t])]
  BY DEF Tick
<1>2. rows' = [t \in Tables |-> rows'[t]] /\ UNCHANGED stored
  BY DEF Tick
<1>3. ASSUME NEW t \in Tables, NEW c \in Ctids(t)
      PROVE  /\ rows'[t][c] \in Timestamp
             /\ rows'[t][c] = NULL <=> rows[t][c] = NULL
             /\ After(rows[t][c], Retention[t]) => After(rows'[t][c], Retention[t])
  <2>1. rows'[t][c] = Older(rows[t][c], Retention[t])
    BY <1>1
  <2>2. rows[t][c] \in Timestamp
    OBVIOUS
  <2> QED
    BY <2>1, <2>2, Ctid DEF Older, After, Timestamp
<1>4. \A t \in Tables : rows'[t] \in [Ctids(t) -> Timestamp]
  BY <1>1, <1>3
<1>5. RowsUsed'
  BY <1>2, <1>3 DEF RowsUsed, In, Used
<1>6. Kept
  BY <1>2, <1>3 DEF Kept, Used, In, Expired
<1> QED
  BY <1>2, <1>4, <1>5, <1>6

(* Every step keeps the tables.                                            *)
LEMMA TablesStep ==
    ASSUME TablesOK, RowsUsed, JobsInv, [Next]_vars
    PROVE  TablesOK' /\ RowsUsed' /\ Kept
<1>0. ASSUME UNCHANGED <<rows, stored>> PROVE TablesOK' /\ RowsUsed' /\ Kept
  BY <1>0 DEF TablesOK, RowsUsed, Kept, Used, In, Expired
<1>1. ASSUME NEW k \in Keys, Receive(k) PROVE TablesOK' /\ RowsUsed' /\ Kept
  BY <1>1, StoreKeeps DEF Receive, KeysOf, Tables
<1>2. ASSUME NEW k \in Keys, RemoveDedup(k) PROVE TablesOK' /\ RowsUsed' /\ Kept
  BY <1>2, RemoveKeeps DEF RemoveDedup, Tables
<1>3. ASSUME NEW m \in Messages, Enqueue(m) \/ Claim(m) PROVE TablesOK' /\ RowsUsed' /\ Kept
  BY <1>0, <1>3 DEF Enqueue, Claim
<1>4. CASE Tick
  BY <1>4, TickKeeps
<1>5. ASSUME NEW j \in Jobs, PurgeDelete(j) PROVE TablesOK' /\ RowsUsed' /\ Kept
  <2>1. job[j].table \in Tables
    BY DEF JobsInv, JobInv
  <2> QED
    BY <1>5, <2>1, RemoveKeeps DEF PurgeDelete
<1>6. ASSUME NEW j \in Jobs, ArchiveExhausted(j) PROVE TablesOK' /\ RowsUsed' /\ Kept
  <2>1. PICK S \in SUBSET Messages : Store("archive", S)
    BY <1>6 DEF ArchiveExhausted
  <2>2. "archive" \in Tables /\ KeysOf("archive") = Messages
    BY DEF Tables, KeysOf
  <2> QED
    BY <2>1, <2>2, StoreKeeps
<1>7. ASSUME NEW j \in Jobs,
             \/ PurgeExpiredDedup(j) \/ PurgeOldArchive(j) \/ RunAll(j)
             \/ PurgeSelect(j) \/ RecoverStuck(j) \/ Error(j)
      PROVE  TablesOK' /\ RowsUsed' /\ Kept
  BY <1>0, <1>7 DEF PurgeExpiredDedup, PurgeOldArchive, RunAll, Begin, PurgeSelect,
                    RecoverStuck, Error
<1>8. CASE UNCHANGED vars
  BY <1>0, <1>8 DEF vars
<1> QED
  BY <1>1, <1>2, <1>3, <1>4, <1>5, <1>6, <1>7, <1>8 DEF Next, JobStep

-----------------------------------------------------------------------------
(* The calls.                                                              *)

(* What a call knows of the rows stays true while others take steps.       *)
LEMMA JobKept ==
    ASSUME Kept, NEW b, JobInv(b)
    PROVE  JobInv(b)'
<1>1. \A c \in b.picked \cup b.due : c \in Ctids(b.table) /\ Used(b.table, c)
  BY DEF JobInv
<1>2. \A c \in b.picked \cup b.due :
        /\ Used(b.table, c)'
        /\ c \in In(b.table)' => c \in In(b.table)
        /\ c \in Expired(b.table) /\ c \in In(b.table)' => c \in Expired(b.table)'
  BY <1>1 DEF JobInv, Kept
<1> QED
  BY <1>2 DEF JobInv

(* So does a call that has picked nothing and waits for nothing.           *)
LEMMA Nothing ==
    ASSUME NEW t \in Tables, NEW pc, pc # "delete", NEW all
    PROVE  JobInv(Job(pc, t, all, {}, {}))
  BY DEF JobInv, Job

(* There are finitely many rows.                                           *)
LEMMA FiniteTables ==
    ASSUME NEW t \in Tables
    PROVE  IsFiniteSet(Expired(t)) /\ Cardinality(Expired(t)) \in Nat
<1>1. IsFiniteSet(KeysOf(t))
  BY CleanupAssumption DEF KeysOf
<1>2. IsFiniteSet(1..MaxRows)
  BY CleanupAssumption, FS_Interval
<1>3. IsFiniteSet(Ctids(t))
  BY <1>1, <1>2, FS_Product DEF Ctids
<1>4. Expired(t) \subseteq Ctids(t)
  BY DEF Expired, In
<1>5. IsFiniteSet(Expired(t))
  BY <1>3, <1>4, FS_Subset
<1> QED
  BY <1>5, FS_CardinalityType

(* A SELECT that finds fewer rows than its limit finds them all.           *)
LEMMA ShortSelection ==
    ASSUME NEW t \in Tables, NEW S \in SUBSET Expired(t),
           Cardinality(S) = Least(Cardinality(Expired(t)), PurgeBatch),
           Cardinality(S) < PurgeBatch
    PROVE  S = Expired(t)
<1>1. Cardinality(S) = Cardinality(Expired(t))
  BY FiniteTables, CleanupAssumption DEF Least
<1> QED
  BY <1>1, FiniteTables, FS_Subset

(* The state of a call that takes a step, in terms of the new tables.      *)
LEMMA JobStepKeeps ==
    ASSUME TablesOK, RowsUsed, JobsInv, Kept, NEW j \in Jobs, JobStep(j)
    PROVE  /\ job' = [job EXCEPT ![j] = job'[j]]
           /\ JobInv(job[j])'
<1> DEFINE b == job[j]
<1>1. JobInv(b) /\ job = [i \in Jobs |-> job[i]]
  BY DEF JobsInv
<1>2. ASSUME NEW d, job' = [job EXCEPT ![j] = d], JobInv(d)
      PROVE  job' = [job EXCEPT ![j] = job'[j]] /\ JobInv(job[j])'
  <2>1. job'[j] = d
    BY <1>1, <1>2
  <2>2. JobInv(job[j])'
    <3>1. JobInv(d)'
      BY <1>2, JobKept
    <3> QED
      BY <2>1, <3>1 DEF JobInv
  <2> QED
    BY <1>2, <2>1, <2>2
<1>3. JobInv(NoJob)
  BY Nothing DEF NoJob, Tables
<1>4. ASSUME NEW t \in Tables, NEW all, Begin(j, t, all)
      PROVE  job' = [job EXCEPT ![j] = job'[j]] /\ JobInv(job[j])'
  <2>1. JobInv(Job("select", t, all, {}, Expired(t)))
    BY DEF JobInv, Job, RowsUsed, Expired, In
  <2> QED
    BY <1>2, <1>4, <2>1 DEF Begin
<1>5. CASE PurgeSelect(j)
  <2>1. PICK S \in SUBSET Expired(b.table) :
          /\ Cardinality(S) = Least(Cardinality(Expired(b.table)), PurgeBatch)
          /\ job' = [job EXCEPT ![j] = Job("delete", b.table, b.all, S, b.due)]
    BY <1>5 DEF PurgeSelect
  <2>2. b.table \in Tables
    BY <1>1 DEF JobInv
  <2>3. Cardinality(S) < PurgeBatch => S = Expired(b.table)
    BY <2>1, <2>2, ShortSelection
  <2>4. S \subseteq Ctids(b.table) /\ \A c \in S : Used(b.table, c)
    BY <2>1, <2>2 DEF RowsUsed, Expired, In
  <2>5. JobInv(Job("delete", b.table, b.all, S, b.due))
    BY <1>1, <2>3, <2>4 DEF JobInv, Job
  <2> QED
    BY <1>2, <2>1, <2>5
<1>6. CASE PurgeDelete(j)
  <2>1. PICK n : job' = [job EXCEPT ![j] = IF LastBatch(n) THEN AfterPurge(b, n)
                                           ELSE Job("select", b.table, b.all, {}, b.due)]
    BY <1>6 DEF PurgeDelete
  <2>2. JobInv(Job("select", b.table, b.all, {}, b.due))
    BY <1>1 DEF JobInv, Job
  <2>3. JobInv(AfterPurge(b, n))
    BY <1>1, <1>3, Nothing DEF AfterPurge, JobInv
  <2> QED
    BY <1>2, <2>1, <2>2, <2>3
<1>7. CASE RecoverStuck(j)
  <2>1. b.table \in Tables
    BY <1>1 DEF JobInv
  <2> QED
    BY <1>2, <1>7, <2>1, Nothing DEF RecoverStuck
<1>8. CASE ArchiveExhausted(j) \/ Error(j)
  BY <1>2, <1>3, <1>8 DEF ArchiveExhausted, Error
<1> QED
  BY <1>4, <1>5, <1>6, <1>7, <1>8
     DEF JobStep, PurgeExpiredDedup, PurgeOldArchive, RunAll, Tables

(* Every step keeps the invariant.                                         *)
LEMMA InvStep ==
    ASSUME CleanupInv, [Next]_vars PROVE CleanupInv'
<1>1. TablesOK' /\ RowsUsed' /\ Kept
  BY TablesStep DEF CleanupInv
<1>3. ASSUME UNCHANGED job PROVE JobsInv'
  <2>1. ASSUME NEW i \in Jobs PROVE JobInv(job[i])'
    <3>1. JobInv(job[i])
      BY DEF CleanupInv, JobsInv
    <3>2. \A d : d = job[i] => JobInv(d)'
      BY <1>1, <3>1, JobKept
    <3> QED
      BY <1>3, <3>2 DEF JobInv
  <2> QED
    BY <1>3, <2>1 DEF JobsInv, CleanupInv
<1>4. ASSUME NEW j \in Jobs, JobStep(j) PROVE JobsInv'
  <2>1. job' = [job EXCEPT ![j] = job'[j]] /\ JobInv(job[j])'
    BY <1>1, <1>4, JobStepKeeps DEF CleanupInv
  <2>2. ASSUME NEW i \in Jobs, i # j PROVE JobInv(job[i])'
    <3>1. job'[i] = job[i] /\ JobInv(job[i])
      BY <2>1, <2>2 DEF CleanupInv, JobsInv
    <3>2. \A d : d = job[i] => JobInv(d)'
      BY <1>1, <3>1, JobKept
    <3> QED
      BY <3>1, <3>2 DEF JobInv
  <2>3. job' = [i \in Jobs |-> job'[i]]
    BY <2>1 DEF CleanupInv, JobsInv
  <2> QED
    BY <2>1, <2>2, <2>3 DEF JobsInv
<1>5. (\E j \in Jobs : JobStep(j)) \/ UNCHANGED job
  BY DEF Next, vars, Receive, RemoveDedup, Enqueue, Claim, Tick
<1> QED
  BY <1>1, <1>3, <1>4, <1>5 DEF CleanupInv

-----------------------------------------------------------------------------
(* Type correctness, beyond what the invariant says of the tables.         *)

(* The statements cleanup meets write legal rows, and only a row has a     *)
(* status that they look for.                                              *)
LEMMA RowTypes ==
    /\ NewRow(1) \in Row
    /\ NoRow.status = "ABSENT"
    /\ \A r \in Row : /\ \A id \in IDs : Claimed(r, id) \in Row
                      /\ Recovered(r) \in Row
                      /\ Aged(r) \in Row
<1>1. NewRow(1) \in Row
  BY HotTableAssumption DEF NewRow, EffectiveMaxRetries, Row, Statuses, Timestamp
<1>2. ASSUME NEW r \in Row, NEW id \in IDs PROVE Claimed(r, id) \in Row
  BY DEF Claimed, Row, Statuses, Timestamp
<1>3. ASSUME NEW r \in Row PROVE Recovered(r) \in Row
  <2>1. r.retry_count + 1 \in Nat
    BY DEF Row
  <2>2. CASE r.retry_count + 1 > r.max_retry
    BY <2>1, <2>2 DEF Recovered, Row, Statuses, Timestamp
  <2>3. CASE ~(r.retry_count + 1 > r.max_retry)
    BY <2>1, <2>3 DEF Recovered, Row, Statuses, Timestamp
  <2> QED
    BY <2>2, <2>3
<1>4. ASSUME NEW r \in Row PROVE Aged(r) \in Row
  <2>1. \A x \in Timestamp, limit \in Nat : Older(x, limit) \in Timestamp
    BY HotTableAssumption DEF Older, Timestamp
  <2>2. \A x \in Timestamp : Nearer(x) \in Timestamp
    BY HotTableAssumption DEF Nearer, Timestamp
  <2> QED
    BY <2>1, <2>2, HotTableAssumption DEF Aged, Row
<1> QED
  BY <1>1, <1>2, <1>3, <1>4 DEF NoRow

(* Every step leaves legal rows in the hot table.                          *)
LEMMA HotStep ==
    ASSUME TypeOK, [Next]_vars
    PROVE  hot' \in [Messages -> Row \cup {NoRow}]
<1>0. hot \in [Messages -> Row \cup {NoRow}]
  BY DEF TypeOK
<1>1. ASSUME NEW m \in Messages, Enqueue(m) PROVE hot' \in [Messages -> Row \cup {NoRow}]
  BY <1>0, <1>1, RowTypes DEF Enqueue
<1>2. ASSUME NEW m \in Messages, Claim(m) PROVE hot' \in [Messages -> Row \cup {NoRow}]
  <2>1. hot[m] \in Row
    BY <1>0, <1>2, RowTypes DEF Claim, Claimable
  <2> QED
    BY <1>0, <1>2, <2>1, RowTypes DEF Claim
<1>3. CASE Tick
  BY <1>0, <1>3, RowTypes DEF Tick
<1>4. ASSUME NEW j \in Jobs, RecoverStuck(j) PROVE hot' \in [Messages -> Row \cup {NoRow}]
  <2>1. \A m \in Messages : Stuck(hot[m]) => hot[m] \in Row
    BY <1>0, RowTypes DEF Stuck
  <2> QED
    BY <1>0, <1>4, <2>1, RowTypes DEF RecoverStuck
<1>5. ASSUME NEW j \in Jobs, ArchiveExhausted(j) PROVE hot' \in [Messages -> Row \cup {NoRow}]
  BY <1>0, <1>5 DEF ArchiveExhausted
<1>6. ASSUME UNCHANGED hot PROVE hot' \in [Messages -> Row \cup {NoRow}]
  BY <1>0, <1>6
<1> QED
  BY <1>1, <1>2, <1>3, <1>4, <1>5, <1>6
     DEF Next, JobStep, Receive, RemoveDedup, PurgeExpiredDedup, PurgeOldArchive, RunAll,
         Begin, PurgeSelect, PurgeDelete, Error, vars

(* Every step leaves the number of rows stored under a key in its bound.   *)
LEMMA StoredStep ==
    ASSUME TypeOK, [Next]_vars
    PROVE  \A t \in Tables : stored'[t] \in [KeysOf(t) -> 0..MaxRows]
<1>1. ASSUME NEW u \in Tables, NEW S \in SUBSET KeysOf(u), Store(u, S), NEW t \in Tables
      PROVE  stored'[t] \in [KeysOf(t) -> 0..MaxRows]
  <2>1. CASE t = u
    <3>1. stored'[t] = [k \in KeysOf(t) |-> IF k \in S THEN stored[t][k] + 1 ELSE stored[t][k]]
      BY <1>1, <2>1 DEF Store, TypeOK
    <3>2. \A k \in KeysOf(t) : /\ stored[t][k] \in 0..MaxRows
                               /\ k \in S => stored[t][k] < MaxRows
      BY <1>1, <2>1 DEF Store, TypeOK
    <3>3. \A k \in KeysOf(t) :
            (IF k \in S THEN stored[t][k] + 1 ELSE stored[t][k]) \in 0..MaxRows
      BY <3>2, CleanupAssumption
    <3> QED
      BY <3>1, <3>3
  <2>2. CASE t # u
    BY <1>1, <2>2 DEF Store, TypeOK
  <2> QED
    BY <2>1, <2>2
<1>2. ASSUME NEW k \in Keys, Receive(k), NEW t \in Tables
      PROVE  stored'[t] \in [KeysOf(t) -> 0..MaxRows]
  <2>1. "dedup" \in Tables /\ {k} \in SUBSET KeysOf("dedup")
    BY DEF Tables, KeysOf
  <2> QED
    BY <1>1, <1>2, <2>1 DEF Receive
<1>3. ASSUME NEW j \in Jobs, ArchiveExhausted(j), NEW t \in Tables
      PROVE  stored'[t] \in [KeysOf(t) -> 0..MaxRows]
  <2>1. PICK S \in SUBSET Messages : Store("archive", S)
    BY <1>3 DEF ArchiveExhausted
  <2>2. "archive" \in Tables /\ KeysOf("archive") = Messages
    BY DEF Tables, KeysOf
  <2> QED
    BY <1>1, <2>1, <2>2
<1>4. ASSUME UNCHANGED stored, NEW t \in Tables
      PROVE  stored'[t] \in [KeysOf(t) -> 0..MaxRows]
  BY <1>4 DEF TypeOK
<1> QED
  BY <1>2, <1>3, <1>4
     DEF Next, JobStep, RemoveDedup, Enqueue, Claim, Tick, PurgeExpiredDedup,
         PurgeOldArchive, RunAll, Begin, PurgeSelect, PurgeDelete, RecoverStuck, Error, vars

(* A call on one of the tables, about rows of it, is well formed.          *)
LEMMA JobTyped ==
    ASSUME NEW pc \in {"idle", "select", "delete", "recover", "archive"}, NEW t \in Tables,
           NEW all \in BOOLEAN, NEW picked \in SUBSET Ctids(t), NEW due \in SUBSET Ctids(t)
    PROVE  Job(pc, t, all, picked, due) \in JobsOn("dedup") \cup JobsOn("archive")
<1>1. Job(pc, t, all, picked, due) \in JobsOn(t)
  BY Zenon DEF Job, JobsOn
<1> QED
  BY <1>1 DEF Tables

(* Every step leaves well-formed calls.                                    *)
LEMMA CallsStep ==
    ASSUME TypeOK, JobsInv, [Next]_vars
    PROVE  job' \in [Jobs -> JobsOn("dedup") \cup JobsOn("archive")]
<1> DEFINE Calls == JobsOn("dedup") \cup JobsOn("archive")
<1>0. job \in [Jobs -> Calls]
  BY DEF TypeOK
<1>1. ASSUME NEW j \in Jobs
      PROVE  /\ job[j].table \in Tables /\ job[j].all \in BOOLEAN
             /\ job[j].picked \in SUBSET Ctids(job[j].table)
             /\ job[j].due \in SUBSET Ctids(job[j].table)
  <2>1. job[j].all \in BOOLEAN
    BY <1>0, Zenon DEF JobsOn
  <2> QED
    BY <2>1 DEF JobsInv, JobInv
<1>2. ASSUME NEW j \in Jobs, NEW d \in Calls, job' = [job EXCEPT ![j] = d]
      PROVE  job' \in [Jobs -> Calls]
  BY <1>0, <1>2
<1>3. NoJob \in Calls
  BY JobTyped, Zenon DEF NoJob, Tables
<1> HIDE DEF Calls
<1>4. ASSUME NEW j \in Jobs, NEW t \in Tables, NEW all \in BOOLEAN, Begin(j, t, all)
      PROVE  job' \in [Jobs -> Calls]
  <2>1. Expired(t) \in SUBSET Ctids(t) /\ {} \in SUBSET Ctids(t)
    BY DEF Expired, In
  <2>2. Job("select", t, all, {}, Expired(t)) \in Calls
    BY <2>1, JobTyped DEF Calls
  <2> QED
    BY <1>2, <1>4, <2>2 DEF Begin
<1>5. ASSUME NEW j \in Jobs, PurgeSelect(j) PROVE job' \in [Jobs -> Calls]
  <2>1. PICK S \in SUBSET Expired(job[j].table) :
          job' = [job EXCEPT ![j] = Job("delete", job[j].table, job[j].all, S, job[j].due)]
    BY <1>5 DEF PurgeSelect
  <2>2. S \in SUBSET Ctids(job[j].table)
    BY DEF Expired, In
  <2>3. Job("delete", job[j].table, job[j].all, S, job[j].due) \in Calls
    BY <1>1, <2>2, JobTyped DEF Calls
  <2> QED
    BY <1>2, <2>1, <2>3
<1>6. ASSUME NEW j \in Jobs, PurgeDelete(j) PROVE job' \in [Jobs -> Calls]
  <2>1. PICK n : job' = [job EXCEPT ![j] =
                     IF LastBatch(n) THEN AfterPurge(job[j], n)
                     ELSE Job("select", job[j].table, job[j].all, {}, job[j].due)]
    BY <1>6 DEF PurgeDelete
  <2>2. Job("select", job[j].table, job[j].all, {}, job[j].due) \in Calls
    BY <1>1, JobTyped DEF Calls
  <2>3. Job("recover", job[j].table, TRUE, {}, {}) \in Calls
    BY <1>1, JobTyped DEF Calls
  <2>4. AfterPurge(job[j], n) \in Calls
    BY <1>3, <2>3 DEF AfterPurge
  <2> QED
    BY <1>2, <2>1, <2>2, <2>4
<1>7. ASSUME NEW j \in Jobs, RecoverStuck(j) PROVE job' \in [Jobs -> Calls]
  <2>1. Job("archive", job[j].table, job[j].all, {}, {}) \in Calls
    BY <1>1, JobTyped DEF Calls
  <2> QED
    BY <1>2, <1>7, <2>1 DEF RecoverStuck
<1>8. ASSUME NEW j \in Jobs, ArchiveExhausted(j) \/ Error(j) PROVE job' \in [Jobs -> Calls]
  BY <1>2, <1>3, <1>8 DEF ArchiveExhausted, Error
<1>9. ASSUME UNCHANGED job PROVE job' \in [Jobs -> Calls]
  BY <1>0, <1>9 DEF Calls
<1>10. job' \in [Jobs -> Calls]
  BY <1>4, <1>5, <1>6, <1>7, <1>8, <1>9
     DEF Next, JobStep, Receive, RemoveDedup, Enqueue, Claim, Tick, PurgeExpiredDedup,
         PurgeOldArchive, RunAll, Tables, vars
<1> QED
  BY <1>10 DEF Calls

(* Every step leaves at most one dedup entry per message id: Receive finds *)
(* none before it stores one, and nothing else stores any.                 *)
LEMMA OneEntryStep ==
    ASSUME TypeOK, CleanupInv, [Next]_vars
    PROVE  \A c, d \in In("dedup")' : c[1] = d[1] => c = d
<1>1. ASSUME In("dedup")' \subseteq In("dedup")
      PROVE  \A c, d \in In("dedup")' : c[1] = d[1] => c = d
  BY <1>1 DEF TypeOK
<1>2. ASSUME NEW k \in Keys, Receive(k)
      PROVE  \A c, d \in In("dedup")' : c[1] = d[1] => c = d
  <2> DEFINE new == <<k, stored["dedup"][k] + 1>>
  <2>1. rows'["dedup"] = [c \in Ctids("dedup") |->
          IF c[1] \in {k} /\ c[2] = stored["dedup"][c[1]] + 1 THEN 0 ELSE rows["dedup"][c]]
    BY <1>2 DEF Receive, Store, TypeOK, Tables
  <2>2. ASSUME NEW c \in In("dedup")' PROVE c = new \/ (c \in In("dedup") /\ c[1] # k)
    <3>1. c \in Ctids("dedup") /\ rows'["dedup"][c] # NULL
      BY <2>2 DEF In
    <3>2. c = <<c[1], c[2]>>
      BY <3>1 DEF Ctids
    <3>3. CASE c[1] \in {k} /\ c[2] = stored["dedup"][c[1]] + 1
      BY <3>2, <3>3
    <3>4. CASE ~(c[1] \in {k} /\ c[2] = stored["dedup"][c[1]] + 1)
      <4>1. c \in In("dedup")
        BY <2>1, <3>1, <3>4 DEF In
      <4> QED
        BY <1>2, <4>1 DEF Receive, Unseen
    <3> QED
      BY <3>3, <3>4
  <2>3. new[1] = k
    OBVIOUS
  <2> HIDE DEF new
  <2> QED
    BY <2>2, <2>3 DEF TypeOK
<1>3. ASSUME NEW k \in Keys, RemoveDedup(k) PROVE In("dedup")' \subseteq In("dedup")
  BY <1>3, RemoveKeeps DEF RemoveDedup, CleanupInv, Tables
<1>4. ASSUME NEW j \in Jobs, PurgeDelete(j) PROVE In("dedup")' \subseteq In("dedup")
  <2>1. job[j].table \in Tables
    BY DEF CleanupInv, JobsInv, JobInv
  <2> QED
    BY <1>4, <2>1, RemoveKeeps DEF PurgeDelete, CleanupInv, Tables
<1>5. ASSUME NEW j \in Jobs, ArchiveExhausted(j) PROVE In("dedup")' \subseteq In("dedup")
  <2>1. rows'["dedup"] = rows["dedup"]
    BY <1>5 DEF ArchiveExhausted, Store, TypeOK, Tables
  <2> QED
    BY <2>1 DEF In
<1>6. CASE Tick
  <2>1. \A c \in Ctids("dedup") :
          /\ rows'["dedup"][c] = Older(rows["dedup"][c], Retention["dedup"])
          /\ rows["dedup"][c] \in Timestamp
    BY <1>6 DEF Tick, TypeOK, Tables
  <2>2. \A c \in Ctids("dedup") : rows["dedup"][c] = NULL => rows'["dedup"][c] = NULL
    BY <2>1 DEF Older
  <2> QED
    BY <1>1, <2>2 DEF In
<1>7. ASSUME UNCHANGED rows PROVE In("dedup")' \subseteq In("dedup")
  BY <1>7 DEF In
<1> QED
  BY <1>1, <1>2, <1>3, <1>4, <1>5, <1>6, <1>7
     DEF Next, JobStep, Enqueue, Claim, PurgeExpiredDedup, PurgeOldArchive, RunAll, Begin,
         PurgeSelect, RecoverStuck, Error, vars

-----------------------------------------------------------------------------
(* Theorems.                                                               *)

(* The invariant holds of every state of the model.                        *)
LEMMA CleanupInvariant == Spec => []CleanupInv
<1>1. Init => CleanupInv
  <2> SUFFICES ASSUME Init PROVE CleanupInv
    OBVIOUS
  <2>1. \A t \in Tables : /\ rows[t] = [c \in Ctids(t) |-> NULL]
                          /\ stored[t] = [k \in KeysOf(t) |-> 0]
    BY DEF Init
  <2>2. TablesOK
    BY <2>1 DEF Init, TablesOK, Timestamp
  <2>3. RowsUsed
    BY <2>1 DEF RowsUsed, In
  <2>4. JobsInv
    BY Nothing DEF Init, JobsInv, NoJob, Tables
  <2> QED
    BY <2>2, <2>3, <2>4 DEF CleanupInv
<1> QED
  BY <1>1, InvStep, PTL DEF Spec

(* Rows, counters and calls keep their types, and dedup keeps its primary  *)
(* key, under every interleaving of the purges with Receive and Remove.    *)
THEOREM TypeCorrect == Spec => []TypeOK
<1>1. Init => TypeOK
  <2> SUFFICES ASSUME Init PROVE TypeOK
    OBVIOUS
  <2>1. \A t \in Tables : /\ rows[t] = [c \in Ctids(t) |-> NULL]
                          /\ stored[t] = [k \in KeysOf(t) |-> 0]
    BY DEF Init
  <2>2. \A t \in Tables : /\ rows[t] \in [Ctids(t) -> Timestamp]
                          /\ stored[t] \in [KeysOf(t) -> 0..MaxRows]
    <3>1. NULL \in Timestamp /\ 0 \in 0..MaxRows
      BY CleanupAssumption DEF Timestamp
    <3> QED
      BY <2>1, <3>1
  <2>3. NoJob \in JobsOn("dedup") \cup JobsOn("archive")
    BY JobTyped, Zenon DEF NoJob, Tables
  <2>4. job \in [Jobs -> JobsOn("dedup") \cup JobsOn("archive")]
    BY <2>3 DEF Init
  <2>5. \A c, d \in In("dedup") : c[1] = d[1] => c = d
    BY <2>1 DEF In, Tables
  <2> QED
    BY <2>2, <2>4, <2>5 DEF Init, TypeOK
<1>2. TypeOK /\ CleanupInv /\ CleanupInv' /\ [Next]_vars => TypeOK'
  <2> SUFFICES ASSUME TypeOK, CleanupInv, CleanupInv', [Next]_vars PROVE TypeOK'
    OBVIOUS
  <2>1. TablesOK'
    BY DEF CleanupInv
  <2>2. hot' \in [Messages -> Row \cup {NoRow}]
    BY HotStep
  <2>3. \A t \in Tables : stored'[t] \in [KeysOf(t) -> 0..MaxRows]
    BY StoredStep
  <2>4. job' \in [Jobs -> JobsOn("dedup") \cup JobsOn("archive")]
    BY CallsStep DEF CleanupInv
  <2>5. \A c, d \in In("dedup")' : c[1] = d[1] => c = d
    BY OneEntryStep
  <2> QED
    BY <2>1, <2>2, <2>3, <2>4, <2>5 DEF TypeOK, TablesOK
<1> QED
  BY <1>1, <1>2, CleanupInvariant, PTL DEF Spec

(* Purges of any number of processes, with entries removed and stored anew *)
(* between the SELECT and the DELETE, delete expired rows only.            *)
THEOREM PurgesExpiredOnly == Spec => ExpiredOnly
<1>1. ASSUME CleanupInv, NEW j \in Jobs, NEW t \in Tables, PurgeDelete(j)
      PROVE  In(t) \ In(t)' \subseteq Expired(t)
  <2>1. JobInv(job[j]) /\ TablesOK /\ RowsUsed
    BY <1>1 DEF CleanupInv, JobsInv
  <2>2. PICK u \in Tables : u = job[j].table
    BY <2>1 DEF JobInv
  <2>3. Remove(u, Deleted(u, job[j].picked)) /\ UNCHANGED stored
    BY <1>1, <2>2 DEF PurgeDelete
  <2>4. /\ In(u)' = In(u) \ Deleted(u, job[j].picked)
        /\ \A v \in Tables \ {u} : In(v)' = In(v)
    BY <2>1, <2>3, RemoveKeeps
  <2> QED
    BY <2>1, <2>2, <2>4 DEF JobInv, Deleted
<1>2. CleanupInv /\ [Next]_vars =>
        [\A j \in Jobs, t \in Tables : PurgeDelete(j) => In(t) \ In(t)' \subseteq Expired(t)]_vars
  BY <1>1
<1> QED
  BY <1>2, CleanupInvariant, PTL DEF Spec, ExpiredOnly

(* A purge that ends drains what was expired at the call, for any batch    *)
(* size, unless another process deleted rows of its last selection.        *)
THEOREM PurgeDrains == Spec => PurgeComplete
<1>1. ASSUME CleanupInv, NEW j \in Jobs, NEW t \in Tables,
             PurgeDelete(j), job[j].table = t, job'[j].pc # "select",
             job[j].picked \subseteq In(t)
      PROVE  job[j].due \cap In(t)' = {}
  <2>1. JobInv(job[j]) /\ TablesOK /\ RowsUsed /\ job = [i \in Jobs |-> job[i]]
    BY <1>1 DEF CleanupInv, JobsInv
  <2>2. Deleted(t, job[j].picked) = job[j].picked
    BY <1>1 DEF Deleted
  <2>3. Remove(t, job[j].picked) /\ UNCHANGED stored
    BY <1>1, <2>2 DEF PurgeDelete
  <2>4. In(t)' = In(t) \ job[j].picked
    BY <2>1, <2>3, RemoveKeeps
  <2>5. Cardinality(job[j].picked) < PurgeBatch
    <3> DEFINE n == Cardinality(job[j].picked)
    <3>1. job' = [job EXCEPT ![j] = IF LastBatch(n) THEN AfterPurge(job[j], n)
                                    ELSE Job("select", t, job[j].all, {}, job[j].due)]
      BY <1>1, <2>2 DEF PurgeDelete
    <3> QED
      BY <1>1, <2>1, <3>1 DEF Job, LastBatch
  <2>6. job[j].due \cap In(t) \subseteq job[j].picked
    BY <1>1, <2>1, <2>5 DEF JobInv, PurgeDelete
  <2> QED
    BY <2>4, <2>6
<1>2. CleanupInv /\ [Next]_vars =>
        [\A j \in Jobs, t \in Tables :
            /\ PurgeDelete(j) /\ job[j].table = t
            /\ job'[j].pc # "select"
            /\ job[j].picked \subseteq In(t)
            => job[j].due \cap In(t)' = {}]_vars
  BY <1>1
<1> QED
  BY <1>2, CleanupInvariant, PTL DEF Spec, PurgeComplete
=============================================================================
