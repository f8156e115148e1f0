---------------------------- MODULE InboxProofs ----------------------------
(***************************************************************************)
(* Proofs about Inbox for any messages, any receivers, with and without a  *)
(* transaction of their own, and any bound.                                *)
(***************************************************************************)
EXTENDS Inbox, FiniteSetTheorems, TLAPS

(* Every state of the model is well typed: the step of each handler keeps  *)
(* the tables and the calls in their types.                                *)
THEOREM TypeCorrect == Spec => []TypeOK
<1>1. Init => TypeOK
  BY InboxAssumption DEF Init, TypeOK, Calls, NoCall
<1>2. TypeOK /\ [Next]_vars => TypeOK'
  <2> SUFFICES ASSUME TypeOK, [Next]_vars PROVE TypeOK'
    OBVIOUS
  <2> USE InboxAssumption DEF TypeOK
  <2>1. ASSUME NEW r \in Receivers, NEW m \in Messages, Deliver(r, m) PROVE TypeOK'
    BY <2>1 DEF Deliver, Calls
  <2>2. ASSUME NEW r \in Receivers, NEW m \in Messages, insertDedup(r, m) PROVE TypeOK'
    BY <2>2 DEF insertDedup, Calls
  <2>3. ASSUME NEW r \in Receivers, NEW m \in Messages, insertHot(r, m) PROVE TypeOK'
    <3>1. CASE AutoCommits(r)
      <4>1. /\ hot' = [hot EXCEPT ![m] = TRUE]
            /\ inserted' = [inserted EXCEPT ![m] = IF hot[m] THEN @ ELSE @ + 1]
            /\ UNCHANGED <<dedup, acked, released, torn>>
            /\ call' = [call EXCEPT ![r].pc = "new"]
        BY <2>3, <3>1 DEF insertHot
      <4>2. call' \in [Receivers -> Calls]
        BY <4>1 DEF Calls
      <4>3. \A s \in Receivers : /\ call'[s].pc # "idle" => call'[s].msg \in Messages
                                 /\ call'[s].pc = "stored" => InTx[s]
        BY <2>3, <4>1 DEF insertHot, Calls
      <4>4. hot' \in [Messages -> BOOLEAN]
        BY <4>1
      <4>5. inserted' \in [Messages -> Nat]
        <5>1. CASE hot[m]
          BY <4>1, <5>1
        <5>2. CASE ~hot[m]
          BY <4>1, <5>2
        <5> QED
          BY <5>1, <5>2
      <4> QED
        BY <4>1, <4>2, <4>3, <4>4, <4>5
    <3>2. CASE ~AutoCommits(r)
      <4>1. (~hot[m]) \in BOOLEAN
        OBVIOUS
      <4>2. PICK b \in BOOLEAN : call' = [call EXCEPT ![r].pc = "stored", ![r].fresh = b]
        BY <2>3, <3>2, <4>1 DEF insertHot
      <4>3. \A c \in Calls : [c EXCEPT !.pc = "stored", !.fresh = b] \in Calls
        BY <4>2 DEF Calls
      <4>4. call' = [call EXCEPT ![r] = [call[r] EXCEPT !.pc = "stored", !.fresh = b]]
        BY <4>2
      <4>5. call' \in [Receivers -> Calls]
        BY <4>3, <4>4
      <4>6. \A s \in Receivers : /\ call'[s].pc # "idle" => call'[s].msg \in Messages
                                 /\ call'[s].pc = "stored" => InTx[s]
        BY <2>3, <3>2, <4>4 DEF insertHot, AutoCommits, Calls
      <4> QED
        BY <2>3, <3>2, <4>5, <4>6 DEF insertHot
    <3> QED
      BY <3>1, <3>2
  <2>4. ASSUME NEW r \in Receivers, NEW m \in Messages, Commit(r, m) PROVE TypeOK'
    BY <2>4 DEF Commit, Calls
  <2>5. ASSUME NEW r \in Receivers, NEW m \in Messages, Ack(r, m) PROVE TypeOK'
    BY <2>5 DEF Ack, NoCall, Calls
  <2>6. ASSUME NEW r \in Receivers, Fail(r) PROVE TypeOK'
    <3>1. torn' \in [Messages -> BOOLEAN]
      BY <2>6 DEF Fail, Midway
    <3> QED
      BY <2>6, <3>1 DEF Fail, NoCall, Calls
  <2>7. ASSUME NEW m \in Messages, Drain(m) PROVE TypeOK'
    BY <2>7 DEF Drain
  <2>8. ASSUME NEW S \in SUBSET Messages, Release(S) PROVE TypeOK'
    BY <2>8 DEF Release
  <2>9. CASE Tick
    BY <2>9 DEF Tick, Grown, Calls
  <2>10. CASE UNCHANGED vars
    BY <2>10 DEF vars
  <2> QED
    BY <2>1, <2>2, <2>3, <2>4, <2>5, <2>6, <2>7, <2>8, <2>9, <2>10
       DEF Next, Receive, PurgeExpiredDedup, RemoveDedup
<1> QED
  BY <1>1, <1>2, PTL DEF Spec

(* The calls of Receive between their two commits can be counted.          *)
LEMMA UnderwaySize ==
    ASSUME NEW m \in Messages
    PROVE  IsFiniteSet(Underway(m)) /\ Cardinality(Underway(m)) \in Nat
BY InboxAssumption, FS_Subset, FS_CardinalityType DEF Underway

(* PaidFor outlives a step in which no further call of Receive gets midway *)
(* and no insertion, release or loss of an entry is counted.               *)
LEMMA PaidForKept ==
    ASSUME TypeOK, TypeOK', NEW m \in Messages, PaidFor(m),
           \A r \in Receivers : Midway(r, m)' => Midway(r, m),
           inserted'[m] = inserted[m], released'[m] = released[m],
           dedup[m] # NULL => dedup'[m] # NULL
    PROVE  PaidFor(m)'
<1>1. Underway(m)' \subseteq Underway(m)
  BY DEF Underway
<1>2. Cardinality(Underway(m)') <= Cardinality(Underway(m))
  BY <1>1, UnderwaySize, FS_Subset
<1>3. IsFiniteSet(Underway(m)') /\ Cardinality(Underway(m)') \in Nat
  BY <1>1, UnderwaySize, FS_Subset, FS_CardinalityType
<1> DEFINE k == Cardinality(Underway(m))
           l == Cardinality(Underway(m)')
<1>4. inserted[m] + k <= released[m] + (IF dedup[m] = NULL THEN 0 ELSE 1)
  BY DEF PaidFor
<1>5. k \in Nat /\ l \in Nat /\ l <= k /\ inserted[m] \in Nat /\ released[m] \in Nat
  BY <1>2, <1>3, UnderwaySize DEF TypeOK
<1> HIDE DEF k, l
<1>6. inserted'[m] + l <= released'[m] + (IF dedup'[m] = NULL THEN 0 ELSE 1)
  BY <1>4, <1>5
<1> QED
  BY <1>6 DEF PaidFor, l

(* What is stored stays so, and a torn message stays excused until it is   *)
(* stored: a call leaves the middle of Receive by failing or by inserting. *)
LEMMA KeptStays ==
    ASSUME TypeOK, TypeOK', NEW m \in Messages, Kept(m),
           inserted'[m] >= inserted[m],
           torn[m] => torn'[m],
           \A r \in Receivers :
               Midway(r, m) => Midway(r, m)' \/ torn'[m] \/ inserted'[m] > 0
    PROVE  Kept(m)'
BY DEF Kept, TornApart, TypeOK

(* insertDedup finds no open transaction with the key; without one of its  *)
(* own it makes the entry that pays for the insertion still to come.       *)
LEMMA InsertDedupKeeps ==
    ASSUME TypeOK, TypeOK', EntryInv,
           NEW r \in Receivers, NEW m \in Messages, insertDedup(r, m)
    PROVE  EntryInv'
<1> USE InboxAssumption DEF TypeOK
<1>1. /\ \A s \in Receivers : s # r => call'[s] = call[s]
      /\ call[r].pc = "begun" /\ call[r].msg = m /\ call'[r].msg = m
      /\ call'[r].pc = IF dedup[m] = NULL THEN "deduped" ELSE "dup"
      /\ \A s \in Receivers : ~Holding(s, m)
      /\ UNCHANGED <<hot, acked, inserted, released, torn>>
  BY DEF insertDedup, NotSeen, Calls
<1>2. /\ \A n \in Messages : n # m => dedup'[n] = dedup[n]
      /\ dedup'[m] = NULL <=> dedup[m] = NULL /\ InTx[r]
  BY DEF insertDedup, NotSeen, AutoCommits, Calls
<1>3. \A s \in Receivers, n \in Messages : s # r =>
        (Midway(s, n)' <=> Midway(s, n)) /\ (Holding(s, n)' <=> Holding(s, n))
  BY <1>1 DEF Midway, Holding
<1>4. \A n \in Messages : ~Midway(r, n) /\ (Midway(r, n)' <=> n = m /\ dedup[m] = NULL /\ ~InTx[r])
  BY <1>1 DEF Midway
<1>5. \A n \in Messages : Holding(r, n)' <=> n = m /\ dedup[m] = NULL /\ InTx[r]
  BY <1>1 DEF Holding
<1>6. \A n \in Messages : Kept(n) => Kept(n)'
  BY <1>1, <1>3, <1>4, KeptStays
<1>7. \A s \in Receivers, n \in Messages : KeyInv(s, n)'
  BY <1>1, <1>2, <1>3, <1>5 DEF KeyInv, EntryInv
<1>8. dedup'[m] # NULL => Kept(m)'
  <2>1. CASE dedup[m] = NULL
    BY <1>2, <1>4, <2>1 DEF Kept, TornApart
  <2>2. CASE dedup[m] # NULL
    BY <1>6, <2>2 DEF EntryInv, StoreInv
  <2> QED
    BY <2>1, <2>2
<1>9. \A s \in Receivers, n \in Messages : ReportInv(s, n)'
  BY <1>1, <1>2, <1>6, <1>8 DEF ReportInv, EntryInv
<1>10. \A n \in Messages : StoreInv(n)'
  BY <1>1, <1>2, <1>6, <1>8 DEF StoreInv, EntryInv
<1>11. \A n \in Messages : PaidFor(n)'
  <2> SUFFICES ASSUME NEW n \in Messages PROVE PaidFor(n)'
    OBVIOUS
  <2>1. PaidFor(n)
    BY DEF EntryInv
  <2>2. CASE ~(n = m /\ dedup[m] = NULL /\ ~InTx[r])
    BY <1>1, <1>2, <1>3, <1>4, <2>1, <2>2, PaidForKept
  <2>3. CASE n = m /\ dedup[m] = NULL /\ ~InTx[r]
    <3>1. Underway(m)' = Underway(m) \cup {r} /\ r \notin Underway(m)
      BY <1>3, <1>4, <2>3 DEF Underway
    <3>2. Cardinality(Underway(m)') = Cardinality(Underway(m)) + 1
      <4>1. IsFiniteSet(Underway(m))
        BY UnderwaySize
      <4>2. Cardinality(Underway(m) \cup {r}) = Cardinality(Underway(m)) + 1
        BY <3>1, <4>1, FS_AddElement
      <4> QED
        BY <3>1, <4>2
    <3>3. inserted[m] + Cardinality(Underway(m)) <= released[m]
      BY <2>1, <2>3 DEF PaidFor
    <3>4. inserted'[m] + Cardinality(Underway(m)') <= released'[m] + 1
      BY <1>1, <3>2, <3>3, UnderwaySize
    <3> QED
      BY <1>2, <2>3, <3>4 DEF PaidFor
  <2> QED
    BY <2>2, <2>3
<1> QED
  BY <1>7, <1>9, <1>10, <1>11 DEF EntryInv

(* insertHot in a transaction only prepares the insertion; otherwise the   *)
(* call was counted as underway and is now counted as an insertion.        *)
LEMMA InsertHotKeeps ==
    ASSUME TypeOK, TypeOK', EntryInv,
           NEW r \in Receivers, NEW m \in Messages, insertHot(r, m)
    PROVE  EntryInv'
<1> USE InboxAssumption DEF TypeOK
<1>1. /\ \A s \in Receivers : s # r => call'[s] = call[s]
      /\ call[r].pc = "deduped" /\ call[r].msg = m /\ call'[r].msg = m
      /\ call'[r].pc = IF InTx[r] THEN "stored" ELSE "new"
      /\ UNCHANGED <<dedup, acked, released, torn>>
  BY DEF insertHot, AutoCommits, Calls
<1>2. \A s \in Receivers, n \in Messages : Holding(s, n)' <=> Holding(s, n)
  BY <1>1 DEF Holding
<1>3. \A s \in Receivers, n \in Messages : s # r => (Midway(s, n)' <=> Midway(s, n))
  BY <1>1 DEF Midway
<1>4. \A n \in Messages : ~Midway(r, n)' /\ (Midway(r, n) <=> n = m /\ ~InTx[r])
  BY <1>1 DEF Midway
<1>5. hot[m] => inserted[m] > 0
  BY DEF EntryInv, StoreInv
<1>6. CASE InTx[r]
  <2>1. /\ UNCHANGED <<hot, inserted>>
        /\ call' = [call EXCEPT ![r].pc = "stored", ![r].fresh = ~hot[m]]
    BY <1>6 DEF insertHot, AutoCommits
  <2>2. call'[r].fresh = ~hot[m]
    BY <2>1 DEF Calls
  <2>3. ~call'[r].fresh => inserted[m] > 0
    BY <1>5, <2>2
  <2>4. \A n \in Messages : Kept(n) => Kept(n)'
    BY <1>1, <1>3, <1>4, <1>6, <2>1, KeptStays
  <2>5. \A s \in Receivers, n \in Messages : KeyInv(s, n)'
    <3> SUFFICES ASSUME NEW s \in Receivers, NEW n \in Messages, Holding(s, n)'
                 PROVE  KeyInv(s, n)'
      BY DEF KeyInv
    <3>1. dedup'[n] = NULL /\ \A q \in Receivers : Holding(q, n)' => q = s
      BY <1>1, <1>2 DEF EntryInv, KeyInv
    <3>2. s = r => n = m
      BY <1>1 DEF Holding
    <3>3. call'[s].pc = "stored" /\ ~call'[s].fresh => inserted'[n] > 0
      <4>1. CASE s = r
        BY <2>1, <2>3, <3>2, <4>1
      <4>2. CASE s # r
        BY <1>1, <1>2, <2>1, <4>2 DEF EntryInv, KeyInv
      <4> QED
        BY <4>1, <4>2
    <3> QED
      BY <3>1, <3>3 DEF KeyInv
  <2>6. \A s \in Receivers, n \in Messages : ReportInv(s, n)'
    BY <1>1, <1>6, <2>4 DEF EntryInv, ReportInv
  <2>7. \A n \in Messages : StoreInv(n)'
    BY <1>1, <2>1, <2>4 DEF EntryInv, StoreInv
  <2>8. \A n \in Messages : PaidFor(n)'
    BY <1>1, <1>3, <1>4, <2>1, PaidForKept DEF EntryInv
  <2> QED
    BY <2>5, <2>6, <2>7, <2>8 DEF EntryInv
<1>7. CASE ~InTx[r]
  <2>1. /\ hot' = [hot EXCEPT ![m] = TRUE]
        /\ inserted' = [inserted EXCEPT ![m] = IF hot[m] THEN inserted[m] ELSE inserted[m] + 1]
    BY <1>7 DEF insertHot, AutoCommits
  <2>2. /\ inserted'[m] > 0 /\ inserted'[m] >= inserted[m] /\ inserted'[m] <= inserted[m] + 1
        /\ \A n \in Messages : n # m => inserted'[n] = inserted[n] /\ hot'[n] = hot[n]
    <3>1. inserted[m] \in Nat
      OBVIOUS
    <3>2. CASE hot[m]
      BY <1>5, <2>1, <3>1, <3>2
    <3>3. CASE ~hot[m]
      BY <2>1, <3>1, <3>3
    <3> QED
      BY <3>2, <3>3
  <2>3. \A n \in Messages : Kept(n) => Kept(n)'
    <3> SUFFICES ASSUME NEW n \in Messages, Kept(n) PROVE Kept(n)'
      OBVIOUS
    <3>1. inserted[n] \in Nat /\ inserted'[n] >= inserted[n]
      BY <2>2
    <3> QED
      BY <1>1, <1>3, <1>4, <2>2, <3>1, KeptStays
  <2>4. Kept(m)'
    BY <2>2 DEF Kept
  <2>5. \A s \in Receivers, n \in Messages : KeyInv(s, n)'
    BY <1>1, <1>2, <1>7, <2>2 DEF EntryInv, KeyInv, Holding
  <2>6. \A s \in Receivers, n \in Messages : ReportInv(s, n)'
    BY <1>1, <2>3, <2>4 DEF EntryInv, ReportInv
  <2>7. \A n \in Messages : StoreInv(n)'
    BY <1>1, <2>2, <2>3 DEF EntryInv, StoreInv
  <2>8. \A n \in Messages : PaidFor(n)'
    <3> SUFFICES ASSUME NEW n \in Messages PROVE PaidFor(n)'
      OBVIOUS
    <3>1. PaidFor(n)
      BY DEF EntryInv
    <3>2. CASE n # m
      BY <1>1, <1>3, <1>4, <2>2, <3>1, <3>2, PaidForKept
    <3>3. CASE n = m
      <4>1. Underway(m)' = Underway(m) \ {r} /\ r \in Underway(m)
        BY <1>3, <1>4, <1>7 DEF Underway
      <4>2. Cardinality(Underway(m)') = Cardinality(Underway(m)) - 1
        <5>1. IsFiniteSet(Underway(m))
          BY UnderwaySize
        <5>2. Cardinality(Underway(m) \ {r}) = Cardinality(Underway(m)) - 1
          BY <4>1, <5>1, FS_RemoveElement
        <5> QED
          BY <4>1, <5>2
      <4> DEFINE k == Cardinality(Underway(m))
      <4>3. k \in Nat /\ inserted[m] \in Nat /\ inserted'[m] \in Nat /\ released[m] \in Nat
        BY UnderwaySize
      <4>4. inserted[m] + k <= released[m] + (IF dedup[m] = NULL THEN 0 ELSE 1)
        BY <3>1, <3>3 DEF PaidFor
      <4>5. Cardinality(Underway(m)') = k - 1
        BY <4>2
      <4> HIDE DEF k
      <4>6. inserted'[m] + (k - 1) <= released[m] + (IF dedup[m] = NULL THEN 0 ELSE 1)
        BY <2>2, <4>3, <4>4
      <4> QED
        BY <1>1, <3>3, <4>5, <4>6 DEF PaidFor
    <3> QED
      BY <3>2, <3>3
  <2> QED
    BY <2>5, <2>6, <2>7, <2>8 DEF EntryInv
<1> QED
  BY <1>6, <1>7

(* The caller's commit publishes the entry and the row together, and there *)
(* was no entry before.                                                    *)
LEMMA CommitKeeps ==
    ASSUME TypeOK, TypeOK', EntryInv,
           NEW r \in Receivers, NEW m \in Messages, Commit(r, m)
    PROVE  EntryInv'
<1> USE InboxAssumption DEF TypeOK
<1>1. /\ Holding(r, m)
      /\ dedup[m] = NULL
      /\ \A s \in Receivers : Holding(s, m) => s = r
      /\ ~call[r].fresh => inserted[m] > 0
      /\ InTx[r]
  BY DEF Commit, Holding, EntryInv, KeyInv
<1>2. /\ dedup'[m] # NULL /\ inserted'[m] > 0
      /\ inserted'[m] <= inserted[m] + 1 /\ inserted'[m] >= inserted[m]
      /\ released' = released /\ acked' = acked /\ torn' = torn
  BY <1>1 DEF Commit, Calls
<1>3. \A n \in Messages : n # m =>
        dedup'[n] = dedup[n] /\ hot'[n] = hot[n] /\ inserted'[n] = inserted[n]
  BY DEF Commit
<1>4. /\ \A s \in Receivers : s # r => call'[s] = call[s]
      /\ call'[r].pc = "new" /\ call'[r].msg = m
  BY DEF Commit, Calls
<1>5. \A s \in Receivers, n \in Messages : Midway(s, n)' <=> Midway(s, n)
  BY <1>1, <1>4 DEF Midway
<1>6. \A n \in Messages : Kept(n) => Kept(n)'
  <2> SUFFICES ASSUME NEW n \in Messages, Kept(n) PROVE Kept(n)'
    OBVIOUS
  <2>1. inserted[n] \in Nat /\ inserted'[n] >= inserted[n]
    BY <1>2, <1>3
  <2> QED
    BY <1>2, <1>5, <2>1, KeptStays
<1>7. Kept(m)'
  BY <1>2 DEF Kept
<1>8. \A n \in Messages : StoreInv(n)'
  BY <1>2, <1>3, <1>6, <1>7 DEF StoreInv, EntryInv
<1>9. \A s \in Receivers, n \in Messages : KeyInv(s, n)'
  BY <1>1, <1>2, <1>3, <1>4 DEF KeyInv, EntryInv, Holding
<1>10. \A s \in Receivers, n \in Messages : ReportInv(s, n)'
  BY <1>4, <1>6, <1>7 DEF ReportInv, EntryInv
<1>11. \A n \in Messages : PaidFor(n)'
  <2> SUFFICES ASSUME NEW n \in Messages PROVE PaidFor(n)'
    OBVIOUS
  <2>1. PaidFor(n)
    BY DEF EntryInv
  <2>2. CASE n # m
    BY <1>2, <1>3, <1>5, <2>1, <2>2, PaidForKept
  <2>3. CASE n = m
    <3>1. Underway(m)' = Underway(m)
      BY <1>5 DEF Underway
    <3>2. inserted[m] + Cardinality(Underway(m)) <= released[m]
      BY <1>1, <2>1, <2>3 DEF PaidFor
    <3>3. inserted'[m] + Cardinality(Underway(m)') <= released'[m] + 1
      BY <1>2, <3>1, <3>2, UnderwaySize
    <3> QED
      BY <1>2, <2>3, <3>3 DEF PaidFor
  <2> QED
    BY <2>2, <2>3
<1> QED
  BY <1>8, <1>9, <1>10, <1>11 DEF EntryInv

(* Purging or removing entries, by which each one is counted as released.  *)
LEMMA ReleaseKeeps ==
    ASSUME TypeOK, TypeOK', EntryInv,
           NEW S \in SUBSET Messages, \A m \in S : dedup[m] # NULL, Release(S)
    PROVE  EntryInv'
<1> USE InboxAssumption DEF TypeOK
<1>1. /\ UNCHANGED <<hot, call, acked, inserted, torn>>
      /\ \A n \in Messages \ S : dedup'[n] = dedup[n] /\ released'[n] = released[n]
      /\ \A n \in S : dedup'[n] = NULL /\ released'[n] = released[n] + 1
  BY DEF Release
<1>2. \A n \in Messages : Underway(n)' = Underway(n) /\ (Kept(n) <=> Kept(n)')
  BY <1>1 DEF Underway, Midway, Kept, TornApart
<1>3. \A s \in Receivers, n \in Messages : KeyInv(s, n)' /\ ReportInv(s, n)'
  BY <1>1, <1>2 DEF EntryInv, KeyInv, ReportInv, Holding
<1>4. \A n \in Messages : StoreInv(n)'
  BY <1>1, <1>2 DEF EntryInv, StoreInv
<1>5. \A n \in Messages : PaidFor(n)'
  <2> SUFFICES ASSUME NEW n \in Messages PROVE PaidFor(n)'
    OBVIOUS
  <2>1. Cardinality(Underway(n)) \in Nat /\ inserted[n] \in Nat /\ released[n] \in Nat
    BY UnderwaySize
  <2> QED
    BY <1>1, <1>2, <2>1 DEF EntryInv, PaidFor
<1> QED
  BY <1>3, <1>4, <1>5 DEF EntryInv

(* The steps that insert nothing and leave the dedup table's keys alone.   *)
LEMMA QuietKeeps ==
    ASSUME TypeOK, TypeOK', EntryInv,
           UNCHANGED <<inserted, released>>,
           \A n \in Messages : (dedup'[n] = NULL) <=> (dedup[n] = NULL),
           \A n \in Messages : hot'[n] => hot[n],
           \A n \in Messages : torn[n] => torn'[n],
           \A s \in Receivers, n \in Messages :
               /\ Holding(s, n)' => Holding(s, n)
               /\ Holding(s, n)' => call'[s].pc = call[s].pc /\ call'[s].fresh = call[s].fresh
               /\ Midway(s, n)' => Midway(s, n)
               /\ Midway(s, n) => Midway(s, n)' \/ torn'[n]
               /\ call'[s].pc \in {"new", "dup"} /\ call'[s].msg = n =>
                    call[s].pc \in {"new", "dup"} /\ call[s].msg = n,
           \A n \in Messages : acked'[n] => Kept(n)
    PROVE  EntryInv'
<1> USE InboxAssumption DEF TypeOK
<1>1. \A n \in Messages : Kept(n) => Kept(n)'
  BY KeptStays
<1>2. \A s \in Receivers, n \in Messages : KeyInv(s, n)'
  BY DEF EntryInv, KeyInv
<1>3. \A s \in Receivers, n \in Messages : ReportInv(s, n)'
  BY <1>1 DEF EntryInv, ReportInv
<1>4. \A n \in Messages : StoreInv(n)'
  BY <1>1 DEF EntryInv, StoreInv
<1>5. \A n \in Messages : PaidFor(n)'
  BY PaidForKept DEF EntryInv
<1> QED
  BY <1>2, <1>3, <1>4, <1>5 DEF EntryInv

(* EntryInv is kept by every step.                                         *)
LEMMA EntryInvStep ==
    ASSUME TypeOK, TypeOK', EntryInv, [Next]_vars PROVE EntryInv'
<1> USE InboxAssumption DEF TypeOK
<1>1. ASSUME NEW r \in Receivers, NEW m \in Messages, Deliver(r, m) PROVE EntryInv'
  <2>1. /\ \A s \in Receivers : s # r => call'[s] = call[s]
        /\ call[r].pc = "idle" /\ call'[r].pc = "begun"
        /\ UNCHANGED <<dedup, hot, acked, inserted, released, torn>>
    BY <1>1 DEF Deliver
  <2> QED
    BY <2>1, QuietKeeps DEF Holding, Midway, EntryInv, StoreInv
<1>2. ASSUME NEW r \in Receivers, NEW m \in Messages, Ack(r, m) PROVE EntryInv'
  <2>1. /\ \A s \in Receivers : s # r => call'[s] = call[s]
        /\ call[r].pc \in {"new", "dup"} /\ call[r].msg = m /\ call'[r].pc = "idle"
        /\ UNCHANGED <<dedup, hot, inserted, released, torn>>
        /\ \A n \in Messages : n # m => acked'[n] = acked[n]
    BY <1>2 DEF Ack, NoCall
  <2>2. \A n \in Messages : acked'[n] => Kept(n)
    BY <2>1 DEF EntryInv, ReportInv, StoreInv
  <2> QED
    BY <2>1, <2>2, QuietKeeps DEF Holding, Midway
<1>3. ASSUME NEW r \in Receivers, Fail(r) PROVE EntryInv'
  <2>1. /\ \A s \in Receivers : s # r => call'[s] = call[s]
        /\ call'[r].pc = "idle"
        /\ UNCHANGED <<dedup, hot, acked, inserted, released>>
        /\ \A n \in Messages : (torn[n] => torn'[n]) /\ (Midway(r, n) => torn'[n])
    BY <1>3 DEF Fail, NoCall
  <2>2. \A s \in Receivers, n \in Messages :
          /\ Holding(s, n)' => s # r /\ Holding(s, n)
          /\ Midway(s, n)' => Midway(s, n)
          /\ Midway(s, n) => Midway(s, n)' \/ torn'[n]
    BY <2>1 DEF Holding, Midway
  <2> QED
    BY <2>1, <2>2, QuietKeeps DEF EntryInv, StoreInv
<1>4. ASSUME NEW m \in Messages, Drain(m) PROVE EntryInv'
  <2>1. /\ UNCHANGED <<dedup, call, acked, inserted, released, torn>>
        /\ \A n \in Messages : hot'[n] => hot[n]
    BY <1>4 DEF Drain
  <2> QED
    BY <2>1, QuietKeeps DEF Holding, Midway, EntryInv, StoreInv
<1>5. CASE Tick
  <2>1. /\ UNCHANGED <<hot, acked, inserted, released, torn>>
        /\ \A n \in Messages : (dedup'[n] = NULL) <=> (dedup[n] = NULL)
    BY <1>5 DEF Tick, Grown
  <2>2. \A s \in Receivers : /\ call'[s].pc = call[s].pc /\ call'[s].msg = call[s].msg
                             /\ call'[s].fresh = call[s].fresh
    BY <1>5 DEF Tick, Calls
  <2> QED
    BY <2>1, <2>2, QuietKeeps DEF Holding, Midway, EntryInv, StoreInv
<1>6. CASE UNCHANGED vars
  BY <1>6, QuietKeeps DEF vars, Holding, Midway, EntryInv, StoreInv
<1> QED
  BY <1>1, <1>2, <1>3, <1>4, <1>5, <1>6,
     InsertDedupKeeps, InsertHotKeeps, CommitKeeps, ReleaseKeeps
     DEF Next, Receive, PurgeExpiredDedup, RemoveDedup, Expired

(* The strengthened invariant holds throughout.                            *)
THEOREM EntryInvariant == Spec => []EntryInv
<1>1. Init => EntryInv
  <2> SUFFICES ASSUME Init PROVE EntryInv
    OBVIOUS
  <2>1. \A m \in Messages : Underway(m) = {}
    BY DEF Init, NoCall, Underway, Midway
  <2>2. Cardinality({}) = 0
    BY FS_EmptySet
  <2>3. \A m \in Messages : PaidFor(m)
    BY <2>1, <2>2 DEF Init, PaidFor
  <2> QED
    BY <2>3, InboxAssumption DEF Init, NoCall, EntryInv, KeyInv, ReportInv, StoreInv, Holding
<1>2. TypeOK /\ TypeOK' /\ EntryInv /\ [Next]_vars => EntryInv'
  BY EntryInvStep
<1> QED
  BY <1>1, <1>2, TypeCorrect, PTL DEF Spec

(* A message whose deliveries Receive answers as duplicates, or that was   *)
(* acknowledged, is stored, but for a Receive between two own commits.     *)
THEOREM NothingLostUnlessTorn == Spec => []KeptUnlessTorn
<1>1. EntryInv => KeptUnlessTorn
  BY DEF EntryInv, StoreInv, Kept, KeptUnlessTorn
<1> QED
  BY <1>1, EntryInvariant, PTL

(* When every receiver passes its transaction, nothing is acknowledged     *)
(* that Receive and its caller have not stored.                            *)
THEOREM AckedIsStored ==
    ASSUME Transactional PROVE Spec => []AckedMeansStored
<1> DEFINE Whole == \A m \in Messages : ~torn[m]
<1>1. Init => Whole
  BY DEF Init
<1>2. Whole /\ [Next]_vars => Whole'
  <2> SUFFICES ASSUME Whole, [Next]_vars PROVE Whole'
    OBVIOUS
  <2>1. ASSUME NEW r \in Receivers, Fail(r) PROVE Whole'
    BY <2>1 DEF Fail, Midway, Transactional
  <2>2. ASSUME torn' = torn PROVE Whole'
    BY <2>2
  <2> QED
    BY <2>1, <2>2 DEF Next, vars, Deliver, Receive, insertDedup, insertHot, Commit, Ack,
       Drain, PurgeExpiredDedup, RemoveDedup, Release, Tick
<1>3. Whole /\ EntryInv => AckedMeansStored
  BY DEF EntryInv, StoreInv, Kept, TornApart, Midway, Transactional, AckedMeansStored
<1> QED
  BY <1>1, <1>2, <1>3, EntryInvariant, PTL DEF Spec

(* Redelivery stores a message once per life of its dedup entry.           *)
THEOREM StoredOnce == Spec => []StoredOncePerEntry
<1>1. TypeOK /\ EntryInv => StoredOncePerEntry
  <2> SUFFICES ASSUME TypeOK, EntryInv, NEW m \in Messages
               PROVE  inserted[m] <= released[m] + 1
    BY DEF StoredOncePerEntry
  <2>1. inserted[m] \in Nat /\ released[m] \in Nat /\ Cardinality(Underway(m)) \in Nat
    BY UnderwaySize DEF TypeOK
  <2>2. \/ inserted[m] + Cardinality(Underway(m)) <= released[m] + 0
        \/ inserted[m] + Cardinality(Underway(m)) <= released[m] + 1
    BY DEF EntryInv, PaidFor
  <2> QED
    BY <2>1, <2>2
<1> QED
  BY <1>1, TypeCorrect, EntryInvariant, PTL
=============================================================================
