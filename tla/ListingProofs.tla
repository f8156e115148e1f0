--------------------------- MODULE ListingProofs ---------------------------
(***************************************************************************)
(* Proofs about Listing for any nodes, messages, clients and page size.    *)
(* ListingComplete is not inductive: PagingInv adds what holds between the *)
(* pages, that a stable row not yet seen has at least offset rows before   *)
(* it.  OFFSET then cannot skip it.                                        *)
(***************************************************************************)
EXTENDS Listing, EncryptionProofs, FiniteSetTheorems

(* The tables are finite and an id names one archive row.                  *)
TablesInv ==
    /\ IsFiniteSet({m \in Messages : hot[m] # NoRow})
    /\ \A a \in archive : a.id <= writes
    /\ \A a, b \in archive : a.id = b.id => a = b

PagingInv(s) ==
    /\ s.pc = "paging" => s.stable \subseteq Placed[s.list]
    /\ s.pc = "paging" /\ ~s.shifted =>
         \A x \in s.stable : x \in s.seen \/ Rank(s.list, x) >= s.offset
    /\ s.pc = "done" /\ ~s.shifted => s.stable \subseteq s.seen

ListingInv == TablesInv /\ \A c \in Clients : PagingInv(session[c])

-----------------------------------------------------------------------------
(* The queries.                                                            *)

(* A list has finitely many rows.                                          *)
LEMMA ContentsFinite ==
    ASSUME TypeOK, TablesInv, NEW list \in Lists
    PROVE  IsFiniteSet(Contents[list])
<1>1. CASE list = "archive"
  <2>1. Contents[list] = {a.id : a \in archive}
    BY <1>1 DEF Contents
  <2>2. Contents[list] \in SUBSET Nat /\ \A x \in Contents[list] : x <= writes
    BY <2>1 DEF TypeOK, ArchiveRows, TablesInv
  <2> QED
    BY <2>2, FS_BoundedSetOfNaturals DEF TypeOK
<1>2. CASE list # "archive"
  <2>1. Contents[list] \in SUBSET {m \in Messages : hot[m] # NoRow}
    BY <1>2 DEF Contents, NoRow, Lists
  <2> QED
    BY <2>1, FS_Subset DEF TablesInv
<1> QED
  BY <1>1, <1>2

(* In the archive, ORDER BY compares the one row of each id.               *)
LEMMA ArchiveBefore ==
    ASSUME TablesInv, NEW a \in archive, NEW b \in archive
    PROVE  Before("archive", a.id, b.id) <=> a.archived > b.archived
  BY DEF TablesInv, Before

(* ORDER BY is a strict order on the rows of a list.                       *)
LEMMA BeforeOrder ==
    ASSUME TypeOK, TablesInv, NEW list \in Lists,
           NEW x \in Contents[list], NEW y \in Contents[list], NEW z \in Contents[list]
    PROVE  /\ ~Before(list, x, x)
           /\ Before(list, x, y) /\ Before(list, y, z) => Before(list, x, z)
<1>1. CASE list = "archive"
  <2>1. PICK a \in archive, b \in archive, c \in archive : x = a.id /\ y = b.id /\ z = c.id
    BY <1>1 DEF Contents
  <2>2. a.archived \in Nat /\ b.archived \in Nat /\ c.archived \in Nat
    BY EncryptionAssumption DEF TypeOK, ArchiveRows
  <2> QED
    BY <1>1, <2>1, <2>2, ArchiveBefore
<1>2. CASE list # "archive"
  <2>1. \A w \in Contents[list] : hot[w].created \in Nat
    BY <1>2, EncryptionAssumption DEF Contents, TypeOK, Rows, NoRow, Lists
  <2> QED
    BY <1>2, <2>1 DEF Before
<1> QED
  BY <1>1, <1>2

(* A query returns each row of the list once.                              *)
LEMMA OrderIsBijection ==
    ASSUME TypeOK, TablesInv, NEW list \in Lists, NEW s \in Orders(list)
    PROVE  /\ Len(s) \in Nat
           /\ s \in [1..Len(s) -> Contents[list]]
           /\ \A i, j \in 1..Len(s) : s[i] = s[j] => i = j
           /\ \A x \in Contents[list] : \E i \in 1..Len(s) : s[i] = x
<1> DEFINE C == Contents[list]
           n == Cardinality(C)
<1>1. IsFiniteSet(C) /\ n \in Nat
  BY ContentsFinite, FS_CardinalityType
<1> HIDE DEF C
<1>2. s \in [1..n -> C] /\ \A i, j \in 1..n : i # j => s[i] # s[j]
  BY DEF Orders, SetToSeqs, C
<1> HIDE DEF n
<1>3. Len(s) = n
  <2>1. s \in Seq(C) /\ DOMAIN s = 1..n
    BY <1>1, <1>2, SeqDef
  <2> QED
    BY <1>1, <2>1
<1>4. s \in Injection(1..n, C)
  BY <1>2 DEF Injection, IsInjective
<1>5. Cardinality(1..n) = n
  BY <1>1, FS_Interval
<1>6. s \in Surjection(1..n, C)
  BY <1>1, <1>4, <1>5, FS_Injection DEF n
<1> QED
  BY <1>1, <1>2, <1>3, <1>6 DEF Surjection, C

(* The place of a row that shares its time with no other is the number of  *)
(* rows before it, in every result of the query.                           *)
LEMMA PlaceIsRank ==
    ASSUME TypeOK, TablesInv, NEW list \in Lists, NEW s \in Orders(list),
           NEW i \in 1..Len(s), s[i] \in Placed[list]
    PROVE  Rank(list, s[i]) = i - 1
<1> DEFINE B == {y \in Contents[list] : Before(list, y, s[i])}
           f == [k \in 1..(i - 1) |-> s[k]]
<1>1. /\ Len(s) \in Nat
      /\ s \in [1..Len(s) -> Contents[list]]
      /\ \A k, j \in 1..Len(s) : s[k] = s[j] => k = j
      /\ \A x \in Contents[list] : \E k \in 1..Len(s) : s[k] = x
  BY OrderIsBijection
<1>2. \A k, j \in 1..Len(s) : Before(list, s[k], s[j]) => k < j
  BY DEF Orders
<1>3. \A k \in 1..Len(s) : k # i => Before(list, s[k], s[i]) \/ Before(list, s[i], s[k])
  BY <1>1 DEF Placed
<1>4. \A k \in 1..(i - 1) : k \in 1..Len(s) /\ s[k] \in B
  BY <1>1, <1>2, <1>3
<1>5. \A y \in B : \E k \in 1..(i - 1) : s[k] = y
  BY <1>1, <1>2
<1>6. f \in Bijection(1..(i - 1), B)
  BY <1>1, <1>4, <1>5 DEF Bijection, Injection, Surjection, IsInjective
<1>7. i - 1 \in Nat
  OBVIOUS
<1>8. Cardinality(B) = i - 1
  BY <1>6, <1>7, FS_CountingElements DEF ExistsBijection
<1> QED
  BY <1>8 DEF Rank

-----------------------------------------------------------------------------
(* Steps of the tables.                                                    *)

(* Rows are written one at a time, each archive row under a new id.        *)
LEMMA TablesStep ==
    ASSUME TypeOK, TablesInv, [Next]_vars PROVE TablesInv'
<1> DEFINE H == {m \in Messages : hot[m] # NoRow}
<1>1. IsFiniteSet(H)
  BY DEF TablesInv
<1> HIDE DEF H
<1>2. ASSUME NEW m \in Messages, H' \in SUBSET (H \cup {m}) PROVE IsFiniteSet(H')
  <2>1. IsFiniteSet(H \cup {m})
    BY <1>1, FS_AddElement
  <2> QED
    BY <1>2, <2>1, FS_Subset
<1>3. ASSUME NEW m \in Messages, Archived(m) PROVE TablesInv'
  <2>1. H' \in SUBSET (H \cup {m})
    BY <1>3 DEF Archived, H, TypeOK
  <2>2. IsFiniteSet(H')
    BY <1>2, <2>1
  <2>3. \A a \in archive : a.id \in Nat
    BY DEF TypeOK, ArchiveRows
  <2>4. /\ \A a \in archive' : a.id <= writes'
        /\ \A a, b \in archive' : a.id = b.id => a = b
    BY <1>3, <2>3 DEF Archived, Write, TablesInv, TypeOK
  <2> QED
    BY <2>2, <2>4 DEF TablesInv, H
<1>4. ASSUME NEW n \in Nodes, NEW m \in Messages, insertHot(n, m) PROVE TablesInv'
  <2>1. H' \in SUBSET (H \cup {m})
    BY <1>4 DEF insertHot, H, TypeOK
  <2>2. IsFiniteSet(H')
    BY <1>2, <2>1
  <2>3. \A a \in archive : a.id \in Nat
    BY DEF TypeOK, ArchiveRows
  <2>4. archive' = archive /\ writes' = writes + 1
    BY <1>4 DEF insertHot, Write
  <2> QED
    BY <2>2, <2>3, <2>4 DEF TablesInv, H, TypeOK
<1>5. ASSUME NEW m \in Messages, NEW s, NEW t, SetStatus(m, s, t) PROVE TablesInv'
  <2>1. H' \in SUBSET (H \cup {m})
    BY <1>5 DEF SetStatus, H, TypeOK
  <2>2. IsFiniteSet(H')
    BY <1>2, <2>1
  <2> QED
    BY <1>5, <2>2 DEF SetStatus, TablesInv, H
<1>6. CASE PurgeOldArchive
  BY <1>6 DEF PurgeOldArchive, TablesInv
<1>7. ASSUME UNCHANGED <<hot, archive, writes>> PROVE TablesInv'
  BY <1>7 DEF TablesInv
<1> QED
  BY <1>3, <1>4, <1>5, <1>6, <1>7
     DEF Next, vars, Deploy, Stop, handleOne, decryptFailed, DeadLetter, RetryOne,
         ArchiveExhausted

(* A step changes at most one row of the hot table, and no created_at.     *)
LEMMA HotStep ==
    ASSUME TypeOK, [Next]_vars
    PROVE  /\ \A x, y \in Messages : hot'[x] # hot[x] /\ hot'[y] # hot[y] => x = y
           /\ \A x \in Messages : hot[x].status # "ABSENT" /\ hot'[x].status # "ABSENT" =>
                                    hot'[x].created = hot[x].created
<1> USE DEF TypeOK
<1> DEFINE One == \A x, y \in Messages : hot'[x] # hot[x] /\ hot'[y] # hot[y] => x = y
           Dated == \A x \in Messages : hot[x].status # "ABSENT" /\ hot'[x].status # "ABSENT" =>
                                        hot'[x].created = hot[x].created
<1>1. ASSUME NEW m \in Messages, Archived(m) PROVE One /\ Dated
  BY <1>1 DEF Archived, NoRow
<1>2. ASSUME NEW n \in Nodes, NEW m \in Messages, insertHot(n, m) PROVE One /\ Dated
  BY <1>2 DEF insertHot, NoRow
<1>3. ASSUME NEW m \in Messages, NEW s, NEW t, SetStatus(m, s, t) PROVE One /\ Dated
  BY <1>3 DEF SetStatus
<1>4. ASSUME UNCHANGED hot PROVE One /\ Dated
  BY <1>4
<1> QED
  BY <1>1, <1>2, <1>3, <1>4
     DEF Next, vars, Deploy, Stop, handleOne, decryptFailed, DeadLetter, RetryOne,
         ArchiveExhausted, PurgeOldArchive

(* A step removes at most one archive row, and an id stays with its row.   *)
LEMMA ArchiveStep ==
    ASSUME TypeOK, TablesInv, [Next]_vars
    PROVE  /\ \A a, b \in archive \ archive' : a = b
           /\ \A a \in archive, b \in archive' : a.id = b.id => a = b
<1> DEFINE One == \A a, b \in archive \ archive' : a = b
           Named == \A a \in archive, b \in archive' : a.id = b.id => a = b
<1>1. ASSUME NEW m \in Messages, Archived(m) PROVE One /\ Named
  <2>1. \A a \in archive : a.id \in Nat /\ a.id <= writes
    BY DEF TypeOK, ArchiveRows, TablesInv
  <2> QED
    BY <1>1, <2>1 DEF Archived, TablesInv, TypeOK
<1>2. CASE PurgeOldArchive
  BY <1>2 DEF PurgeOldArchive, TablesInv
<1>3. ASSUME UNCHANGED archive PROVE One /\ Named
  BY <1>3 DEF TablesInv
<1> QED
  BY <1>1, <1>2, <1>3
     DEF Next, vars, Deploy, Stop, insertHot, handleOne, decryptFailed, DeadLetter, RetryOne,
         ArchiveExhausted, SetStatus

(* A row that stays in a list keeps its time, and at most one row leaves a *)
(* list in a step.                                                         *)
LEMMA ListStep ==
    ASSUME TypeOK, TypeOK', TablesInv, TablesInv', [Next]_vars, NEW list \in Lists
    PROVE  /\ \A x, y \in Contents[list] \cap Contents'[list] :
                Before(list, x, y) => Before(list, x, y)'
           /\ \A x, y \in Contents[list] \ Contents'[list] : x = y
<1>1. CASE list = "archive"
  <2>1. /\ Contents[list] = {a.id : a \in archive}
        /\ Contents'[list] = {a.id : a \in archive'}
    BY <1>1 DEF Contents
  <2>2. ASSUME NEW x \in Contents[list] \cap Contents'[list]
        PROVE  \E a \in archive \cap archive' : a.id = x
    BY <2>1, ArchiveStep
  <2>3. ASSUME NEW x \in Contents[list] \cap Contents'[list],
               NEW y \in Contents[list] \cap Contents'[list], Before(list, x, y)
        PROVE  Before(list, x, y)'
    <3>1. PICK a \in archive \cap archive', b \in archive \cap archive' : a.id = x /\ b.id = y
      BY <2>2
    <3>2. a.archived > b.archived
      BY <1>1, <2>3, <3>1, ArchiveBefore
    <3> QED
      BY <1>1, <3>1, <3>2 DEF Before
  <2>4. ASSUME NEW x \in Contents[list] \ Contents'[list],
               NEW y \in Contents[list] \ Contents'[list]
        PROVE  x = y
    <3>1. PICK a \in archive, b \in archive : a.id = x /\ b.id = y
      BY <2>1
    <3>2. a \notin archive' /\ b \notin archive'
      BY <2>1, <3>1
    <3> QED
      BY <3>1, <3>2, ArchiveStep
  <2> QED
    BY <2>3, <2>4
<1>2. CASE list # "archive"
  <2>1. /\ list # "ABSENT"
        /\ Contents[list] = {m \in Messages : hot[m].status = list}
        /\ Contents'[list] = {m \in Messages : hot'[m].status = list}
    BY <1>2 DEF Contents, Lists
  <2>2. \A x \in Contents[list] \cap Contents'[list] : hot'[x].created = hot[x].created
    BY <2>1, HotStep
  <2>3. \A x, y \in Contents[list] \ Contents'[list] : x = y
    BY <2>1, HotStep
  <2> QED
    BY <1>2, <2>2, <2>3 DEF Before
<1> QED
  BY <1>1, <1>2

(* The tables stay finite.                                                 *)
LEMMA ContentsStayFinite ==
    (TypeOK /\ TablesInv => \A list \in Lists : IsFiniteSet(Contents[list]))'
<1>1. TypeOK /\ TablesInv => \A list \in Lists : IsFiniteSet(Contents[list])
  BY ContentsFinite
<1> QED
  BY <1>1, PTL

(* A row that had at least offset rows before it still has, unless a row   *)
(* before offset has left the list.                                        *)
LEMMA RankStep ==
    ASSUME TypeOK, TypeOK', TablesInv, TablesInv', [Next]_vars, NEW list \in Lists,
           NEW x \in Contents[list] \cap Contents'[list], NEW k \in Nat,
           Rank(list, x) >= k,
           ~\E y \in Contents[list] \ Contents'[list] : k > Rank(list, y)
    PROVE  (Rank(list, x) >= k)'
<1> DEFINE B(y) == {z \in Contents[list] : Before(list, z, y)}
           Bx == {z \in Contents'[list] : Before(list, z, x)'}
<1>1. IsFiniteSet(Contents[list]) /\ IsFiniteSet(Contents'[list])
  BY ContentsFinite, ContentsStayFinite
<1>2. IsFiniteSet(Bx)
  BY <1>1, FS_Subset
<1>3. ASSUME NEW y \in Contents[list], B(y) \subseteq Bx, Rank(list, y) >= k
      PROVE  Cardinality(Bx) >= k
  <2>1. Cardinality(B(y)) <= Cardinality(Bx)
    BY <1>2, <1>3, FS_Subset
  <2>2. Cardinality(Bx) \in Nat /\ Cardinality(B(y)) \in Nat
    BY <1>1, <1>2, FS_Subset, FS_CardinalityType
  <2> QED
    BY <1>3, <2>1, <2>2 DEF Rank
<1>4. Cardinality(Bx) >= k
  <2>1. CASE \E y \in Contents[list] \ Contents'[list] : Before(list, y, x)
    <3>1. PICK y \in Contents[list] \ Contents'[list] : Before(list, y, x)
      BY <2>1
    <3>2. ASSUME NEW z \in B(y) PROVE z \in Bx
      <4>1. z # y /\ Before(list, z, x)
        BY <3>1, <3>2, BeforeOrder
      <4>2. z \in Contents'[list]
        BY <3>1, <3>2, <4>1, ListStep
      <4> QED
        BY <4>1, <4>2, ListStep
    <3>3. Cardinality(B(y)) \in Nat
      BY <1>1, FS_Subset, FS_CardinalityType
    <3>4. Rank(list, y) >= k
      BY <3>1, <3>3 DEF Rank
    <3> QED
      BY <1>3, <3>1, <3>2, <3>4
  <2>2. CASE ~\E y \in Contents[list] \ Contents'[list] : Before(list, y, x)
    <3>1. B(x) \subseteq Bx
      BY <2>2, ListStep
    <3> QED
      BY <1>3, <3>1
  <2> QED
    BY <2>1, <2>2
<1> QED
  BY <1>4 DEF Rank

-----------------------------------------------------------------------------
(* Steps of a client.                                                      *)

(* LIMIT and OFFSET return the rows at offset + 1 .. offset + Limit, as    *)
(* far as there are any.                                                   *)
LEMMA PageRows ==
    ASSUME NEW S, NEW all \in Seq(S), NEW offset \in Nat
    PROVE  LET ids == Page(all, offset)
           IN /\ Len(ids) \in Nat
              /\ Range(ids) \subseteq S
              /\ \A i \in 1..Len(all) :
                    offset < i /\ i <= offset + Len(ids) => all[i] \in Range(ids)
              /\ Len(ids) < Limit => Len(all) <= offset + Len(ids)
<1> DEFINE last == Min({offset + Limit, Len(all)})
           ids == Page(all, offset)
<1>1. Len(all) \in Nat /\ Limit \in Nat /\ Limit > 0
  BY ListingAssumption
<1>2. last = IF offset + Limit <= Len(all) THEN offset + Limit ELSE Len(all)
  BY <1>1 DEF Min
<1>3. last \in Nat /\ last <= Len(all)
  BY <1>1, <1>2
<1> HIDE DEF last
<1>4. \A i \in (offset + 1)..last : all[i] \in S
  BY <1>1, <1>3, ElementOfSeq
<1>5. /\ SubSeq(all, offset + 1, last) \in Seq(S)
      /\ Len(SubSeq(all, offset + 1, last)) =
           IF offset + 1 <= last THEN last - (offset + 1) + 1 ELSE 0
      /\ \A i \in 1..(last - (offset + 1) + 1) :
           SubSeq(all, offset + 1, last)[i] = all[(offset + 1) + i - 1]
  BY <1>3, <1>4, SubSeqProperties
<1>6. ids = SubSeq(all, offset + 1, last)
  BY DEF Page, last
<1> HIDE DEF ids
<1>7. /\ ids \in Seq(S)
      /\ Len(ids) = IF offset + 1 <= last THEN last - offset ELSE 0
      /\ \A i \in 1..(last - offset) : ids[i] = all[i + offset]
  BY <1>3, <1>5, <1>6
<1>8. Len(ids) \in Nat /\ DOMAIN ids = 1..Len(ids) /\ Range(ids) \subseteq S
  BY <1>7, LenProperties DEF Range
<1>9. ASSUME NEW i \in 1..Len(all), offset < i, i <= offset + Len(ids)
      PROVE  all[i] \in Range(ids)
  <2>1. (i - offset) \in 1..(last - offset) /\ (i - offset) \in 1..Len(ids)
    BY <1>1, <1>3, <1>7, <1>9
  <2>2. ids[i - offset] = all[i]
    BY <1>7, <2>1
  <2> QED
    BY <1>8, <2>1, <2>2 DEF Range
<1>10. Len(ids) < Limit => Len(all) <= offset + Len(ids)
  BY <1>1, <1>2, <1>3, <1>7
<1> QED
  BY <1>8, <1>9, <1>10 DEF ids

(* A page leaves no stable row behind: what had offset rows before it is   *)
(* on the page or has as many before it as the next page starts after.     *)
LEMMA PageKeeps ==
    ASSUME TypeOK, TablesInv, NEW s \in Sessions, s.pc = "paging", PagingInv(s), ~s.shifted,
           NEW all \in Orders(s.list), NEW x \in s.stable
    PROVE  LET ids == Page(all, s.offset)
           IN /\ x \in s.seen \cup Range(ids) \/ Rank(s.list, x) >= s.offset + Len(ids)
              /\ Len(ids) < Limit => x \in s.seen \cup Range(ids)
<1> DEFINE ids == Page(all, s.offset)
<1>1. s.list \in Lists /\ s.offset \in Nat
  BY DEF Sessions
<1>2. /\ Len(all) \in Nat
      /\ all \in [1..Len(all) -> Contents[s.list]]
      /\ \A y \in Contents[s.list] : \E i \in 1..Len(all) : all[i] = y
  BY <1>1, OrderIsBijection
<1>3. all \in Seq(Contents[s.list])
  BY <1>2, SeqDef
<1>4. /\ Len(ids) \in Nat
      /\ \A i \in 1..Len(all) :
            s.offset < i /\ i <= s.offset + Len(ids) => all[i] \in Range(ids)
      /\ Len(ids) < Limit => Len(all) <= s.offset + Len(ids)
  BY <1>1, <1>3, PageRows
<1>5. x \in Placed[s.list] /\ x \in Contents[s.list]
  BY <1>1 DEF PagingInv, Placed
<1>6. PICK i \in 1..Len(all) : all[i] = x
  BY <1>2, <1>5
<1>7. Rank(s.list, x) = i - 1
  BY <1>1, <1>5, <1>6, PlaceIsRank
<1>8. CASE x \in s.seen
  BY <1>8
<1>9. CASE x \notin s.seen
  <2>1. s.offset < i
    BY <1>1, <1>2, <1>7, <1>9 DEF PagingInv
  <2> HIDE DEF ids
  <2>2. x \in Range(ids) \/ i > s.offset + Len(ids)
    BY <1>1, <1>2, <1>4, <1>6, <2>1
  <2> QED
    BY <1>1, <1>2, <1>4, <1>7, <2>2 DEF ids
<1> QED
  BY <1>8, <1>9

(* Any other step keeps the invariant of a listing under way.              *)
LEMMA FollowedKeeps ==
    ASSUME TypeOK, TypeOK', TablesInv, TablesInv', [Next]_vars,
           NEW s \in Sessions, PagingInv(s), NEW t, t = Followed(s)
    PROVE  t \in Sessions /\ PagingInv(t)'
<1>1. CASE s.pc # "paging"
  BY <1>1 DEF Followed, PagingInv, Sessions
<1>2. CASE s.pc = "paging"
  <2> DEFINE skipped == \E x \in Contents[s.list] \ Contents'[s.list] :
                           s.offset > Rank(s.list, x)
  <2>1. s.list \in Lists /\ s.offset \in Nat
    BY DEF Sessions
  <2>2. /\ t \in Sessions
        /\ t.pc = "paging" /\ t.list = s.list /\ t.offset = s.offset /\ t.seen = s.seen
        /\ t.stable = s.stable \cap Placed'[s.list]
        /\ t.shifted = (s.shifted \/ skipped)
    BY <1>2 DEF Followed, Sessions
  <2>3. ASSUME ~t.shifted, NEW x \in t.stable, x \notin t.seen
        PROVE  (Rank(s.list, x) >= s.offset)'
    <3>1. ~s.shifted /\ ~skipped
      BY <2>2, <2>3
    <3>2. x \in Contents[s.list] /\ x \in Contents'[s.list]
      BY <1>2, <2>1, <2>2, <2>3 DEF PagingInv, Placed
    <3>3. Rank(s.list, x) >= s.offset
      BY <1>2, <2>2, <2>3, <3>1 DEF PagingInv
    <3> QED
      BY <2>1, <3>1, <3>2, <3>3, RankStep
  <2> QED
    BY <2>2, <2>3 DEF PagingInv
<1> QED
  BY <1>1, <1>2

(* A listing depends on the tables alone.                                  *)
LEMMA PagingUnchanged ==
    ASSUME UNCHANGED vars, NEW s, PagingInv(s) PROVE PagingInv(s)'
<1>1. Contents' = Contents
  BY DEF Contents, vars
<1>2. \A l, x, y : Before(l, x, y)' = Before(l, x, y)
  BY DEF Before, vars
<1>3. Placed' = Placed
  BY <1>1, <1>2 DEF Placed
<1>4. \A l, x : Rank(l, x)' = Rank(l, x)
  BY <1>1, <1>2 DEF Rank
<1> QED
  BY <1>3, <1>4, Zenon DEF PagingInv

(* The pages a client asks for keep its own listing and no other.          *)
LEMMA ClientStep ==
    ASSUME ListingTypeOK, ListingInv, NEW c \in Clients, UNCHANGED vars,
           NEW s, s \in Sessions /\ PagingInv(s), session' = [session EXCEPT ![c] = s]
    PROVE  ListingTypeOK' /\ ListingInv'
<1>1. \A d \in Clients : session'[d] \in Sessions /\ PagingInv(session'[d])
  BY DEF ListingTypeOK, ListingInv
<1>2. TypeOK' /\ TablesInv'
  BY DEF ListingTypeOK, ListingInv, TypeOK, TablesInv, vars
<1>3. ASSUME NEW d \in Clients PROVE PagingInv(session[d])'
  <2>1. \A t : PagingInv(t) => PagingInv(t)'
    BY PagingUnchanged
  <2>2. \A t : t = session'[d] => PagingInv(t)'
    BY <1>1, <2>1, Zenon
  <2> QED
    BY <2>2, Zenon DEF PagingInv
<1>4. session' \in [Clients -> Sessions]
  BY <1>1 DEF ListingTypeOK
<1> QED
  BY <1>2, <1>3, <1>4 DEF ListingTypeOK, ListingInv

(* The session after a page.                                               *)
Turned(s, ids) == [s EXCEPT !.pc     = IF Len(ids) < Limit THEN "done" ELSE @,
                            !.offset = @ + Len(ids),
                            !.seen   = @ \cup Range(ids)]

(* The session after a page keeps the invariant.                           *)
LEMMA PageTurned ==
    ASSUME TypeOK, TablesInv, NEW s \in Sessions, s.pc = "paging", PagingInv(s),
           NEW all \in Orders(s.list), NEW t, t = Turned(s, Page(all, s.offset))
    PROVE  t \in Sessions /\ PagingInv(t)
<1> DEFINE ids == Page(all, s.offset)
           k   == Len(ids)
           S   == Range(ids)
           pc  == IF k < Limit THEN "done" ELSE "paging"
<1>1. s.list \in Lists /\ s.offset \in Nat
  BY DEF Sessions
<1>2. all \in Seq(Contents[s.list])
  BY <1>1, OrderIsBijection, SeqDef
<1>3. k \in Nat /\ S \subseteq Contents[s.list]
  BY <1>1, <1>2, PageRows
<1>4. Contents[s.list] \subseteq Messages \cup Nat
  BY <1>1 DEF Contents, TypeOK, ArchiveRows
<1>5. ASSUME ~s.shifted, NEW x \in s.stable
      PROVE  /\ x \in s.seen \cup S \/ Rank(s.list, x) >= s.offset + k
             /\ k < Limit => x \in s.seen \cup S
  BY <1>5, PageKeeps
<1>6. t = [s EXCEPT !.pc = pc, !.offset = @ + k, !.seen = @ \cup S]
  BY DEF Turned
<1> HIDE DEF k, S
<1>7. pc \in {"paging", "done"} /\ S \in SUBSET (Messages \cup Nat)
  BY <1>3, <1>4
<1> HIDE DEF pc
<1>8. t \in Sessions
  <2> DEFINE o == s.offset + k
             T == s.seen \cup S
  <2>1. o \in Nat /\ T \in SUBSET (Messages \cup Nat)
    BY <1>3, <1>7 DEF Sessions
  <2>2. t = [s EXCEPT !.pc = pc, !.offset = o, !.seen = T]
    BY <1>6
  <2> HIDE DEF o, T
  <2> QED
    BY <1>7, <2>1, <2>2 DEF Sessions
<1>9. /\ t.pc = pc /\ t.list = s.list /\ t.offset = s.offset + k
      /\ t.seen = s.seen \cup S /\ t.stable = s.stable
  BY <1>6 DEF Sessions
<1>10. t.shifted = s.shifted
  BY <1>6 DEF Sessions
<1> QED
  BY <1>5, <1>8, <1>9, <1>10 DEF PagingInv, pc

(* Every step keeps the sessions typed and the invariant.                  *)
LEMMA ListingStep ==
    ASSUME ListingTypeOK, ListingInv, [AllNext]_allVars
    PROVE  ListingTypeOK' /\ ListingInv'
<1> USE DEF ListingTypeOK, ListingInv
<1>1. ASSUME [Next]_vars, session' = [c \in Clients |-> Followed(session[c])]
      PROVE  ListingTypeOK' /\ ListingInv'
  <2>1. TypeOK' /\ TablesInv'
    BY <1>1, TypeStep, TablesStep
  <2>2. ASSUME NEW c \in Clients PROVE session'[c] \in Sessions /\ PagingInv(session[c])'
    <3>1. \A t : t = Followed(session[c]) => t \in Sessions /\ PagingInv(t)'
      BY <1>1, <2>1, FollowedKeeps
    <3> QED
      BY <1>1, <3>1 DEF PagingInv
  <2> QED
    BY <1>1, <2>1, <2>2
<1>2. ASSUME NEW c \in Clients, NEW list \in Lists, Open(c, list)
      PROVE  ListingTypeOK' /\ ListingInv'
  <2> DEFINE s == [NoSession EXCEPT !.pc = "paging", !.list = list, !.stable = Placed[list]]
  <2>1. session' = [session EXCEPT ![c] = s] /\ UNCHANGED vars
    BY <1>2, Zenon DEF Open
  <2>2. Placed[list] \subseteq Messages \cup Nat
    BY DEF Placed, Contents, TypeOK, ArchiveRows
  <2>3. /\ s \in Sessions
        /\ s.pc = "paging" /\ s.list = list /\ s.offset = 0 /\ s.stable = Placed[list]
    BY <2>2 DEF NoSession, Sessions
  <2>4. PagingInv(s)
    <3>1. ASSUME NEW x \in Placed[list] PROVE Rank(list, x) >= 0
      <4>1. IsFiniteSet(Contents[list])
        BY ContentsFinite
      <4>2. Cardinality({y \in Contents[list] : Before(list, y, x)}) \in Nat
        BY <4>1, FS_Subset, FS_CardinalityType
      <4> QED
        BY <4>2 DEF Rank
    <3> QED
      BY <2>3, <3>1 DEF PagingInv
  <2> QED
    BY <2>1, <2>3, <2>4, ClientStep
<1>3. ASSUME NEW c \in Clients, NEW n \in Nodes, ListPage(c, n)
      PROVE  ListingTypeOK' /\ ListingInv'
  <2>1. PICK all \in Orders(session[c].list) :
          /\ session[c].pc = "paging"
          /\ session' = [session EXCEPT ![c] = Turned(session[c], Page(all, session[c].offset))]
          /\ UNCHANGED vars
    BY <1>3 DEF ListPage, ScanSafe, ShortPage, Turned
  <2>2. session[c] \in Sessions /\ PagingInv(session[c])
    OBVIOUS
  <2>3. \A t : t = Turned(session[c], Page(all, session[c].offset)) =>
                 t \in Sessions /\ PagingInv(t)
    BY <2>1, <2>2, PageTurned
  <2> QED
    BY <2>1, <2>3, ClientStep
<1>4. ASSUME NEW c \in Clients, Close(c) PROVE ListingTypeOK' /\ ListingInv'
  <2>1. NoSession \in Sessions /\ PagingInv(NoSession)
    BY DEF NoSession, Sessions, Lists, PagingInv
  <2> QED
    BY <1>4, <2>1, ClientStep DEF Close
<1>5. CASE UNCHANGED allVars
  <2>1. TypeOK' /\ TablesInv' /\ session' = session
    BY <1>5 DEF allVars, vars, TypeOK, TablesInv
  <2>2. ASSUME NEW c \in Clients PROVE PagingInv(session[c])'
    <3>1. \A t : PagingInv(t) => PagingInv(t)'
      BY <1>5, PagingUnchanged DEF allVars
    <3>2. \A t : t = session'[c] => PagingInv(t)'
      BY <2>1, <3>1, Zenon
    <3> QED
      BY <3>2, Zenon DEF PagingInv
  <2> QED
    BY <2>1, <2>2
<1> QED
  BY <1>1, <1>2, <1>3, <1>4, <1>5 DEF AllNext

-----------------------------------------------------------------------------
(* Theorems.                                                               *)

(* The invariant of a listing under way holds of every client.             *)
THEOREM ListingInvariant == AllSpec => [](ListingTypeOK /\ ListingInv)
<1>1. AllInit => ListingTypeOK /\ ListingInv
  <2> SUFFICES ASSUME AllInit PROVE ListingTypeOK /\ ListingInv
    OBVIOUS
  <2>1. TypeOK
    BY DEF AllInit, Init, TypeOK
  <2>2. {m \in Messages : hot[m] # NoRow} = {} /\ archive = {}
    BY DEF AllInit, Init
  <2>3. TablesInv
    BY <2>2, FS_EmptySet DEF TablesInv
  <2>4. NoSession \in Sessions /\ PagingInv(NoSession)
    BY DEF NoSession, Sessions, Lists, PagingInv
  <2> QED
    BY <2>1, <2>3, <2>4 DEF AllInit, ListingTypeOK, ListingInv
<1> QED
  BY <1>1, ListingStep, PTL DEF AllSpec

(* Every state of the listing model is well typed; offset and seen hold    *)
(* what ListFailed, ListPending and ListArchived have returned.            *)
THEOREM ListingTypeCorrect == AllSpec => []ListingTypeOK
  BY ListingInvariant, PTL

(* For any number of nodes, rows and clients, any page size and any        *)
(* interleaving of pages with insertions, deliveries, retries and purges,  *)
(* a client of ListFailed, ListPending or ListArchived that pages to the   *)
(* end misses no row that was there all along, unless a row it had passed  *)
(* has left the list.                                                      *)
THEOREM ListingMissesNothing == AllSpec => []ListingComplete
<1>1. ListingInv => ListingComplete
  BY DEF ListingInv, PagingInv, ListingComplete
<1> QED
  BY <1>1, ListingInvariant, PTL

(* Listing only reads: to the fleet, a system with clients that page is    *)
(* one without, and what was proved of Encryption holds of it.             *)
THEOREM ListingReadsOnly == AllSpec => Spec
<1>1. AllInit => Init
  BY DEF AllInit
<1>2. [AllNext]_allVars => [Next]_vars
  BY DEF AllNext, allVars, Open, ListPage, Close
<1> QED
  BY <1>1, <1>2, PTL DEF AllSpec, Spec
=============================================================================
