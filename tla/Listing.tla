------------------------------ MODULE Listing ------------------------------
(***************************************************************************)
(* The paged queries ListFailed, ListPending and ListArchived, used by a   *)
(* client that reads page after page until a short one, each page from any *)
(* node, while Encryption's steps go on.                                   *)
(*                                                                         *)
(* ReadableOnly, which uses CipherOf, is a faulty variant of ScanSafe.     *)
(***************************************************************************)
EXTENDS Encryption, SequencesExt

CONSTANTS Clients,
          Limit        \* PageOptions.Limit

ASSUME ListingAssumption == Limit \in Nat \ {0}

VARIABLE session   \* client -> the listing it is reading

allVars == <<vars, session>>

Lists == {"PENDING", "FAILED", "archive"}

(* history stable: rows that have been in the list, the only one of their  *)
(* time in it, ever since the first page was asked for; shifted: a row     *)
(* that may have been before offset has left the list.                     *)
Sessions == [pc      : {"idle", "paging", "done"},
             list    : Lists,
             offset  : Nat,
             seen    : SUBSET (Messages \cup Nat),
             stable  : SUBSET (Messages \cup Nat),
             shifted : BOOLEAN]

NoSession == [pc |-> "idle", list |-> "FAILED", offset |-> 0,
              seen |-> {}, stable |-> {}, shifted |-> FALSE]

ListingTypeOK == TypeOK /\ session \in [Clients -> Sessions]

AllInit == Init /\ session = [c \in Clients |-> NoSession]

-----------------------------------------------------------------------------
(* The queries.                                                            *)

Contents ==
    [list \in Lists |-> IF list = "archive" THEN {a.id : a \in archive}
                       ELSE {m \in Messages : hot[m].status = list}]

(* ORDER BY created_at, and ORDER BY archived_at DESC.                     *)
Before(list, x, y) ==
    IF list = "archive"
    THEN \E a, b \in archive : a.id = x /\ b.id = y /\ a.archived > b.archived
    ELSE hot[x].created < hot[y].created

(* Rows of one time come in any order, a new one in every query.           *)
Orders(list) ==
    {s \in SetToSeqs(Contents[list]) :
        \A i, j \in 1..Len(s) : Before(list, s[i], s[j]) => i < j}

(* LIMIT and OFFSET.                                                       *)
Page(all, offset) ==
    SubSeq(all, offset + 1, Min({offset + Limit, Len(all)}))

CipherOf(list, id) ==
    IF list = "archive" THEN (CHOOSE a \in archive : a.id = id).cipher ELSE hot[id].cipher

ReadableOnly(n, list, ids) ==
    SelectSeq(ids, LAMBDA x : hydrate(registry[n], CipherOf(list, x)))

(* scanMessagesSafe, scanArchivedSafe: a row that hydrate cannot decrypt   *)
(* stays in the result, as ciphertext.                                     *)
ScanSafe(n, list, ids) == ids

(* The client has read the list to its end.                                *)
ShortPage(ids) == Len(ids) < Limit

-----------------------------------------------------------------------------

(* Rows of the list whose place in it the ORDER BY determines.             *)
Placed ==
    [list \in Lists |->
        {x \in Contents[list] : \A y \in Contents[list] \ {x} :
                                   Before(list, x, y) \/ Before(list, y, x)}]

(* The rows that come before x.                                            *)
Rank(list, x) == Cardinality({y \in Contents[list] : Before(list, y, x)})

Open(c, list) ==
    /\ session[c].pc = "idle"
    /\ session' = [session EXCEPT ![c] = [NoSession EXCEPT !.pc     = "paging",
                                                          !.list   = list,
                                                          !.stable = Placed[list]]]
    /\ UNCHANGED vars

(* listByStatus or ListArchived at n, for the client's next page.          *)
ListPage(c, n) ==
    \E all \in Orders(session[c].list) :
        LET s   == session[c]
            ids == ScanSafe(n, s.list, Page(all, s.offset))
        IN /\ n \in up
           /\ s.pc = "paging"
           /\ session' = [session EXCEPT
                            ![c] = [s EXCEPT !.pc     = IF ShortPage(ids) THEN "done" ELSE @,
                                             !.offset = @ + Len(ids),
                                             !.seen   = @ \cup Range(ids)]]
           /\ UNCHANGED vars

Close(c) ==
    /\ session[c].pc # "idle"
    /\ session' = [session EXCEPT ![c] = NoSession]
    /\ UNCHANGED vars

(* What any other step means for a listing under way.                      *)
Followed(s) ==
    IF s.pc # "paging" THEN s
    ELSE [s EXCEPT
            !.stable  = @ \cap Placed'[s.list],
            !.shifted = @ \/ \E x \in Contents[s.list] \ Contents'[s.list] :
                               s.offset > Rank(s.list, x)]

AllNext ==
    \/ Next /\ session' = [c \in Clients |-> Followed(session[c])]
    \/ \E c \in Clients, list \in Lists : Open(c, list)
    \/ \E c \in Clients, n \in Nodes : ListPage(c, n)
    \/ \E c \in Clients : Close(c)

AllSpec == AllInit /\ [][AllNext]_allVars

-----------------------------------------------------------------------------
(* Properties.                                                             *)

(* A broken cipher never hides rows from listing, and neither do pages: a  *)
(* client that pages to the end has seen every row that was in the list    *)
(* all the time and shared its created_at (archived_at) with no other row  *)
(* of it, whichever nodes answered and whatever was inserted before or     *)
(* between its pages, unless a row it had already passed left the list     *)
(* (OFFSET then skips one; RetryOne on the rows of a page does this).      *)
ListingComplete ==
    \A c \in Clients :
        session[c].pc = "done" /\ ~session[c].shifted => session[c].stable \subseteq session[c].seen
=============================================================================
