------------------------------- MODULE Paging -------------------------------
(***************************************************************************)
(* Keyset pagination: a list that is loaded page by page, newest first,    *)
(* while rows are inserted and removed.  On the server listVideosPage and  *)
(* ListLikedVideos and ListComments (internal/store/store.go) and          *)
(* ListMessages and ListConversations (internal/store/chat.go); on the     *)
(* page loadPage of feed.js and of profile.js, loadComments, loadMessages  *)
(* and loadConversations.                                                  *)
(*                                                                         *)
(* A row is its id: a video, a row of likes in the Liked tab, a comment, a *)
(* message, a conversation.  An id is given out by a sequence when a       *)
(* transaction inserts the row, and the row shows when that transaction    *)
(* commits, so rows show in any order.  Conversations are ordered by their *)
(* activity, which has nothing to do with their ids.  One list is followed *)
(* from where it is opened to its end; what a page shows besides, its own  *)
(* posts and what is pushed to it, is not paged.                           *)
(***************************************************************************)
EXTENDS Integers, Sequences, FiniteSets

CONSTANTS
    Lists,      \* of "feed", "videos", "liked", "comments", "thread" and
                \* "conversations"
    Limit,      \* rows of a page: 20, 24 in a profile, 50 in a thread
    MaxId       \* bound: ids given out

ASSUME ListAssumption  ==
    Lists \subseteq {"feed", "videos", "liked", "comments", "thread", "conversations"}
ASSUME LimitAssumption == Limit \in Nat \ {0}
ASSUME MaxIdAssumption == MaxId \in Nat

VARIABLES
    list,       \* which list it is
    nextId,     \* the sequence behind the ids
    pending,    \* ids of rows that are inserted and not committed
    rows,       \* ids of committed rows
    fetch,      \* the request of the page: it has one at a time (loading)
    page,       \* the rows of the answer that is on its way
    cursor,     \* the cursor of the next request, 0: from the start
    shown,      \* the pages that are rendered
    done,       \* whether the page has stopped to ask for more
    owed,       \* rows that were there when the first page was read, and have
                \* not been removed since (history)
    refused,    \* it has stopped because of an error (history)
    byId        \* the activity of conversations went by their ids (history)

tableVars  == <<list, nextId, pending, rows>>
clientVars == <<cursor, shown, done, refused>>
historyVars == <<owed, byId>>
vars == <<tableVars, fetch, page, clientVars, historyVars>>

Ids == 1 .. MaxId

Init ==
    /\ list \in Lists
    /\ nextId \in 1 .. MaxId + 1
    /\ pending = {}
    /\ rows = 1 .. nextId - 1
    /\ fetch = "none"
    /\ page = {}
    /\ cursor = 0
    /\ shown = <<>>
    /\ done = FALSE
    /\ owed = {}
    /\ refused = FALSE
    /\ byId = TRUE

----------------------------------------------------------------------------
(* The table.                                                              *)

\* Mutant: the row shows at once.
InsertDirty ==
    /\ nextId <= MaxId
    /\ pending' = pending \cup {nextId}
    /\ rows' = rows \cup {nextId}
    /\ nextId' = nextId + 1
    /\ UNCHANGED <<list, fetch, page, clientVars, historyVars>>

Insert ==
    /\ nextId <= MaxId
    /\ pending' = pending \cup {nextId}
    /\ nextId' = nextId + 1
    /\ UNCHANGED <<list, rows, fetch, page, clientVars, historyVars>>

Commit(n) ==
    /\ n \in pending
    /\ pending' = pending \ {n}
    /\ rows' = rows \cup {n}
    /\ UNCHANGED <<list, nextId, fetch, page, clientVars, historyVars>>

Rollback(n) ==
    /\ n \in pending
    /\ pending' = pending \ {n}
    /\ UNCHANGED <<list, nextId, rows, fetch, page, clientVars, historyVars>>

\* Only likes are ever removed.
Remove(n) ==
    /\ list = "liked"
    /\ n \in rows
    /\ rows' = rows \ {n}
    /\ owed' = owed \ {n}
    /\ UNCHANGED <<list, nextId, pending, fetch, page, clientVars, byId>>

----------------------------------------------------------------------------
(* A request.                                                              *)

\* Mutant: WHERE id <= cursor.
AfterInclusive(n) == cursor = 0 \/ n <= cursor

\* WHERE cursor = 0 OR id < cursor.
After(n) == cursor = 0 \/ n < cursor

\* Mutant: ORDER BY id ASC.
IsPageOldest(p) ==
    LET left == {n \in rows : After(n)}
    IN  /\ p \subseteq left
        /\ Cardinality(p) <= Limit
        /\ Cardinality(p) < Limit => p = left
        /\ \A m \in p, n \in left \ p : m < n

\* ORDER BY id DESC.
Newest(p) == \A m \in p, n \in rows \ p : After(n) => n < m

\* LIMIT Limit, and for conversations ORDER BY the time of the last message.
IsPage(p) ==
    LET left == {n \in rows : After(n)}
    IN  /\ p \subseteq left
        /\ Cardinality(p) <= Limit
        /\ Cardinality(p) < Limit => p = left
        /\ list # "conversations" => Newest(p)

LoadPage ==
    /\ fetch = "none"
    /\ ~done
    /\ fetch' = "sent"
    /\ UNCHANGED <<tableVars, page, clientVars, historyVars>>

ServePage ==
    /\ fetch = "sent"
    /\ fetch' = "answered"
    /\ \E p \in SUBSET rows :
          /\ IsPage(p)
          /\ page' = p
          /\ byId' = (byId /\ (list = "conversations" => Newest(p)))
    /\ owed' = IF shown = <<>> THEN rows ELSE owed
    /\ UNCHANGED <<tableVars, clientVars>>

\* The query fails: the answer is JSON, and has no list.
ServeError ==
    /\ fetch = "sent"
    /\ fetch' = "error"
    /\ UNCHANGED <<tableVars, page, clientVars, historyVars>>

\* The chat page asks for a first page once, and for another one only while it
\* has a cursor: if there is no first page, there is no other one.
OfChat == list \in {"thread", "conversations"}
Stuck  == OfChat /\ shown = <<>>

\* The list ends, or asks again at the next scroll.
AfterError(ends) ==
    /\ fetch' = "none"
    /\ page' = {}
    /\ IF ends THEN done' = TRUE /\ refused' = TRUE ELSE UNCHANGED <<done, refused>>
    /\ UNCHANGED <<tableVars, cursor, shown, historyVars>>

\* fetch is rejected.
Lose ==
    /\ fetch \in {"sent", "answered", "error"}
    /\ AfterError(Stuck)

\* Mutant: a page of up to Limit rows is the last one.
LastPageFull(p) == Cardinality(p) <= Limit

\* The chat page takes the id of the last row for its cursor also from a short
\* page, and ends with an empty one.
LastPage(p) == IF OfChat THEN p = {} ELSE Cardinality(p) < Limit

Oldest(p) == CHOOSE n \in p : \A m \in p : n <= m

\* The next cursor is the id of the last row; in the Liked tab that of its row
\* of likes, or 0 at the end.  The last one of a page of conversations may be
\* any of them.
IsCursor(p, n) ==
    CASE list = "liked" /\ LastPage(p) -> n = 0
      [] list = "conversations" -> n \in p
      [] OTHER -> n = Oldest(p)

Render ==
    /\ fetch = "answered"
    /\ fetch' = "none"
    /\ page' = {}
    /\ \/ /\ page = {}
          /\ done' = TRUE
          /\ UNCHANGED <<cursor, shown, byId>>
       \/ /\ page # {}
          /\ shown' = Append(shown, page)
          /\ \E n \in Ids \cup {0} : IsCursor(page, n) /\ cursor' = n
          /\ byId' = (byId /\ (list = "conversations" => cursor' = Oldest(page)))
          /\ done' = LastPage(page)
    /\ UNCHANGED <<tableVars, owed, refused>>

\* An answer without a list is taken for an empty page, but not by the chat page.
RenderError ==
    /\ fetch = "error"
    /\ AfterError(~OfChat \/ Stuck)

TableStep == Insert \/ \E n \in Ids : Commit(n) \/ Rollback(n) \/ Remove(n)
ListStep  == LoadPage \/ ServePage \/ ServeError \/ Lose \/ Render \/ RenderError

Next == TableStep \/ ListStep

Spec == Init /\ [][Next]_vars

----------------------------------------------------------------------------

TypeOK ==
    /\ list \in Lists
    /\ nextId \in 1 .. MaxId + 1
    /\ pending \subseteq 1 .. nextId - 1
    /\ rows \subseteq (1 .. nextId - 1) \ pending
    /\ fetch \in {"none", "sent", "answered", "error"}
    /\ page \subseteq Ids
    /\ cursor \in 0 .. MaxId
    /\ shown \in Seq(SUBSET Ids)
    /\ done \in BOOLEAN
    /\ owed \subseteq rows
    /\ refused \in BOOLEAN
    /\ byId \in BOOLEAN
    /\ list # "conversations" => byId

\* What a later page shows is older, also if rows were inserted, committed
\* late, or removed in between, or a page was asked for twice: no row is shown
\* twice.  For conversations only as long as their activity goes by their ids
\* (store.go:123-157, 171-215, 326-354; chat.go:125-180, 245-273;
\* feed.js:35-59, 355-383; profile.js:37-59; chat.js:94-126, 185-216).
NewestFirst ==
    byId => \A j, k \in DOMAIN shown : j < k => \A m \in shown[j], n \in shown[k] : n < m

Shown == UNION {shown[k] : k \in DOMAIN shown}

\* A list that has ended has shown every row that was there when it was begun
\* and was not removed since, unless an error ended it, or its order is not
\* that of the ids (feed.js:44-53, 363-372, profile.js:45-51, chat.js:190-196).
CompleteWhenDone == done /\ ~refused /\ byId => owed \subseteq Shown

\* The inductive invariant behind NewestFirst and CompleteWhenDone: the cursor
\* is where the pages end, everything owed above it is shown, and a page on
\* its way leaves out only rows older than its own, and those only if it is
\* full.
PageInv ==
    /\ NewestFirst
    /\ CompleteWhenDone
    /\ fetch # "none" => ~done
    /\ byId /\ ~done =>
          /\ shown = <<>> <=> cursor = 0
          /\ \A m \in Shown : cursor <= m
          /\ shown # <<>> => \A n \in owed : ~After(n) => n \in Shown
    /\ byId /\ fetch = "answered" =>
          /\ \A n \in page : After(n)
          /\ \A n \in owed : After(n) =>
                n \in page \/ (~LastPage(page) /\ \A m \in page : n < m)

=============================================================================
