---------------------------- MODULE CommentSheet ----------------------------
(***************************************************************************)
(* The comment sheet of the feed (web/static/js/feed.js): one sheet that   *)
(* every card opens, the pages it loads and the comments that are posted   *)
(* from it.  It has one load at a time and one post, but neither is given  *)
(* up when the sheet is closed or another video's is opened.               *)
(*                                                                         *)
(* On the server comments show when they commit, in any order of their ids *)
(* (internal/store/store.go).  Own are the comments posted from the sheet. *)
(***************************************************************************)
EXTENDS Rows

CONSTANTS
    Videos,
    None,       \* the sheet is closed
    MaxId,      \* bound: ids of comments
    Of,         \* the video of each comment
    Own,        \* the comments that are posted from this page
    Limit       \* comments of a page: 20

Ids == 1 .. MaxId

ASSUME VideoAssumption == None \notin Videos
ASSUME MaxIdAssumption == MaxId \in Nat
ASSUME OfAssumption    == Of \in [Ids -> Videos]
ASSUME OwnAssumption   == Own \subseteq Ids
ASSUME LimitAssumption == Limit \in Nat \ {0}

VARIABLES
    comments,   \* committed rows of comments
    sheet,      \* activeVideoId and activeCard
    cursor,     \* commentCursor
    done,       \* commentsDone
    load,       \* the request of loadComments: one at a time (commentsLoading)
    stage,      \* what has become of a comment posted from the sheet
    posting,    \* the one whose answer is waited for, 0: none (btn.disabled)
    paged,      \* how often the list shows a comment as a row of a page
    posted,     \* how often it shows one because it was posted
    crossed,    \* the sheet was opened while a load or a post was under way
                \* (history)
    owed        \* what the sheet has to show since it was opened (history)

listVars  == <<cursor, done, paged, posted>>
postVars  == <<stage, posting>>
sheetVars == <<comments, sheet, load, listVars, postVars, crossed, owed>>

NoLoad == [step |-> "none", of |-> None, append |-> FALSE, before |-> 0, rows |-> {}]
Loads  == [step : {"sent", "answered", "error"}, of : Videos, append : BOOLEAN,
           before : Ids \cup {0}, rows : SUBSET Ids]
Empty  == [n \in Ids |-> 0]
At(v)  == {n \in comments : Of[n] = v}
Shown  == {n \in Ids : paged[n] + posted[n] > 0}

SheetInit ==
    /\ comments = {}
    /\ sheet = None
    /\ cursor = 0
    /\ done = FALSE
    /\ load = NoLoad
    /\ stage = [n \in Own |-> "none"]
    /\ posting = 0
    /\ paged = Empty
    /\ posted = Empty
    /\ crossed = FALSE
    /\ owed = {}

----------------------------------------------------------------------------
(* The sheet.                                                              *)

Sent(v, append, before) ==
    [step |-> "sent", of |-> v, append |-> append, before |-> before, rows |-> {}]

\* Mutant: the list is left as it is until the first page is there.
OpenCommentsKeeping(v) ==
    /\ sheet' = v
    /\ cursor' = 0
    /\ done' = FALSE
    /\ owed' = {}
    /\ crossed' = (load # NoLoad \/ posting # 0)
    /\ load' = IF load = NoLoad THEN Sent(v, FALSE, 0) ELSE load
    /\ UNCHANGED <<comments, postVars, paged, posted>>

\* openComments: the list is cleared, and no page is asked for while a load is
\* under way, whichever video that is for.
OpenComments(v) ==
    /\ sheet' = v
    /\ cursor' = 0
    /\ done' = FALSE
    /\ paged' = Empty
    /\ posted' = Empty
    /\ owed' = {}
    /\ crossed' = (load # NoLoad \/ posting # 0)
    /\ load' = IF load = NoLoad THEN Sent(v, FALSE, 0) ELSE load
    /\ UNCHANGED <<comments, postVars>>

CloseComments ==
    /\ sheet # None
    /\ sheet' = None
    /\ UNCHANGED <<comments, load, listVars, postVars, crossed, owed>>

\* Scrolling down.
Scroll ==
    /\ load = NoLoad
    /\ ~done
    /\ sheet # None
    /\ load' = Sent(sheet, TRUE, cursor)
    /\ UNCHANGED <<comments, sheet, listVars, postVars, crossed, owed>>

----------------------------------------------------------------------------
(* A page.                                                                 *)

\* Mutant: WHERE id <= before.
OlderInclusive(n) == load.before = 0 \/ n <= load.before

\* WHERE before = 0 OR id < before.
Older(n) == load.before = 0 \/ n < load.before

\* ListComments: the newest ones that are left.
Page == FirstOf({n \in At(load.of) : Older(n)}, Limit)

\* The first page makes what is there by then owed.
ServeComments ==
    /\ load.step = "sent"
    /\ load' = [load EXCEPT !.step = "answered", !.rows = Page]
    /\ owed' = IF load.before = 0 /\ sheet = load.of THEN owed \cup At(load.of) ELSE owed
    /\ UNCHANGED <<comments, sheet, listVars, postVars, crossed>>

RefuseComments ==
    /\ load.step = "sent"
    /\ load' = [load EXCEPT !.step = "error"]
    /\ UNCHANGED <<comments, sheet, listVars, postVars, crossed, owed>>

\* Mutant: the list is cleared for every page.
ListOfOnePage(rows) ==
    /\ paged' = [n \in Ids |-> IF n \in rows THEN 1 ELSE 0]
    /\ posted' = Empty

\* A first page replaces the list, another one goes to its end.
List(rows) ==
    LET row == [n \in Ids |-> IF n \in rows THEN 1 ELSE 0]
    IN  /\ paged' = IF load.append THEN [n \in Ids |-> paged[n] + row[n]] ELSE row
        /\ posted' = IF load.append THEN posted ELSE Empty

\* The answer goes into the list, whichever sheet that is by now.
Render ==
    /\ load.step = "answered"
    /\ List(load.rows)
    /\ cursor' = IF load.rows = {} THEN cursor ELSE OldestOf(load.rows)
    /\ done' = (done \/ Cardinality(load.rows) < Limit)
    /\ load' = NoLoad
    /\ UNCHANGED <<comments, sheet, postVars, crossed, owed>>

\* An error answer has no comments: it ends the list.
RenderError ==
    /\ load.step = "error"
    /\ List({})
    /\ done' = TRUE
    /\ load' = NoLoad
    /\ owed' = IF load.append THEN owed \cap Shown ELSE {}
    /\ UNCHANGED <<comments, sheet, cursor, postVars, crossed>>

\* fetch is rejected; the next scroll asks again.
LoseComments ==
    /\ load # NoLoad
    /\ load' = NoLoad
    /\ owed' = IF load.before = 0 THEN owed \cap Shown ELSE owed
    /\ UNCHANGED <<comments, sheet, listVars, postVars, crossed>>

FirstLoading == load # NoLoad /\ load.before = 0

\* A first page has been read, and will replace what the list shows by then.
Replacing == load.step = "answered" /\ ~load.append

----------------------------------------------------------------------------
(* Posting.                                                                *)

SubmitComment(n) ==
    /\ sheet = Of[n]
    /\ posting = 0
    /\ stage[n] = "none"
    /\ stage' = [stage EXCEPT ![n] = "sent"]
    /\ posting' = n
    /\ UNCHANGED <<comments, sheet, load, listVars, crossed, owed>>

\* A comment commits, also one whose answer nobody waits for any more.
StoreOwn(n) ==
    /\ stage[n] \in {"sent", "back"}
    /\ n \notin comments
    /\ comments' = comments \cup {n}
    /\ stage' = [stage EXCEPT ![n] = IF @ = "sent" THEN "answered" ELSE @]
    /\ UNCHANGED <<sheet, load, listVars, posting, crossed, owed>>

StoreOther(n) ==
    /\ n \notin comments
    /\ comments' = comments \cup {n}
    /\ UNCHANGED <<sheet, load, listVars, postVars, crossed, owed>>

\* Mutant: the comment is shown without waiting for the answer.
IsAnsweredAtOnce(n) == posting = n /\ stage[n] \in {"sent", "answered"}

IsAnswered(n) == posting = n /\ stage[n] = "answered"

\* The comment in the answer goes to the top of the list.  A first page that was
\* read before wipes it again; one that is read after it has it as a row.
CommentAnswered(n) ==
    /\ IsAnswered(n)
    /\ posting' = 0
    /\ stage' = [stage EXCEPT ![n] = "done"]
    /\ posted' = [posted EXCEPT ![n] = @ + 1]
    /\ owed' = IF Replacing THEN owed ELSE owed \cup {n}
    /\ UNCHANGED <<comments, sheet, load, cursor, done, paged, crossed>>

\* An error answer, or none: the text is put back.
CommentFails(n) ==
    /\ posting = n
    /\ posting' = 0
    /\ stage' = [stage EXCEPT ![n] = "back"]
    /\ UNCHANGED <<comments, sheet, load, listVars, crossed, owed>>

SheetMove == (\E v \in Videos : OpenComments(v)) \/ Scroll \/ \E n \in Own : SubmitComment(n)
SheetStep ==
    \/ CloseComments
    \/ ServeComments \/ RefuseComments \/ LoseComments \/ Render \/ RenderError
    \/ \E n \in Ids \ Own : StoreOther(n)
    \/ \E n \in Own : StoreOwn(n) \/ CommentAnswered(n) \/ CommentFails(n)

----------------------------------------------------------------------------

SheetTypeOK ==
    /\ comments \subseteq Ids
    /\ sheet \in Videos \cup {None}
    /\ cursor \in Ids \cup {0}
    /\ done \in BOOLEAN
    /\ load \in Loads \cup {NoLoad}
    /\ stage \in [Own -> {"none", "sent", "answered", "done", "back"}]
    /\ posting \in Own \cup {0}
    /\ paged \in [Ids -> Nat]
    /\ posted \in [Ids -> Nat]
    /\ crossed \in BOOLEAN
    /\ owed \subseteq comments

\* A sheet shows comments of its own video only, unless it was opened while a
\* load or a post of another one was under way, whose answer it then shows
\* (feed.js:331-343, 354-376, 408-436).
OwnSheet == sheet # None /\ ~crossed => \A n \in Shown : Of[n] = sheet

\* What was there when the first page was read, and what was posted from the
\* sheet, stays in the list, down to where it has been scrolled and all of it
\* when it has ended, however loads and posts interleave and fail.  Two things
\* are given up: an error answer loses the rest, and a comment whose answer comes
\* between the read of a first page and its rendering is wiped by that (feed.js:361
\* clears the list for a first page; feed.js:354-376, 408-436).
SheetComplete ==
    sheet # None /\ ~crossed /\ ~FirstLoading =>
        \A n \in owed : n \in Shown \/ (n < cursor /\ ~done)

\* Pages never show a comment twice, also when sheets of several videos cross,
\* or the same one is opened again during a load; a comment posted from the
\* sheet may be there twice, as posted and in a page that was read after it
\* (feed.js:331-343, 354-376, 427).
TwiceOnlyOwn ==
    \A n \in Ids : paged[n] <= 1 /\ posted[n] <= IF n \in Own THEN 1 ELSE 0

=============================================================================
