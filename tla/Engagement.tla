----------------------------- MODULE Engagement -----------------------------
(***************************************************************************)
(* Likes and comments (internal/store/store.go, internal/service/video.go).*)
(* Each request runs one READ COMMITTED transaction; every SQL statement   *)
(* of it is an action, because every statement sees what has committed by  *)
(* the time it starts, and what its own transaction wrote.                 *)
(*                                                                         *)
(* PostgreSQL's locks are read off the transactions: one that has inserted *)
(* or deleted a row of likes holds its key, one that has updated the row   *)
(* of a video holds that row, both until it ends.                          *)
(***************************************************************************)
EXTENDS Integers, FiniteSets

CONSTANTS
    Users,
    Videos,     \* the videos that exist; GetVideo turns the others away
    Requests,   \* HTTP requests, each runs at most one transaction
    NoRow,      \* no row in likes
    OldRow      \* a row in likes that is older than all the requests

ASSUME RequestsFinite == IsFiniteSet(Requests)
ASSUME UsersFinite    == IsFiniteSet(Users)
ASSUME RowsDiffer     == NoRow # OldRow /\ NoRow \notin Requests /\ OldRow \notin Requests

VARIABLES
    likes,          \* committed rows of likes; a new row is named by its request
    likesCount,     \* videos.likes_count
    comments,       \* committed rows of comments: the requests that wrote them
    commentsCount,  \* videos.comments_count
    pc,             \* the statement each transaction runs next
    user, video,    \* the arguments of a request
    effect,         \* what the transaction has done to its key in likes
    target,         \* the row its DELETE has found
    count,          \* the result of its SELECT COUNT(*)
    liked,          \* whether its INSERT has affected a row
    overtaken,      \* history: the toggles whose key has changed since they began
    stale           \* history: the requests whose count was out of date, by another
                    \* one's commit, before they held the row of the video

vars == <<likes, likesCount, comments, commentsCount, pc, user, video,
          effect, target, count, liked, overtaken, stale>>
request == <<user, video>>
tables == <<likes, likesCount, comments, commentsCount>>
writes == <<effect, target, count, liked, overtaken, stale>>

Rows == Requests \cup {NoRow, OldRow}

\* The toggle transaction: insert, then scan and lock of the DELETE if the row
\* was there, count, update, commit.  The comment transaction: write, tally,
\* refresh, publish, the same four steps on the table comments.
LikeSteps    == {"insert", "scan", "lock", "count", "update", "commit"}
CommentSteps == {"write", "tally", "refresh", "publish"}
Ended        == {"done", "failed"}
Steps        == {"idle"} \cup LikeSteps \cup CommentSteps \cup Ended

Likers(v)   == {u \in Users : likes[v][u] # NoRow}
Comments(v) == {r \in comments : video[r] = v}

Init ==
    /\ likes \in [Videos -> [Users -> {NoRow, OldRow}]]
    /\ likesCount = [v \in Videos |-> Cardinality(Likers(v))]
    /\ comments = {}
    /\ commentsCount = [v \in Videos |-> 0]
    /\ pc = [r \in Requests |-> "idle"]
    /\ user \in [Requests -> Users]
    /\ video \in [Requests -> Videos]
    /\ effect = [r \in Requests |-> "none"]
    /\ target = [r \in Requests |-> NoRow]
    /\ count = [r \in Requests |-> 0]
    /\ liked = [r \in Requests |-> FALSE]
    /\ overtaken = {}
    /\ stale = {}

\* The row of likes that the unique key of request r may hold.
Row(r) == likes[video[r]][user[r]]

\* Mutant: likes has no unique key to wait on.
KeyNeverBusy(r) == FALSE

\* Another transaction has an uncommitted insert or delete on r's key.
KeyBusy(r) ==
    \E q \in Requests \ {r} : /\ user[q] = user[r] /\ video[q] = video[r]
                              /\ effect[q] # "none"

\* Another transaction has an uncommitted update of r's video.
VideoBusy(r) ==
    \E q \in Requests \ {r} : video[q] = video[r] /\ pc[q] \in {"commit", "publish"}

Goto(r, step) == pc' = [pc EXCEPT ![r] = step]

----------------------------------------------------------------------------
(* ToggleLike.                                                             *)

ToggleBegin(r) ==
    /\ pc[r] = "idle"
    /\ Goto(r, "insert")
    /\ UNCHANGED <<tables, request, writes>>

\* Mutant: liked = affected >= 0, whatever the INSERT has done.
ToggleInsertLikes(r) ==
    /\ pc[r] = "insert"
    /\ ~KeyBusy(r)
    /\ IF Row(r) = NoRow
       THEN /\ effect' = [effect EXCEPT ![r] = "insert"]
            /\ Goto(r, "count")
       ELSE /\ Goto(r, "scan")
            /\ UNCHANGED effect
    /\ liked' = [liked EXCEPT ![r] = TRUE]
    /\ UNCHANGED <<tables, request, target, count, overtaken, stale>>

\* INSERT ... ON CONFLICT DO NOTHING waits for a transaction that is inserting
\* or deleting the key.  A row that is there makes it do nothing, and it takes
\* no lock on that row.
ToggleInsert(r) ==
    /\ pc[r] = "insert"
    /\ ~KeyBusy(r)
    /\ IF Row(r) = NoRow
       THEN /\ effect' = [effect EXCEPT ![r] = "insert"]
            /\ Goto(r, "count")
       ELSE /\ Goto(r, "scan")
            /\ UNCHANGED effect
    /\ liked' = [liked EXCEPT ![r] = (Row(r) = NoRow)]
    /\ UNCHANGED <<tables, request, target, count, overtaken, stale>>

\* DELETE, its snapshot: the committed row.
ToggleScan(r) ==
    /\ pc[r] = "scan"
    /\ target' = [target EXCEPT ![r] = Row(r)]
    /\ Goto(r, IF Row(r) = NoRow THEN "count" ELSE "lock")
    /\ UNCHANGED <<tables, request, effect, count, liked, overtaken, stale>>

\* DELETE, the row: it waits for a transaction that is deleting the same row,
\* and deletes nothing if that row is gone by then.
ToggleDelete(r) ==
    /\ pc[r] = "lock"
    /\ Row(r) = target[r] => ~KeyBusy(r)
    /\ effect' = [effect EXCEPT ![r] = IF Row(r) = target[r] THEN "delete" ELSE "none"]
    /\ Goto(r, "count")
    /\ UNCHANGED <<tables, request, target, count, liked, overtaken, stale>>

\* Mutants: the count is read outside the transaction; the stored count is
\* changed by one instead.
LikersCommitted(r) == Likers(video[r])

ToggleCountByOne(r) ==
    /\ pc[r] = "count"
    /\ count' = [count EXCEPT ![r] = likesCount[video[r]] + IF effect[r] = "insert" THEN 1 ELSE -1]
    /\ Goto(r, "update")
    /\ UNCHANGED <<tables, request, effect, target, liked, overtaken, stale>>

\* SELECT COUNT(*): what is committed now, with the transaction's own change.
LikersSeen(r) ==
    CASE effect[r] = "insert" -> Likers(video[r]) \cup {user[r]}
      [] effect[r] = "delete" -> Likers(video[r]) \ {user[r]}
      [] effect[r] = "none"   -> Likers(video[r])

ToggleCount(r) ==
    /\ pc[r] = "count"
    /\ count' = [count EXCEPT ![r] = Cardinality(LikersSeen(r))]
    /\ Goto(r, "update")
    /\ UNCHANGED <<tables, request, effect, target, liked, overtaken, stale>>

\* UPDATE videos waits for the row; the new value shows at the commit.
ToggleUpdate(r) ==
    /\ pc[r] = "update"
    /\ ~VideoBusy(r)
    /\ Goto(r, "commit")
    /\ UNCHANGED <<tables, request, writes>>

\* Other toggles of r's key that have begun and not ended.
Rivals(r) ==
    {q \in Requests \ {r} : user[q] = user[r] /\ video[q] = video[r] /\ pc[q] \in LikeSteps}

\* Other requests that have counted the rows of r's video, and wait for the row
\* they store the count in.
Counted(r, step) == {q \in Requests \ {r} : video[q] = video[r] /\ pc[q] = step}

\* The answer is liked[r], with count[r].
ToggleCommit(r) ==
    /\ pc[r] = "commit"
    /\ likes' = CASE effect[r] = "insert" -> [likes EXCEPT ![video[r]][user[r]] = r]
                  [] effect[r] = "delete" -> [likes EXCEPT ![video[r]][user[r]] = NoRow]
                  [] effect[r] = "none"   -> likes
    /\ likesCount' = [likesCount EXCEPT ![video[r]] = count[r]]
    /\ effect' = [effect EXCEPT ![r] = "none"]
    /\ overtaken' = IF effect[r] = "none" THEN overtaken ELSE overtaken \cup Rivals(r)
    /\ stale' = IF effect[r] = "none" THEN stale ELSE stale \cup Counted(r, "update")
    /\ Goto(r, "done")
    /\ UNCHANGED <<comments, commentsCount, request, target, count, liked>>

----------------------------------------------------------------------------
(* CreateComment, for a text that is not empty after trimming.             *)

CommentBegin(r) ==
    /\ pc[r] = "idle"
    /\ Goto(r, "write")
    /\ UNCHANGED <<tables, request, writes>>

CommentWrite(r) ==
    /\ pc[r] = "write"
    /\ Goto(r, "tally")
    /\ UNCHANGED <<tables, request, writes>>

CommentTally(r) ==
    /\ pc[r] = "tally"
    /\ count' = [count EXCEPT ![r] = Cardinality(Comments(video[r])) + 1]
    /\ Goto(r, "refresh")
    /\ UNCHANGED <<tables, request, effect, target, liked, overtaken, stale>>

CommentRefresh(r) ==
    /\ pc[r] = "refresh"
    /\ ~VideoBusy(r)
    /\ Goto(r, "publish")
    /\ UNCHANGED <<tables, request, writes>>

CommentCommit(r) ==
    /\ pc[r] = "publish"
    /\ comments' = comments \cup {r}
    /\ commentsCount' = [commentsCount EXCEPT ![video[r]] = count[r]]
    /\ stale' = stale \cup Counted(r, "refresh")
    /\ Goto(r, "done")
    /\ UNCHANGED <<likes, likesCount, request, effect, target, count, liked, overtaken>>

----------------------------------------------------------------------------

\* Mutant: a handler returns without a rollback, the locks stay.
RollbackForgotten(r) ==
    /\ pc[r] \notin {"idle"} \cup Ended
    /\ Goto(r, "failed")
    /\ UNCHANGED <<tables, request, writes>>

\* The client goes away, a statement fails, or the process ends: the deferred
\* Rollback, or the lost connection, undoes the transaction.
Rollback(r) ==
    /\ pc[r] \notin {"idle"} \cup Ended
    /\ effect' = [effect EXCEPT ![r] = "none"]
    /\ Goto(r, "failed")
    /\ UNCHANGED <<tables, request, target, count, liked, overtaken, stale>>

ToggleStep(r) ==
    \/ ToggleInsert(r) \/ ToggleScan(r) \/ ToggleDelete(r)
    \/ ToggleCount(r) \/ ToggleUpdate(r) \/ ToggleCommit(r)

CommentStep(r) ==
    \/ CommentWrite(r) \/ CommentTally(r) \/ CommentRefresh(r) \/ CommentCommit(r)

\* Every request has been answered: the behaviours of the bound end here.
AllEnded ==
    /\ \A r \in Requests : pc[r] \in Ended
    /\ UNCHANGED vars

Next ==
    \/ \E r \in Requests : ToggleBegin(r) \/ CommentBegin(r)
    \/ \E r \in Requests : ToggleStep(r) \/ CommentStep(r) \/ Rollback(r)
    \/ AllEnded

Spec == Init /\ [][Next]_vars

\* PostgreSQL runs every statement that is not waiting for a lock.
FairSpec ==
    /\ Spec
    /\ \A r \in Requests : WF_vars(ToggleStep(r)) /\ WF_vars(CommentStep(r))

----------------------------------------------------------------------------

TypeOK ==
    /\ likes \in [Videos -> [Users -> Rows]]
    /\ likesCount \in [Videos -> Nat]
    /\ comments \subseteq Requests
    /\ commentsCount \in [Videos -> Nat]
    /\ pc \in [Requests -> Steps]
    /\ user \in [Requests -> Users]
    /\ video \in [Requests -> Videos]
    /\ effect \in [Requests -> {"none", "insert", "delete"}]
    /\ target \in [Requests -> Rows]
    /\ count \in [Requests -> Nat]
    /\ liked \in [Requests -> BOOLEAN]
    /\ overtaken \subseteq Requests
    /\ stale \subseteq Requests

Active(r) == pc[r] \notin {"idle"} \cup Ended

\* What a transaction is about to commit still fits the table, whatever has
\* committed since its statements ran: the row it answers liked = true for is
\* not there yet, the row it deletes is the one it found (store.go:255-268).
KeyHeld ==
    \A r \in Requests :
        /\ effect[r] = "insert" => Row(r) = NoRow
        /\ effect[r] = "delete" => Row(r) = target[r] /\ Row(r) # NoRow
        /\ effect[r] # "none"   => ~KeyBusy(r)

\* The inductive invariant behind KeyHeld: only a toggle between its write and
\* its end has an effect, and one about to delete has found a row.
EffectInv ==
    /\ \A r \in Requests : effect[r] # "none" => pc[r] \in {"count", "update", "commit"}
    /\ \A r \in Requests : pc[r] = "lock" => target[r] # NoRow
    /\ KeyHeld

\* The table as the clients see it: a toggle takes effect when it commits, and
\* answers liked[r]; comments, and toggles rolled back, leave it as it is.
Answer(r) ==
    CASE pc[r] # "done" \/ r \in comments -> "none"
      [] pc[r] = "done" /\ r \notin comments -> IF liked[r] THEN "liked" ELSE "unliked"

Table == INSTANCE LikeTable WITH
    likers <- [v \in Videos |-> Likers(v)],
    open   <- {r \in Requests : pc[r] \in LikeSteps},
    answer <- [r \in Requests |-> Answer(r)]

\* Each toggle flips the like of its user in one step and answers which way;
\* one that changes nothing has been overtaken by another toggle of the same
\* user (store.go:255-268, "toggles a like ... and returns the new state").
FlipsTheLike == Table!Spec

\* The inductive invariant behind FlipsTheLike: a toggle without an effect, or
\* about to find that it has none, has been overtaken.
FlipInv ==
    /\ \A r \in comments : pc[r] = "done"
    /\ \A r \in Requests :
          /\ pc[r] \in {"scan", "lock"} => ~liked[r]
          /\ pc[r] \in {"count", "update", "commit"} => liked[r] = (effect[r] = "insert")
          /\ \/ pc[r] \in {"count", "update", "commit"} /\ effect[r] = "none"
             \/ pc[r] = "scan" /\ Row(r) = NoRow
             \/ pc[r] = "lock" /\ Row(r) # target[r]
             => r \in overtaken

\* likes_count and comments_count fit the rows of likes and comments.
LikesExact(v)    == likesCount[v] = Cardinality(Likers(v))
CommentsExact(v) == commentsCount[v] = Cardinality(Comments(v))

\* A step that leaves v's row and rows alone, or right, or stores a stale count.
LikesKept(v) ==
    \/ LikesExact(v)' \/ UNCHANGED <<Likers(v), likesCount[v]>>
    \/ \E r \in stale : video[r] = v /\ pc[r] = "commit" /\ pc'[r] = "done"

CommentsKept(v) ==
    \/ CommentsExact(v)' \/ UNCHANGED <<Comments(v), commentsCount[v]>>
    \/ \E r \in stale : video[r] = v /\ pc[r] = "publish" /\ pc'[r] = "done"

\* Against "Denormalized counts kept consistent via transactions"
\* (ARCHITECTURE.md:450) overlapping requests can leave a count wrong, but in
\* one way only: a transaction has counted, waits for the row of the video while
\* another one commits a change of what it counted, and stores its count all the
\* same.  Every other commit leaves the count exact, also where it found a wrong
\* one (store.go:270-277, 302-309).
OnlyStaleCountsDrift == [][\A v \in Videos : LikesKept(v) /\ CommentsKept(v)]_vars

\* The inductive invariant behind OnlyStaleCountsDrift: a count that is not
\* stale is the number of rows there would be if its transaction committed
\* now, and one transaction at a time holds the row of a video.
CountInv ==
    /\ \A r \in comments : pc[r] = "done"
    /\ \A r \in Requests \ stale :
          /\ pc[r] \in {"update", "commit"}   => count[r] = Cardinality(LikersSeen(r))
          /\ pc[r] \in {"refresh", "publish"} => count[r] = Cardinality(Comments(video[r])) + 1
    /\ \A r \in Requests : pc[r] \in {"commit", "publish"} => ~VideoBusy(r)

\* Every request that has begun is answered: transactions wait for each other,
\* on keys of likes and rows of videos, but never in a circle.
AllAnswered == \A r \in Requests : Active(r) ~> pc[r] \in Ended

\* Request q holds the key, or the row of the video, that r waits for.
Blocks(q, r) ==
    /\ q # r /\ video[q] = video[r]
    /\ \/ /\ user[q] = user[r] /\ effect[q] # "none"
          /\ pc[r] = "insert" \/ (pc[r] = "lock" /\ Row(r) = target[r])
       \/ /\ pc[q] \in {"commit", "publish"}
          /\ pc[r] \in {"update", "refresh"}

\* The safety half of AllAnswered: a request waits only for those that are
\* further on, so that no chain of waiting requests closes to a circle; and
\* while some request is under way one of them waits for nobody.
Rank(r) == CASE pc[r] \in {"commit", "publish"}          -> 3
             [] pc[r] \in {"count", "update", "refresh"} -> 2
             [] OTHER                                    -> 1

NoCircle ==
    /\ \A q, r \in Requests : Blocks(q, r) => Active(q) /\ Rank(q) > Rank(r)
    /\ (\E r \in Requests : Active(r)) =>
           \E r \in Requests : Active(r) /\ ~\E q \in Requests : Blocks(q, r)

=============================================================================
