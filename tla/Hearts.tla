------------------------------- MODULE Hearts -------------------------------
(***************************************************************************)
(* The hearts of the feed (web/static/js/feed.js): the like button, the    *)
(* double tap, which shows a like before it is answered, and the requests  *)
(* both send.  The button can be clicked again before its answer is there, *)
(* so requests overlap, and their answers come in any order, or never.     *)
(*                                                                         *)
(* The server is what Engagement makes of Store.ToggleLike for one user: a *)
(* toggle inserts the like, or finds one and deletes it in a second        *)
(* statement, when another one may have deleted it.                        *)
(***************************************************************************)
EXTENDS Integers

CONSTANTS
    Cards,      \* videos of the feed, a card each
    MaxPosts    \* bound: requests under way at a time

ASSUME MaxPostsAssumption == MaxPosts \in Nat

VARIABLES
    liked,      \* whether the table likes has a row of the user
    heart,      \* whether the card shows one
    posts,      \* the requests under way
    trusted     \* the page was told of the last change, and by a request that
                \* no other change was under way with (history)

heartVars == <<liked, heart, posts, trusted>>

Slots == 1 .. MaxPosts
\* alone: no other change to the like was under way with it (history).
\* sure: nor was the heart wrong when it was sent (history).
\* took: it has changed the table.
Posts == [of : Cards, by : {"button", "tap"}, step : {"sent", "found", "answered", "error"},
          took : BOOLEAN, liked : BOOLEAN, alone : BOOLEAN, sure : BOOLEAN]
NoPost == [step |-> "none"]

\* The feed comes with whether the user likes a video.
HeartInit ==
    /\ liked \in [Cards -> BOOLEAN]
    /\ heart = liked
    /\ posts = [k \in Slots |-> NoPost]
    /\ trusted = [v \in Cards |-> TRUE]

UnderWay(v) == {k \in Slots : posts[k] # NoPost /\ posts[k].of = v}

\* The requests for v, when something else changes its like or is about to.
Crowded(v) ==
    [k \in Slots |-> IF k \in UnderWay(v) THEN [posts[k] EXCEPT !.alone = FALSE] ELSE posts[k]]

----------------------------------------------------------------------------

\* fetch, with the first free slot.
Post(v, by) ==
    \E k \in Slots :
       /\ posts[k] = NoPost
       /\ \A j \in 1 .. k - 1 : posts[j] # NoPost
       /\ posts' = [Crowded(v) EXCEPT ![k] =
                       [of |-> v, by |-> by, step |-> "sent", took |-> FALSE, liked |-> FALSE,
                        alone |-> UnderWay(v) = {}, sure |-> trusted[v] /\ UnderWay(v) = {}]]

\* toggleLike: nothing is shown before the answer.
LikeButton(v) ==
    /\ Post(v, "button")
    /\ UNCHANGED <<liked, heart, trusted>>

\* Mutant: the heart is not looked at.
DoubleTapAlways(v) ==
    /\ heart' = [heart EXCEPT ![v] = TRUE]
    /\ Post(v, "tap")
    /\ UNCHANGED <<liked, trusted>>

\* likeVideo: a heart that is shown is only animated.
DoubleTap(v) ==
    /\ ~heart[v]
    /\ heart' = [heart EXCEPT ![v] = TRUE]
    /\ Post(v, "tap")
    /\ UNCHANGED <<liked, trusted>>

\* Another tab of the user, or a request that was given up for lost.
OtherTab(v) ==
    /\ liked' = [liked EXCEPT ![v] = ~@]
    /\ posts' = Crowded(v)
    /\ trusted' = [trusted EXCEPT ![v] = FALSE]
    /\ UNCHANGED heart

----------------------------------------------------------------------------

\* INSERT ... ON CONFLICT DO NOTHING.
Insert(k) ==
    /\ posts[k].step = "sent"
    /\ LET v == posts[k].of
       IN  IF liked[v]
           THEN posts' = [posts EXCEPT ![k].step = "found"] /\ UNCHANGED liked
           ELSE /\ liked' = [liked EXCEPT ![v] = TRUE]
                /\ posts' = [posts EXCEPT ![k].step = "answered", ![k].took = TRUE,
                                          ![k].liked = TRUE]
    /\ UNCHANGED <<heart, trusted>>

\* DELETE, of no row if another request has deleted it.
Delete(k) ==
    /\ posts[k].step = "found"
    /\ liked' = [liked EXCEPT ![posts[k].of] = FALSE]
    /\ posts' = [posts EXCEPT ![k].step = "answered", ![k].took = TRUE]
    /\ UNCHANGED <<heart, trusted>>

\* An error answer, of a toggle that was rolled back or only seemed to be.
Refuse(k) ==
    /\ posts[k].step \in {"sent", "found", "answered"}
    /\ posts' = [posts EXCEPT ![k].step = "error"]
    /\ UNCHANGED <<liked, heart, trusted>>

----------------------------------------------------------------------------

\* The request is over and the heart is set.
Settle(k, shows, told) ==
    /\ heart' = [heart EXCEPT ![posts[k].of] = shows]
    /\ trusted' = [trusted EXCEPT ![posts[k].of] = told]
    /\ posts' = [posts EXCEPT ![k] = NoPost]
    /\ UNCHANGED liked

\* The heart follows the answer of the button; a double tap only ever takes it
\* away.
Answered(k) ==
    /\ posts[k].step = "answered"
    /\ Settle(k, IF posts[k].by = "button" THEN posts[k].liked
                 ELSE heart[posts[k].of] /\ posts[k].liked,
              posts[k].alone)

\* An error answer has no liked: no heart.
Errored(k) ==
    /\ posts[k].step = "error"
    /\ Settle(k, FALSE, posts[k].by = "tap" /\ posts[k].sure /\ posts[k].alone /\ ~posts[k].took)

\* Mutant: what a double tap has shown stays.
LostKeeping(k) ==
    /\ posts[k] # NoPost
    /\ Settle(k, heart[posts[k].of], posts[k].sure /\ posts[k].alone /\ ~posts[k].took)

\* fetch is rejected: the heart of a double tap is taken back.
Lost(k) ==
    /\ posts[k] # NoPost
    /\ Settle(k, posts[k].by = "button" /\ heart[posts[k].of],
              posts[k].sure /\ posts[k].alone /\ ~posts[k].took)

\* requireLogin: 401, the session has ended and the toggle has not been run.  The
\* heart of a double tap stays as it is shown, while the page is left for the
\* login; what else is under way may still come in before it is gone.
TurnedAway(k) ==
    /\ posts[k].step = "sent"
    /\ Settle(k, heart[posts[k].of], posts[k].by = "button" /\ posts[k].sure /\ posts[k].alone)

HeartMove == \E v \in Cards : LikeButton(v) \/ DoubleTap(v) \/ OtherTab(v)
HeartStep ==
    \E k \in Slots : \/ Insert(k) \/ Delete(k) \/ Refuse(k)
                     \/ Answered(k) \/ Errored(k) \/ Lost(k) \/ TurnedAway(k)

----------------------------------------------------------------------------

HeartTypeOK ==
    /\ liked \in [Cards -> BOOLEAN]
    /\ heart \in [Cards -> BOOLEAN]
    /\ posts \in [Slots -> Posts \cup {NoPost}]
    /\ trusted \in [Cards -> BOOLEAN]

\* When nothing is under way, the heart is right if the last request to end
\* was alone and was answered, or had no effect: the answer of the button is
\* taken over, and a like shown in advance is taken back.  An error answer to
\* the button, a tap that is turned away to the login, overlapping requests and
\* other tabs may leave it wrong (feed.js:240-285).
HeartTrue == \A v \in Cards : trusted[v] /\ UnderWay(v) = {} => heart[v] = liked[v]

\* A double tap never takes a like away, unless the heart it was made on was
\* wrong, or another change came in between: "it ALWAYS results in a like" is
\* the promise, and the server only knows how to toggle (feed.js:260-285,
\* store.go:255-268).
TapsLike ==
    [][\A k \in Slots :
          posts[k] # NoPost /\ Delete(k) =>
             ~(posts[k].by = "tap" /\ posts[k].sure /\ posts[k].alone)]_heartVars

=============================================================================
