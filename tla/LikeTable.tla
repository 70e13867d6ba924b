----------------------------- MODULE LikeTable -----------------------------
(***************************************************************************)
(* What a like button promises: a request flips the key of its user and    *)
(* its video in one step, and is told which way.  The one exception is a   *)
(* second request of the same user that has taken effect in between: then  *)
(* the request may change nothing, and is told that the key is not there.  *)
(***************************************************************************)
CONSTANTS Users, Videos, Requests

VARIABLES
    likers,         \* the users that like a video
    open,           \* the requests under way
    overtaken,      \* requests whose key has been changed while they were under way
    answer,         \* what a request has been told
    user, video     \* its arguments

vars == <<likers, open, overtaken, answer, user, video>>

Init ==
    /\ likers \in [Videos -> SUBSET Users]
    /\ open = {}
    /\ overtaken = {}
    /\ answer = [r \in Requests |-> "none"]
    /\ user \in [Requests -> Users]
    /\ video \in [Requests -> Videos]

Begin(r) ==
    /\ r \notin open
    /\ answer[r] = "none"
    /\ open' = open \cup {r}
    /\ UNCHANGED <<likers, overtaken, answer, user, video>>

Rivals(r) == {q \in open \ {r} : user[q] = user[r] /\ video[q] = video[r]}

Close(r, told) ==
    /\ r \in open
    /\ open' = open \ {r}
    /\ answer' = [answer EXCEPT ![r] = told]
    /\ UNCHANGED <<user, video>>

Like(r) ==
    /\ user[r] \notin likers[video[r]]
    /\ Close(r, "liked")
    /\ likers' = [likers EXCEPT ![video[r]] = @ \cup {user[r]}]
    /\ overtaken' = overtaken \cup Rivals(r)

Unlike(r) ==
    /\ user[r] \in likers[video[r]]
    /\ Close(r, "unliked")
    /\ likers' = [likers EXCEPT ![video[r]] = @ \ {user[r]}]
    /\ overtaken' = overtaken \cup Rivals(r)

Miss(r) ==
    /\ r \in overtaken
    /\ Close(r, "unliked")
    /\ UNCHANGED <<likers, overtaken>>

\* The client gets an error, or nothing: the table is as it was.
Fail(r) ==
    /\ Close(r, "none")
    /\ UNCHANGED <<likers, overtaken>>

Next == \E r \in Requests : Begin(r) \/ Like(r) \/ Unlike(r) \/ Miss(r) \/ Fail(r)

Spec == Init /\ [][Next]_vars

=============================================================================
