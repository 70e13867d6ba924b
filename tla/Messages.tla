------------------------------ MODULE Messages ------------------------------
(***************************************************************************)
(* Messages and read cursors of one conversation: HandleMessage and        *)
(* HandleRead of the hub (internal/chat/hub.go), their REST counterparts   *)
(* (internal/handlers/chat.go), ChatService and the store underneath.      *)
(*                                                                         *)
(* A request is a "message" or "read" frame of a WebSocket, or a POST.     *)
(* The read loop of a WebSocket handles one frame after the other          *)
(* (ws.go:49-72); POSTs overlap with everything.  Every SQL statement and  *)
(* every PUBLISH is an action.  The members never change: no operation     *)
(* adds or removes one.                                                    *)
(***************************************************************************)
EXTENDS Integers, Sequences, FiniteSets

CONSTANTS
    Users,
    Members,    \* conversation_participants of the conversation
    Tabs,       \* WebSocket connections
    Owner,      \* the user a WebSocket is authenticated as
    Sends,      \* requests that send a message
    Marks,      \* requests that mark the conversation as read
    Lanes       \* the ways requests come in: a WebSocket each, or a POST of a user

Requests == Sends \cup Marks

ASSUME MemberAssumption  == Members \subseteq Users
ASSUME TabAssumption     == Owner \in [Tabs -> Users] /\ Tabs \cap Users = {}
ASSUME RequestAssumption == Sends \cap Marks = {}
ASSUME LaneAssumption    == Lanes \subseteq [Requests -> Tabs \cup Users]

VARIABLES
    nextId,     \* the sequence behind messages.id
    id,         \* the id a send has been given, 0: none yet
    messages,   \* committed rows of messages, named by their requests
    cursor,     \* last_read_msg_id of each member
    lane,       \* the WebSocket a request comes in on, or the user who POSTs it
    pc,         \* the step each request takes next
    todo,       \* members a request has not published to yet
    asked,      \* message_id of a mark, 0: "the latest"
    upto,       \* the id a mark is about to store
    feed,       \* what was published to each member's channel, in order
    receipts    \* read receipts published

sendVars == <<nextId, id, messages, feed>>
markVars == <<cursor, asked, upto, receipts>>
vars == <<sendVars, markVars, lane, pc, todo>>

SendSteps == {"insert", "commit"}
MarkSteps == {"latest", "mark", "notify"}
Ended     == {"done", "failed"}
Steps     == {"idle", "publish"} \cup SendSteps \cup MarkSteps \cup Ended

Init ==
    /\ nextId = 1
    /\ id = [s \in Sends |-> 0]
    /\ messages = {}
    /\ cursor = [u \in Members |-> 0]
    /\ lane \in Lanes
    /\ pc = [r \in Requests |-> "idle"]
    /\ todo = [r \in Requests |-> {}]
    /\ asked = [m \in Marks |-> 0]
    /\ upto = [m \in Marks |-> 0]
    /\ feed = [u \in Members |-> <<>>]
    /\ receipts = {}

\* The user a request is authenticated as.
By(r) == IF lane[r] \in Tabs THEN Owner[lane[r]] ELSE lane[r]

Goto(r, step) == pc' = [pc EXCEPT ![r] = step]

Active(r) == pc[r] \notin {"idle"} \cup Ended

\* Mutant: every frame is handled in a goroutine of its own.
LaneAlwaysFree(r) == TRUE

\* The read loop has finished the frame before.
LaneFree(r) == lane[r] \in Tabs => \A q \in Requests : lane[q] = lane[r] => ~Active(q)

\* requireParticipant: a request of anyone else ends here.
Check(r, step) ==
    /\ pc[r] = "idle"
    /\ LaneFree(r)
    /\ Goto(r, IF By(r) \in Members THEN step ELSE "failed")

----------------------------------------------------------------------------
(* Sending.                                                                *)

SendCheck(s) ==
    /\ Check(s, "insert")
    /\ UNCHANGED <<sendVars, markVars, todo, lane>>

\* INSERT ... RETURNING id: the sequence moves on, also if the transaction is
\* rolled back later, and the row shows at the commit.
SendInsert(s) ==
    /\ pc[s] = "insert"
    /\ id' = [id EXCEPT ![s] = nextId]
    /\ nextId' = nextId + 1
    /\ Goto(s, "commit")
    /\ UNCHANGED <<messages, feed, markVars, todo, lane>>

\* Mutant: the error of COMMIT is not looked at.
SendCommitIgnored(s) ==
    /\ pc[s] = "commit"
    /\ \/ messages' = messages \cup {s}
       \/ UNCHANGED messages
    /\ Goto(s, "publish")
    /\ todo' = [todo EXCEPT ![s] = Members]
    /\ UNCHANGED <<nextId, id, feed, markVars, lane>>

\* The participants were read in the same transaction.  The answer to COMMIT
\* may be lost: then the message is there, and nobody is told.
SendCommit(s) ==
    /\ pc[s] = "commit"
    /\ messages' = messages \cup {s}
    /\ \/ /\ Goto(s, "publish")
          /\ todo' = [todo EXCEPT ![s] = Members]
       \/ /\ Goto(s, "failed")
          /\ UNCHANGED todo
    /\ UNCHANGED <<nextId, id, feed, markVars, lane>>

\* One turn of the loop over the participants, in no order.  A PUBLISH that
\* fails is logged, or ignored, and the loop goes on.
SendPublish(s) ==
    /\ pc[s] = "publish"
    /\ \E u \in todo[s] :
          /\ todo' = [todo EXCEPT ![s] = @ \ {u}]
          /\ \/ feed' = [feed EXCEPT ![u] = Append(@, s)]
             \/ UNCHANGED feed
    /\ UNCHANGED <<nextId, id, messages, markVars, pc, lane>>

SendDone(s) ==
    /\ pc[s] = "publish"
    /\ todo[s] = {}
    /\ Goto(s, "done")
    /\ UNCHANGED <<sendVars, markVars, todo, lane>>

SendStep(s) == SendCheck(s) \/ SendInsert(s) \/ SendCommit(s) \/ SendPublish(s) \/ SendDone(s)

----------------------------------------------------------------------------
(* Marking as read.                                                        *)

Ids == {id[s] : s \in messages}

\* A client names a message it has been shown, or none.
MarkCheck(m) ==
    \E n \in Ids \cup {0} :
        /\ Check(m, IF n = 0 THEN "latest" ELSE "mark")
        /\ asked' = [asked EXCEPT ![m] = n]
        /\ upto' = [upto EXCEPT ![m] = n]
        /\ UNCHANGED <<sendVars, cursor, receipts, todo, lane>>

\* Mutants: the latest message is taken to be the last id given out; the
\* statement after it, the next one.
LatestAllocated(n) == n = nextId - 1
LatestNext(n)      == n = nextId

\* The first row of ListMessages(conv, 0, 1).
Latest(n) == n \in Ids /\ \A k \in Ids : k <= n

\* Without a message, or when the query fails, 0 stays.
MarkLatest(m) ==
    /\ pc[m] = "latest"
    /\ \/ \E n \in 1 .. nextId : Latest(n) /\ upto' = [upto EXCEPT ![m] = n]
       \/ UNCHANGED upto
    /\ Goto(m, "mark")
    /\ UNCHANGED <<sendVars, cursor, asked, receipts, todo, lane>>

\* Mutant: UPDATE without GREATEST.
CursorSet(u, n) == cursor' = [cursor EXCEPT ![u] = n]

\* UPDATE ... SET last_read_msg_id = GREATEST(last_read_msg_id, n).
CursorUp(u, n) == cursor' = [cursor EXCEPT ![u] = IF n > @ THEN n ELSE @]

\* A frame goes on to tell the other members, if it can read who they are.
MarkRead(m) ==
    /\ pc[m] = "mark"
    /\ CursorUp(By(m), upto[m])
    /\ IF lane[m] \notin Tabs
       THEN /\ Goto(m, "done")
            /\ UNCHANGED todo
       ELSE /\ Goto(m, "notify")
            /\ \/ todo' = [todo EXCEPT ![m] = Members \ {By(m)}]
               \/ UNCHANGED todo
    /\ UNCHANGED <<sendVars, asked, upto, receipts, lane>>

\* The receipt carries the message_id of the frame, also when that is 0.
MarkNotify(m) ==
    /\ pc[m] = "notify"
    /\ \E u \in todo[m] :
          /\ todo' = [todo EXCEPT ![m] = @ \ {u}]
          /\ \/ receipts' = receipts \cup {[by |-> By(m), upto |-> asked[m]]}
             \/ UNCHANGED receipts
    /\ UNCHANGED <<sendVars, cursor, asked, upto, pc, lane>>

MarkDone(m) ==
    /\ pc[m] = "notify"
    /\ todo[m] = {}
    /\ Goto(m, "done")
    /\ UNCHANGED <<sendVars, markVars, todo, lane>>

MarkStep(m) == MarkCheck(m) \/ MarkLatest(m) \/ MarkRead(m) \/ MarkNotify(m) \/ MarkDone(m)

----------------------------------------------------------------------------

\* A statement fails, the context ends, or the process does.
Fail(r) ==
    /\ Active(r)
    /\ Goto(r, "failed")
    /\ todo' = [todo EXCEPT ![r] = {}]
    /\ UNCHANGED <<sendVars, markVars, lane>>

\* Every request has ended: the behaviours of the bound end here.
AllEnded ==
    /\ \A r \in Requests : pc[r] \in Ended
    /\ UNCHANGED vars

Next ==
    \/ \E s \in Sends : SendStep(s)
    \/ \E m \in Marks : MarkStep(m)
    \/ \E r \in Requests : Fail(r)
    \/ AllEnded

Spec == Init /\ [][Next]_vars

----------------------------------------------------------------------------

TypeOK ==
    /\ nextId \in Nat \ {0}
    /\ id \in [Sends -> 0 .. nextId - 1]
    /\ messages \subseteq Sends
    /\ cursor \in [Members -> 0 .. nextId - 1]
    /\ lane \in Lanes
    /\ pc \in [Requests -> Steps]
    /\ todo \in [Requests -> SUBSET Members]
    /\ asked \in [Marks -> 0 .. nextId - 1]
    /\ upto \in [Marks -> 0 .. nextId - 1]
    /\ feed \in [Members -> Seq(Sends)]
    /\ receipts \subseteq [by : Members, upto : 0 .. nextId - 1]

\* Two requests of which the second began after the first had ended.
SameLane(s, t) == s = t \/ (lane[s] = lane[t] /\ lane[s] \in Tabs)

\* Each member's channel carries a message at most once, and the messages of
\* one WebSocket in the order of their ids, whatever fails in between: the
\* read loop does not take the next frame before the loop over the
\* participants has ended (ws.go:49-72, hub.go:237-244).
SenderOrder ==
    \A u \in Members : \A j, k \in DOMAIN feed[u] :
        j < k /\ SameLane(feed[u][j], feed[u][k]) => id[feed[u][j]] < id[feed[u][k]]

\* A read cursor passes a message that is not committed only if one with a
\* higher id is: ids are given out before the commit, so a message can turn
\* up below the cursor of a member who never saw it, and is not counted as
\* unread (store/chat.go:147, 191-195, 278-284), but only by being late.
PassedOnlyIfLate ==
    \A s \in Sends \ messages, u \in Members :
        id[s] # 0 /\ id[s] <= cursor[u] => \E t \in messages : id[t] > id[s]

\* The inductive invariant behind SenderOrder, PassedOnlyIfLate and KeepsLog.
\* An id is given once; messages have one.
IdsGiven ==
    /\ \A s, t \in Sends : id[s] # 0 /\ id[s] = id[t] => s = t
    /\ \A s \in Sends :
          /\ pc[s] \in {"idle", "insert"} => id[s] = 0
          /\ pc[s] \in {"commit", "publish", "done"} => id[s] # 0
          /\ pc[s] \in {"publish", "done"} => s \in messages
          /\ s \in messages => id[s] # 0 /\ pc[s] \in {"publish", "done", "failed"}

\* Only stored messages are pushed, once to each member.
FeedsStored ==
    /\ \A r \in Requests : todo[r] # {} => pc[r] \in {"publish", "notify"}
    /\ \A u \in Members : \A k \in DOMAIN feed[u] :
          /\ feed[u][k] \in messages
          /\ u \notin todo[feed[u][k]]

\* A WebSocket has one frame under way, and has given out no higher id since.
OneFrame ==
    /\ \A q, r \in Requests :
          q # r /\ lane[q] = lane[r] /\ lane[r] \in Tabs => ~(Active(q) /\ Active(r))
    /\ \A s, t \in Sends :
          s # t /\ lane[s] = lane[t] /\ lane[s] \in Tabs /\ Active(s) /\ id[s] # 0
             => id[t] < id[s]

\* Cursors point to stored messages, and only members get to an action.
MembersOnly ==
    /\ \A r \in Requests : Active(r) => By(r) \in Members
    /\ \A s \in messages : By(s) \in Members
    /\ \A u \in Members : cursor[u] \in Ids \cup {0}
    /\ \A m \in Marks : upto[m] \in Ids \cup {0} /\ asked[m] \in Ids \cup {0}

\* A receipt is no further than the cursor it tells of.
ReceiptsHold ==
    /\ \A e \in receipts : e.upto <= cursor[e.by]
    /\ \A m \in Marks :
          /\ pc[m] = "latest" => asked[m] = 0
          /\ pc[m] = "mark" => asked[m] <= upto[m]
          /\ pc[m] = "notify" => asked[m] <= cursor[By(m)]

MsgInv == IdsGiven /\ FeedsStored /\ OneFrame /\ MembersOnly /\ ReceiptsHold /\ SenderOrder

\* What the conversation has promised is kept (ChatLog).
Entry(s) == [id |-> id[s], from |-> By(s)]
Pushed(u) == {feed[u][k] : k \in DOMAIN feed[u]}

Log == INSTANCE ChatLog WITH
    log   <- {Entry(s) : s \in messages},
    heard <- [u \in Members |-> {Entry(s) : s \in Pushed(u)}],
    read  <- cursor

\* Messages are stored before they are pushed and keep their ids; read cursors
\* advance, to stored messages only; a receipt never tells more than the
\* cursor (hub.go:209-284, store/chat.go:275-284).
KeepsLog == Log!Spec

=============================================================================
