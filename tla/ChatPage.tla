------------------------------ MODULE ChatPage ------------------------------
(***************************************************************************)
(* The chat page (web/static/js/chat.js): its WebSocket and the timer that *)
(* reconnects it, the thread that is open, the loads, pushes and answers   *)
(* that fill it, and what it marks as read.                                *)
(*                                                                         *)
(* The server is what Messages and ChatLog make of it: messages get their  *)
(* ids before they commit, so they show in any order; each is published    *)
(* once to the user's channel, after its commit, and may be late or lost;  *)
(* read cursors only advance.  Own are the messages the page sends; the    *)
(* others come from other members, or from the user's other tabs.          *)
(*                                                                         *)
(* The thread is a bag of messages, paged ones and pushed ones: how they   *)
(* are laid out is left out.                                               *)
(***************************************************************************)
EXTENDS Rows

CONSTANTS
    Convs,      \* conversations of the user
    None,       \* no thread is open
    MaxId,      \* bound: ids of messages
    Own,        \* the messages that are sent from this page
    Homes,      \* which conversation each message may belong to
    Limit,      \* messages of a page: 50
    MaxOpens,   \* bound: threads that are opened
    MaxCloses   \* bound: sockets that close, attempts included

Ids == 1 .. MaxId

ASSUME ConvAssumption  == None \notin Convs
ASSUME MaxIdAssumption == MaxId \in Nat
ASSUME OwnAssumption   == Own \subseteq Ids
ASSUME HomeAssumption  == Homes \subseteq [Ids -> Convs]
ASSUME LimitAssumption == Limit \in Nat \ {0}
ASSUME BoundAssumption == MaxOpens \in Nat /\ MaxCloses \in Nat

VARIABLES
    conv,       \* the conversation of each message
    messages,   \* committed rows of messages
    due,        \* committed, and still to be published, or on the way here
    cursor,     \* last_read_msg_id of the user in each conversation
    ws,         \* the socket: "none", "connecting" or "open"
    timer,      \* wsReconnectTimer: "null", "set", or "fired": an old id
    failed,     \* the last attempt to connect has failed (history)
    marks,      \* read frames and POSTs: they arrive in any order, or never
    stage,      \* what has become of a message sent from the page
    active,     \* activeConvId
    load,       \* the request of loadMessages: one at a time (loadingMsgs)
    msgCursor,  \* the cursor of the next request for older messages, 0: none
    last,       \* the last id of messageCache of each conversation, 0: none
    paged,      \* how often the list shows a message as a row of a load
    pushed,     \* how often it shows a message that was received
    crossed,    \* the thread was opened while a load was under way (history)
    owed,       \* what the thread has to show since it was opened (history)
    rendered,   \* messages that were put into a list (history)
    opens,      \* threads that were opened
    closes      \* sockets that were closed

serverVars == <<conv, messages, due, cursor>>
socketVars == <<ws, timer, failed, closes>>
threadVars == <<active, load, msgCursor, last, paged, pushed, crossed, owed, rendered, opens>>
vars == <<serverVars, socketVars, marks, stage, threadVars>>

NoLoad == [step |-> "none", to |-> None, append |-> FALSE, before |-> 0, rows |-> {}]
Loads  == [step : {"sent", "answered"}, to : Convs, append : BOOLEAN,
           before : Ids \cup {0}, rows : SUBSET Ids]
Stages == {"none", "frame", "post", "answer", "done", "back", "lost"}
Empty  == [n \in Ids |-> 0]

\* init: the list of conversations is there, the socket is being opened.
Init ==
    /\ conv \in Homes
    /\ messages = {}
    /\ due = {}
    /\ cursor = [c \in Convs |-> 0]
    /\ ws = "connecting"
    /\ timer = "null"
    /\ failed = FALSE
    /\ marks = {}
    /\ stage = [n \in Own |-> "none"]
    /\ active = None
    /\ load = NoLoad
    /\ msgCursor = 0
    /\ last = [c \in Convs |-> 0]
    /\ paged = Empty
    /\ pushed = Empty
    /\ crossed = FALSE
    /\ owed = {}
    /\ rendered = {}
    /\ opens = 0
    /\ closes = 0

----------------------------------------------------------------------------
(* The server.                                                             *)

\* Mutant: a message whose commit has failed is published.
StoreNothing(n) ==
    /\ n \notin messages
    /\ due' = due \cup {n}
    /\ UNCHANGED <<conv, messages, cursor>>

Store(n) ==
    /\ n \notin messages
    /\ messages' = messages \cup {n}
    /\ due' = due \cup {n}
    /\ UNCHANGED <<conv, cursor>>

StoreOther ==
    /\ \E n \in Ids \ Own : Store(n)
    /\ UNCHANGED <<socketVars, marks, stage, threadVars>>

\* A frame or a POST arrives, also one whose answer nobody waits for any more.
StoreOwn(n) ==
    /\ stage[n] \in {"frame", "post", "back"}
    /\ Store(n)
    /\ stage' = [stage EXCEPT ![n] = IF @ = "post" THEN "answer" ELSE @]
    /\ UNCHANGED <<socketVars, marks, threadVars>>

\* Mutant: last_read_msg_id is set without GREATEST.
MarkArrivesLast(m) ==
    /\ m \in marks
    /\ cursor' = [cursor EXCEPT ![m.to] = m.upto]
    /\ marks' = marks \ {m}
    /\ UNCHANGED <<conv, messages, due, socketVars, stage, threadVars>>

\* A frame or a POST to mark as read arrives: GREATEST, so that those behind it
\* have no effect any more.
MarkArrives(m) ==
    /\ m \in marks
    /\ cursor' = [cursor EXCEPT ![m.to] = m.upto]
    /\ marks' = {k \in marks : k.to = m.to => k.upto > m.upto}
    /\ UNCHANGED <<conv, messages, due, socketVars, stage, threadVars>>

ServerStep ==
    \/ StoreOther
    \/ \E n \in Own : StoreOwn(n)
    \/ \E m \in marks : MarkArrives(m)

----------------------------------------------------------------------------
(* The socket.                                                             *)

\* Mutant: onopen leaves the id of the timer.
SocketOpenKeeping ==
    /\ ws = "connecting"
    /\ ws' = "open"
    /\ failed' = FALSE
    /\ UNCHANGED <<serverVars, timer, closes, marks, stage, threadVars>>

SocketOpen ==
    /\ ws = "connecting"
    /\ ws' = "open"
    /\ failed' = FALSE
    /\ timer' = "null"
    /\ UNCHANGED <<serverVars, closes, marks, stage, threadVars>>

\* onclose, of an open socket and of an attempt that fails: no timer is set
\* while an id is kept, also that of one that has fired.
SocketClose ==
    /\ ws \in {"connecting", "open"}
    /\ closes < MaxCloses
    /\ closes' = closes + 1
    /\ ws' = "none"
    /\ failed' = (ws = "connecting")
    /\ timer' = IF timer = "null" THEN "set" ELSE timer
    /\ UNCHANGED <<serverVars, marks, stage, threadVars>>

TimerFires ==
    /\ timer = "set"
    /\ timer' = "fired"
    /\ ws' = "connecting"
    /\ UNCHANGED <<serverVars, failed, closes, marks, stage, threadVars>>

SocketStep == SocketOpen \/ SocketClose \/ TimerFires

----------------------------------------------------------------------------
(* The thread.                                                             *)

\* Mutant: what the socket brings goes into the cache, also for a thread that
\* is not open.
SeenArrived(c) == NewestOf({last[c]} \cup {n \in messages \ due : conv[n] = c})

\* The last message of the cache.
Seen(c) == last[c]

\* markRead: by frame and by POST, if the cache has a message.  A mark that
\* would not advance the cursor is left out.
MarkRead(c) ==
    marks' = IF Seen(c) > cursor[c] THEN marks \cup {[to |-> c, upto |-> Seen(c)]} ELSE marks

FirstLoading == load.step # "none" /\ ~load.append

\* receiveMessage: a message of another conversation only changes the list of
\* conversations.
ReceiveMessage(n) ==
    IF conv[n] = active
    THEN /\ pushed' = [pushed EXCEPT ![n] = @ + 1]
         /\ owed' = IF FirstLoading THEN owed ELSE owed \cup {n}
         /\ rendered' = rendered \cup {n}
         /\ MarkRead(active)
    ELSE UNCHANGED <<pushed, owed, rendered, marks>>

\* A push: the socket delivers a message once, or never.
Receive(n) ==
    /\ ws = "open"
    /\ n \in due
    /\ due' = due \ {n}
    /\ ReceiveMessage(n)
    /\ UNCHANGED <<conv, messages, cursor, socketVars, stage, active, load, msgCursor, last,
                   paged, crossed, opens>>

Sent(c, append, before) ==
    [step |-> "sent", to |-> c, append |-> append, before |-> before, rows |-> {}]

\* Mutant: the list of the thread before is not cleared.
OpenKeeping(c) ==
    /\ opens < MaxOpens
    /\ opens' = opens + 1
    /\ active' = c
    /\ msgCursor' = 0
    /\ owed' = {}
    /\ crossed' = (load.step # "none")
    /\ load' = IF load.step = "none" THEN Sent(c, FALSE, 0) ELSE load
    /\ MarkRead(c)
    /\ UNCHANGED <<serverVars, socketVars, stage, last, paged, pushed, rendered>>

\* openConversation: loadMessages returns at once while a load is under way.
Open(c) ==
    /\ opens < MaxOpens
    /\ opens' = opens + 1
    /\ active' = c
    /\ msgCursor' = 0
    /\ paged' = Empty
    /\ pushed' = Empty
    /\ owed' = {}
    /\ crossed' = (load.step # "none")
    /\ load' = IF load.step = "none" THEN Sent(c, FALSE, 0) ELSE load
    /\ MarkRead(c)
    /\ UNCHANGED <<serverVars, socketVars, stage, last, rendered>>

\* The back button.
Back ==
    /\ active # None
    /\ active' = None
    /\ UNCHANGED <<serverVars, socketVars, marks, stage, load, msgCursor, last, paged, pushed,
                   crossed, owed, rendered, opens>>

\* Scrolling up.
LoadOlder ==
    /\ active # None
    /\ msgCursor # 0
    /\ load.step = "none"
    /\ load' = Sent(active, TRUE, msgCursor)
    /\ UNCHANGED <<serverVars, socketVars, marks, stage, active, msgCursor, last, paged, pushed,
                   crossed, owed, rendered, opens>>

Of(c) == {n \in messages : conv[n] = c}

\* WHERE before = 0 OR id < before.
Older(n) == load.before = 0 \/ n < load.before

\* Mutant: ORDER BY id.
PageOldest ==
    LET left == {n \in Of(load.to) : Older(n)}
    IN  {n \in left : Cardinality({m \in left : m < n}) < Limit}

\* ListMessages: the newest ones that are left.
Page == FirstOf({n \in Of(load.to) : Older(n)}, Limit)

ServeLoad ==
    /\ load.step = "sent"
    /\ load' = [load EXCEPT !.step = "answered", !.rows = Page]
    /\ owed' = IF load.append \/ active # load.to THEN owed ELSE owed \cup Of(load.to)
    /\ UNCHANGED <<serverVars, socketVars, marks, stage, active, msgCursor, last, paged, pushed,
                   crossed, rendered, opens>>

\* An error answer, or none.
FailLoad ==
    /\ load.step # "none"
    /\ load' = NoLoad
    /\ owed' = IF load.append THEN owed ELSE {}
    /\ UNCHANGED <<serverVars, socketVars, marks, stage, active, msgCursor, last, paged, pushed,
                   crossed, rendered, opens>>

Newest(rows) == IF rows = {} THEN 0 ELSE NewestOf(rows)
Oldest(rows) == IF rows = {} THEN 0 ELSE OldestOf(rows)

\* The answer goes into the list, whichever thread that is by now; the cache
\* is that of the conversation that was asked for.
RenderLoad ==
    /\ load.step = "answered"
    /\ msgCursor' = Oldest(load.rows)
    /\ LET row == [n \in Ids |-> IF n \in load.rows THEN 1 ELSE 0]
       IN  IF load.append
           THEN /\ paged' = [n \in Ids |-> paged[n] + row[n]]
                /\ last' = IF last[load.to] = 0
                           THEN [last EXCEPT ![load.to] = Newest(load.rows)] ELSE last
                /\ UNCHANGED pushed
           ELSE /\ paged' = row
                /\ pushed' = Empty
                /\ last' = [last EXCEPT ![load.to] = Newest(load.rows)]
    /\ rendered' = rendered \cup load.rows
    /\ load' = NoLoad
    /\ UNCHANGED <<serverVars, socketVars, marks, stage, active, crossed, owed, opens>>

ThreadStep ==
    \/ \E n \in Ids : Receive(n)
    \/ \E c \in Convs : Open(c)
    \/ Back \/ LoadOlder \/ ServeLoad \/ FailLoad \/ RenderLoad

----------------------------------------------------------------------------
(* Sending.                                                                *)

\* Mutant: a message that is sent by frame is shown at once.
SendEchoing(n) ==
    /\ stage[n] = "none"
    /\ active = conv[n]
    /\ stage' = [stage EXCEPT ![n] = IF ws = "open" THEN "frame" ELSE "post"]
    /\ pushed' = IF ws = "open" THEN [pushed EXCEPT ![n] = @ + 1] ELSE pushed
    /\ UNCHANGED <<serverVars, socketVars, marks, active, load, msgCursor, last, paged,
                   crossed, owed, rendered, opens>>

\* sendMessage: a frame if the socket is open, or else a POST.
Send(n) ==
    /\ stage[n] = "none"
    /\ active = conv[n]
    /\ stage' = [stage EXCEPT ![n] = IF ws = "open" THEN "frame" ELSE "post"]
    /\ UNCHANGED <<serverVars, socketVars, marks, threadVars>>

\* The message in the answer of a POST is received like one that is pushed.
PostAnswered(n) ==
    /\ stage[n] = "answer"
    /\ stage' = [stage EXCEPT ![n] = "done"]
    /\ ReceiveMessage(n)
    /\ UNCHANGED <<serverVars, socketVars, active, load, msgCursor, last, paged,
                   crossed, opens>>

\* A POST that is rejected puts the text back; an error answer has no message,
\* and loses it.
PostFails(n) ==
    /\ stage[n] \in {"post", "answer"}
    /\ \E s \in {"back", "lost"} : stage' = [stage EXCEPT ![n] = s]
    /\ UNCHANGED <<serverVars, socketVars, marks, threadVars>>

SendStep == \E n \in Own : Send(n) \/ PostAnswered(n) \/ PostFails(n)

----------------------------------------------------------------------------

Next == ServerStep \/ SocketStep \/ ThreadStep \/ SendStep

Spec == Init /\ [][Next]_vars

\* The timer fires, and an attempt to connect ends one way or the other.
FairSpec ==
    /\ Spec
    /\ WF_vars(TimerFires)
    /\ WF_vars(ws = "connecting" /\ (SocketOpen \/ SocketClose))

----------------------------------------------------------------------------

TypeOK ==
    /\ conv \in Homes
    /\ messages \subseteq Ids
    /\ due \subseteq messages
    /\ cursor \in [Convs -> Ids \cup {0}]
    /\ ws \in {"none", "connecting", "open"}
    /\ timer \in {"null", "set", "fired"}
    /\ failed \in BOOLEAN
    /\ marks \subseteq [to : Convs, upto : Ids]
    /\ stage \in [Own -> Stages]
    /\ active \in Convs \cup {None}
    /\ load \in Loads \cup {NoLoad}
    /\ msgCursor \in Ids \cup {0}
    /\ last \in [Convs -> Ids \cup {0}]
    /\ paged \in [Ids -> Nat]
    /\ pushed \in [Ids -> Nat]
    /\ crossed \in BOOLEAN
    /\ owed \subseteq messages
    /\ rendered \subseteq messages
    /\ opens \in 0 .. MaxOpens
    /\ closes \in 0 .. MaxCloses

Shown == {n \in Ids : paged[n] + pushed[n] > 0}

\* A thread shows no message of another conversation, unless it was opened
\* while a load was under way: then it shows the answer to that, whatever was
\* asked for (chat.js:158-182, 185-208).
OwnThread == active # None /\ ~crossed => \A n \in Shown : conv[n] = active

\* What was stored when the first page was read, down to where the thread has
\* been scrolled, and what was received since the first page was there, stays
\* in the list, however loads, pushes and POSTs interleave (chat.js:196-208,
\* 237-261).
ThreadComplete ==
    active # None /\ ~crossed /\ ~FirstLoading =>
        \A n \in owed : n \in Shown \/ n < msgCursor

\* Loads never show a message twice, also when they cross, and a message is
\* received once, or twice if the page has POSTed it and had its answer: once by
\* that, once by the socket, which is open again by then.  What is sent by frame
\* is shown when the socket brings it, and not before (chat.js:185-216, 263-283).
ShownOnce ==
    \A n \in Ids : /\ paged[n] <= 1
                   /\ pushed[n] <= IF n \in Own /\ stage[n] = "done" THEN 2 ELSE 1

\* The read cursor never passes what the page has shown: it points to a message
\* of its conversation that a load, a push or an answer has put into a list,
\* whatever is pushed to threads that are not open, marked late or lost
\* (chat.js:237-261, 287-303).
ReadWasShown ==
    \A c \in Convs : cursor[c] # 0 => cursor[c] \in rendered /\ conv[cursor[c]] = c

\* A page whose socket has closed opens another one, unless an attempt to do
\* so fails: the id of the timer that has fired is kept then, and there is no
\* further attempt (chat.js:48-67).
Reconnects == ws # "open" ~> ws = "open" \/ failed

\* Conversation c as its members see it: the page, and the rest of them, the
\* user's other tabs included, whose pushes and cursors are left out here.
Entry(n) == [id |-> n, from |-> IF n \in Own THEN "page" ELSE "rest"]

Log(c) == INSTANCE ChatLog WITH
    Members  <- {"page", "rest"},
    log      <- {Entry(n) : n \in Of(c)},
    heard    <- [u \in {"page", "rest"} |-> IF u = "page" THEN {Entry(n) : n \in Of(c) \ due} ELSE {}],
    read     <- [u \in {"page", "rest"} |-> IF u = "page" THEN cursor[c] ELSE 0],
    receipts <- {}

\* Each conversation of the page keeps the promises of ChatLog, the ones that
\* Messages keeps too: what is pushed to the page is a stored message, and its
\* read cursor moves forward only, to a message of that conversation
\* (chat.js:287-303, store/chat.go:275-284).
KeepsLog ==
    /\ \A c \in Convs : Log(c)!Init
    /\ [][\A c \in Convs : Log(c)!Next \/ UNCHANGED Log(c)!vars]_vars

\* The safety half of Reconnects, and why it has an exception: a page without a
\* socket has set its timer, or its last attempt has failed after the timer had
\* fired; then no step ever opens a socket again (chat.js:48-67).
TimerSetOrStuck == ws = "none" => timer = "set" \/ (timer = "fired" /\ failed)
StuckForGood    == [][ws = "none" /\ timer = "fired" => ws' = "none" /\ timer' = "fired"]_vars

=============================================================================
