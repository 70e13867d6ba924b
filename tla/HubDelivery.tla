---------------------------- MODULE HubDelivery ----------------------------
(***************************************************************************)
(* The way of a payload from Publish to the browser: Redis hands it to the *)
(* subscriptions of its channel, the reader goroutine of a subscription    *)
(* runs hub.deliverLocal, deliverLocal pushes it on the send channel of    *)
(* every local client, and the write pump of each client writes it out.    *)
(* The module composes these goroutines with everything ChatHub does: they *)
(* race with addClient, removeClient, Subscribe and closeAll.              *)
(*                                                                         *)
(* A payload is named by its place in the order Redis published them.      *)
(***************************************************************************)
EXTENDS ChatHub

CONSTANTS
    SendCap,    \* capacity of a client's send channel
    MaxMsg      \* bound: payloads published in a behaviour

ASSUME SendCapAssumption == SendCap \in Nat \ {0}
ASSUME MaxMsgAssumption  == MaxMsg \in Nat

VARIABLES
    audience,   \* for each payload, the connections registered for its user
                \* when it was published (history, read by properties only)
    inbox,      \* payloads a subscription has received and not yet read
    inHand,     \* the payload deliverLocal is sending, 0: none
    todo,       \* the rest of its snapshot of the local clients
    send,       \* contents of c.send
    pump,       \* whether the write pump still runs
    got         \* payloads written to the socket

deliveryVars == <<audience, inbox, inHand, todo, send, pump, got>>
allVars == <<vars, deliveryVars>>

Msgs == 1 .. MaxMsg

DeliveryInit ==
    /\ Init
    /\ audience = <<>>
    /\ inbox = [s \in Conns |-> <<>>]
    /\ inHand = [s \in Conns |-> 0]
    /\ todo = [s \in Conns |-> {}]
    /\ send = [c \in Conns |-> <<>>]
    /\ pump = [c \in Conns |-> TRUE]
    /\ got = [c \in Conns |-> <<>>]

\* What a process that ends in this step held in memory is lost.
Forget ==
    LET lost(c) == proc[Home[c]] \in Running /\ proc'[Home[c]] \in Dead
    IN  /\ inbox' = [s \in Conns |-> IF lost(s) THEN <<>> ELSE inbox[s]]
        /\ inHand' = [s \in Conns |-> IF lost(s) THEN 0 ELSE inHand[s]]
        /\ todo' = [s \in Conns |-> IF lost(s) THEN {} ELSE todo[s]]
        /\ send' = [c \in Conns |-> IF lost(c) THEN <<>> ELSE send[c]]
        /\ UNCHANGED <<audience, pump, got>>

----------------------------------------------------------------------------

\* Redis has a subscription on the channel of u from the dial to the Close.
\* (A leaked one receives too; nothing reads it.)
Subscribed(u) == {s \in Conns : Owner[s] = u /\ sub[s] \in {"dialled", "reading"}}

\* PUBLISH, by any instance.  One that fails is only logged (hub.go:238-243).
Publish(u) ==
    /\ Len(audience) < MaxMsg
    /\ audience' = Append(audience, {c \in clients : Owner[c] = u})
    /\ inbox' = [s \in Conns |-> IF s \in Subscribed(u)
                                 THEN Append(inbox[s], Len(audience) + 1)
                                 ELSE inbox[s]]
    /\ UNCHANGED <<vars, inHand, todo, send, pump, got>>

\* The reader takes the next payload, deliverLocal the snapshot of the clients.
ReaderTake(s) ==
    /\ sub[s] \in {"reading", "closed"}
    /\ inHand[s] = 0
    /\ inbox[s] # <<>>
    /\ inHand' = [inHand EXCEPT ![s] = Head(inbox[s])]
    /\ inbox' = [inbox EXCEPT ![s] = Tail(@)]
    /\ todo' = [todo EXCEPT ![s] = Local(Home[s], Owner[s])]
    /\ UNCHANGED <<vars, audience, send, pump, got>>

\* Mutant of the push: the capacity is off by one.
PushOneMore(c, m) ==
    send' = IF Len(send[c]) <= SendCap THEN [send EXCEPT ![c] = Append(@, m)] ELSE send

\* select with default: push, or drop when the buffer is full.
Push(c, m) ==
    send' = IF Len(send[c]) < SendCap THEN [send EXCEPT ![c] = Append(@, m)] ELSE send

\* Mutant of the loop: it returns at the first full buffer.
ReaderSendUntilFull(s) ==
    \E c \in todo[s] :
       /\ chan[c] = "open"
       /\ Push(c, inHand[s])
       /\ todo' = [todo EXCEPT ![s] = IF Len(send[c]) < SendCap THEN @ \ {c} ELSE {}]
       /\ UNCHANGED <<vars, audience, inbox, inHand, pump, got>>

\* One turn of the loop of deliverLocal.  The lock is not held: a send on a
\* closed channel panics.
ReaderSend(s) ==
    \E c \in todo[s] :
       \/ /\ chan[c] = "open"
          /\ Push(c, inHand[s])
          /\ todo' = [todo EXCEPT ![s] = @ \ {c}]
          /\ UNCHANGED <<vars, audience, inbox, inHand, pump, got>>
       \/ /\ chan[c] = "closed"
          /\ Die(Home[s], "panicked")
          /\ Forget

ReaderDone(s) ==
    /\ inHand[s] # 0
    /\ todo[s] = {}
    /\ inHand' = [inHand EXCEPT ![s] = 0]
    /\ UNCHANGED <<vars, audience, inbox, todo, send, pump, got>>

\* What a closed subscription had not handed over yet may be lost.
ReaderExit(s) ==
    /\ sub[s] = "closed"
    /\ inbox[s] # <<>>
    /\ inbox' = [inbox EXCEPT ![s] = <<>>]
    /\ UNCHANGED <<vars, audience, inHand, todo, send, pump, got>>

ReaderStep(s) == ReaderTake(s) \/ ReaderSend(s) \/ ReaderDone(s)

\* The write pump drains the channel, also after its close, until the read
\* loop has ended.
PumpWrite(c) ==
    /\ pump[c] /\ conn[c] = "serving"
    /\ send[c] # <<>>
    /\ send' = [send EXCEPT ![c] = Tail(@)]
    /\ got' = [got EXCEPT ![c] = Append(@, Head(send[c]))]
    /\ UNCHANGED <<vars, audience, inbox, inHand, todo, pump>>

\* A failed or timed out write ends the pump; the read loop goes on.
PumpFail(c) ==
    /\ pump[c] /\ conn[c] = "serving"
    /\ send[c] # <<>>
    /\ pump' = [pump EXCEPT ![c] = FALSE]
    /\ send' = [send EXCEPT ![c] = Tail(@)]
    /\ UNCHANGED <<vars, audience, inbox, inHand, todo, got>>

DeliveryNext ==
    \/ Next /\ Forget
    \/ \E u \in Users : Publish(u)
    \/ \E s \in Conns : ReaderStep(s) \/ ReaderExit(s)
    \/ \E c \in Conns : PumpWrite(c) \/ PumpFail(c)

DeliverySpec == DeliveryInit /\ [][DeliveryNext]_allVars

\* The reader goroutines and the write pumps run when they can.
DeliveryFairSpec ==
    /\ DeliverySpec
    /\ \A s \in Conns : WF_allVars(ReaderStep(s))
    /\ \A c \in Conns : WF_allVars(PumpWrite(c))

----------------------------------------------------------------------------

DeliveryTypeOK ==
    /\ TypeOK
    /\ audience \in Seq(SUBSET Conns) /\ Len(audience) <= MaxMsg
    /\ inbox \in [Conns -> Seq(Msgs)]
    /\ inHand \in [Conns -> Msgs \cup {0}]
    /\ todo \in [Conns -> SUBSET Conns]
    /\ send \in [Conns -> Seq(Msgs)] /\ \A c \in Conns : Len(send[c]) <= SendCap
    /\ pump \in [Conns -> BOOLEAN]
    /\ got \in [Conns -> Seq(Msgs)]

\* What connection c has got, and is about to get.
Reached(c) == got[c] \o send[c]

\* A connection gets what is published while it is registered at most once
\* and in the order of publication, whatever Subscribe and Unsubscribe calls
\* of other connections of the user are under way (hub.go:178-195,
\* broker.go:77-91).
InOrder ==
    \A c \in Conns : \A j, k \in DOMAIN Reached(c) :
        (j < k /\ c \in audience[Reached(c)[j]] /\ c \in audience[Reached(c)[k]])
            => Reached(c)[j] < Reached(c)[k]

\* deliverLocal and closeAll never bring the process down: to a client that
\* is slow or disconnected the payload is dropped (hub.go:191-192).
NoPanic == \A i \in Instances : proc[i] # "panicked"

\* A payload that waits in the subscription of a registered connection is
\* written to that connection by its pump, unless the connection ends, a write
\* to it fails, the subscription is closed, or deliverLocal comes to the
\* connection with this payload while the buffer is full: another tab that is
\* slow or dead never holds it up (hub.go:187-194, ws.go:76-95).
EveryTabGetsIt ==
    \A s, c \in Conns, m \in Msgs :
        (/\ sub[s] = "reading" /\ m \in ToSet(inbox[s])
         /\ c \in Local(Home[s], Owner[s]))
        ~> (\/ m \in ToSet(got[c])
            \/ conn[c] # "serving" \/ chan[c] = "closed" \/ ~pump[c]
            \/ inHand[s] = m /\ c \in todo[s] /\ Len(send[c]) = SendCap
            \/ sub[s] # "reading")

\* Payload m waits in subscription s, is in the reader's hand for connection
\* c, or has reached c.
OnItsWay(s, c, m) ==
    \/ m \in ToSet(inbox[s])
    \/ inHand[s] = m /\ c \in todo[s]
    \/ m \in ToSet(Reached(c))

\* The safety half of EveryTabGetsIt: as long as a connection is registered
\* and its subscription is read, no step of any goroutine makes it miss a
\* payload, except the push into a buffer that is full at that moment and a
\* write that fails (hub.go:178-195, ws.go:76-95).
NothingSkipped ==
    [][\A s \in Conns : \A c \in Local(Home[s], Owner[s]), m \in Msgs :
          sub[s] = "reading" /\ OnItsWay(s, c, m) =>
             \/ OnItsWay(s, c, m)'
             \/ c \notin clients'
             \/ inHand[s] = m /\ c \in todo[s] /\ Len(send[c]) = SendCap
             \/ pump[c] /\ ~pump'[c]]_allVars

=============================================================================
