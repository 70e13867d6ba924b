------------------------------ MODULE ChatHub ------------------------------
(***************************************************************************)
(* The chat hub (internal/chat/hub.go) of every instance with the ServeWS  *)
(* handlers (internal/chat/ws.go) that feed it and the broker it drives.   *)
(*                                                                         *)
(* A connection is a Client: h.clients of instance i and user u is         *)
(* Local(i, u), and the map has a key for u exactly when that set is not   *)
(* empty.  Run, the Subscribe goroutines and the heartbeat of an instance  *)
(* interleave at every lock and every call to Redis.                       *)
(***************************************************************************)
EXTENDS Broker, Sequences, SequencesExt

CONSTANTS
    QCap,       \* capacity of the register and unregister channels
    Timed,      \* whether heartbeat periods go by
    Mortal      \* bound: the instances that may be stopped or crash

ASSUME QCapAssumption  == QCap \in Nat \ {0}
ASSUME TimedAssumption == Timed \in BOOLEAN
ASSUME MortalAssumption == Mortal \subseteq Instances

VARIABLES
    proc,       \* state of each process
    conn,       \* life of each connection's ServeWS handler
    regq,       \* h.register
    unregq,     \* h.unregister
    clients,    \* the registered connections, h.clients of all instances
    chan,       \* c.send: open or closed
    hubPc,      \* where Run stands
    hubConn,    \* the client addClient or removeClient works on
    hubSub,     \* the subscription Unsubscribe has taken out of the map
    beat,       \* the heartbeat goroutine: at rest, due, or in its loop
    beatTodo    \* userIDs it has still to refresh

hubVars == <<proc, conn, regq, unregq, clients, chan, hubPc, hubConn, hubSub,
             beat, beatTodo>>
vars == <<brokerVars, hubVars>>

Running == {"up", "stopping", "stopped"}
Dead    == {"down", "panicked"}

At(i)       == {c \in Conns : Home[c] = i}
Local(i, u) == {c \in clients : Home[c] = i /\ Owner[c] = u}

\* A client nobody is behind and nothing will remove: select took its
\* unregister before its register (hub.go:87-96).
Ghost(c) == c \in clients /\ conn[c] = "gone" /\ c \notin ToSet(unregq[Home[c]])

Init ==
    /\ BrokerInit
    /\ proc = [i \in Instances |-> "up"]
    /\ conn = [c \in Conns |-> "idle"]
    /\ regq = [i \in Instances |-> <<>>]
    /\ unregq = [i \in Instances |-> <<>>]
    /\ clients = {}
    /\ chan = [c \in Conns |-> "open"]
    /\ hubPc = [i \in Instances |-> "select"]
    /\ hubConn = [i \in Instances |-> NoConn]
    /\ hubSub = [i \in Instances |-> NoConn]
    /\ beat = [i \in Instances |-> "rest"]
    /\ beatTodo = [i \in Instances |-> {}]

----------------------------------------------------------------------------
(* ServeWS: Register when the socket is accepted, Unregister when the read *)
(* loop ends.  Both block while the channel is full.                       *)

Connect(c) ==
    /\ conn[c] = "idle"
    /\ proc[Home[c]] = "up"
    /\ Len(regq[Home[c]]) < QCap
    /\ conn' = [conn EXCEPT ![c] = "serving"]
    /\ regq' = [regq EXCEPT ![Home[c]] = Append(@, c)]
    /\ UNCHANGED <<brokerVars, proc, unregq, clients, chan, hubPc, hubConn,
                   hubSub, beat, beatTodo>>

Disconnect(c) ==
    /\ conn[c] = "serving"
    /\ proc[Home[c]] \in Running
    /\ Len(unregq[Home[c]]) < QCap
    /\ conn' = [conn EXCEPT ![c] = "gone"]
    /\ unregq' = [unregq EXCEPT ![Home[c]] = Append(@, c)]
    /\ UNCHANGED <<brokerVars, proc, regq, clients, chan, hubPc, hubConn,
                   hubSub, beat, beatTodo>>

----------------------------------------------------------------------------
(* Run: select takes any ready case; a handler runs to its end before the  *)
(* next select.                                                            *)

Selecting(i) == hubPc[i] = "select" /\ proc[i] \in {"up", "stopping"}

\* The critical section of addClient.  The first connection of a user also
\* starts the Subscribe goroutine.
AddClient(i) ==
    /\ Selecting(i)
    /\ regq[i] # <<>>
    /\ LET c     == Head(regq[i])
           first == Local(i, Owner[c]) = {}
       IN  /\ clients' = clients \cup {c}
           /\ IF first
              THEN /\ sub' = [sub EXCEPT ![c] = "check"]
                   /\ hubPc' = [hubPc EXCEPT ![i] = "setOnline"]
                   /\ hubConn' = [hubConn EXCEPT ![i] = c]
              ELSE UNCHANGED <<sub, hubPc, hubConn>>
    /\ regq' = [regq EXCEPT ![i] = Tail(@)]
    /\ UNCHANGED <<subs, presence, proc, conn, unregq, chan, hubSub, beat, beatTodo>>

\* A cancelled context makes the SET fail.
SetOnline(i) ==
    /\ hubPc[i] = "setOnline"
    /\ IF proc[i] = "up" THEN SetPresence(Owner[hubConn[i]], TRUE)
                         ELSE UNCHANGED presence
    /\ hubPc' = [hubPc EXCEPT ![i] = "select"]
    /\ hubConn' = [hubConn EXCEPT ![i] = NoConn]
    /\ UNCHANGED <<sub, subs, proc, conn, regq, unregq, clients, chan, hubSub,
                   beat, beatTodo>>

\* Mutant: close of every connection the user has here.
RemoveClientAll(i) ==
    /\ Selecting(i)
    /\ unregq[i] # <<>>
    /\ LET c    == Head(unregq[i])
           last == Local(i, Owner[c]) \ {c} = {}
       IN  /\ clients' = clients \ {c}
           /\ chan' = [d \in Conns |-> IF d \in Local(i, Owner[c]) \cup {c}
                                       THEN "closed" ELSE chan[d]]
           /\ IF last
              THEN /\ hubPc' = [hubPc EXCEPT ![i] = "unsubscribe"]
                   /\ hubConn' = [hubConn EXCEPT ![i] = c]
              ELSE UNCHANGED <<hubPc, hubConn>>
    /\ unregq' = [unregq EXCEPT ![i] = Tail(@)]
    /\ UNCHANGED <<brokerVars, proc, conn, regq, hubSub, beat, beatTodo>>

\* The critical section of removeClient and close(c.send): a send that comes
\* between the two cannot be told from one that comes before both.
RemoveClient(i) ==
    /\ Selecting(i)
    /\ unregq[i] # <<>>
    /\ LET c    == Head(unregq[i])
           last == Local(i, Owner[c]) \ {c} = {}
       IN  /\ clients' = clients \ {c}
           /\ chan' = [chan EXCEPT ![c] = "closed"]
           /\ IF last
              THEN /\ hubPc' = [hubPc EXCEPT ![i] = "unsubscribe"]
                   /\ hubConn' = [hubConn EXCEPT ![i] = c]
              ELSE UNCHANGED <<hubPc, hubConn>>
    /\ unregq' = [unregq EXCEPT ![i] = Tail(@)]
    /\ UNCHANGED <<brokerVars, proc, conn, regq, hubSub, beat, beatTodo>>

\* Unsubscribe, the critical section: the entry is taken out of b.subs.
UnsubscribeDetach(i) ==
    /\ hubPc[i] = "unsubscribe"
    /\ Detach(i, Owner[hubConn[i]])
    /\ hubSub' = [hubSub EXCEPT ![i] = subs[i][Owner[hubConn[i]]]]
    /\ hubPc' = [hubPc EXCEPT ![i] =
            IF subs[i][Owner[hubConn[i]]] = NoConn THEN "setOffline" ELSE "closeSub"]
    /\ UNCHANGED <<sub, presence, proc, conn, regq, unregq, clients, chan, hubConn,
                   beat, beatTodo>>

\* Unsubscribe, after the lock: the subscription it took out is closed.
UnsubscribeClose(i) ==
    /\ hubPc[i] = "closeSub"
    /\ Close(hubSub[i])
    /\ hubSub' = [hubSub EXCEPT ![i] = NoConn]
    /\ hubPc' = [hubPc EXCEPT ![i] = "setOffline"]
    /\ UNCHANGED <<subs, presence, proc, conn, regq, unregq, clients, chan, hubConn,
                   beat, beatTodo>>

\* The DEL runs under a background context: it works during shutdown too.
SetOffline(i) ==
    /\ hubPc[i] = "setOffline"
    /\ SetPresence(Owner[hubConn[i]], FALSE)
    /\ hubPc' = [hubPc EXCEPT ![i] = "select"]
    /\ hubConn' = [hubConn EXCEPT ![i] = NoConn]
    /\ UNCHANGED <<sub, subs, proc, conn, regq, unregq, clients, chan, hubSub,
                   beat, beatTodo>>

----------------------------------------------------------------------------
(* The heartbeat: a snapshot of the map's keys, then one SET for each.     *)

BeatStart(i) ==
    /\ beat[i] = "due"
    /\ beatTodo' = [beatTodo EXCEPT ![i] = {u \in Users : Local(i, u) # {}}]
    /\ beat' = [beat EXCEPT ![i] = "beating"]
    /\ UNCHANGED <<brokerVars, proc, conn, regq, unregq, clients, chan, hubPc,
                   hubConn, hubSub>>

BeatUser(i) ==
    /\ beat[i] = "beating"
    /\ \E u \in beatTodo[i] :
          /\ SetPresence(u, TRUE)
          /\ beatTodo' = [beatTodo EXCEPT ![i] = @ \ {u}]
    /\ UNCHANGED <<sub, subs, proc, conn, regq, unregq, clients, chan, hubPc,
                   hubConn, hubSub, beat>>

\* timer.Reset after the last SET.
BeatEnd(i) ==
    /\ beat[i] = "beating"
    /\ beatTodo[i] = {}
    /\ beat' = [beat EXCEPT ![i] = "rest"]
    /\ UNCHANGED <<brokerVars, proc, conn, regq, unregq, clients, chan, hubPc,
                   hubConn, hubSub, beatTodo>>

\* A heartbeat period goes by.  A heartbeat that is due completes within one
\* period: its SETs time out long before 30 s.
Tick ==
    /\ Timed
    /\ \A i \in Instances : beat[i] = "rest"
    /\ presence' = Age(presence)
    /\ beat' = [i \in Instances |-> IF proc[i] = "up" THEN "due" ELSE "rest"]
    /\ UNCHANGED <<sub, subs, proc, conn, regq, unregq, clients, chan, hubPc,
                   hubConn, hubSub, beatTodo>>

----------------------------------------------------------------------------
(* The process: signal, closeAll, exit, crash, restart.                    *)

\* SIGTERM cancels the context: the heartbeat returns, Run has a third case.
Stop(i) ==
    /\ proc[i] = "up"
    /\ proc' = [proc EXCEPT ![i] = "stopping"]
    /\ beat' = [beat EXCEPT ![i] = "rest"]
    /\ beatTodo' = [beatTodo EXCEPT ![i] = {}]
    /\ UNCHANGED <<brokerVars, conn, regq, unregq, clients, chan, hubPc, hubConn,
                   hubSub>>

\* Everything a process holds in memory goes; the presence keys stay.
Die(i, how) ==
    /\ proc' = [proc EXCEPT ![i] = how]
    /\ Abandon(i)
    /\ conn' = [c \in Conns |-> IF Home[c] = i /\ conn[c] = "serving" THEN "gone"
                                                                   ELSE conn[c]]
    /\ regq' = [regq EXCEPT ![i] = <<>>]
    /\ unregq' = [unregq EXCEPT ![i] = <<>>]
    /\ clients' = clients \ At(i)
    /\ hubPc' = [hubPc EXCEPT ![i] = "select"]
    /\ hubConn' = [hubConn EXCEPT ![i] = NoConn]
    /\ hubSub' = [hubSub EXCEPT ![i] = NoConn]
    /\ beat' = [beat EXCEPT ![i] = "rest"]
    /\ beatTodo' = [beatTodo EXCEPT ![i] = {}]
    /\ UNCHANGED <<presence, chan>>

\* close of a channel that is closed already panics.
CloseAll(i) ==
    /\ hubPc[i] = "select"
    /\ proc[i] = "stopping"
    /\ LET mine == clients \cap At(i)
       IN  IF \E c \in mine : chan[c] = "closed"
           THEN Die(i, "panicked")
           ELSE /\ chan' = [c \in Conns |-> IF c \in mine THEN "closed" ELSE chan[c]]
                /\ clients' = clients \ mine
                /\ proc' = [proc EXCEPT ![i] = "stopped"]
                /\ UNCHANGED <<brokerVars, conn, regq, unregq, hubPc, hubConn, hubSub,
                               beat, beatTodo>>

\* The end of app.Run after a signal, which does not wait for the hub, or a crash.
Halt(i) ==
    /\ proc[i] \in Running
    /\ Die(i, "down")

Restart(i) ==
    /\ proc[i] \in Dead
    /\ proc' = [proc EXCEPT ![i] = "up"]
    /\ UNCHANGED <<brokerVars, conn, regq, unregq, clients, chan, hubPc, hubConn,
                   hubSub, beat, beatTodo>>

----------------------------------------------------------------------------

RunStep(i) ==
    \/ AddClient(i) \/ SetOnline(i)
    \/ RemoveClient(i) \/ UnsubscribeDetach(i) \/ UnsubscribeClose(i) \/ SetOffline(i)
    \/ CloseAll(i)

BeatStep(i) == BeatStart(i) \/ BeatUser(i) \/ BeatEnd(i)

SubscribeStep(s) == Subscribe(s) /\ UNCHANGED hubVars

Next ==
    \/ \E c \in Conns : Connect(c) \/ Disconnect(c) \/ SubscribeStep(c)
    \/ \E i \in Instances : RunStep(i) \/ BeatStep(i)
    \/ \E i \in Mortal : Stop(i) \/ Halt(i) \/ Restart(i)
    \/ Tick

Spec == Init /\ [][Next]_vars

\* Goroutines that can run do run, and time goes by.  Nothing makes a client
\* connect or leave, or a process stop, crash or come back.
FairSpec ==
    /\ Spec
    /\ \A i \in Instances : WF_vars(RunStep(i)) /\ WF_vars(BeatStep(i))
    /\ \A s \in Conns : WF_vars(SubscribeStep(s))
    /\ WF_vars(Tick)

----------------------------------------------------------------------------
(* Invariants.                                                             *)

TypeOK ==
    /\ BrokerTypeOK
    /\ proc \in [Instances -> Running \cup Dead]
    /\ conn \in [Conns -> {"idle", "serving", "gone"}]
    /\ regq \in [Instances -> Seq(Conns)]
    /\ unregq \in [Instances -> Seq(Conns)]
    /\ clients \subseteq Conns
    /\ chan \in [Conns -> {"open", "closed"}]
    /\ hubPc \in [Instances -> {"select", "setOnline", "unsubscribe", "closeSub",
                                "setOffline"}]
    /\ hubConn \in [Instances -> Conns \cup {NoConn}]
    /\ hubSub \in [Instances -> Conns \cup {NoConn}]
    /\ beat \in [Instances -> {"rest", "due", "beating"}]
    /\ beatTodo \in [Instances -> SUBSET Users]

\* The Subscribe calls for user u on instance i that have not ended.
Pending(i, u) ==
    {s \in Conns : Home[s] = i /\ Owner[s] = u /\ sub[s] \in {"check", "dial", "dialled"}}

\* Whatever the order of Subscribe calls and Unsubscribe, no subscription is
\* read that nobody can close any more: it is in b.subs, or Unsubscribe has
\* just taken it out to close it (broker.go:77-108).
ReaderStored ==
    \A s \in Conns : sub[s] = "reading" => s \in {Stored(s), hubSub[Home[s]]}

\* A user with a registered connection has an entry in b.subs or a Subscribe
\* call on its way to make one, however connections come and go while the
\* goroutines of earlier ones are still running (hub.go:125-175).
SubscribedOrComing ==
    \A i \in Instances, u \in Users :
        Local(i, u) # {} => subs[i][u] # NoConn \/ Pending(i, u) # {}

\* The register channel holds connections of its own instance, each once, and
\* no Subscribe call has been started for them.
RegisterFresh ==
    /\ \A i \in Instances :
          /\ IsInjective(regq[i])
          /\ \A c \in ToSet(regq[i]) : Home[c] = i /\ sub[c] = "none" /\ conn[c] # "idle"
    /\ \A c \in Conns : conn[c] = "idle" => sub[c] = "none"

\* An entry of b.subs was opened for its user on this instance, by a Subscribe
\* call that has ended.
SubsEntries ==
    \A i \in Instances, u \in Users :
        subs[i][u] # NoConn => /\ Home[subs[i][u]] = i
                               /\ Owner[subs[i][u]] = u
                               /\ sub[subs[i][u]] \in {"reading", "closed"}

\* While removeClient is at work for the last connection of a user, no other
\* connection of that user is registered.
RemovingLast ==
    \A i \in Instances :
        /\ hubPc[i] # "select" => hubConn[i] \in Conns
        /\ hubPc[i] \in {"unsubscribe", "closeSub", "setOffline"} =>
              Local(i, Owner[hubConn[i]]) = {}

\* Unsubscribe holds a subscription from the unlock to the Close, and only then.
ClosingSub ==
    \A i \in Instances :
        IF hubPc[i] = "closeSub"
        THEN hubSub[i] \in Conns /\ Home[hubSub[i]] = i /\ sub[hubSub[i]] \in {"reading", "closed"}
        ELSE hubSub[i] = NoConn

\* The inductive invariant behind ReaderStored, SubscribedOrComing and
\* NeverReplaced: Run handles one client at a time (hub.go:85-97), so that
\* nothing registers while a last connection is being taken down, and only
\* Subscribe goroutines interleave with it.
HubInv ==
    /\ RegisterFresh
    /\ SubsEntries
    /\ RemovingLast
    /\ ClosingSub
    /\ ReaderStored
    /\ SubscribedOrComing

\* IsOnline answers true for a user with a registered connection on any
\* running instance (hub.go:286-287), the moments in which a hub is in the
\* middle of addClient or removeClient left aside.
ConnectedIsOnline ==
    (\A i \in Instances : hubPc[i] = "select") =>
        \A c \in clients : proc[Home[c]] = "up" => IsOnline(Owner[c])

\* The subscription in b.subs is one that is read: "the first subscription
\* wins" (broker.go:64-66).
FirstSubscriptionWins ==
    \A i \in Instances, u \in Users :
        subs[i][u] # NoConn => sub[subs[i][u]] = "reading"

\* What closeAll would close a second time, with a panic, are ghosts and nothing
\* else: a client that is still in h.clients has an open channel, unless its
\* unregister was taken before its register (hub.go:87-96, 150-175, 197-207).
OnlyGhostsAreClosed == \A c \in clients : chan[c] = "closed" => Ghost(c)

----------------------------------------------------------------------------
(* Steps.                                                                  *)

\* A stored subscription is never replaced by another one: between the two,
\* Unsubscribe takes it out, or the process ends (broker.go:77-84).
NeverReplaced ==
    [][\A i \in Instances, u \in Users :
            subs[i][u] # NoConn => subs'[i][u] \in {subs[i][u], NoConn}]_subs

\* The safety half of OnlineHeals: the key of a connected user neither runs out
\* nor falls to a late DEL of the user's own instance; only an instance the
\* user has left takes it, unless addClient is about to set it anyway
\* (hub.go:125-175, 298-325).
OnlyOthersTakeIt ==
    [][\A c \in clients :
          proc[Home[c]] = "up" /\ IsOnline(Owner[c]) /\ ~IsOnline(Owner[c])' =>
             \/ /\ hubPc[Home[c]] = "setOnline"
                /\ Owner[hubConn[Home[c]]] = Owner[c]
             \/ \E i \in Instances \ {Home[c]} :
                   /\ hubPc[i] = "setOffline"
                   /\ Owner[hubConn[i]] = Owner[c] /\ Local(i, Owner[c]) = {}]_vars

\* The safety half of OfflineHeals: for a user with no client registered the key
\* is renewed only by a heartbeat that had the user in its snapshot before, and
\* once by each; no snapshot takes the user in again (hub.go:306-323).
OnlyStaleBeatsRenew ==
    [][\A u \in Users : (\A c \in clients : Owner[c] # u) =>
          /\ presence'[u] > presence[u] => \E i \in Instances : u \in beatTodo[i] \ beatTodo'[i]
          /\ \A i \in Instances : u \in beatTodo'[i] => u \in beatTodo[i]]_vars

\* Until its process has stopped, a connection whose read loop runs has an open
\* channel: only what is gone can bring deliverLocal down (hub.go:150-175).
LiveChannelsOpen ==
    \A c \in Conns :
        conn[c] = "serving" /\ proc[Home[c]] \in {"up", "stopping"} => chan[c] = "open"

----------------------------------------------------------------------------
(* Liveness.                                                               *)

\* A user who has left for good ends up offline, also when an instance crashed,
\* a DEL failed, or a heartbeat set the key once more from an old snapshot
\* (broker.go:111-113) -- unless one of the user's connections is left behind as
\* a ghost: the heartbeat renews the key for a ghost as long as its process
\* runs, and IsOnline is true of a user with no connection (hub.go:286-287).
OfflineHeals ==
    \A u \in Users :
        <>[](\A c \in Conns : Owner[c] = u => conn[c] # "serving") =>
            \/ <>[]~IsOnline(u)
            \/ <>[](\E c \in clients : Owner[c] = u /\ Ghost(c))

\* A user who keeps a connection on a running instance ends up online for
\* good, also when another instance deleted the key (hub.go:298-325).
OnlineHeals ==
    \A u \in Users :
        <>[](\E c \in clients : Owner[c] = u /\ proc[Home[c]] = "up") => <>[]IsOnline(u)

=============================================================================
