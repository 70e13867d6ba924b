------------------------------- MODULE Broker -------------------------------
(***************************************************************************)
(* RedisBroker (internal/chat/broker.go): the subscriptions each instance  *)
(* keeps in b.subs, and the presence keys all instances share in Redis.    *)
(*                                                                         *)
(* hub.addClient starts Subscribe in a goroutine of its own, at most once  *)
(* for a connection, so a Subscribe call and the *redis.PubSub it opens    *)
(* are named by the connection they were started for.                      *)
(***************************************************************************)
EXTENDS Integers, FiniteSets

CONSTANTS
    Instances,      \* gotok processes behind one Redis
    Users,          \* user ids
    Conns,          \* WebSocket connections, each opened at most once
    Home,           \* the instance a connection is accepted by
    Owner,          \* the user a connection is authenticated as
    NoConn,         \* nil
    TTL,            \* life of a presence key, in heartbeat periods
    Failing         \* presence commands that may return an error

ASSUME HomeAssumption  == Home \in [Conns -> Instances]
ASSUME OwnerAssumption == Owner \in [Conns -> Users]
ASSUME NilAssumption   == NoConn \notin Conns
ASSUME TTLAssumption   == TTL \in Nat \ {0}
ASSUME FailAssumption  == Failing \subseteq {"SET", "DEL"}

VARIABLES
    sub,        \* [Conns -> Stages]: how far the Subscribe call has come
    subs,       \* b.subs of each instance, NoConn where the map has no entry
    presence    \* periods the key presence:<uid> has left to live, 0: no key

brokerVars == <<sub, subs, presence>>

(***************************************************************************)
(* check, dial, dialled: the goroutine is before the first test of b.subs, *)
(* before rdb.Subscribe, before the second test.  reading: stored, and its *)
(* reader goroutine runs.  leaked: opened, neither stored nor closed.      *)
(***************************************************************************)
Stages == {"none", "check", "skipped", "dial", "dialled",
           "reading", "leaked", "closed"}

BrokerInit ==
    /\ sub = [s \in Conns |-> "none"]
    /\ subs = [i \in Instances |-> [u \in Users |-> NoConn]]
    /\ presence = [u \in Users |-> 0]

\* The entry of b.subs for the user and the instance of s.
Stored(s) == subs[Home[s]][Owner[s]]

----------------------------------------------------------------------------
(* Subscribe: two critical sections with the dial to Redis between them.   *)

SubscribeCheck(s) ==
    /\ sub[s] = "check"
    /\ sub' = [sub EXCEPT ![s] = IF Stored(s) = NoConn THEN "dial" ELSE "skipped"]
    /\ UNCHANGED <<subs, presence>>

SubscribeDial(s) ==
    /\ sub[s] = "dial"
    /\ sub' = [sub EXCEPT ![s] = "dialled"]
    /\ UNCHANGED <<subs, presence>>

\* Mutants of the store: b.subs is not looked at again after the dial; the one
\* that finds an entry clears it.
SubscribeStoreBlind(s) ==
    /\ sub[s] = "dialled"
    /\ subs' = [subs EXCEPT ![Home[s]][Owner[s]] = s]
    /\ sub' = [sub EXCEPT ![s] = "reading"]
    /\ UNCHANGED presence

SubscribeStoreClearing(s) ==
    /\ sub[s] = "dialled"
    /\ IF Stored(s) = NoConn
       THEN /\ subs' = [subs EXCEPT ![Home[s]][Owner[s]] = s]
            /\ sub' = [sub EXCEPT ![s] = "reading"]
       ELSE /\ subs' = [subs EXCEPT ![Home[s]][Owner[s]] = NoConn]
            /\ sub' = [sub EXCEPT ![s] = "closed", ![Stored(s)] = "closed"]
    /\ UNCHANGED presence

\* The loser of a race closes the subscription it finds, and not its own.
\* That Close follows the unlock; only a second Close can come in between.
SubscribeStore(s) ==
    /\ sub[s] = "dialled"
    /\ \/ /\ Stored(s) = NoConn
          /\ subs' = [subs EXCEPT ![Home[s]][Owner[s]] = s]
          /\ sub' = [sub EXCEPT ![s] = "reading"]
       \/ /\ Stored(s) # NoConn
          /\ sub' = [sub EXCEPT ![s] = "leaked", ![Stored(s)] = "closed"]
          /\ UNCHANGED subs
    /\ UNCHANGED presence

Subscribe(s) == SubscribeCheck(s) \/ SubscribeDial(s) \/ SubscribeStore(s)

(* Unsubscribe: the entry leaves the map under the lock, Close follows.    *)

Detach(i, u) == subs' = [subs EXCEPT ![i][u] = NoConn]
Close(s)     == sub' = [sub EXCEPT ![s] = "closed"]

----------------------------------------------------------------------------
(* Presence: SET with an expiry, or DEL.  The callers only log an error.   *)

Outcomes(command) == IF command \in Failing THEN {TRUE, FALSE} ELSE {TRUE}

\* Mutants: a SET that adds to the life the key has left; a SET that leaves a
\* key alone that is there.
SetPresenceExtending(u, online) ==
    presence' = [presence EXCEPT ![u] = IF online THEN @ + TTL ELSE 0]

SetPresenceIfAbsent(u, online) ==
    presence' = [presence EXCEPT ![u] = IF ~online THEN 0 ELSE IF @ = 0 THEN TTL ELSE @]

SetPresence(u, online) ==
    \E ok \in Outcomes(IF online THEN "SET" ELSE "DEL") :
        presence' = IF ok THEN [presence EXCEPT ![u] = IF online THEN TTL ELSE 0]
                          ELSE presence

IsOnline(u) == presence[u] > 0

\* Mutant: keys that are set without an expiry.
AgeForever(p) == p

\* One heartbeat period goes by on every key; Redis drops those that run out.
Age(p) == [u \in Users |-> IF p[u] = 0 THEN 0 ELSE p[u] - 1]

\* When a process ends, its sockets to Redis close and its map is lost.
Abandon(i) ==
    /\ sub' = [s \in Conns |-> IF Home[s] = i /\ sub[s] # "none" THEN "closed"
                                                              ELSE sub[s]]
    /\ subs' = [subs EXCEPT ![i] = [u \in Users |-> NoConn]]

BrokerTypeOK ==
    /\ sub \in [Conns -> Stages]
    /\ subs \in [Instances -> [Users -> Conns \cup {NoConn}]]
    /\ presence \in [Users -> 0 .. TTL]

=============================================================================
