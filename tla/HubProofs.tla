----------------------------- MODULE HubProofs -----------------------------
(***************************************************************************)
(* Theorems about ChatHub and about HubDelivery, which extends it, for     *)
(* every set of instances, users and connections and every capacity.       *)
(***************************************************************************)
EXTENDS HubDelivery, TLAPS

USE DEF Stages, Running, Dead

----------------------------------------------------------------------------
(* Type correctness.                                                       *)

LEMMA AgeType ==
    ASSUME NEW p \in [Users -> 0 .. TTL]
    PROVE  Age(p) \in [Users -> 0 .. TTL]
  BY TTLAssumption DEF Age

LEMMA SetPresenceType ==
    ASSUME NEW u \in Users, NEW online \in BOOLEAN,
           presence \in [Users -> 0 .. TTL], SetPresence(u, online)
    PROVE  presence' \in [Users -> 0 .. TTL]
  BY TTLAssumption DEF SetPresence

LEMMA AbandonType ==
    ASSUME NEW i \in Instances, BrokerTypeOK, Abandon(i)
    PROVE  /\ sub' \in [Conns -> Stages]
           /\ subs' \in [Instances -> [Users -> Conns \cup {NoConn}]]
  BY DEF Abandon, BrokerTypeOK

LEMMA DieType ==
    ASSUME NEW i \in Instances, NEW how \in Dead, TypeOK, Die(i, how)
    PROVE  TypeOK'
  <1>1. BrokerTypeOK'
    BY AbandonType DEF TypeOK, Die, BrokerTypeOK
  <1>2. QED
    BY <1>1 DEF TypeOK, Die, At

LEMMA SubscribeType ==
    ASSUME NEW s \in Conns, BrokerTypeOK, Subscribe(s)
    PROVE  BrokerTypeOK'
  <1> USE HomeAssumption, OwnerAssumption DEF BrokerTypeOK, Stored
  <1>1. CASE SubscribeCheck(s)
    BY <1>1 DEF SubscribeCheck
  <1>2. CASE SubscribeDial(s)
    BY <1>2 DEF SubscribeDial
  <1>3. CASE SubscribeStore(s)
    <2>1. presence' = presence
      BY <1>3 DEF SubscribeStore
    <2>2. CASE Stored(s) = NoConn
      <3>1. /\ subs' = [subs EXCEPT ![Home[s]][Owner[s]] = s]
            /\ sub' = [sub EXCEPT ![s] = "reading"]
        BY <1>3, <2>2 DEF SubscribeStore
      <3>2. sub' \in [Conns -> Stages]
        BY <3>1 DEF Stages
      <3>3. subs' \in [Instances -> [Users -> Conns \cup {NoConn}]]
        BY <3>1
      <3>4. QED
        BY <2>1, <3>2, <3>3
    <2>3. CASE Stored(s) # NoConn
      <3>1. /\ subs' = subs
            /\ sub' = [sub EXCEPT ![s] = "leaked", ![Stored(s)] = "closed"]
        BY <1>3, <2>3 DEF SubscribeStore
      <3>2. sub' \in [Conns -> Stages]
        BY <3>1 DEF Stages
      <3>3. QED
        BY <2>1, <3>1, <3>2
    <2>4. QED
      BY <2>2, <2>3
  <1>4. QED
    BY <1>1, <1>2, <1>3 DEF Subscribe

LEMMA RunType ==
    ASSUME NEW i \in Instances, TypeOK, RunStep(i),
           RemovingLast, ClosingSub
    PROVE  TypeOK'
  <1> USE HomeAssumption, OwnerAssumption DEF TypeOK
  <1>1. CASE AddClient(i)
    <2>1. Head(regq[i]) \in Conns /\ Tail(regq[i]) \in Seq(Conns)
      BY <1>1 DEF AddClient
    <2>2. BrokerTypeOK'
      BY <1>1, <2>1 DEF AddClient, BrokerTypeOK
    <2>3. /\ clients' \subseteq Conns
          /\ hubPc' \in [Instances -> {"select", "setOnline", "unsubscribe", "closeSub",
                                      "setOffline"}]
          /\ hubConn' \in [Instances -> Conns \cup {NoConn}]
      BY <1>1, <2>1 DEF AddClient
    <2>4. regq' \in [Instances -> Seq(Conns)]
      BY <1>1, <2>1 DEF AddClient
    <2>5. QED
      BY <1>1, <2>2, <2>3, <2>4 DEF AddClient
  <1>2. CASE SetOnline(i)
    <2>1. presence' \in [Users -> 0 .. TTL]
      BY <1>2, SetPresenceType DEF SetOnline, BrokerTypeOK, RemovingLast
    <2>2. QED
      BY <1>2, <2>1 DEF SetOnline, BrokerTypeOK
  <1>3. CASE RemoveClient(i)
    <2>1. Head(unregq[i]) \in Conns /\ Tail(unregq[i]) \in Seq(Conns)
      BY <1>3 DEF RemoveClient
    <2>2. /\ clients' \subseteq Conns
          /\ chan' \in [Conns -> {"open", "closed"}]
          /\ hubPc' \in [Instances -> {"select", "setOnline", "unsubscribe", "closeSub",
                                      "setOffline"}]
          /\ hubConn' \in [Instances -> Conns \cup {NoConn}]
      BY <1>3, <2>1 DEF RemoveClient
    <2>3. unregq' \in [Instances -> Seq(Conns)]
      BY <1>3, <2>1 DEF RemoveClient
    <2>4. QED
      BY <1>3, <2>2, <2>3 DEF RemoveClient, BrokerTypeOK, brokerVars
  <1>4. CASE UnsubscribeDetach(i)
    BY <1>4 DEF UnsubscribeDetach, Detach, BrokerTypeOK, RemovingLast
  <1>5. CASE UnsubscribeClose(i)
    BY <1>5 DEF UnsubscribeClose, Close, BrokerTypeOK, ClosingSub
  <1>6. CASE SetOffline(i)
    <2>1. presence' \in [Users -> 0 .. TTL]
      BY <1>6, SetPresenceType DEF SetOffline, BrokerTypeOK, RemovingLast
    <2>2. QED
      BY <1>6, <2>1 DEF SetOffline, BrokerTypeOK
  <1>7. CASE CloseAll(i)
    <2>1. CASE Die(i, "panicked")
      BY <2>1, DieType
    <2>2. CASE ~Die(i, "panicked")
      <3>1. /\ chan' = [c \in Conns |-> IF c \in clients \cap At(i) THEN "closed" ELSE chan[c]]
            /\ clients' = clients \ (clients \cap At(i))
            /\ proc' = [proc EXCEPT ![i] = "stopped"]
            /\ UNCHANGED <<brokerVars, conn, regq, unregq, hubPc, hubConn, hubSub,
                           beat, beatTodo>>
        BY <1>7, <2>2, Zenon DEF CloseAll
      <3>2. BrokerTypeOK'
        BY <3>1 DEF BrokerTypeOK, brokerVars
      <3>3. QED
        BY <3>1, <3>2
    <2>3. QED
      BY <2>1, <2>2
  <1>8. QED
    BY <1>1, <1>2, <1>3, <1>4, <1>5, <1>6, <1>7 DEF RunStep

LEMMA BeatType ==
    ASSUME NEW i \in Instances, TypeOK, BeatStep(i)
    PROVE  TypeOK'
  <1> USE DEF TypeOK
  <1>1. CASE BeatStart(i)
    BY <1>1 DEF BeatStart, BrokerTypeOK, brokerVars
  <1>2. CASE BeatUser(i)
    <2>1. presence' \in [Users -> 0 .. TTL]
      BY <1>2, SetPresenceType DEF BeatUser, BrokerTypeOK
    <2>2. QED
      BY <1>2, <2>1 DEF BeatUser, BrokerTypeOK
  <1>3. CASE BeatEnd(i)
    BY <1>3 DEF BeatEnd, BrokerTypeOK, brokerVars
  <1>4. QED
    BY <1>1, <1>2, <1>3 DEF BeatStep

----------------------------------------------------------------------------
(* The inductive invariant.                                                *)

LEMMA QueueElements ==
    ASSUME NEW S, NEW q \in Seq(S)
    PROVE  ToSet(q) \subseteq S
  BY DEF ToSet

LEMMA AppendElements ==
    ASSUME NEW S, NEW q \in Seq(S), NEW c \in S, IsInjective(q), c \notin ToSet(q)
    PROVE  ToSet(Append(q, c)) = ToSet(q) \cup {c} /\ IsInjective(Append(q, c))
  <1>1. /\ DOMAIN Append(q, c) = 1 .. (Len(q) + 1) /\ DOMAIN q = 1 .. Len(q) /\ Len(q) \in Nat
        /\ \A k \in DOMAIN q : Append(q, c)[k] = q[k]
        /\ Append(q, c)[Len(q) + 1] = c
    OBVIOUS
  <1>2. DOMAIN Append(q, c) = DOMAIN q \cup {Len(q) + 1}
    BY <1>1
  <1>3. QED
    BY <1>1, <1>2 DEF ToSet, IsInjective

LEMMA TailElements ==
    ASSUME NEW S, NEW q \in Seq(S), IsInjective(q), q # <<>>
    PROVE  /\ Head(q) \in S /\ Head(q) \in ToSet(q) /\ Tail(q) \in Seq(S)
           /\ ToSet(Tail(q)) \subseteq ToSet(q) \ {Head(q)}
           /\ IsInjective(Tail(q))
  <1>1. /\ 1 \in DOMAIN q /\ Head(q) = q[1] /\ Head(q) \in S /\ Tail(q) \in Seq(S)
        /\ DOMAIN Tail(q) = 1 .. (Len(q) - 1) /\ DOMAIN q = 1 .. Len(q) /\ Len(q) \in Nat
        /\ \A k \in 1 .. (Len(q) - 1) : Tail(q)[k] = q[k + 1]
    OBVIOUS
  <1>2. \A k \in DOMAIN Tail(q) :
            k \in Nat \ {0} /\ k + 1 \in DOMAIN q /\ Tail(q)[k] = q[k + 1]
    BY <1>1
  <1>3. \A k \in DOMAIN Tail(q) : Tail(q)[k] \in ToSet(q) \ {Head(q)}
    BY <1>1, <1>2 DEF ToSet, IsInjective
  <1>4. IsInjective(Tail(q))
    BY <1>2 DEF IsInjective
  <1>5. QED
    BY <1>1, <1>3, <1>4 DEF ToSet

\* HubInv speaks of these variables only.
LEMMA HubInvFrame ==
    ASSUME HubInv,
           UNCHANGED <<sub, subs, conn, regq, clients, hubPc, hubConn, hubSub>>
    PROVE  HubInv'
  BY DEF HubInv, RegisterFresh, SubsEntries, RemovingLast, ClosingSub, ReaderStored,
         SubscribedOrComing, Stored, Local, Pending

LEMMA RestFrame ==
    ASSUME HubInv, UNCHANGED <<sub, subs, clients, hubPc, hubConn, hubSub>>
    PROVE  /\ SubsEntries' /\ RemovingLast' /\ ClosingSub'
           /\ ReaderStored' /\ SubscribedOrComing'
  BY DEF HubInv, SubsEntries, RemovingLast, ClosingSub, ReaderStored, SubscribedOrComing,
         Stored, Local, Pending

LEMMA ConnectInv ==
    ASSUME NEW c \in Conns, TypeOK, HubInv, Connect(c)
    PROVE  HubInv'
  <1> USE HomeAssumption DEF Connect, brokerVars, TypeOK
  <1>1. RegisterFresh'
    <2>1. sub[c] = "none" /\ c \notin ToSet(regq[Home[c]]) /\ Home[c] \in Instances
      BY DEF HubInv, RegisterFresh
    <2>2. ASSUME NEW i \in Instances
          PROVE  /\ IsInjective(regq'[i])
                 /\ \A d \in ToSet(regq'[i]) :
                       Home[d] = i /\ sub'[d] = "none" /\ conn'[d] # "idle"
      <3>1. /\ IsInjective(regq[i]) /\ ToSet(regq[i]) \subseteq Conns
            /\ \A d \in ToSet(regq[i]) : Home[d] = i /\ sub[d] = "none" /\ conn[d] # "idle"
        BY QueueElements DEF HubInv, RegisterFresh
      <3>2. CASE i = Home[c]
        <4>1. ToSet(regq'[i]) = ToSet(regq[i]) \cup {c} /\ IsInjective(regq'[i])
          BY <2>1, <3>1, <3>2, AppendElements
        <4>2. QED
          BY <2>1, <3>1, <3>2, <4>1
      <3>3. CASE i # Home[c]
        BY <2>1, <3>1, <3>3
      <3>4. QED
        BY <3>2, <3>3
    <2>3. \A d \in Conns : conn'[d] = "idle" => sub'[d] = "none"
      BY DEF HubInv, RegisterFresh
    <2>4. QED
      BY <2>2, <2>3 DEF RegisterFresh
  <1>2. QED
    BY <1>1, RestFrame DEF HubInv

LEMMA DisconnectInv ==
    ASSUME NEW c \in Conns, TypeOK, HubInv, Disconnect(c)
    PROVE  HubInv'
  <1> USE DEF Disconnect, brokerVars
  <1>1. RegisterFresh'
    BY DEF HubInv, RegisterFresh, TypeOK
  <1>2. QED
    BY <1>1, RestFrame DEF HubInv

LEMMA AddClientInv ==
    ASSUME NEW i \in Instances, TypeOK, HubInv, AddClient(i)
    PROVE  HubInv'
  <1> DEFINE c == Head(regq[i])
  <1>1. regq[i] \in Seq(Conns) /\ regq[i] # <<>> /\ IsInjective(regq[i])
    BY DEF AddClient, TypeOK, HubInv, RegisterFresh
  <1>2. /\ c \in Conns /\ Home[c] = i /\ sub[c] = "none" /\ conn[c] # "idle"
        /\ ToSet(Tail(regq[i])) \subseteq ToSet(regq[i]) \ {c}
        /\ IsInjective(Tail(regq[i]))
        /\ ToSet(regq[i]) \subseteq Conns
    BY <1>1, TailElements, QueueElements DEF HubInv, RegisterFresh
  <1>3. /\ clients' = clients \cup {c}
        /\ regq' = [regq EXCEPT ![i] = Tail(regq[i])]
        /\ UNCHANGED <<subs, conn, hubSub>>
        /\ hubPc[i] = "select"
        /\ \/ /\ Local(i, Owner[c]) = {}
              /\ sub' = [sub EXCEPT ![c] = "check"]
              /\ hubPc' = [hubPc EXCEPT ![i] = "setOnline"]
              /\ hubConn' = [hubConn EXCEPT ![i] = c]
           \/ /\ Local(i, Owner[c]) # {}
              /\ UNCHANGED <<sub, hubPc, hubConn>>
    BY Zenon DEF AddClient, Selecting
  <1> HIDE DEF c
  <1>4. /\ sub' \in [Conns -> Stages] /\ \A s \in Conns \ {c} : sub'[s] = sub[s]
        /\ sub'[c] \in {"none", "check"}
    BY <1>2, <1>3 DEF TypeOK, BrokerTypeOK
  <1>5. RegisterFresh'
    <2>1. ASSUME NEW j \in Instances
          PROVE  /\ IsInjective(regq'[j])
                 /\ \A d \in ToSet(regq'[j]) :
                       Home[d] = j /\ sub'[d] = "none" /\ conn'[d] # "idle"
      <3>1. CASE j = i
        <4>1. regq'[j] = Tail(regq[i])
          BY <1>3, <3>1 DEF TypeOK
        <4>2. QED
          BY <1>2, <1>3, <1>4, <3>1, <4>1 DEF HubInv, RegisterFresh
      <3>2. CASE j # i
        <4>1. regq'[j] = regq[j] /\ ToSet(regq[j]) \subseteq Conns
          BY <1>3, <3>2, QueueElements DEF TypeOK
        <4>2. \A d \in ToSet(regq[j]) : d # c
          BY <1>2, <3>2 DEF HubInv, RegisterFresh
        <4>3. QED
          BY <1>3, <1>4, <4>1, <4>2 DEF HubInv, RegisterFresh
      <3>3. QED
        BY <3>1, <3>2
    <2>2. \A d \in Conns : conn'[d] = "idle" => sub'[d] = "none"
      BY <1>2, <1>3, <1>4 DEF HubInv, RegisterFresh
    <2>3. QED
      BY <2>1, <2>2 DEF RegisterFresh
  <1>6. SubsEntries'
    <2>1. ASSUME NEW j \in Instances, NEW u \in Users, subs[j][u] # NoConn
          PROVE  /\ Home[subs[j][u]] = j /\ Owner[subs[j][u]] = u
                 /\ sub'[subs[j][u]] \in {"reading", "closed"}
      <3>1. subs[j][u] \in Conns
        BY <2>1 DEF TypeOK, BrokerTypeOK
      <3>2. /\ Home[subs[j][u]] = j /\ Owner[subs[j][u]] = u
            /\ sub[subs[j][u]] \in {"reading", "closed"}
        BY <2>1 DEF HubInv, SubsEntries
      <3>3. subs[j][u] # c
        BY <1>2, <3>2
      <3>4. QED
        BY <1>4, <3>1, <3>2, <3>3
    <2>2. QED
      BY <1>3, <2>1 DEF SubsEntries
  <1>7. RemovingLast'
    <2>1. ASSUME NEW j \in Instances, j # i
          PROVE  hubPc'[j] = hubPc[j] /\ hubConn'[j] = hubConn[j]
      BY <1>3, <2>1 DEF TypeOK
    <2>2. hubPc'[i] \in {"select", "setOnline"} /\ (hubPc'[i] = "setOnline" => hubConn'[i] = c)
      BY <1>3 DEF TypeOK
    <2>3. ASSUME NEW j \in Instances
          PROVE  /\ hubPc'[j] # "select" => hubConn'[j] \in Conns
                 /\ hubPc'[j] \in {"unsubscribe", "closeSub", "setOffline"} =>
                       Local(j, Owner[hubConn[j]])' = {}
      <3>1. CASE j = i
        BY <1>2, <2>2, <3>1
      <3>2. CASE j # i
        <4>1. Local(j, Owner[hubConn[j]])' = {u \in clients' : Home[u] = j /\ Owner[u] = Owner[hubConn'[j]]}
          BY DEF Local
        <4>2. {u \in clients' : Home[u] = j /\ Owner[u] = Owner[hubConn'[j]]}
                 = Local(j, Owner[hubConn[j]])
          BY <1>2, <1>3, <2>1, <3>2 DEF Local
        <4>3. QED
          BY <2>1, <3>2, <4>1, <4>2 DEF HubInv, RemovingLast
      <3>3. QED
        BY <3>1, <3>2
    <2>4. QED
      BY <2>3 DEF RemovingLast, Local
  <1>8. ClosingSub'
    <2>1. ASSUME NEW j \in Instances
          PROVE  IF hubPc'[j] = "closeSub"
                 THEN /\ hubSub[j] \in Conns /\ Home[hubSub[j]] = j
                      /\ sub'[hubSub[j]] \in {"reading", "closed"}
                 ELSE hubSub[j] = NoConn
      <3>1. hubPc'[j] = "closeSub" <=> hubPc[j] = "closeSub"
        BY <1>3 DEF TypeOK
      <3>2. CASE hubPc[j] = "closeSub"
        <4>1. /\ hubSub[j] \in Conns /\ Home[hubSub[j]] = j
              /\ sub[hubSub[j]] \in {"reading", "closed"}
          BY <3>2 DEF HubInv, ClosingSub
        <4>2. hubSub[j] # c
          BY <1>2, <4>1
        <4>3. QED
          BY <1>4, <3>1, <3>2, <4>1, <4>2
      <3>3. CASE hubPc[j] # "closeSub"
        BY <3>1, <3>3 DEF HubInv, ClosingSub
      <3>4. QED
        BY <3>2, <3>3
    <2>2. QED
      BY <1>3, <2>1 DEF ClosingSub
  <1>9. ReaderStored'
    BY <1>2, <1>3, <1>4 DEF HubInv, ReaderStored, Stored
  <1>10. SubscribedOrComing'
    <2>1. ASSUME NEW j \in Instances, NEW u \in Users, (Local(j, u) # {})', subs[j][u] = NoConn
          PROVE  \E s \in Conns : /\ Home[s] = j /\ Owner[s] = u
                                  /\ sub'[s] \in {"check", "dial", "dialled"}
      <3>1. CASE Local(j, u) # {}
        <4>1. PICK s \in Conns : /\ Home[s] = j /\ Owner[s] = u
                                 /\ sub[s] \in {"check", "dial", "dialled"}
          BY <2>1, <3>1 DEF HubInv, SubscribedOrComing, Pending
        <4>2. s # c
          BY <1>2, <4>1
        <4>3. QED
          BY <1>4, <4>1, <4>2
      <3>2. CASE Local(j, u) = {}
        <4>1. j = i /\ u = Owner[c]
          BY <1>2, <1>3, <2>1, <3>2 DEF Local
        <4>2. sub'[c] = "check"
          BY <1>2, <1>3, <3>2, <4>1 DEF TypeOK, BrokerTypeOK
        <4>3. QED
          BY <1>2, <4>1, <4>2
      <3>3. QED
        BY <3>1, <3>2
    <2>2. QED
      BY <1>3, <2>1 DEF SubscribedOrComing, Pending, Local
  <1>11. QED
    BY <1>5, <1>6, <1>7, <1>8, <1>9, <1>10 DEF HubInv

LEMMA RemoveClientInv ==
    ASSUME NEW i \in Instances, TypeOK, HubInv, RemoveClient(i)
    PROVE  HubInv'
  <1> DEFINE c == Head(unregq[i])
  <1>1. c \in Conns
    BY DEF RemoveClient, TypeOK
  <1>2. /\ clients' = clients \ {c}
        /\ UNCHANGED <<sub, subs, conn, regq, hubSub>>
        /\ hubPc[i] = "select"
        /\ \/ /\ Local(i, Owner[c]) \ {c} = {}
              /\ hubPc' = [hubPc EXCEPT ![i] = "unsubscribe"]
              /\ hubConn' = [hubConn EXCEPT ![i] = c]
           \/ UNCHANGED <<hubPc, hubConn>>
    BY Zenon DEF RemoveClient, Selecting, brokerVars
  <1> HIDE DEF c
  <1>3. RegisterFresh' /\ SubsEntries' /\ ReaderStored'
    BY <1>2 DEF HubInv, RegisterFresh, SubsEntries, ReaderStored, Stored
  <1>4. RemovingLast'
    <2>1. ASSUME NEW j \in Instances
          PROVE  /\ hubPc'[j] # "select" => hubConn'[j] \in Conns
                 /\ hubPc'[j] \in {"unsubscribe", "closeSub", "setOffline"} =>
                       Local(j, Owner[hubConn[j]])' = {}
      <3>1. CASE hubPc'[j] = hubPc[j] /\ hubConn'[j] = hubConn[j]
        BY <1>2, <3>1 DEF HubInv, RemovingLast, Local
      <3>2. CASE j = i /\ hubConn'[j] = c /\ Local(i, Owner[c]) \ {c} = {}
        BY <1>1, <1>2, <3>2 DEF Local
      <3>3. QED
        BY <1>2, <3>1, <3>2 DEF TypeOK
    <2>2. QED
      BY <2>1 DEF RemovingLast, Local
  <1>5. ClosingSub'
    <2>1. \A j \in Instances : hubPc'[j] = "closeSub" <=> hubPc[j] = "closeSub"
      BY <1>2 DEF TypeOK
    <2>2. QED
      BY <1>2, <2>1 DEF HubInv, ClosingSub
  <1>6. SubscribedOrComing'
    BY <1>2 DEF HubInv, SubscribedOrComing, Local, Pending
  <1>7. QED
    BY <1>3, <1>4, <1>5, <1>6 DEF HubInv

LEMMA DetachInv ==
    ASSUME NEW i \in Instances, TypeOK, HubInv, UnsubscribeDetach(i)
    PROVE  HubInv'
  <1> DEFINE u == Owner[hubConn[i]]
             s == subs[i][u]
  <1>1. hubConn[i] \in Conns /\ u \in Users /\ Local(i, u) = {} /\ hubSub[i] = NoConn
    BY OwnerAssumption DEF UnsubscribeDetach, HubInv, RemovingLast, ClosingSub
  <1>2. /\ subs' = [subs EXCEPT ![i][u] = NoConn]
        /\ hubSub' = [hubSub EXCEPT ![i] = s]
        /\ hubPc' = [hubPc EXCEPT ![i] = IF s = NoConn THEN "setOffline" ELSE "closeSub"]
        /\ hubPc[i] = "unsubscribe"
        /\ UNCHANGED <<sub, conn, regq, clients, hubConn>>
    BY DEF UnsubscribeDetach, Detach
  <1>3. s # NoConn => /\ s \in Conns /\ Home[s] = i /\ Owner[s] = u
                      /\ sub[s] \in {"reading", "closed"}
    BY <1>1 DEF HubInv, SubsEntries, TypeOK, BrokerTypeOK
  <1>4. /\ \A j \in Instances, v \in Users :
              subs'[j][v] = IF j = i /\ v = u THEN NoConn ELSE subs[j][v]
        /\ \A j \in Instances \ {i} : hubPc'[j] = hubPc[j] /\ hubSub'[j] = hubSub[j]
        /\ hubPc'[i] = IF s = NoConn THEN "setOffline" ELSE "closeSub"
        /\ hubSub'[i] = s
    BY <1>1, <1>2 DEF TypeOK, BrokerTypeOK
  <1> HIDE DEF u, s
  <1>5. RegisterFresh'
    BY <1>2 DEF HubInv, RegisterFresh
  <1>6. SubsEntries'
    BY <1>2, <1>4 DEF HubInv, SubsEntries
  <1>7. RemovingLast'
    <2>1. \A j \in Instances :
             /\ hubPc'[j] # "select" => hubPc[j] # "select"
             /\ hubPc'[j] \in {"unsubscribe", "closeSub", "setOffline"} =>
                    hubPc[j] \in {"unsubscribe", "closeSub", "setOffline"}
      BY <1>2, <1>4
    <2>2. QED
      BY <1>2, <2>1 DEF HubInv, RemovingLast, Local
  <1>8. ClosingSub'
    BY <1>2, <1>3, <1>4 DEF HubInv, ClosingSub
  <1>9. ReaderStored'
    <2>1. ASSUME NEW r \in Conns, sub[r] = "reading"
          PROVE  r \in {subs'[Home[r]][Owner[r]], hubSub'[Home[r]]}
      <3>1. Home[r] \in Instances /\ Owner[r] \in Users
        BY HomeAssumption, OwnerAssumption
      <3>2. r # NoConn
        BY NilAssumption
      <3>3. QED
        BY <1>1, <1>4, <2>1, <3>1, <3>2 DEF HubInv, ReaderStored, Stored, s
    <2>2. QED
      BY <1>2, <2>1 DEF ReaderStored, Stored
  <1>10. SubscribedOrComing'
    BY <1>1, <1>2, <1>4 DEF HubInv, SubscribedOrComing, Local, Pending
  <1>11. QED
    BY <1>5, <1>6, <1>7, <1>8, <1>9, <1>10 DEF HubInv

LEMMA CloseInv ==
    ASSUME NEW i \in Instances, TypeOK, HubInv, UnsubscribeClose(i)
    PROVE  HubInv'
  <1> DEFINE s == hubSub[i]
  <1>1. s \in Conns /\ Home[s] = i /\ sub[s] \in {"reading", "closed"}
    BY DEF UnsubscribeClose, HubInv, ClosingSub
  <1>2. /\ sub' = [sub EXCEPT ![s] = "closed"]
        /\ hubSub' = [hubSub EXCEPT ![i] = NoConn]
        /\ hubPc' = [hubPc EXCEPT ![i] = "setOffline"]
        /\ hubPc[i] = "closeSub"
        /\ UNCHANGED <<subs, conn, regq, clients, hubConn>>
    BY DEF UnsubscribeClose, Close
  <1>3. /\ \A r \in Conns : sub'[r] = IF r = s THEN "closed" ELSE sub[r]
        /\ \A j \in Instances \ {i} : hubPc'[j] = hubPc[j] /\ hubSub'[j] = hubSub[j]
        /\ hubPc'[i] = "setOffline" /\ hubSub'[i] = NoConn
    BY <1>2 DEF TypeOK, BrokerTypeOK
  <1>4. RegisterFresh'
    <2>1. \A j \in Instances : ToSet(regq[j]) \subseteq Conns
      BY QueueElements DEF TypeOK
    <2>2. QED
      BY <1>1, <1>2, <1>3, <2>1 DEF HubInv, RegisterFresh
  <1>5. SubsEntries'
    BY <1>1, <1>2, <1>3 DEF HubInv, SubsEntries, TypeOK, BrokerTypeOK
  <1>6. RemovingLast'
    BY <1>2, <1>3 DEF HubInv, RemovingLast, Local
  <1>7. ClosingSub'
    BY <1>1, <1>3 DEF HubInv, ClosingSub
  <1>8. ReaderStored'
    BY <1>1, <1>2, <1>3, HomeAssumption DEF HubInv, ReaderStored, Stored
  <1>9. SubscribedOrComing'
    BY <1>1, <1>2, <1>3 DEF HubInv, SubscribedOrComing, Local, Pending
  <1>10. QED
    BY <1>4, <1>5, <1>6, <1>7, <1>8, <1>9 DEF HubInv

\* A Subscribe goroutine moves on while the hub stands still.
LEMMA SubscribeInv ==
    ASSUME NEW s \in Conns, TypeOK, HubInv, Subscribe(s), UNCHANGED hubVars
    PROVE  HubInv'
  <1>1. UNCHANGED <<conn, regq, clients, hubPc, hubConn, hubSub>>
    BY DEF hubVars
  <1>2. Home[s] \in Instances /\ Owner[s] \in Users /\ s # NoConn
    BY HomeAssumption, OwnerAssumption, NilAssumption
  <1>3. sub[s] \in {"check", "dial", "dialled"}
    BY DEF Subscribe, SubscribeCheck, SubscribeDial, SubscribeStore
  <1>4. /\ \A r \in Conns \ {s, Stored(s)} : sub'[r] = sub[r]
        /\ sub'[s] \in {"dial", "dialled", "skipped", "reading", "leaked"}
        /\ sub'[s] \in {"dial", "dialled"} \/ subs'[Home[s]][Owner[s]] # NoConn
        /\ Stored(s) # NoConn =>
              /\ Stored(s) # s /\ sub[Stored(s)] \in {"reading", "closed"}
              /\ sub'[Stored(s)] \in {sub[Stored(s)], "closed"}
        /\ sub'[s] = "reading" => Stored(s) = NoConn /\ subs'[Home[s]][Owner[s]] = s
        /\ \/ subs' = subs
           \/ /\ Stored(s) = NoConn /\ sub'[s] = "reading"
              /\ subs' = [subs EXCEPT ![Home[s]][Owner[s]] = s]
    <2>1. Stored(s) # NoConn => /\ Stored(s) \in Conns /\ Stored(s) # s
                                /\ sub[Stored(s)] \in {"reading", "closed"}
      BY <1>2, <1>3 DEF HubInv, SubsEntries, Stored, TypeOK, BrokerTypeOK
    <2> USE DEF TypeOK, BrokerTypeOK, Stored
    <2>2. CASE SubscribeCheck(s)
      BY <1>2, <2>1, <2>2 DEF SubscribeCheck
    <2>3. CASE SubscribeDial(s)
      BY <1>2, <2>1, <2>3 DEF SubscribeDial
    <2>4. CASE SubscribeStore(s)
      BY <1>2, <2>1, <2>4 DEF SubscribeStore
    <2>5. QED
      BY <2>2, <2>3, <2>4 DEF Subscribe
  <1>5. \A j \in Instances, u \in Users :
            \/ subs'[j][u] = subs[j][u]
            \/ /\ j = Home[s] /\ u = Owner[s] /\ subs[j][u] = NoConn
               /\ subs'[j][u] = s /\ sub'[s] = "reading"
    BY <1>2, <1>4 DEF Stored, TypeOK, BrokerTypeOK
  <1>6. \A r \in Conns \ {s} :
            \/ sub'[r] = sub[r]
            \/ sub[r] \in {"reading", "closed"} /\ sub'[r] = "closed"
    <2>1. ASSUME NEW r \in Conns \ {s}, r = Stored(s)
          PROVE  \/ sub'[r] = sub[r]
                 \/ sub[r] \in {"reading", "closed"} /\ sub'[r] = "closed"
      <3>1. Stored(s) # NoConn
        BY <2>1, NilAssumption
      <3>2. QED
        BY <1>4, <2>1, <3>1
    <2>2. ASSUME NEW r \in Conns \ {s}, r # Stored(s)
          PROVE  sub'[r] = sub[r]
      BY <1>4, <2>2
    <2>3. QED
      BY <2>1, <2>2
  <1>7. RegisterFresh'
    <2>1. \A j \in Instances : ToSet(regq[j]) \subseteq Conns
      BY QueueElements DEF TypeOK
    <2>2. QED
      BY <1>1, <1>3, <1>6, <2>1 DEF HubInv, RegisterFresh
  <1>8. SubsEntries'
    <2>1. ASSUME NEW j \in Instances, NEW u \in Users, subs'[j][u] # NoConn
          PROVE  /\ Home[subs'[j][u]] = j /\ Owner[subs'[j][u]] = u
                 /\ sub'[subs'[j][u]] \in {"reading", "closed"}
      <3>1. CASE subs'[j][u] = subs[j][u]
        <4>1. subs[j][u] \in Conns
          BY <2>1, <3>1 DEF TypeOK, BrokerTypeOK
        <4>2. /\ Home[subs[j][u]] = j /\ Owner[subs[j][u]] = u
              /\ sub[subs[j][u]] \in {"reading", "closed"}
          BY <2>1, <3>1 DEF HubInv, SubsEntries
        <4>3. subs[j][u] # s
          BY <1>3, <4>2
        <4>4. QED
          BY <1>6, <3>1, <4>1, <4>2, <4>3
      <3>2. CASE subs'[j][u] # subs[j][u]
        BY <1>5, <3>2
      <3>3. QED
        BY <3>1, <3>2
    <2>2. QED
      BY <2>1 DEF SubsEntries
  <1>9. RemovingLast'
    BY <1>1 DEF HubInv, RemovingLast, Local
  <1>10. ClosingSub'
    <2>1. ASSUME NEW j \in Instances, hubPc[j] = "closeSub"
          PROVE  /\ hubSub[j] \in Conns /\ Home[hubSub[j]] = j
                 /\ sub'[hubSub[j]] \in {"reading", "closed"}
      <3>1. /\ hubSub[j] \in Conns /\ Home[hubSub[j]] = j
            /\ sub[hubSub[j]] \in {"reading", "closed"}
        BY <2>1 DEF HubInv, ClosingSub
      <3>2. hubSub[j] # s
        BY <1>3, <3>1
      <3>3. QED
        BY <1>6, <3>1, <3>2
    <2>2. \A j \in Instances : hubPc[j] # "closeSub" => hubSub[j] = NoConn
      BY DEF HubInv, ClosingSub
    <2>3. QED
      BY <1>1, <2>1, <2>2 DEF ClosingSub
  <1>11. ReaderStored'
    <2>1. ASSUME NEW r \in Conns, sub'[r] = "reading"
          PROVE  r \in {subs'[Home[r]][Owner[r]], hubSub[Home[r]]}
      <3>1. Home[r] \in Instances /\ Owner[r] \in Users /\ r # NoConn
        BY HomeAssumption, OwnerAssumption, NilAssumption
      <3>2. CASE r = s
        BY <1>4, <2>1, <3>2
      <3>3. CASE r # s
        <4>1. sub[r] = "reading"
          BY <1>6, <2>1, <3>3
        <4>2. r \in {subs[Home[r]][Owner[r]], hubSub[Home[r]]}
          BY <4>1 DEF HubInv, ReaderStored, Stored
        <4>3. QED
          BY <1>5, <3>1, <4>2
      <3>4. QED
        BY <3>2, <3>3
    <2>2. QED
      BY <1>1, <2>1 DEF ReaderStored, Stored
  <1>12. SubscribedOrComing'
    <2>1. ASSUME NEW j \in Instances, NEW u \in Users, Local(j, u) # {}, subs'[j][u] = NoConn
          PROVE  \E r \in Conns : /\ Home[r] = j /\ Owner[r] = u
                                  /\ sub'[r] \in {"check", "dial", "dialled"}
      <3>1. subs[j][u] = NoConn
        BY <1>2, <1>5, <2>1
      <3>2. PICK r \in Conns : /\ Home[r] = j /\ Owner[r] = u
                               /\ sub[r] \in {"check", "dial", "dialled"}
        BY <2>1, <3>1 DEF HubInv, SubscribedOrComing, Pending
      <3>3. CASE r = s
        BY <1>4, <2>1, <3>2, <3>3
      <3>4. CASE r # s
        BY <1>6, <3>2, <3>4
      <3>5. QED
        BY <3>2, <3>3, <3>4
    <2>2. QED
      BY <1>1, <2>1 DEF SubscribedOrComing, Pending, Local
  <1>13. QED
    BY <1>7, <1>8, <1>9, <1>10, <1>11, <1>12 DEF HubInv

\* The end of a process empties everything HubInv says of it.
LEMMA DieInv ==
    ASSUME NEW i \in Instances, NEW how, TypeOK, HubInv, Die(i, how)
    PROVE  HubInv'
  <1>1. /\ \A r \in Conns : sub'[r] = IF Home[r] = i /\ sub[r] # "none" THEN "closed" ELSE sub[r]
        /\ \A c \in Conns : conn'[c] = "idle" <=> conn[c] = "idle"
        /\ clients' = clients \ {c \in Conns : Home[c] = i}
        /\ UNCHANGED <<presence, chan>>
    BY DEF Die, Abandon, At
  <1>2. /\ \A j \in Instances \ {i} :
              /\ regq'[j] = regq[j] /\ hubPc'[j] = hubPc[j]
              /\ hubConn'[j] = hubConn[j] /\ hubSub'[j] = hubSub[j]
        /\ regq'[i] = <<>> /\ hubPc'[i] = "select" /\ hubSub'[i] = NoConn
    BY DEF Die, TypeOK
  <1>3. \A j \in Instances, u \in Users :
            subs'[j][u] = IF j = i THEN NoConn ELSE subs[j][u]
    BY DEF Die, Abandon, TypeOK, BrokerTypeOK
  <1>4. RegisterFresh'
    <2>1. ToSet(<<>>) = {} /\ IsInjective(<<>>)
      BY DEF ToSet, IsInjective
    <2>2. \A j \in Instances : ToSet(regq[j]) \subseteq Conns
      BY QueueElements DEF TypeOK
    <2>3. QED
      BY <1>1, <1>2, <2>1, <2>2 DEF HubInv, RegisterFresh
  <1>5. SubsEntries'
    BY <1>1, <1>3, NilAssumption DEF HubInv, SubsEntries, TypeOK, BrokerTypeOK
  <1>6. RemovingLast'
    <2>1. ASSUME NEW j \in Instances, j # i
          PROVE  Local(j, Owner[hubConn[j]])' = Local(j, Owner[hubConn[j]])
      BY <1>1, <1>2, <2>1 DEF Local, TypeOK
    <2>2. QED
      BY <1>2, <2>1 DEF HubInv, RemovingLast
  <1>7. ClosingSub'
    BY <1>1, <1>2 DEF HubInv, ClosingSub
  <1>8. ReaderStored'
    <2>1. ASSUME NEW r \in Conns, sub'[r] = "reading"
          PROVE  r \in {subs'[Home[r]][Owner[r]], hubSub'[Home[r]]}
      <3>1. Home[r] \in Instances \ {i} /\ Owner[r] \in Users /\ sub[r] = "reading"
        BY <1>1, <2>1, HomeAssumption, OwnerAssumption
      <3>2. r \in {subs[Home[r]][Owner[r]], hubSub[Home[r]]}
        BY <3>1 DEF HubInv, ReaderStored, Stored
      <3>3. QED
        BY <1>2, <1>3, <3>1, <3>2
    <2>2. QED
      BY <2>1 DEF ReaderStored, Stored
  <1>9. SubscribedOrComing'
    <2>1. ASSUME NEW j \in Instances, NEW u \in Users,
                 NEW c \in clients', Home[c] = j, Owner[c] = u, subs'[j][u] = NoConn
          PROVE  \E r \in Conns : /\ Home[r] = j /\ Owner[r] = u
                                  /\ sub'[r] \in {"check", "dial", "dialled"}
      <3>1. c \in clients /\ j # i
        BY <1>1, <2>1 DEF TypeOK
      <3>2. Local(j, u) # {} /\ subs[j][u] = NoConn
        BY <1>3, <2>1, <3>1 DEF Local
      <3>3. PICK r \in Conns : /\ Home[r] = j /\ Owner[r] = u
                               /\ sub[r] \in {"check", "dial", "dialled"}
        BY <3>2 DEF HubInv, SubscribedOrComing, Pending
      <3>4. QED
        BY <1>1, <3>1, <3>3
    <2>2. QED
      BY <2>1 DEF SubscribedOrComing, Local, Pending
  <1>10. QED
    BY <1>4, <1>5, <1>6, <1>7, <1>8, <1>9 DEF HubInv

LEMMA CloseAllInv ==
    ASSUME NEW i \in Instances, TypeOK, HubInv, CloseAll(i)
    PROVE  HubInv'
  <1>1. CASE Die(i, "panicked")
    BY <1>1, DieInv
  <1>2. CASE ~Die(i, "panicked")
    <2>1. /\ clients' = clients \ (clients \cap At(i))
          /\ UNCHANGED <<sub, subs, conn, regq, hubPc, hubConn, hubSub>>
      BY <1>2, Zenon DEF CloseAll, brokerVars
    <2>2. RegisterFresh' /\ SubsEntries' /\ ClosingSub' /\ ReaderStored'
      BY <2>1 DEF HubInv, RegisterFresh, SubsEntries, ClosingSub, ReaderStored, Stored
    <2>3. RemovingLast' /\ SubscribedOrComing'
      BY <2>1 DEF HubInv, RemovingLast, SubscribedOrComing, Local, Pending
    <2>4. QED
      BY <2>2, <2>3 DEF HubInv
  <1>3. QED
    BY <1>1, <1>2

LEMMA RunInv ==
    ASSUME NEW i \in Instances, TypeOK, HubInv, RunStep(i)
    PROVE  HubInv'
  <1>1. CASE SetOnline(i) \/ SetOffline(i)
    <2>1. UNCHANGED <<sub, subs, conn, regq, clients, hubSub>> /\ hubPc[i] \in {"setOnline", "setOffline"}
      BY <1>1 DEF SetOnline, SetOffline
    <2>2. /\ hubPc' = [hubPc EXCEPT ![i] = "select"]
          /\ hubConn' = [hubConn EXCEPT ![i] = NoConn]
      BY <1>1 DEF SetOnline, SetOffline
    <2>3. RegisterFresh' /\ SubsEntries' /\ ReaderStored' /\ SubscribedOrComing'
      BY <2>1 DEF HubInv, RegisterFresh, SubsEntries, ReaderStored, SubscribedOrComing,
                  Stored, Local, Pending
    <2>4. /\ hubPc'[i] = "select"
          /\ \A j \in Instances \ {i} : hubPc'[j] = hubPc[j] /\ hubConn'[j] = hubConn[j]
      BY <2>2 DEF TypeOK
    <2>5. RemovingLast'
      BY <2>1, <2>4 DEF HubInv, RemovingLast, Local
    <2>6. ClosingSub'
      BY <2>1, <2>4 DEF HubInv, ClosingSub
    <2>7. QED
      BY <2>3, <2>5, <2>6 DEF HubInv
  <1>2. QED
    BY <1>1, AddClientInv, RemoveClientInv, DetachInv, CloseInv, CloseAllInv DEF RunStep

LEMMA NextInv ==
    ASSUME TypeOK, HubInv, [Next]_vars
    PROVE  HubInv'
  <1>1. ASSUME NEW c \in Conns, Connect(c) \/ Disconnect(c) \/ SubscribeStep(c)
        PROVE  HubInv'
    BY <1>1, ConnectInv, DisconnectInv, SubscribeInv DEF SubscribeStep
  <1>2. ASSUME NEW i \in Instances, RunStep(i)
        PROVE  HubInv'
    BY <1>2, RunInv
  <1>3. ASSUME NEW i \in Instances, BeatStep(i) \/ Stop(i) \/ Restart(i)
        PROVE  HubInv'
    BY <1>3, HubInvFrame
       DEF BeatStep, BeatStart, BeatUser, BeatEnd, Stop, Restart, brokerVars
  <1>4. ASSUME NEW i \in Instances, Halt(i)
        PROVE  HubInv'
    BY <1>4, DieInv DEF Halt
  <1>5. CASE Tick \/ UNCHANGED vars
    BY <1>5, HubInvFrame DEF Tick, vars, brokerVars, hubVars
  <1>6. QED
    BY <1>1, <1>2, <1>3, <1>4, <1>5, MortalAssumption DEF Next

LEMMA NextType ==
    ASSUME TypeOK, HubInv, [Next]_vars
    PROVE  TypeOK'
  <1>1. ASSUME NEW c \in Conns, Connect(c)
        PROVE  TypeOK'
    <2>1. Append(regq[Home[c]], c) \in Seq(Conns) /\ Home[c] \in Instances
      BY HomeAssumption DEF TypeOK
    <2>2. regq' \in [Instances -> Seq(Conns)]
      BY <1>1, <2>1 DEF Connect, TypeOK
    <2>3. conn' \in [Conns -> {"idle", "serving", "gone"}]
      BY <1>1 DEF Connect, TypeOK
    <2>4. QED
      BY <1>1, <2>2, <2>3 DEF Connect, TypeOK, BrokerTypeOK, brokerVars
  <1>2. ASSUME NEW c \in Conns, Disconnect(c)
        PROVE  TypeOK'
    <2>1. Append(unregq[Home[c]], c) \in Seq(Conns) /\ Home[c] \in Instances
      BY HomeAssumption DEF TypeOK
    <2>2. unregq' \in [Instances -> Seq(Conns)]
      BY <1>2, <2>1 DEF Disconnect, TypeOK
    <2>3. conn' \in [Conns -> {"idle", "serving", "gone"}]
      BY <1>2 DEF Disconnect, TypeOK
    <2>4. QED
      BY <1>2, <2>2, <2>3 DEF Disconnect, TypeOK, BrokerTypeOK, brokerVars
  <1>3. ASSUME NEW c \in Conns, SubscribeStep(c)
        PROVE  TypeOK'
    BY <1>3, SubscribeType DEF SubscribeStep, hubVars, TypeOK
  <1>4. ASSUME NEW i \in Instances, RunStep(i)
        PROVE  TypeOK'
    BY <1>4, RunType DEF HubInv
  <1>5. ASSUME NEW i \in Instances, BeatStep(i)
        PROVE  TypeOK'
    BY <1>5, BeatType
  <1>6. ASSUME NEW i \in Instances, Stop(i)
        PROVE  TypeOK'
    BY <1>6 DEF Stop, TypeOK, BrokerTypeOK, brokerVars
  <1>7. ASSUME NEW i \in Instances, Halt(i)
        PROVE  TypeOK'
    BY <1>7, DieType DEF Halt
  <1>8. ASSUME NEW i \in Instances, Restart(i)
        PROVE  TypeOK'
    BY <1>8 DEF Restart, TypeOK, BrokerTypeOK, brokerVars
  <1>9. CASE Tick
    BY <1>9, AgeType DEF Tick, TypeOK, BrokerTypeOK
  <1>10. CASE UNCHANGED vars
    BY <1>10 DEF vars, brokerVars, hubVars, TypeOK, BrokerTypeOK
  <1>11. QED
    BY <1>1, <1>2, <1>3, <1>4, <1>5, <1>6, <1>7, <1>8, <1>9, <1>10, MortalAssumption DEF Next

LEMMA HubStarts ==
    ASSUME Init
    PROVE  TypeOK /\ HubInv
  <1> USE DEF Init, BrokerInit
  <1>1. TypeOK
    BY TTLAssumption DEF TypeOK, BrokerTypeOK
  <1>2. ToSet(<<>>) = {} /\ IsInjective(<<>>)
    BY DEF ToSet, IsInjective
  <1>3. RegisterFresh
    BY <1>2 DEF RegisterFresh
  <1>4. SubsEntries /\ RemovingLast /\ ClosingSub
    BY DEF SubsEntries, RemovingLast, ClosingSub
  <1>5. ReaderStored /\ SubscribedOrComing
    BY DEF ReaderStored, SubscribedOrComing, Local
  <1>6. QED
    BY <1>1, <1>3, <1>4, <1>5 DEF HubInv

----------------------------------------------------------------------------
(* Theorems.                                                               *)

\* The hub and the broker keep their types, and the inductive invariant of
\* the subscription protocol holds, for any number of instances, users and
\* connections, through shutdowns, crashes and restarts.
THEOREM HubInvariant == Spec => [](TypeOK /\ HubInv)
  <1>1. Init => TypeOK /\ HubInv
    BY HubStarts
  <1>2. TypeOK /\ HubInv /\ [Next]_vars => (TypeOK /\ HubInv)'
    BY NextType, NextInv
  <1>3. QED
    BY <1>1, <1>2, PTL DEF Spec

\* The broker's and the hub's maps, queues and programs keep their types.
THEOREM TypeCorrect == Spec => []TypeOK
  BY HubInvariant, PTL

\* No reader goroutine is left behind that Unsubscribe cannot reach.
THEOREM ReadersAreStored == Spec => []ReaderStored
  <1>1. TypeOK /\ HubInv => ReaderStored
    BY DEF HubInv
  <1>2. QED
    BY <1>1, HubInvariant, PTL

\* A connected user has a subscription in the map or one being made.
THEOREM ConnectedUserSubscribes == Spec => []SubscribedOrComing
  <1>1. TypeOK /\ HubInv => SubscribedOrComing
    BY DEF HubInv
  <1>2. QED
    BY <1>1, HubInvariant, PTL

\* A subscription in the map gives way to no other one.
THEOREM StoredIsNotReplaced == Spec => NeverReplaced
  <1> DEFINE Kept == \A i \in Instances, u \in Users :
                        subs[i][u] # NoConn => subs'[i][u] \in {subs[i][u], NoConn}
  <1>1. TypeOK /\ HubInv /\ [Next]_vars => [Kept]_subs
    <2> SUFFICES ASSUME TypeOK, HubInv, [Next]_vars, subs' # subs
                 PROVE  Kept
      OBVIOUS
    <2>1. ASSUME NEW s \in Conns, SubscribeStep(s)
          PROVE  Kept
      <3>1. subs' = [subs EXCEPT ![Home[s]][Owner[s]] = s] /\ Stored(s) = NoConn
        BY <2>1 DEF SubscribeStep, Subscribe, SubscribeCheck, SubscribeDial, SubscribeStore
      <3>2. Home[s] \in Instances /\ Owner[s] \in Users
        BY HomeAssumption, OwnerAssumption
      <3>3. QED
        BY <3>1, <3>2 DEF Stored, TypeOK, BrokerTypeOK
    <2>2. ASSUME NEW i \in Instances, UnsubscribeDetach(i)
          PROVE  Kept
      <3>1. subs' = [subs EXCEPT ![i][Owner[hubConn[i]]] = NoConn]
        BY <2>2 DEF UnsubscribeDetach, Detach
      <3>2. QED
        BY <3>1 DEF TypeOK, BrokerTypeOK
    <2>3. ASSUME NEW i \in Instances, NEW how, Die(i, how)
          PROVE  Kept
      BY <2>3 DEF Die, Abandon, TypeOK, BrokerTypeOK
    <2>4. ASSUME NEW i \in Instances, CloseAll(i)
          PROVE  Kept
      <3>1. Die(i, "panicked")
        BY <2>4, Zenon DEF CloseAll, brokerVars
      <3>2. QED
        BY <2>3, <3>1
    <2>5. QED
      BY <2>1, <2>2, <2>3, <2>4, MortalAssumption, Zenon
         DEF Next, Connect, Disconnect, RunStep, AddClient, SetOnline, RemoveClient,
             UnsubscribeClose, SetOffline, BeatStep, BeatStart, BeatUser, BeatEnd, Stop,
             Halt, Restart, Tick, vars, brokerVars
  <1>2. QED
    BY <1>1, HubInvariant, PTL DEF Spec, NeverReplaced

----------------------------------------------------------------------------
(* Sequences.                                                              *)

LEMMA AppendFacts ==
    ASSUME NEW S, NEW q \in Seq(S), NEW e \in S
    PROVE  /\ Append(q, e) \in Seq(S)
           /\ Len(Append(q, e)) = Len(q) + 1 /\ Len(q) \in Nat
           /\ DOMAIN q = 1 .. Len(q)
           /\ DOMAIN Append(q, e) = DOMAIN q \cup {Len(q) + 1}
           /\ \A k \in DOMAIN q : Append(q, e)[k] = q[k] /\ k < Len(q) + 1 /\ k \in Nat
           /\ Append(q, e)[Len(q) + 1] = e
  <1>1. /\ Append(q, e) \in Seq(S) /\ Len(q) \in Nat
        /\ Len(Append(q, e)) = Len(q) + 1
        /\ DOMAIN Append(q, e) = 1 .. (Len(q) + 1) /\ DOMAIN q = 1 .. Len(q)
        /\ \A k \in DOMAIN q : Append(q, e)[k] = q[k]
        /\ Append(q, e)[Len(q) + 1] = e
    OBVIOUS
  <1>2. QED
    BY <1>1

LEMMA TailFacts ==
    ASSUME NEW S, NEW q \in Seq(S), q # <<>>
    PROVE  /\ Head(q) \in S /\ Tail(q) \in Seq(S) /\ Len(Tail(q)) = Len(q) - 1
           /\ 1 \in DOMAIN q /\ Head(q) = q[1]
           /\ \A k \in DOMAIN Tail(q) :
                 k \in Nat /\ k + 1 \in DOMAIN q /\ 1 < k + 1 /\ Tail(q)[k] = q[k + 1]
  <1>1. /\ Head(q) \in S /\ Tail(q) \in Seq(S) /\ Len(Tail(q)) = Len(q) - 1
        /\ 1 \in DOMAIN q /\ Head(q) = q[1]
        /\ DOMAIN Tail(q) = 1 .. (Len(q) - 1) /\ DOMAIN q = 1 .. Len(q) /\ Len(q) \in Nat
        /\ \A k \in 1 .. (Len(q) - 1) : Tail(q)[k] = q[k + 1]
    OBVIOUS
  <1>2. \A k \in 1 .. (Len(q) - 1) : k \in Nat /\ k + 1 \in 1 .. Len(q) /\ 1 < k + 1
    BY <1>1
  <1>3. QED
    BY <1>1, <1>2

LEMMA ConcatFacts ==
    ASSUME NEW S, NEW p \in Seq(S), NEW q \in Seq(S)
    PROVE  /\ p \o q \in Seq(S)
           /\ DOMAIN (p \o q) = 1 .. (Len(p) + Len(q))
           /\ Len(p) \in Nat /\ Len(q) \in Nat
           /\ DOMAIN p = 1 .. Len(p) /\ DOMAIN q = 1 .. Len(q)
           /\ \A k \in 1 .. (Len(p) + Len(q)) :
                 (p \o q)[k] = IF k <= Len(p) THEN p[k] ELSE q[k - Len(p)]
  OBVIOUS

\* a is b without some of its elements.
Thinned(a, b) ==
    \E f \in [DOMAIN a -> DOMAIN b] :
        \A k \in DOMAIN a : a[k] = b[f[k]] /\ \A j \in DOMAIN a : j < k => f[j] < f[k]

LEMMA ThinnedSame ==
    ASSUME NEW S, NEW q \in Seq(S)
    PROVE  Thinned(q, q)
  <1> DEFINE f == [k \in DOMAIN q |-> k]
  <1>1. f \in [DOMAIN q -> DOMAIN q] /\ \A k \in DOMAIN q : f[k] = k
    OBVIOUS
  <1> HIDE DEF f
  <1>2. \A k \in DOMAIN q : q[k] = q[f[k]] /\ \A j \in DOMAIN q : j < k => f[j] < f[k]
    BY <1>1
  <1>3. QED
    BY <1>1, <1>2 DEF Thinned

\* What is not written any more is lost.
LEMMA ThinnedPrefix ==
    ASSUME NEW S, NEW p \in Seq(S), NEW q \in Seq(S)
    PROVE  Thinned(p \o <<>>, p \o q)
  <1> DEFINE a == p \o <<>>
             b == p \o q
             f == [k \in DOMAIN a |-> k]
  <1>1. <<>> \in Seq(S) /\ Len(<<>>) = 0
    OBVIOUS
  <1>2. DOMAIN a = DOMAIN p /\ \A k \in DOMAIN a : a[k] = p[k]
    BY <1>1, ConcatFacts
  <1>3. \A k \in DOMAIN p : k \in DOMAIN b /\ b[k] = p[k]
    BY ConcatFacts
  <1>4. f \in [DOMAIN a -> DOMAIN b] /\ \A k \in DOMAIN a : f[k] = k
    BY <1>2, <1>3
  <1> HIDE DEF f, a, b
  <1>5. \A k \in DOMAIN a : a[k] = b[f[k]] /\ \A j \in DOMAIN a : j < k => f[j] < f[k]
    BY <1>2, <1>3, <1>4
  <1>6. Thinned(a, b)
    BY <1>4, <1>5 DEF Thinned
  <1>7. QED
    BY <1>6 DEF a, b

\* What is taken off the second queue leaves the order as it was.
LEMMA ThinnedTail ==
    ASSUME NEW S, NEW p \in Seq(S), NEW q \in Seq(S), q # <<>>
    PROVE  Thinned(p \o Tail(q), p \o q)
  <1> DEFINE a == p \o Tail(q)
             b == p \o q
             f == [k \in DOMAIN a |-> IF k <= Len(p) THEN k ELSE k + 1]
  <1>1. Tail(q) \in Seq(S) /\ Len(Tail(q)) = Len(q) - 1 /\ Len(q) \in Nat \ {0}
        /\ \A k \in 1 .. Len(Tail(q)) : Tail(q)[k] = q[k + 1]
    OBVIOUS
  <1>2. /\ DOMAIN a = 1 .. (Len(p) + Len(q) - 1)
        /\ DOMAIN b = 1 .. (Len(p) + Len(q))
        /\ Len(p) \in Nat
        /\ \A k \in DOMAIN a : a[k] = IF k <= Len(p) THEN p[k] ELSE Tail(q)[k - Len(p)]
        /\ \A k \in DOMAIN b : b[k] = IF k <= Len(p) THEN p[k] ELSE q[k - Len(p)]
    BY <1>1, ConcatFacts
  <1> HIDE DEF a, b
  <1>3. f \in [DOMAIN a -> DOMAIN b]
    BY <1>1, <1>2
  <1>4. \A k \in DOMAIN a : f[k] = IF k <= Len(p) THEN k ELSE k + 1
    OBVIOUS
  <1> HIDE DEF f
  <1>5. ASSUME NEW k \in DOMAIN a
        PROVE  a[k] = b[f[k]]
    <2>1. CASE k <= Len(p)
      BY <1>1, <1>2, <1>4, <2>1
    <2>2. CASE ~(k <= Len(p))
      <3>1. k - Len(p) \in 1 .. Len(Tail(q)) /\ k + 1 \in DOMAIN b /\ ~(k + 1 <= Len(p))
            /\ (k + 1) - Len(p) = (k - Len(p)) + 1
        BY <1>1, <1>2, <2>2
      <3>2. QED
        BY <1>1, <1>2, <1>4, <2>2, <3>1
    <2>3. QED
      BY <2>1, <2>2
  <1>6. \A k, j \in DOMAIN a : j < k => f[j] < f[k]
    BY <1>1, <1>2, <1>4
  <1>7. Thinned(a, b)
    BY <1>3, <1>5, <1>6 DEF Thinned
  <1>8. QED
    BY <1>7 DEF a, b

\* What the pump takes off one queue it puts on the other.
LEMMA ConcatMoves ==
    ASSUME NEW S, NEW p \in Seq(S), NEW q \in Seq(S), q # <<>>
    PROVE  Append(p, Head(q)) \o Tail(q) = p \o q
  <1>1. QED
    OBVIOUS

LEMMA ConcatAppend ==
    ASSUME NEW S, NEW p \in Seq(S), NEW q \in Seq(S), NEW e \in S
    PROVE  p \o Append(q, e) = Append(p \o q, e)
  OBVIOUS

----------------------------------------------------------------------------
(* Delivery: the invariant.                                                *)

Kin(s, c) == Home[s] = Home[c] /\ Owner[s] = Owner[c]
Published == 1 .. Len(audience)

\* Only what was published is on its way.
Numbered ==
    \A c \in Conns :
        /\ \A k \in DOMAIN Reached(c) : Reached(c)[k] \in Published
        /\ \A k \in DOMAIN inbox[c] : inbox[c][k] \in Published
        /\ inHand[c] # 0 => inHand[c] \in Published

\* A subscription receives in the order of publication.
Rising ==
    \A s \in Conns :
        /\ \A j, k \in DOMAIN inbox[s] : j < k => inbox[s][j] < inbox[s][k]
        /\ \A k \in DOMAIN inbox[s] : inHand[s] < inbox[s][k]

\* Only what is or was stored is read, and for the clients of its user.
ReadersHold ==
    \A s \in Conns :
        /\ inHand[s] # 0 => sub[s] \in {"reading", "closed"}
        /\ inHand[s] = 0 => todo[s] = {}
        /\ \A c \in todo[s] : Kin(s, c)

\* A process that has ended holds nothing.
DeadForget ==
    \A c \in Conns : proc[Home[c]] \in Dead =>
        /\ inbox[c] = <<>> /\ inHand[c] = 0
        /\ sub[c] \in {"none", "closed"} /\ c \notin clients

\* A connection that is or was registered is not registered again.
Known(c) == c \in clients \/ \E m \in Published : c \in audience[m]
KnownOnce == \A c \in Conns : Known(c) => conn[c] # "idle" /\ c \notin ToSet(regq[Home[c]])

\* Unsubscribe closes what it has taken out.
ClosingOwn == \A i \in Instances : hubPc[i] = "closeSub" => Owner[hubSub[i]] = Owner[hubConn[i]]

\* A reader whose subscription is stored no more has nothing for those who are
\* registered now.
Outdated ==
    \A s, c \in Conns :
        (sub[s] \in {"reading", "closed"} /\ Stored(s) # s /\ Kin(s, c) /\ c \in clients)
            => \A k \in DOMAIN inbox[s] : c \notin audience[inbox[s][k]]

\* deliverLocal has still to hand to c what was published for it.
Handing(s, c) == c \in todo[s] /\ c \in audience[inHand[s]]

\* One reader at a time does, the stored one while c is registered.
OneReader ==
    \A s, c \in Conns : Handing(s, c) =>
        /\ c \in clients => Stored(s) = s
        /\ \A r \in Conns : Handing(r, c) => r = s

\* What is on its way to c was published after what has reached it.
InTurn ==
    \A s, c \in Conns : \A k \in DOMAIN Reached(c) : c \in audience[Reached(c)[k]] =>
        /\ Handing(s, c) => Reached(c)[k] < inHand[s]
        /\ (c \in clients /\ Kin(s, c) /\ Stored(s) = s)
              => \A j \in DOMAIN inbox[s] : Reached(c)[k] < inbox[s][j]

\* Nothing reaches a client before a subscription is stored for it.
NoneYet ==
    \A c \in Conns : (c \in clients /\ Stored(c) = NoConn) =>
        \A k \in DOMAIN Reached(c) : c \notin audience[Reached(c)[k]]

\* The inductive invariant behind InOrder.
DeliveryInv ==
    /\ Numbered /\ Rising /\ ReadersHold /\ DeadForget /\ KnownOnce /\ ClosingOwn
    /\ Outdated /\ OneReader /\ InTurn /\ NoneYet /\ InOrder

----------------------------------------------------------------------------
(* Delivery: what the hub can do to it.                                    *)

\* The process of c ends in this step.
Lost(c) == proc[Home[c]] \in Running /\ proc'[Home[c]] \in Dead

\* A connection is registered once, from the register channel.
RegisterMoves ==
    \A c \in Conns :
        /\ c \in clients' \ clients => c \in ToSet(regq[Home[c]]) /\ c \notin ToSet(regq'[Home[c]])
        /\ conn[c] # "idle" => conn'[c] # "idle"
        /\ c \in clients' => c \in clients \/ conn[c] # "idle"
        /\ (conn[c] # "idle" /\ c \notin ToSet(regq[Home[c]])) => c \notin ToSet(regq'[Home[c]])

\* A subscription is stored where none was, is taken out when its user has no
\* client left, and is closed only after it was stored, or with its process.
StoreMoves ==
    \A s \in Conns :
        /\ (Stored(s) = s /\ Stored(s)' # s) => Lost(s) \/ Local(Home[s], Owner[s])' = {}
        /\ (Stored(s) # s /\ Stored(s)' = s) => Stored(s) = NoConn
        /\ (sub'[s] \in {"reading", "closed"} /\ sub[s] \notin {"reading", "closed"})
              => Lost(s) \/ Stored(s)' = s
        /\ sub[s] \in {"reading", "closed"} => sub'[s] \in {"reading", "closed"}

\* A process that ends takes its subscriptions and clients with it, and gets
\* none before it is started again.
EndMoves ==
    \A c \in Conns :
        (Lost(c) \/ (proc[Home[c]] \in Dead /\ sub[c] \in {"none", "closed"} /\ c \notin clients))
            => sub'[c] \in {"none", "closed"} /\ c \notin clients'

HubMoves == RegisterMoves /\ StoreMoves /\ EndMoves

LEMMA StillMoves ==
    ASSUME UNCHANGED <<sub, subs, clients, regq, conn>>, \A c \in Conns : ~Lost(c)
    PROVE  HubMoves
  BY DEF HubMoves, RegisterMoves, StoreMoves, EndMoves, Stored, Local

LEMMA DieMoves ==
    ASSUME NEW i \in Instances, NEW how \in Dead, TypeOK, proc[i] \in Running, Die(i, how)
    PROVE  HubMoves
  <1>1. /\ \A r \in Conns : sub'[r] = IF Home[r] = i /\ sub[r] # "none" THEN "closed" ELSE sub[r]
        /\ \A c \in Conns : conn'[c] = "idle" <=> conn[c] = "idle"
        /\ clients' = clients \ {c \in Conns : Home[c] = i}
    BY DEF Die, Abandon, At
  <1>2. /\ \A j \in Instances \ {i} : regq'[j] = regq[j] /\ proc'[j] = proc[j]
        /\ regq'[i] = <<>> /\ proc'[i] = how
    BY DEF Die, TypeOK
  <1>3. \A j \in Instances, u \in Users :
            subs'[j][u] = IF j = i THEN NoConn ELSE subs[j][u]
    BY DEF Die, Abandon, TypeOK, BrokerTypeOK
  <1>4. \A c \in Conns : Home[c] \in Instances /\ Owner[c] \in Users /\ c # NoConn
    BY HomeAssumption, OwnerAssumption, NilAssumption
  <1>5. \A c \in Conns : Lost(c) <=> Home[c] = i
    BY <1>2, <1>4 DEF Lost
  <1>6. RegisterMoves
    <2>1. ToSet(<<>>) = {}
      BY DEF ToSet
    <2>2. QED
      BY <1>1, <1>2, <1>4, <2>1 DEF RegisterMoves
  <1>7. StoreMoves
    <2>1. \A c \in Conns : Stored(c)' = IF Home[c] = i THEN NoConn ELSE Stored(c)
      BY <1>3, <1>4 DEF Stored
    <2>2. QED
      BY <1>1, <1>4, <1>5, <2>1 DEF StoreMoves
  <1>8. EndMoves
    BY <1>1, <1>5 DEF EndMoves, TypeOK, BrokerTypeOK
  <1>9. QED
    BY <1>6, <1>7, <1>8 DEF HubMoves

LEMMA SubscribeMoves ==
    ASSUME NEW s \in Conns, TypeOK, HubInv, SubscribeStep(s)
    PROVE  HubMoves
  <1>1. UNCHANGED <<proc, conn, regq, clients>>
    BY DEF SubscribeStep, hubVars
  <1>2. \A c \in Conns : Home[c] \in Instances /\ Owner[c] \in Users /\ c # NoConn
    BY HomeAssumption, OwnerAssumption, NilAssumption
  <1>3. \A c \in Conns : ~Lost(c)
    BY <1>1 DEF Lost
  <1>4. sub[s] \in {"check", "dial", "dialled"} /\ Subscribe(s)
    BY DEF SubscribeStep, Subscribe, SubscribeCheck, SubscribeDial, SubscribeStore
  <1>5. CASE SubscribeCheck(s) \/ SubscribeDial(s)
    <2>1. subs' = subs /\ sub'[s] \in {"dial", "dialled", "skipped"}
          /\ \A r \in Conns \ {s} : sub'[r] = sub[r]
      BY <1>5 DEF SubscribeCheck, SubscribeDial, TypeOK, BrokerTypeOK
    <2>2. StoreMoves
      BY <1>4, <2>1 DEF StoreMoves, Stored
    <2>3. EndMoves
      BY <1>1, <1>3, <1>4, <2>1 DEF EndMoves
    <2>4. QED
      BY <1>1, <2>2, <2>3 DEF HubMoves, RegisterMoves
  <1>6. CASE SubscribeStore(s) /\ Stored(s) = NoConn
    <2>1. /\ subs' = [subs EXCEPT ![Home[s]][Owner[s]] = s]
          /\ sub' = [sub EXCEPT ![s] = "reading"]
      BY <1>6 DEF SubscribeStore
    <2>2. /\ sub'[s] = "reading" /\ \A r \in Conns \ {s} : sub'[r] = sub[r]
          /\ \A r \in Conns : Stored(r)' = IF Kin(r, s) THEN s ELSE Stored(r)
      BY <1>2, <2>1 DEF Stored, Kin, TypeOK, BrokerTypeOK
    <2>3. \A r \in Conns : Kin(r, s) => Stored(r) = NoConn
      BY <1>6 DEF Kin, Stored
    <2>4. StoreMoves
      BY <1>2, <1>4, <2>2, <2>3 DEF StoreMoves, Kin
    <2>5. EndMoves
      BY <1>1, <1>3, <1>4, <2>2 DEF EndMoves
    <2>6. QED
      BY <1>1, <2>4, <2>5 DEF HubMoves, RegisterMoves
  <1>7. CASE SubscribeStore(s) /\ Stored(s) # NoConn
    <2>1. /\ Stored(s) \in Conns /\ Stored(s) # s /\ Kin(Stored(s), s)
          /\ sub[Stored(s)] \in {"reading", "closed"}
      <3>1. Stored(s) \in Conns /\ Stored(s) = subs[Home[s]][Owner[s]]
        BY <1>2, <1>7 DEF Stored, TypeOK, BrokerTypeOK
      <3>2. /\ Home[Stored(s)] = Home[s] /\ Owner[Stored(s)] = Owner[s]
            /\ sub[Stored(s)] \in {"reading", "closed"}
        BY <1>2, <1>7, <3>1 DEF HubInv, SubsEntries
      <3>3. Stored(s) # s
        BY <1>4, <3>2
      <3>4. QED
        BY <3>1, <3>2, <3>3 DEF Kin
    <2>2. /\ subs' = subs
          /\ sub' = [sub EXCEPT ![s] = "leaked", ![Stored(s)] = "closed"]
      BY <1>7 DEF SubscribeStore
    <2>3. /\ sub'[s] = "leaked" /\ sub'[Stored(s)] = "closed"
          /\ \A r \in Conns \ {s, Stored(s)} : sub'[r] = sub[r]
      BY <2>1, <2>2 DEF TypeOK, BrokerTypeOK
    <2>4. \A r \in Conns : Stored(r)' = Stored(r)
      BY <2>2 DEF Stored
    <2>5. StoreMoves
      BY <1>4, <2>1, <2>3, <2>4 DEF StoreMoves
    <2>6. EndMoves
      BY <1>1, <1>3, <1>4, <2>1, <2>3 DEF EndMoves
    <2>7. QED
      BY <1>1, <2>5, <2>6 DEF HubMoves, RegisterMoves
  <1>8. QED
    BY <1>4, <1>5, <1>6, <1>7 DEF Subscribe

LEMMA ConnectMoves ==
    ASSUME NEW c \in Conns, TypeOK, HubInv, Connect(c) \/ Disconnect(c)
    PROVE  HubMoves
  <1>1. UNCHANGED <<sub, subs, clients, proc>>
    BY DEF Connect, Disconnect, brokerVars
  <1>2. \A d \in Conns : ~Lost(d)
    BY <1>1 DEF Lost
  <1>3. StoreMoves /\ EndMoves
    BY <1>1, <1>2 DEF StoreMoves, EndMoves, Stored
  <1>4. \A d \in Conns : conn[d] # "idle" => conn'[d] # "idle"
    BY DEF Connect, Disconnect, TypeOK
  <1>5. ASSUME NEW d \in Conns, conn[d] # "idle", d \notin ToSet(regq[Home[d]])
        PROVE  d \notin ToSet(regq'[Home[d]])
    <2>1. CASE Disconnect(c)
      BY <1>5, <2>1 DEF Disconnect
    <2>2. CASE Connect(c)
      <3>1. d # c /\ Home[d] \in Instances /\ regq' = [regq EXCEPT ![Home[c]] = Append(@, c)]
        BY <1>5, <2>2, HomeAssumption DEF Connect
      <3>2. CASE Home[d] = Home[c]
        <4>1. regq'[Home[d]] = Append(regq[Home[d]], c) /\ regq[Home[d]] \in Seq(Conns)
          BY <3>1, <3>2 DEF TypeOK
        <4>2. QED
          BY <1>5, <3>1, <4>1, AppendFacts DEF ToSet
      <3>3. CASE Home[d] # Home[c]
        BY <1>5, <3>1, <3>3 DEF TypeOK
      <3>4. QED
        BY <3>2, <3>3
    <2>3. QED
      BY <2>1, <2>2
  <1>6. RegisterMoves
    BY <1>1, <1>4, <1>5 DEF RegisterMoves
  <1>7. QED
    BY <1>3, <1>6 DEF HubMoves

LEMMA AddMoves ==
    ASSUME NEW i \in Instances, TypeOK, HubInv, AddClient(i)
    PROVE  HubMoves
  <1> DEFINE c == Head(regq[i])
  <1>1. regq[i] \in Seq(Conns) /\ regq[i] # <<>> /\ IsInjective(regq[i])
    BY DEF AddClient, TypeOK, HubInv, RegisterFresh
  <1>2. /\ c \in Conns /\ c \in ToSet(regq[i]) /\ Home[c] = i /\ sub[c] = "none" /\ conn[c] # "idle"
        /\ ToSet(Tail(regq[i])) \subseteq ToSet(regq[i]) \ {c}
    BY <1>1, TailElements DEF HubInv, RegisterFresh
  <1>3. /\ clients' = clients \cup {c}
        /\ regq' = [regq EXCEPT ![i] = Tail(@)]
        /\ UNCHANGED <<subs, proc, conn>>
        /\ proc[i] \in {"up", "stopping"}
        /\ sub' = sub \/ sub' = [sub EXCEPT ![c] = "check"]
    BY DEF AddClient, Selecting
  <1> HIDE DEF c
  <1>4. \A d \in Conns : Home[d] \in Instances /\ ~Lost(d)
    BY <1>3, HomeAssumption DEF Lost
  <1>5. regq'[i] = Tail(regq[i]) /\ \A j \in Instances \ {i} : regq'[j] = regq[j]
    BY <1>3 DEF TypeOK
  <1>6. RegisterMoves
    BY <1>2, <1>3, <1>4, <1>5 DEF RegisterMoves
  <1>7. sub'[c] \in {"none", "check"} /\ \A d \in Conns \ {c} : sub'[d] = sub[d]
    BY <1>2, <1>3 DEF TypeOK, BrokerTypeOK
  <1>8. StoreMoves
    BY <1>2, <1>3, <1>7 DEF StoreMoves, Stored
  <1>9. EndMoves
    BY <1>2, <1>3, <1>4, <1>7 DEF EndMoves
  <1>10. QED
    BY <1>6, <1>8, <1>9 DEF HubMoves

\* Clients leave.
LEMMA RemoveMoves ==
    ASSUME clients' \subseteq clients, UNCHANGED <<sub, subs, conn, regq>>,
           \A c \in Conns : ~Lost(c)
    PROVE  HubMoves
  BY DEF HubMoves, RegisterMoves, StoreMoves, EndMoves, Stored

LEMMA DetachMoves ==
    ASSUME NEW i \in Instances, TypeOK, HubInv, UnsubscribeDetach(i)
    PROVE  HubMoves
  <1> DEFINE u == Owner[hubConn[i]]
  <1>1. hubConn[i] \in Conns /\ u \in Users /\ Local(i, u) = {}
    BY OwnerAssumption DEF UnsubscribeDetach, HubInv, RemovingLast
  <1>2. /\ subs' = [subs EXCEPT ![i][u] = NoConn]
        /\ UNCHANGED <<sub, conn, regq, clients, proc>>
    BY DEF UnsubscribeDetach, Detach
  <1> HIDE DEF u
  <1>3. \A s \in Conns : Home[s] \in Instances /\ Owner[s] \in Users /\ s # NoConn /\ ~Lost(s)
    BY <1>2, HomeAssumption, OwnerAssumption, NilAssumption DEF Lost
  <1>4. \A s \in Conns : Stored(s)' = IF Home[s] = i /\ Owner[s] = u THEN NoConn ELSE Stored(s)
    BY <1>1, <1>2, <1>3 DEF Stored, TypeOK, BrokerTypeOK
  <1>5. \A s \in Conns : Home[s] = i /\ Owner[s] = u => Local(Home[s], Owner[s])' = {}
    BY <1>1, <1>2 DEF Local
  <1>6. StoreMoves
    <2>1. \A s \in Conns : Stored(s)' # Stored(s) => Home[s] = i /\ Owner[s] = u
      BY <1>4
    <2>2. \A s \in Conns : Stored(s)' = s => Stored(s) = s
      BY <1>3, <1>4
    <2>3. QED
      BY <1>2, <1>3, <1>5, <2>1, <2>2 DEF StoreMoves
  <1>7. RegisterMoves /\ EndMoves
    BY <1>2, <1>3 DEF RegisterMoves, EndMoves
  <1>8. QED
    BY <1>6, <1>7 DEF HubMoves

LEMMA CloseMoves ==
    ASSUME NEW i \in Instances, TypeOK, HubInv, UnsubscribeClose(i)
    PROVE  HubMoves
  <1>1. hubSub[i] \in Conns /\ sub[hubSub[i]] \in {"reading", "closed"}
    BY DEF UnsubscribeClose, HubInv, ClosingSub
  <1>2. /\ sub' = [sub EXCEPT ![hubSub[i]] = "closed"]
        /\ UNCHANGED <<subs, conn, regq, clients, proc>>
    BY DEF UnsubscribeClose, Close
  <1>3. \A s \in Conns : ~Lost(s) /\ sub'[s] = IF s = hubSub[i] THEN "closed" ELSE sub[s]
    BY <1>2 DEF Lost, TypeOK, BrokerTypeOK
  <1>4. StoreMoves
    BY <1>1, <1>2, <1>3 DEF StoreMoves, Stored
  <1>5. RegisterMoves /\ EndMoves
    BY <1>2, <1>3 DEF RegisterMoves, EndMoves
  <1>6. QED
    BY <1>4, <1>5 DEF HubMoves

LEMMA NextMoves ==
    ASSUME TypeOK, HubInv, [Next]_vars
    PROVE  HubMoves
  <1>1. ASSUME NEW i \in Instances, RunStep(i)
        PROVE  HubMoves
    <2>1. CASE SetOnline(i) \/ SetOffline(i)
      <3>1. UNCHANGED <<sub, subs, clients, regq, conn, proc>>
        BY <2>1 DEF SetOnline, SetOffline
      <3>2. QED
        BY <3>1, StillMoves DEF Lost
    <2>2. CASE RemoveClient(i)
      <3>1. UNCHANGED <<sub, subs, regq, conn, proc>> /\ clients' \subseteq clients
        BY <2>2 DEF RemoveClient, brokerVars
      <3>2. QED
        BY <3>1, RemoveMoves DEF Lost
    <2>3. CASE CloseAll(i) /\ Die(i, "panicked")
      BY <2>3, DieMoves DEF CloseAll
    <2>4. CASE CloseAll(i) /\ ~Die(i, "panicked")
      <3>1. /\ clients' = clients \ (clients \cap At(i))
            /\ proc' = [proc EXCEPT ![i] = "stopped"]
            /\ UNCHANGED <<sub, subs, conn, regq>>
        BY <2>4, Zenon DEF CloseAll, brokerVars
      <3>2. \A c \in Conns : ~Lost(c)
        BY <3>1, HomeAssumption DEF Lost, TypeOK
      <3>3. QED
        BY <3>1, <3>2, RemoveMoves
    <2>5. QED
      BY <1>1, <2>1, <2>2, <2>3, <2>4, AddMoves, DetachMoves, CloseMoves DEF RunStep
  <1>2. ASSUME NEW i \in Instances, BeatStep(i)
        PROVE  HubMoves
    <2>1. UNCHANGED <<sub, subs, clients, regq, conn, proc>>
      BY <1>2 DEF BeatStep, BeatStart, BeatUser, BeatEnd, brokerVars
    <2>2. QED
      BY <2>1, StillMoves DEF Lost
  <1>3. ASSUME NEW i \in Instances, Stop(i) \/ Restart(i)
        PROVE  HubMoves
    <2>1. /\ UNCHANGED <<sub, subs, clients, regq, conn>>
          /\ proc' = [proc EXCEPT ![i] = "stopping"] \/ proc' = [proc EXCEPT ![i] = "up"]
      BY <1>3 DEF Stop, Restart, brokerVars
    <2>2. \A c \in Conns : ~Lost(c)
      <3>1. ASSUME NEW c \in Conns, proc'[Home[c]] \in Dead
            PROVE  proc[Home[c]] \in Dead
        <4>1. Home[c] \in Instances /\ proc \in [Instances -> Running \cup Dead]
          BY HomeAssumption DEF TypeOK
        <4>2. Home[c] # i => proc'[Home[c]] = proc[Home[c]]
          BY <2>1, <4>1
        <4>3. proc'[i] \in {"stopping", "up"}
          BY <2>1, <4>1
        <4>4. QED
          BY <3>1, <4>2, <4>3
      <3>2. QED
        BY <3>1 DEF Lost
    <2>3. QED
      BY <2>1, <2>2, StillMoves
  <1>4. ASSUME NEW i \in Instances, Halt(i)
        PROVE  HubMoves
    BY <1>4, DieMoves DEF Halt
  <1>5. CASE Tick \/ UNCHANGED vars
    <2>1. UNCHANGED <<sub, subs, clients, regq, conn, proc>>
      BY <1>5 DEF Tick, vars, brokerVars, hubVars
    <2>2. QED
      BY <2>1, StillMoves DEF Lost
  <1>6. QED
    BY <1>1, <1>2, <1>3, <1>4, <1>5, SubscribeMoves, ConnectMoves, MortalAssumption DEF Next

----------------------------------------------------------------------------
(* Delivery: steps that take things away.                                  *)

LEMMA ThinnedHas ==
    ASSUME NEW a, NEW b, Thinned(a, b)
    PROVE  \A k \in DOMAIN a : \E j \in DOMAIN b : a[k] = b[j]
  BY DEF Thinned

LEMMA ConnsPlaced ==
    \A c \in Conns : Home[c] \in Instances /\ Owner[c] \in Users /\ c # NoConn
  BY HomeAssumption, OwnerAssumption, NilAssumption

LEMMA KinStored == \A s, c \in Conns : Kin(s, c) => Stored(s) = Stored(c)
  BY DEF Kin, Stored

LEMMA ReachedType ==
    ASSUME DeliveryTypeOK, NEW c \in Conns
    PROVE  Reached(c) \in Seq(Msgs) /\ got[c] \in Seq(Msgs) /\ send[c] \in Seq(Msgs)
  <1>1. got[c] \in Seq(Msgs) /\ send[c] \in Seq(Msgs)
    BY DEF DeliveryTypeOK
  <1>2. QED
    BY <1>1, ConcatFacts DEF Reached

\* Nothing is handed on; something may be lost or be done with.
Shrinks ==
    /\ audience' = audience
    /\ \A c \in Conns :
          /\ Thinned(Reached(c)', Reached(c))
          /\ inbox'[c] \in {inbox[c], <<>>}
          /\ inHand'[c] \in {inHand[c], 0}
          /\ todo'[c] \subseteq todo[c]
          /\ inHand'[c] = 0 => todo'[c] = {}
          /\ Lost(c) => inbox'[c] = <<>> /\ inHand'[c] = 0

LEMMA ForgetShrinks ==
    ASSUME DeliveryTypeOK, DeliveryInv, Forget
    PROVE  Shrinks
  <1>1. ASSUME NEW c \in Conns
        PROVE  /\ inbox'[c] = IF Lost(c) THEN <<>> ELSE inbox[c]
               /\ inHand'[c] = IF Lost(c) THEN 0 ELSE inHand[c]
               /\ todo'[c] = IF Lost(c) THEN {} ELSE todo[c]
               /\ send'[c] = IF Lost(c) THEN <<>> ELSE send[c]
    BY DEF Forget, Lost
  <1>2. audience' = audience /\ got' = got
    BY DEF Forget
  <1>3. ASSUME NEW c \in Conns
        PROVE  Thinned(Reached(c)', Reached(c))
    <2>1. Reached(c)' = got[c] \o send'[c]
      BY <1>2 DEF Reached
    <2>2. CASE Lost(c)
      BY <1>1, <2>1, <2>2, ReachedType, ThinnedPrefix DEF Reached
    <2>3. CASE ~Lost(c)
      BY <1>1, <2>1, <2>3, ReachedType, ThinnedSame DEF Reached
    <2>4. QED
      BY <2>2, <2>3
  <1>4. \A c \in Conns : inHand[c] = 0 => todo[c] = {}
    BY DEF DeliveryInv, ReadersHold
  <1>5. QED
    BY <1>1, <1>2, <1>3, <1>4 DEF Shrinks

LEMMA ShrinkKeeps ==
    ASSUME TypeOK, TypeOK', HubInv, DeliveryInv, HubMoves, ClosingOwn', Shrinks
    PROVE  DeliveryInv'
  <1> USE ConnsPlaced
  <1>1. /\ audience' = audience /\ Published' = Published
        /\ \A c \in Conns : \A k \in DOMAIN Reached(c)' :
              \E j \in DOMAIN Reached(c) : Reached(c)'[k] = Reached(c)[j]
        /\ \A c \in Conns : \A k \in DOMAIN inbox'[c] :
              k \in DOMAIN inbox[c] /\ inbox'[c] = inbox[c]
    BY ThinnedHas DEF Shrinks, Published
  <1>2. /\ Numbered /\ Rising /\ ReadersHold /\ DeadForget /\ KnownOnce
        /\ Outdated /\ OneReader /\ InTurn /\ NoneYet /\ InOrder
    BY DEF DeliveryInv
  <1>3. \A c \in Conns : inHand'[c] \in {inHand[c], 0} /\ (inHand'[c] = 0 => todo'[c] = {})
                         /\ todo'[c] \subseteq todo[c]
    BY DEF Shrinks
  <1>4. \A c \in Conns : c \in clients' \ clients => ~Known(c)
    BY <1>2 DEF HubMoves, RegisterMoves, KnownOnce
  <1>5. ASSUME NEW s \in Conns, NEW c \in Conns, Handing(s, c)'
        PROVE  Handing(s, c) /\ inHand'[s] = inHand[s] /\ inHand[s] \in Published /\ ~Lost(s)
    <2>1. c \in todo'[s] /\ c \in audience[inHand'[s]]
      BY <1>1, <1>5 DEF Handing
    <2>2. inHand'[s] = inHand[s] /\ inHand[s] # 0 /\ c \in todo[s]
      BY <1>3, <2>1
    <2>3. QED
      BY <1>2, <2>1, <2>2 DEF Handing, Numbered, Shrinks
  <1>6. \A s, c \in Conns : Lost(s) /\ Kin(s, c) => c \notin clients'
    BY DEF HubMoves, EndMoves, Lost, Kin
  <1>7. ASSUME NEW s \in Conns, NEW c \in Conns, Kin(s, c), c \in clients', Stored(s) = s
        PROVE  Stored(s)' = s
    BY <1>6, <1>7 DEF HubMoves, StoreMoves, Local, Kin
  <1>8. Numbered'
    BY <1>1, <1>2, <1>3 DEF Numbered
  <1>9. Rising'
    <2>1. ASSUME NEW s \in Conns, NEW k \in DOMAIN inbox'[s]
          PROVE  inHand'[s] < inbox'[s][k]
      <3>1. inbox'[s][k] \in Published /\ inHand[s] < inbox'[s][k]
        BY <1>1, <1>2 DEF Numbered, Rising
      <3>2. QED
        BY <1>3, <3>1 DEF Published
    <2>2. QED
      BY <1>1, <1>2, <2>1 DEF Rising
  <1>10. ReadersHold'
    BY <1>2, <1>3 DEF ReadersHold, HubMoves, StoreMoves, Kin
  <1>11. DeadForget'
    <2>1. ASSUME NEW c \in Conns, proc'[Home[c]] \in Dead
          PROVE  /\ inbox'[c] = <<>> /\ inHand'[c] = 0
                 /\ sub'[c] \in {"none", "closed"} /\ c \notin clients'
      <3>1. CASE Lost(c)
        BY <3>1 DEF HubMoves, EndMoves, Shrinks
      <3>2. CASE ~Lost(c)
        <4>1. proc[Home[c]] \in Dead
          BY <2>1, <3>2 DEF Lost, TypeOK
        <4>2. /\ inbox[c] = <<>> /\ inHand[c] = 0
              /\ sub[c] \in {"none", "closed"} /\ c \notin clients
          BY <1>2, <4>1 DEF DeadForget
        <4>3. inbox'[c] = <<>> /\ inHand'[c] = 0
          BY <4>2 DEF Shrinks
        <4>4. QED
          BY <4>1, <4>2, <4>3 DEF HubMoves, EndMoves
      <3>3. QED
        BY <3>1, <3>2
    <2>2. QED
      BY <2>1 DEF DeadForget
  <1>12. KnownOnce'
    <2>1. ASSUME NEW c \in Conns, Known(c)'
          PROVE  conn'[c] # "idle" /\ c \notin ToSet(regq'[Home[c]])
      <3>1. CASE c \in clients' \ clients
        BY <3>1 DEF HubMoves, RegisterMoves
      <3>2. CASE c \notin clients' \ clients
        <4>1. Known(c)
          BY <1>1, <2>1, <3>2 DEF Known
        <4>2. QED
          BY <1>2, <4>1 DEF KnownOnce, HubMoves, RegisterMoves
      <3>3. QED
        BY <3>1, <3>2
    <2>2. QED
      BY <2>1 DEF KnownOnce
  <1>13. Outdated'
    <2>1. ASSUME NEW s \in Conns, NEW c \in Conns, sub'[s] \in {"reading", "closed"},
                 Stored(s)' # s, Kin(s, c), c \in clients', NEW k \in DOMAIN inbox'[s]
          PROVE  c \notin audience[inbox'[s][k]]
      <3>1. inbox'[s] = inbox[s] /\ k \in DOMAIN inbox[s] /\ inbox[s][k] \in Published
        BY <1>1, <1>2 DEF Numbered
      <3>2. CASE c \in clients
        <4>1. Stored(s) # s
          BY <1>7, <2>1
        <4>2. sub[s] \in {"reading", "closed"}
          BY <1>6, <2>1 DEF HubMoves, StoreMoves
        <4>3. QED
          BY <1>2, <2>1, <3>1, <3>2, <4>1, <4>2 DEF Outdated
      <3>3. CASE c \notin clients
        BY <1>4, <2>1, <3>1, <3>3 DEF Known
      <3>4. QED
        BY <3>2, <3>3
    <2>2. QED
      BY <1>1, <2>1 DEF Outdated, Kin
  <1>14. OneReader'
    <2>1. ASSUME NEW s \in Conns, NEW c \in Conns, Handing(s, c)', c \in clients'
          PROVE  Stored(s)' = s
      <3>1. Handing(s, c) /\ inHand[s] \in Published
        BY <1>5, <2>1
      <3>2. c \in clients /\ Kin(s, c)
        BY <1>2, <1>4, <2>1, <3>1 DEF Known, Handing, ReadersHold
      <3>3. QED
        BY <1>2, <1>7, <2>1, <3>1, <3>2 DEF OneReader
    <2>2. \A s, c, r \in Conns : Handing(s, c)' /\ Handing(r, c)' => r = s
      BY <1>2, <1>5 DEF OneReader
    <2>3. QED
      BY <2>1, <2>2 DEF OneReader
  <1>15. InTurn'
    <2>1. ASSUME NEW s \in Conns, NEW c \in Conns, NEW k \in DOMAIN Reached(c)',
                 c \in audience[Reached(c)'[k]]
          PROVE  /\ Handing(s, c)' => Reached(c)'[k] < inHand'[s]
                 /\ (c \in clients' /\ Kin(s, c) /\ Stored(s)' = s)
                       => \A j \in DOMAIN inbox'[s] : Reached(c)'[k] < inbox'[s][j]
      <3>1. PICK n \in DOMAIN Reached(c) : Reached(c)'[k] = Reached(c)[n]
        BY <1>1
      <3>2. Handing(s, c)' => Reached(c)'[k] < inHand'[s]
        BY <1>2, <1>5, <2>1, <3>1 DEF InTurn
      <3>3. ASSUME c \in clients', Kin(s, c), Stored(s)' = s
            PROVE  Stored(s) = s /\ c \in clients
        <4>1. Reached(c)[n] \in Published
          BY <1>2 DEF Numbered
        <4>2. c \in clients
          BY <1>4, <2>1, <3>1, <3>3, <4>1 DEF Known
        <4>3. Stored(c) # NoConn
          BY <1>2, <2>1, <3>1, <4>2 DEF NoneYet
        <4>4. QED
          BY <3>3, <4>2, <4>3, KinStored DEF HubMoves, StoreMoves
      <3>4. QED
        BY <1>1, <1>2, <2>1, <3>1, <3>2, <3>3 DEF InTurn
    <2>2. QED
      BY <1>1, <2>1 DEF InTurn, Kin
  <1>16. NoneYet'
    <2>1. ASSUME NEW c \in Conns, c \in clients', Stored(c)' = NoConn, NEW k \in DOMAIN Reached(c)'
          PROVE  c \notin audience[Reached(c)'[k]]
      <3>1. PICK n \in DOMAIN Reached(c) : Reached(c)'[k] = Reached(c)[n] /\ Reached(c)[n] \in Published
        BY <1>1, <1>2 DEF Numbered
      <3>2. CASE c \notin clients
        BY <1>4, <2>1, <3>1, <3>2 DEF Known
      <3>3. CASE c \in clients /\ Stored(c) = NoConn
        BY <1>2, <3>1, <3>3 DEF NoneYet
      <3>4. CASE Stored(c) # NoConn
        <4>1. Stored(c) \in Conns /\ Kin(Stored(c), c)
          BY <3>4 DEF HubInv, SubsEntries, Stored, TypeOK, BrokerTypeOK, Kin
        <4>2. PICK r \in Conns : r = Stored(c) /\ Kin(r, c)
          BY <4>1
        <4>3. Stored(r) = r
          BY <4>2, KinStored
        <4>4. Stored(r)' = r
          BY <1>7, <2>1, <4>2, <4>3
        <4>5. Stored(r)' = Stored(c)'
          BY <4>2 DEF Stored, Kin
        <4>6. QED
          BY <2>1, <4>4, <4>5
      <3>5. QED
        BY <3>2, <3>3, <3>4
    <2>2. QED
      BY <1>1, <2>1 DEF NoneYet
  <1>17. InOrder'
    <2>1. ASSUME NEW c \in Conns, NEW j \in DOMAIN Reached(c)', NEW k \in DOMAIN Reached(c)', j < k,
                 c \in audience[Reached(c)'[j]], c \in audience[Reached(c)'[k]]
          PROVE  Reached(c)'[j] < Reached(c)'[k]
      <3>1. Thinned(Reached(c)', Reached(c))
        BY DEF Shrinks
      <3>2. PICK f \in [DOMAIN Reached(c)' -> DOMAIN Reached(c)] :
                \A n \in DOMAIN Reached(c)' :
                    /\ Reached(c)'[n] = Reached(c)[f[n]]
                    /\ \A i \in DOMAIN Reached(c)' : i < n => f[i] < f[n]
        BY <3>1 DEF Thinned
      <3>3. f[j] \in DOMAIN Reached(c) /\ f[k] \in DOMAIN Reached(c) /\ f[j] < f[k]
        BY <2>1, <3>2
      <3>4. QED
        BY <1>2, <2>1, <3>2, <3>3 DEF InOrder
    <2>2. QED
      BY <1>1, <2>1 DEF InOrder
  <1>18. QED
    BY <1>8, <1>9, <1>10, <1>11, <1>12, <1>13, <1>14, <1>15, <1>16, <1>17 DEF DeliveryInv

----------------------------------------------------------------------------
(* Delivery: steps that hand a payload on.                                 *)

LEMMA PublishKeeps ==
    ASSUME TypeOK, HubInv, DeliveryTypeOK, DeliveryInv, NEW u \in Users, Publish(u)
    PROVE  DeliveryTypeOK' /\ DeliveryInv'
  <1> USE ConnsPlaced
  <1> DEFINE n == Len(audience) + 1
             A == {c \in clients : Owner[c] = u}
  <1>1. /\ Len(audience) < MaxMsg /\ audience' = Append(audience, A)
        /\ inbox' = [s \in Conns |-> IF s \in Subscribed(u) THEN Append(inbox[s], n) ELSE inbox[s]]
        /\ UNCHANGED <<vars, inHand, todo, send, pump, got>>
    BY DEF Publish
  <1>2. UNCHANGED <<sub, subs, proc, conn, regq, clients, hubPc, hubConn, hubSub>>
    BY <1>1 DEF vars, brokerVars, hubVars
  <1>3. audience \in Seq(SUBSET Conns) /\ A \in SUBSET Conns /\ A \subseteq clients
    BY DEF DeliveryTypeOK, TypeOK
  <1> HIDE DEF A
  <1>4. /\ audience' \in Seq(SUBSET Conns) /\ Len(audience') = n /\ n \in Nat \ {0}
        /\ Published' = Published \cup {n} /\ audience'[n] = A
        /\ \A m \in Published : audience'[m] = audience[m] /\ m < n /\ m \in Nat \ {0}
    <2>1. /\ audience' \in Seq(SUBSET Conns) /\ Len(audience') = n /\ Len(audience) \in Nat
          /\ audience'[n] = A
          /\ DOMAIN audience = Published
          /\ \A m \in DOMAIN audience : audience'[m] = audience[m]
      BY <1>1, <1>3, AppendFacts DEF Published
    <2>2. QED
      BY <2>1 DEF Published
  <1>5. n \in Msgs
    BY <1>1, <1>4, MaxMsgAssumption DEF Msgs, DeliveryTypeOK
  <1> HIDE DEF n
  <1>6. /\ Numbered /\ Rising /\ ReadersHold /\ DeadForget /\ KnownOnce /\ ClosingOwn
        /\ Outdated /\ OneReader /\ InTurn /\ NoneYet /\ InOrder
    BY DEF DeliveryInv
  <1>7. \A s \in Conns : inbox[s] \in Seq(Msgs) /\ inHand[s] \in Nat
    BY DEF DeliveryTypeOK, Msgs
  <1>8. \A c \in Conns : Reached(c)' = Reached(c)
    BY <1>1 DEF Reached
  <1>9. \A s \in Conns : \A k \in DOMAIN inbox'[s] :
            \/ k \in DOMAIN inbox[s] /\ inbox'[s][k] = inbox[s][k]
            \/ /\ s \in Subscribed(u) /\ inbox'[s][k] = n
               /\ \A j \in DOMAIN inbox'[s] : j < k =>
                     j \in DOMAIN inbox[s] /\ inbox'[s][j] = inbox[s][j]
    <2>1. ASSUME NEW s \in Conns, s \in Subscribed(u)
          PROVE  /\ Len(inbox[s]) \in Nat /\ DOMAIN inbox[s] = 1 .. Len(inbox[s])
                 /\ DOMAIN inbox'[s] = DOMAIN inbox[s] \cup {Len(inbox[s]) + 1}
                 /\ inbox'[s][Len(inbox[s]) + 1] = n
                 /\ \A k \in DOMAIN inbox[s] : inbox'[s][k] = inbox[s][k]
      <3>1. inbox'[s] = Append(inbox[s], n)
        BY <1>1, <2>1
      <3>2. QED
        BY <1>5, <1>7, <3>1, AppendFacts
    <2>2. \A s \in Conns : s \notin Subscribed(u) => inbox'[s] = inbox[s]
      BY <1>1
    <2>3. QED
      BY <2>1, <2>2
  <1>10. \A s \in Conns : \A k \in DOMAIN inbox[s] :
            inbox[s][k] \in Published /\ inbox[s][k] < n /\ inbox[s][k] \in Nat
    BY <1>4, <1>6 DEF Numbered
  <1>11. \A c \in Conns : \A k \in DOMAIN Reached(c) :
            Reached(c)[k] \in Published /\ Reached(c)[k] < n
            /\ audience'[Reached(c)[k]] = audience[Reached(c)[k]]
    BY <1>4, <1>6 DEF Numbered
  <1>12. \A s, c \in Conns : Handing(s, c)' <=> Handing(s, c)
    BY <1>1, <1>4, <1>6 DEF Handing, ReadersHold, Numbered
  <1>13. DeliveryTypeOK'
    <2>1. inbox' \in [Conns -> Seq(Msgs)]
      <3>1. \A s \in Conns : inbox'[s] \in Seq(Msgs)
        BY <1>1, <1>5, <1>7, AppendFacts
      <3>2. QED
        BY <1>1, <3>1
    <2>2. TypeOK'
      BY <1>1 DEF vars, brokerVars, hubVars, DeliveryTypeOK, TypeOK, BrokerTypeOK
    <2>3. Len(audience') <= MaxMsg
      BY <1>1, <1>4, <1>5 DEF Msgs
    <2>4. QED
      BY <1>1, <1>4, <2>1, <2>2, <2>3 DEF DeliveryTypeOK
  <1>14. Numbered'
    BY <1>1, <1>4, <1>6, <1>8, <1>9 DEF Numbered
  <1>15. Rising'
    <2>1. ASSUME NEW s \in Conns, NEW j \in DOMAIN inbox'[s], NEW k \in DOMAIN inbox'[s], j < k
          PROVE  inbox'[s][j] < inbox'[s][k]
      <3>1. CASE k \in DOMAIN inbox[s] /\ inbox'[s][k] = inbox[s][k]
        <4>1. j \in DOMAIN inbox[s] /\ inbox'[s][j] = inbox[s][j]
          <5>1. s \in Subscribed(u) => j \in DOMAIN inbox[s] /\ inbox'[s][j] = inbox[s][j]
            BY <1>1, <1>5, <1>7, <2>1, <3>1, AppendFacts
          <5>2. QED
            BY <1>1, <5>1
        <4>2. QED
          BY <1>6, <2>1, <3>1, <4>1 DEF Rising
      <3>2. CASE inbox'[s][k] = n /\ j \in DOMAIN inbox[s] /\ inbox'[s][j] = inbox[s][j]
        BY <1>10, <3>2
      <3>3. QED
        BY <1>9, <2>1, <3>1, <3>2
    <2>2. ASSUME NEW s \in Conns, NEW k \in DOMAIN inbox'[s]
          PROVE  inHand[s] < inbox'[s][k]
      <3>1. inHand[s] < n
        BY <1>4, <1>6, <1>7 DEF Numbered
      <3>2. QED
        BY <1>6, <1>9, <3>1 DEF Rising
    <2>3. QED
      BY <1>1, <2>1, <2>2 DEF Rising
  <1>16. ReadersHold'
    BY <1>1, <1>2, <1>6 DEF ReadersHold, Kin
  <1>17. DeadForget'
    BY <1>1, <1>2, <1>6 DEF DeadForget, Subscribed
  <1>18. KnownOnce'
    BY <1>2, <1>3, <1>4, <1>6 DEF KnownOnce, Known
  <1>19. ClosingOwn'
    BY <1>2, <1>6 DEF ClosingOwn
  <1>20. Outdated'
    <2>1. ASSUME NEW s \in Conns, NEW c \in Conns, sub[s] \in {"reading", "closed"},
                 Stored(s) # s, Kin(s, c), c \in clients, NEW k \in DOMAIN inbox'[s]
          PROVE  c \notin audience'[inbox'[s][k]]
      <3>1. CASE k \in DOMAIN inbox[s] /\ inbox'[s][k] = inbox[s][k]
        BY <1>4, <1>6, <1>10, <2>1, <3>1 DEF Outdated
      <3>2. CASE s \in Subscribed(u)
        <4>1. sub[s] = "reading"
          BY <2>1, <3>2 DEF Subscribed
        <4>2. s = hubSub[Home[s]]
          BY <2>1, <4>1 DEF HubInv, ReaderStored
        <4>3. hubPc[Home[s]] = "closeSub"
          BY <4>2 DEF HubInv, ClosingSub
        <4>4. Owner[hubConn[Home[s]]] = Owner[s]
          BY <1>6, <4>2, <4>3 DEF ClosingOwn
        <4>5. Local(Home[s], Owner[s]) = {}
          BY <4>3, <4>4 DEF HubInv, RemovingLast
        <4>6. QED
          BY <2>1, <4>5 DEF Local, Kin
      <3>3. QED
        BY <1>9, <3>1, <3>2
    <2>2. QED
      BY <1>2, <2>1 DEF Outdated, Stored, Kin
  <1>21. OneReader'
    BY <1>2, <1>6, <1>12 DEF OneReader, Stored
  <1>22. InTurn'
    <2>1. ASSUME NEW s \in Conns, NEW c \in Conns, NEW k \in DOMAIN Reached(c),
                 c \in audience[Reached(c)[k]], c \in clients, Kin(s, c), Stored(s) = s,
                 NEW j \in DOMAIN inbox'[s]
          PROVE  Reached(c)[k] < inbox'[s][j]
      BY <1>6, <1>9, <1>11, <2>1 DEF InTurn
    <2>2. ASSUME NEW s \in Conns, NEW c \in Conns, NEW k \in DOMAIN Reached(c),
                 c \in audience[Reached(c)[k]], Handing(s, c)'
          PROVE  Reached(c)[k] < inHand[s]
      BY <1>6, <1>12, <2>2 DEF InTurn
    <2>3. ASSUME NEW s \in Conns, NEW c \in Conns, NEW k \in DOMAIN Reached(c)',
                 c \in audience'[Reached(c)'[k]]
          PROVE  /\ Handing(s, c)' => Reached(c)'[k] < inHand'[s]
                 /\ (c \in clients' /\ Kin(s, c) /\ Stored(s)' = s)
                       => \A j \in DOMAIN inbox'[s] : Reached(c)'[k] < inbox'[s][j]
      <3>1. k \in DOMAIN Reached(c) /\ Reached(c)'[k] = Reached(c)[k] /\ c \in audience[Reached(c)[k]]
        BY <1>8, <1>11, <2>3
      <3>2. inHand' = inHand /\ Stored(s)' = Stored(s) /\ clients' = clients
        BY <1>1, <1>2 DEF Stored
      <3>3. QED
        BY <2>1, <2>2, <3>1, <3>2
    <2>4. QED
      BY <2>3 DEF InTurn, Kin
  <1>23. NoneYet' /\ InOrder'
    BY <1>2, <1>6, <1>8, <1>11 DEF NoneYet, InOrder, Stored
  <1>24. QED
    BY <1>13, <1>14, <1>15, <1>16, <1>17, <1>18, <1>19, <1>20, <1>21, <1>22, <1>23 DEF DeliveryInv

\* A reader that takes a payload for a registered client is the stored one.
LEMMA TakeKeeps ==
    ASSUME TypeOK, DeliveryTypeOK, DeliveryInv, NEW s \in Conns, ReaderTake(s)
    PROVE  DeliveryTypeOK' /\ DeliveryInv'
  <1> USE ConnsPlaced
  <1> DEFINE q == inbox[s]
  <1>1. /\ sub[s] \in {"reading", "closed"} /\ inHand[s] = 0 /\ q # <<>>
        /\ inHand' = [inHand EXCEPT ![s] = Head(q)]
        /\ inbox' = [inbox EXCEPT ![s] = Tail(q)]
        /\ todo' = [todo EXCEPT ![s] = Local(Home[s], Owner[s])]
        /\ UNCHANGED <<vars, audience, send, pump, got>>
    BY DEF ReaderTake
  <1>2. /\ inbox \in [Conns -> Seq(Msgs)] /\ inHand \in [Conns -> Msgs \cup {0}]
        /\ todo \in [Conns -> SUBSET Conns] /\ q \in Seq(Msgs) /\ q = inbox[s]
    BY DEF DeliveryTypeOK
  <1>3. /\ Head(q) \in Msgs /\ Tail(q) \in Seq(Msgs)
        /\ 1 \in DOMAIN q /\ Head(q) = q[1]
        /\ \A k \in DOMAIN Tail(q) :
              k \in Nat /\ k + 1 \in DOMAIN q /\ 1 < k + 1 /\ Tail(q)[k] = q[k + 1]
    BY <1>1, <1>2, TailFacts
  <1> HIDE DEF q
  <1>4. /\ inHand'[s] = Head(q) /\ inbox'[s] = Tail(q) /\ todo'[s] = Local(Home[s], Owner[s])
        /\ \A r \in Conns \ {s} :
              inHand'[r] = inHand[r] /\ inbox'[r] = inbox[r] /\ todo'[r] = todo[r]
    BY <1>1, <1>2
  <1>5. /\ UNCHANGED <<sub, subs, proc, conn, regq, clients, hubPc, hubConn, hubSub, audience>>
        /\ \A c \in Conns : Reached(c)' = Reached(c)
    BY <1>1 DEF vars, brokerVars, hubVars, Reached
  <1>6. /\ Numbered /\ Rising /\ ReadersHold /\ DeadForget /\ KnownOnce /\ ClosingOwn
        /\ Outdated /\ OneReader /\ InTurn /\ NoneYet /\ InOrder
    BY DEF DeliveryInv
  <1>7. Head(q) \in Published /\ Head(q) # 0
    BY <1>2, <1>3, <1>6 DEF Numbered, Msgs
  <1>8. \A r \in Conns : \A k \in DOMAIN inbox'[r] : \E j \in DOMAIN inbox[r] : inbox'[r][k] = inbox[r][j]
    <2>1. \A k \in DOMAIN inbox'[s] : k + 1 \in DOMAIN inbox[s] /\ inbox'[s][k] = inbox[s][k + 1]
      BY <1>2, <1>3, <1>4
    <2>2. \A r \in Conns \ {s} : inbox'[r] = inbox[r]
      BY <1>4
    <2>3. QED
      BY <2>1, <2>2
  <1>9. \A c \in Local(Home[s], Owner[s]) : c \in Conns /\ Kin(s, c) /\ c \in clients
    BY DEF Local, Kin, TypeOK
  <1>10. \A c \in Conns : Handing(s, c)' => /\ Kin(s, c) /\ c \in clients /\ Stored(s) = s
                                            /\ c \in audience[q[1]]
    <2>1. ASSUME NEW c \in Conns, Handing(s, c)'
          PROVE  Kin(s, c) /\ c \in clients /\ Stored(s) = s /\ c \in audience[q[1]]
      <3>1. Kin(s, c) /\ c \in clients /\ c \in audience[q[1]]
        BY <1>3, <1>4, <1>5, <1>9, <2>1 DEF Handing
      <3>2. QED
        BY <1>1, <1>2, <1>3, <1>6, <3>1 DEF Outdated
    <2>2. QED
      BY <2>1
  <1>11. \A r \in Conns \ {s}, c \in Conns : Handing(r, c)' <=> Handing(r, c)
    BY <1>4, <1>5 DEF Handing
  <1>12. DeliveryTypeOK'
    <2>1. /\ inbox' \in [Conns -> Seq(Msgs)] /\ inHand' \in [Conns -> Msgs \cup {0}]
          /\ todo' \in [Conns -> SUBSET Conns]
      BY <1>1, <1>2, <1>3, <1>9
    <2>2. TypeOK'
      BY <1>1 DEF vars, brokerVars, hubVars, TypeOK, BrokerTypeOK
    <2>3. QED
      BY <1>1, <2>1, <2>2 DEF DeliveryTypeOK
  <1>13. Numbered'
    BY <1>4, <1>5, <1>6, <1>7, <1>8 DEF Numbered, Published
  <1>14. Rising'
    <2>1. \A j, k \in DOMAIN Tail(q) : j < k => Tail(q)[j] < Tail(q)[k]
      BY <1>2, <1>3, <1>6 DEF Rising
    <2>2. \A k \in DOMAIN Tail(q) : Head(q) < Tail(q)[k]
      BY <1>2, <1>3, <1>6 DEF Rising
    <2>3. QED
      BY <1>4, <1>6, <2>1, <2>2 DEF Rising
  <1>15. ReadersHold'
    BY <1>1, <1>4, <1>5, <1>6, <1>7, <1>9 DEF ReadersHold, Kin
  <1>16. DeadForget'
    <2>1. proc[Home[s]] \notin Dead
      BY <1>1, <1>2, <1>6 DEF DeadForget
    <2>2. \A c \in Conns : proc[Home[c]] \in Dead => c # s
      BY <2>1
    <2>3. QED
      BY <1>4, <1>5, <1>6, <2>2 DEF DeadForget
  <1>17. KnownOnce' /\ ClosingOwn'
    BY <1>5, <1>6 DEF KnownOnce, Known, ClosingOwn, Published
  <1>18. Outdated'
    BY <1>5, <1>6, <1>8 DEF Outdated, Stored, Kin
  <1>19. OneReader'
    <2>1. ASSUME NEW r \in Conns, NEW c \in Conns, Handing(r, c)', c \in clients
          PROVE  Stored(r) = r
      BY <1>6, <1>10, <1>11, <2>1 DEF OneReader
    <2>2. ASSUME NEW r \in Conns, NEW c \in Conns, r # s, Handing(r, c)', Handing(s, c)'
          PROVE  FALSE
      <3>1. Handing(r, c) /\ Kin(s, c) /\ c \in clients /\ Stored(s) = s
        BY <1>10, <1>11, <2>2
      <3>2. Kin(r, c) /\ Stored(r) = r
        BY <1>6, <3>1 DEF OneReader, ReadersHold, Handing
      <3>3. QED
        BY <2>2, <3>1, <3>2, KinStored
    <2>3. \A r, t, c \in Conns : Handing(r, c)' /\ Handing(t, c)' => r = t
      BY <1>6, <1>11, <2>2 DEF OneReader
    <2>4. QED
      BY <1>5, <2>1, <2>3 DEF OneReader, Stored
  <1>20. InTurn'
    <2>1. ASSUME NEW r \in Conns, NEW c \in Conns, NEW k \in DOMAIN Reached(c),
                 c \in audience[Reached(c)[k]], Handing(r, c)'
          PROVE  Reached(c)[k] < inHand'[r]
      <3>1. CASE r = s
        <4>1. Reached(c)[k] < q[1]
          BY <1>2, <1>3, <1>6, <1>10, <2>1, <3>1 DEF InTurn
        <4>2. QED
          BY <1>3, <1>4, <3>1, <4>1
      <3>2. CASE r # s
        BY <1>4, <1>6, <1>11, <2>1, <3>2 DEF InTurn
      <3>3. QED
        BY <3>1, <3>2
    <2>2. ASSUME NEW r \in Conns, NEW c \in Conns, NEW k \in DOMAIN Reached(c),
                 c \in audience[Reached(c)[k]], c \in clients, Kin(r, c), Stored(r) = r,
                 NEW j \in DOMAIN inbox'[r]
          PROVE  Reached(c)[k] < inbox'[r][j]
      BY <1>6, <1>8, <2>2 DEF InTurn
    <2>3. QED
      BY <1>5, <2>1, <2>2 DEF InTurn, Stored, Kin
  <1>21. NoneYet' /\ InOrder'
    BY <1>5, <1>6 DEF NoneYet, InOrder, Stored
  <1>22. QED
    BY <1>12, <1>13, <1>14, <1>15, <1>16, <1>17, <1>18, <1>19, <1>20, <1>21 DEF DeliveryInv

\* A payload that is handed to a client is the last it has got.
LEMMA HandOn ==
    ASSUME TypeOK, DeliveryTypeOK, DeliveryInv, NEW s \in Conns, NEW d \in todo[s],
           Push(d, inHand[s]), todo' = [todo EXCEPT ![s] = @ \ {d}],
           UNCHANGED <<vars, audience, inbox, inHand, pump, got>>
    PROVE  DeliveryTypeOK' /\ DeliveryInv'
  <1> USE ConnsPlaced
  <1> DEFINE m == inHand[s]
  <1>1. /\ Numbered /\ Rising /\ ReadersHold /\ DeadForget /\ KnownOnce /\ ClosingOwn
        /\ Outdated /\ OneReader /\ InTurn /\ NoneYet /\ InOrder
    BY DEF DeliveryInv
  <1>2. /\ send \in [Conns -> Seq(Msgs)] /\ todo \in [Conns -> SUBSET Conns]
        /\ inHand \in [Conns -> Msgs \cup {0}]
        /\ \A c \in Conns : Len(send[c]) <= SendCap
    BY DEF DeliveryTypeOK
  <1>3. d \in Conns /\ m # 0 /\ m \in Msgs /\ m \in Published
    BY <1>1, <1>2 DEF ReadersHold, Numbered
  <1> HIDE DEF m
  <1>4. /\ UNCHANGED <<sub, subs, proc, conn, regq, clients, hubPc, hubConn, hubSub, audience,
                       inbox, inHand>>
        /\ m = inHand[s]
    BY DEF vars, brokerVars, hubVars, m
  <1>5. todo'[s] = todo[s] \ {d} /\ \A r \in Conns \ {s} : todo'[r] = todo[r]
    BY <1>2
  <1>6. \/ send' = send
        \/ send' = [send EXCEPT ![d] = Append(send[d], m)] /\ Len(send[d]) < SendCap
    BY DEF Push, m
  <1>7. \A c \in Conns : \/ Reached(c)' = Reached(c)
                         \/ c = d /\ Reached(c)' = Append(Reached(c), m)
    <2>1. ASSUME NEW c \in Conns
          PROVE  \/ send'[c] = send[c]
                 \/ c = d /\ send'[c] = Append(send[c], m)
      BY <1>2, <1>3, <1>6
    <2>2. \A c \in Conns : got[c] \o Append(send[c], m) = Append(got[c] \o send[c], m)
      <3>1. SUFFICES ASSUME NEW c \in Conns
                     PROVE  got[c] \o Append(send[c], m) = Append(got[c] \o send[c], m)
        OBVIOUS
      <3>2. got[c] \in Seq(Msgs) /\ send[c] \in Seq(Msgs)
        BY DEF DeliveryTypeOK
      <3>3. \A p, q \in Seq(Msgs), e \in Msgs : p \o Append(q, e) = Append(p \o q, e)
        BY ConcatAppend
      <3>4. QED
        BY <1>3, <3>2, <3>3, Zenon
    <2>3. QED
      BY <2>1, <2>2 DEF Reached
  <1>8. \A c \in Conns : \A k \in DOMAIN Reached(c)' :
            \/ k \in DOMAIN Reached(c) /\ Reached(c)'[k] = Reached(c)[k]
            \/ /\ c = d /\ Reached(c)'[k] = m
               /\ \A j \in DOMAIN Reached(c)' : j < k =>
                     j \in DOMAIN Reached(c) /\ Reached(c)'[j] = Reached(c)[j]
    <2>1. ASSUME NEW c \in Conns, Reached(c)' = Append(Reached(c), m)
          PROVE  /\ Len(Reached(c)) \in Nat /\ DOMAIN Reached(c) = 1 .. Len(Reached(c))
                 /\ DOMAIN Reached(c)' = DOMAIN Reached(c) \cup {Len(Reached(c)) + 1}
                 /\ Reached(c)'[Len(Reached(c)) + 1] = m
                 /\ \A k \in DOMAIN Reached(c) : Reached(c)'[k] = Reached(c)[k]
      BY <1>3, <2>1, ReachedType, AppendFacts
    <2>2. QED
      BY <1>7, <2>1
  <1>9. \A c \in Conns : \A j, k \in DOMAIN Reached(c)' :
            j < k /\ k \in DOMAIN Reached(c) => j \in DOMAIN Reached(c) /\ Reached(c)'[j] = Reached(c)[j]
    <2>1. ASSUME NEW c \in Conns, NEW j \in DOMAIN Reached(c)', NEW k \in DOMAIN Reached(c),
                 k \in DOMAIN Reached(c)', j < k
          PROVE  j \in DOMAIN Reached(c) /\ Reached(c)'[j] = Reached(c)[j]
      <3>1. CASE Reached(c)' = Reached(c)
        BY <2>1, <3>1
      <3>2. CASE Reached(c)' = Append(Reached(c), m)
        <4>1. /\ Len(Reached(c)) \in Nat /\ DOMAIN Reached(c) = 1 .. Len(Reached(c))
              /\ DOMAIN Reached(c)' = DOMAIN Reached(c) \cup {Len(Reached(c)) + 1}
              /\ \A i \in DOMAIN Reached(c) : Reached(c)'[i] = Reached(c)[i]
          BY <1>3, <3>2, ReachedType, AppendFacts
        <4>2. QED
          BY <2>1, <4>1
      <3>3. QED
        BY <1>7, <3>1, <3>2
    <2>2. QED
      BY <2>1
  <1>10. \A r, c \in Conns : Handing(r, c)' => Handing(r, c) /\ ~(r = s /\ c = d)
    BY <1>4, <1>5 DEF Handing
  <1>11. DeliveryTypeOK'
    <2>1. send' \in [Conns -> Seq(Msgs)] /\ \A c \in Conns : Len(send'[c]) <= SendCap
      <3>1. CASE send' = send
        BY <1>2, <3>1
      <3>2. CASE send' = [send EXCEPT ![d] = Append(send[d], m)] /\ Len(send[d]) < SendCap
        <4>1. Append(send[d], m) \in Seq(Msgs) /\ Len(Append(send[d], m)) <= SendCap
          BY <1>2, <1>3, <3>2, AppendFacts, SendCapAssumption
        <4>2. QED
          BY <1>2, <1>3, <3>2, <4>1
      <3>3. QED
        BY <1>6, <3>1, <3>2
    <2>2. todo' \in [Conns -> SUBSET Conns]
      BY <1>2
    <2>3. TypeOK'
      BY DEF vars, brokerVars, hubVars, TypeOK, BrokerTypeOK
    <2>4. QED
      BY <2>1, <2>2, <2>3 DEF DeliveryTypeOK
  <1>12. Numbered'
    BY <1>1, <1>3, <1>4, <1>8 DEF Numbered, Published
  <1>13. Rising' /\ DeadForget' /\ ClosingOwn' /\ Outdated'
    BY <1>1, <1>4 DEF Rising, DeadForget, ClosingOwn, Outdated, Stored, Kin
  <1>14. ReadersHold'
    BY <1>1, <1>4, <1>5 DEF ReadersHold, Kin
  <1>15. KnownOnce'
    BY <1>1, <1>4 DEF KnownOnce, Known, Published
  <1>16. OneReader'
    BY <1>1, <1>4, <1>10 DEF OneReader, Stored
  <1>17. d \in audience[m] => Handing(s, d) /\ Kin(s, d)
    BY <1>1, <1>4 DEF Handing, ReadersHold
  <1>18. InTurn'
    <2>1. ASSUME NEW r \in Conns, NEW c \in Conns, NEW k \in DOMAIN Reached(c)',
                 c \in audience[Reached(c)'[k]]
          PROVE  /\ Handing(r, c)' => Reached(c)'[k] < inHand[r]
                 /\ (c \in clients /\ Kin(r, c) /\ Stored(r) = r)
                       => \A j \in DOMAIN inbox[r] : Reached(c)'[k] < inbox[r][j]
      <3>1. CASE k \in DOMAIN Reached(c) /\ Reached(c)'[k] = Reached(c)[k]
        BY <1>1, <1>10, <2>1, <3>1 DEF InTurn
      <3>2. CASE c = d /\ Reached(c)'[k] = m
        <4>1. Handing(s, d) /\ Kin(s, d)
          BY <1>17, <2>1, <3>2
        <4>2. ~Handing(r, c)'
          BY <1>1, <1>10, <3>2, <4>1 DEF OneReader
        <4>3. c \in clients /\ Kin(r, c) /\ Stored(r) = r => r = s
          <5>1. c \in clients => Stored(s) = s
            BY <1>1, <3>2, <4>1 DEF OneReader
          <5>2. QED
            BY <3>2, <4>1, <5>1, KinStored
        <4>4. \A j \in DOMAIN inbox[s] : m < inbox[s][j]
          BY <1>1, <1>4 DEF Rising
        <4>5. QED
          BY <3>2, <4>2, <4>3, <4>4
      <3>3. QED
        BY <1>8, <2>1, <3>1, <3>2
    <2>2. QED
      BY <1>4, <2>1 DEF InTurn, Stored, Kin
  <1>19. NoneYet'
    <2>1. ASSUME NEW c \in Conns, c \in clients, Stored(c) = NoConn, NEW k \in DOMAIN Reached(c)'
          PROVE  c \notin audience[Reached(c)'[k]]
      <3>1. CASE k \in DOMAIN Reached(c) /\ Reached(c)'[k] = Reached(c)[k]
        BY <1>1, <2>1, <3>1 DEF NoneYet
      <3>2. CASE c = d /\ Reached(c)'[k] = m
        <4>1. Handing(s, d) => Stored(s) = s
          BY <1>1, <1>3, <2>1, <3>2 DEF OneReader
        <4>2. QED
          BY <1>17, <2>1, <3>2, <4>1, KinStored
      <3>3. QED
        BY <1>8, <2>1, <3>1, <3>2
    <2>2. QED
      BY <1>4, <2>1 DEF NoneYet, Stored
  <1>20. InOrder'
    <2>1. ASSUME NEW c \in Conns, NEW j \in DOMAIN Reached(c)', NEW k \in DOMAIN Reached(c)', j < k,
                 c \in audience[Reached(c)'[j]], c \in audience[Reached(c)'[k]]
          PROVE  Reached(c)'[j] < Reached(c)'[k]
      <3>1. CASE k \in DOMAIN Reached(c) /\ Reached(c)'[k] = Reached(c)[k]
        BY <1>1, <1>9, <2>1, <3>1 DEF InOrder
      <3>2. CASE /\ c = d /\ Reached(c)'[k] = m
                 /\ j \in DOMAIN Reached(c) /\ Reached(c)'[j] = Reached(c)[j]
        <4>1. Handing(s, d)
          BY <1>17, <2>1, <3>2
        <4>2. QED
          BY <1>1, <1>4, <2>1, <3>2, <4>1 DEF InTurn
      <3>3. QED
        BY <1>8, <2>1, <3>1, <3>2
    <2>2. QED
      BY <1>4, <2>1 DEF InOrder
  <1>21. QED
    BY <1>11, <1>12, <1>13, <1>14, <1>15, <1>16, <1>18, <1>19, <1>20 DEF DeliveryInv

----------------------------------------------------------------------------
(* Delivery: all steps.                                                    *)

LEMMA DieClosing ==
    ASSUME NEW i \in Instances, NEW how, TypeOK, ClosingOwn, Die(i, how)
    PROVE  ClosingOwn'
  <1>1. /\ hubPc' = [hubPc EXCEPT ![i] = "select"]
        /\ hubConn' = [hubConn EXCEPT ![i] = NoConn] /\ hubSub' = [hubSub EXCEPT ![i] = NoConn]
    BY DEF Die
  <1>2. /\ hubPc'[i] = "select"
        /\ \A j \in Instances \ {i} :
              hubPc'[j] = hubPc[j] /\ hubConn'[j] = hubConn[j] /\ hubSub'[j] = hubSub[j]
    BY <1>1 DEF TypeOK
  <1>3. QED
    BY <1>2 DEF ClosingOwn

LEMMA ClosingKeeps ==
    ASSUME TypeOK, HubInv, ClosingOwn, [Next]_vars
    PROVE  ClosingOwn'
  <1>1. ASSUME UNCHANGED <<hubPc, hubConn, hubSub>>
        PROVE  ClosingOwn'
    BY <1>1 DEF ClosingOwn
  <1>2. ASSUME NEW i \in Instances, RunStep(i)
        PROVE  ClosingOwn'
    <2>1. ASSUME /\ \A j \in Instances \ {i} :
                       hubPc'[j] = hubPc[j] /\ hubConn'[j] = hubConn[j] /\ hubSub'[j] = hubSub[j]
                 /\ hubPc'[i] # "closeSub"
          PROVE  ClosingOwn'
      BY <2>1 DEF ClosingOwn
    <2>2. CASE AddClient(i)
      <3>1. /\ hubSub' = hubSub
            /\ \/ UNCHANGED <<hubPc, hubConn>>
               \/ \E c : /\ hubPc' = [hubPc EXCEPT ![i] = "setOnline"]
                         /\ hubConn' = [hubConn EXCEPT ![i] = c]
        BY <2>2 DEF AddClient
      <3>2. QED
        BY <1>1, <2>1, <3>1 DEF TypeOK
    <2>3. CASE RemoveClient(i)
      <3>1. /\ hubSub' = hubSub
            /\ \/ UNCHANGED <<hubPc, hubConn>>
               \/ \E c : /\ hubPc' = [hubPc EXCEPT ![i] = "unsubscribe"]
                         /\ hubConn' = [hubConn EXCEPT ![i] = c]
        BY <2>3 DEF RemoveClient
      <3>2. QED
        BY <1>1, <2>1, <3>1 DEF TypeOK
    <2>4. CASE SetOnline(i) \/ SetOffline(i)
      BY <2>1, <2>4 DEF SetOnline, SetOffline, TypeOK
    <2>5. CASE UnsubscribeClose(i)
      BY <2>1, <2>5 DEF UnsubscribeClose, TypeOK
    <2>6. CASE UnsubscribeDetach(i)
      <3>1. hubConn[i] \in Conns /\ Owner[hubConn[i]] \in Users
        BY <2>6, ConnsPlaced DEF UnsubscribeDetach, HubInv, RemovingLast
      <3>2. /\ hubConn' = hubConn
            /\ hubSub' = [hubSub EXCEPT ![i] = subs[i][Owner[hubConn[i]]]]
            /\ hubPc' = [hubPc EXCEPT ![i] = IF subs[i][Owner[hubConn[i]]] = NoConn
                                             THEN "setOffline" ELSE "closeSub"]
        BY <2>6 DEF UnsubscribeDetach
      <3>3. \A j \in Instances \ {i} : hubPc'[j] = hubPc[j] /\ hubSub'[j] = hubSub[j]
        BY <3>2 DEF TypeOK
      <3>4. hubPc'[i] = "closeSub" =>
                /\ subs[i][Owner[hubConn[i]]] # NoConn
                /\ hubSub'[i] = subs[i][Owner[hubConn[i]]]
        BY <3>2 DEF TypeOK
      <3>5. hubPc'[i] = "closeSub" => Owner[hubSub'[i]] = Owner[hubConn[i]]
        BY <3>1, <3>4 DEF HubInv, SubsEntries
      <3>6. QED
        BY <3>2, <3>3, <3>5 DEF ClosingOwn
    <2>7. CASE CloseAll(i) /\ Die(i, "panicked")
      BY <2>7, DieClosing
    <2>8. CASE CloseAll(i) /\ ~Die(i, "panicked")
      <3>1. UNCHANGED <<hubPc, hubConn, hubSub>>
        BY <2>8, Zenon DEF CloseAll
      <3>2. QED
        BY <1>1, <3>1
    <2>9. QED
      BY <1>2, <2>2, <2>3, <2>4, <2>5, <2>6, <2>7, <2>8 DEF RunStep
  <1>3. ASSUME NEW i \in Instances, Halt(i)
        PROVE  ClosingOwn'
    BY <1>3, DieClosing DEF Halt
  <1>4. ASSUME NEW i \in Instances, BeatStep(i) \/ Stop(i) \/ Restart(i)
        PROVE  ClosingOwn'
    BY <1>1, <1>4 DEF BeatStep, BeatStart, BeatUser, BeatEnd, Stop, Restart
  <1>5. ASSUME NEW c \in Conns, Connect(c) \/ Disconnect(c) \/ SubscribeStep(c)
        PROVE  ClosingOwn'
    BY <1>1, <1>5 DEF Connect, Disconnect, SubscribeStep, hubVars
  <1>6. CASE Tick \/ UNCHANGED vars
    BY <1>1, <1>6 DEF Tick, vars, hubVars
  <1>7. QED
    BY <1>2, <1>3, <1>4, <1>5, <1>6, MortalAssumption DEF Next

\* A step of the hub, with what it makes a process forget.
LEMMA HubKeeps ==
    ASSUME TypeOK, HubInv, DeliveryTypeOK, DeliveryInv,
           TypeOK', HubMoves, ClosingOwn', Forget
    PROVE  DeliveryTypeOK' /\ DeliveryInv'
  <1>1. DeliveryInv'
    BY ForgetShrinks, ShrinkKeeps
  <1>2. \A c \in Conns : /\ inbox'[c] \in {inbox[c], <<>>} /\ inHand'[c] \in {inHand[c], 0}
                         /\ todo'[c] \in {todo[c], {}} /\ send'[c] \in {send[c], <<>>}
    BY DEF Forget
  <1>3. <<>> \in Seq(Msgs) /\ Len(<<>>) <= SendCap
    BY SendCapAssumption
  <1>4. /\ inbox' \in [Conns -> Seq(Msgs)] /\ inHand' \in [Conns -> Msgs \cup {0}]
        /\ todo' \in [Conns -> SUBSET Conns]
    <2>1. DOMAIN inbox' = Conns /\ DOMAIN inHand' = Conns /\ DOMAIN todo' = Conns
          /\ inbox' = [c \in Conns |-> inbox'[c]] /\ inHand' = [c \in Conns |-> inHand'[c]]
          /\ todo' = [c \in Conns |-> todo'[c]]
      BY DEF Forget
    <2>2. \A c \in Conns : /\ inbox'[c] \in Seq(Msgs) /\ inHand'[c] \in Msgs \cup {0}
                           /\ todo'[c] \in SUBSET Conns
      BY <1>2, <1>3 DEF DeliveryTypeOK
    <2>3. QED
      BY <2>1, <2>2
  <1>5. send' \in [Conns -> Seq(Msgs)] /\ \A c \in Conns : Len(send'[c]) <= SendCap
    <2>1. send' = [c \in Conns |-> send'[c]]
      BY DEF Forget
    <2>2. \A c \in Conns : send'[c] \in Seq(Msgs) /\ Len(send'[c]) <= SendCap
      BY <1>2, <1>3 DEF DeliveryTypeOK
    <2>3. QED
      BY <2>1, <2>2
  <1>6. DeliveryTypeOK'
    BY <1>4, <1>5 DEF Forget, DeliveryTypeOK
  <1>7. QED
    BY <1>1, <1>6

\* Nothing of the hub changes.
LEMMA RestKeeps ==
    ASSUME TypeOK, HubInv, DeliveryInv, UNCHANGED vars, audience' = audience,
           \A c \in Conns : /\ Thinned(Reached(c)', Reached(c))
                            /\ inbox'[c] \in {inbox[c], <<>>}
                            /\ inHand'[c] \in {inHand[c], 0}
                            /\ todo'[c] \subseteq todo[c]
                            /\ inHand'[c] = 0 => todo'[c] = {}
    PROVE  TypeOK' /\ HubInv' /\ DeliveryInv'
  <1>1. UNCHANGED <<sub, subs, proc, conn, regq, clients, hubPc, hubConn, hubSub>>
    BY DEF vars, brokerVars, hubVars
  <1>2. TypeOK' /\ HubInv'
    BY NextType, NextInv
  <1>3. \A c \in Conns : ~Lost(c)
    BY <1>1 DEF Lost
  <1>4. HubMoves
    BY <1>1, <1>3, StillMoves
  <1>5. ClosingOwn'
    BY <1>1 DEF DeliveryInv, ClosingOwn
  <1>6. Shrinks
    BY <1>3 DEF Shrinks
  <1>7. QED
    BY <1>2, <1>4, <1>5, <1>6, ShrinkKeeps

LEMMA ReaderKeeps ==
    ASSUME TypeOK, HubInv, DeliveryTypeOK, DeliveryInv, NEW s \in Conns,
           ReaderStep(s) \/ ReaderExit(s)
    PROVE  DeliveryTypeOK' /\ DeliveryInv'
  <1> USE ConnsPlaced
  <1>1. /\ inbox \in [Conns -> Seq(Msgs)] /\ inHand \in [Conns -> Msgs \cup {0}]
        /\ todo \in [Conns -> SUBSET Conns]
    BY DEF DeliveryTypeOK
  <1>2. \A c \in Conns : Thinned(Reached(c), Reached(c))
    BY ReachedType, ThinnedSame
  <1>3. ReadersHold /\ ClosingOwn /\ DeadForget
    BY DEF DeliveryInv
  <1>4. CASE ReaderDone(s) \/ ReaderExit(s)
    <2>1. /\ UNCHANGED <<vars, audience, send, pump, got, todo>>
          /\ \/ inHand' = [inHand EXCEPT ![s] = 0] /\ inbox' = inbox /\ todo[s] = {}
             \/ inbox' = [inbox EXCEPT ![s] = <<>>] /\ inHand' = inHand
      BY <1>4 DEF ReaderDone, ReaderExit
    <2>2. \A c \in Conns : Reached(c)' = Reached(c)
      BY <2>1 DEF Reached
    <2>3. \A c \in Conns : /\ inbox'[c] \in {inbox[c], <<>>} /\ inHand'[c] \in {inHand[c], 0}
                           /\ todo'[c] \subseteq todo[c]
                           /\ inHand'[c] = 0 => todo'[c] = {}
      BY <1>1, <1>3, <2>1 DEF ReadersHold
    <2>4. TypeOK' /\ DeliveryInv'
      BY <1>2, <2>1, <2>2, <2>3, RestKeeps
    <2>5. inbox' \in [Conns -> Seq(Msgs)] /\ inHand' \in [Conns -> Msgs \cup {0}]
      <3>1. CASE inHand' = [inHand EXCEPT ![s] = 0] /\ inbox' = inbox
        BY <1>1, <3>1
      <3>2. CASE inbox' = [inbox EXCEPT ![s] = <<>>] /\ inHand' = inHand
        <4>1. <<>> \in Seq(Msgs)
          OBVIOUS
        <4>2. QED
          BY <1>1, <3>2, <4>1
      <3>3. QED
        BY <2>1, <3>1, <3>2
    <2>6. DeliveryTypeOK'
      BY <2>1, <2>4, <2>5 DEF DeliveryTypeOK
    <2>7. QED
      BY <2>4, <2>6
  <1>5. ASSUME NEW c \in todo[s], chan[c] = "open", Push(c, inHand[s]),
               todo' = [todo EXCEPT ![s] = @ \ {c}],
               UNCHANGED <<vars, audience, inbox, inHand, pump, got>>
        PROVE  DeliveryTypeOK' /\ DeliveryInv'
    BY <1>5, HandOn
  <1>6. ASSUME NEW c \in todo[s], Die(Home[s], "panicked"), Forget
        PROVE  DeliveryTypeOK' /\ DeliveryInv'
    <2>1. proc[Home[s]] \in Running
      BY <1>3, <1>6 DEF ReadersHold, DeadForget, TypeOK
    <2>2. TypeOK' /\ HubMoves /\ ClosingOwn'
      BY <1>3, <1>6, <2>1, DieType, DieMoves, DieClosing
    <2>3. QED
      BY <1>6, <2>2, HubKeeps
  <1>7. QED
    BY <1>4, <1>5, <1>6, TakeKeeps DEF ReaderStep, ReaderSend

LEMMA PumpKeeps ==
    ASSUME TypeOK, HubInv, DeliveryTypeOK, DeliveryInv, NEW c \in Conns,
           PumpWrite(c) \/ PumpFail(c)
    PROVE  DeliveryTypeOK' /\ DeliveryInv'
  <1>1. /\ send \in [Conns -> Seq(Msgs)] /\ got \in [Conns -> Seq(Msgs)]
        /\ pump \in [Conns -> BOOLEAN]
        /\ send[c] # <<>> /\ send' = [send EXCEPT ![c] = Tail(send[c])]
        /\ UNCHANGED <<vars, audience, inbox, inHand, todo>>
        /\ \A d \in Conns : Len(send[d]) <= SendCap
    BY DEF PumpWrite, PumpFail, DeliveryTypeOK
  <1>2. /\ Head(send[c]) \in Msgs /\ Tail(send[c]) \in Seq(Msgs)
        /\ Len(Tail(send[c])) = Len(send[c]) - 1 /\ Len(send[c]) \in Nat
    BY <1>1, TailFacts
  <1>3. \/ got' = [got EXCEPT ![c] = Append(got[c], Head(send[c]))] /\ pump' = pump
        \/ got' = got /\ pump' = [pump EXCEPT ![c] = FALSE]
    BY DEF PumpWrite, PumpFail
  <1>4. /\ \A d \in Conns \ {c} : send'[d] = send[d] /\ got'[d] = got[d]
        /\ send'[c] = Tail(send[c])
        /\ got'[c] = Append(got[c], Head(send[c])) \/ got'[c] = got[c]
    BY <1>1, <1>3
  <1>5. ASSUME NEW d \in Conns
        PROVE  Thinned(Reached(d)', Reached(d))
    <2>1. CASE d # c
      <3>1. Reached(d)' = Reached(d)
        BY <1>4, <2>1 DEF Reached
      <3>2. QED
        BY <3>1, ReachedType, ThinnedSame
    <2>2. CASE d = c /\ got'[c] = Append(got[c], Head(send[c]))
      <3>1. got[c] \in Seq(Msgs) /\ send[c] \in Seq(Msgs)
        BY <1>1
      <3>2. Reached(d)' = Reached(d)
        BY <1>1, <1>4, <2>2, <3>1, ConcatMoves DEF Reached
      <3>3. QED
        BY <3>2, ReachedType, ThinnedSame
    <2>3. CASE d = c /\ got'[c] = got[c]
      <3>1. got[c] \in Seq(Msgs) /\ send[c] \in Seq(Msgs)
        BY <1>1
      <3>2. Reached(d)' = got[c] \o Tail(send[c]) /\ Reached(d) = got[c] \o send[c]
        BY <1>4, <2>3 DEF Reached
      <3>3. QED
        BY <1>1, <3>1, <3>2, ThinnedTail
    <2>4. QED
      BY <1>4, <2>1, <2>2, <2>3
  <1>6. TypeOK' /\ DeliveryInv'
    BY <1>1, <1>5, RestKeeps DEF DeliveryInv, ReadersHold
  <1>7. DeliveryTypeOK'
    <2>1. send' \in [Conns -> Seq(Msgs)] /\ \A d \in Conns : Len(send'[d]) <= SendCap
      BY <1>1, <1>2, <1>4, SendCapAssumption
    <2>2. got' \in [Conns -> Seq(Msgs)]
      <3>1. Append(got[c], Head(send[c])) \in Seq(Msgs)
        BY <1>1, <1>2
      <3>2. QED
        BY <1>1, <1>3, <3>1
    <2>3. pump' \in [Conns -> BOOLEAN]
      BY <1>1, <1>3
    <2>4. QED
      BY <1>1, <1>6, <2>1, <2>2, <2>3 DEF DeliveryTypeOK
  <1>8. QED
    BY <1>6, <1>7


LEMMA DeliveryStarts ==
    ASSUME DeliveryInit
    PROVE  DeliveryTypeOK /\ HubInv /\ DeliveryInv
  <1>1. Init /\ audience = <<>> /\ inbox = [s \in Conns |-> <<>>] /\ inHand = [s \in Conns |-> 0]
        /\ todo = [s \in Conns |-> {}] /\ send = [c \in Conns |-> <<>>]
        /\ pump = [c \in Conns |-> TRUE] /\ got = [c \in Conns |-> <<>>]
    BY DEF DeliveryInit
  <1>2. TypeOK /\ HubInv
    BY <1>1, HubStarts
  <1>3. <<>> \in Seq(Msgs) /\ <<>> \in Seq(SUBSET Conns) /\ Len(<<>>) = 0 /\ DOMAIN <<>> = {}
        /\ <<>> \o <<>> = <<>>
    OBVIOUS
  <1>4. DeliveryTypeOK
    BY <1>1, <1>2, <1>3, SendCapAssumption, MaxMsgAssumption DEF DeliveryTypeOK
  <1>5. \A c \in Conns : /\ inbox[c] = <<>> /\ inHand[c] = 0 /\ todo[c] = {} /\ Reached(c) = <<>>
    BY <1>1, <1>3 DEF Reached
  <1>6. /\ \A c \in Conns : sub[c] = "none" /\ conn[c] = "idle" /\ c \notin clients
        /\ \A i \in Instances : hubPc[i] # "closeSub" /\ regq[i] = <<>>
        /\ Published = {}
    BY <1>1, <1>3 DEF Init, BrokerInit, Published
  <1>7. Numbered /\ Rising /\ ReadersHold /\ DeadForget
    BY <1>3, <1>5, <1>6 DEF Numbered, Rising, ReadersHold, DeadForget
  <1>8. KnownOnce /\ ClosingOwn
    BY <1>6 DEF KnownOnce, Known, ClosingOwn
  <1>9. Outdated /\ OneReader /\ InTurn /\ NoneYet /\ InOrder
    BY <1>3, <1>5, <1>6 DEF Outdated, OneReader, Handing, InTurn, NoneYet, InOrder
  <1>10. QED
    BY <1>2, <1>4, <1>7, <1>8, <1>9 DEF DeliveryInv

LEMMA DeliveryGoesOn ==
    ASSUME DeliveryTypeOK, HubInv, DeliveryInv, [DeliveryNext]_allVars
    PROVE  DeliveryTypeOK' /\ HubInv' /\ DeliveryInv'
  <1>1. TypeOK
    BY DEF DeliveryTypeOK
  <1>2. CASE Next /\ Forget
    <2>1. TypeOK' /\ HubInv' /\ HubMoves /\ ClosingOwn'
      BY <1>1, <1>2, NextType, NextInv, NextMoves, ClosingKeeps DEF DeliveryInv
    <2>2. QED
      BY <1>1, <1>2, <2>1, HubKeeps
  <1>3. ASSUME NEW u \in Users, Publish(u)
        PROVE  DeliveryTypeOK' /\ HubInv' /\ DeliveryInv'
    <2>1. HubInv'
      BY <1>1, <1>3, NextInv DEF Publish
    <2>2. QED
      BY <1>1, <1>3, <2>1, PublishKeeps
  <1>4. ASSUME NEW s \in Conns, ReaderStep(s) \/ ReaderExit(s)
        PROVE  DeliveryTypeOK' /\ HubInv' /\ DeliveryInv'
    <2>1. UNCHANGED vars \/ Die(Home[s], "panicked")
      BY <1>4 DEF ReaderStep, ReaderTake, ReaderSend, ReaderDone, ReaderExit
    <2>2. HubInv'
      BY <1>1, <2>1, NextInv, DieInv, ConnsPlaced
    <2>3. QED
      BY <1>1, <1>4, <2>2, ReaderKeeps
  <1>5. ASSUME NEW c \in Conns, PumpWrite(c) \/ PumpFail(c)
        PROVE  DeliveryTypeOK' /\ HubInv' /\ DeliveryInv'
    <2>1. UNCHANGED vars
      BY <1>5 DEF PumpWrite, PumpFail
    <2>2. QED
      BY <1>1, <1>5, <2>1, NextInv, PumpKeeps
  <1>6. CASE UNCHANGED allVars
    <2>1. UNCHANGED vars /\ UNCHANGED deliveryVars
      BY <1>6 DEF allVars
    <2>2. \A c \in Conns : Thinned(Reached(c)', Reached(c))
      BY <2>1, ReachedType, ThinnedSame DEF Reached, deliveryVars
    <2>3. ReadersHold
      BY DEF DeliveryInv
    <2>4. TypeOK' /\ HubInv' /\ DeliveryInv'
      BY <1>1, <2>1, <2>2, <2>3, RestKeeps DEF deliveryVars, ReadersHold
    <2>5. QED
      BY <2>1, <2>4 DEF deliveryVars, DeliveryTypeOK
  <1>7. QED
    BY <1>2, <1>3, <1>4, <1>5, <1>6 DEF DeliveryNext

----------------------------------------------------------------------------
(* Delivery: theorems.                                                     *)

\* Along with the hub's, the delivery invariant holds: a registered connection
\* is handed payloads by the stored reader of its user and by no other
\* (hub.go:178-195, broker.go:77-144).
THEOREM DeliveryInvariant == DeliverySpec => [](DeliveryTypeOK /\ HubInv /\ DeliveryInv)
  <1>1. DeliveryInit => DeliveryTypeOK /\ HubInv /\ DeliveryInv
    BY DeliveryStarts
  <1>2. DeliveryTypeOK /\ HubInv /\ DeliveryInv /\ [DeliveryNext]_allVars
            => (DeliveryTypeOK /\ HubInv /\ DeliveryInv)'
    BY DeliveryGoesOn
  <1>3. QED
    BY <1>1, <1>2, PTL DEF DeliverySpec

\* The buffers between Publish and the socket keep their types, and no send
\* channel holds more than its capacity (hub.go:20-24, 187-194).
THEOREM DeliveryTypeCorrect == DeliverySpec => []DeliveryTypeOK
  BY DeliveryInvariant, PTL

\* A connection gets what is published while it is registered at most once and
\* in the order of publication, whatever Subscribe and Unsubscribe calls are
\* under way and whichever process ends (hub.go:178-195, broker.go:77-144).
THEOREM PayloadsInOrder == DeliverySpec => []InOrder
  <1>1. DeliveryInv => InOrder
    BY DEF DeliveryInv
  <1>2. QED
    BY <1>1, DeliveryInvariant, PTL

----------------------------------------------------------------------------
(* Presence.                                                               *)

\* Where the presence of a connected user is kept up: every connection of a
\* user arrives at one instance, the SETs work, and a key outlives a period.
OneHome == \A c, d \in Conns : Owner[c] = Owner[d] => Home[c] = Home[d]
SetsWork == "SET" \notin Failing /\ TTL >= 2

\* The hub works for connections of its own instance.
LeavingHere ==
    \A i \in Instances :
        /\ \A c \in ToSet(unregq[i]) : Home[c] = i
        /\ hubPc[i] # "select" => Home[hubConn[i]] = i

DeadEmpty == \A c \in clients : proc[Home[c]] \notin Dead

\* The key of u lives until the heartbeat of instance i renews it.
Lasting(i, u) ==
    \/ presence[u] >= 2
    \/ /\ presence[u] = 1
       /\ beat[i] = "due" \/ (beat[i] = "beating" /\ u \in beatTodo[i])

KeptOnline ==
    \A c \in clients : proc[Home[c]] = "up" =>
        \/ Lasting(Home[c], Owner[c])
        \/ (hubPc[Home[c]] = "setOnline" /\ Owner[hubConn[Home[c]]] = Owner[c])

\* The inductive invariant behind ConnectedIsOnline.
PresenceInv == LeavingHere /\ DeadEmpty /\ KeptOnline

LEMMA PresenceFrame ==
    ASSUME PresenceInv, UNCHANGED <<presence, proc, unregq, clients, hubPc, hubConn, beat, beatTodo>>
    PROVE  PresenceInv'
  BY DEF PresenceInv, LeavingHere, DeadEmpty, KeptOnline, Lasting

\* A SET that works renews the key; whatever else happens to another key.
LEMMA SetRenews ==
    ASSUME SetsWork, TypeOK, NEW u \in Users, SetPresence(u, TRUE)
    PROVE  presence'[u] >= 2 /\ \A v \in Users \ {u} : presence'[v] = presence[v]
  <1>1. Outcomes("SET") = {TRUE}
    BY DEF SetsWork, Outcomes
  <1>2. presence' = [presence EXCEPT ![u] = TTL]
    BY <1>1 DEF SetPresence
  <1>3. QED
    BY <1>2 DEF SetsWork, TypeOK, BrokerTypeOK

LEMMA DelSpares ==
    ASSUME TypeOK, NEW u \in Users, SetPresence(u, FALSE)
    PROVE  \A v \in Users \ {u} : presence'[v] = presence[v]
  <1>1. presence' = presence \/ presence' = [presence EXCEPT ![u] = 0]
    BY DEF SetPresence
  <1>2. QED
    BY <1>1 DEF TypeOK, BrokerTypeOK

LEMMA DiePresence ==
    ASSUME TypeOK, PresenceInv, NEW i \in Instances, NEW how \in Dead, Die(i, how)
    PROVE  PresenceInv'
  <1> USE ConnsPlaced
  <1>1. /\ clients' = clients \ {c \in Conns : Home[c] = i}
        /\ presence' = presence
        /\ hubPc'[i] = "select" /\ unregq'[i] = <<>>
    BY DEF Die, At, TypeOK
  <1>2. \A j \in Instances \ {i} :
            /\ proc'[j] = proc[j] /\ unregq'[j] = unregq[j] /\ hubPc'[j] = hubPc[j]
            /\ hubConn'[j] = hubConn[j] /\ beat'[j] = beat[j] /\ beatTodo'[j] = beatTodo[j]
    BY DEF Die, TypeOK
  <1>3. ToSet(<<>>) = {}
    BY DEF ToSet
  <1>4. \A c \in clients' : c \in clients /\ Home[c] \in Instances \ {i}
    BY <1>1 DEF TypeOK
  <1>5. LeavingHere'
    BY <1>1, <1>2, <1>3 DEF PresenceInv, LeavingHere
  <1>6. DeadEmpty' /\ KeptOnline'
    BY <1>1, <1>2, <1>4 DEF PresenceInv, DeadEmpty, KeptOnline, Lasting
  <1>7. QED
    BY <1>5, <1>6 DEF PresenceInv

LEMMA AddPresence ==
    ASSUME TypeOK, HubInv, PresenceInv, NEW i \in Instances, AddClient(i)
    PROVE  PresenceInv'
  <1> DEFINE c == Head(regq[i])
  <1>1. /\ Selecting(i) /\ clients' = clients \cup {c}
        /\ UNCHANGED <<presence, proc, unregq, beat, beatTodo>>
        /\ \/ /\ Local(i, Owner[c]) = {}
              /\ hubPc' = [hubPc EXCEPT ![i] = "setOnline"]
              /\ hubConn' = [hubConn EXCEPT ![i] = c]
           \/ Local(i, Owner[c]) # {} /\ UNCHANGED <<hubPc, hubConn>>
    BY DEF AddClient
  <1>2. c \in Conns /\ Home[c] = i
    <2>1. c \in ToSet(regq[i])
      BY TailElements DEF AddClient, TypeOK, HubInv, RegisterFresh
    <2>2. QED
      BY <2>1, QueueElements DEF TypeOK, HubInv, RegisterFresh
  <1> HIDE DEF c
  <1>3. \A j \in Instances \ {i} : hubPc'[j] = hubPc[j] /\ hubConn'[j] = hubConn[j]
    BY <1>1 DEF TypeOK
  <1>4. \/ Local(i, Owner[c]) = {} /\ hubPc'[i] = "setOnline" /\ hubConn'[i] = c
        \/ Local(i, Owner[c]) # {} /\ hubPc'[i] = "select"
    BY <1>1 DEF TypeOK, Selecting
  <1>5. hubPc[i] = "select" /\ proc[i] \in {"up", "stopping"}
    BY <1>1 DEF Selecting
  <1>6. LeavingHere'
    BY <1>1, <1>2, <1>3, <1>4 DEF PresenceInv, LeavingHere
  <1>7. DeadEmpty'
    BY <1>1, <1>2, <1>5 DEF PresenceInv, DeadEmpty
  <1>8. \A d \in clients : proc[Home[d]] = "up" /\ Home[d] = i => Lasting(i, Owner[d])
    BY <1>5 DEF PresenceInv, KeptOnline
  <1>9. \A u \in Users, j \in Instances : Lasting(j, u)' = Lasting(j, u)
    BY <1>1 DEF Lasting
  <1>10. proc[i] = "up" => \/ Lasting(i, Owner[c])
                           \/ hubPc'[i] = "setOnline" /\ hubConn'[i] = c
    <2>1. \A d \in Local(i, Owner[c]) : d \in clients /\ Home[d] = i /\ Owner[d] = Owner[c]
      BY DEF Local, At
    <2>2. QED
      BY <1>4, <1>8, <2>1
  <1>11. ASSUME NEW d \in clients', proc'[Home[d]] = "up"
         PROVE  \/ Lasting(Home[d], Owner[d])'
                \/ (hubPc'[Home[d]] = "setOnline" /\ Owner[hubConn'[Home[d]]] = Owner[d])
    <2>1. d \in Conns /\ Home[d] \in Instances /\ Owner[d] \in Users
      BY <1>1, <1>2, ConnsPlaced DEF TypeOK
    <2>2. CASE d = c
      BY <1>1, <1>2, <1>9, <1>10, <1>11, <2>1, <2>2
    <2>3. CASE d # c /\ Home[d] = i
      BY <1>1, <1>8, <1>9, <1>11, <2>1, <2>3
    <2>4. CASE d # c /\ Home[d] # i
      BY <1>1, <1>3, <1>9, <1>11, <2>1, <2>4 DEF PresenceInv, KeptOnline
    <2>5. QED
      BY <2>2, <2>3, <2>4
  <1>12. QED
    BY <1>6, <1>7, <1>11 DEF PresenceInv, KeptOnline

LEMMA QueueEnds ==
    ASSUME NEW S, NEW q \in Seq(S), NEW c \in S
    PROVE  /\ ToSet(Append(q, c)) = ToSet(q) \cup {c}
           /\ q # <<>> => Head(q) \in ToSet(q) /\ ToSet(Tail(q)) \subseteq ToSet(q)
  <1>1. /\ DOMAIN Append(q, c) = 1 .. (Len(q) + 1) /\ DOMAIN q = 1 .. Len(q) /\ Len(q) \in Nat
        /\ \A k \in DOMAIN q : Append(q, c)[k] = q[k]
        /\ Append(q, c)[Len(q) + 1] = c
    OBVIOUS
  <1>2. DOMAIN Append(q, c) = DOMAIN q \cup {Len(q) + 1}
    BY <1>1
  <1>3. q # <<>> => /\ 1 \in DOMAIN q /\ Head(q) = q[1]
                    /\ DOMAIN Tail(q) = 1 .. (Len(q) - 1)
                    /\ \A k \in 1 .. (Len(q) - 1) : Tail(q)[k] = q[k + 1]
    OBVIOUS
  <1>4. q # <<>> => \A k \in DOMAIN Tail(q) : k + 1 \in DOMAIN q /\ Tail(q)[k] = q[k + 1]
    BY <1>1, <1>3
  <1>5. ToSet(Append(q, c)) = ToSet(q) \cup {c}
    BY <1>1, <1>2 DEF ToSet
  <1>6. q # <<>> => Head(q) \in ToSet(q) /\ ToSet(Tail(q)) \subseteq ToSet(q)
    BY <1>3, <1>4 DEF ToSet
  <1>7. QED
    BY <1>5, <1>6

\* removeClient and what follows it, up to the DEL.
LEMMA RemovePresence ==
    ASSUME OneHome, TypeOK, HubInv, PresenceInv, NEW i \in Instances,
           RemoveClient(i) \/ UnsubscribeDetach(i) \/ UnsubscribeClose(i) \/ SetOffline(i)
    PROVE  PresenceInv'
  <1> USE ConnsPlaced
  <1>1. /\ clients' \subseteq clients /\ UNCHANGED <<proc, beat, beatTodo>>
        /\ hubPc[i] # "setOnline"
        /\ \A j \in Instances \ {i} : hubPc'[j] = hubPc[j] /\ hubConn'[j] = hubConn[j]
                                      /\ unregq'[j] = unregq[j]
    <2>1. CASE RemoveClient(i)
      BY <2>1 DEF RemoveClient, Selecting, TypeOK
    <2>2. CASE UnsubscribeDetach(i) \/ UnsubscribeClose(i) \/ SetOffline(i)
      BY <2>2 DEF UnsubscribeDetach, UnsubscribeClose, SetOffline, TypeOK
    <2>3. QED
      BY <2>1, <2>2
  <1>2. \/ unregq' = unregq
        \/ /\ unregq[i] # <<>> /\ unregq'[i] = Tail(unregq[i]) /\ hubPc[i] = "select"
           /\ hubPc'[i] # "select" => hubConn'[i] = Head(unregq[i])
    BY DEF RemoveClient, Selecting, UnsubscribeDetach, UnsubscribeClose, SetOffline, TypeOK
  <1>3. \/ hubPc'[i] = "select"
        \/ hubPc[i] # "select" /\ unregq' = unregq /\ hubConn'[i] = hubConn[i]
        \/ unregq[i] # <<>> /\ hubConn'[i] = Head(unregq[i])
    <2>1. CASE RemoveClient(i)
      BY <2>1 DEF RemoveClient, Selecting, TypeOK
    <2>2. CASE UnsubscribeDetach(i) \/ UnsubscribeClose(i) \/ SetOffline(i)
      BY <2>2 DEF UnsubscribeDetach, UnsubscribeClose, SetOffline, TypeOK
    <2>3. QED
      BY <2>1, <2>2
  <1>4. /\ unregq[i] # <<>> => Head(unregq[i]) \in ToSet(unregq[i])
        /\ unregq[i] # <<>> => ToSet(Tail(unregq[i])) \subseteq ToSet(unregq[i])
    <2>1. unregq[i] \in Seq(Conns)
      BY DEF TypeOK
    <2>2. ASSUME unregq[i] # <<>>
          PROVE  Head(unregq[i]) \in Conns
      BY <2>1, <2>2
    <2>3. QED
      BY <2>1, <2>2, QueueEnds
  <1>5. LeavingHere'
    BY <1>1, <1>2, <1>3, <1>4 DEF PresenceInv, LeavingHere
  <1>6. DeadEmpty'
    BY <1>1 DEF PresenceInv, DeadEmpty
  <1>7. \A c \in clients' : presence'[Owner[c]] = presence[Owner[c]]
    <2>1. CASE SetOffline(i)
      <3>1. /\ SetPresence(Owner[hubConn[i]], FALSE)
            /\ hubPc[i] = "setOffline" /\ clients' = clients
        BY <2>1 DEF SetOffline
      <3>2. /\ hubConn[i] \in Conns /\ Home[hubConn[i]] = i
            /\ Local(i, Owner[hubConn[i]]) = {}
        BY <3>1 DEF HubInv, RemovingLast, PresenceInv, LeavingHere
      <3>3. \A c \in clients' : c \in Conns /\ Owner[c] \in Users \ {Owner[hubConn[i]]}
        BY <3>1, <3>2 DEF OneHome, Local, TypeOK, At
      <3>4. QED
        BY <3>1, <3>2, <3>3, DelSpares
    <2>2. CASE presence' = presence
      BY <2>2
    <2>3. QED
      BY <2>1, <2>2 DEF RemoveClient, UnsubscribeDetach, UnsubscribeClose, brokerVars
  <1>8. \A c \in clients' : c \in clients /\ Home[c] \in Instances
                            /\ (Lasting(Home[c], Owner[c]) => Lasting(Home[c], Owner[c])')
    BY <1>1, <1>7 DEF Lasting, TypeOK
  <1>9. KeptOnline'
    BY <1>1, <1>8 DEF PresenceInv, KeptOnline
  <1>10. QED
    BY <1>5, <1>6, <1>9 DEF PresenceInv

LEMMA OnlinePresence ==
    ASSUME SetsWork, TypeOK, HubInv, PresenceInv, NEW i \in Instances, SetOnline(i)
    PROVE  PresenceInv'
  <1> USE ConnsPlaced
  <1>1. /\ UNCHANGED <<proc, unregq, clients, beat, beatTodo>>
        /\ hubPc[i] = "setOnline" /\ hubPc'[i] = "select"
        /\ \A j \in Instances \ {i} : hubPc'[j] = hubPc[j] /\ hubConn'[j] = hubConn[j]
    BY DEF SetOnline, TypeOK
  <1>2. hubConn[i] \in Conns
    BY <1>1 DEF HubInv, RemovingLast
  <1>3. LeavingHere' /\ DeadEmpty'
    BY <1>1 DEF PresenceInv, LeavingHere, DeadEmpty
  <1>4. /\ proc[i] = "up" => presence'[Owner[hubConn[i]]] >= 2
        /\ \A u \in Users : presence'[u] = presence[u] \/ presence'[u] >= 2
    <2>1. CASE proc[i] = "up"
      BY <1>2, <2>1, SetRenews DEF SetOnline
    <2>2. CASE proc[i] # "up"
      BY <2>2 DEF SetOnline
    <2>3. QED
      BY <2>1, <2>2
  <1>5. \A c \in clients : Lasting(Home[c], Owner[c]) => Lasting(Home[c], Owner[c])'
    BY <1>1, <1>4 DEF Lasting, TypeOK
  <1>6. \A c \in clients : c \in Conns
    BY DEF TypeOK
  <1>7. KeptOnline'
    <2>1. SUFFICES ASSUME NEW c \in clients, proc[Home[c]] = "up"
                   PROVE  Lasting(Home[c], Owner[c])'
                          \/ (hubPc'[Home[c]] = "setOnline" /\ Owner[hubConn'[Home[c]]] = Owner[c])
      BY <1>1 DEF KeptOnline
    <2>2. CASE Home[c] = i /\ Owner[hubConn[i]] = Owner[c]
      BY <1>4, <2>1, <2>2 DEF Lasting
    <2>3. CASE Home[c] = i /\ Owner[hubConn[i]] # Owner[c]
      BY <1>5, <2>1, <2>3 DEF PresenceInv, KeptOnline
    <2>4. CASE Home[c] # i
      BY <1>1, <1>5, <1>6, <2>1, <2>4 DEF PresenceInv, KeptOnline
    <2>5. QED
      BY <2>2, <2>3, <2>4
  <1>8. QED
    BY <1>3, <1>7 DEF PresenceInv

LEMMA BeatPresence ==
    ASSUME SetsWork, TypeOK, PresenceInv, NEW i \in Instances, BeatStep(i)
    PROVE  PresenceInv'
  <1> USE ConnsPlaced
  <1>1. UNCHANGED <<proc, unregq, clients, hubPc, hubConn>>
    BY DEF BeatStep, BeatStart, BeatUser, BeatEnd
  <1>2. LeavingHere' /\ DeadEmpty'
    BY <1>1 DEF PresenceInv, LeavingHere, DeadEmpty
  <1>3. \A j \in Instances \ {i} : beat'[j] = beat[j] /\ beatTodo'[j] = beatTodo[j]
    BY DEF BeatStep, BeatStart, BeatUser, BeatEnd, TypeOK
  <1>4. \A c \in clients : c \in Local(Home[c], Owner[c]) /\ c \in Conns
    BY DEF Local, At, TypeOK
  <1>5. ASSUME NEW c \in clients, Lasting(Home[c], Owner[c])
        PROVE  Lasting(Home[c], Owner[c])'
    <2>1. CASE BeatStart(i)
      <3>1. /\ presence' = presence /\ beat[i] = "due" /\ beat'[i] = "beating"
            /\ beatTodo'[i] = {u \in Users : Local(i, u) # {}}
        BY <2>1 DEF BeatStart, brokerVars, TypeOK
      <3>2. Home[c] = i => Owner[c] \in beatTodo'[i]
        BY <1>4, <3>1
      <3>3. QED
        BY <1>3, <1>4, <1>5, <3>1, <3>2 DEF Lasting
    <2>2. ASSUME NEW u \in beatTodo[i], SetPresence(u, TRUE), BeatUser(i),
                 beatTodo' = [beatTodo EXCEPT ![i] = @ \ {u}]
          PROVE  Lasting(Home[c], Owner[c])'
      <3>1. u \in Users
        BY DEF TypeOK
      <3>2. beat' = beat /\ beatTodo'[i] = beatTodo[i] \ {u}
        BY <2>2 DEF BeatUser, TypeOK
      <3>3. presence'[u] >= 2 /\ \A v \in Users \ {u} : presence'[v] = presence[v]
        BY <2>2, <3>1, SetRenews
      <3>4. QED
        BY <1>3, <1>4, <1>5, <3>2, <3>3 DEF Lasting
    <2>3. CASE BeatEnd(i)
      <3>1. presence' = presence /\ beatTodo[i] = {} /\ beat[i] = "beating"
            /\ beatTodo' = beatTodo
        BY <2>3 DEF BeatEnd, brokerVars
      <3>2. QED
        BY <1>3, <1>4, <1>5, <3>1 DEF Lasting
    <2>4. QED
      BY <2>1, <2>2, <2>3 DEF BeatStep, BeatUser
  <1>6. KeptOnline'
    BY <1>1, <1>5 DEF PresenceInv, KeptOnline
  <1>7. QED
    BY <1>2, <1>6 DEF PresenceInv

LEMMA TickPresence ==
    ASSUME TypeOK, PresenceInv, Tick
    PROVE  PresenceInv'
  <1> USE ConnsPlaced
  <1>1. /\ UNCHANGED <<proc, unregq, clients, hubPc, hubConn>>
        /\ \A i \in Instances : beat[i] = "rest" /\ (proc[i] = "up" => beat'[i] = "due")
        /\ \A u \in Users : presence[u] >= 2 => presence'[u] >= 1
    BY DEF Tick, Age, TypeOK, BrokerTypeOK
  <1>2. LeavingHere' /\ DeadEmpty'
    BY <1>1 DEF PresenceInv, LeavingHere, DeadEmpty
  <1>3. ASSUME NEW c \in clients, proc[Home[c]] = "up", Lasting(Home[c], Owner[c])
        PROVE  Lasting(Home[c], Owner[c])'
    <2>1. Home[c] \in Instances /\ Owner[c] \in Users
      BY DEF TypeOK
    <2>2. presence'[Owner[c]] \in Nat
      BY <2>1, TTLAssumption DEF Tick, Age, TypeOK, BrokerTypeOK
    <2>3. QED
      BY <1>1, <1>3, <2>1, <2>2 DEF Lasting
  <1>4. KeptOnline'
    BY <1>1, <1>3 DEF PresenceInv, KeptOnline
  <1>5. QED
    BY <1>2, <1>4 DEF PresenceInv

\* What the sockets and the process do.
LEMMA RestPresence ==
    ASSUME TypeOK, HubInv, PresenceInv, NEW i \in Instances,
           \/ \E c \in Conns : Connect(c) \/ Disconnect(c)
           \/ CloseAll(i) \/ Stop(i) \/ Halt(i) \/ Restart(i)
    PROVE  PresenceInv'
  <1> USE ConnsPlaced
  <1>1. ASSUME NEW c \in Conns, Connect(c)
        PROVE  PresenceInv'
    BY <1>1, PresenceFrame DEF Connect, brokerVars
  <1>2. ASSUME NEW c \in Conns, Disconnect(c)
        PROVE  PresenceInv'
    <2>1. /\ UNCHANGED <<presence, proc, clients, hubPc, hubConn, beat, beatTodo>>
          /\ unregq'[Home[c]] = Append(unregq[Home[c]], c)
          /\ \A j \in Instances \ {Home[c]} : unregq'[j] = unregq[j]
      BY <1>2 DEF Disconnect, brokerVars, TypeOK
    <2>2. ToSet(Append(unregq[Home[c]], c)) = ToSet(unregq[Home[c]]) \cup {c}
      BY QueueEnds DEF TypeOK
    <2>3. LeavingHere'
      BY <2>1, <2>2 DEF PresenceInv, LeavingHere
    <2>4. QED
      BY <2>1, <2>3 DEF PresenceInv, DeadEmpty, KeptOnline, Lasting
  <1>3. CASE Halt(i)
    BY <1>3, DiePresence DEF Halt
  <1>4. CASE CloseAll(i) /\ ~Die(i, "panicked")
    <2>1. /\ clients' \subseteq clients /\ hubPc[i] = "select"
          /\ UNCHANGED <<presence, unregq, hubPc, hubConn, beat, beatTodo>>
          /\ proc'[i] = "stopped" /\ \A j \in Instances \ {i} : proc'[j] = proc[j]
      BY <1>4 DEF CloseAll, brokerVars, TypeOK
    <2>2. \A c \in clients' : c \in clients /\ Home[c] \in Instances
      BY <2>1 DEF TypeOK
    <2>3. QED
      BY <2>1, <2>2 DEF PresenceInv, LeavingHere, DeadEmpty, KeptOnline, Lasting
  <1>5. CASE Stop(i)
    <2>1. /\ UNCHANGED <<presence, unregq, clients, hubPc, hubConn>>
          /\ proc'[i] = "stopping"
          /\ \A j \in Instances \ {i} : proc'[j] = proc[j] /\ beat'[j] = beat[j]
                                        /\ beatTodo'[j] = beatTodo[j]
      BY <1>5 DEF Stop, brokerVars, TypeOK
    <2>2. \A c \in clients : Home[c] \in Instances
      BY DEF TypeOK
    <2>3. QED
      BY <2>1, <2>2 DEF PresenceInv, LeavingHere, DeadEmpty, KeptOnline, Lasting
  <1>6. CASE Restart(i)
    <2>1. /\ UNCHANGED <<presence, unregq, clients, hubPc, hubConn, beat, beatTodo>>
          /\ proc[i] \in Dead
          /\ proc'[i] = "up" /\ \A j \in Instances \ {i} : proc'[j] = proc[j]
      BY <1>6 DEF Restart, brokerVars, TypeOK
    <2>2. \A c \in clients : Home[c] \in Instances \ {i}
      BY <2>1 DEF TypeOK, PresenceInv, DeadEmpty
    <2>3. QED
      BY <2>1, <2>2 DEF PresenceInv, LeavingHere, DeadEmpty, KeptOnline, Lasting
  <1>7. CASE CloseAll(i) /\ Die(i, "panicked")
    BY <1>7, DiePresence
  <1>8. QED
    BY <1>1, <1>2, <1>3, <1>4, <1>5, <1>6, <1>7

LEMMA NextPresence ==
    ASSUME OneHome, SetsWork, TypeOK, HubInv, PresenceInv, [Next]_vars
    PROVE  PresenceInv'
  <1>1. ASSUME NEW c \in Conns, Connect(c) \/ Disconnect(c)
        PROVE  PresenceInv'
    BY <1>1, RestPresence, ConnsPlaced
  <1>2. ASSUME NEW c \in Conns, SubscribeStep(c)
        PROVE  PresenceInv'
    <2>1. presence' = presence
      BY <1>2 DEF SubscribeStep, Subscribe, SubscribeCheck, SubscribeDial, SubscribeStore
    <2>2. QED
      BY <1>2, <2>1, PresenceFrame DEF SubscribeStep, hubVars
  <1>3. ASSUME NEW i \in Instances, RunStep(i)
        PROVE  PresenceInv'
    BY <1>3, AddPresence, OnlinePresence, RemovePresence, RestPresence DEF RunStep
  <1>4. ASSUME NEW i \in Instances, Stop(i) \/ Halt(i) \/ Restart(i)
        PROVE  PresenceInv'
    BY <1>4, RestPresence
  <1>5. CASE UNCHANGED vars
    BY <1>5, PresenceFrame DEF vars, brokerVars, hubVars
  <1>6. QED
    BY <1>1, <1>2, <1>3, <1>4, <1>5, BeatPresence, TickPresence, MortalAssumption DEF Next

\* Where every connection of a user arrives at one instance, no SET fails and
\* a key outlives a heartbeat period, a user with a registered connection is
\* online whenever no hub is in the middle of addClient or removeClient:
\* neither the snapshot of a slow heartbeat, nor a DEL that comes late, nor a
\* crash of another instance takes the key away (hub.go:125-175, 286-325).
THEOREM OneHomeOnline ==
    ASSUME OneHome, SetsWork
    PROVE  Spec => []ConnectedIsOnline
  <1>1. Init => PresenceInv
    <2>1. ToSet(<<>>) = {}
      BY DEF ToSet
    <2>2. QED
      BY <2>1 DEF Init, BrokerInit, PresenceInv, LeavingHere, DeadEmpty, KeptOnline
  <1>2. PresenceInv /\ TypeOK /\ HubInv /\ [Next]_vars => PresenceInv'
    BY NextPresence
  <1>3. PresenceInv /\ TypeOK => ConnectedIsOnline
    <2>1. SUFFICES ASSUME PresenceInv, TypeOK, \A i \in Instances : hubPc[i] = "select",
                          NEW c \in clients, proc[Home[c]] = "up"
                   PROVE  IsOnline(Owner[c])
      BY DEF ConnectedIsOnline
    <2>2. c \in Conns /\ Home[c] \in Instances /\ Owner[c] \in Users
      BY <2>1, ConnsPlaced DEF TypeOK
    <2>3. presence[Owner[c]] \in Nat
      BY <2>1, <2>2, TTLAssumption DEF TypeOK, BrokerTypeOK
    <2>4. Lasting(Home[c], Owner[c])
      BY <2>1, <2>2 DEF PresenceInv, KeptOnline
    <2>5. QED
      BY <2>3, <2>4 DEF Lasting, IsOnline
  <1>4. QED
    BY <1>1, <1>2, <1>3, HubInvariant, PTL DEF Spec

----------------------------------------------------------------------------
(* Connections, their channels and the instance they belong to.            *)

\* Run works for connections of its own instance: one it removes has gone, and
\* one it puts online is registered.
RunPlaced ==
    \A i \in Instances :
        /\ \A c \in ToSet(unregq[i]) : Home[c] = i /\ conn[c] = "gone"
        /\ hubPc[i] # "select" => Home[hubConn[i]] = i
        /\ hubPc[i] = "setOnline" => hubConn[i] \in clients

\* A registered connection has been accepted by a process that still runs; a
\* channel is closed when its connection has gone, or its process has stopped.
ConnPlaced ==
    \A c \in Conns :
        /\ c \in clients => conn[c] # "idle" /\ proc[Home[c]] \notin Dead
        /\ conn[c] = "serving" => proc[Home[c]] \in Running
        /\ conn[c] = "idle" => chan[c] = "open"
        /\ conn[c] = "serving" /\ proc[Home[c]] \in {"up", "stopping"} => chan[c] = "open"

PlaceInv == RunPlaced /\ ConnPlaced

LEMMA PlaceFrame ==
    ASSUME PlaceInv, UNCHANGED <<proc, conn, unregq, clients, chan, hubPc, hubConn>>
    PROVE  PlaceInv'
  BY DEF PlaceInv, RunPlaced, ConnPlaced

\* The steps of Run after the critical section of addClient or removeClient.
LEMMA PlaceHandler ==
    ASSUME TypeOK, PlaceInv, NEW i \in Instances,
           SetOnline(i) \/ UnsubscribeDetach(i) \/ UnsubscribeClose(i) \/ SetOffline(i)
    PROVE  PlaceInv'
  <1>1. /\ UNCHANGED <<proc, conn, unregq, clients, chan>>
        /\ hubPc[i] # "select"
        /\ hubPc'[i] = "select" \/ (hubPc'[i] # "setOnline" /\ hubConn'[i] = hubConn[i])
        /\ \A j \in Instances \ {i} : hubPc'[j] = hubPc[j] /\ hubConn'[j] = hubConn[j]
    BY DEF SetOnline, UnsubscribeDetach, UnsubscribeClose, SetOffline, TypeOK
  <1>2. QED
    BY <1>1 DEF PlaceInv, RunPlaced, ConnPlaced

LEMMA PlaceAdd ==
    ASSUME TypeOK, HubInv, PlaceInv, NEW i \in Instances, AddClient(i)
    PROVE  PlaceInv'
  <1> DEFINE c == Head(regq[i])
  <1>1. /\ proc[i] \in {"up", "stopping"} /\ hubPc[i] = "select"
        /\ clients' = clients \cup {c}
        /\ UNCHANGED <<proc, conn, unregq, chan>>
        /\ \/ hubPc'[i] = "setOnline" /\ hubConn'[i] = c
           \/ hubPc'[i] = "select"
        /\ \A j \in Instances \ {i} : hubPc'[j] = hubPc[j] /\ hubConn'[j] = hubConn[j]
    BY DEF AddClient, Selecting, TypeOK
  <1>2. c \in Conns /\ Home[c] = i /\ conn[c] # "idle"
    <2>1. c \in ToSet(regq[i])
      BY TailElements DEF AddClient, TypeOK, HubInv, RegisterFresh
    <2>2. QED
      BY <2>1, QueueElements DEF TypeOK, HubInv, RegisterFresh
  <1> HIDE DEF c
  <1>3. RunPlaced'
    BY <1>1, <1>2 DEF PlaceInv, RunPlaced
  <1>4. ConnPlaced'
    BY <1>1, <1>2 DEF PlaceInv, ConnPlaced
  <1>5. QED
    BY <1>3, <1>4 DEF PlaceInv

LEMMA PlaceRemove ==
    ASSUME TypeOK, PlaceInv, NEW i \in Instances, RemoveClient(i)
    PROVE  PlaceInv'
  <1> DEFINE c == Head(unregq[i])
  <1>1. /\ hubPc[i] = "select" /\ unregq[i] # <<>>
        /\ clients' = clients \ {c}
        /\ chan' = [chan EXCEPT ![c] = "closed"]
        /\ unregq'[i] = Tail(unregq[i])
        /\ UNCHANGED <<proc, conn>>
        /\ \/ hubPc'[i] = "unsubscribe" /\ hubConn'[i] = c
           \/ hubPc'[i] = "select"
        /\ \A j \in Instances \ {i} :
              hubPc'[j] = hubPc[j] /\ hubConn'[j] = hubConn[j] /\ unregq'[j] = unregq[j]
    BY DEF RemoveClient, Selecting, TypeOK
  <1>2. c \in Conns /\ c \in ToSet(unregq[i]) /\ ToSet(Tail(unregq[i])) \subseteq ToSet(unregq[i])
    <2>1. unregq[i] \in Seq(Conns)
      BY DEF TypeOK
    <2>2. c \in Conns
      BY <1>1, <2>1
    <2>3. QED
      BY <1>1, <2>1, <2>2, QueueEnds
  <1> HIDE DEF c
  <1>3. Home[c] = i /\ conn[c] = "gone"
    BY <1>2 DEF PlaceInv, RunPlaced
  <1>4. RunPlaced'
    BY <1>1, <1>2, <1>3 DEF PlaceInv, RunPlaced
  <1>5. ConnPlaced'
    BY <1>1, <1>2, <1>3 DEF PlaceInv, ConnPlaced, TypeOK
  <1>6. QED
    BY <1>4, <1>5 DEF PlaceInv

LEMMA PlaceDie ==
    ASSUME TypeOK, PlaceInv, NEW i \in Instances, NEW how \in Dead, Die(i, how)
    PROVE  PlaceInv'
  <1> USE ConnsPlaced
  <1>1. /\ clients' = clients \ {c \in Conns : Home[c] = i}
        /\ chan' = chan /\ hubPc'[i] = "select" /\ unregq'[i] = <<>>
        /\ proc'[i] = how
        /\ \A c \in Conns : conn'[c] = IF Home[c] = i /\ conn[c] = "serving" THEN "gone" ELSE conn[c]
        /\ \A j \in Instances \ {i} :
              /\ proc'[j] = proc[j] /\ unregq'[j] = unregq[j]
              /\ hubPc'[j] = hubPc[j] /\ hubConn'[j] = hubConn[j]
    BY DEF Die, At, TypeOK
  <1>2. ToSet(<<>>) = {} /\ \A j \in Instances : ToSet(unregq[j]) \subseteq Conns
    BY QueueElements DEF TypeOK, ToSet
  <1>3. RunPlaced'
    <2>1. \A j \in Instances : \A c \in ToSet(unregq'[j]) : Home[c] = j /\ conn'[c] = "gone"
      BY <1>1, <1>2 DEF PlaceInv, RunPlaced
    <2>2. \A j \in Instances : /\ hubPc'[j] # "select" => Home[hubConn'[j]] = j
                               /\ hubPc'[j] = "setOnline" => hubConn'[j] \in clients'
      BY <1>1 DEF PlaceInv, RunPlaced
    <2>3. QED
      BY <2>1, <2>2 DEF RunPlaced
  <1>4. ConnPlaced'
    BY <1>1 DEF PlaceInv, ConnPlaced
  <1>5. QED
    BY <1>3, <1>4 DEF PlaceInv

LEMMA PlaceProcess ==
    ASSUME TypeOK, PlaceInv, NEW i \in Instances, CloseAll(i) \/ Stop(i) \/ Halt(i) \/ Restart(i)
    PROVE  PlaceInv'
  <1> USE ConnsPlaced
  <1>1. CASE Halt(i)
    BY <1>1, PlaceDie DEF Halt
  <1>2. CASE CloseAll(i) /\ Die(i, "panicked")
    BY <1>2, PlaceDie
  <1>3. CASE CloseAll(i) /\ ~Die(i, "panicked")
    <2>1. /\ chan' = [c \in Conns |-> IF c \in clients \cap At(i) THEN "closed" ELSE chan[c]]
          /\ clients' = clients \ (clients \cap At(i))
          /\ hubPc[i] = "select"
          /\ UNCHANGED <<conn, unregq, hubPc, hubConn>>
          /\ proc' = [proc EXCEPT ![i] = "stopped"]
      BY <1>3 DEF CloseAll
    <2>2. /\ proc'[i] = "stopped" /\ \A j \in Instances \ {i} : proc'[j] = proc[j]
          /\ \A c \in Conns : /\ c \in clients' <=> c \in clients /\ Home[c] # i
                              /\ chan'[c] = IF c \in clients /\ Home[c] = i THEN "closed" ELSE chan[c]
      BY <2>1 DEF At, TypeOK
    <2>3. RunPlaced'
      BY <2>1, <2>2 DEF PlaceInv, RunPlaced, TypeOK
    <2>4. ConnPlaced'
      BY <2>1, <2>2 DEF PlaceInv, ConnPlaced
    <2>5. QED
      BY <2>3, <2>4 DEF PlaceInv
  <1>4. CASE Stop(i)
    <2>1. /\ UNCHANGED <<conn, unregq, clients, chan, hubPc, hubConn>>
          /\ proc[i] = "up" /\ proc' = [proc EXCEPT ![i] = "stopping"]
      BY <1>4 DEF Stop
    <2>2. QED
      BY <2>1 DEF PlaceInv, RunPlaced, ConnPlaced, TypeOK
  <1>5. CASE Restart(i)
    <2>1. /\ UNCHANGED <<conn, unregq, clients, chan, hubPc, hubConn>>
          /\ proc[i] \in Dead /\ proc' = [proc EXCEPT ![i] = "up"]
      BY <1>5 DEF Restart
    <2>2. RunPlaced'
      BY <2>1 DEF PlaceInv, RunPlaced
    <2>3. ConnPlaced'
      BY <2>1 DEF PlaceInv, ConnPlaced, TypeOK
    <2>4. QED
      BY <2>2, <2>3 DEF PlaceInv
  <1>6. QED
    BY <1>1, <1>2, <1>3, <1>4, <1>5

LEMMA PlaceSocket ==
    ASSUME TypeOK, PlaceInv, NEW c \in Conns, Connect(c) \/ Disconnect(c)
    PROVE  PlaceInv'
  <1> USE ConnsPlaced
  <1>1. CASE Connect(c)
    <2>1. /\ UNCHANGED <<proc, unregq, clients, chan, hubPc, hubConn>>
          /\ conn[c] = "idle" /\ proc[Home[c]] = "up" /\ conn' = [conn EXCEPT ![c] = "serving"]
      BY <1>1 DEF Connect
    <2>2. QED
      BY <2>1 DEF PlaceInv, RunPlaced, ConnPlaced, TypeOK
  <1>2. CASE Disconnect(c)
    <2>1. /\ UNCHANGED <<proc, clients, chan, hubPc, hubConn>>
          /\ conn' = [conn EXCEPT ![c] = "gone"]
          /\ unregq'[Home[c]] = Append(unregq[Home[c]], c)
          /\ \A j \in Instances \ {Home[c]} : unregq'[j] = unregq[j]
          /\ conn[c] = "serving"
      BY <1>2 DEF Disconnect, TypeOK
    <2>2. ToSet(Append(unregq[Home[c]], c)) = ToSet(unregq[Home[c]]) \cup {c}
      BY QueueEnds DEF TypeOK
    <2>3. \A j \in Instances : \A d \in ToSet(unregq'[j]) : Home[d] = j /\ conn'[d] = "gone"
      <3>1. \A j \in Instances : ToSet(unregq[j]) \subseteq Conns
        BY QueueElements DEF TypeOK
      <3>2. \A d \in Conns : conn'[d] = IF d = c THEN "gone" ELSE conn[d]
        BY <2>1 DEF TypeOK
      <3>3. \A d \in ToSet(unregq'[Home[c]]) : d = c \/ d \in ToSet(unregq[Home[c]])
        BY <2>1, <2>2
      <3>4. \A j \in Instances : \A d \in ToSet(unregq'[j]) :
               d \in ToSet(unregq[j]) \/ (d = c /\ j = Home[c])
        <4>1. ASSUME NEW j \in Instances, j # Home[c] PROVE ToSet(unregq'[j]) = ToSet(unregq[j])
          BY <2>1, <4>1
        <4>2. QED
          BY <3>3, <4>1
      <3>5. QED
        BY <3>1, <3>2, <3>4 DEF PlaceInv, RunPlaced
    <2>4. RunPlaced'
      BY <2>1, <2>3 DEF PlaceInv, RunPlaced
    <2>5. ConnPlaced'
      BY <2>1 DEF PlaceInv, ConnPlaced, TypeOK
    <2>6. QED
      BY <2>4, <2>5 DEF PlaceInv
  <1>3. QED
    BY <1>1, <1>2

LEMMA PlaceNext ==
    ASSUME TypeOK, HubInv, PlaceInv, [Next]_vars
    PROVE  PlaceInv'
  <1>1. ASSUME NEW s \in Conns, SubscribeStep(s)
        PROVE  PlaceInv'
    BY <1>1, PlaceFrame DEF SubscribeStep, hubVars
  <1>2. ASSUME NEW i \in Instances, BeatStep(i)
        PROVE  PlaceInv'
    BY <1>2, PlaceFrame DEF BeatStep, BeatStart, BeatUser, BeatEnd
  <1>3. CASE Tick \/ UNCHANGED vars
    BY <1>3, PlaceFrame DEF Tick, vars, hubVars
  <1>4. QED
    BY <1>1, <1>2, <1>3, PlaceHandler, PlaceAdd, PlaceRemove, PlaceProcess, PlaceSocket,
       MortalAssumption DEF Next, RunStep

LEMMA PlaceInvariant == Spec => []PlaceInv
  <1>1. Init => PlaceInv
    <2>1. ToSet(<<>>) = {}
      BY DEF ToSet
    <2>2. QED
      BY <2>1 DEF Init, PlaceInv, RunPlaced, ConnPlaced
  <1>2. TypeOK /\ HubInv /\ PlaceInv /\ [Next]_vars => PlaceInv'
    BY PlaceNext
  <1>3. QED
    BY <1>1, <1>2, HubInvariant, PTL DEF Spec

\* While its process has not stopped, a connection whose read loop runs has an
\* open channel: deliverLocal can be brought down only by one that has gone
\* (hub.go:150-195).
THEOREM LiveChannelsAreOpen == Spec => []LiveChannelsOpen
  <1>1. PlaceInv => LiveChannelsOpen
    BY DEF PlaceInv, ConnPlaced, LiveChannelsOpen
  <1>2. QED
    BY <1>1, PlaceInvariant, PTL

----------------------------------------------------------------------------
(* Ghosts.                                                                 *)

\* An unregister that waits is the only one of its connection, and the channel
\* it is to close is open, unless closeAll was there first; after closeAll no
\* client is registered.
GhostInv ==
    /\ \A i \in Instances :
          /\ IsInjective(unregq[i])
          /\ \A c \in ToSet(unregq[i]) : chan[c] = "open" \/ proc[i] = "stopped"
    /\ \A c \in clients : proc[Home[c]] # "stopped"

LEMMA GhostFrame ==
    ASSUME GhostInv, UNCHANGED <<proc, unregq, clients, chan>>
    PROVE  GhostInv'
  BY DEF GhostInv

LEMMA GhostAdd ==
    ASSUME TypeOK, HubInv, GhostInv, NEW i \in Instances, AddClient(i)
    PROVE  GhostInv'
  <1> DEFINE c == Head(regq[i])
  <1>1. /\ proc[i] \in {"up", "stopping"}
        /\ clients' = clients \cup {c}
        /\ UNCHANGED <<proc, unregq, chan>>
    BY DEF AddClient, Selecting
  <1>2. Home[c] = i
    BY TailElements DEF AddClient, TypeOK, HubInv, RegisterFresh
  <1> HIDE DEF c
  <1>3. QED
    BY <1>1, <1>2 DEF GhostInv

LEMMA GhostRemove ==
    ASSUME TypeOK, PlaceInv, GhostInv, NEW i \in Instances, RemoveClient(i)
    PROVE  GhostInv'
  <1> DEFINE c == Head(unregq[i])
  <1>1. /\ unregq[i] \in Seq(Conns) /\ unregq[i] # <<>> /\ IsInjective(unregq[i])
        /\ clients' = clients \ {c}
        /\ chan' = [chan EXCEPT ![c] = "closed"]
        /\ unregq'[i] = Tail(unregq[i])
        /\ proc' = proc
        /\ \A j \in Instances \ {i} : unregq'[j] = unregq[j]
    BY DEF RemoveClient, TypeOK, GhostInv
  <1>2. /\ c \in Conns /\ c \in ToSet(unregq[i])
        /\ ToSet(Tail(unregq[i])) \subseteq ToSet(unregq[i]) \ {c}
        /\ IsInjective(Tail(unregq[i]))
    BY <1>1, TailElements
  <1> HIDE DEF c
  <1>3. \A j \in Instances \ {i} : c \notin ToSet(unregq[j])
    BY <1>2 DEF PlaceInv, RunPlaced
  <1>4. \A j \in Instances : ToSet(unregq'[j]) \subseteq ToSet(unregq[j]) \ {c}
    BY <1>1, <1>2, <1>3
  <1>5. \A d \in Conns \ {c} : chan'[d] = chan[d]
    BY <1>1 DEF TypeOK
  <1>6. \A j \in Instances : ToSet(unregq[j]) \subseteq Conns
    BY QueueElements DEF TypeOK
  <1>7. \A j \in Instances : IsInjective(unregq'[j])
    BY <1>1, <1>2 DEF GhostInv
  <1>8. \A j \in Instances : \A d \in ToSet(unregq'[j]) : chan'[d] = "open" \/ proc'[j] = "stopped"
    BY <1>1, <1>4, <1>5, <1>6 DEF GhostInv
  <1>9. QED
    BY <1>1, <1>7, <1>8 DEF GhostInv

LEMMA GhostDie ==
    ASSUME TypeOK, GhostInv, NEW i \in Instances, NEW how \in Dead, Die(i, how)
    PROVE  GhostInv'
  <1>1. /\ clients' = clients \ {c \in Conns : Home[c] = i}
        /\ chan' = chan /\ unregq'[i] = <<>> /\ proc'[i] = how
        /\ \A j \in Instances \ {i} : proc'[j] = proc[j] /\ unregq'[j] = unregq[j]
    BY DEF Die, At, TypeOK
  <1>2. ToSet(<<>>) = {} /\ IsInjective(<<>>)
    BY DEF ToSet, IsInjective
  <1>3. \A c \in clients : Home[c] \in Instances
    BY ConnsPlaced DEF TypeOK
  <1>4. QED
    BY <1>1, <1>2, <1>3 DEF GhostInv, TypeOK

LEMMA GhostProcess ==
    ASSUME TypeOK, PlaceInv, GhostInv, NEW i \in Instances, CloseAll(i) \/ Stop(i) \/ Halt(i) \/ Restart(i)
    PROVE  GhostInv'
  <1> USE ConnsPlaced
  <1>1. CASE Halt(i)
    BY <1>1, GhostDie DEF Halt
  <1>2. CASE CloseAll(i) /\ Die(i, "panicked")
    BY <1>2, GhostDie
  <1>3. CASE CloseAll(i) /\ ~Die(i, "panicked")
    <2>1. /\ chan' = [c \in Conns |-> IF c \in clients \cap At(i) THEN "closed" ELSE chan[c]]
          /\ clients' = clients \ (clients \cap At(i))
          /\ unregq' = unregq
          /\ proc' = [proc EXCEPT ![i] = "stopped"]
      BY <1>3 DEF CloseAll
    <2>2. /\ proc'[i] = "stopped" /\ \A j \in Instances \ {i} : proc'[j] = proc[j]
          /\ \A c \in Conns : /\ c \in clients' <=> c \in clients /\ Home[c] # i
                              /\ chan'[c] = IF c \in clients /\ Home[c] = i THEN "closed" ELSE chan[c]
      BY <2>1 DEF At, TypeOK
    <2>3. \A j \in Instances : ToSet(unregq[j]) \subseteq Conns
      BY QueueElements DEF TypeOK
    <2>4. ASSUME NEW j \in Instances, NEW c \in ToSet(unregq[j])
          PROVE  chan'[c] = "open" \/ proc'[j] = "stopped"
      <3>1. Home[c] = j /\ c \in Conns
        BY <2>3, <2>4 DEF PlaceInv, RunPlaced
      <3>2. QED
        BY <2>2, <2>4, <3>1 DEF GhostInv
    <2>5. \A c \in clients' : proc'[Home[c]] # "stopped"
      BY <2>1, <2>2 DEF GhostInv, TypeOK
    <2>6. QED
      BY <2>1, <2>4, <2>5 DEF GhostInv
  <1>4. CASE Stop(i)
    <2>1. /\ UNCHANGED <<unregq, clients, chan>>
          /\ proc[i] = "up" /\ proc' = [proc EXCEPT ![i] = "stopping"]
      BY <1>4 DEF Stop
    <2>2. QED
      BY <2>1 DEF GhostInv, TypeOK
  <1>5. CASE Restart(i)
    <2>1. /\ UNCHANGED <<unregq, clients, chan>>
          /\ proc[i] # "stopped" /\ proc'[i] = "up"
          /\ \A j \in Instances \ {i} : proc'[j] = proc[j]
      BY <1>5 DEF Restart, TypeOK, Dead
    <2>2. \A c \in clients : Home[c] \in Instances
      BY DEF TypeOK
    <2>3. QED
      BY <2>1, <2>2 DEF GhostInv
  <1>6. QED
    BY <1>1, <1>2, <1>3, <1>4, <1>5

LEMMA GhostDisconnect ==
    ASSUME TypeOK, PlaceInv, GhostInv, NEW c \in Conns, Disconnect(c)
    PROVE  GhostInv'
  <1> USE ConnsPlaced
  <1>1. /\ UNCHANGED <<proc, clients, chan>>
        /\ unregq'[Home[c]] = Append(unregq[Home[c]], c)
        /\ \A j \in Instances \ {Home[c]} : unregq'[j] = unregq[j]
        /\ conn[c] = "serving" /\ proc[Home[c]] \in Running
    BY DEF Disconnect, TypeOK
  <1>2. unregq[Home[c]] \in Seq(Conns) /\ IsInjective(unregq[Home[c]])
    BY DEF TypeOK, GhostInv
  <1>3. c \notin ToSet(unregq[Home[c]])
    BY <1>1 DEF PlaceInv, RunPlaced
  <1>4. /\ ToSet(unregq'[Home[c]]) = ToSet(unregq[Home[c]]) \cup {c}
        /\ IsInjective(unregq'[Home[c]])
    BY <1>1, <1>2, <1>3, AppendElements
  <1>5. chan[c] = "open" \/ proc[Home[c]] = "stopped"
    BY <1>1 DEF PlaceInv, ConnPlaced, Running
  <1>6. QED
    BY <1>1, <1>4, <1>5 DEF GhostInv

LEMMA GhostNext ==
    ASSUME TypeOK, HubInv, PlaceInv, GhostInv, [Next]_vars
    PROVE  GhostInv'
  <1>1. ASSUME NEW s \in Conns, SubscribeStep(s) \/ Connect(s)
        PROVE  GhostInv'
    BY <1>1, GhostFrame DEF SubscribeStep, hubVars, Connect
  <1>2. ASSUME NEW i \in Instances, BeatStep(i)
        PROVE  GhostInv'
    BY <1>2, GhostFrame DEF BeatStep, BeatStart, BeatUser, BeatEnd
  <1>3. ASSUME NEW i \in Instances,
               SetOnline(i) \/ UnsubscribeDetach(i) \/ UnsubscribeClose(i) \/ SetOffline(i)
        PROVE  GhostInv'
    BY <1>3, GhostFrame DEF SetOnline, UnsubscribeDetach, UnsubscribeClose, SetOffline
  <1>4. CASE Tick \/ UNCHANGED vars
    BY <1>4, GhostFrame DEF Tick, vars, hubVars
  <1>5. QED
    BY <1>1, <1>2, <1>3, <1>4, GhostAdd, GhostRemove, GhostProcess, GhostDisconnect,
       MortalAssumption DEF Next, RunStep

\* A registered client whose channel is closed is a ghost: only a client whose
\* unregister was taken before its register can make closeAll panic
\* (hub.go:87-96, 197-207).
THEOREM OnlyGhostsClosed == Spec => []OnlyGhostsAreClosed
  <1>1. Init => GhostInv
    <2>1. ToSet(<<>>) = {} /\ IsInjective(<<>>)
      BY DEF ToSet, IsInjective
    <2>2. QED
      BY <2>1 DEF Init, GhostInv
  <1>2. TypeOK /\ HubInv /\ PlaceInv /\ GhostInv /\ [Next]_vars => GhostInv'
    BY GhostNext
  <1>3. TypeOK /\ PlaceInv /\ GhostInv => OnlyGhostsAreClosed
    <2>1. SUFFICES ASSUME TypeOK, PlaceInv, GhostInv, NEW c \in clients, chan[c] = "closed"
                   PROVE  Ghost(c)
      BY DEF OnlyGhostsAreClosed
    <2>2. c \in Conns /\ Home[c] \in Instances /\ proc[Home[c]] \in {"up", "stopping"}
      BY <2>1, ConnsPlaced DEF TypeOK, PlaceInv, ConnPlaced, GhostInv, Running
    <2>3. conn[c] = "gone"
      BY <2>1, <2>2 DEF TypeOK, PlaceInv, ConnPlaced
    <2>4. c \notin ToSet(unregq[Home[c]])
      BY <2>1, <2>2 DEF GhostInv
    <2>5. QED
      BY <2>1, <2>3, <2>4 DEF Ghost
  <1>4. QED
    BY <1>1, <1>2, <1>3, HubInvariant, PlaceInvariant, PTL DEF Spec

----------------------------------------------------------------------------
(* Presence, with connections of a user at any number of instances.        *)

\* The key of u is not there, or lives until the heartbeat of i renews it.
Alive(i, u) == presence[u] = 0 \/ Lasting(i, u)

\* addClient of instance i is about to set the key of u.
Adding(i, u) == hubPc[i] = "setOnline" /\ Owner[hubConn[i]] = u

KeptAlive ==
    \A c \in clients : proc[Home[c]] = "up" =>
        Alive(Home[c], Owner[c]) \/ Adding(Home[c], Owner[c])

\* A step that registers nobody keeps KeptAlive if it keeps it for each client.
LEMMA AliveFrame ==
    ASSUME KeptAlive, clients' \subseteq clients,
           \A c \in clients' : proc'[Home[c]] = "up" =>
               /\ proc[Home[c]] = "up"
               /\ Alive(Home[c], Owner[c]) => Alive(Home[c], Owner[c])'
               /\ Adding(Home[c], Owner[c]) =>
                     Adding(Home[c], Owner[c])' \/ Alive(Home[c], Owner[c])'
    PROVE  KeptAlive'
  BY DEF KeptAlive

LEMMA AliveStays ==
    ASSUME KeptAlive, UNCHANGED <<presence, proc, clients, hubPc, hubConn, beat, beatTodo>>
    PROVE  KeptAlive'
  BY DEF KeptAlive, Alive, Lasting, Adding

LEMMA AliveAdd ==
    ASSUME TypeOK, HubInv, KeptAlive, NEW i \in Instances, AddClient(i)
    PROVE  KeptAlive'
  <1> USE ConnsPlaced
  <1> DEFINE c == Head(regq[i])
  <1>1. /\ hubPc[i] = "select" /\ clients' = clients \cup {c}
        /\ UNCHANGED <<presence, proc, beat, beatTodo>>
        /\ \/ /\ Local(i, Owner[c]) = {}
              /\ hubPc'[i] = "setOnline" /\ hubConn'[i] = c
           \/ Local(i, Owner[c]) # {} /\ hubPc'[i] = "select"
        /\ \A j \in Instances \ {i} : hubPc'[j] = hubPc[j] /\ hubConn'[j] = hubConn[j]
    BY DEF AddClient, Selecting, TypeOK
  <1>2. c \in Conns /\ Home[c] = i
    <2>1. c \in ToSet(regq[i])
      BY TailElements DEF AddClient, TypeOK, HubInv, RegisterFresh
    <2>2. QED
      BY <2>1, QueueElements DEF TypeOK, HubInv, RegisterFresh
  <1> HIDE DEF c
  <1>3. \A u \in Users, j \in Instances : Alive(j, u)' = Alive(j, u)
    BY <1>1 DEF Alive, Lasting
  <1>4. \A d \in clients : d \in Conns /\ (Home[d] = i /\ proc[i] = "up" => Alive(i, Owner[d]))
    BY <1>1 DEF KeptAlive, Adding, TypeOK
  <1>5. \/ proc[i] # "up" \/ Alive(i, Owner[c])
        \/ hubPc'[i] = "setOnline" /\ Owner[hubConn'[i]] = Owner[c]
    <2>1. \A d \in Local(i, Owner[c]) : d \in clients /\ Home[d] = i /\ Owner[d] = Owner[c]
      BY DEF Local
    <2>2. CASE Local(i, Owner[c]) = {}
      BY <1>1, <2>2
    <2>3. CASE Local(i, Owner[c]) # {}
      <3>1. PICK d \in Local(i, Owner[c]) : TRUE
        BY <2>3
      <3>2. QED
        BY <1>4, <2>1, <3>1
    <2>4. QED
      BY <2>2, <2>3
  <1>6. ASSUME NEW d \in clients', proc'[Home[d]] = "up"
        PROVE  Alive(Home[d], Owner[d])' \/ Adding(Home[d], Owner[d])'
    <2>1. CASE d = c
      <3>1. Home[d] = i /\ proc[i] = "up" /\ Owner[d] \in Users
        BY <1>1, <1>2, <1>6, <2>1
      <3>2. Alive(i, Owner[d]) \/ (hubPc'[i] = "setOnline" /\ Owner[hubConn'[i]] = Owner[d])
        BY <1>5, <2>1, <3>1
      <3>3. Alive(i, Owner[d])' \/ Adding(i, Owner[d])'
        BY <1>3, <3>1, <3>2 DEF Adding
      <3>4. QED
        BY <3>1, <3>3
    <2>2. CASE d # c /\ Home[d] = i
      BY <1>1, <1>3, <1>4, <1>6, <2>2
    <2>3. CASE d # c /\ Home[d] # i
      <3>1. d \in clients /\ Home[d] \in Instances \ {i} /\ Owner[d] \in Users
        BY <1>1, <1>4, <2>3
      <3>2. Alive(Home[d], Owner[d]) \/ Adding(Home[d], Owner[d])
        BY <1>1, <1>6, <3>1 DEF KeptAlive
      <3>3. QED
        BY <1>1, <1>3, <3>1, <3>2 DEF Adding
    <2>4. QED
      BY <2>1, <2>2, <2>3
  <1>7. QED
    BY <1>6 DEF KeptAlive

\* A SET renews the key it sets, a DEL leaves nothing to be kept.
LEMMA AliveSet ==
    ASSUME SetsWork, TypeOK, HubInv, KeptAlive, NEW i \in Instances, SetOnline(i)
    PROVE  KeptAlive'
  <1> USE ConnsPlaced
  <1>1. /\ UNCHANGED <<proc, clients, beat, beatTodo>>
        /\ hubPc[i] = "setOnline"
        /\ \A j \in Instances \ {i} : hubPc'[j] = hubPc[j] /\ hubConn'[j] = hubConn[j]
    BY DEF SetOnline, TypeOK
  <1>2. Owner[hubConn[i]] \in Users
    BY <1>1 DEF HubInv, RemovingLast
  <1>3. /\ proc[i] = "up" => presence'[Owner[hubConn[i]]] >= 2
        /\ \A u \in Users : presence'[u] = presence[u] \/ presence'[u] >= 2
    <2>1. CASE proc[i] = "up"
      BY <1>2, <2>1, SetRenews DEF SetOnline
    <2>2. CASE proc[i] # "up"
      BY <2>2 DEF SetOnline
    <2>3. QED
      BY <2>1, <2>2
  <1>4. \A c \in clients : c \in Conns
    BY DEF TypeOK
  <1>5. \A c \in clients : Alive(Home[c], Owner[c]) => Alive(Home[c], Owner[c])'
    BY <1>1, <1>3, <1>4 DEF Alive, Lasting
  <1>6. ASSUME NEW c \in clients, proc[Home[c]] = "up", Adding(Home[c], Owner[c])
        PROVE  Adding(Home[c], Owner[c])' \/ Alive(Home[c], Owner[c])'
    <2>1. CASE Home[c] = i
      BY <1>3, <1>6, <2>1 DEF Adding, Alive, Lasting
    <2>2. CASE Home[c] # i
      BY <1>1, <1>4, <1>6, <2>2 DEF Adding
    <2>3. QED
      BY <2>1, <2>2
  <1>7. QED
    BY <1>1, <1>5, <1>6, AliveFrame

LEMMA AliveRemove ==
    ASSUME TypeOK, HubInv, KeptAlive, NEW i \in Instances,
           RemoveClient(i) \/ UnsubscribeDetach(i) \/ UnsubscribeClose(i) \/ SetOffline(i)
    PROVE  KeptAlive'
  <1> USE ConnsPlaced
  <1>1. /\ clients' \subseteq clients /\ UNCHANGED <<proc, beat, beatTodo>>
        /\ hubPc[i] # "setOnline"
        /\ \A j \in Instances \ {i} : hubPc'[j] = hubPc[j] /\ hubConn'[j] = hubConn[j]
    <2>1. CASE RemoveClient(i)
      BY <2>1 DEF RemoveClient, Selecting, TypeOK
    <2>2. CASE UnsubscribeDetach(i) \/ UnsubscribeClose(i) \/ SetOffline(i)
      BY <2>2 DEF UnsubscribeDetach, UnsubscribeClose, SetOffline, TypeOK
    <2>3. QED
      BY <2>1, <2>2
  <1>2. \A u \in Users : presence'[u] = presence[u] \/ presence'[u] = 0
    <2>1. CASE SetOffline(i)
      <3>1. presence' = presence \/ presence' = [presence EXCEPT ![Owner[hubConn[i]]] = 0]
        BY <2>1 DEF SetOffline, SetPresence
      <3>2. QED
        BY <3>1 DEF TypeOK, BrokerTypeOK
    <2>2. CASE ~SetOffline(i)
      BY <2>2 DEF RemoveClient, UnsubscribeDetach, UnsubscribeClose, brokerVars
    <2>3. QED
      BY <2>1, <2>2
  <1>3. \A c \in clients : c \in Conns
    BY DEF TypeOK
  <1>4. \A c \in clients : /\ Alive(Home[c], Owner[c]) => Alive(Home[c], Owner[c])'
                           /\ Adding(Home[c], Owner[c]) => Adding(Home[c], Owner[c])'
    BY <1>1, <1>2, <1>3 DEF Alive, Lasting, Adding
  <1>5. QED
    BY <1>1, <1>4, AliveFrame

LEMMA AliveBeat ==
    ASSUME SetsWork, TypeOK, KeptAlive, NEW i \in Instances, BeatStep(i)
    PROVE  KeptAlive'
  <1> USE ConnsPlaced
  <1>1. UNCHANGED <<proc, clients, hubPc, hubConn>>
    BY DEF BeatStep, BeatStart, BeatUser, BeatEnd
  <1>2. \A j \in Instances \ {i} : beat'[j] = beat[j] /\ beatTodo'[j] = beatTodo[j]
    BY DEF BeatStep, BeatStart, BeatUser, BeatEnd, TypeOK
  <1>3. \A c \in clients : c \in Local(Home[c], Owner[c]) /\ c \in Conns
    BY DEF Local, TypeOK
  <1>4. ASSUME NEW c \in clients, Alive(Home[c], Owner[c])
        PROVE  Alive(Home[c], Owner[c])'
    <2>1. CASE BeatStart(i)
      <3>1. /\ presence' = presence /\ beat'[i] = "beating"
            /\ beatTodo'[i] = {u \in Users : Local(i, u) # {}}
        BY <2>1 DEF BeatStart, brokerVars, TypeOK
      <3>2. Home[c] = i => Owner[c] \in beatTodo'[i]
        BY <1>3, <3>1
      <3>3. QED
        BY <1>2, <1>3, <1>4, <3>1, <3>2 DEF Alive, Lasting
    <2>2. ASSUME NEW u \in beatTodo[i], SetPresence(u, TRUE), BeatUser(i),
                 beatTodo' = [beatTodo EXCEPT ![i] = @ \ {u}]
          PROVE  Alive(Home[c], Owner[c])'
      <3>1. u \in Users
        BY DEF TypeOK
      <3>2. beat' = beat /\ beatTodo'[i] = beatTodo[i] \ {u}
        BY <2>2 DEF BeatUser, TypeOK
      <3>3. presence'[u] >= 2 /\ \A v \in Users \ {u} : presence'[v] = presence[v]
        BY <2>2, <3>1, SetRenews
      <3>4. QED
        BY <1>2, <1>3, <1>4, <3>2, <3>3 DEF Alive, Lasting
    <2>3. CASE BeatEnd(i)
      <3>1. presence' = presence /\ beatTodo[i] = {} /\ beat[i] = "beating"
            /\ beatTodo' = beatTodo
        BY <2>3 DEF BeatEnd, brokerVars
      <3>2. QED
        BY <1>2, <1>3, <1>4, <3>1 DEF Alive, Lasting
    <2>4. QED
      BY <2>1, <2>2, <2>3 DEF BeatStep, BeatUser
  <1>5. QED
    BY <1>1, <1>4, AliveFrame DEF Adding

LEMMA AliveTick ==
    ASSUME TypeOK, KeptAlive, Tick
    PROVE  KeptAlive'
  <1> USE ConnsPlaced
  <1>1. /\ UNCHANGED <<proc, clients, hubPc, hubConn>>
        /\ \A i \in Instances : beat[i] = "rest" /\ (proc[i] = "up" => beat'[i] = "due")
        /\ \A u \in Users : /\ presence[u] \in Nat /\ presence'[u] \in Nat
                            /\ presence[u] = 0 => presence'[u] = 0
    BY TTLAssumption DEF Tick, Age, TypeOK, BrokerTypeOK
  <1>2. ASSUME NEW c \in clients, proc[Home[c]] = "up"
        PROVE  Alive(Home[c], Owner[c])'
    <2>1. Home[c] \in Instances /\ Owner[c] \in Users
      BY DEF TypeOK
    <2>2. QED
      BY <1>1, <1>2, <2>1 DEF Alive, Lasting
  <1>3. QED
    BY <1>1, <1>2 DEF KeptAlive

LEMMA AliveProcess ==
    ASSUME TypeOK, PlaceInv, KeptAlive, NEW i \in Instances,
           CloseAll(i) \/ Stop(i) \/ Halt(i) \/ Restart(i)
    PROVE  KeptAlive'
  <1> USE ConnsPlaced
  <1>1. ASSUME NEW how \in Dead, Die(i, how)
        PROVE  KeptAlive'
    <2>1. /\ clients' = clients \ {c \in Conns : Home[c] = i} /\ presence' = presence
          /\ \A j \in Instances \ {i} :
                /\ proc'[j] = proc[j] /\ hubPc'[j] = hubPc[j] /\ hubConn'[j] = hubConn[j]
                /\ beat'[j] = beat[j] /\ beatTodo'[j] = beatTodo[j]
      BY <1>1 DEF Die, At, TypeOK
    <2>2. \A c \in clients' : c \in clients /\ Home[c] \in Instances \ {i}
      BY <2>1 DEF TypeOK
    <2>3. QED
      BY <2>1, <2>2 DEF KeptAlive, Alive, Lasting, Adding
  <1>2. CASE CloseAll(i) /\ ~Die(i, "panicked")
    <2>1. /\ clients' \subseteq clients /\ UNCHANGED <<presence, hubPc, hubConn, beat, beatTodo>>
          /\ proc'[i] = "stopped" /\ \A j \in Instances \ {i} : proc'[j] = proc[j]
      BY <1>2 DEF CloseAll, brokerVars, TypeOK
    <2>2. \A c \in clients' : c \in clients /\ Home[c] \in Instances
      BY <2>1 DEF TypeOK
    <2>3. QED
      BY <2>1, <2>2 DEF KeptAlive, Alive, Lasting, Adding
  <1>3. CASE Stop(i)
    <2>1. /\ UNCHANGED <<presence, clients, hubPc, hubConn>>
          /\ proc'[i] = "stopping"
          /\ \A j \in Instances \ {i} : proc'[j] = proc[j] /\ beat'[j] = beat[j]
                                        /\ beatTodo'[j] = beatTodo[j]
      BY <1>3 DEF Stop, brokerVars, TypeOK
    <2>2. \A c \in clients : Home[c] \in Instances
      BY DEF TypeOK
    <2>3. QED
      BY <2>1, <2>2 DEF KeptAlive, Alive, Lasting, Adding
  <1>4. CASE Restart(i)
    <2>1. /\ UNCHANGED <<presence, clients, hubPc, hubConn, beat, beatTodo>>
          /\ proc[i] \in Dead
          /\ \A j \in Instances \ {i} : proc'[j] = proc[j]
      BY <1>4 DEF Restart, brokerVars, TypeOK
    <2>2. \A c \in clients : Home[c] \in Instances \ {i}
      BY <2>1 DEF TypeOK, PlaceInv, ConnPlaced
    <2>3. QED
      BY <2>1, <2>2 DEF KeptAlive, Alive, Lasting, Adding
  <1>5. QED
    BY <1>1, <1>2, <1>3, <1>4 DEF CloseAll, Halt

LEMMA AliveNext ==
    ASSUME SetsWork, TypeOK, HubInv, PlaceInv, KeptAlive, [Next]_vars
    PROVE  KeptAlive'
  <1>1. ASSUME NEW c \in Conns, Connect(c) \/ Disconnect(c)
        PROVE  KeptAlive'
    BY <1>1, AliveStays DEF Connect, Disconnect, brokerVars
  <1>2. ASSUME NEW c \in Conns, SubscribeStep(c)
        PROVE  KeptAlive'
    <2>1. presence' = presence
      BY <1>2 DEF SubscribeStep, Subscribe, SubscribeCheck, SubscribeDial, SubscribeStore
    <2>2. QED
      BY <1>2, <2>1, AliveStays DEF SubscribeStep, hubVars
  <1>3. ASSUME NEW i \in Instances, RunStep(i)
        PROVE  KeptAlive'
    BY <1>3, AliveAdd, AliveSet, AliveRemove, AliveProcess DEF RunStep
  <1>4. CASE UNCHANGED vars
    BY <1>4, AliveStays DEF vars, brokerVars, hubVars
  <1>5. QED
    BY <1>1, <1>2, <1>3, <1>4, AliveProcess, AliveBeat, AliveTick, MortalAssumption DEF Next


\* From the moment its user's key is set, a connection of a running instance is
\* covered: the key is renewed before it can run out, or is not there.
LEMMA AliveInvariant ==
    ASSUME SetsWork
    PROVE  Spec => []KeptAlive
  <1>1. Init => KeptAlive
    BY DEF Init, KeptAlive
  <1>2. TypeOK /\ HubInv /\ PlaceInv /\ KeptAlive /\ [Next]_vars => KeptAlive'
    BY AliveNext
  <1>3. QED
    BY <1>1, <1>2, HubInvariant, PlaceInvariant, PTL DEF Spec

\* Presence is written by addClient, removeClient, the heartbeat and the clock.
LEMMA PresenceWriters ==
    ASSUME [Next]_vars
    PROVE  \/ presence' = presence
           \/ \E i \in Instances : SetOnline(i) \/ SetOffline(i) \/ BeatUser(i)
           \/ Tick
  <1>1. ASSUME NEW c \in Conns, Connect(c) \/ Disconnect(c) \/ SubscribeStep(c)
        PROVE  presence' = presence
    BY <1>1 DEF Connect, Disconnect, SubscribeStep, Subscribe, SubscribeCheck, SubscribeDial,
                SubscribeStore, brokerVars
  <1>2. ASSUME NEW i \in Instances,
               \/ AddClient(i) \/ RemoveClient(i) \/ UnsubscribeDetach(i) \/ UnsubscribeClose(i)
               \/ CloseAll(i) \/ BeatStart(i) \/ BeatEnd(i)
               \/ Stop(i) \/ Halt(i) \/ Restart(i)
        PROVE  presence' = presence
    BY <1>2 DEF AddClient, RemoveClient, UnsubscribeDetach, UnsubscribeClose, CloseAll, Die,
                BeatStart, BeatEnd, Stop, Halt, Restart, brokerVars
  <1>3. CASE UNCHANGED vars
    BY <1>3 DEF vars, brokerVars
  <1>4. QED
    BY <1>1, <1>2, <1>3, MortalAssumption DEF Next, RunStep, BeatStep

\* A snapshot of the heartbeat is written by the heartbeat, or goes with it.
LEMMA SnapshotWriters ==
    ASSUME [Next]_vars
    PROVE  \/ beatTodo' = beatTodo
           \/ \E j \in Instances : \/ BeatStart(j) \/ BeatUser(j) \/ Stop(j)
                                   \/ \E how \in Dead : Die(j, how)
  <1>1. ASSUME NEW c \in Conns, Connect(c) \/ Disconnect(c) \/ SubscribeStep(c)
        PROVE  beatTodo' = beatTodo
    BY <1>1 DEF Connect, Disconnect, SubscribeStep, hubVars
  <1>2. ASSUME NEW i \in Instances,
               \/ AddClient(i) \/ SetOnline(i) \/ RemoveClient(i) \/ UnsubscribeDetach(i)
               \/ UnsubscribeClose(i) \/ SetOffline(i) \/ BeatEnd(i) \/ Restart(i)
        PROVE  beatTodo' = beatTodo
    BY <1>2 DEF AddClient, SetOnline, RemoveClient, UnsubscribeDetach, UnsubscribeClose,
                SetOffline, BeatEnd, Restart
  <1>3. ASSUME NEW i \in Instances, CloseAll(i) \/ Halt(i)
        PROVE  beatTodo' = beatTodo \/ \E how \in Dead : Die(i, how)
    BY <1>3 DEF CloseAll, Halt, Dead
  <1>4. CASE Tick \/ UNCHANGED vars
    BY <1>4 DEF Tick, vars, hubVars
  <1>5. QED
    BY <1>1, <1>2, <1>3, <1>4, MortalAssumption DEF Next, RunStep, BeatStep

\* What one SET or DEL does to the key of another user, and to its own.
LEMMA OneKeyWritten ==
    ASSUME TypeOK, NEW u \in Users, NEW online \in BOOLEAN, SetPresence(u, online)
    PROVE  /\ \A v \in Users \ {u} : presence'[v] = presence[v]
           /\ online => presence'[u] = presence[u] \/ presence'[u] = TTL
           /\ ~online => presence'[u] = presence[u] \/ presence'[u] = 0
  BY DEF SetPresence, TypeOK, BrokerTypeOK

\* Where SETs work and a key outlives a period, the key of a connected user is
\* taken by an instance the user has left, and by nothing else (hub.go:125-175,
\* 298-325).  OneHome makes that impossible too: OneHomeOnline.
THEOREM OnlyOthersTakeTheKey ==
    ASSUME SetsWork
    PROVE  Spec => OnlyOthersTakeIt
  <1> USE ConnsPlaced
  <1> DEFINE Taken(c) ==
        \/ /\ hubPc[Home[c]] = "setOnline"
           /\ Owner[hubConn[Home[c]]] = Owner[c]
        \/ \E i \in Instances \ {Home[c]} :
              /\ hubPc[i] = "setOffline"
              /\ Owner[hubConn[i]] = Owner[c] /\ Local(i, Owner[c]) = {}
  <1>1. ASSUME TypeOK, HubInv, KeptAlive, [Next]_vars, NEW c \in clients,
               proc[Home[c]] = "up", IsOnline(Owner[c]), ~IsOnline(Owner[c])'
        PROVE  Taken(c)
    <2>1. /\ c \in Conns /\ Owner[c] \in Users /\ Home[c] \in Instances
          /\ presence \in [Users -> Nat] /\ presence'[Owner[c]] # presence[Owner[c]]
          /\ presence[Owner[c]] > 0 /\ ~(presence'[Owner[c]] > 0)
          /\ TTL > 0
      BY <1>1, TTLAssumption DEF TypeOK, BrokerTypeOK, IsOnline
    <2>2. ASSUME NEW i \in Instances, SetOnline(i)
          PROVE  FALSE
      <3>1. Owner[hubConn[i]] \in Users
        BY <1>1, <2>2 DEF SetOnline, HubInv, RemovingLast
      <3>2. presence' = presence \/ SetPresence(Owner[hubConn[i]], TRUE)
        BY <2>2 DEF SetOnline
      <3>3. QED
        BY <1>1, <2>1, <3>1, <3>2, OneKeyWritten
    <2>3. ASSUME NEW i \in Instances, BeatUser(i)
          PROVE  FALSE
      <3>1. PICK u \in beatTodo[i] : SetPresence(u, TRUE)
        BY <2>3 DEF BeatUser
      <3>2. u \in Users
        BY <1>1 DEF TypeOK
      <3>3. QED
        BY <1>1, <2>1, <3>1, <3>2, OneKeyWritten
    <2>4. ASSUME NEW i \in Instances, SetOffline(i)
          PROVE  Taken(c)
      <3>1. /\ hubPc[i] = "setOffline" /\ hubConn[i] \in Conns
            /\ Local(i, Owner[hubConn[i]]) = {}
            /\ SetPresence(Owner[hubConn[i]], FALSE)
        BY <1>1, <2>4 DEF SetOffline, HubInv, RemovingLast
      <3>2. Owner[hubConn[i]] = Owner[c]
        BY <1>1, <2>1, <3>1, OneKeyWritten
      <3>3. c \in Local(Home[c], Owner[c])
        BY DEF Local
      <3>4. i # Home[c]
        BY <3>1, <3>2, <3>3
      <3>5. QED
        BY <3>1, <3>2, <3>4
    <2>5. CASE Tick
      <3>1. /\ beat[Home[c]] = "rest"
            /\ presence'[Owner[c]] = presence[Owner[c]] - 1
        BY <2>1, <2>5 DEF Tick, Age
      <3>2. presence[Owner[c]] = 1
        BY <2>1, <3>1
      <3>3. ~Alive(Home[c], Owner[c])
        BY <3>1, <3>2 DEF Alive, Lasting
      <3>4. QED
        BY <1>1, <3>3 DEF KeptAlive, Adding
    <2>6. QED
      BY <1>1, <2>1, <2>2, <2>3, <2>4, <2>5, PresenceWriters
  <1>2. TypeOK /\ HubInv /\ KeptAlive /\ [Next]_vars =>
          [\A c \in clients :
              proc[Home[c]] = "up" /\ IsOnline(Owner[c]) /\ ~IsOnline(Owner[c])' => Taken(c)]_vars
    BY <1>1
  <1>3. QED
    BY <1>2, HubInvariant, AliveInvariant, PTL DEF Spec, OnlyOthersTakeIt

\* For a user with no client registered, only a heartbeat that took its snapshot
\* earlier renews the key, once (hub.go:306-323): nothing but a client in
\* h.clients keeps a key alive for long.
THEOREM OnlyStaleBeatsRenewIt == Spec => OnlyStaleBeatsRenew
  <1> USE ConnsPlaced
  <1> DEFINE Stale(u) ==
        /\ presence'[u] > presence[u] => \E i \in Instances : u \in beatTodo[i] \ beatTodo'[i]
        /\ \A i \in Instances : u \in beatTodo'[i] => u \in beatTodo[i]
  <1>1. ASSUME TypeOK, HubInv, PlaceInv, [Next]_vars, NEW u \in Users,
               \A c \in clients : Owner[c] # u
        PROVE  Stale(u)
    <2>1. ASSUME presence'[u] > presence[u]
          PROVE  \E i \in Instances : u \in beatTodo[i] \ beatTodo'[i]
      <3>1. presence \in [Users -> Nat] /\ presence'[u] # presence[u]
        BY <1>1, <2>1, TTLAssumption DEF TypeOK, BrokerTypeOK
      <3>2. ASSUME NEW i \in Instances, SetOnline(i)
            PROVE  FALSE
        <4>1. hubConn[i] \in clients /\ hubConn[i] \in Conns
          BY <1>1, <3>2 DEF SetOnline, PlaceInv, RunPlaced, TypeOK
        <4>2. presence' = presence \/ SetPresence(Owner[hubConn[i]], TRUE)
          BY <3>2 DEF SetOnline
        <4>3. QED
          BY <1>1, <3>1, <4>1, <4>2, OneKeyWritten
      <3>3. ASSUME NEW i \in Instances, BeatUser(i)
            PROVE  u \in beatTodo[i] \ beatTodo'[i]
        <4>1. PICK v \in beatTodo[i] : /\ SetPresence(v, TRUE)
                                       /\ beatTodo' = [beatTodo EXCEPT ![i] = @ \ {v}]
          BY <3>3 DEF BeatUser
        <4>2. v \in Users /\ beatTodo'[i] = beatTodo[i] \ {v}
          BY <1>1, <4>1 DEF TypeOK
        <4>3. QED
          BY <1>1, <3>1, <4>1, <4>2, OneKeyWritten
      <3>4. ASSUME NEW i \in Instances, SetOffline(i)
            PROVE  FALSE
        <4>1. hubConn[i] \in Conns /\ SetPresence(Owner[hubConn[i]], FALSE)
          BY <1>1, <3>4 DEF SetOffline, HubInv, RemovingLast
        <4>2. presence'[u] = presence[u] \/ presence'[u] = 0
          BY <1>1, <4>1, OneKeyWritten
        <4>3. QED
          BY <2>1, <3>1, <4>2
      <3>5. ~Tick
        BY <2>1, <3>1 DEF Tick, Age
      <3>6. QED
        BY <1>1, <3>1, <3>2, <3>3, <3>4, <3>5, PresenceWriters
    <2>2. ASSUME NEW i \in Instances, u \in beatTodo'[i]
          PROVE  u \in beatTodo[i]
      <3>1. CASE beatTodo' = beatTodo
        BY <2>2, <3>1
      <3>2. ASSUME NEW j \in Instances, BeatStart(j)
            PROVE  u \in beatTodo[i]
        <4>1. /\ beatTodo'[j] = {v \in Users : Local(j, v) # {}}
              /\ \A k \in Instances \ {j} : beatTodo'[k] = beatTodo[k]
          BY <1>1, <3>2 DEF BeatStart, TypeOK
        <4>2. Local(j, u) = {}
          BY <1>1 DEF Local
        <4>3. QED
          BY <2>2, <4>1, <4>2
      <3>3. ASSUME NEW j \in Instances, BeatUser(j)
            PROVE  u \in beatTodo[i]
        BY <1>1, <2>2, <3>3 DEF BeatUser, TypeOK
      <3>4. ASSUME NEW j \in Instances, Stop(j) \/ \E how \in Dead : Die(j, how)
            PROVE  u \in beatTodo[i]
        <4>1. beatTodo' = [beatTodo EXCEPT ![j] = {}]
          BY <3>4 DEF Stop, Die
        <4>2. QED
          BY <1>1, <2>2, <4>1 DEF TypeOK
      <3>5. \/ beatTodo' = beatTodo
            \/ \E j \in Instances : \/ BeatStart(j) \/ BeatUser(j) \/ Stop(j)
                                    \/ \E how \in Dead : Die(j, how)
        BY <1>1, SnapshotWriters
      <3>6. QED
        BY <3>1, <3>2, <3>3, <3>4, <3>5
    <2>3. QED
      BY <2>1, <2>2
  <1>2. TypeOK /\ HubInv /\ PlaceInv /\ [Next]_vars =>
          [\A u \in Users : (\A c \in clients : Owner[c] # u) => Stale(u)]_vars
    BY <1>1
  <1>3. QED
    BY <1>2, HubInvariant, PlaceInvariant, PTL DEF Spec, OnlyStaleBeatsRenew

----------------------------------------------------------------------------
(* Delivery: nothing is skipped.                                           *)

LEMMA ConcatElements ==
    ASSUME NEW S, NEW p \in Seq(S), NEW q \in Seq(S)
    PROVE  ToSet(p \o q) = ToSet(p) \cup ToSet(q)
  <1>1. /\ DOMAIN (p \o q) = 1 .. (Len(p) + Len(q))
        /\ Len(p) \in Nat /\ Len(q) \in Nat
        /\ DOMAIN p = 1 .. Len(p) /\ DOMAIN q = 1 .. Len(q)
        /\ \A k \in 1 .. (Len(p) + Len(q)) :
              (p \o q)[k] = IF k <= Len(p) THEN p[k] ELSE q[k - Len(p)]
    BY ConcatFacts
  <1>2. \A k \in DOMAIN p : k \in DOMAIN (p \o q) /\ (p \o q)[k] = p[k]
    BY <1>1
  <1>3. \A k \in DOMAIN q : k + Len(p) \in DOMAIN (p \o q) /\ (p \o q)[k + Len(p)] = q[k]
    BY <1>1
  <1>4. \A k \in DOMAIN (p \o q) :
           \/ k \in DOMAIN p /\ (p \o q)[k] = p[k]
           \/ k - Len(p) \in DOMAIN q /\ (p \o q)[k] = q[k - Len(p)]
    BY <1>1
  <1>5. ToSet(p) \cup ToSet(q) \subseteq ToSet(p \o q)
    BY <1>2, <1>3 DEF ToSet
  <1>6. ToSet(p \o q) \subseteq ToSet(p) \cup ToSet(q)
    BY <1>4 DEF ToSet
  <1>7. QED
    BY <1>5, <1>6

LEMMA HeadAndTail ==
    ASSUME NEW S, NEW q \in Seq(S), q # <<>>
    PROVE  ToSet(q) = {Head(q)} \cup ToSet(Tail(q))
  <1>1. /\ DOMAIN q = 1 .. Len(q) /\ Len(q) \in Nat /\ Head(q) = q[1] /\ 1 \in DOMAIN q
        /\ DOMAIN Tail(q) = 1 .. (Len(q) - 1)
        /\ \A k \in 1 .. (Len(q) - 1) : Tail(q)[k] = q[k + 1]
    OBVIOUS
  <1>2. \A k \in DOMAIN q : k = 1 \/ (k - 1 \in DOMAIN Tail(q) /\ Tail(q)[k - 1] = q[k])
    BY <1>1
  <1>3. \A k \in DOMAIN Tail(q) : k + 1 \in DOMAIN q /\ Tail(q)[k] = q[k + 1]
    BY <1>1
  <1>4. {Head(q)} \cup ToSet(Tail(q)) \subseteq ToSet(q)
    BY <1>1, <1>3 DEF ToSet
  <1>5. ToSet(q) \subseteq {Head(q)} \cup ToSet(Tail(q))
    BY <1>1, <1>2 DEF ToSet
  <1>6. QED
    BY <1>4, <1>5

\* What has reached c is on its socket or in its channel.
LEMMA ReachedElements ==
    ASSUME DeliveryTypeOK, NEW c \in Conns
    PROVE  ToSet(Reached(c)) = ToSet(got[c]) \cup ToSet(send[c])
  BY ReachedType, ConcatElements DEF Reached

LEMMA ReachedAfter ==
    ASSUME DeliveryTypeOK', NEW c \in Conns
    PROVE  ToSet(Reached(c))' = ToSet(got'[c]) \cup ToSet(send'[c])
  <1>1. got'[c] \in Seq(Msgs) /\ send'[c] \in Seq(Msgs)
    BY DEF DeliveryTypeOK
  <1>2. ToSet(got'[c] \o send'[c]) = ToSet(got'[c]) \cup ToSet(send'[c])
    BY <1>1, ConcatElements
  <1>3. QED
    BY <1>2 DEF Reached, ToSet

\* Payload m is further from c by no step that keeps what it is in.
LEMMA WayKept ==
    ASSUME DeliveryTypeOK, DeliveryTypeOK', NEW s \in Conns, NEW c \in Conns, NEW m \in Msgs,
           OnItsWay(s, c, m),
           m \in ToSet(inbox[s]) => m \in ToSet(inbox'[s]),
           inHand'[s] = inHand[s], c \in todo[s] => c \in todo'[s],
           ToSet(got[c]) \cup ToSet(send[c]) \subseteq ToSet(got'[c]) \cup ToSet(send'[c])
    PROVE  OnItsWay(s, c, m)'
  <1>1. ToSet(Reached(c)) = ToSet(got[c]) \cup ToSet(send[c])
    BY ReachedElements
  <1>2. ToSet(Reached(c))' = ToSet(got'[c]) \cup ToSet(send'[c])
    BY ReachedAfter
  <1>3. QED
    BY <1>1, <1>2 DEF OnItsWay

\* A step that ends processes leaves what belongs to the others alone.
LEMMA ForgetSkipsNothing ==
    ASSUME DeliveryTypeOK, DeliveryTypeOK', Forget, NEW s \in Conns, NEW c \in Conns,
           NEW m \in Msgs, OnItsWay(s, c, m), ~Lost(s), ~Lost(c)
    PROVE  OnItsWay(s, c, m)'
  <1>1. /\ inbox'[s] = inbox[s] /\ inHand'[s] = inHand[s] /\ todo'[s] = todo[s]
        /\ send'[c] = send[c] /\ got' = got
    BY DEF Forget, Lost
  <1>2. QED
    BY <1>1, WayKept

LEMMA PublishSkipsNothing ==
    ASSUME DeliveryTypeOK, DeliveryTypeOK', NEW u \in Users, Publish(u), NEW s \in Conns,
           NEW c \in Conns, NEW m \in Msgs, OnItsWay(s, c, m)
    PROVE  OnItsWay(s, c, m)'
  <1>1. /\ inHand' = inHand /\ todo' = todo /\ send' = send /\ got' = got
        /\ inbox'[s] = inbox[s] \/ inbox'[s] = Append(inbox[s], Len(audience) + 1)
        /\ Len(audience) + 1 \in Msgs /\ inbox[s] \in Seq(Msgs)
    BY MaxMsgAssumption DEF Publish, DeliveryTypeOK, Msgs
  <1>2. ToSet(Append(inbox[s], Len(audience) + 1)) = ToSet(inbox[s]) \cup {Len(audience) + 1}
    BY <1>1, QueueEnds
  <1>3. ToSet(inbox[s]) \subseteq ToSet(inbox'[s])
    BY <1>1, <1>2
  <1>4. QED
    BY <1>1, <1>3, WayKept

LEMMA ReaderSkipsNothing ==
    ASSUME DeliveryTypeOK, DeliveryTypeOK', NEW r \in Conns,
           ReaderTake(r) \/ ReaderDone(r) \/ ReaderExit(r),
           NEW s \in Conns, sub[s] = "reading", NEW c \in Local(Home[s], Owner[s]),
           NEW m \in Msgs, OnItsWay(s, c, m)
    PROVE  OnItsWay(s, c, m)'
  <1>1. c \in Conns /\ 0 \notin Msgs /\ inbox[s] \in Seq(Msgs)
    BY DEF Local, DeliveryTypeOK, TypeOK, Msgs
  <1>2. /\ send' = send /\ got' = got
        /\ r # s => inbox'[s] = inbox[s] /\ inHand'[s] = inHand[s] /\ todo'[s] = todo[s]
    BY DEF ReaderTake, ReaderDone, ReaderExit, DeliveryTypeOK
  <1>3. CASE r # s
    BY <1>1, <1>2, <1>3, WayKept
  <1>4. ToSet(Reached(c)) = ToSet(Reached(c)')
    BY <1>2 DEF Reached
  <1>5. CASE r = s /\ ReaderTake(s)
    <2>1. /\ inHand[s] = 0 /\ inbox[s] # <<>>
          /\ inHand'[s] = Head(inbox[s]) /\ inbox'[s] = Tail(inbox[s]) /\ c \in todo'[s]
      BY <1>5 DEF ReaderTake, DeliveryTypeOK
    <2>2. ToSet(inbox[s]) = {inHand'[s]} \cup ToSet(inbox'[s])
      BY <1>1, <2>1, HeadAndTail
    <2>3. m \in ToSet(inbox[s]) \/ m \in ToSet(Reached(c))
      BY <1>1, <2>1 DEF OnItsWay
    <2>4. QED
      BY <1>4, <2>1, <2>2, <2>3 DEF OnItsWay
  <1>6. CASE r = s /\ ReaderDone(s)
    <2>1. todo[s] = {} /\ inbox' = inbox
      BY <1>6 DEF ReaderDone
    <2>2. QED
      BY <1>4, <2>1 DEF OnItsWay
  <1>7. CASE r = s /\ ReaderExit(s)
    BY <1>7 DEF ReaderExit
  <1>8. QED
    BY <1>3, <1>5, <1>6, <1>7

\* One turn of the loop of deliverLocal, for this connection or another.
LEMMA PushSkipsNothing ==
    ASSUME DeliveryTypeOK, DeliveryTypeOK', ReadersHold, NEW r \in Conns, NEW d \in todo[r],
           Push(d, inHand[r]), todo' = [todo EXCEPT ![r] = @ \ {d}],
           UNCHANGED <<inbox, inHand, got>>,
           NEW s \in Conns, NEW c \in Conns, NEW m \in Msgs, OnItsWay(s, c, m)
    PROVE  \/ OnItsWay(s, c, m)'
           \/ inHand[s] = m /\ c \in todo[s] /\ Len(send[c]) = SendCap
  <1>1. /\ d \in Conns /\ inHand[r] \in Msgs
        /\ send[c] \in Seq(Msgs) /\ send[d] \in Seq(Msgs) /\ got'[c] = got[c]
        /\ Len(send[c]) \in Nat /\ Len(send[c]) <= SendCap /\ SendCap \in Nat
        /\ todo' = [todo EXCEPT ![r] = todo[r] \ {d}] /\ todo \in [Conns -> SUBSET Conns]
        /\ ToSet(Append(send[d], inHand[r])) = ToSet(send[d]) \cup {inHand[r]}
    <2>1. d \in Conns /\ inHand[r] \in Msgs /\ send[c] \in Seq(Msgs) /\ send[d] \in Seq(Msgs)
      BY DEF DeliveryTypeOK, ReadersHold
    <2>2. ToSet(Append(send[d], inHand[r])) = ToSet(send[d]) \cup {inHand[r]}
      BY <2>1, QueueEnds
    <2>3. QED
      BY <2>1, <2>2, SendCapAssumption DEF DeliveryTypeOK
  <1>2. /\ c # d => send'[c] = send[c]
        /\ Len(send[d]) < SendCap => send'[d] = Append(send[d], inHand[r])
        /\ ~(Len(send[d]) < SendCap) => send' = send
    BY <1>1 DEF Push, DeliveryTypeOK
  <1>3. ToSet(send[c]) \subseteq ToSet(send'[c])
    <2>1. CASE c = d /\ Len(send[d]) < SendCap
      BY <1>1, <1>2, <2>1
    <2>2. CASE send'[c] = send[c]
      BY <2>2
    <2>3. QED
      BY <1>2, <2>1, <2>2
  <1>4. CASE s # r \/ c # d
    <2>1. c \in todo[s] => c \in todo'[s]
      BY <1>1, <1>4
    <2>2. QED
      BY <1>1, <1>3, <2>1, WayKept
  <1>5. CASE s = r /\ c = d /\ Len(send[c]) < SendCap
    <2>1. ToSet(send'[c]) = ToSet(send[c]) \cup {inHand[s]}
      BY <1>1, <1>2, <1>5
    <2>2. ToSet(Reached(c))' = ToSet(got[c]) \cup ToSet(send[c]) \cup {inHand[s]}
      BY <1>1, <2>1, ReachedAfter
    <2>3. ToSet(Reached(c)) = ToSet(got[c]) \cup ToSet(send[c])
      BY ReachedElements
    <2>4. QED
      BY <2>2, <2>3 DEF OnItsWay
  <1>6. CASE s = r /\ c = d /\ ~(Len(send[c]) < SendCap)
    <2>1. Len(send[c]) = SendCap /\ send' = send /\ c \in todo[s]
      BY <1>1, <1>2, <1>6
    <2>2. ToSet(Reached(c))' = ToSet(Reached(c))
      BY <2>1 DEF Reached
    <2>3. QED
      BY <2>1, <2>2 DEF OnItsWay
  <1>7. QED
    BY <1>4, <1>5, <1>6

LEMMA PumpSkipsNothing ==
    ASSUME DeliveryTypeOK, DeliveryTypeOK', NEW d \in Conns, PumpWrite(d) \/ PumpFail(d),
           NEW s \in Conns, NEW c \in Conns, NEW m \in Msgs, OnItsWay(s, c, m)
    PROVE  OnItsWay(s, c, m)' \/ (pump[c] /\ ~pump'[c])
  <1>1. /\ inbox' = inbox /\ inHand' = inHand /\ todo' = todo
        /\ send[d] # <<>> /\ send[d] \in Seq(Msgs) /\ got[d] \in Seq(Msgs)
        /\ c # d => send'[c] = send[c] /\ got'[c] = got[c]
    BY DEF PumpWrite, PumpFail, DeliveryTypeOK
  <1>2. CASE c # d
    BY <1>1, <1>2, WayKept
  <1>3. CASE c = d /\ PumpWrite(d)
    <2>1. /\ send'[d] = Tail(send[d]) /\ got'[d] = Append(got[d], Head(send[d]))
          /\ Head(send[d]) \in Msgs
      BY <1>1, <1>3 DEF PumpWrite, DeliveryTypeOK
    <2>2. ToSet(got'[d]) = ToSet(got[d]) \cup {Head(send[d])}
      BY <1>1, <2>1, QueueEnds
    <2>3. ToSet(send[d]) = {Head(send[d])} \cup ToSet(send'[d])
      BY <1>1, <2>1, HeadAndTail
    <2>4. QED
      BY <1>1, <1>3, <2>2, <2>3, WayKept
  <1>4. CASE c = d /\ PumpFail(d)
    BY <1>4 DEF PumpFail, DeliveryTypeOK
  <1>5. QED
    BY <1>2, <1>3, <1>4

\* While a connection is registered and its subscription is read, it misses a
\* payload by a full buffer or a failed write, and by no interleaving of
\* readers, pumps, registrations and processes that end (hub.go:178-195,
\* ws.go:76-95).
THEOREM NoPayloadIsSkipped == DeliverySpec => NothingSkipped
  <1> USE ConnsPlaced
  <1> DEFINE Kept(s, c, m) ==
        \/ OnItsWay(s, c, m)'
        \/ c \notin clients'
        \/ inHand[s] = m /\ c \in todo[s] /\ Len(send[c]) = SendCap
        \/ pump[c] /\ ~pump'[c]
  <1>1. ASSUME DeliveryTypeOK, DeliveryTypeOK', HubInv, DeliveryInv, [DeliveryNext]_allVars,
               NEW s \in Conns, NEW c \in Local(Home[s], Owner[s]), NEW m \in Msgs,
               sub[s] = "reading", OnItsWay(s, c, m)
        PROVE  Kept(s, c, m)
    <2>1. c \in Conns /\ c \in clients /\ Home[c] = Home[s] /\ TypeOK /\ ReadersHold
      BY <1>1 DEF Local, DeliveryTypeOK, TypeOK, DeliveryInv
    <2>2. CASE Next /\ Forget
      <3>1. HubMoves
        BY <2>1, <2>2, <1>1, NextMoves
      <3>2. Lost(s) <=> Lost(c)
        BY <2>1 DEF Lost
      <3>3. Lost(c) => c \notin clients'
        BY <2>1, <3>1 DEF HubMoves, EndMoves
      <3>4. QED
        BY <1>1, <2>1, <2>2, <3>2, <3>3, ForgetSkipsNothing
    <2>3. ASSUME NEW u \in Users, Publish(u)
          PROVE  Kept(s, c, m)
      BY <1>1, <2>1, <2>3, PublishSkipsNothing
    <2>4. ASSUME NEW r \in Conns, ReaderTake(r) \/ ReaderDone(r) \/ ReaderExit(r)
          PROVE  Kept(s, c, m)
      BY <1>1, <2>4, ReaderSkipsNothing
    <2>5. ASSUME NEW r \in Conns, NEW d \in todo[r],
                 \/ /\ Push(d, inHand[r])
                    /\ todo' = [todo EXCEPT ![r] = @ \ {d}]
                    /\ UNCHANGED <<inbox, inHand, got>>
                 \/ Die(Home[r], "panicked") /\ Forget
          PROVE  Kept(s, c, m)
      <3>1. CASE Die(Home[r], "panicked") /\ Forget
        <4>1. /\ \A i \in Instances : i # Home[r] => proc'[i] = proc[i]
              /\ clients' = clients \ At(Home[r])
          BY <2>1, <3>1 DEF Die, TypeOK
        <4>2. Lost(c) => c \notin clients'
          BY <2>1, <4>1 DEF Lost, At, Running, Dead
        <4>3. Lost(s) <=> Lost(c)
          BY <2>1 DEF Lost
        <4>4. QED
          BY <1>1, <2>1, <3>1, <4>2, <4>3, ForgetSkipsNothing
      <3>2. CASE /\ Push(d, inHand[r])
                 /\ todo' = [todo EXCEPT ![r] = @ \ {d}]
                 /\ UNCHANGED <<inbox, inHand, got>>
        BY <1>1, <2>1, <3>2, PushSkipsNothing
      <3>3. QED
        BY <2>5, <3>1, <3>2
    <2>6. ASSUME NEW d \in Conns, PumpWrite(d) \/ PumpFail(d)
          PROVE  Kept(s, c, m)
      BY <1>1, <2>1, <2>6, PumpSkipsNothing
    <2>7. CASE UNCHANGED allVars
      <3>1. UNCHANGED <<inbox, inHand, todo, got, send>>
        BY <2>7 DEF allVars, deliveryVars
      <3>2. QED
        BY <1>1, <2>1, <3>1, WayKept
    <2>8. QED
      BY <1>1, <2>2, <2>3, <2>4, <2>5, <2>6, <2>7 DEF DeliveryNext, ReaderStep, ReaderSend
  <1>2. DeliveryTypeOK /\ DeliveryTypeOK' /\ HubInv /\ DeliveryInv /\ [DeliveryNext]_allVars =>
          [\A s \in Conns : \A c \in Local(Home[s], Owner[s]), m \in Msgs :
              sub[s] = "reading" /\ OnItsWay(s, c, m) => Kept(s, c, m)]_allVars
    BY <1>1
  <1>3. QED
    BY <1>2, DeliveryInvariant, PTL DEF DeliverySpec, NothingSkipped
=============================================================================
