--------------------------- MODULE MessagesProofs ---------------------------
(***************************************************************************)
(* Messages keeps its types and the inductive invariant MsgInv, and so     *)
(* SenderOrder and PassedOnlyIfLate, and it refines ChatLog, for any       *)
(* members, WebSockets and requests.                                       *)
(*                                                                         *)
(* Each conjunct of MsgInv has a lemma of its own that goes through the    *)
(* actions; they lean on each other only in the current state.             *)
(***************************************************************************)
EXTENDS Messages, TLAPS

\* The ids of messages are ids the sequence has given out.
LEMMA IdsBounded ==
    ASSUME TypeOK
    PROVE  Ids \subseteq 0 .. nextId - 1
  BY DEF TypeOK, Ids

\* Types; a receipt is a member's because only members get that far.
LEMMA TypeStep ==
    ASSUME TypeOK, MembersOnly, [Next]_vars
    PROVE  TypeOK'
<1> USE DEF TypeOK, Requests, Steps, SendSteps, MarkSteps, Ended, Check, vars, sendVars,
   markVars, Goto
<1>1. ASSUME NEW s \in Sends, SendCheck(s) PROVE TypeOK'
  BY <1>1 DEF SendCheck
<1>2. ASSUME NEW s \in Sends, SendInsert(s) PROVE TypeOK'
  BY <1>2 DEF SendInsert
<1>3. ASSUME NEW s \in Sends, SendCommit(s) PROVE TypeOK'
  BY <1>3 DEF SendCommit
<1>4. ASSUME NEW s \in Sends, SendPublish(s) PROVE TypeOK'
  <2>1. PICK u \in todo[s] : /\ todo' = [todo EXCEPT ![s] = @ \ {u}]
                            /\ \/ feed' = [feed EXCEPT ![u] = Append(@, s)]
                               \/ UNCHANGED feed
    BY <1>4 DEF SendPublish
  <2>2. u \in Members
    BY DEF TypeOK, Requests
  <2>3. feed' \in [Members -> Seq(Sends)]
    <3>1. Append(feed[u], s) \in Seq(Sends)
      BY <2>2
    <3> QED  BY <2>1, <2>2, <3>1 DEF TypeOK
  <2>4. todo' \in [Requests -> SUBSET Members]
    BY <2>1
  <2> QED
    BY <1>4, <2>3, <2>4 DEF SendPublish
<1>5. ASSUME NEW s \in Sends, SendDone(s) PROVE TypeOK'
  BY <1>5 DEF SendDone
<1>6. ASSUME NEW m \in Marks, MarkCheck(m) PROVE TypeOK'
  BY <1>6, IdsBounded DEF MarkCheck
<1>7. ASSUME NEW m \in Marks, MarkLatest(m) PROVE TypeOK'
  BY <1>7, IdsBounded DEF MarkLatest, Latest
<1>8. ASSUME NEW m \in Marks, MarkRead(m) PROVE TypeOK'
  <2>1. cursor' \in [Members -> 0 .. nextId - 1]
    BY <1>8 DEF MarkRead, CursorUp
  <2>2. todo' \in [Requests -> SUBSET Members]
    BY <1>8 DEF MarkRead
  <2>3. pc' \in [Requests -> Steps]
    BY <1>8 DEF MarkRead
  <2> QED
    BY <1>8, <2>1, <2>2, <2>3 DEF MarkRead
<1>9. ASSUME NEW m \in Marks, MarkNotify(m) PROVE TypeOK'
  <2>1. PICK u \in todo[m] : /\ todo' = [todo EXCEPT ![m] = @ \ {u}]
                            /\ \/ receipts' = receipts \cup {[by |-> By(m), upto |-> asked[m]]}
                               \/ UNCHANGED receipts
    BY <1>9 DEF MarkNotify
  <2>2. By(m) \in Members
    BY <1>9 DEF MarkNotify, MembersOnly, Active
  <2>3. todo' \in [Requests -> SUBSET Members]
    BY <2>1
  <2>4. receipts' \subseteq [by : Members, upto : 0 .. nextId - 1]
    BY <2>1, <2>2
  <2> QED
    BY <1>9, <2>3, <2>4 DEF MarkNotify
<1>10. ASSUME NEW m \in Marks, MarkDone(m) PROVE TypeOK'
  BY <1>10 DEF MarkDone
<1>11. ASSUME NEW r \in Requests, Fail(r) PROVE TypeOK'
  BY <1>11 DEF Fail
<1>12. CASE UNCHANGED vars
  BY <1>12
<1> QED
  BY <1>1, <1>2, <1>3, <1>4, <1>5, <1>6, <1>7, <1>8, <1>9, <1>10, <1>11, <1>12
    DEF Next, SendStep, MarkStep, AllEnded

\* The sequence gives each id once, and a send has one from its INSERT on.
LEMMA IdsStep ==
    ASSUME TypeOK, IdsGiven, [Next]_vars
    PROVE  IdsGiven'
<1> USE RequestAssumption DEF IdsGiven, TypeOK, Requests, Ended, Check, vars, sendVars,
      markVars, Goto
<1>1. ASSUME NEW s \in Sends, SendCheck(s) PROVE IdsGiven'
  BY <1>1 DEF SendCheck
<1>2. ASSUME NEW s \in Sends, SendInsert(s) PROVE IdsGiven'
  BY <1>2 DEF SendInsert
<1>3. ASSUME NEW s \in Sends, SendCommit(s) PROVE IdsGiven'
  BY <1>3 DEF SendCommit
<1>4. ASSUME NEW s \in Sends, SendPublish(s) PROVE IdsGiven'
  BY <1>4 DEF SendPublish
<1>5. ASSUME NEW s \in Sends, SendDone(s) PROVE IdsGiven'
  BY <1>5 DEF SendDone
<1>6. ASSUME NEW m \in Marks, MarkCheck(m) PROVE IdsGiven'
  BY <1>6 DEF MarkCheck
<1>7. ASSUME NEW m \in Marks, MarkLatest(m) PROVE IdsGiven'
  BY <1>7 DEF MarkLatest
<1>8. ASSUME NEW m \in Marks, MarkRead(m) PROVE IdsGiven'
  BY <1>8 DEF MarkRead
<1>9. ASSUME NEW m \in Marks, MarkNotify(m) PROVE IdsGiven'
  BY <1>9 DEF MarkNotify
<1>10. ASSUME NEW m \in Marks, MarkDone(m) PROVE IdsGiven'
  BY <1>10 DEF MarkDone
<1>11. ASSUME NEW r \in Requests, Fail(r) PROVE IdsGiven'
  BY <1>11 DEF Fail
<1>12. CASE UNCHANGED vars
  BY <1>12
<1> QED
  BY <1>1, <1>2, <1>3, <1>4, <1>5, <1>6, <1>7, <1>8, <1>9, <1>10, <1>11, <1>12
    DEF Next, SendStep, MarkStep, AllEnded

\* Only stored messages are in a channel, and none that is still to come.
LEMMA FeedsStep ==
    ASSUME TypeOK, IdsGiven, FeedsStored, [Next]_vars
    PROVE  FeedsStored'
<1> USE RequestAssumption DEF FeedsStored, IdsGiven, TypeOK, Requests, Ended, Check, vars,
      sendVars, markVars, Goto
<1>1. ASSUME NEW s \in Sends, SendCheck(s) PROVE FeedsStored'
  BY <1>1 DEF SendCheck
<1>2. ASSUME NEW s \in Sends, SendInsert(s) PROVE FeedsStored'
  BY <1>2 DEF SendInsert
<1>3. ASSUME NEW s \in Sends, SendCommit(s) PROVE FeedsStored'
  BY <1>3 DEF SendCommit
<1>4. ASSUME NEW s \in Sends, SendPublish(s) PROVE FeedsStored'
  <2>1. PICK u \in todo[s] : /\ todo' = [todo EXCEPT ![s] = @ \ {u}]
                            /\ \/ feed' = [feed EXCEPT ![u] = Append(@, s)]
                               \/ UNCHANGED feed
    BY <1>4 DEF SendPublish
  <2>2. u \in Members /\ s \in messages
    BY <1>4 DEF SendPublish
  <2>3. pc' = pc /\ messages' = messages
    BY <1>4 DEF SendPublish
  <2>4. \A r \in Requests : todo'[r] \subseteq todo[r]
    BY <2>1
  <2>5. u \notin todo'[s]
    BY <2>1
  <2>6. ASSUME NEW v \in Members, NEW k \in DOMAIN feed'[v]
        PROVE  feed'[v][k] \in messages /\ v \notin todo'[feed'[v][k]]
    <3>1. CASE k \in DOMAIN feed[v] /\ feed'[v][k] = feed[v][k]
      <4>1. feed[v][k] \in messages /\ v \notin todo[feed[v][k]]
        BY <3>1
      <4> QED
        BY <3>1, <4>1, <2>4
    <3>2. CASE v = u /\ feed'[v][k] = s
      BY <3>2, <2>2, <2>5
    <3>3. feed[v] \in Seq(Sends) /\ feed[u] \in Seq(Sends)
      BY <2>2
    <3>4. CASE feed' = [feed EXCEPT ![u] = Append(@, s)]
      <4>1. CASE v # u
        BY <3>1, <3>4, <4>1
      <4>2. CASE v = u
        <5>1. feed'[v] = Append(feed[u], s)
          BY <3>4, <4>2, <2>2
        <5>2. \/ k \in DOMAIN feed[u] /\ Append(feed[u], s)[k] = feed[u][k]
              \/ Append(feed[u], s)[k] = s
          BY <3>3, <5>1
        <5> QED
          BY <3>1, <3>2, <4>2, <5>1, <5>2
      <4> QED
        BY <4>1, <4>2
    <3>5. CASE UNCHANGED feed
      BY <3>1, <3>5
    <3> QED
      BY <2>1, <3>4, <3>5
  <2> QED
    BY <2>3, <2>4, <2>6
<1>5. ASSUME NEW s \in Sends, SendDone(s) PROVE FeedsStored'
  BY <1>5 DEF SendDone
<1>6. ASSUME NEW m \in Marks, MarkCheck(m) PROVE FeedsStored'
  BY <1>6 DEF MarkCheck
<1>7. ASSUME NEW m \in Marks, MarkLatest(m) PROVE FeedsStored'
  BY <1>7 DEF MarkLatest
<1>8. ASSUME NEW m \in Marks, MarkRead(m) PROVE FeedsStored'
  <2>1. \A s \in Sends : todo'[s] = todo[s]
    BY <1>8 DEF MarkRead
  <2>2. \A r \in Requests : todo'[r] # {} => pc'[r] \in {"publish", "notify"}
    BY <1>8 DEF MarkRead
  <2>3. UNCHANGED <<feed, messages>>
    BY <1>8 DEF MarkRead
  <2> QED
    BY <2>1, <2>2, <2>3
<1>9. ASSUME NEW m \in Marks, MarkNotify(m) PROVE FeedsStored'
  BY <1>9 DEF MarkNotify
<1>10. ASSUME NEW m \in Marks, MarkDone(m) PROVE FeedsStored'
  BY <1>10 DEF MarkDone
<1>11. ASSUME NEW r \in Requests, Fail(r) PROVE FeedsStored'
  BY <1>11 DEF Fail
<1>12. CASE UNCHANGED vars
  BY <1>12
<1> QED
  BY <1>1, <1>2, <1>3, <1>4, <1>5, <1>6, <1>7, <1>8, <1>9, <1>10, <1>11, <1>12
    DEF Next, SendStep, MarkStep, AllEnded

\* A frame begins when its WebSocket has none under way, and its id is above
\* all that were given before.
LEMMA FrameStep ==
    ASSUME TypeOK, IdsGiven, OneFrame, [Next]_vars
    PROVE  OneFrame'
<1> USE RequestAssumption DEF OneFrame, IdsGiven, Active, TypeOK, Requests, Ended, Check,
      LaneFree, vars, sendVars, markVars, Goto
<1>1. ASSUME NEW s \in Sends, SendCheck(s) PROVE OneFrame'
  BY <1>1 DEF SendCheck
<1>2. ASSUME NEW s \in Sends, SendInsert(s) PROVE OneFrame'
  <2>1. /\ id' = [id EXCEPT ![s] = nextId]
        /\ pc' = [pc EXCEPT ![s] = "commit"] /\ pc[s] = "insert"
        /\ lane' = lane
    BY <1>2 DEF SendInsert
  <2>2. Active(s) /\ \A r \in Requests : Active(r)' <=> Active(r)
    BY <2>1
  <2>3. ASSUME NEW q \in Sends, NEW t \in Sends, q # t, lane[q] = lane[t], lane[q] \in Tabs,
               Active(q), id'[q] # 0
        PROVE  id'[t] < id'[q]
    <3>1. CASE q = s
      BY <2>1, <2>3, <3>1
    <3>2. CASE q # s
      <4>1. t # s
        BY <2>2, <2>3, <3>2
      <4> QED
        BY <2>1, <2>3, <3>2, <4>1
    <3> QED
      BY <3>1, <3>2
  <2> QED
    BY <2>1, <2>2, <2>3
<1>3. ASSUME NEW s \in Sends, SendCommit(s) PROVE OneFrame'
  BY <1>3 DEF SendCommit
<1>4. ASSUME NEW s \in Sends, SendPublish(s) PROVE OneFrame'
  BY <1>4 DEF SendPublish
<1>5. ASSUME NEW s \in Sends, SendDone(s) PROVE OneFrame'
  BY <1>5 DEF SendDone
<1>6. ASSUME NEW m \in Marks, MarkCheck(m) PROVE OneFrame'
  BY <1>6 DEF MarkCheck
<1>7. ASSUME NEW m \in Marks, MarkLatest(m) PROVE OneFrame'
  BY <1>7 DEF MarkLatest
<1>8. ASSUME NEW m \in Marks, MarkRead(m) PROVE OneFrame'
  BY <1>8 DEF MarkRead
<1>9. ASSUME NEW m \in Marks, MarkNotify(m) PROVE OneFrame'
  BY <1>9 DEF MarkNotify
<1>10. ASSUME NEW m \in Marks, MarkDone(m) PROVE OneFrame'
  BY <1>10 DEF MarkDone
<1>11. ASSUME NEW r \in Requests, Fail(r) PROVE OneFrame'
  BY <1>11 DEF Fail
<1>12. CASE UNCHANGED vars
  BY <1>12
<1> QED
  BY <1>1, <1>2, <1>3, <1>4, <1>5, <1>6, <1>7, <1>8, <1>9, <1>10, <1>11, <1>12
    DEF Next, SendStep, MarkStep, AllEnded

\* requireParticipant lets members only through; a cursor takes the id of a
\* stored message.
LEMMA MembersStep ==
    ASSUME TypeOK, IdsGiven, MembersOnly, [Next]_vars
    PROVE  MembersOnly'
<1> USE RequestAssumption DEF MembersOnly, IdsGiven, Active, By, Ids, TypeOK, Requests,
      Ended, Check, vars, sendVars, markVars, Goto
<1>1. ASSUME NEW s \in Sends, SendCheck(s) PROVE MembersOnly'
  BY <1>1 DEF SendCheck
<1>2. ASSUME NEW s \in Sends, SendInsert(s) PROVE MembersOnly'
  BY <1>2 DEF SendInsert
<1>3. ASSUME NEW s \in Sends, SendCommit(s) PROVE MembersOnly'
  BY <1>3 DEF SendCommit
<1>4. ASSUME NEW s \in Sends, SendPublish(s) PROVE MembersOnly'
  BY <1>4 DEF SendPublish
<1>5. ASSUME NEW s \in Sends, SendDone(s) PROVE MembersOnly'
  BY <1>5 DEF SendDone
<1>6. ASSUME NEW m \in Marks, MarkCheck(m) PROVE MembersOnly'
  BY <1>6 DEF MarkCheck
<1>7. ASSUME NEW m \in Marks, MarkLatest(m) PROVE MembersOnly'
  <2>1. upto' \in [Marks -> Ids \cup {0}]
    BY <1>7 DEF MarkLatest, Latest
  <2> QED
    BY <1>7, <2>1 DEF MarkLatest
<1>8. ASSUME NEW m \in Marks, MarkRead(m) PROVE MembersOnly'
  <2>1. cursor' \in [Members -> Ids \cup {0}]
    BY <1>8 DEF MarkRead, CursorUp
  <2>2. \A r \in Requests : Active(r)' => Active(r)
    BY <1>8 DEF MarkRead
  <2>3. UNCHANGED <<id, messages, lane, upto, asked>>
    BY <1>8 DEF MarkRead
  <2> QED
    BY <2>1, <2>2, <2>3
<1>9. ASSUME NEW m \in Marks, MarkNotify(m) PROVE MembersOnly'
  BY <1>9 DEF MarkNotify
<1>10. ASSUME NEW m \in Marks, MarkDone(m) PROVE MembersOnly'
  BY <1>10 DEF MarkDone
<1>11. ASSUME NEW r \in Requests, Fail(r) PROVE MembersOnly'
  BY <1>11 DEF Fail
<1>12. CASE UNCHANGED vars
  BY <1>12
<1> QED
  BY <1>1, <1>2, <1>3, <1>4, <1>5, <1>6, <1>7, <1>8, <1>9, <1>10, <1>11, <1>12
    DEF Next, SendStep, MarkStep, AllEnded

\* GREATEST keeps a cursor above what a receipt has told, and the mark of a
\* receipt is stored before it is told.
LEMMA ReceiptsStep ==
    ASSUME TypeOK, IdsGiven, MembersOnly, ReceiptsHold, [Next]_vars
    PROVE  ReceiptsHold'
<1> USE RequestAssumption DEF ReceiptsHold, MembersOnly, Active, By, TypeOK, Requests,
      Ended, Check, vars, sendVars, markVars, Goto
<1>1. ASSUME NEW s \in Sends, SendCheck(s) PROVE ReceiptsHold'
  BY <1>1 DEF SendCheck
<1>2. ASSUME NEW s \in Sends, SendInsert(s) PROVE ReceiptsHold'
  BY <1>2 DEF SendInsert
<1>3. ASSUME NEW s \in Sends, SendCommit(s) PROVE ReceiptsHold'
  BY <1>3 DEF SendCommit
<1>4. ASSUME NEW s \in Sends, SendPublish(s) PROVE ReceiptsHold'
  BY <1>4 DEF SendPublish
<1>5. ASSUME NEW s \in Sends, SendDone(s) PROVE ReceiptsHold'
  BY <1>5 DEF SendDone
<1>6. ASSUME NEW m \in Marks, MarkCheck(m) PROVE ReceiptsHold'
  <2>1. PICK n \in Ids \cup {0} :
              /\ pc' = [pc EXCEPT ![m] = IF By(m) \in Members
                                          THEN IF n = 0 THEN "latest" ELSE "mark"
                                          ELSE "failed"]
              /\ asked' = [asked EXCEPT ![m] = n] /\ upto' = [upto EXCEPT ![m] = n]
    BY <1>6 DEF MarkCheck
  <2>2. UNCHANGED <<cursor, receipts, lane>>
    BY <1>6 DEF MarkCheck
  <2>3. n \in Int
    BY IdsBounded
  <2>4. ASSUME NEW k \in Marks
        PROVE  /\ pc'[k] = "latest" => asked'[k] = 0
               /\ pc'[k] = "mark" => asked'[k] <= upto'[k]
               /\ pc'[k] = "notify" => asked'[k] <= cursor[By(k)]
    BY <2>1, <2>3
  <2> QED
    BY <2>2, <2>4
<1>7. ASSUME NEW m \in Marks, MarkLatest(m) PROVE ReceiptsHold'
  <2>1. asked[m] = 0
    BY <1>7 DEF MarkLatest
  <2>2. upto'[m] >= 0 /\ \A k \in Marks \ {m} : upto'[k] = upto[k]
    BY <1>7 DEF MarkLatest
  <2>3. UNCHANGED <<cursor, receipts, lane, asked>> /\ pc' = [pc EXCEPT ![m] = "mark"]
    BY <1>7 DEF MarkLatest
  <2>4. ASSUME NEW k \in Marks
        PROVE  /\ pc'[k] = "mark" => asked[k] <= upto'[k]
               /\ pc'[k] = "latest" => asked[k] = 0
               /\ pc'[k] = "notify" => asked[k] <= cursor[By(k)]
    BY <2>1, <2>2, <2>3
  <2> QED
    BY <2>3, <2>4
<1>8. ASSUME NEW m \in Marks, MarkRead(m) PROVE ReceiptsHold'
  <2>1. By(m) \in Members
    BY <1>8 DEF MarkRead
  <2>2. /\ \A u \in Members : cursor[u] <= cursor'[u]
        /\ upto[m] <= cursor'[By(m)]
    BY <1>8, <2>1 DEF MarkRead, CursorUp
  <2>3. /\ UNCHANGED <<receipts, lane, asked, upto>>
        /\ \A k \in Marks \ {m} : pc'[k] = pc[k]
        /\ pc'[m] \in {"done", "notify"}
    BY <1>8 DEF MarkRead
  <2>4. asked[m] <= upto[m]
    BY <1>8 DEF MarkRead
  <2>5. cursor' \in [Members -> Int]
    <3>1. cursor' = [cursor EXCEPT ![By(m)] = IF upto[m] > @ THEN upto[m] ELSE @]
      BY <1>8 DEF MarkRead, CursorUp
    <3>2. upto[m] \in Int /\ cursor \in [Members -> Int]
      BY DEF TypeOK
    <3> QED
      BY <3>1, <3>2, <2>1
  <2>6. ASSUME NEW k \in Marks, pc'[k] = "notify"
        PROVE  asked[k] <= cursor'[By(k)]
    <3>1. CASE k = m
      BY <3>1, <2>1, <2>2, <2>4, <2>5
    <3>2. CASE k # m
      <4>1. asked[k] <= cursor[By(k)] /\ By(k) \in Members
        BY <2>3, <2>6, <3>2
      <4> QED
        BY <4>1, <2>2, <2>5
    <3> QED
      BY <3>1, <3>2
  <2>7. \A e \in receipts : e.upto <= cursor'[e.by]
    <3> SUFFICES ASSUME NEW e \in receipts
                 PROVE  e.upto <= cursor'[e.by]
      OBVIOUS
    <3>1. e.by \in Members /\ e.upto \in Int
      BY DEF TypeOK
    <3>2. e.upto <= cursor[e.by]
      BY DEF ReceiptsHold
    <3> QED
      BY <3>1, <3>2, <2>2, <2>5
  <2> QED
    BY <2>3, <2>6, <2>7
<1>9. ASSUME NEW m \in Marks, MarkNotify(m) PROVE ReceiptsHold'
  <2>1. receipts' \subseteq receipts \cup {[by |-> By(m), upto |-> asked[m]]}
    BY <1>9 DEF MarkNotify
  <2>2. UNCHANGED <<cursor, asked, upto, pc, lane>> /\ asked[m] <= cursor[By(m)]
    BY <1>9 DEF MarkNotify
  <2> QED
    BY <2>1, <2>2
<1>10. ASSUME NEW m \in Marks, MarkDone(m) PROVE ReceiptsHold'
  BY <1>10 DEF MarkDone
<1>11. ASSUME NEW r \in Requests, Fail(r) PROVE ReceiptsHold'
  BY <1>11 DEF Fail
<1>12. CASE UNCHANGED vars
  BY <1>12
<1> QED
  BY <1>1, <1>2, <1>3, <1>4, <1>5, <1>6, <1>7, <1>8, <1>9, <1>10, <1>11, <1>12
    DEF Next, SendStep, MarkStep, AllEnded

\* A message is appended behind those of its WebSocket with lower ids.
LEMMA OrderStep ==
    ASSUME TypeOK, IdsGiven, FeedsStored, OneFrame, SenderOrder, [Next]_vars
    PROVE  SenderOrder'
<1> USE RequestAssumption DEF SenderOrder, SameLane, FeedsStored, IdsGiven, TypeOK,
      Requests, Ended, Check, vars, sendVars, markVars, Goto
<1>1. ASSUME NEW s \in Sends, SendCheck(s) PROVE SenderOrder'
  BY <1>1 DEF SendCheck
<1>2. ASSUME NEW s \in Sends, SendInsert(s) PROVE SenderOrder'
  BY <1>2 DEF SendInsert
<1>3. ASSUME NEW s \in Sends, SendCommit(s) PROVE SenderOrder'
  BY <1>3 DEF SendCommit
<1>4. ASSUME NEW s \in Sends, SendPublish(s) PROVE SenderOrder'
  <2> HIDE DEF FeedsStored, IdsGiven, TypeOK, SenderOrder, SameLane
  <2>1. PICK u \in todo[s] : \/ feed' = [feed EXCEPT ![u] = Append(@, s)]
                           \/ UNCHANGED feed
    BY <1>4 DEF SendPublish
  <2>2. /\ u \in Members /\ s \in messages /\ feed[u] \in Seq(Sends)
        /\ Active(s) /\ id[s] # 0
    BY <1>4 DEF SendPublish, TypeOK, IdsGiven, Active
  <2>3. UNCHANGED <<id, lane>>
    BY <1>4 DEF SendPublish
  <2>4. CASE UNCHANGED feed
    BY <2>3, <2>4 DEF SenderOrder, SameLane
  <2>5. CASE feed' = [feed EXCEPT ![u] = Append(@, s)]
    <3>1. \A v \in Members : feed'[v] = IF v = u THEN Append(feed[u], s) ELSE feed[v]
      BY <2>2, <2>5 DEF TypeOK
    <3>2. ASSUME NEW j \in DOMAIN feed[u], SameLane(feed[u][j], s)
          PROVE  id[feed[u][j]] < id[s]
      <4>1. feed[u][j] \in Sends /\ feed[u][j] # s
        BY <2>1, <2>2 DEF FeedsStored, TypeOK
      <4> QED
        BY <3>2, <4>1, <2>2 DEF SameLane, OneFrame
    <3>3. ASSUME NEW j \in DOMAIN Append(feed[u], s), NEW k \in DOMAIN Append(feed[u], s),
                 j < k, SameLane(Append(feed[u], s)[j], Append(feed[u], s)[k])
          PROVE  id[Append(feed[u], s)[j]] < id[Append(feed[u], s)[k]]
      <4>1. j \in DOMAIN feed[u] /\ Append(feed[u], s)[j] = feed[u][j]
        BY <3>3, <2>2
      <4>2. CASE k \in DOMAIN feed[u]
        <5>1. Append(feed[u], s)[k] = feed[u][k]
          BY <4>2, <2>2
        <5> QED
          BY <3>3, <4>1, <4>2, <5>1, <2>2 DEF SenderOrder
      <4>3. CASE k \notin DOMAIN feed[u]
        <5>1. Append(feed[u], s)[k] = s
          BY <4>3, <2>2
        <5> QED
          BY <3>2, <3>3, <4>1, <5>1
      <4> QED
        BY <4>2, <4>3
    <3> QED
      BY <2>3, <3>1, <3>3 DEF SenderOrder, SameLane
  <2> QED
    BY <2>1, <2>4, <2>5
<1>5. ASSUME NEW s \in Sends, SendDone(s) PROVE SenderOrder'
  BY <1>5 DEF SendDone
<1>6. ASSUME NEW m \in Marks, MarkCheck(m) PROVE SenderOrder'
  BY <1>6 DEF MarkCheck
<1>7. ASSUME NEW m \in Marks, MarkLatest(m) PROVE SenderOrder'
  BY <1>7 DEF MarkLatest
<1>8. ASSUME NEW m \in Marks, MarkRead(m) PROVE SenderOrder'
  BY <1>8 DEF MarkRead
<1>9. ASSUME NEW m \in Marks, MarkNotify(m) PROVE SenderOrder'
  BY <1>9 DEF MarkNotify
<1>10. ASSUME NEW m \in Marks, MarkDone(m) PROVE SenderOrder'
  BY <1>10 DEF MarkDone
<1>11. ASSUME NEW r \in Requests, Fail(r) PROVE SenderOrder'
  BY <1>11 DEF Fail
<1>12. CASE UNCHANGED vars
  BY <1>12
<1> QED
  BY <1>1, <1>2, <1>3, <1>4, <1>5, <1>6, <1>7, <1>8, <1>9, <1>10, <1>11, <1>12
    DEF Next, SendStep, MarkStep, AllEnded

----------------------------------------------------------------------------

LEMMA InitInv ==
    Init => TypeOK /\ MsgInv
  BY RequestAssumption
     DEF Init, TypeOK, MsgInv, IdsGiven, FeedsStored, OneFrame, MembersOnly, ReceiptsHold,
         SenderOrder, Requests, Steps, Active, Ended, Ids

LEMMA NextInv ==
    TypeOK /\ MsgInv /\ [Next]_vars => (TypeOK /\ MsgInv)'
  BY TypeStep, IdsStep, FeedsStep, FrameStep, MembersStep, ReceiptsStep, OrderStep DEF MsgInv

\* Messages keeps its types.
THEOREM TypeCorrect == Spec => []TypeOK
  BY InitInv, NextInv, PTL DEF Spec

\* MsgInv is inductive, together with the types.
THEOREM MessageInvariant == Spec => [](TypeOK /\ MsgInv)
  BY InitInv, NextInv, PTL DEF Spec

\* A member's channel has the messages of one WebSocket in the order of their
\* ids, and none twice, whatever fails.
THEOREM ChannelsKeepOrder == Spec => []SenderOrder
  <1>1. MsgInv => SenderOrder
    BY DEF MsgInv
  <1>2. QED
    BY <1>1, MessageInvariant, PTL

\* A read cursor is past an uncommitted message only if a later one is there.
THEOREM PassedOnlyLate == Spec => []PassedOnlyIfLate
  <1>1. TypeOK /\ MsgInv => PassedOnlyIfLate
    <2> SUFFICES ASSUME TypeOK, MsgInv, NEW s \in Sends \ messages, NEW u \in Members,
                        id[s] # 0, id[s] <= cursor[u]
                 PROVE  \E t \in messages : id[t] > id[s]
      BY DEF PassedOnlyIfLate
    <2>1. id[s] \in Nat
      BY DEF TypeOK
    <2>2. cursor[u] \in Ids
      BY <2>1 DEF MsgInv, MembersOnly
    <2>3. PICK t \in messages : cursor[u] = id[t]
      BY <2>2 DEF Ids
    <2>4. t \in Sends /\ id[t] \in Nat /\ id[t] # id[s]
      BY DEF TypeOK, MsgInv, IdsGiven
    <2>5. QED
      BY <2>1, <2>3, <2>4
  <1>2. QED
    BY <1>1, MessageInvariant, PTL

----------------------------------------------------------------------------
(* Refinement.                                                             *)

\* Steps that leave the log, the channels, the cursors and the receipts alone.
LEMMA LogStutter ==
    ASSUME UNCHANGED <<id, messages, lane, feed, cursor, receipts>>
    PROVE  UNCHANGED Log!vars
  <1>1. \A s : Entry(s)' = Entry(s)
    BY DEF Entry, By
  <1>2. \A u : Pushed(u)' = Pushed(u)
    BY DEF Pushed
  <1>3. QED
    BY <1>1, <1>2 DEF Log!vars

\* Every step of Messages is a step of ChatLog, or leaves it as it is.
LEMMA LogStep ==
    ASSUME TypeOK, MsgInv, [Next]_vars
    PROVE  [Log!Next]_(Log!vars)
<1>1. ASSUME NEW s \in Sends, SendInsert(s) PROVE UNCHANGED Log!vars
  <2>1. s \notin messages
    BY <1>1 DEF SendInsert, MsgInv, IdsGiven
  <2>2. \A t \in messages : Entry(t)' = Entry(t)
    BY <1>1, <2>1 DEF SendInsert, Entry, By, TypeOK
  <2>3. UNCHANGED <<messages, feed, cursor, receipts>>
    BY <1>1 DEF SendInsert, markVars
  <2>4. \A u \in Members : Pushed(u)' = Pushed(u) /\ Pushed(u) \subseteq messages
    BY <2>3 DEF Pushed, MsgInv, FeedsStored
  <2>5. QED
    BY <2>2, <2>3, <2>4 DEF Log!vars
<1>2. ASSUME NEW s \in Sends, SendCommit(s) PROVE [Log!Next]_(Log!vars)
  <2>1. /\ messages' = messages \cup {s} /\ s \notin messages
        /\ UNCHANGED <<id, lane, feed, cursor, receipts>>
    BY <1>2 DEF SendCommit, MsgInv, IdsGiven, markVars
  <2>2. /\ \A t : Entry(t)' = Entry(t)
        /\ \A u : Pushed(u)' = Pushed(u)
    BY <2>1 DEF Entry, By, Pushed
  <2>3. Entry(s).id \in Nat \ {0} /\ Entry(s).from \in Members
    BY <1>2
      DEF SendCommit, Entry, MsgInv, IdsGiven, MembersOnly, Active, Ended, Requests, TypeOK
  <2>4. \A t \in messages : Entry(t).id # Entry(s).id
    BY <2>1, <2>3 DEF Entry, MsgInv, IdsGiven, TypeOK
  <2>5. {Entry(t) : t \in messages}' = {Entry(t) : t \in messages} \cup {Entry(s)}
    BY <2>1, <2>2
  <2>6. UNCHANGED <<[u \in Members |-> {Entry(t) : t \in Pushed(u)}], cursor, receipts>>
    BY <2>1, <2>2
  <2>7. Log!Post
    BY <2>3, <2>4, <2>5, <2>6 DEF Log!Post
  <2>8. QED
    BY <2>7 DEF Log!Next
<1>3. ASSUME NEW s \in Sends, SendPublish(s) PROVE [Log!Next]_(Log!vars)
  <2>1. PICK u \in todo[s] : \/ feed' = [feed EXCEPT ![u] = Append(@, s)]
                           \/ UNCHANGED feed
    BY <1>3 DEF SendPublish
  <2>2. UNCHANGED <<id, lane, messages, cursor, receipts>>
    BY <1>3 DEF SendPublish, markVars
  <2>3. u \in Members /\ s \in messages /\ feed[u] \in Seq(Sends)
    BY <1>3 DEF SendPublish, TypeOK, Requests, MsgInv, IdsGiven
  <2>4. CASE UNCHANGED feed
    BY <2>2, <2>4, LogStutter
  <2>5. CASE feed' = [feed EXCEPT ![u] = Append(@, s)]
    <3>1. \A t : Entry(t)' = Entry(t)
      BY <2>2 DEF Entry, By
    <3>2. \A v \in Members : Pushed(v)' = IF v = u THEN Pushed(u) \cup {s} ELSE Pushed(v)
      <4> SUFFICES ASSUME NEW v \in Members
                   PROVE  Pushed(v)' = IF v = u THEN Pushed(u) \cup {s} ELSE Pushed(v)
        OBVIOUS
      <4>1. CASE v # u
        BY <4>1, <2>3, <2>5 DEF Pushed, TypeOK
      <4>2. CASE v = u
        <5>1. feed'[u] = Append(feed[u], s)
          BY <2>3, <2>5 DEF TypeOK
        <5>2. {Append(feed[u], s)[k] : k \in DOMAIN Append(feed[u], s)}
                 = {feed[u][k] : k \in DOMAIN feed[u]} \cup {s}
          <6>1. DOMAIN Append(feed[u], s) = DOMAIN feed[u] \cup {Len(feed[u]) + 1}
            BY <2>3
          <6>2. \A k \in DOMAIN feed[u] : Append(feed[u], s)[k] = feed[u][k]
            BY <2>3
          <6>3. Append(feed[u], s)[Len(feed[u]) + 1] = s
            BY <2>3
          <6>4. QED
            BY <6>1, <6>2, <6>3
        <5>3. QED
          BY <4>2, <5>1, <5>2 DEF Pushed
      <4>3. QED
        BY <4>1, <4>2
    <3>3. [v \in Members |-> {Entry(t) : t \in Pushed(v)}]'
             = [[v \in Members |-> {Entry(t) : t \in Pushed(v)}]
                   EXCEPT ![u] = @ \cup {Entry(s)}]
      BY <2>3, <3>1, <3>2
    <3>4. Log!Hear(u)
      BY <2>2, <2>3, <3>1, <3>3 DEF Log!Hear
    <3>5. QED
      BY <2>3, <3>4 DEF Log!Next
  <2>6. QED
    BY <2>1, <2>4, <2>5
<1>4. ASSUME NEW m \in Marks, MarkRead(m) PROVE [Log!Next]_(Log!vars)
  <2>1. By(m) \in Members
    BY <1>4 DEF MarkRead, MsgInv, MembersOnly, Active, Ended, Requests
  <2>2. /\ UNCHANGED <<id, messages, lane, feed, receipts>>
        /\ cursor' = [cursor EXCEPT ![By(m)] = IF upto[m] > @ THEN upto[m] ELSE @]
    BY <1>4 DEF MarkRead, CursorUp, sendVars
  <2>3. CASE upto[m] <= cursor[By(m)]
    <3>1. UNCHANGED cursor
      BY <2>1, <2>2, <2>3 DEF TypeOK
    <3>2. QED
      BY <2>2, <3>1, LogStutter
  <2>4. CASE upto[m] > cursor[By(m)]
    <3>1. cursor' = [cursor EXCEPT ![By(m)] = upto[m]]
      BY <2>1, <2>2, <2>4
    <3>2. PICK s \in messages : upto[m] = id[s]
      BY <2>1, <2>4 DEF TypeOK, MsgInv, MembersOnly, Ids
    <3>3. Entry(s).id = upto[m]
      BY <3>2 DEF Entry
    <3>4. /\ \A t : Entry(t)' = Entry(t)
          /\ \A u : Pushed(u)' = Pushed(u)
      BY <2>2 DEF Entry, By, Pushed
    <3>5. Log!Advance(By(m))
      BY <2>2, <2>4, <3>1, <3>2, <3>3, <3>4 DEF Log!Advance
    <3>6. QED
      BY <2>1, <3>5 DEF Log!Next
  <2>5. QED
    BY <2>1, <2>3, <2>4 DEF TypeOK
<1>5. ASSUME NEW m \in Marks, MarkNotify(m) PROVE [Log!Next]_(Log!vars)
  <2>1. By(m) \in Members
    BY <1>5 DEF MarkNotify, MsgInv, MembersOnly, Active, Ended, Requests
  <2>2. /\ UNCHANGED <<id, messages, lane, feed, cursor>>
        /\ \/ receipts' = receipts \cup {[by |-> By(m), upto |-> asked[m]]}
           \/ UNCHANGED receipts
    BY <1>5 DEF MarkNotify, sendVars
  <2>3. asked[m] \in 0 .. cursor[By(m)]
    BY <1>5, <2>1 DEF MarkNotify, MsgInv, ReceiptsHold, TypeOK
  <2>4. CASE UNCHANGED receipts
    BY <2>2, <2>4, LogStutter
  <2>5. CASE receipts' = receipts \cup {[by |-> By(m), upto |-> asked[m]]}
    <3>1. /\ \A t : Entry(t)' = Entry(t)
          /\ \A u : Pushed(u)' = Pushed(u)
      BY <2>2 DEF Entry, By, Pushed
    <3>2. Log!Receipt(By(m))
      BY <2>2, <2>3, <2>5, <3>1 DEF Log!Receipt
    <3>3. QED
      BY <2>1, <3>2 DEF Log!Next
  <2>6. QED
    BY <2>2, <2>4, <2>5
<1>6. QED
  <2>1. CASE UNCHANGED <<id, messages, lane, feed, cursor, receipts>>
    BY <2>1, LogStutter
  <2>2. \/ UNCHANGED <<id, messages, lane, feed, cursor, receipts>>
        \/ \E s \in Sends : SendInsert(s) \/ SendCommit(s) \/ SendPublish(s)
        \/ \E m \in Marks : MarkRead(m) \/ MarkNotify(m)
    BY DEF Next, SendStep, MarkStep, SendCheck, SendDone, MarkCheck, MarkLatest, MarkDone,
           Fail, AllEnded, vars, sendVars, markVars
  <2>3. QED
    BY <1>1, <1>2, <1>3, <1>4, <1>5, <2>1, <2>2

\* Whatever fails and whichever requests overlap, what is stored, pushed, read
\* and told are what ChatLog promises.
THEOREM RefinesLog == Spec => KeepsLog
  <1>1. Init => Log!Init
    BY DEF Init, Log!Init, Entry, Pushed
  <1>2. QED
    BY <1>1, LogStep, MessageInvariant, PTL DEF Spec, KeepsLog, Log!Spec

=============================================================================
