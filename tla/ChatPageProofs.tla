--------------------------- MODULE ChatPageProofs ---------------------------
(***************************************************************************)
(* The chat page, for any conversations, messages, page size and number of *)
(* sockets and threads that are opened: a thread shows its own messages,   *)
(* keeps what it owes and shows nothing twice that was not POSTed; the     *)
(* read cursor never passes what the page has rendered.                    *)
(***************************************************************************)
EXTENDS ChatPage, RowsProofs

\* The thread is open, and was opened with no load under way.
Plain == active # None /\ ~crossed

\* The rows of loads end at the cursor, and a load on its way begins below.
PagesInv ==
    /\ load.append => load.before # 0
    /\ ~load.append => load.before = 0
    /\ load.step = "answered" => load.rows \subseteq Of(load.to) /\ \A n \in load.rows : Older(n)
    /\ \A n \in Ids : /\ paged[n] <= 1
                      /\ paged[n] # 0 /\ msgCursor # 0 => msgCursor <= n
                      /\ paged[n] # 0 /\ load.append => load.before <= n

\* How often a message can have been received: when it was due no more, and by
\* the answer of its POST.
Times(n) == (IF n \in messages \ due THEN 1 ELSE 0)
            + (IF n \in Own THEN IF stage[n] = "done" THEN 1 ELSE 0 ELSE 0)

PushesInv ==
    /\ \A n \in Own : stage[n] = "answer" => n \in messages
    /\ \A n \in Ids : pushed[n] <= Times(n)

\* Cursors and what is to become one were rendered.
ReadInv ==
    /\ \A c \in Convs : last[c] # 0 => last[c] \in rendered /\ conv[last[c]] = c
    /\ \A m \in marks : m.upto \in rendered /\ conv[m.upto] = m.to
    /\ ReadWasShown

\* No load is under way for another thread.
OwnInv ==
    Plain => /\ \A n \in Shown : conv[n] = active
             /\ load.step # "none" => load.to = active
             /\ owed \subseteq Of(active)

\* What is owed is shown, on its way or older than all that is.
OwedInv ==
    Plain => /\ load.append => load.before = msgCursor
             /\ ~FirstLoading => \A n \in owed : n \in Shown \/ n < msgCursor
             /\ FirstLoading /\ load.step = "sent" => owed = {}
             /\ load.step = "answered" =>
                   \A n \in owed : \/ load.append /\ n \in Shown
                                   \/ n \in load.rows
                                   \/ load.rows # {} /\ \A m \in load.rows : n < m

\* The inductive invariant behind OwnThread, ThreadComplete, ShownOnce and
\* ReadWasShown.
ThreadInv == PagesInv /\ PushesInv /\ ReadInv /\ OwnInv /\ OwedInv

----------------------------------------------------------------------------

LEMMA NumbersAreIds == Ids \in SUBSET Nat /\ 0 \in Nat /\ 0 \notin Ids
  BY MaxIdAssumption DEF Ids

LEMMA LoadTypes ==
    ASSUME TypeOK
    PROVE  /\ load = NoLoad <=> load.step = "none"
           /\ load.step \in {"none", "sent", "answered"}
           /\ load.step # "none" => load \in Loads /\ load.to \in Convs
           /\ load.append \in BOOLEAN /\ load.before \in Ids \cup {0} /\ load.rows \in SUBSET Ids
           /\ load.append => load.step # "none"
  <1>1. CASE load = NoLoad
    BY <1>1, Zenon DEF NoLoad
  <1>2. CASE load \in Loads
    BY <1>2 DEF Loads, NoLoad
  <1>3. QED
    BY <1>1, <1>2 DEF TypeOK

LEMMA ShownIs ==
    ASSUME TypeOK
    PROVE  \A n \in Ids : n \in Shown <=> paged[n] # 0 \/ pushed[n] # 0
  <1>1. \A n \in Ids : paged[n] \in Nat /\ pushed[n] \in Nat
    BY DEF TypeOK
  <1>2. \A a, b \in Nat : a + b > 0 <=> a # 0 \/ b # 0
    OBVIOUS
  <1>3. QED
    BY <1>1, <1>2 DEF Shown

LEMMA TimesType == \A n \in Ids : Times(n) \in Nat
  BY DEF Times

LEMMA InitKeeps == ASSUME Init PROVE TypeOK /\ ThreadInv
  <1> USE NumbersAreIds, BoundAssumption DEF Init, NoLoad, Empty
  <1>1. TypeOK
    <2>1. 0 \in 0 .. MaxOpens /\ 0 \in 0 .. MaxCloses
      OBVIOUS
    <2>2. stage \in [Own -> Stages]
      BY DEF Stages
    <2>3. load \in Loads \cup {NoLoad} /\ marks \subseteq [to : Convs, upto : Ids]
      OBVIOUS
    <2>4. paged \in [Ids -> Nat] /\ pushed \in [Ids -> Nat]
      OBVIOUS
    <2>5. QED
      BY <2>1, <2>2, <2>3, <2>4 DEF TypeOK
  <1>2. PagesInv
    BY DEF PagesInv
  <1>3. PushesInv
    <2>1. \A n \in Ids : pushed[n] = 0 /\ Times(n) \in Nat
      BY TimesType
    <2>2. QED
      BY <2>1 DEF PushesInv
  <1>4. ReadInv
    BY DEF ReadInv, ReadWasShown
  <1>5. OwnInv /\ OwedInv
    BY DEF OwnInv, OwedInv, Plain
  <1>6. QED
    BY <1>1, <1>2, <1>3, <1>4, <1>5 DEF ThreadInv

----------------------------------------------------------------------------
(* The server and the socket.                                              *)

\* The socket and its timer are nobody's business.
LEMMA SocketKeeps ==
    ASSUME TypeOK, ThreadInv, UNCHANGED <<serverVars, marks, stage, threadVars>>
    PROVE  ThreadInv'
  <1> USE DEF serverVars, threadVars
  <1>1. PagesInv'
    BY DEF ThreadInv, PagesInv, Of, Older
  <1>2. PushesInv'
    BY DEF ThreadInv, PushesInv, Times
  <1>3. ReadInv'
    BY DEF ThreadInv, ReadInv, ReadWasShown
  <1>4. OwnInv' /\ OwedInv'
    BY DEF ThreadInv, OwnInv, OwedInv, Plain, Shown, Of, FirstLoading
  <1>5. QED
    BY <1>1, <1>2, <1>3, <1>4 DEF ThreadInv

LEMMA SocketTypes ==
    ASSUME TypeOK, SocketStep
    PROVE  TypeOK'
  <1> USE DEF TypeOK, serverVars, threadVars
  <1>1. CASE SocketOpen
    BY <1>1 DEF SocketOpen
  <1>2. CASE SocketClose
    <2>1. closes' \in 0 .. MaxCloses
      BY <1>2, BoundAssumption DEF SocketClose
    <2>2. failed' \in BOOLEAN /\ timer' \in {"null", "set", "fired"}
      BY <1>2 DEF SocketClose
    <2>3. QED
      BY <1>2, <2>1, <2>2 DEF SocketClose
  <1>3. CASE TimerFires
    BY <1>3 DEF TimerFires
  <1>4. QED
    BY <1>1, <1>2, <1>3 DEF SocketStep

\* A message commits and is due: no thread shows it or owes it yet.
LEMMA StoreKeeps ==
    ASSUME TypeOK, ThreadInv, NEW n \in Ids, Store(n), UNCHANGED <<socketVars, marks, threadVars>>,
           stage' \in [Own -> Stages],
           \A k \in Own : /\ stage[k] = "done" => stage'[k] = "done"
                          /\ stage'[k] = "answer" => stage[k] = "answer" \/ k = n
    PROVE  TypeOK' /\ ThreadInv'
  <1> USE DEF Store, socketVars, threadVars
  <1>1. TypeOK'
    BY DEF TypeOK
  <1>2. PagesInv'
    BY DEF ThreadInv, PagesInv, Of, Older
  <1>3. PushesInv'
    <2>1. \A k \in Ids : k \in messages \ due => k \in (messages \ due)'
      OBVIOUS
    <2>2. \A k \in Ids : Times(k) <= Times(k)'
      BY <2>1 DEF Times
    <2>3. \A k \in Ids : pushed[k] \in Nat /\ Times(k) \in Nat /\ Times(k)' \in Nat
      BY DEF TypeOK, Times
    <2>4. \A k \in Ids : pushed'[k] <= Times(k)'
      BY <2>2, <2>3 DEF ThreadInv, PushesInv
    <2>5. QED
      BY <2>4 DEF ThreadInv, PushesInv
  <1>4. ReadInv'
    BY DEF ThreadInv, ReadInv, ReadWasShown
  <1>5. OwnInv' /\ OwedInv'
    BY DEF ThreadInv, OwnInv, OwedInv, Plain, Shown, Of, FirstLoading
  <1>6. QED
    BY <1>1, <1>2, <1>3, <1>4, <1>5 DEF ThreadInv

\* The cursor goes to an id that was rendered.
LEMMA MarkArrivesKeeps ==
    ASSUME TypeOK, ThreadInv, NEW m \in marks, MarkArrives(m)
    PROVE  TypeOK' /\ ThreadInv'
  <1> USE DEF MarkArrives, socketVars, threadVars
  <1>1. m.to \in Convs /\ m.upto \in Ids
    BY DEF TypeOK
  <1>2. TypeOK'
    BY <1>1 DEF TypeOK
  <1>3. PagesInv'
    BY DEF ThreadInv, PagesInv, Of, Older
  <1>4. PushesInv'
    BY DEF ThreadInv, PushesInv, Times
  <1>5. ReadInv'
    <2>1. ReadWasShown'
      BY <1>1 DEF ThreadInv, ReadInv, ReadWasShown, TypeOK
    <2>2. marks' \subseteq marks /\ UNCHANGED <<last, rendered, conv>>
      OBVIOUS
    <2>3. QED
      BY <2>1, <2>2 DEF ThreadInv, ReadInv
  <1>6. OwnInv' /\ OwedInv'
    BY DEF ThreadInv, OwnInv, OwedInv, Plain, Shown, Of, FirstLoading
  <1>7. QED
    BY <1>2, <1>3, <1>4, <1>5, <1>6 DEF ThreadInv

LEMMA ServerKeeps ==
    ASSUME TypeOK, ThreadInv, ServerStep
    PROVE  TypeOK' /\ ThreadInv'
  <1>1. CASE StoreOther
    BY <1>1, StoreKeeps DEF StoreOther, TypeOK
  <1>2. ASSUME NEW n \in Own, StoreOwn(n) PROVE TypeOK' /\ ThreadInv'
    <2>1. n \in Ids
      BY OwnAssumption
    <2>2. stage' = [stage EXCEPT ![n] = IF @ = "post" THEN "answer" ELSE @]
          /\ stage[n] \in {"frame", "post", "back"} /\ Store(n)
          /\ UNCHANGED <<socketVars, marks, threadVars>>
      BY <1>2 DEF StoreOwn
    <2>3. stage' \in [Own -> Stages]
      BY <2>2 DEF TypeOK, Stages
    <2>4. \A k \in Own : /\ stage[k] = "done" => stage'[k] = "done"
                         /\ stage'[k] = "answer" => stage[k] = "answer" \/ k = n
      BY <2>2 DEF TypeOK
    <2>5. QED
      BY <2>1, <2>2, <2>3, <2>4, StoreKeeps
  <1>3. QED
    BY <1>1, <1>2, MarkArrivesKeeps DEF ServerStep

----------------------------------------------------------------------------
(* The thread.                                                             *)

\* What is marked was rendered.
LEMMA MarkReadKeeps ==
    ASSUME TypeOK, ThreadInv, NEW c \in Convs, MarkRead(c), UNCHANGED <<conv, last, cursor>>,
           rendered \subseteq rendered'
    PROVE  marks' \subseteq [to : Convs, upto : Ids] /\ ReadInv'
  <1>1. last[c] \in Ids \cup {0} /\ cursor[c] \in Ids \cup {0}
    BY DEF TypeOK
  <1>2. CASE last[c] > cursor[c]
    <2>1. last[c] \in Ids
      BY <1>1, <1>2, NumbersAreIds
    <2>2. marks' = marks \cup {[to |-> c, upto |-> last[c]]}
      BY <1>2 DEF MarkRead, Seen
    <2>3. last[c] \in rendered /\ conv[last[c]] = c
      BY <2>1, NumbersAreIds DEF ThreadInv, ReadInv
    <2>4. marks' \subseteq [to : Convs, upto : Ids]
      BY <2>1, <2>2 DEF TypeOK
    <2>5. QED
      BY <2>2, <2>3, <2>4 DEF ThreadInv, ReadInv, ReadWasShown
  <1>3. CASE ~(last[c] > cursor[c])
    <2>1. marks' = marks
      BY <1>3 DEF MarkRead, Seen
    <2>2. QED
      BY <2>1 DEF ThreadInv, ReadInv, ReadWasShown, TypeOK
  <1>4. QED
    BY <1>2, <1>3

\* A message that is received is there once more, and owed unless a first page
\* replaces it.
LEMMA ReceiveKeeps ==
    ASSUME TypeOK, ThreadInv, NEW n \in Ids, n \in messages, ReceiveMessage(n),
           UNCHANGED <<conv, messages, cursor, active, load, msgCursor, last, paged, crossed>>,
           \A k \in Own : stage'[k] = "answer" => stage[k] = "answer",
           \A k \in Ids \ {n} : Times(k) <= Times(k)',
           Times(n) + 1 <= Times(n)'
    PROVE  /\ ThreadInv'
           /\ marks' \subseteq [to : Convs, upto : Ids]
           /\ pushed' \in [Ids -> Nat]
           /\ owed' \subseteq messages
           /\ rendered' \subseteq messages
  <1>1. \A k \in Ids : pushed[k] \in Nat /\ paged[k] \in Nat /\ Times(k) \in Nat /\ Times(k)' \in Nat
    BY DEF TypeOK, Times
  <1>2. PagesInv'
    BY DEF ThreadInv, PagesInv, Of, Older
  <1>3. \A k \in Own : stage'[k] = "answer" => k \in messages'
    BY DEF ThreadInv, PushesInv
  <1>4. CASE conv[n] # active
    <2>1. UNCHANGED <<pushed, owed, rendered, marks>>
      BY <1>4 DEF ReceiveMessage
    <2>2. \A k \in Ids : pushed'[k] <= Times(k)'
      BY <1>1, <2>1 DEF ThreadInv, PushesInv
    <2>3. PushesInv'
      BY <1>3, <2>2 DEF PushesInv
    <2>4. ReadInv'
      BY <2>1 DEF ThreadInv, ReadInv, ReadWasShown
    <2>5. OwnInv' /\ OwedInv'
      BY <2>1 DEF ThreadInv, OwnInv, OwedInv, Plain, Shown, Of, FirstLoading
    <2>6. QED
      BY <1>2, <2>1, <2>3, <2>4, <2>5 DEF ThreadInv, TypeOK
  <1>5. CASE conv[n] = active
    <2>1. /\ pushed' = [pushed EXCEPT ![n] = @ + 1]
          /\ owed' = IF FirstLoading THEN owed ELSE owed \cup {n}
          /\ rendered' = rendered \cup {n}
          /\ MarkRead(active)
      BY <1>5 DEF ReceiveMessage
    <2>2. pushed'[n] = pushed[n] + 1 /\ (\A k \in Ids \ {n} : pushed'[k] = pushed[k])
          /\ pushed' \in [Ids -> Nat]
      BY <1>1, <2>1 DEF TypeOK
    <2>3. PushesInv'
      <3>1. \A k \in Ids : pushed[k] <= Times(k)
        BY DEF ThreadInv, PushesInv
      <3>2. pushed'[n] <= Times(n)'
        BY <1>1, <2>2, <3>1
      <3>3. \A k \in Ids \ {n} : pushed'[k] <= Times(k)'
        BY <1>1, <2>2, <3>1
      <3>4. QED
        BY <1>3, <3>2, <3>3 DEF PushesInv
    <2>4. active \in Convs
      <3>1. conv[n] \in Convs
        BY HomeAssumption DEF TypeOK
      <3>2. QED
        BY <1>5, <3>1
    <2>5. ReadInv' /\ marks' \subseteq [to : Convs, upto : Ids]
      BY <2>1, <2>4, MarkReadKeeps
    <2>6. Shown' = Shown \cup {n}
      <3>1. \A k \in Ids : k \in Shown' <=> paged[k] # 0 \/ pushed'[k] # 0
        <4>1. \A k \in Ids : pushed'[k] \in Nat /\ paged[k] \in Nat
          BY <1>1, <2>2
        <4>2. \A a, b \in Nat : a + b > 0 <=> a # 0 \/ b # 0
          OBVIOUS
        <4>3. QED
          BY <4>1, <4>2 DEF Shown
      <3>2. \A k \in Ids : k \in Shown <=> paged[k] # 0 \/ pushed[k] # 0
        BY ShownIs
      <3>3. pushed'[n] # 0
        BY <1>1, <2>2
      <3>4. \A k \in Ids : k \in Shown' <=> k \in Shown \/ k = n
        BY <2>2, <3>1, <3>2, <3>3
      <3>5. Shown \subseteq Ids /\ Shown' \subseteq Ids
        BY DEF Shown
      <3>6. QED
        BY <3>4, <3>5
    <2>7. Plain' = Plain /\ Of(active)' = Of(active) /\ (FirstLoading' = FirstLoading) /\ n \in Of(active)
      BY <1>5 DEF Plain, Of, FirstLoading
    <2>8. owed' \subseteq owed \cup {n} /\ (FirstLoading => owed' = owed)
      BY <2>1
    <2>9. OwnInv'
      BY <1>5, <2>6, <2>7, <2>8 DEF ThreadInv, OwnInv
    <2>10. OwedInv'
      <3>1. ASSUME Plain, ~FirstLoading, NEW m \in owed' PROVE m \in Shown' \/ m < msgCursor
        BY <2>6, <2>8, <3>1 DEF ThreadInv, OwedInv
      <3>2. Plain /\ FirstLoading /\ load.step = "sent" => owed' = {}
        BY <2>8 DEF ThreadInv, OwedInv
      <3>3. ASSUME Plain, load.step = "answered", NEW m \in owed'
            PROVE  \/ load.append /\ m \in Shown'
                   \/ m \in load.rows
                   \/ load.rows # {} /\ \A k \in load.rows : m < k
        <4>1. CASE load.append
          BY <2>6, <2>8, <3>3, <4>1 DEF ThreadInv, OwedInv
        <4>2. CASE ~load.append
          <5>1. FirstLoading
            BY <3>3, <4>2 DEF FirstLoading
          <5>2. QED
            BY <2>8, <3>3, <4>2, <5>1 DEF ThreadInv, OwedInv
        <4>3. QED
          BY <4>1, <4>2
      <3>4. Plain => (load.append => load.before = msgCursor)
        BY DEF ThreadInv, OwedInv
      <3>5. QED
        BY <2>7, <3>1, <3>2, <3>3, <3>4 DEF OwedInv
    <2>11. owed' \subseteq messages /\ rendered' \subseteq messages
      BY <2>1, <2>8 DEF TypeOK
    <2>12. QED
      BY <1>2, <2>2, <2>3, <2>5, <2>9, <2>10, <2>11 DEF ThreadInv
  <1>6. QED
    BY <1>4, <1>5

LEMMA PushKeeps ==
    ASSUME TypeOK, ThreadInv, NEW n \in Ids, Receive(n)
    PROVE  TypeOK' /\ ThreadInv'
  <1> USE DEF Receive, socketVars
  <1>1. n \in messages /\ n \notin messages \ due /\ n \in (messages \ due)'
    BY DEF TypeOK
  <1>2. \A k \in Ids \ {n} : k \in (messages \ due)' <=> k \in messages \ due
    OBVIOUS
  <1>3. \A k \in Ids \ {n} : Times(k)' = Times(k)
    BY <1>2 DEF Times
  <1>4. Times(n) + 1 = Times(n)'
    BY <1>1 DEF Times
  <1>5. \A k \in Ids : Times(k) \in Nat /\ Times(k)' \in Nat
    BY DEF Times
  <1>6. /\ ThreadInv'
        /\ marks' \subseteq [to : Convs, upto : Ids]
        /\ pushed' \in [Ids -> Nat]
        /\ owed' \subseteq messages
        /\ rendered' \subseteq messages
    BY <1>1, <1>3, <1>4, <1>5, ReceiveKeeps
  <1>7. TypeOK'
    BY <1>6 DEF TypeOK
  <1>8. QED
    BY <1>6, <1>7

\* The answer of a POST.
LEMMA PostAnsweredKeeps ==
    ASSUME TypeOK, ThreadInv, NEW n \in Own, PostAnswered(n)
    PROVE  TypeOK' /\ ThreadInv'
  <1> USE DEF PostAnswered, socketVars, serverVars
  <1>1. n \in Ids /\ n \in messages
    BY OwnAssumption DEF ThreadInv, PushesInv
  <1>2. stage'[n] = "done" /\ stage' \in [Own -> Stages] /\ \A k \in Own \ {n} : stage'[k] = stage[k]
    BY DEF TypeOK, Stages
  <1>3. \A k \in Ids \ {n} : Times(k)' = Times(k)
    BY <1>2 DEF Times
  <1>4. Times(n) + 1 = Times(n)'
    BY <1>2 DEF Times
  <1>5. \A k \in Ids : Times(k) \in Nat /\ Times(k)' \in Nat
    BY DEF Times
  <1>6. /\ ThreadInv'
        /\ marks' \subseteq [to : Convs, upto : Ids]
        /\ pushed' \in [Ids -> Nat]
        /\ owed' \subseteq messages
        /\ rendered' \subseteq messages
    BY <1>1, <1>2, <1>3, <1>4, <1>5, ReceiveKeeps
  <1>7. TypeOK'
    BY <1>2, <1>6 DEF TypeOK
  <1>8. QED
    BY <1>6, <1>7

\* A thread that is opened is empty, and plain if no load is under way.
LEMMA OpenKeeps ==
    ASSUME TypeOK, ThreadInv, NEW c \in Convs, Open(c)
    PROVE  TypeOK' /\ ThreadInv'
  <1>1. /\ opens < MaxOpens /\ opens' = opens + 1
        /\ active' = c /\ msgCursor' = 0 /\ paged' = Empty /\ pushed' = Empty /\ owed' = {}
        /\ crossed' = (load.step # "none")
        /\ load' = IF load.step = "none" THEN Sent(c, FALSE, 0) ELSE load
        /\ MarkRead(c)
        /\ UNCHANGED <<conv, messages, due, cursor, ws, timer, failed, closes, stage, last, rendered>>
    BY DEF Open, serverVars, socketVars
  <1>2. ReadInv' /\ marks' \subseteq [to : Convs, upto : Ids]
    BY <1>1, MarkReadKeeps
  <1>3. load' \in Loads \cup {NoLoad}
    BY <1>1, NumbersAreIds DEF Loads, Sent, TypeOK
  <1>4. \A n \in Ids : paged'[n] = 0 /\ pushed'[n] = 0
    BY <1>1 DEF Empty
  <1>5. TypeOK'
    <2>1. opens' \in 0 .. MaxOpens
      BY <1>1, BoundAssumption DEF TypeOK
    <2>2. paged' \in [Ids -> Nat] /\ pushed' \in [Ids -> Nat]
      BY <1>1 DEF Empty
    <2>3. QED
      BY <1>1, <1>2, <1>3, <2>1, <2>2, NumbersAreIds DEF TypeOK
  <1>6. \/ load' = load /\ load.step # "none"
        \/ load.step = "none" /\ load'.step = "sent" /\ load'.append = FALSE /\ load'.before = 0
           /\ load'.to = c
    BY <1>1 DEF Sent
  <1>7. PagesInv'
    <2>1. CASE load' = load
      <3>1. conv' = conv /\ messages' = messages
        BY <1>1
      <3>2. PagesInv
        BY DEF ThreadInv
      <3>3. load'.step = "answered" => load'.rows \subseteq Of(load.to)' /\ \A n \in load'.rows : Older(n)'
        BY <2>1, <3>1, <3>2 DEF PagesInv, Of, Older
      <3>4. (load'.append => load'.before # 0) /\ (~load'.append => load'.before = 0)
        BY <2>1, <3>2 DEF PagesInv
      <3>5. \A n \in Ids : paged'[n] <= 1 /\ ~(paged'[n] # 0)
        BY <1>4
      <3>6. QED
        BY <3>3, <3>4, <3>5 DEF PagesInv
    <2>2. CASE load'.step = "sent" /\ load'.append = FALSE /\ load'.before = 0
      BY <1>4, <2>2 DEF PagesInv
    <2>3. QED
      BY <1>6, <2>1, <2>2
  <1>8. PushesInv'
    <2>1. \A n \in Ids : Times(n)' \in Nat
      BY DEF Times
    <2>2. QED
      BY <1>1, <1>4, <2>1 DEF ThreadInv, PushesInv
  <1>9. Shown' = {}
    BY <1>4 DEF Shown
  <1>10. OwnInv'
    BY <1>1, <1>6, <1>9 DEF OwnInv, Plain
  <1>11. OwedInv'
    BY <1>1, <1>6 DEF OwedInv, Plain
  <1>12. QED
    BY <1>2, <1>5, <1>7, <1>8, <1>10, <1>11 DEF ThreadInv

LEMMA BackKeeps ==
    ASSUME TypeOK, ThreadInv, Back
    PROVE  TypeOK' /\ ThreadInv'
  <1> USE DEF Back, serverVars, socketVars
  <1>1. TypeOK'
    BY DEF TypeOK
  <1>2. PagesInv'
    BY DEF ThreadInv, PagesInv, Of, Older
  <1>3. PushesInv'
    BY DEF ThreadInv, PushesInv, Times
  <1>4. ReadInv'
    BY DEF ThreadInv, ReadInv, ReadWasShown
  <1>5. OwnInv' /\ OwedInv'
    BY DEF OwnInv, OwedInv, Plain
  <1>6. QED
    BY <1>1, <1>2, <1>3, <1>4, <1>5 DEF ThreadInv

\* Older messages are asked for below the cursor.
LEMMA LoadOlderKeeps ==
    ASSUME TypeOK, ThreadInv, LoadOlder
    PROVE  TypeOK' /\ ThreadInv'
  <1>1. /\ active # None /\ msgCursor # 0 /\ load.step = "none"
        /\ load' = Sent(active, TRUE, msgCursor)
        /\ UNCHANGED <<conv, messages, due, cursor, ws, timer, failed, closes, marks, stage, active,
                       msgCursor, last, paged, pushed, crossed, owed, rendered, opens>>
    BY DEF LoadOlder, serverVars, socketVars
  <1>2. active \in Convs /\ msgCursor \in Ids
    BY <1>1 DEF TypeOK
  <1>3. load' \in Loads
    BY <1>1, <1>2 DEF Sent, Loads
  <1>4. load'.step = "sent" /\ load'.append = TRUE /\ load'.before = msgCursor /\ load'.to = active
    BY <1>1 DEF Sent
  <1>5. TypeOK'
    BY <1>1, <1>3 DEF TypeOK
  <1>6. PagesInv'
    BY <1>1, <1>4 DEF ThreadInv, PagesInv
  <1>7. PushesInv' /\ ReadInv'
    BY <1>1 DEF ThreadInv, PushesInv, Times, ReadInv, ReadWasShown
  <1>8. ~FirstLoading /\ ~FirstLoading' /\ Shown' = Shown /\ Plain' = Plain /\ Of(active)' = Of(active)
    BY <1>1, <1>4 DEF FirstLoading, Shown, Plain, Of
  <1>9. OwnInv'
    BY <1>1, <1>4, <1>8 DEF ThreadInv, OwnInv
  <1>10. OwedInv'
    BY <1>1, <1>4, <1>8 DEF ThreadInv, OwedInv
  <1>11. QED
    BY <1>5, <1>6, <1>7, <1>9, <1>10 DEF ThreadInv

\* The answer has messages of the conversation that was asked for, older than
\* it was asked, and leaves out only older ones.
LEMMA PageIs ==
    ASSUME TypeOK
    PROVE  /\ Page \subseteq Of(load.to)
           /\ \A n \in Page : Older(n)
           /\ \A n \in Of(load.to) : Older(n) =>
                 n \in Page \/ (Page # {} /\ \A m \in Page : n < m)
  <1> DEFINE S == {n \in Of(load.to) : Older(n)}
  <1>1. S \in SUBSET (1 .. MaxId) /\ MaxId \in Nat /\ Limit \in Nat /\ Limit \in Nat \ {0}
    BY MaxIdAssumption, LimitAssumption DEF Of, TypeOK, Ids
  <1>2. Page = FirstOf(S, Limit)
    BY DEF Page
  <1>3. Page \subseteq S
    BY <1>2 DEF FirstOf
  <1>4. ASSUME NEW n \in S \ Page
        PROVE  Page # {} /\ \A m \in Page : n < m
    <2> HIDE DEF S
    <2>1. \A m \in Page : n < m
      BY <1>1, <1>2, <1>4, LeftOutIsOlder
    <2>2. ~(Cardinality(Page) < Limit)
      BY <1>1, <1>2, <1>4, ShortPageHasAll
    <2>3. Page # {}
      BY <1>1, <2>2, EmptyIsShort
    <2>4. QED
      BY <2>1, <2>3
  <1>5. QED
    BY <1>3, <1>4

LEMMA ServeLoadKeeps ==
    ASSUME TypeOK, ThreadInv, ServeLoad
    PROVE  TypeOK' /\ ThreadInv'
  <1>1. /\ load.step = "sent"
        /\ load' = [load EXCEPT !.step = "answered", !.rows = Page]
        /\ owed' = IF load.append \/ active # load.to THEN owed ELSE owed \cup Of(load.to)
        /\ UNCHANGED <<conv, messages, due, cursor, ws, timer, failed, closes, marks, stage, active,
                       msgCursor, last, paged, pushed, crossed, rendered, opens>>
    BY DEF ServeLoad, serverVars, socketVars
  <1>2. load \in Loads
    BY <1>1, LoadTypes
  <1>3. Page \in SUBSET Ids
    BY PageIs DEF Of, TypeOK
  <1>4. /\ load' \in Loads
        /\ load'.to = load.to /\ load'.append = load.append /\ load'.before = load.before
        /\ load'.step = "answered" /\ load'.rows = Page
    BY <1>1, <1>2, <1>3 DEF Loads
  <1>5. TypeOK'
    BY <1>1, <1>4 DEF TypeOK, Of
  <1>6. PagesInv'
    <2>1. load'.rows \subseteq Of(load.to)' /\ \A n \in load'.rows : Older(n)'
      BY <1>1, <1>4, PageIs DEF Of, Older
    <2>2. QED
      BY <1>1, <1>4, <2>1 DEF ThreadInv, PagesInv
  <1>7. PushesInv' /\ ReadInv'
    BY <1>1 DEF ThreadInv, PushesInv, Times, ReadInv, ReadWasShown
  <1>8. (FirstLoading' = FirstLoading) /\ Shown' = Shown /\ Plain' = Plain /\ Of(active)' = Of(active)
    BY <1>1, <1>4 DEF FirstLoading, Shown, Plain, Of
  <1>9. Plain => load.to = active /\ owed \subseteq Of(active)
    BY <1>1 DEF ThreadInv, OwnInv
  <1>10. OwnInv'
    BY <1>1, <1>4, <1>8, <1>9 DEF ThreadInv, OwnInv
  <1>11. ASSUME Plain, NEW n \in owed'
         PROVE  \/ load.append /\ n \in Shown
                \/ n \in Page
                \/ Page # {} /\ \A m \in Page : n < m
    <2>1. n \in Of(load.to)
      BY <1>1, <1>9, <1>11
    <2>2. CASE load.append
      <3>1. ~FirstLoading /\ n \in owed
        BY <1>1, <2>2 DEF FirstLoading
      <3>2. n \in Shown \/ n < load.before
        BY <1>11, <2>2, <3>1 DEF ThreadInv, OwedInv
      <3>3. QED
        BY <2>1, <2>2, <3>2, PageIs DEF Older
    <2>3. CASE ~load.append
      <3>1. load.before = 0
        BY <2>3 DEF ThreadInv, PagesInv
      <3>2. QED
        BY <2>1, <3>1, PageIs DEF Older
    <2>4. QED
      BY <2>2, <2>3
  <1>12. OwedInv'
    <2>1. ~FirstLoading => owed' = owed
      BY <1>1 DEF FirstLoading
    <2>2. QED
      BY <1>1, <1>4, <1>8, <1>11, <2>1 DEF ThreadInv, OwedInv
  <1>13. QED
    BY <1>5, <1>6, <1>7, <1>10, <1>12 DEF ThreadInv

LEMMA FailLoadKeeps ==
    ASSUME TypeOK, ThreadInv, FailLoad
    PROVE  TypeOK' /\ ThreadInv'
  <1>1. /\ load.step # "none"
        /\ load' = NoLoad
        /\ owed' = IF load.append THEN owed ELSE {}
        /\ UNCHANGED <<conv, messages, due, cursor, ws, timer, failed, closes, marks, stage, active,
                       msgCursor, last, paged, pushed, crossed, rendered, opens>>
    BY DEF FailLoad, serverVars, socketVars
  <1>2. load'.step = "none" /\ load'.append = FALSE /\ load'.before = 0
    BY <1>1 DEF NoLoad
  <1>3. TypeOK'
    BY <1>1 DEF TypeOK
  <1>4. PagesInv'
    BY <1>1, <1>2 DEF ThreadInv, PagesInv
  <1>5. PushesInv' /\ ReadInv'
    BY <1>1 DEF ThreadInv, PushesInv, Times, ReadInv, ReadWasShown
  <1>6. ~FirstLoading' /\ Shown' = Shown /\ Plain' = Plain /\ Of(active)' = Of(active)
    BY <1>1, <1>2 DEF FirstLoading, Shown, Plain, Of
  <1>7. OwnInv'
    BY <1>1, <1>2, <1>6 DEF ThreadInv, OwnInv
  <1>8. Plain => \A n \in owed' : n \in Shown \/ n < msgCursor
    <2>1. load.append => ~FirstLoading
      BY DEF FirstLoading
    <2>2. QED
      BY <1>1, <2>1 DEF ThreadInv, OwedInv
  <1>9. OwedInv'
    BY <1>1, <1>2, <1>6, <1>8 DEF OwedInv
  <1>10. QED
    BY <1>3, <1>4, <1>5, <1>7, <1>9 DEF ThreadInv

\* The answer goes into the list, and the cursor to its oldest message.
LEMMA RenderLoadKeeps ==
    ASSUME TypeOK, ThreadInv, RenderLoad
    PROVE  TypeOK' /\ ThreadInv'
  <1> DEFINE rows == load.rows
  <1> DEFINE row == [n \in Ids |-> IF n \in rows THEN 1 ELSE 0]
  <1>1. /\ load.step = "answered"
        /\ msgCursor' = Oldest(rows)
        /\ IF load.append
           THEN /\ paged' = [n \in Ids |-> paged[n] + row[n]]
                /\ last' = IF last[load.to] = 0
                           THEN [last EXCEPT ![load.to] = Newest(rows)] ELSE last
                /\ UNCHANGED pushed
           ELSE /\ paged' = row
                /\ pushed' = Empty
                /\ last' = [last EXCEPT ![load.to] = Newest(rows)]
        /\ rendered' = rendered \cup rows
        /\ load' = NoLoad
        /\ UNCHANGED <<conv, messages, due, cursor, ws, timer, failed, closes, marks, stage, active,
                       crossed, owed, opens>>
    BY DEF RenderLoad, serverVars, socketVars
  <1>2. load \in Loads /\ load.to \in Convs /\ rows \in SUBSET Ids
    BY <1>1, LoadTypes
  <1>3. rows \subseteq Of(load.to) /\ rows \subseteq messages /\ \A n \in rows : Older(n)
    BY <1>1 DEF ThreadInv, PagesInv, Of
  <1>4. load'.step = "none" /\ load'.append = FALSE /\ load'.before = 0
    BY <1>1 DEF NoLoad
  <1>5. /\ rows = {} => msgCursor' = 0
        /\ rows # {} => msgCursor' \in rows /\ \A n \in rows : msgCursor' <= n
    BY <1>1, <1>2, NumbersAreIds, OldestIsOldest DEF Oldest
  <1>6. Newest(rows) = 0 \/ Newest(rows) \in rows
    <2>1. rows \in SUBSET (1 .. MaxId)
      BY <1>2 DEF Ids
    <2>2. QED
      BY <2>1, MaxIdAssumption, NewestIsNewest DEF Newest
  <1>7. \A n \in Ids : paged[n] \in Nat /\ pushed[n] \in Nat
    BY DEF TypeOK
  <1>8. \A n \in Ids : /\ paged'[n] = (IF load.append THEN paged[n] ELSE 0)
                                       + (IF n \in rows THEN 1 ELSE 0)
                       /\ pushed'[n] = IF load.append THEN pushed[n] ELSE 0
    BY <1>1, <1>7 DEF Empty
  <1>9. paged' \in [Ids -> Nat] /\ pushed' \in [Ids -> Nat]
    BY <1>1, <1>7 DEF Empty, TypeOK
  <1>10. \A n \in Ids : n \in Shown' <=> n \in rows \/ (load.append /\ n \in Shown)
    BY <1>7, <1>8 DEF Shown
  <1>11. last' \in [Convs -> Ids \cup {0}]
         /\ \A c \in Convs : last'[c] = last[c] \/ (c = load.to /\ last'[c] = Newest(rows))
    <2>1. Newest(rows) \in Ids \cup {0}
      BY <1>2, <1>6
    <2>2. last' = last \/ last' = [last EXCEPT ![load.to] = Newest(rows)]
      BY <1>1
    <2>3. QED
      <3> HIDE DEF rows
      <3>1. QED
        BY <1>2, <2>1, <2>2 DEF TypeOK
  <1>12. TypeOK'
    <2>1. msgCursor' \in Ids \cup {0}
      BY <1>2, <1>5
    <2>2. rendered' \subseteq messages
      BY <1>1, <1>3 DEF TypeOK
    <2>3. QED
      BY <1>1, <1>9, <1>11, <2>1, <2>2 DEF TypeOK
  <1>13. PagesInv'
    <2>1. ASSUME NEW n \in Ids
          PROVE  paged'[n] <= 1 /\ (paged'[n] # 0 /\ msgCursor' # 0 => msgCursor' <= n)
      <3>1. /\ paged[n] \in Nat /\ paged[n] <= 1
            /\ paged[n] # 0 /\ load.append => load.before <= n
            /\ load.append => load.before # 0
        BY <1>7 DEF ThreadInv, PagesInv
      <3>2. n \in Nat /\ msgCursor' \in Nat /\ load.before \in Nat
        BY <1>12, NumbersAreIds, LoadTypes DEF TypeOK
      <3>3. CASE n \in rows
        <4>1. load.before = 0 \/ n < load.before
          BY <1>3, <3>3 DEF Older
        <4>2. ~(paged[n] # 0 /\ load.append)
          BY <3>1, <3>2, <4>1
        <4>3. paged'[n] = 1
          BY <1>8, <3>1, <3>3, <4>2
        <4>4. msgCursor' <= n
          BY <1>5, <3>3
        <4>5. QED
          BY <4>3, <4>4
      <3>4. CASE n \notin rows
        <4>1. paged'[n] = (IF load.append THEN paged[n] ELSE 0)
          BY <1>8, <3>1, <3>4
        <4>2. ASSUME paged'[n] # 0, msgCursor' # 0 PROVE msgCursor' <= n
          <5>1. load.append /\ load.before # 0 /\ load.before <= n
            BY <3>1, <4>1, <4>2
          <5>2. msgCursor' \in rows
            BY <1>5, <4>2
          <5>3. msgCursor' < load.before
            BY <1>3, <5>1, <5>2 DEF Older
          <5>4. QED
            BY <3>2, <5>1, <5>3
        <4>3. QED
          BY <3>1, <4>1, <4>2
      <3>5. QED
        BY <3>3, <3>4
    <2>2. QED
      BY <1>4, <2>1 DEF PagesInv
  <1>14. PushesInv'
    <2>1. \A n \in Ids : Times(n)' = Times(n) /\ Times(n) \in Nat
      BY <1>1 DEF Times
    <2>2. \A n \in Ids : pushed'[n] <= pushed[n]
      BY <1>7, <1>8
    <2>3. \A n \in Ids : pushed'[n] \in Nat
      BY <1>9
    <2>4. \A n \in Ids : pushed'[n] <= Times(n)'
      BY <1>7, <2>1, <2>2, <2>3 DEF ThreadInv, PushesInv
    <2>5. QED
      BY <1>1, <2>4 DEF ThreadInv, PushesInv
  <1>15. ReadInv'
    <2>1. ASSUME NEW c \in Convs, last'[c] # 0 PROVE last'[c] \in rendered' /\ conv[last'[c]] = c
      <3>1. CASE last'[c] = last[c]
        BY <1>1, <2>1, <3>1 DEF ThreadInv, ReadInv
      <3>2. CASE c = load.to /\ last'[c] = Newest(rows)
        BY <1>1, <1>3, <1>6, <2>1, <3>2 DEF Of
      <3>3. QED
        BY <1>11, <3>1, <3>2
    <2>2. rendered \subseteq rendered'
      BY <1>1
    <2>3. QED
      BY <1>1, <2>1, <2>2 DEF ThreadInv, ReadInv, ReadWasShown
  <1>16. ~FirstLoading' /\ Plain' = Plain /\ Of(active)' = Of(active)
    BY <1>1, <1>4 DEF FirstLoading, Plain, Of
  <1>17. OwnInv'
    <2>1. ASSUME Plain, NEW n \in Shown' PROVE conv[n] = active
      <3>1. n \in Ids /\ load.to = active
        BY <1>1, <2>1 DEF Shown, ThreadInv, OwnInv
      <3>2. n \in rows \/ n \in Shown
        BY <1>10, <3>1
      <3>3. QED
        BY <1>3, <2>1, <3>1, <3>2 DEF ThreadInv, OwnInv, Of
    <2>2. QED
      BY <1>1, <1>4, <1>16, <2>1 DEF ThreadInv, OwnInv
  <1>18. ASSUME Plain, NEW n \in owed PROVE n \in Shown' \/ n < msgCursor'
    <2>1. n \in Ids
      BY <1>1 DEF TypeOK
    <2>2. \/ load.append /\ n \in Shown
          \/ n \in rows
          \/ rows # {} /\ \A m \in rows : n < m
      BY <1>1, <1>18 DEF ThreadInv, OwedInv
    <2>3. QED
      BY <1>5, <1>10, <2>1, <2>2
  <1>19. OwedInv'
    BY <1>1, <1>4, <1>16, <1>18 DEF OwedInv
  <1>20. QED
    BY <1>12, <1>13, <1>14, <1>15, <1>17, <1>19 DEF ThreadInv

----------------------------------------------------------------------------
(* Sending.                                                                *)

\* Sending, or failing to, answers nothing.
LEMMA StageKeeps ==
    ASSUME TypeOK, ThreadInv, UNCHANGED <<serverVars, socketVars, marks, threadVars>>,
           NEW n \in Own, NEW s \in Stages \ {"done", "answer"}, stage[n] # "done",
           stage' = [stage EXCEPT ![n] = s]
    PROVE  TypeOK' /\ ThreadInv'
  <1> USE DEF serverVars, socketVars, threadVars
  <1>1. TypeOK'
    BY DEF TypeOK
  <1>2. PagesInv'
    BY DEF ThreadInv, PagesInv, Of, Older
  <1>3. PushesInv'
    <2>1. \A k \in Own : stage'[k] = "done" <=> stage[k] = "done"
      BY DEF TypeOK
    <2>2. \A k \in Own : stage'[k] = "answer" => stage[k] = "answer"
      BY DEF TypeOK
    <2>3. \A k \in Ids : Times(k)' = Times(k)
      BY <2>1 DEF Times
    <2>4. QED
      BY <2>2, <2>3 DEF ThreadInv, PushesInv
  <1>4. ReadInv'
    BY DEF ThreadInv, ReadInv, ReadWasShown
  <1>5. OwnInv' /\ OwedInv'
    BY DEF ThreadInv, OwnInv, OwedInv, Plain, Shown, Of, FirstLoading
  <1>6. QED
    BY <1>1, <1>2, <1>3, <1>4, <1>5 DEF ThreadInv

LEMMA SendKeeps ==
    ASSUME TypeOK, ThreadInv, SendStep
    PROVE  TypeOK' /\ ThreadInv'
  <1>1. ASSUME NEW n \in Own, Send(n) PROVE TypeOK' /\ ThreadInv'
    <2> DEFINE s == IF ws = "open" THEN "frame" ELSE "post"
    <2>1. s \in Stages \ {"done", "answer"} /\ stage[n] # "done" /\ stage' = [stage EXCEPT ![n] = s]
          /\ UNCHANGED <<serverVars, socketVars, marks, threadVars>>
      BY <1>1 DEF Send, Stages
    <2>2. QED
      <3> HIDE DEF s
      <3>1. QED
        BY <2>1, StageKeeps
  <1>2. ASSUME NEW n \in Own, PostFails(n) PROVE TypeOK' /\ ThreadInv'
    <2>1. PICK s \in {"back", "lost"} : stage' = [stage EXCEPT ![n] = s]
      BY <1>2 DEF PostFails
    <2>2. s \in Stages \ {"done", "answer"} /\ stage[n] # "done"
          /\ UNCHANGED <<serverVars, socketVars, marks, threadVars>>
      BY <1>2 DEF PostFails, Stages
    <2>3. QED
      BY <2>1, <2>2, StageKeeps
  <1>3. QED
    BY <1>1, <1>2, PostAnsweredKeeps DEF SendStep

----------------------------------------------------------------------------

LEMMA PageStep ==
    ASSUME TypeOK, ThreadInv, [Next]_vars
    PROVE  TypeOK' /\ ThreadInv'
  <1>1. CASE SocketStep
    <2>1. UNCHANGED <<serverVars, marks, stage, threadVars>>
      BY <1>1 DEF SocketStep, SocketOpen, SocketClose, TimerFires
    <2>2. QED
      BY <1>1, <2>1, SocketTypes, SocketKeeps
  <1>2. CASE ThreadStep
    BY <1>2, PushKeeps, OpenKeeps, BackKeeps, LoadOlderKeeps, ServeLoadKeeps, FailLoadKeeps,
       RenderLoadKeeps DEF ThreadStep
  <1>3. CASE UNCHANGED vars
    <2>1. UNCHANGED <<serverVars, marks, stage, threadVars>>
      BY <1>3 DEF vars
    <2>2. TypeOK'
      BY <1>3 DEF vars, TypeOK, serverVars, socketVars, threadVars
    <2>3. QED
      BY <2>1, <2>2, SocketKeeps
  <1>4. QED
    BY <1>1, <1>2, <1>3, ServerKeeps, SendKeeps DEF Next

\* ThreadInv is an invariant of the chat page (chat.js).
THEOREM ThreadInvariant == Spec => [](TypeOK /\ ThreadInv)
  <1>1. Init => TypeOK /\ ThreadInv
    BY InitKeeps
  <1>2. TypeOK /\ ThreadInv /\ [Next]_vars => TypeOK' /\ ThreadInv'
    BY PageStep
  <1>3. QED
    BY <1>1, <1>2, PTL DEF Spec

\* The socket, the thread, its load and the marks keep their types; nothing is
\* received, owed or rendered that is not committed (chat.js).
THEOREM TypeCorrect == Spec => []TypeOK
  BY ThreadInvariant, PTL

\* A thread that was opened with no load under way shows messages of its own
\* conversation only (chat.js:158-216).
THEOREM ThreadsAreOwn == Spec => []OwnThread
  <1>1. ThreadInv => OwnThread
    BY DEF ThreadInv, OwnInv, OwnThread, Plain
  <1>2. QED
    BY <1>1, ThreadInvariant, PTL

\* It keeps what it owes, however loads, pushes and POSTs interleave
\* (chat.js:196-208, 237-261).
THEOREM ThreadsAreComplete == Spec => []ThreadComplete
  <1>1. ThreadInv => ThreadComplete
    BY DEF ThreadInv, OwedInv, ThreadComplete, Plain
  <1>2. QED
    BY <1>1, ThreadInvariant, PTL

\* Loads show no message twice, and a message is received once, or twice if the
\* page has POSTed it and had its answer: one that is sent by frame only when the
\* socket brings it (chat.js:185-216, 263-283).
THEOREM MessagesShowOnce == Spec => []ShownOnce
  <1>1. ASSUME TypeOK, ThreadInv PROVE ShownOnce
    <2>1. ASSUME NEW n \in Ids
          PROVE  paged[n] <= 1 /\ pushed[n] <= (IF n \in Own /\ stage[n] = "done" THEN 2 ELSE 1)
      <3>1. paged[n] <= 1 /\ pushed[n] <= Times(n) /\ pushed[n] \in Nat
        BY <1>1 DEF ThreadInv, PagesInv, PushesInv, TypeOK
      <3>2. Times(n) \in Nat /\ Times(n) <= (IF n \in Own /\ stage[n] = "done" THEN 2 ELSE 1)
        BY DEF Times
      <3>3. QED
        BY <3>1, <3>2
    <2>2. QED
      BY <2>1 DEF ShownOnce
  <1>2. QED
    BY <1>1, ThreadInvariant, PTL

\* The read cursor points to a message of its conversation that the page has
\* shown (chat.js:237-261, 287-303).
THEOREM CursorsWereShown == Spec => []ReadWasShown
  <1>1. ThreadInv => ReadWasShown
    BY DEF ThreadInv, ReadInv
  <1>2. QED
    BY <1>1, ThreadInvariant, PTL

----------------------------------------------------------------------------
(* Each conversation of the page implements ChatLog.                       *)

\* Marks under way that would not advance the cursor are gone.
MarksAhead == \A m \in marks : m.upto > cursor[m.to]

\* Steps that neither mark nor move a cursor, steps that mark as read, and the
\* arrival of a mark.
LEMMA MarkCases ==
    ASSUME [Next]_vars
    PROVE  \/ UNCHANGED <<marks, cursor>>
           \/ \E c : MarkRead(c) /\ cursor' = cursor
           \/ \E m \in marks : MarkArrives(m)
  <1> USE DEF serverVars, socketVars, threadVars
  <1>1. CASE ServerStep
    BY <1>1 DEF ServerStep, StoreOther, StoreOwn, Store
  <1>2. CASE SocketStep \/ UNCHANGED vars
    BY <1>2 DEF SocketStep, SocketOpen, SocketClose, TimerFires, vars
  <1>3. ASSUME NEW n \in Ids, Receive(n)
        PROVE  UNCHANGED <<marks, cursor>> \/ \E c : MarkRead(c) /\ cursor' = cursor
    BY <1>3 DEF Receive, ReceiveMessage
  <1>4. ASSUME NEW c \in Convs, Open(c)
        PROVE  MarkRead(c) /\ cursor' = cursor
    BY <1>4 DEF Open
  <1>5. CASE Back \/ LoadOlder \/ ServeLoad \/ FailLoad \/ RenderLoad
    BY <1>5 DEF Back, LoadOlder, ServeLoad, FailLoad, RenderLoad
  <1>6. ASSUME NEW n \in Own, Send(n) \/ PostAnswered(n) \/ PostFails(n)
        PROVE  UNCHANGED <<marks, cursor>> \/ \E c : MarkRead(c) /\ cursor' = cursor
    BY <1>6 DEF Send, PostAnswered, PostFails, ReceiveMessage
  <1>7. QED
    BY <1>1, <1>2, <1>3, <1>4, <1>5, <1>6 DEF Next, ThreadStep, SendStep

LEMMA MarksStep ==
    ASSUME TypeOK, MarksAhead, [Next]_vars
    PROVE  MarksAhead'
  <1>1. CASE UNCHANGED <<marks, cursor>>
    BY <1>1 DEF MarksAhead
  <1>2. ASSUME NEW c, MarkRead(c), cursor' = cursor
        PROVE  MarksAhead'
    BY <1>2 DEF MarkRead, MarksAhead
  <1>3. ASSUME NEW m \in marks, MarkArrives(m)
        PROVE  MarksAhead'
    <2>1. m.to \in Convs /\ cursor \in [Convs -> Ids \cup {0}]
      BY DEF TypeOK
    <2>2. ASSUME NEW k \in marks'
          PROVE  k.upto > cursor'[k.to]
      <3>1. k \in marks /\ (k.to = m.to => k.upto > m.upto) /\ k.to \in Convs
        BY <1>3 DEF MarkArrives, TypeOK
      <3>2. cursor' = [cursor EXCEPT ![m.to] = m.upto]
        BY <1>3 DEF MarkArrives
      <3>3. CASE k.to = m.to
        BY <2>1, <3>1, <3>2, <3>3
      <3>4. CASE k.to # m.to
        BY <2>1, <3>1, <3>2, <3>4 DEF MarksAhead
      <3>5. QED
        BY <3>3, <3>4
    <2>3. QED
      BY <2>2 DEF MarksAhead
  <1>4. QED
    BY <1>1, <1>2, <1>3, MarkCases

LEMMA MarksInvariant == Spec => []MarksAhead
  <1>1. Init => MarksAhead
    BY DEF Init, MarksAhead
  <1>2. TypeOK /\ MarksAhead /\ [Next]_vars => MarksAhead'
    BY MarksStep
  <1>3. QED
    BY <1>1, <1>2, TypeCorrect, PTL DEF Spec

\* A step stores a message, receives one, advances a cursor or leaves the
\* server alone.
LEMMA ServerCases ==
    ASSUME [Next]_vars
    PROVE  \/ UNCHANGED serverVars
           \/ \E n \in Ids : Store(n)
           \/ \E n \in due : due' = due \ {n} /\ UNCHANGED <<conv, messages, cursor>>
           \/ \E m \in marks : MarkArrives(m)
  <1> USE DEF serverVars
  <1>1. CASE ServerStep
    BY <1>1, OwnAssumption DEF ServerStep, StoreOther, StoreOwn
  <1>2. CASE SocketStep \/ UNCHANGED vars
    BY <1>2 DEF SocketStep, SocketOpen, SocketClose, TimerFires, vars
  <1>3. ASSUME NEW n \in Ids, Receive(n)
        PROVE  n \in due /\ due' = due \ {n} /\ UNCHANGED <<conv, messages, cursor>>
    BY <1>3 DEF Receive
  <1>4. ASSUME NEW c \in Convs, Open(c)
        PROVE  UNCHANGED serverVars
    BY <1>4 DEF Open
  <1>5. CASE Back \/ LoadOlder \/ ServeLoad \/ FailLoad \/ RenderLoad
    BY <1>5 DEF Back, LoadOlder, ServeLoad, FailLoad, RenderLoad
  <1>6. ASSUME NEW n \in Own, Send(n) \/ PostAnswered(n) \/ PostFails(n)
        PROVE  UNCHANGED serverVars
    BY <1>6 DEF Send, PostAnswered, PostFails
  <1>7. QED
    BY <1>1, <1>2, <1>3, <1>4, <1>5, <1>6 DEF Next, ThreadStep, SendStep

Entries(c) == {Entry(n) : n \in Of(c)}
Pushed(c)  == {Entry(n) : n \in Of(c) \ due}
Heard(c)   == [u \in {"page", "rest"} |-> IF u = "page" THEN Pushed(c) ELSE {}]
Cursors(c) == [u \in {"page", "rest"} |-> IF u = "page" THEN cursor[c] ELSE 0]

LEMMA StoreLogs ==
    ASSUME TypeOK, NEW c \in Convs, NEW n \in Ids, Store(n)
    PROVE  Log(c)!Next \/ UNCHANGED Log(c)!vars
  <1>1. /\ n \notin messages /\ messages' = messages \cup {n} /\ due' = due \cup {n}
        /\ due \subseteq messages
        /\ UNCHANGED <<conv, cursor>>
    BY DEF Store, TypeOK
  <1>2. Pushed(c)' = Pushed(c) /\ Heard(c)' = Heard(c) /\ Cursors(c)' = Cursors(c)
    <2>1. Of(c)' \ due' = Of(c) \ due
      BY <1>1 DEF Of
    <2>2. Pushed(c)' = Pushed(c)
      BY <2>1 DEF Pushed, Entry
    <2>3. QED
      BY <1>1, <2>2 DEF Heard, Cursors
  <1>3. CASE conv[n] # c
    <2>1. Of(c)' = Of(c)
      BY <1>1, <1>3 DEF Of
    <2>2. Entries(c)' = Entries(c)
      BY <2>1 DEF Entries, Entry
    <2>3. QED
      BY <1>2, <2>2 DEF Log!vars, Entries, Heard, Pushed, Cursors
  <1>4. CASE conv[n] = c
    <2>1. Of(c)' = Of(c) \cup {n}
      BY <1>1, <1>4 DEF Of
    <2>2. Entries(c)' = Entries(c) \cup {Entry(n)}
      BY <2>1 DEF Entries, Entry
    <2>3. \A f \in Entries(c) : Entry(n).id # f.id
      BY <1>1 DEF Entries, Entry, Of
    <2>4. /\ Entry(n) \in Entries(c)' \ Entries(c)
          /\ Entry(n).id \in Nat \ {0} /\ Entry(n).from \in {"page", "rest"}
      BY <2>2, <2>3, NumbersAreIds DEF Entry
    <2>5. Log(c)!Post
      BY <1>2, <2>2, <2>3, <2>4 DEF Log!Post, Entries, Heard, Pushed, Cursors
    <2>6. QED
      BY <2>5 DEF Log!Next
  <1>5. QED
    BY <1>3, <1>4

LEMMA PushLogs ==
    ASSUME TypeOK, NEW c \in Convs, NEW n \in due, due' = due \ {n},
           UNCHANGED <<conv, messages, cursor>>
    PROVE  Log(c)!Next \/ UNCHANGED Log(c)!vars
  <1>1. Of(c)' = Of(c) /\ Entries(c)' = Entries(c) /\ Cursors(c)' = Cursors(c)
    BY DEF Of, Entries, Entry, Cursors
  <1>2. CASE n \notin Of(c)
    <2>1. Of(c)' \ due' = Of(c) \ due
      BY <1>1, <1>2
    <2>2. Heard(c)' = Heard(c)
      BY <2>1 DEF Heard, Pushed, Entry
    <2>3. QED
      BY <1>1, <2>2 DEF Log!vars, Entries, Heard, Pushed, Cursors
  <1>3. CASE n \in Of(c)
    <2>1. Of(c)' \ due' = (Of(c) \ due) \cup {n}
      BY <1>1, <1>3
    <2>2. Pushed(c)' = Pushed(c) \cup {Entry(n)}
      BY <2>1 DEF Pushed, Entry
    <2>3. Heard(c)' = [Heard(c) EXCEPT !["page"] = @ \cup {Entry(n)}]
      BY <2>2 DEF Heard
    <2>4. Entry(n) \in Entries(c)
      BY <1>3 DEF Entries
    <2>5. Log(c)!Hear("page")
      BY <1>1, <2>3, <2>4 DEF Log!Hear, Entries, Heard, Pushed, Cursors
    <2>6. QED
      BY <2>5 DEF Log!Next
  <1>4. QED
    BY <1>2, <1>3

LEMMA CursorLogs ==
    ASSUME TypeOK, ThreadInv, MarksAhead, NEW c \in Convs, NEW m \in marks, MarkArrives(m)
    PROVE  Log(c)!Next \/ UNCHANGED Log(c)!vars
  <1>1. /\ UNCHANGED <<conv, messages, due>>
        /\ cursor' = [cursor EXCEPT ![m.to] = m.upto]
        /\ cursor \in [Convs -> Ids \cup {0}] /\ m.to \in Convs
    BY DEF MarkArrives, TypeOK
  <1>2. Of(c)' = Of(c) /\ Entries(c)' = Entries(c) /\ Heard(c)' = Heard(c)
    BY <1>1 DEF Of, Entries, Entry, Heard, Pushed
  <1>3. CASE m.to # c
    <2>1. Cursors(c)' = Cursors(c)
      BY <1>1, <1>3 DEF Cursors
    <2>2. QED
      BY <1>2, <2>1 DEF Log!vars, Entries, Heard, Pushed, Cursors
  <1>4. CASE m.to = c
    <2>1. Cursors(c)' = [Cursors(c) EXCEPT !["page"] = m.upto]
      BY <1>1, <1>4 DEF Cursors
    <2>2. m.upto \in Of(c) /\ m.upto > cursor[c]
      BY <1>4 DEF ThreadInv, ReadInv, MarksAhead, Of, TypeOK
    <2>3. /\ Entry(m.upto) \in Entries(c) /\ Entry(m.upto).id = m.upto
          /\ Cursors(c)["page"] = cursor[c]
      BY <2>2 DEF Entries, Entry, Cursors
    <2>4. Log(c)!Advance("page")
      BY <1>2, <2>1, <2>2, <2>3 DEF Log!Advance, Entries, Heard, Pushed, Cursors
    <2>5. QED
      BY <2>4 DEF Log!Next
  <1>5. QED
    BY <1>3, <1>4

LEMMA LogStep ==
    ASSUME TypeOK, ThreadInv, MarksAhead, [Next]_vars, NEW c \in Convs
    PROVE  Log(c)!Next \/ UNCHANGED Log(c)!vars
  <1>1. CASE UNCHANGED serverVars
    <2>1. UNCHANGED <<conv, messages, due, cursor>>
      BY <1>1 DEF serverVars
    <2>2. /\ Of(c)' = Of(c) /\ Entries(c)' = Entries(c) /\ Heard(c)' = Heard(c)
          /\ Cursors(c)' = Cursors(c)
      BY <2>1 DEF Of, Entries, Entry, Heard, Pushed, Cursors
    <2>3. QED
      BY <2>2 DEF Log!vars, Entries, Heard, Pushed, Cursors
  <1>2. QED
    BY <1>1, ServerCases, StoreLogs, PushLogs, CursorLogs

\* Each conversation of the page implements ChatLog: pushes bring stored
\* messages, and the read cursor moves forward only (chat.js:287-303,
\* store/chat.go:275-284).
THEOREM PageKeepsLog == Spec => KeepsLog
  <1>1. ASSUME Init, NEW c \in Convs
        PROVE  Log(c)!Init
    <2>1. Of(c) = {} /\ Entries(c) = {} /\ Pushed(c) = {} /\ cursor[c] = 0
      BY <1>1 DEF Init, Of, Entries, Pushed
    <2>2. QED
      BY <2>1 DEF Log!Init, Entries, Pushed
  <1>2. TypeOK /\ ThreadInv /\ MarksAhead /\ [Next]_vars =>
           [\A c \in Convs : Log(c)!Next \/ UNCHANGED Log(c)!vars]_vars
    BY LogStep
  <1>3. Init => \A c \in Convs : Log(c)!Init
    BY <1>1
  <1>4. QED
    BY <1>2, <1>3, ThreadInvariant, MarksInvariant, PTL DEF Spec, KeepsLog

----------------------------------------------------------------------------
(* The timer that reconnects.                                              *)

\* A page that has no socket has set the timer, or will never connect again;
\* one that connects has no timer set, and one that is connected has no timer.
TimerInv ==
    /\ TimerSetOrStuck
    /\ ws = "connecting" => timer # "set"
    /\ ws = "open" => timer = "null"

\* Only the socket's own handlers write its variables.
LEMMA SocketAlone ==
    ASSUME [Next]_vars
    PROVE  SocketStep \/ UNCHANGED socketVars
  <1>1. CASE ServerStep
    BY <1>1 DEF ServerStep, StoreOther, StoreOwn, MarkArrives
  <1>2. CASE ThreadStep
    BY <1>2 DEF ThreadStep, Receive, Open, Back, LoadOlder, ServeLoad, FailLoad, RenderLoad
  <1>3. CASE SendStep
    BY <1>3 DEF SendStep, Send, PostAnswered, PostFails
  <1>4. CASE UNCHANGED vars
    BY <1>4 DEF vars
  <1>5. QED
    BY <1>1, <1>2, <1>3, <1>4 DEF Next

LEMMA TimerStep ==
    ASSUME TypeOK, TimerInv, [Next]_vars
    PROVE  TimerInv'
  <1>1. CASE SocketStep
    BY <1>1 DEF SocketStep, SocketOpen, SocketClose, TimerFires, TimerInv, TimerSetOrStuck, TypeOK
  <1>2. CASE UNCHANGED socketVars
    BY <1>2 DEF socketVars, TimerInv, TimerSetOrStuck
  <1>3. QED
    BY <1>1, <1>2, SocketAlone

LEMMA TimerInvariant == Spec => []TimerInv
  <1>1. Init => TimerInv
    BY DEF Init, TimerInv, TimerSetOrStuck
  <1>2. TypeOK /\ TimerInv /\ [Next]_vars => TimerInv'
    BY TimerStep
  <1>3. QED
    BY <1>1, <1>2, TypeCorrect, PTL DEF Spec

\* A page without a socket has set its timer, unless an attempt to connect has
\* failed after the timer had fired: no close of a socket that was open leaves
\* the page without one (chat.js:48-67).
THEOREM TimerIsSet == Spec => []TimerSetOrStuck
  <1>1. TimerInv => TimerSetOrStuck
    BY DEF TimerInv
  <1>2. QED
    BY <1>1, TimerInvariant, PTL

\* After such a failure no step connects the page again: onclose keeps the id
\* of the timer that has fired, and only onopen would clear it (chat.js:48-67).
THEOREM FailedIsForGood == Spec => StuckForGood
  <1>1. ASSUME [Next]_vars, ws = "none", timer = "fired"
        PROVE  ws' = "none" /\ timer' = "fired"
    <2>1. ~SocketStep
      BY <1>1 DEF SocketStep, SocketOpen, SocketClose, TimerFires
    <2>2. QED
      BY <1>1, <2>1, SocketAlone DEF socketVars
  <1>2. [Next]_vars => [ws = "none" /\ timer = "fired" => ws' = "none" /\ timer' = "fired"]_vars
    BY <1>1
  <1>3. QED
    BY <1>2, PTL DEF Spec, StuckForGood

=============================================================================
