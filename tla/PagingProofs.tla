---------------------------- MODULE PagingProofs ----------------------------
(***************************************************************************)
(* Paging keeps its types and the inductive invariant PageInv, and so      *)
(* NewestFirst and CompleteWhenDone, for any page size and number of rows. *)
(***************************************************************************)
EXTENDS Paging, FiniteSetTheorems, WellFoundedInduction, TLAPS

\* The cursor of a page that is not the last one is its oldest row.
LEMMA OldestRow ==
    ASSUME NEW p \in SUBSET Ids, p # {}
    PROVE  Oldest(p) \in p /\ \A m \in p : Oldest(p) <= m
  <1> DEFINE Less == {s \in Nat \X Nat : s[1] < s[2]}
  <1>1. p \subseteq Nat
    BY DEF Ids
  <1>2. IsWellFoundedOn(Less, Nat)
    BY NatLessThanWellFounded, Zenon DEF OpToRel
  <1>3. PICK n \in p : \A m \in p : ~(<<m, n>> \in Less)
    <2> HIDE DEF Less
    <2>1. QED
      BY <1>1, <1>2, WFMin
  <1>4. \A m \in p : n <= m
    <2> SUFFICES ASSUME NEW m \in p
                 PROVE  n <= m
      OBVIOUS
    <2>1. m \in Nat /\ n \in Nat
      BY <1>1
    <2>2. m < n => <<m, n>> \in Less
      BY <2>1
    <2>3. QED
      BY <1>3, <2>1, <2>2
  <1>5. QED
    BY <1>4 DEF Oldest

\* An empty page is a last page.
LEMMA EmptyIsLast == LastPage({}) /\ Cardinality({}) < Limit
  BY FS_EmptySet, LimitAssumption DEF LastPage

\* The next cursor is an id, or 0.
LEMMA CursorType ==
    ASSUME TypeOK, Render
    PROVE  cursor' \in 0 .. MaxId
  <1>1. cursor' = cursor \/ cursor' \in Ids \cup {0}
    BY DEF Render
  <1>2. QED
    BY <1>1, MaxIdAssumption DEF TypeOK, Ids

\* If it goes by the ids, it is the oldest row of a page that is not the last.
LEMMA CursorById ==
    ASSUME TypeOK, Render, page # {}, ~LastPage(page), byId'
    PROVE  cursor' \in page /\ \A m \in page : cursor' <= m
  <1>1. page \in SUBSET Ids
    BY DEF TypeOK
  <1>2. PICK n \in Ids \cup {0} : IsCursor(page, n) /\ cursor' = n
    BY DEF Render
  <1>3. list = "conversations" => n = Oldest(page)
    BY <1>2 DEF Render
  <1>4. Oldest(page) \in page /\ \A m \in page : Oldest(page) <= m
    BY <1>1, OldestRow
  <1>5. n = Oldest(page)
    <2>1. CASE list = "conversations"
      BY <1>3, <2>1
    <2>2. CASE list # "conversations"
      BY <1>2, <2>2 DEF IsCursor
    <2>3. QED
      BY <2>1, <2>2
  <1>6. QED
    BY <1>2, <1>4, <1>5

LEMMA TypeStep ==
    ASSUME TypeOK, [Next]_vars
    PROVE  TypeOK'
  <1> USE MaxIdAssumption, ListAssumption DEF TypeOK, Ids, tableVars, clientVars, historyVars
  <1>1. CASE Insert
    BY <1>1 DEF Insert
  <1>2. ASSUME NEW n \in Ids, Commit(n) PROVE TypeOK'
    BY <1>2 DEF Commit
  <1>3. ASSUME NEW n \in Ids, Rollback(n) PROVE TypeOK'
    BY <1>3 DEF Rollback
  <1>4. ASSUME NEW n \in Ids, Remove(n) PROVE TypeOK'
    BY <1>4 DEF Remove
  <1>5. CASE LoadPage
    BY <1>5 DEF LoadPage
  <1>6. CASE ServePage
    <2>1. /\ page' \subseteq rows /\ owed' \subseteq rows /\ fetch' = "answered"
          /\ UNCHANGED <<list, nextId, pending, rows, cursor, shown, done, refused>>
      BY <1>6 DEF ServePage
    <2>2. PICK p \in SUBSET rows : IsPage(p) /\ byId' = (byId /\ (list = "conversations" => Newest(p)))
      BY <1>6 DEF ServePage
    <2>3. list' # "conversations" => byId'
      BY <2>1, <2>2, Zenon DEF IsPage
    <2>4. QED
      BY <2>1, <2>2, <2>3
  <1>7. CASE ServeError
    BY <1>7 DEF ServeError
  <1>8. CASE Lose
    BY <1>8 DEF Lose, AfterError
  <1>9. CASE Render
    <2>1. CASE page = {}
      BY <1>9, <2>1 DEF Render
    <2>2. CASE page # {}
      <3>1. shown' = Append(shown, page) /\ done' = LastPage(page)
        BY <1>9, <2>2 DEF Render
      <3>2. shown' \in Seq(SUBSET Ids)
        BY <3>1
      <3>3. LastPage(page) \in BOOLEAN
        <4>1. CASE OfChat
          BY <4>1, Zenon DEF LastPage
        <4>2. CASE ~OfChat
          BY <4>2 DEF LastPage
        <4>3. QED
          BY <4>1, <4>2
      <3>4. byId' = (byId /\ (list = "conversations" => cursor' = Oldest(page)))
        BY <1>9, <2>2 DEF Render
      <3>5. list # "conversations" => byId'
        BY <3>4
      <3>6. cursor' \in 0 .. MaxId
        BY <1>9, CursorType
      <3>7. QED
        BY <1>9, <3>1, <3>2, <3>3, <3>4, <3>5, <3>6 DEF Render
    <2>3. QED
      BY <2>1, <2>2
  <1>10. CASE RenderError
    BY <1>10 DEF RenderError, AfterError
  <1>11. CASE UNCHANGED vars
    BY <1>11 DEF vars
  <1>12. QED
    BY <1>1, <1>2, <1>3, <1>4, <1>5, <1>6, <1>7, <1>8, <1>9, <1>10, <1>11
       DEF Next, TableStep, ListStep

\* The table moves on under the list: rows come, which are not owed, and go,
\* which are owed no more.
LEMMA TableKeeps ==
    ASSUME TypeOK, PageInv, UNCHANGED <<list, fetch, page, clientVars, byId>>, owed' \subseteq owed
    PROVE  PageInv'
  BY DEF PageInv, NewestFirst, CompleteWhenDone, Shown, After, LastPage, OfChat, clientVars

\* The answer is a page of the rows that are left.
LEMMA ServeKeeps ==
    ASSUME TypeOK, PageInv, ServePage
    PROVE  PageInv'
  <1>1. PICK p \in SUBSET rows : IsPage(p) /\ page' = p /\ byId' = (byId /\ (list = "conversations" => Newest(p)))
    BY DEF ServePage
  <1>2. /\ fetch = "sent" /\ ~done /\ fetch' = "answered"
        /\ UNCHANGED <<list, cursor, shown, done, refused>>
        /\ owed' \subseteq rows
        /\ shown # <<>> => owed' = owed
    BY DEF ServePage, PageInv, TypeOK, clientVars, tableVars
  <1>3. \A n \in p : After(n)
    BY <1>1 DEF IsPage
  <1>4. ASSUME byId', NEW n \in owed', After(n)
        PROVE  n \in p \/ (~LastPage(p) /\ \A m \in p : n < m)
    <2>1. CASE n \in p
      BY <2>1
    <2>2. CASE n \notin p
      <3>1. n \in {k \in rows : After(k)} \ p
        BY <1>2, <1>4, <2>2
      <3>2. ~(Cardinality(p) < Limit) /\ \A m \in p : n < m
        BY <1>1, <1>4, <3>1 DEF IsPage, Newest
      <3>3. p # {}
        BY <3>2, EmptyIsLast DEF LastPage
      <3>4. QED
        BY <3>2, <3>3 DEF LastPage
    <2>3. QED
      BY <2>1, <2>2
  <1>5. QED
    BY <1>1, <1>2, <1>3, <1>4
       DEF PageInv, NewestFirst, CompleteWhenDone, Shown, After, LastPage, OfChat

\* A page that is rendered goes below the others; the cursor moves to its end,
\* or the list ends with nothing left over.
LEMMA RenderKeeps ==
    ASSUME TypeOK, PageInv, Render
    PROVE  PageInv'
  <1>1. fetch = "answered" /\ ~done /\ fetch' = "none" /\ UNCHANGED <<list, owed, refused>>
    BY DEF Render, PageInv, tableVars
  <1>2. /\ shown \in Seq(SUBSET Ids) /\ page \subseteq Ids /\ cursor \in Nat
        /\ owed \subseteq Ids
    BY MaxIdAssumption DEF TypeOK, Ids
  <1>3. CASE page = {}
    <2>1. done' /\ UNCHANGED <<cursor, shown, byId>>
      BY <1>3 DEF Render
    <2>2. byId => owed \subseteq Shown
      BY <1>1, <1>3, EmptyIsLast DEF PageInv, After
    <2>3. QED
      BY <1>1, <2>1, <2>2 DEF PageInv, NewestFirst, CompleteWhenDone, Shown
  <1>4. CASE page # {}
    <2>1. shown' = Append(shown, page) /\ done' = LastPage(page) /\ (byId' => byId)
      BY <1>4 DEF Render
    <2>2. /\ DOMAIN shown' = DOMAIN shown \cup {Len(shown) + 1}
          /\ \A k \in DOMAIN shown : shown'[k] = shown[k]
          /\ shown'[Len(shown) + 1] = page
          /\ \A k \in DOMAIN shown : k \in Nat /\ k < Len(shown) + 1
          /\ Len(shown) \in Nat
      BY <1>2, <2>1
    <2>3. Shown' = Shown \cup page
      BY <2>2 DEF Shown
    <2>4. byId => \A m \in Shown, n \in page : n < m
      <3> SUFFICES ASSUME byId, NEW m \in Shown, NEW n \in page
                   PROVE  n < m
        OBVIOUS
      <3>1. shown # <<>>
        BY DEF Shown
      <3>2. n < cursor /\ cursor <= m
        BY <1>1, <3>1 DEF PageInv, After
      <3>3. n \in Nat /\ m \in Nat
        BY <1>2 DEF Shown, Ids
      <3>4. QED
        BY <1>2, <3>2, <3>3
    <2>5. NewestFirst'
      <3> SUFFICES ASSUME byId', NEW j \in DOMAIN shown', NEW k \in DOMAIN shown', j < k,
                          NEW m \in shown'[j], NEW n \in shown'[k]
                   PROVE  n < m
        BY DEF NewestFirst
      <3>1. j \in DOMAIN shown
        BY <2>2
      <3>2. CASE k \in DOMAIN shown
        BY <2>1, <2>2, <3>1, <3>2 DEF PageInv, NewestFirst
      <3>3. CASE k = Len(shown) + 1
        BY <2>1, <2>2, <2>4, <3>1, <3>3 DEF Shown
      <3>4. QED
        BY <2>2, <3>2, <3>3
    <2>7. CASE LastPage(page)
      <3>1. done'
        BY <2>1, <2>7
      <3>2. byId => owed \subseteq Shown'
        BY <1>1, <2>3, <2>7 DEF PageInv, After
      <3>3. QED
        BY <1>1, <2>1, <2>5, <3>1, <3>2 DEF PageInv, CompleteWhenDone
    <2>8. CASE ~LastPage(page)
      <3>1. ~done'
        BY <2>1, <2>8
      <3> SUFFICES ASSUME byId' PROVE PageInv'
        BY <1>1, <2>5, <3>1 DEF PageInv, CompleteWhenDone
      <3> byId
        BY <2>1
      <3>2. cursor' \in page /\ \A m \in page : cursor' <= m
        BY <1>4, <2>8, CursorById
      <3>3. shown' # <<>> /\ cursor' \in Nat \ {0}
        BY <1>2, <2>1, <3>2 DEF Ids
      <3>4. \A m \in Shown' : cursor' <= m
        <4>1. \A m \in Shown : m \in Nat
          BY <1>2 DEF Shown, Ids
        <4>2. \A m \in Shown : cursor' <= m
          BY <2>4, <3>2, <3>3, <4>1
        <4>3. QED
          BY <2>3, <3>2, <4>2
      <3>5. ASSUME NEW n \in owed, ~After(n)'
            PROVE  n \in Shown'
        <4>1. n >= cursor' /\ n \in Nat /\ cursor' \in Nat
          BY <1>2, <3>2, <3>3, <3>5 DEF After, Ids
        <4>2. CASE After(n)
          BY <1>1, <2>3, <3>2, <4>1, <4>2 DEF PageInv
        <4>3. CASE ~After(n)
          <5>1. shown # <<>>
            BY <1>1, <4>3 DEF PageInv, After
          <5>2. QED
            BY <1>1, <2>3, <4>3, <5>1 DEF PageInv
        <4>4. QED
          BY <4>2, <4>3
      <3>6. QED
        BY <1>1, <2>5, <3>1, <3>3, <3>4, <3>5 DEF PageInv, CompleteWhenDone
    <2>9. QED
      BY <2>7, <2>8
  <1>5. QED
    BY <1>3, <1>4

LEMMA NextInv ==
    TypeOK /\ PageInv /\ [Next]_vars => (TypeOK /\ PageInv)'
  <1> SUFFICES ASSUME TypeOK, PageInv, [Next]_vars
               PROVE  PageInv'
    BY TypeStep
  <1>1. ASSUME TableStep \/ UNCHANGED vars PROVE PageInv'
    <2>1. UNCHANGED <<list, fetch, page, clientVars, byId>> /\ owed' \subseteq owed
      BY <1>1 DEF TableStep, Insert, Commit, Rollback, Remove, vars, tableVars, historyVars
    <2>2. QED
      BY <2>1, TableKeeps
  <1>2. CASE LoadPage
    BY <1>2 DEF LoadPage, PageInv, NewestFirst, CompleteWhenDone, Shown, After, LastPage, OfChat, historyVars, clientVars
  <1>3. CASE ServeError
    BY <1>3 DEF ServeError, PageInv, NewestFirst, CompleteWhenDone, Shown, After, LastPage, OfChat, historyVars, clientVars
  <1>4. CASE Lose
    BY <1>4 DEF Lose, AfterError, tableVars, PageInv, NewestFirst, CompleteWhenDone, Shown, After, LastPage, OfChat, historyVars, clientVars
  <1>5. CASE RenderError
    BY <1>5 DEF RenderError, AfterError, tableVars, PageInv, NewestFirst, CompleteWhenDone, Shown,
                After, LastPage, OfChat, historyVars
  <1>6. QED
    BY <1>1, <1>2, <1>3, <1>4, <1>5, ServeKeeps, RenderKeeps DEF Next, ListStep

\* PageInv is inductive, together with the types.
THEOREM PageInvariant == Spec => [](TypeOK /\ PageInv)
  <1>1. Init => TypeOK
    <2>1. <<>> \in Seq(SUBSET Ids)
      OBVIOUS
    <2> SUFFICES ASSUME Init
                 PROVE  TypeOK
      OBVIOUS
    <2>2. cursor \in 0 .. MaxId
      BY MaxIdAssumption DEF Init
    <2>3. rows \subseteq (1 .. nextId - 1) \ pending /\ pending \subseteq 1 .. nextId - 1
      BY DEF Init
    <2>4. shown \in Seq(SUBSET Ids) /\ page \subseteq Ids /\ owed \subseteq rows
      BY <2>1 DEF Init
    <2>5. QED
      BY <2>2, <2>3, <2>4 DEF Init, TypeOK
  <1>2. Init => PageInv
    BY DEF Init, PageInv, NewestFirst, CompleteWhenDone, Shown, After
  <1>3. QED
    BY <1>1, <1>2, NextInv, PTL DEF Spec

\* The table, the request and the list on the page keep their types.
THEOREM TypeCorrect == Spec => []TypeOK
  BY PageInvariant, PTL

\* No row is shown twice or out of order, whatever is inserted, committed late
\* or removed, and whichever answers are lost.
THEOREM ListsAreNewestFirst == Spec => []NewestFirst
  <1>1. PageInv => NewestFirst
    BY DEF PageInv
  <1>2. QED
    BY <1>1, PageInvariant, PTL

\* A list that has ended has left out no row that was there from the start.
THEOREM EndedListsAreComplete == Spec => []CompleteWhenDone
  <1>1. PageInv => CompleteWhenDone
    BY DEF PageInv
  <1>2. QED
    BY <1>1, PageInvariant, PTL

=============================================================================
