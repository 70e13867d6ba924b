-------------------------- MODULE EngagementProofs --------------------------
(***************************************************************************)
(* Theorems about Engagement, for any sets of users, videos and requests.  *)
(***************************************************************************)
EXTENDS Engagement, FiniteSetTheorems, TLAPS

USE DEF LikeSteps, CommentSteps, Ended, Steps, Rows, tables, writes

LEMMA LikersFinite ==
    ASSUME NEW v
    PROVE  IsFiniteSet(Likers(v)) /\ Cardinality(Likers(v)) \in Nat
  <1>1. Likers(v) \subseteq Users
    BY DEF Likers
  <1>2. QED
    BY <1>1, UsersFinite, FS_Subset, FS_CardinalityType

LEMMA SeenFinite ==
    ASSUME NEW r \in Requests, TypeOK
    PROVE  Cardinality(LikersSeen(r)) \in Nat
  <1>1. LikersSeen(r) \subseteq Users
    BY DEF LikersSeen, Likers, TypeOK
  <1>2. QED
    BY <1>1, UsersFinite, FS_Subset, FS_CardinalityType

LEMMA CommentsFinite ==
    ASSUME NEW v, comments \subseteq Requests
    PROVE  IsFiniteSet(Comments(v)) /\ Cardinality(Comments(v)) \in Nat
  <1>1. Comments(v) \subseteq Requests
    BY DEF Comments
  <1>2. QED
    BY <1>1, RequestsFinite, FS_Subset, FS_CardinalityType

\* Every step of a request moves its pc, and leaves the others' state alone.
LEMMA StepFrame ==
    ASSUME NEW r \in Requests, TypeOK, ToggleStep(r) \/ CommentStep(r) \/ Rollback(r)
                                       \/ ToggleBegin(r) \/ CommentBegin(r)
    PROVE  /\ UNCHANGED <<user, video>>
           /\ \A q \in Requests \ {r} :
                 pc'[q] = pc[q] /\ effect'[q] = effect[q] /\ target'[q] = target[q]
                 /\ count'[q] = count[q] /\ liked'[q] = liked[q]
  BY DEF ToggleStep, CommentStep, Rollback, ToggleBegin, CommentBegin, Goto, TypeOK, request,
         ToggleInsert, ToggleScan, ToggleDelete, ToggleCount, ToggleUpdate, ToggleCommit,
         CommentWrite, CommentTally, CommentRefresh, CommentCommit

LEMMA NextCases ==
    ASSUME [Next]_vars
    PROVE  \/ \E r \in Requests : \/ ToggleStep(r) \/ CommentStep(r) \/ Rollback(r)
                                  \/ ToggleBegin(r) \/ CommentBegin(r)
           \/ UNCHANGED vars
  BY DEF Next, AllEnded

LEMMA NextType ==
    ASSUME TypeOK, [Next]_vars
    PROVE  TypeOK'
  <1> USE DEF TypeOK, Goto, request
  <1>1. ASSUME NEW r \in Requests, ToggleBegin(r) \/ CommentBegin(r) \/ Rollback(r)
        PROVE  TypeOK'
    BY <1>1 DEF ToggleBegin, CommentBegin, Rollback
  <1>2. ASSUME NEW r \in Requests, ToggleInsert(r) \/ ToggleDelete(r) \/ ToggleUpdate(r)
        PROVE  TypeOK'
    BY <1>2 DEF ToggleInsert, ToggleDelete, ToggleUpdate
  <1>3. ASSUME NEW r \in Requests, ToggleScan(r)
        PROVE  TypeOK'
    BY <1>3 DEF ToggleScan, Row
  <1>4. ASSUME NEW r \in Requests, ToggleCount(r)
        PROVE  TypeOK'
    BY <1>4, SeenFinite DEF ToggleCount
  <1>5. ASSUME NEW r \in Requests, ToggleCommit(r)
        PROVE  TypeOK'
    <2>1. likes' \in [Videos -> [Users -> Rows]]
      BY <1>5 DEF ToggleCommit
    <2>2. overtaken' \subseteq Requests /\ stale' \subseteq Requests
      BY <1>5 DEF ToggleCommit, Rivals, Counted
    <2>3. QED
      BY <1>5, <2>1, <2>2 DEF ToggleCommit
  <1>6. ASSUME NEW r \in Requests, CommentStep(r)
        PROVE  TypeOK'
    <2>1. Cardinality(Comments(video[r])) + 1 \in Nat
      BY CommentsFinite
    <2>2. stale' \subseteq Requests
      BY <1>6 DEF CommentStep, CommentWrite, CommentTally, CommentRefresh, CommentCommit, Counted
    <2>3. CASE CommentWrite(r) \/ CommentTally(r) \/ CommentRefresh(r)
      BY <2>1, <2>3 DEF CommentWrite, CommentTally, CommentRefresh
    <2>4. CASE CommentCommit(r)
      BY <2>2, <2>4 DEF CommentCommit
    <2>5. QED
      BY <1>6, <2>3, <2>4 DEF CommentStep
  <1>7. CASE UNCHANGED vars
    BY <1>7 DEF vars
  <1>8. QED
    BY <1>1, <1>2, <1>3, <1>4, <1>5, <1>6, <1>7, NextCases DEF ToggleStep

\* The state of every request keeps its type.
THEOREM TypeCorrect == Spec => []TypeOK
  <1>1. Init => TypeOK
    <2> SUFFICES ASSUME Init PROVE TypeOK
      OBVIOUS
    <2>1. \A v \in Videos : Cardinality(Likers(v)) \in Nat
      BY LikersFinite
    <2>2. QED
      BY <2>1 DEF Init, TypeOK
  <1>2. TypeOK /\ [Next]_vars => TypeOK'
    BY NextType
  <1>3. QED
    BY <1>1, <1>2, PTL DEF Spec

----------------------------------------------------------------------------

\* A step that leaves likes, effect and target alone keeps EffectInv if it
\* moves its request neither away from a held key nor to the lock.
LEMMA EffectFrame ==
    ASSUME TypeOK, EffectInv, NEW r \in Requests,
           UNCHANGED <<likes, user, video, effect, target>>,
           pc' = [pc EXCEPT ![r] = pc'[r]],
           effect[r] # "none" => pc'[r] \in {"count", "update", "commit"},
           pc'[r] = "lock" => target[r] # NoRow
    PROVE  EffectInv'
  <1> USE DEF EffectInv, TypeOK
  <1>1. ASSUME NEW q \in Requests
        PROVE  /\ effect'[q] # "none" => pc'[q] \in {"count", "update", "commit"}
               /\ pc'[q] = "lock" => target'[q] # NoRow
    OBVIOUS
  <1>2. KeyHeld'
    BY DEF KeyHeld, KeyBusy, Row
  <1>3. QED
    BY <1>1, <1>2

LEMMA EffectStep ==
    ASSUME TypeOK, EffectInv, [Next]_vars
    PROVE  EffectInv'
  <1>1. ASSUME NEW r \in Requests, CommentStep(r) \/ CommentBegin(r) \/ ToggleBegin(r)
        PROVE  EffectInv'
    <2>1. /\ UNCHANGED <<likes, user, video, effect, target>>
          /\ pc' = [pc EXCEPT ![r] = pc'[r]]
          /\ pc'[r] # "lock"
          /\ pc[r] \notin {"count", "update", "commit"}
      BY <1>1 DEF CommentStep, CommentWrite, CommentTally, CommentRefresh, CommentCommit,
                  CommentBegin, ToggleBegin, Goto, request, TypeOK
    <2>2. QED
      BY <2>1, EffectFrame DEF EffectInv
  <1>2. ASSUME NEW r \in Requests, ToggleCount(r) \/ ToggleUpdate(r)
        PROVE  EffectInv'
    <2>1. /\ UNCHANGED <<likes, user, video, effect, target>>
          /\ pc' = [pc EXCEPT ![r] = pc'[r]]
          /\ pc'[r] \in {"update", "commit"}
      BY <1>2 DEF ToggleCount, ToggleUpdate, Goto, request, TypeOK
    <2>2. QED
      BY <2>1, EffectFrame
  <1>3. ASSUME NEW r \in Requests, ToggleInsert(r)
        PROVE  EffectInv'
    <2> USE DEF EffectInv, KeyHeld, KeyBusy, Row, TypeOK
    <2>1. /\ UNCHANGED <<likes, user, video, target>>
          /\ pc[r] = "insert" /\ ~KeyBusy(r)
          /\ pc' = [pc EXCEPT ![r] = pc'[r]]
          /\ \/ effect' = [effect EXCEPT ![r] = "insert"] /\ Row(r) = NoRow /\ pc'[r] = "count"
             \/ effect' = effect /\ pc'[r] = "scan"
      BY <1>3 DEF ToggleInsert, Goto, request
    <2>2. CASE effect' = effect /\ pc'[r] = "scan"
      BY <2>1, <2>2, EffectFrame
    <2>3. CASE effect' = [effect EXCEPT ![r] = "insert"] /\ Row(r) = NoRow /\ pc'[r] = "count"
      <3>1. ASSUME NEW q \in Requests
            PROVE  /\ effect'[q] # "none" => pc'[q] \in {"count", "update", "commit"}
                   /\ pc'[q] = "lock" => target'[q] # NoRow
        BY <2>1, <2>3
      <3>2. ASSUME NEW q \in Requests
            PROVE  /\ effect'[q] = "insert" => likes'[video'[q]][user'[q]] = NoRow
                   /\ effect'[q] = "delete" => /\ likes'[video'[q]][user'[q]] = target'[q]
                                               /\ likes'[video'[q]][user'[q]] # NoRow
        BY <2>1, <2>3
      <3>3. ASSUME NEW q \in Requests, NEW p \in Requests \ {q}, effect'[q] # "none",
                   user'[p] = user'[q], video'[p] = video'[q]
            PROVE  effect'[p] = "none"
        BY <2>1, <2>3, <3>3
      <3>4. QED
        BY <3>1, <3>2, <3>3
    <2>4. QED
      BY <2>1, <2>2, <2>3
  <1>4. ASSUME NEW r \in Requests, ToggleScan(r)
        PROVE  EffectInv'
    <2> USE DEF EffectInv, KeyHeld, KeyBusy, Row, TypeOK
    <2>1. /\ UNCHANGED <<likes, user, video, effect>>
          /\ pc[r] = "scan"
          /\ target' = [target EXCEPT ![r] = Row(r)]
          /\ pc' = [pc EXCEPT ![r] = pc'[r]]
          /\ pc'[r] = "lock" => Row(r) # NoRow
      BY <1>4 DEF ToggleScan, Goto, request
    <2>2. effect[r] = "none"
      BY <2>1
    <2>3. ASSUME NEW q \in Requests
          PROVE  /\ effect'[q] # "none" => pc'[q] \in {"count", "update", "commit"}
                 /\ pc'[q] = "lock" => target'[q] # NoRow
                 /\ effect'[q] = "insert" => Row(q)' = NoRow
                 /\ effect'[q] = "delete" => Row(q)' = target'[q] /\ Row(q)' # NoRow
                 /\ effect'[q] # "none" => ~KeyBusy(q)'
      BY <2>1, <2>2
    <2>4. QED
      BY <2>3
  <1>5. ASSUME NEW r \in Requests, ToggleDelete(r)
        PROVE  EffectInv'
    <2>1. /\ UNCHANGED <<likes, user, video, target>>
          /\ pc[r] = "lock" /\ (Row(r) = target[r] => ~KeyBusy(r))
          /\ pc' = [pc EXCEPT ![r] = "count"]
          /\ effect' = [effect EXCEPT ![r] = IF Row(r) = target[r] THEN "delete" ELSE "none"]
      BY <1>5 DEF ToggleDelete, Goto, request
    <2> USE DEF EffectInv, KeyHeld, KeyBusy, Row, TypeOK
    <2>2. effect[r] = "none" /\ target[r] # NoRow
      BY <2>1
    <2>3. ASSUME NEW q \in Requests
          PROVE  /\ effect'[q] # "none" => pc'[q] \in {"count", "update", "commit"}
                 /\ pc'[q] = "lock" => target'[q] # NoRow
                 /\ effect'[q] = "insert" => Row(q)' = NoRow
                 /\ effect'[q] = "delete" => Row(q)' = target'[q] /\ Row(q)' # NoRow
      BY <2>1, <2>2
    <2>4. ASSUME NEW q \in Requests, NEW p \in Requests \ {q}, effect'[q] # "none",
                 user'[p] = user'[q], video'[p] = video'[q]
          PROVE  effect'[p] = "none"
      BY <2>1, <2>2, <2>4
    <2>5. QED
      BY <2>3, <2>4
  <1>6. ASSUME NEW r \in Requests, Rollback(r)
        PROVE  EffectInv'
    BY <1>6 DEF Rollback, EffectInv, KeyHeld, KeyBusy, Row, TypeOK, Goto, request
  <1>7. ASSUME NEW r \in Requests, ToggleCommit(r)
        PROVE  EffectInv'
    <2> USE DEF EffectInv, KeyHeld, KeyBusy, Row, TypeOK
    <2>1. /\ UNCHANGED <<user, video, target>>
          /\ effect' = [effect EXCEPT ![r] = "none"]
          /\ pc' = [pc EXCEPT ![r] = "done"]
          /\ effect[r] = "none" => likes' = likes
      BY <1>7 DEF ToggleCommit, Goto, request
    <2>2. ASSUME NEW q \in Requests, effect'[q] # "none"
          PROVE  Row(q)' = Row(q)
      <3>1. q # r /\ effect[q] # "none"
        BY <2>1, <2>2
      <3>2. CASE effect[r] = "none"
        BY <2>1, <3>2
      <3>3. CASE effect[r] # "none"
        <4>1. video[q] # video[r] \/ user[q] # user[r]
          BY <3>1, <3>3
        <4>2. \/ likes' = [likes EXCEPT ![video[r]][user[r]] = r]
              \/ likes' = [likes EXCEPT ![video[r]][user[r]] = NoRow]
          BY <1>7, <3>3 DEF ToggleCommit
        <4>3. likes'[video[q]][user[q]] = likes[video[q]][user[q]]
          BY <4>1, <4>2
        <4>4. QED
          BY <4>3, <2>1
      <3>4. QED
        BY <3>2, <3>3
    <2>3. ASSUME NEW q \in Requests
          PROVE  /\ effect'[q] # "none" => pc'[q] \in {"count", "update", "commit"}
                 /\ pc'[q] = "lock" => target'[q] # NoRow
                 /\ effect'[q] # "none" => ~KeyBusy(q)'
      BY <2>1
    <2>4. ASSUME NEW q \in Requests
          PROVE  /\ effect'[q] = "insert" => Row(q)' = NoRow
                 /\ effect'[q] = "delete" => Row(q)' = target'[q] /\ Row(q)' # NoRow
      <3>1. effect'[q] # "none" => effect'[q] = effect[q] /\ target'[q] = target[q]
        BY <2>1
      <3>2. QED
        BY <2>2, <3>1
    <2>5. QED
      BY <2>3, <2>4
  <1>8. CASE UNCHANGED vars
    BY <1>8 DEF vars, EffectInv, KeyHeld, KeyBusy, Row
  <1>9. QED
    BY <1>1, <1>2, <1>3, <1>4, <1>5, <1>6, <1>7, <1>8, NextCases DEF ToggleStep

\* EffectInv is inductive, together with the types.
THEOREM EffectInvariant == Spec => []EffectInv
  <1>1. Init => EffectInv
    BY DEF Init, EffectInv, KeyHeld
  <1>2. TypeOK /\ EffectInv /\ [Next]_vars => EffectInv'
    BY EffectStep
  <1>3. QED
    BY <1>1, <1>2, TypeCorrect, PTL DEF Spec

\* What a toggle will commit still fits the table when it commits.
THEOREM KeysAreHeld == Spec => []KeyHeld
  <1>1. EffectInv => KeyHeld
    BY DEF EffectInv
  <1>2. QED
    BY <1>1, EffectInvariant, PTL

----------------------------------------------------------------------------

LEMMA SeenCases ==
    ASSUME NEW r
    PROVE  /\ effect[r] = "insert" => LikersSeen(r) = Likers(video[r]) \cup {user[r]}
           /\ effect[r] = "delete" => LikersSeen(r) = Likers(video[r]) \ {user[r]}
           /\ effect[r] = "none"   => LikersSeen(r) = Likers(video[r])
  <1>1. CASE effect[r] = "insert"
    BY <1>1 DEF LikersSeen
  <1>2. CASE effect[r] = "delete"
    BY <1>2 DEF LikersSeen
  <1>3. CASE effect[r] = "none"
    BY <1>3 DEF LikersSeen
  <1>4. QED
    BY <1>1, <1>2, <1>3

\* The commit of a toggle makes the table what its SELECT COUNT(*) saw.
LEMMA CommitShowsSeen ==
    ASSUME TypeOK, NEW r \in Requests, ToggleCommit(r)
    PROVE  /\ Likers(video[r])' = LikersSeen(r)
           /\ \A v \in Videos \ {video[r]} : Likers(v)' = Likers(v)
  <1> USE DEF TypeOK
  <1>0. NoRow # r
    BY RowsDiffer
  <1>1. video' = video
    BY DEF ToggleCommit, request
  <1>2. CASE effect[r] = "insert"
    <2>1. likes' = [likes EXCEPT ![video[r]][user[r]] = r]
      BY <1>2 DEF ToggleCommit
    <2>2. QED
      BY <1>0, <1>1, <1>2, <2>1, SeenCases DEF Likers
  <1>3. CASE effect[r] = "delete"
    <2>1. likes' = [likes EXCEPT ![video[r]][user[r]] = NoRow]
      BY <1>3 DEF ToggleCommit
    <2>2. QED
      BY <1>1, <1>3, <2>1, SeenCases DEF Likers
  <1>4. CASE effect[r] = "none"
    <2>1. likes' = likes
      BY <1>4 DEF ToggleCommit
    <2>2. QED
      BY <1>1, <1>4, <2>1, SeenCases DEF Likers
  <1>5. QED
    BY <1>2, <1>3, <1>4

\* The counts a transaction has taken and not yet stored.
CountsTaken(r) ==
    /\ pc[r] \in {"update", "commit"} => count[r] = Cardinality(LikersSeen(r))
    /\ pc[r] \in {"refresh", "publish"} => count[r] = Cardinality(Comments(video[r])) + 1

\* A step that leaves the tables alone keeps the counts the others have taken.
LEMMA CountFrame ==
    ASSUME NEW q, CountsTaken(q), Likers(video[q])' = Likers(video[q]),
           Comments(video[q])' = Comments(video[q]), UNCHANGED <<user, video>>,
           pc'[q] = pc[q], effect'[q] = effect[q], count'[q] = count[q]
    PROVE  CountsTaken(q)'
  <1>1. LikersSeen(q)' = LikersSeen(q)
    BY DEF LikersSeen
  <1>2. QED
    BY <1>1 DEF CountsTaken

LEMMA CountParts ==
    CountInv <=> /\ \A r \in comments : pc[r] = "done"
                 /\ \A r \in Requests : r \notin stale => CountsTaken(r)
                 /\ \A r \in Requests : pc[r] \in {"commit", "publish"} => ~VideoBusy(r)
  BY DEF CountInv, CountsTaken

\* One transaction at a time holds the row of a video.
LEMMA HolderStep ==
    ASSUME TypeOK, CountInv, NEW r \in Requests,
           ToggleStep(r) \/ CommentStep(r) \/ Rollback(r) \/ ToggleBegin(r) \/ CommentBegin(r)
    PROVE  \A q \in Requests : pc'[q] \in {"commit", "publish"} => ~VideoBusy(q)'
  <1>1. video' = video /\ \A q \in Requests \ {r} : pc'[q] = pc[q]
    BY StepFrame
  <1>2. pc'[r] \in {"commit", "publish"} => ~VideoBusy(r)
    BY DEF ToggleStep, CommentStep, Rollback, ToggleBegin, CommentBegin, Goto, TypeOK,
           ToggleInsert, ToggleScan, ToggleDelete, ToggleCount, ToggleUpdate, ToggleCommit,
           CommentWrite, CommentTally, CommentRefresh, CommentCommit
  <1>3. QED
    BY <1>1, <1>2 DEF VideoBusy, CountInv

\* A step before the commit can disturb only the count of its own transaction.
LEMMA CountBefore ==
    ASSUME TypeOK, CountInv, NEW r \in Requests,
           \/ ToggleBegin(r) \/ CommentBegin(r) \/ Rollback(r)
           \/ ToggleInsert(r) \/ ToggleScan(r) \/ ToggleDelete(r) \/ ToggleCount(r)
           \/ ToggleUpdate(r)
           \/ CommentWrite(r) \/ CommentTally(r) \/ CommentRefresh(r)
    PROVE  CountInv'
  <1> USE DEF Goto, request
  <1>1. /\ UNCHANGED <<likes, likesCount, comments, commentsCount, user, video, stale>>
        /\ pc[r] # "done"
    BY DEF ToggleBegin, CommentBegin, Rollback, ToggleInsert, ToggleScan, ToggleDelete,
           ToggleCount, ToggleUpdate, CommentWrite, CommentTally, CommentRefresh
  <1>2. \A q \in Requests \ {r} :
           pc'[q] = pc[q] /\ effect'[q] = effect[q] /\ count'[q] = count[q]
    BY StepFrame DEF ToggleStep, CommentStep
  <1>3. \A v : Likers(v)' = Likers(v) /\ Comments(v)' = Comments(v)
    BY <1>1 DEF Likers, Comments
  <1>4. r \notin stale => CountsTaken(r)
    BY CountParts
  <1>5. r \notin stale => CountsTaken(r)'
    <2>1. CASE pc'[r] \notin {"update", "commit", "refresh", "publish"}
      BY <2>1 DEF CountsTaken
    <2>2. CASE ToggleCount(r) \/ ToggleUpdate(r)
      <3>1. effect' = effect
        BY <2>2 DEF ToggleCount, ToggleUpdate
      <3>2. LikersSeen(r)' = LikersSeen(r)
        BY <1>1, <1>3, <3>1 DEF LikersSeen
      <3>3. pc'[r] \in {"update", "commit"}
            /\ (r \notin stale => count'[r] = Cardinality(LikersSeen(r)))
        BY <1>4, <2>2 DEF ToggleCount, ToggleUpdate, TypeOK, CountsTaken
      <3>4. QED
        BY <3>2, <3>3 DEF CountsTaken
    <2>3. CASE CommentTally(r) \/ CommentRefresh(r)
      <3>1. /\ pc'[r] \in {"refresh", "publish"}
            /\ r \notin stale => count'[r] = Cardinality(Comments(video[r])) + 1
        BY <1>4, <2>3 DEF CommentTally, CommentRefresh, TypeOK, CountsTaken
      <3>2. Comments(video[r])' = Comments(video[r])
        BY <1>1, <1>3
      <3>3. QED
        BY <1>1, <3>1, <3>2 DEF CountsTaken
    <2>4. QED
      BY <2>1, <2>2, <2>3
      DEF ToggleBegin, CommentBegin, Rollback, ToggleInsert, ToggleScan, ToggleDelete,
          CommentWrite, TypeOK
  <1>6. ASSUME NEW q \in Requests, q \notin stale'
        PROVE  CountsTaken(q)'
    <2>1. CASE q = r
      BY <1>1, <1>5, <1>6, <2>1
    <2>2. CASE q # r
      <3>1. CountsTaken(q)
        BY <1>1, <1>6, CountParts
      <3>2. Likers(video[q])' = Likers(video[q]) /\ Comments(video[q])' = Comments(video[q])
        BY <1>1, <1>3
      <3>3. QED
        BY <1>1, <1>2, <2>2, <3>1, <3>2, CountFrame
    <2>3. QED
      BY <2>1, <2>2
  <1>7. \A q \in comments' : pc'[q] = "done"
    BY <1>1, <1>2 DEF CountInv, TypeOK
  <1>8. \A q \in Requests : pc'[q] \in {"commit", "publish"} => ~VideoBusy(q)'
    BY HolderStep DEF ToggleStep, CommentStep
  <1>9. QED
    BY <1>6, <1>7, <1>8 DEF CountInv, CountsTaken

\* What a commit does to the tables: it changes those of its own video.
LEMMA CommitFrame ==
    ASSUME TypeOK, NEW r \in Requests, ToggleCommit(r) \/ CommentCommit(r)
    PROVE  /\ user' = user /\ video' = video /\ video[r] \in Videos
           /\ pc' = [pc EXCEPT ![r] = "done"] /\ count' = count
           /\ pc[r] \in {"commit", "publish"}
           /\ ToggleCommit(r) => \A v : Comments(v)' = Comments(v)
           /\ CommentCommit(r) => \A v : Likers(v)' = Likers(v)
           /\ \A v \in Videos \ {video[r]} :
                 /\ Likers(v)' = Likers(v) /\ Comments(v)' = Comments(v)
                 /\ likesCount'[v] = likesCount[v] /\ commentsCount'[v] = commentsCount[v]
  <1> USE DEF Goto, request
  <1>1. /\ user' = user /\ video' = video /\ video[r] \in Videos
        /\ pc' = [pc EXCEPT ![r] = "done"] /\ count' = count
        /\ pc[r] \in {"commit", "publish"}
    BY DEF ToggleCommit, CommentCommit, TypeOK
  <1>2. CASE ToggleCommit(r)
    <2>1. comments' = comments /\ commentsCount' = commentsCount /\ pc[r] = "commit"
      BY <1>2 DEF ToggleCommit
    <2>2. \A v \in Videos \ {video[r]} : likesCount'[v] = likesCount[v]
      BY <1>2 DEF ToggleCommit, TypeOK
    <2>3. \A v : Comments(v)' = Comments(v)
      BY <1>1, <2>1 DEF Comments
    <2>4. \A v \in Videos \ {video[r]} : Likers(v)' = Likers(v)
      BY <1>2, CommitShowsSeen
    <2>5. ~CommentCommit(r)
      BY <2>1 DEF CommentCommit
    <2>6. QED
      BY <1>1, <2>1, <2>2, <2>3, <2>4, <2>5
  <1>3. CASE CommentCommit(r)
    <2>1. likes' = likes /\ likesCount' = likesCount /\ comments' = comments \cup {r}
          /\ pc[r] = "publish"
      BY <1>3 DEF CommentCommit
    <2>2. \A v \in Videos \ {video[r]} : commentsCount'[v] = commentsCount[v]
      BY <1>3 DEF CommentCommit, TypeOK
    <2>3. \A v : Likers(v)' = Likers(v)
      BY <2>1 DEF Likers
    <2>4. \A v \in Videos \ {video[r]} : Comments(v)' = Comments(v)
      BY <1>1, <2>1 DEF Comments
    <2>5. ~ToggleCommit(r)
      BY <2>1 DEF ToggleCommit
    <2>6. QED
      BY <1>1, <2>1, <2>2, <2>3, <2>4, <2>5
  <1>4. QED
    BY <1>2, <1>3

\* A commit: those that have counted what it changes are stale from now on, and
\* nobody else has the row of the video.
LEMMA CountCommit ==
    ASSUME TypeOK, CountInv, NEW r \in Requests, ToggleCommit(r) \/ CommentCommit(r)
    PROVE  CountInv'
  <1>1. \A q \in Requests \ {r} :
           pc'[q] = pc[q] /\ effect'[q] = effect[q] /\ count'[q] = count[q]
    BY StepFrame DEF ToggleStep, CommentStep
  <1>2. ASSUME NEW q \in Requests, q \notin stale'
        PROVE  CountsTaken(q)'
    <2>1. q \notin stale
      BY <1>2 DEF ToggleCommit, CommentCommit
    <2>2. CASE q = r
      BY <2>2, CommitFrame DEF CountsTaken, TypeOK
    <2>3. CASE q # r /\ video[q] # video[r]
      <3>1. video[q] \in Videos
        BY DEF TypeOK
      <3>2. QED
        BY <1>1, <2>1, <2>3, <3>1, CommitFrame, CountFrame, CountParts
    <2>4. CASE q # r /\ video[q] = video[r]
      <3>0. pc[q] \notin {"commit", "publish"}
        BY <2>4, CommitFrame DEF CountInv, VideoBusy
      <3>1. CASE ToggleCommit(r) /\ effect[r] = "none"
        <4>1. Likers(video[q])' = Likers(video[q])
          BY <2>4, <3>1, CommitShowsSeen, SeenCases, CommitFrame
        <4>2. QED
          BY <1>1, <2>1, <2>4, <3>1, <4>1, CommitFrame, CountFrame, CountParts
      <3>2. CASE ToggleCommit(r) /\ effect[r] # "none"
        <4>1. pc[q] # "update"
          BY <1>2, <2>4, <3>2 DEF ToggleCommit, Counted
        <4>2. Comments(video[q])' = Comments(video[q]) /\ pc'[q] = pc[q] /\ count'[q] = count[q]
          BY <1>1, <2>4, <3>2, CommitFrame
        <4>3. video' = video
          BY CommitFrame
        <4>4. QED
          BY <2>1, <3>0, <4>1, <4>2, <4>3, CountParts DEF CountsTaken
      <3>3. CASE CommentCommit(r)
        <4>1. pc[q] # "refresh"
          BY <1>2, <2>4, <3>3 DEF CommentCommit, Counted
        <4>2. Likers(video[q])' = Likers(video[q]) /\ pc'[q] = pc[q] /\ count'[q] = count[q]
              /\ effect'[q] = effect[q]
          BY <1>1, <2>4, <3>3, CommitFrame
        <4>3. video' = video /\ user' = user
          BY CommitFrame
        <4>4. LikersSeen(q)' = LikersSeen(q)
          BY <4>2, <4>3 DEF LikersSeen
        <4>5. QED
          BY <2>1, <3>0, <4>1, <4>2, <4>4, CountParts DEF CountsTaken
      <3>4. QED
        BY <3>1, <3>2, <3>3
    <2>5. QED
      BY <2>2, <2>3, <2>4
  <1>3. ASSUME NEW q \in comments'
        PROVE  pc'[q] = "done"
    <2>1. q \in comments \/ q = r
      BY DEF ToggleCommit, CommentCommit
    <2>2. pc' = [pc EXCEPT ![r] = "done"] /\ q \in Requests
      BY <2>1, CommitFrame DEF TypeOK
    <2>3. QED
      BY <2>1, <2>2 DEF CountInv, TypeOK
  <1>4. \A q \in Requests : pc'[q] \in {"commit", "publish"} => ~VideoBusy(q)'
    BY HolderStep DEF ToggleStep, CommentStep
  <1>5. QED
    BY <1>2, <1>3, <1>4 DEF CountInv, CountsTaken

LEMMA CountUnchanged ==
    ASSUME CountInv, UNCHANGED vars
    PROVE  CountInv'
  <1>1. \A v : Likers(v)' = Likers(v) /\ Comments(v)' = Comments(v)
    BY DEF vars, Likers, Comments
  <1>2. \A r : LikersSeen(r)' = LikersSeen(r)
    BY <1>1 DEF vars, LikersSeen
  <1>3. \A r : VideoBusy(r)' <=> VideoBusy(r)
    BY DEF vars, VideoBusy
  <1>4. QED
    BY <1>1, <1>2, <1>3 DEF vars, CountInv

LEMMA CountInvariant == Spec => []CountInv
  <1>1. Init => CountInv
    BY DEF Init, CountInv
  <1>2. TypeOK /\ CountInv /\ [Next]_vars => CountInv'
    BY NextCases, CountBefore, CountCommit, CountUnchanged DEF ToggleStep, CommentStep
  <1>3. QED
    BY <1>1, <1>2, TypeCorrect, PTL DEF Spec

\* A commit that is not stale leaves the count exact, one that is leaves the
\* counts of the other table and of the other videos alone.
LEMMA CommitStores ==
    ASSUME TypeOK, CountInv, NEW r \in Requests, ToggleCommit(r) \/ CommentCommit(r),
           r \notin stale
    PROVE  /\ ToggleCommit(r) => LikesExact(video[r])'
           /\ CommentCommit(r) => CommentsExact(video[r])'
  <1>1. CountsTaken(r) /\ video' = video
    BY CountParts, CommitFrame
  <1>2. ASSUME ToggleCommit(r)
        PROVE  LikesExact(video[r])'
    <2>1. likesCount'[video[r]] = Cardinality(LikersSeen(r))
      BY <1>1, <1>2 DEF ToggleCommit, CountsTaken, TypeOK
    <2>2. Likers(video[r])' = LikersSeen(r)
      BY <1>2, CommitShowsSeen
    <2>3. QED
      BY <1>1, <2>1, <2>2 DEF LikesExact
  <1>3. ASSUME CommentCommit(r)
        PROVE  CommentsExact(video[r])'
    <2>1. commentsCount'[video[r]] = Cardinality(Comments(video[r])) + 1
      BY <1>1, <1>3 DEF CommentCommit, CountsTaken, TypeOK
    <2>2. r \notin Comments(video[r])
      BY <1>3 DEF CommentCommit, CountInv, Comments
    <2>3. Comments(video[r])' = Comments(video[r]) \cup {r}
      BY <1>1, <1>3 DEF CommentCommit, Comments
    <2>4. Cardinality(Comments(video[r]) \cup {r}) = Cardinality(Comments(video[r])) + 1
      BY <2>2, CommentsFinite, FS_AddElement DEF TypeOK
    <2>5. QED
      BY <1>1, <2>1, <2>3, <2>4 DEF CommentsExact
  <1>4. QED
    BY <1>2, <1>3

\* Whatever overlaps, fails and is rolled back: a stored count is wrong only
\* since a transaction committed a count that another commit had made stale
\* while it waited for the video, and the next one that is not stale repairs it.
THEOREM OnlyStaleDrifts == Spec => OnlyStaleCountsDrift
  <1> USE DEF LikesKept, CommentsKept
  <1>1. ASSUME TypeOK, CountInv, [Next]_vars, NEW v \in Videos
        PROVE  LikesKept(v) /\ CommentsKept(v)
    <2>1. CASE UNCHANGED <<likes, likesCount, comments, commentsCount, video>>
      BY <2>1 DEF Likers, Comments
    <2>2. ASSUME NEW r \in Requests, ToggleCommit(r) \/ CommentCommit(r)
          PROVE  LikesKept(v) /\ CommentsKept(v)
      <3>1. CASE v # video[r]
        BY <1>1, <2>2, <3>1, CommitFrame
      <3>2. CASE v = video[r] /\ ToggleCommit(r)
        <4>1. Comments(v)' = Comments(v) /\ commentsCount'[v] = commentsCount[v]
          BY <1>1, <3>2, CommitFrame DEF ToggleCommit
        <4>2. CASE r \in stale
          BY <1>1, <3>2, <4>1, <4>2, CommitFrame DEF ToggleCommit, Goto, TypeOK
        <4>3. CASE r \notin stale
          <5>1. LikesExact(video[r])' /\ video' = video
            BY <3>2, <4>3, <1>1, CommitStores, CommitFrame
          <5>2. LikesExact(v)'
            BY <3>2, <5>1 DEF LikesExact, Likers
          <5>3. QED
            BY <4>1, <5>2
        <4>4. QED
          BY <4>2, <4>3
      <3>3. CASE v = video[r] /\ CommentCommit(r)
        <4>1. Likers(v)' = Likers(v) /\ likesCount'[v] = likesCount[v]
          BY <1>1, <3>3, CommitFrame DEF CommentCommit
        <4>2. CASE r \in stale
          BY <1>1, <3>3, <4>1, <4>2, CommitFrame DEF CommentCommit, Goto, TypeOK
        <4>3. CASE r \notin stale
          <5>1. CommentsExact(video[r])' /\ video' = video
            BY <3>3, <4>3, <1>1, CommitStores, CommitFrame
          <5>2. CommentsExact(v)'
            BY <3>3, <5>1 DEF CommentsExact, Comments
          <5>3. QED
            BY <4>1, <5>2
        <4>4. QED
          BY <4>2, <4>3
      <3>4. QED
        BY <2>2, <3>1, <3>2, <3>3
    <2>3. \/ UNCHANGED <<likes, likesCount, comments, commentsCount, video>>
          \/ \E r \in Requests : ToggleCommit(r) \/ CommentCommit(r)
      BY <1>1, NextCases
      DEF ToggleBegin, CommentBegin, Rollback, ToggleInsert, ToggleScan, ToggleDelete,
          ToggleCount, ToggleUpdate, CommentWrite, CommentTally, CommentRefresh,
          ToggleStep, CommentStep, request, vars
    <2>4. QED
      BY <2>1, <2>2, <2>3
  <1>2. TypeOK /\ CountInv /\ [Next]_vars => [\A v \in Videos : LikesKept(v) /\ CommentsKept(v)]_vars
    BY <1>1
  <1>3. QED
    BY <1>2, TypeCorrect, CountInvariant, PTL DEF Spec, OnlyStaleCountsDrift

----------------------------------------------------------------------------

\* The safety half of AllAnswered: no circle of requests that wait for each
\* other, and always one that waits for nobody.
THEOREM NoCircleEver == Spec => []NoCircle
  <1>1. ASSUME TypeOK, EffectInv, NEW q \in Requests, NEW r \in Requests, Blocks(q, r)
        PROVE  Active(q) /\ Rank(q) > Rank(r)
    <2>1. CASE effect[q] # "none" /\ pc[r] \in {"insert", "lock"}
      <3>1. Rank(r) = 1
        BY <2>1 DEF Rank
      <3>2. pc[q] \in {"count", "update", "commit"}
        BY <1>1, <2>1 DEF EffectInv
      <3>3. Rank(q) \in {2, 3}
        BY <3>2 DEF Rank
      <3>4. QED
        BY <3>1, <3>2, <3>3 DEF Active
    <2>2. CASE pc[q] \in {"commit", "publish"} /\ pc[r] \in {"update", "refresh"}
      <3>1. Rank(q) = 3 /\ Rank(r) = 2
        BY <2>2 DEF Rank
      <3>2. QED
        BY <2>2, <3>1 DEF Active
    <2>3. QED
      BY <1>1, <2>1, <2>2 DEF Blocks
  <1>2. ASSUME TypeOK, EffectInv, NEW r \in Requests, Active(r)
        PROVE  \E p \in Requests : Active(p) /\ ~\E q \in Requests : Blocks(q, p)
    <2>1. ASSUME NEW p \in Requests, Active(p), Rank(p) = 3
          PROVE  ~\E q \in Requests : Blocks(q, p)
      <3>1. \A q \in Requests : Rank(q) \in {1, 2, 3}
        BY DEF Rank
      <3>2. QED
        BY <1>1, <1>2, <2>1, <3>1
    <2>2. CASE \E p \in Requests : Active(p) /\ Rank(p) = 3
      BY <2>1, <2>2
    <2>3. CASE \A p \in Requests : Active(p) => Rank(p) # 3
      <3>1. \A p \in Requests : Rank(p) \in {1, 2, 3}
        BY DEF Rank
      <3>2. ASSUME NEW p \in Requests, Rank(p) = 2
            PROVE  ~\E q \in Requests : Blocks(q, p)
        BY <1>1, <1>2, <2>3, <3>1, <3>2
      <3>3. CASE \E p \in Requests : Active(p) /\ Rank(p) = 2
        BY <3>2, <3>3
      <3>4. CASE \A p \in Requests : Active(p) => Rank(p) # 2
        <4>1. ~\E q \in Requests : Blocks(q, r)
          BY <1>1, <1>2, <2>3, <3>1, <3>4
        <4>2. QED
          BY <1>2, <4>1
      <3>5. QED
        BY <3>3, <3>4
    <2>4. QED
      BY <2>2, <2>3
  <1>3. TypeOK /\ EffectInv => NoCircle
    BY <1>1, <1>2 DEF NoCircle
  <1>4. QED
    BY <1>3, TypeCorrect, EffectInvariant, PTL

----------------------------------------------------------------------------
(* Engagement implements LikeTable.                                        *)

\* What FlipInv says of one request.
FlipOf(r) ==
    /\ pc[r] \in {"scan", "lock"} => ~liked[r]
    /\ pc[r] \in {"count", "update", "commit"} => liked[r] = (effect[r] = "insert")
    /\ pc[r] \in {"count", "update", "commit"} /\ effect[r] = "none" => r \in overtaken
    /\ pc[r] = "scan" /\ Row(r) = NoRow => r \in overtaken
    /\ pc[r] = "lock" /\ Row(r) # target[r] => r \in overtaken

LEMMA FlipParts ==
    FlipInv <=> (\A r \in comments : pc[r] = "done") /\ \A r \in Requests : FlipOf(r)
  BY DEF FlipInv, FlipOf

\* A step that leaves the table alone keeps what is said of the others.
LEMMA FlipFrame ==
    ASSUME TypeOK, FlipInv, NEW r \in Requests, pc[r] # "done",
           UNCHANGED <<likes, user, video, overtaken>>,
           comments' = comments \/ (comments' = comments \cup {r} /\ pc'[r] = "done"),
           \A q \in Requests \ {r} :
              pc'[q] = pc[q] /\ effect'[q] = effect[q] /\ target'[q] = target[q]
              /\ liked'[q] = liked[q],
           FlipOf(r)'
    PROVE  FlipInv'
  <1>1. ASSUME NEW q \in Requests
        PROVE  FlipOf(q)'
    <2>1. CASE q = r
      BY <2>1
    <2>2. CASE q # r
      <3>1. FlipOf(q)
        BY FlipParts
      <3>2. Row(q)' = Row(q)
        BY DEF Row
      <3>3. QED
        BY <2>2, <3>1, <3>2 DEF FlipOf
    <2>3. QED
      BY <2>1, <2>2
  <1>2. \A q \in comments' : pc'[q] = "done"
    BY DEF FlipInv, TypeOK
  <1>3. FlipInv' <=> (\A q \in comments' : pc'[q] = "done") /\ \A q \in Requests : FlipOf(q)'
    BY DEF FlipInv, FlipOf
  <1>4. QED
    BY <1>1, <1>2, <1>3

LEMMA FlipStep ==
    ASSUME TypeOK, EffectInv, FlipInv, [Next]_vars
    PROVE  FlipInv'
  <1> USE DEF Goto, request
  <1>0. \A r \in Requests : FlipOf(r)
    BY FlipParts
  <1>1. ASSUME NEW r \in Requests, CommentStep(r) \/ CommentBegin(r) \/ ToggleBegin(r) \/ Rollback(r)
        PROVE  FlipInv'
    <2>1. /\ UNCHANGED <<likes, user, video, overtaken>>
          /\ comments' = comments \/ (comments' = comments \cup {r} /\ pc'[r] = "done")
          /\ pc[r] # "done"
          /\ pc'[r] \notin {"scan", "lock", "count", "update", "commit"}
      BY <1>1 DEF CommentStep, CommentWrite, CommentTally, CommentRefresh, CommentCommit,
                  CommentBegin, ToggleBegin, Rollback, TypeOK
    <2>2. FlipOf(r)'
      BY <2>1 DEF FlipOf
    <2>3. QED
      BY <1>1, <2>1, <2>2, FlipFrame, StepFrame
  <1>2. ASSUME NEW r \in Requests,
               ToggleInsert(r) \/ ToggleScan(r) \/ ToggleDelete(r) \/ ToggleCount(r) \/ ToggleUpdate(r)
        PROVE  FlipInv'
    <2>1. /\ UNCHANGED <<likes, user, video, overtaken, comments>>
          /\ pc[r] # "done"
      BY <1>2 DEF ToggleInsert, ToggleScan, ToggleDelete, ToggleCount, ToggleUpdate
    <2>2. Row(r)' = Row(r)
      BY <2>1 DEF Row
    <2>3. FlipOf(r) /\ (effect[r] # "none" => pc[r] \in {"count", "update", "commit"})
      BY <1>0 DEF EffectInv
    <2>4. FlipOf(r)'
      <3>1. CASE ToggleInsert(r)
        BY <2>1, <2>2, <2>3, <3>1 DEF ToggleInsert, FlipOf, TypeOK
      <3>2. CASE ToggleScan(r)
        BY <2>1, <2>2, <2>3, <3>2 DEF ToggleScan, FlipOf, TypeOK
      <3>3. CASE ToggleDelete(r)
        BY <2>1, <2>2, <2>3, <3>3 DEF ToggleDelete, FlipOf, TypeOK
      <3>4. CASE ToggleCount(r) \/ ToggleUpdate(r)
        BY <2>1, <2>2, <2>3, <3>4 DEF ToggleCount, ToggleUpdate, FlipOf, TypeOK
      <3>5. QED
        BY <1>2, <3>1, <3>2, <3>3, <3>4
    <2>5. QED
      BY <1>2, <2>1, <2>4, FlipFrame, StepFrame DEF ToggleStep
  <1>3. ASSUME NEW r \in Requests, ToggleCommit(r)
        PROVE  FlipInv'
    <2>1. /\ UNCHANGED <<user, video, target, liked, comments>>
          /\ pc[r] = "commit" /\ pc' = [pc EXCEPT ![r] = "done"]
          /\ effect' = [effect EXCEPT ![r] = "none"]
          /\ overtaken' = IF effect[r] = "none" THEN overtaken ELSE overtaken \cup Rivals(r)
      BY <1>3 DEF ToggleCommit
    <2>2. ASSUME NEW q \in Requests, q # r, q \notin overtaken'
          PROVE  /\ pc[q] \in LikeSteps => Row(q)' = Row(q)
                 /\ q \notin overtaken
      <3>1. CASE effect[r] = "none"
        BY <1>3, <2>1, <2>2, <3>1 DEF ToggleCommit, Row
      <3>2. CASE effect[r] # "none"
        <4>1. q \notin overtaken /\ q \notin Rivals(r)
          BY <2>1, <2>2, <3>2
        <4>2. pc[q] \in LikeSteps => user[q] # user[r] \/ video[q] # video[r]
          BY <2>2, <4>1 DEF Rivals
        <4>3. \/ likes' = [likes EXCEPT ![video[r]][user[r]] = r]
              \/ likes' = [likes EXCEPT ![video[r]][user[r]] = NoRow]
          BY <1>3, <3>2 DEF ToggleCommit, TypeOK
        <4>4. user[q] # user[r] \/ video[q] # video[r] =>
                 likes'[video[q]][user[q]] = likes[video[q]][user[q]]
          BY <4>3 DEF TypeOK
        <4>5. QED
          BY <2>1, <4>1, <4>2, <4>4 DEF Row
      <3>3. QED
        BY <3>1, <3>2
    <2>3. ASSUME NEW q \in Requests
          PROVE  FlipOf(q)'
      <3>1. CASE q = r
        BY <2>1, <3>1 DEF FlipOf, TypeOK
      <3>2. CASE q # r
        <4>1. pc'[q] = pc[q] /\ effect'[q] = effect[q] /\ target'[q] = target[q] /\ liked'[q] = liked[q]
          BY <2>1, <3>2 DEF TypeOK
        <4>2. FlipOf(q)
          BY <1>0
        <4>3. CASE q \in overtaken'
          BY <4>1, <4>2, <4>3 DEF FlipOf
        <4>4. CASE q \notin overtaken'
          BY <2>2, <3>2, <4>1, <4>2, <4>4 DEF FlipOf
        <4>5. QED
          BY <4>3, <4>4
      <3>3. QED
        BY <3>1, <3>2
    <2>4. \A q \in comments' : pc'[q] = "done"
      BY <2>1 DEF FlipInv, TypeOK
    <2>5. QED
      BY <2>3, <2>4 DEF FlipInv, FlipOf
  <1>4. CASE UNCHANGED vars
    BY <1>4 DEF vars, FlipInv, Row
  <1>5. QED
    BY <1>1, <1>2, <1>3, <1>4, NextCases DEF ToggleStep

LEMMA FlipInvariant == Spec => []FlipInv
  <1>1. Init => FlipInv
    BY DEF Init, FlipInv
  <1>2. TypeOK /\ EffectInv /\ FlipInv /\ [Next]_vars => FlipInv'
    BY FlipStep
  <1>3. QED
    BY <1>1, <1>2, TypeCorrect, EffectInvariant, PTL DEF Spec

\* What a step does to the conjuncts of LikeTable.
LEMMA AnswerFrame ==
    ASSUME TypeOK, NEW q \in Requests, pc'[q] = pc[q], liked'[q] = liked[q],
           comments' = comments \/ (\E r \in Requests \ {q} : comments' = comments \cup {r})
    PROVE  Answer(q)' = Answer(q)
  <1>1. q \in comments' <=> q \in comments
    OBVIOUS
  <1>2. QED
    BY <1>1 DEF Answer

LEMMA AnswerCases ==
    ASSUME NEW r
    PROVE  /\ pc[r] # "done" \/ r \in comments => Answer(r) = "none"
           /\ pc[r] = "done" /\ r \notin comments /\ liked[r] => Answer(r) = "liked"
           /\ pc[r] = "done" /\ r \notin comments /\ ~liked[r] => Answer(r) = "unliked"
  <1>1. CASE pc[r] # "done" \/ r \in comments
    BY <1>1 DEF Answer
  <1>2. CASE pc[r] = "done" /\ r \notin comments
    BY <1>2 DEF Answer
  <1>3. QED
    BY <1>1, <1>2

Open == {r \in Requests : pc[r] \in LikeSteps}

\* A step that leaves likes and the answers alone is at most the beginning of
\* a toggle, or its end without an answer.
LEMMA TableFrame ==
    ASSUME TypeOK, NEW r \in Requests, pc[r] # "done", Answer(r)' = "none",
           UNCHANGED <<likes, user, video, overtaken>>,
           comments' = comments \/ comments' = comments \cup {r},
           \A q \in Requests \ {r} : pc'[q] = pc[q] /\ liked'[q] = liked[q]
    PROVE  /\ UNCHANGED <<[v \in Videos |-> Likers(v)], [q \in Requests |-> Answer(q)]>>
           /\ Open' \in {Open, Open \cup {r}, Open \ {r}}
  <1>1. \A v : Likers(v)' = Likers(v)
    BY DEF Likers
  <1>2. ASSUME NEW q \in Requests
        PROVE  Answer(q)' = Answer(q)
    <2>1. CASE q = r
      BY <2>1, AnswerCases
    <2>2. CASE q # r
      BY <2>2, AnswerFrame
    <2>3. QED
      BY <2>1, <2>2
  <1>3. Open' \in {Open, Open \cup {r}, Open \ {r}}
    BY DEF Open
  <1>4. QED
    BY <1>1, <1>2, <1>3

LEMMA BeforeCommit ==
    ASSUME TypeOK, NEW r \in Requests,
           \/ ToggleBegin(r) \/ CommentBegin(r) \/ Rollback(r) \/ CommentStep(r)
           \/ ToggleInsert(r) \/ ToggleScan(r) \/ ToggleDelete(r) \/ ToggleCount(r)
           \/ ToggleUpdate(r)
    PROVE  [Table!Next]_(Table!vars)
  <1> USE DEF Goto, request
  <1>1. /\ UNCHANGED <<likes, user, video, overtaken>>
        /\ pc[r] # "done"
        /\ pc'[r] # "done" \/ r \in comments'
        /\ comments' = comments \/ comments' = comments \cup {r}
    BY DEF ToggleBegin, CommentBegin, Rollback, CommentStep, CommentWrite, CommentTally,
           CommentRefresh, CommentCommit, ToggleInsert, ToggleScan, ToggleDelete, ToggleCount,
           ToggleUpdate, TypeOK
  <1>2. Answer(r)' = "none" /\ Answer(r) = "none"
    <2>1. Answer(r) = "none"
      BY <1>1, AnswerCases
    <2>2. Answer(r)' = "none"
      BY <1>1 DEF Answer
    <2>3. QED
      BY <2>1, <2>2
  <1>3. \A q \in Requests \ {r} : pc'[q] = pc[q] /\ liked'[q] = liked[q]
    BY StepFrame DEF ToggleStep
  <1>4. /\ UNCHANGED <<[v \in Videos |-> Likers(v)], [q \in Requests |-> Answer(q)]>>
        /\ Open' \in {Open, Open \cup {r}, Open \ {r}}
    BY <1>1, <1>2, <1>3, TableFrame
  <1>5. CASE Open' = Open
    BY <1>1, <1>4, <1>5 DEF Table!vars, Open
  <1>6. CASE r \notin Open /\ Open' = Open \cup {r}
    <2>1. Table!Begin(r)
      BY <1>1, <1>2, <1>4, <1>6 DEF Table!Begin, Open
    <2>2. QED
      BY <2>1 DEF Table!Next
  <1>7. CASE r \in Open /\ Open' = Open \ {r}
    <2>1. [q \in Requests |-> Answer(q)] = [[q \in Requests |-> Answer(q)] EXCEPT ![r] = "none"]
      BY <1>2
    <2>2. Table!Fail(r)
      BY <1>1, <1>4, <1>7, <2>1 DEF Table!Fail, Table!Close, Open
    <2>3. QED
      BY <2>2 DEF Table!Next
  <1>8. QED
    BY <1>4, <1>5, <1>6, <1>7

\* The commit of a toggle is the flip it answers, or a miss.
LEMMA CommitFlips ==
    ASSUME TypeOK, EffectInv, FlipInv, NEW r \in Requests, ToggleCommit(r)
    PROVE  Table!Next
  <1> USE DEF Goto, request
  <1>1. /\ UNCHANGED <<user, video, liked, comments>>
        /\ pc[r] = "commit" /\ pc' = [pc EXCEPT ![r] = "done"]
        /\ overtaken' = IF effect[r] = "none" THEN overtaken ELSE overtaken \cup Rivals(r)
    BY DEF ToggleCommit
  <1>2. /\ user[r] \in Users /\ video[r] \in Videos
        /\ r \notin comments /\ pc'[r] = "done"
    BY <1>1 DEF TypeOK, FlipInv
  <1>3. /\ r \in Open /\ Open' = Open \ {r}
        /\ Rivals(r) = {q \in Open \ {r} : user[q] = user[r] /\ video[q] = video[r]}
    BY <1>1 DEF Open, Rivals, TypeOK
  <1>4. [q \in Requests |-> Answer(q)'] =
           [[q \in Requests |-> Answer(q)] EXCEPT ![r] = IF liked[r] THEN "liked" ELSE "unliked"]
    <2>1. Answer(r)' = IF liked[r] THEN "liked" ELSE "unliked"
      BY <1>1, <1>2 DEF Answer
    <2>2. ASSUME NEW q \in Requests, q # r
          PROVE  Answer(q)' = Answer(q)
      BY <1>1, <2>2, AnswerFrame DEF TypeOK
    <2>3. QED
      BY <2>1, <2>2
  <1>5. \A v \in Videos : Likers(v)' = IF v = video[r] THEN LikersSeen(r) ELSE Likers(v)
    <2>1. Likers(video[r])' = LikersSeen(r)
      BY CommitShowsSeen
    <2>2. ASSUME NEW v \in Videos, v = video[r]
          PROVE  Likers(v)' = LikersSeen(r)
      BY <1>1, <2>1, <2>2 DEF Likers
    <2>3. QED
      BY <2>2, CommitShowsSeen
  <1>6. /\ effect[r] # "none" => (user[r] \in Likers(video[r]) <=> effect[r] = "delete")
        /\ effect[r] \in {"none", "insert", "delete"}
        /\ liked[r] = (effect[r] = "insert")
        /\ effect[r] = "none" => r \in overtaken
    BY <1>1, <1>2 DEF EffectInv, KeyHeld, FlipInv, Row, Likers, TypeOK
  <1>7. CASE effect[r] = "insert"
    <2>1. [v \in Videos |-> Likers(v)'] =
             [[v \in Videos |-> Likers(v)] EXCEPT ![video[r]] = @ \cup {user[r]}]
      BY <1>2, <1>5, <1>7, SeenCases
    <2>2. Table!Like(r)
      BY <1>1, <1>2, <1>3, <1>4, <1>6, <1>7, <2>1 DEF Table!Like, Table!Close, Table!Rivals, Open
    <2>3. QED
      BY <2>2 DEF Table!Next
  <1>8. CASE effect[r] = "delete"
    <2>1. [v \in Videos |-> Likers(v)'] =
             [[v \in Videos |-> Likers(v)] EXCEPT ![video[r]] = @ \ {user[r]}]
      BY <1>2, <1>5, <1>8, SeenCases
    <2>2. Table!Unlike(r)
      BY <1>1, <1>2, <1>3, <1>4, <1>6, <1>8, <2>1 DEF Table!Unlike, Table!Close, Table!Rivals, Open
    <2>3. QED
      BY <2>2 DEF Table!Next
  <1>9. CASE effect[r] = "none"
    <2>1. [v \in Videos |-> Likers(v)'] = [v \in Videos |-> Likers(v)]
      <3>1. \A v \in Videos : Likers(v)' = Likers(v)
        BY <1>5, <1>9, SeenCases
      <3>2. QED
        BY <3>1
    <2>2. Table!Miss(r)
      BY <1>1, <1>3, <1>4, <1>6, <1>9, <2>1 DEF Table!Miss, Table!Close, Open
    <2>3. QED
      BY <2>2 DEF Table!Next
  <1>10. QED
    BY <1>6, <1>7, <1>8, <1>9

\* Every behaviour of Engagement is one of LikeTable: a toggle flips the like
\* of its user atomically when it commits, and answers which way it went; only
\* a toggle overtaken by another one of the same user may change nothing.
THEOREM TogglesAreAtomic == Spec => FlipsTheLike
  <1>1. Init => Table!Init
    <2> SUFFICES ASSUME Init PROVE Table!Init
      OBVIOUS
    <2>1. {r \in Requests : pc[r] \in LikeSteps} = {} /\ \A r \in Requests : Answer(r) = "none"
      BY AnswerCases DEF Init
    <2>2. [v \in Videos |-> Likers(v)] \in [Videos -> SUBSET Users]
      BY DEF Likers
    <2>3. QED
      BY <2>1, <2>2 DEF Init, Table!Init
  <1>2. TypeOK /\ EffectInv /\ FlipInv /\ [Next]_vars => [Table!Next]_(Table!vars)
    <2> SUFFICES ASSUME TypeOK, EffectInv, FlipInv, [Next]_vars
                 PROVE  [Table!Next]_(Table!vars)
      OBVIOUS
    <2>1. CASE UNCHANGED vars
      <3>1. /\ \A v : Likers(v)' = Likers(v)
            /\ \A r : Answer(r)' = Answer(r)
            /\ UNCHANGED <<overtaken, user, video, pc>>
        BY <2>1 DEF vars, Likers, Answer
      <3>2. QED
        BY <3>1 DEF Table!vars
    <2>2. ASSUME NEW r \in Requests, ToggleCommit(r)
          PROVE  [Table!Next]_(Table!vars)
      BY <2>2, CommitFlips
    <2>3. QED
      BY <2>1, <2>2, BeforeCommit, NextCases DEF ToggleStep
  <1>3. QED
    BY <1>1, <1>2, TypeCorrect, EffectInvariant, FlipInvariant, PTL
    DEF Spec, FlipsTheLike, Table!Spec

=============================================================================
