--------------------------- MODULE FeedPageProofs ---------------------------
(***************************************************************************)
(* The feed page, for any videos, comments, page size and number of        *)
(* requests and moves: a sheet shows its own comments and all it owes, and *)
(* pages show none twice; hearts that were told of the last change are     *)
(* right, and a double tap on such a heart takes no like away.             *)
(***************************************************************************)
EXTENDS FeedPage, RowsProofs

----------------------------------------------------------------------------
(* Hearts.                                                                 *)

\* No other request for the same video is under way.
Single(k) == \A j \in Slots : posts[j] # NoPost /\ posts[j].of = posts[k].of => j = k

\* What is known of a request: one that has not written yet has changed
\* nothing; one that was alone has the like as it has left it, and one that
\* was sent from a right heart knows what the like was before.
PostInv(k) ==
    LET p == posts[k]
        v == p.of
    IN  /\ p.step \in {"sent", "found"} => ~p.took /\ ~p.liked
        /\ p.alone =>
              /\ Single(k)
              /\ p.step = "found" => liked[v]
              /\ p.step = "answered" => p.took /\ p.liked = liked[v]
              /\ p.by = "tap" => heart[v]
        /\ p.alone /\ p.sure =>
              /\ ~p.took => liked[v] = (p.by = "button" /\ heart[v])
              /\ p.by = "tap" => p.step # "found"

\* The inductive invariant behind HeartTrue and TapsLike.
HeartInv ==
    /\ HeartTrue
    /\ \A k \in Slots : posts[k] # NoPost => PostInv(k)

LEMMA PostTypes ==
    ASSUME HeartTypeOK, NEW k \in Slots, posts[k] # NoPost
    PROVE  /\ posts[k] \in Posts
           /\ posts[k].of \in Cards
           /\ posts[k].by \in {"button", "tap"}
           /\ posts[k].step \in {"sent", "found", "answered", "error"}
           /\ posts[k].took \in BOOLEAN
           /\ posts[k].liked \in BOOLEAN
           /\ posts[k].alone \in BOOLEAN
           /\ posts[k].sure \in BOOLEAN
  BY DEF HeartTypeOK, Posts

LEMMA NoPostIsNone == NoPost.step = "none" /\ NoPost \notin Posts
  BY DEF NoPost, Posts

\* Crowding a video only takes alone from its requests.
LEMMA CrowdedPosts ==
    ASSUME HeartTypeOK, NEW v \in Cards, NEW k \in Slots
    PROVE  /\ Crowded(v) \in [Slots -> Posts \cup {NoPost}]
           /\ posts[k] = NoPost <=> Crowded(v)[k] = NoPost
           /\ posts[k] # NoPost =>
                 /\ Crowded(v)[k].of = posts[k].of
                 /\ Crowded(v)[k].by = posts[k].by
                 /\ Crowded(v)[k].step = posts[k].step
                 /\ Crowded(v)[k].took = posts[k].took
                 /\ Crowded(v)[k].liked = posts[k].liked
                 /\ Crowded(v)[k].sure = posts[k].sure
                 /\ Crowded(v)[k].alone = (posts[k].alone /\ posts[k].of # v)
  <1>1. Crowded(v)[k] = IF k \in UnderWay(v) THEN [posts[k] EXCEPT !.alone = FALSE] ELSE posts[k]
    BY DEF Crowded
  <1>2. posts[k] # NoPost => [posts[k] EXCEPT !.alone = FALSE] \in Posts
    BY PostTypes DEF Posts
  <1>3. \A j \in Slots : posts[j] # NoPost => posts[j] \in Posts
    BY PostTypes
  <1>4. ASSUME NEW j \in Slots PROVE Crowded(v)[j] \in Posts \cup {NoPost}
    <2>1. CASE j \in UnderWay(v)
      <3>1. posts[j] \in Posts
        BY <1>3, <2>1 DEF UnderWay
      <3>2. [posts[j] EXCEPT !.alone = FALSE] \in Posts
        BY <3>1 DEF Posts
      <3>3. QED
        BY <2>1, <3>2 DEF Crowded
    <2>2. CASE j \notin UnderWay(v)
      BY <1>3, <2>2 DEF Crowded
    <2>3. QED
      BY <2>1, <2>2
  <1>5. Crowded(v) \in [Slots -> Posts \cup {NoPost}]
    BY <1>4 DEF Crowded
  <1>6. CASE k \in UnderWay(v)
    <2>1. posts[k] \in Posts /\ posts[k] # NoPost /\ posts[k].of = v
      BY <1>3, <1>6 DEF UnderWay
    <2>2. Crowded(v)[k] = [posts[k] EXCEPT !.alone = FALSE]
      BY <1>1, <1>6
    <2>3. Crowded(v)[k] # NoPost
      BY <1>2, <2>1, <2>2, NoPostIsNone
    <2>4. QED
      BY <1>5, <2>1, <2>2, <2>3 DEF Posts
  <1>7. CASE k \notin UnderWay(v)
    <2>1. Crowded(v)[k] = posts[k]
      BY <1>1, <1>7
    <2>2. posts[k] # NoPost => posts[k].of # v /\ posts[k].alone \in BOOLEAN
      BY <1>7, PostTypes DEF UnderWay
    <2>3. QED
      BY <1>5, <2>1, <2>2
  <1>8. QED
    BY <1>6, <1>7

----------------------------------------------------------------------------
(* A request is sent.                                                      *)

\* What fetch leaves behind, whichever way the heart is set.
LEMMA PostLeaves ==
    ASSUME HeartTypeOK, NEW v \in Cards, NEW by \in {"button", "tap"}, Post(v, by)
    PROVE  \E k \in Slots :
              /\ posts[k] = NoPost
              /\ posts' \in [Slots -> Posts \cup {NoPost}]
              /\ posts'[k] = [of |-> v, by |-> by, step |-> "sent", took |-> FALSE,
                              liked |-> FALSE, alone |-> UnderWay(v) = {},
                              sure |-> trusted[v] /\ UnderWay(v) = {}]
              /\ \A j \in Slots \ {k} : posts'[j] = Crowded(v)[j]
  <1>1. PICK k \in Slots :
           /\ posts[k] = NoPost
           /\ posts' = [Crowded(v) EXCEPT ![k] =
                 [of |-> v, by |-> by, step |-> "sent", took |-> FALSE, liked |-> FALSE,
                  alone |-> UnderWay(v) = {}, sure |-> trusted[v] /\ UnderWay(v) = {}]]
    BY DEF Post
  <1>2. trusted[v] \in BOOLEAN
    BY DEF HeartTypeOK
  <1>3. Crowded(v) \in [Slots -> Posts \cup {NoPost}]
    BY <1>1, CrowdedPosts
  <1>4. [of |-> v, by |-> by, step |-> "sent", took |-> FALSE, liked |-> FALSE,
         alone |-> UnderWay(v) = {}, sure |-> trusted[v] /\ UnderWay(v) = {}] \in Posts
    BY <1>2 DEF Posts
  <1>5. QED
    BY <1>1, <1>3, <1>4

\* A request for v that nothing is known to crowd, and a heart that is set for
\* it: nobody else has to care.
LEMMA PostKeeps ==
    ASSUME HeartTypeOK, HeartInv, NEW v \in Cards, NEW by \in {"button", "tap"}, Post(v, by),
           UNCHANGED <<liked, trusted>>,
           \/ by = "button" /\ UNCHANGED heart
           \/ by = "tap" /\ ~heart[v] /\ heart' = [heart EXCEPT ![v] = TRUE]
    PROVE  HeartTypeOK' /\ HeartInv'
  <1>1. PICK k \in Slots :
           /\ posts[k] = NoPost
           /\ posts' \in [Slots -> Posts \cup {NoPost}]
           /\ posts'[k] = [of |-> v, by |-> by, step |-> "sent", took |-> FALSE,
                           liked |-> FALSE, alone |-> UnderWay(v) = {},
                           sure |-> trusted[v] /\ UnderWay(v) = {}]
           /\ \A j \in Slots \ {k} : posts'[j] = Crowded(v)[j]
    BY PostLeaves
  <1>2. HeartTypeOK'
    BY <1>1 DEF HeartTypeOK
  <1>3. posts'[k] # NoPost /\ posts'[k].of = v
    BY <1>1 DEF NoPost
  <1>4. \A j \in Slots : posts[j] # NoPost => j # k /\ posts'[j] # NoPost /\ posts'[j].of = posts[j].of
    BY <1>1, CrowdedPosts
  <1>5. \A j \in Slots \ {k} : posts'[j] # NoPost => posts[j] # NoPost
    BY <1>1, CrowdedPosts
  <1>6. HeartTrue'
    <2>1. ASSUME NEW w \in Cards, (trusted[w] /\ UnderWay(w) = {})' PROVE (heart[w] = liked[w])'
      <3>1. w # v
        BY <1>3, <2>1 DEF UnderWay
      <3>2. UnderWay(w) = {}
        BY <1>4, <2>1 DEF UnderWay
      <3>3. QED
        BY <2>1, <3>1, <3>2 DEF HeartInv, HeartTrue, HeartTypeOK
    <2>2. QED
      BY <2>1 DEF HeartTrue
  <1>7. ASSUME NEW j \in Slots, posts'[j] # NoPost PROVE PostInv(j)'
    <2>1. CASE j = k
      <3>1. UnderWay(v) = {} => Single(k)'
        BY <1>1, <1>4, <1>5, <1>3 DEF UnderWay, Single
      <3>6. /\ posts'[k].sure = (trusted[v] /\ UnderWay(v) = {})
            /\ posts'[k].alone = (UnderWay(v) = {})
            /\ posts'[k].by = by /\ posts'[k].step = "sent"
            /\ posts'[k].took = FALSE /\ posts'[k].liked = FALSE
        BY <1>1
      <3>7. trusted[v] /\ UnderWay(v) = {} => heart[v] = liked[v]
        BY DEF HeartInv, HeartTrue
      <3>2. posts'[k].sure => heart[v] = liked[v]
        BY <3>6, <3>7
      <3>3. heart[v] \in BOOLEAN /\ liked[v] \in BOOLEAN
        BY DEF HeartTypeOK
      <3>4. by = "tap" => heart'[v]
        BY DEF HeartTypeOK
      <3>5. QED
        BY <1>3, <2>1, <3>1, <3>2, <3>3, <3>4, <3>6 DEF PostInv
    <2>2. CASE j # k
      <3>1. posts[j] # NoPost /\ PostInv(j)
        BY <1>5, <1>7, <2>2 DEF HeartInv
      <3>2. /\ posts'[j].of = posts[j].of
            /\ posts'[j].by = posts[j].by
            /\ posts'[j].step = posts[j].step
            /\ posts'[j].took = posts[j].took
            /\ posts'[j].liked = posts[j].liked
            /\ posts'[j].sure = posts[j].sure
            /\ posts'[j].alone = (posts[j].alone /\ posts[j].of # v)
        BY <1>1, <2>2, <3>1, CrowdedPosts
      <3>3. posts'[j].alone => Single(j)'
        BY <1>3, <1>5, <1>4, <3>1, <3>2 DEF Single, PostInv
      <3>4. posts[j].of # v => heart'[posts[j].of] = heart[posts[j].of]
        BY <3>1, PostTypes DEF HeartTypeOK
      <3>5. QED
        BY <3>1, <3>2, <3>3, <3>4 DEF PostInv
    <2>3. QED
      BY <2>1, <2>2
  <1>8. QED
    BY <1>2, <1>6, <1>7 DEF HeartInv

\* Another tab crowds the requests of its video, and is not trusted.
LEMMA OtherTabKeeps ==
    ASSUME HeartTypeOK, HeartInv, NEW v \in Cards, OtherTab(v)
    PROVE  HeartTypeOK' /\ HeartInv'
  <1> USE DEF OtherTab
  <1>1. /\ posts' = Crowded(v)
        /\ posts' \in [Slots -> Posts \cup {NoPost}]
    <2>1. CASE Slots = {}
      BY <2>1 DEF Crowded
    <2>2. CASE Slots # {}
      BY <2>2, CrowdedPosts
    <2>3. QED
      BY <2>1, <2>2
  <1>2. HeartTypeOK'
    BY <1>1 DEF HeartTypeOK
  <1>3. \A j \in Slots : posts[j] # NoPost <=> posts'[j] # NoPost
    BY <1>1, CrowdedPosts
  <1>4. \A j \in Slots : posts[j] # NoPost => posts'[j].of = posts[j].of
    BY <1>1, CrowdedPosts
  <1>5. HeartTrue'
    <2>1. ASSUME NEW w \in Cards, (trusted[w] /\ UnderWay(w) = {})' PROVE (heart[w] = liked[w])'
      <3>1. w # v
        BY <2>1 DEF HeartTypeOK
      <3>2. UnderWay(w) = {}
        BY <1>3, <1>4, <2>1 DEF UnderWay
      <3>3. QED
        BY <2>1, <3>1, <3>2 DEF HeartInv, HeartTrue, HeartTypeOK
    <2>2. QED
      BY <2>1 DEF HeartTrue
  <1>6. ASSUME NEW j \in Slots, posts'[j] # NoPost PROVE PostInv(j)'
    <2>1. posts[j] # NoPost /\ PostInv(j)
      BY <1>3, <1>6 DEF HeartInv
    <2>2. /\ posts'[j].of = posts[j].of
          /\ posts'[j].by = posts[j].by
          /\ posts'[j].step = posts[j].step
          /\ posts'[j].took = posts[j].took
          /\ posts'[j].liked = posts[j].liked
          /\ posts'[j].sure = posts[j].sure
          /\ posts'[j].alone = (posts[j].alone /\ posts[j].of # v)
      BY <1>1, <2>1, CrowdedPosts
    <2>3. posts'[j].alone => Single(j)'
      BY <1>3, <1>4, <2>1, <2>2 DEF Single, PostInv
    <2>4. posts[j].of # v => liked'[posts[j].of] = liked[posts[j].of]
      BY <2>1, PostTypes DEF HeartTypeOK
    <2>5. QED
      BY <2>1, <2>2, <2>3, <2>4 DEF PostInv
  <1>7. QED
    BY <1>2, <1>5, <1>6 DEF HeartInv

----------------------------------------------------------------------------
(* A request goes on, and ends.                                            *)

\* A step of one request disturbs no other one: those for the same video are
\* not alone.
LEMMA OthersKeep ==
    ASSUME HeartTypeOK, HeartInv, NEW k \in Slots, posts[k] # NoPost,
           NEW q, posts' = [posts EXCEPT ![k] = q], q # NoPost => q.of = posts[k].of,
           \A v \in Cards \ {posts[k].of} : liked'[v] = liked[v] /\ heart'[v] = heart[v],
           NEW j \in Slots, j # k, posts[j] # NoPost
    PROVE  PostInv(j)'
  <1>1. posts'[j] = posts[j] /\ PostInv(j) /\ posts[j].of \in Cards /\ posts'[k] = q
    BY PostTypes DEF HeartTypeOK, HeartInv
  <1>2. \A i \in Slots \ {k} : posts'[i] = posts[i]
    BY DEF HeartTypeOK
  <1>3. Single(j) => Single(j)'
    BY <1>1, <1>2 DEF Single
  <1>4. Single(j) => posts[j].of # posts[k].of
    BY DEF Single
  <1>5. QED
    BY <1>1, <1>3, <1>4 DEF PostInv

\* Nor does a request that goes on make a heart true or wrong.
LEMMA GoingOn ==
    ASSUME HeartTypeOK, HeartInv, NEW k \in Slots, posts[k] # NoPost,
           NEW q \in Posts, posts' = [posts EXCEPT ![k] = q], q.of = posts[k].of,
           \A v \in Cards \ {posts[k].of} : liked'[v] = liked[v],
           liked' \in [Cards -> BOOLEAN], UNCHANGED <<heart, trusted>>,
           PostInv(k)'
    PROVE  HeartTypeOK' /\ HeartInv'
  <1>1. HeartTypeOK'
    BY DEF HeartTypeOK
  <1>2. q # NoPost /\ posts'[k] = q
    BY NoPostIsNone DEF HeartTypeOK
  <1>3. \A j \in Slots \ {k} : posts'[j] = posts[j]
    BY DEF HeartTypeOK
  <1>4. HeartTrue'
    <2>1. ASSUME NEW w \in Cards, (trusted[w] /\ UnderWay(w) = {})' PROVE (heart[w] = liked[w])'
      <3>1. w # posts[k].of
        BY <1>2, <2>1 DEF UnderWay
      <3>2. UnderWay(w) = {}
        BY <1>2, <1>3, <2>1, <3>1 DEF UnderWay
      <3>3. QED
        BY <2>1, <3>1, <3>2 DEF HeartInv, HeartTrue
    <2>2. QED
      BY <2>1 DEF HeartTrue
  <1>5. ASSUME NEW j \in Slots, posts'[j] # NoPost PROVE PostInv(j)'
    <2>1. CASE j = k
      BY <2>1
    <2>2. CASE j # k
      <3>1. posts[j] # NoPost
        BY <1>3, <1>5, <2>2
      <3>2. QED
        BY <2>2, <3>1, OthersKeep
    <2>3. QED
      BY <2>1, <2>2
  <1>6. QED
    BY <1>1, <1>4, <1>5 DEF HeartInv

LEMMA StaysSingle ==
    ASSUME HeartTypeOK, NEW k \in Slots, NEW q, posts' = [posts EXCEPT ![k] = q],
           q.of = posts[k].of, Single(k)
    PROVE  Single(k)'
  <1>1. posts'[k] = q /\ \A j \in Slots \ {k} : posts'[j] = posts[j]
    BY DEF HeartTypeOK
  <1>2. QED
    BY <1>1 DEF Single

LEMMA InsertKeeps ==
    ASSUME HeartTypeOK, HeartInv, NEW k \in Slots, Insert(k)
    PROVE  HeartTypeOK' /\ HeartInv'
  <1> DEFINE p == posts[k]
  <1>1. p # NoPost /\ p.step = "sent"
    BY NoPostIsNone DEF Insert
  <1>2. PostInv(k) /\ p \in Posts
    BY <1>1, PostTypes DEF HeartInv
  <1>3. CASE liked[p.of]
    <2> DEFINE q == [p EXCEPT !.step = "found"]
    <2>1. posts' = [posts EXCEPT ![k] = q] /\ UNCHANGED <<liked, heart, trusted>>
      BY <1>3 DEF Insert
    <2>2. q \in Posts /\ q.of = p.of
      BY <1>2 DEF Posts
    <2>3. posts'[k] = q
      BY <2>1 DEF HeartTypeOK
    <2>4. Single(k) => Single(k)'
      BY <2>1, <2>2, StaysSingle
    <2>5. PostInv(k)'
      <3>1. /\ q.of = p.of /\ q.by = p.by /\ q.sure = p.sure /\ q.alone = p.alone
            /\ q.step = "found" /\ q.took = FALSE /\ q.liked = FALSE
        BY <1>1, <1>2 DEF PostInv, Posts
      <3>2. p.alone /\ p.sure => liked[p.of] = (p.by = "button" /\ heart[p.of])
        BY <1>1, <1>2 DEF PostInv
      <3>3. p.alone /\ p.by = "tap" => heart[p.of]
        BY <1>2 DEF PostInv
      <3>4. p.alone => Single(k)
        BY <1>2 DEF PostInv
      <3>5. liked[p.of] = TRUE
        BY <1>2, <1>3 DEF HeartTypeOK, Posts
      <3>6. p.alone /\ p.sure => p.by = "button" /\ heart[p.of] /\ p.by # "tap"
        BY <3>2, <3>5
      <3>7. QED
        <4> HIDE DEF p, q
        <4>1. /\ q.alone => Single(k)'
              /\ q.alone => liked'[q.of] = TRUE
              /\ q.alone /\ q.by = "tap" => heart'[q.of]
          BY <2>1, <2>4, <3>1, <3>3, <3>4, <3>5
        <4>2. q.alone /\ q.sure => liked'[q.of] = (q.by = "button" /\ heart'[q.of])
          BY <2>1, <3>1, <3>2
        <4>3. q.alone /\ q.sure => q.by # "tap"
          BY <3>1, <3>6
        <4>4. QED
          BY <2>3, <3>1, <4>1, <4>2, <4>3 DEF PostInv
    <2>6. QED
      <3> HIDE DEF p, q
      <3>1. QED
        BY <1>1, <2>1, <2>2, <2>5, GoingOn DEF p, HeartTypeOK
  <1>4. CASE ~liked[p.of]
    <2> DEFINE q == [p EXCEPT !.step = "answered", !.took = TRUE, !.liked = TRUE]
    <2>1. /\ posts' = [posts EXCEPT ![k] = q]
          /\ liked' = [liked EXCEPT ![p.of] = TRUE]
          /\ UNCHANGED <<heart, trusted>>
      BY <1>4 DEF Insert
    <2>2. q \in Posts /\ q.of = p.of
      BY <1>2 DEF Posts
    <2>3. posts'[k] = q
      BY <2>1 DEF HeartTypeOK
    <2>4. Single(k) => Single(k)'
      BY <2>1, <2>2, StaysSingle
    <2>5. liked'[p.of] = TRUE /\ liked' \in [Cards -> BOOLEAN]
          /\ \A v \in Cards \ {p.of} : liked'[v] = liked[v]
      BY <1>2, <2>1 DEF HeartTypeOK, Posts
    <2>6. PostInv(k)'
      <3>1. /\ q.of = p.of /\ q.by = p.by /\ q.sure = p.sure /\ q.alone = p.alone
            /\ q.step = "answered" /\ q.took = TRUE /\ q.liked = TRUE
        BY <1>2 DEF Posts
      <3>2. p.alone => Single(k) /\ (p.by = "tap" => heart[p.of])
        BY <1>2 DEF PostInv
      <3>3. QED
        <4> HIDE DEF p, q
        <4>1. QED
          BY <2>1, <2>3, <2>4, <2>5, <3>1, <3>2 DEF PostInv
    <2>7. QED
      <3> HIDE DEF p, q
      <3>1. QED
        BY <1>1, <2>1, <2>2, <2>5, <2>6, GoingOn DEF p
  <1>5. QED
    BY <1>3, <1>4

LEMMA DeleteKeeps ==
    ASSUME HeartTypeOK, HeartInv, NEW k \in Slots, Delete(k)
    PROVE  HeartTypeOK' /\ HeartInv'
  <1> DEFINE p == posts[k]
  <1> DEFINE q == [p EXCEPT !.step = "answered", !.took = TRUE]
  <1>1. p # NoPost /\ p.step = "found"
    BY NoPostIsNone DEF Delete
  <1>2. PostInv(k) /\ p \in Posts
    BY <1>1, PostTypes DEF HeartInv
  <1>3. /\ posts' = [posts EXCEPT ![k] = q]
        /\ liked' = [liked EXCEPT ![p.of] = FALSE]
        /\ UNCHANGED <<heart, trusted>>
    BY DEF Delete
  <1>4. q \in Posts /\ q.of = p.of
    BY <1>2 DEF Posts
  <1>5. posts'[k] = q
    BY <1>3 DEF HeartTypeOK
  <1>6. Single(k) => Single(k)'
    BY <1>3, <1>4, StaysSingle
  <1>7. liked'[p.of] = FALSE /\ liked' \in [Cards -> BOOLEAN]
        /\ \A v \in Cards \ {p.of} : liked'[v] = liked[v]
    BY <1>2, <1>3 DEF HeartTypeOK, Posts
  <1>8. PostInv(k)'
    <2>1. /\ q.of = p.of /\ q.by = p.by /\ q.sure = p.sure /\ q.alone = p.alone
          /\ q.step = "answered" /\ q.took = TRUE /\ q.liked = FALSE
      BY <1>1, <1>2 DEF PostInv, Posts
    <2>2. p.alone => Single(k) /\ (p.by = "tap" => heart[p.of])
      BY <1>2 DEF PostInv
    <2>3. QED
      <3> HIDE DEF p, q
      <3>1. QED
        BY <1>3, <1>5, <1>6, <1>7, <2>1, <2>2 DEF PostInv
  <1>9. QED
    <2> HIDE DEF p, q
    <2>1. QED
      BY <1>1, <1>3, <1>4, <1>7, <1>8, GoingOn DEF p

LEMMA RefuseKeeps ==
    ASSUME HeartTypeOK, HeartInv, NEW k \in Slots, Refuse(k)
    PROVE  HeartTypeOK' /\ HeartInv'
  <1> DEFINE p == posts[k]
  <1> DEFINE q == [p EXCEPT !.step = "error"]
  <1>1. p # NoPost
    BY NoPostIsNone DEF Refuse
  <1>2. PostInv(k) /\ p \in Posts
    BY <1>1, PostTypes DEF HeartInv
  <1>3. posts' = [posts EXCEPT ![k] = q] /\ UNCHANGED <<liked, heart, trusted>>
    BY DEF Refuse
  <1>4. q \in Posts /\ q.of = p.of
    BY <1>2 DEF Posts
  <1>5. posts'[k] = q
    BY <1>3 DEF HeartTypeOK
  <1>6. Single(k) => Single(k)'
    BY <1>3, <1>4, StaysSingle
  <1>7. PostInv(k)'
    BY <1>1, <1>2, <1>3, <1>5, <1>6 DEF PostInv, Posts
  <1>8. QED
    <2> HIDE DEF p, q
    <2>1. QED
      BY <1>1, <1>3, <1>4, <1>7, GoingOn DEF p, HeartTypeOK

\* A request ends: if the page was told the truth, the heart is right.
LEMMA SettleKeeps ==
    ASSUME HeartTypeOK, HeartInv, NEW k \in Slots, posts[k] # NoPost,
           NEW shows \in BOOLEAN, NEW told \in BOOLEAN, Settle(k, shows, told),
           told => shows = liked[posts[k].of]
    PROVE  HeartTypeOK' /\ HeartInv'
  <1> DEFINE w == posts[k].of
  <1>1. w \in Cards
    BY PostTypes
  <1>2. /\ heart' = [heart EXCEPT ![w] = shows]
        /\ trusted' = [trusted EXCEPT ![w] = told]
        /\ posts' = [posts EXCEPT ![k] = NoPost]
        /\ liked' = liked
    BY DEF Settle
  <1>3. HeartTypeOK'
    BY <1>2 DEF HeartTypeOK
  <1>4. HeartTrue'
    <2>1. ASSUME NEW v \in Cards, (trusted[v] /\ UnderWay(v) = {})' PROVE (heart[v] = liked[v])'
      <3>1. CASE v = w
        BY <1>1, <1>2, <2>1, <3>1 DEF HeartTypeOK
      <3>2. CASE v # w
        <4>1. UnderWay(v) = {}
          BY <1>2, <2>1, <3>2 DEF UnderWay, HeartTypeOK
        <4>2. QED
          BY <1>2, <2>1, <3>2, <4>1 DEF HeartTypeOK, HeartInv, HeartTrue
      <3>3. QED
        BY <3>1, <3>2
    <2>2. QED
      BY <2>1 DEF HeartTrue
  <1>5. ASSUME NEW j \in Slots, posts'[j] # NoPost PROVE PostInv(j)'
    <2>1. j # k /\ posts[j] # NoPost
      BY <1>2, <1>5 DEF HeartTypeOK
    <2>2. \A v \in Cards \ {w} : liked'[v] = liked[v] /\ heart'[v] = heart[v]
      BY <1>2 DEF HeartTypeOK
    <2>3. QED
      BY <1>2, <2>1, <2>2, OthersKeep
  <1>6. QED
    BY <1>3, <1>4, <1>5 DEF HeartInv

LEMMA AnsweredKeeps ==
    ASSUME HeartTypeOK, HeartInv, NEW k \in Slots, Answered(k)
    PROVE  HeartTypeOK' /\ HeartInv'
  <1> DEFINE p == posts[k]
  <1> DEFINE shows == IF p.by = "button" THEN p.liked ELSE heart[p.of] /\ p.liked
  <1>1. p # NoPost /\ p.step = "answered" /\ Settle(k, shows, p.alone)
    BY NoPostIsNone DEF Answered
  <1>2. PostInv(k) /\ p \in Posts /\ p.of \in Cards /\ p.liked \in BOOLEAN /\ p.alone \in BOOLEAN
        /\ heart[p.of] \in BOOLEAN /\ p.by \in {"button", "tap"}
    BY <1>1, PostTypes DEF HeartInv, HeartTypeOK
  <1>3. shows \in BOOLEAN
    BY <1>2
  <1>4. p.alone => p.liked = liked[p.of] /\ (p.by = "tap" => heart[p.of])
    BY <1>1, <1>2 DEF PostInv
  <1>5. p.alone => shows = liked[p.of]
    BY <1>2, <1>4
  <1>6. QED
    <2> HIDE DEF shows
    <2>1. QED
      BY <1>1, <1>2, <1>3, <1>5, SettleKeeps

LEMMA ErroredKeeps ==
    ASSUME HeartTypeOK, HeartInv, NEW k \in Slots, Errored(k)
    PROVE  HeartTypeOK' /\ HeartInv'
  <1> DEFINE p == posts[k]
  <1> DEFINE told == p.by = "tap" /\ p.sure /\ p.alone /\ ~p.took
  <1>1. p # NoPost /\ Settle(k, FALSE, told)
    BY NoPostIsNone DEF Errored
  <1>2. PostInv(k) /\ p.of \in Cards
    BY <1>1, PostTypes DEF HeartInv
  <1>3. told => liked[p.of] = FALSE
    BY <1>2 DEF PostInv, HeartTypeOK
  <1>4. told \in BOOLEAN
    OBVIOUS
  <1>5. QED
    <2> HIDE DEF told
    <2>1. QED
      BY <1>1, <1>2, <1>3, <1>4, SettleKeeps

LEMMA LostKeeps ==
    ASSUME HeartTypeOK, HeartInv, NEW k \in Slots, Lost(k)
    PROVE  HeartTypeOK' /\ HeartInv'
  <1> DEFINE p == posts[k]
  <1> DEFINE told == p.sure /\ p.alone /\ ~p.took
  <1> DEFINE shows == p.by = "button" /\ heart[p.of]
  <1>1. p # NoPost /\ Settle(k, shows, told)
    BY DEF Lost
  <1>2. PostInv(k) /\ p.of \in Cards
    BY <1>1, PostTypes DEF HeartInv
  <1>3. told => shows = liked[p.of]
    BY <1>2 DEF PostInv, HeartTypeOK
  <1>4. told \in BOOLEAN /\ shows \in BOOLEAN
    OBVIOUS
  <1>5. QED
    <2> HIDE DEF told, shows
    <2>1. QED
      BY <1>1, <1>3, <1>4, SettleKeeps

\* A request that is turned away has changed nothing.
LEMMA TurnedAwayKeeps ==
    ASSUME HeartTypeOK, HeartInv, NEW k \in Slots, TurnedAway(k)
    PROVE  HeartTypeOK' /\ HeartInv'
  <1> DEFINE p == posts[k]
  <1> DEFINE told == p.by = "button" /\ p.sure /\ p.alone
  <1>1. p # NoPost /\ p.step = "sent" /\ Settle(k, heart[p.of], told)
    BY NoPostIsNone DEF TurnedAway
  <1>2. PostInv(k) /\ p.of \in Cards
    BY <1>1, PostTypes DEF HeartInv
  <1>3. heart[p.of] \in BOOLEAN /\ liked[p.of] \in BOOLEAN
    BY <1>2 DEF HeartTypeOK
  <1>4. told => heart[p.of] = liked[p.of]
    BY <1>1, <1>2, <1>3 DEF PostInv
  <1>5. told \in BOOLEAN
    OBVIOUS
  <1>6. QED
    <2> HIDE DEF told
    <2>1. QED
      BY <1>1, <1>3, <1>4, <1>5, SettleKeeps

----------------------------------------------------------------------------

LEMMA HeartStart == ASSUME HeartInit PROVE HeartTypeOK /\ HeartInv
  BY DEF HeartInit, HeartTypeOK, HeartInv, HeartTrue

\* Every step on hearts keeps the invariant.
LEMMA HeartKeeps ==
    ASSUME HeartTypeOK, HeartInv, HeartMove \/ HeartStep \/ UNCHANGED heartVars
    PROVE  HeartTypeOK' /\ HeartInv'
  <1>1. ASSUME NEW v \in Cards, LikeButton(v) PROVE HeartTypeOK' /\ HeartInv'
    BY <1>1, PostKeeps DEF LikeButton
  <1>2. ASSUME NEW v \in Cards, DoubleTap(v) PROVE HeartTypeOK' /\ HeartInv'
    BY <1>2, PostKeeps DEF DoubleTap
  <1>3. CASE UNCHANGED heartVars
    BY <1>3 DEF heartVars, HeartTypeOK, HeartInv, HeartTrue, UnderWay, PostInv, Single
  <1>4. QED
    BY <1>1, <1>2, <1>3, OtherTabKeeps, InsertKeeps, DeleteKeeps, RefuseKeeps, AnsweredKeeps,
       ErroredKeeps, LostKeeps, TurnedAwayKeeps DEF HeartMove, HeartStep

\* A double tap on a heart that was right, and alone, has found no like.
LEMMA TapIsNoDelete ==
    ASSUME HeartTypeOK, HeartInv, NEW k \in Slots, posts[k] # NoPost, Delete(k)
    PROVE  ~(posts[k].by = "tap" /\ posts[k].sure /\ posts[k].alone)
  BY DEF HeartInv, PostInv, Delete

----------------------------------------------------------------------------
(* The comment sheet.                                                      *)

\* The sheet is open, and was opened with nothing under way.
Plain == sheet # None /\ ~crossed

\* The rows of pages end at the cursor, and a page on its way begins below.
PagesInv ==
    /\ load # NoLoad => ~done
    /\ ~load.append => load.before = 0
    /\ load.step = "answered" => load.rows \subseteq At(load.of) /\ \A n \in load.rows : Older(n)
    /\ \A n \in Ids : /\ paged[n] <= 1
                      /\ paged[n] # 0 => cursor # 0 /\ cursor <= n
                      /\ paged[n] # 0 /\ load.append => load.before # 0 /\ load.before <= n

\* A comment is posted once, and shown once it is there.
PostsInv ==
    /\ \A n \in Own : stage[n] = "answered" => n \in comments
    /\ posting # 0 => stage[posting] \in {"sent", "answered"}
    /\ \A n \in Ids : posted[n] # 0 => n \in Own /\ posted[n] = 1 /\ stage[n] = "done"

\* Nothing under way is for another video.
OwnInv ==
    Plain => /\ \A n \in Shown : Of[n] = sheet
             /\ load # NoLoad => load.of = sheet
             /\ posting # 0 => Of[posting] = sheet
             /\ owed \subseteq At(sheet)

\* What a page that was read leaves out of the rows that are owed.
LeftOut(n) ==
    /\ load.rows # {}
    /\ \A m \in load.rows : n < m
    /\ ~(Cardinality(load.rows) < Limit)

\* What is owed is shown, on its way or older than all that is.
OwedInv ==
    Plain => /\ load.append => load.before = cursor
             /\ ~FirstLoading => \A n \in owed : n \in Shown \/ (n < cursor /\ ~done)
             /\ FirstLoading /\ load.step = "sent" => owed \subseteq Shown
             /\ load.step = "answered" =>
                   \A n \in owed : (load.append /\ n \in Shown) \/ n \in load.rows \/ LeftOut(n)

\* The inductive invariant behind OwnSheet, SheetComplete and TwiceOnlyOwn.
SheetInv == PagesInv /\ PostsInv /\ OwnInv /\ OwedInv

LEMMA ShownIs ==
    ASSUME SheetTypeOK
    PROVE  \A n \in Ids : n \in Shown <=> paged[n] # 0 \/ posted[n] # 0
  <1>1. \A n \in Ids : paged[n] \in Nat /\ posted[n] \in Nat
    BY DEF SheetTypeOK
  <1>2. \A a, b \in Nat : a + b > 0 <=> a # 0 \/ b # 0
    OBVIOUS
  <1>3. QED
    BY <1>1, <1>2 DEF Shown

LEMMA LoadTypes ==
    ASSUME SheetTypeOK
    PROVE  /\ load = NoLoad <=> load.step = "none"
           /\ load.step \in {"none", "sent", "answered", "error"}
           /\ load # NoLoad => load \in Loads /\ load.of \in Videos
           /\ load.append \in BOOLEAN /\ load.before \in Ids \cup {0} /\ load.rows \in SUBSET Ids
           /\ load.append => load # NoLoad
  <1>1. CASE load = NoLoad
    BY <1>1, Zenon DEF NoLoad
  <1>2. CASE load \in Loads
    BY <1>2 DEF Loads, NoLoad
  <1>3. QED
    BY <1>1, <1>2 DEF SheetTypeOK

LEMMA NumbersAreIds == Ids \in SUBSET Nat /\ 0 \in Nat /\ 0 \notin Ids
  BY MaxIdAssumption DEF Ids

LEMMA SheetStart == ASSUME SheetInit PROVE SheetTypeOK /\ SheetInv
  <1> USE DEF SheetInit, NoLoad, Empty, Ids
  <1>1. SheetTypeOK
    BY MaxIdAssumption DEF SheetTypeOK
  <1>2. PagesInv /\ PostsInv
    BY DEF PagesInv, PostsInv
  <1>3. OwnInv /\ OwedInv
    BY DEF OwnInv, OwedInv, Plain
  <1>4. QED
    BY <1>1, <1>2, <1>3 DEF SheetInv

\* A sheet that is opened is empty, and plain if nothing is under way.
LEMMA OpenKeeps ==
    ASSUME SheetTypeOK, SheetInv, NEW v \in Videos, OpenComments(v)
    PROVE  SheetTypeOK' /\ SheetInv'
  <1> USE DEF OpenComments, postVars
  <1>1. load' \in Loads
    BY LoadTypes, NumbersAreIds DEF Loads, Sent
  <1>2. \A n \in Ids : paged'[n] = 0 /\ posted'[n] = 0
    BY DEF Empty
  <1>3. SheetTypeOK'
    BY <1>1, NumbersAreIds DEF SheetTypeOK, Empty
  <1>4. load'.step = "answered" => load' = load
    BY LoadTypes DEF Sent
  <1>5. PagesInv'
    <2>1. load'.step = "answered" =>
             load'.rows \subseteq At(load.of)' /\ \A n \in load'.rows : Older(n)'
      BY <1>4 DEF SheetInv, PagesInv, Older, At
    <2>2. done' = FALSE
      OBVIOUS
    <2>3. ~load'.append => load'.before = 0
      BY DEF SheetInv, PagesInv, Sent
    <2>4. QED
      <3> HIDE DEF OpenComments
      <3>1. QED
        BY <1>2, <2>1, <2>2, <2>3 DEF PagesInv
  <1>6. PostsInv'
    BY <1>2 DEF SheetInv, PostsInv
  <1>7. Plain' => load' = Sent(v, FALSE, 0) /\ posting' = 0 /\ sheet' = v /\ owed' = {}
    BY DEF Plain
  <1>8. Shown' = {}
    BY <1>2, <1>3 DEF Shown
  <1>9. OwnInv'
    BY <1>7, <1>8 DEF OwnInv, Sent
  <1>10. OwedInv'
    BY <1>7 DEF OwedInv, Sent
  <1>11. QED
    BY <1>3, <1>5, <1>6, <1>9, <1>10 DEF SheetInv

LEMMA CloseKeeps ==
    ASSUME SheetTypeOK, SheetInv, CloseComments
    PROVE  SheetTypeOK' /\ SheetInv'
  <1> USE DEF CloseComments, listVars, postVars
  <1>1. SheetTypeOK'
    BY DEF SheetTypeOK
  <1>2. PagesInv' /\ PostsInv'
    BY DEF SheetInv, PagesInv, PostsInv, Older, At
  <1>3. ~Plain'
    BY DEF Plain
  <1>4. QED
    BY <1>1, <1>2, <1>3 DEF SheetInv, OwnInv, OwedInv

\* Another page is asked for below the cursor.
LEMMA ScrollKeeps ==
    ASSUME SheetTypeOK, SheetInv, Scroll
    PROVE  SheetTypeOK' /\ SheetInv'
  <1> USE DEF Scroll, listVars, postVars
  <1>1. load' = Sent(sheet, TRUE, cursor) /\ sheet \in Videos /\ cursor \in Ids \cup {0}
    BY DEF SheetTypeOK
  <1>2. load' \in Loads
    BY <1>1 DEF Sent, Loads
  <1>3. SheetTypeOK'
    BY <1>2 DEF SheetTypeOK
  <1>4. PagesInv'
    BY <1>1 DEF SheetInv, PagesInv, Sent
  <1>5. PostsInv'
    BY DEF SheetInv, PostsInv
  <1>6. Plain' => Plain /\ ~FirstLoading
    BY DEF Plain, FirstLoading
  <1>7. UNCHANGED <<Shown, sheet, owed, comments, posting>>
    BY DEF Shown
  <1>8. OwnInv'
    BY <1>1, <1>6, <1>7 DEF SheetInv, OwnInv, Sent, At
  <1>9. ASSUME Plain, cursor = 0, NEW n \in owed PROVE n \in Shown
    <2>1. n \in Nat /\ ~(n < 0)
      BY NumbersAreIds DEF SheetTypeOK
    <2>2. ~FirstLoading
      BY DEF FirstLoading
    <2>3. QED
      BY <1>9, <2>1, <2>2 DEF SheetInv, OwedInv
  <1>10. OwedInv'
    BY <1>1, <1>6, <1>7, <1>9 DEF SheetInv, OwedInv, FirstLoading, Sent
  <1>11. QED
    BY <1>3, <1>4, <1>5, <1>8, <1>10 DEF SheetInv

\* The answer has rows of the video that was asked for, below the cursor it was
\* asked with, and leaves out only older ones, if it is full.
LEMMA PageIs ==
    ASSUME SheetTypeOK
    PROVE  /\ Page \subseteq At(load.of)
           /\ \A n \in Page : Older(n)
           /\ \A n \in At(load.of) : Older(n) =>
                 \/ n \in Page
                 \/ /\ Page # {}
                    /\ \A m \in Page : n < m
                    /\ ~(Cardinality(Page) < Limit)
  <1> DEFINE S == {n \in At(load.of) : Older(n)}
  <1>1. S \in SUBSET (1 .. MaxId) /\ MaxId \in Nat /\ Limit \in Nat /\ Limit \in Nat \ {0}
    BY MaxIdAssumption, LimitAssumption DEF At, SheetTypeOK, Ids
  <1>2. Page = FirstOf(S, Limit)
    BY DEF Page
  <1>3. Page \subseteq S
    BY <1>2 DEF FirstOf
  <1>4. ASSUME NEW n \in S \ Page
        PROVE  Page # {} /\ (\A m \in Page : n < m) /\ ~(Cardinality(Page) < Limit)
    <2> HIDE DEF S
    <2>1. \A m \in Page : n < m
      BY <1>1, <1>2, <1>4, LeftOutIsOlder
    <2>2. ~(Cardinality(Page) < Limit)
      BY <1>1, <1>2, <1>4, ShortPageHasAll
    <2>3. Page # {}
      BY <1>1, <2>2, EmptyIsShort
    <2>4. QED
      BY <2>1, <2>2, <2>3
  <1>5. QED
    BY <1>3, <1>4

LEMMA ServeKeeps ==
    ASSUME SheetTypeOK, SheetInv, ServeComments
    PROVE  SheetTypeOK' /\ SheetInv'
  <1>1. /\ load.step = "sent"
        /\ load' = [load EXCEPT !.step = "answered", !.rows = Page]
        /\ owed' = IF load.before = 0 /\ sheet = load.of THEN owed \cup At(load.of) ELSE owed
        /\ UNCHANGED <<comments, sheet, cursor, done, paged, posted, stage, posting, crossed>>
    BY DEF ServeComments, listVars, postVars
  <1>2. load # NoLoad /\ load \in Loads
    BY <1>1, LoadTypes
  <1>3. Page \in SUBSET Ids
    BY PageIs DEF At, SheetTypeOK
  <1>4. /\ load' \in Loads
        /\ load'.of = load.of /\ load'.append = load.append /\ load'.before = load.before
        /\ load'.step = "answered" /\ load'.rows = Page
    BY <1>1, <1>2, <1>3 DEF Loads
  <1>5. load' # NoLoad
    BY <1>4 DEF NoLoad
  <1>6. SheetTypeOK'
    BY <1>1, <1>4 DEF SheetTypeOK, At
  <1>7. PagesInv'
    <2>1. load'.rows \subseteq At(load.of)' /\ \A n \in load'.rows : Older(n)'
      BY <1>1, <1>4, PageIs DEF At, Older
    <2>2. ~done
      BY <1>2 DEF SheetInv, PagesInv
    <2>3. QED
      BY <1>1, <1>4, <2>1, <2>2 DEF SheetInv, PagesInv
  <1>8. PostsInv'
    BY <1>1 DEF SheetInv, PostsInv
  <1>9. Plain' = Plain /\ Shown' = Shown /\ At(sheet)' = At(sheet) /\ (FirstLoading' = FirstLoading)
    BY <1>1, <1>2, <1>4, <1>5 DEF Plain, Shown, At, FirstLoading
  <1>10. Plain => load.of = sheet /\ owed \subseteq At(sheet)
    BY <1>2 DEF SheetInv, OwnInv
  <1>11. OwnInv'
    BY <1>1, <1>4, <1>9, <1>10 DEF SheetInv, OwnInv
  <1>12. ASSUME Plain, NEW n \in owed'
         PROVE  (load.append /\ n \in Shown) \/ n \in Page \/ LeftOut(n)'
    <2>1. n \in At(load.of)
      BY <1>1, <1>10, <1>12
    <2>2. n \in Ids
      BY <2>1 DEF At, SheetTypeOK
    <2>3. Older(n) => n \in Page \/ LeftOut(n)'
      BY <1>4, <2>1, PageIs DEF LeftOut
    <2>4. CASE load.before = 0
      BY <2>3, <2>4 DEF Older
    <2>5. CASE load.before # 0
      <3>1. n \in owed /\ ~FirstLoading
        BY <1>1, <1>12, <2>5 DEF FirstLoading
      <3>2. n \in Shown \/ n < cursor
        BY <1>12, <3>1 DEF SheetInv, OwedInv
      <3>3. load.append /\ load.before = cursor
        <4>1. load.append
          BY <2>5, LoadTypes DEF SheetInv, PagesInv
        <4>2. QED
          BY <1>12, <4>1 DEF SheetInv, OwedInv
      <3>4. QED
        BY <2>3, <3>2, <3>3 DEF Older
    <2>6. QED
      BY <2>4, <2>5
  <1>13. OwedInv'
    <2>1. ASSUME Plain, ~FirstLoading PROVE owed' = owed
      BY <1>1, <1>2, <2>1 DEF FirstLoading
    <2>2. QED
      BY <1>1, <1>4, <1>9, <1>12, <2>1 DEF SheetInv, OwedInv
  <1>14. QED
    BY <1>6, <1>7, <1>8, <1>11, <1>13 DEF SheetInv

LEMMA RefuseLoadKeeps ==
    ASSUME SheetTypeOK, SheetInv, RefuseComments
    PROVE  SheetTypeOK' /\ SheetInv'
  <1>1. /\ load.step = "sent"
        /\ load' = [load EXCEPT !.step = "error"]
        /\ UNCHANGED <<comments, sheet, cursor, done, paged, posted, stage, posting, crossed, owed>>
    BY DEF RefuseComments, listVars, postVars
  <1>2. load # NoLoad /\ load \in Loads
    BY <1>1, LoadTypes
  <1>3. /\ load' \in Loads
        /\ load'.of = load.of /\ load'.append = load.append /\ load'.before = load.before
        /\ load'.step = "error"
    BY <1>1, <1>2 DEF Loads
  <1>4. load' # NoLoad
    BY <1>3 DEF NoLoad
  <1>5. SheetTypeOK'
    BY <1>1, <1>3 DEF SheetTypeOK
  <1>6. PagesInv'
    BY <1>1, <1>2, <1>3, <1>4 DEF SheetInv, PagesInv
  <1>7. PostsInv'
    BY <1>1 DEF SheetInv, PostsInv
  <1>8. Plain' = Plain /\ Shown' = Shown /\ At(sheet)' = At(sheet) /\ (FirstLoading' = FirstLoading)
    BY <1>1, <1>2, <1>3, <1>4 DEF Plain, Shown, At, FirstLoading
  <1>9. OwnInv'
    BY <1>1, <1>2, <1>3, <1>8 DEF SheetInv, OwnInv
  <1>10. OwedInv'
    BY <1>1, <1>2, <1>3, <1>8 DEF SheetInv, OwedInv
  <1>11. QED
    BY <1>5, <1>6, <1>7, <1>9, <1>10 DEF SheetInv

\* A load that is lost gives up what only it would have shown.
LEMMA LoseKeeps ==
    ASSUME SheetTypeOK, SheetInv, LoseComments
    PROVE  SheetTypeOK' /\ SheetInv'
  <1>1. /\ load # NoLoad
        /\ load' = NoLoad
        /\ owed' = IF load.before = 0 THEN owed \cap Shown ELSE owed
        /\ UNCHANGED <<comments, sheet, cursor, done, paged, posted, stage, posting, crossed>>
    BY DEF LoseComments, listVars, postVars
  <1>2. load'.step = "none" /\ load'.append = FALSE /\ load'.before = 0
    BY <1>1 DEF NoLoad
  <1>3. SheetTypeOK'
    BY <1>1 DEF SheetTypeOK
  <1>4. PagesInv'
    BY <1>1, <1>2 DEF SheetInv, PagesInv
  <1>5. PostsInv'
    BY <1>1 DEF SheetInv, PostsInv
  <1>6. Plain' = Plain /\ Shown' = Shown /\ At(sheet)' = At(sheet) /\ ~FirstLoading'
    BY <1>1 DEF Plain, Shown, At, FirstLoading
  <1>7. OwnInv'
    BY <1>1, <1>6 DEF SheetInv, OwnInv
  <1>8. ASSUME Plain, NEW n \in owed' PROVE n \in Shown \/ (n < cursor /\ ~done)
    <2>1. CASE load.before = 0
      BY <1>1, <1>8, <2>1
    <2>2. CASE load.before # 0
      <3>1. n \in owed /\ ~FirstLoading
        BY <1>1, <1>8, <2>2 DEF FirstLoading
      <3>2. QED
        BY <1>8, <3>1 DEF SheetInv, OwedInv
    <2>3. QED
      BY <2>1, <2>2
  <1>9. OwedInv'
    BY <1>1, <1>2, <1>6, <1>8 DEF OwedInv
  <1>10. QED
    BY <1>3, <1>4, <1>5, <1>7, <1>9 DEF SheetInv

\* What the list shows when rows have been put into it.
LEMMA ListShows ==
    ASSUME SheetTypeOK, NEW rows \in SUBSET Ids, List(rows)
    PROVE  /\ paged' \in [Ids -> Nat] /\ posted' \in [Ids -> Nat]
           /\ \A n \in Ids : paged'[n] = (IF load.append THEN paged[n] ELSE 0)
                                          + (IF n \in rows THEN 1 ELSE 0)
           /\ \A n \in Ids : posted'[n] = IF load.append THEN posted[n] ELSE 0
           /\ \A n \in Ids : n \in Shown' <=> n \in rows \/ (load.append /\ n \in Shown)
  <1>1. \A n \in Ids : paged[n] \in Nat /\ posted[n] \in Nat
    BY DEF SheetTypeOK
  <1>2. CASE load.append
    <2>1. /\ paged' = [n \in Ids |-> paged[n] + (IF n \in rows THEN 1 ELSE 0)]
          /\ posted' = posted
      BY <1>2 DEF List
    <2>2. \A n \in Ids : paged'[n] = paged[n] + (IF n \in rows THEN 1 ELSE 0) /\ posted'[n] = posted[n]
      BY <2>1
    <2>3. paged' \in [Ids -> Nat] /\ posted' \in [Ids -> Nat]
      BY <1>1, <2>1 DEF SheetTypeOK
    <2>4. ASSUME NEW n \in Ids PROVE n \in Shown' <=> n \in rows \/ n \in Shown
      BY <1>1, <2>2 DEF Shown
    <2>5. QED
      BY <1>2, <2>2, <2>3, <2>4
  <1>3. CASE ~load.append
    <2>1. /\ paged' = [n \in Ids |-> IF n \in rows THEN 1 ELSE 0]
          /\ posted' = Empty
      BY <1>3 DEF List
    <2>2. \A n \in Ids : paged'[n] = (IF n \in rows THEN 1 ELSE 0) /\ posted'[n] = 0
      BY <2>1 DEF Empty
    <2>3. paged' \in [Ids -> Nat] /\ posted' \in [Ids -> Nat]
      BY <2>1 DEF Empty
    <2>4. ASSUME NEW n \in Ids PROVE n \in Shown' <=> n \in rows
      BY <2>2 DEF Shown
    <2>5. QED
      BY <1>3, <2>2, <2>3, <2>4
  <1>4. QED
    BY <1>2, <1>3

\* The answer goes into the list, and the cursor to its oldest row.
LEMMA RenderKeeps ==
    ASSUME SheetTypeOK, SheetInv, Render
    PROVE  SheetTypeOK' /\ SheetInv'
  <1> DEFINE rows == load.rows
  <1>1. /\ load.step = "answered"
        /\ List(rows)
        /\ cursor' = IF rows = {} THEN cursor ELSE OldestOf(rows)
        /\ done' = (done \/ Cardinality(rows) < Limit)
        /\ load' = NoLoad
        /\ UNCHANGED <<comments, sheet, stage, posting, crossed, owed>>
    BY DEF Render, postVars
  <1>2. load # NoLoad /\ ~done
    BY <1>1, LoadTypes DEF SheetInv, PagesInv
  <1>3. rows \in SUBSET Ids /\ rows \subseteq At(load.of) /\ \A n \in rows : Older(n)
    BY <1>1, LoadTypes DEF SheetInv, PagesInv
  <1>4. load'.step = "none" /\ load'.append = FALSE /\ load'.before = 0
    BY <1>1 DEF NoLoad
  <1>5. rows # {} => cursor' \in rows /\ \A n \in rows : cursor' <= n
    BY <1>1, <1>3, NumbersAreIds, OldestIsOldest
  <1>6. rows = {} => cursor' = cursor /\ done'
    BY <1>1, LimitAssumption, EmptyIsShort
  <1>7. /\ paged' \in [Ids -> Nat] /\ posted' \in [Ids -> Nat]
        /\ \A n \in Ids : paged'[n] = (IF load.append THEN paged[n] ELSE 0)
                                       + (IF n \in rows THEN 1 ELSE 0)
        /\ \A n \in Ids : posted'[n] = IF load.append THEN posted[n] ELSE 0
        /\ \A n \in Ids : n \in Shown' <=> n \in rows \/ (load.append /\ n \in Shown)
    BY <1>1, <1>3, ListShows
  <1>8. SheetTypeOK'
    <2>1. cursor' \in Ids \cup {0}
      BY <1>3, <1>5, <1>6 DEF SheetTypeOK
    <2>2. done' \in BOOLEAN
      BY <1>1
    <2>3. QED
      BY <1>1, <1>7, <2>1, <2>2 DEF SheetTypeOK
  <1>9. PagesInv'
    <2>1. ASSUME NEW n \in Ids
          PROVE  paged'[n] <= 1 /\ (paged'[n] # 0 => cursor' # 0 /\ cursor' <= n)
      <3>1. /\ paged[n] \in Nat /\ paged[n] <= 1
            /\ paged[n] # 0 => cursor # 0 /\ cursor <= n
            /\ paged[n] # 0 /\ load.append => load.before # 0 /\ load.before <= n
        BY DEF SheetTypeOK, SheetInv, PagesInv
      <3>2. n \in Nat /\ n # 0 /\ cursor \in Nat /\ cursor' \in Nat /\ load.before \in Nat
        BY <1>8, NumbersAreIds, LoadTypes DEF SheetTypeOK
      <3>3. CASE n \in rows
        <4>1. load.before = 0 \/ n < load.before
          BY <1>3, <3>3 DEF Older
        <4>2. ~(paged[n] # 0 /\ load.append)
          BY <3>1, <3>2, <4>1
        <4>3. paged'[n] = 1
          BY <1>7, <3>1, <3>3, <4>2
        <4>4. cursor' \in Ids /\ cursor' <= n
          BY <1>3, <1>5, <3>3
        <4>5. QED
          BY <4>3, <4>4, NumbersAreIds
      <3>4. CASE n \notin rows
        <4>1. paged'[n] = (IF load.append THEN paged[n] ELSE 0)
          BY <1>7, <3>1, <3>4
        <4>2. ASSUME paged'[n] # 0 PROVE cursor' # 0 /\ cursor' <= n
          <5>1. load.append /\ paged[n] # 0
            BY <4>1, <4>2
          <5>2. load.before # 0 /\ load.before <= n
            BY <3>1, <5>1
          <5>3. CASE rows = {}
            BY <1>6, <3>1, <5>1, <5>3
          <5>4. CASE rows # {}
            <6>1. cursor' \in rows
              BY <1>5, <5>4
            <6>2. cursor' < load.before /\ cursor' \in Ids
              BY <1>3, <5>2, <6>1 DEF Older
            <6>3. QED
              BY <3>2, <5>2, <6>2, NumbersAreIds
          <5>5. QED
            BY <5>3, <5>4
        <4>3. QED
          BY <3>1, <4>1, <4>2
      <3>5. QED
        BY <3>3, <3>4
    <2>2. QED
      BY <1>1, <1>4, <2>1 DEF PagesInv
  <1>10. PostsInv'
    BY <1>1, <1>7 DEF SheetInv, PostsInv
  <1>11. Plain' = Plain /\ At(sheet)' = At(sheet) /\ ~FirstLoading'
    BY <1>1 DEF Plain, At, FirstLoading
  <1>12. OwnInv'
    <2>1. ASSUME Plain, NEW n \in Shown' PROVE Of[n] = sheet
      <3>1. n \in Ids
        BY DEF Shown
      <3>2. n \in rows \/ n \in Shown
        BY <1>7, <3>1
      <3>3. load.of = sheet
        BY <1>2, <2>1 DEF SheetInv, OwnInv
      <3>4. QED
        BY <1>3, <2>1, <3>2, <3>3 DEF SheetInv, OwnInv, At
    <2>2. QED
      BY <1>1, <1>11, <2>1 DEF SheetInv, OwnInv
  <1>13. ASSUME Plain, NEW n \in owed PROVE n \in Shown' \/ (n < cursor' /\ ~done')
    <2>1. n \in Ids
      BY DEF SheetTypeOK
    <2>2. (load.append /\ n \in Shown) \/ n \in rows \/ LeftOut(n)
      BY <1>1, <1>13 DEF SheetInv, OwedInv
    <2>3. CASE LeftOut(n)
      <3>1. rows # {} /\ (\A m \in rows : n < m) /\ ~(Cardinality(rows) < Limit)
        BY <2>3 DEF LeftOut
      <3>2. n < cursor'
        BY <1>5, <3>1
      <3>3. ~done'
        BY <1>1, <1>2, <3>1
      <3>4. QED
        BY <3>2, <3>3
    <2>4. QED
      BY <1>7, <2>1, <2>2, <2>3
  <1>14. OwedInv'
    BY <1>1, <1>4, <1>11, <1>13 DEF OwedInv
  <1>15. QED
    BY <1>8, <1>9, <1>10, <1>12, <1>14 DEF SheetInv

\* An error answer ends the list with what it shows.
LEMMA RenderErrorKeeps ==
    ASSUME SheetTypeOK, SheetInv, RenderError
    PROVE  SheetTypeOK' /\ SheetInv'
  <1>1. /\ load.step = "error"
        /\ List({})
        /\ done' = TRUE
        /\ load' = NoLoad
        /\ owed' = IF load.append THEN owed \cap Shown ELSE {}
        /\ UNCHANGED <<comments, sheet, cursor, stage, posting, crossed>>
    BY DEF RenderError, postVars
  <1>2. load'.step = "none" /\ load'.append = FALSE /\ load'.before = 0
    BY <1>1 DEF NoLoad
  <1>3. {} \in SUBSET Ids
    OBVIOUS
  <1>4. /\ paged' \in [Ids -> Nat] /\ posted' \in [Ids -> Nat]
        /\ \A n \in Ids : paged'[n] = (IF load.append THEN paged[n] ELSE 0)
                                       + (IF n \in {} THEN 1 ELSE 0)
        /\ \A n \in Ids : posted'[n] = IF load.append THEN posted[n] ELSE 0
        /\ \A n \in Ids : n \in Shown' <=> n \in {} \/ (load.append /\ n \in Shown)
    BY <1>1, <1>3, ListShows
  <1>5. \A n \in Ids : paged'[n] = 0 \/ paged'[n] = paged[n]
    BY <1>4 DEF SheetTypeOK
  <1>6. SheetTypeOK'
    BY <1>1, <1>4 DEF SheetTypeOK
  <1>7. PagesInv'
    BY <1>1, <1>2, <1>5 DEF SheetInv, PagesInv
  <1>8. PostsInv'
    BY <1>1, <1>4 DEF SheetInv, PostsInv
  <1>9. Plain' = Plain /\ At(sheet)' = At(sheet) /\ ~FirstLoading' /\ Shown' \subseteq Shown
    BY <1>1, <1>4 DEF Plain, At, FirstLoading, Shown
  <1>10. OwnInv'
    BY <1>1, <1>9 DEF SheetInv, OwnInv
  <1>11. \A n \in owed' : n \in Shown'
    BY <1>1, <1>4 DEF SheetTypeOK
  <1>12. OwedInv'
    BY <1>1, <1>2, <1>9, <1>11 DEF OwedInv
  <1>13. QED
    BY <1>6, <1>7, <1>8, <1>10, <1>12 DEF SheetInv

----------------------------------------------------------------------------
(* Posting.                                                                *)

LEMMA SubmitKeeps ==
    ASSUME SheetTypeOK, SheetInv, NEW n \in Own, SubmitComment(n)
    PROVE  SheetTypeOK' /\ SheetInv'
  <1>1. /\ sheet = Of[n] /\ stage[n] = "none"
        /\ stage' = [stage EXCEPT ![n] = "sent"] /\ posting' = n
        /\ UNCHANGED <<comments, sheet, load, cursor, done, paged, posted, crossed, owed>>
    BY DEF SubmitComment, listVars
  <1>2. SheetTypeOK'
    BY <1>1 DEF SheetTypeOK
  <1>3. PagesInv'
    BY <1>1 DEF SheetInv, PagesInv, At, Older
  <1>4. PostsInv'
    BY <1>1 DEF SheetInv, PostsInv, SheetTypeOK
  <1>5. OwnInv' /\ OwedInv'
    BY <1>1 DEF SheetInv, OwnInv, OwedInv, Plain, Shown, At, FirstLoading, LeftOut
  <1>6. QED
    BY <1>2, <1>3, <1>4, <1>5 DEF SheetInv

\* A comment commits: nobody has to know.
LEMMA StoreKeeps ==
    ASSUME SheetTypeOK, SheetInv, NEW n \in Ids, comments' = comments \cup {n},
           \/ UNCHANGED stage
           \/ n \in Own /\ stage[n] = "sent" /\ stage' = [stage EXCEPT ![n] = "answered"],
           UNCHANGED <<sheet, load, cursor, done, paged, posted, posting, crossed, owed>>
    PROVE  SheetTypeOK' /\ SheetInv'
  <1>1. SheetTypeOK'
    BY DEF SheetTypeOK
  <1>2. PagesInv'
    BY DEF SheetInv, PagesInv, At, Older
  <1>3. PostsInv'
    BY DEF SheetInv, PostsInv, SheetTypeOK
  <1>4. OwnInv' /\ OwedInv'
    BY DEF SheetInv, OwnInv, OwedInv, Plain, Shown, At, FirstLoading, LeftOut
  <1>5. QED
    BY <1>1, <1>2, <1>3, <1>4 DEF SheetInv

LEMMA StoreOwnKeeps ==
    ASSUME SheetTypeOK, SheetInv, NEW n \in Own, StoreOwn(n)
    PROVE  SheetTypeOK' /\ SheetInv'
  <1>1. /\ n \in Ids /\ comments' = comments \cup {n}
        /\ UNCHANGED <<sheet, load, cursor, done, paged, posted, posting, crossed, owed>>
    BY OwnAssumption DEF StoreOwn, listVars
  <1>2. CASE stage[n] = "sent"
    BY <1>1, <1>2, StoreKeeps DEF StoreOwn
  <1>3. CASE stage[n] # "sent"
    <2>1. stage' = stage
      BY <1>3 DEF StoreOwn, SheetTypeOK
    <2>2. QED
      BY <1>1, <2>1, StoreKeeps
  <1>4. QED
    BY <1>2, <1>3

\* The comment of an answer is shown, and owed unless a first page replaces it.
LEMMA CommentAnsweredKeeps ==
    ASSUME SheetTypeOK, SheetInv, NEW n \in Own, CommentAnswered(n)
    PROVE  SheetTypeOK' /\ SheetInv'
  <1>1. /\ posting = n /\ stage[n] = "answered" /\ posting' = 0
        /\ stage' = [stage EXCEPT ![n] = "done"]
        /\ posted' = [posted EXCEPT ![n] = @ + 1]
        /\ owed' = IF Replacing THEN owed ELSE owed \cup {n}
        /\ UNCHANGED <<comments, sheet, load, cursor, done, paged, crossed>>
    BY DEF CommentAnswered, IsAnswered
  <1>2. n \in Ids /\ n \in comments /\ n # 0 /\ posted[n] = 0
    BY <1>1, OwnAssumption, NumbersAreIds DEF SheetInv, PostsInv
  <1>3. posted'[n] = 1 /\ posted' \in [Ids -> Nat] /\ \A m \in Ids \ {n} : posted'[m] = posted[m]
    BY <1>1, <1>2 DEF SheetTypeOK
  <1>4. SheetTypeOK'
    BY <1>1, <1>2, <1>3 DEF SheetTypeOK
  <1>5. PagesInv'
    BY <1>1 DEF SheetInv, PagesInv, At, Older
  <1>6. PostsInv'
    BY <1>1, <1>2, <1>3 DEF SheetInv, PostsInv, SheetTypeOK
  <1>7. Shown' = Shown \cup {n}
    <2>1. \A m \in Ids : m \in Shown' <=> paged'[m] # 0 \/ posted'[m] # 0
      <3>1. \A m \in Ids : paged'[m] \in Nat /\ posted'[m] \in Nat
        BY <1>4 DEF SheetTypeOK
      <3>2. \A a, b \in Nat : a + b > 0 <=> a # 0 \/ b # 0
        OBVIOUS
      <3>3. QED
        BY <3>1, <3>2 DEF Shown
    <2>2. \A m \in Ids : m \in Shown <=> paged[m] # 0 \/ posted[m] # 0
      BY ShownIs
    <2>3. Shown \subseteq Ids /\ Shown' \subseteq Ids
      BY DEF Shown
    <2>4. \A m \in Ids : m \in Shown' <=> m \in Shown \/ m = n
      BY <1>1, <1>3, <2>1, <2>2
    <2>5. QED
      BY <1>2, <2>3, <2>4
  <1>8. Plain' = Plain /\ At(sheet)' = At(sheet) /\ (FirstLoading' = FirstLoading)
    BY <1>1 DEF Plain, At, FirstLoading
  <1>9. Plain => Of[n] = sheet
    BY <1>1, <1>2 DEF SheetInv, OwnInv
  <1>10. OwnInv'
    BY <1>1, <1>2, <1>7, <1>8, <1>9 DEF SheetInv, OwnInv, At
  <1>11. OwedInv'
    <2>1. load.step = "answered" /\ ~load.append => owed' = owed
      BY <1>1 DEF Replacing
    <2>2. \A m \in owed' : m \in owed \/ m = n
      BY <1>1
    <2>3. ASSUME Plain, ~FirstLoading, NEW m \in owed' PROVE m \in Shown' \/ (m < cursor /\ ~done)
      BY <1>7, <2>2, <2>3 DEF SheetInv, OwedInv
    <2>4. ASSUME Plain, FirstLoading, load.step = "sent"
          PROVE  owed' \subseteq Shown'
      BY <1>7, <2>2, <2>4 DEF SheetInv, OwedInv, FirstLoading
    <2>5. ASSUME Plain, load.step = "answered", NEW m \in owed'
          PROVE  (load.append /\ m \in Shown') \/ m \in load.rows \/ LeftOut(m)
      <3>1. CASE load.append
        BY <1>7, <2>2, <2>5, <3>1 DEF SheetInv, OwedInv
      <3>2. CASE ~load.append
        BY <2>1, <2>5, <3>2, LoadTypes DEF SheetInv, OwedInv
      <3>3. QED
        BY <3>1, <3>2
    <2>6. \A m : LeftOut(m)' <=> LeftOut(m)
      BY <1>1 DEF LeftOut
    <2>7. Plain => (load.append => load.before = cursor)
      BY DEF SheetInv, OwedInv
    <2>8. QED
      BY <1>1, <1>8, <2>3, <2>4, <2>5, <2>6, <2>7 DEF OwedInv
  <1>12. QED
    BY <1>4, <1>5, <1>6, <1>10, <1>11 DEF SheetInv

LEMMA CommentFailsKeeps ==
    ASSUME SheetTypeOK, SheetInv, NEW n \in Own, CommentFails(n)
    PROVE  SheetTypeOK' /\ SheetInv'
  <1>1. /\ posting = n /\ posting' = 0 /\ stage' = [stage EXCEPT ![n] = "back"]
        /\ UNCHANGED <<comments, sheet, load, cursor, done, paged, posted, crossed, owed>>
    BY DEF CommentFails, listVars
  <1>2. n # 0 /\ stage[n] \in {"sent", "answered"}
    BY <1>1, OwnAssumption, NumbersAreIds DEF SheetInv, PostsInv
  <1>3. SheetTypeOK'
    BY <1>1 DEF SheetTypeOK
  <1>4. PagesInv'
    BY <1>1 DEF SheetInv, PagesInv, At, Older
  <1>5. PostsInv'
    BY <1>1, <1>2 DEF SheetInv, PostsInv, SheetTypeOK
  <1>6. OwnInv' /\ OwedInv'
    BY <1>1 DEF SheetInv, OwnInv, OwedInv, Plain, Shown, At, FirstLoading, LeftOut
  <1>7. QED
    BY <1>3, <1>4, <1>5, <1>6 DEF SheetInv

----------------------------------------------------------------------------

\* Every step of the sheet keeps the invariant.
LEMMA SheetKeeps ==
    ASSUME SheetTypeOK, SheetInv, SheetMove \/ SheetStep \/ UNCHANGED sheetVars
    PROVE  SheetTypeOK' /\ SheetInv'
  <1>1. ASSUME NEW n \in Ids \ Own, StoreOther(n) PROVE SheetTypeOK' /\ SheetInv'
    BY <1>1, StoreKeeps DEF StoreOther, listVars, postVars
  <1>2. CASE UNCHANGED sheetVars
    <2> USE <1>2 DEF sheetVars, listVars, postVars
    <2>1. SheetTypeOK'
      BY DEF SheetTypeOK
    <2>2. PagesInv' /\ PostsInv'
      BY DEF SheetInv, PagesInv, PostsInv, At, Older
    <2>3. OwnInv' /\ OwedInv'
      BY DEF SheetInv, OwnInv, OwedInv, Plain, Shown, At, FirstLoading, LeftOut
    <2>4. QED
      BY <2>1, <2>2, <2>3 DEF SheetInv
  <1>3. QED
    BY <1>1, <1>2, OpenKeeps, CloseKeeps, ScrollKeeps, ServeKeeps, RefuseLoadKeeps, LoseKeeps,
       RenderKeeps, RenderErrorKeeps, SubmitKeeps, StoreOwnKeeps, CommentAnsweredKeeps,
       CommentFailsKeeps DEF SheetMove, SheetStep

\* What the invariant is for.
LEMMA SheetIsRight ==
    ASSUME SheetTypeOK, SheetInv
    PROVE  OwnSheet /\ SheetComplete /\ TwiceOnlyOwn
  <1>1. OwnSheet
    BY DEF SheetInv, OwnInv, OwnSheet, Plain
  <1>2. SheetComplete
    BY DEF SheetInv, OwedInv, SheetComplete, Plain
  <1>3. TwiceOnlyOwn
    BY DEF SheetInv, PagesInv, PostsInv, TwiceOnlyOwn, SheetTypeOK
  <1>4. QED
    BY <1>1, <1>2, <1>3

----------------------------------------------------------------------------
(* The page.                                                               *)

\* The inductive invariant of the page: its two parts share no state.
FeedInv == SheetInv /\ HeartInv

LEMMA FeedStep ==
    ASSUME TypeOK, FeedInv, [Next]_vars
    PROVE  TypeOK' /\ FeedInv'
  <1>1. /\ SheetMove \/ SheetStep \/ UNCHANGED sheetVars
        /\ HeartMove \/ HeartStep \/ UNCHANGED heartVars
        /\ moves' = moves \/ (moves < MaxMoves /\ moves' = moves + 1)
    BY DEF Next, UserMoves, OthersMove, vars
  <1>2. SheetTypeOK' /\ SheetInv'
    BY <1>1, SheetKeeps DEF TypeOK, FeedInv
  <1>3. HeartTypeOK' /\ HeartInv'
    BY <1>1, HeartKeeps DEF TypeOK, FeedInv
  <1>4. moves' \in 0 .. MaxMoves
    BY <1>1, MaxMovesAssumption DEF TypeOK
  <1>5. QED
    BY <1>2, <1>3, <1>4 DEF TypeOK, FeedInv

\* FeedInv is an invariant of the page (feed.js).
THEOREM FeedInvariant == Spec => [](TypeOK /\ FeedInv)
  <1>1. Init => TypeOK /\ FeedInv
    BY SheetStart, HeartStart, MaxMovesAssumption DEF Init, TypeOK, FeedInv
  <1>2. TypeOK /\ FeedInv /\ [Next]_vars => TypeOK' /\ FeedInv'
    BY FeedStep
  <1>3. QED
    BY <1>1, <1>2, PTL DEF Spec

\* Hearts, requests, the sheet and its list keep their types; nothing is owed
\* that is not committed (feed.js).
THEOREM TypeCorrect == Spec => []TypeOK
  BY FeedInvariant, PTL

\* A sheet that was opened with nothing under way shows comments of its own
\* video only (feed.js:331-376, 408-436).
THEOREM SheetsAreOwn == Spec => []OwnSheet
  <1>1. TypeOK /\ FeedInv => OwnSheet
    BY SheetIsRight DEF TypeOK, FeedInv
  <1>2. QED
    BY <1>1, FeedInvariant, PTL

\* It keeps what it owes, however loads and posts interleave and fail
\* (feed.js:354-376, 408-436).
THEOREM SheetsAreComplete == Spec => []SheetComplete
  <1>1. TypeOK /\ FeedInv => SheetComplete
    BY SheetIsRight DEF TypeOK, FeedInv
  <1>2. QED
    BY <1>1, FeedInvariant, PTL

\* Pages show no comment twice, whichever sheets they were read for
\* (feed.js:331-376, 427).
THEOREM PagesShowOnce == Spec => []TwiceOnlyOwn
  <1>1. TypeOK /\ FeedInv => TwiceOnlyOwn
    BY SheetIsRight DEF TypeOK, FeedInv
  <1>2. QED
    BY <1>1, FeedInvariant, PTL

\* A heart is right when the page was told of the last change (feed.js:240-285).
THEOREM HeartsAreTrue == Spec => []HeartTrue
  <1>1. TypeOK /\ FeedInv => HeartTrue
    BY DEF FeedInv, HeartInv
  <1>2. QED
    BY <1>1, FeedInvariant, PTL

\* A double tap on a heart that was right, and alone, takes no like away
\* (feed.js:260-285, store.go:255-268).
THEOREM TapsOnlyLike == Spec => TapsLike
  <1>1. TypeOK /\ FeedInv =>
           \A k \in Slots :
              posts[k] # NoPost /\ Delete(k) =>
                 ~(posts[k].by = "tap" /\ posts[k].sure /\ posts[k].alone)
    BY TapIsNoDelete DEF TypeOK, FeedInv
  <1>2. QED
    BY <1>1, FeedInvariant, PTL DEF TapsLike

=============================================================================
