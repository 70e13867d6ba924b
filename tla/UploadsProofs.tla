---------------------------- MODULE UploadsProofs ----------------------------
(***************************************************************************)
(* Uploads keeps its types and two inductive invariants: AuthInv, and with *)
(* it OwnSessions, and FileInv, and with it AvatarThere and VideoHasFile,  *)
(* for any users, emails, passwords, browsers and requests.                *)
(***************************************************************************)
EXTENDS Uploads, TLAPS

USE NilAssumption, NameAssumption

\* What a request does to the directories: to that of its own instance.
LEMMA DiskMoves ==
    ASSUME TypeOK, NEW r \in Reqs, NEW n \in Names
    PROVE  /\ Stores(r) => /\ disk' \in [Instances -> SUBSET Names]
                           /\ \A i \in Instances : disk'[i] = disk[i] \cup (IF i = Home[r] THEN {r} ELSE {})
           /\ Removes(r, n) => /\ disk' \in [Instances -> SUBSET Names]
                               /\ \A i \in Instances : disk'[i] = disk[i] \ (IF i = Home[r] THEN {n} ELSE {})
           /\ UNCHANGED disk => disk' \in [Instances -> SUBSET Names]
           /\ \A q \in Reqs : Home[q] \in Instances
  BY HomeAssumption DEF TypeOK, Stores, Removes, Names

LEMMA TypeStep ==
    ASSUME TypeOK, [Next]_vars
    PROVE  TypeOK'
  <1> USE DEF TypeOK, AuthTypeOK, AuthSteps, Names, Forms, NoForm, authVars, accountVars,
              requestVars, fileVars, rowVars, historyVars, Goto
  <1>1. CASE Account
    <2> UNCHANGED fileVars
      BY <1>1 DEF Account
    <2>1. ASSUME NEW i \in Instances, Crash(i) PROVE TypeOK'
      BY <2>1 DEF Crash
    <2>2. ASSUME NEW n \in Names, Expire(n) PROVE TypeOK'
      BY <2>2 DEF Expire
    <2>3. ASSUME NEW r \in Reqs, Begin(r) PROVE TypeOK'
      BY <2>3 DEF Begin
    <2>4. ASSUME NEW r \in Reqs, Fail(r) PROVE TypeOK'
      BY <2>4 DEF Fail
    <2>5. ASSUME NEW r \in Reqs, Register(r) PROVE TypeOK'
      BY <2>5 DEF Register, AddUser
    <2>6. ASSUME NEW r \in Reqs, Find(r) PROVE TypeOK'
      BY <2>6 DEF Find
    <2>7. ASSUME NEW r \in Reqs, Demo(r) PROVE TypeOK'
      BY <2>7 DEF Demo, AddUser
    <2>8. ASSUME NEW r \in Reqs, StartSession(r) PROVE TypeOK'
      BY <2>8 DEF StartSession
    <2>9. ASSUME NEW r \in Reqs, Logout(r) PROVE TypeOK'
      BY <2>9 DEF Logout
    <2>10. ASSUME NEW r \in Reqs, Answer(r) PROVE TypeOK'
      BY <2>10 DEF Answer
    <2>11. QED
      BY <1>1, <2>1, <2>2, <2>3, <2>4, <2>5, <2>6, <2>7, <2>8, <2>9, <2>10
         DEF Account, AccountStep
  <1>2. ASSUME NEW r \in Reqs, Enter(r) PROVE TypeOK'
    BY <1>2 DEF Enter, Auth
  <1>3. ASSUME NEW r \in Reqs, Save(r) PROVE TypeOK'
    BY <1>3, DiskMoves DEF Save
  <1>4. ASSUME NEW r \in Reqs, SaveFails(r) PROVE TypeOK'
    BY <1>4, DiskMoves DEF SaveFails
  <1>5. ASSUME NEW r \in Reqs, Refuse(r) PROVE TypeOK'
    BY <1>5 DEF Refuse
  <1>6. ASSUME NEW r \in Reqs, Keep(r) PROVE TypeOK'
    BY <1>6 DEF Keep
  <1>7. ASSUME NEW r \in Reqs, RemoveOld(r) PROVE TypeOK'
    BY <1>7, DiskMoves DEF RemoveOld
  <1>8. ASSUME NEW r \in Reqs, Update(r) PROVE TypeOK'
    BY <1>8 DEF Update
  <1>9. ASSUME NEW r \in Reqs, Insert(r) PROVE TypeOK'
    BY <1>9 DEF Insert
  <1>10. ASSUME NEW r \in Reqs, InsertFails(r) PROVE TypeOK'
    BY <1>10 DEF InsertFails
  <1>11. ASSUME NEW r \in Reqs, Unsave(r) PROVE TypeOK'
    BY <1>11, DiskMoves DEF Unsave
  <1>12. CASE UNCHANGED vars
    BY <1>12 DEF vars
  <1>13. QED
    BY <1>1, <1>2, <1>3, <1>4, <1>5, <1>6, <1>7, <1>8, <1>9, <1>10, <1>11, <1>12
       DEF Next, EditStep, UploadStep

----------------------------------------------------------------------------
(* Accounts and sessions.                                                  *)

\* The requests of Uploads are steps of the session check or change nothing
\* that AuthInv speaks of but pc.
LEMMA HandlerKeepsAuth ==
    ASSUME TypeOK, AuthInv, NEW r \in Reqs,
           Save(r) \/ SaveFails(r) \/ Refuse(r) \/ EditStep(r) \/ UploadStep(r)
    PROVE  AuthInv'
  <1>1. /\ UNCHANGED <<accountVars, session, cookie, requestVars>>
        /\ pc[r] \notin {"idle", "session", "select"}
        /\ \E step \in {"remove", "insert", "done", "keep", "update", "unsave"} : Goto(r, step)
    BY DEF Save, SaveFails, Refuse, EditStep, UploadStep, Keep, RemoveOld, Update,
           Insert, InsertFails, Unsave
  <1>2. QED
    BY <1>1 DEF AuthInv, Unique, OwnSessions, KnownUser, MadeAccount, KindOfStep, Proved,
                OwnDemo, TypeOK, AuthSteps, Goto, accountVars, requestVars

LEMMA EnterKeepsAuth ==
    ASSUME TypeOK, AuthInv, NEW r \in Reqs, Enter(r)
    PROVE  AuthInv'
  BY DEF Enter, Auth, AuthInv, Unique, OwnSessions, KnownUser, MadeAccount, KindOfStep, Proved,
         OwnDemo, TypeOK, AuthTypeOK, AuthSteps, Goto, accountVars

LEMMA AccountKeepsAuth ==
    ASSUME TypeOK, AuthInv, AccountStep
    PROVE  AuthInv'
  <1> USE DEF TypeOK, AuthTypeOK, AuthSteps, Names, Forms, NoForm, accountVars, requestVars,
              Goto, AuthInv, Unique, OwnSessions, KnownUser, MadeAccount, KindOfStep, Proved,
              OwnDemo
  <1>1. ASSUME NEW i \in Instances, Crash(i) PROVE AuthInv'
    BY <1>1 DEF Crash
  <1>2. ASSUME NEW n \in Names, Expire(n) PROVE AuthInv'
    BY <1>2 DEF Expire
  <1>3. ASSUME NEW r \in Reqs, Begin(r) PROVE AuthInv'
    BY <1>3 DEF Begin
  <1>4. ASSUME NEW r \in Reqs, Fail(r) PROVE AuthInv'
    BY <1>4 DEF Fail
  <1>5. ASSUME NEW r \in Reqs, Register(r) PROVE AuthInv'
    <2>1. PICK u \in Users : AddUser(u, form[r].email, form[r].password)
      BY <1>5 DEF Register
    <2>2. /\ pc[r] = "register" /\ form[r].kind = "register" /\ session[r] = Nil
          /\ \A v \in users : email[v] # form[r].email
          /\ UNCHANGED <<session, cookie, form, from, token, who>>
          /\ \E step \in {"select", "done"} : pc' = [pc EXCEPT ![r] = step]
      BY <1>5 DEF Register, Taken
    <2>3. /\ u \notin users /\ users' = users \cup {u}
          /\ email'[u] = form[r].email /\ hash'[u] = form[r].password
          /\ \A v \in users : v # u /\ email'[v] = email[v] /\ hash'[v] = hash[v]
      BY <2>1 DEF AddUser
    <2> HIDE DEF AuthInv, Unique, OwnSessions, KnownUser, MadeAccount, KindOfStep, Proved, OwnDemo
    <2>4. Unique'
      BY <2>2, <2>3 DEF AuthInv, Unique
    <2>5. MadeAccount'
      BY <2>2, <2>3 DEF AuthInv, MadeAccount
    <2>6. OwnSessions'
      BY <2>2, <2>3 DEF AuthInv, OwnSessions
    <2>7. KnownUser' /\ KindOfStep'
      BY <2>2 DEF AuthInv, KnownUser, KindOfStep
    <2>8. Proved'
      BY <2>2, <2>3 DEF AuthInv, Proved, KnownUser
    <2>9. OwnDemo'
      BY <2>2 DEF AuthInv, OwnDemo
    <2>10. QED
      BY <2>4, <2>5, <2>6, <2>7, <2>8, <2>9 DEF AuthInv
  <1>6. ASSUME NEW r \in Reqs, Find(r) PROVE AuthInv'
    BY <1>6 DEF Find
  <1>7. ASSUME NEW r \in Reqs, Demo(r) PROVE AuthInv'
    <2>1. PICK u \in Users : AddUser(u, Nil, Nil) /\ who' = [who EXCEPT ![r] = u]
      BY <1>7 DEF Demo
    <2>2. /\ pc[r] = "demo" /\ form[r].kind = "demo" /\ who[r] = Nil /\ session[r] = Nil
          /\ UNCHANGED <<session, cookie, form, from, token>>
          /\ \E step \in {"session", "done"} : pc' = [pc EXCEPT ![r] = step]
      BY <1>7 DEF Demo
    <2>3. u \notin users /\ u # Nil /\ \A q \in Reqs : who[q] # u /\ session[q] # u
      BY <2>1 DEF AddUser
    <2>4. \A v \in users : v # u /\ email'[v] = email[v] /\ hash'[v] = hash[v]
      BY <2>1 DEF AddUser
    <2>5. users' = users \cup {u} /\ email'[u] = Nil /\ hash'[u] = Nil
      BY <2>1 DEF AddUser
    <2> HIDE DEF AuthInv, Unique, OwnSessions, KnownUser, MadeAccount, KindOfStep, Proved, OwnDemo
    <2>6. Unique' /\ MadeAccount' /\ OwnSessions'
      <3>1. Unique'
        BY <2>4, <2>5 DEF AuthInv, Unique
      <3>2. MadeAccount'
        BY <2>2, <2>4, <2>5 DEF AuthInv, MadeAccount
      <3>3. OwnSessions'
        BY <2>2, <2>4, <2>5 DEF AuthInv, OwnSessions
      <3>4. QED
        BY <3>1, <3>2, <3>3
    <2>7. KnownUser' /\ KindOfStep'
      BY <2>1, <2>2, <2>3 DEF AuthInv, KnownUser, KindOfStep
    <2>8. Proved'
      BY <2>1, <2>2, <2>4, <2>5 DEF AuthInv, Proved, KnownUser
    <2>9. OwnDemo'
      BY <2>1, <2>2, <2>3 DEF AuthInv, OwnDemo
    <2>10. QED
      BY <2>6, <2>7, <2>8, <2>9 DEF AuthInv
  <1>8. ASSUME NEW r \in Reqs, StartSession(r) PROVE AuthInv'
    BY <1>8 DEF StartSession
  <1>9. ASSUME NEW r \in Reqs, Logout(r) PROVE AuthInv'
    BY <1>9 DEF Logout
  <1>10. ASSUME NEW r \in Reqs, Answer(r) PROVE AuthInv'
    BY <1>10 DEF Answer
  <1>11. QED
    BY <1>1, <1>2, <1>3, <1>4, <1>5, <1>6, <1>7, <1>8, <1>9, <1>10 DEF AccountStep

LEMMA AuthKept ==
    ASSUME TypeOK, AuthInv, [Next]_vars
    PROVE  AuthInv'
  <1>1. CASE Account
    BY <1>1, AccountKeepsAuth DEF Account
  <1>2. ASSUME NEW r \in Reqs, Enter(r) PROVE AuthInv'
    BY <1>2, EnterKeepsAuth
  <1>3. ASSUME NEW r \in Reqs,
               Save(r) \/ SaveFails(r) \/ Refuse(r) \/ EditStep(r) \/ UploadStep(r)
        PROVE  AuthInv'
    BY <1>3, HandlerKeepsAuth
  <1>4. CASE UNCHANGED vars
    BY <1>4 DEF vars, authVars, accountVars, requestVars, AuthInv, Unique, OwnSessions, KnownUser,
                MadeAccount, KindOfStep, Proved, OwnDemo
  <1>5. QED
    BY <1>1, <1>2, <1>3, <1>4 DEF Next

----------------------------------------------------------------------------
(* Files and rows.                                                         *)

\* Of what AccountStep changes, FileInv speaks of pc, form and who: it leaves
\* alone those of requests that have reached a handler, but for pc in a crash.
LEMMA AccountKeepsFiles ==
    ASSUME TypeOK, AuthInv, FileInv, Account
    PROVE  FileInv'
  <1> USE DEF TypeOK, AuthTypeOK, AuthSteps, fileVars, rowVars, historyVars, Goto, FileInv,
              AvatarThere, VideoHasFile, StepInv, OwnPhoto
  <1> UNCHANGED fileVars
    BY DEF Account
  <1>1. ASSUME NEW i \in Instances, Crash(i) PROVE FileInv'
    BY <1>1 DEF Crash, requestVars
  <1>2. ASSUME NEW r \in Reqs, pc[r] \in AuthSteps \ {"act", "done"},
               \A q \in Reqs \ {r} : form'[q] = form[q] /\ who'[q] = who[q] /\ pc'[q] = pc[q],
               pc'[r] \in AuthSteps \ {"act"},
               form'[r] = form[r] \/ pc[r] = "idle"
        PROVE  FileInv'
    <2>1. r \in removed => form'[r] = form[r]
      BY <1>2 DEF AuthInv, KindOfStep, NoForm
    <2>2. QED
      BY <1>2, <2>1
  <1>3. CASE UNCHANGED <<form, who, pc>>
    BY <1>3
  <1>4. QED
    BY <1>1, <1>2, <1>3
       DEF Account, AccountStep, Expire, Begin, Fail, Register, Find, Demo, StartSession, Logout,
           Answer, requestVars, Forms

LEMMA EnterKeepsFiles ==
    ASSUME TypeOK, AuthInv, FileInv, NEW r \in Reqs, Enter(r)
    PROVE  FileInv'
  <1> USE DEF TypeOK, AuthTypeOK, AuthSteps, rowVars, historyVars, Goto, FileInv,
              AvatarThere, VideoHasFile, StepInv, OwnPhoto
  <1>1. /\ session[token[r]] \in users
        /\ who' = [who EXCEPT ![r] = session[token[r]]]
        /\ old' = [old EXCEPT ![r] = avatar[session[token[r]]]]
        /\ pc' = [pc EXCEPT ![r] = "act"]
        /\ UNCHANGED <<form, disk, avatar, videos, removed, applied, erred>>
    BY DEF Enter, Auth, Names
  <1>2. r \notin applied /\ pc[r] \in {"edit", "upload"} /\ old[r] = Nil
    BY DEF Enter, Auth
  <1>3. \A n \in applied : who'[n] = who[n]
    BY <1>1, <1>2
  <1>4. OwnPhoto'
    BY <1>1, <1>2, <1>3
  <1>5. StepInv'
    BY <1>1, <1>2
  <1>6. AvatarThere'
    BY <1>1, <1>2 DEF Names
  <1>7. QED
    BY <1>1, <1>4, <1>5, <1>6

LEMMA HandlerKeepsFiles ==
    ASSUME TypeOK, AuthInv, FileInv, NEW r \in Reqs,
           Save(r) \/ SaveFails(r) \/ Refuse(r) \/ EditStep(r) \/ UploadStep(r)
    PROVE  FileInv'
  <1> USE DEF TypeOK, AuthTypeOK, AuthSteps, Names, fileVars, rowVars, historyVars, requestVars,
              Goto, FileInv, AvatarThere, VideoHasFile, StepInv, OwnPhoto
  <1>1. CASE Save(r)
    BY <1>1, DiskMoves DEF Save, AuthInv, KindOfStep
  <1>2. CASE SaveFails(r)
    BY <1>2, DiskMoves DEF SaveFails
  <1>3. CASE Refuse(r)
    BY <1>3 DEF Refuse
  <1>4. CASE Keep(r)
    BY <1>4 DEF Keep
  <1>5. CASE RemoveOld(r)
    <2>1. CASE UNCHANGED <<disk, removed>>
      BY <1>5, <2>1 DEF RemoveOld
    <2>2. CASE old[r] \in disk[Home[r]] /\ Removes(r, old[r]) /\ removed' = removed \cup {r}
      <3>1. \A i \in Instances : disk[i] \ {old[r]} \subseteq disk'[i] /\ disk'[i] \subseteq disk[i]
        BY <2>2, DiskMoves
      <3>2. /\ UNCHANGED <<avatar, videos, old, applied, erred, form, who>>
            /\ pc[r] = "remove" /\ pc' = [pc EXCEPT ![r] = "update"] /\ r \notin applied
            /\ form[r].kind = "edit" /\ r \in disk[Home[r]]
        BY <1>5 DEF RemoveOld
      <3>3. \A q \in Reqs : Home[q] \in Instances
        BY DiskMoves
      <3>4. old[r] \in Users \cup applied /\ (old[r] \in Reqs => form[old[r]].kind = "edit")
        <4>1. disk[Home[r]] \subseteq Names
          BY <3>3
        <4>2. QED
          BY <2>2, <4>1
      <3>5. VideoHasFile'
        BY <3>1, <3>2, <3>3, <3>4
      <3>6. StepInv'
        <4>1. \A q \in Reqs : pc[q] \in {"remove", "update", "insert"} => old[r] # q
          BY <3>4
        <4>2. QED
          BY <2>2, <3>1, <3>2, <3>3, <4>1
      <3>7. AvatarThere'
        BY <2>2, <3>1, <3>2
      <3>8. QED
        BY <2>2, <3>2, <3>5, <3>6, <3>7
    <2>3. QED
      BY <1>5, <2>1, <2>2 DEF RemoveOld
  <1>6. CASE Update(r)
    <2>1. CASE pc[r] = "keep"
      BY <1>6, <2>1 DEF Update
    <2>2. CASE pc[r] = "update"
      <3>1. /\ avatar' = [avatar EXCEPT ![who[r]] = r] /\ applied' = applied \cup {r}
            /\ UNCHANGED <<disk, videos, old, removed, erred, form, who>>
            /\ pc' = [pc EXCEPT ![r] = "done"]
            /\ who[r] \in users /\ r \in disk[Home[r]] /\ form[r].kind = "edit"
        BY <1>6, <2>2 DEF Update
      <3>2. Home[r] \in Instances
        BY DiskMoves
      <3>3. ASSUME NEW u \in Users, u # who[r], NEW q \in Reqs, old[q] = avatar[u], avatar[u] # Nil
            PROVE  q # r
        BY <3>3
      <3>4. AvatarThere'
        BY <3>1, <3>2, <3>3
      <3>5. OwnPhoto' /\ StepInv' /\ VideoHasFile'
        BY <2>2, <3>1
      <3>6. QED
        BY <3>1, <3>4, <3>5
    <2>3. QED
      BY <1>6, <2>1, <2>2 DEF Update
  <1>7. CASE Insert(r)
    BY <1>7 DEF Insert
  <1>8. CASE InsertFails(r)
    BY <1>8 DEF InsertFails
  <1>9. CASE Unsave(r)
    <2>1. /\ \A i \in Instances : disk[i] \ {r} \subseteq disk'[i] /\ disk'[i] \subseteq disk[i]
          /\ UNCHANGED <<avatar, videos, old, removed, applied, erred, form, who>>
          /\ pc[r] = "unsave" /\ pc' = [pc EXCEPT ![r] = "done"]
          /\ form[r].kind = "upload" /\ r \in erred
      BY <1>9, DiskMoves DEF Unsave
    <2>2. \A q \in Reqs : Home[q] \in Instances
      BY DiskMoves
    <2>3. \A u \in Users : avatar[u] # r
      BY <2>1
    <2>4. AvatarThere'
      BY <2>1, <2>3
    <2>5. VideoHasFile' /\ StepInv'
      BY <2>1, <2>2
    <2>6. QED
      BY <2>1, <2>4, <2>5
  <1>10. QED
    BY <1>1, <1>2, <1>3, <1>4, <1>5, <1>6, <1>7, <1>8, <1>9 DEF EditStep, UploadStep

LEMMA FilesKept ==
    ASSUME TypeOK, AuthInv, FileInv, [Next]_vars
    PROVE  FileInv'
  <1>1. CASE Account
    BY <1>1, AccountKeepsFiles
  <1>2. ASSUME NEW r \in Reqs, Enter(r) PROVE FileInv'
    BY <1>2, EnterKeepsFiles
  <1>3. ASSUME NEW r \in Reqs,
               Save(r) \/ SaveFails(r) \/ Refuse(r) \/ EditStep(r) \/ UploadStep(r)
        PROVE  FileInv'
    BY <1>3, HandlerKeepsFiles
  <1>4. CASE UNCHANGED vars
    BY <1>4 DEF vars, authVars, fileVars, rowVars, historyVars, requestVars, FileInv, AvatarThere,
                VideoHasFile, StepInv, OwnPhoto
  <1>5. QED
    BY <1>1, <1>2, <1>3, <1>4 DEF Next

----------------------------------------------------------------------------

\* The invariants of accounts and of files are inductive, with the types.
THEOREM UploadInvariant == Spec => [](TypeOK /\ AuthInv /\ FileInv)
  <1>1. Init => TypeOK
    BY DEF Init, AuthInit, TypeOK, AuthTypeOK, AuthSteps, Names
  <1>2. Init => AuthInv
    BY DEF Init, AuthInit, AuthInv, Unique, OwnSessions, KnownUser, MadeAccount, KindOfStep,
           Proved, OwnDemo, Names
  <1>3. Init => FileInv
    BY HomeAssumption DEF Init, AuthInit, FileInv, AvatarThere, VideoHasFile, StepInv, OwnPhoto, AuthSteps, Names
  <1>4. TypeOK /\ AuthInv /\ FileInv /\ [Next]_vars => (TypeOK /\ AuthInv /\ FileInv)'
    BY TypeStep, AuthKept, FilesKept
  <1>5. QED
    BY <1>1, <1>2, <1>3, <1>4, PTL DEF Spec

\* No registration or log in starts a session of an account whose password it
\* did not name, however requests with one email overlap, fail or are cut off.
THEOREM SessionsAreOwn == Spec => []OwnSessions
  <1>1. AuthInv => OwnSessions
    BY DEF AuthInv
  <1>2. QED
    BY <1>1, UploadInvariant, PTL

\* A photo that a profile names leaves the last disk it is on only through an
\* edit whose own UPDATE has not taken effect, whatever overlaps, on however many
\* instances (profile.go:187-195).
THEOREM PhotosAreThere == Spec => []AvatarThere
  <1>1. FileInv => AvatarThere
    BY DEF FileInv
  <1>2. QED
    BY <1>1, UploadInvariant, PTL

\* A video lacks its file on the instance it was uploaded to only if its INSERT
\* was reported as failed (upload.go:91-113).
THEOREM VideosHaveFiles == Spec => []VideoHasFile
  <1>1. FileInv => VideoHasFile
    BY DEF FileInv
  <1>2. QED
    BY <1>1, UploadInvariant, PTL

=============================================================================
