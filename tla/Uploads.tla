------------------------------- MODULE Uploads -------------------------------
(***************************************************************************)
(* Files and the rows that name them: uploading a video                    *)
(* (internal/handlers/upload.go) and replacing a profile photo             *)
(* (internal/handlers/profile.go), by requests that pass the session check *)
(* of Accounts.  A file system and a database have no common transaction:  *)
(* each call and each statement is a step, and any of them may fail.       *)
(*                                                                         *)
(* The database is one; the directory of files is each instance's own      *)
(* (docker-compose.yml:38,55): a file is seen by the instance that stored  *)
(* it, and a row names it to all of them.                                  *)
(***************************************************************************)
EXTENDS Accounts

VARIABLES
    disk,       \* names of the files in UploadDir of each instance
    avatar,     \* avatar_url of a user, Nil: ''
    videos,     \* filenames of the rows of videos
    old,        \* avatar_url of the user when the request passed Auth
    removed,    \* requests that have removed an old photo (history)
    applied,    \* requests whose INSERT or UPDATE took effect (history)
    erred       \* uploads that were told that their INSERT failed (history)

rowVars     == <<avatar, videos>>
historyVars == <<removed, applied, erred>>
fileVars    == <<disk, rowVars, old, historyVars>>
vars == <<authVars, fileVars>>

Init ==
    /\ AuthInit
    /\ avatar \in [Users -> Users \cup {Nil}]
    /\ \A u \in Users : avatar[u] # Nil => avatar[u] = u /\ u \in users
    /\ disk = [i \in Instances |-> {u \in Users : avatar[u] # Nil /\ Home[u] = i}]
    /\ videos = {}
    /\ old = [r \in Reqs |-> Nil]
    /\ removed = {} /\ applied = {} /\ erred = {}

Account == AccountStep /\ UNCHANGED fileVars

\* Mutant: a route without RequireAuth; the request acts for nobody.
EnterAnyone(r) ==
    /\ pc[r] \in {"edit", "upload"}
    /\ Goto(r, "act")
    /\ UNCHANGED <<accountVars, session, cookie, requestVars, fileVars>>

\* The user that Auth puts into the context is read once.
Enter(r) ==
    /\ Auth(r)
    /\ old' = [old EXCEPT ![r] = avatar[session[token[r]]]]
    /\ UNCHANGED <<disk, rowVars, historyVars>>

----------------------------------------------------------------------------
(* The handlers.                                                           *)

Stores(r)     == disk' = [disk EXCEPT ![Home[r]] = @ \cup {r}]
Removes(r, n) == disk' = [disk EXCEPT ![Home[r]] = @ \ {n}]

\* The form has a file that is of a type and size to be stored.
Save(r) ==
    /\ pc[r] = "act"
    /\ Stores(r)
    /\ Goto(r, IF form[r].kind = "edit" THEN "remove" ELSE "insert")
    /\ UNCHANGED <<accountVars, session, cookie, requestVars, rowVars, old, historyVars>>

\* The file was created, but not all of it was written.
SaveFails(r) ==
    /\ pc[r] = "act"
    /\ Stores(r)
    /\ Goto(r, "done")
    /\ UNCHANGED <<accountVars, session, cookie, requestVars, rowVars, old, historyVars>>

\* A profile is edited without a new photo.
Keep(r) ==
    /\ pc[r] = "act"
    /\ form[r].kind = "edit"
    /\ Goto(r, "keep")
    /\ UNCHANGED <<accountVars, session, cookie, requestVars, fileVars>>

\* A photo that cannot be removed, or is not in this instance's directory, is
\* left alone.
RemoveOld(r) ==
    /\ pc[r] = "remove"
    /\ \/ /\ old[r] \in disk[Home[r]]
          /\ Removes(r, old[r])
          /\ removed' = removed \cup {r}
       \/ UNCHANGED <<disk, removed>>
    /\ Goto(r, "update")
    /\ UNCHANGED <<accountVars, session, cookie, requestVars, rowVars, old, applied, erred>>

\* Mutant: the name is written, the new photo is not.
UpdateName(r) ==
    /\ pc[r] \in {"update", "keep"}
    /\ IF pc[r] = "update"
       THEN applied' = applied \cup {r} /\ UNCHANGED avatar
       ELSE UNCHANGED <<avatar, applied>>
    /\ Goto(r, "done")
    /\ UNCHANGED <<accountVars, session, cookie, requestVars, disk, videos, old, removed, erred>>

\* UpdateProfile takes effect, whether the request learns of it or not.
Update(r) ==
    /\ pc[r] \in {"update", "keep"}
    /\ IF pc[r] = "update"
       THEN /\ avatar' = [avatar EXCEPT ![who[r]] = r]
            /\ applied' = applied \cup {r}
       ELSE UNCHANGED <<avatar, applied>>
    /\ Goto(r, "done")
    /\ UNCHANGED <<accountVars, session, cookie, requestVars, disk, videos, old, removed, erred>>

\* No file, a bad type or size; no name, a bio that is too long, or an UPDATE
\* that fails, which comes after the old photo was removed.
Refuse(r) ==
    /\ pc[r] \in {"act", "update", "keep"}
    /\ Goto(r, "done")
    /\ UNCHANGED <<accountVars, session, cookie, requestVars, fileVars>>

\* Mutant: the file is removed whatever the INSERT returned.
InsertAndRemove(r) ==
    /\ pc[r] = "insert"
    /\ videos' = videos \cup {r}
    /\ applied' = applied \cup {r}
    /\ Goto(r, "unsave")
    /\ UNCHANGED <<accountVars, session, cookie, requestVars, disk, avatar, old, removed, erred>>

\* CreateVideo takes effect; an error may hide that.
Insert(r) ==
    /\ pc[r] = "insert"
    /\ videos' = videos \cup {r}
    /\ applied' = applied \cup {r}
    /\ \/ Goto(r, "done") /\ UNCHANGED erred
       \/ Goto(r, "unsave") /\ erred' = erred \cup {r}
    /\ UNCHANGED <<accountVars, session, cookie, requestVars, disk, avatar, old, removed>>

InsertFails(r) ==
    /\ pc[r] = "insert"
    /\ Goto(r, "unsave")
    /\ erred' = erred \cup {r}
    /\ UNCHANGED <<accountVars, session, cookie, requestVars, disk, rowVars, old, removed, applied>>

\* The file without a row is removed, if that is possible.
Unsave(r) ==
    /\ pc[r] = "unsave"
    /\ Removes(r, r) \/ UNCHANGED disk
    /\ Goto(r, "done")
    /\ UNCHANGED <<accountVars, session, cookie, requestVars, rowVars, old, historyVars>>

EditStep(r)   == Keep(r) \/ RemoveOld(r) \/ Update(r)
UploadStep(r) == Insert(r) \/ InsertFails(r) \/ Unsave(r)

Next ==
    \/ Account
    \/ \E r \in Reqs : \/ Enter(r) \/ Save(r) \/ SaveFails(r) \/ Refuse(r)
                       \/ EditStep(r) \/ UploadStep(r)

Spec == Init /\ [][Next]_vars

----------------------------------------------------------------------------

TypeOK ==
    /\ AuthTypeOK
    /\ disk \in [Instances -> SUBSET Names]
    /\ avatar \in [Users -> Names \cup {Nil}]
    /\ videos \subseteq Reqs
    /\ old \in [Reqs -> Names \cup {Nil}]
    /\ removed \subseteq Reqs /\ applied \subseteq Reqs /\ erred \subseteq Reqs
    /\ pc \in [Reqs -> AuthSteps \cup {"remove", "update", "keep", "insert", "unsave"}]
    /\ \A r \in Reqs : pc[r] \in {"act", "remove", "update", "keep", "insert"} => who[r] \in users

\* The photo of a profile is on the disk of some instance, unless a request has
\* removed it whose own UPDATE did not take effect, or not yet: overlapping edits
\* of one user, each with the avatar_url it has read at its begin, never remove
\* a photo that another one has set (profile.go:187-195).  That another instance
\* can serve it is not said: it cannot (ARCHITECTURE.md:524).
AvatarThere ==
    \A u \in Users : (avatar[u] # Nil /\ \A i \in Instances : avatar[u] \notin disk[i]) =>
        \E r \in removed \ applied : old[r] = avatar[u]

\* A video has its file on the instance it was uploaded to, unless the INSERT of
\* its row took effect and was reported as failed (upload.go:91-113).
VideoHasFile == \A r \in videos : r \in disk[Home[r]] \/ r \in erred

\* Requests are where requests of their kind can be, and have their files.
StepInv ==
    \A r \in Reqs :
        /\ pc[r] \in {"remove", "update"} => form[r].kind = "edit"
        /\ pc[r] = "keep" => form[r].kind = "edit"
        /\ pc[r] \in {"insert", "unsave"} => form[r].kind = "upload"
        /\ pc[r] \in {"remove", "update", "insert"} => r \in disk[Home[r]]
        /\ pc[r] \notin {"done", "unsave"} => r \notin applied
        /\ pc[r] \in AuthSteps \ {"act", "done"} => old[r] = Nil
        /\ pc[r] = "unsave" => r \in erred
        /\ r \in removed => form[r].kind = "edit"

\* The photo of a user is the user's own, and so is the one an edit removes.
OwnPhoto ==
    /\ \A u \in Users : /\ avatar[u] \in Users => avatar[u] = u
                        /\ avatar[u] \in Reqs => /\ avatar[u] \in applied
                                                 /\ form[avatar[u]].kind = "edit"
                                                 /\ who[avatar[u]] = u
    /\ \A r \in Reqs : /\ old[r] \in Users => old[r] = who[r]
                       /\ old[r] \in Reqs => /\ old[r] \in applied
                                             /\ form[old[r]].kind = "edit"
                                             /\ who[old[r]] = who[r]

\* The inductive invariant behind AvatarThere and VideoHasFile.
FileInv ==
    /\ AvatarThere
    /\ VideoHasFile
    /\ StepInv
    /\ OwnPhoto
    /\ \A r \in videos : r \in applied /\ form[r].kind = "upload"

=============================================================================
