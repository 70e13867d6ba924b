------------------------------ MODULE Accounts ------------------------------
(***************************************************************************)
(* Accounts and sessions: register, log in, demo log in, log out, expiry,  *)
(* and the session check in front of a request (internal/service/auth.go,  *)
(* internal/handlers/auth.go, internal/middleware/auth.go).                *)
(*                                                                         *)
(* A request runs one SQL statement after the other, with requests of      *)
(* other browsers, or of the same one, in between.  A session token and    *)
(* the name of a stored file are random: a request that makes one up uses  *)
(* its own identity, and what a user has from before is named by the user. *)
(***************************************************************************)
CONSTANTS
    Users,      \* ids of users
    Emails,
    Passwords,
    Browsers,
    Reqs,       \* HTTP requests, each sent at most once
    Instances,  \* gotok processes in front of one database
    Home,       \* the instance a request is sent to, or that holds the photo a
                \* user has from before
    Nil

ASSUME NilAssumption  == Nil \notin Users \cup Emails \cup Passwords \cup Browsers \cup Reqs
ASSUME NameAssumption == Users \cap Reqs = {}
ASSUME HomeAssumption == Home \in [Users \cup Reqs -> Instances]

VARIABLES
    users,      \* the rows of users
    email,      \* provider_user_id of an email account, Nil for a demo account
    hash,       \* the password that password_hash was made from
    session,    \* user of a live session token, Nil: no row, or expired
    cookie,     \* the session cookie of a browser
    form,       \* kind and fields of a request
    from,       \* its browser
    token,      \* the cookie it was sent with
    who,        \* the user it found, or acts for
    pc          \* what it does next

accountVars == <<users, email, hash>>
requestVars == <<form, from, token, who>>
authVars    == <<accountVars, session, cookie, requestVars, pc>>

Names == Users \cup Reqs

Forms ==
    [kind : {"register", "login"}, email : Emails, password : Passwords]
    \cup
    [kind : {"demo", "logout", "edit", "upload"}, email : {Nil}, password : {Nil}]

NoForm == [kind |-> "none", email |-> Nil, password |-> Nil]

\* UNIQUE (provider, provider_user_id).
Unique == \A u, v \in users : email[u] = email[v] /\ email[u] # Nil => u = v

AuthInit ==
    /\ users \in SUBSET Users
    /\ email \in [Users -> Emails \cup {Nil}]
    /\ hash \in [Users -> Passwords \cup {Nil}]
    /\ \A u \in Users : /\ email[u] = Nil <=> hash[u] = Nil
                        /\ u \notin users => email[u] = Nil
    /\ Unique
    /\ \E live \in SUBSET users : session = [n \in Names |-> IF n \in live THEN n ELSE Nil]
    /\ cookie \in [Browsers -> users \cup {Nil}]
    /\ form  = [r \in Reqs |-> NoForm]
    /\ from  = [r \in Reqs |-> Nil]
    /\ token = [r \in Reqs |-> Nil]
    /\ who   = [r \in Reqs |-> Nil]
    /\ pc    = [r \in Reqs |-> "idle"]

Goto(r, step) == pc' = [pc EXCEPT ![r] = step]

\* A browser sends a request with the cookie it has.
Begin(r) ==
    /\ pc[r] = "idle"
    /\ \E f \in Forms, b \in Browsers :
          /\ form'  = [form EXCEPT ![r] = f]
          /\ from'  = [from EXCEPT ![r] = b]
          /\ token' = [token EXCEPT ![r] = cookie[b]]
          /\ Goto(r, f.kind)
    /\ UNCHANGED <<accountVars, session, cookie, who>>

\* The request is refused, a statement fails, a key exists already, or the
\* answer does not arrive.
Fail(r) ==
    /\ pc[r] \in {"register", "select", "login", "demo", "session", "answer", "edit", "upload"}
    /\ Goto(r, "done")
    /\ UNCHANGED <<accountVars, session, cookie, requestVars>>

Taken(e) == \E u \in users : email[u] = e

AddUser(u, e, p) ==
    /\ u \notin users
    /\ users' = users \cup {u}
    /\ email' = [email EXCEPT ![u] = e]
    /\ hash'  = [hash EXCEPT ![u] = p]

\* Mutant: the INSERT ignores a conflict, as if ON CONFLICT DO NOTHING.
RegisterIgnoring(r) ==
    /\ pc[r] = "register"
    /\ IF Taken(form[r].email)
       THEN UNCHANGED accountVars
       ELSE \E u \in Users : AddUser(u, form[r].email, form[r].password)
    /\ Goto(r, "select")
    /\ UNCHANGED <<session, cookie, requestVars>>

\* The INSERT of CreateUserWithPassword; an error may hide that it took effect.
Register(r) ==
    /\ pc[r] = "register"
    /\ ~Taken(form[r].email)
    /\ \E u \in Users : AddUser(u, form[r].email, form[r].password)
    /\ \E step \in {"select", "done"} : Goto(r, step)
    /\ UNCHANGED <<session, cookie, requestVars>>

\* GetUserByEmail, for a log in with the check of the password.
Find(r) ==
    /\ pc[r] \in {"select", "login"}
    /\ \E u \in users :
          /\ email[u] = form[r].email
          /\ pc[r] = "login" => hash[u] = form[r].password
          /\ who' = [who EXCEPT ![r] = u]
    /\ Goto(r, "session")
    /\ UNCHANGED <<accountVars, session, cookie, form, from, token>>

\* CreateOrUpdateUser.  LoginDemo draws the identity at random for each log in,
\* so that ON CONFLICT never finds a row (service/auth.go:116).
Demo(r) ==
    /\ pc[r] = "demo"
    /\ \E u \in Users : /\ AddUser(u, Nil, Nil)
                        /\ who' = [who EXCEPT ![r] = u]
    /\ \E step \in {"session", "done"} : Goto(r, step)
    /\ UNCHANGED <<session, cookie, form, from, token>>

StartSession(r) ==
    /\ pc[r] = "session"
    /\ session' = [session EXCEPT ![r] = who[r]]
    /\ \E step \in {"answer", "done"} : Goto(r, step)
    /\ UNCHANGED <<accountVars, cookie, requestVars>>

\* The DELETE may fail: that is ignored.
Logout(r) ==
    /\ pc[r] = "logout"
    /\ \/ session' = [n \in Names |-> IF n = token[r] THEN Nil ELSE session[n]]
       \/ UNCHANGED session
    /\ Goto(r, "answer")
    /\ UNCHANGED <<accountVars, cookie, requestVars>>

\* Set-Cookie.
Answer(r) ==
    /\ pc[r] = "answer"
    /\ cookie' = [cookie EXCEPT ![from[r]] = IF form[r].kind = "logout" THEN Nil ELSE r]
    /\ Goto(r, "done")
    /\ UNCHANGED <<accountVars, session, requestVars>>

\* Auth, RequireAuth: the user of the session.
Auth(r) ==
    /\ pc[r] \in {"edit", "upload"}
    /\ token[r] # Nil
    /\ session[token[r]] # Nil
    /\ who' = [who EXCEPT ![r] = session[token[r]]]
    /\ Goto(r, "act")
    /\ UNCHANGED <<accountVars, session, cookie, form, from, token>>

Expire(n) ==
    /\ session[n] # Nil
    /\ session' = [session EXCEPT ![n] = Nil]
    /\ UNCHANGED <<accountVars, cookie, requestVars, pc>>

\* A process ends, and is started again.
Crash(i) ==
    /\ pc' = [r \in Reqs |-> IF Home[r] = i /\ pc[r] # "idle" THEN "done" ELSE pc[r]]
    /\ UNCHANGED <<accountVars, session, cookie, requestVars>>

\* The steps that have to do with nothing but accounts and sessions.
AccountStep ==
    \/ \E i \in Instances : Crash(i)
    \/ \E n \in Names : Expire(n)
    \/ \E r \in Reqs : \/ Begin(r) \/ Fail(r)
                       \/ Register(r) \/ Find(r) \/ Demo(r)
                       \/ StartSession(r) \/ Logout(r) \/ Answer(r)

----------------------------------------------------------------------------

AuthSteps == {"idle", "register", "select", "login", "demo", "session", "logout",
              "answer", "edit", "upload", "act", "done"}

AuthTypeOK ==
    /\ users \subseteq Users
    /\ email \in [Users -> Emails \cup {Nil}]
    /\ hash \in [Users -> Passwords \cup {Nil}]
    /\ session \in [Names -> users \cup {Nil}]
    /\ cookie \in [Browsers -> Names \cup {Nil}]
    /\ form \in [Reqs -> Forms \cup {NoForm}]
    /\ from \in [Reqs -> Browsers \cup {Nil}]
    /\ token \in [Reqs -> Names \cup {Nil}]
    /\ who \in [Reqs -> users \cup {Nil}]

\* A session belongs to an account whose password the request named that
\* started it, or to the demo account it made, however registrations with one
\* email overlap and fail (auth.go:59-127).
OwnSessions ==
    \A r \in Reqs : session[r] # Nil =>
        \/ /\ form[r].kind \in {"register", "login"}
           /\ email[session[r]] = form[r].email
           /\ hash[session[r]] = form[r].password
        \/ /\ form[r].kind = "demo"
           /\ email[session[r]] = Nil
           /\ \A q \in Reqs \ {r} : session[q] # session[r]

\* A request past a step that names a user has one.
KnownUser == \A r \in Reqs : pc[r] = "session" => who[r] # Nil

\* A registration that goes on finds the account it has made.
MadeAccount ==
    \A r \in Reqs : pc[r] = "select" =>
        \E u \in users : email[u] = form[r].email /\ hash[u] = form[r].password

\* A request is where requests of its kind can be.
KindOfStep ==
    \A r \in Reqs :
        /\ pc[r] = "idle" => form[r] = NoForm /\ who[r] = Nil /\ session[r] = Nil
        /\ pc[r] \in {"register", "login", "demo", "logout", "edit", "upload"} =>
              form[r].kind = pc[r] /\ session[r] = Nil
        /\ pc[r] = "demo" => who[r] = Nil
        /\ pc[r] = "select" => form[r].kind = "register"
        /\ pc[r] = "act" => form[r].kind \in {"edit", "upload"}
        /\ pc[r] \in {"select", "act", "session"} => session[r] = Nil
        /\ pc[r] = "session" => form[r].kind \in {"register", "login", "demo"}

\* The session to come is the request's own.
Proved ==
    \A r \in Reqs : pc[r] = "session" =>
        IF form[r].kind = "demo"
        THEN email[who[r]] = Nil
        ELSE email[who[r]] = form[r].email /\ hash[who[r]] = form[r].password

\* Every demo log in has an account of its own.
OwnDemo ==
    /\ \A q, r \in Reqs : /\ form[q].kind = "demo" /\ form[r].kind = "demo"
                          /\ who[q] = who[r] /\ who[r] # Nil
                          => q = r
    /\ \A r \in Reqs : form[r].kind = "demo" /\ session[r] # Nil => session[r] = who[r]

\* The inductive invariant behind OwnSessions.
AuthInv ==
    Unique /\ OwnSessions /\ KnownUser /\ MadeAccount /\ KindOfStep /\ Proved /\ OwnDemo

=============================================================================
