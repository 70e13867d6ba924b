--------------------------- MODULE DirectMessages ---------------------------
(***************************************************************************)
(* GetOrCreateDMConversation (internal/store/chat.go): one READ COMMITTED  *)
(* transaction that looks for the conversation of two users and creates it *)
(* if there is none.  No key of conversations or conversation_participants *)
(* is unique for a pair of users, so that requests never wait.             *)
(***************************************************************************)
EXTENDS FiniteSets

CONSTANTS
    Users,
    Requests,   \* POST /api/conversations with a user_id
    None        \* no conversation

VARIABLES
    pair,           \* the user a request comes from, and the one it names
    conversations,  \* committed 'dm' conversations, named by their requests
    pc,             \* the statement each request runs next
    answer          \* the conversation a request is answered with

vars == <<pair, conversations, pc, answer>>

Init ==
    /\ pair \in [Requests -> {p \in SUBSET Users : Cardinality(p) \in {1, 2}}]
    /\ conversations = {}
    /\ pc = [r \in Requests |-> "idle"]
    /\ answer = [r \in Requests |-> None]

Goto(r, step) == pc' = [pc EXCEPT ![r] = step]

\* Nobody writes to oneself.
Begin(r) ==
    /\ pc[r] = "idle"
    /\ Goto(r, IF Cardinality(pair[r]) = 2 THEN "find" ELSE "failed")
    /\ UNCHANGED <<pair, conversations, answer>>

\* The participants of a conversation are those of the request that made it;
\* of several rows the first one is taken, in no order.
Find(r) ==
    LET found == {q \in conversations : pair[q] = pair[r]}
    IN  /\ pc[r] = "find"
        /\ \/ /\ found = {}
              /\ Goto(r, "create")
              /\ UNCHANGED answer
           \/ \E q \in found :
                 /\ Goto(r, "done")
                 /\ answer' = [answer EXCEPT ![r] = q]
        /\ UNCHANGED <<pair, conversations>>

\* The inserts of the conversation and its two participants; nothing of them
\* shows before the commit.
Create(r) ==
    /\ pc[r] = "create"
    /\ Goto(r, "commit")
    /\ UNCHANGED <<pair, conversations, answer>>

Commit(r) ==
    /\ pc[r] = "commit"
    /\ conversations' = conversations \cup {r}
    /\ answer' = [answer EXCEPT ![r] = r]
    /\ Goto(r, "done")
    /\ UNCHANGED pair

Fail(r) ==
    /\ pc[r] \in {"find", "create", "commit"}
    /\ Goto(r, "failed")
    /\ UNCHANGED <<pair, conversations, answer>>

AllEnded ==
    /\ \A r \in Requests : pc[r] \in {"done", "failed"}
    /\ UNCHANGED vars

Next ==
    \/ \E r \in Requests : Begin(r) \/ Find(r) \/ Create(r) \/ Commit(r) \/ Fail(r)
    \/ AllEnded

Spec == Init /\ [][Next]_vars

----------------------------------------------------------------------------

\* "The same pair always resolves to the same conversation"
\* (store/chat.go:12-14).
SamePairSameConversation ==
    \A q, r \in Requests :
        pc[q] = "done" /\ pc[r] = "done" /\ pair[q] = pair[r] => answer[q] = answer[r]

=============================================================================
