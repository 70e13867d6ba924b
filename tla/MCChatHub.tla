----------------------------- MODULE MCChatHub -----------------------------
(***************************************************************************)
(* Small instances of ChatHub: connections of one or two users, on one     *)
(* instance or two.                                                        *)
(***************************************************************************)
EXTENDS ChatHub

CONSTANTS i1, i2, u1, u2, c1, c2, c3

\* Everything on one instance.
OnOneInstance == [c \in Conns |-> i1]

\* The last connection is accepted by the second instance.
LastOnSecond == [c \in Conns |-> IF c = c3 THEN i2 ELSE i1]

\* Tabs of one user.
OneUser == [c \in Conns |-> u1]

\* The first connection belongs to another user.
FirstIsOther == [c \in Conns |-> IF c = c1 THEN u2 ELSE u1]

=============================================================================
