----------------------------- MODULE MCMessages -----------------------------
(***************************************************************************)
(* A small instance of Messages: two members with a WebSocket each, and a  *)
(* user who is not a member.                                               *)
(***************************************************************************)
EXTENDS Messages, TLC

CONSTANTS a, b, x, ta, tb, s1, s2, m1, m2

OwnerOf == (ta :> a) @@ (tb :> b)

\* a sends twice on its WebSocket, or both members send; b marks on its
\* WebSocket and by POST, or a and someone who is not a member mark.
SendLanes == {(s1 :> ta @@ s2 :> ta), (s1 :> ta @@ s2 :> b)}
MarkLanes == {(m1 :> tb @@ m2 :> b), (m1 :> ta @@ m2 :> x)}
SomeLanes == {f @@ g : f \in SendLanes, g \in MarkLanes}

=============================================================================
