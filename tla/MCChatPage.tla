----------------------------- MODULE MCChatPage -----------------------------
(***************************************************************************)
(* A small instance of ChatPage: two conversations and three messages, the *)
(* second of them sent from the page.                                      *)
(***************************************************************************)
EXTENDS ChatPage

CONSTANTS c1, c2

\* The first message in c2, the other ones in c1.
SomeHomes == {[n \in Ids |-> IF n = 1 THEN c2 ELSE c1]}

=============================================================================
