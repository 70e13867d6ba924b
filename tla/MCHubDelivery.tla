--------------------------- MODULE MCHubDelivery ---------------------------
(***************************************************************************)
(* Small instances of HubDelivery: tabs of one user on one instance.       *)
(***************************************************************************)
EXTENDS HubDelivery

CONSTANTS i1, u1, c1, c2, c3

OnOneInstance == [c \in Conns |-> i1]
OneUser       == [c \in Conns |-> u1]

=============================================================================
