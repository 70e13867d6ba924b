------------------------------ MODULE ChatLog ------------------------------
(***************************************************************************)
(* What a conversation promises its members, whatever transactions,        *)
(* connections and Redis do underneath: a log of messages that only grows, *)
(* pushes and read receipts that never run ahead of what is stored, and    *)
(* read cursors that never go back.  Messages refines this specification.  *)
(***************************************************************************)
EXTENDS Integers

CONSTANT Members

VARIABLES
    log,        \* the messages, each with its id and its sender
    heard,      \* what has been pushed to each member
    read,       \* the last message each member has read, 0: none
    receipts    \* "u has read up to n", as told to the other members

vars == <<log, heard, read, receipts>>

Init ==
    /\ log = {}
    /\ heard = [u \in Members |-> {}]
    /\ read = [u \in Members |-> 0]
    /\ receipts = {}

\* A member's message gets an id no other one has, and stays as it is.
Post ==
    /\ \E e \in log' \ log :
          /\ e.id \in Nat \ {0} /\ e.from \in Members
          /\ \A f \in log : f.id # e.id
          /\ log' = log \cup {e}
    /\ UNCHANGED <<heard, read, receipts>>

Hear(u) ==
    /\ \E e \in log : heard' = [heard EXCEPT ![u] = @ \cup {e}]
    /\ UNCHANGED <<log, read, receipts>>

Advance(u) ==
    /\ \E e \in log : e.id > read[u] /\ read' = [read EXCEPT ![u] = e.id]
    /\ UNCHANGED <<log, heard, receipts>>

Receipt(u) ==
    /\ \E n \in 0 .. read[u] : receipts' = receipts \cup {[by |-> u, upto |-> n]}
    /\ UNCHANGED <<log, heard, read>>

Next == Post \/ \E u \in Members : Hear(u) \/ Advance(u) \/ Receipt(u)

Spec == Init /\ [][Next]_vars

=============================================================================
