----------------------------- MODULE MCUploads -----------------------------
(* An instance of Uploads for TLC: requests of two processes.              *)
EXTENDS Uploads, TLC

CONSTANTS i1, i2, r1, r2, r3

\* The last request is sent to the second instance.
LastOnSecond == [r \in Names |-> IF r = r3 THEN i2 ELSE i1]

Symmetry == Permutations(Users) \cup Permutations(Passwords) \cup Permutations(Reqs \ {r3})

\* Bound: at most one account exists before; others are made by the requests.
SmallInit == Init /\ \A u, v \in users : u = v

SmallSpec == SmallInit /\ [][Next]_vars

=============================================================================
