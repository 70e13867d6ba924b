-------------------------------- MODULE Rows --------------------------------
(***************************************************************************)
(* Rows of a list, named by their ids, as the queries of internal/store    *)
(* select them: ORDER BY id DESC LIMIT k.                                  *)
(***************************************************************************)
EXTENDS Integers, FiniteSets

\* The first k rows of S, newest first.
FirstOf(S, k) == {n \in S : Cardinality({m \in S : n < m}) < k}

\* The row a page begins with, and the one it ends with.
NewestOf(S) == CHOOSE n \in S : \A m \in S : m <= n
OldestOf(S) == CHOOSE n \in S : \A m \in S : n <= m

=============================================================================
