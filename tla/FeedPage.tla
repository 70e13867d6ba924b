------------------------------ MODULE FeedPage ------------------------------
(***************************************************************************)
(* The feed page (web/static/js/feed.js): the hearts on the cards and the  *)
(* comment sheet over them, whose requests are under way side by side.     *)
(***************************************************************************)
EXTENDS CommentSheet, Hearts

CONSTANT MaxMoves   \* bound: what the user does, in this tab and in others

ASSUME MaxMovesAssumption == MaxMoves \in Nat

VARIABLE moves

vars == <<sheetVars, heartVars, moves>>

Init ==
    /\ SheetInit
    /\ HeartInit
    /\ moves = 0

UserMoves ==
    /\ moves < MaxMoves
    /\ moves' = moves + 1
    /\ \/ SheetMove /\ UNCHANGED heartVars
       \/ HeartMove /\ UNCHANGED sheetVars

OthersMove ==
    /\ UNCHANGED moves
    /\ \/ SheetStep /\ UNCHANGED heartVars
       \/ HeartStep /\ UNCHANGED sheetVars

Next == UserMoves \/ OthersMove

Spec == Init /\ [][Next]_vars

TypeOK ==
    /\ SheetTypeOK
    /\ HeartTypeOK
    /\ moves \in 0 .. MaxMoves

=============================================================================
