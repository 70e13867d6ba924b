----------------------------- MODULE MCFeedPage -----------------------------
(***************************************************************************)
(* A small instance of FeedPage: two videos and three comments, two of     *)
(* them posted from the page.                                              *)
(***************************************************************************)
EXTENDS FeedPage

CONSTANTS v1, v2

\* The last comment is on the other video.
SomeVideos == [n \in Ids |-> IF n = MaxId THEN v2 ELSE v1]

=============================================================================
