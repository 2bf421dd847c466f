----------------------------- MODULE MCFeedLink -----------------------------
(* Model-checking instance of FeedLink. *)
EXTENDS FeedLink, TLC

MCBreaks == (Feed1 :> 1) @@ (Feed2 :> 0) @@ (Cache :> 1)
MCNoBreaks == [l \in Links |-> 0]
MCPackets == (Feed1 :> 2) @@ (Feed2 :> 0) @@ (Cache :> 1)
=============================================================================
