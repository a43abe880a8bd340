---------------------------- MODULE MCFeedClient ----------------------------
(* FeedClient for TLC: two archives as model values.                      *)
EXTENDS FeedClient

CONSTANTS a1, a2

MCArchives == {a1, a2}

=============================================================================
