------------------------- MODULE MCFeedMetadataSync -------------------------
(* Model values and small constant sets for checking FeedMetadataSync.    *)
EXTENDS FeedMetadataSync, TLC

CONSTANTS gov, f1, f2, g1, t1

MCFeeds == {gov, f1, f2}
MCGroups == {g1}
MCTiers == {t1}
(* The service configured for every feed, or for the legacy feeds only.   *)
MCConfigChoices == {{gov, f1, f2}, {f1, f2}}
=============================================================================
