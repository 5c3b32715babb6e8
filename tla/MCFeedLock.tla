----------------------------- MODULE MCFeedLock -----------------------------
(* Two feed processes; the key outlives one failed renewal, not two.        *)
EXTENDS FeedLock

CONSTANTS feed1, feed2
MCInstances == {feed1, feed2}
=============================================================================
