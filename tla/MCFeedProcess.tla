---------------------------- MODULE MCFeedProcess ----------------------------
(* Small instances of FeedProcess; time in ticks. *)
EXTENDS FeedProcess
MCTasks == {"quote_stream", "session_watch"}
MCBase == [t \in Tasks |-> 1]
MCMaxDelay == [t \in Tasks |-> 2]
==============================================================================
