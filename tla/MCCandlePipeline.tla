-------------------------- MODULE MCCandlePipeline --------------------------
(* Bars of one and of two minutes; minute 2 lies between two sessions.      *)
EXTENDS CandlePipeline

MCWidth   == <<1, 2>>
MCSession == {0, 1, 3}
(* The exchange traded at minutes the feed may have missed; of minute 1 the *)
(* broker knows no opening price.                                           *)
MCHistory == <<[ts \in Minutes |-> IF ts = 2 THEN NoBar
                                   ELSE Bar(ts, IF ts = 1 THEN 0 ELSE 1, 2, 1, 2, 1)],
               [ts \in Minutes |-> IF ts % 2 = 0 THEN Bar(ts, 2, 3, 1, 1, 2) ELSE NoBar]>>
MCRanges == {<<0, 3>>}
=============================================================================
