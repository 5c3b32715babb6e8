----------------------------- MODULE MCServices -----------------------------
(* Seven parts of the system that share no state, explored side by side: a       *)
(* behaviour picks one of them at the start, its scene, and the others stay as  *)
(* they were. Their product would only multiply the states.                    *)
EXTENDS Realtime, Sessions, Reports, IndicatorEngine, Backtest, News, ResilientWS

VARIABLE scene
vars == <<scene, rtVars, sessionVars, reportVars, engineVars, backtestVars, newsVars, clientVars>>

TheEvents == {[kind |-> "quote", symbol |-> "nifty"], [kind |-> "news", symbol |-> None],
              [kind |-> "other", symbol |-> None]}
TheWanted == {{<<"quotes">>, <<"indices">>, <<"news">>}}

TheLimit == [acct |-> 2, ip |-> 3]

(* Two strategies lost and gained on the first day.                            *)
ThePast == <<[exit |-> 0, pnl |-> 5, strategy |-> "b"], [exit |-> 0, pnl |-> -3, strategy |-> "a"]>>

(* Two bars in a row outside any session, a half day, a weekend, a Muhurat.     *)
TheInstants == [i \in 1 .. 6 |->
    [day |-> <<0, 0, 1, 1, 5, 6>>[i], minute |-> <<600, 1200, 560, 600, 600, 1100>>[i]]]
TheMuhurat == [d \in {6} |-> [open |-> 1080, close |-> 1140]]
TheHalfDays == [d \in {1} |-> 600]
TheShapes == {[h |-> 12000, l |-> 9000, c |-> 10000, v |-> 0], [h |-> 15000, l |-> 11000, c |-> 14000, v |-> 3]}

Flat == [h |-> 1200, l |-> 900, c |-> 1000, v |-> 1]
Up == [h |-> 1500, l |-> 1000, c |-> 1400, v |-> 2]
Down == [h |-> 1000, l |-> 600, c |-> 700, v |-> 0]
Index(c) == [h |-> c, l |-> c, c |-> c, v |-> 1]
TheDayShapes == {<<Flat, Index(100)>>, <<Up, Index(100)>>, <<Up, Index(160)>>,
                 <<Down, Index(160)>>, <<Never, Index(100)>>}
(* A strategy that looks at all of its context but the bundle.                 *)
TheEvaluate(ctx) ==
    LET c == Last(ctx.bars).c
    IN  IF ctx.rs # Never /\ ctx.rs >= 0 /\ ctx.trend # "short"
        THEN [dir |-> "long", entry |-> c, stop |-> c - 350, target |-> c + 400]
        ELSE IF ctx.prevClose # Never /\ ctx.prevClose > c /\ ctx.trend # "long"
        THEN [dir |-> "short", entry |-> c, stop |-> c + 350, target |-> c - 300]
        ELSE NoSignal

Init ==
    /\ scene \in {"stream", "sessions", "reports", "indicators", "backtest", "news", "socket"}
    /\ RealtimeInit /\ SessionsInit /\ ReportsInit /\ EngineInit /\ BacktestInit
    /\ NewsInit /\ ClientInit
Next ==
    /\ \/ /\ scene = "stream" /\ RealtimeNext
          /\ UNCHANGED <<sessionVars, reportVars, engineVars, backtestVars, newsVars, clientVars>>
       \/ /\ scene = "sessions" /\ SessionsNext
          /\ UNCHANGED <<rtVars, reportVars, engineVars, backtestVars, newsVars, clientVars>>
       \/ /\ scene = "reports" /\ ReportsNext
          /\ UNCHANGED <<rtVars, sessionVars, engineVars, backtestVars, newsVars, clientVars>>
       \/ /\ scene = "indicators" /\ EngineNext
          /\ UNCHANGED <<rtVars, sessionVars, reportVars, backtestVars, newsVars, clientVars>>
       \/ /\ scene = "backtest" /\ NextDay
          /\ UNCHANGED <<rtVars, sessionVars, reportVars, engineVars, newsVars, clientVars>>
       \/ /\ scene = "news" /\ NewsNext
          /\ UNCHANGED <<rtVars, sessionVars, reportVars, engineVars, backtestVars, clientVars>>
       \/ /\ scene = "socket" /\ ClientNext
          /\ UNCHANGED <<rtVars, sessionVars, reportVars, engineVars, backtestVars, newsVars>>
    /\ UNCHANGED scene
Spec == Init /\ [][Next]_vars
=============================================================================
