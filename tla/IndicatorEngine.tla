--------------------------- MODULE IndicatorEngine ---------------------------
(* The feed's indicator engine on one (instrument, timeframe): every closed bar *)
(* the bus delivers advances the rolling state; the bundle then goes to the     *)
(* cache and to indicator_values. The bus may drop a bar before it is handled,  *)
(* the handler may fail at the cache or the database, the process may restart.  *)
EXTENDS Indicators

CONSTANTS Instants,      \* the times of the bars, in order: [day, minute]
          Shapes,        \* what a bar can look like: [h, l, c, v]
          MaxMishaps     \* bound: lost bars, failures and restarts

ASSUME BarsAreNumbers ==
    /\ Instants \in Seq([day : Int, minute : Int])
    /\ Shapes \subseteq [h : Int, l : Int, c : Int, v : Int]

VARIABLES
    closed,     \* the bars the candle builder has closed
    state,      \* _states[key]; a new one is as good as none
    cached,     \* the cached bundle, or Never
    values,     \* indicator_values: bar -> bundle, keyed by the bar's place in closed
    seen,       \* history: the bars handled since the process started
    mishaps
engineVars == <<closed, state, cached, values, seen, mishaps>>

EngineInit ==
    /\ closed = <<>> /\ state = NewState /\ cached = Never /\ values = <<>>
    /\ seen = <<>> /\ mishaps = 0

Quote(s) == [bundle |-> Bundle(s), vwap |-> VwapOf(s)]
NextBars ==
    IF Len(closed) = Len(Instants) THEN {}
    ELSE {[h |-> s.h, l |-> s.l, c |-> s.c, v |-> s.v,
           day |-> Instants[Len(closed) + 1].day, minute |-> Instants[Len(closed) + 1].minute] : s \in Shapes}
Mishap == mishaps < MaxMishaps /\ mishaps' = mishaps + 1

(* on_candle_closed, up to the place where it fails, or to the row stored and   *)
(* IndicatorCalculated published.                                              *)
Handle(bar, done) ==
    LET new == Update(state, bar)
        n == Len(closed) + 1
    IN  /\ closed' = Append(closed, bar) /\ seen' = Append(seen, bar) /\ state' = new
        /\ cached' = IF done = "nothing" THEN cached ELSE Quote(new)
        /\ values' = IF done = "all"
                   THEN [i \in DOMAIN values \cup {n} |-> IF i = n THEN Quote(new) ELSE values[i]] ELSE values
OnCandleClosed == \E bar \in NextBars : Handle(bar, "all") /\ UNCHANGED mishaps
CacheFails == Mishap /\ \E bar \in NextBars : Handle(bar, "nothing")
PersistFails == Mishap /\ \E bar \in NextBars : Handle(bar, "cached")

(* The engine's queue is full, and the bus refuses the bar.                     *)
BarDropped ==
    /\ Mishap /\ \E bar \in NextBars : closed' = Append(closed, bar)
    /\ UNCHANGED <<state, cached, values, seen>>
(* No warm-up: a new process starts from empty states.                         *)
EngineRestart ==
    /\ Mishap /\ state' = NewState /\ seen' = <<>>
    /\ UNCHANGED <<closed, cached, values>>

EngineNext == OnCandleClosed \/ CacheFails \/ PersistFails \/ BarDropped \/ EngineRestart
EngineSpec == EngineInit /\ [][EngineNext]_engineVars

-----------------------------------------------------------------------------
(* What the incremental state says is what the batch functions compute from the *)
(* bars handled since the start (ADX from the last Window of them); its VWAP is *)
(* the mean, weighted by volume, of the bars since the session's first.        *)
SessionStart(bars) ==
    LET opens(i) == SessionOpen(bars[i])
        inSession == {i \in DOMAIN bars : opens(i) # Never}
    IN  IF inSession = {} THEN 1
        ELSE Min({i \in inSession : \A j \in inSession : j >= i => opens(j) = opens(i)})
MatchesBatch ==
    seen # <<>> =>
        LET recent == SubSeq(seen, Larger(1, Len(seen) - Window + 1), Len(seen))
        IN  /\ Bundle(state) = [ComputeBundle(seen) EXCEPT !.adx = ComputeBundle(recent).adx]
            /\ VwapOf(state) = Vwap(SubSeq(seen, SessionStart(seen), Len(seen)))
=============================================================================
