------------------------------ MODULE Signals ------------------------------
(* The strategy library of the Alpha Engine: thirteen pure functions from the  *)
(* context of one instrument to at most one signal (the empty set when a       *)
(* strategy abstains), the indicator helpers they call, and the registry       *)
(* entry of each.                                                              *)
(*                                                                             *)
(* Prices are integers in units of 1/120, so that the library's multiples of   *)
(* the ATR and its thirds are exact; percentages are in hundredths,            *)
(* confidences in thousandths. A context holds what the strategies read of the *)
(* bars (last bar, previous close, extremes, averages), not the bars.          *)
EXTENDS Integers, Sequences, FiniteSets

CONSTANT None   \* Python's None: a timeframe, indicator or input that is absent
ASSUME NoneIsNoNumber == None \notin Int

Long == "long"
Short == "short"
Flat == "none"

Abs(n) == IF n < 0 THEN -n ELSE n
Least(a, b) == IF a <= b THEN a ELSE b
Most(a, b) == IF a >= b THEN a ELSE b
Clamp(n, lo, hi) == Most(lo, Least(hi, n))
Between(lo, n, hi) == lo <= n /\ n <= hi

PctChange(a, b) == IF a = 0 THEN 0 ELSE ((b - a) * 10000) \div a

(* What a strategy emits: levels, confidence, and the volume surge if it is a feature. *)
Signal(key, dir, entry, stop, targets, confidence, surge) ==
    [key |-> key, dir |-> dir, entry |-> entry, stop |-> stop, targets |-> targets,
     confidence |-> Clamp(confidence, 0, 1000), surge |-> surge]

Risk(s) == Abs(s.entry - s.stop)
Reward(s) == IF s.targets = <<>> THEN 0 ELSE Abs(s.targets[1] - s.entry)
RiskReward(s) == IF Risk(s) = 0 THEN 0 ELSE (100 * Reward(s)) \div Risk(s)

Has(x, bars, n) == x[bars] # None /\ x[bars] >= n
Positive(v) == v # None /\ v > 0
Up(entry, unit, steps) == [i \in DOMAIN steps |-> entry + (unit * steps[i]) \div 10]
Down(entry, unit, steps) == [i \in DOMAIN steps |-> entry - (unit * steps[i]) \div 10]

(* sma(volumes, 20) with the last bar among the twenty; 0 when there are fewer. *)
VolumeMean(x) == IF x.n5 >= 20 THEN (19 * x.mean5 + x.vol5) \div 20 ELSE 0
VolumeOk(x) == VolumeMean(x) = 0 \/ 10 * x.vol5 > 12 * VolumeMean(x)
(* last.volume over the mean of the twenty bars before it, in hundredths *)
Surge(x) == IF x.mean1 = 0 THEN 0 ELSE (100 * x.vol1) \div x.mean1

(* What the stored bars of an instrument and their indicators can be. *)
IsContext(x) ==
    /\ {x.n5, x.n1, x.minutes, x.prevClose, x.dayOpen} \subseteq Nat \cup {None}
    /\ {x.close5, x.close1} \subseteq Nat \ {0}
    /\ {x.vol5, x.mean5, x.vol1, x.mean1, x.close10} \subseteq Nat
    /\ {x.prev5, x.low5, x.high5, x.orHigh, x.orLow, x.open1, x.low1, x.high1, x.high20,
        x.priorHigh, x.priorLow, x.priorClose} \subseteq Int
    /\ x.orLow <= x.orHigh
    /\ {x.vwap, x.atr5, x.atr1, x.e9, x.e21, x.e50, x.adx1, x.rsi1, x.strength, x.news, x.pcr,
        x.maxPain, x.ivPercentile} \subseteq Int \cup {None}

-----------------------------------------------------------------------------
OpeningRangeBreakout(x) ==
    LET atr == IF Positive(x.atr5) THEN x.atr5 ELSE x.orHigh - x.orLow
        up == IF x.close5 - x.orLow < 2 * atr THEN x.orLow ELSE x.close5 - (3 * atr) \div 2
        down == IF x.orHigh - x.close5 < 2 * atr THEN x.orHigh ELSE x.close5 + (3 * atr) \div 2
    IN  IF ~(Has(x, "n5", 6) /\ x.minutes # None /\ Between(15, x.minutes, 300) /\ VolumeOk(x))
        THEN {}
        ELSE IF x.close5 > x.orHigh
        THEN {Signal("orb", Long, x.close5, up, Up(x.close5, x.close5 - up, <<15, 25>>), 650, None)}
        ELSE IF x.close5 < x.orLow
        THEN {Signal("orb", Short, x.close5, down, Down(x.close5, down - x.close5, <<15, 25>>), 650, None)}
        ELSE {}

VWAPBreakout(x, trend) ==
    IF ~(Has(x, "n5", 15) /\ x.vwap # None /\ Positive(x.atr5)) THEN {}
    ELSE IF x.prev5 <= x.vwap /\ x.vwap < x.close5 /\ trend # Short
    THEN {Signal("vwap_breakout", Long, x.close5, x.vwap - x.atr5 \div 2, Up(x.close5, x.atr5, <<10, 20>>),
                 IF trend = Long THEN 620 ELSE 500, None)}
    ELSE IF x.prev5 >= x.vwap /\ x.vwap > x.close5 /\ trend # Long
    THEN {Signal("vwap_breakout", Short, x.close5, x.vwap + x.atr5 \div 2, Down(x.close5, x.atr5, <<10, 20>>),
                 IF trend = Short THEN 620 ELSE 500, None)}
    ELSE {}

VolumeBreakout(x) ==
    IF /\ Has(x, "n1", 25) /\ Positive(x.atr1)
       /\ x.close1 > x.high20 /\ Surge(x) >= 200 /\ x.close1 >= x.open1
    THEN {Signal("volume_breakout", Long, x.close1, x.close1 - 2 * x.atr1, Up(x.close1, x.atr1, <<20, 40>>),
                 Least(850, 500 + Surge(x) - 100), Surge(x))}
    ELSE {}

(* central_pivot_range of the session before: bounds of the range and the first targets *)
Pivots(h, l, c) ==
    LET pivot == (h + l + c) \div 3
        half == (h + l) \div 2
        mirror == 2 * pivot - half
    IN  [pivot |-> pivot, bc |-> Least(half, mirror), tc |-> Most(half, mirror),
         r |-> <<2 * pivot - l, pivot + (h - l)>>, s |-> <<2 * pivot - h, pivot - (h - l)>>]

CPRBreakout(x) ==
    LET p == Pivots(x.priorHigh, x.priorLow, x.priorClose)
    IN  IF ~(Has(x, "n5", 10) /\ x.prevClose # None /\ Has(x, "n1", 2)) THEN {}
        ELSE IF 1000 * (p.tc - p.bc) > 4 * x.priorClose THEN {}
        ELSE IF x.close5 > Most(p.tc, p.pivot)
        THEN {Signal("cpr_breakout", Long, x.close5, p.bc, p.r, 550, None)}
        ELSE IF x.close5 < Least(p.bc, p.pivot)
        THEN {Signal("cpr_breakout", Short, x.close5, p.tc, p.s, 550, None)}
        ELSE {}

-----------------------------------------------------------------------------
EMATrend(x) ==
    LET confidence == IF x.adx1 # None /\ x.adx1 >= 20 THEN 620 ELSE 500
    IN  IF ~(Has(x, "n1", 55) /\ None \notin {x.e9, x.e21, x.e50} /\ Positive(x.atr1)) THEN {}
        ELSE IF x.e9 > x.e21 /\ x.e21 > x.e50 /\ x.close1 > x.e21
        THEN {Signal("ema_trend", Long, x.close1, x.e50 - x.atr1, Up(x.close1, x.atr1, <<20, 40>>), confidence, None)}
        ELSE IF x.e9 < x.e21 /\ x.e21 < x.e50 /\ x.close1 < x.e21
        THEN {Signal("ema_trend", Short, x.close1, x.e50 + x.atr1, Down(x.close1, x.atr1, <<20, 40>>), confidence, None)}
        ELSE {}

EMAPullback(x) ==
    LET near(edge) == 2 * Abs(edge - x.e21) <= x.atr1 \/ Between(x.low1, x.e21, x.high1)
        calm(lo, hi) == x.rsi1 = None \/ Between(lo, x.rsi1, hi)
    IN  IF ~(Has(x, "n1", 55) /\ None \notin {x.e21, x.e50} /\ Positive(x.atr1)) THEN {}
        ELSE IF x.e21 > x.e50 /\ near(x.low1) /\ x.close1 > x.e21 /\ calm(40, 65)
        THEN {Signal("ema_pullback", Long, x.close1, Least(x.low1, x.e50) - x.atr1 \div 5,
                     Up(x.close1, x.atr1, <<15, 30>>), 550, None)}
        ELSE IF x.e21 < x.e50 /\ near(x.high1) /\ x.close1 < x.e21 /\ calm(35, 60)
        THEN {Signal("ema_pullback", Short, x.close1, Most(x.high1, x.e50) + x.atr1 \div 5,
                     Down(x.close1, x.atr1, <<15, 30>>), 550, None)}
        ELSE {}

VWAPPullback(x, trend) ==
    IF ~(Has(x, "n5", 15) /\ x.vwap # None /\ Positive(x.atr5) /\ Between(x.low5, x.vwap, x.high5)) THEN {}
    ELSE IF x.close5 > x.vwap /\ x.prev5 > x.vwap /\ trend = Long
    THEN {Signal("vwap_pullback", Long, x.close5, x.vwap - (3 * x.atr5) \div 4, Up(x.close5, x.atr5, <<10, 20>>), 550, None)}
    ELSE IF x.close5 < x.vwap /\ x.prev5 < x.vwap /\ trend = Short
    THEN {Signal("vwap_pullback", Short, x.close5, x.vwap + (3 * x.atr5) \div 4, Down(x.close5, x.atr5, <<10, 20>>), 550, None)}
    ELSE {}

-----------------------------------------------------------------------------
(* relative_strength is in percent, in hundredths: 0.03 of confidence per percent *)
RelativeStrength(x, trend) ==
    IF /\ Has(x, "n1", 30) /\ x.strength # None /\ x.e50 # None /\ Positive(x.atr1)
       /\ x.strength > 200 /\ x.close1 > x.e50 /\ trend = Long
    THEN {Signal("relative_strength", Long, x.close1, x.e50 - x.atr1, Up(x.close1, x.atr1, <<20, 40>>),
                 Least(850, 500 + (3 * x.strength) \div 10), None)}
    ELSE {}

RelativeWeakness(x, trend) ==
    IF /\ Has(x, "n1", 30) /\ x.strength # None /\ x.e50 # None /\ Positive(x.atr1)
       /\ x.strength < -200 /\ x.close1 < x.e50 /\ trend = Short
    THEN {Signal("relative_weakness", Short, x.close1, x.e50 + x.atr1, Down(x.close1, x.atr1, <<20, 40>>),
                 Least(850, 500 + (3 * Abs(x.strength)) \div 10), None)}
    ELSE {}

Momentum(x) ==
    LET move == PctChange(x.close10, x.close1)
        confidence == Least(800, 500 + Abs(move) \div 5)
    IN  IF ~(Has(x, "n1", 30) /\ Positive(x.atr1) /\ x.rsi1 # None) THEN {}
        ELSE IF move > 600 /\ Between(55, x.rsi1, 72)
        THEN {Signal("momentum", Long, x.close1, x.close1 - 2 * x.atr1, Up(x.close1, x.atr1, <<20, 35>>), confidence, None)}
        ELSE IF move < -600 /\ Between(28, x.rsi1, 45)
        THEN {Signal("momentum", Short, x.close1, x.close1 + 2 * x.atr1, Down(x.close1, x.atr1, <<20, 35>>), confidence, None)}
        ELSE {}

-----------------------------------------------------------------------------
GapReady(x, bars, last) ==
    Has(x, "n5", bars) /\ None \notin {x.prevClose, x.dayOpen, x.minutes} /\ x.minutes <= last
GapATR(x) == IF Positive(x.atr5) THEN x.atr5 ELSE Abs(x.dayOpen - x.prevClose)

GapAndGo(x) ==
    LET gap == PctChange(x.prevClose, x.dayOpen)
        atr == GapATR(x)
        confidence == 500 + Least(200, (3 * Abs(gap)) \div 10)
    IN  IF ~(GapReady(x, 4, 90) /\ VolumeOk(x)) THEN {}
        ELSE IF gap >= 150 /\ x.close5 > x.dayOpen
        THEN {Signal("gap_and_go", Long, x.close5, x.dayOpen - (3 * atr) \div 10, Up(x.close5, atr, <<15, 30>>), confidence, None)}
        ELSE IF gap <= -150 /\ x.close5 < x.dayOpen
        THEN {Signal("gap_and_go", Short, x.close5, x.dayOpen + (3 * atr) \div 10, Down(x.close5, atr, <<15, 30>>), confidence, None)}
        ELSE {}

GapFill(x) ==
    LET gap == PctChange(x.prevClose, x.dayOpen)
        atr == GapATR(x)
    IN  IF ~GapReady(x, 4, 120) THEN {}
        ELSE IF Between(100, gap, 300) /\ x.close5 < x.prev5 /\ x.prev5 < x.dayOpen
        THEN {Signal("gap_fill", Short, x.close5, x.dayOpen + atr \div 2, <<x.prevClose>>, 500, None)}
        ELSE IF Between(-300, gap, -100) /\ x.close5 > x.prev5 /\ x.prev5 > x.dayOpen
        THEN {Signal("gap_fill", Long, x.close5, x.dayOpen - atr \div 2, <<x.prevClose>>, 500, None)}
        ELSE {}

(* is_contracting(ranges, 6): no range above the one before the window, the last not above the first *)
IsContracting(ranges, lookback) ==
    /\ Len(ranges) > lookback
    /\ LET n == Len(ranges)
           prior == ranges[n - lookback]
       IN  /\ \A i \in (n - lookback + 1)..n : ranges[i] <= prior
           /\ ranges[n] <= ranges[n - lookback + 1]

VolatilityContraction(x) ==
    IF /\ Has(x, "n1", 30) /\ Positive(x.atr1)
       /\ IsContracting(x.ranges, 6) /\ x.close1 > x.high20 /\ Surge(x) >= 150 /\ x.close1 >= x.open1
    THEN {Signal("vcp", Long, x.close1, x.close1 - (3 * x.atr1) \div 2, Up(x.close1, x.atr1, <<25, 50>>),
                 Least(850, 550 + Surge(x) - 100), Surge(x))}
    ELSE {}

-----------------------------------------------------------------------------
(* The registry: what evaluating a key means, and the regimes it declares. *)
Evaluate(key, x, trend) ==
    CASE key = "orb" -> OpeningRangeBreakout(x)
      [] key = "vwap_breakout" -> VWAPBreakout(x, trend)
      [] key = "volume_breakout" -> VolumeBreakout(x)
      [] key = "cpr_breakout" -> CPRBreakout(x)
      [] key = "gap_and_go" -> GapAndGo(x)
      [] key = "gap_fill" -> GapFill(x)
      [] key = "relative_strength" -> RelativeStrength(x, trend)
      [] key = "relative_weakness" -> RelativeWeakness(x, trend)
      [] key = "momentum" -> Momentum(x)
      [] key = "ema_trend" -> EMATrend(x)
      [] key = "ema_pullback" -> EMAPullback(x)
      [] key = "vwap_pullback" -> VWAPPullback(x, trend)
      [] key = "vcp" -> VolatilityContraction(x)

Trends == {"trending_bull", "trending_bear"}
Compatible ==
    [orb               |-> Trends \cup {"gap_up_trend"},
     vwap_breakout     |-> Trends,
     volume_breakout   |-> Trends \cup {"range"},
     cpr_breakout      |-> Trends,
     gap_and_go        |-> Trends \cup {"gap_up_trend"},
     gap_fill          |-> {"range", "distribution"},
     relative_strength |-> {"trending_bull", "gap_up_trend"},
     relative_weakness |-> {"trending_bear", "gap_down_panic"},
     momentum          |-> Trends,
     ema_trend         |-> Trends \cup {"gap_up_trend", "gap_down_panic"},
     ema_pullback      |-> Trends \cup {"gap_up_trend", "gap_down_panic"},
     vwap_pullback     |-> Trends,
     vcp               |-> {"trending_bull", "accumulation", "low_volatility"}]

(* The order in which the library's modules register them. *)
Library == <<"orb", "vwap_breakout", "volume_breakout", "cpr_breakout", "gap_and_go", "gap_fill",
             "relative_strength", "relative_weakness", "momentum", "ema_trend", "ema_pullback",
             "vwap_pullback", "vcp">>
Keys == DOMAIN Compatible

IsCompatible(key, regimes) == regimes = {} \/ Compatible[key] \cap regimes # {}
=============================================================================
