--------------------------- MODULE DecisionProofs ---------------------------
(***************************************************************************)
(* From the market to a decision, for any markets, books of the portfolio, *)
(* configurations, faults and statistics that satisfy the assumptions on   *)
(* the constants.                                                          *)
(*                                                                         *)
(* The proofs follow the code from the inside out: what each strategy      *)
(* emits, what the scorecard of a signal is, what the ranking and the      *)
(* portfolio constraints leave of the candidates, what the agents report   *)
(* and the CIO makes of it.  The state machine then only carries books and *)
(* deliberations from the step that computes them to the answer.           *)
(***************************************************************************)
EXTENDS Decision, Validation, FiniteSetTheorems, SequenceTheorems, Induction

(* A signal any strategy may emit under its key. *)
Sound(s, key) ==
    /\ s.key = key /\ s.dir \in {Long, Short}
    /\ s.entry \in Nat \ {0} /\ s.stop \in Int /\ s.confidence \in 0 .. 1000
    /\ s.surge \in Int \cup {None}
    /\ s.targets = <<>> \/ s.targets[1] \in Int
    /\ Protected(s)

LEMMA LongEmitted ==
  ASSUME NEW key, NEW entry \in Nat \ {0}, NEW stop \in Int, stop < entry, NEW unit \in Int,
         NEW surge, surge = None \/ surge \in Int, NEW a \in Int, NEW b \in Int, NEW c \in Int
  PROVE  Sound(Signal(key, Long, entry, stop, Up(entry, unit, <<a, b>>), c, surge), key)
<1>1. Up(entry, unit, <<a, b>>)[1] \in Int
  BY DEF Up
<1>2. Clamp(c, 0, 1000) \in 0 .. 1000
  BY DEF Clamp, Most, Least
<1>. QED  BY <1>1, <1>2 DEF Sound, Signal, Protected

LEMMA ShortEmitted ==
  ASSUME NEW key, NEW entry \in Nat \ {0}, NEW stop \in Int, stop > entry, NEW unit \in Int,
         NEW surge, surge = None \/ surge \in Int, NEW a \in Int, NEW b \in Int, NEW c \in Int
  PROVE  Sound(Signal(key, Short, entry, stop, Down(entry, unit, <<a, b>>), c, surge), key)
<1>1. Down(entry, unit, <<a, b>>)[1] \in Int
  BY DEF Down
<1>2. Clamp(c, 0, 1000) \in 0 .. 1000
  BY DEF Clamp, Most, Least
<1>. QED  BY <1>1, <1>2 DEF Sound, Signal, Protected

LEMMA VWAPBreakoutSound ==
  ASSUME NEW x, IsContext(x), NEW trend, NEW s \in VWAPBreakout(x, trend)
  PROVE  Sound(s, "vwap_breakout")
<1>1. x.close5 \in Nat \ {0} /\ x.vwap \in Int /\ x.atr5 \in Nat \ {0}
  BY NoneIsNoNumber DEF IsContext, VWAPBreakout, Positive
<1>2. ASSUME x.vwap < x.close5, NEW a \in Int, NEW b \in Int, NEW c \in Int
      PROVE  Sound(Signal("vwap_breakout", Long, x.close5, x.vwap - x.atr5 \div 2,
                          Up(x.close5, x.atr5, <<a, b>>), c, None), "vwap_breakout")
  <2>. DEFINE stop == x.vwap - x.atr5 \div 2
  <2>1. stop \in Int /\ stop < x.close5
    BY <1>1, <1>2
  <2>. HIDE DEF stop
  <2>2. Sound(Signal("vwap_breakout", Long, x.close5, stop, Up(x.close5, x.atr5, <<a, b>>), c, None), "vwap_breakout")
    BY <1>1, <2>1, LongEmitted
  <2>. QED  BY <2>2 DEF stop
<1>3. ASSUME x.vwap > x.close5, NEW a \in Int, NEW b \in Int, NEW c \in Int
      PROVE  Sound(Signal("vwap_breakout", Short, x.close5, x.vwap + x.atr5 \div 2,
                          Down(x.close5, x.atr5, <<a, b>>), c, None), "vwap_breakout")
  <2>. DEFINE stop == x.vwap + x.atr5 \div 2
  <2>1. stop \in Int /\ stop > x.close5
    BY <1>1, <1>3
  <2>. HIDE DEF stop
  <2>2. Sound(Signal("vwap_breakout", Short, x.close5, stop, Down(x.close5, x.atr5, <<a, b>>), c, None), "vwap_breakout")
    BY <1>1, <2>1, ShortEmitted
  <2>. QED  BY <2>2 DEF stop
<1>. QED  BY <1>1, <1>2, <1>3 DEF VWAPBreakout

LEMMA VolumeBreakoutSound ==
  ASSUME NEW x, IsContext(x), NEW s \in VolumeBreakout(x)
  PROVE  Sound(s, "volume_breakout")
<1>1. /\ x.close1 \in Nat \ {0} /\ x.atr1 \in Nat \ {0} /\ x.vol1 \in Nat /\ x.mean1 \in Nat
  BY NoneIsNoNumber DEF IsContext, VolumeBreakout, Positive
<1>2. Surge(x) \in Int /\ Least(850, 500 + Surge(x) - 100) \in Int
  BY <1>1 DEF Surge, Least
<1>3. ASSUME NEW a \in Int, NEW b \in Int, NEW c \in Int
      PROVE  Sound(Signal("volume_breakout", Long, x.close1, x.close1 - 2 * x.atr1,
                          Up(x.close1, x.atr1, <<a, b>>), c, Surge(x)), "volume_breakout")
  <2>. DEFINE stop == x.close1 - 2 * x.atr1
              surge == Surge(x)
  <2>1. stop \in Int /\ stop < x.close1 /\ surge \in Int \cup {None}
    BY <1>1, <1>2, <1>3
  <2>. HIDE DEF stop, surge
  <2>2. Sound(Signal("volume_breakout", Long, x.close1, stop, Up(x.close1, x.atr1, <<a, b>>), c, surge), "volume_breakout")
    BY <1>1, <2>1, LongEmitted
  <2>. QED  BY <2>2 DEF stop, surge
<1>. QED  BY <1>1, <1>2, <1>3 DEF VolumeBreakout

LEMMA EMATrendSound ==
  ASSUME NEW x, IsContext(x), NEW s \in EMATrend(x)
  PROVE  Sound(s, "ema_trend")
<1>1. x.close1 \in Nat \ {0} /\ {x.e21, x.e50} \subseteq Int /\ x.atr1 \in Nat \ {0}
  BY NoneIsNoNumber DEF IsContext, EMATrend, Positive
<1>2. ASSUME x.e21 > x.e50, x.close1 > x.e21, NEW a \in Int, NEW b \in Int, NEW c \in Int
      PROVE  Sound(Signal("ema_trend", Long, x.close1, x.e50 - x.atr1,
                          Up(x.close1, x.atr1, <<a, b>>), c, None), "ema_trend")
  <2>. DEFINE stop == x.e50 - x.atr1
  <2>1. stop \in Int /\ stop < x.close1
    BY <1>1, <1>2
  <2>. HIDE DEF stop
  <2>2. Sound(Signal("ema_trend", Long, x.close1, stop, Up(x.close1, x.atr1, <<a, b>>), c, None), "ema_trend")
    BY <1>1, <2>1, LongEmitted
  <2>. QED  BY <2>2 DEF stop
<1>3. ASSUME x.e21 < x.e50, x.close1 < x.e21, NEW a \in Int, NEW b \in Int, NEW c \in Int
      PROVE  Sound(Signal("ema_trend", Short, x.close1, x.e50 + x.atr1,
                          Down(x.close1, x.atr1, <<a, b>>), c, None), "ema_trend")
  <2>. DEFINE stop == x.e50 + x.atr1
  <2>1. stop \in Int /\ stop > x.close1
    BY <1>1, <1>3
  <2>. HIDE DEF stop
  <2>2. Sound(Signal("ema_trend", Short, x.close1, stop, Down(x.close1, x.atr1, <<a, b>>), c, None), "ema_trend")
    BY <1>1, <2>1, ShortEmitted
  <2>. QED  BY <2>2 DEF stop
<1>. QED  BY <1>1, <1>2, <1>3 DEF EMATrend

LEMMA EMAPullbackSound ==
  ASSUME NEW x, IsContext(x), NEW s \in EMAPullback(x)
  PROVE  Sound(s, "ema_pullback")
<1>1. x.close1 \in Nat \ {0} /\ {x.e21, x.e50, x.low1, x.high1} \subseteq Int /\ x.atr1 \in Nat \ {0}
  BY NoneIsNoNumber DEF IsContext, EMAPullback, Positive
<1>2. ASSUME x.e21 > x.e50, x.close1 > x.e21, NEW a \in Int, NEW b \in Int, NEW c \in Int
      PROVE  Sound(Signal("ema_pullback", Long, x.close1, Least(x.low1, x.e50) - x.atr1 \div 5,
                          Up(x.close1, x.atr1, <<a, b>>), c, None), "ema_pullback")
  <2>. DEFINE stop == Least(x.low1, x.e50) - x.atr1 \div 5
  <2>1. stop \in Int /\ stop < x.close1
    BY <1>1, <1>2 DEF Least, Most
  <2>. HIDE DEF stop
  <2>2. Sound(Signal("ema_pullback", Long, x.close1, stop, Up(x.close1, x.atr1, <<a, b>>), c, None), "ema_pullback")
    BY <1>1, <2>1, LongEmitted
  <2>. QED  BY <2>2 DEF stop
<1>3. ASSUME x.e21 < x.e50, x.close1 < x.e21, NEW a \in Int, NEW b \in Int, NEW c \in Int
      PROVE  Sound(Signal("ema_pullback", Short, x.close1, Most(x.high1, x.e50) + x.atr1 \div 5,
                          Down(x.close1, x.atr1, <<a, b>>), c, None), "ema_pullback")
  <2>. DEFINE stop == Most(x.high1, x.e50) + x.atr1 \div 5
  <2>1. stop \in Int /\ stop > x.close1
    BY <1>1, <1>3 DEF Least, Most
  <2>. HIDE DEF stop
  <2>2. Sound(Signal("ema_pullback", Short, x.close1, stop, Down(x.close1, x.atr1, <<a, b>>), c, None), "ema_pullback")
    BY <1>1, <2>1, ShortEmitted
  <2>. QED  BY <2>2 DEF stop
<1>. QED  BY <1>1, <1>2, <1>3 DEF EMAPullback

LEMMA VWAPPullbackSound ==
  ASSUME NEW x, IsContext(x), NEW trend, NEW s \in VWAPPullback(x, trend)
  PROVE  Sound(s, "vwap_pullback")
<1>1. x.close5 \in Nat \ {0} /\ x.vwap \in Int /\ x.atr5 \in Nat \ {0}
  BY NoneIsNoNumber DEF IsContext, VWAPPullback, Positive
<1>2. ASSUME x.close5 > x.vwap, NEW a \in Int, NEW b \in Int, NEW c \in Int
      PROVE  Sound(Signal("vwap_pullback", Long, x.close5, x.vwap - (3 * x.atr5) \div 4,
                          Up(x.close5, x.atr5, <<a, b>>), c, None), "vwap_pullback")
  <2>. DEFINE stop == x.vwap - (3 * x.atr5) \div 4
  <2>1. stop \in Int /\ stop < x.close5
    BY <1>1, <1>2
  <2>. HIDE DEF stop
  <2>2. Sound(Signal("vwap_pullback", Long, x.close5, stop, Up(x.close5, x.atr5, <<a, b>>), c, None), "vwap_pullback")
    BY <1>1, <2>1, LongEmitted
  <2>. QED  BY <2>2 DEF stop
<1>3. ASSUME x.close5 < x.vwap, NEW a \in Int, NEW b \in Int, NEW c \in Int
      PROVE  Sound(Signal("vwap_pullback", Short, x.close5, x.vwap + (3 * x.atr5) \div 4,
                          Down(x.close5, x.atr5, <<a, b>>), c, None), "vwap_pullback")
  <2>. DEFINE stop == x.vwap + (3 * x.atr5) \div 4
  <2>1. stop \in Int /\ stop > x.close5
    BY <1>1, <1>3
  <2>. HIDE DEF stop
  <2>2. Sound(Signal("vwap_pullback", Short, x.close5, stop, Down(x.close5, x.atr5, <<a, b>>), c, None), "vwap_pullback")
    BY <1>1, <2>1, ShortEmitted
  <2>. QED  BY <2>2 DEF stop
<1>. QED  BY <1>1, <1>2, <1>3 DEF VWAPPullback

LEMMA RelativeStrengthSound ==
  ASSUME NEW x, IsContext(x), NEW trend, NEW s \in RelativeStrength(x, trend)
  PROVE  Sound(s, "relative_strength")
<1>1. x.close1 \in Nat \ {0} /\ {x.e50, x.strength} \subseteq Int /\ x.atr1 \in Nat \ {0}
  BY NoneIsNoNumber DEF IsContext, RelativeStrength, Positive
<1>2. Least(850, 500 + (3 * x.strength) \div 10) \in Int
  BY <1>1 DEF Least
<1>3. ASSUME x.close1 > x.e50, NEW a \in Int, NEW b \in Int, NEW c \in Int
      PROVE  Sound(Signal("relative_strength", Long, x.close1, x.e50 - x.atr1,
                          Up(x.close1, x.atr1, <<a, b>>), c, None), "relative_strength")
  <2>. DEFINE stop == x.e50 - x.atr1
  <2>1. stop \in Int /\ stop < x.close1
    BY <1>1, <1>3
  <2>. HIDE DEF stop
  <2>2. Sound(Signal("relative_strength", Long, x.close1, stop, Up(x.close1, x.atr1, <<a, b>>), c, None), "relative_strength")
    BY <1>1, <2>1, LongEmitted
  <2>. QED  BY <2>2 DEF stop
<1>. QED  BY <1>1, <1>2, <1>3 DEF RelativeStrength

LEMMA RelativeWeaknessSound ==
  ASSUME NEW x, IsContext(x), NEW trend, NEW s \in RelativeWeakness(x, trend)
  PROVE  Sound(s, "relative_weakness")
<1>1. x.close1 \in Nat \ {0} /\ {x.e50, x.strength} \subseteq Int /\ x.atr1 \in Nat \ {0}
  BY NoneIsNoNumber DEF IsContext, RelativeWeakness, Positive
<1>2. Least(850, 500 + (3 * Abs(x.strength)) \div 10) \in Int
  BY <1>1 DEF Least, Abs
<1>3. ASSUME x.close1 < x.e50, NEW a \in Int, NEW b \in Int, NEW c \in Int
      PROVE  Sound(Signal("relative_weakness", Short, x.close1, x.e50 + x.atr1,
                          Down(x.close1, x.atr1, <<a, b>>), c, None), "relative_weakness")
  <2>. DEFINE stop == x.e50 + x.atr1
  <2>1. stop \in Int /\ stop > x.close1
    BY <1>1, <1>3
  <2>. HIDE DEF stop
  <2>2. Sound(Signal("relative_weakness", Short, x.close1, stop, Down(x.close1, x.atr1, <<a, b>>), c, None), "relative_weakness")
    BY <1>1, <2>1, ShortEmitted
  <2>. QED  BY <2>2 DEF stop
<1>. QED  BY <1>1, <1>2, <1>3 DEF RelativeWeakness

LEMMA MomentumSound ==
  ASSUME NEW x, IsContext(x), NEW s \in Momentum(x)
  PROVE  Sound(s, "momentum")
<1>1. x.close1 \in Nat \ {0} /\ x.close10 \in Nat /\ x.atr1 \in Nat \ {0}
  BY NoneIsNoNumber DEF IsContext, Momentum, Positive
<1>2. Least(800, 500 + Abs(PctChange(x.close10, x.close1)) \div 5) \in Int
  BY <1>1 DEF Least, Abs, PctChange
<1>3. ASSUME NEW a \in Int, NEW b \in Int, NEW c \in Int
      PROVE  Sound(Signal("momentum", Long, x.close1, x.close1 - 2 * x.atr1,
                          Up(x.close1, x.atr1, <<a, b>>), c, None), "momentum")
  <2>. DEFINE stop == x.close1 - 2 * x.atr1
  <2>1. stop \in Int /\ stop < x.close1
    BY <1>1, <1>3
  <2>. HIDE DEF stop
  <2>2. Sound(Signal("momentum", Long, x.close1, stop, Up(x.close1, x.atr1, <<a, b>>), c, None), "momentum")
    BY <1>1, <2>1, LongEmitted
  <2>. QED  BY <2>2 DEF stop
<1>4. ASSUME NEW a \in Int, NEW b \in Int, NEW c \in Int
      PROVE  Sound(Signal("momentum", Short, x.close1, x.close1 + 2 * x.atr1,
                          Down(x.close1, x.atr1, <<a, b>>), c, None), "momentum")
  <2>. DEFINE stop == x.close1 + 2 * x.atr1
  <2>1. stop \in Int /\ stop > x.close1
    BY <1>1, <1>4
  <2>. HIDE DEF stop
  <2>2. Sound(Signal("momentum", Short, x.close1, stop, Down(x.close1, x.atr1, <<a, b>>), c, None), "momentum")
    BY <1>1, <2>1, ShortEmitted
  <2>. QED  BY <2>2 DEF stop
<1>. QED  BY <1>1, <1>2, <1>3, <1>4 DEF Momentum

LEMMA VolatilityContractionSound ==
  ASSUME NEW x, IsContext(x), NEW s \in VolatilityContraction(x)
  PROVE  Sound(s, "vcp")
<1>1. /\ x.close1 \in Nat \ {0} /\ x.atr1 \in Nat \ {0} /\ x.vol1 \in Nat /\ x.mean1 \in Nat
  BY NoneIsNoNumber DEF IsContext, VolatilityContraction, Positive
<1>2. Surge(x) \in Int /\ Least(850, 550 + Surge(x) - 100) \in Int
  BY <1>1 DEF Surge, Least
<1>3. ASSUME NEW a \in Int, NEW b \in Int, NEW c \in Int
      PROVE  Sound(Signal("vcp", Long, x.close1, x.close1 - (3 * x.atr1) \div 2,
                          Up(x.close1, x.atr1, <<a, b>>), c, Surge(x)), "vcp")
  <2>. DEFINE stop == x.close1 - (3 * x.atr1) \div 2
              surge == Surge(x)
  <2>1. stop \in Int /\ stop < x.close1 /\ surge \in Int \cup {None}
    BY <1>1, <1>2, <1>3
  <2>. HIDE DEF stop, surge
  <2>2. Sound(Signal("vcp", Long, x.close1, stop, Up(x.close1, x.atr1, <<a, b>>), c, surge), "vcp")
    BY <1>1, <2>1, LongEmitted
  <2>. QED  BY <2>2 DEF stop, surge
<1>. QED  BY <1>1, <1>2, <1>3 DEF VolatilityContraction

LEMMA OpeningRangeBreakoutSound ==
  ASSUME NEW x, IsContext(x), NEW s \in OpeningRangeBreakout(x)
  PROVE  Sound(s, "orb")
<1>. DEFINE atr == IF Positive(x.atr5) THEN x.atr5 ELSE x.orHigh - x.orLow
            up == IF x.close5 - x.orLow < 2 * atr THEN x.orLow ELSE x.close5 - (3 * atr) \div 2
            down == IF x.orHigh - x.close5 < 2 * atr THEN x.orHigh ELSE x.close5 + (3 * atr) \div 2
<1>1. /\ x.close5 \in Nat \ {0} /\ x.orHigh \in Int /\ x.orLow \in Int /\ x.orLow <= x.orHigh
      /\ x.atr5 \in Int \cup {None}
  BY DEF IsContext
<1>2. atr \in Nat
  BY <1>1, NoneIsNoNumber DEF Positive
<1>3. \/ x.close5 > x.orHigh
         /\ s = Signal("orb", Long, x.close5, up, Up(x.close5, x.close5 - up, <<15, 25>>), 650, None)
      \/ x.close5 < x.orLow
         /\ s = Signal("orb", Short, x.close5, down, Down(x.close5, down - x.close5, <<15, 25>>), 650, None)
  BY DEF OpeningRangeBreakout
<1>. HIDE DEF atr
<1>4. /\ up \in Int /\ down \in Int
      /\ x.close5 > x.orHigh => up < x.close5 \/ up = x.close5
      /\ x.close5 < x.orLow => down > x.close5 \/ down = x.close5
  BY <1>1, <1>2
<1>. HIDE DEF up, down
<1>5. ASSUME x.close5 > x.orHigh, NEW a \in Int, NEW b \in Int, NEW c \in Int
      PROVE  Sound(Signal("orb", Long, x.close5, up, Up(x.close5, x.close5 - up, <<a, b>>), c, None), "orb")
  <2>1. Up(x.close5, x.close5 - up, <<a, b>>)[1] \in Int
    BY <1>1, <1>4 DEF Up
  <2>2. Clamp(c, 0, 1000) \in 0 .. 1000
    BY DEF Clamp, Most, Least
  <2>. QED  BY <1>1, <1>4, <1>5, <2>1, <2>2 DEF Sound, Signal, Protected
<1>6. ASSUME x.close5 < x.orLow, NEW a \in Int, NEW b \in Int, NEW c \in Int
      PROVE  Sound(Signal("orb", Short, x.close5, down, Down(x.close5, down - x.close5, <<a, b>>), c, None), "orb")
  <2>1. Down(x.close5, down - x.close5, <<a, b>>)[1] \in Int
    BY <1>1, <1>4 DEF Down
  <2>2. Clamp(c, 0, 1000) \in 0 .. 1000
    BY DEF Clamp, Most, Least
  <2>. QED  BY <1>1, <1>4, <1>6, <2>1, <2>2 DEF Sound, Signal, Protected
<1>. QED  BY <1>3, <1>5, <1>6

LEMMA CPRBreakoutSound ==
  ASSUME NEW x, IsContext(x), NEW s \in CPRBreakout(x)
  PROVE  Sound(s, "cpr_breakout")
<1>. DEFINE p == Pivots(x.priorHigh, x.priorLow, x.priorClose)
<1>1. /\ x.close5 \in Nat \ {0} /\ x.priorHigh \in Int /\ x.priorLow \in Int /\ x.priorClose \in Int
  BY DEF IsContext
<1>2. /\ p.pivot \in Int /\ p.bc \in Int /\ p.tc \in Int /\ p.bc <= p.tc
      /\ p.r[1] \in Int /\ p.s[1] \in Int
  BY <1>1 DEF Pivots, Least, Most
<1>3. \/ x.close5 > Most(p.tc, p.pivot) /\ s = Signal("cpr_breakout", Long, x.close5, p.bc, p.r, 550, None)
      \/ x.close5 < Least(p.bc, p.pivot) /\ s = Signal("cpr_breakout", Short, x.close5, p.tc, p.s, 550, None)
  BY DEF CPRBreakout
<1>. HIDE DEF p
<1>4. Clamp(550, 0, 1000) \in 0 .. 1000
  BY DEF Clamp, Most, Least
<1>5. CASE x.close5 > Most(p.tc, p.pivot) /\ s = Signal("cpr_breakout", Long, x.close5, p.bc, p.r, 550, None)
  <2>1. p.bc < x.close5
    BY <1>1, <1>2, <1>5 DEF Most
  <2>. QED  BY <1>1, <1>2, <1>4, <1>5, <2>1 DEF Sound, Signal, Protected
<1>6. CASE x.close5 < Least(p.bc, p.pivot) /\ s = Signal("cpr_breakout", Short, x.close5, p.tc, p.s, 550, None)
  <2>1. p.tc > x.close5
    BY <1>1, <1>2, <1>6 DEF Least
  <2>. QED  BY <1>1, <1>2, <1>4, <1>6, <2>1 DEF Sound, Signal, Protected
<1>. QED  BY <1>3, <1>5, <1>6

LEMMA GapATRType ==
  ASSUME NEW x, x.atr5 \in Int \cup {None}, x.dayOpen \in Nat, x.prevClose \in Nat
  PROVE  GapATR(x) \in Nat
  BY NoneIsNoNumber DEF GapATR, Positive, Abs

LEMMA GapAndGoSound ==
  ASSUME NEW x, IsContext(x), NEW s \in GapAndGo(x)
  PROVE  Sound(s, "gap_and_go")
<1>. DEFINE atr == GapATR(x)
            confidence == 500 + Least(200, (3 * Abs(PctChange(x.prevClose, x.dayOpen))) \div 10)
<1>1. /\ x.close5 \in Nat \ {0} /\ x.dayOpen \in Nat /\ x.prevClose \in Nat
      /\ x.atr5 \in Int \cup {None}
  BY DEF IsContext, GapAndGo, GapReady
<1>2. atr \in Nat /\ confidence \in Int
  BY <1>1, GapATRType DEF Least, Abs, PctChange
<1>3. \/ x.close5 > x.dayOpen
         /\ s = Signal("gap_and_go", Long, x.close5, x.dayOpen - (3 * atr) \div 10,
                       Up(x.close5, atr, <<15, 30>>), confidence, None)
      \/ x.close5 < x.dayOpen
         /\ s = Signal("gap_and_go", Short, x.close5, x.dayOpen + (3 * atr) \div 10,
                       Down(x.close5, atr, <<15, 30>>), confidence, None)
  BY DEF GapAndGo
<1>. HIDE DEF atr, confidence
<1>4. ASSUME x.close5 > x.dayOpen, NEW a \in Int, NEW b \in Int
      PROVE  Sound(Signal("gap_and_go", Long, x.close5, x.dayOpen - (3 * atr) \div 10,
                          Up(x.close5, atr, <<a, b>>), confidence, None), "gap_and_go")
  <2>. DEFINE stop == x.dayOpen - (3 * atr) \div 10
  <2>1. stop \in Int /\ stop < x.close5
    BY <1>1, <1>2, <1>4
  <2>. HIDE DEF stop
  <2>2. Sound(Signal("gap_and_go", Long, x.close5, stop, Up(x.close5, atr, <<a, b>>), confidence, None), "gap_and_go")
    BY <1>1, <1>2, <2>1, LongEmitted
  <2>. QED  BY <2>2 DEF stop
<1>5. ASSUME x.close5 < x.dayOpen, NEW a \in Int, NEW b \in Int
      PROVE  Sound(Signal("gap_and_go", Short, x.close5, x.dayOpen + (3 * atr) \div 10,
                          Down(x.close5, atr, <<a, b>>), confidence, None), "gap_and_go")
  <2>. DEFINE stop == x.dayOpen + (3 * atr) \div 10
  <2>1. stop \in Int /\ stop > x.close5
    BY <1>1, <1>2, <1>5
  <2>. HIDE DEF stop
  <2>2. Sound(Signal("gap_and_go", Short, x.close5, stop, Down(x.close5, atr, <<a, b>>), confidence, None), "gap_and_go")
    BY <1>1, <1>2, <2>1, ShortEmitted
  <2>. QED  BY <2>2 DEF stop
<1>. QED  BY <1>3, <1>4, <1>5

LEMMA GapFillSound ==
  ASSUME NEW x, IsContext(x), NEW s \in GapFill(x)
  PROVE  Sound(s, "gap_fill")
<1>. DEFINE atr == GapATR(x)
<1>1. /\ x.close5 \in Nat \ {0} /\ x.dayOpen \in Nat /\ x.prevClose \in Nat /\ x.prev5 \in Int
      /\ x.atr5 \in Int \cup {None}
  BY DEF IsContext, GapFill, GapReady
<1>2. atr \in Nat
  BY <1>1, GapATRType
<1>3. \/ x.close5 < x.prev5 /\ x.prev5 < x.dayOpen
         /\ s = Signal("gap_fill", Short, x.close5, x.dayOpen + atr \div 2, <<x.prevClose>>, 500, None)
      \/ x.close5 > x.prev5 /\ x.prev5 > x.dayOpen
         /\ s = Signal("gap_fill", Long, x.close5, x.dayOpen - atr \div 2, <<x.prevClose>>, 500, None)
  BY DEF GapFill
<1>. HIDE DEF atr
<1>4. Clamp(500, 0, 1000) \in 0 .. 1000
  BY DEF Clamp, Most, Least
<1>5. CASE /\ x.close5 < x.prev5 /\ x.prev5 < x.dayOpen
           /\ s = Signal("gap_fill", Short, x.close5, x.dayOpen + atr \div 2, <<x.prevClose>>, 500, None)
  <2>1. x.dayOpen + atr \div 2 \in Int /\ x.dayOpen + atr \div 2 > x.close5
    BY <1>1, <1>2, <1>5
  <2>. QED  BY <1>1, <1>4, <1>5, <2>1 DEF Sound, Signal, Protected
<1>6. CASE /\ x.close5 > x.prev5 /\ x.prev5 > x.dayOpen
           /\ s = Signal("gap_fill", Long, x.close5, x.dayOpen - atr \div 2, <<x.prevClose>>, 500, None)
  <2>1. x.dayOpen - atr \div 2 \in Int /\ x.dayOpen - atr \div 2 < x.close5
    BY <1>1, <1>2, <1>6
  <2>. QED  BY <1>1, <1>4, <1>6, <2>1 DEF Sound, Signal, Protected
<1>. QED  BY <1>3, <1>5, <1>6

LEMMA EvaluateSound ==
  ASSUME NEW key \in Keys, NEW x, IsContext(x), NEW trend, NEW s \in Evaluate(key, x, trend)
  PROVE  Sound(s, key)
<1>1. key \in {"orb", "vwap_breakout", "volume_breakout", "cpr_breakout", "gap_and_go", "gap_fill",
               "relative_strength", "relative_weakness", "momentum", "ema_trend", "ema_pullback",
               "vwap_pullback", "vcp"}
  BY DEF Keys, Compatible
<1>. QED  BY <1>1, OpeningRangeBreakoutSound, VWAPBreakoutSound, VolumeBreakoutSound, CPRBreakoutSound,
             GapAndGoSound, GapFillSound, RelativeStrengthSound, RelativeWeaknessSound, MomentumSound,
             EMATrendSound, EMAPullbackSound, VWAPPullbackSound, VolatilityContractionSound DEF Evaluate
-----------------------------------------------------------------------------
(* The regime and the scorecard. *)
IsRegime(r) == r.confidence \in Int /\ r.adx \in Int /\ IsFiniteSet(r.overlays)

LEMMA DetectType == ASSUME NEW ix, IsIndex(ix) PROVE IsRegime(Detect(ix))
<1>1. Primary(ix).confidence \in Int
  <2>. DEFINE adx == IF ix.adx = None THEN 0 ELSE ix.adx
  <2>1. adx \in Int
    BY DEF IsIndex
  <2>2. Least(950, 550 + 25 * (adx - 22)) \in Int
    BY <2>1 DEF Least
  <2>. HIDE DEF adx
  <2>. QED  BY <2>2 DEF Primary, adx
<1>2. IsFiniteSet(OverlaysOf(ix))
  <2>1. IsFiniteSet(ix.events)
    BY DEF IsIndex
  <2>2. OverlaysOf(ix) \subseteq ix.events \cup {"high_volatility", "low_volatility", "gap_up_trend",
                                               "gap_down_panic", "global_risk_off"}
    BY DEF OverlaysOf
  <2>3. IsFiniteSet({"high_volatility", "low_volatility", "gap_up_trend", "gap_down_panic", "global_risk_off"})
    <3>1. \A r : IsFiniteSet({r})
      BY FS_Singleton
    <3>2. IsFiniteSet({"high_volatility"} \cup {"low_volatility"} \cup {"gap_up_trend"}
                      \cup {"gap_down_panic"} \cup {"global_risk_off"})
      BY <3>1, FS_Union
    <3>3. {"high_volatility", "low_volatility", "gap_up_trend", "gap_down_panic", "global_risk_off"}
          = {"high_volatility"} \cup {"low_volatility"} \cup {"gap_up_trend"}
            \cup {"gap_down_panic"} \cup {"global_risk_off"}
      OBVIOUS
    <3>. QED  BY <3>2, <3>3
  <2>. QED  BY <2>1, <2>2, <2>3, FS_Union, FS_Subset
<1>. QED  BY <1>1, <1>2 DEF Detect, IsRegime, IsIndex

LEMMA RiskType ==
  ASSUME NEW s, NEW key, Sound(s, key)
  PROVE  Risk(s) \in Nat /\ Reward(s) \in Nat /\ RiskReward(s) \in Nat
<1>1. Risk(s) \in Nat /\ Reward(s) \in Nat
  BY DEF Sound, Risk, Reward, Abs
<1>. QED  BY <1>1 DEF RiskReward

IsCard(c) ==
    /\ c.technical \in Int /\ c.volume \in Int /\ c.liquidity \in Int /\ c.composite \in Int
    /\ c.confidence \in Nat /\ c.confidence <= 10000

LEMMA CardType ==
  ASSUME NEW s, NEW key, Sound(s, key), NEW x, IsContext(x), NEW regime, IsRegime(regime),
         NEW winRate \in Int \cup {None}, NEW median \in Int
  PROVE  IsCard(Card(s, x, regime, winRate, median))
<1>1. /\ s.confidence \in Int /\ s.entry \in Nat \ {0} /\ s.surge \in Int \cup {None}
      /\ Risk(s) \in Nat /\ RiskReward(s) \in Nat
  <2>1. Risk(s) \in Nat /\ RiskReward(s) \in Nat
    BY RiskType
  <2>2. s.confidence \in 0 .. 1000 /\ s.entry \in Nat \ {0} /\ s.surge \in Int \cup {None}
    BY DEF Sound
  <2>. QED  BY SMTT(20), <2>1, <2>2
<1>2. /\ regime.confidence \in Int /\ regime.adx \in Int
  BY DEF IsRegime
<1>3. TechnicalScore(s) \in Int
  <2>1. Least(3000, 12 * RiskReward(s)) \in Int
    BY <1>1 DEF Least
  <2>. QED  BY <1>1, <2>1 DEF Score, Clamp, Most, Least, TechnicalScore
<1>4. VolumeScore(s, x) \in Int
  <2>. DEFINE mean == IF x.n5 # None THEN x.mean5 ELSE x.mean1
              last == IF x.n5 # None THEN x.vol5 ELSE x.vol1
  <2>1. mean \in Nat /\ last \in Nat
    BY DEF IsContext
  <2>. HIDE DEF mean, last
  <2>2. mean # 0 => Score(1500 + (2500 * last) \div mean) \in Int
    BY <2>1 DEF Score, Clamp, Most, Least
  <2>3. s.surge # None => Score(4500 + 20 * (s.surge - 100)) \in Int
    BY <1>1 DEF Score, Clamp, Most, Least
  <2>. QED  BY <2>2, <2>3 DEF VolumeScore, mean, last
<1>5. TrendScore(s, regime) \in Int
  <2>1. Least(1500, (100 * regime.adx) \div 3) \in Int
    BY <1>2 DEF Least
  <2>. QED  BY <2>1 DEF Score, Clamp, Most, Least, TrendScore
<1>6. VolatilityScore(regime) \in Int
  BY DEF VolatilityScore
<1>7. LiquidityScore(x, median) \in Int
  <2>1. Turnover(x) \in Nat
    BY DEF Turnover, IsContext
  <2>2. Most(1, median \div 1000) \in Nat \ {0}
    BY DEF Most
  <2>3. (3000 * (Turnover(x) \div 1000)) \div Most(1, median \div 1000) \in Int
    BY <2>1, <2>2
  <2>4. Least(6000, (3000 * (Turnover(x) \div 1000)) \div Most(1, median \div 1000)) \in Int
    BY <2>3 DEF Least
  <2>5. Score(4000 + Least(6000, (3000 * (Turnover(x) \div 1000)) \div Most(1, median \div 1000))) \in Int
    BY <2>4 DEF Score, Clamp, Most, Least
  <2>. QED  BY <2>5 DEF LiquidityScore, AbsoluteLiquidity
<1>8. SectorScore(x) \in Int
  BY DEF Score, Clamp, Most, Least, SectorScore, IsContext
<1>9. NewsScore(s, x) \in Int
  BY DEF Score, Clamp, Most, Least, NewsScore, IsContext
<1>10. OptionsScore(s, x) \in Int
  BY DEF Score, Clamp, Most, Least, OptionsScore, IsContext
<1>11. RegimeScore(regime, winRate) \in Int
  <2>1. 4500 + 4 * regime.confidence \in Int
    BY <1>2
  <2>2. winRate # None => (6 * (4500 + 4 * regime.confidence) + 4 * 100 * winRate) \div 10 \in Int
    BY <1>2
  <2>. QED  BY <2>1, <2>2 DEF Score, Clamp, Most, Least, RegimeScore
<1>12. RiskScore(s) \in Int
  <2>. DEFINE width == (10000 * Risk(s)) \div s.entry
              base == 5000 + Least(3000, 12 * RiskReward(s))
              less == IF width > 600 THEN Least(2500, 4 * (width - 600)) ELSE 0
  <2>1. width \in Int
    BY <1>1
  <2>2. base \in Int
    BY <1>1 DEF Least
  <2>. HIDE DEF width, base
  <2>3. less \in Int
    BY <2>1 DEF Least
  <2>. HIDE DEF less
  <2>4. Score(base - less) \in Int
    BY <2>2, <2>3 DEF Score, Clamp, Most, Least
  <2>. QED  BY <2>4 DEF RiskScore, width, base, less
<1>. DEFINE total == 16 * TechnicalScore(s) + 10 * VolumeScore(s, x) + 14 * TrendScore(s, regime)
                     + 8 * VolatilityScore(regime) + 9 * LiquidityScore(x, median) + 7 * SectorScore(x)
                     + 6 * NewsScore(s, x) + 6 * OptionsScore(s, x) + 15 * RegimeScore(regime, winRate)
                     + 14 * RiskScore(s) + 10 * 10000
            blend == (10 * s.confidence + total \div 115) \div 2
<1>13. total \in Int /\ total \div 115 \in Int
  BY <1>3, <1>4, <1>5, <1>6, <1>7, <1>8, <1>9, <1>10, <1>11, <1>12
<1>14. blend \in Int /\ blend \div 2 \in Int
  BY <1>1, <1>13
<1>. DEFINE composite == total \div 115
            held == IF IsHostile(regime) THEN blend \div 2 ELSE blend
            confidence == Clamp(held, 0, 10000)
<1>15. confidence \in 0 .. 10000
  <2>. HIDE DEF blend
  <2>1. held \in Int
    BY <1>14
  <2>. HIDE DEF held
  <2>. QED  BY <2>1 DEF Clamp, Most, Least
<1>16. Card(s, x, regime, winRate, median) =
         [technical |-> TechnicalScore(s), volume |-> VolumeScore(s, x), liquidity |-> LiquidityScore(x, median),
          composite |-> composite, confidence |-> confidence]
  BY DEF Card
<1>. HIDE DEF total, blend
<1>17. composite \in Int
  BY <1>13
<1>. HIDE DEF composite, confidence
<1>. QED  BY <1>3, <1>4, <1>7, <1>15, <1>16, <1>17 DEF IsCard

-----------------------------------------------------------------------------
(* The stable sort. *)
Descending(keys, order) == \A i, j \in DOMAIN order : i < j => keys[order[i]] >= keys[order[j]]

(* A set of positions closed downwards is a prefix. *)
LEMMA Prefix ==
  ASSUME NEW n \in Nat, NEW D \in SUBSET (1 .. n), \A j \in D, i \in 1 .. n : i <= j => i \in D
  PROVE  \E m \in 0 .. n : D = 1 .. m /\ Cardinality(D) = m
<1>. DEFINE M == {m \in 1 .. n + 1 : m \notin D}
<1>1. n + 1 \in M /\ M \in SUBSET Nat
  OBVIOUS
<1>2. PICK m \in M : \A k \in M : m <= k
  <2>. HIDE DEF M
  <2>. QED  BY <1>1, NatMin
<1>3. D = 1 .. m - 1
  <2>1. ASSUME NEW d \in D PROVE d \in 1 .. m - 1
    BY <1>2
  <2>2. ASSUME NEW d \in 1 .. m - 1 PROVE d \in D
    <3>1. d \in 1 .. n + 1 /\ ~(m <= d)
      BY <1>2
    <3>. QED  BY <1>2, <3>1
  <2>. QED  BY <2>1, <2>2
<1>4. m - 1 \in 0 .. n
  BY <1>2
<1>5. Cardinality(1 .. m - 1) = m - 1
  <2>1. 1 \in Int /\ m - 1 \in Int /\ ~(1 > m - 1) => Cardinality(1 .. m - 1) = (m - 1) - 1 + 1
    BY FS_Interval
  <2>2. 1 > m - 1 => 1 .. m - 1 = {}
    BY <1>4
  <2>. QED  BY <1>4, <2>1, <2>2, FS_EmptySet
<1>. QED  BY <1>3, <1>4, <1>5

HasInserted(r, s, q, e) ==
    \A i \in 1 .. Len(r) : r[i] = IF i < q THEN s[i] ELSE IF i = q THEN e ELSE s[i - 1]

LEMMA Inserted ==
  ASSUME NEW S, NEW s \in Seq(S), NEW q \in 1 .. Len(s) + 1, NEW e \in S
  PROVE  /\ InsertAt(s, q, e) \in Seq(S) /\ Len(InsertAt(s, q, e)) = Len(s) + 1
         /\ HasInserted(InsertAt(s, q, e), s, q, e)
<1>. DEFINE p == q - 1
<1>. DEFINE front == SubSeq(s, 1, p)
            back == SubSeq(s, p + 1, Len(s))
            middle == front \o <<e>>
            r == middle \o back
<1>0. p \in 0 .. Len(s) /\ p + 1 = q
  OBVIOUS
<1>1. InsertAt(s, q, e) = r
  BY <1>0 DEF InsertAt
<1>2. front \in Seq(S) /\ Len(front) = p /\ \A i \in 1 .. p : front[i] = s[i]
  BY SubSeqProperties
<1>3. /\ back \in Seq(S) /\ Len(back) = Len(s) - p
      /\ \A i \in 1 .. Len(s) - p : back[i] = s[p + i]
  BY SubSeqProperties
<1>. HIDE DEF front, back, p
<1>4. <<e>> \in Seq(S) /\ Len(<<e>>) = 1 /\ <<e>>[1] = e
  OBVIOUS
<1>5. /\ middle \in Seq(S) /\ Len(middle) = p + 1
      /\ \A i \in 1 .. p : middle[i] = s[i]
      /\ middle[p + 1] = e
  BY <1>0, <1>2, <1>4, ConcatProperties
<1>. HIDE DEF middle
<1>6. /\ r \in Seq(S) /\ Len(r) = Len(s) + 1
      /\ \A i \in 1 .. p + 1 : r[i] = middle[i]
      /\ \A i \in p + 2 .. Len(s) + 1 : r[i] = back[i - (p + 1)]
  BY <1>0, <1>3, <1>5, ConcatProperties
<1>. HIDE DEF r
<1>7. ASSUME NEW i \in p + 2 .. Len(s) + 1 PROVE r[i] = s[i - 1]
  <2>1. i - (p + 1) \in 1 .. Len(s) - p /\ p + (i - (p + 1)) = i - 1
    BY <1>0
  <2>. QED  BY <1>3, <1>6, <2>1
<1>8. ASSUME NEW i \in 1 .. Len(r)
      PROVE  r[i] = IF i < q THEN s[i] ELSE IF i = q THEN e ELSE s[i - 1]
  <2>1. CASE i < q
    BY <1>0, <1>5, <1>6, <2>1
  <2>2. CASE i = q
    BY <1>0, <1>5, <1>6, <2>2
  <2>3. CASE i > q
    <3>1. i \in p + 2 .. Len(s) + 1
      BY <1>0, <1>6, <2>3
    <3>. QED  BY <1>7, <2>3, <3>1
  <2>. QED  BY <2>1, <2>2, <2>3
<1>9. HasInserted(r, s, q, e)
  BY <1>8 DEF HasInserted
<1>. QED  BY <1>1, <1>6, <1>9

LEMMA BehindType ==
  ASSUME NEW S, NEW order \in Seq(S), NEW keys, NEW k \in S
  PROVE  Behind(order, keys, k) \in Seq(S) /\ Len(Behind(order, keys, k)) = Len(order) + 1
<1>. DEFINE D == {i \in DOMAIN order : keys[order[i]] >= keys[k]}
<1>1. D \subseteq 1 .. Len(order) /\ Len(order) \in Nat
  OBVIOUS
<1>2. IsFiniteSet(1 .. Len(order)) /\ Cardinality(1 .. Len(order)) = Len(order)
  <2>1. \A n \in Nat : IsFiniteSet(1 .. n) /\ Cardinality(1 .. n) = n
    <3>1. ASSUME NEW n \in Nat
          PROVE  IsFiniteSet(1 .. n) /\ Cardinality(1 .. n) = IF 1 > n THEN 0 ELSE n - 1 + 1
      BY FS_Interval
    <3>. QED  BY <3>1
  <2>. QED  BY <1>1, <2>1
<1>. HIDE DEF D
<1>3. Cardinality(D) \in 0 .. Len(order)
  <2>1. IsFiniteSet(D) /\ Cardinality(D) <= Cardinality(1 .. Len(order))
    BY <1>1, <1>2, FS_Subset
  <2>2. Cardinality(D) \in Nat
    BY <2>1, FS_CardinalityType
  <2>. QED  BY <1>1, <1>2, <2>1, <2>2
<1>. DEFINE q == Cardinality(D) + 1
<1>4. q \in 1 .. Len(order) + 1
  BY <1>1, <1>3
<1>5. Behind(order, keys, k) = InsertAt(order, q, k)
  BY DEF Behind, D
<1>. HIDE DEF q
<1>. QED  BY <1>4, <1>5, Inserted

LEMMA BehindSorted ==
  ASSUME NEW n \in Nat, NEW keys \in [1 .. n -> Int], NEW order \in Seq(1 .. n), NEW k \in 1 .. n,
         Descending(keys, order)
  PROVE  Descending(keys, Behind(order, keys, k))
<1>. DEFINE D == {i \in DOMAIN order : keys[order[i]] >= keys[k]}
            r == Behind(order, keys, k)
<1>1. /\ Len(order) \in Nat /\ DOMAIN order = 1 .. Len(order)
      /\ \A i \in DOMAIN order : order[i] \in 1 .. n /\ keys[order[i]] \in Int
      /\ keys[k] \in Int
  OBVIOUS
<1>2. PICK p \in 0 .. Len(order) : D = 1 .. p /\ Cardinality(D) = p
  <2>1. ASSUME NEW j \in D, NEW i \in 1 .. Len(order), i <= j PROVE i \in D
    <3>1. j \in DOMAIN order /\ i \in DOMAIN order /\ keys[order[j]] >= keys[k]
      BY <1>1
    <3>2. i = j \/ i < j
      BY <1>1, <2>1, <3>1
    <3>5. i < j => keys[order[i]] >= keys[order[j]]
      BY <3>1 DEF Descending
    <3>3. keys[order[i]] \in Int /\ keys[order[j]] \in Int
      BY <1>1, <3>1
    <3>4. keys[order[i]] >= keys[k]
      BY SMTT(20), <1>1, <3>1, <3>2, <3>3, <3>5
    <3>. QED  BY <3>1, <3>4
  <2>2. D \in SUBSET (1 .. Len(order))
    BY <1>1
  <2>. HIDE DEF D
  <2>. QED  BY <1>1, <2>1, <2>2, Prefix
<1>3. r = InsertAt(order, p + 1, k)
  BY <1>2 DEF Behind
<1>. HIDE DEF r
<1>4. /\ Len(r) = Len(order) + 1 /\ r \in Seq(1 .. n)
      /\ \A i \in 1 .. Len(r) :
           r[i] = IF i < p + 1 THEN order[i] ELSE IF i = p + 1 THEN k ELSE order[i - 1]
  <2>. DEFINE q == p + 1
              S == 1 .. n
  <2>1. q \in 1 .. Len(order) + 1 /\ r = InsertAt(order, q, k) /\ order \in Seq(S) /\ k \in S
    BY <1>2, <1>3
  <2>. HIDE DEF q, S
  <2>. DEFINE w == InsertAt(order, q, k)
  <2>2. w \in Seq(S) /\ Len(w) = Len(order) + 1 /\ HasInserted(w, order, q, k)
    BY <2>1, Inserted
  <2>. HIDE DEF w
  <2>3. r = w
    BY <2>1 DEF w
  <2>. QED  BY <2>2, <2>3 DEF q, S, HasInserted
<1>5. /\ \A i \in 1 .. p : i \in DOMAIN order /\ keys[order[i]] >= keys[k]
      /\ \A i \in p + 1 .. Len(order) : i \in DOMAIN order /\ keys[k] > keys[order[i]]
  <2>1. \A i \in DOMAIN order : i \in 1 .. p <=> keys[order[i]] >= keys[k]
    BY <1>2
  <2>2. ASSUME NEW i \in 1 .. p PROVE i \in DOMAIN order
    BY <1>1
  <2>3. ASSUME NEW i \in p + 1 .. Len(order) PROVE i \in DOMAIN order /\ keys[k] > keys[order[i]]
    <3>1. i \in DOMAIN order /\ i \notin 1 .. p
      BY <1>1
    <3>2. keys[k] \in Int /\ keys[order[i]] \in Int
      BY <1>1, <3>1
    <3>. QED  BY SMTT(20), <2>1, <3>1, <3>2
  <2>. QED  BY <2>1, <2>2, <2>3
<1>6. ASSUME NEW i \in 1 .. Len(r), NEW j \in 1 .. Len(r), i < j PROVE keys[r[i]] >= keys[r[j]]
  <2>1. i <= p \/ i = p + 1 \/ i > p + 1
    OBVIOUS
  <2>2. CASE j <= p
    <3>1. r[i] = order[i] /\ r[j] = order[j] /\ i \in DOMAIN order /\ j \in DOMAIN order
      BY <1>1, <1>4, <1>6, <2>2
    <3>. QED  BY <1>6, <3>1 DEF Descending
  <2>3. CASE j = p + 1
    <3>1. r[i] = order[i] /\ r[j] = k /\ i \in 1 .. p
      BY <1>4, <1>6, <2>3
    <3>. QED  BY <1>5, <3>1
  <2>4. CASE j > p + 1 /\ i = p + 1
    <3>1. r[i] = k /\ r[j] = order[j - 1] /\ j - 1 \in p + 1 .. Len(order)
      BY <1>4, <1>6, <2>4
    <3>2. \A m \in p + 1 .. Len(order) : keys[k] >= keys[order[m]]
      BY SMTT(20), <1>1, <1>5
    <3>. QED  BY <3>1, <3>2
  <2>5. CASE j > p + 1 /\ i <= p
    <3>1. r[i] = order[i] /\ r[j] = order[j - 1] /\ i \in DOMAIN order /\ j - 1 \in DOMAIN order /\ i < j - 1
      BY <1>1, <1>4, <1>6, <2>5
    <3>. QED  BY <3>1 DEF Descending
  <2>6. CASE j > p + 1 /\ i > p + 1
    <3>1. /\ r[i] = order[i - 1] /\ r[j] = order[j - 1]
          /\ i - 1 \in DOMAIN order /\ j - 1 \in DOMAIN order /\ i - 1 < j - 1
      BY <1>1, <1>4, <1>6, <2>6
    <3>. QED  BY <3>1 DEF Descending
  <2>. QED  BY <1>1, <1>4, <1>6, <2>1, <2>2, <2>3, <2>4, <2>5, <2>6
<1>7. DOMAIN r = 1 .. Len(r)
  BY <1>4
<1>. QED  BY <1>6, <1>7 DEF Descending, r

LEMMA OrderFacts ==
  ASSUME NEW keys \in Seq(Int)
  PROVE  /\ Order(keys) \in Seq(1 .. Len(keys)) /\ Len(Order(keys)) = Len(keys)
         /\ Descending(keys, Order(keys))
<1>. DEFINE n == Len(keys)
            X == Seq(1 .. n)
            step == [k \in 1 .. n |-> [u \in X |-> Behind(u, keys, k)]]
            sorted[k \in 0 .. Len(keys)] == IF k = 0 THEN <<>> ELSE Behind(sorted[k - 1], keys, k)
<1>1. n \in Nat /\ keys \in [1 .. n -> Int] /\ <<>> \in X
  OBVIOUS
<1>2. step \in Steps(X, n)
  BY BehindType DEF Steps
<1>3. PICK g : Iterates(g, X, n, <<>>, step)
  <2>. HIDE DEF n, X, step
  <2>. QED  BY <1>1, <1>2, Iteration
<1>4. g = [k \in 0 .. Len(keys) |-> IF k = 0 THEN <<>> ELSE Behind(g[k - 1], keys, k)]
  <2>1. ASSUME NEW k \in 1 .. n PROVE g[k] = Behind(g[k - 1], keys, k)
    <3>1. g[k - 1] \in X
      <4>1. k - 1 \in 0 .. n
        BY <1>1
      <4>. QED  BY <1>3, <4>1 DEF Iterates
    <3>. QED  BY <1>3, <3>1 DEF Iterates
  <2>. QED  BY <1>1, <1>3, <2>1 DEF Iterates
<1>5. sorted = [k \in 0 .. Len(keys) |-> IF k = 0 THEN <<>> ELSE Behind(sorted[k - 1], keys, k)]
  BY <1>4
<1>6. Order(keys) = sorted[n]
  BY DEF Order
<1>. HIDE DEF sorted, step
<1>. DEFINE Good(k) == sorted[k] \in X /\ Len(sorted[k]) = k /\ Descending(keys, sorted[k])
            S == {k \in 0 .. n : Good(k)}
<1>7. 0 \in S
  <2>1. sorted[0] = <<>>
    BY <1>1, <1>5
  <2>2. Descending(keys, <<>>) /\ Len(<<>>) = 0
    BY DEF Descending
  <2>3. Good(0)
    BY <1>1, <2>1, <2>2
  <2>. QED  BY <1>1, <2>3
<1>8. ASSUME NEW k \in 1 .. n, k - 1 \in S PROVE k \in S
  <2>1. sorted[k] = Behind(sorted[k - 1], keys, k)
    BY <1>1, <1>5
  <2>2. sorted[k - 1] \in X /\ Len(sorted[k - 1]) = k - 1 /\ Descending(keys, sorted[k - 1])
    BY <1>8
  <2>3. sorted[k] \in X /\ Len(sorted[k]) = (k - 1) + 1
    BY SMTT(20), <2>1, <2>2, BehindType
  <2>4. Descending(keys, sorted[k])
    BY <1>1, <2>1, <2>2, BehindSorted
  <2>. QED  BY <1>1, <2>3, <2>4
<1>9. n \in S
  <2>. HIDE DEF n, S
  <2>1. 0 .. n \subseteq S
    BY <1>1, <1>7, <1>8, BoundedInduction
  <2>. QED  BY <1>1, <2>1
<1>. QED  BY <1>6, <1>9
-----------------------------------------------------------------------------
(* The candidates of a scan. *)
Listed(contexts) ==
    /\ contexts \in Seq(Range(contexts))
    /\ \A c \in Range(contexts) : IsContext(c)
    /\ \A i, j \in DOMAIN contexts : contexts[i].symbol = contexts[j].symbol => i = j

IsIdea(o, contexts) ==
    /\ \E i \in DOMAIN contexts : o.symbol = contexts[i].symbol /\ o.sector = contexts[i].sector
    /\ Sound(o.signal, o.signal.key)
    /\ IsCard(o.card)

LEMMA IdeaScores ==
  ASSUME NEW o, NEW contexts, IsIdea(o, contexts)
  PROVE  o.card.composite \in Int /\ o.card.confidence \in Nat /\ o.card.confidence <= 10000
<1>1. \A c : IsCard(c) => c.composite \in Int
  BY DEF IsCard
<1>2. \A c : IsCard(c) => c.confidence \in Nat /\ c.confidence <= 10000
  BY DEF IsCard
<1>3. IsCard(o.card)
  BY DEF IsIdea
<1>4. o.card.composite \in Int
  BY <1>1, <1>3
<1>5. o.card.confidence \in Nat /\ o.card.confidence <= 10000
  BY <1>2, <1>3
<1>. QED  BY <1>4, <1>5

LEMMA ListedFacts ==
  ASSUME NEW contexts, Listed(contexts)
  PROVE  /\ Len(contexts) \in Nat /\ DOMAIN contexts = 1 .. Len(contexts)
         /\ \A i \in DOMAIN contexts : IsContext(contexts[i])
<1>1. contexts \in [1 .. Len(contexts) -> Range(contexts)] /\ Len(contexts) \in Nat
  BY LenProperties DEF Listed
<1>. QED  BY <1>1 DEF Listed

LEMMA MedianType ==
  ASSUME NEW contexts, Listed(contexts), contexts # <<>>
  PROVE  MedianTurnover(contexts) \in Int
<1>. DEFINE turnovers == [i \in DOMAIN contexts |-> Turnover(contexts[i])]
            n == Len(contexts)
            at(k) == turnovers[Order(turnovers)[k]]
<1>1. n \in Nat /\ n # 0 /\ DOMAIN contexts = 1 .. n
  <2>1. contexts \in Seq(Range(contexts))
    BY DEF Listed
  <2>. QED  BY <2>1, ListedFacts, EmptySeq
<1>2. turnovers \in Seq(Int) /\ Len(turnovers) = n
  <2>1. \A i \in 1 .. n : Turnover(contexts[i]) \in Int
    BY <1>1, ListedFacts DEF Turnover, IsContext
  <2>2. turnovers \in [1 .. n -> Int]
    BY <1>1, <2>1
  <2>. QED  BY <1>1, <2>2, SeqDef
<1>3. /\ Order(turnovers) \in Seq(1 .. n) /\ Len(Order(turnovers)) = n
  <2>. HIDE DEF turnovers
  <2>. QED  BY <1>2, OrderFacts
<1>4. ASSUME NEW k \in 1 .. n PROVE at(k) \in Int
  <2>. HIDE DEF turnovers
  <2>. QED  BY <1>2, <1>3
<1>5. MedianTurnover(contexts)
        = IF n % 2 = 1 THEN at(n \div 2 + 1) ELSE (at(n \div 2) + at(n \div 2 + 1)) \div 2
  BY DEF MedianTurnover
<1>. HIDE DEF turnovers, at
<1>6. CASE n % 2 = 1
  <2>1. n \div 2 + 1 \in 1 .. n
    BY <1>1, <1>6
  <2>. QED  BY <1>4, <1>5, <1>6, <2>1
<1>7. CASE n % 2 # 1
  <2>1. n \div 2 + 1 \in 1 .. n /\ n \div 2 \in 1 .. n
    BY <1>1, <1>7
  <2>2. at(n \div 2) \in Int /\ at(n \div 2 + 1) \in Int
    BY <1>4, <2>1
  <2>. QED  BY <1>5, <1>7, <2>2
<1>. QED  BY <1>6, <1>7

(* A strategy emits one signal or abstains. *)
AtMostOne(S) == S = {} \/ \E s : S = {s}

LEMMA EvaluateAbstains ==
  ASSUME NEW key \in Keys, NEW x, NEW trend
  PROVE  AtMostOne(Evaluate(key, x, trend))
<1>1. AtMostOne({}) /\ \A s : AtMostOne({s})
  BY DEF AtMostOne
<1>2. AtMostOne(OpeningRangeBreakout(x))
  <2>. DEFINE atr == IF Positive(x.atr5) THEN x.atr5 ELSE x.orHigh - x.orLow
              up == IF x.close5 - x.orLow < 2 * atr THEN x.orLow ELSE x.close5 - (3 * atr) \div 2
              down == IF x.orHigh - x.close5 < 2 * atr THEN x.orHigh ELSE x.close5 + (3 * atr) \div 2
              long == Signal("orb", Long, x.close5, up, Up(x.close5, x.close5 - up, <<15, 25>>), 650, None)
              short == Signal("orb", Short, x.close5, down, Down(x.close5, down - x.close5, <<15, 25>>), 650, None)
  <2>1. OpeningRangeBreakout(x) \in {{}, {long}, {short}}
    <3>1. OpeningRangeBreakout(x) =
            IF ~(Has(x, "n5", 6) /\ x.minutes # None /\ Between(15, x.minutes, 300) /\ VolumeOk(x))
            THEN {} ELSE IF x.close5 > x.orHigh THEN {long} ELSE IF x.close5 < x.orLow THEN {short} ELSE {}
      BY DEF OpeningRangeBreakout
    <3>. HIDE DEF long, short
    <3>. QED  BY <3>1
  <2>. HIDE DEF long, short
  <2>. QED  BY <1>1, <2>1
<1>3. AtMostOne(VWAPBreakout(x, trend))
  BY ZenonT(40), <1>1 DEF VWAPBreakout
<1>4. AtMostOne(VolumeBreakout(x))
  BY ZenonT(40), <1>1 DEF VolumeBreakout
<1>5. AtMostOne(CPRBreakout(x))
  BY ZenonT(40), <1>1 DEF CPRBreakout
<1>6. AtMostOne(GapAndGo(x))
  BY ZenonT(40), <1>1 DEF GapAndGo
<1>7. AtMostOne(GapFill(x))
  BY ZenonT(40), <1>1 DEF GapFill
<1>8. AtMostOne(RelativeStrength(x, trend))
  BY ZenonT(40), <1>1 DEF RelativeStrength
<1>9. AtMostOne(RelativeWeakness(x, trend))
  BY ZenonT(40), <1>1 DEF RelativeWeakness
<1>10. AtMostOne(Momentum(x))
  BY <1>1 DEF Momentum
<1>11. AtMostOne(EMATrend(x))
  BY ZenonT(40), <1>1 DEF EMATrend
<1>12. AtMostOne(EMAPullback(x))
  BY ZenonT(40), <1>1 DEF EMAPullback
<1>13. AtMostOne(VWAPPullback(x, trend))
  BY ZenonT(40), <1>1 DEF VWAPPullback
<1>14. AtMostOne(VolatilityContraction(x))
  BY ZenonT(40), <1>1 DEF VolatilityContraction
<1>15. key \in {"orb", "vwap_breakout", "volume_breakout", "cpr_breakout", "gap_and_go", "gap_fill",
               "relative_strength", "relative_weakness", "momentum", "ema_trend", "ema_pullback",
               "vwap_pullback", "vcp"}
  BY DEF Keys, Compatible
<1>. QED  BY <1>2, <1>3, <1>4, <1>5, <1>6, <1>7, <1>8, <1>9, <1>10, <1>11, <1>12, <1>13, <1>14, <1>15 DEF Evaluate

LEMMA AtMostOneFinite == ASSUME NEW S, AtMostOne(S) PROVE IsFiniteSet(S)
<1>1. \A s : IsFiniteSet({s})
  BY FS_Singleton
<1>. QED  BY <1>1, FS_EmptySet DEF AtMostOne

LEMMA SetToSeqType ==
  ASSUME NEW T, NEW S \in SUBSET T, IsFiniteSet(S)
  PROVE  SetToSeq(S) \in Seq(T)
<1>. DEFINE n == Cardinality(S)
<1>1. n \in Nat /\ \E f \in [1 .. n -> S] : IsInjective(f)
  <2>1. n \in Nat /\ ExistsBijection(1 .. n, S)
    BY FS_CardinalityType
  <2>. QED  BY <2>1 DEF ExistsBijection, Bijection, Injection
<1>2. SetToSeq(S) \in [1 .. n -> S]
  BY <1>1 DEF SetToSeq
<1>3. SetToSeq(S) \in [1 .. n -> T]
  BY <1>2
<1>. QED  BY <1>1, <1>3, SeqDef

LEMMA CandidatesType ==
  ASSUME NEW contexts, Listed(contexts), NEW regime, IsRegime(regime), NEW enabled_ \in SUBSET Keys,
         NEW raising, NEW rates \in [Keys -> Int \cup {None}]
  PROVE  \E T : /\ Candidates(contexts, regime, enabled_, raising, rates) \in Seq(T)
                /\ \A o \in T : IsIdea(o, contexts)
<1>. DEFINE n == Len(contexts)
            median == MedianTurnover(contexts)
            fires(x, key) == IF key \in enabled_ \ raising /\ IsCompatible(key, regime.regimes)
                             THEN Evaluate(key, x, regime.trend) ELSE {}
            opportunity(x, s) == [symbol |-> x.symbol, sector |-> x.sector, signal |-> s,
                                  card |-> Card(s, x, regime, rates[s.key], median)]
            found(x, k) == {opportunity(x, s) : s \in fires(x, Library[k])}
            T == UNION {found(contexts[i], k) : i \in 1 .. n, k \in DOMAIN Library}
            each(x) == [k \in DOMAIN Library |-> SetToSeq(found(x, k))]
            all == [i \in DOMAIN contexts |-> FlattenSeq(each(contexts[i]))]
<1>1. n \in Nat /\ DOMAIN contexts = 1 .. n /\ \A i \in 1 .. n : IsContext(contexts[i])
  BY ListedFacts
<1>2. DOMAIN Library = 1 .. 13 /\ \A k \in DOMAIN Library : Library[k] \in Keys
  BY DEF Library, Keys, Compatible
<1>3. ASSUME NEW i \in 1 .. n, NEW k \in DOMAIN Library, NEW s \in fires(contexts[i], Library[k])
      PROVE  IsIdea(opportunity(contexts[i], s), contexts)
  <2>1. contexts # <<>>
    BY <1>1
  <2>2. median \in Int
    BY <2>1, MedianType
  <2>3. Sound(s, Library[k]) /\ s.key = Library[k]
    BY SMTT(20), <1>1, <1>2, EvaluateSound DEF Sound
  <2>. HIDE DEF median
  <2>. DEFINE o == opportunity(contexts[i], s)
              winRate == rates[s.key]
  <2>4. winRate \in Int \cup {None} /\ IsContext(contexts[i])
    BY <1>1, <1>2, <2>3
  <2>5. o.symbol = contexts[i].symbol /\ o.sector = contexts[i].sector /\ o.signal = s
        /\ o.card = Card(s, contexts[i], regime, winRate, median)
    OBVIOUS
  <2>. HIDE DEF o, winRate
  <2>6. IsCard(Card(s, contexts[i], regime, winRate, median))
    BY <2>2, <2>3, <2>4, CardType
  <2>7. \E j \in DOMAIN contexts : o.symbol = contexts[j].symbol /\ o.sector = contexts[j].sector
    BY <1>1, <2>5
  <2>8. IsIdea(o, contexts)
    BY <2>3, <2>5, <2>6, <2>7 DEF IsIdea
  <2>. QED  BY <2>8 DEF o
<1>4. ASSUME NEW o \in T PROVE IsIdea(o, contexts)
  <2>1. PICK i \in 1 .. n, k \in DOMAIN Library : o \in found(contexts[i], k)
    OBVIOUS
  <2>2. PICK s \in fires(contexts[i], Library[k]) : o = opportunity(contexts[i], s)
    BY <2>1
  <2>. HIDE DEF fires, opportunity
  <2>. QED  BY <1>3, <2>2
<1>5. ASSUME NEW i \in 1 .. n, NEW k \in DOMAIN Library
      PROVE  SetToSeq(found(contexts[i], k)) \in Seq(T)
  <2>1. found(contexts[i], k) \in SUBSET T
    <3>. HIDE DEF found
    <3>. QED  OBVIOUS
  <2>2. AtMostOne(fires(contexts[i], Library[k]))
    <3>1. AtMostOne(Evaluate(Library[k], contexts[i], regime.trend))
      BY <1>2, EvaluateAbstains
    <3>2. AtMostOne({})
      BY DEF AtMostOne
    <3>. QED  BY <3>1, <3>2
  <2>3. IsFiniteSet(found(contexts[i], k))
    <3>. HIDE DEF fires, opportunity
    <3>1. AtMostOne(found(contexts[i], k))
      <4>1. CASE fires(contexts[i], Library[k]) = {}
        BY <4>1 DEF AtMostOne
      <4>2. CASE \E s : fires(contexts[i], Library[k]) = {s}
        <5>1. PICK s : fires(contexts[i], Library[k]) = {s}
          BY <4>2
        <5>2. found(contexts[i], k) = {opportunity(contexts[i], s)}
          BY <5>1
        <5>. HIDE DEF found
        <5>. QED  BY <5>2 DEF AtMostOne
      <4>. QED  BY <2>2, <4>1, <4>2 DEF AtMostOne
    <3>. HIDE DEF found
    <3>. QED  BY <3>1, AtMostOneFinite
  <2>. HIDE DEF found, T
  <2>. QED  BY <2>1, <2>3, SetToSeqType
<1>6. ASSUME NEW i \in 1 .. n PROVE FlattenSeq(each(contexts[i])) \in Seq(T)
  <2>1. each(contexts[i]) \in [1 .. 13 -> Seq(T)]
    <3>. HIDE DEF found, T
    <3>. QED  BY <1>2, <1>5
  <2>2. each(contexts[i]) \in Seq(Seq(T))
    <3>. HIDE DEF each, T
    <3>1. \E m \in Nat : each(contexts[i]) \in [1 .. m -> Seq(T)]
      BY <2>1
    <3>. QED  BY <3>1, SeqDef
  <2>. HIDE DEF each, T
  <2>. QED  BY <2>2, FlattenedType
<1>7. FlattenSeq(all) \in Seq(T)
  <2>. HIDE DEF each, T
  <2>1. all \in [1 .. n -> Seq(T)]
    BY <1>1, <1>6
  <2>. HIDE DEF all
  <2>2. all \in Seq(Seq(T))
    BY <1>1, <2>1, SeqDef
  <2>. QED  BY <2>2, FlattenedType
<1>8. Candidates(contexts, regime, enabled_, raising, rates) = FlattenSeq(all)
  BY DEF Candidates, CandidatesOf
<1>. HIDE DEF T, all
<1>. QED  BY <1>4, <1>7, <1>8
-----------------------------------------------------------------------------
(* What the ranking and the portfolio constraints leave. *)
LEMMA RankedFacts ==
  ASSUME NEW T, \A o \in T : o.card.composite \in Int, NEW candidates \in Seq(T)
  PROVE  LET r == Ranked(candidates)
         IN  /\ r \in Seq(T)
             /\ \A i \in DOMAIN r : r[i].card.composite >= 5500
             /\ \A i, j \in DOMAIN r : i < j => r[i].card.composite >= r[j].card.composite
<1>. DEFINE keys == [i \in DOMAIN candidates |-> candidates[i].card.composite]
            n == Len(candidates)
            order == Order(keys)
            D == {k \in DOMAIN order : keys[order[k]] >= 5500}
            r == [k \in D |-> candidates[order[k]]]
<1>1. n \in Nat /\ DOMAIN candidates = 1 .. n /\ \A i \in 1 .. n : candidates[i] \in T
  BY LenProperties
<1>2. keys \in Seq(Int) /\ Len(keys) = n /\ keys \in [1 .. n -> Int]
  <2>1. keys \in [1 .. n -> Int]
    BY <1>1
  <2>. HIDE DEF keys
  <2>. QED  BY <1>1, <2>1, SeqDef
<1>3. order \in Seq(1 .. n) /\ Len(order) = n /\ Descending(keys, order)
  <2>. HIDE DEF keys
  <2>. QED  BY <1>2, OrderFacts
<1>4. Ranked(candidates) = r
  BY DEF Ranked
<1>5. \A i \in 1 .. n : keys[i] = candidates[i].card.composite
  BY <1>1
<1>. HIDE DEF keys
<1>6. DOMAIN order = 1 .. n /\ \A k \in 1 .. n : order[k] \in 1 .. n /\ keys[order[k]] \in Int
  BY <1>1, <1>2, <1>3
<1>. HIDE DEF order
<1>11. \A i, j \in 1 .. n : i < j => keys[order[i]] >= keys[order[j]]
  BY <1>3, <1>6 DEF Descending
<1>7. PICK m \in 0 .. n : D = 1 .. m
  <2>1. ASSUME NEW j \in D, NEW i \in 1 .. n, i <= j PROVE i \in D
    <3>1. j \in 1 .. n /\ keys[order[j]] >= 5500
      BY <1>6
    <3>2. i = j \/ i < j
      BY <2>1, <3>1
    <3>3. i < j => keys[order[i]] >= keys[order[j]]
      BY <1>11, <3>1
    <3>. QED  BY <1>6, <3>1, <3>2, <3>3
  <2>2. D \in SUBSET (1 .. n)
    BY <1>6
  <2>. HIDE DEF D
  <2>. QED  BY <1>1, <2>1, <2>2, Prefix
<1>8. r \in Seq(T)
  <2>1. r \in [1 .. m -> T]
    BY <1>1, <1>6, <1>7
  <2>. HIDE DEF r
  <2>. QED  BY <1>7, <2>1, SeqDef
<1>9. \A i \in DOMAIN r : i \in 1 .. n /\ r[i].card.composite = keys[order[i]] /\ keys[order[i]] >= 5500
  BY <1>5, <1>6
<1>. HIDE DEF r
<1>10. \A i, j \in DOMAIN r : i < j => r[i].card.composite >= r[j].card.composite
  BY <1>9, <1>11
<1>. QED  BY <1>4, <1>8, <1>9, <1>10

LEMMA MaxOfIndices ==
  ASSUME NEW n \in Nat, NEW S \in SUBSET (1 .. n), S # {}
  PROVE  Max(S) \in S
<1>. DEFINE R == {d \in Nat : n - d \in S}
<1>1. R \in SUBSET Nat /\ R # {}
  <2>1. PICK s \in S : TRUE
    OBVIOUS
  <2>2. n - s \in Nat /\ n - (n - s) = s
    OBVIOUS
  <2>. QED  BY <2>1, <2>2
<1>2. PICK d \in R : \A e \in R : d <= e
  <2>. HIDE DEF R
  <2>. QED  BY <1>1, NatMin
<1>3. n - d \in S /\ \A y \in S : n - d >= y
  <2>1. ASSUME NEW y \in S PROVE n - d >= y
    <3>1. n - y \in Nat /\ n - (n - y) = y /\ y \in Int
      OBVIOUS
    <3>2. n - y \in R
      BY <3>1
    <3>3. d <= n - y
      BY <1>2, <3>2
    <3>. QED  BY <3>1, <3>3
  <2>. QED  BY <2>1
<1>. QED  BY <1>3 DEF Max

LEMMA MinOfIndices ==
  ASSUME NEW S \in SUBSET Nat, S # {}
  PROVE  Min(S) \in S
<1>1. \E n \in S : \A m \in S : n <= m
  BY NatMin
<1>. QED  BY <1>1 DEF Min

(* What may stand before what in a book *)
Apart(p, q) ==
    /\ p.symbol # q.symbol
    /\ ~(p.sector = q.sector /\ p.sector # None /\ p.signal.dir = q.signal.dir)
    /\ p.card.composite >= q.card.composite

OfSector(acc, sector) == {j \in DOMAIN acc : acc[j].sector = sector}

Admissible(acc) ==
    /\ Len(acc) <= MaxPositions /\ Len(acc) <= RiskSlots
    /\ \A i, j \in DOMAIN acc : i < j => Apart(acc[i], acc[j])
    /\ \A sector : sector # None => Cardinality(OfSector(acc, sector)) <= MaxPerSector

LEMMA OfSectorFinite ==
  ASSUME NEW T, NEW acc \in Seq(T), NEW sector
  PROVE  IsFiniteSet(OfSector(acc, sector)) /\ Cardinality(OfSector(acc, sector)) \in Nat
<1>1. IsFiniteSet(1 .. Len(acc))
  <2>. DEFINE one == 1
              n == Len(acc)
  <2>1. one \in Int /\ n \in Int
    OBVIOUS
  <2>. HIDE DEF one, n
  <2>2. IsFiniteSet(one .. n)
    BY <2>1, FS_Interval
  <2>. QED  BY <2>2 DEF one, n
<1>2. OfSector(acc, sector) \in SUBSET (1 .. Len(acc))
  BY DEF OfSector
<1>. QED  BY <1>1, <1>2, FS_Subset, FS_CardinalityType

LEMMA OfSectorGrows ==
  ASSUME NEW T, NEW acc \in Seq(T), NEW o \in T, NEW sector
  PROVE  LET old == OfSector(acc, sector)
             new == OfSector(Append(acc, o), sector)
         IN  IF o.sector = sector THEN Cardinality(new) <= Cardinality(old) + 1 ELSE new = old
<1>. DEFINE old == OfSector(acc, sector)
            new == OfSector(Append(acc, o), sector)
            n == Len(acc) + 1
<1>1. IsFiniteSet(old) /\ Cardinality(old) \in Nat
  BY OfSectorFinite
<1>2. /\ DOMAIN acc = 1 .. Len(acc) /\ Len(acc) \in Nat
      /\ DOMAIN Append(acc, o) = 1 .. n /\ Append(acc, o)[n] = o
      /\ \A i \in 1 .. Len(acc) : Append(acc, o)[i] = acc[i]
  OBVIOUS
<1>3. CASE o.sector = sector
  <2>1. new = old \cup {n}
    BY <1>2, <1>3 DEF OfSector
  <2>. HIDE DEF old, n
  <2>2. Cardinality(old \cup {n}) <= Cardinality(old) + 1
    <3>1. Cardinality(old \cup {n}) = IF n \in old THEN Cardinality(old) ELSE Cardinality(old) + 1
      BY <1>1, FS_AddElement
    <3>. QED  BY <1>1, <3>1
  <2>. QED  BY <1>3, <2>1, <2>2 DEF old
<1>4. CASE o.sector # sector
  <2>1. new = old
    BY <1>2, <1>4 DEF OfSector
  <2>. QED  BY <1>4, <2>1
<1>. QED  BY <1>3, <1>4

LEMMA AcceptedFacts ==
  ASSUME NEW contexts, Listed(contexts), NEW T, \A o \in T : IsIdea(o, contexts),
         NEW ranked \in Seq(T),
         \A i, j \in DOMAIN ranked : i < j => ranked[i].card.composite >= ranked[j].card.composite
  PROVE  LET a == Accepted(ranked, <<>>)
         IN  /\ a \in Seq(T) /\ Admissible(a)
             /\ \A i \in DOMAIN a : \E j \in DOMAIN ranked : a[i] = ranked[j]
             /\ a # <<>> => ranked # <<>> /\ a[1] = ranked[1]
<1>. DEFINE n == Len(ranked)
            X == Seq(T)
            held == <<>>
            sectorOf(symbol) ==
                LET mine == {i \in DOMAIN ranked : ranked[i].symbol = symbol}
                IN  IF mine = {} THEN None ELSE ranked[Max(mine)].sector
            conflict(o, h) == \/ h.symbol = o.symbol
                              \/ /\ h.dir = o.signal.dir
                                 /\ sectorOf(h.symbol) # None /\ sectorOf(h.symbol) = sectorOf(o.symbol)
            sectorCount(o, acc) ==
                Cardinality({i \in DOMAIN held : held[i].sector = o.sector})
                + Cardinality({i \in DOMAIN acc : acc[i].sector = o.sector})
            fits(o, acc) ==
                /\ Len(acc) < MaxPositions /\ Len(acc) + 1 <= RiskSlots
                /\ o.sector = None \/ sectorCount(o, acc) < MaxPerSector
                /\ \A i \in DOMAIN held : ~conflict(o, held[i])
                /\ \A i \in DOMAIN acc : ~conflict(o, [symbol |-> acc[i].symbol, dir |-> acc[i].signal.dir])
            taken[k \in 0 .. Len(ranked)] ==
                IF k = 0 THEN <<>>
                ELSE LET acc == taken[k - 1]
                     IN  IF fits(ranked[k], acc) THEN Append(acc, ranked[k]) ELSE acc
            room(acc) == Len(acc) < MaxPositions /\ Len(acc) + 1 <= RiskSlots
            clash(o, p) == \/ p.symbol = o.symbol
                           \/ p.signal.dir = o.signal.dir /\ p.sector # None /\ p.sector = o.sector
            admits(o, acc) ==
                /\ room(acc)
                /\ o.sector = None \/ Cardinality(OfSector(acc, o.sector)) < MaxPerSector
                /\ \A i \in DOMAIN acc : ~clash(o, acc[i])
            step == [k \in 1 .. n |-> [u \in X |-> IF fits(ranked[k], u) THEN Append(u, ranked[k]) ELSE u]]
<1>1. n \in Nat /\ DOMAIN ranked = 1 .. n /\ <<>> \in X /\ \A i \in 1 .. n : ranked[i] \in T
  BY LenProperties
<1>2. step \in Steps(X, n)
  <2>1. ASSUME NEW k \in 1 .. n, NEW u \in X
        PROVE  (IF fits(ranked[k], u) THEN Append(u, ranked[k]) ELSE u) \in X
    <3>. HIDE DEF fits
    <3>. QED  BY <1>1, AppendProperties
  <2>. HIDE DEF fits, n, X
  <2>. QED  BY <2>1 DEF Steps
<1>3. PICK g : Iterates(g, X, n, <<>>, step)
  <2>. HIDE DEF n, X, step
  <2>. QED  BY <1>1, <1>2, Iteration
<1>4. g = [k \in 0 .. Len(ranked) |->
              IF k = 0 THEN <<>>
              ELSE LET acc == g[k - 1]
                   IN  IF fits(ranked[k], acc) THEN Append(acc, ranked[k]) ELSE acc]
  <2>. HIDE DEF fits
  <2>1. ASSUME NEW k \in 1 .. n
        PROVE  g[k] = IF fits(ranked[k], g[k - 1]) THEN Append(g[k - 1], ranked[k]) ELSE g[k - 1]
    <3>1. g[k - 1] \in X
      <4>1. k - 1 \in 0 .. n
        BY <1>1
      <4>. QED  BY <1>3, <4>1 DEF Iterates
    <3>. QED  BY <1>3, <3>1 DEF Iterates
  <2>2. g \in [0 .. n -> X] /\ g[0] = <<>>
    BY <1>3 DEF Iterates
  <2>. HIDE DEF step
  <2>3. ASSUME NEW k \in 0 .. n
        PROVE  g[k] = IF k = 0 THEN <<>> ELSE IF fits(ranked[k], g[k - 1]) THEN Append(g[k - 1], ranked[k]) ELSE g[k - 1]
    <3>1. CASE k = 0
      BY <2>2, <3>1
    <3>2. CASE k # 0
      <4>1. k \in 1 .. n
        BY <1>1, <3>2
      <4>. QED  BY <2>1, <3>2, <4>1
    <3>. QED  BY <3>1, <3>2
  <2>. QED  BY <2>2, <2>3
<1>5. taken = [k \in 0 .. Len(ranked) |->
              IF k = 0 THEN <<>>
              ELSE LET acc == taken[k - 1]
                   IN  IF fits(ranked[k], acc) THEN Append(acc, ranked[k]) ELSE acc]
  <2>. HIDE DEF fits
  <2>. QED  BY <1>4
<1>6. Accepted(ranked, <<>>) = taken[n]
  BY DEF Accepted
<1>. HIDE DEF taken, step
<1>13. /\ taken[0] = <<>>
       /\ \A k \in 1 .. n : taken[k] = IF fits(ranked[k], taken[k - 1])
                                       THEN Append(taken[k - 1], ranked[k]) ELSE taken[k - 1]
  <2>. HIDE DEF fits
  <2>1. ASSUME NEW k \in 0 .. n
        PROVE  taken[k] = IF k = 0 THEN <<>>
                          ELSE LET acc == taken[k - 1]
                               IN  IF fits(ranked[k], acc) THEN Append(acc, ranked[k]) ELSE acc
    BY <1>5
  <2>2. 0 \in 0 .. n /\ \A k \in 1 .. n : k \in 0 .. n /\ k # 0
    BY <1>1
  <2>. QED  BY <2>1, <2>2
<1>7. ASSUME NEW i \in 1 .. n PROVE sectorOf(ranked[i].symbol) = ranked[i].sector
  <2>. DEFINE mine == {j \in DOMAIN ranked : ranked[j].symbol = ranked[i].symbol}
  <2>1. mine \in SUBSET (1 .. n) /\ i \in mine
    BY <1>1
  <2>2. Max(mine) \in mine
    <3>. HIDE DEF mine, n
    <3>. QED  BY <1>1, <2>1, MaxOfIndices
  <2>3. sectorOf(ranked[i].symbol) = ranked[Max(mine)].sector
    BY <2>1
  <2>. DEFINE m == Max(mine)
  <2>4. m \in 1 .. n /\ ranked[m].symbol = ranked[i].symbol
    BY <1>1, <2>2
  <2>. HIDE DEF m, sectorOf
  <2>5. ranked[m].sector = ranked[i].sector
    <3>1. PICK c \in DOMAIN contexts : ranked[m].symbol = contexts[c].symbol /\ ranked[m].sector = contexts[c].sector
      BY <1>1, <2>4 DEF IsIdea
    <3>2. PICK d \in DOMAIN contexts : ranked[i].symbol = contexts[d].symbol /\ ranked[i].sector = contexts[d].sector
      BY <1>1 DEF IsIdea
    <3>3. c = d
      BY <2>4, <3>1, <3>2 DEF Listed
    <3>. QED  BY <3>1, <3>2, <3>3
  <2>. QED  BY <2>3, <2>5 DEF m
<1>8. ASSUME NEW k \in 1 .. n, NEW acc \in X, \A i \in DOMAIN acc : \E j \in 1 .. n : acc[i] = ranked[j]
      PROVE  fits(ranked[k], acc) <=> admits(ranked[k], acc)
  <2>1. ASSUME NEW i \in DOMAIN acc
        PROVE  conflict(ranked[k], [symbol |-> acc[i].symbol, dir |-> acc[i].signal.dir]) <=> clash(ranked[k], acc[i])
    <3>1. PICK j \in 1 .. n : acc[i] = ranked[j]
      BY <1>8
    <3>2. sectorOf(acc[i].symbol) = acc[i].sector /\ sectorOf(ranked[k].symbol) = ranked[k].sector
      <4>. HIDE DEF sectorOf
      <4>. QED  BY <1>7, <3>1
    <3>. HIDE DEF sectorOf
    <3>. QED  BY <3>2
  <2>2. sectorCount(ranked[k], acc) = Cardinality(OfSector(acc, ranked[k].sector))
    <3>. DEFINE none == {i \in DOMAIN held : held[i].sector = ranked[k].sector}
                some == OfSector(acc, ranked[k].sector)
    <3>1. none = {}
      OBVIOUS
    <3>2. Cardinality(some) \in Nat
      BY OfSectorFinite
    <3>3. Cardinality(none) = 0
      BY <3>1, FS_EmptySet
    <3>4. sectorCount(ranked[k], acc) = Cardinality(none) + Cardinality(some)
      BY DEF OfSector
    <3>. HIDE DEF none, some, sectorCount
    <3>5. sectorCount(ranked[k], acc) = Cardinality(some)
      BY <3>2, <3>3, <3>4
    <3>. QED  BY <3>5 DEF some
  <2>3. \A i \in DOMAIN held : FALSE
    OBVIOUS
  <2>. HIDE DEF conflict, clash, sectorCount, held
  <2>. QED  BY <2>1, <2>2, <2>3
<1>. HIDE DEF fits, conflict, sectorOf, sectorCount, held
<1>. DEFINE Good(k) ==
              /\ taken[k] \in X /\ Admissible(taken[k])
              /\ \A i \in DOMAIN taken[k] : \E j \in 1 .. k : taken[k][i] = ranked[j]
              /\ IF taken[k] = <<>> THEN k = 0 \/ ~room(<<>>) ELSE taken[k][1] = ranked[1]
            S == {k \in 0 .. n : Good(k)}
<1>9. 0 \in S
  <2>1. taken[0] = <<>>
    BY <1>13
  <2>2. Admissible(<<>>)
    <3>1. ASSUME NEW sector PROVE Cardinality(OfSector(<<>>, sector)) <= MaxPerSector
      <4>1. OfSector(<<>>, sector) = {}
        BY DEF OfSector
      <4>2. Cardinality(OfSector(<<>>, sector)) = 0
        BY <4>1, FS_EmptySet
      <4>. QED  BY <4>2, Constraints
    <3>2. Len(<<>>) <= MaxPositions /\ Len(<<>>) <= RiskSlots
      BY Constraints
    <3>3. \A i \in DOMAIN <<>> : FALSE
      OBVIOUS
    <3>. QED  BY <3>1, <3>2, <3>3 DEF Admissible
  <2>3. Good(0)
    <3>1. \A i \in DOMAIN <<>> : FALSE
      OBVIOUS
    <3>. HIDE DEF room
    <3>. QED  BY <1>1, <2>1, <2>2, <3>1
  <2>. QED  BY <1>1, <2>3
<1>10. ASSUME NEW k \in 1 .. n, k - 1 \in S PROVE k \in S
  <2>. DEFINE acc == taken[k - 1]
              o == ranked[k]
              new == Append(acc, o)
  <2>1. /\ acc \in X /\ Admissible(acc)
        /\ \A i \in DOMAIN acc : \E j \in 1 .. k - 1 : acc[i] = ranked[j]
        /\ IF acc = <<>> THEN k - 1 = 0 \/ ~room(<<>>) ELSE acc[1] = ranked[1]
    BY <1>10
  <2>2. o \in T /\ IsIdea(o, contexts)
    BY <1>1
  <2>3. taken[k] = IF fits(o, acc) THEN new ELSE acc
    BY <1>13
  <2>4. fits(o, acc) <=> admits(o, acc)
    <3>1. \A i \in DOMAIN acc : \E j \in 1 .. n : acc[i] = ranked[j]
      BY <1>1, <2>1
    <3>. HIDE DEF acc, admits
    <3>. QED  BY <1>8, <2>1, <3>1
  <2>. HIDE DEF acc, o
  <2>5. CASE ~admits(o, acc)
    <3>1. taken[k] = acc
      BY <2>3, <2>4, <2>5
    <3>2. \A i \in DOMAIN acc : \E j \in 1 .. k : acc[i] = ranked[j]
      BY <1>1, <2>1
    <3>3. acc = <<>> => ~room(<<>>)
      <4>1. ASSUME acc = <<>>, room(<<>>) PROVE admits(o, acc)
        <5>1. OfSector(acc, o.sector) = {}
          BY <4>1 DEF OfSector
        <5>2. Cardinality(OfSector(acc, o.sector)) = 0
          BY <5>1, FS_EmptySet
        <5>3. Cardinality(OfSector(acc, o.sector)) < MaxPerSector
          BY <5>2, Constraints
        <5>4. \A i \in DOMAIN acc : FALSE
          BY <4>1
        <5>. HIDE DEF room, clash
        <5>. QED  BY <4>1, <5>3, <5>4
      <4>. QED  BY <2>5, <4>1
    <3>4. Good(k)
      <4>. HIDE DEF room
      <4>. QED  BY <2>1, <3>1, <3>2, <3>3
    <3>. QED  BY <1>1, <3>4
  <2>6. CASE admits(o, acc)
    <3>1. taken[k] = new
      BY <2>3, <2>4, <2>6
    <3>2. /\ new \in X /\ Len(new) = Len(acc) + 1 /\ Len(acc) \in Nat
          /\ DOMAIN acc = 1 .. Len(acc) /\ DOMAIN new = 1 .. Len(acc) + 1
          /\ new[Len(acc) + 1] = o /\ \A i \in DOMAIN acc : new[i] = acc[i]
      BY <2>1, <2>2
    <3>. HIDE DEF new
    <3>3. \A i \in DOMAIN new : \E j \in 1 .. k : new[i] = ranked[j]
      <4>1. ASSUME NEW i \in DOMAIN acc PROVE \E j \in 1 .. k : new[i] = ranked[j]
        BY <1>1, <2>1, <3>2
      <4>2. new[Len(acc) + 1] = ranked[k] /\ k \in 1 .. k
        BY <1>1, <3>2 DEF o
      <4>. QED  BY SMTT(20), <3>2, <4>1, <4>2
    <3>4. Len(new) <= MaxPositions /\ Len(new) <= RiskSlots
      BY <2>6, <3>2, Constraints
    <3>5. ASSUME NEW i \in DOMAIN new, NEW j \in DOMAIN new, i < j PROVE Apart(new[i], new[j])
      <4>1. CASE j \in DOMAIN acc
        BY <2>1, <3>2, <3>5, <4>1 DEF Admissible
      <4>2. CASE j = Len(acc) + 1
        <5>1. i \in DOMAIN acc /\ new[i] = acc[i] /\ new[j] = o
          BY <3>2, <3>5, <4>2
        <5>2. ~clash(o, acc[i])
          BY <2>6, <5>1
        <5>3. acc[i].card.composite >= o.card.composite
          <6>1. PICK q \in 1 .. k - 1 : acc[i] = ranked[q]
            BY <2>1, <5>1
          <6>2. q \in 1 .. n /\ k \in 1 .. n /\ q < k
            BY <1>1
          <6>. QED  BY <1>1, <6>1, <6>2 DEF o
        <5>. QED  BY <5>1, <5>2, <5>3 DEF Apart
      <4>. QED  BY <3>2, <4>1, <4>2
    <3>6. ASSUME NEW sector, sector # None PROVE Cardinality(OfSector(new, sector)) <= MaxPerSector
      <4>1. Cardinality(OfSector(acc, sector)) \in Nat
        BY <2>1, OfSectorFinite
      <4>2. Cardinality(OfSector(acc, sector)) <= MaxPerSector
        BY <2>1, <3>6 DEF Admissible
      <4>3. IF o.sector = sector
            THEN Cardinality(OfSector(new, sector)) <= Cardinality(OfSector(acc, sector)) + 1
            ELSE OfSector(new, sector) = OfSector(acc, sector)
        BY <2>1, <2>2, OfSectorGrows DEF new
      <4>4. o.sector = sector => Cardinality(OfSector(acc, sector)) < MaxPerSector
        BY <2>6, <3>6
      <4>5. Cardinality(OfSector(new, sector)) \in Nat
        BY <3>2, OfSectorFinite
      <4>. QED  BY <4>1, <4>2, <4>3, <4>4, <4>5, Constraints
    <3>7. Admissible(new)
      BY <3>4, <3>5, <3>6 DEF Admissible
    <3>8. new # <<>> /\ new[1] = ranked[1]
      <4>1. CASE acc = <<>>
        <5>1. room(<<>>)
          BY <2>6, <4>1
        <5>2. k = 1
          BY <1>1, <2>1, <4>1, <5>1
        <5>3. Len(acc) = 0
          BY <4>1
        <5>4. new[1] = o /\ Len(new) = 1
          BY <3>2, <5>3
        <5>5. new # <<>>
          BY <3>2, <5>4
        <5>. QED  BY <5>2, <5>4, <5>5 DEF o
      <4>2. CASE acc # <<>>
        <5>1. Len(acc) # 0
          BY <2>1, <4>2
        <5>. QED  BY <2>1, <3>2, <4>2, <5>1
      <4>. QED  BY <4>1, <4>2
    <3>9. Good(k)
      <4>. HIDE DEF room
      <4>. QED  BY <3>1, <3>2, <3>3, <3>7, <3>8
    <3>. QED  BY <1>1, <3>9
  <2>. QED  BY <2>5, <2>6
<1>11. Good(n)
  <2>1. 0 .. n \subseteq S
    <3>. HIDE DEF n, S
    <3>. QED  BY <1>1, <1>9, <1>10, BoundedInduction
  <2>. QED  BY <1>1, <2>1
<1>12. taken[n] # <<>> => ranked # <<>>
  <2>1. ASSUME ranked = <<>> PROVE taken[n] = <<>>
    <3>1. n = 0
      BY <2>1
    <3>. QED  BY <1>5, <3>1
  <2>. QED  BY <2>1
<1>. QED  BY <1>1, <1>6, <1>11, <1>12

(* A book as a scan of some market leaves it *)
IsBook(b, contexts) ==
    LET o == b.opportunities
    IN  /\ IsRegime(b.regime)
        /\ IsHostile(b.regime) => o = <<>>
        /\ DOMAIN o = 1 .. Len(o) /\ Len(o) \in Nat /\ Admissible(o)
        /\ \A i \in DOMAIN o : IsIdea(o[i], contexts) /\ o[i].card.composite >= 5500
        /\ o # <<>> => o[1].card.composite >= 6000

LEMMA AdmissiblePrefix ==
  ASSUME NEW T, NEW a \in Seq(T), Admissible(a), NEW m \in 0 .. Len(a)
  PROVE  LET o == SubSeq(a, 1, m)
         IN  /\ o \in Seq(T) /\ Len(o) = m /\ DOMAIN o = 1 .. m
             /\ Admissible(o) /\ \A i \in 1 .. m : o[i] = a[i]
<1>. DEFINE o == SubSeq(a, 1, m)
<1>1. o \in Seq(T) /\ Len(o) = m /\ DOMAIN o = 1 .. m /\ \A i \in 1 .. m : o[i] = a[i]
  BY SubSeqProperties
<1>2. DOMAIN a = 1 .. Len(a) /\ Len(a) \in Nat
  OBVIOUS
<1>. HIDE DEF o
<1>3. Len(o) <= MaxPositions /\ Len(o) <= RiskSlots
  BY <1>1, <1>2, Constraints DEF Admissible
<1>4. \A i, j \in DOMAIN o : i < j => Apart(o[i], o[j])
  BY <1>1, <1>2 DEF Admissible
<1>5. ASSUME NEW sector, sector # None PROVE Cardinality(OfSector(o, sector)) <= MaxPerSector
  <2>1. IsFiniteSet(OfSector(a, sector)) /\ Cardinality(OfSector(a, sector)) \in Nat
    BY OfSectorFinite
  <2>2. Cardinality(OfSector(a, sector)) <= MaxPerSector
    BY <1>5 DEF Admissible
  <2>3. OfSector(o, sector) \in SUBSET OfSector(a, sector)
    BY <1>1, <1>2 DEF OfSector
  <2>4. Cardinality(OfSector(o, sector)) <= Cardinality(OfSector(a, sector))
    BY <2>1, <2>3, FS_Subset
  <2>5. Cardinality(OfSector(o, sector)) \in Nat
    BY <1>1, OfSectorFinite
  <2>. QED  BY <2>1, <2>2, <2>4, <2>5, Constraints
<1>6. Admissible(o)
  BY ONLY <1>3, <1>4, <1>5 DEF Admissible
<1>. QED  BY <1>1, <1>6 DEF o

LEMMA ScanFacts ==
  ASSUME NEW ix, IsIndex(ix), NEW contexts, Listed(contexts), NEW enabled_ \in SUBSET Keys, NEW raising,
         NEW rates \in [Keys -> Int \cup {None}], NEW top \in Nat
  PROVE  IsBook(Scan(ix, contexts, enabled_, raising, rates, <<>>, top), contexts)
<1>. DEFINE regime == Detect(ix)
            candidates == Candidates(contexts, regime, enabled_, raising, rates)
            ranked == Ranked(candidates)
            final == IF NoTrade(ranked, regime) THEN <<>> ELSE Accepted(ranked, <<>>)
            m == Least(top, Len(final))
            o == SubSeq(final, 1, m)
            b == Scan(ix, contexts, enabled_, raising, rates, <<>>, top)
<1>1. IsRegime(regime)
  BY DetectType
<1>2. b.regime = regime /\ b.opportunities = o
  BY DEF Scan
<1>10. b = Scan(ix, contexts, enabled_, raising, rates, <<>>, top)
  OBVIOUS
<1>. HIDE DEF regime, b
<1>3. PICK T : candidates \in Seq(T) /\ \A u \in T : IsIdea(u, contexts)
  BY <1>1, CandidatesType
<1>. HIDE DEF candidates
<1>4. \A u \in T : u.card.composite \in Int
  BY <1>3, IdeaScores
<1>5. /\ ranked \in Seq(T)
      /\ \A i \in DOMAIN ranked : ranked[i].card.composite >= 5500
      /\ \A i, j \in DOMAIN ranked : i < j => ranked[i].card.composite >= ranked[j].card.composite
  BY <1>3, <1>4, RankedFacts
<1>. HIDE DEF ranked
<1>. DEFINE a == Accepted(ranked, <<>>)
<1>6. /\ a \in Seq(T) /\ Admissible(a)
      /\ \A i \in DOMAIN a : \E j \in DOMAIN ranked : a[i] = ranked[j]
      /\ a # <<>> => ranked # <<>> /\ a[1] = ranked[1]
  BY <1>3, <1>5, AcceptedFacts
<1>7. final = IF NoTrade(ranked, regime) THEN <<>> ELSE a
  OBVIOUS
<1>. HIDE DEF a, final
<1>8. CASE NoTrade(ranked, regime)
  <2>1. final = <<>> /\ Len(final) = 0
    BY <1>7, <1>8
  <2>2. o = <<>>
    <3>1. m \in 0 .. 0 \/ m < 0
      BY <2>1 DEF Least
    <3>. QED  BY <2>1, <3>1
  <2>. HIDE DEF o
  <2>3. \A i \in DOMAIN <<>> : FALSE
    OBVIOUS
  <2>4. Admissible(<<>>)
    <3>1. ASSUME NEW sector PROVE Cardinality(OfSector(<<>>, sector)) <= MaxPerSector
      <4>1. OfSector(<<>>, sector) = {}
        BY DEF OfSector
      <4>2. Cardinality(OfSector(<<>>, sector)) = 0
        BY <4>1, FS_EmptySet
      <4>. QED  BY <4>2, Constraints
    <3>2. Len(<<>>) <= MaxPositions /\ Len(<<>>) <= RiskSlots
      BY Constraints
    <3>. QED  BY <2>3, <3>1, <3>2 DEF Admissible
  <2>5. DOMAIN <<>> = 1 .. Len(<<>>) /\ Len(<<>>) \in Nat
    OBVIOUS
  <2>6. IsBook(b, contexts)
    BY <1>1, <1>2, <2>2, <2>3, <2>4, <2>5 DEF IsBook
  <2>. QED  BY <1>10, <2>6
<1>9. CASE ~NoTrade(ranked, regime)
  <2>1. final = a /\ ~IsHostile(regime) /\ ~(ranked[1].card.composite < 6000)
    BY <1>7, <1>9 DEF NoTrade
  <2>2. m \in 0 .. Len(a)
    BY <1>6, <2>1 DEF Least
  <2>. HIDE DEF m
  <2>3. o = SubSeq(a, 1, m)
    BY <2>1
  <2>. HIDE DEF o
  <2>4. o \in Seq(T) /\ Len(o) = m /\ DOMAIN o = 1 .. m /\ Admissible(o) /\ \A i \in 1 .. m : o[i] = a[i]
    BY <1>6, <2>2, <2>3, AdmissiblePrefix
  <2>5. ASSUME NEW i \in DOMAIN o PROVE IsIdea(o[i], contexts) /\ o[i].card.composite >= 5500
    <3>1. i \in DOMAIN a /\ o[i] = a[i]
      BY <1>6, <2>2, <2>4
    <3>2. PICK j \in DOMAIN ranked : a[i] = ranked[j]
      BY <1>6, <3>1
    <3>3. ranked[j] \in T
      BY <1>5
    <3>. QED  BY <1>3, <1>5, <3>1, <3>2, <3>3
  <2>6. ASSUME o # <<>> PROVE o[1].card.composite >= 6000
    <3>1. m # 0
      BY <2>4, <2>6
    <3>2. 1 \in 1 .. m /\ a # <<>>
      BY <1>6, <2>2, <3>1
    <3>3. o[1] = ranked[1] /\ ranked # <<>>
      BY <1>6, <2>4, <3>2
    <3>4. ranked[1] \in T
      BY <1>5, <3>3
    <3>. QED  BY <1>4, <2>1, <3>3, <3>4
  <2>7. m \in Nat
    BY <1>6, <2>2
  <2>8. IsBook(b, contexts)
    BY <1>1, <1>2, <2>1, <2>4, <2>5, <2>6, <2>7 DEF IsBook
  <2>. QED  BY <1>10, <2>8
<1>. QED  BY <1>8, <1>9

-----------------------------------------------------------------------------
(* The decision: what is carried from one step to the next. *)
IsBrief(b) ==
    \E m \in Markets :
        /\ IsBook(b.book, m.contexts) /\ b.regime = b.book.regime
        /\ ~IsHostile(b.regime)
        /\ \E i \in DOMAIN b.book.opportunities : b.opp = b.book.opportunities[i]
        /\ b.x \in Range(m.contexts)

IsConfig(c) == c = None \/ (c \in Payloads /\ ValidConfig(c))

IsDeliberation(a) ==
    /\ IsBrief(a.brief) /\ a.brief.portfolio \in Portfolios
    /\ IsConfig(a.config)
    /\ a.verdict = Deliberate(a.brief, a.config, a.silent)

(* The inductive invariant: every book in sight is one a scan made, the brief is  *)
(* of a trade in its book, the configuration is one that was accepted, and an     *)
(* answer is the deliberation of its own brief.                                   *)
Coherent ==
    /\ market \in Markets /\ enabled \in SUBSET Keys /\ proven \in [Keys -> Int \cup {None}]
    /\ IsConfig(config)
    /\ \A b \in Books : \E m \in Markets : IsBook(b, m.contexts)
    /\ brief # None => IsBrief(brief)
    /\ Deliberated => IsDeliberation(answer)

LEMMA ScanNowFacts ==
  ASSUME Coherent, NEW flags \in SUBSET Keys, NEW faulty
  PROVE  IsBook(ScanNow(flags, faulty), market.contexts)
<1>1. market \in Markets /\ proven \in [Keys -> Int \cup {None}]
  BY DEF Coherent
<1>2. IsIndex(market.index) /\ Listed(market.contexts)
  BY <1>1, MarketsAreData DEF Listed
<1>3. TopN \in Nat
  BY DEF TopN
<1>. QED  BY <1>1, <1>2, <1>3, ScanFacts DEF ScanNow

LEMMA InitCoherent == Init => Coherent
<1>. SUFFICES ASSUME Init PROVE Coherent
  OBVIOUS
<1>1. proven \in [Keys -> Int \cup {None}]
  BY DEF Init
<1>2. Books = {} /\ ~Deliberated /\ brief = None
  BY DEF Init, Books, Deliberated
<1>3. config = None /\ market \in Markets /\ enabled = Keys
  BY DEF Init
<1>4. IsConfig(config) /\ enabled \in SUBSET Keys
  BY <1>3 DEF IsConfig
<1>. QED  BY <1>1, <1>2, <1>3, <1>4 DEF Coherent

LEMMA NextCoherent == Coherent /\ [Next]_vars => Coherent'
<1>. SUFFICES ASSUME Coherent, [Next]_vars PROVE Coherent'
  OBVIOUS
<1>. USE DEF Books, Deliberated
<1>1. CASE Alpha
  <2>1. PICK faulty \in FaultySets :
          LET flags == IF AllowList = {} THEN enabled ELSE AllowList \cap Keys
          IN  enabled' = flags /\ answer' = [book |-> ScanNow(flags, faulty)]
    BY <1>1 DEF Alpha
  <2>2. enabled' \in SUBSET Keys /\ answer' = [book |-> ScanNow(enabled', faulty)]
    BY <2>1 DEF Coherent
  <2>3. IsBook(ScanNow(enabled', faulty), market.contexts)
    BY <2>2, ScanNowFacts
  <2>4. UNCHANGED <<market, proven, config, brief>>
    BY <1>1 DEF Alpha
  <2>. DEFINE b == ScanNow(enabled', faulty)
  <2>5. answer' = [book |-> b] /\ IsBook(b, market.contexts)
    BY <2>2, <2>3
  <2>. HIDE DEF b
  <2>6. answer'.book = b /\ ~Deliberated'
    BY <2>5
  <2>7. \A c \in Books' : c = b \/ c \in Books
    BY <2>4, <2>6
  <2>. QED  BY <2>2, <2>4, <2>5, <2>6, <2>7 DEF Coherent
<1>2. CASE Convene
  <2>1. /\ UNCHANGED <<market, enabled, proven, config, answer>> /\ brief = None /\ answer = None
    BY <1>2 DEF Convene
  <2>2. PICK faulty \in FaultySets :
          LET scanned == ScanNow(enabled, faulty)
              x(o) == CHOOSE c \in Range(market.contexts) : c.symbol = o.symbol
              picked(symbol) == SelectFirst(scanned.opportunities, symbol)
          IN  \E symbol \in {None} \cup {c.symbol : c \in Range(market.contexts)} :
                brief' = IF picked(symbol) = None THEN None
                         ELSE [opp |-> picked(symbol), x |-> x(picked(symbol)),
                               regime |-> scanned.regime, book |-> scanned]
    BY <1>2 DEF Convene
  <2>. DEFINE scanned == ScanNow(enabled, faulty)
              x(o) == CHOOSE c \in Range(market.contexts) : c.symbol = o.symbol
              picked(symbol) == SelectFirst(scanned.opportunities, symbol)
  <2>3. PICK symbol : brief' = IF picked(symbol) = None THEN None
                               ELSE [opp |-> picked(symbol), x |-> x(picked(symbol)),
                                     regime |-> scanned.regime, book |-> scanned]
    BY <2>2
  <2>4. IsBook(scanned, market.contexts)
    BY ScanNowFacts DEF Coherent
  <2>. HIDE DEF scanned
  <2>5. ASSUME picked(symbol) # None PROVE brief'.book = scanned /\ IsBrief(brief')
    <3>. DEFINE o == scanned.opportunities
                mine == {i \in DOMAIN o : symbol \in {None, o[i].symbol}}
                i == Min(mine)
    <3>1. mine # {} /\ picked(symbol) = o[i]
      BY <2>5 DEF SelectFirst
    <3>2. DOMAIN o = 1 .. Len(o) /\ Len(o) \in Nat
      BY <2>4 DEF IsBook
    <3>3. i \in DOMAIN o
      <4>1. mine \in SUBSET Nat
        BY <3>2
      <4>2. i \in mine
        <5>. HIDE DEF mine
        <5>. QED  BY <3>1, <4>1, MinOfIndices
      <4>. QED  BY <4>2
    <3>. HIDE DEF i, mine
    <3>4. IsIdea(o[i], market.contexts) /\ ~IsHostile(scanned.regime)
      <4>1. o # <<>>
        BY <3>3
      <4>. QED  BY <2>4, <3>3, <4>1 DEF IsBook
    <3>5. x(o[i]) \in Range(market.contexts)
      <4>1. PICK k \in DOMAIN market.contexts : o[i].symbol = market.contexts[k].symbol
        BY <3>4 DEF IsIdea
      <4>2. market.contexts[k] \in Range(market.contexts)
        BY DEF Range
      <4>. QED  BY <4>1, <4>2
    <3>. HIDE DEF o, x
    <3>6. brief' = [opp |-> o[i], x |-> x(o[i]), regime |-> scanned.regime, book |-> scanned]
      <4>. HIDE DEF picked
      <4>. QED  BY <2>3, <2>5, <3>1
    <3>. HIDE DEF picked
    <3>7. /\ brief'.opp = o[i] /\ brief'.x = x(o[i]) /\ brief'.regime = scanned.regime
          /\ brief'.book = scanned
      BY <3>6
    <3>8. market \in Markets
      BY DEF Coherent
    <3>. QED  BY <2>4, <3>3, <3>4, <3>5, <3>7, <3>8 DEF IsBrief, o
  <2>. HIDE DEF picked, x
  <2>6. picked(symbol) = None => brief' = None
    BY <2>3
  <2>7. brief' # None => brief'.book = scanned /\ IsBrief(brief')
    BY <2>5, <2>6
  <2>8. \A b \in Books' : IsBook(b, market.contexts)
    BY <2>1, <2>4, <2>7
  <2>9. IsConfig(config)'
    BY <2>1 DEF Coherent, IsConfig
  <2>. QED  BY <2>1, <2>7, <2>8, <2>9 DEF Coherent
<1>3. CASE Decide
  <2>1. brief # None /\ brief' = None /\ UNCHANGED <<market, enabled, proven, config>>
    BY <1>3 DEF Decide
  <2>2. PICK silent \in SilentSets, pf \in Portfolios :
          LET b == [opp |-> brief.opp, x |-> brief.x, regime |-> brief.regime, book |-> brief.book,
                    portfolio |-> pf]
          IN  answer' = [verdict |-> Deliberate(b, config, silent), brief |-> b,
                         config |-> config, silent |-> silent]
    BY <1>3 DEF Decide
  <2>. DEFINE b == [opp |-> brief.opp, x |-> brief.x, regime |-> brief.regime, book |-> brief.book,
                    portfolio |-> pf]
              ruling == Deliberate(b, config, silent)
  <2>3. answer' = [verdict |-> ruling, brief |-> b, config |-> config, silent |-> silent]
    BY <2>2
  <2>4. IsBrief(b) /\ b.portfolio \in Portfolios
    <3>1. IsBrief(brief)
      BY <2>1 DEF Coherent
    <3>. QED  BY <3>1 DEF IsBrief
  <2>5. ruling = Deliberate(b, config, silent)
    OBVIOUS
  <2>. HIDE DEF b, ruling
  <2>6. /\ answer'.verdict = ruling /\ answer'.brief = b /\ answer'.config = config /\ answer'.silent = silent
        /\ "book" \notin DOMAIN answer'
    BY <2>3
  <2>7. IsConfig(config)
    BY DEF Coherent
  <2>8. IsDeliberation(answer')
    BY <2>4, <2>5, <2>6, <2>7 DEF IsDeliberation
  <2>9. Books' = {}
    BY <2>1, <2>6
  <2>10. (market \in Markets /\ enabled \in SUBSET Keys /\ proven \in [Keys -> Int \cup {None}])'
    BY <2>1 DEF Coherent
  <2>. QED  BY <2>1, <2>7, <2>8, <2>9, <2>10 DEF Coherent
<1>4. CASE UpdateConfig
  <2>1. UNCHANGED <<market, enabled, proven, brief, answer>> /\ IsConfig(config)'
    BY <1>4 DEF UpdateConfig, IsConfig, Coherent
  <2>. QED  BY <2>1 DEF Coherent
<1>5. CASE ApplyStats
  <2>1. UNCHANGED <<market, enabled, config, brief, answer>>
    BY <1>5 DEF ApplyStats
  <2>2. PICK key \in enabled, rate \in WinRates : proven' = [proven EXCEPT ![key] = rate]
    BY <1>5 DEF ApplyStats
  <2>3. proven' \in [Keys -> Int \cup {None}]
    BY <2>2, RatesAreNumbers DEF Coherent
  <2>. QED  BY <2>1, <2>3 DEF Coherent
<1>6. CASE Delivered
  <2>1. answer' = None /\ UNCHANGED <<market, enabled, proven, config, brief>>
    BY <1>6 DEF Delivered
  <2>2. Books' \subseteq Books
    BY <2>1
  <2>. QED  BY <2>1, <2>2 DEF Coherent
<1>7. CASE MarketMoves
  <2>1. market' \in Markets /\ UNCHANGED <<enabled, proven, config, brief, answer>>
    BY <1>7 DEF MarketMoves
  <2>. QED  BY <2>1 DEF Coherent
<1>8. CASE UNCHANGED vars
  BY <1>8 DEF vars, Coherent
<1>. QED  BY <1>1, <1>2, <1>3, <1>4, <1>5, <1>6, <1>7, <1>8 DEF Next

LEMMA AlwaysCoherent == Spec => []Coherent
BY InitCoherent, NextCoherent, PTL DEF Spec

LEMMA BooksCoherent == Coherent => BookCoherent
<1>. SUFFICES ASSUME Coherent PROVE BookCoherent
  OBVIOUS
<1>1. brief # None => ~IsHostile(brief.regime)
  BY DEF Coherent, IsBrief
<1>. DEFINE Chosen(o) ==
              \A i, j \in DOMAIN o : i < j =>
                /\ o[i].symbol # o[j].symbol
                /\ ~(o[i].sector = o[j].sector /\ o[i].sector # None /\ o[i].signal.dir = o[j].signal.dir)
                /\ o[i].card.composite >= o[j].card.composite
            Worthy(o, i) ==
                /\ o[i].card.composite >= 5500
                /\ Protected(o[i].signal)
                /\ o[i].sector # None =>
                     Cardinality({j \in DOMAIN o : o[j].sector = o[i].sector}) <= MaxPerSector
            Fine(o, regime) ==
                /\ IsHostile(regime) => o = <<>>
                /\ Len(o) <= Least(MaxPositions, RiskSlots)
                /\ Chosen(o)
                /\ \A i \in DOMAIN o : Worthy(o, i)
                /\ o # <<>> => o[1].card.composite >= 6000
<1>2. ASSUME NEW b \in Books PROVE Fine(b.opportunities, b.regime)
  <2>. DEFINE o == b.opportunities
  <2>1. PICK m \in Markets : IsBook(b, m.contexts)
    BY <1>2 DEF Coherent
  <2>2. Admissible(o) /\ \A i \in DOMAIN o : IsIdea(o[i], m.contexts) /\ o[i].card.composite >= 5500
    BY <2>1 DEF IsBook
  <2>3. (IsHostile(b.regime) => o = <<>>) /\ (o # <<>> => o[1].card.composite >= 6000)
    BY <2>1 DEF IsBook
  <2>. HIDE DEF o
  <2>4. Len(o) <= Least(MaxPositions, RiskSlots)
    BY <2>2 DEF Admissible, Least
  <2>5. Chosen(o)
    BY <2>2 DEF Admissible, Apart
  <2>6. ASSUME NEW i \in DOMAIN o PROVE Worthy(o, i)
    <3>1. Protected(o[i].signal)
      BY <2>2 DEF IsIdea, Sound
    <3>2. \A sector : sector # None => Cardinality(OfSector(o, sector)) <= MaxPerSector
      BY <2>2 DEF Admissible
    <3>3. {j \in DOMAIN o : o[j].sector = o[i].sector} = OfSector(o, o[i].sector)
      BY DEF OfSector
    <3>4. o[i].sector # None => Cardinality({j \in DOMAIN o : o[j].sector = o[i].sector}) <= MaxPerSector
      BY <3>2, <3>3
    <3>. QED  BY <2>2, <3>1, <3>4
  <2>. HIDE DEF Chosen, Worthy
  <2>7. Fine(o, b.regime)
    BY <2>3, <2>4, <2>5, <2>6
  <2>. QED  BY <2>7 DEF o
<1>3. BookCoherent <=> /\ brief # None => ~IsHostile(brief.regime)
                       /\ \A b \in Books : Fine(b.opportunities, b.regime)
  BY DEF BookCoherent
<1>. HIDE DEF Fine
<1>. QED  BY <1>1, <1>2, <1>3

(* Whatever the market, the strategies that raise and the statistics they have,   *)
(* a book never holds two ideas of one symbol or of one sector and direction,     *)
(* keeps its budgets, is sorted and above the bar, and is empty when the regime   *)
(* is hostile (AlphaScanner.scan, rank_opportunities, PortfolioManager.apply).    *)
THEOREM BooksAreCoherent == Spec => []BookCoherent
BY AlwaysCoherent, BooksCoherent, PTL

-----------------------------------------------------------------------------
(* The circuit breaker. *)
LEMMA SeatedFacts ==
  ASSUME NEW c, IsConfig(c)
  PROVE  /\ Seated(c).agents \subseteq RoleSet
         /\ c = None \/ "risk" \notin c.disabled => "risk" \in Seated(c).agents
         /\ \A r \in RoleSet : Seated(c).weights[r] \in Nat
         /\ Seated(c).act \in Nat \ {0} /\ Seated(c).strong \in Nat /\ Seated(c).act < Seated(c).strong
<1>1. "risk" \in RoleSet /\ RoleSet = DOMAIN DefaultConfig.weights
  <2>1. DOMAIN Roles = 1 .. 7
    BY DEF Roles
  <2>2. RoleSet = {"strategist", "technical", "options", "news", "risk", "devil", "pm"}
    BY <2>1 DEF RoleSet, Roles
  <2>. QED  BY <2>2 DEF DefaultConfig
<1>2. \A r \in RoleSet : DefaultConfig.weights[r] \in Nat
  BY <1>1 DEF DefaultConfig
<1>3. CASE c = None
  <2>1. Seated(c).agents = RoleSet /\ Seated(c).act = 35 /\ Seated(c).strong = 60
    BY <1>3 DEF Seated, DefaultConfig
  <2>2. \A r \in RoleSet : Seated(c).weights[r] = DefaultConfig.weights[r]
    BY <1>1, <1>3 DEF Seated
  <2>. QED  BY <1>1, <1>2, <2>1, <2>2
<1>4. CASE c # None
  <2>1. c \in Payloads /\ ValidConfig(c)
    BY <1>4 DEF IsConfig
  <2>2. /\ c.act \in Int /\ c.strong \in Int /\ \A r \in DOMAIN c.weights : c.weights[r] \in Int
    BY <2>1, PayloadsAreNumbers DEF Range
  <2>3. /\ Seated(c).agents = RoleSet \ c.disabled /\ Seated(c).act = c.act /\ Seated(c).strong = c.strong
        /\ \A r \in RoleSet : Seated(c).weights[r] = IF r \in DOMAIN c.weights THEN c.weights[r]
                                                     ELSE DefaultConfig.weights[r]
    BY <1>4 DEF Seated
  <2>4. c.act >= 1 /\ c.act < c.strong /\ \A r \in DOMAIN c.weights : c.weights[r] >= 0
    BY <2>1 DEF ValidConfig, Between
  <2>. QED  BY <1>1, <1>2, <1>4, <2>2, <2>3, <2>4
<1>. QED  BY <1>3, <1>4

LEMMA BreakerRejects == Coherent => BreakerHolds
<1>. SUFFICES ASSUME Coherent, Deliberated, Breached(answer.brief.portfolio), "risk" \notin answer.silent,
                     answer.config = None \/ "risk" \notin answer.config.disabled
              PROVE  /\ answer.verdict.recommendation = "reject"
                     /\ answer.verdict.size = [qty |-> 0, riskPct |-> 0]
  BY DEF BreakerHolds
<1>. DEFINE b == answer.brief
            seated == Seated(answer.config)
            reports == [r \in seated.agents |-> RunAgent(r, b, answer.silent)]
            rec == Recommendation(reports, seated, b.opp.signal.dir)
<1>1. IsConfig(answer.config) /\ answer.verdict = Deliberate(b, answer.config, answer.silent)
  BY DEF Coherent, IsDeliberation
<1>2. "risk" \in seated.agents
  BY <1>1, SeatedFacts
<1>3. answer.verdict.recommendation = rec /\ answer.verdict.size = Size(rec, reports)
  BY <1>1 DEF Deliberate
<1>. HIDE DEF seated
<1>4. RiskManager(b).veto = TRUE
  BY DEF RiskManager, Report
<1>5. reports["risk"].veto /\ "risk" \in DOMAIN reports
  BY <1>2, <1>4 DEF RunAgent, Review
<1>. HIDE DEF reports
<1>6. rec = "reject"
  BY <1>5 DEF Recommendation
<1>7. Size("reject", reports) = [qty |-> 0, riskPct |-> 0]
  BY DEF Size
<1>. QED  BY <1>3, <1>6, <1>7

(* Beyond drawdown, daily loss or heat nothing is bought, whatever the strategies *)
(* found and the committee was told: the veto of the risk manager stands above   *)
(* every weight and threshold (RiskManager, recommend and _position of the CIO). *)
THEOREM BreakerAlwaysHolds == Spec => []BreakerHolds
BY AlwaysCoherent, BreakerRejects, PTL

-----------------------------------------------------------------------------
(* The size. *)
LEMMA Floored == ASSUME NEW n \in Int, NEW d \in Nat \ {0} PROVE (n \div d) * d <= n
OBVIOUS

LEMMA TimesMonotone == ASSUME NEW e \in Nat, NEW a \in Int, NEW b \in Int, a <= b PROVE e * a <= e * b
OBVIOUS

LEMMA SizedLoss ==
  ASSUME NEW ct \in Nat, NEW cb \in Nat, ct <= cb, NEW risk \in Nat, NEW qty,
         qty = 0 \/ qty = IF risk > 0 THEN ct \div risk ELSE 0
  PROVE  qty * risk <= cb /\ (risk = 0 => qty = 0)
<1>1. CASE qty = 0
  BY <1>1
<1>2. CASE risk > 0 /\ qty = ct \div risk
  <2>1. risk \in Nat \ {0} /\ ct \in Int
    BY <1>2
  <2>2. (ct \div risk) * risk <= ct
    BY <2>1, Floored
  <2>3. (ct \div risk) * risk \in Int
    BY <2>1
  <2>. QED  BY <1>2, <2>2, <2>3
<1>. QED  BY <1>1, <1>2

Budget(pf) == Most(0, Least((3 * pf.perTrade) \div 2, pf.maxHeat - pf.heat))
Capital(pf, part) == (((pf.equity \div 100) * part) \div 100) * 120

LEMMA WithinBudget ==
  ASSUME NEW pf \in Portfolios, NEW conviction \in Nat, conviction <= 10000
  PROVE  /\ Capital(pf, Target(pf, conviction)) \in Nat /\ Capital(pf, Budget(pf)) \in Nat
         /\ Capital(pf, Target(pf, conviction)) <= Capital(pf, Budget(pf))
<1>. DEFINE target == Target(pf, conviction)
            budget == Budget(pf)
            p == pf.perTrade
            e == pf.equity \div 100
            room == pf.maxHeat - pf.heat
<1>1. p \in Nat /\ e \in Nat /\ room \in Int
  BY PortfoliosAreAmounts
<1>2. (p * (5000 + conviction)) \div 10000 \in Int
  BY <1>1
<1>3. (p * (5000 + conviction)) \div 10000 <= (3 * p) \div 2
  <2>1. p * (5000 + conviction) <= p * 15000
    <3>. DEFINE c == 5000 + conviction
                most == 15000
    <3>1. c \in Int /\ most \in Int /\ c <= most
      OBVIOUS
    <3>. HIDE DEF c, most
    <3>2. p * c <= p * most
      BY <1>1, <3>1, TimesMonotone
    <3>. QED  BY <3>2 DEF c, most
  <2>2. p * (5000 + conviction) \in Int
    BY <1>1
  <2>. DEFINE n == p * (5000 + conviction)
  <2>. HIDE DEF n
  <2>3. n \in Int /\ n <= p * 15000
    BY <2>1, <2>2 DEF n
  <2>4. n \div 10000 <= (3 * p) \div 2
    BY <1>1, <2>3
  <2>. QED  BY <2>4 DEF n
<1>4. target \in Nat /\ budget \in Nat /\ target <= budget
  <2>. DEFINE wish == (p * (5000 + conviction)) \div 10000
              most == (3 * p) \div 2
  <2>1. target = Most(0, Least(wish, room)) /\ budget = Most(0, Least(most, room))
    BY DEF Target, Budget
  <2>2. wish \in Int /\ most \in Int /\ wish <= most
    BY <1>1, <1>2, <1>3
  <2>. HIDE DEF wish, most, target, budget
  <2>. QED  BY <1>1, <2>1, <2>2 DEF Most, Least
<1>. HIDE DEF target, budget, e
<1>5. e * target \in Nat /\ e * budget \in Nat /\ e * target <= e * budget
  BY <1>1, <1>4, TimesMonotone
<1>. DEFINE et == e * target
            eb == e * budget
<1>6. et \in Nat /\ eb \in Nat /\ et <= eb
  BY <1>5
<1>. HIDE DEF et, eb
<1>7. (et \div 100) * 120 \in Nat /\ (eb \div 100) * 120 \in Nat /\ (et \div 100) * 120 <= (eb \div 100) * 120
  BY <1>6
<1>. QED  BY <1>7 DEF et, eb, e, target, budget, Capital

LEMMA BriefFacts ==
  ASSUME NEW b, IsBrief(b)
  PROVE  /\ Sound(b.opp.signal, b.opp.signal.key) /\ b.opp.card.confidence \in Nat /\ b.opp.card.confidence <= 10000
         /\ IsContext(b.x) /\ IsRegime(b.regime)
<1>1. PICK m \in Markets :
        /\ IsBook(b.book, m.contexts) /\ b.regime = b.book.regime
        /\ \E i \in DOMAIN b.book.opportunities : b.opp = b.book.opportunities[i]
        /\ b.x \in Range(m.contexts)
  BY DEF IsBrief
<1>2. IsIdea(b.opp, m.contexts) /\ IsRegime(b.regime)
  BY <1>1 DEF IsBook
<1>3. IsContext(b.x)
  BY <1>1, MarketsAreData
<1>4. Sound(b.opp.signal, b.opp.signal.key)
  BY <1>2 DEF IsIdea
<1>5. b.opp.card.confidence \in Nat /\ b.opp.card.confidence <= 10000
  BY <1>2, IdeaScores
<1>. QED  BY <1>2, <1>3, <1>4, <1>5

LEMMA SizesWithinBudget == Coherent => SizedWithinBudget
<1>. SUFFICES ASSUME Coherent, Deliberated PROVE SizedWithinBudget
  BY DEF SizedWithinBudget
<1>. DEFINE b == answer.brief
            pf == b.portfolio
            conviction == b.opp.card.confidence
            risk == Risk(b.opp.signal)
            seated == Seated(answer.config)
            reports == [r \in seated.agents |-> RunAgent(r, b, answer.silent)]
            rec == Recommendation(reports, seated, b.opp.signal.dir)
            qty == answer.verdict.size.qty
            ct == Capital(pf, Target(pf, conviction))
            cb == Capital(pf, Budget(pf))
            sized == IF risk > 0 THEN ct \div risk ELSE 0
<1>1. IsBrief(b) /\ pf \in Portfolios /\ answer.verdict = Deliberate(b, answer.config, answer.silent)
  BY DEF Coherent, IsDeliberation
<1>2. risk \in Nat
  <2>1. Sound(b.opp.signal, b.opp.signal.key)
    BY <1>1, BriefFacts
  <2>. QED  BY <2>1, RiskType
<1>3. conviction \in Nat /\ conviction <= 10000
  BY <1>1, BriefFacts
<1>4. answer.verdict.size = Size(rec, reports)
  BY <1>1 DEF Deliberate
<1>5. PortfolioManager(b).qty \in {0, sized}
  BY DEF PortfolioManager, Report, Capital
<1>6. qty \in {0, sized}
  <2>1. Size(rec, reports).qty \in {0} \cup {IF "pm" \in DOMAIN reports THEN reports["pm"].qty ELSE 0}
        /\ ("pm" \in DOMAIN reports /\ reports["pm"].qty = None => Size(rec, reports).qty = 0)
    <3>. HIDE DEF reports, rec
    <3>. QED  BY DEF Size
  <2>2. "pm" \in DOMAIN reports => reports["pm"] = RunAgent("pm", b, answer.silent)
    <3>. HIDE DEF seated
    <3>. QED  OBVIOUS
  <2>3. RunAgent("pm", b, answer.silent) = PortfolioManager(b) \/ RunAgent("pm", b, answer.silent).qty = None
    BY DEF RunAgent, Review, Report
  <2>. HIDE DEF reports, rec, sized
  <2>. QED  BY <1>4, <1>5, <2>1, <2>2, <2>3
<1>7. ct \in Nat /\ cb \in Nat /\ ct <= cb
  <2>1. pf \in Portfolios
    BY <1>1
  <2>. HIDE DEF conviction, pf
  <2>. QED  BY <2>1, <1>3, WithinBudget
<1>8. qty = 0 \/ qty = IF risk > 0 THEN ct \div risk ELSE 0
  BY <1>6
<1>. HIDE DEF ct, cb, risk, qty, sized
<1>9. qty * risk <= cb /\ (risk = 0 => qty = 0)
  BY <1>2, <1>7, <1>8, SizedLoss
<1>. QED  BY <1>9 DEF SizedWithinBudget, cb, qty, risk, Budget, Capital

(* Whatever conviction, stop and portfolio: what is sized loses at its stop no more *)
(* than one and a half per-trade risks and than the heat that is left             *)
(* (portfolio_manager.py).                                                        *)
THEOREM SizesStayWithinBudget == Spec => []SizedWithinBudget
BY AlwaysCoherent, SizesWithinBudget, PTL

-----------------------------------------------------------------------------
(* What the agents report. *)
IsReport(r) ==
    /\ r.stance \in {"strong_support", "support", "neutral", "concern", "oppose"}
    /\ r.confidence \in Nat

LEMMA Reported ==
  ASSUME NEW stance \in {"strong_support", "support", "neutral", "concern", "oppose"}, NEW c \in Int
  PROVE  IsReport(Report(stance, c))
<1>1. Clamp(c, 0, 1000) \in Nat
  BY DEF Clamp, Most, Least
<1>. QED  BY <1>1 DEF IsReport, Report

LEMMA StanceType ==
  ASSUME NEW net \in Int
  PROVE  StanceOf(net) \in {"strong_support", "support", "neutral", "concern", "oppose"}
BY DEF StanceOf

(* A report whose confidence grows with the net weight of the arguments *)
LEMMA Argued ==
  ASSUME NEW net \in Int, NEW most \in Int, NEW base \in Int, NEW slope \in Int
  PROVE  IsReport(Report(StanceOf(net), Least(most, base + slope * Abs(net))))
<1>1. Least(most, base + slope * Abs(net)) \in Int
  BY DEF Least, Abs
<1>. QED  BY <1>1, StanceType, Reported

LEMMA CardinalityType == ASSUME NEW S, IsFiniteSet(S) PROVE Cardinality(S) \in Nat
BY FS_CardinalityType

LEMMA StrategistReports == ASSUME NEW b, IsBrief(b) PROVE IsReport(Strategist(b))
<1>. DEFINE dir == b.opp.signal.dir
            rs == b.x.strength
            aligned == Aligned(dir, b.regime)
            hostile == IsHostile(b.regime)
            events == Cardinality(b.regime.overlays \ Hostile)
            net == W(~hostile /\ aligned, 15) + W(b.regime.confidence >= 600, 5)
                   + W(rs # None /\ dir = Long /\ rs >= 200, 10)
                   - W(hostile, 20) - W(~hostile /\ ~aligned /\ b.regime.trend # Flat, 10)
                   - 2 * events
                   - W(rs # None /\ dir = Long /\ rs <= -200, 10)
            sure == Least(950, 400 + 15 * Abs(net) + b.regime.confidence \div 5)
<1>1. b.regime.confidence \in Int /\ IsFiniteSet(b.regime.overlays)
  BY BriefFacts DEF IsRegime
<1>2. events \in Nat
  <2>1. IsFiniteSet(b.regime.overlays \ Hostile)
    BY <1>1, FS_Subset
  <2>. QED  BY <2>1, CardinalityType
<1>3. Strategist(b) = Report(StanceOf(net), sure)
  BY DEF Strategist
<1>. HIDE DEF events, aligned, hostile
<1>4. net \in Int
  BY <1>2 DEF W
<1>. HIDE DEF net
<1>5. sure \in Int
  BY <1>1, <1>4 DEF Least, Abs
<1>. HIDE DEF sure
<1>. QED  BY <1>3, <1>4, <1>5, StanceType, Reported

LEMMA TechnicalReports == ASSUME NEW b, IsBrief(b) PROVE IsReport(TechnicalAnalyst(b))
<1>. DEFINE long == b.opp.signal.dir = Long
            rr == RiskReward(b.opp.signal)
            emas == None \notin {b.x.e21, b.x.e50}
            agrees == long = (b.x.e21 > b.x.e50)
            rsi(lo, hi) == b.x.rsi1 # None /\ long /\ lo <= b.x.rsi1 /\ b.x.rsi1 < hi
            net == 8 + W(rr >= 200, 12) + W(b.x.adx1 # None /\ b.x.adx1 >= 25, 8) + W(rsi(50, 70), 6)
                   + W(emas /\ agrees, 7) + W(b.opp.card.technical >= 6500, 4) + W(b.opp.card.volume >= 6500, 6)
                   - W(rr < 120, 10) - W(rsi(75, 101), 10) - W(emas /\ ~agrees, 8)
                   - W(b.opp.card.volume < 4500, 6)
<1>1. TechnicalAnalyst(b) = Report(StanceOf(net), Least(950, 450 + 12 * Abs(net)))
  BY DEF TechnicalAnalyst
<1>. HIDE DEF long, rr, emas, agrees, rsi
<1>2. net \in Int
  BY DEF W
<1>. HIDE DEF net
<1>. DEFINE sure == Least(950, 450 + 12 * Abs(net))
<1>3. sure \in Int
  BY <1>2 DEF Least, Abs
<1>. HIDE DEF sure
<1>4. TechnicalAnalyst(b) = Report(StanceOf(net), sure)
  BY <1>1 DEF sure
<1>. QED  BY <1>2, <1>3, <1>4, StanceType, Reported

LEMMA OptionsReports == ASSUME NEW b, IsBrief(b) PROVE IsReport(OptionsAnalyst(b))
<1>1. ASSUME NEW net \in Int PROVE IsReport(Report(StanceOf(net), Least(900, 400 + 15 * Abs(net))))
  <2>. DEFINE sure == Least(900, 400 + 15 * Abs(net))
  <2>1. sure \in Int
    BY DEF Least, Abs
  <2>. HIDE DEF sure
  <2>2. IsReport(Report(StanceOf(net), sure))
    BY <2>1, StanceType, Reported
  <2>. QED  BY <2>2 DEF sure
<1>2. IsReport(Report("neutral", 300))
  BY DEF Report, IsReport, Clamp, Most, Least
<1>. DEFINE x == b.x
            long == b.opp.signal.dir = Long
            entry == b.opp.signal.entry
            drift(sign) == x.maxPain # None /\ long /\ sign * 200 * (x.maxPain - entry) > 3 * entry
            iv(test(_)) == x.ivPercentile # None /\ test(x.ivPercentile)
            net == W(IF long THEN x.pcr >= 130 ELSE x.pcr <= 70, 10)
                   - W(IF long THEN x.pcr <= 70 ELSE x.pcr >= 130, 10)
                   + W(drift(1), 6) - W(drift(-1), 8)
                   + W(iv(LAMBDA p : p <= 20), 5) - W(iv(LAMBDA p : p >= 80), 7)
<1>3. OptionsAnalyst(b) = IF x.pcr = None THEN Report("neutral", 300)
                          ELSE Report(StanceOf(net), Least(900, 400 + 15 * Abs(net)))
  BY DEF OptionsAnalyst
<1>4. net \in Int
  BY DEF W
<1>. HIDE DEF net
<1>. QED  BY <1>1, <1>2, <1>3, <1>4

LEMMA NewsReports == ASSUME NEW b, IsBrief(b) PROVE IsReport(NewsAnalyst(b))
<1>. DEFINE score == b.x.news
            directional == IF b.opp.signal.dir = Long THEN score ELSE -score
            events == b.regime.regimes \cap {"rbi_day", "budget_day", "election_event", "expiry_day"}
            count == Cardinality(events)
            net == (IF score = None THEN 0 ELSE W(directional >= 30, 10) - W(directional <= -30, 12))
                   - 6 * count
            sure == Least(850, 450 + 15 * Abs(net))
<1>1. count \in Nat
  <2>1. \A r : IsFiniteSet({r})
    BY FS_Singleton
  <2>2. IsFiniteSet({"rbi_day"} \cup {"budget_day"} \cup {"election_event"} \cup {"expiry_day"})
    BY <2>1, FS_Union
  <2>3. events \in SUBSET ({"rbi_day"} \cup {"budget_day"} \cup {"election_event"} \cup {"expiry_day"})
    OBVIOUS
  <2>4. IsFiniteSet(events)
    BY <2>2, <2>3, FS_Subset
  <2>. QED  BY <2>4, CardinalityType
<1>2. NewsAnalyst(b) = IF score = None /\ events = {} THEN Report("neutral", 350) ELSE Report(StanceOf(net), sure)
  BY DEF NewsAnalyst
<1>3. IsReport(Report("neutral", 350))
  BY DEF Report, IsReport, Clamp, Most, Least
<1>. HIDE DEF count
<1>4. net \in Int
  BY <1>1 DEF W
<1>. HIDE DEF net
<1>5. sure \in Int
  BY <1>4 DEF Least, Abs
<1>. HIDE DEF sure
<1>. QED  BY <1>2, <1>3, <1>4, <1>5, StanceType, Reported

LEMMA RiskReports == ASSUME NEW b, IsBrief(b) PROVE IsReport(RiskManager(b))
<1>. DEFINE s == b.opp.signal
            width == (10000 * Risk(s)) \div s.entry
            rr == RiskReward(s)
            exposure == Cardinality({i \in DOMAIN b.portfolio.open :
                                        b.x.sector # None /\ b.portfolio.open[i].sector = b.x.sector})
            net == W(width <= 300, 6) + W(rr >= 200, 6)
                   - W(width > 600, 12) - W(rr < 150, 8) - W(exposure >= 2, 10)
            sure == Least(900, 500 + 12 * Abs(net))
<1>1. RiskManager(b) = IF Breached(b.portfolio)
                       THEN [Report("oppose", 1000) EXCEPT !.veto = TRUE, !.riskPct = 0]
                       ELSE [Report(StanceOf(net), sure) EXCEPT !.maxRisk = b.portfolio.perTrade]
  BY DEF RiskManager
<1>. HIDE DEF width, rr, exposure
<1>2. net \in Int
  BY DEF W
<1>. HIDE DEF net
<1>3. sure \in Int
  BY <1>2 DEF Least, Abs
<1>. HIDE DEF sure
<1>4. IsReport(Report(StanceOf(net), sure))
  BY <1>2, <1>3, StanceType, Reported
<1>5. IsReport(Report("oppose", 1000))
  BY DEF Report, IsReport, Clamp, Most, Least
<1>. QED  BY <1>1, <1>4, <1>5 DEF IsReport, Report

LEMMA DevilReports == ASSUME NEW b, IsBrief(b) PROVE IsReport(DevilsAdvocate(b))
<1>. DEFINE dir == b.opp.signal.dir
            rsi == b.x.rsi1
            stretched == rsi # None /\ ((dir = Long /\ rsi >= 72) \/ (dir = Short /\ rsi <= 28))
            weights == <<W(Counter(dir, b.regime), 15), W(stretched, 10), W(b.opp.card.liquidity < 5000, 10),
                         W(RiskReward(b.opp.signal) < 150, 8), W(b.opp.card.composite < 6200, 7),
                         W(b.regime.overlays # {}, 6), W(b.opp.card.volume < 4500, 7)>>
            against == weights[1] + weights[2] + weights[3] + weights[4] + weights[5] + weights[6] + weights[7]
            objecting == {i \in DOMAIN weights : weights[i] > 0}
            objections == Cardinality(objecting)
            sure == Least(900, 500 + 100 * objections)
<1>1. DevilsAdvocate(b) = IF objections = 0 THEN Report("neutral", 500)
                          ELSE Report(IF against >= 25 THEN "oppose" ELSE "concern", sure)
  BY DEF DevilsAdvocate
<1>2. objections \in Nat
  <2>1. objecting \in SUBSET Nat /\ \A i \in objecting : i <= 7
    BY DEF W
  <2>. DEFINE most == 7
  <2>2. most \in Nat /\ \A i \in objecting : i <= most
    BY <2>1
  <2>. HIDE DEF objecting, most
  <2>3. IsFiniteSet(objecting)
    BY <2>1, <2>2, FS_BoundedSetOfNaturals
  <2>. QED  BY <2>3, CardinalityType
<1>. HIDE DEF objections, against
<1>3. sure \in Int
  BY <1>2 DEF Least
<1>. HIDE DEF sure
<1>4. IsReport(Report("neutral", 500))
  BY DEF Report, IsReport, Clamp, Most, Least
<1>5. IsReport(Report("oppose", sure)) /\ IsReport(Report("concern", sure))
  BY <1>3, Reported
<1>. QED  BY <1>1, <1>4, <1>5

LEMMA ManagerReports == ASSUME NEW b, IsBrief(b) PROVE IsReport(PortfolioManager(b))
<1>. DEFINE pf == b.portfolio
            conviction == b.opp.card.confidence
            headroom == pf.maxHeat - pf.heat
            target == Target(pf, conviction)
            capital == (((pf.equity \div 100) * target) \div 100) * 120
            qty == IF Risk(b.opp.signal) > 0 THEN capital \div Risk(b.opp.signal) ELSE 0
            full == conviction >= 6000 /\ target >= pf.perTrade
            sure == Least(900, 550 + (3 * conviction) \div 100)
            granted == IF full THEN "strong_support" ELSE "support"
            refused == 2 * headroom < pf.perTrade \/ qty <= 0
<1>1. PortfolioManager(b) = IF refused THEN [Report("oppose", 700) EXCEPT !.qty = 0, !.riskPct = 0]
                            ELSE [Report(granted, sure) EXCEPT !.qty = qty, !.riskPct = target]
  BY DEF PortfolioManager
<1>2. sure \in Int
  <2>1. conviction \in Nat
    BY BriefFacts
  <2>. QED  BY <2>1 DEF Least
<1>3. granted \in {"strong_support", "support"}
  OBVIOUS
<1>. HIDE DEF sure, granted, refused, qty, target
<1>4. IsReport(Report(granted, sure))
  BY <1>2, <1>3, Reported
<1>5. IsReport(Report("oppose", 700))
  BY DEF Report, IsReport, Clamp, Most, Least
<1>6. CASE refused
  BY <1>1, <1>5, <1>6 DEF IsReport, Report
<1>7. CASE ~refused
  BY <1>1, <1>4, <1>7 DEF IsReport, Report
<1>. QED  BY <1>6, <1>7

LEMMA ReviewReports ==
  ASSUME NEW b, IsBrief(b), NEW role \in RoleSet
  PROVE  IsReport(Review(role, b))
<1>1. role \in {"strategist", "technical", "options", "news", "risk", "devil", "pm"}
  BY DEF RoleSet, Roles
<1>. QED  BY <1>1, StrategistReports, TechnicalReports, OptionsReports, NewsReports, RiskReports,
             DevilReports, ManagerReports DEF Review

-----------------------------------------------------------------------------
(* The votes. *)
LEMMA RoleNames ==
  /\ Len(Roles) = 7 /\ \A i \in 1 .. 7 : Roles[i] \in RoleSet
  /\ Roles[1] = "strategist" /\ Roles[2] = "technical" /\ Roles[3] = "options" /\ Roles[4] = "news"
  /\ Roles[5] = "risk" /\ Roles[6] = "devil" /\ Roles[7] = "pm"
<1>1. Len(Roles) = 7 /\ DOMAIN Roles = 1 .. 7
  BY DEF Roles
<1>2. \A i \in 1 .. 7 : Roles[i] \in RoleSet
  BY <1>1 DEF RoleSet
<1>. QED  BY <1>1, <1>2 DEF Roles

(* A sum over the roles, as far as the nth *)
Summed(g, f) ==
    g \in [0 .. 7 -> Int] /\ g[0] = 0 /\ \A i \in 1 .. 7 : g[i] = g[i - 1] + f[Roles[i]]

LEMMA TotalSummed ==
  ASSUME NEW f \in [RoleSet -> Int]
  PROVE  \E g : Summed(g, f) /\ Total(f) = g[7]
<1>. DEFINE n == 7
            step == [k \in 1 .. n |-> [u \in Int |-> u + f[Roles[k]]]]
            sum[i \in 0 .. Len(Roles)] == IF i = 0 THEN 0 ELSE sum[i - 1] + f[Roles[i]]
            zero == 0
<1>1. \A i \in 1 .. 7 : f[Roles[i]] \in Int
  BY RoleNames
<1>2. step \in Steps(Int, n) /\ n \in Nat /\ zero \in Int
  BY <1>1 DEF Steps
<1>3. PICK g : Iterates(g, Int, n, zero, step)
  <2>. HIDE DEF n, step, zero
  <2>. QED  BY <1>2, Iteration
<1>4. Summed(g, f)
  <2>1. g \in [0 .. 7 -> Int] /\ g[0] = 0 /\ \A i \in 1 .. 7 : g[i] = step[i][g[i - 1]]
    BY <1>3 DEF Iterates
  <2>2. ASSUME NEW i \in 1 .. 7 PROVE g[i] = g[i - 1] + f[Roles[i]]
    <3>1. i - 1 \in 0 .. 7
      OBVIOUS
    <3>2. g[i - 1] \in Int
      BY <2>1, <3>1
    <3>. QED  BY <2>1, <3>2
  <2>. QED  BY <2>1, <2>2 DEF Summed
<1>5. g = [i \in 0 .. Len(Roles) |-> IF i = 0 THEN 0 ELSE g[i - 1] + f[Roles[i]]]
  BY <1>4, RoleNames DEF Summed
<1>6. sum = [i \in 0 .. Len(Roles) |-> IF i = 0 THEN 0 ELSE sum[i - 1] + f[Roles[i]]]
  BY <1>5
<1>7. Total(f) = sum[Len(Roles)]
  BY DEF Total
<1>. HIDE DEF sum
<1>8. Summed(sum, f)
  <2>1. sum = [i \in 0 .. 7 |-> IF i = 0 THEN 0 ELSE sum[i - 1] + f[Roles[i]]]
    BY <1>6, RoleNames
  <2>2. sum[0] = 0
    BY <2>1
  <2>3. \A i \in 1 .. 7 : sum[i] = sum[i - 1] + f[Roles[i]]
    BY <2>1
  <2>4. sum[1] \in Int
    BY <1>1, <2>2, <2>3
  <2>5. sum[2] \in Int
    BY <1>1, <2>3, <2>4
  <2>6. sum[3] \in Int
    BY <1>1, <2>3, <2>5
  <2>7. sum[4] \in Int
    BY <1>1, <2>3, <2>6
  <2>8. sum[5] \in Int
    BY <1>1, <2>3, <2>7
  <2>9. sum[6] \in Int
    BY <1>1, <2>3, <2>8
  <2>10. sum[7] \in Int
    BY <1>1, <2>3, <2>9
  <2>11. \A i \in 0 .. 7 : sum[i] \in Int
    BY <2>2, <2>4, <2>5, <2>6, <2>7, <2>8, <2>9, <2>10
  <2>12. sum \in [0 .. 7 -> Int]
    BY <2>1, <2>11
  <2>. QED  BY <2>2, <2>3, <2>12 DEF Summed
<1>9. Total(f) = sum[7]
  BY <1>7, RoleNames
<1>. QED  BY <1>8, <1>9

LEMMA TotalUnfolded ==
  ASSUME NEW f \in [RoleSet -> Int]
  PROVE  /\ \A r \in RoleSet : f[r] \in Int
         /\ Total(f) \in Int
         /\ Total(f) = f["strategist"] + f["technical"] + f["options"] + f["news"]
                       + f["risk"] + f["devil"] + f["pm"]
<1>1. PICK g : Summed(g, f) /\ Total(f) = g[7]
  BY TotalSummed
<1>2. g[0] = 0 /\ g[7] \in Int
  BY <1>1 DEF Summed
<1>3. \A i \in 1 .. 7 : g[i] = g[i - 1] + f[Roles[i]]
  BY <1>1 DEF Summed
<1>4. \A i \in 1 .. 7 : f[Roles[i]] \in Int
  BY RoleNames
<1>5. g[1] = f[Roles[1]] /\ g[2] = g[1] + f[Roles[2]] /\ g[3] = g[2] + f[Roles[3]] /\ g[4] = g[3] + f[Roles[4]]
      /\ g[5] = g[4] + f[Roles[5]] /\ g[6] = g[5] + f[Roles[6]] /\ g[7] = g[6] + f[Roles[7]]
  BY <1>2, <1>3, <1>4
<1>6. g[7] = f[Roles[1]] + f[Roles[2]] + f[Roles[3]] + f[Roles[4]] + f[Roles[5]] + f[Roles[6]] + f[Roles[7]]
  BY <1>4, <1>5
<1>. QED  BY <1>1, <1>2, <1>6, RoleNames

LEMMA TotalMonotone ==
  ASSUME NEW f \in [RoleSet -> Int], NEW g \in [RoleSet -> Int], \A r \in RoleSet : f[r] <= g[r]
  PROVE  Total(f) \in Int /\ Total(g) \in Int /\ Total(f) <= Total(g)
<1>1. /\ "strategist" \in RoleSet /\ "technical" \in RoleSet /\ "options" \in RoleSet /\ "news" \in RoleSet
      /\ "risk" \in RoleSet /\ "devil" \in RoleSet /\ "pm" \in RoleSet
  BY RoleNames
<1>2. \A r \in RoleSet : f[r] \in Int /\ g[r] \in Int /\ f[r] <= g[r]
  OBVIOUS
<1>3. /\ Total(f) = f["strategist"] + f["technical"] + f["options"] + f["news"]
                    + f["risk"] + f["devil"] + f["pm"]
      /\ Total(g) = g["strategist"] + g["technical"] + g["options"] + g["news"]
                    + g["risk"] + g["devil"] + g["pm"]
      /\ Total(f) \in Int /\ Total(g) \in Int
  BY TotalUnfolded
<1>. QED  BY <1>1, <1>2, <1>3

(* What one report adds to the vote *)
Pull(r, weight) == Vote[r.stance] * r.confidence * weight

LEMMA PullType ==
  ASSUME NEW r, IsReport(r), NEW weight \in Nat
  PROVE  Pull(r, weight) \in Int /\ (Vote[r.stance] >= 0 => Pull(r, weight) >= 0)
<1>1. Vote[r.stance] \in Int /\ r.confidence \in Nat
  BY DEF IsReport, Vote
<1>. DEFINE v == Vote[r.stance]
            c == r.confidence
<1>2. v \in Int /\ c \in Nat
  BY <1>1
<1>. HIDE DEF v, c
<1>3. v * c \in Int /\ (v >= 0 => v * c \in Nat)
  BY <1>2
<1>. DEFINE vc == v * c
<1>. HIDE DEF vc
<1>4. vc \in Int /\ (v >= 0 => vc \in Nat)
  BY <1>3 DEF vc
<1>5. vc * weight \in Int /\ (v >= 0 => vc * weight >= 0)
  BY <1>4
<1>. QED  BY <1>5 DEF Pull, vc, v, c

LEMMA Abstains == IsReport(Report("neutral", 0)) /\ \A w \in Nat : Pull(Report("neutral", 0), w) = 0
<1>1. Report("neutral", 0).stance = "neutral" /\ Report("neutral", 0).confidence = 0
  BY DEF Report, Clamp, Most, Least
<1>. QED  BY <1>1 DEF IsReport, Pull, Vote

(* An order needs a vote of at least act, and no veto. *)
LEMMA OrdersReach ==
  ASSUME NEW reports, NEW seated, NEW dir,
         seated.act \in Nat \ {0}, seated.strong \in Nat, seated.act < seated.strong,
         Consensus(reports, seated).vote \in Int, Consensus(reports, seated).weight \in Nat
  PROVE  Recommendation(reports, seated, dir) \in Orders <=>
            /\ \A r \in DOMAIN reports : ~reports[r].veto
            /\ Consensus(reports, seated).weight > 0
            /\ Consensus(reports, seated).vote >= 20 * seated.act * Consensus(reports, seated).weight
<1>. DEFINE c == Consensus(reports, seated)
            w == c.weight
            v == c.vote
            act == seated.act
            strong == seated.strong
            vetoed == \E r \in DOMAIN reports : reports[r].veto
            rec == Recommendation(reports, seated, dir)
<1>1. rec = IF vetoed \/ (w > 0 /\ v <= -20 * act * w) THEN "reject"
            ELSE IF w > 0 /\ v >= 20 * strong * w THEN IF dir = Long THEN "strong_buy" ELSE "strong_sell"
            ELSE IF w > 0 /\ v >= 20 * act * w THEN IF dir = Long THEN "buy" ELSE "sell"
            ELSE "hold"
  BY DEF Recommendation
<1>2. w \in Nat /\ v \in Int /\ act \in Nat \ {0} /\ strong \in Nat /\ act < strong
  OBVIOUS
<1>. HIDE DEF c, w, v, act, strong, vetoed, rec
<1>3. act * w \in Nat /\ strong * w \in Nat /\ act * w <= strong * w /\ (w > 0 => act * w > 0)
  BY <1>2
<1>. DEFINE aw == act * w
            sw == strong * w
<1>4. /\ aw \in Nat /\ sw \in Nat /\ aw <= sw /\ (w > 0 => aw > 0)
      /\ 20 * act * w = 20 * aw /\ 20 * strong * w = 20 * sw /\ -20 * act * w = -20 * aw
  BY <1>2, <1>3
<1>5. rec = IF vetoed \/ (w > 0 /\ v <= -20 * aw) THEN "reject"
            ELSE IF w > 0 /\ v >= 20 * sw THEN IF dir = Long THEN "strong_buy" ELSE "strong_sell"
            ELSE IF w > 0 /\ v >= 20 * aw THEN IF dir = Long THEN "buy" ELSE "sell"
            ELSE "hold"
  BY <1>1, <1>4
<1>. HIDE DEF aw, sw
<1>6. rec \in Orders <=> ~vetoed /\ w > 0 /\ v >= 20 * aw
  <2>1. "reject" \notin Orders /\ "hold" \notin Orders /\ {"strong_buy", "strong_sell", "buy", "sell"} \subseteq Orders
    BY DEF Orders
  <2>2. ASSUME w > 0, v >= 20 * aw PROVE ~(v <= -20 * aw)
    BY <1>2, <1>4, <2>2
  <2>3. ASSUME v >= 20 * sw PROVE v >= 20 * aw
    BY <1>2, <1>4, <2>3
  <2>. QED  BY <1>5, <2>1, <2>2, <2>3
<1>7. 20 * act * w = 20 * aw
  BY <1>4
<1>. QED  BY <1>6, <1>7 DEF rec, vetoed, w, v, c, act

LEMMA SilenceIsHarmless == Coherent => SilenceCreatesNoOrder
<1>. SUFFICES ASSUME Coherent, Deliberated, answer.verdict.recommendation \in Orders,
                     \A r \in answer.silent : LET report == Review(r, answer.brief)
                                              IN Vote[report.stance] >= 0 /\ ~report.veto
              PROVE  Deliberate(answer.brief, answer.config, {}).recommendation \in Orders
  BY DEF SilenceCreatesNoOrder
<1>. DEFINE b == answer.brief
            dir == b.opp.signal.dir
            seated == Seated(answer.config)
            heard(silent) == [r \in seated.agents |-> RunAgent(r, b, silent)]
            R == heard(answer.silent)
            F == heard({})
            pulls(reports) == [r \in RoleSet |->
                W(r \in seated.agents, Vote[reports[r].stance] * reports[r].confidence * seated.weights[r])]
            shares == [r \in RoleSet |-> W(r \in seated.agents, seated.weights[r])]
<1>1. IsBrief(b) /\ IsConfig(answer.config) /\ answer.verdict = Deliberate(b, answer.config, answer.silent)
  BY DEF Coherent, IsDeliberation
<1>2. /\ answer.verdict.recommendation = Recommendation(R, seated, dir)
      /\ Deliberate(b, answer.config, {}).recommendation = Recommendation(F, seated, dir)
  BY <1>1 DEF Deliberate
<1>3. /\ seated.agents \subseteq RoleSet
      /\ \A r \in RoleSet : seated.weights[r] \in Nat
      /\ seated.act \in Nat \ {0} /\ seated.strong \in Nat /\ seated.act < seated.strong
  BY <1>1, SeatedFacts
<1>4. /\ Consensus(R, seated).vote = Total(pulls(R)) /\ Consensus(R, seated).weight = Total(shares)
      /\ Consensus(F, seated).vote = Total(pulls(F)) /\ Consensus(F, seated).weight = Total(shares)
  BY DEF Consensus
<1>. HIDE DEF seated
<1>5. ASSUME NEW r \in seated.agents
      PROVE  /\ R[r] = IF r \in answer.silent THEN Report("neutral", 0) ELSE Review(r, b)
             /\ F[r] = Review(r, b) /\ IsReport(Review(r, b)) /\ IsReport(R[r])
  <2>1. R[r] = IF r \in answer.silent THEN Report("neutral", 0) ELSE Review(r, b)
    BY DEF RunAgent
  <2>2. F[r] = Review(r, b)
    BY DEF RunAgent
  <2>3. IsReport(Review(r, b))
    BY <1>1, <1>3, ReviewReports
  <2>. HIDE DEF heard, R, F
  <2>. QED  BY <2>1, <2>2, <2>3, Abstains
<1>6. DOMAIN R = seated.agents /\ DOMAIN F = seated.agents
  OBVIOUS
<1>. HIDE DEF heard, R, F
<1>7. ASSUME NEW r \in RoleSet
      PROVE  pulls(R)[r] \in Int /\ pulls(F)[r] \in Int /\ pulls(R)[r] <= pulls(F)[r]
  <2>. DEFINE weight == seated.weights[r]
  <2>1. weight \in Nat
    BY <1>3
  <2>2. CASE r \notin seated.agents
    <3>1. pulls(R)[r] = 0 /\ pulls(F)[r] = 0
      BY <2>2 DEF W
    <3>. QED  BY <3>1
  <2>3. CASE r \in seated.agents
    <3>1. pulls(R)[r] = Pull(R[r], weight) /\ pulls(F)[r] = Pull(F[r], weight)
      BY <2>3 DEF W, Pull
    <3>. HIDE DEF weight, pulls
    <3>2. Pull(R[r], weight) \in Int /\ Pull(F[r], weight) \in Int
      BY <1>5, <2>1, <2>3, PullType
    <3>3. CASE r \in answer.silent
      <4>1. Vote[F[r].stance] >= 0
        BY <1>5, <2>3, <3>3
      <4>2. Pull(F[r], weight) >= 0
        BY <1>5, <2>1, <2>3, <4>1, PullType
      <4>3. Pull(R[r], weight) = 0
        BY <1>5, <2>1, <2>3, <3>3, Abstains
      <4>. QED  BY <3>1, <3>2, <4>2, <4>3
    <3>4. CASE r \notin answer.silent
      <4>1. R[r] = F[r]
        BY <1>5, <2>3, <3>4
      <4>. QED  BY <3>1, <3>2, <4>1
    <3>. QED  BY <3>3, <3>4
  <2>. QED  BY <2>2, <2>3
<1>8. /\ Total(pulls(R)) \in Int /\ Total(pulls(F)) \in Int
      /\ Total(pulls(R)) <= Total(pulls(F))
  <2>. DEFINE f == pulls(R)
              g == pulls(F)
  <2>1. DOMAIN f = RoleSet /\ DOMAIN g = RoleSet
    OBVIOUS
  <2>2. f \in [RoleSet -> Int] /\ g \in [RoleSet -> Int]
    BY <1>7
  <2>3. \A r \in RoleSet : f[r] <= g[r]
    BY <1>7
  <2>. HIDE DEF f, g
  <2>4. Total(f) \in Int /\ Total(g) \in Int /\ Total(f) <= Total(g)
    BY <2>2, <2>3, TotalMonotone
  <2>. QED  BY <2>4 DEF f, g
<1>9. Total(shares) \in Nat
  <2>1. \A r \in RoleSet : shares[r] \in Nat
    BY <1>3 DEF W
  <2>2. shares \in [RoleSet -> Int]
    BY <2>1
  <2>. HIDE DEF shares
  <2>3. Total(shares) = shares["strategist"] + shares["technical"] + shares["options"] + shares["news"]
                        + shares["risk"] + shares["devil"] + shares["pm"]
    BY <2>2, TotalUnfolded
  <2>4. /\ "strategist" \in RoleSet /\ "technical" \in RoleSet /\ "options" \in RoleSet /\ "news" \in RoleSet
        /\ "risk" \in RoleSet /\ "devil" \in RoleSet /\ "pm" \in RoleSet
    BY RoleNames
  <2>. QED  BY <2>1, <2>3, <2>4
<1>. HIDE DEF pulls, shares
<1>10. /\ \A r \in DOMAIN R : ~R[r].veto
       /\ Consensus(R, seated).weight > 0
       /\ Consensus(R, seated).vote >= 20 * seated.act * Consensus(R, seated).weight
  <2>1. Recommendation(R, seated, dir) \in Orders
    BY <1>2
  <2>2. Consensus(R, seated).vote \in Int /\ Consensus(R, seated).weight \in Nat
    BY <1>4, <1>8, <1>9
  <2>. HIDE DEF dir
  <2>. QED  BY <1>3, <2>1, <2>2, OrdersReach
<1>11. /\ \A r \in DOMAIN F : ~F[r].veto
       /\ Consensus(F, seated).weight > 0
       /\ Consensus(F, seated).vote >= 20 * seated.act * Consensus(F, seated).weight
  <2>1. ASSUME NEW r \in DOMAIN F PROVE ~F[r].veto
    BY <1>5, <1>6, <1>10, <2>1
  <2>2. 20 * seated.act * Total(shares) \in Int
    BY <1>3, <1>9
  <2>. QED  BY <1>4, <1>8, <1>10, <2>1, <2>2
<1>12. Recommendation(F, seated, dir) \in Orders
  <2>1. Consensus(F, seated).vote \in Int /\ Consensus(F, seated).weight \in Nat
    BY <1>4, <1>8, <1>9
  <2>. HIDE DEF dir
  <2>. QED  BY <1>3, <1>11, <2>1, OrdersReach
<1>. QED  BY <1>2, <1>12

(* An agent that raises abstains; had it none but neutral or favourable things to *)
(* say, its failure never turns a refusal into an order (committee.py:81-98,      *)
(* cio.py:117-167).                                                               *)
THEOREM SilenceNeverOrders == Spec => []SilenceCreatesNoOrder
BY AlwaysCoherent, SilenceIsHarmless, PTL
-----------------------------------------------------------------------------
(***************************************************************************)
(* The validation of the library, for any strategies (at most sixty: the     *)
(* rounding of the q-values in 60ths), trades, levels and folds.             *)
(*                                                                         *)
(* Nothing is carried from step to step but that trades are trades: a       *)
(* verdict is sound by what Validate computes. Places have different ranks  *)
(* (RankOrder, RankOnto); walking the ranks is the same as counting          *)
(* (StepUpFacts), and the folds, joined, are the trades in their order.      *)
(***************************************************************************)

LEMMA IntervalSize ==
  ASSUME NEW n \in Nat
  PROVE  IsFiniteSet(1 .. n) /\ Cardinality(1 .. n) = n
<1>1. IsFiniteSet(1 .. n) /\ Cardinality(1 .. n) = IF 1 > n THEN 0 ELSE n - 1 + 1
  BY FS_Interval
<1>. QED  BY <1>1

LEMMA UpToFacts ==
  ASSUME NEW n \in Nat, NEW keys \in [1 .. n -> Int], NEW i \in 1 .. n
  PROVE  /\ i \in UpTo(keys, i) /\ UpTo(keys, i) \in SUBSET (1 .. n)
         /\ IsFiniteSet(UpTo(keys, i)) /\ Rank(keys, i) \in 1 .. n
         /\ \A j \in 1 .. n : /\ i \in UpTo(keys, j) \/ j \in UpTo(keys, i)
                              /\ i \in UpTo(keys, j) => UpTo(keys, i) \subseteq UpTo(keys, j)
                              /\ i \in UpTo(keys, j) /\ j \in UpTo(keys, i) => i = j
<1>1. i \in UpTo(keys, i) /\ UpTo(keys, i) \in SUBSET (1 .. n)
  BY DEF UpTo
<1>2. \A j \in 1 .. n : /\ i \in UpTo(keys, j) \/ j \in UpTo(keys, i)
                        /\ i \in UpTo(keys, j) => UpTo(keys, i) \subseteq UpTo(keys, j)
                        /\ i \in UpTo(keys, j) /\ j \in UpTo(keys, i) => i = j
  <2>. SUFFICES ASSUME NEW j \in 1 .. n
                PROVE  /\ i \in UpTo(keys, j) \/ j \in UpTo(keys, i)
                       /\ i \in UpTo(keys, j) => UpTo(keys, i) \subseteq UpTo(keys, j)
                       /\ i \in UpTo(keys, j) /\ j \in UpTo(keys, i) => i = j
    OBVIOUS
  <2>1. DOMAIN keys = 1 .. n /\ \A k \in 1 .. n : keys[k] \in Int /\ k \in Int
    OBVIOUS
  <2>2. i \in UpTo(keys, j) \/ j \in UpTo(keys, i)
    BY <2>1 DEF UpTo
  <2>3. i \in UpTo(keys, j) /\ j \in UpTo(keys, i) => i = j
    BY <2>1 DEF UpTo
  <2>4. ASSUME i \in UpTo(keys, j), NEW k \in UpTo(keys, i)  PROVE k \in UpTo(keys, j)
    BY <2>1, <2>4 DEF UpTo
  <2>. QED  BY <2>2, <2>3, <2>4
<1>. DEFINE U == UpTo(keys, i)
            D == 1 .. n
<1>3. IsFiniteSet(D) /\ Cardinality(D) = n
  BY IntervalSize
<1>4. U \in SUBSET D /\ i \in U
  BY <1>1
<1>5. Rank(keys, i) = Cardinality(U)
  BY DEF Rank
<1>. HIDE DEF U, D
<1>6. IsFiniteSet(U) /\ Cardinality(U) <= n /\ Cardinality(U) \in Nat /\ Cardinality(U) # 0
  <2>1. IsFiniteSet(U) /\ Cardinality(U) <= Cardinality(D)
    BY <1>3, <1>4, FS_Subset
  <2>2. Cardinality(U) \in Nat /\ Cardinality(U) # 0
    BY <1>4, <2>1, FS_CardinalityType, FS_EmptySet
  <2>. QED  BY <1>3, <2>1, <2>2
<1>. QED  BY <1>1, <1>2, <1>5, <1>6 DEF U

LEMMA RankOrder ==
  ASSUME NEW n \in Nat, NEW keys \in [1 .. n -> Int], NEW i \in 1 .. n, NEW j \in 1 .. n
  PROVE  i \in UpTo(keys, j) <=> Rank(keys, i) <= Rank(keys, j)
<1>. DEFINE U == UpTo(keys, i)
            V == UpTo(keys, j)
<1>1. /\ IsFiniteSet(U) /\ IsFiniteSet(V) /\ Cardinality(U) \in Nat /\ Cardinality(V) \in Nat
      /\ i \in U /\ (i \in V => U \subseteq V) /\ (i \notin V => V \subseteq U \ {i})
      /\ Rank(keys, i) = Cardinality(U) /\ Rank(keys, j) = Cardinality(V)
  <2>1. IsFiniteSet(U) /\ i \in U /\ (i \in V => U \subseteq V) /\ (i \notin V => j \in U)
    BY UpToFacts
  <2>2. IsFiniteSet(V) /\ (j \in U => V \subseteq U)
    BY UpToFacts
  <2>. HIDE DEF U, V
  <2>3. Cardinality(U) \in Nat /\ Cardinality(V) \in Nat
    BY <2>1, <2>2, FS_CardinalityType
  <2>4. Rank(keys, i) = Cardinality(U) /\ Rank(keys, j) = Cardinality(V)
    BY DEF Rank, U, V
  <2>. QED  BY <2>1, <2>2, <2>3, <2>4
<1>. HIDE DEF U, V
<1>2. CASE i \in V
  <2>1. Cardinality(U) <= Cardinality(V)
    BY <1>1, <1>2, FS_Subset
  <2>. QED  BY <1>1, <1>2, <2>1 DEF V
<1>3. CASE i \notin V
  <2>. DEFINE rest == U \ {i}
  <2>1. IsFiniteSet(rest) /\ Cardinality(rest) = Cardinality(U) - 1 /\ V \in SUBSET rest
    BY <1>1, <1>3, FS_RemoveElement
  <2>. HIDE DEF rest
  <2>2. Cardinality(V) <= Cardinality(rest)
    BY <2>1, FS_Subset
  <2>. QED  BY <1>1, <1>3, <2>1, <2>2 DEF V
<1>. QED  BY <1>2, <1>3

LEMMA RankOnto ==
  ASSUME NEW n \in Nat, NEW keys \in [1 .. n -> Int], NEW k \in 1 .. n
  PROVE  \E i \in 1 .. n : Rank(keys, i) = k
<1>. DEFINE D == 1 .. n
            rank == [i \in D |-> Rank(keys, i)]
<1>1. IsFiniteSet(D)
  BY IntervalSize
<1>2. rank \in [D -> D]
  BY UpToFacts
<1>3. ASSUME NEW i \in D, NEW j \in D, rank[i] = rank[j]  PROVE i = j
  <2>1. Rank(keys, i) = Rank(keys, j) /\ Rank(keys, i) \in Int
    BY <1>3, UpToFacts
  <2>2. i \in UpTo(keys, j) /\ j \in UpTo(keys, i)
    BY <2>1, RankOrder
  <2>. QED  BY <2>2, UpToFacts
<1>. HIDE DEF D, rank
<1>4. rank \in Injection(D, D)
  BY <1>2, <1>3 DEF Injection, IsInjective
<1>5. rank \in Surjection(D, D)
  BY <1>1, <1>4, FS_Injection
<1>6. \E i \in D : rank[i] = k
  BY <1>5 DEF Surjection, D
<1>. QED  BY <1>6 DEF D, rank

(* The places at a level of k shares of alpha are those of a rank no higher  *)
(* than one of them: walking the ranks down finds what counting finds.       *)
LEMMA AtLevel ==
  ASSUME NEW n \in Nat, NEW p \in [1 .. n -> Nat], NEW k \in Nat,
         NEW s \in 1 .. n, p[s] * n <= k * Significance, NEW t \in UpTo(p, s)
  PROVE  t \in 1 .. n /\ p[t] * n <= k * Significance
<1>1. t \in 1 .. n /\ p[t] <= p[s]
  BY DEF UpTo
<1>2. p[t] \in Int /\ p[s] \in Int
  BY <1>1
<1>3. p[t] * n <= p[s] * n /\ p[t] * n \in Int /\ p[s] * n \in Int
  BY <1>1, <1>2, TimesKeeps
<1>4. k * Significance \in Int
  BY ValidationConstants
<1>5. p[t] * n <= k * Significance
  BY <1>1, <1>3, <1>4
<1>. QED  BY <1>1, <1>5

LEMMA StepUpFacts ==
  ASSUME NEW n \in Nat, NEW p \in [1 .. n -> Nat], Len(p) = n
  PROVE  Rejected(p) = StepUp(p)
<1>. DEFINE Level(k) == {t \in 1 .. n : p[t] * n <= k * Significance}
<1>0. DOMAIN p = 1 .. n /\ Significance \in Nat
  BY ValidationConstants
<1>1. ASSUME NEW k \in 0 .. n  PROVE IsFiniteSet(Level(k)) /\ Cardinality(Level(k)) \in 0 .. n
  <2>. DEFINE A == Level(k)
              D == 1 .. n
  <2>1. IsFiniteSet(D) /\ Cardinality(D) = n /\ A \in SUBSET D
    BY IntervalSize
  <2>. HIDE DEF A, D
  <2>2. IsFiniteSet(A) /\ Cardinality(A) <= n
    BY <2>1, FS_Subset
  <2>3. Cardinality(A) \in Nat
    BY <2>2, FS_CardinalityType
  <2>. QED  BY <2>2, <2>3 DEF A
<1>2. ASSUME NEW s \in Rejected(p)  PROVE s \in StepUp(p)
  <2>1. PICK t \in 1 .. n : Rank(p, s) <= Rank(p, t) /\ Under(p, t)
    BY <1>0 DEF Rejected
  <2>2. s \in 1 .. n
    BY <1>0 DEF Rejected
  <2>. DEFINE k == Rank(p, t)
              A == Level(k)
              U == UpTo(p, t)
  <2>3. k \in 1 .. n /\ t \in U /\ k = Cardinality(U)
    BY UpToFacts DEF Rank
  <2>4. s \in U
    BY <2>1, <2>2, RankOrder
  <2>5. t \in A
    BY <2>1 DEF Under
  <2>6. U \subseteq A /\ IsFiniteSet(A) /\ Cardinality(A) \in Nat
    <3>1. k \in Nat /\ k \in 0 .. n /\ p[t] * n <= k * Significance
      BY <2>1, <2>3 DEF Under
    <3>2. U \subseteq A
      <4>. HIDE DEF k
      <4>. QED  BY <3>1, AtLevel
    <3>3. IsFiniteSet(A) /\ Cardinality(A) \in 0 .. n
      <4>. HIDE DEF k
      <4>. QED  BY <1>1, <3>1
    <3>. QED  BY <3>2, <3>3
  <2>. HIDE DEF U
  <2>7. Cardinality(U) <= Cardinality(A)
    BY <2>6, FS_Subset
  <2>8. p[s] * n <= k * Significance
    BY <2>4, <2>6
  <2>9. A = {u \in DOMAIN p : p[u] * Len(p) <= k * Significance}
    BY <1>0
  <2>. HIDE DEF k, A
  <2>10. k \in 1 .. Len(p) /\ Cardinality(A) >= k /\ s \in DOMAIN p
    BY <1>0, <2>2, <2>3, <2>6, <2>7
  <2>. QED  BY <2>8, <2>9, <2>10 DEF StepUp
<1>3. ASSUME NEW s \in StepUp(p)  PROVE s \in Rejected(p)
  <2>1. PICK k \in 1 .. n : /\ p[s] * n <= k * Significance
                            /\ Cardinality(Level(k)) >= k
    BY <1>0 DEF StepUp
  <2>. DEFINE A == Level(k)
              m == Cardinality(A)
  <2>2. s \in 1 .. n /\ s \in A
    BY <1>0, <2>1 DEF StepUp
  <2>3. IsFiniteSet(A) /\ m \in 0 .. n /\ m >= k /\ m \in 1 .. n
    <3>1. IsFiniteSet(A) /\ m \in 0 .. n /\ m >= k
      BY SMTT(20), <1>1, <2>1
    <3>. HIDE DEF m
    <3>. QED  BY <3>1
  <2>4. \A a \in A : UpTo(p, a) \subseteq A /\ a \in 1 .. n /\ p[a] * n <= k * Significance
    <3>1. ASSUME NEW a \in A, NEW u \in UpTo(p, a)  PROVE u \in A
      <4>1. a \in 1 .. n /\ p[a] * n <= k * Significance /\ k \in Nat /\ u \in UpTo(p, a)
        OBVIOUS
      <4>2. u \in 1 .. n /\ p[u] * n <= k * Significance
        <5>. HIDE DEF A
        <5>. QED  BY <4>1, AtLevel
      <4>. QED  BY <4>2
    <3>. QED  BY <3>1
  <2>5. PICK t \in 1 .. n : Rank(p, t) = m
    <3>. HIDE DEF m
    <3>. QED  BY <2>3, RankOnto
  <2>6. Rank(p, s) <= m
    <3>. DEFINE U == UpTo(p, s)
    <3>1. U \in SUBSET A
      BY <2>2, <2>4
    <3>2. Rank(p, s) = Cardinality(U)
      BY DEF Rank
    <3>. HIDE DEF U, A
    <3>3. Cardinality(U) <= Cardinality(A)
      BY <2>3, <3>1, FS_Subset
    <3>. QED  BY <3>2, <3>3 DEF m
  <2>7. t \in A
    <3>. SUFFICES ASSUME t \notin A  PROVE FALSE
      OBVIOUS
    <3>. DEFINE U == UpTo(p, t)
                rest == U \ {t}
    <3>0. \A j \in 1 .. n : t \in UpTo(p, j) \/ j \in UpTo(p, t)
      BY UpToFacts
    <3>1. IsFiniteSet(U) /\ t \in U /\ Cardinality(U) = m
      BY <2>5, UpToFacts DEF Rank
    <3>2. ASSUME NEW a \in A  PROVE a \in rest
      <4>1. a \in 1 .. n /\ UpTo(p, a) \subseteq A /\ a # t
        BY <2>4
      <4>2. t \notin UpTo(p, a)
        BY <4>1
      <4>3. a \in UpTo(p, t) \/ t \in UpTo(p, a)
        BY <3>0, <4>1
      <4>. QED  BY <4>1, <4>2, <4>3
    <3>. HIDE DEF U, A
    <3>3. IsFiniteSet(rest) /\ Cardinality(rest) = m - 1 /\ A \in SUBSET rest
      BY <3>1, <3>2, FS_RemoveElement
    <3>. HIDE DEF rest
    <3>4. Cardinality(A) <= Cardinality(rest)
      BY <3>3, FS_Subset
    <3>5. m = Cardinality(A) /\ m \in Int
      BY <2>3
    <3>. HIDE DEF m
    <3>. QED  BY <3>3, <3>4, <3>5
  <2>8. Under(p, t)
    <3>1. p[t] * n <= k * Significance
      BY <2>4, <2>7
    <3>. HIDE DEF m
    <3>2. k * Significance <= m * Significance /\ k * Significance \in Int /\ m * Significance \in Int
      BY <1>0, <2>3, TimesKeeps
    <3>3. p[t] * n \in Int
      OBVIOUS
    <3>4. p[t] * n <= m * Significance
      BY <3>1, <3>2, <3>3
    <3>. QED  BY <2>5, <3>4 DEF Under
  <2>. QED  BY <1>0, <2>2, <2>5, <2>6, <2>8 DEF Rejected
<1>. QED  BY <1>2, <1>3

(* A q-value, rounded down to 60ths, is under alpha when the share is.       *)
LEMMA Sixtieths ==
  ASSUME NEW x \in Nat, NEW k \in 1 .. 60, NEW c \in Nat
  PROVE  (60 * x) \div k \in Nat /\ ((60 * x) \div k <= 60 * c <=> x <= k * c)
<1>. DEFINE y == 60 * x
            q == y \div k
            m == k * c
            b == 60 * c
<1>1. y \in Nat /\ k \in Nat \ {0} /\ m \in Nat /\ b \in Nat
  OBVIOUS
<1>2. q \in Nat /\ q * k <= y /\ y < q * k + k
  <2>. HIDE DEF y
  <2>. QED  BY <1>1
<1>3. b * k = 60 * m
  OBVIOUS
<1>4. ASSUME q <= b  PROVE x <= m
  <2>. HIDE DEF q, b
  <2>1. q * k <= b * k /\ q * k \in Int
    BY <1>1, <1>2, <1>4, TimesKeeps
  <2>. HIDE DEF m
  <2>2. 60 * x < 60 * m + 60
    BY <1>1, <1>2, <1>3, <2>1
  <2>. QED  BY <1>1, <2>2
<1>5. ASSUME x <= m  PROVE q <= b
  <2>. HIDE DEF m
  <2>1. y <= 60 * m
    BY <1>1, <1>5
  <2>. HIDE DEF q, b, y
  <2>2. q * k <= b * k
    BY <1>1, <1>2, <1>3, <2>1
  <2>. QED  BY <1>1, <1>2, <2>2, TimesCancels
<1>. QED  BY <1>2, <1>4, <1>5

LEMMA QFacts ==
  ASSUME NEW n \in 1 .. 60, NEW p \in [1 .. n -> Nat], Len(p) = n, NEW s \in 1 .. n
  PROVE  QValue(p, s) <= 60 * Significance <=> s \in Rejected(p)
<1>. DEFINE q(t) == (60 * p[t] * Len(p)) \div Rank(p, t)
            from == {u \in DOMAIN p : Rank(p, s) <= Rank(p, u)}
            Q == {60000} \cup {q(t) : t \in from}
<1>1. DOMAIN p = 1 .. n /\ Significance \in 0 .. 999
  BY ValidationConstants
<1>2. ASSUME NEW t \in 1 .. n  PROVE q(t) \in Nat /\ (q(t) <= 60 * Significance <=> Under(p, t))
  <2>. DEFINE x == p[t] * n
              k == Rank(p, t)
              c == Significance
  <2>1. x \in Nat /\ k \in 1 .. 60 /\ c \in Nat
    <3>1. n \in Nat /\ p \in [1 .. n -> Int]
      OBVIOUS
    <3>2. k \in 1 .. n
      BY <3>1, UpToFacts
    <3>. HIDE DEF k
    <3>. QED  BY <1>1, <3>2
  <2>2. 60 * p[t] * Len(p) = 60 * x
    OBVIOUS
  <2>3. Under(p, t) <=> x <= k * c
    BY DEF Under
  <2>. HIDE DEF x, k, c
  <2>4. (60 * x) \div k \in Nat /\ ((60 * x) \div k <= 60 * c <=> x <= k * c)
    BY <2>1, Sixtieths
  <2>5. q(t) = (60 * x) \div k
    BY <2>2 DEF k
  <2>. QED  BY <2>3, <2>4, <2>5 DEF c
<1>3. QValue(p, s) = Min(Q)
  BY DEF QValue
<1>4. Rejected(p) = {u \in 1 .. n : \E t \in 1 .. n : Rank(p, u) <= Rank(p, t) /\ Under(p, t)}
  BY <1>1 DEF Rejected
<1>5. Q \in SUBSET Nat /\ Q # {} /\ 60000 \in Q /\ \A t \in from : q(t) \in Q
  <2>1. \A t \in from : q(t) \in Nat
    BY <1>1, <1>2
  <2>. HIDE DEF q, from
  <2>. QED  BY <2>1
<1>6. \A x \in Q : x = 60000 \/ \E t \in from : x = q(t)
  OBVIOUS
<1>7. \A t : t \in from <=> t \in 1 .. n /\ Rank(p, s) <= Rank(p, t)
  BY <1>1
<1>. HIDE DEF q, from, Q
<1>8. Min(Q) \in Q /\ \A x \in Q : Min(Q) <= x
  BY <1>5, MinAttained
<1>9. ASSUME Min(Q) <= 60 * Significance  PROVE s \in Rejected(p)
  <2>1. Min(Q) # 60000
    <3>. DEFINE m == Min(Q)
    <3>1. m <= 60 * Significance
      BY <1>9
    <3>2. Significance \in Nat /\ Significance <= 999
      BY ValidationConstants
    <3>. HIDE DEF m
    <3>3. m # 60000
      BY ONLY <3>1, <3>2
    <3>. QED  BY <3>3 DEF m
  <2>2. PICK t \in from : Min(Q) = q(t)
    BY <1>6, <1>8, <2>1
  <2>3. t \in 1 .. n /\ Rank(p, s) <= Rank(p, t) /\ q(t) <= 60 * Significance
    BY <1>7, <1>9, <2>2
  <2>4. Under(p, t)
    BY <1>2, <2>3
  <2>. QED  BY <1>4, <2>3, <2>4
<1>10. ASSUME s \in Rejected(p)  PROVE Min(Q) <= 60 * Significance
  <2>1. PICK t \in 1 .. n : Rank(p, s) <= Rank(p, t) /\ Under(p, t)
    BY <1>4, <1>10
  <2>2. q(t) \in Q /\ q(t) \in Nat /\ q(t) <= 60 * Significance
    <3>1. t \in from
      BY <1>7, <2>1
    <3>2. q(t) \in Nat /\ q(t) <= 60 * Significance
      BY <1>2, <2>1
    <3>. QED  BY <1>5, <3>1, <3>2
  <2>3. Min(Q) <= q(t) /\ Min(Q) \in Nat
    <3>1. Min(Q) \in Nat
      <4>1. Min(Q) \in Q
        BY <1>8
      <4>2. Q \in SUBSET Nat
        BY <1>5
      <4>. QED  BY ONLY <4>1, <4>2
    <3>. QED  BY <1>8, <2>2, <3>1
  <2>4. 60 * Significance \in Nat
    BY <1>1
  <2>. QED  BY <2>2, <2>3, <2>4
<1>. QED  BY <1>3, <1>9, <1>10

(* The survivors of p-values: found by counting, by their q-values, whenever *)
(* the stricter correction would find them, and only at alpha or under.      *)
LEMMA DiscoveriesFacts ==
  ASSUME NEW n \in 1 .. 60, NEW p \in [1 .. n -> Nat], Len(p) = n
  PROVE  /\ Rejected(p) = StepUp(p)
         /\ Rejected(p) = {s \in 1 .. n : QValue(p, s) <= 60 * Significance}
         /\ RejectedByBonferroni(p) \subseteq Rejected(p)
         /\ \A s \in Rejected(p) : p[s] <= Significance
<1>0. DOMAIN p = 1 .. n /\ n \in Nat /\ Significance \in Nat /\ p \in [1 .. n -> Int]
  BY ValidationConstants
<1>1. Rejected(p) = StepUp(p)
  BY <1>0, StepUpFacts
<1>2. Rejected(p) = {s \in 1 .. n : QValue(p, s) <= 60 * Significance}
  <2>1. Rejected(p) \in SUBSET (1 .. n)
    BY <1>0 DEF Rejected
  <2>2. ASSUME NEW s \in 1 .. n  PROVE QValue(p, s) <= 60 * Significance <=> s \in Rejected(p)
    BY QFacts
  <2>. QED  BY <2>1, <2>2
<1>3. ASSUME NEW s \in RejectedByBonferroni(p)  PROVE s \in Rejected(p)
  <2>. DEFINE k == Rank(p, s)
  <2>1. s \in 1 .. n /\ p[s] * n <= Significance
    BY <1>0 DEF RejectedByBonferroni
  <2>2. k \in 1 .. n
    BY <1>0, <2>1, UpToFacts
  <2>3. Significance <= k * Significance
    <3>. DEFINE one == 1
    <3>. HIDE DEF k, one
    <3>1. one <= k /\ one \in Int /\ k \in Int
      BY <2>2 DEF one
    <3>2. one * Significance <= k * Significance
      BY <1>0, <3>1, TimesKeeps
    <3>. QED  BY <1>0, <3>2 DEF one
  <2>4. p[s] * n \in Int /\ k * Significance \in Int
    BY <1>0, <2>1, <2>2
  <2>5. Under(p, s)
    BY <1>0, <2>1, <2>3, <2>4 DEF Under
  <2>6. Rank(p, s) <= Rank(p, s)
    BY <2>2
  <2>. QED  BY <1>0, <2>1, <2>5, <2>6 DEF Rejected
<1>4. ASSUME NEW s \in Rejected(p)  PROVE p[s] <= Significance
  <2>1. PICK k \in 1 .. n : p[s] * n <= k * Significance
    BY <1>0, <1>1 DEF StepUp
  <2>2. s \in 1 .. n /\ p[s] \in Int
    BY <1>0 DEF Rejected
  <2>3. k * Significance <= n * Significance
    BY <1>0, TimesKeeps
  <2>4. p[s] * n \in Int /\ k * Significance \in Int /\ n * Significance \in Int
    BY <1>0, <2>2
  <2>5. n * Significance = Significance * n
    BY <1>0
  <2>6. p[s] * n <= Significance * n
    BY <2>1, <2>3, <2>4, <2>5
  <2>. QED  BY <1>0, <2>2, <2>6, TimesCancels
<1>. QED  BY <1>1, <1>2, <1>3, <1>4

LEMMA PairMin ==
  ASSUME NEW a \in Int, NEW b \in Int
  PROVE  Min({a, b}) = IF a <= b THEN a ELSE b
  BY DEF Min

LEMMA PairMax ==
  ASSUME NEW a \in Int, NEW b \in Int
  PROVE  Max({a, b}) = IF a >= b THEN a ELSE b
  BY DEF Max

(* A boundary out of sample leaves something on both sides of it.            *)
LEMMA SplitFacts ==
  ASSUME NEW n \in Nat, n >= 2, NEW percent \in Nat, NEW w, w = OosSplit(n, percent)
  PROVE  Ahead(w) /\ {} \notin {w.train, w.test} /\ w.train \cup w.test = 0 .. n - 1
<1>. DEFINE most == Max({5, percent})
            dropped == Min({90, Max({5, percent})})
            kept == 100 - dropped
            rounded == RoundHalfEven(n * kept)
            upper == Min({n - 1, rounded})
            cut == Max({1, upper})
<1>1. most \in Nat
  BY PairMax
<1>2. dropped \in Int
  <2>. HIDE DEF most
  <2>1. Min({90, most}) \in Int
    BY <1>1, PairMin
  <2>. QED  BY <2>1 DEF most
<1>3. n * kept \in Int
  <2>. HIDE DEF dropped
  <2>. QED  BY <1>2
<1>4. rounded \in Int
  <2>. DEFINE m == n * kept
  <2>. HIDE DEF kept
  <2>1. m \in Int
    BY <1>3
  <2>. HIDE DEF m
  <2>2. RoundHalfEven(m) \in Int
    BY <2>1 DEF RoundHalfEven
  <2>. QED  BY <2>2 DEF m
<1>5. cut \in 1 .. n - 1
  <2>. HIDE DEF rounded
  <2>1. upper = (IF n - 1 <= rounded THEN n - 1 ELSE rounded)
    BY <1>4, PairMin
  <2>2. upper \in Int /\ upper <= n - 1
    <3>. HIDE DEF upper
    <3>. QED  BY <1>4, <2>1
  <2>. HIDE DEF upper
  <2>3. cut = IF 1 >= upper THEN 1 ELSE upper
    BY <2>2, PairMax
  <2>. HIDE DEF cut
  <2>. QED  BY <2>2, <2>3
<1>6. w = [train |-> 0 .. cut - 1, test |-> cut .. n - 1]
  BY DEF OosSplit
<1>. HIDE DEF cut
<1>7. w.train = 0 .. cut - 1 /\ w.test = cut .. n - 1
  BY <1>6
<1>8. 0 \in w.train /\ cut \in w.test
  BY <1>5, <1>7
<1>9. \A i \in w.train, j \in w.test : i < j
  BY <1>5, <1>7
<1>10. w.train \cup w.test = 0 .. n - 1
  BY <1>5, <1>7
<1>. QED  BY <1>8, <1>9, <1>10 DEF Ahead

(* Windows train on what precedes their test, and tests overlap only if the  *)
(* stride is shorter than one of them.                                       *)
LEMMA WindowFacts ==
  ASSUME NEW n \in Nat, NEW train \in Nat, NEW test \in Nat, NEW step \in Nat,
         NEW v \in Windows(n, train, test, step), NEW w \in Windows(n, train, test, step)
  PROVE  /\ Ahead(w)
         /\ v # w /\ (step = 0 \/ step >= test) => v.test \cap w.test = {}
<1>. DEFINE stride == IF step > 0 THEN step ELSE test
            window(i) == [train |-> i .. i + train - 1, test |-> i + train .. i + train + test - 1]
<1>1. PICK i \in 0 .. n : train >= 1 /\ test >= 1 /\ i % stride = 0 /\ v = window(i)
  BY DEF Windows
<1>2. PICK j \in 0 .. n : j % stride = 0 /\ w = window(j)
  BY DEF Windows
<1>3. stride \in Nat \ {0}
  BY <1>1
<1>4. /\ v.test = i + train .. i + train + test - 1
      /\ w.train = j .. j + train - 1 /\ w.test = j + train .. j + train + test - 1
  BY <1>1, <1>2
<1>5. Ahead(w)
  BY <1>4 DEF Ahead
<1>6. ASSUME v # w, step = 0 \/ step >= test  PROVE v.test \cap w.test = {}
  <2>. DEFINE a == i \div stride
              b == j \div stride
              c == stride
  <2>1. test <= c
    BY <1>6
  <2>. HIDE DEF stride
  <2>2. a \in Int /\ b \in Int /\ i = c * a + (i % c) /\ j = c * b + (j % c)
    <3>. HIDE DEF c
    <3>1. c \in Nat \ {0}
      BY <1>3 DEF c
    <3>2. i \in Int /\ i \div c \in Int /\ i = c * (i \div c) + (i % c)
      BY <3>1
    <3>3. j \in Int /\ j \div c \in Int /\ j = c * (j \div c) + (j % c)
      BY <3>1
    <3>. QED  BY <3>2, <3>3 DEF c
  <2>3. i = a * c /\ j = b * c /\ c \in Nat
    <3>1. i % c = 0 /\ j % c = 0
      BY <1>1, <1>2
    <3>. HIDE DEF a, b, c
    <3>. QED  BY <1>3, <2>2, <3>1 DEF c
  <2>4. i # j
    BY <1>1, <1>2, <1>6
  <2>. HIDE DEF a, b, c
  <2>5. ASSUME NEW x \in Int, NEW y \in Int, x < y  PROVE x * c + c <= y * c
    <3>1. (x + 1) * c <= y * c
      BY <2>3, <2>5, TimesKeeps
    <3>2. (x + 1) * c = x * c + c
      BY <2>3
    <3>. QED  BY <3>1, <3>2
  <2>6. a < b \/ b < a
    BY <2>2, <2>3, <2>4
  <2>7. CASE a < b
    <3>1. a * c + c <= b * c
      BY <2>2, <2>5, <2>7
    <3>2. i + c <= j
      BY ONLY <2>3, <3>1
    <3>3. i + test <= j
      BY <2>1, <2>3, <3>2
    <3>4. \A k \in i + train .. i + train + test - 1, l \in j + train .. j + train + test - 1 : k < l
      BY <3>3
    <3>. QED  BY SMTT(20), <1>4, <3>4
  <2>8. CASE b < a
    <3>1. b * c + c <= a * c
      BY <2>2, <2>5, <2>8
    <3>2. j + c <= i
      BY ONLY <2>3, <3>1
    <3>3. j + test <= i
      BY <2>1, <2>3, <3>2
    <3>4. \A k \in j + train .. j + train + test - 1, l \in i + train .. i + train + test - 1 : k < l
      BY <3>3
    <3>. QED  BY SMTT(20), <1>4, <3>4
  <2>. QED  BY <2>6, <2>7, <2>8
<1>. QED  BY <1>5, <1>6

(* A round trip costs something in every segment, so that no trade is better *)
(* net than gross.                                                           *)
Trade == [entry : Nat, risk : Nat, profit : Int, exit : Int]
Segments == DOMAIN Rates

LEMMA ChargeType ==
  ASSUME NEW segment \in Segments, NEW side
  PROVE  Charge(segment, side) \in Nat
<1>. DEFINE r == Rates[segment]
            tax == IF side = "buy" THEN r.buyTax + r.stamp ELSE r.sellTax
            brokerage == Brokerage(segment)
            fees == brokerage + (r.exchange + 10) * Lakhs
<1>1. r.exchange \in Nat /\ r.buyTax \in Nat /\ r.sellTax \in Nat /\ r.stamp \in Nat
  BY DEF Segments, Rates
<1>2. Lakhs \in Nat
  BY ValidationConstants
<1>3. brokerage \in Nat
  <2>. DEFINE b == 3000 * Lakhs
  <2>1. b \in Nat
    BY <1>2
  <2>. HIDE DEF b
  <2>2. Min({2000, b}) \in Nat
    BY <2>1, PairMin
  <2>. QED  BY <2>2 DEF Brokerage, b
<1>. HIDE DEF r, brokerage
<1>4. tax \in Nat /\ r.exchange + 10 \in Nat
  BY <1>1
<1>. HIDE DEF tax
<1>5. fees \in Nat
  <2>. DEFINE e == r.exchange + 10
  <2>. HIDE DEF e
  <2>1. e * Lakhs \in Nat
    BY <1>2, <1>4 DEF e
  <2>. QED  BY <1>3, <2>1 DEF e
<1>6. Charge(segment, side) = fees + (18 * fees) \div 100 + tax * Lakhs
  BY DEF Charge, r, brokerage, tax
<1>. HIDE DEF fees
<1>7. (18 * fees) \div 100 \in Nat /\ tax * Lakhs \in Nat
  BY <1>2, <1>4, <1>5
<1>. QED  BY <1>5, <1>6, <1>7

LEMMA RoundTripType ==
  ASSUME NEW requested
  PROVE  RoundTrip(Known(requested)) \in Nat
<1>. DEFINE segment == Known(requested)
            both == Charge(segment, "buy") + Charge(segment, "sell")
<1>1. segment \in Segments
  BY DEF Known, Segments, Rates
<1>. HIDE DEF segment
<1>2. both \in Nat
  BY <1>1, ChargeType
<1>. HIDE DEF both
<1>3. both \div Lakhs \in Nat
  BY <1>2, ValidationConstants
<1>4. RoundTrip(segment) = both \div Lakhs + 2000
  BY DEF RoundTrip, both
<1>. QED  BY <1>3, <1>4 DEF segment

LEMMA NetFacts ==
  ASSUME NEW t \in Trade, NEW bps \in Nat
  PROVE  GrossR(t) \in Int /\ NetR(t, bps) \in Int /\ NetR(t, bps) <= GrossR(t)
<1>1. t.risk \in Nat /\ t.entry \in Nat /\ t.profit \in Int
  BY DEF Trade
<1>2. CASE t.risk = 0
  BY <1>2 DEF GrossR, NetR, CostR
<1>3. CASE t.risk # 0
  <2>. DEFINE r == t.risk
              y == 10000 * t.profit
              x == bps * t.entry
              d == 1000 * r
  <2>1. r \in Nat \ {0} /\ y \in Int /\ x \in Nat /\ d \in Nat \ {0}
    BY <1>1, <1>3
  <2>2. GrossR(t) = y \div r /\ CostR(t, bps) = x \div d
    BY <1>3 DEF GrossR, CostR
  <2>. HIDE DEF r, y, x, d
  <2>3. y \div r \in Int
    BY <2>1
  <2>4. x \div d \in Nat
    BY <2>1
  <2>. QED  BY <2>2, <2>3, <2>4 DEF NetR
<1>. QED  BY <1>2, <1>3

(* The trades in the order of their exits are trades, and in that order.     *)
LEMMA ByExitFacts ==
  ASSUME NEW trades \in Seq(Trade), NEW ordered, ordered = ByExit(trades)
  PROVE  /\ ordered \in Seq(Trade) /\ Len(ordered) = Len(trades)
         /\ \A i, j \in 1 .. Len(trades) : i < j => ordered[i].exit <= ordered[j].exit
<1>. DEFINE n == Len(trades)
            keys == [i \in DOMAIN trades |-> trades[i].exit]
            order == Ordered(keys)
<1>1. n \in Nat /\ DOMAIN trades = 1 .. n /\ \A i \in 1 .. n : trades[i] \in Trade
  OBVIOUS
<1>2. keys \in [1 .. n -> Int] /\ \A i \in 1 .. n : keys[i] = trades[i].exit
  BY <1>1 DEF Trade
<1>3. ordered = [i \in 1 .. n |-> trades[order[i]]]
  BY <1>1 DEF ByExit
<1>. HIDE DEF keys, n
<1>4. order = [k \in 1 .. n |-> CHOOSE i \in 1 .. n : Rank(keys, i) = k]
  <2>1. DOMAIN keys = 1 .. n
    BY <1>2
  <2>. QED  BY <2>1 DEF Ordered
<1>5. ASSUME NEW k \in 1 .. n  PROVE order[k] \in 1 .. n /\ Rank(keys, order[k]) = k
  <2>1. \E i \in 1 .. n : Rank(keys, i) = k
    BY <1>1, <1>2, RankOnto
  <2>2. order[k] = CHOOSE i \in 1 .. n : Rank(keys, i) = k
    BY <1>4
  <2>. HIDE DEF order
  <2>. QED  BY <2>1, <2>2
<1>. HIDE DEF order
<1>6. ordered \in Seq(Trade) /\ Len(ordered) = n
  <2>1. \A k \in 1 .. n : trades[order[k]] \in Trade
    BY <1>1, <1>5
  <2>. QED  BY <1>1, <1>3, <2>1
<1>7. ASSUME NEW i \in 1 .. n, NEW j \in 1 .. n, i < j  PROVE ordered[i].exit <= ordered[j].exit
  <2>. DEFINE a == order[i]
              b == order[j]
  <2>1. a \in 1 .. n /\ b \in 1 .. n /\ Rank(keys, a) = i /\ Rank(keys, b) = j
    BY <1>5
  <2>2. ordered[i] = trades[a] /\ ordered[j] = trades[b]
    BY <1>3
  <2>. HIDE DEF a, b
  <2>3. Rank(keys, a) <= Rank(keys, b)
    BY <1>1, <1>7, <2>1
  <2>4. a \in UpTo(keys, b)
    BY <1>1, <1>2, <2>1, <2>3, RankOrder
  <2>5. keys[a] <= keys[b]
    BY <1>2, <2>1, <2>4 DEF UpTo
  <2>. QED  BY <1>2, <2>1, <2>2, <2>5
<1>. QED  BY <1>6, <1>7 DEF n

(* The folds, joined, are the trades.                                        *)
LEMMA FoldsFacts ==
  ASSUME NEW trades \in Seq(Trade), NEW folds, folds = FoldsOf(trades)
  PROVE  /\ folds \in Seq(Seq(Trade)) /\ Len(folds) \in 0 .. FoldCount
         /\ Len(trades) >= FoldCount <=> folds # <<>>
         /\ folds # <<>> => FlattenSeq(folds) = trades
<1>. DEFINE n == Len(trades)
            size == n \div FoldCount
            end(k) == IF k = FoldCount THEN n ELSE k * size
            start(k) == (k - 1) * size
<1>1. n \in Nat /\ FoldCount \in Nat \ {0}
  BY ValidationConstants
<1>2. CASE n < FoldCount
  <2>1. folds = <<>>
    BY <1>2 DEF FoldsOf
  <2>. QED  BY <1>1, <1>2, <2>1
<1>3. CASE n >= FoldCount
  <2>1. folds = [k \in 1 .. FoldCount |-> SubSeq(trades, start(k) + 1, end(k))]
    BY <1>1, <1>3 DEF FoldsOf
  <2>2. size \in Nat /\ FoldCount * size <= n
    <3>. HIDE DEF n
    <3>. QED  BY <1>1
  <2>. HIDE DEF n, size
  <2>3. ASSUME NEW k \in 1 .. FoldCount
        PROVE  /\ start(k) \in Nat /\ end(k) \in start(k) .. n
               /\ k # 1 => end(k - 1) = start(k)
               /\ k = 1 => start(k) = 0
    <3>. DEFINE m == k - 1
                zero == 0
    <3>1. m \in Nat /\ k \in Int /\ m <= k /\ zero <= m /\ k <= FoldCount
      BY <1>1
    <3>2. m * size <= k * size /\ k * size <= FoldCount * size /\ m * size \in Nat /\ k * size \in Int
      <4>. HIDE DEF m, zero
      <4>. QED  BY <1>1, <2>2, <3>1, TimesKeeps
    <3>3. FoldCount * size \in Int
      BY <1>1, <2>2
    <3>4. k # 1 => m # FoldCount
      BY <1>1
    <3>5. k = 1 => m * size = 0
      BY <2>2
    <3>. QED  BY <1>1, <2>2, <3>2, <3>3, <3>4, <3>5
  <2>4. /\ n \in Nat /\ trades \in Seq(Trade) /\ Len(trades) = n
        /\ \A i \in 1 .. n : trades[i] \in Trade
    BY <1>1 DEF n
  <2>. HIDE DEF start, end
  <2>5. ASSUME NEW k \in 1 .. FoldCount  PROVE SubSeq(trades, start(k) + 1, end(k)) \in Seq(Trade)
    <3>1. /\ start(k) + 1 \in Int /\ end(k) \in Int
          /\ \A i \in start(k) + 1 .. end(k) : trades[i] \in Trade
      BY <2>3, <2>4
    <3>. DEFINE a == start(k) + 1
                b == end(k)
    <3>2. a \in Int /\ b \in Int /\ \A i \in a .. b : trades[i] \in Trade
      BY <3>1
    <3>. HIDE DEF a, b
    <3>3. SubSeq(trades, a, b) \in Seq(Trade)
      BY <3>2, SubSeqProperties
    <3>. QED  BY <3>3 DEF a, b
  <2>6. folds \in Seq(Seq(Trade)) /\ Len(folds) = FoldCount /\ folds # <<>>
    <3>. DEFINE piece(k) == SubSeq(trades, start(k) + 1, end(k))
                T == Seq(Trade)
    <3>1. folds = [k \in 1 .. FoldCount |-> piece(k)] /\ \A k \in 1 .. FoldCount : piece(k) \in T
      BY <2>1, <2>5
    <3>. HIDE DEF piece, T
    <3>2. folds \in Seq(T) /\ Len(folds) = FoldCount
      BY <1>1, <3>1
    <3>. QED  BY <1>1, <3>2 DEF T
  <2>7. PICK g \in [1 .. FoldCount -> Seq(Trade)] :
           /\ g[1] = folds[1]
           /\ \A k \in 2 .. FoldCount : g[k] = g[k - 1] \o folds[k]
           /\ FlattenSeq(folds) = g[FoldCount]
    <3>. DEFINE T == Trade
    <3>1. folds \in Seq(Seq(T)) /\ folds # <<>>
      BY <2>6
    <3>. HIDE DEF T
    <3>2. \E g \in [1 .. Len(folds) -> Seq(T)] :
             /\ g[1] = folds[1]
             /\ \A k \in 2 .. Len(folds) : g[k] = g[k - 1] \o folds[k]
             /\ FlattenSeq(folds) = g[Len(folds)]
      BY <3>1, Flattened
    <3>. QED  BY <2>6, <3>2 DEF T
  <2>. DEFINE Joined(k) == k = 0 \/ g[k] = SubSeq(trades, 1, end(k))
              S == {k \in 0 .. FoldCount : Joined(k)}
  <2>8. 0 \in S
    BY <1>1
  <2>9. ASSUME NEW k \in 1 .. FoldCount, k - 1 \in S  PROVE k \in S
    <3>1. CASE k = 1
      <4>1. folds[1] = SubSeq(trades, 1, end(1))
        BY <2>1, <2>3, <3>1
      <4>. QED  BY <1>1, <2>7, <3>1, <4>1
    <3>2. CASE k # 1
      <4>. DEFINE a == start(k)
                  b == end(k)
      <4>1. a \in 0 .. n /\ b \in a .. n /\ end(k - 1) = a
        BY <2>3, <2>4, <3>2
      <4>2. g[k - 1] = SubSeq(trades, 1, a)
        BY <2>9, <3>2, <4>1
      <4>3. folds[k] = SubSeq(trades, a + 1, b)
        BY <2>1
      <4>4. g[k] = g[k - 1] \o folds[k]
        <5>1. k \in 2 .. FoldCount
          BY <1>1, <3>2
        <5>. QED  BY <2>7, <5>1
      <4>. HIDE DEF a, b
      <4>5. SubSeq(trades, 1, a) \o SubSeq(trades, a + 1, b) = SubSeq(trades, 1, b)
        <5>. DEFINE one == 1
                    T == Trade
        <5>1. one \in 1 .. Len(trades) + 1 /\ a \in one - 1 .. Len(trades) /\ b \in a .. Len(trades)
              /\ trades \in Seq(T)
          BY <2>4, <4>1
        <5>. HIDE DEF one, T
        <5>2. SubSeq(trades, one, a) \o SubSeq(trades, a + 1, b) = SubSeq(trades, one, b)
          BY <5>1, ConcatAdjacentSubSeq
        <5>. QED  BY <5>2 DEF one
      <4>6. g[k] = SubSeq(trades, 1, b)
        BY <4>2, <4>3, <4>4, <4>5
      <4>. QED  BY <1>1, <4>6 DEF b
    <3>. QED  BY <3>1, <3>2
  <2>10. 0 .. FoldCount \subseteq S
    <3>. HIDE DEF S
    <3>. QED  BY <1>1, <2>8, <2>9, BoundedInduction
  <2>11. g[FoldCount] = SubSeq(trades, 1, n)
    <3>1. FoldCount \in S /\ FoldCount # 0 /\ end(FoldCount) = n
      BY <1>1, <2>10 DEF end
    <3>. QED  BY <3>1
  <2>12. SubSeq(trades, 1, n) = trades
    BY <2>4, SubSeqFull
  <2>. QED  BY <1>1, <1>3, <2>6, <2>7, <2>11, <2>12 DEF n
<1>. QED  BY <1>1, <1>2, <1>3

LEMMA WalkFacts ==
  ASSUME NEW trades \in Seq(Trade), NEW bps \in Nat, NEW r, r = WalkForward(trades, bps),
         NEW joined, joined = FlattenSeq(r.folds)
  PROVE  /\ r.net \in Seq(Int) /\ Len(r.net) = Len(trades)
         /\ SumOf(r.net) <= r.gross
         /\ Len(r.net) >= FoldCount <=> r.folds # <<>>
         /\ r.folds # <<>> => Len(joined) = Len(r.net) /\ r.positive <= FoldCount
         /\ \A i, j \in DOMAIN joined : i < j => joined[i].exit <= joined[j].exit
<1>. DEFINE ordered == ByExit(trades)
            n == Len(trades)
            D == 1 .. n
            net == [i \in DOMAIN ordered |-> NetR(ordered[i], bps)]
            gross == [i \in DOMAIN ordered |-> GrossR(ordered[i])]
            folds == FoldsOf(ordered)
            wins(k) == SumOf([i \in DOMAIN folds[k] |-> NetR(folds[k][i], bps)]) > 0
            winners == {k \in DOMAIN folds : wins(k)}
<1>1. /\ ordered \in Seq(Trade) /\ Len(ordered) = n
      /\ \A i, j \in 1 .. n : i < j => ordered[i].exit <= ordered[j].exit
  BY ByExitFacts
<1>2. r.net = net /\ r.folds = folds /\ r.gross = SumOf(gross) /\ r.positive = Cardinality(winners)
  BY DEF WalkForward
<1>3. n \in Nat /\ IsFiniteSet(D)
  BY IntervalSize
<1>. HIDE DEF ordered, n
<1>4. DOMAIN ordered = 1 .. n /\ \A i \in 1 .. n : ordered[i] \in Trade
  BY <1>1
<1>5. ASSUME NEW i \in 1 .. n  PROVE net[i] \in Int /\ gross[i] \in Int /\ net[i] <= gross[i]
  <2>. DEFINE t == ordered[i]
  <2>1. t \in Trade /\ net[i] = NetR(t, bps) /\ gross[i] = GrossR(t)
    BY <1>4
  <2>. HIDE DEF t
  <2>. QED  BY <2>1, NetFacts
<1>6. net \in [1 .. n -> Int] /\ DOMAIN gross = 1 .. n
  BY <1>4, <1>5
<1>. HIDE DEF net, gross
<1>7. net \in Seq(Int) /\ Len(net) = n
  BY <1>3, <1>6
<1>8. SumOf(net) <= SumOf(gross)
  <2>1. \A i \in D : net[i] \in Int /\ gross[i] \in Int /\ net[i] <= gross[i]
    BY <1>5
  <2>2. DOMAIN net = D /\ DOMAIN gross = D
    BY <1>6
  <2>. HIDE DEF D
  <2>3. SumUp(net, D) <= SumUp(gross, D)
    BY <1>3, <2>1, SumUpMonotone
  <2>. QED  BY <2>2, <2>3, SumOfFunction DEF SumOf
<1>9. /\ folds \in Seq(Seq(Trade)) /\ Len(folds) \in 0 .. FoldCount
      /\ Len(ordered) >= FoldCount <=> folds # <<>>
      /\ folds # <<>> => FlattenSeq(folds) = ordered
  BY <1>1, FoldsFacts
<1>10. Cardinality(winners) <= FoldCount
  <2>. DEFINE E == DOMAIN folds
              m == Len(folds)
  <2>1. m \in Nat /\ E = 1 .. m /\ m <= FoldCount /\ FoldCount \in Nat
    BY <1>9, ValidationConstants
  <2>2. IsFiniteSet(1 .. m) /\ Cardinality(1 .. m) = m
    <3>. HIDE DEF m
    <3>. QED  BY <2>1, IntervalSize
  <2>3. IsFiniteSet(E) /\ Cardinality(E) <= FoldCount /\ winners \in SUBSET E
    BY <2>1, <2>2
  <2>. HIDE DEF E, winners
  <2>4. Cardinality(winners) <= Cardinality(E) /\ IsFiniteSet(winners)
    BY <2>3, FS_Subset
  <2>5. Cardinality(winners) \in Nat /\ Cardinality(E) \in Nat
    BY <2>3, <2>4, FS_CardinalityType
  <2>. QED  BY <2>1, <2>3, <2>4, <2>5
<1>. HIDE DEF folds
<1>11. folds = <<>> => DOMAIN FlattenSeq(folds) = {}
  BY DEF FlattenSeq
<1>12. \A i, j \in DOMAIN FlattenSeq(folds) :
          i < j => FlattenSeq(folds)[i].exit <= FlattenSeq(folds)[j].exit
  <2>1. CASE folds = <<>>
    BY <1>11, <2>1
  <2>2. CASE folds # <<>>
    BY <1>1, <1>4, <1>9, <2>2
  <2>. QED  BY <2>1, <2>2
<1>. HIDE DEF winners
<1>. QED  BY <1>1, <1>2, <1>7, <1>8, <1>9, <1>10, <1>12 DEF n

(* The p-values of series of Rs are levels, in thousandths.                  *)
PValuesAreLevels == \A net \in Seq(Int) : PValue(net) \in 0 .. 1000

LEMMA SoundPartitions == NoPartitionLooksAhead
<1>1. ASSUME NEW n \in 2 .. 9, NEW percent \in {0, 5, 25, 30, 50, 90, 100}, NEW w,
             w = OosSplit(n, percent)
      PROVE  Ahead(w) /\ {} \notin {w.train, w.test} /\ w.train \cup w.test = 0 .. n - 1
  <2>1. n \in Nat /\ n >= 2 /\ percent \in Nat
    OBVIOUS
  <2>. QED  BY <1>1, <2>1, SplitFacts
<1>2. ASSUME NEW n \in 0 .. 7, NEW train \in 0 .. 3, NEW test \in 0 .. 3, NEW step \in 0 .. 3,
             NEW v \in Windows(n, train, test, step), NEW w \in Windows(n, train, test, step)
      PROVE  /\ Ahead(w)
             /\ v # w /\ (step = 0 \/ step >= test) => v.test \cap w.test = {}
  <2>1. n \in Nat /\ train \in Nat /\ test \in Nat /\ step \in Nat
    OBVIOUS
  <2>. QED  BY <2>1, WindowFacts
<1>. QED  BY ZenonT(40), <1>1, <1>2 DEF NoPartitionLooksAhead

(* What Validate stores is sound, whatever has been found.                   *)
LEMMA SoundRun ==
  ASSUME PValuesAreLevels, backtests \in [Tried -> Seq(Trade)], NEW requested, Validate(requested)
  PROVE  SurvivorsAreDiscoveries' /\ FoldsAreHonest'
<1>. DEFINE n == Len(Suite)
            bps == RoundTrip(Known(requested))
            reports == [s \in Tried |-> WalkForward(backtests[s], bps)]
            p == [s \in Tried |-> IF Len(backtests[s]) < 2 THEN 1000 ELSE PValue(reports[s].net)]
            run == [segment |-> Known(requested), reports |-> reports, p |-> p,
                    q |-> [s \in Tried |-> QValue(p, s)], survivors |-> Rejected(p)]
<1>1. n \in 1 .. 60 /\ Tried = 1 .. n /\ Significance \in 0 .. 999
  BY ValidationConstants DEF Tried
<1>2. bps \in Nat
  BY RoundTripType
<1>3. verdict' = run
  BY DEF Validate
<1>. HIDE DEF bps, n
<1>4. ASSUME NEW s \in Tried, NEW joined, joined = FlattenSeq(reports[s].folds)
      PROVE  LET r == reports[s]
             IN  /\ r.net \in Seq(Int) /\ Len(r.net) = Len(backtests[s])
                 /\ SumOf(r.net) <= r.gross
                 /\ Len(r.net) >= FoldCount <=> r.folds # <<>>
                 /\ r.folds # <<>> => Len(joined) = Len(r.net) /\ r.positive <= FoldCount
                 /\ \A i, j \in DOMAIN joined : i < j => joined[i].exit <= joined[j].exit
  <2>. DEFINE trades == backtests[s]
              r == WalkForward(trades, bps)
  <2>1. trades \in Seq(Trade) /\ reports[s] = r
    OBVIOUS
  <2>2. joined = FlattenSeq(r.folds)
    BY <1>4, <2>1
  <2>. HIDE DEF trades, r
  <2>3. r = WalkForward(trades, bps)
    BY DEF r
  <2>4. /\ r.net \in Seq(Int) /\ Len(r.net) = Len(trades)
        /\ SumOf(r.net) <= r.gross
        /\ Len(r.net) >= FoldCount <=> r.folds # <<>>
        /\ r.folds # <<>> => Len(joined) = Len(r.net) /\ r.positive <= FoldCount
        /\ \A i, j \in DOMAIN joined : i < j => joined[i].exit <= joined[j].exit
    BY <1>2, <2>1, <2>2, <2>3, WalkFacts
  <2>. HIDE DEF reports
  <2>. QED  BY <2>1, <2>4 DEF trades
<1>. HIDE DEF reports
<1>5. p \in [1 .. n -> Nat] /\ Len(p) = n
  <2>1. ASSUME NEW s \in Tried  PROVE p[s] \in Nat
    <3>1. reports[s].net \in Seq(Int)
      BY <1>4
    <3>2. PValue(reports[s].net) \in 0 .. 1000
      BY <3>1, ZenonT(40) DEF PValuesAreLevels
    <3>3. p[s] = 1000 \/ p[s] = PValue(reports[s].net)
      OBVIOUS
    <3>. HIDE DEF p
    <3>. QED  BY ONLY <3>2, <3>3
  <2>2. DOMAIN p = Tried
    OBVIOUS
  <2>3. p \in [1 .. n -> Nat]
    <3>1. p = [s \in Tried |-> p[s]]
      OBVIOUS
    <3>. HIDE DEF p
    <3>. QED  BY <1>1, <2>1, <3>1
  <2>. HIDE DEF p
  <2>. QED  BY <1>1, <2>3
<1>6. ASSUME NEW s \in Tried, p[s] <= Significance  PROVE Len(backtests[s]) >= 2
  <2>1. Len(backtests[s]) \in Nat
    OBVIOUS
  <2>2. Len(backtests[s]) < 2 => p[s] = 1000
    OBVIOUS
  <2>. HIDE DEF p
  <2>3. p[s] # 1000
    <3>1. Significance \in 0 .. 999
      BY <1>1
    <3>. QED  BY ONLY <1>6, <3>1
  <2>. QED  BY ONLY <2>1, <2>2, <2>3
<1>. HIDE DEF p
<1>7. /\ Rejected(p) = StepUp(p)
      /\ Rejected(p) = {s \in 1 .. n : QValue(p, s) <= 60 * Significance}
      /\ RejectedByBonferroni(p) \subseteq Rejected(p)
      /\ \A s \in Rejected(p) : p[s] <= Significance
  BY ZenonT(40), <1>1, <1>5, DiscoveriesFacts
<1>8. /\ verdict'.reports = reports /\ verdict'.p = p /\ verdict'.survivors = Rejected(p)
      /\ \A s \in Tried : verdict'.q[s] = QValue(p, s)
  BY <1>3
<1>9. Rejected(p) \in SUBSET Tried
  <2>1. DOMAIN p = Tried
    BY <1>1, <1>5
  <2>. QED  BY <2>1 DEF Rejected
<1>10. SurvivorsAreDiscoveries'
  <2>1. {s \in Tried : verdict'.q[s] <= 60 * Significance} = Rejected(p)
    BY <1>1, <1>7, <1>8
  <2>2. ASSUME NEW s \in Rejected(p)  PROVE Len(reports[s].net) >= 2
    <3>1. s \in Tried /\ p[s] <= Significance
      BY <1>7, <1>9
    <3>2. Len(reports[s].net) = Len(backtests[s])
      BY <1>4, <3>1
    <3>. QED  BY <1>6, <3>1, <3>2
  <2>. QED  BY <1>7, <1>8, <2>1, <2>2 DEF SurvivorsAreDiscoveries
<1>11. FoldsAreHonest'
  BY <1>4, <1>8 DEF FoldsAreHonest
<1>. QED  BY <1>10, <1>11

(* Trades stay trades, and a stored verdict sound: SoundVerdict, made        *)
(* inductive.                                                                *)
ValidationInvariant == backtests \in [Tried -> Seq(Trade)] /\ SoundVerdict

LEMMA ValidationStep ==
  ASSUME PValuesAreLevels, ValidationInvariant, [ValidationNext]_validationVars
  PROVE  ValidationInvariant'
<1>1. ASSUME NEW s \in Tried, TradeFound(s)  PROVE ValidationInvariant'
  <2>1. PICK t \in Outcomes : backtests' = [backtests EXCEPT ![s] = Append(@, t)]
    BY <1>1 DEF TradeFound
  <2>2. t \in Trade /\ backtests[s] \in Seq(Trade)
    BY ValidationConstants DEF ValidationInvariant, Trade
  <2>3. Append(backtests[s], t) \in Seq(Trade)
    BY <2>2, AppendProperties
  <2>4. backtests' \in [Tried -> Seq(Trade)]
    BY <2>1, <2>3 DEF ValidationInvariant
  <2>5. SoundVerdict'
    BY ZenonT(40), <1>1 DEF TradeFound, ValidationInvariant, SoundVerdict, SurvivorsAreDiscoveries, FoldsAreHonest,
                NoPartitionLooksAhead
  <2>. QED  BY <2>4, <2>5 DEF ValidationInvariant
<1>2. ASSUME NEW r \in Requested, Validate(r)  PROVE ValidationInvariant'
  <2>1. SurvivorsAreDiscoveries' /\ FoldsAreHonest'
    BY <1>2, SoundRun DEF ValidationInvariant
  <2>2. NoPartitionLooksAhead'
    BY SoundPartitions DEF NoPartitionLooksAhead
  <2>3. backtests' \in [Tried -> Seq(Trade)]
    BY <1>2 DEF Validate, ValidationInvariant
  <2>. QED  BY <2>1, <2>2, <2>3 DEF ValidationInvariant, SoundVerdict
<1>3. CASE UNCHANGED validationVars
  BY ZenonT(40), <1>3 DEF validationVars, ValidationInvariant, SoundVerdict, SurvivorsAreDiscoveries, FoldsAreHonest,
              NoPartitionLooksAhead
<1>. QED  BY <1>1, <1>2, <1>3 DEF ValidationNext

(* What a validation stores is sound, whatever the library, the trades found *)
(* by its backtests, the level, the folds and the notional, if the p-values  *)
(* are levels: what survives is found by counting the p-values under its own *)
(* share of alpha, and the folds are the trades in their order.              *)
THEOREM VerdictsAreSound ==
  ASSUME PValuesAreLevels
  PROVE  ValidationSpec => []SoundVerdict
<1>1. ValidationInit => ValidationInvariant
  <2>. SUFFICES ASSUME ValidationInit  PROVE ValidationInvariant
    OBVIOUS
  <2>1. backtests \in [Tried -> Seq(Trade)]
    BY DEF ValidationInit
  <2>. QED  BY <2>1, SoundPartitions DEF ValidationInit, ValidationInvariant, SoundVerdict
<1>2. ValidationInvariant /\ [ValidationNext]_validationVars => ValidationInvariant'
  BY ValidationStep
<1>3. ValidationInvariant => SoundVerdict
  BY DEF ValidationInvariant
<1>. QED  BY <1>1, <1>2, <1>3, PTL DEF ValidationSpec
=============================================================================
