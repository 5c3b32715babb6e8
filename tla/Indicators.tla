----------------------------- MODULE Indicators -----------------------------
(* The technical indicators twice: the batch functions of core.py over all bars *)
(* of a series, and the incremental state of incremental.py that the feed's     *)
(* indicator engine advances by one closed bar. Prices are integers in a unit   *)
(* fine enough for the divisions; a bar is [h, l, c, v, day, minute]. Only what *)
(* RollingIndicatorState tracks is here; a band is given by its variance.      *)
EXTENDS Calendar, Sequences, SequencesExt

CONSTANTS EmaPeriod, RsiPeriod, AtrPeriod, Fast, Slow, SignalPeriod,
          TrendPeriod, TrendTimes,     \* supertrend's period and multiplier
          AdxPeriod, BandPeriod,
          Window                       \* bars kept for ADX and the bands

ASSUME NeverIsNoNumber == Never \notin Int
ASSUME IndicatorConstants ==
    /\ {EmaPeriod, RsiPeriod, AtrPeriod, Fast, Slow, SignalPeriod, TrendPeriod, BandPeriod} \subseteq Nat \ {0}
    /\ TrendTimes \in Nat /\ Window \in Nat /\ BandPeriod <= Window

Larger(a, b) == IF a >= b THEN a ELSE b
Positive(n) == Larger(n, 0)
Gap(a, b) == Larger(a - b, b - a)
Total(s) == SumFunction(s)
Mean(s) == Total(s) \div Len(s)
Column(bars, f) == [i \in DOMAIN bars |-> bars[i][f]]
Defined(s) ==
    LET f[i \in 0 .. Len(s)] ==
            IF i = 0 THEN <<>> ELSE IF s[i] = Never THEN f[i - 1] ELSE Append(f[i - 1], s[i])
    IN  f[Len(s)]
LastDefined(s) == IF Defined(s) = <<>> THEN Never ELSE Last(Defined(s))

EmaStep(p, prev, v) == (2 * v + (p - 1) * prev) \div (p + 1)
WilderStep(p, prev, v) == (prev * (p - 1) + v) \div p
RsiValue(gain, loss) == IF loss = 0 THEN 10000 ELSE 10000 - (10000 * loss) \div (gain + loss)

-----------------------------------------------------------------------------
(* core.py. ema and wilder_smooth: seeded with the mean of the first p values. *)
Smoothed(values, p, Step(_, _, _)) ==
    LET f[i \in DOMAIN values] ==
            IF i < p THEN Never
            ELSE IF i = p THEN Mean(SubSeq(values, 1, p)) ELSE Step(p, f[i - 1], values[i])
    IN  f
Ema(values, p) == Smoothed(values, p, EmaStep)
WilderSmooth(values, p) == Smoothed(values, p, WilderStep)

Changes(values) == [i \in 1 .. Len(values) - 1 |-> values[i + 1] - values[i]]
Rsi(close, p) ==
    LET gains == WilderSmooth([i \in DOMAIN Changes(close) |-> Positive(Changes(close)[i])], p)
        losses == WilderSmooth([i \in DOMAIN Changes(close) |-> Positive(-Changes(close)[i])], p)
    IN  [i \in DOMAIN close |-> IF i <= p THEN Never ELSE RsiValue(gains[i - 1], losses[i - 1])]

(* macd: the signal line is the EMA of the part of the line that is defined.   *)
MacdLine(close) ==
    LET fast == Ema(close, Fast)
        slow == Ema(close, Slow)
    IN  [i \in DOMAIN close |-> IF fast[i] = Never \/ slow[i] = Never THEN Never ELSE fast[i] - slow[i]]
MacdSignal(close) == Ema(Defined(MacdLine(close)), SignalPeriod)

TrueRange(bars) ==
    [i \in DOMAIN bars |->
        IF i = 1 THEN bars[i].h - bars[i].l
        ELSE Larger(bars[i].h - bars[i].l,
                    Larger(Gap(bars[i].h, bars[i - 1].c), Gap(bars[i].l, bars[i - 1].c)))]
Atr(bars, p) == WilderSmooth(TrueRange(bars), p)

(* adx: directional movement, its indices and their smoothed contrast          *)
Adx(bars, p) ==
    LET up(i) == bars[i].h - bars[i - 1].h
        down(i) == bars[i - 1].l - bars[i].l
        plus == WilderSmooth([i \in DOMAIN bars |->
                    IF i > 1 /\ up(i) > down(i) /\ up(i) > 0 THEN up(i) ELSE 0], p)
        minus == WilderSmooth([i \in DOMAIN bars |->
                    IF i > 1 /\ down(i) > up(i) /\ down(i) > 0 THEN down(i) ELSE 0], p)
        atr == Atr(bars, p)
        di(moves, i) == (10000 * moves[i]) \div atr[i]
        dx(i) == LET sum == di(plus, i) + di(minus, i)
                 IN  IF sum = 0 THEN 0 ELSE (10000 * Gap(di(plus, i), di(minus, i))) \div sum
    IN  IF Len(bars) <= 2 * p THEN <<>>
        ELSE WilderSmooth(Defined([i \in DOMAIN bars |->
                 IF atr[i] \in {Never, 0} THEN Never ELSE dx(i)]), p)

(* bollinger: [mid, variance] of the last BandPeriod closes                    *)
Bollinger(close) ==
    IF Len(close) < BandPeriod THEN Never
    ELSE LET window == SubSeq(close, Len(close) - BandPeriod + 1, Len(close))
             mid == Mean(window)
         IN  [mid |-> mid, variance |-> Mean([i \in DOMAIN window |-> (window[i] - mid) * (window[i] - mid)])]

(* supertrend: bands that only tighten until the close before passed them, and  *)
(* a direction that flips when the close passes the line or the band.          *)
Bands(bar, atr, prev, prevClose) ==
    LET mid == (bar.h + bar.l) \div 2
        upper == mid + TrendTimes * atr
        lower == mid - TrendTimes * atr
    IN  IF prev = Never THEN [mid |-> mid, upper |-> upper, lower |-> lower]
        ELSE [mid |-> mid,
              upper |-> IF upper < prev.upper \/ prevClose > prev.upper THEN upper ELSE prev.upper,
              lower |-> IF lower > prev.lower \/ prevClose < prev.lower THEN lower ELSE prev.lower]
Turn(close, band, prev) ==
    LET dir == IF prev = Never THEN IF close >= band.mid THEN 1 ELSE -1
               ELSE IF close > (IF prev.dir = -1 THEN prev.upper ELSE prev.line) THEN 1
               ELSE IF close < (IF prev.dir = 1 THEN prev.lower ELSE prev.line) THEN -1
               ELSE prev.dir
    IN  [upper |-> band.upper, lower |-> band.lower, dir |-> dir,
         line |-> IF dir = 1 THEN band.lower ELSE band.upper]
Supertrend(bars) ==
    LET atr == Atr(bars, TrendPeriod)
        f[i \in DOMAIN bars] ==
            IF atr[i] = Never THEN Never
            ELSE LET prev == IF i = 1 THEN Never ELSE f[i - 1]
                     prevClose == IF i = 1 THEN 0 ELSE bars[i - 1].c
                 IN  Turn(bars[i].c, Bands(bars[i], atr[i], prev, prevClose), prev)
    IN  f

Typical(bar) == (bar.h + bar.l + bar.c) \div 3
Vwap(bars) ==
    LET volume == Total(Column(bars, "v"))
    IN  IF volume = 0 THEN Never
        ELSE Total([i \in DOMAIN bars |-> Typical(bars[i]) * bars[i].v]) \div volume

(* compute_bundle; vwap there runs over all bars, and is left to SessionVwap.  *)
ComputeBundle(bars) ==
    LET close == Column(bars, "c")
    IN  [ema |-> Last(Ema(close, EmaPeriod)), rsi |-> Last(Rsi(close, RsiPeriod)),
         macd |-> Last(MacdLine(close)), signal |-> LastDefined(MacdSignal(close)),
         atr |-> Last(Atr(bars, AtrPeriod)), trend |-> Last(Supertrend(bars)),
         adx |-> LastDefined(Adx(bars, AdxPeriod)), band |-> Bollinger(close)]

-----------------------------------------------------------------------------
(* incremental.py. An average collects its first p values and then steps.      *)
NewAverage == [seed |-> <<>>, value |-> Never]
Advance(s, p, v, Step(_, _, _)) ==
    IF s.value # Never THEN [s EXCEPT !.value = Step(p, @, v)]
    ELSE [seed |-> Append(s.seed, v),
          value |-> IF Len(s.seed) + 1 = p THEN Mean(Append(s.seed, v)) ELSE Never]
NextEma(s, p, v) == Advance(s, p, v, EmaStep)
NextWilder(s, p, v) == Advance(s, p, v, WilderStep)
NewState ==
    [ema |-> NewAverage, gain |-> NewAverage, loss |-> NewAverage, atr |-> NewAverage,
     fast |-> NewAverage, slow |-> NewAverage, signal |-> NewAverage, macd |-> Never,
     range |-> NewAverage, trend |-> Never, prev |-> Never, recent |-> <<>>,
     session |-> Never, pv |-> 0, volume |-> 0]

RangeOf(s, bar) ==
    IF s.prev = Never THEN bar.h - bar.l
    ELSE Larger(bar.h - bar.l, Larger(Gap(bar.h, s.prev), Gap(bar.l, s.prev)))

(* SessionVWAP.update: a bar outside any session continues the session before. *)
AlwaysSameSession(s, bar) == s.session = Never
NewSession(s, bar) == SessionOpen(bar) \notin {Never, s.session}

(* RollingIndicatorState.update                                                *)
Update(s, bar) ==
    LET range == NextWilder(s.range, TrendPeriod, RangeOf(s, bar))
        fast == NextEma(s.fast, Fast, bar.c)
        slow == NextEma(s.slow, Slow, bar.c)
        macd == IF Never \in {fast.value, slow.value} THEN s.macd ELSE fast.value - slow.value
        moved(from, to) == IF s.prev = Never THEN NewAverage ELSE NextWilder(from, RsiPeriod, Positive(to))
        anew == NewSession(s, bar)
    IN  [ema |-> NextEma(s.ema, EmaPeriod, bar.c),
         gain |-> moved(s.gain, bar.c - s.prev), loss |-> moved(s.loss, s.prev - bar.c),
         atr |-> NextWilder(s.atr, AtrPeriod, RangeOf(s, bar)),
         fast |-> fast, slow |-> slow, macd |-> macd,
         signal |-> IF Never \in {fast.value, slow.value} THEN s.signal
                    ELSE NextEma(s.signal, SignalPeriod, macd),
         range |-> range,
         trend |-> IF range.value = Never THEN Never
                   ELSE Turn(bar.c, Bands(bar, range.value, s.trend, s.prev), s.trend),
         prev |-> bar.c,
         recent |-> IF Len(s.recent) = Window THEN Append(Tail(s.recent), bar) ELSE Append(s.recent, bar),
         session |-> IF anew THEN SessionOpen(bar) ELSE s.session,
         pv |-> (IF anew THEN 0 ELSE s.pv) + Typical(bar) * bar.v,
         volume |-> (IF anew THEN 0 ELSE s.volume) + bar.v]
Bundle(s) ==
    [ema |-> s.ema.value, macd |-> s.macd, signal |-> s.signal.value, atr |-> s.atr.value,
     rsi |-> IF s.gain.value = Never THEN Never ELSE RsiValue(s.gain.value, s.loss.value),
     trend |-> s.trend, adx |-> LastDefined(Adx(s.recent, AdxPeriod)),
     band |-> Bollinger(Column(s.recent, "c"))]
VwapOf(s) == IF s.volume = 0 THEN Never ELSE s.pv \div s.volume

(* _replay_all: the state after each bar, from nothing                         *)
Replay(bars) ==
    LET f[i \in 0 .. Len(bars)] == IF i = 0 THEN NewState ELSE Update(f[i - 1], bars[i])
    IN  f
=============================================================================
