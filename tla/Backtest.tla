------------------------------ MODULE Backtest ------------------------------
(* The backtester: a strategy walked over a symbol's daily bars, each signal    *)
(* turned into a trade on the bars that follow. The candle store grows by a day *)
(* at each step, a suspended symbol skipping days, so that every result can be  *)
(* compared with what was known when its trade was opened.                     *)
EXTENDS Indicators

CONSTANTS DayShapes,     \* what a day can bring: <<the symbol's bar or Never, the benchmark's>>
          Evaluate(_),   \* the strategy: context -> NoSignal or [dir, entry, stop, target]
          RequiredHistory, WarmUp, MaxHolding, Lookback,
          LiveHistory,   \* candles the scanner reads
          MaxDays        \* bound

ASSUME BacktestConstants ==
    /\ {RequiredHistory, WarmUp, LiveHistory} \subseteq Nat /\ {MaxHolding, Lookback} \subseteq Nat \ {0}
    /\ Lookback < Larger(RequiredHistory, WarmUp)
ASSUME DaysAreBars ==
    LET shapes == [h : Int, l : Int, c : Int, v : Int]
    IN  DayShapes \subseteq (shapes \cup {Never}) \X shapes

VARIABLES
    market,        \* [bars, bundles, bench, trends]: the symbol's daily candles, oldest first, the
                   \* bundle at each, the benchmark's candles and its trend at each
    rolling,       \* the indicator states behind them: [stock, index]
    today
backtestVars == <<market, rolling, today>>
NoSignal == [dir |-> "none"]

BacktestInit ==
    /\ market = [bars |-> <<>>, bundles |-> <<>>, bench |-> <<>>, trends |-> <<>>]
    /\ rolling = [stock |-> NewState, index |-> NewState] /\ today = 0

(* _index_trend of the benchmark's bundle                                      *)
IndexTrend(s) ==
    IF Never \in {s.fast.value, s.slow.value} \/ s.fast.value = s.slow.value THEN "none"
    ELSE IF s.fast.value > s.slow.value THEN "long" ELSE "short"
Stamp(shape) == [h |-> shape.h, l |-> shape.l, c |-> shape.c, v |-> shape.v,
                 day |-> today, minute |-> NormalOpen]
(* A day's candles, and what _replay_all computes at them                      *)
NextDay ==
    /\ today < MaxDays /\ today' = today + 1
    /\ \E day \in DayShapes :
         LET traded == day[1] # Never
             stock == IF traded THEN Update(rolling.stock, Stamp(day[1])) ELSE rolling.stock
             index == Update(rolling.index, Stamp(day[2]))
         IN  /\ rolling' = [stock |-> stock, index |-> index]
             /\ market' = [bars |-> IF traded THEN Append(market.bars, Stamp(day[1])) ELSE market.bars,
                           bundles |-> IF traded THEN Append(market.bundles, Bundle(stock)) ELSE market.bundles,
                           bench |-> Append(market.bench, Stamp(day[2])),
                           trends |-> Append(market.trends, IndexTrend(index))]
BacktestSpec == BacktestInit /\ [][NextDay]_backtestVars

-----------------------------------------------------------------------------
(* _context: the trailing window, the bundle at its end, and the benchmark's    *)
(* bar of the same place (not of the same day). A return is of 10000.          *)
Return(from, to) == (10000 * (to - from)) \div from
StrengthAt(j, window, bench) ==
    IF j <= Lookback \/ Len(window) <= Lookback THEN Never
    ELSE Return(window[Len(window) - Lookback].c, Last(window).c) - Return(bench[j - Lookback].c, bench[j].c)
RelativeStrengthNext(window, bench, i) == StrengthAt(IF i < Len(bench) THEN i + 1 ELSE i, window, bench)
RelativeStrength(window, bench, i) == StrengthAt(i, window, bench)
WindowCap == Larger(RequiredHistory, WarmUp)
Context(m, i) ==
    LET window == SubSeq(m.bars, Larger(1, i - WindowCap + 1), i)
    IN  [bars |-> window, bundle |-> m.bundles[i], trend |-> m.trends[i],
         rs |-> RelativeStrength(window, m.bench, i),
         prevClose |-> IF Len(window) >= 2 THEN window[Len(window) - 1].c ELSE Never]

(* simulate_trade on the bars after i, the stop first; _close                  *)
Touches(sig, bar) ==
    IF sig.dir = "long" THEN [stop |-> bar.l <= sig.stop, target |-> bar.h >= sig.target]
    ELSE [stop |-> bar.h >= sig.stop, target |-> bar.l <= sig.target]
Profit(sig, price) == IF sig.dir = "long" THEN price - sig.entry ELSE sig.entry - price
Exit(history, i, sig) ==
    LET horizon == SubSeq(history, i + 1, Min({i + MaxHolding, Len(history)}))
        hits == {k \in DOMAIN horizon : Touches(sig, horizon[k]).stop \/ Touches(sig, horizon[k]).target}
        k == Min(hits)
    IN  IF hits = {} THEN [price |-> Last(horizon).c, held |-> Len(horizon), timed |-> TRUE]
        ELSE [price |-> IF Touches(sig, horizon[k]).stop THEN sig.stop ELSE sig.target,
              held |-> k, timed |-> FALSE]
Outcome(sig, x) ==
    IF x.timed THEN "timeout"
    ELSE LET r == Profit(sig, x.price)
         IN  IF r > 0 THEN "win" ELSE IF r < 0 THEN "loss" ELSE "breakeven"
Simulate(history, i, sig) ==
    LET x == Exit(history, i, sig)
    IN  [at |-> i, signal |-> sig, exit |-> x.price, held |-> x.held, outcome |-> Outcome(sig, x)]

(* _run_symbol: one position at a time, the walk resuming at the bar of the exit *)
StepAlways(held) == 1
Skip(held) == Larger(1, held)
Walk(m) ==
    LET from[i \in 1 .. Len(m.bars) + MaxHolding] ==
            IF i >= Len(m.bars) THEN <<>>
            ELSE LET sig == Evaluate(Context(m, i))
                     trade == Simulate(m.bars, i, sig)
                 IN  IF sig = NoSignal THEN from[i + 1] ELSE <<trade>> \o from[i + Skip(trade.held)]
    IN  IF Len(m.bars) <= WindowCap + 1 THEN <<>> ELSE from[WindowCap + 1]
Trades == Range(Walk(market))

(* BacktestResult over the trades in order: R-multiples, equity and drawdown   *)
R(t) == LET risk == Gap(t.signal.entry, t.signal.stop)
        IN  IF risk = 0 THEN 0 ELSE (10000 * Profit(t.signal, t.exit)) \div risk
Result(trades) ==
    LET rs == [i \in DOMAIN trades |-> R(trades[i])]
        equity == [i \in 0 .. Len(trades) |-> Total(SubSeq(rs, 1, i))]
        wins == {i \in DOMAIN trades : rs[i] > 0}
        losses == {i \in DOMAIN trades : rs[i] < 0}
    IN  [total |-> Len(trades), wins |-> Cardinality(wins), losses |-> Cardinality(losses),
         grossWin |-> SumFunctionOnSet(rs, wins), grossLoss |-> -SumFunctionOnSet(rs, losses),
         bad |-> Cardinality({i \in DOMAIN trades : rs[i] < 0 \/ (trades[i].outcome = "timeout" /\ rs[i] <= 0)}),
         held |-> Total(Column(trades, "held")),
         drawdown |-> Max({equity[p[1]] - equity[p[2]] : p \in {q \in (DOMAIN equity) \X (DOMAIN equity) : q[1] <= q[2]}})]

-----------------------------------------------------------------------------
(* What was known on the evening of day d                                      *)
Until(d) ==
    LET n == Cardinality({i \in DOMAIN market.bars : market.bars[i].day <= d})
    IN  [bars |-> SubSeq(market.bars, 1, n), bundles |-> SubSeq(market.bundles, 1, n),
         bench |-> SubSeq(market.bench, 1, d + 1), trends |-> SubSeq(market.trends, 1, d + 1)]
DayOf(i) == market.bars[i].day

(* No trade uses what came after its signal: on that evening the strategy got   *)
(* the same context, and the exit is settled by the bars up to its own.        *)
NoLookAhead ==
    \A t \in Trades :
        /\ Evaluate(Context(Until(DayOf(t.at)), t.at)) = t.signal
        /\ t \in Range(Walk(Until(DayOf(t.at + t.held))))
(* One position at a time.                                                     *)
OneAtATime == \A t, u \in Trades : u.at > t.at => u.at >= t.at + t.held
(* The walk's past is fixed: what a backtest of any earlier evening settled is  *)
(* in today's, unless it still ran.                                            *)
Settled(t) == t.outcome # "timeout" \/ t.held = MaxHolding
PastIsFixed == \A d \in 0 .. today - 1 : \A t \in Range(Walk(Until(d))) : Settled(t) => t \in Trades

(* The scanner's context for a symbol and day (_context_for, _one_series)       *)
LiveStrength(m) ==
    IF Len(m.bars) < Lookback + 1 \/ Len(m.bench) < Lookback + 1 THEN Never
    ELSE Return(m.bars[Len(m.bars) - Lookback].c, Last(m.bars).c)
         - Return(m.bench[Len(m.bench) - Lookback].c, Last(m.bench).c)
LiveContext(m) ==
    LET read == SubSeq(m.bars, Larger(1, Len(m.bars) - LiveHistory + 1), Len(m.bars))
    IN  [bundle |-> Bundle(Replay(read)[Len(read)]), rs |-> LiveStrength(m),
         prevClose |-> IF Len(read) >= 2 THEN read[Len(read) - 1].c ELSE Never]

(* For a symbol without a gap the strategy is shown what the scanner would show *)
(* it on that evening, as long as the scanner reads the whole history: the same *)
(* bundle, relative strength and previous close.                               *)
LiveParity ==
    (\A i \in DOMAIN market.bars : DayOf(i) = i - 1) =>
        \A i \in WindowCap + 1 .. Min({Len(market.bars), LiveHistory}) :
            LET c == Context(market, i)
            IN  [bundle |-> c.bundle, rs |-> c.rs, prevClose |-> c.prevClose] = LiveContext(Until(i - 1))

(* The drawdown a backtest hands to the live registry lies between its net loss *)
(* and its gross loss, and its trades fit in its bars.                         *)
FiguresAgree ==
    LET r == Result(Walk(market))
    IN  /\ r.wins + r.losses <= r.total /\ r.losses <= r.bad
        /\ r.drawdown >= r.grossLoss - r.grossWin /\ r.drawdown <= r.grossLoss
        /\ r.held <= Larger(0, Len(market.bars) - 1)

(* "A green backtest is real evidence about the live edge": all of the above.   *)
HonestReplay == NoLookAhead /\ OneAtATime /\ PastIsFixed /\ LiveParity /\ FiguresAgree
=============================================================================
