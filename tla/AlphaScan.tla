----------------------------- MODULE AlphaScan -----------------------------
(* One scan of the Alpha Engine, over contexts that are already built: the     *)
(* market regime, the candidates of every enabled and compatible strategy,     *)
(* their eleven scores, the ranked book with its NO-TRADE verdict, and the     *)
(* portfolio constraints that prune it. Scores and composites are in           *)
(* hundredths, weights in tenths, confidences of a card in ten-thousandths.    *)
EXTENDS Signals, SequencesExt

CONSTANTS MaxPositions,   \* PortfolioConstraints.max_positions
          MaxPerSector,   \* PortfolioConstraints.max_per_sector
          RiskSlots       \* max_total_risk_pct over per_trade_risk_pct

(* PortfolioConstraints admits at least one position of a sector. *)
ASSUME Constraints == {MaxPositions, RiskSlots} \subseteq Nat /\ MaxPerSector \in Nat \ {0}

Hostile == {"global_risk_off", "gap_down_panic"}

-----------------------------------------------------------------------------
(* RegimeEngine: the primary regime of the index, its trend and the confidence *)
Primary(ix) ==
    LET known == None \notin {ix.e21, ix.e50}
        up == known /\ ix.e21 > ix.e50 /\ ix.close > ix.e50
        down == known /\ ix.e21 < ix.e50 /\ ix.close < ix.e50
        adx == IF ix.adx = None THEN 0 ELSE ix.adx
        breadth == IF ix.breadth = None THEN 100 ELSE ix.breadth
        is(p, t, c) == [primary |-> p, trend |-> t, confidence |-> c]
        sure == Least(950, 550 + 25 * (adx - 22))
    IN  CASE ix.n < 50 -> is("range", Flat, 300)
          [] ix.n >= 50 /\ adx >= 22 /\ up -> is("trending_bull", Long, sure)
          [] ix.n >= 50 /\ adx >= 22 /\ down -> is("trending_bear", Short, sure)
          [] OTHER ->
               IF ix.position <= 35 /\ ix.slope >= 0 /\ breadth >= 100 THEN is("accumulation", Flat, 500)
               ELSE IF ix.position >= 65 /\ ix.slope <= 0 /\ breadth < 100 THEN is("distribution", Flat, 500)
               ELSE is("range", IF up THEN Long ELSE IF down THEN Short ELSE Flat, 450)

(* Volatility, calendar and gap overlays; risk-off is inferred from the gap unless it is told. *)
OverlaysOf(ix) ==
    LET gap == PctChange(ix.prevClose, ix.dayOpen)
        gapKnown == Positive(ix.prevClose) /\ ix.dayOpen # None
        when(cond, r) == IF cond THEN {r} ELSE {}
    IN  when(ix.atr # None /\ 1000 * ix.atr >= 22 * ix.close, "high_volatility")
        \cup when(ix.atr # None /\ 1000 * ix.atr <= 8 * ix.close, "low_volatility")
        \cup ix.events
        \cup when(gapKnown /\ gap >= 75, "gap_up_trend")
        \cup when(gapKnown /\ gap <= -150, "gap_down_panic")
        \cup when(ix.riskOff = TRUE \/ (ix.riskOff = None /\ gapKnown /\ gap <= -100), "global_risk_off")

Detect(ix) ==
    LET p == Primary(ix)
        o == OverlaysOf(ix)
    IN  [primary |-> p.primary, trend |-> p.trend, confidence |-> p.confidence, overlays |-> o,
         regimes |-> {p.primary} \cup o, adx |-> IF ix.n < 50 \/ ix.adx = None THEN 0 ELSE ix.adx]
IsHostile(regime) == regime.regimes \cap Hostile # {}

-----------------------------------------------------------------------------
(* ScoringEngine: one operator per dimension, each between 0 and 10000. *)
Score(n) == Clamp(n, 0, 10000)
Aligned(dir, regime) == dir # Flat /\ dir = regime.trend
Counter(dir, regime) == {dir, regime.trend} = {Long, Short}
Turnover(x) == IF x.n5 # None THEN x.close5 * x.vol5 ELSE x.close1 * x.vol1

TechnicalScore(s) == Score(4000 + 2 * s.confidence + Least(3000, 12 * RiskReward(s)))
VolumeScore(s, x) ==
    LET bars == IF x.n5 # None THEN x.n5 ELSE x.n1
        mean == IF x.n5 # None THEN x.mean5 ELSE x.mean1
        last == IF x.n5 # None THEN x.vol5 ELSE x.vol1
    IN  IF s.surge # None THEN Score(4500 + 20 * (s.surge - 100))
        ELSE IF bars < 21 \/ mean = 0 THEN 5000
        ELSE Score(1500 + (2500 * last) \div mean)
TrendScore(s, regime) ==
    LET drift == Least(1500, (100 * regime.adx) \div 3)
    IN  IF Aligned(s.dir, regime) THEN Score(7500 + drift)
        ELSE IF Counter(s.dir, regime) THEN Score(3500 - drift)
        ELSE 5500
VolatilityScore(regime) ==
    IF "high_volatility" \in regime.regimes THEN 4000
    ELSE IF "low_volatility" \in regime.regimes THEN 6500 ELSE 6000
(* Without a median the turnover counts in rupees; the unit of Turnover is 1/120.  *)
AbsoluteLiquidity(rupees) ==
    IF rupees >= 500000000 THEN 8500 ELSE IF rupees >= 100000000 THEN 7000
    ELSE IF rupees >= 20000000 THEN 5500 ELSE 3500
LiquidityScore(x, median) ==
    IF median > 0 THEN Score(4000 + Least(6000, (3000 * (Turnover(x) \div 1000)) \div Most(1, median \div 1000)))
    ELSE AbsoluteLiquidity(Turnover(x) \div 120)
SectorScore(x) == IF x.strength = None THEN 5500 ELSE Score(5500 + 2 * x.strength)
NewsScore(s, x) ==
    IF x.news = None THEN 5500 ELSE Score(5500 + 40 * (IF s.dir = Long THEN x.news ELSE -x.news))
OptionsScore(s, x) ==
    IF x.pcr = None THEN 5500
    ELSE Score(4500 + 30 * (IF s.dir = Long THEN x.pcr - 100 ELSE 100 - x.pcr))
RegimeScore(regime, winRate) ==
    LET base == 4500 + 4 * regime.confidence
    IN  IF IsHostile(regime) THEN 2000
        ELSE Score(IF winRate = None THEN base ELSE (6 * base + 4 * 100 * winRate) \div 10)
RiskScore(s) ==
    LET width == (10000 * Risk(s)) \div s.entry
        base == 5000 + Least(3000, 12 * RiskReward(s))
    IN  IF Risk(s) = 0 \/ s.targets = <<>> THEN 2000
        ELSE Score(base - (IF width > 600 THEN Least(2500, 4 * (width - 600)) ELSE 0))

(* The scorecard of one signal; the impact on the portfolio is a constant 100. *)
Card(s, x, regime, winRate, median) ==
    LET technical == TechnicalScore(s)
        volume == VolumeScore(s, x)
        liquidity == LiquidityScore(x, median)
        total == 16 * technical + 10 * volume + 14 * TrendScore(s, regime) + 8 * VolatilityScore(regime)
                 + 9 * liquidity + 7 * SectorScore(x) + 6 * NewsScore(s, x) + 6 * OptionsScore(s, x)
                 + 15 * RegimeScore(regime, winRate) + 14 * RiskScore(s) + 10 * 10000
        composite == total \div 115
        blend == (10 * s.confidence + composite) \div 2
    IN  [technical |-> technical, volume |-> volume, liquidity |-> liquidity, composite |-> composite,
         confidence |-> Clamp(IF IsHostile(regime) THEN blend \div 2 ELSE blend, 0, 10000)]

-----------------------------------------------------------------------------
(* A stable sort, largest first, as positions: one by one, each key goes behind    *)
(* those that are not below it.                                                   *)
Behind(order, keys, k) ==
    InsertAt(order, Cardinality({i \in DOMAIN order : keys[order[i]] >= keys[k]}) + 1, k)
Order(keys) ==
    LET sorted[k \in 0 .. Len(keys)] == IF k = 0 THEN <<>> ELSE Behind(sorted[k - 1], keys, k)
    IN  sorted[Len(keys)]

(* AlphaScanner._evaluate_universe: every context against every enabled strategy  *)
(* that the regime permits; one that raises is skipped.                           *)
MedianTurnover(contexts) ==
    LET turnovers == [i \in DOMAIN contexts |-> Turnover(contexts[i])]
        n == Len(contexts)
        at(k) == turnovers[Order(turnovers)[k]]
    IN  IF n % 2 = 1 THEN at(n \div 2 + 1) ELSE (at(n \div 2) + at(n \div 2 + 1)) \div 2

CandidatesOf(x, regime, enabled, raising, proven, median) ==
    LET fires(key) == IF key \in enabled \ raising /\ IsCompatible(key, regime.regimes)
                      THEN Evaluate(key, x, regime.trend) ELSE {}
        opportunity(s) == [symbol |-> x.symbol, sector |-> x.sector, signal |-> s,
                           card |-> Card(s, x, regime, proven[s.key], median)]
    IN  FlattenSeq([k \in DOMAIN Library |->
            SetToSeq({opportunity(s) : s \in fires(Library[k])})])

Candidates(contexts, regime, enabled, raising, proven) ==
    FlattenSeq([i \in DOMAIN contexts |->
        CandidatesOf(contexts[i], regime, enabled, raising, proven, MedianTurnover(contexts))])

(* rank_opportunities: the quality bar, a stable sort by composite, and the verdict; *)
(* those below the bar are the last of the order.                                   *)
RankedAsFound(candidates) == SelectSeq(candidates, LAMBDA c : c.card.composite >= 5500)
Ranked(candidates) ==
    LET composites == [i \in DOMAIN candidates |-> candidates[i].card.composite]
        order == Order(composites)
    IN  [k \in {k \in DOMAIN order : composites[order[k]] >= 5500} |-> candidates[order[k]]]

NoTrade(ranked, regime) ==
    IsHostile(regime) \/ ranked = <<>> \/ ranked[1].card.composite < 6000

(* PortfolioManager.apply: greedy from the best; symbols of one sector correlate. *)
Accepted(ranked, held) ==
    LET sectorOf(symbol) ==
            LET mine == {i \in DOMAIN ranked : ranked[i].symbol = symbol}
            IN  IF mine = {} THEN None ELSE ranked[Max(mine)].sector
        conflict(o, h) == \/ h.symbol = o.symbol
                          \/ /\ h.dir = o.signal.dir
                             /\ sectorOf(h.symbol) # None /\ sectorOf(h.symbol) = sectorOf(o.symbol)
        sectorCount(o, acc) ==
            Cardinality({i \in DOMAIN held : held[i].sector = o.sector})
            + Cardinality({i \in DOMAIN acc : acc[i].sector = o.sector})
        fits(o, acc) ==
            /\ Len(acc) < MaxPositions /\ Len(acc) + 1 <= RiskSlots
            /\ o.sector = None \/ sectorCount(o, acc) < MaxPerSector
            /\ \A i \in DOMAIN held : ~conflict(o, held[i])
            /\ \A i \in DOMAIN acc : ~conflict(o, [symbol |-> acc[i].symbol, dir |-> acc[i].signal.dir])
        taken[k \in 0 .. Len(ranked)] ==
            IF k = 0 THEN <<>>
            ELSE LET acc == taken[k - 1]
                 IN  IF fits(ranked[k], acc) THEN Append(acc, ranked[k]) ELSE acc
    IN  taken[Len(ranked)]

(* AlphaScanner.scan: the book; a rank is a place in it, rejected counts what was cut. *)
Scan(ix, contexts, enabled, raising, proven, held, top) ==
    LET regime == Detect(ix)
        candidates == Candidates(contexts, regime, enabled, raising, proven)
        ranked == Ranked(candidates)
        final == IF NoTrade(ranked, regime) THEN <<>> ELSE Accepted(ranked, held)
    IN  [regime |-> regime, noTrade |-> final = <<>>,
         opportunities |-> SubSeq(final, 1, Least(top, Len(final))),
         rejected |-> Len(candidates) - Len(IF NoTrade(ranked, regime) THEN ranked ELSE final)]

(* The weakest of five dimensions below 50, after a hostile regime, names the biggest risk. *)
BiggestRisk(o, x, regime) ==
    LET score == [liquidity |-> o.card.liquidity, news |-> NewsScore(o.signal, x),
                  volatility |-> VolatilityScore(regime), trend |-> TrendScore(o.signal, regime),
                  options |-> OptionsScore(o.signal, x)]
        low == {d \in DOMAIN score : score[d] < 5000 /\ \A e \in DOMAIN score : score[d] <= score[e]}
    IN  IF IsHostile(regime) THEN "regime"
        ELSE IF low = {} THEN "execution" ELSE CHOOSE d \in low : TRUE
=============================================================================
