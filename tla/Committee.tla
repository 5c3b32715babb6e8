----------------------------- MODULE Committee -----------------------------
(* The AI investment committee: seven agents review one opportunity of a book, *)
(* each giving a stance, a confidence and possibly a veto, and the Chief       *)
(* Investment Officer turns the reports into a recommendation and a size.      *)
(* Evidence weights and role weights are in tenths, confidences in             *)
(* thousandths, thresholds, risk and portfolio percentages in hundredths.      *)
(* A brief is [opp, x, regime, book, portfolio]; the indicators of the context *)
(* x are those of its daily bars, or of its 5-minute bars when it has none.    *)
EXTENDS AlphaScan

W(cond, weight) == IF cond THEN weight ELSE 0

(* Signed vote in halves: strong_support 2 ... oppose -2 *)
Vote == [strong_support |-> 2, support |-> 1, neutral |-> 0, concern |-> -1, oppose |-> -2]

StanceOf(net) ==
    CASE net >= 15 -> "strong_support" [] net \in 5..14 -> "support"
      [] net <= -15 -> "oppose" [] net \in -14..-5 -> "concern" [] OTHER -> "neutral"

(* Sizing metrics a report may carry; None stands for a metric that is absent. *)
Report(stance, confidence) ==
    [stance |-> stance, confidence |-> Clamp(confidence, 0, 1000), veto |-> FALSE,
     qty |-> None, riskPct |-> None, maxRisk |-> None]

Roles == <<"strategist", "technical", "options", "news", "risk", "devil", "pm">>
RoleSet == {Roles[i] : i \in DOMAIN Roles}

-----------------------------------------------------------------------------
Strategist(b) ==
    LET dir == b.opp.signal.dir
        rs == b.x.strength
        aligned == Aligned(dir, b.regime)
        hostile == IsHostile(b.regime)
        net == W(~hostile /\ aligned, 15) + W(b.regime.confidence >= 600, 5)
               + W(rs # None /\ dir = Long /\ rs >= 200, 10)
               - W(hostile, 20) - W(~hostile /\ ~aligned /\ b.regime.trend # Flat, 10)
               - 2 * Cardinality(b.regime.overlays \ Hostile)
               - W(rs # None /\ dir = Long /\ rs <= -200, 10)
    IN  Report(StanceOf(net), Least(950, 400 + 15 * Abs(net) + b.regime.confidence \div 5))

TechnicalAnalyst(b) ==
    LET long == b.opp.signal.dir = Long
        rr == RiskReward(b.opp.signal)
        emas == None \notin {b.x.e21, b.x.e50}
        agrees == long = (b.x.e21 > b.x.e50)
        rsi(lo, hi) == b.x.rsi1 # None /\ long /\ lo <= b.x.rsi1 /\ b.x.rsi1 < hi
        net == 8 + W(rr >= 200, 12) + W(b.x.adx1 # None /\ b.x.adx1 >= 25, 8) + W(rsi(50, 70), 6)
               + W(emas /\ agrees, 7) + W(b.opp.card.technical >= 6500, 4) + W(b.opp.card.volume >= 6500, 6)
               - W(rr < 120, 10) - W(rsi(75, 101), 10) - W(emas /\ ~agrees, 8)
               - W(b.opp.card.volume < 4500, 6)
    IN  Report(StanceOf(net), Least(950, 450 + 12 * Abs(net)))

(* A high put-call ratio supports longs, a low one shorts; max pain only matters to a long. *)
OptionsAnalyst(b) ==
    LET x == b.x
        long == b.opp.signal.dir = Long
        entry == b.opp.signal.entry
        drift(sign) == x.maxPain # None /\ long /\ sign * 200 * (x.maxPain - entry) > 3 * entry
        iv(test(_)) == x.ivPercentile # None /\ test(x.ivPercentile)
        net == W(IF long THEN x.pcr >= 130 ELSE x.pcr <= 70, 10)
               - W(IF long THEN x.pcr <= 70 ELSE x.pcr >= 130, 10)
               + W(drift(1), 6) - W(drift(-1), 8)
               + W(iv(LAMBDA p : p <= 20), 5) - W(iv(LAMBDA p : p >= 80), 7)
    IN  IF x.pcr = None THEN Report("neutral", 300)
        ELSE Report(StanceOf(net), Least(900, 400 + 15 * Abs(net)))

NewsAnalyst(b) ==
    LET score == b.x.news
        directional == IF b.opp.signal.dir = Long THEN score ELSE -score
        events == b.regime.regimes \cap {"rbi_day", "budget_day", "election_event", "expiry_day"}
        net == (IF score = None THEN 0 ELSE W(directional >= 30, 10) - W(directional <= -30, 12))
               - 6 * Cardinality(events)
    IN  IF score = None /\ events = {} THEN Report("neutral", 350)
        ELSE Report(StanceOf(net), Least(850, 450 + 15 * Abs(net)))

(* The portfolio circuit breakers, in the order they are tried. *)
Breached(pf) ==
    \/ pf.drawdown >= pf.maxDrawdown
    \/ pf.dailyLoss >= pf.maxDailyLoss
    \/ pf.heat + pf.perTrade > pf.maxHeat

RiskManager(b) ==
    LET s == b.opp.signal
        width == (10000 * Risk(s)) \div s.entry
        rr == RiskReward(s)
        exposure == Cardinality({i \in DOMAIN b.portfolio.open :
                                    b.x.sector # None /\ b.portfolio.open[i].sector = b.x.sector})
        net == W(width <= 300, 6) + W(rr >= 200, 6)
               - W(width > 600, 12) - W(rr < 150, 8) - W(exposure >= 2, 10)
    IN  IF Breached(b.portfolio)
        THEN [Report("oppose", 1000) EXCEPT !.veto = TRUE, !.riskPct = 0]
        ELSE [Report(StanceOf(net), Least(900, 500 + 12 * Abs(net))) EXCEPT
                 !.maxRisk = b.portfolio.perTrade]

(* It only ever objects, or finds nothing to object to. *)
DevilsAdvocate(b) ==
    LET dir == b.opp.signal.dir
        rsi == b.x.rsi1
        stretched == rsi # None /\ ((dir = Long /\ rsi >= 72) \/ (dir = Short /\ rsi <= 28))
        weights == <<W(Counter(dir, b.regime), 15), W(stretched, 10), W(b.opp.card.liquidity < 5000, 10),
                        W(RiskReward(b.opp.signal) < 150, 8), W(b.opp.card.composite < 6200, 7),
                        W(b.regime.overlays # {}, 6), W(b.opp.card.volume < 4500, 7)>>
        against == weights[1] + weights[2] + weights[3] + weights[4] + weights[5] + weights[6] + weights[7]
        objections == Cardinality({i \in DOMAIN weights : weights[i] > 0})
    IN  IF objections = 0 THEN Report("neutral", 500)
        ELSE Report(IF against >= 25 THEN "oppose" ELSE "concern", Least(900, 500 + 100 * objections))

(* Sized by the card's confidence, between a half and one and a half of the     *)
(* per-trade risk, within the heat that is left; equity is in whole rupees.     *)
TargetUncapped(pf, conviction) == (pf.perTrade * (5000 + conviction)) \div 10000
Target(pf, conviction) ==
    Most(0, Least((pf.perTrade * (5000 + conviction)) \div 10000, pf.maxHeat - pf.heat))

PortfolioManager(b) ==
    LET pf == b.portfolio
        conviction == b.opp.card.confidence
        headroom == pf.maxHeat - pf.heat
        target == Target(pf, conviction)
        capital == (((pf.equity \div 100) * target) \div 100) * 120
        qty == IF Risk(b.opp.signal) > 0 THEN capital \div Risk(b.opp.signal) ELSE 0
        full == conviction >= 6000 /\ target >= pf.perTrade
    IN  IF 2 * headroom < pf.perTrade \/ qty <= 0
        THEN [Report("oppose", 700) EXCEPT !.qty = 0, !.riskPct = 0]
        ELSE [Report(IF full THEN "strong_support" ELSE "support",
                     Least(900, 550 + (3 * conviction) \div 100)) EXCEPT
                 !.qty = qty, !.riskPct = target]

-----------------------------------------------------------------------------
Review(role, b) ==
    CASE role = "strategist" -> Strategist(b) [] role = "technical" -> TechnicalAnalyst(b)
      [] role = "options" -> OptionsAnalyst(b) [] role = "news" -> NewsAnalyst(b)
      [] role = "risk" -> RiskManager(b) [] role = "devil" -> DevilsAdvocate(b)
      [] role = "pm" -> PortfolioManager(b)

(* An agent that raises abstains: neutral, without confidence, without a veto. *)
RunAgent(role, b, raising) == IF role \in raising THEN Report("neutral", 0) ELSE Review(role, b)

(* The configuration document: what an administrator may enable, weigh and set. *)
(* Of a role it names twice, "disabled" and "weights" hold the last entry, the   *)
(* one that counts, and "twice" has the roles an earlier entry enables.          *)
DefaultConfig ==
    [weights |-> [strategist |-> 13, technical |-> 14, options |-> 8, news |-> 7, risk |-> 15, devil |-> 12, pm |-> 11],
     disabled |-> {}, twice |-> {}, act |-> 35, strong |-> 60]

ValidConfig(c) ==
    /\ DOMAIN c.weights \subseteq RoleSet /\ DOMAIN c.weights # {}
    /\ \A r \in DOMAIN c.weights : Between(0, c.weights[r], 50)
    /\ (DOMAIN c.weights \ c.disabled) \cup c.twice # {}
    /\ Between(1, c.act, 99) /\ Between(1, c.strong, 99) /\ c.act < c.strong

(* build_committee_from_config: a role the document leaves out keeps its default. *)
Seated(config) ==
    LET c == IF config = None THEN DefaultConfig ELSE config
    IN  [weights |-> [r \in RoleSet |-> IF r \in DOMAIN c.weights THEN c.weights[r]
                                    ELSE DefaultConfig.weights[r]],
         agents |-> RoleSet \ c.disabled, act |-> c.act, strong |-> c.strong]

(* The sum of f over the roles, in their order *)
Total(f) ==
    LET sum[i \in 0 .. Len(Roles)] == IF i = 0 THEN 0 ELSE sum[i - 1] + f[Roles[i]]
    IN  sum[Len(Roles)]
ConsensusOfSpeakers(reports, seated) ==
    LET speaks(r) == r \in seated.agents /\ reports[r].confidence > 0
    IN  [vote |-> Total([r \in RoleSet |->
                 W(speaks(r), Vote[reports[r].stance] * reports[r].confidence * seated.weights[r])]),
         weight |-> Total([r \in RoleSet |-> W(speaks(r), seated.weights[r])])]

Consensus(reports, seated) ==
    [vote |-> Total([r \in RoleSet |->
         W(r \in seated.agents, Vote[reports[r].stance] * reports[r].confidence * seated.weights[r])]),
     weight |-> Total([r \in RoleSet |-> W(r \in seated.agents, seated.weights[r])])]

(* The ladder compares the weighted vote with act and strong. *)
Recommendation(reports, seated, dir) ==
    LET c == Consensus(reports, seated)
        reaches(threshold) == c.weight > 0 /\ c.vote >= 20 * threshold * c.weight
    IN  IF (\E r \in DOMAIN reports : reports[r].veto)
           \/ (c.weight > 0 /\ c.vote <= -20 * seated.act * c.weight)
        THEN "reject"
        ELSE IF reaches(seated.strong) THEN IF dir = Long THEN "strong_buy" ELSE "strong_sell"
        ELSE IF reaches(seated.act) THEN IF dir = Long THEN "buy" ELSE "sell"
        ELSE "hold"

Orders == {"strong_buy", "buy", "strong_sell", "sell"}

(* _position: the portfolio manager's size; the risk manager caps its percentage. *)
SizeKept(rec, reports) ==
    [qty |-> IF "pm" \in DOMAIN reports /\ reports["pm"].qty # None THEN reports["pm"].qty ELSE 0,
     riskPct |-> 0]

Size(rec, reports) ==
    LET metric(role, field) == IF role \in DOMAIN reports /\ reports[role][field] # None
                               THEN reports[role][field] ELSE 0
        riskPct == metric("pm", "riskPct")
        cap == IF "risk" \in DOMAIN reports /\ reports["risk"].maxRisk # None
               THEN reports["risk"].maxRisk ELSE riskPct
    IN  IF rec = "reject" \/ "pm" \notin DOMAIN reports THEN [qty |-> 0, riskPct |-> 0]
        ELSE [qty |-> metric("pm", "qty"), riskPct |-> Least(riskPct, cap)]

Alternatives(b) ==
    LET others == SelectSeq(b.book.opportunities, LAMBDA o : o.symbol # b.opp.symbol)
    IN  SubSeq(others, 1, Least(5, Len(others)))

Deliberate(b, config, raising) ==
    LET seated == Seated(config)
        reports == [r \in seated.agents |-> RunAgent(r, b, raising)]
        rec == Recommendation(reports, seated, b.opp.signal.dir)
    IN  [symbol |-> b.opp.symbol, recommendation |-> rec, consensus |-> Consensus(reports, seated),
         vetoed |-> \E r \in DOMAIN reports : reports[r].veto, size |-> Size(rec, reports),
         alternatives |-> Alternatives(b)]
=============================================================================
