------------------------------ MODULE Decision ------------------------------
(* From the market to a decision: alpha requests scan with the operator's      *)
(* allow-list, committee requests scan, pick an opportunity, read the stored   *)
(* configuration and deliberate; meanwhile administrators replace that         *)
(* configuration, backtests replace a strategy's statistics and the market     *)
(* moves. The strategy registry is one object of the process, shared by all.   *)
EXTENDS Committee

CONSTANTS Markets,      \* what a scan can find: [index, contexts]
          Portfolios,    \* the states of the book a committee request may carry
          Payloads,      \* configuration documents an administrator may send
          AllowList,     \* settings.alpha_enabled_strategies; empty means all
          FaultySets,    \* sets of strategies that may raise in one scan
          SilentSets,    \* sets of agents that may raise in one deliberation
          WinRates,      \* win rates (percent) of strategies proven by a backtest
          Backtested     \* bound: the strategies a backtest is run for

IsIndex(ix) ==
    /\ ix.n \in Nat /\ {ix.position, ix.slope} \subseteq Int
    /\ {ix.e21, ix.e50, ix.adx, ix.breadth, ix.atr} \subseteq Int \cup {None}
    /\ IsFiniteSet(ix.events)

(* ContextBuilder makes one context of every listed symbol that has bars. *)
ASSUME MarketsAreData ==
    \A m \in Markets :
        /\ IsIndex(m.index)
        /\ m.contexts \in Seq(Range(m.contexts))
        /\ \A c \in Range(m.contexts) : IsContext(c)
        /\ \A i, j \in DOMAIN m.contexts : m.contexts[i].symbol = m.contexts[j].symbol => i = j
ASSUME PortfoliosAreAmounts ==
    \A pf \in Portfolios :
        {pf.equity, pf.perTrade} \subseteq Nat /\ {pf.heat, pf.maxHeat} \subseteq Int
ASSUME PayloadsAreNumbers ==
    \A c \in Payloads : {c.act, c.strong} \cup Range(c.weights) \subseteq Int
ASSUME RatesAreNumbers == WinRates \subseteq Int

VARIABLES market, enabled, proven, config,
          brief,      \* the committee request waiting for its configuration, or None
          answer      \* the response being delivered: a book, a deliberation, or None
vars == <<market, enabled, proven, config, brief, answer>>

TopN == 20

Init ==
    /\ market \in Markets
    /\ enabled = Keys
    /\ proven = [k \in Keys |-> None]
    /\ config = None /\ brief = None /\ answer = None

(* _select *)
SelectFirst(opportunities, symbol) ==
    LET mine == {i \in DOMAIN opportunities : symbol \in {None, opportunities[i].symbol}}
    IN  IF mine = {} THEN None ELSE opportunities[Min(mine)]

ScanNow(flags, faulty) == Scan(market.index, market.contexts, flags, faulty, proven, <<>>, TopN)

(* AlphaService.scan: the allow-list goes into the shared registry first. *)
Alpha ==
    /\ answer = None
    /\ \E faulty \in FaultySets :
         LET flags == IF AllowList = {} THEN enabled ELSE AllowList \cap Keys
         IN  enabled' = flags /\ answer' = [book |-> ScanNow(flags, faulty)]
    /\ UNCHANGED <<market, proven, config, brief>>

(* CommitteeService.deliberate up to its second await: the registry as it is,  *)
(* the first opportunity or the one of the requested symbol.                   *)
Convene ==
    /\ brief = None /\ answer = None
    /\ \E faulty \in FaultySets :
         LET scanned == ScanNow(enabled, faulty)
             x(o) == CHOOSE c \in Range(market.contexts) : c.symbol = o.symbol
             picked(symbol) == SelectFirst(scanned.opportunities, symbol)
         IN  \E symbol \in {None} \cup {c.symbol : c \in Range(market.contexts)} :
               brief' = IF picked(symbol) = None THEN None
                        ELSE [opp |-> picked(symbol), x |-> x(picked(symbol)),
                              regime |-> scanned.regime, book |-> scanned]
    /\ UNCHANGED <<market, enabled, proven, config, answer>>

(* The rest of it: the configuration stored by now, the caller's portfolio, the *)
(* seven reviews, the CIO.                                                     *)
Decide ==
    /\ brief # None /\ answer = None
    /\ \E silent \in SilentSets, pf \in Portfolios :
         LET b == [opp |-> brief.opp, x |-> brief.x, regime |-> brief.regime, book |-> brief.book,
                   portfolio |-> pf]
         IN  answer' = [verdict |-> Deliberate(b, config, silent), brief |-> b,
                        config |-> config, silent |-> silent]
    /\ brief' = None
    /\ UNCHANGED <<market, enabled, proven, config>>

(* AdminService.update_committee_config: an invalid document changes nothing. *)
UpdateConfig ==
    /\ answer = None
    /\ \E payload \in Payloads : config' = IF ValidConfig(payload) THEN payload ELSE config
    /\ UNCHANGED <<market, enabled, proven, brief, answer>>

(* apply_to_registry after a backtest of one strategy *)
ApplyStats ==
    /\ answer = None
    /\ \E key \in enabled \cap Backtested, rate \in WinRates : proven' = [proven EXCEPT ![key] = rate]
    /\ UNCHANGED <<market, enabled, config, brief, answer>>

Delivered ==
    /\ answer # None /\ answer' = None
    /\ UNCHANGED <<market, enabled, proven, config, brief>>

MarketMoves ==
    /\ brief = None /\ answer = None
    /\ market' \in Markets
    /\ UNCHANGED <<enabled, proven, config, brief, answer>>

Next == Alpha \/ Convene \/ Decide \/ UpdateConfig \/ ApplyStats \/ Delivered \/ MarketMoves
Spec == Init /\ [][Next]_vars

-----------------------------------------------------------------------------
Deliberated == answer # None /\ "verdict" \in DOMAIN answer
Books == (IF answer # None /\ "book" \in DOMAIN answer THEN {answer.book} ELSE {})
         \cup (IF brief # None THEN {brief.book} ELSE {})

(* The stop is on the losing side of the entry, or on it: the breakout of an      *)
(* opening range without height, before there is an ATR, is stopped where it      *)
(* enters.                                                                        *)
Protected(s) ==
    \/ s.dir = Long /\ s.stop < s.entry
    \/ s.dir = Short /\ s.stop > s.entry
    \/ s.key = "orb" /\ s.stop = s.entry

(* A book is coherent: one idea per symbol, no two ideas of one sector and      *)
(* direction, sector and risk budgets kept, best first, all above the bar, and  *)
(* whatever the strategy every idea protected by its stop; in a hostile regime  *)
(* it is empty and nothing reaches the committee.                               *)
BookCoherent ==
    /\ brief # None => ~IsHostile(brief.regime)
    /\ \A b \in Books :
        LET o == b.opportunities
        IN  /\ IsHostile(b.regime) => o = <<>>
            /\ Len(o) <= Least(MaxPositions, RiskSlots)
            /\ \A i, j \in DOMAIN o : i < j =>
                 /\ o[i].symbol # o[j].symbol
                 /\ ~(o[i].sector = o[j].sector /\ o[i].sector # None /\ o[i].signal.dir = o[j].signal.dir)
                 /\ o[i].card.composite >= o[j].card.composite
            /\ \A i \in DOMAIN o :
                 /\ o[i].card.composite >= 5500
                 /\ Protected(o[i].signal)
                 /\ o[i].sector # None =>
                      Cardinality({j \in DOMAIN o : o[j].sector = o[i].sector}) <= MaxPerSector
            /\ o # <<>> => o[1].card.composite >= 6000

(* A breached portfolio limit rejects the trade with nothing sized, whatever the *)
(* other agents, their weights and the thresholds say - as long as the risk      *)
(* manager is seated and does not raise.                                         *)
BreakerHolds ==
    Deliberated /\ Breached(answer.brief.portfolio)
        /\ "risk" \notin answer.silent /\ (answer.config = None \/ "risk" \notin answer.config.disabled)
    => answer.verdict.recommendation = "reject" /\ answer.verdict.size = [qty |-> 0, riskPct |-> 0]

(* Losing the stop costs no more than one and a half per-trade risks, and no more *)
(* than the heat that is left (capital in 1/120 rupee, rounding allowed for); an  *)
(* idea whose stop is its entry is given no size at all.                          *)
SizedWithinBudget ==
    Deliberated =>
        LET pf == answer.brief.portfolio
            budget == Most(0, Least((3 * pf.perTrade) \div 2, pf.maxHeat - pf.heat))
            qty == answer.verdict.size.qty
            risk == Risk(answer.brief.opp.signal)
        IN  /\ qty * risk <= (((pf.equity \div 100) * budget) \div 100) * 120
            /\ risk = 0 => qty = 0

(* An agent that breaks cannot create an order: when those that raised would   *)
(* not have objected, the committee without the failure orders as well.        *)
SilenceCreatesNoOrder ==
    Deliberated /\ answer.verdict.recommendation \in Orders
        /\ (\A r \in answer.silent : LET report == Review(r, answer.brief)
                                        IN Vote[report.stance] >= 0 /\ ~report.veto)
    => Deliberate(answer.brief, answer.config, {}).recommendation \in Orders

=============================================================================
