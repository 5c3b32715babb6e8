----------------------------- MODULE Validation -----------------------------
(* The validation of the strategy library: the trades of each backtest net of  *)
(* the costs of a round trip, in folds along time, and the strategies that      *)
(* still stand out once it is counted how many were tried.                     *)
(*                                                                             *)
(* The p-value of a series (one less the probabilistic Sharpe ratio) is         *)
(* numerics: PValue, in thousandths.  An R is counted in 10000ths.             *)
EXTENDS Integers, Sequences, FiniteSets, FiniteSetsExt, SequencesExt

CONSTANTS Suite,        \* the enabled strategies, in the registry's order
          Outcomes,     \* what a trade can be: [entry, risk, profit, exit]
          PValue(_),    \* of a series of net Rs
          Significance, \* alpha, in thousandths
          FoldCount, Lakhs,  \* the reference notional, in lakhs of rupees
          Requested,    \* segments named by the callers
          MaxResults    \* bound: trades in all

ASSUME ValidationConstants ==
    /\ Suite \in Seq(Range(Suite)) /\ Len(Suite) \in 1 .. 60
    /\ Outcomes \subseteq [entry : Nat, risk : Nat, profit : Int, exit : Int]
    /\ Significance \in 0 .. 999 /\ FoldCount \in Nat \ {0} /\ Lakhs \in Nat \ {0}

VARIABLES backtests,    \* by place in Suite: its trades, symbol after symbol
          verdict       \* the ValidationRun stored last, or Unvalidated
validationVars == <<backtests, verdict>>

Tried == DOMAIN Suite
Unvalidated == [segment |-> "none"]
ValidationInit == backtests = [s \in Tried |-> <<>>] /\ verdict = Unvalidated
-----------------------------------------------------------------------------
(* IndianCostModel: by segment the exchange's fee, the transaction tax of a     *)
(* purchase and of a sale and the stamp duty, in paise per lakh                *)
Rates == [
    equity_delivery |-> [exchange |-> 297, buyTax |-> 10000, sellTax |-> 10000, stamp |-> 1500],
    equity_intraday |-> [exchange |-> 297, buyTax |-> 0, sellTax |-> 2500, stamp |-> 300],
    futures         |-> [exchange |-> 173, buyTax |-> 0, sellTax |-> 2000, stamp |-> 200],
    options         |-> [exchange |-> 3503, buyTax |-> 0, sellTax |-> 10000, stamp |-> 300]]
Known(segment) == IF segment \in DOMAIN Rates THEN segment ELSE "equity_intraday"
Brokerage(segment) == IF segment = "equity_delivery" THEN 0 ELSE Min({2000, 3000 * Lakhs})
Charge(segment, side) ==
    LET r == Rates[segment]
        fees == Brokerage(segment) + (r.exchange + 10) * Lakhs
        tax == IF side = "buy" THEN r.buyTax + r.stamp ELSE r.sellTax
    IN  fees + (18 * fees) \div 100 + tax * Lakhs

(* roundtrip_cost_bps, in thousandths: both sides' charges and slippage twice,  *)
(* half of a spread of two basis points                                        *)
RoundTrip(segment) == (Charge(segment, "buy") + Charge(segment, "sell")) \div Lakhs + 2 * 1000

(* cost_in_r, net_r_series                                                     *)
GrossR(t) == IF t.risk = 0 THEN 0 ELSE (10000 * t.profit) \div t.risk
CostR(t, bps) == IF t.risk = 0 THEN 0 ELSE (bps * t.entry) \div (1000 * t.risk)
NetR(t, bps) == GrossR(t) - CostR(t, bps)

(* sorted(range(n), key): the rank of a place, and the places in their order    *)
UpTo(keys, i) == {j \in DOMAIN keys : keys[j] < keys[i] \/ (keys[j] = keys[i] /\ j <= i)}
Rank(keys, i) == Cardinality(UpTo(keys, i))
Ordered(keys) == [k \in DOMAIN keys |-> CHOOSE i \in DOMAIN keys : Rank(keys, i) = k]

(* walk_forward: the trades by their exit, and the folds, the last of which     *)
(* takes the remainder                                                         *)
ByExit(trades) ==
    LET order == Ordered([i \in DOMAIN trades |-> trades[i].exit])
    IN  [i \in DOMAIN trades |-> trades[order[i]]]
FoldsOf(trades) ==
    LET n == Len(trades)
        size == n \div FoldCount
        end(k) == IF k = FoldCount THEN n ELSE k * size
    IN  IF n < FoldCount THEN <<>>
        ELSE [k \in 1 .. FoldCount |-> SubSeq(trades, (k - 1) * size + 1, end(k))]
SumOf(series) == SumFunction(series)
WalkForward(trades, bps) ==
    LET ordered == ByExit(trades)
        net == [i \in DOMAIN ordered |-> NetR(ordered[i], bps)]
        folds == FoldsOf(ordered)
    IN  [net |-> net, folds |-> folds,
         gross |-> SumOf([i \in DOMAIN ordered |-> GrossR(ordered[i])]),
         positive |-> Cardinality({k \in DOMAIN folds :
                          SumOf([i \in DOMAIN folds[k] |-> NetR(folds[k][i], bps)]) > 0})]

(* benjamini_hochberg: the largest rank whose p-value lies under its share of   *)
(* alpha, and the q-values, from the last rank down (in 60ths of a thousandth,  *)
(* rounded down)                                                               *)
Under(p, t) == p[t] * Len(p) <= Rank(p, t) * Significance
(* Mutant: the walk up the ranks stops at the first that fails.                *)
RejectedUntilFailure(p) == {s \in DOMAIN p : \A t \in UpTo(p, s) : Under(p, t)}
Rejected(p) == {s \in DOMAIN p : \E t \in DOMAIN p : Rank(p, s) <= Rank(p, t) /\ Under(p, t)}
QValue(p, s) ==
    Min({60000} \cup {(60 * p[t] * Len(p)) \div Rank(p, t) :
                      t \in {u \in DOMAIN p : Rank(p, s) <= Rank(p, u)}})
(* bonferroni *)
RejectedByBonferroni(p) == {s \in DOMAIN p : p[s] * Len(p) <= Significance}

(* Another trade is in what the backtester finds                               *)
TradeFound(s) ==
    /\ SumOf([i \in Tried |-> Len(backtests[i])]) < MaxResults
    /\ \E t \in Outcomes : backtests' = [backtests EXCEPT ![s] = Append(@, t)]
    /\ UNCHANGED verdict

(* ValidationService.run                                                       *)
Validate(requested) ==
    LET bps == RoundTrip(Known(requested))
        reports == [s \in Tried |-> WalkForward(backtests[s], bps)]
        p == [s \in Tried |-> IF Len(backtests[s]) < 2 THEN 1000 ELSE PValue(reports[s].net)]
    IN  /\ verdict' = [segment |-> Known(requested), reports |-> reports, p |-> p,
                       q |-> [s \in Tried |-> QValue(p, s)], survivors |-> Rejected(p)]
        /\ UNCHANGED backtests

ValidationNext == (\E s \in Tried : TradeFound(s)) \/ (\E r \in Requested : Validate(r))
ValidationSpec == ValidationInit /\ [][ValidationNext]_validationVars
-----------------------------------------------------------------------------
(* partition.py: a boundary out of sample (the fraction in percent, rounded     *)
(* half to even) and the rolling windows, as [train, test] of indices          *)
RoundHalfEven(n) ==
    LET low == n \div 100
    IN  IF n % 100 > 50 \/ (n % 100 = 50 /\ low % 2 = 1) THEN low + 1 ELSE low
OosSplit(n, percent) ==
    LET kept == 100 - Min({90, Max({5, percent})})
        cut == IF n >= 2 THEN Max({1, Min({n - 1, RoundHalfEven(n * kept)})}) ELSE n
    IN  [train |-> 0 .. cut - 1, test |-> cut .. n - 1]
Windows(n, train, test, step) ==
    LET stride == IF step > 0 THEN step ELSE test
        starts == {i \in 0 .. n : train >= 1 /\ test >= 1 /\ i % stride = 0 /\ i + train + test <= n}
    IN  {[train |-> i .. i + train - 1, test |-> i + train .. i + train + test - 1] : i \in starts}

-----------------------------------------------------------------------------
(* A strategy is reported as significant exactly if, among k p-values at least, *)
(* its own is under k shares of alpha: whatever the order in which the library  *)
(* was tried, ties included, and as its q-value says; never for want of trades, *)
(* and always if it would stand the stricter correction.                       *)
StepUp(p) ==
    {s \in DOMAIN p : \E k \in 1 .. Len(p) :
        /\ p[s] * Len(p) <= k * Significance
        /\ Cardinality({t \in DOMAIN p : p[t] * Len(p) <= k * Significance}) >= k}
SurvivorsAreDiscoveries ==
    /\ verdict.survivors = StepUp(verdict.p)
    /\ verdict.survivors = {s \in Tried : verdict.q[s] <= 60 * Significance}
    /\ RejectedByBonferroni(verdict.p) \subseteq verdict.survivors
    /\ \A s \in verdict.survivors : Len(verdict.reports[s].net) >= 2

(* The folds hold each trade once and follow each other in time, and no series  *)
(* is better net than gross.                                                   *)
FoldsAreHonest ==
    \A s \in Tried :
        LET r == verdict.reports[s]
            joined == FlattenSeq(r.folds)
        IN  /\ SumOf(r.net) <= r.gross
            /\ Len(r.net) >= FoldCount <=> r.folds # <<>>
            /\ r.folds # <<>> => Len(joined) = Len(r.net) /\ r.positive <= FoldCount
            /\ \A i, j \in DOMAIN joined : i < j => joined[i].exit <= joined[j].exit

(* No partition looks ahead or leaves an observation out; the windows' tests    *)
(* overlap only if the stride is shorter than a test.                          *)
Ahead(w) == \A i \in w.train, j \in w.test : i < j
NoPartitionLooksAhead ==
    /\ \A n \in 2 .. 9, percent \in {0, 5, 25, 30, 50, 90, 100} :
        LET w == OosSplit(n, percent)
        IN  Ahead(w) /\ {} \notin {w.train, w.test} /\ w.train \cup w.test = 0 .. n - 1
    /\ \A n \in 0 .. 7, train, test, step \in 0 .. 3 :
        \A v, w \in Windows(n, train, test, step) :
            /\ Ahead(w)
            /\ v # w /\ (step = 0 \/ step >= test) => v.test \cap w.test = {}

(* What a run stores about the library is sound: all of the above.             *)
SoundVerdict ==
    NoPartitionLooksAhead /\ (verdict # Unvalidated => SurvivorsAreDiscoveries /\ FoldsAreHonest)
=============================================================================
