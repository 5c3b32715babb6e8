--------------------------- MODULE MCPaperTrading ---------------------------
(* Instances of PaperTrading: prices at which fees are whole, a long        *)
(* with a stop and a target, a short with a stop, an order that is rejected *)
(* once the market has moved to its stop.                                   *)
EXTENDS PaperTrading, TLC

CONSTANTS alice, bob, nifty, p1, p2, web1, web2, feed, free

LongOrder == [account |-> alice, symbol |-> nifty, side |-> "buy", quantity |-> 1,
              type |-> "market", limit |-> None, stop |-> 10000, target |-> 30000]
ShortOrder == [account |-> alice, symbol |-> nifty, side |-> "sell", quantity |-> 2,
               type |-> "limit", limit |-> 10000, stop |-> 25000, target |-> None]

MCAccounts  == {alice}
TwoAccounts == {alice, bob}
MCSymbols   == {nifty}
MCPrices    == {20000, 30000}
MCPositions == {p1, p2}
BothOrders  == {LongOrder, ShortOrder}
JustLong    == {LongOrder}
PerAccount  == {LongOrder, [ShortOrder EXCEPT !.account = bob]}
OnePrice    == {40000}
TwoWorkers  == {web1, web2}
OneWorker   == {web1}
PositionSymmetry == Permutations(MCPositions)
Symmetry    == PositionSymmetry \cup Permutations(TwoWorkers)
==============================================================================
