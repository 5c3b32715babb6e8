----------------------------- MODULE PaperEngine -----------------------------
(***************************************************************************)
(* The pure core of paper trading: what an order fills at, when an open    *)
(* position exits and at what price, and what a side of a trade costs      *)
(* (modules/paper_trading/engine.py and models.py).  Money is integral:    *)
(* the float arithmetic and the Numeric(18,4) rounding at the database     *)
(* boundary are abstracted, the order of the checks is not.                *)
(***************************************************************************)
EXTENDS Integers

CONSTANTS FeeBps,       \* paper_fee_bps: cost of one side, in 1/10000 of notional
          SlippageBps   \* paper_slippage_bps: against the taker, in 1/10000

(* A slippage of 100% would fill a sale at nothing. *)
ASSUME EngineConstants == FeeBps \in Nat /\ SlippageBps \in 0 .. 9999

(* An absent optional price: every price the API accepts is positive. *)
None == 0

Long(side) == side = "buy"
Sign(side) == IF Long(side) THEN 1 ELSE -1

Lower(x, y)  == IF x <= y THEN x ELSE y
Higher(x, y) == IF x <= y THEN y ELSE x

(* FeeModel.charge with the default flat model; notionals are positive. *)
Charge(notional) == (notional * FeeBps) \div 10000

Slip(ref) == (ref * SlippageBps) \div 10000

(* OrderRequest.validate *)
Malformed(r) ==
    \/ r.quantity <= 0
    \/ r.type = "limit" /\ r.limit = None
    \/ /\ r.stop # None
       /\ r.target # None
       /\ IF Long(r.side) THEN r.stop >= r.target ELSE r.stop <= r.target

(* ExecutionModel.fill_price: None when a limit is not marketable. *)
FillPrice(r, ref) ==
    IF r.type = "market"
    THEN ref + Sign(r.side) * Slip(ref)
    ELSE IF Long(r.side)
         THEN IF ref <= r.limit THEN Lower(r.limit, ref + Slip(ref)) ELSE None
         ELSE IF ref >= r.limit THEN Higher(r.limit, ref - Slip(ref)) ELSE None

(* The stop, and only the stop, is compared with the fill. *)
StopOnWrongSide(r, fill) ==
    /\ r.stop # None
    /\ IF Long(r.side) THEN r.stop >= fill ELSE r.stop <= fill

(* decide_order: the fill price of an accepted order, None for a rejection. *)
Decide(r, ref) ==
    IF Malformed(r) \/ FillPrice(r, ref) = None \/ StopOnWrongSide(r, FillPrice(r, ref))
    THEN None
    ELSE FillPrice(r, ref)

(* exit_signal: the stop is looked at before the target. *)
StopHit(row, price) ==
    row.stop # None /\ IF Long(row.side) THEN price <= row.stop ELSE price >= row.stop
TargetHit(row, price) ==
    row.target # None /\ IF Long(row.side) THEN price >= row.target ELSE price <= row.target
ExitSignal(row, price) ==
    CASE StopHit(row, price) -> "stop"
      [] ~StopHit(row, price) /\ TargetHit(row, price) -> "target"
      [] OTHER -> "none"

(* exit_fill_price: stops and targets book at their level. *)
ExitFill(row, price, reason) ==
    CASE reason = "stop" /\ row.stop # None -> row.stop
      [] reason = "target" /\ row.target # None -> row.target
      [] OTHER -> price

EntryNotional(row)    == row.entry * row.quantity
EntryFee(row)         == Charge(EntryNotional(row))
ExitFee(row, exit)    == Charge(exit * row.quantity)
GrossPnl(row, exit)   == (exit - row.entry) * row.quantity * Sign(row.side)
NetPnl(row, exit)     == GrossPnl(row, exit) - (EntryFee(row) + ExitFee(row, exit))
------------------------------------------------------------------------------
(* Rows *)

OpenedRow(r, fill) ==
    [status |-> "open", account |-> r.account, symbol |-> r.symbol, side |-> r.side,
     quantity |-> r.quantity, entry |-> fill, stop |-> r.stop, target |-> r.target,
     exit |-> None, reason |-> "none"]

ClosedRow(row, exit, reason) ==
    [row EXCEPT !.status = "closed", !.exit = exit, !.reason = reason]

NoRow(nobody) ==
    [status |-> "none", account |-> nobody, symbol |-> nobody, side |-> "buy", quantity |-> 0,
     entry |-> None, stop |-> None, target |-> None, exit |-> None, reason |-> "none"]

NoEntry == [exists |-> FALSE, exit |-> None, net |-> 0]
(* Mutant: the journal forgets the entry fee. *)
EntryBeforeFees(row) ==
    [exists |-> TRUE, exit |-> row.exit, net |-> GrossPnl(row, row.exit) - ExitFee(row, row.exit)]
JournalEntry(row) == [exists |-> TRUE, exit |-> row.exit, net |-> NetPnl(row, row.exit)]

(* What a position posts to the numbers of its account. *)
Nothing == [cash |-> 0, realized |-> 0, fees |-> 0]

(* Opening: the entry notional and the entry fee leave the cash. *)
OpenPosting(row) ==
    [cash |-> -(EntryNotional(row) + EntryFee(row)), realized |-> 0, fees |-> EntryFee(row)]

(* Mutant: the entry fee, already paid at the opening, is charged again. *)
ClosePostingTwice(row, exit, before) ==
    [cash     |-> before.cash + EntryNotional(row) + NetPnl(row, exit),
     realized |-> before.realized + NetPnl(row, exit),
     fees     |-> before.fees + ExitFee(row, exit)]

(* Closing, on top of what was posted before: the notional comes back with  *)
(* the gross result, less the exit fee.                                     *)
ClosePosting(row, exit, before) ==
    [cash     |-> before.cash + EntryNotional(row) + GrossPnl(row, exit) - ExitFee(row, exit),
     realized |-> before.realized + NetPnl(row, exit),
     fees     |-> before.fees + ExitFee(row, exit)]

(* The balance of a round trip: its net result, and both fees. *)
Settled(row) == [cash |-> NetPnl(row, row.exit), realized |-> NetPnl(row, row.exit),
                 fees |-> EntryFee(row) + ExitFee(row, row.exit)]
==============================================================================
