----------------------------- MODULE PaperLedger -----------------------------
(***************************************************************************)
(* What paper trading promises (service.py): positions open and close at   *)
(* once, with their money and their journal entry, and "cash can never     *)
(* drift".  No sessions, no stale rows: one atomic step per order, manual  *)
(* close, or tick.                                                         *)
(***************************************************************************)
EXTENDS PaperEngine

CONSTANTS Accounts, Symbols, Prices, Positions, Requests, Free

VARIABLES book,      \* position rows
          journal,   \* the round trips, by position
          ledger     \* what each position has posted to each account

ledgerVars == <<book, journal, ledger>>

Init ==
    /\ book = [p \in Positions |-> NoRow(Free)]
    /\ journal = [p \in Positions |-> NoEntry]
    /\ ledger = [a \in Accounts |-> [p \in Positions |-> Nothing]]

(* An accepted order opens a position and reserves its capital. *)
Open(p, r, ref) ==
    LET row == OpenedRow(r, Decide(r, ref)) IN
    /\ book[p].status = "none"
    /\ Decide(r, ref) # None
    /\ book' = [book EXCEPT ![p] = row]
    /\ ledger' = [ledger EXCEPT ![r.account][p] = OpenPosting(row)]
    /\ UNCHANGED journal

(* The positions of S close together, each at what reason[p] makes of price. *)
Close(S, price, reason) ==
    LET closed == [p \in S |-> ClosedRow(book[p], ExitFill(book[p], price, reason[p]), reason[p])]
    IN
    /\ \A p \in S : book[p].status = "open"
    /\ book' = [p \in Positions |-> IF p \in S THEN closed[p] ELSE book[p]]
    /\ journal' = [p \in Positions |-> IF p \in S THEN JournalEntry(closed[p]) ELSE journal[p]]
    /\ ledger' = [a \in Accounts |-> [p \in Positions |->
                     IF p \in S /\ book[p].account = a THEN Settled(closed[p]) ELSE ledger[a][p]]]

(* A user closes one position at the market. *)
CloseByHand(p, price) == Close({p}, price, [q \in {p} |-> "manual"])

(* One tick closes positions on its symbol, all of them beyond a level. *)
CloseByTick(S, sym, price) ==
    /\ S # {}
    /\ \A p \in S : book[p].symbol = sym /\ ExitSignal(book[p], price) # "none"
    /\ Close(S, price, [p \in S |-> ExitSignal(book[p], price)])

Next ==
    \/ \E p \in Positions, r \in Requests, ref \in Prices : Open(p, r, ref)
    \/ \E p \in Positions, price \in Prices : CloseByHand(p, price)
    \/ \E S \in SUBSET Positions, sym \in Symbols, price \in Prices : CloseByTick(S, sym, price)

Spec == Init /\ [][Next]_ledgerVars
==============================================================================
