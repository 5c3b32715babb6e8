---------------------------- MODULE PaperTrading ----------------------------
(***************************************************************************)
(* Paper trading as the database sees it: API requests (several worker     *)
(* processes) and the feed's tick handler are sessions, each running one   *)
(* READ COMMITTED transaction at a time.  A SELECT reads the last          *)
(* committed row, or the session's own uncommitted one; an UPDATE takes    *)
(* the row's lock until the transaction ends and writes the ABSOLUTE       *)
(* values computed from what was read before.  The steps between two       *)
(* awaits are atomic, everything else interleaves.                         *)
(*                                                                         *)
(* An account row holds three numbers (cash, realized_pnl, fees_paid).     *)
(* They are modelled by their decomposition into what each position has    *)
(* posted to them: reading and overwriting the numbers is reading and      *)
(* overwriting the decomposition, and the numbers are its sums.            *)
(* Write-only audit rows (paper_orders) and metrics are left out.          *)
(***************************************************************************)
EXTENDS PaperEngine, FiniteSets, FiniteSetsExt

CONSTANTS Accounts,      \* users' paper accounts
          Symbols,
          Prices,        \* the prices the market can show
          Positions,     \* primary keys: bounds how many positions are opened
          Requests,      \* the orders a user may submit
          Api,           \* API request sessions (bounds concurrent requests)
          Feed,          \* the tick handler's session: one, the bus worker is sequential
          Free,          \* "nobody holds this row's lock"
          Isolated       \* TRUE: no two transactions work on one account at a time

Sides == {"buy", "sell"}
Request == [account : Accounts, symbol : Symbols, side : Sides, quantity : Nat \ {0},
            type : {"market", "limit"}, limit : Nat, stop : Nat, target : Nat]

ASSUME Constants ==
    /\ Prices \subseteq Nat \ {0}
    /\ Requests \subseteq Request
    /\ Feed \notin Api
    /\ Free \notin Api \cup {Feed} \cup Accounts
    /\ Isolated \in BOOLEAN

Sessions == Api \cup {Feed}

VARIABLES
    market,        \* last traded price by symbol (quote cache and tick stream)
    account,       \* committed paper_accounts rows
    accountTip,    \* their newest version, committed or not
    accountOwner,  \* the session holding the row lock
    book,          \* committed paper_positions rows
    bookTip,
    bookOwner,
    journal,       \* committed journal_entries rows, by position_id
    journalTip,
    pc,            \* where a session is
    request,       \* the order it executes
    price,         \* the price it read
    view,          \* the account row it read
    todo,          \* the open position rows it loaded and has yet to close
    current,       \* the one it is closing
    scope,         \* the accounts its transaction works on
    active,        \* PaperTradingRunner._active
    refreshed,     \* what refresh_active_symbols read and has yet to assign, or Free
    quoted         \* the symbol whose tick the feed is handling

db      == <<account, book, journal>>
tips    == <<accountTip, accountOwner, bookTip, bookOwner, journalTip>>
locals  == <<request, price, view, todo, current, scope>>
runner  == <<active, refreshed, quoted>>
vars    == <<market, db, tips, pc, locals, runner>>
------------------------------------------------------------------------------
(* Rows *)

Posting == [cash : Int, realized : Int, fees : Int]
NoAccount  == [exists |-> FALSE, posted |-> [p \in Positions |-> Nothing]]
NewAccount == [exists |-> TRUE,  posted |-> [p \in Positions |-> Nothing]]

NoRequest == [account |-> Free]

(* The row a session writes: the one it read, with one position's posting. *)
Rewritten(row, p, posting) == [exists |-> TRUE, posted |-> [row.posted EXCEPT ![p] = posting]]

(* submit_order sets cash and fees_paid only: its UPDATE leaves realized_pnl *)
(* as it finds it in the row.                                              *)
Reserved(row, found, p, posting) ==
    [exists |-> TRUE,
     posted |-> [q \in Positions |->
                    IF q = p THEN posting
                    ELSE [row.posted[q] EXCEPT !.realized = found.posted[q].realized]]]

(* Mutant: a SELECT sees rows that are not committed yet. *)
DirtyRead(s, a) == accountTip[a]

(* What a SELECT of session s returns. *)
SeenAccount(s, a) == IF accountOwner[a] = s THEN accountTip[a] ELSE account[a]

OpenRows(sym) == {p \in Positions : book[p].status = "open" /\ book[p].symbol = sym}

(* The transactions of other sessions, kept apart when Isolated. *)
MayWorkOn(s, accts) == Isolated => \A t \in Sessions \ {s} : scope[t] \cap accts = {}
------------------------------------------------------------------------------
Init ==
    /\ market = [sym \in Symbols |-> None]
    /\ account = [a \in Accounts |-> NoAccount]
    /\ accountTip = account
    /\ accountOwner = [a \in Accounts |-> Free]
    /\ book = [p \in Positions |-> NoRow(Free)]
    /\ bookTip = book
    /\ bookOwner = [p \in Positions |-> Free]
    /\ journal = [p \in Positions |-> NoEntry]
    /\ journalTip = journal
    /\ pc = [s \in Sessions |-> "idle"]
    /\ request = [s \in Sessions |-> NoRequest]
    /\ price = [s \in Sessions |-> None]
    /\ view = [s \in Sessions |-> NoAccount]
    /\ todo = [s \in Sessions |-> {}]
    /\ current = [s \in Sessions |-> Free]
    /\ scope = [s \in Sessions |-> {}]
    /\ active = {}
    /\ refreshed = Free
    /\ quoted = Free

(* The session object is gone: its locals are dropped with it. *)
Forget(s) ==
    /\ request' = [request EXCEPT ![s] = NoRequest]
    /\ price' = [price EXCEPT ![s] = None]
    /\ view' = [view EXCEPT ![s] = NoAccount]
    /\ todo' = [todo EXCEPT ![s] = {}]
    /\ current' = [current EXCEPT ![s] = Free]
    /\ scope' = [scope EXCEPT ![s] = {}]

(* Mutant: a finished session keeps its account rows locked. *)
UnlockBookOnly(s) ==
    /\ UNCHANGED accountOwner
    /\ bookOwner' = [p \in Positions |-> IF bookOwner[p] = s THEN Free ELSE bookOwner[p]]

Unlock(s) ==
    /\ accountOwner' = [a \in Accounts |-> IF accountOwner[a] = s THEN Free ELSE accountOwner[a]]
    /\ bookOwner' = [p \in Positions |-> IF bookOwner[p] = s THEN Free ELSE bookOwner[p]]

Rollback(s) ==
    /\ accountTip' = [a \in Accounts |-> IF accountOwner[a] = s THEN account[a] ELSE accountTip[a]]
    /\ bookTip' = [p \in Positions |-> IF bookOwner[p] = s THEN book[p] ELSE bookTip[p]]
    /\ journalTip' = [p \in Positions |-> IF bookOwner[p] = s THEN journal[p] ELSE journalTip[p]]
    /\ Unlock(s)

Goto(s, label) == pc' = [pc EXCEPT ![s] = label]
------------------------------------------------------------------------------
(* The market moves. *)
Tick(sym, p) ==
    /\ market[sym] # p
    /\ market' = [market EXCEPT ![sym] = p]
    /\ UNCHANGED <<db, tips, pc, locals, runner>>

(* The bound on positions: a key is left for one order more. *)
KeyLeft == Cardinality({p \in Positions : bookTip[p].status = "none"})
             > Cardinality({s \in Sessions : pc[s] \in {"order", "create", "fill"}})

(* POST /paper/orders: the live price is read first (409 without one). *)
Submit(s, r) ==
    /\ pc[s] = "idle"
    /\ market[r.symbol] # None
    /\ MayWorkOn(s, {r.account})
    /\ KeyLeft
    /\ Goto(s, "order")
    /\ request' = [request EXCEPT ![s] = r]
    /\ price' = [price EXCEPT ![s] = market[r.symbol]]
    /\ scope' = [scope EXCEPT ![s] = {r.account}]
    /\ UNCHANGED <<market, db, tips, view, todo, current, runner>>

(* get_or_create_account: the SELECT ... *)
LoadAccount(s) ==
    LET row == SeenAccount(s, request[s].account) IN
    /\ pc[s] = "order"
    /\ view' = [view EXCEPT ![s] = row]
    /\ Goto(s, IF row.exists THEN "fill" ELSE "create")
    /\ UNCHANGED <<market, db, tips, request, price, todo, current, scope, runner>>

(* ... and the INSERT: user_id is unique, so it waits for a concurrent      *)
(* insert to end and fails (500, rolled back) if that one committed.        *)
CreateAccount(s) ==
    LET a == request[s].account IN
    /\ pc[s] = "create"
    /\ accountOwner[a] = Free
    /\ ~account[a].exists
    /\ accountTip' = [accountTip EXCEPT ![a] = NewAccount]
    /\ accountOwner' = [accountOwner EXCEPT ![a] = s]
    /\ view' = [view EXCEPT ![s] = NewAccount]
    /\ Goto(s, "fill")
    /\ UNCHANGED <<market, db, bookTip, bookOwner, journalTip, request, price, todo, current,
                   scope, runner>>

CreateAccountFails(s) ==
    /\ pc[s] = "create"
    /\ account[request[s].account].exists
    /\ Goto(s, "idle")
    /\ Forget(s)
    /\ UNCHANGED <<market, db, tips, runner>>

(* submit_order: a rejection only leaves an audit row. *)
RejectOrder(s) ==
    /\ pc[s] = "fill"
    /\ Decide(request[s], price[s]) = None
    /\ Goto(s, "commit")
    /\ UNCHANGED <<market, db, tips, locals, runner>>

(* submit_order, accepted: reserve the capital, insert the position.  The  *)
(* UPDATE of the account waits for its row lock.                           *)
FillOrder(s) ==
    LET r    == request[s]
        row  == OpenedRow(r, Decide(r, price[s]))
    IN
    /\ pc[s] = "fill"
    /\ Decide(r, price[s]) # None
    /\ accountOwner[r.account] \in {Free, s}
    /\ \E p \in Positions :
         /\ bookTip[p].status = "none"
         /\ accountTip' = [accountTip EXCEPT ![r.account] =
                              Reserved(view[s], @, p, OpenPosting(row))]
         /\ bookTip' = [bookTip EXCEPT ![p] = row]
         /\ bookOwner' = [bookOwner EXCEPT ![p] = s]
    /\ accountOwner' = [accountOwner EXCEPT ![r.account] = s]
    /\ Goto(s, "commit")
    /\ UNCHANGED <<market, db, journalTip, locals, runner>>

(* POST /paper/positions/{id}/close: 404 unless open, 409 without a price; *)
(* the price is awaited between this look at the row and the next.         *)
RequestClose(s, p) ==
    /\ pc[s] = "idle"
    /\ book[p].status = "open"
    /\ market[book[p].symbol] # None
    /\ MayWorkOn(s, {book[p].account})
    /\ Goto(s, "recheck")
    /\ price' = [price EXCEPT ![s] = market[book[p].symbol]]
    /\ todo' = [todo EXCEPT ![s] = {p}]
    /\ scope' = [scope EXCEPT ![s] = {book[p].account}]
    /\ UNCHANGED <<market, db, tips, request, view, current, runner>>

(* close_position re-reads the row and answers "not_closed" if it is not open. *)
Recheck(s) ==
    /\ pc[s] = "recheck"
    /\ \A p \in todo[s] : book[p].status = "open"
    /\ Goto(s, "rows")
    /\ UNCHANGED <<market, db, tips, locals, runner>>

RecheckFails(s) ==
    /\ pc[s] = "recheck"
    /\ \E p \in todo[s] : book[p].status # "open"
    /\ Goto(s, "idle")
    /\ Forget(s)
    /\ UNCHANGED <<market, db, tips, runner>>

(* PaperTradingRunner._on_quote and apply_price: the open rows on the      *)
(* symbol whose stop or target the tick has hit are loaded once.  A tick   *)
(* that closes nothing changes nothing; one that waited in the bus's queue *)
(* may carry a price the market has left since.                            *)
OnQuote(sym, tick) ==
    LET hits == {p \in OpenRows(sym) : ExitSignal(book[p], tick) # "none"}
        accts == {book[p].account : p \in hits}
    IN
    /\ pc[Feed] = "idle"
    /\ sym \in active
    /\ market[sym] # None
    /\ hits # {}
    /\ MayWorkOn(Feed, accts)
    /\ Goto(Feed, "rows")
    /\ price' = [price EXCEPT ![Feed] = tick]
    /\ todo' = [todo EXCEPT ![Feed] = hits]
    /\ scope' = [scope EXCEPT ![Feed] = accts]
    /\ quoted' = sym
    /\ UNCHANGED <<market, db, tips, request, view, current, active, refreshed>>

(* _close: the next loaded row, and the SELECT of its account. *)
NextRow(s, p) ==
    /\ pc[s] = "rows"
    /\ p \in todo[s]
    /\ current' = [current EXCEPT ![s] = p]
    /\ view' = [view EXCEPT ![s] = SeenAccount(s, book[p].account)]
    /\ Goto(s, "book")
    /\ UNCHANGED <<market, db, tips, request, price, todo, scope, runner>>

(* JournalService.record: idempotent per position_id.  Mutant: it is not. *)
RecordAgain(existing, trade) == trade
Record(existing, trade) == IF existing.exists THEN existing ELSE trade

(* Mutant: a manual close is booked at the stop or target, if beyond one. *)
ReasonBySignal(s, row) == ExitSignal(row, price[s])
Reason(s, row) == IF s = Feed THEN ExitSignal(row, price[s]) ELSE "manual"

(* _close, the rest: account UPDATE and position UPDATE in one flush, each  *)
(* waiting for its row lock, and JournalService.record, idempotent per      *)
(* position.  The row was loaded open; the columns used never change.       *)
CloseRow(s) ==
    LET p    == current[s]
        row  == book[p]
        a    == row.account
        why  == Reason(s, row)
        exit == ExitFill(row, price[s], why)
    IN
    /\ pc[s] = "book"
    /\ accountOwner[a] \in {Free, s}
    /\ bookOwner[p] \in {Free, s}
    /\ accountTip' = [accountTip EXCEPT ![a] =
                         Rewritten(view[s], p, ClosePosting(row, exit, view[s].posted[p]))]
    /\ accountOwner' = [accountOwner EXCEPT ![a] = s]
    /\ bookTip' = [bookTip EXCEPT ![p] = ClosedRow(row, exit, why)]
    /\ bookOwner' = [bookOwner EXCEPT ![p] = s]
    /\ journalTip' = [journalTip EXCEPT ![p] =
                         Record(@, JournalEntry(ClosedRow(row, exit, why)))]
    /\ todo' = [todo EXCEPT ![s] = @ \ {p}]
    /\ current' = [current EXCEPT ![s] = Free]
    /\ view' = [view EXCEPT ![s] = NoAccount]
    /\ Goto(s, IF todo[s] = {p} THEN "commit" ELSE "rows")
    /\ UNCHANGED <<market, db, request, price, scope, runner>>

(* Mutant: the journal entry is staged in a session that never commits. *)
CommitWithoutJournal(s) ==
    /\ pc[s] = "commit"
    /\ account' = [a \in Accounts |-> IF accountOwner[a] = s THEN accountTip[a] ELSE account[a]]
    /\ book' = [p \in Positions |-> IF bookOwner[p] = s THEN bookTip[p] ELSE book[p]]
    /\ Unlock(s)
    /\ Goto(s, IF s = Feed THEN "remaining" ELSE "idle")
    /\ Forget(s)
    /\ UNCHANGED <<market, journal, accountTip, bookTip, journalTip, runner>>

Commit(s) ==
    /\ pc[s] = "commit"
    /\ account' = [a \in Accounts |-> IF accountOwner[a] = s THEN accountTip[a] ELSE account[a]]
    /\ book' = [p \in Positions |-> IF bookOwner[p] = s THEN bookTip[p] ELSE book[p]]
    /\ journal' = [p \in Positions |-> IF bookOwner[p] = s THEN journalTip[p] ELSE journal[p]]
    /\ Unlock(s)
    /\ Goto(s, IF s = Feed THEN "remaining" ELSE "idle")
    /\ Forget(s)
    /\ UNCHANGED <<market, accountTip, bookTip, journalTip, runner>>

(* _on_quote after its commit: no open row left, then the symbol is dropped. *)
Remaining ==
    /\ pc[Feed] = "remaining"
    /\ Goto(Feed, IF OpenRows(quoted) = {} THEN "discard" ELSE "idle")
    /\ quoted' = IF OpenRows(quoted) = {} THEN quoted ELSE Free
    /\ UNCHANGED <<market, db, tips, locals, active, refreshed>>

Discard ==
    /\ pc[Feed] = "discard"
    /\ Goto(Feed, "idle")
    /\ active' = active \ {quoted}
    /\ quoted' = Free
    /\ UNCHANGED <<market, db, tips, locals, refreshed>>

(* A database error or a lost connection: the transaction is rolled back.   *)
(* The bus counts the tick handler's exception and goes on.                 *)
Abort(s) ==
    /\ pc[s] # "idle"
    /\ Rollback(s)
    /\ Goto(s, "idle")
    /\ Forget(s)
    /\ quoted' = IF s = Feed THEN Free ELSE quoted
    /\ UNCHANGED <<market, db, active, refreshed>>

(* run_refresh_loop: the query, and the assignment of its result. *)
RefreshRead ==
    /\ refreshed = Free
    /\ refreshed' = {sym \in Symbols : OpenRows(sym) # {}}
    /\ UNCHANGED <<market, db, tips, pc, locals, active, quoted>>

(* Mutant: symbols opened elsewhere are never picked up. *)
RefreshNarrows ==
    /\ refreshed # Free
    /\ active' = active \cap refreshed
    /\ refreshed' = Free
    /\ UNCHANGED <<market, db, tips, pc, locals, quoted>>

RefreshApply ==
    /\ refreshed # Free
    /\ active' = refreshed
    /\ refreshed' = Free
    /\ UNCHANGED <<market, db, tips, pc, locals, quoted>>

(* The feed process dies and restarts with an empty active set. *)
FeedRestart ==
    /\ Rollback(Feed)
    /\ Goto(Feed, "idle")
    /\ Forget(Feed)
    /\ active' = {}
    /\ refreshed' = Free
    /\ quoted' = Free
    /\ UNCHANGED <<market, db>>
------------------------------------------------------------------------------
Ordering(s) == \/ LoadAccount(s)
               \/ CreateAccount(s)
               \/ CreateAccountFails(s)
               \/ RejectOrder(s)
               \/ FillOrder(s)
Closing(s)  == \/ Recheck(s)
               \/ RecheckFails(s)
               \/ \E p \in Positions : NextRow(s, p)
               \/ CloseRow(s)
Step(s)     == Ordering(s) \/ Closing(s) \/ Commit(s)

Works ==
    \/ \E sym \in Symbols, p \in Prices : Tick(sym, p)
    \/ \E s \in Api, r \in Requests : Submit(s, r)
    \/ \E s \in Api, p \in Positions : RequestClose(s, p)
    \/ \E s \in Sessions : Step(s)
    \/ \E sym \in Symbols, tick \in Prices : OnQuote(sym, tick)
    \/ Remaining \/ Discard
    \/ RefreshRead \/ RefreshApply
Fails ==
    \/ \E s \in Sessions : Abort(s)
    \/ FeedRestart

Next == Works \/ Fails

Spec == Init /\ [][Next]_vars
------------------------------------------------------------------------------
(* Types *)

AccountRow  == [exists : BOOLEAN, posted : [Positions -> Posting]]
PositionRow == [status : {"none", "open", "closed"}, account : Accounts \cup {Free},
                symbol : Symbols \cup {Free}, side : Sides, quantity : Nat, entry : Int,
                stop : Nat, target : Nat, exit : Nat,
                reason : {"none", "stop", "target", "manual"}]
Entry       == [exists : BOOLEAN, exit : Nat, net : Int]
Labels      == {"idle", "order", "create", "fill", "recheck", "rows", "book", "commit",
                "remaining", "discard"}

TypeOK ==
    /\ market \in [Symbols -> Prices \cup {None}]
    /\ account \in [Accounts -> AccountRow] /\ accountTip \in [Accounts -> AccountRow]
    /\ accountOwner \in [Accounts -> Sessions \cup {Free}]
    /\ book \in [Positions -> PositionRow] /\ bookTip \in [Positions -> PositionRow]
    /\ bookOwner \in [Positions -> Sessions \cup {Free}]
    /\ journal \in [Positions -> Entry] /\ journalTip \in [Positions -> Entry]
    /\ pc \in [Sessions -> Labels]
    /\ request \in [Sessions -> Requests \cup {NoRequest}]
    /\ price \in [Sessions -> Prices \cup {None}]
    /\ view \in [Sessions -> AccountRow]
    /\ todo \in [Sessions -> SUBSET Positions]
    /\ current \in [Sessions -> Positions \cup {Free}]
    /\ scope \in [Sessions -> SUBSET Accounts]
    /\ active \in SUBSET Symbols
    /\ refreshed \in (SUBSET Symbols) \cup {Free}
    /\ quoted \in Symbols \cup {Free}
------------------------------------------------------------------------------
(* Safety, whatever overlaps *)

(* A position is closed exactly when the journal, the book of record, has  *)
(* its round trip: no interleaving, rollback or feed crash leaves a closed *)
(* position without an entry or an entry for an open one (_close writes    *)
(* both in one transaction).                                               *)
BookOfRecord ==
    \A p \in Positions : book[p].status = "closed" <=> journal[p].exists

(* An account row never carries money of a position that does not exist:   *)
(* nothing of a rolled-back or unfinished order reaches committed cash,    *)
(* although sessions copy whole account rows about.                        *)
NoPhantomPostings ==
    \A a \in Accounts, p \in Positions :
        account[a].posted[p] # Nothing => book[p].status # "none" /\ book[p].account = a

(* History is immutable: a committed journal entry never changes, even if  *)
(* two sessions close the same position (JournalService.record), a         *)
(* position's opening terms never change, and no close is undone by a      *)
(* session that wrote an older copy of the row.                            *)
Terms(row) == <<row.account, row.symbol, row.side, row.quantity, row.entry, row.stop, row.target>>
HistoryImmutable ==
    [][\A p \in Positions :
          /\ journal[p].exists => journal'[p] = journal[p]
          /\ book[p].status # "none" => Terms(book'[p]) = Terms(book[p])
          /\ book[p].status = "closed" => book'[p].status = "closed"]_db

(* Safety, when no two transactions work on one account at a time *)

(* What the ledger owes to a position row: its capital while it is open,   *)
(* its net result and its fees once it is closed.                          *)
Due(a, row) ==
    CASE row.account # a -> Nothing
      [] row.account = a /\ row.status = "open" -> OpenPosting(row)
      [] OTHER -> Settled(row)

(* service.py: "cash can never drift: opening reserves the entry notional  *)
(* (+ entry fee); closing releases it plus realized P&L (minus exit fee)". *)
(* Every account holds exactly what its own positions owe it, once each.   *)
CashNeverDrifts ==
    \A a \in Accounts, p \in Positions : account[a].posted[p] = Due(a, book[p])

(* A number of the row, from its decomposition. *)
Sum(f) == MapThenSumSet(LAMBDA p : f[p], Positions)
Realized(a)  == Sum([p \in Positions |-> account[a].posted[p].realized])

(* The journal tells the account's story: the realized P&L of an account   *)
(* is the sum of the net results journalled for its positions, and the     *)
(* price a position row shows as its exit is the one journalled.           *)
JournalAgrees ==
    /\ \A a \in Accounts :
          Realized(a) = Sum([p \in Positions |->
                                IF book[p].account = a THEN journal[p].net ELSE 0])
    /\ \A p \in Positions : journal[p].exists => journal[p].exit = book[p].exit

(* Seen from outside, every commit is one atomic step of PaperLedger: an   *)
(* order, a manual close, or a tick's closes, with their money.            *)
Ledger == INSTANCE PaperLedger WITH ledger <- [a \in Accounts |-> account[a].posted]
LedgerKept == Ledger!Spec

------------------------------------------------------------------------------
(* Liveness *)

(* Requests and handlers run on; the refresh loop is supervised; ticks on  *)
(* an active symbol keep being handled (the bus may shed some of them, not *)
(* all of them); in the end the feed and the database stay up.             *)
Fairness ==
    /\ \A s \in Sessions : WF_vars(Ordering(s) \/ Closing(s)) /\ WF_vars(Commit(s))
    /\ \A sym \in Symbols : SF_vars(OnQuote(sym, market[sym]))
    /\ WF_vars(Remaining) /\ WF_vars(Discard)
    /\ WF_vars(RefreshRead) /\ WF_vars(RefreshApply)
    /\ <>[][Works]_vars

FairSpec == Spec /\ Fairness

(* No stop or target is forgotten: a position cannot stay open for ever    *)
(* while the market stays beyond its level, whatever symbols the runner    *)
(* drops from its active set and however often the feed restarts.          *)
ExitsHappen ==
    \A p \in Positions :
        []<>~(/\ book[p].status = "open"
              /\ market[book[p].symbol] # None
              /\ ExitSignal(book[p], market[book[p].symbol]) # "none")

(* Row locks never knot: every request and every tick's transaction ends.  *)
TransactionsEnd == \A s \in Sessions : pc[s] # "idle" ~> pc[s] = "idle"
=============================================================================
