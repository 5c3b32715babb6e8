------------------------- MODULE PaperTradingProofs -------------------------
(***************************************************************************)
(* Theorems about PaperTrading, for every set of accounts, positions,      *)
(* requests, prices and sessions.                                          *)
(***************************************************************************)
EXTENDS PaperTrading, TLAPS

(* The operators of PaperEngine stay within their types. *)

LEMMA ChargeType == ASSUME NEW n \in Int PROVE Charge(n) \in Int
  BY EngineConstants DEF Charge

LEMMA SlipType == ASSUME NEW n \in Int PROVE Slip(n) \in Int
  BY EngineConstants DEF Slip

LEMMA ProductType == ASSUME NEW m \in Int, NEW n \in Int PROVE m * n \in Int
  OBVIOUS

LEMMA DecideType ==
  ASSUME NEW r \in Requests, NEW ref \in Prices
  PROVE  Decide(r, ref) \in Int
<1>1. /\ ref \in Int /\ r.limit \in Int /\ Slip(ref) \in Int
  BY Constants, SlipType DEF Request
<1>2. Sign(r.side) \in Int
  BY DEF Sign
<1>3. Sign(r.side) * Slip(ref) \in Int
  BY <1>1, <1>2, ProductType
<1>4. FillPrice(r, ref) \in Int
  BY <1>1, <1>3 DEF FillPrice, Lower, Higher, None
<1>. QED  BY <1>4 DEF Decide, None

LEMMA RowMoney ==
  ASSUME NEW row \in PositionRow, NEW exit \in Nat
  PROVE  /\ EntryNotional(row) \in Int
         /\ EntryFee(row) \in Int
         /\ ExitFee(row, exit) \in Int
         /\ GrossPnl(row, exit) \in Int
         /\ NetPnl(row, exit) \in Int
<1>1. row.entry \in Int /\ row.quantity \in Int /\ Sign(row.side) \in Int /\ exit \in Int
  BY DEF PositionRow, Sign
<1>2. EntryNotional(row) \in Int /\ EntryFee(row) \in Int
  BY <1>1, ProductType, ChargeType DEF EntryNotional, EntryFee
<1>3. ExitFee(row, exit) \in Int
  BY <1>1, ProductType, ChargeType DEF ExitFee
<1>4. (exit - row.entry) * row.quantity \in Int
  BY <1>1, ProductType
<1>5. GrossPnl(row, exit) \in Int
  BY <1>1, <1>4, ProductType DEF GrossPnl
<1>. QED  BY <1>2, <1>3, <1>5 DEF NetPnl

LEMMA OpenPostingType ==
  ASSUME NEW row \in PositionRow
  PROVE  OpenPosting(row) \in Posting
  BY RowMoney, 0 \in Nat DEF OpenPosting, Posting

LEMMA ClosePostingType ==
  ASSUME NEW row \in PositionRow, NEW exit \in Nat, NEW before \in Posting
  PROVE  ClosePosting(row, exit, before) \in Posting
  BY RowMoney DEF ClosePosting, Posting

LEMMA OpenedRowType ==
  ASSUME NEW r \in Requests, NEW fill \in Int
  PROVE  OpenedRow(r, fill) \in PositionRow
<1>1. r \in Request
  BY Constants
<1>. QED  BY <1>1 DEF OpenedRow, PositionRow, Request, None

LEMMA ExitType ==
  ASSUME NEW row \in PositionRow, NEW p \in Prices \cup {None}, NEW why
  PROVE  /\ ExitSignal(row, p) \in {"stop", "target", "none"}
         /\ ExitFill(row, p, why) \in Nat
<1>1. p \in Nat /\ row.stop \in Nat /\ row.target \in Nat
  BY Constants DEF PositionRow, None
<1>. QED  BY <1>1 DEF ExitSignal, ExitFill

LEMMA ClosedRowType ==
  ASSUME NEW row \in PositionRow, NEW exit \in Nat,
         NEW why \in {"none", "stop", "target", "manual"}
  PROVE  /\ ClosedRow(row, exit, why) \in PositionRow
         /\ JournalEntry(ClosedRow(row, exit, why)) \in Entry
<1>1. ClosedRow(row, exit, why) \in PositionRow
  BY DEF ClosedRow, PositionRow
<1>2. ClosedRow(row, exit, why).exit = exit
  BY DEF ClosedRow, PositionRow
<1>. QED  BY <1>1, <1>2, RowMoney DEF JournalEntry, Entry
------------------------------------------------------------------------------
(* Type correctness *)

(* TypeOK is not inductive alone: an order is only filled by a session that *)
(* has one, a row only closed by a session that loaded it, and the rows that *)
(* sessions load exist.                                                     *)
LocalsOK ==
    \A s \in Sessions :
        /\ pc[s] \in {"order", "create", "fill"} => request[s] \in Requests /\ price[s] \in Prices
        /\ pc[s] = "book" => current[s] \in todo[s]
        /\ \A p \in todo[s] : book[p].status # "none"

RowsOK ==
    \A p \in Positions :
        /\ book[p].status # "none" => bookTip[p].status # "none"
        /\ book[p].status # "none" => book[p].account \in Accounts /\ book[p].symbol \in Symbols
        /\ bookTip[p].status # "none" => /\ bookTip[p].account \in Accounts
                                        /\ bookTip[p].symbol \in Symbols

Typed == TypeOK /\ LocalsOK /\ RowsOK

LEMMA EmptyTypes ==
    /\ NoAccount \in AccountRow
    /\ NewAccount \in AccountRow
    /\ NoRow(Free) \in PositionRow
    /\ NoEntry \in Entry
<1>1. Nothing \in Posting
  BY DEF Nothing, Posting
<1>2. NoAccount \in AccountRow /\ NewAccount \in AccountRow
  BY <1>1 DEF NoAccount, NewAccount, AccountRow
<1>3. NoRow(Free) \in PositionRow
  BY DEF NoRow, PositionRow, Sides, None
<1>. QED  BY <1>2, <1>3 DEF NoEntry, Entry, None

LEMMA InitTyped == Init => Typed
<1> SUFFICES ASSUME Init PROVE Typed
  OBVIOUS
<1>1. TypeOK
  BY EmptyTypes DEF Init, TypeOK, Labels, None
<1>2. LocalsOK
  BY DEF Init, LocalsOK
<1>3. RowsOK
  BY DEF Init, RowsOK, NoRow
<1>. QED  BY <1>1, <1>2, <1>3 DEF Typed

(* The parts of a step that several actions share. *)
LEMMA ForgetType ==
  ASSUME TypeOK, NEW s \in Sessions, Forget(s)
  PROVE  /\ request' \in [Sessions -> Requests \cup {NoRequest}]
         /\ price' \in [Sessions -> Prices \cup {None}]
         /\ view' \in [Sessions -> AccountRow]
         /\ todo' \in [Sessions -> SUBSET Positions]
         /\ current' \in [Sessions -> Positions \cup {Free}]
         /\ scope' \in [Sessions -> SUBSET Accounts]
  BY EmptyTypes DEF TypeOK, Forget

LEMMA UnlockType ==
  ASSUME TypeOK, NEW s \in Sessions, Unlock(s)
  PROVE  /\ accountOwner' \in [Accounts -> Sessions \cup {Free}]
         /\ bookOwner' \in [Positions -> Sessions \cup {Free}]
  BY DEF TypeOK, Unlock

LEMMA RollbackType ==
  ASSUME TypeOK, NEW s \in Sessions, Rollback(s)
  PROVE  /\ accountTip' \in [Accounts -> AccountRow]
         /\ bookTip' \in [Positions -> PositionRow]
         /\ journalTip' \in [Positions -> Entry]
         /\ accountOwner' \in [Accounts -> Sessions \cup {Free}]
         /\ bookOwner' \in [Positions -> Sessions \cup {Free}]
  BY UnlockType DEF TypeOK, Rollback

LEMMA GotoType ==
  ASSUME TypeOK, NEW s \in Sessions, NEW label \in Labels, Goto(s, label)
  PROVE  pc' \in [Sessions -> Labels]
  BY DEF TypeOK, Goto

LEMMA SeenType ==
  ASSUME TypeOK, NEW s \in Sessions, NEW a \in Accounts
  PROVE  SeenAccount(s, a) \in AccountRow
  BY DEF TypeOK, SeenAccount

LEMMA SubmitTyped ==
  ASSUME Typed, NEW s \in Sessions, NEW r \in Requests, Submit(s, r)
  PROVE  Typed'
<1>1. r \in Request /\ market[r.symbol] \in Prices
  BY Constants DEF Typed, TypeOK, Submit, Request
<1>2. TypeOK'
  BY <1>1 DEF Typed, TypeOK, Submit, Goto, Labels, Request, db, tips, runner
<1>3. LocalsOK'
  BY <1>1 DEF Typed, TypeOK, LocalsOK, Submit, Goto, db
<1>. QED  BY <1>2, <1>3 DEF Typed, RowsOK, Submit, db, tips

LEMMA RewrittenType ==
  ASSUME NEW row \in AccountRow, NEW p, NEW posting \in Posting
  PROVE  Rewritten(row, p, posting) \in AccountRow
<1>1. row.posted \in [Positions -> Posting]
  BY DEF AccountRow
<1>2. [row.posted EXCEPT ![p] = posting] \in [Positions -> Posting]
  BY <1>1
<1>. QED  BY <1>2 DEF Rewritten, AccountRow

(* What submit_order makes of a row it read and finds as it was.            *)
LEMMA ReservedSame ==
  ASSUME NEW row \in AccountRow, NEW found \in AccountRow, NEW p, NEW posting,
         NEW q \in Positions \ {p}, row.posted[q] = found.posted[q]
  PROVE  Reserved(row, found, p, posting).posted[q] = row.posted[q]
<1>1. row.posted[q] \in Posting
  BY DEF AccountRow
<1>2. Reserved(row, found, p, posting).posted[q] = [row.posted[q] EXCEPT !.realized = row.posted[q].realized]
  BY DEF Reserved
<1>. QED  BY <1>1, <1>2 DEF Posting

LEMMA ReservedNew ==
  ASSUME NEW row, NEW found, NEW p \in Positions, NEW posting
  PROVE  Reserved(row, found, p, posting).exists /\ Reserved(row, found, p, posting).posted[p] = posting
  BY DEF Reserved

LEMMA ReservedType ==
  ASSUME NEW row \in AccountRow, NEW found \in AccountRow, NEW p, NEW posting \in Posting
  PROVE  Reserved(row, found, p, posting) \in AccountRow
<1>1. row.posted \in [Positions -> Posting] /\ found.posted \in [Positions -> Posting]
  BY DEF AccountRow
<1>2. ASSUME NEW q \in Positions
      PROVE  [row.posted[q] EXCEPT !.realized = found.posted[q].realized] \in Posting
  BY <1>1 DEF Posting
<1>. QED  BY <1>2 DEF Reserved, AccountRow

LEMMA FillOrderTyped ==
  ASSUME Typed, NEW s \in Sessions, FillOrder(s)
  PROVE  Typed'
<1> DEFINE r == request[s]
           row == OpenedRow(r, Decide(r, price[s]))
<1>1. r \in Requests /\ price[s] \in Prices /\ r.account \in Accounts /\ r.symbol \in Symbols
  BY Constants DEF Typed, LocalsOK, FillOrder, Request
<1>2. row \in PositionRow /\ OpenPosting(row) \in Posting
  BY <1>1, DecideType, OpenedRowType, OpenPostingType
<1>3. PICK p \in Positions :
        /\ accountTip' = [accountTip EXCEPT ![r.account] =
                             Reserved(view[s], @, p, OpenPosting(row))]
        /\ bookTip' = [bookTip EXCEPT ![p] = row]
        /\ bookOwner' = [bookOwner EXCEPT ![p] = s]
  BY DEF FillOrder
<1>4. Reserved(view[s], accountTip[r.account], p, OpenPosting(row)) \in AccountRow
  BY <1>1, <1>2, ReservedType DEF Typed, TypeOK
<1>5. accountTip' \in [Accounts -> AccountRow]
  BY <1>3, <1>4 DEF Typed, TypeOK
<1>6. bookTip' \in [Positions -> PositionRow] /\ bookOwner' \in [Positions -> Sessions \cup {Free}]
  BY <1>2, <1>3 DEF Typed, TypeOK
<1>7. TypeOK'
  BY <1>5, <1>6 DEF Typed, TypeOK, FillOrder, Goto, Labels, db, locals, runner
<1>8. LocalsOK'
  BY DEF Typed, TypeOK, LocalsOK, FillOrder, Goto, locals, db
<1>9. RowsOK'
  BY <1>1, <1>3 DEF Typed, TypeOK, RowsOK, FillOrder, db, OpenedRow
<1>. QED  BY <1>7, <1>8, <1>9 DEF Typed

LEMMA CloseRowTyped ==
  ASSUME Typed, NEW s \in Sessions, CloseRow(s)
  PROVE  Typed'
<1> DEFINE p    == current[s]
           row  == book[p]
           why  == Reason(s, row)
           exit == ExitFill(row, price[s], why)
           done == ClosedRow(row, exit, why)
<1>1. p \in Positions /\ row \in PositionRow /\ price[s] \in Prices \cup {None}
  BY DEF Typed, TypeOK, LocalsOK, CloseRow
<1>2. why \in {"none", "stop", "target", "manual"} /\ exit \in Nat
  BY <1>1, ExitType DEF Reason
<1>3. done \in PositionRow /\ JournalEntry(done) \in Entry
  BY <1>1, <1>2, ClosedRowType
<1>4. ClosePosting(row, exit, view[s].posted[p]) \in Posting
  BY <1>1, <1>2, ClosePostingType DEF Typed, TypeOK, AccountRow
<1>5. Rewritten(view[s], p, ClosePosting(row, exit, view[s].posted[p])) \in AccountRow
  BY <1>4, RewrittenType DEF Typed, TypeOK
<1>6. accountTip' \in [Accounts -> AccountRow]
  BY <1>5 DEF Typed, TypeOK, CloseRow
<1>7. bookTip' \in [Positions -> PositionRow]
  BY <1>3 DEF Typed, TypeOK, CloseRow
<1>8. journalTip' \in [Positions -> Entry]
  BY <1>1, <1>3 DEF Typed, TypeOK, CloseRow, Record
<1>9. TypeOK'
  BY <1>1, <1>6, <1>7, <1>8, EmptyTypes
     DEF Typed, TypeOK, CloseRow, Goto, Labels, db, runner
<1>10. LocalsOK'
  BY DEF Typed, TypeOK, LocalsOK, CloseRow, Goto, db
<1>11. RowsOK'
  <2>1. /\ row.account \in Accounts /\ done.account = row.account
        /\ row.symbol \in Symbols /\ done.symbol = row.symbol
    BY <1>1 DEF Typed, LocalsOK, RowsOK, CloseRow, ClosedRow, PositionRow
  <2>. QED  BY <1>1, <2>1 DEF Typed, TypeOK, RowsOK, CloseRow, db, ClosedRow, PositionRow
<1>. QED  BY <1>9, <1>10, <1>11 DEF Typed

LEMMA OrderTyped ==
  ASSUME Typed, NEW s \in Sessions, Ordering(s)
  PROVE  Typed'
<1>1. CASE LoadAccount(s)
  <2>1. SeenAccount(s, request[s].account) \in AccountRow
    BY <1>1, SeenType, Constants DEF Typed, LocalsOK, LoadAccount, Request
  <2>2. TypeOK'
    BY <1>1, <2>1 DEF Typed, TypeOK, LoadAccount, Goto, Labels, db, tips, runner
  <2>. QED  BY <1>1, <2>2 DEF Typed, TypeOK, LocalsOK, RowsOK, db, tips, LoadAccount, Goto
<1>2. CASE CreateAccount(s)
  <2>1. TypeOK'
    BY <1>2, EmptyTypes DEF Typed, TypeOK, CreateAccount, Goto, Labels, db, runner
  <2>. QED  BY <1>2, <2>1 DEF Typed, TypeOK, LocalsOK, RowsOK, db, tips, CreateAccount, Goto
<1>3. CASE CreateAccountFails(s)
  <2>1. TypeOK'
    BY <1>3, ForgetType DEF Typed, TypeOK, CreateAccountFails, Goto, Labels, db, tips, runner
  <2>. QED  BY <1>3, <2>1 DEF Typed, TypeOK, LocalsOK, RowsOK, db, tips, CreateAccountFails, Goto, Forget
<1>4. CASE RejectOrder(s)
  <2>1. TypeOK'
    BY <1>4 DEF Typed, TypeOK, RejectOrder, Goto, Labels, db, tips, locals, runner
  <2>. QED  BY <1>4, <2>1 DEF Typed, TypeOK, LocalsOK, RowsOK, db, tips, RejectOrder, Goto, locals
<1>5. CASE FillOrder(s)
  BY <1>5, FillOrderTyped
<1>. QED  BY <1>1, <1>2, <1>3, <1>4, <1>5 DEF Ordering

LEMMA CloseTyped ==
  ASSUME Typed, NEW s \in Sessions, Closing(s)
  PROVE  Typed'
<1>1. CASE Recheck(s)
  <2>1. TypeOK'
    BY <1>1 DEF Typed, TypeOK, Recheck, Goto, Labels, db, tips, locals, runner
  <2>. QED  BY <1>1, <2>1 DEF Typed, TypeOK, LocalsOK, RowsOK, db, tips, Recheck, Goto, locals
<1>2. CASE RecheckFails(s)
  <2>1. TypeOK'
    BY <1>2, ForgetType DEF Typed, TypeOK, RecheckFails, Goto, Labels, db, tips, runner
  <2>. QED  BY <1>2, <2>1 DEF Typed, TypeOK, LocalsOK, RowsOK, db, tips, RecheckFails, Goto, Forget
<1>3. ASSUME NEW p \in Positions, NextRow(s, p)
      PROVE  Typed'
  <2>1. SeenAccount(s, book[p].account) \in AccountRow
    BY <1>3, SeenType DEF Typed, TypeOK, LocalsOK, RowsOK, NextRow
  <2>2. TypeOK'
    BY <1>3, <2>1 DEF Typed, TypeOK, NextRow, Goto, Labels, db, tips, runner
  <2>. QED  BY <1>3, <2>2 DEF Typed, TypeOK, LocalsOK, RowsOK, db, tips, NextRow, Goto
<1>4. CASE CloseRow(s)
  BY <1>4, CloseRowTyped
<1>. QED  BY <1>1, <1>2, <1>3, <1>4 DEF Closing

LEMMA BeginTyped ==
  ASSUME Typed
  PROVE  /\ \A s \in Sessions, p \in Positions : RequestClose(s, p) => Typed'
         /\ \A sym \in Symbols, tick \in Prices : OnQuote(sym, tick) => Typed'
<1>1. ASSUME NEW s \in Sessions, NEW p \in Positions, RequestClose(s, p)
      PROVE  Typed'
  <2>1. book[p].account \in Accounts /\ book[p].symbol \in Symbols
    BY <1>1 DEF Typed, RowsOK, RequestClose
  <2>2. market[book[p].symbol] \in Prices \cup {None}
    BY <2>1 DEF Typed, TypeOK
  <2>3. TypeOK'
    BY <1>1, <2>1, <2>2 DEF Typed, TypeOK, RequestClose, Goto, Labels, db, tips, runner
  <2>. QED  BY <1>1, <2>3 DEF Typed, TypeOK, LocalsOK, RowsOK, db, tips, RequestClose, Goto
<1>2. ASSUME NEW sym \in Symbols, NEW tick \in Prices, OnQuote(sym, tick)
      PROVE  Typed'
  <2> DEFINE hits == {p \in OpenRows(sym) : ExitSignal(book[p], tick) # "none"}
  <2>1. /\ hits \subseteq Positions
        /\ \A p \in hits : book[p].status # "none" /\ book[p].account \in Accounts
    BY DEF Typed, RowsOK, OpenRows
  <2>2. {book[p].account : p \in hits} \subseteq Accounts
    BY <2>1
  <2>3. TypeOK'
    BY <1>2, <2>1, <2>2 DEF Typed, TypeOK, OnQuote, Goto, Labels, Sessions, db, tips
  <2>. QED  BY <1>2, <2>1, <2>3
            DEF Typed, TypeOK, LocalsOK, RowsOK, db, tips, OnQuote, Goto, Sessions
<1>. QED  BY <1>1, <1>2

LEMMA CommitTyped ==
  ASSUME Typed, NEW s \in Sessions, Commit(s)
  PROVE  Typed'
<1>1. TypeOK'
  <2>1. /\ account' \in [Accounts -> AccountRow]
        /\ book' \in [Positions -> PositionRow]
        /\ journal' \in [Positions -> Entry]
    BY DEF Typed, TypeOK, Commit
  <2>. QED  BY <2>1, ForgetType, UnlockType DEF Typed, TypeOK, Commit, Goto, Labels, runner
<1>2. \A p \in Positions : book[p].status # "none" => book'[p].status # "none"
  BY DEF Typed, TypeOK, RowsOK, Commit
<1>3. LocalsOK'
  BY <1>2 DEF Typed, TypeOK, LocalsOK, Commit, Goto, Forget
<1>4. RowsOK'
  BY DEF Typed, TypeOK, RowsOK, Commit
<1>. QED  BY <1>1, <1>3, <1>4 DEF Typed

LEMMA FailureTyped ==
  ASSUME Typed
  PROVE  /\ \A s \in Sessions : Abort(s) => Typed'
         /\ FeedRestart => Typed'
<1>1. ASSUME NEW s \in Sessions, Abort(s)
      PROVE  Typed'
  <2>1. TypeOK'
    BY <1>1, ForgetType, RollbackType DEF Typed, TypeOK, Abort, Goto, Labels, db
  <2>2. LocalsOK'
    BY <1>1 DEF Typed, TypeOK, LocalsOK, Abort, Goto, Forget, db
  <2>3. RowsOK'
    BY <1>1 DEF Typed, TypeOK, RowsOK, Abort, Rollback, db
  <2>. QED  BY <2>1, <2>2, <2>3 DEF Typed
<1>2. ASSUME FeedRestart
      PROVE  Typed'
  <2>1. TypeOK'
    BY <1>2, ForgetType, RollbackType DEF Typed, TypeOK, FeedRestart, Goto, Labels, Sessions, db
  <2>2. LocalsOK'
    BY <1>2 DEF Typed, TypeOK, LocalsOK, FeedRestart, Goto, Forget, Sessions, db
  <2>3. RowsOK'
    BY <1>2 DEF Typed, TypeOK, RowsOK, FeedRestart, Rollback, db
  <2>. QED  BY <2>1, <2>2, <2>3 DEF Typed
<1>. QED  BY <1>1, <1>2

LEMMA RunnerTyped ==
  ASSUME Typed,
         \/ \E sym \in Symbols, p \in Prices : Tick(sym, p)
         \/ Remaining \/ Discard \/ RefreshRead \/ RefreshApply
  PROVE  Typed'
<1>1. TypeOK'
  BY DEF Typed, TypeOK, Tick, Remaining, Discard, RefreshRead, RefreshApply, Goto, Labels,
         Sessions, db, tips, locals, runner
<1>2. LocalsOK'
  BY DEF Typed, TypeOK, LocalsOK, Tick, Remaining, Discard, RefreshRead, RefreshApply, Goto,
         Sessions, db, locals
<1>3. RowsOK'
  BY DEF Typed, RowsOK, Tick, Remaining, Discard, RefreshRead, RefreshApply, db, tips
<1>. QED  BY <1>1, <1>2, <1>3 DEF Typed

LEMMA NextTyped == Typed /\ [Next]_vars => Typed'
<1> SUFFICES ASSUME Typed, [Next]_vars PROVE Typed'
  OBVIOUS
<1>1. CASE UNCHANGED vars
  BY <1>1 DEF vars, db, tips, locals, runner, Typed, TypeOK, LocalsOK, RowsOK
<1>2. ASSUME NEW s \in Api, NEW r \in Requests, Submit(s, r) PROVE Typed'
  BY <1>2, SubmitTyped DEF Sessions
<1>3. ASSUME NEW s \in Sessions, Step(s) PROVE Typed'
  BY <1>3, OrderTyped, CloseTyped, CommitTyped DEF Step
<1>. QED  BY <1>1, <1>2, <1>3, BeginTyped, FailureTyped, RunnerTyped DEF Next, Works, Fails, Sessions

LEMMA AlwaysTyped == Spec => []Typed
  BY InitTyped, NextTyped, PTL DEF Spec

(* Every variable keeps its type in every reachable state: in particular no *)
(* session ever fills an order or closes a row it has not loaded.           *)
THEOREM TypeCorrect == Spec => []TypeOK
<1>1. Typed => TypeOK
  BY DEF Typed
<1>. QED  BY <1>1, AlwaysTyped, PTL
------------------------------------------------------------------------------
(* The book of record *)


(* BookOfRecord, of the committed rows and of their newest versions. *)
BothBooks ==
    \A p \in Positions :
        /\ book[p].status = "closed" <=> journal[p].exists
        /\ bookTip[p].status = "closed" <=> journalTip[p].exists

LEMMA RollbackBooks ==
  ASSUME Typed, BothBooks, NEW s \in Sessions, Rollback(s), UNCHANGED db
  PROVE  BothBooks'
  BY DEF Typed, TypeOK, BothBooks, Rollback, db

LEMMA NextBooks == Typed /\ BothBooks /\ [Next]_vars => BothBooks'
<1> SUFFICES ASSUME Typed, BothBooks, [Next]_vars PROVE BothBooks'
  OBVIOUS
<1>1. CASE UNCHANGED <<book, bookTip, journal, journalTip>>
  BY <1>1 DEF BothBooks
<1>2. ASSUME NEW s \in Sessions, FillOrder(s) PROVE BothBooks'
  BY <1>2 DEF Typed, TypeOK, BothBooks, FillOrder, OpenedRow, db
<1>3. ASSUME NEW s \in Sessions, CloseRow(s) PROVE BothBooks'
  BY <1>3 DEF Typed, TypeOK, BothBooks, CloseRow, db, ClosedRow, PositionRow, Record, JournalEntry
<1>4. ASSUME NEW s \in Sessions, Commit(s) PROVE BothBooks'
  BY <1>4 DEF Typed, TypeOK, BothBooks, Commit
<1>5. ASSUME NEW s \in Sessions, Abort(s) PROVE BothBooks'
  BY <1>5, RollbackBooks DEF Abort, db
<1>6. CASE FeedRestart
  BY <1>6, RollbackBooks DEF FeedRestart, db, Sessions
<1>. QED
  BY <1>1, <1>2, <1>3, <1>4, <1>5, <1>6
     DEF Next, Works, Fails, Step, Ordering, Closing, Tick, Submit, RequestClose, LoadAccount, CreateAccount,
         CreateAccountFails, RejectOrder, Recheck, RecheckFails, NextRow, OnQuote, Remaining,
         Discard, RefreshRead, RefreshApply, vars, db, tips

(* Whatever overlaps, rolls back or crashes, a committed position is closed *)
(* exactly when the journal has its round trip (PaperTradingService._close  *)
(* writes both in one transaction).                                         *)
THEOREM JournalComplete == Spec => []BookOfRecord
<1>1. Init => BothBooks
  BY DEF Init, BothBooks, NoRow, NoEntry
<1>2. BothBooks => BookOfRecord
  BY DEF BothBooks, BookOfRecord
<1>. QED  BY <1>1, <1>2, NextBooks, AlwaysTyped, PTL DEF Spec
------------------------------------------------------------------------------
(* No phantom postings *)

(* The positions session s may have found posted on account a: committed    *)
(* ones, and those it has inserted itself.                                  *)
Known(s, a, p) ==
    \/ book[p].status # "none" /\ book[p].account = a
    \/ s # Free /\ bookOwner[p] = s /\ bookTip[p].status # "none" /\ bookTip[p].account = a

SameAccount ==
    \A p \in Positions : book[p].status # "none" => bookTip[p].account = book[p].account

TipsKnown ==
    \A a \in Accounts, p \in Positions, t \in Sessions \cup {Free} :
        accountTip[a].posted[p] # Nothing /\ accountOwner[a] = t => Known(t, a, p)

ViewsKnown ==
    \A s \in Sessions, p \in Positions, a \in Accounts :
        view[s].posted[p] # Nothing =>
          /\ pc[s] = "fill" /\ request[s].account = a => Known(s, a, p)
          /\ pc[s] = "book" /\ book[current[s]].account = a => Known(s, a, p)

NoPhantoms == NoPhantomPostings /\ SameAccount /\ TipsKnown /\ ViewsKnown

(* A step that leaves the rows alone, but for one session's view. *)
LEMMA ViewStep ==
  ASSUME Typed, NoPhantoms, NEW s \in Sessions,
         UNCHANGED <<db, accountTip, accountOwner, bookTip, bookOwner>>,
         \A t \in Sessions \ {s} : UNCHANGED <<pc[t], request[t], view[t], current[t]>>,
         \A p \in Positions, a \in Accounts :
             view'[s].posted[p] # Nothing =>
               /\ pc'[s] = "fill" /\ request'[s].account = a => Known(s, a, p)
               /\ pc'[s] = "book" /\ book[current'[s]].account = a => Known(s, a, p)
  PROVE  NoPhantoms'
  BY DEF NoPhantoms, NoPhantomPostings, SameAccount, TipsKnown, ViewsKnown, Known, db

(* What a SELECT returns is known to the session. *)
LEMMA SeenKnown ==
  ASSUME Typed, NoPhantoms, NEW s \in Sessions, NEW a \in Accounts, NEW p \in Positions,
         SeenAccount(s, a).posted[p] # Nothing
  PROVE  Known(s, a, p)
  BY DEF NoPhantoms, NoPhantomPostings, TipsKnown, SeenAccount, Known

LEMMA EmptyView == \A p \in Positions : NoAccount.posted[p] = Nothing /\ NewAccount.posted[p] = Nothing
  BY DEF NoAccount, NewAccount

LEMMA FillOrderPhantoms ==
  ASSUME Typed, NoPhantoms, NEW s \in Sessions, FillOrder(s)
  PROVE  NoPhantoms'
<1> DEFINE r == request[s]
           row == OpenedRow(r, Decide(r, price[s]))
<1>1. r \in Requests /\ r.account \in Accounts
  BY Constants DEF Typed, LocalsOK, FillOrder, Request
<1>2. row.account = r.account /\ row.status = "open"
  BY DEF OpenedRow
<1>3. PICK p \in Positions :
        /\ bookTip[p].status = "none"
        /\ accountTip' = [accountTip EXCEPT ![r.account] =
                             Reserved(view[s], @, p, OpenPosting(row))]
        /\ bookTip' = [bookTip EXCEPT ![p] = row]
        /\ bookOwner' = [bookOwner EXCEPT ![p] = s]
  BY DEF FillOrder
<1>4. book[p].status = "none"
  BY <1>3 DEF Typed, RowsOK
<1>5. \A t \in Sessions \cup {Free}, a \in Accounts, q \in Positions :
        Known(t, a, q) => Known(t, a, q)'
  BY <1>3, <1>4 DEF Known, FillOrder, db, Typed, TypeOK
<1>6. ASSUME NEW a \in Accounts, a = r.account
      PROVE  Known(s, a, p)'
  <2>1. s # Free
    BY Constants DEF Sessions
  <2>2. bookOwner'[p] = s /\ bookTip'[p] = row
    BY <1>3 DEF Typed, TypeOK
  <2>. QED  BY <1>2, <1>6, <2>1, <2>2 DEF Known
<1> DEFINE new == Reserved(view[s], accountTip[r.account], p, OpenPosting(row))
<1>7. ASSUME NEW q \in Positions \ {p}, new.posted[q] # Nothing
      PROVE  Known(s, r.account, q)
  <2>1. CASE view[s].posted[q] # Nothing
    BY <1>1, <2>1 DEF NoPhantoms, ViewsKnown, FillOrder
  <2>2. CASE view[s].posted[q] = Nothing
    <3>1. view[s].posted[q] = accountTip[r.account].posted[q] => new.posted[q] = view[s].posted[q]
      <4>1. view[s] \in AccountRow /\ accountTip[r.account] \in AccountRow
        BY <1>1 DEF Typed, TypeOK
      <4>. HIDE DEF row, r
      <4>. QED  BY <4>1, ReservedSame
    <3>2. accountTip[r.account].posted[q] # Nothing
      BY <1>7, <2>2, <3>1
    <3>3. accountOwner[r.account] \in {Free, s}
      BY DEF FillOrder
    <3>. QED  BY <1>1, <3>2, <3>3 DEF NoPhantoms, TipsKnown, Known
  <2>. QED  BY <2>1, <2>2
<1>8. TipsKnown'
  <2> SUFFICES ASSUME NEW a \in Accounts, NEW q \in Positions, NEW t \in Sessions \cup {Free},
                      accountTip'[a].posted[q] # Nothing, accountOwner'[a] = t
               PROVE  Known(t, a, q)'
    BY DEF TipsKnown
  <2>1. CASE a # r.account
    <3>1. accountOwner[a] = t /\ accountTip[a].posted[q] # Nothing
      BY <1>1, <1>3, <2>1 DEF FillOrder, Typed, TypeOK
    <3>. QED  BY <3>1, <1>5 DEF NoPhantoms, TipsKnown
  <2>2. CASE a = r.account
    <3>1. t = s /\ accountTip'[a] = new
      BY <1>1, <1>3, <2>2 DEF FillOrder, Typed, TypeOK
    <3>. QED  BY <1>5, <1>6, <1>7, <2>2, <3>1
  <2>. QED  BY <2>1, <2>2
<1>9. ViewsKnown'
  BY <1>5 DEF NoPhantoms, ViewsKnown, FillOrder, Goto, locals, db, Typed, TypeOK
<1>10. SameAccount' /\ NoPhantomPostings'
  BY <1>3, <1>4 DEF NoPhantoms, SameAccount, NoPhantomPostings, FillOrder, db, Typed, TypeOK
<1>. QED  BY <1>8, <1>9, <1>10 DEF NoPhantoms

LEMMA CloseRowPhantoms ==
  ASSUME Typed, NoPhantoms, NEW s \in Sessions, CloseRow(s)
  PROVE  NoPhantoms'
<1> DEFINE p    == current[s]
           a    == book[p].account
           why  == Reason(s, book[p])
           exit == ExitFill(book[p], price[s], why)
           done == ClosedRow(book[p], exit, why)
           new  == Rewritten(view[s], p, ClosePosting(book[p], exit, view[s].posted[p]))
<1>1. p \in Positions /\ book[p].status # "none" /\ a \in Accounts
  BY DEF Typed, TypeOK, LocalsOK, RowsOK, CloseRow
<1>2. done.account = a /\ done.status = "closed"
  BY <1>1 DEF ClosedRow, Typed, TypeOK, PositionRow
<1>3. \A t \in Sessions \cup {Free}, b \in Accounts, q \in Positions :
        Known(t, b, q) => Known(t, b, q)'
  BY <1>1, <1>2 DEF Known, CloseRow, db, Typed, TypeOK, NoPhantoms, SameAccount
<1>4. Known(s, a, p)
  BY <1>1 DEF Known
<1>5. \A q \in Positions \ {p} :
        /\ new.posted[q] = view[s].posted[q]
        /\ view[s].posted[q] # Nothing => Known(s, a, q)
  BY <1>1 DEF Rewritten, NoPhantoms, ViewsKnown, CloseRow, Typed, TypeOK, AccountRow
<1>6. TipsKnown'
  <2> SUFFICES ASSUME NEW b \in Accounts, NEW q \in Positions, NEW t \in Sessions \cup {Free},
                      accountTip'[b].posted[q] # Nothing, accountOwner'[b] = t
               PROVE  Known(t, b, q)'
    BY DEF TipsKnown
  <2>1. CASE b # a
    <3>1. accountOwner[b] = t /\ accountTip[b].posted[q] # Nothing
      BY <1>1, <2>1 DEF CloseRow, Typed, TypeOK
    <3>. QED  BY <3>1, <1>3 DEF NoPhantoms, TipsKnown
  <2>2. CASE b = a
    <3>1. t = s /\ accountTip'[b] = new
      BY <2>2, <1>1 DEF CloseRow, Typed, TypeOK
    <3>. QED  BY <1>3, <1>4, <1>5, <2>2, <3>1
  <2>. QED  BY <2>1, <2>2
<1>7. ViewsKnown'
  <2>1. \A q \in Positions : view'[s].posted[q] = Nothing
    BY EmptyView DEF CloseRow, Typed, TypeOK
  <2>. QED  BY <1>3, <2>1 DEF NoPhantoms, ViewsKnown, CloseRow, Goto, db, Typed, TypeOK
<1>8. SameAccount' /\ NoPhantomPostings'
  BY <1>1, <1>2 DEF NoPhantoms, SameAccount, NoPhantomPostings, CloseRow, db, Typed, TypeOK
<1>. QED  BY <1>6, <1>7, <1>8 DEF NoPhantoms

LEMMA CommitPhantoms ==
  ASSUME Typed, NoPhantoms, NEW s \in Sessions, Commit(s)
  PROVE  NoPhantoms'
<1>1. s # Free
  BY Constants DEF Sessions
<1>2. \A t \in Sessions \cup {Free}, a \in Accounts, q \in Positions :
        Known(t, a, q) => Known(t, a, q)'
  BY DEF Known, Commit, Unlock, Typed, TypeOK, RowsOK, NoPhantoms, SameAccount
<1>3. \A a \in Accounts, q \in Positions :
        Known(s, a, q) => book'[q].status # "none" /\ book'[q].account = a
  BY DEF Known, Commit, Typed, TypeOK, RowsOK, NoPhantoms, SameAccount
<1>4. NoPhantomPostings'
  <2> SUFFICES ASSUME NEW a \in Accounts, NEW q \in Positions, account'[a].posted[q] # Nothing
               PROVE  book'[q].status # "none" /\ book'[q].account = a
    BY DEF NoPhantomPostings
  <2>1. CASE accountOwner[a] = s
    BY <1>3, <2>1 DEF Commit, Typed, TypeOK, NoPhantoms, TipsKnown
  <2>2. CASE accountOwner[a] # s
    BY <2>2 DEF Commit, Typed, TypeOK, RowsOK, NoPhantoms, NoPhantomPostings, SameAccount
  <2>. QED  BY <2>1, <2>2
<1>5. TipsKnown'
  <2> SUFFICES ASSUME NEW a \in Accounts, NEW q \in Positions, NEW t \in Sessions \cup {Free},
                      accountTip'[a].posted[q] # Nothing, accountOwner'[a] = t
               PROVE  Known(t, a, q)'
    BY DEF TipsKnown
  <2>1. CASE accountOwner[a] = s
    <3>1. Known(s, a, q)
      BY <2>1 DEF Commit, Typed, TypeOK, NoPhantoms, TipsKnown
    <3>. QED  BY <1>3, <3>1 DEF Known
  <2>2. CASE accountOwner[a] # s
    <3>1. accountOwner[a] = t /\ accountTip[a].posted[q] # Nothing
      BY <2>2 DEF Commit, Unlock, Typed, TypeOK
    <3>. QED  BY <1>2, <3>1 DEF NoPhantoms, TipsKnown
  <2>. QED  BY <2>1, <2>2
<1>6. ViewsKnown'
  <2>1. \A q \in Positions : view'[s].posted[q] = Nothing
    BY EmptyView DEF Commit, Forget, Typed, TypeOK
  <2>2. \A t \in Sessions \ {s} : UNCHANGED <<view[t], pc[t], request[t], current[t]>>
    BY DEF Commit, Forget, Goto, Typed, TypeOK
  <2>3. \A t \in Sessions : pc[t] = "book" => book'[current[t]].account = book[current[t]].account
    BY DEF Commit, Typed, TypeOK, LocalsOK, NoPhantoms, SameAccount
  <2>. QED  BY <1>2, <2>1, <2>2, <2>3 DEF NoPhantoms, ViewsKnown
<1>7. SameAccount'
  BY DEF Commit, Typed, TypeOK, RowsOK, NoPhantoms, SameAccount
<1>. QED  BY <1>4, <1>5, <1>6, <1>7 DEF NoPhantoms

LEMMA RollbackPhantoms ==
  ASSUME Typed, NoPhantoms, NEW s \in Sessions, Rollback(s), Forget(s), Goto(s, "idle"),
         UNCHANGED db
  PROVE  NoPhantoms'
<1>1. s # Free
  BY Constants DEF Sessions
<1>2. ASSUME NEW t \in Sessions \cup {Free}, t # s, NEW a \in Accounts, NEW q \in Positions,
             Known(t, a, q)
      PROVE  Known(t, a, q)'
  BY <1>2 DEF Known, Rollback, Unlock, Typed, TypeOK, db
<1>3. TipsKnown'
  <2> SUFFICES ASSUME NEW a \in Accounts, NEW q \in Positions, NEW t \in Sessions \cup {Free},
                      accountTip'[a].posted[q] # Nothing, accountOwner'[a] = t
               PROVE  Known(t, a, q)'
    BY DEF TipsKnown
  <2>1. CASE accountOwner[a] = s
    BY <2>1 DEF Rollback, Typed, TypeOK, NoPhantoms, NoPhantomPostings, Known, db
  <2>2. CASE accountOwner[a] # s
    <3>1. accountOwner[a] = t /\ t # s /\ accountTip[a].posted[q] # Nothing
      BY <1>1, <2>2 DEF Rollback, Unlock, Typed, TypeOK
    <3>. QED  BY <1>2, <3>1 DEF NoPhantoms, TipsKnown
  <2>. QED  BY <2>1, <2>2
<1>4. ViewsKnown'
  <2>1. \A q \in Positions : view'[s].posted[q] = Nothing
    BY EmptyView DEF Forget, Typed, TypeOK
  <2>2. \A t \in Sessions \ {s} : UNCHANGED <<view[t], pc[t], request[t], current[t]>>
    BY DEF Forget, Goto, Typed, TypeOK
  <2>. QED  BY <1>2, <2>1, <2>2 DEF NoPhantoms, ViewsKnown, db
<1>5. SameAccount' /\ NoPhantomPostings'
  BY DEF Rollback, Typed, TypeOK, NoPhantoms, NoPhantomPostings, SameAccount, db
<1>. QED  BY <1>3, <1>4, <1>5 DEF NoPhantoms

LEMMA CreatePhantoms ==
  ASSUME Typed, NoPhantoms, NEW s \in Sessions, CreateAccount(s)
  PROVE  NoPhantoms'
<1>1. \A q \in Positions : view'[s].posted[q] = Nothing
  BY EmptyView DEF CreateAccount, Typed, TypeOK
<1>2. request[s].account \in Accounts
  BY Constants DEF Typed, LocalsOK, CreateAccount, Request
<1>3. \A q \in Positions : accountTip'[request[s].account].posted[q] = Nothing
  BY <1>2, EmptyView DEF CreateAccount, Typed, TypeOK
<1>4. \A t, a, q : Known(t, a, q)' = Known(t, a, q)
  BY DEF CreateAccount, Known, db
<1>5. TipsKnown'
  BY <1>2, <1>3, <1>4 DEF CreateAccount, Typed, TypeOK, NoPhantoms, TipsKnown
<1>6. ViewsKnown'
  BY <1>1, <1>4 DEF CreateAccount, Goto, Typed, TypeOK, NoPhantoms, ViewsKnown, db
<1>. QED  BY <1>5, <1>6 DEF CreateAccount, NoPhantoms, NoPhantomPostings, SameAccount, db

(* The steps that write no row. *)
LEMMA ReadPhantoms ==
  ASSUME Typed, NoPhantoms, NEW s \in Sessions
  PROVE  /\ LoadAccount(s) => NoPhantoms'
         /\ \A p \in Positions : NextRow(s, p) => NoPhantoms'
<1>1. CASE LoadAccount(s)
  <2>1. request[s].account \in Accounts
    BY <1>1, Constants DEF Typed, LocalsOK, LoadAccount, Request
  <2>2. view'[s] = SeenAccount(s, request[s].account) /\ request' = request /\ pc'[s] # "book"
    BY <1>1 DEF LoadAccount, Goto, Typed, TypeOK
  <2>3. UNCHANGED <<db, accountTip, accountOwner, bookTip, bookOwner, request, current>>
    BY <1>1 DEF LoadAccount, db, tips
  <2>4. \A t \in Sessions \ {s} : UNCHANGED <<pc[t], request[t], view[t], current[t]>>
    BY <1>1, <2>3 DEF LoadAccount, Goto, Typed, TypeOK
  <2>. QED  BY <2>1, <2>2, <2>3, <2>4, SeenKnown, ViewStep
<1>2. ASSUME NEW p \in Positions, NextRow(s, p) PROVE NoPhantoms'
  <2>1. book[p].account \in Accounts
    BY <1>2 DEF Typed, LocalsOK, RowsOK, NextRow
  <2>2. view'[s] = SeenAccount(s, book[p].account) /\ current'[s] = p /\ pc'[s] = "book"
    BY <1>2 DEF NextRow, Goto, Typed, TypeOK
  <2>3. UNCHANGED <<db, accountTip, accountOwner, bookTip, bookOwner, request>>
    BY <1>2 DEF NextRow, db, tips
  <2>4. \A t \in Sessions \ {s} : UNCHANGED <<pc[t], request[t], view[t], current[t]>>
    BY <1>2, <2>3 DEF NextRow, Goto, Typed, TypeOK
  <2>. QED  BY <2>1, <2>2, <2>3, <2>4, SeenKnown, ViewStep
<1>. QED  BY <1>1, <1>2

(* The steps after which the session holds no view: it begins, or is done. *)
LEMMA QuietPhantoms ==
  ASSUME Typed, NoPhantoms, NEW s \in Sessions,
         UNCHANGED <<db, accountTip, accountOwner, bookTip, bookOwner>>,
         \A t \in Sessions \ {s} : UNCHANGED <<pc[t], request[t], view[t], current[t]>>,
         pc'[s] \notin {"fill", "book"}
  PROVE  NoPhantoms'
  BY ViewStep

LEMMA OtherPhantoms ==
  ASSUME Typed, NoPhantoms, NEW s \in Sessions,
         \/ \E r \in Requests : Submit(s, r)
         \/ \E p \in Positions : RequestClose(s, p)
         \/ CreateAccountFails(s) \/ RejectOrder(s) \/ Recheck(s) \/ RecheckFails(s)
         \/ s = Feed /\ ((\E sym \in Symbols, tick \in Prices : OnQuote(sym, tick)) \/ Remaining \/ Discard)
  PROVE  NoPhantoms'
<1>1. UNCHANGED <<db, accountTip, accountOwner, bookTip, bookOwner>>
  BY DEF Submit, RequestClose, CreateAccountFails, RejectOrder, Recheck, RecheckFails, OnQuote,
         Remaining, Discard, tips, db
<1>2. pc'[s] \notin {"fill", "book"}
  BY DEF Submit, RequestClose, CreateAccountFails, RejectOrder, Recheck, RecheckFails, OnQuote,
         Remaining, Discard, Goto, Typed, TypeOK
<1>3. \A t \in Sessions \ {s} : UNCHANGED <<pc[t], request[t], view[t], current[t]>>
  <2>1. CASE (\E r \in Requests : Submit(s, r)) \/ (\E p \in Positions : RequestClose(s, p))
    BY <2>1 DEF Submit, RequestClose, Goto, Typed, TypeOK
  <2>2. CASE CreateAccountFails(s) \/ RejectOrder(s) \/ Recheck(s) \/ RecheckFails(s)
    BY <2>2 DEF CreateAccountFails, RejectOrder, Recheck, RecheckFails, Goto, Forget, locals, Typed,
                TypeOK
  <2>3. CASE s = Feed /\ ((\E sym \in Symbols, tick \in Prices : OnQuote(sym, tick)) \/ Remaining \/ Discard)
    BY <2>3 DEF OnQuote, Remaining, Discard, Goto, locals, Typed, TypeOK
  <2>. QED  BY <2>1, <2>2, <2>3
<1>. QED  BY <1>1, <1>2, <1>3, QuietPhantoms

LEMMA NextPhantoms == Typed /\ NoPhantoms /\ [Next]_vars => NoPhantoms'
<1> SUFFICES ASSUME Typed, NoPhantoms, [Next]_vars PROVE NoPhantoms'
  OBVIOUS
<1>1. CASE \/ UNCHANGED vars
           \/ \E sym \in Symbols, p \in Prices : Tick(sym, p)
           \/ RefreshRead \/ RefreshApply
  BY <1>1 DEF NoPhantoms, NoPhantomPostings, SameAccount, TipsKnown, ViewsKnown, Known, vars, db,
              tips, locals, runner, Tick, RefreshRead, RefreshApply
<1>2. ASSUME NEW s \in Sessions, Step(s) PROVE NoPhantoms'
  BY <1>2, ReadPhantoms, CreatePhantoms, FillOrderPhantoms, CloseRowPhantoms, CommitPhantoms,
     OtherPhantoms DEF Step, Ordering, Closing
<1>3. ASSUME NEW s \in Sessions, Abort(s) PROVE NoPhantoms'
  BY <1>3, RollbackPhantoms DEF Abort, db
<1>4. CASE FeedRestart
  BY <1>4, RollbackPhantoms DEF FeedRestart, Sessions, db
<1>5. ASSUME NEW s \in Sessions,
             \/ \E r \in Requests : Submit(s, r)
             \/ \E p \in Positions : RequestClose(s, p)
             \/ s = Feed /\ ((\E sym \in Symbols, tick \in Prices : OnQuote(sym, tick)) \/ Remaining \/ Discard)
      PROVE  NoPhantoms'
  BY <1>5, OtherPhantoms
<1>. QED  BY <1>1, <1>2, <1>3, <1>4, <1>5 DEF Next, Works, Fails, Sessions

(* No money of an order that never committed reaches a committed account,   *)
(* although sessions overwrite whole account rows with what they read       *)
(* before, and although any of them may be rolled back at any point.        *)
THEOREM NothingOutOfThinAir == Spec => []NoPhantomPostings
<1>1. Init => NoPhantoms
  BY EmptyView
     DEF Init, NoPhantoms, NoPhantomPostings, SameAccount, TipsKnown, ViewsKnown, NoRow
<1>2. NoPhantoms => NoPhantomPostings
  BY DEF NoPhantoms
<1>. QED  BY <1>1, <1>2, NextPhantoms, AlwaysTyped, PTL DEF Spec
------------------------------------------------------------------------------
(* Immutable history *)

(* A newest version only ever completes the committed row it replaces. *)
TipsComplete ==
    \A p \in Positions :
        /\ journal[p].exists => journalTip[p] = journal[p]
        /\ book[p].status # "none" => Terms(bookTip[p]) = Terms(book[p])
        /\ book[p].status = "closed" => bookTip[p].status = "closed"

LEMMA RollbackComplete ==
  ASSUME Typed, TipsComplete, NEW s \in Sessions, Rollback(s), UNCHANGED db
  PROVE  TipsComplete'
  BY DEF Typed, TypeOK, TipsComplete, Rollback, Terms, db

LEMMA NextComplete == Typed /\ TipsComplete /\ [Next]_vars => TipsComplete'
<1> SUFFICES ASSUME Typed, TipsComplete, [Next]_vars PROVE TipsComplete'
  OBVIOUS
<1>1. CASE UNCHANGED <<book, bookTip, journal, journalTip>>
  BY <1>1 DEF TipsComplete, Terms
<1>2. ASSUME NEW s \in Sessions, FillOrder(s) PROVE TipsComplete'
  BY <1>2 DEF Typed, TypeOK, RowsOK, TipsComplete, FillOrder, db
<1>3. ASSUME NEW s \in Sessions, CloseRow(s) PROVE TipsComplete'
  BY <1>3 DEF Typed, TypeOK, TipsComplete, CloseRow, db, ClosedRow, PositionRow, Record, Terms
<1>4. ASSUME NEW s \in Sessions, Commit(s) PROVE TipsComplete'
  BY <1>4 DEF Typed, TypeOK, TipsComplete, Commit, Terms
<1>5. ASSUME NEW s \in Sessions, Abort(s) PROVE TipsComplete'
  BY <1>5, RollbackComplete DEF Abort, db
<1>6. CASE FeedRestart
  BY <1>6, RollbackComplete DEF FeedRestart, db, Sessions
<1>. QED
  BY <1>1, <1>2, <1>3, <1>4, <1>5, <1>6
     DEF Next, Works, Fails, Step, Ordering, Closing, Tick, Submit, RequestClose, LoadAccount, CreateAccount,
         CreateAccountFails, RejectOrder, Recheck, RecheckFails, NextRow, OnQuote, Remaining,
         Discard, RefreshRead, RefreshApply, vars, db, tips

(* A committed round trip is never rewritten, an opened position keeps its  *)
(* terms and a closed one stays closed, whichever sessions overlap.         *)
THEOREM HistoryStands == Spec => HistoryImmutable
<1> DEFINE Stands == \A p \in Positions :
                       /\ journal[p].exists => journal'[p] = journal[p]
                       /\ book[p].status # "none" => Terms(book'[p]) = Terms(book[p])
                       /\ book[p].status = "closed" => book'[p].status = "closed"
<1>1. Init => TipsComplete
  BY DEF Init, TipsComplete, NoRow, NoEntry
<1>2. Typed /\ TipsComplete /\ [Next]_vars => [Stands]_db
  <2> SUFFICES ASSUME Typed, TipsComplete, [Next]_vars PROVE [Stands]_db
    OBVIOUS
  <2>1. CASE UNCHANGED db
    BY <2>1
  <2>2. ASSUME NEW s \in Sessions, Commit(s) PROVE Stands
    BY <2>2 DEF Typed, TypeOK, TipsComplete, Commit, Terms
  <2>. QED
    BY <2>1, <2>2
       DEF Next, Works, Fails, Step, Ordering, Closing, Tick, Submit, RequestClose, LoadAccount, CreateAccount,
           CreateAccountFails, RejectOrder, FillOrder, Recheck, RecheckFails, NextRow, CloseRow,
           Abort, OnQuote, Remaining, Discard, RefreshRead, RefreshApply, FeedRestart, vars
<1>. QED  BY <1>1, <1>2, NextComplete, AlwaysTyped, PTL DEF Spec, HistoryImmutable
------------------------------------------------------------------------------
(***************************************************************************)
(* What paper trading guarantees when no two transactions work on one      *)
(* account at a time: the cash of every account is exactly what its own    *)
(* positions owe it, for every set of accounts, positions and sessions.    *)
(***************************************************************************)

(* A row that was never opened belongs to nobody, and an account that was   *)
(* never created holds nothing.                                             *)
Blank ==
    /\ \A p \in Positions : /\ book[p].status = "none" => book[p].account = Free
                            /\ bookTip[p].status = "none" => bookTip[p].account = Free
    /\ \A a \in Accounts : /\ ~account[a].exists => account[a] = NoAccount
                           /\ ~accountTip[a].exists => accountTip[a] = NoAccount

(* Locks are held by transactions that work on the account and have begun to *)
(* write, and a row's lock comes with its account's; rows nobody holds have *)
(* one version.                                                             *)
Writing == {"fill", "rows", "book", "commit"}
Locked ==
    /\ \A a \in Accounts : /\ \A s \in Sessions :
                              accountOwner[a] = s => a \in scope[s] /\ pc[s] \in Writing
                           /\ accountOwner[a] = Free => accountTip[a] = account[a]
    /\ \A p \in Positions :
          /\ \A s \in Sessions : bookOwner[p] = s =>
                /\ bookTip[p].status # "none"
                /\ accountOwner[bookTip[p].account] = s
          /\ bookOwner[p] = Free => bookTip[p] = book[p]

(* No two transactions work on one account. *)
Scoped ==
    /\ \A s, t \in Sessions : s # t => scope[s] \cap scope[t] = {}
    /\ \A s \in Sessions : pc[s] \in {"idle", "remaining", "discard"} => scope[s] = {}
    /\ \A s \in Sessions :
          pc[s] \in {"order", "create", "fill"} => request[s].account \in scope[s]

(* What a session read is still so. *)
Fresh ==
    /\ \A s \in Sessions : \A p \in todo[s] :
          /\ book[p].status = "open"
          /\ bookTip[p] = book[p]
          /\ book[p].account \in scope[s]
    /\ \A s \in Sessions, a \in Accounts :
          \/ pc[s] = "fill" /\ a = request[s].account
          \/ pc[s] = "book" /\ a = book[current[s]].account
          => view[s].posted = accountTip[a].posted

(* Committed and newest rows alike: accounts hold what positions owe.       *)
Paid ==
    \A a \in Accounts, p \in Positions :
        /\ account[a].posted[p] = Due(a, book[p])
        /\ accountTip[a].posted[p] = Due(a, bookTip[p])

Isolation == SameAccount /\ Blank /\ Locked /\ Scoped /\ Fresh /\ Paid
------------------------------------------------------------------------------
(* The arithmetic of a round trip: what was reserved at the opening, and    *)
(* what the close adds to it, make the net result and both fees.            *)
LEMMA RoundTrip ==
  ASSUME NEW row \in PositionRow, NEW exit \in Nat, NEW why
  PROVE  ClosePosting(row, exit, OpenPosting(row)) = Settled(ClosedRow(row, exit, why))
<1> DEFINE done == ClosedRow(row, exit, why)
<1>1. /\ done.exit = exit /\ done.entry = row.entry
      /\ done.quantity = row.quantity /\ done.side = row.side
  BY DEF ClosedRow, PositionRow
<1>2. /\ NetPnl(done, done.exit) = NetPnl(row, exit)
      /\ EntryFee(done) = EntryFee(row)
      /\ ExitFee(done, done.exit) = ExitFee(row, exit)
  BY <1>1 DEF NetPnl, GrossPnl, EntryFee, EntryNotional, ExitFee
<1>3. /\ OpenPosting(row).cash = -(EntryNotional(row) + EntryFee(row))
      /\ OpenPosting(row).realized = 0
      /\ OpenPosting(row).fees = EntryFee(row)
  BY DEF OpenPosting
<1>4. /\ -(EntryNotional(row) + EntryFee(row)) + EntryNotional(row) + GrossPnl(row, exit)
           - ExitFee(row, exit) = NetPnl(row, exit)
      /\ 0 + NetPnl(row, exit) = NetPnl(row, exit)
  BY RowMoney DEF NetPnl
<1>. QED  BY <1>2, <1>3, <1>4 DEF ClosePosting, Settled

LEMMA DueElsewhere ==
  ASSUME NEW a, NEW row, row.account # a
  PROVE  Due(a, row) = Nothing
  BY DEF Due

(* An account that s has not written owes the same to both versions of the  *)
(* rows s has written, and so does one that s has, to the rows it has not.  *)
LEMMA OneVersion ==
  ASSUME Typed, Isolation, NEW s \in Sessions, NEW a \in Accounts, NEW p \in Positions,
         (accountOwner[a] = s) # (bookOwner[p] = s)
  PROVE  Due(a, bookTip[p]) = Due(a, book[p])
<1>1. CASE bookOwner[p] = Free
  BY <1>1 DEF Isolation, Locked
<1>2. CASE bookOwner[p] # Free
  <2>1. /\ bookTip[p].status # "none"
        /\ accountOwner[bookTip[p].account] = bookOwner[p]
    BY <1>2 DEF Isolation, Locked, Typed, TypeOK
  <2>2. bookTip[p].account # a
    BY <2>1
  <2>3. book[p].account # a
    BY <2>2, Constants DEF Isolation, SameAccount, Blank
  <2>. QED  BY <2>2, <2>3, DueElsewhere
<1>. QED  BY <1>1, <1>2

(* A session's own accounts are its own: nobody else holds their rows.      *)
LEMMA OwnAccount ==
  ASSUME Typed, Isolation, NEW s \in Sessions, NEW a \in scope[s]
  PROVE  /\ a \in Accounts
         /\ accountOwner[a] \in {s, Free}
         /\ SeenAccount(s, a) = accountTip[a]
         /\ \A t \in Sessions : a \in scope[t] => t = s
<1>1. a \in Accounts
  BY DEF Typed, TypeOK
<1>2. \A t \in Sessions : a \in scope[t] => t = s
  BY DEF Isolation, Scoped
<1>3. accountOwner[a] \in {s, Free}
  BY <1>1, <1>2 DEF Isolation, Locked, Typed, TypeOK
<1>. QED  BY <1>1, <1>2, <1>3 DEF Isolation, Locked, SeenAccount

(* A step that leaves all rows alone, seen from the session that takes it.  *)
LEMMA LocalStep ==
  ASSUME Typed, Isolation, NEW s \in Sessions,
         UNCHANGED <<db, tips>>,
         \A t \in Sessions \ {s} :
             UNCHANGED <<pc[t], request[t], view[t], todo[t], current[t], scope[t]>>,
         \A t \in Sessions \ {s} : scope'[s] \cap scope[t] = {},
         pc'[s] \in {"idle", "remaining", "discard"} => scope'[s] = {},
         pc'[s] \in {"order", "create", "fill"} => request'[s].account \in scope'[s],
         \A a \in Accounts : accountOwner[a] = s => a \in scope'[s] /\ pc'[s] \in Writing,
         \A p \in todo'[s] : /\ book[p].status = "open"
                             /\ bookTip[p] = book[p]
                             /\ book[p].account \in scope'[s],
         \A a \in Accounts : \/ pc'[s] = "fill" /\ a = request'[s].account
                             \/ pc'[s] = "book" /\ a = book[current'[s]].account
                             => view'[s].posted = accountTip[a].posted
  PROVE  Isolation'
<1>1. SameAccount' /\ Blank' /\ Paid'
  BY DEF Isolation, SameAccount, Blank, Paid, db, tips
<1>2. Locked'
  BY DEF Isolation, Locked, db, tips
<1>3. Scoped'
  BY DEF Isolation, Scoped
<1>4. Fresh'
  BY DEF Isolation, Fresh, db, tips
<1>. QED  BY <1>1, <1>2, <1>3, <1>4 DEF Isolation

(* A row whose account nobody works on has one version. *)
LEMMA UnheldRow ==
  ASSUME Typed, Isolation, NEW p \in Positions, book[p].status = "open",
         \A t \in Sessions : book[p].account \notin scope[t]
  PROVE  bookTip[p] = book[p]
<1>1. bookTip[p].account = book[p].account /\ book[p].account \in Accounts
  BY DEF Isolation, SameAccount, Typed, RowsOK
<1>. QED  BY <1>1 DEF Isolation, Locked, Typed, TypeOK

(* A transaction begins. *)
LEMMA BeginIsolated ==
  ASSUME Typed, Isolation, Isolated
  PROVE  /\ \A s \in Api, r \in Requests : Submit(s, r) => Isolation'
         /\ \A s \in Api, p \in Positions : RequestClose(s, p) => Isolation'
         /\ \A sym \in Symbols, tick \in Prices : OnQuote(sym, tick) => Isolation'
<1>1. ASSUME NEW s \in Sessions, pc[s] = "idle"
      PROVE  scope[s] = {} /\ \A a \in Accounts : accountOwner[a] # s
  BY <1>1 DEF Isolation, Scoped, Locked
<1>2. ASSUME NEW s \in Api, NEW r \in Requests, Submit(s, r) PROVE Isolation'
  <2>1. s \in Sessions /\ pc[s] = "idle" /\ todo[s] = todo'[s]
    BY <1>2 DEF Sessions, Submit
  <2>2. UNCHANGED <<db, tips>> /\ pc'[s] = "order" /\ request'[s] = r /\ scope'[s] = {r.account}
    BY <1>2, <2>1 DEF Submit, Goto, Typed, TypeOK
  <2>3. \A t \in Sessions \ {s} :
            /\ UNCHANGED <<pc[t], request[t], view[t], todo[t], current[t], scope[t]>>
            /\ scope'[s] \cap scope[t] = {}
    BY <1>2, <2>2 DEF Submit, Goto, Typed, TypeOK, MayWorkOn
  <2>4. todo'[s] = {}
    BY <1>1, <2>1 DEF Isolation, Fresh
  <2>. QED  BY <1>1, <2>1, <2>2, <2>3, <2>4, LocalStep
<1>3. ASSUME NEW s \in Api, NEW p \in Positions, RequestClose(s, p) PROVE Isolation'
  <2>1. s \in Sessions /\ pc[s] = "idle"
    BY <1>3 DEF Sessions, RequestClose
  <2>2. /\ UNCHANGED <<db, tips>> /\ pc'[s] = "recheck" /\ todo'[s] = {p}
        /\ scope'[s] = {book[p].account} /\ book[p].status = "open"
    BY <1>3, <2>1 DEF RequestClose, Goto, Typed, TypeOK
  <2>3. \A t \in Sessions \ {s} :
            /\ UNCHANGED <<pc[t], request[t], view[t], todo[t], current[t], scope[t]>>
            /\ scope'[s] \cap scope[t] = {}
    BY <1>3, <2>2 DEF RequestClose, Goto, Typed, TypeOK, MayWorkOn
  <2>4. bookTip[p] = book[p]
    BY <1>1, <2>1, <2>2, <2>3, UnheldRow
  <2>. QED  BY <1>1, <2>1, <2>2, <2>3, <2>4, LocalStep
<1>4. ASSUME NEW sym \in Symbols, NEW tick \in Prices, OnQuote(sym, tick) PROVE Isolation'
  <2> DEFINE hits == {p \in OpenRows(sym) : ExitSignal(book[p], tick) # "none"}
             accts == {book[p].account : p \in hits}
  <2>1. Feed \in Sessions /\ pc[Feed] = "idle"
    BY <1>4 DEF Sessions, OnQuote
  <2>2. UNCHANGED <<db, tips>> /\ pc'[Feed] = "rows" /\ todo'[Feed] = hits /\ scope'[Feed] = accts
    BY <1>4, <2>1 DEF OnQuote, Goto, Typed, TypeOK
  <2>3. \A t \in Sessions \ {Feed} :
            /\ UNCHANGED <<pc[t], request[t], view[t], todo[t], current[t], scope[t]>>
            /\ scope'[Feed] \cap scope[t] = {}
    BY <1>4, <2>2 DEF OnQuote, Goto, Typed, TypeOK, MayWorkOn
  <2>4. \A p \in hits : p \in Positions /\ book[p].status = "open" /\ book[p].account \in accts
    BY DEF OpenRows
  <2>5. \A p \in hits, t \in Sessions : book[p].account \notin scope[t]
    BY <1>1, <2>1, <2>2, <2>3, <2>4
  <2>6. \A p \in hits : bookTip[p] = book[p]
    BY <2>4, <2>5, UnheldRow
  <2>. QED  BY <1>1, <2>1, <2>2, <2>3, <2>4, <2>6, LocalStep
<1>. QED  BY <1>2, <1>3, <1>4

(* A session looks at a row: what it sees is the row's newest version.      *)
LEMMA ReadIsolated ==
  ASSUME Typed, Isolation, NEW s \in Sessions
  PROVE  /\ LoadAccount(s) => Isolation'
         /\ \A p \in Positions : NextRow(s, p) => Isolation'
<1>1. CASE LoadAccount(s)
  <2> DEFINE a == request[s].account
  <2>1. a \in scope[s]
    BY <1>1 DEF Isolation, Scoped, LoadAccount
  <2>2. /\ UNCHANGED <<db, tips, request, todo, current, scope>>
        /\ pc'[s] \in {"fill", "create"} /\ view'[s] = SeenAccount(s, a)
    BY <1>1 DEF LoadAccount, Goto, Typed, TypeOK
  <2>3. \A t \in Sessions \ {s} :
            UNCHANGED <<pc[t], request[t], view[t], todo[t], current[t], scope[t]>>
    BY <1>1, <2>2 DEF LoadAccount, Goto, Typed, TypeOK
  <2>4. view'[s].posted = accountTip[a].posted
    BY <2>1, <2>2, OwnAccount
  <2>5. \A b \in Accounts : accountOwner[b] # s
    BY <1>1 DEF LoadAccount, Isolation, Locked, Writing
  <2>. QED  BY <2>1, <2>2, <2>3, <2>4, <2>5, LocalStep DEF Isolation, Scoped, Fresh
<1>2. ASSUME NEW p \in Positions, NextRow(s, p) PROVE Isolation'
  <2> DEFINE a == book[p].account
  <2>1. a \in scope[s]
    BY <1>2 DEF Isolation, Fresh, NextRow
  <2>2. /\ UNCHANGED <<db, tips, request, todo, scope>>
        /\ pc'[s] = "book" /\ current'[s] = p /\ view'[s] = SeenAccount(s, a)
    BY <1>2 DEF NextRow, Goto, Typed, TypeOK
  <2>3. \A t \in Sessions \ {s} :
            UNCHANGED <<pc[t], request[t], view[t], todo[t], current[t], scope[t]>>
    BY <1>2, <2>2 DEF NextRow, Goto, Typed, TypeOK
  <2>4. view'[s].posted = accountTip[a].posted
    BY <2>1, <2>2, OwnAccount
  <2>. QED  BY <2>1, <2>2, <2>3, <2>4, LocalStep DEF Isolation, Scoped, Fresh, Locked, Writing
<1>. QED  BY <1>1, <1>2

(* A session moves on, or ends having written nothing. *)
LEMMA MoveIsolated ==
  ASSUME Typed, Isolation, NEW s \in Sessions,
         \/ CreateAccountFails(s) \/ RecheckFails(s)
         \/ RejectOrder(s) \/ Recheck(s)
         \/ s = Feed /\ (Remaining \/ Discard)
  PROVE  Isolation'
<1>1. CASE CreateAccountFails(s) \/ RecheckFails(s)
  <2>1. /\ UNCHANGED <<db, tips>> /\ pc'[s] = "idle" /\ todo'[s] = {} /\ scope'[s] = {}
        /\ \A t \in Sessions \ {s} :
              UNCHANGED <<pc[t], request[t], view[t], todo[t], current[t], scope[t]>>
    BY <1>1 DEF CreateAccountFails, RecheckFails, Forget, Goto, Typed, TypeOK
  <2>2. \A a \in Accounts : accountOwner[a] # s
    BY <1>1 DEF CreateAccountFails, RecheckFails, Isolation, Locked, Writing
  <2>. QED  BY <2>1, <2>2, LocalStep
<1>2. CASE RejectOrder(s) \/ Recheck(s)
  <2>1. /\ UNCHANGED <<db, tips, locals>> /\ pc'[s] \in {"commit", "rows"}
        /\ \A t \in Sessions \ {s} :
              UNCHANGED <<pc[t], request[t], view[t], todo[t], current[t], scope[t]>>
    BY <1>2 DEF RejectOrder, Recheck, locals, Goto, Typed, TypeOK
  <2>2. \A a \in Accounts : accountOwner[a] = s => a \in scope[s]
    BY DEF Isolation, Locked
  <2>3. UNCHANGED <<scope, todo>>
    BY <2>1 DEF locals
  <2>. QED  BY <2>1, <2>2, <2>3, LocalStep DEF Isolation, Scoped, Fresh, Writing
<1>3. CASE s = Feed /\ (Remaining \/ Discard)
  <2>1. /\ UNCHANGED <<db, tips, locals>> /\ pc'[s] \in {"discard", "idle"}
        /\ \A t \in Sessions \ {s} :
              UNCHANGED <<pc[t], request[t], view[t], todo[t], current[t], scope[t]>>
    BY <1>3 DEF Remaining, Discard, locals, Goto, Typed, TypeOK
  <2>2. (\A a \in Accounts : accountOwner[a] # s) /\ scope[s] = {}
    BY <1>3 DEF Remaining, Discard, Isolation, Locked, Writing, Scoped
  <2>3. UNCHANGED <<scope, todo>>
    BY <2>1 DEF locals
  <2>. QED  BY <2>1, <2>2, <2>3, LocalStep DEF Isolation, Scoped, Fresh
<1>. QED  BY <1>1, <1>2, <1>3

LEMMA CreateIsolated ==
  ASSUME Typed, Isolation, NEW s \in Sessions, CreateAccount(s)
  PROVE  Isolation'
<1> DEFINE a == request[s].account
<1>1. a \in scope[s] /\ a \in Accounts
  BY OwnAccount DEF Isolation, Scoped, CreateAccount
<1>2. accountTip[a] = NoAccount
  BY <1>1 DEF CreateAccount, Isolation, Locked, Blank
<1>3. NewAccount.posted = accountTip[a].posted
  BY <1>2 DEF NewAccount, NoAccount
<1>4. \A b \in Accounts : accountTip'[b].posted = accountTip[b].posted
  BY <1>1, <1>3 DEF CreateAccount, Typed, TypeOK
<1>5. UNCHANGED <<db, bookTip, bookOwner, request, todo, current, scope>>
  BY DEF CreateAccount
<1>6. SameAccount' /\ Paid'
  BY <1>4, <1>5 DEF Isolation, SameAccount, Paid, db
<1>7. Blank'
  BY <1>1, <1>5 DEF CreateAccount, Typed, TypeOK, Isolation, Blank, NewAccount, db
<1>8. Locked'
  <2>1. \A b \in Accounts : b # a => UNCHANGED <<accountTip[b], accountOwner[b]>>
    BY DEF CreateAccount, Typed, TypeOK
  <2>2. accountOwner'[a] = s /\ s # Free /\ accountOwner[a] = Free
    BY <1>1, Constants DEF CreateAccount, Typed, TypeOK, Sessions
  <2>3. pc'[s] = "fill" /\ \A t \in Sessions \ {s} : pc'[t] = pc[t]
    BY DEF CreateAccount, Goto, Typed, TypeOK
  <2>4. \A p \in Positions, t \in Sessions : bookOwner[p] = t => bookTip[p].account \in Accounts
    BY DEF Isolation, Locked, Typed, RowsOK
  <2>5. ASSUME NEW p \in Positions, NEW t \in Sessions, bookOwner[p] = t
        PROVE  bookTip[p].status # "none" /\ accountOwner'[bookTip[p].account] = t
    <3>1. bookTip[p].status # "none" /\ accountOwner[bookTip[p].account] = t
      BY <2>5 DEF Isolation, Locked
    <3>2. t # Free
      BY Constants DEF Sessions
    <3>. QED  BY <2>1, <2>2, <2>4, <2>5, <3>1, <3>2
  <2>. QED  BY <1>1, <1>5, <2>1, <2>2, <2>3, <2>5 DEF Isolation, Locked, db, Writing
<1>9. Scoped'
  BY <1>1, <1>5 DEF CreateAccount, Goto, Typed, TypeOK, Isolation, Scoped
<1>10. Fresh'
  <2>1. view'[s].posted = accountTip'[a].posted /\ pc'[s] = "fill"
    BY <1>1, <1>3, <1>4 DEF CreateAccount, Goto, Typed, TypeOK
  <2>2. \A t \in Sessions \ {s} : view'[t] = view[t] /\ pc'[t] = pc[t]
    BY DEF CreateAccount, Goto, Typed, TypeOK
  <2>. QED  BY <1>4, <1>5, <2>1, <2>2 DEF Isolation, Fresh, db
<1>. QED  BY <1>6, <1>7, <1>8, <1>9, <1>10 DEF Isolation

(* A session writes one position row of an account it works on, and the     *)
(* account's row with the posting that the position row now makes due.      *)
Writes(s, a, p, row, new) ==
    /\ a \in scope[s]
    /\ p \in Positions
    /\ UNCHANGED <<db, scope, request>>
    /\ accountTip' = [accountTip EXCEPT ![a] = new]
    /\ accountOwner' = [accountOwner EXCEPT ![a] = s]
    /\ bookTip' = [bookTip EXCEPT ![p] = row]
    /\ bookOwner' = [bookOwner EXCEPT ![p] = s]
    /\ bookOwner[p] \in {Free, s}
    /\ row.status # "none" /\ row.account = a
    /\ book[p].status # "none" => book[p].account = a
    /\ bookTip[p].status # "none" => bookTip[p].account = a
    /\ new.exists
    /\ \A q \in Positions \ {p} : new.posted[q] = accountTip[a].posted[q]
    /\ new.posted[p] = Due(a, row)
    /\ pc'[s] \in {"rows", "commit"}
    /\ \A t \in Sessions \ {s} :
          UNCHANGED <<pc[t], view[t], todo[t], current[t]>> /\ p \notin todo[t]
    /\ todo'[s] = todo[s] \ {p}

LEMMA WriteStep ==
  ASSUME Typed, Isolation, NEW s \in Sessions, NEW a, NEW p, NEW row, NEW new,
         Writes(s, a, p, row, new)
  PROVE  Isolation'
<1> USE DEF Writes
<1>1. a \in Accounts /\ accountOwner[a] \in {s, Free} /\ s # Free
  BY OwnAccount, Constants DEF Sessions
<1>2. SameAccount' /\ Blank'
  BY <1>1 DEF Typed, TypeOK, Isolation, SameAccount, Blank, db
<1>3. Locked'
  <2>1. \A b \in Accounts : b # a => UNCHANGED <<accountTip[b], accountOwner[b]>>
    BY DEF Typed, TypeOK
  <2>2. accountOwner'[a] = s /\ bookOwner'[p] = s /\ bookTip'[p] = row
    BY <1>1 DEF Typed, TypeOK
  <2>3. ASSUME NEW q \in Positions, NEW t \in Sessions, bookOwner'[q] = t
        PROVE  bookTip'[q].status # "none" /\ accountOwner'[bookTip'[q].account] = t
    <3>1. CASE q = p
      BY <2>2, <2>3, <3>1
    <3>2. CASE q # p
      <4>1. bookOwner[q] = t /\ bookTip'[q] = bookTip[q]
        BY <2>3, <3>2 DEF Typed, TypeOK
      <4>2. bookTip[q].status # "none" /\ accountOwner[bookTip[q].account] = t
        BY <4>1 DEF Isolation, Locked
      <4>3. bookTip[q].account \in Accounts /\ t # Free
        BY <4>2, Constants DEF Typed, RowsOK, Sessions
      <4>. QED  BY <1>1, <2>1, <2>2, <4>1, <4>2, <4>3
    <3>. QED  BY <3>1, <3>2
  <2>4. \A q \in Positions : bookOwner'[q] = Free => bookTip'[q] = book'[q]
    BY <1>1 DEF Isolation, Locked, db, Typed, TypeOK
  <2>. QED  BY <1>1, <2>1, <2>2, <2>3, <2>4 DEF Isolation, Locked, Writing, db
<1>4. Scoped'
  BY DEF Isolation, Scoped
<1>5. Fresh'
  <2>1. ASSUME NEW t \in Sessions, NEW q \in todo'[t]
        PROVE  /\ book'[q].status = "open" /\ bookTip'[q] = book'[q]
               /\ book'[q].account \in scope'[t]
    <3>1. q \in todo[t] /\ q # p /\ q \in Positions
      BY <2>1 DEF Typed, TypeOK
    <3>. QED  BY <3>1 DEF Isolation, Fresh, Typed, TypeOK, db
  <2>2. ASSUME NEW t \in Sessions, NEW b \in Accounts,
               \/ pc'[t] = "fill" /\ b = request'[t].account
               \/ pc'[t] = "book" /\ b = book'[current'[t]].account
        PROVE  view'[t].posted = accountTip'[b].posted
    <3>1. t # s /\ view'[t] = view[t] /\ view[t].posted = accountTip[b].posted
      BY <2>2 DEF Isolation, Fresh, db
    <3>2. b \in scope[t]
      BY <2>2, <3>1 DEF Isolation, Scoped, Fresh, Typed, LocalsOK, db
    <3>3. b # a
      BY <3>1, <3>2, OwnAccount
    <3>. QED  BY <3>1, <3>3 DEF Typed, TypeOK
  <2>. QED  BY <2>1, <2>2 DEF Fresh
<1>6. Paid'
  <2> SUFFICES ASSUME NEW b \in Accounts, NEW q \in Positions
               PROVE  /\ account'[b].posted[q] = Due(b, book'[q])
                      /\ accountTip'[b].posted[q] = Due(b, bookTip'[q])
    BY DEF Paid, Due
  <2>1. account'[b].posted[q] = Due(b, book'[q])
    BY DEF Isolation, Paid, db
  <2>2. CASE b # a
    <3>1. accountTip'[b].posted[q] = Due(b, bookTip[q])
      BY <2>2 DEF Isolation, Paid, Typed, TypeOK
    <3>2. q = p => Due(b, bookTip[q]) = Nothing /\ Due(b, bookTip'[q]) = Nothing
      BY <2>2, Constants, DueElsewhere DEF Typed, TypeOK, Isolation, Blank
    <3>3. q # p => bookTip'[q] = bookTip[q]
      BY DEF Typed, TypeOK
    <3>. QED  BY <2>1, <3>1, <3>2, <3>3
  <2>3. CASE b = a
    <3>1. accountTip'[b] = new
      BY <1>1, <2>3 DEF Typed, TypeOK
    <3>2. CASE q = p
      BY <2>1, <2>3, <3>1, <3>2 DEF Typed, TypeOK
    <3>3. CASE q # p
      <4>1. new.posted[q] = accountTip[a].posted[q]
        BY <3>3
      <4>2. bookTip'[q] = bookTip[q]
        BY <3>3 DEF Typed, TypeOK
      <4>3. accountTip[a].posted[q] = Due(a, bookTip[q])
        BY <1>1 DEF Isolation, Paid
      <4>. QED  BY <2>1, <2>3, <3>1, <4>1, <4>2, <4>3
    <3>. QED  BY <3>2, <3>3
  <2>. QED  BY <2>2, <2>3
<1>. QED  BY <1>2, <1>3, <1>4, <1>5, <1>6 DEF Isolation

LEMMA FillOrderIsolated ==
  ASSUME Typed, Isolation, NEW s \in Sessions, FillOrder(s)
  PROVE  Isolation'
<1> DEFINE r == request[s]
           row == OpenedRow(r, Decide(r, price[s]))
<1>1. PICK p \in Positions :
        /\ bookTip[p].status = "none"
        /\ accountTip' = [accountTip EXCEPT ![r.account] =
                             Reserved(view[s], @, p, OpenPosting(row))]
        /\ bookTip' = [bookTip EXCEPT ![p] = row]
        /\ bookOwner' = [bookOwner EXCEPT ![p] = s]
  BY DEF FillOrder
<1> DEFINE new == Reserved(view[s], accountTip[r.account], p, OpenPosting(row))
<1>2. r.account \in scope[s] /\ r.account \in Accounts
  BY OwnAccount DEF Isolation, Scoped, FillOrder
<1>3. row.account = r.account /\ row.status = "open"
  BY DEF OpenedRow
<1>4. Due(r.account, row) = OpenPosting(row)
  BY <1>3 DEF Due
<1>5. view[s].posted = accountTip[r.account].posted
  BY <1>2 DEF Isolation, Fresh, FillOrder
<1>6. view[s].posted \in [Positions -> Posting]
  BY DEF Typed, TypeOK, AccountRow
<1>7. /\ new.exists
      /\ \A q \in Positions \ {p} : new.posted[q] = accountTip[r.account].posted[q]
      /\ new.posted[p] = Due(r.account, row)
  <2>1. view[s] \in AccountRow /\ accountTip[r.account] \in AccountRow
    BY <1>2 DEF Typed, TypeOK
  <2>2. /\ new.exists /\ new.posted[p] = OpenPosting(row)
        /\ \A q \in Positions \ {p} :
              view[s].posted[q] = accountTip[r.account].posted[q] => new.posted[q] = view[s].posted[q]
    <3>. HIDE DEF row, r
    <3>1. new.exists /\ new.posted[p] = OpenPosting(row)
      BY ReservedNew
    <3>2. ASSUME NEW q \in Positions \ {p}, view[s].posted[q] = accountTip[r.account].posted[q]
          PROVE  new.posted[q] = view[s].posted[q]
      BY <2>1, <3>2, ReservedSame
    <3>. QED  BY <3>1, <3>2
  <2>. HIDE DEF new
  <2>. QED  BY <1>4, <1>5, <2>2
<1>8. book[p].status = "none" /\ bookOwner[p] = Free
  BY <1>1 DEF Typed, TypeOK, RowsOK, Isolation, Locked
<1>9. \A t \in Sessions : p \notin todo[t]
  BY <1>8 DEF Isolation, Fresh
<1>10. /\ UNCHANGED <<db, scope, request, view, todo, current>>
       /\ pc'[s] = "commit" /\ \A t \in Sessions \ {s} : pc'[t] = pc[t]
       /\ accountOwner' = [accountOwner EXCEPT ![r.account] = s]
       /\ accountTip' = [accountTip EXCEPT ![r.account] = new]
  BY <1>1 DEF FillOrder, Goto, locals, Typed, TypeOK
<1>11. todo'[s] = todo[s] \ {p}
  BY <1>9, <1>10
<1>12. row.status # "none"
  BY <1>3
<1>13. Writes(s, r.account, p, row, new)
  BY <1>1, <1>2, <1>3, <1>7, <1>8, <1>9, <1>10, <1>11, <1>12 DEF Writes
<1>. QED  BY <1>13, WriteStep

LEMMA CloseRowIsolated ==
  ASSUME Typed, Isolation, NEW s \in Sessions, CloseRow(s)
  PROVE  Isolation'
<1> DEFINE p    == current[s]
           a    == book[p].account
           why  == Reason(s, book[p])
           exit == ExitFill(book[p], price[s], why)
           done == ClosedRow(book[p], exit, why)
           new  == Rewritten(view[s], p, ClosePosting(book[p], exit, view[s].posted[p]))
<1>1. /\ p \in todo[s] /\ p \in Positions /\ book[p] \in PositionRow
      /\ price[s] \in Prices \cup {None}
  BY DEF Typed, TypeOK, LocalsOK, CloseRow
<1>2. book[p].status = "open" /\ bookTip[p] = book[p] /\ a \in scope[s] /\ a \in Accounts
  BY <1>1, OwnAccount DEF Isolation, Fresh
<1>3. exit \in Nat
  BY <1>1, ExitType DEF Reason
<1>4. view[s].posted = accountTip[a].posted
  BY <1>2 DEF Isolation, Fresh, CloseRow
<1>5. view[s].posted[p] = OpenPosting(book[p])
  BY <1>1, <1>2, <1>4 DEF Isolation, Paid, Due
<1>6. done.account = a /\ done.status = "closed"
  BY <1>1 DEF ClosedRow, PositionRow
<1>7. Due(a, done) = Settled(done)
  BY <1>6 DEF Due
<1>8. ClosePosting(book[p], exit, view[s].posted[p]) = Due(a, done)
  BY <1>1, <1>3, <1>5, <1>7, RoundTrip
<1>9. view[s].posted \in [Positions -> Posting]
  BY DEF Typed, TypeOK, AccountRow
<1>10. /\ new.exists
       /\ \A q \in Positions \ {p} : new.posted[q] = accountTip[a].posted[q]
       /\ new.posted[p] = Due(a, done)
  BY <1>1, <1>4, <1>8, <1>9 DEF Rewritten
<1>11. \A t \in Sessions \ {s} : p \notin todo[t]
  BY <1>2, OwnAccount DEF Isolation, Fresh
<1>12. /\ UNCHANGED <<db, scope, request>>
       /\ accountTip' = [accountTip EXCEPT ![a] = new]
       /\ accountOwner' = [accountOwner EXCEPT ![a] = s]
       /\ bookTip' = [bookTip EXCEPT ![p] = done]
       /\ bookOwner' = [bookOwner EXCEPT ![p] = s]
       /\ bookOwner[p] \in {Free, s}
  BY DEF CloseRow
<1>13. /\ pc'[s] \in {"rows", "commit"} /\ todo'[s] = todo[s] \ {p}
       /\ \A t \in Sessions \ {s} : UNCHANGED <<pc[t], view[t], todo[t], current[t]>>
  BY DEF CloseRow, Goto, Typed, TypeOK
<1>14. done.status # "none"
  BY <1>6
<1>15. Writes(s, a, p, done, new)
  BY <1>1, <1>2, <1>6, <1>10, <1>11, <1>12, <1>13, <1>14 DEF Writes
<1>. QED  BY <1>15, WriteStep

(* A transaction ends, its rows committed or put back: either way it works  *)
(* on nothing any more, and the rows it held have one version again.        *)
LEMMA EndIsolated ==
  ASSUME Typed, Isolation, NEW s \in Sessions, Unlock(s), Forget(s),
         pc'[s] \in {"idle", "remaining"},
         \A t \in Sessions \ {s} : pc'[t] = pc[t],
         SameAccount', Blank', Paid',
         \A a \in Accounts : IF accountOwner[a] = s
                             THEN accountTip'[a] = account'[a]
                             ELSE UNCHANGED <<accountTip[a], account[a]>>,
         \A p \in Positions : IF bookOwner[p] = s
                              THEN bookTip'[p] = book'[p]
                              ELSE UNCHANGED <<bookTip[p], book[p]>>
  PROVE  Isolation'
<1>1. s # Free
  BY Constants DEF Sessions
<1>2. /\ scope'[s] = {} /\ todo'[s] = {}
      /\ \A t \in Sessions \ {s} :
            UNCHANGED <<request[t], view[t], todo[t], current[t], scope[t]>>
  BY DEF Forget, Typed, TypeOK
<1>3. Locked'
  <2>1. \A p \in Positions, t \in Sessions : bookOwner[p] = t => bookTip[p].account \in Accounts
    BY DEF Isolation, Locked, Typed, RowsOK
  <2>2. /\ \A a \in Accounts :
              accountOwner'[a] = IF accountOwner[a] = s THEN Free ELSE accountOwner[a]
        /\ \A p \in Positions :
              bookOwner'[p] = IF bookOwner[p] = s THEN Free ELSE bookOwner[p]
    BY DEF Unlock
  <2>3. ASSUME NEW a \in Accounts
        PROVE  /\ \A t \in Sessions :
                     accountOwner'[a] = t => a \in scope'[t] /\ pc'[t] \in Writing
               /\ accountOwner'[a] = Free => accountTip'[a] = account'[a]
    BY <1>1, <1>2, <2>2, Constants DEF Isolation, Locked, Sessions
  <2>4. ASSUME NEW p \in Positions, NEW t \in Sessions, bookOwner'[p] = t
        PROVE  bookTip'[p].status # "none" /\ accountOwner'[bookTip'[p].account] = t
    <3>1. t # s /\ bookOwner[p] = t /\ bookTip'[p] = bookTip[p]
      BY <1>1, <2>2, <2>4, Constants DEF Sessions
    <3>. QED  BY <2>1, <2>2, <3>1 DEF Isolation, Locked
  <2>5. \A p \in Positions : bookOwner'[p] = Free => bookTip'[p] = book'[p]
    BY <2>2 DEF Isolation, Locked
  <2>. QED  BY <2>3, <2>4, <2>5 DEF Locked
<1>4. Scoped'
  BY <1>2 DEF Isolation, Scoped
<1>5. Fresh'
  <2>1. ASSUME NEW t \in Sessions, NEW p \in todo'[t]
        PROVE  /\ book'[p].status = "open" /\ bookTip'[p] = book'[p]
               /\ book'[p].account \in scope'[t]
    <3>1. t # s /\ p \in todo[t] /\ p \in Positions
      BY <1>2, <2>1 DEF Typed, TypeOK
    <3>2. book[p].status = "open" /\ bookTip[p] = book[p] /\ book[p].account \in scope[t]
      BY <3>1 DEF Isolation, Fresh
    <3>3. bookOwner[p] # s
      BY <3>1, <3>2, OwnAccount DEF Isolation, Locked
    <3>. QED  BY <1>2, <3>1, <3>2, <3>3
  <2>2. ASSUME NEW t \in Sessions, NEW a \in Accounts,
               \/ pc'[t] = "fill" /\ a = request'[t].account
               \/ pc'[t] = "book" /\ a = book'[current'[t]].account
        PROVE  view'[t].posted = accountTip'[a].posted
    <3>1. t # s /\ pc'[t] = pc[t]
      BY <2>2
    <3>2. pc[t] = "book" => current[t] \in todo'[t] /\ book'[current[t]] = book[current[t]]
      <4>1. SUFFICES ASSUME pc[t] = "book"
                     PROVE  current[t] \in todo'[t] /\ book'[current[t]] = book[current[t]]
        OBVIOUS
      <4>2. current[t] \in todo[t] /\ current[t] \in Positions
        BY <4>1 DEF Typed, LocalsOK, TypeOK
      <4>3. book[current[t]].account \in scope[t] /\ bookTip[current[t]] = book[current[t]]
        BY <4>2 DEF Isolation, Fresh
      <4>4. bookOwner[current[t]] # s
        BY <3>1, <4>2, <4>3, OwnAccount DEF Isolation, Locked
      <4>. QED  BY <1>2, <3>1, <4>2, <4>4
    <3>3. view[t].posted = accountTip[a].posted /\ a \in scope[t]
      BY <1>2, <2>2, <3>1, <3>2 DEF Isolation, Fresh, Scoped, Typed, LocalsOK
    <3>4. accountOwner[a] # s
      BY <1>1, <3>1, <3>3, OwnAccount
    <3>. QED  BY <1>2, <3>1, <3>3, <3>4
  <2>. QED  BY <2>1, <2>2 DEF Fresh
<1>. QED  BY <1>3, <1>4, <1>5 DEF Isolation

LEMMA CommitIsolated ==
  ASSUME Typed, Isolation, NEW s \in Sessions, Commit(s)
  PROVE  Isolation'
<1>1. \A a \in Accounts : IF accountOwner[a] = s
                          THEN account'[a] = accountTip[a] /\ accountTip'[a] = accountTip[a]
                          ELSE UNCHANGED <<accountTip[a], account[a]>>
  BY DEF Commit
<1>2. \A p \in Positions : IF bookOwner[p] = s
                           THEN book'[p] = bookTip[p] /\ bookTip'[p] = bookTip[p]
                           ELSE UNCHANGED <<bookTip[p], book[p]>>
  BY DEF Commit
<1>3. SameAccount' /\ Blank'
  BY <1>1, <1>2 DEF Isolation, SameAccount, Blank
<1>4. Paid'
  <2> SUFFICES ASSUME NEW a \in Accounts, NEW p \in Positions
               PROVE  /\ account'[a].posted[p] = Due(a, book'[p])
                      /\ accountTip'[a].posted[p] = Due(a, bookTip'[p])
    BY DEF Paid, Due
  <2>1. accountTip'[a] = accountTip[a] /\ bookTip'[p] = bookTip[p]
    BY <1>1, <1>2
  <2>2. /\ account[a].posted[p] = Due(a, book[p])
        /\ accountTip[a].posted[p] = Due(a, bookTip[p])
    BY DEF Isolation, Paid
  <2>3. CASE (accountOwner[a] = s) = (bookOwner[p] = s)
    BY <1>1, <1>2, <2>1, <2>2, <2>3
  <2>4. CASE (accountOwner[a] = s) # (bookOwner[p] = s)
    <3>1. Due(a, bookTip[p]) = Due(a, book[p])
      BY <2>4, OneVersion
    <3>2. book'[p] \in {book[p], bookTip[p]} /\ account'[a] \in {account[a], accountTip[a]}
      BY <1>1, <1>2
    <3>. QED  BY <2>1, <2>2, <3>1, <3>2
  <2>. QED  BY <2>3, <2>4
<1>5. /\ Unlock(s) /\ Forget(s) /\ pc'[s] \in {"idle", "remaining"}
      /\ \A t \in Sessions \ {s} : pc'[t] = pc[t]
  BY DEF Commit, Goto, Typed, TypeOK
<1>. QED  BY <1>1, <1>2, <1>3, <1>4, <1>5, EndIsolated

LEMMA RollbackIsolated ==
  ASSUME Typed, Isolation, NEW s \in Sessions, Rollback(s), Forget(s), Goto(s, "idle"),
         UNCHANGED db
  PROVE  Isolation'
<1>1. \A a \in Accounts : IF accountOwner[a] = s
                          THEN account'[a] = account[a] /\ accountTip'[a] = account[a]
                          ELSE UNCHANGED <<accountTip[a], account[a]>>
  BY DEF Rollback, db
<1>2. \A p \in Positions : IF bookOwner[p] = s
                           THEN book'[p] = book[p] /\ bookTip'[p] = book[p]
                           ELSE UNCHANGED <<bookTip[p], book[p]>>
  BY DEF Rollback, db
<1>3. SameAccount' /\ Blank'
  BY <1>1, <1>2 DEF Isolation, SameAccount, Blank
<1>4. Paid'
  <2> SUFFICES ASSUME NEW a \in Accounts, NEW p \in Positions
               PROVE  /\ account'[a].posted[p] = Due(a, book'[p])
                      /\ accountTip'[a].posted[p] = Due(a, bookTip'[p])
    BY DEF Paid, Due
  <2>1. account'[a] = account[a] /\ book'[p] = book[p]
    BY DEF db
  <2>2. /\ account[a].posted[p] = Due(a, book[p])
        /\ accountTip[a].posted[p] = Due(a, bookTip[p])
    BY DEF Isolation, Paid
  <2>3. CASE (accountOwner[a] = s) = (bookOwner[p] = s)
    BY <1>1, <1>2, <2>1, <2>2, <2>3
  <2>4. CASE (accountOwner[a] = s) # (bookOwner[p] = s)
    <3>1. Due(a, bookTip[p]) = Due(a, book[p])
      BY <2>4, OneVersion
    <3>2. /\ bookTip'[p] \in {book[p], bookTip[p]}
          /\ accountTip'[a] \in {account[a], accountTip[a]}
      BY <1>1, <1>2
    <3>. QED  BY <2>1, <2>2, <3>1, <3>2
  <2>. QED  BY <2>3, <2>4
<1>5. Unlock(s) /\ pc'[s] = "idle" /\ \A t \in Sessions \ {s} : pc'[t] = pc[t]
  BY DEF Rollback, Goto, Typed, TypeOK
<1>. QED  BY <1>1, <1>2, <1>3, <1>4, <1>5, EndIsolated

LEMMA NextIsolated == Isolated /\ Typed /\ Isolation /\ [Next]_vars => Isolation'
<1> SUFFICES ASSUME Isolated, Typed, Isolation, [Next]_vars PROVE Isolation'
  OBVIOUS
<1>1. CASE UNCHANGED <<db, tips, pc, locals>>
  BY <1>1 DEF Isolation, SameAccount, Blank, Locked, Scoped, Fresh, Paid, Due, db, tips, locals
<1>2. ASSUME NEW s \in Sessions, Step(s) PROVE Isolation'
  BY <1>2, ReadIsolated, CreateIsolated, FillOrderIsolated, CloseRowIsolated, CommitIsolated,
     MoveIsolated DEF Step, Ordering, Closing
<1>3. ASSUME NEW s \in Sessions, Abort(s) PROVE Isolation'
  BY <1>3, RollbackIsolated DEF Abort, db
<1>4. CASE FeedRestart
  BY <1>4, RollbackIsolated DEF FeedRestart, Sessions, db
<1>5. CASE Remaining \/ Discard
  BY <1>5, MoveIsolated DEF Sessions
<1>. QED  BY <1>1, <1>2, <1>3, <1>4, <1>5, BeginIsolated
          DEF Next, Works, Fails, Tick, RefreshRead, RefreshApply, vars

LEMMA InitIsolation == Init => Isolation
<1> SUFFICES ASSUME Init PROVE Isolation
  OBVIOUS
<1>1. \A a \in Accounts, p \in Positions : Due(a, NoRow(Free)) = Nothing
  BY Constants, DueElsewhere DEF NoRow
<1>2. Paid
  BY <1>1 DEF Init, Paid, NoAccount
<1>3. Blank /\ SameAccount /\ Locked
  BY Constants DEF Init, Blank, SameAccount, Locked, NoRow, Sessions
<1>. QED  BY <1>2, <1>3 DEF Init, Isolation, Scoped, Fresh

(* service.py's "cash can never drift", wherever transactions on one        *)
(* account exclude each other: at every moment each committed account holds *)
(* exactly what its own positions owe it.                                   *)
THEOREM NoDrift == Isolated /\ Spec => []CashNeverDrifts
<1> SUFFICES ASSUME Isolated PROVE Spec => []CashNeverDrifts
  OBVIOUS
<1>1. Isolation => CashNeverDrifts
  BY DEF Isolation, Paid, CashNeverDrifts
<1>2. Typed /\ Isolation /\ [Next]_vars => Isolation'
  BY NextIsolated
<1>. QED  BY <1>1, <1>2, InitIsolation, AlwaysTyped, PTL DEF Spec
------------------------------------------------------------------------------
(* The journal tells the account's story *)

(* The entry a position row calls for. *)
RoundTripOf(row) == IF row.status = "closed" THEN JournalEntry(row) ELSE NoEntry

(* Committed and newest rows alike: every entry is its row's round trip. *)
JournalKept ==
    \A p \in Positions : /\ journal[p] = RoundTripOf(book[p])
                         /\ journalTip[p] = RoundTripOf(bookTip[p])

LEMMA RollbackJournal ==
  ASSUME Typed, JournalKept, NEW s \in Sessions, Rollback(s), UNCHANGED db
  PROVE  JournalKept'
  BY DEF Typed, TypeOK, JournalKept, Rollback, db

LEMMA NextJournal == Typed /\ Isolation /\ JournalKept /\ [Next]_vars => JournalKept'
<1> SUFFICES ASSUME Typed, Isolation, JournalKept, [Next]_vars PROVE JournalKept'
  OBVIOUS
<1>1. CASE UNCHANGED <<book, bookTip, journal, journalTip>>
  BY <1>1 DEF JournalKept
<1>2. ASSUME NEW s \in Sessions, FillOrder(s) PROVE JournalKept'
  <2>1. PICK p \in Positions :
          /\ bookTip[p].status = "none"
          /\ bookTip' = [bookTip EXCEPT ![p] = OpenedRow(request[s], Decide(request[s], price[s]))]
    BY <1>2 DEF FillOrder
  <2>2. RoundTripOf(bookTip[p]) = NoEntry /\ RoundTripOf(bookTip'[p]) = NoEntry
    BY <2>1 DEF RoundTripOf, OpenedRow, Typed, TypeOK
  <2>3. \A q \in Positions \ {p} : bookTip'[q] = bookTip[q]
    BY <2>1 DEF Typed, TypeOK
  <2>4. UNCHANGED <<book, journal, journalTip>>
    BY <1>2 DEF FillOrder, db
  <2>. QED  BY <2>2, <2>3, <2>4 DEF JournalKept
<1>3. ASSUME NEW s \in Sessions, CloseRow(s) PROVE JournalKept'
  <2> DEFINE p    == current[s]
             why  == Reason(s, book[p])
             done == ClosedRow(book[p], ExitFill(book[p], price[s], why), why)
  <2>1. p \in todo[s] /\ p \in Positions
    BY <1>3 DEF Typed, TypeOK, LocalsOK, CloseRow
  <2>2. bookTip[p] = book[p] /\ book[p].status = "open"
    BY <2>1 DEF Isolation, Fresh
  <2>3. done.status = "closed"
    BY <2>1 DEF Typed, TypeOK, ClosedRow, PositionRow
  <2>4. /\ bookTip' = [bookTip EXCEPT ![p] = done]
        /\ journalTip' = [journalTip EXCEPT ![p] = Record(@, JournalEntry(done))]
        /\ UNCHANGED <<book, journal>>
    BY <1>3 DEF CloseRow, db
  <2>. HIDE DEF done
  <2>5. journalTip[p] = NoEntry
    BY <2>1, <2>2 DEF JournalKept, RoundTripOf
  <2>6. journalTip'[p] = JournalEntry(done) /\ bookTip'[p] = done
    BY <2>1, <2>4, <2>5 DEF Record, NoEntry, Typed, TypeOK
  <2>7. \A q \in Positions \ {p} : bookTip'[q] = bookTip[q] /\ journalTip'[q] = journalTip[q]
    BY <2>4 DEF Typed, TypeOK
  <2>. QED  BY <2>3, <2>4, <2>6, <2>7 DEF JournalKept, RoundTripOf
<1>4. ASSUME NEW s \in Sessions, Commit(s) PROVE JournalKept'
  BY <1>4 DEF Typed, TypeOK, JournalKept, Commit
<1>5. ASSUME NEW s \in Sessions, Abort(s) PROVE JournalKept'
  BY <1>5, RollbackJournal DEF Abort, db
<1>6. CASE FeedRestart
  BY <1>6, RollbackJournal DEF FeedRestart, db, Sessions
<1>. QED
  BY <1>1, <1>2, <1>3, <1>4, <1>5, <1>6
     DEF Next, Works, Fails, Step, Ordering, Closing, Tick, Submit, RequestClose, LoadAccount, CreateAccount,
         CreateAccountFails, RejectOrder, Recheck, RecheckFails, NextRow, OnQuote, Remaining,
         Discard, RefreshRead, RefreshApply, vars, db, tips

LEMMA InitJournal == Init => JournalKept
  BY DEF Init, JournalKept, RoundTripOf, NoRow

LEMMA JournalTellsAll == Typed /\ Isolation /\ JournalKept => JournalAgrees
<1> SUFFICES ASSUME Typed, Isolation, JournalKept PROVE JournalAgrees
  OBVIOUS
<1>1. ASSUME NEW a \in Accounts, NEW p \in Positions
      PROVE  account[a].posted[p].realized = IF book[p].account = a THEN journal[p].net ELSE 0
  <2>1. account[a].posted[p] = Due(a, book[p]) /\ journal[p] = RoundTripOf(book[p])
    BY DEF Isolation, Paid, JournalKept
  <2>2. CASE book[p].account # a
    <3>1. Due(a, book[p]) = Nothing
      BY <2>2, DueElsewhere
    <3>. QED  BY <2>1, <2>2, <3>1 DEF Nothing
  <2>3. CASE book[p].account = a /\ book[p].status = "open"
    <3>1. account[a].posted[p] = OpenPosting(book[p]) /\ journal[p] = NoEntry
      BY <2>1, <2>3 DEF Due, RoundTripOf
    <3>. QED  BY <2>3, <3>1 DEF OpenPosting, NoEntry
  <2>4. CASE book[p].account = a /\ book[p].status # "open"
    <3>1. book[p].status = "closed"
      BY <2>4, Constants DEF Isolation, Blank, Typed, TypeOK, PositionRow
    <3>2. account[a].posted[p] = Settled(book[p]) /\ journal[p] = JournalEntry(book[p])
      BY <2>1, <2>4, <3>1 DEF Due, RoundTripOf
    <3>. QED  BY <2>4, <3>2 DEF Settled, JournalEntry
  <2>. QED  BY <2>2, <2>3, <2>4
<1>2. ASSUME NEW a \in Accounts
      PROVE  Realized(a) = Sum([p \in Positions |->
                                  IF book[p].account = a THEN journal[p].net ELSE 0])
  <2>1. [p \in Positions |-> account[a].posted[p].realized]
        = [p \in Positions |-> IF book[p].account = a THEN journal[p].net ELSE 0]
    BY <1>1
  <2>. QED  BY ONLY <2>1 DEF Realized
<1>3. ASSUME NEW p \in Positions, journal[p].exists PROVE journal[p].exit = book[p].exit
  <2>1. journal[p] = RoundTripOf(book[p])
    BY DEF JournalKept
  <2>2. CASE book[p].status = "closed"
    BY <2>1, <2>2 DEF RoundTripOf, JournalEntry
  <2>3. CASE book[p].status # "closed"
    BY <1>3, <2>1, <2>3 DEF RoundTripOf, NoEntry
  <2>. QED  BY <2>2, <2>3
<1>. QED  BY <1>2, <1>3 DEF JournalAgrees

(* The journal and the account agree: wherever transactions on one account  *)
(* exclude each other, the realized P&L of an account is the sum of the net *)
(* results journalled for its positions (_close writes both, and            *)
(* JournalService.record keeps the first).                                  *)
THEOREM JournalTellsTheStory == Isolated /\ Spec => []JournalAgrees
<1> SUFFICES ASSUME Isolated PROVE Spec => []JournalAgrees
  OBVIOUS
<1>1. Typed /\ Isolation /\ [Next]_vars => Isolation'
  BY NextIsolated
<1>. QED  BY <1>1, InitIsolation, InitJournal, NextJournal, JournalTellsAll, AlwaysTyped, PTL DEF Spec
------------------------------------------------------------------------------
(* What a transaction has written so far *)

(* The row of p once s has closed it at its price. *)
Booked(s, p) ==
    LET why == Reason(s, book[p])
    IN  ClosedRow(book[p], ExitFill(book[p], price[s], why), why)

(* An order's transaction has written at most the row it opens ... *)
Opens(s) ==
    \A p \in Positions : bookOwner[p] = s =>
        /\ \A q \in Positions : bookOwner[q] = s => q = p
        /\ price[s] \in Prices
        /\ book[p].status = "none"
        /\ Decide(request[s], price[s]) # None
        /\ bookTip[p] = OpenedRow(request[s], Decide(request[s], price[s]))

(* ... a manual close one open row, a tick's transaction open rows on its   *)
(* symbol that the tick has taken beyond a level.                           *)
Closes(s) ==
    \A p \in Positions : bookOwner[p] = s \/ p \in todo[s] =>
        /\ price[s] \in Prices
        /\ book[p].status = "open"
        /\ bookOwner[p] = s => bookTip[p] = Booked(s, p)
        /\ s # Feed => \A q \in Positions : bookOwner[q] = s \/ q \in todo[s] => q = p
        /\ s = Feed => book[p].symbol = quoted /\ ExitSignal(book[p], price[s]) # "none"

Worked(s) ==
    /\ pc[s] \notin {"rows", "book", "commit"} => \A p \in Positions : bookOwner[p] # s
    /\ pc[s] \notin {"order", "create", "fill", "commit"} => request[s] = NoRequest
    /\ IF request[s] = NoRequest THEN Closes(s) ELSE Opens(s)

AllWorked == \A s \in Sessions : Worked(s)

(* The rows a session has written, or has yet to, stay as they are while    *)
(* others work.                                                             *)
LEMMA OthersWorked ==
  ASSUME NEW t \in Sessions, Worked(t),
         UNCHANGED <<pc[t], request[t], price[t], todo[t]>>,
         t = Feed => UNCHANGED quoted,
         \A p \in Positions : bookOwner'[p] = t <=> bookOwner[p] = t,
         \A p \in Positions : bookOwner[p] = t => UNCHANGED <<book[p], bookTip[p]>>,
         \A p \in Positions : p \in todo[t] => UNCHANGED book[p]
  PROVE  Worked(t)'
<1>1. Closes(t) => Closes(t)'
  <2> SUFFICES ASSUME Closes(t), NEW p \in Positions, bookOwner'[p] = t \/ p \in todo'[t]
               PROVE  /\ price'[t] \in Prices
                      /\ book'[p].status = "open"
                      /\ bookOwner'[p] = t => bookTip'[p] = Booked(t, p)'
                      /\ t # Feed => \A q \in Positions : bookOwner'[q] = t \/ q \in todo'[t] => q = p
                      /\ t = Feed => book'[p].symbol = quoted' /\ ExitSignal(book'[p], price'[t]) # "none"
    BY DEF Closes
  <2>1. /\ bookOwner[p] = t \/ p \in todo[t]
        /\ book'[p] = book[p] /\ price'[t] = price[t]
    OBVIOUS
  <2>2. Booked(t, p)' = Booked(t, p)
    BY <2>1 DEF Booked, Reason
  <2>. QED  BY <2>1, <2>2 DEF Closes
<1>2. Opens(t) => Opens(t)'
  BY DEF Opens
<1>. QED  BY <1>1, <1>2 DEF Worked

(* Nobody else has written or loaded a row of an account that s works on. *)
LEMMA OwnRows ==
  ASSUME Typed, Isolation, NEW s \in Sessions, NEW t \in Sessions, s # t, NEW p \in todo[t]
  PROVE  p \in Positions /\ bookOwner[p] # s
<1>1. p \in Positions /\ bookTip[p] = book[p] /\ book[p].account \in scope[t]
  BY DEF Isolation, Fresh, Typed, TypeOK
<1>2. bookOwner[p] = s => accountOwner[book[p].account] = s
  BY <1>1 DEF Isolation, Locked
<1>3. accountOwner[book[p].account] \in {t, Free}
  BY <1>1, OwnAccount
<1>. QED  BY <1>1, <1>2, <1>3, Constants DEF Sessions

LEMMA IdleHolds ==
  ASSUME Typed, Isolation, NEW s \in Sessions, pc[s] \in {"idle", "remaining", "discard"}
  PROVE  todo[s] = {}
  BY DEF Isolation, Scoped, Fresh

LEMMA SubmitWorked ==
  ASSUME Typed, Isolation, AllWorked, NEW s \in Api, NEW r \in Requests, Submit(s, r)
  PROVE  AllWorked'
<1>1. s \in Sessions /\ s # Feed
  BY Constants DEF Sessions
<1>2. r # NoRequest
  BY Constants DEF Request, NoRequest
<1>3. /\ pc[s] = "idle" /\ pc'[s] = "order" /\ request'[s] = r
      /\ UNCHANGED <<db, tips, todo, quoted>>
      /\ \A t \in Sessions \ {s} : UNCHANGED <<pc[t], request[t], price[t]>>
  BY <1>1 DEF Submit, Goto, Typed, TypeOK, runner
<1>4. \A p \in Positions : bookOwner'[p] # s
  BY <1>1, <1>3 DEF AllWorked, Worked, tips
<1>5. Worked(s)'
  BY <1>2, <1>3, <1>4 DEF Worked, Opens
<1>6. ASSUME NEW t \in Sessions \ {s} PROVE Worked(t)'
  BY <1>3, <1>6, OthersWorked DEF AllWorked, db, tips
<1>. QED  BY <1>5, <1>6 DEF AllWorked

(* A step of s that writes no row and keeps its order or its close. *)
LEMMA MoveWorked ==
  ASSUME Typed, Isolation, AllWorked, NEW s \in Sessions,
         UNCHANGED <<book, bookTip, bookOwner, request, price, todo>>,
         s = Feed \/ UNCHANGED quoted,
         \A t \in Sessions \ {s} : UNCHANGED pc[t],
         pc'[s] \in {"rows", "book", "commit"} \/ \A p \in Positions : bookOwner[p] # s,
         \/ pc'[s] \in {"order", "create", "fill", "commit"}
         \/ request[s] = NoRequest,
         UNCHANGED quoted \/ (todo[s] = {} /\ \A p \in Positions : bookOwner[p] # s)
  PROVE  AllWorked'
<1>1. ASSUME NEW t \in Sessions \ {s} PROVE Worked(t)'
  <2>1. UNCHANGED <<pc[t], request[t], price[t], todo[t]>> /\ (t = Feed => UNCHANGED quoted)
    BY <1>1
  <2>. QED  BY <2>1, OthersWorked DEF AllWorked
<1>2. Worked(s)'
  <2>1. Opens(s) => Opens(s)'
    BY DEF Opens
  <2>2. Closes(s) => Closes(s)'
    <3>1. CASE UNCHANGED quoted
      <4>1. \A p \in Positions : Booked(s, p)' = Booked(s, p)
        BY DEF Booked, Reason
      <4>. QED  BY <3>1, <4>1 DEF Closes
    <3>2. CASE todo[s] = {} /\ \A p \in Positions : bookOwner[p] # s
      BY <3>2 DEF Closes
    <3>. QED  BY <3>1, <3>2
  <2>. QED  BY <2>1, <2>2 DEF AllWorked, Worked
<1>. QED  BY <1>1, <1>2 DEF AllWorked

LEMMA BeginWorked ==
  ASSUME Typed, Isolation, AllWorked
  PROVE  /\ \A s \in Api, p \in Positions : RequestClose(s, p) => AllWorked'
         /\ \A sym \in Symbols, tick \in Prices : OnQuote(sym, tick) => AllWorked'
<1>1. ASSUME NEW s \in Api, NEW p \in Positions, RequestClose(s, p) PROVE AllWorked'
  <2>1. s \in Sessions /\ s # Feed
    BY Constants DEF Sessions
  <2>2. /\ pc[s] = "idle" /\ pc'[s] = "recheck" /\ todo'[s] = {p}
        /\ UNCHANGED <<db, tips, request, quoted>>
        /\ \A t \in Sessions \ {s} : UNCHANGED <<pc[t], price[t], todo[t]>>
    BY <1>1, <2>1 DEF RequestClose, Goto, Typed, TypeOK, runner
  <2>3. book[p].status = "open" /\ price'[s] \in Prices
    BY <1>1, <2>1 DEF RequestClose, Typed, TypeOK, RowsOK
  <2>4. request[s] = NoRequest /\ \A q \in Positions : bookOwner'[q] # s
    BY <2>1, <2>2 DEF AllWorked, Worked, tips
  <2>5. Worked(s)'
    BY <2>1, <2>2, <2>3, <2>4 DEF Worked, Closes, db
  <2>6. ASSUME NEW t \in Sessions \ {s} PROVE Worked(t)'
    BY <2>2, <2>6, OthersWorked DEF AllWorked, db, tips
  <2>. QED  BY <2>5, <2>6 DEF AllWorked
<1>2. ASSUME NEW sym \in Symbols, NEW tick \in Prices, OnQuote(sym, tick) PROVE AllWorked'
  <2> DEFINE hits == {p \in OpenRows(sym) : ExitSignal(book[p], tick) # "none"}
  <2>1. Feed \in Sessions
    BY DEF Sessions
  <2>2. /\ pc[Feed] = "idle" /\ pc'[Feed] = "rows" /\ todo'[Feed] = hits /\ price'[Feed] = tick
        /\ quoted' = sym
        /\ UNCHANGED <<db, tips, request>>
        /\ \A t \in Sessions \ {Feed} : UNCHANGED <<pc[t], price[t], todo[t]>>
    BY <1>2, <2>1 DEF OnQuote, Goto, Typed, TypeOK
  <2>3. \A p \in hits : book[p].status = "open" /\ book[p].symbol = sym /\ ExitSignal(book[p], tick) # "none"
    BY DEF OpenRows
  <2>4. request[Feed] = NoRequest /\ \A q \in Positions : bookOwner'[q] # Feed
    BY <2>1, <2>2 DEF AllWorked, Worked, tips
  <2>. HIDE DEF hits
  <2>5. Worked(Feed)'
    BY <2>1, <2>2, <2>3, <2>4 DEF Worked, Closes, db
  <2>6. ASSUME NEW t \in Sessions \ {Feed} PROVE Worked(t)'
    BY <2>2, <2>6, OthersWorked DEF AllWorked, db, tips
  <2>. QED  BY <2>5, <2>6 DEF AllWorked
<1>. QED  BY <1>1, <1>2

(* A transaction ends: nothing of it is left. *)
LEMMA EndWorked ==
  ASSUME Typed, Isolation, AllWorked, NEW s \in Sessions, Forget(s),
         pc'[s] \in {"idle", "remaining"}, s = Feed \/ UNCHANGED quoted,
         \A t \in Sessions \ {s} : pc'[t] = pc[t],
         \A p \in Positions : bookOwner'[p] # s,
         \A p \in Positions, t \in Sessions \ {s} : bookOwner'[p] = t <=> bookOwner[p] = t,
         \A p \in Positions : bookOwner[p] # s => UNCHANGED <<book[p], bookTip[p]>>
  PROVE  AllWorked'
<1>1. /\ request'[s] = NoRequest /\ todo'[s] = {}
      /\ \A t \in Sessions \ {s} : UNCHANGED <<request[t], price[t], todo[t]>>
  BY DEF Forget, Typed, TypeOK
<1>2. Worked(s)'
  BY <1>1 DEF Worked, Closes
<1>3. ASSUME NEW t \in Sessions \ {s} PROVE Worked(t)'
  <2>1. t \in Sessions /\ t # s
    BY <1>3
  <2>2. \A p \in Positions : bookOwner[p] = t => book'[p] = book[p] /\ bookTip'[p] = bookTip[p]
    BY <2>1
  <2>3. ASSUME NEW p \in Positions, p \in todo[t] PROVE book'[p] = book[p]
    <3>1. bookOwner[p] # s
      BY <2>1, <2>3, OwnRows
    <3>. QED  BY <3>1
  <2>4. Worked(t) /\ (t = Feed => UNCHANGED quoted)
    BY <2>1 DEF AllWorked
  <2>5. \A p \in Positions : bookOwner'[p] = t <=> bookOwner[p] = t
    BY <2>1
  <2>6. pc'[t] = pc[t] /\ request'[t] = request[t] /\ price'[t] = price[t] /\ todo'[t] = todo[t]
    BY <1>1, <2>1
  <2>. QED  BY <2>1, <2>2, <2>3, <2>4, <2>5, <2>6, OthersWorked
<1>. QED  BY <1>2, <1>3 DEF AllWorked

LEMMA EndingsWorked ==
  ASSUME Typed, Isolation, AllWorked
  PROVE  /\ \A s \in Sessions : Commit(s) \/ Abort(s) \/ CreateAccountFails(s) \/ RecheckFails(s) => AllWorked'
         /\ FeedRestart => AllWorked'
<1>1. ASSUME NEW s \in Sessions,
             Commit(s) \/ Abort(s) \/ CreateAccountFails(s) \/ RecheckFails(s) \/ (s = Feed /\ FeedRestart)
      PROVE  AllWorked'
  <2>1. s # Free /\ (s = Feed \/ UNCHANGED quoted)
    BY <1>1, Constants DEF Commit, Abort, CreateAccountFails, RecheckFails, FeedRestart, runner, Sessions
  <2>2. /\ Forget(s) /\ pc'[s] \in {"idle", "remaining"}
        /\ \A t \in Sessions \ {s} : pc'[t] = pc[t]
    BY <1>1 DEF Commit, Abort, CreateAccountFails, RecheckFails, FeedRestart, Goto, Typed, TypeOK
  <2>3. CASE CreateAccountFails(s) \/ RecheckFails(s)
    <3>1. UNCHANGED <<book, bookTip, bookOwner>> /\ \A p \in Positions : bookOwner[p] # s
      BY <2>3 DEF CreateAccountFails, RecheckFails, db, tips, AllWorked, Worked
    <3>. QED  BY <2>1, <2>2, <3>1, EndWorked
  <2>4. CASE Commit(s) \/ Abort(s) \/ (s = Feed /\ FeedRestart)
    <3>1. \A p \in Positions : bookOwner'[p] = IF bookOwner[p] = s THEN Free ELSE bookOwner[p]
      BY <2>4 DEF Commit, Abort, FeedRestart, Rollback, Unlock
    <3>2. \A p \in Positions : bookOwner[p] # s => book'[p] = book[p] /\ bookTip'[p] = bookTip[p]
      <4>1. CASE Commit(s)
        BY <4>1 DEF Commit
      <4>2. CASE Abort(s) \/ (s = Feed /\ FeedRestart)
        BY <4>2 DEF Abort, FeedRestart, Rollback, db
      <4>. QED  BY <2>4, <4>1, <4>2
    <3>3. \A p \in Positions : bookOwner'[p] # s
      BY <2>1, <3>1
    <3>4. \A p \in Positions, t \in Sessions \ {s} : bookOwner'[p] = t <=> bookOwner[p] = t
      BY <2>1, <3>1, Constants DEF Sessions
    <3>. QED  BY <2>1, <2>2, <3>2, <3>3, <3>4, EndWorked
  <2>. QED  BY <1>1, <2>3, <2>4
<1>. QED  BY <1>1 DEF Sessions

LEMMA StepsWorked ==
  ASSUME Typed, Isolation, AllWorked, NEW s \in Sessions,
         \/ LoadAccount(s) \/ CreateAccount(s) \/ RejectOrder(s) \/ Recheck(s)
         \/ \E p \in Positions : NextRow(s, p)
         \/ s = Feed /\ (Remaining \/ Discard)
  PROVE  AllWorked'
<1>1. CASE LoadAccount(s) \/ CreateAccount(s) \/ RejectOrder(s)
  <2>1. /\ UNCHANGED <<book, bookTip, bookOwner, request, price, todo, quoted>>
        /\ \A t \in Sessions \ {s} : UNCHANGED pc[t]
        /\ pc[s] \in {"order", "create", "fill"} /\ pc'[s] \in {"create", "fill", "commit"}
    BY <1>1 DEF LoadAccount, CreateAccount, RejectOrder, Goto, Typed, TypeOK, db, tips, locals, runner
  <2>2. \A p \in Positions : bookOwner[p] # s
    BY <2>1 DEF AllWorked, Worked
  <2>3. pc'[s] \in {"order", "create", "fill", "commit"}
    BY <2>1
  <2>. QED  BY <2>1, <2>2, <2>3, MoveWorked
<1>2. CASE Recheck(s) \/ \E p \in Positions : NextRow(s, p)
  <2>1. /\ UNCHANGED <<book, bookTip, bookOwner, request, price, todo, quoted>>
        /\ \A t \in Sessions \ {s} : UNCHANGED pc[t]
        /\ pc[s] \in {"recheck", "rows"} /\ pc'[s] \in {"rows", "book"}
    BY <1>2 DEF Recheck, NextRow, Goto, Typed, TypeOK, db, tips, locals, runner
  <2>2. request[s] = NoRequest
    BY <2>1 DEF AllWorked, Worked
  <2>3. pc'[s] \in {"rows", "book", "commit"}
    BY <2>1
  <2>. QED  BY <2>1, <2>2, <2>3, MoveWorked
<1>3. CASE s = Feed /\ (Remaining \/ Discard)
  <2>1. /\ UNCHANGED <<book, bookTip, bookOwner, request, price, todo>>
        /\ \A t \in Sessions \ {s} : UNCHANGED pc[t]
        /\ pc[s] \in {"remaining", "discard"} /\ pc'[s] \in {"discard", "idle"}
    BY <1>3 DEF Remaining, Discard, Goto, Typed, TypeOK, db, tips, locals
  <2>2. request[s] = NoRequest /\ \A p \in Positions : bookOwner[p] # s
    BY <2>1 DEF AllWorked, Worked
  <2>3. todo[s] = {}
    BY <2>1, IdleHolds
  <2>. QED  BY <1>3, <2>1, <2>2, <2>3, MoveWorked
<1>. QED  BY <1>1, <1>2, <1>3

LEMMA FillOrderWorked ==
  ASSUME Typed, Isolation, AllWorked, NEW s \in Sessions, FillOrder(s)
  PROVE  AllWorked'
<1> DEFINE row == OpenedRow(request[s], Decide(request[s], price[s]))
<1>1. /\ pc[s] = "fill" /\ pc'[s] = "commit" /\ \A t \in Sessions \ {s} : pc'[t] = pc[t]
      /\ UNCHANGED <<book, request, price, todo, quoted>>
      /\ Decide(request[s], price[s]) # None
  BY DEF FillOrder, Goto, Typed, TypeOK, db, locals, runner
<1>2. PICK p \in Positions :
        /\ bookTip[p].status = "none"
        /\ bookTip' = [bookTip EXCEPT ![p] = row]
        /\ bookOwner' = [bookOwner EXCEPT ![p] = s]
  BY DEF FillOrder
<1>. HIDE DEF row
<1>3. /\ bookTip'[p] = row /\ bookOwner'[p] = s
      /\ \A q \in Positions \ {p} : bookTip'[q] = bookTip[q] /\ bookOwner'[q] = bookOwner[q]
  BY <1>2 DEF Typed, TypeOK
<1>4. book[p].status = "none" /\ bookOwner[p] = Free
  BY <1>2 DEF Typed, TypeOK, RowsOK, Isolation, Locked
<1>5. \A q \in Positions : bookOwner[q] # s
  BY <1>1 DEF AllWorked, Worked
<1>6. request[s] \in Requests /\ price[s] \in Prices
  BY <1>1 DEF Typed, LocalsOK
<1>7. request[s] # NoRequest
  BY <1>6, Constants DEF Request, NoRequest
<1>8. Worked(s)'
  <2>1. Opens(s)'
    <3> SUFFICES ASSUME NEW q \in Positions, bookOwner'[q] = s
                 PROVE  /\ \A x \in Positions : bookOwner'[x] = s => x = q
                        /\ price'[s] \in Prices
                        /\ book'[q].status = "none"
                        /\ Decide(request'[s], price'[s]) # None
                        /\ bookTip'[q] = OpenedRow(request'[s], Decide(request'[s], price'[s]))
      BY DEF Opens
    <3>1. q = p /\ \A x \in Positions : bookOwner'[x] = s => x = q
      BY <1>3, <1>5
    <3>. QED  BY <1>1, <1>3, <1>4, <1>6, <3>1 DEF row
  <2>. QED  BY <1>1, <1>7, <2>1 DEF Worked
<1>9. ASSUME NEW t \in Sessions \ {s} PROVE Worked(t)'
  <2>1. t \in Sessions /\ t # s /\ t # Free
    BY <1>9, Constants DEF Sessions
  <2>2. \A q \in Positions : bookOwner'[q] = t <=> bookOwner[q] = t
    BY <1>3, <1>4, <2>1
  <2>3. \A q \in Positions : bookOwner[q] = t => bookTip'[q] = bookTip[q]
    BY <1>3, <1>4, <2>1
  <2>4. Worked(t) /\ pc'[t] = pc[t]
    BY <1>1, <2>1 DEF AllWorked
  <2>. QED  BY <1>1, <2>1, <2>2, <2>3, <2>4, OthersWorked
<1>. QED  BY <1>8, <1>9 DEF AllWorked

LEMMA CloseRowWorked ==
  ASSUME Typed, Isolation, AllWorked, NEW s \in Sessions, CloseRow(s)
  PROVE  AllWorked'
<1> DEFINE p == current[s]
<1>1. /\ pc[s] = "book" /\ pc'[s] \in {"rows", "commit"}
      /\ \A t \in Sessions \ {s} : pc'[t] = pc[t] /\ todo'[t] = todo[t]
      /\ todo'[s] = todo[s] \ {p}
      /\ UNCHANGED <<book, request, price, quoted>>
  BY DEF CloseRow, Goto, Typed, TypeOK, db, runner
<1>2. p \in todo[s] /\ p \in Positions
  BY DEF Typed, TypeOK, LocalsOK, CloseRow
<1>3. /\ bookTip'[p] = Booked(s, p) /\ bookOwner'[p] = s
      /\ \A q \in Positions \ {p} : bookTip'[q] = bookTip[q] /\ bookOwner'[q] = bookOwner[q]
  BY <1>2 DEF CloseRow, Booked, Typed, TypeOK
<1>4. bookOwner[p] \in {Free, s}
  BY DEF CloseRow
<1>5. request[s] = NoRequest /\ Closes(s)
  BY <1>1 DEF AllWorked, Worked
<1>. HIDE DEF p
<1>6. Worked(s)'
  <2>1. Closes(s)'
    <3> SUFFICES ASSUME NEW q \in Positions, bookOwner'[q] = s \/ q \in todo'[s]
                 PROVE  /\ price'[s] \in Prices
                        /\ book'[q].status = "open"
                        /\ bookOwner'[q] = s => bookTip'[q] = Booked(s, q)'
                        /\ s # Feed => \A x \in Positions : bookOwner'[x] = s \/ x \in todo'[s] => x = q
                        /\ s = Feed => book'[q].symbol = quoted' /\ ExitSignal(book'[q], price'[s]) # "none"
      BY DEF Closes
    <3>1. \A x \in Positions : bookOwner'[x] = s \/ x \in todo'[s] => bookOwner[x] = s \/ x \in todo[s]
      BY <1>1, <1>2, <1>3
    <3>2. Booked(s, q)' = Booked(s, q)
      BY <1>1 DEF Booked, Reason
    <3>3. bookOwner'[q] = s => bookTip'[q] = Booked(s, q)
      BY <1>3, <1>5 DEF Closes
    <3>4. bookOwner[q] = s \/ q \in todo[s]
      BY <3>1
    <3>. QED  BY <1>1, <1>5, <3>1, <3>2, <3>3, <3>4 DEF Closes
  <2>. QED  BY <1>1, <1>5, <2>1 DEF Worked
<1>7. ASSUME NEW t \in Sessions \ {s} PROVE Worked(t)'
  <2>1. t \in Sessions /\ t # s /\ t # Free
    BY <1>7, Constants DEF Sessions
  <2>2. \A q \in Positions : bookOwner'[q] = t <=> bookOwner[q] = t
    BY <1>3, <1>4, <2>1
  <2>3. \A q \in Positions : bookOwner[q] = t => bookTip'[q] = bookTip[q]
    BY <1>3, <1>4, <2>1
  <2>4. Worked(t) /\ pc'[t] = pc[t] /\ todo'[t] = todo[t]
    BY <1>1, <2>1 DEF AllWorked
  <2>. QED  BY <1>1, <2>1, <2>2, <2>3, <2>4, OthersWorked
<1>. QED  BY <1>6, <1>7 DEF AllWorked

LEMMA NextWorked == Typed /\ Isolation /\ AllWorked /\ [Next]_vars => AllWorked'
<1> SUFFICES ASSUME Typed, Isolation, AllWorked, [Next]_vars PROVE AllWorked'
  OBVIOUS
<1>1. CASE UNCHANGED <<db, tips, pc, locals, quoted>>
  <2>1. UNCHANGED <<book, bookTip, bookOwner, pc, request, price, todo, quoted>>
    BY <1>1 DEF db, tips, locals
  <2>. QED  BY <2>1, OthersWorked DEF AllWorked
<1>2. ASSUME NEW s \in Sessions, Step(s) PROVE AllWorked'
  BY <1>2, StepsWorked, EndingsWorked, FillOrderWorked, CloseRowWorked DEF Step, Ordering, Closing
<1>3. CASE Remaining \/ Discard
  BY <1>3, StepsWorked DEF Sessions
<1>. QED  BY <1>1, <1>2, <1>3, SubmitWorked, BeginWorked, EndingsWorked
          DEF Next, Works, Fails, Tick, RefreshRead, RefreshApply, vars, runner

LEMMA InitWorked == Init => AllWorked
  BY Constants DEF Init, AllWorked, Worked, Closes, Sessions
------------------------------------------------------------------------------
(* PaperTrading implements PaperLedger: its commits are the ledger's steps. *)

LEMMA LedgerEngine ==
  /\ Ledger!None = None /\ Ledger!NoEntry = NoEntry /\ Ledger!Nothing = Nothing
  /\ \A nobody : Ledger!NoRow(nobody) = NoRow(nobody)
  /\ \A r, ref : Ledger!Decide(r, ref) = Decide(r, ref)
  /\ \A r, fill : Ledger!OpenedRow(r, fill) = OpenedRow(r, fill)
  /\ \A row : Ledger!OpenPosting(row) = OpenPosting(row)
  /\ \A row, ref : Ledger!ExitSignal(row, ref) = ExitSignal(row, ref)
  /\ \A row, ref, why : Ledger!ExitFill(row, ref, why) = ExitFill(row, ref, why)
  /\ \A row, exit, why : Ledger!ClosedRow(row, exit, why) = ClosedRow(row, exit, why)
  /\ \A row : Ledger!JournalEntry(row) = JournalEntry(row)
  /\ \A row : Ledger!Settled(row) = Settled(row)
<1>1. /\ Ledger!None = None /\ Ledger!NoEntry = NoEntry /\ Ledger!Nothing = Nothing
      /\ \A nobody : Ledger!NoRow(nobody) = NoRow(nobody)
      /\ \A r, fill : Ledger!OpenedRow(r, fill) = OpenedRow(r, fill)
      /\ \A row, exit, why : Ledger!ClosedRow(row, exit, why) = ClosedRow(row, exit, why)
  BY DEF Ledger!None, None, Ledger!NoEntry, NoEntry, Ledger!Nothing, Nothing, Ledger!NoRow, NoRow,
         Ledger!OpenedRow, OpenedRow, Ledger!ClosedRow, ClosedRow
<1>2. /\ \A side : Ledger!Long(side) = Long(side) /\ Ledger!Sign(side) = Sign(side)
      /\ \A n : Ledger!Charge(n) = Charge(n) /\ Ledger!Slip(n) = Slip(n)
      /\ \A x, y : Ledger!Lower(x, y) = Lower(x, y) /\ Ledger!Higher(x, y) = Higher(x, y)
  BY DEF Ledger!Long, Long, Ledger!Sign, Sign, Ledger!Charge, Charge, Ledger!Slip, Slip,
         Ledger!Lower, Lower, Ledger!Higher, Higher
<1>3. \A r, ref : Ledger!Decide(r, ref) = Decide(r, ref)
  <2>1. \A r : Ledger!Malformed(r) = Malformed(r)
    BY <1>1, <1>2 DEF Ledger!Malformed, Malformed
  <2>2. \A r, ref : Ledger!FillPrice(r, ref) = FillPrice(r, ref)
    BY <1>1, <1>2 DEF Ledger!FillPrice, FillPrice
  <2>3. \A r, fill : Ledger!StopOnWrongSide(r, fill) = StopOnWrongSide(r, fill)
    BY <1>1, <1>2 DEF Ledger!StopOnWrongSide, StopOnWrongSide
  <2>. QED  BY <1>1, <2>1, <2>2, <2>3 DEF Ledger!Decide, Decide
<1>4. \A row, ref : Ledger!ExitSignal(row, ref) = ExitSignal(row, ref)
  <2>1. \A row, ref : /\ Ledger!StopHit(row, ref) = StopHit(row, ref)
                      /\ Ledger!TargetHit(row, ref) = TargetHit(row, ref)
    BY <1>1, <1>2 DEF Ledger!StopHit, StopHit, Ledger!TargetHit, TargetHit
  <2>. QED  BY <2>1 DEF Ledger!ExitSignal, ExitSignal
<1>5. \A row, ref, why : Ledger!ExitFill(row, ref, why) = ExitFill(row, ref, why)
  BY <1>1 DEF Ledger!ExitFill, ExitFill
<1>6. /\ \A row : Ledger!EntryNotional(row) = EntryNotional(row)
      /\ \A row : Ledger!EntryFee(row) = EntryFee(row)
      /\ \A row, exit : Ledger!ExitFee(row, exit) = ExitFee(row, exit)
      /\ \A row, exit : Ledger!GrossPnl(row, exit) = GrossPnl(row, exit)
  BY <1>2 DEF Ledger!EntryNotional, EntryNotional, Ledger!EntryFee, EntryFee, Ledger!ExitFee, ExitFee,
              Ledger!GrossPnl, GrossPnl
<1>7. \A row, exit : Ledger!NetPnl(row, exit) = NetPnl(row, exit)
  BY <1>6 DEF Ledger!NetPnl, NetPnl
<1>8. \A row : /\ Ledger!OpenPosting(row) = OpenPosting(row)
               /\ Ledger!JournalEntry(row) = JournalEntry(row)
               /\ Ledger!Settled(row) = Settled(row)
  BY <1>6, <1>7 DEF Ledger!OpenPosting, OpenPosting, Ledger!JournalEntry, JournalEntry, Ledger!Settled, Settled
<1>. QED  BY <1>1, <1>3, <1>4, <1>5, <1>8

(* The accounts' rows as a ledger, from what the positions owe. *)
LEMMA LedgerOwed ==
  ASSUME NEW accounts \in [Accounts -> AccountRow], NEW rows,
         \A a \in Accounts, p \in Positions : accounts[a].posted[p] = Due(a, rows[p])
  PROVE  [a \in Accounts |-> accounts[a].posted]
         = [a \in Accounts |-> [p \in Positions |-> Due(a, rows[p])]]
<1>1. ASSUME NEW a \in Accounts PROVE accounts[a].posted = [p \in Positions |-> Due(a, rows[p])]
  <2>1. accounts[a].posted \in [Positions -> Posting]
    BY DEF AccountRow
  <2>. QED  BY <2>1
<1>. QED  BY <1>1

(* A commit in which an order's transaction opened a position. *)
LEMMA OpenKept ==
  ASSUME Typed, Isolation, JournalKept, Typed', Isolation', JournalKept',
         NEW s \in Sessions, Opens(s), NEW r \in Requests, r = request[s], NEW ref, ref = price[s],
         NEW p \in Positions, bookOwner[p] = s,
         \A q \in Positions : book'[q] = IF bookOwner[q] = s THEN bookTip[q] ELSE book[q]
  PROVE  Ledger!Open(p, r, ref)
<1> DEFINE row == OpenedRow(r, Decide(r, ref))
           now == [a \in Accounts |-> account[a].posted]
           next == [a \in Accounts |-> account'[a].posted]
<1>1. /\ book[p].status = "none" /\ Decide(r, ref) # None /\ book'[p] = row
      /\ \A q \in Positions \ {p} : book'[q] = book[q]
  BY DEF Opens
<1>2. row.account = r.account /\ row.status = "open" /\ r.account \in Accounts
  BY Constants DEF OpenedRow, Request
<1>3. now = [a \in Accounts |-> [q \in Positions |-> Due(a, book[q])]]
  <2>1. account \in [Accounts -> AccountRow]
    BY DEF Typed, TypeOK
  <2>2. \A a \in Accounts, q \in Positions : account[a].posted[q] = Due(a, book[q])
    BY DEF Isolation, Paid
  <2>. QED  BY <2>1, <2>2, LedgerOwed
<1>4. next = [a \in Accounts |-> [q \in Positions |-> Due(a, book'[q])]]
  <2>1. account' \in [Accounts -> AccountRow]
    BY DEF Typed, TypeOK
  <2>2. \A a \in Accounts, q \in Positions : account'[a].posted[q] = Due(a, book'[q])
    BY DEF Isolation, Paid, Due
  <2>. QED  BY <2>1, <2>2, LedgerOwed
<1>. HIDE DEF row
<1>5. book' = [book EXCEPT ![p] = row]
  <2>1. book \in [Positions -> PositionRow] /\ book' \in [Positions -> PositionRow]
    BY DEF Typed, TypeOK
  <2>. QED  BY <1>1, <2>1
<1>6. UNCHANGED journal
  <2>1. \A q \in Positions : RoundTripOf(book'[q]) = RoundTripOf(book[q])
    BY <1>1, <1>2 DEF RoundTripOf
  <2>2. \A q \in Positions : journal'[q] = RoundTripOf(book'[q]) /\ journal[q] = RoundTripOf(book[q])
    BY DEF JournalKept, RoundTripOf, JournalEntry, NetPnl, GrossPnl, EntryFee, ExitFee, EntryNotional
  <2>3. journal \in [Positions -> Entry] /\ journal' \in [Positions -> Entry]
    BY DEF Typed, TypeOK
  <2>. QED  BY <2>1, <2>2, <2>3
<1>7. next = [now EXCEPT ![r.account][p] = OpenPosting(row)]
  <2>1. Due(r.account, row) = OpenPosting(row)
    BY <1>2 DEF Due
  <2>2. \A a \in Accounts : a # r.account => Due(a, row) = Due(a, book[p])
    <3>1. \A a \in Accounts : book[p].account # a
      BY <1>1, Constants DEF Isolation, Blank
    <3>. QED  BY <1>2, <3>1, DueElsewhere
  <2>3. \A a \in Accounts, q \in Positions :
          next[a][q] = IF a = r.account /\ q = p THEN OpenPosting(row) ELSE now[a][q]
    <3>. HIDE DEF now, next
    <3>1. \A a \in Accounts, q \in Positions :
            now[a][q] = Due(a, book[q]) /\ next[a][q] = Due(a, book'[q])
      BY <1>3, <1>4
    <3>2. \A q \in Positions : book'[q] = IF q = p THEN row ELSE book[q]
      BY <1>1 DEF row
    <3>. QED  BY <2>1, <2>2, <3>1, <3>2
  <2>4. /\ DOMAIN now = Accounts /\ now = [a \in Accounts |-> now[a]]
        /\ \A a \in Accounts : now[a] = [q \in Positions |-> now[a][q]]
    BY <1>3
  <2>5. /\ next = [a \in Accounts |-> next[a]]
        /\ \A a \in Accounts : next[a] = [q \in Positions |-> next[a][q]]
    BY <1>4
  <2>. HIDE DEF now, next
  <2>6. \A a \in Accounts : next[a] = IF a = r.account THEN [now[a] EXCEPT ![p] = OpenPosting(row)] ELSE now[a]
    BY <2>3, <2>4, <2>5
  <2>7. next = [now EXCEPT ![r.account] = [now[r.account] EXCEPT ![p] = OpenPosting(row)]]
    BY ZenonT(40), <1>2, <2>4, <2>5, <2>6
  <2>. QED  BY <2>7
<1>. QED
  BY <1>1, <1>5, <1>6, <1>7, LedgerEngine DEF Ledger!Open, row

(* A commit in which a transaction closed the rows of S. *)
LEMMA CloseKept ==
  ASSUME Typed, Isolation, JournalKept, Typed', Isolation', JournalKept',
         NEW s \in Sessions, Closes(s), NEW ref, ref = price[s], NEW S \in SUBSET Positions,
         \A q \in Positions : q \in S <=> bookOwner[q] = s,
         \A q \in Positions : book'[q] = IF bookOwner[q] = s THEN bookTip[q] ELSE book[q],
         NEW reason, \A q \in S : reason[q] = Reason(s, book[q])
  PROVE  Ledger!Close(S, ref, reason)
<1> DEFINE closed == [p \in S |-> ClosedRow(book[p], ExitFill(book[p], ref, reason[p]), reason[p])]
           now == [a \in Accounts |-> account[a].posted]
           next == [a \in Accounts |-> account'[a].posted]
<1>1. ASSUME NEW p \in S
      PROVE  /\ book[p].status = "open" /\ book'[p] = closed[p]
             /\ closed[p].status = "closed" /\ closed[p].account = book[p].account
  <2>1. book[p].status = "open" /\ bookTip[p] = Booked(s, p) /\ book'[p] = bookTip[p]
    BY DEF Closes
  <2>2. closed[p] = Booked(s, p)
    BY DEF Booked
  <2>3. book[p] \in PositionRow
    BY DEF Typed, TypeOK
  <2>4. closed[p].status = "closed" /\ closed[p].account = book[p].account
    BY <2>3 DEF ClosedRow, PositionRow
  <2>. HIDE DEF closed
  <2>. QED  BY <2>1, <2>2, <2>4
<1>2. \A p \in Positions \ S : book'[p] = book[p]
  OBVIOUS
<1>3. \A a \in Accounts, p \in Positions :
         now[a][p] = Due(a, book[p]) /\ next[a][p] = Due(a, book'[p])
  BY DEF Isolation, Paid, Due
<1>4. next = [a \in Accounts |-> [q \in Positions |-> Due(a, book'[q])]]
  <2>1. account' \in [Accounts -> AccountRow]
    BY DEF Typed, TypeOK
  <2>2. \A a \in Accounts, q \in Positions : account'[a].posted[q] = Due(a, book'[q])
    BY DEF Isolation, Paid, Due
  <2>. QED  BY <2>1, <2>2, LedgerOwed
<1>5. \A p \in Positions : /\ journal'[p] = RoundTripOf(book'[p])
                            /\ journal[p] = RoundTripOf(book[p])
  BY DEF JournalKept, RoundTripOf, JournalEntry, NetPnl, GrossPnl, EntryFee, ExitFee, EntryNotional
<1>. HIDE DEF closed, now, next
<1>6. book' = [p \in Positions |-> IF p \in S THEN closed[p] ELSE book[p]]
  <2>1. book' \in [Positions -> PositionRow]
    BY DEF Typed, TypeOK
  <2>. QED  BY <1>1, <1>2, <2>1
<1>7. journal' = [p \in Positions |-> IF p \in S THEN JournalEntry(closed[p]) ELSE journal[p]]
  <2>1. journal' \in [Positions -> Entry]
    BY DEF Typed, TypeOK
  <2>2. \A p \in S : journal'[p] = JournalEntry(closed[p])
    BY <1>1, <1>5 DEF RoundTripOf
  <2>3. \A p \in Positions \ S : journal'[p] = journal[p]
    BY <1>2, <1>5
  <2>. QED  BY <2>1, <2>2, <2>3
<1>8. next = [a \in Accounts |-> [p \in Positions |->
                IF p \in S /\ book[p].account = a THEN Settled(closed[p]) ELSE now[a][p]]]
  <2>1. ASSUME NEW a \in Accounts, NEW p \in Positions
        PROVE  Due(a, book'[p]) = IF p \in S /\ book[p].account = a THEN Settled(closed[p]) ELSE now[a][p]
    <3>1. CASE p \in S /\ book[p].account = a
      BY <1>1, <3>1 DEF Due
    <3>2. CASE p \in S /\ book[p].account # a
      BY <1>1, <1>3, <3>2, DueElsewhere
    <3>3. CASE p \notin S
      BY <1>2, <1>3, <3>3
    <3>. QED  BY <3>1, <3>2, <3>3
  <2>. QED  BY <1>4, <2>1
<1>9. \A p \in S : Ledger!ClosedRow(book[p], Ledger!ExitFill(book[p], ref, reason[p]), reason[p])
                   = ClosedRow(book[p], ExitFill(book[p], ref, reason[p]), reason[p])
  BY LedgerEngine
<1>10. [p \in S |-> Ledger!ClosedRow(book[p], Ledger!ExitFill(book[p], ref, reason[p]), reason[p])] = closed
  BY <1>9 DEF closed
<1>11. \A p \in S : Ledger!JournalEntry(closed[p]) = JournalEntry(closed[p]) /\ Ledger!Settled(closed[p]) = Settled(closed[p])
  BY LedgerEngine
<1>12. journal' = [p \in Positions |-> IF p \in S THEN Ledger!JournalEntry(closed[p]) ELSE journal[p]]
  BY <1>7, <1>11
<1>13. next = [a \in Accounts |-> [p \in Positions |->
                IF p \in S /\ book[p].account = a THEN Ledger!Settled(closed[p]) ELSE now[a][p]]]
  BY <1>8, <1>11
<1>. QED
  BY <1>1, <1>6, <1>10, <1>12, <1>13 DEF Ledger!Close, now, next

LEMMA CommitKept ==
  ASSUME Typed, Isolation, JournalKept, AllWorked, Typed', Isolation', JournalKept',
         NEW s \in Sessions, Commit(s)
  PROVE  [Ledger!Next]_(Ledger!ledgerVars)
<1> DEFINE mine == {p \in Positions : bookOwner[p] = s}
<1>1. \A p \in Positions : book'[p] = IF bookOwner[p] = s THEN bookTip[p] ELSE book[p]
  BY DEF Commit
<1>2. CASE mine = {}
  <2>1. book' = book /\ journal' = journal
    <3>1. \A p \in Positions : bookOwner[p] # s
      BY <1>2
    <3>2. \A p \in Positions : book'[p] = book[p] /\ journal'[p] = journal[p]
      BY <3>1 DEF Commit
    <3>3. /\ book \in [Positions -> PositionRow] /\ book' \in [Positions -> PositionRow]
          /\ journal \in [Positions -> Entry] /\ journal' \in [Positions -> Entry]
      BY DEF Typed, TypeOK
    <3>. QED  BY <3>2, <3>3
  <2>2. \A a \in Accounts : account'[a].posted = account[a].posted
    <3>1. ASSUME NEW a \in Accounts, NEW p \in Positions
          PROVE  account'[a].posted[p] = account[a].posted[p]
      <4>1. account[a].posted[p] = Due(a, book[p])
        BY DEF Isolation, Paid
      <4>2. account'[a].posted[p] = Due(a, book'[p])
        BY DEF Isolation, Paid, Due
      <4>. QED  BY <2>1, <4>1, <4>2
    <3>2. \A a \in Accounts : account[a].posted \in [Positions -> Posting] /\ account'[a].posted \in [Positions -> Posting]
      BY DEF Typed, TypeOK, AccountRow
    <3>. QED  BY <3>1, <3>2
  <2>. QED  BY <2>1, <2>2 DEF Ledger!ledgerVars
<1>3. CASE mine # {} /\ request[s] # NoRequest
  <2>1. PICK p \in Positions : bookOwner[p] = s
    BY <1>3
  <2>2. Opens(s) /\ request[s] \in Requests
    BY <1>3 DEF AllWorked, Worked, Typed, TypeOK
  <2>3. PICK r \in Requests, ref \in Prices : r = request[s] /\ ref = price[s]
    BY <2>1, <2>2 DEF Opens
  <2>4. Ledger!Open(p, r, ref)
    BY <1>1, <2>1, <2>2, <2>3, OpenKept
  <2>5. Ledger!Next
    BY <2>4 DEF Ledger!Next
  <2>. QED  BY <2>5
<1>4. CASE mine # {} /\ request[s] = NoRequest
  <2>1. PICK p \in Positions : bookOwner[p] = s
    BY <1>4
  <2>2. Closes(s)
    BY <1>4 DEF AllWorked, Worked
  <2>3. PICK ref \in Prices : ref = price[s]
    BY <2>1, <2>2 DEF Closes
  <2>4. CASE s = Feed
    <3>1. PICK S \in SUBSET Positions : S = mine
      OBVIOUS
    <3>2. S # {} /\ \A q \in Positions : q \in S <=> bookOwner[q] = s
      BY <1>4, <3>1
    <3>3. PICK sym \in Symbols : sym = quoted
      <4>1. book[p].status = "open" /\ book[p].symbol = quoted
        BY <2>1, <2>2, <2>4 DEF Closes
      <4>. QED  BY <4>1 DEF Typed, RowsOK
    <3>4. PICK reason : reason = [q \in S |-> Ledger!ExitSignal(book[q], ref)]
      OBVIOUS
    <3>5. \A q \in S : reason[q] = Reason(s, book[q])
      BY <2>3, <2>4, <3>4, LedgerEngine DEF Reason
    <3>6. \A q \in S : book[q].symbol = sym /\ Ledger!ExitSignal(book[q], ref) # "none"
      <4>1. \A q \in S : book[q].symbol = quoted /\ ExitSignal(book[q], price[s]) # "none"
        BY <2>2, <2>4, <3>2 DEF Closes
      <4>. QED  BY <2>3, <3>3, <4>1, LedgerEngine
    <3>7. Ledger!Close(S, ref, reason)
      BY <1>1, <2>2, <2>3, <3>2, <3>5, CloseKept
    <3>8. Ledger!CloseByTick(S, sym, ref)
      BY <3>2, <3>4, <3>6, <3>7 DEF Ledger!CloseByTick, Ledger!Close
    <3>9. Ledger!Next
      BY <3>8 DEF Ledger!Next
    <3>. QED  BY <3>9
  <2>5. CASE s # Feed
    <3>1. PICK reason : reason = [q \in {p} |-> "manual"]
      OBVIOUS
    <3>2. \A q \in {p} : reason[q] = Reason(s, book[q])
      BY <2>5, <3>1 DEF Reason
    <3>3. {p} \in SUBSET Positions /\ \A q \in Positions : q \in {p} <=> bookOwner[q] = s
      BY <2>1, <2>2, <2>5 DEF Closes
    <3>4. Ledger!Close({p}, ref, reason)
      BY <1>1, <2>2, <2>3, <3>2, <3>3, CloseKept
    <3>5. Ledger!CloseByHand(p, ref)
      BY <3>1, <3>4 DEF Ledger!CloseByHand
    <3>6. Ledger!Next
      BY <3>5 DEF Ledger!Next
    <3>. QED  BY <3>6
  <2>. QED  BY <2>4, <2>5
<1>. QED  BY <1>2, <1>3, <1>4

LEMMA NextKept ==
  Typed /\ Isolation /\ JournalKept /\ AllWorked /\ Typed' /\ Isolation' /\ JournalKept' /\ [Next]_vars
    => [Ledger!Next]_(Ledger!ledgerVars)
<1> SUFFICES ASSUME Typed, Isolation, JournalKept, AllWorked, Typed', Isolation', JournalKept', [Next]_vars
             PROVE  [Ledger!Next]_(Ledger!ledgerVars)
  OBVIOUS
<1>1. CASE UNCHANGED db
  BY <1>1 DEF db, Ledger!ledgerVars
<1>2. ASSUME NEW s \in Sessions, Commit(s) PROVE [Ledger!Next]_(Ledger!ledgerVars)
  BY <1>2, CommitKept
<1>. QED
  BY <1>1, <1>2
     DEF Next, Works, Fails, Step, Ordering, Closing, Tick, Submit, RequestClose, LoadAccount, CreateAccount,
         CreateAccountFails, RejectOrder, FillOrder, Recheck, RecheckFails, NextRow, CloseRow,
         Abort, OnQuote, Remaining, Discard, RefreshRead, RefreshApply, FeedRestart, vars

LEMMA InitKept == Init => Ledger!Init
  BY LedgerEngine DEF Init, Ledger!Init, NoAccount

(* The service implements its abstract specification: wherever transactions *)
(* on one account exclude each other, each commit is, seen from outside,    *)
(* one atomic order, manual close or tick of PaperLedger, and nothing else  *)
(* shows.                                                                   *)
THEOREM ImplementsLedger == Isolated /\ Spec => LedgerKept
<1> SUFFICES ASSUME Isolated PROVE Spec => LedgerKept
  OBVIOUS
<1>1. Typed /\ Isolation /\ [Next]_vars => Isolation'
  BY NextIsolated
<1>. QED
  BY <1>1, InitIsolation, InitJournal, InitWorked, InitKept, NextJournal, NextWorked, NextKept, AlwaysTyped, PTL
     DEF Spec, LedgerKept, Ledger!Spec
=============================================================================
