--------------------------- MODULE CandlePipeline ---------------------------
(***************************************************************************)
(* The bars of one symbol, from quotes to the database and the bus:        *)
(* FeedService._handle_quote and _drain_closed (feed/service.py), the      *)
(* candle builder and the upsert of closed bars.                           *)
(*                                                                         *)
(* Time is counted in minutes.  Width lists the timeframes in the order    *)
(* in which the builder serves them; a timeframe is its position there.    *)
(* One task handles the quotes one after the other, so a step is what it   *)
(* does between two awaits of the database.  An API request may backfill    *)
(* the same rows from the broker's history at any time.                    *)
(***************************************************************************)
EXTENDS Integers, Sequences, SequencesExt, FiniteSetsExt

CONSTANTS Width,        \* by timeframe: minutes in a bar
          MaxTime,      \* bound: the last minute of a quote
          Session,      \* the minutes at which the market is open
          Prices,       \* of quotes; 0 stands for a tick without a price
          MaxVolume,    \* bound on the day's cumulative volume
          MaxGapFill,   \* flat bars made up at one gap
          MaxQuotes,    \* bound: quotes handled
          MaxFaults,    \* bound: failed transactions and process restarts
          History,      \* the broker's bars, by timeframe and minute, or NoBar
          Span,         \* minutes a request for history may cover
          Ranges,       \* <<from, to>> of the requests
          MaxBackfills  \* bound

Frames == DOMAIN Width
Minutes == 0 .. MaxTime

NoBar == [ts |-> -1]
Bar(ts, open, high, low, close, volume) ==
    [ts |-> ts, open |-> open, high |-> high, low |-> low, close |-> close, volume |-> volume]
BarType == [ts : Minutes, open : Nat, high : Nat, low : Nat, close : Nat, volume : Nat]

(* validate_candle *)
Valid(bar) ==
    /\ \A x \in {bar.open, bar.high, bar.low, bar.close} : x > 0
    /\ bar.low <= bar.open /\ bar.open <= bar.high
    /\ bar.low <= bar.close /\ bar.close <= bar.high
    /\ bar.volume >= 0

ASSUME PipelineConstants ==
    /\ Width \in Seq(Nat \ {0}) /\ MaxTime \in Nat /\ Session \subseteq Minutes
    /\ Prices \subseteq Nat /\ MaxVolume \in Nat /\ MaxGapFill \in Nat
    /\ MaxQuotes \in Nat /\ MaxFaults \in Nat
    /\ Span \in Nat \ {0} /\ Ranges \subseteq Minutes \X Minutes /\ MaxBackfills \in Nat

(* Nobody checks the broker's own bars, and a price it leaves out is a 0.   *)
ASSUME BrokersBars ==
    /\ History \in [Frames -> [Minutes -> BarType \cup {NoBar}]]
    /\ \A f \in Frames, ts \in Minutes : History[f][ts] # NoBar => History[f][ts].ts = ts

VARIABLES
    current,     \* by timeframe: the working bar, or NoBar
    lastVolume,  \* _last_volume of the symbol, -1 before the first quote
    closed,      \* bars closed and not yet drained
    pending,     \* bars in the database transaction, or waiting to be published
    stage,       \* "idle", "storing" or "publishing"
    candles,     \* in the database, by timeframe and minute: a bar, or NoBar
    published,   \* CandleClosed events, oldest first
    lastTick,    \* minute of the latest quote handled so far
    late,        \* some quote was older than one before it
    quotes,      \* quotes handled so far
    traded,      \* cumulative volume the market reported so far
    takenBack,   \* by how much quotes fell below the count before them, in all
    faults,      \* failed transactions and restarts so far
    backfills    \* backfills committed so far

pipeline == <<current, lastVolume, closed, pending, stage>>
market   == <<quotes, lastTick, late, traded, takenBack>>
vars     == <<pipeline, candles, published, market, faults, backfills>>

Init ==
    /\ current = [f \in Frames |-> NoBar]
    /\ lastVolume = -1
    /\ closed = <<>> /\ pending = <<>>
    /\ stage = "idle"
    /\ candles = [f \in Frames |-> [ts \in Minutes |-> NoBar]]
    /\ published = <<>>
    /\ quotes = 0 /\ lastTick = 0 /\ late = FALSE /\ traded = 0 /\ takenBack = 0
    /\ faults = 0 /\ backfills = 0
------------------------------------------------------------------------------
Smaller(x, y) == IF x <= y THEN x ELSE y
Larger(x, y)  == IF x <= y THEN y ELSE x

(* floor_to_timeframe, next_bar *)
Floor(f, t)    == t - (t % Width[f])
NextBar(f, ts) == ts + Width[f]

(* A quote in the working bar, and one that opens a bar. *)
Updated(bar, price, volume) ==
    Bar(bar.ts, bar.open, Larger(bar.high, price), Smaller(bar.low, price), price,
        bar.volume + volume)
Opened(ts, price, volume) == Bar(ts, price, price, price, price, volume)

(* Mutant: the flat bars start at the closed bar itself. *)
FlatBarsFromSelf(f, bar, target) ==
    LET missing == (target - bar.ts) \div Width[f]
    IN  [k \in 1 .. Smaller(Larger(missing, 0), MaxGapFill) |->
            Opened(bar.ts + (k - 1) * Width[f], bar.close, 0)]

(* _fill_gap: flat bars from the closed bar to the new one, if that is later. *)
FlatBars(f, bar, target) ==
    LET missing == (target - NextBar(f, bar.ts)) \div Width[f]
    IN  [k \in 1 .. Smaller(Larger(missing, 0), MaxGapFill) |->
            Opened(bar.ts + k * Width[f], bar.close, 0)]

(* A quote at minute t closes the working bar of timeframe f. *)
Closes(f, t) == current[f] # NoBar /\ Floor(f, t) # current[f].ts

(* Mutant: no bar is validated. *)
RefusedNever(f, t) == FALSE

(* add_quote serves the timeframes in turn and stops at the first whose     *)
(* working bar does not pass validate_candle.                               *)
Refused(f, t) == Closes(f, t) /\ ~Valid(current[f])
Reached(f, t) == \A g \in 1 .. f : ~Refused(g, t)

AfterQuote(f, t, price, volume) ==
    CASE ~Reached(f, t)                   -> current[f]
      [] Reached(f, t) /\ (Closes(f, t) \/ current[f] = NoBar)
                                          -> Opened(Floor(f, t), price, volume)
      [] OTHER                            -> Updated(current[f], price, volume)

ClosedBy(f, t) ==
    IF Reached(f, t) /\ Closes(f, t)
    THEN LET bars == <<current[f]>> \o FlatBars(f, current[f], Floor(f, t))
         IN  [k \in DOMAIN bars |-> [frame |-> f, bar |-> bars[k]]]
    ELSE <<>>

(* What the next quote's volume is compared with; a restart forgets it.     *)
Reference == IF lastVolume = -1 THEN traded ELSE lastVolume

(* A quote that comes late may also bring an older volume. *)
Observe(t, cumulative) ==
    /\ quotes < MaxQuotes
    /\ quotes' = quotes + 1
    /\ t >= lastTick => cumulative >= traded
    /\ cumulative <= Smaller(traded + 1, MaxVolume)
    /\ lastTick' = Larger(lastTick, t)
    /\ late' = (late \/ t < lastTick)
    /\ traded' = Larger(traded, cumulative)
    /\ takenBack' = takenBack + Larger(0, Reference - cumulative)
    /\ lastVolume' = cumulative

(* Mutant: volume traded off hours counts from zero. *)
IncrementFromZero(cumulative) == cumulative
Increment(cumulative) == IF lastVolume = -1 THEN 0 ELSE Larger(0, cumulative - lastVolume)

(* _handle_quote out of hours only remembers the volume. *)
QuoteOffHours(t, cumulative) ==
    /\ stage = "idle"
    /\ t \notin Session
    /\ Observe(t, cumulative)
    /\ UNCHANGED <<current, closed, pending, stage, candles, published, faults, backfills>>

(* In hours it builds the bars of every timeframe; what was closed, also by *)
(* an earlier quote that raised, goes into a transaction.                   *)
QuoteInHours(t, price, cumulative) ==
    LET bars == closed \o FlattenSeq([f \in Frames |-> ClosedBy(f, t)])
        fine == \A f \in Frames : Reached(f, t)
    IN  /\ stage = "idle"
        /\ t \in Session
        /\ Observe(t, cumulative)
        /\ current' = [f \in Frames |-> AfterQuote(f, t, price, Increment(cumulative))]
        /\ IF fine /\ bars # <<>>
           THEN stage' = "storing" /\ pending' = bars /\ closed' = <<>>
           ELSE closed' = bars /\ UNCHANGED <<stage, pending>>
        /\ UNCHANGED <<candles, published, faults, backfills>>

(* Mutant: the later bar replaces the row. *)
Overwritten(row, bar) == bar

(* upsert_candle *)
Merged(row, bar) ==
    IF row = NoBar THEN bar
    ELSE Bar(row.ts, row.open, Larger(row.high, bar.high), Smaller(row.low, bar.low), bar.close,
             Larger(row.volume, bar.volume))

(* The rows after one upsert for each bar, in turn.                         *)
Upserted(bars) ==
    LET after[k \in 0 .. Len(bars)] ==
            IF k = 0 THEN candles
            ELSE [after[k - 1] EXCEPT ![bars[k].frame][bars[k].bar.ts] = Merged(@, bars[k].bar)]
    IN  after[Len(bars)]

(* The transaction of _drain_closed commits ... *)
Store ==
    /\ stage = "storing"
    /\ candles' = Upserted(pending)
    /\ stage' = "publishing"
    /\ UNCHANGED <<current, lastVolume, closed, pending, published, market, faults, backfills>>

(* ... and only then its bars are published. *)
Publish ==
    /\ stage = "publishing"
    /\ published' = published \o pending
    /\ pending' = <<>>
    /\ stage' = "idle"
    /\ UNCHANGED <<current, lastVolume, closed, candles, market, faults, backfills>>

(* The transaction fails: the supervisor restarts the loop in the same      *)
(* service, and the bars it held are gone.                                  *)
StoreFails ==
    /\ stage = "storing"
    /\ faults < MaxFaults
    /\ faults' = faults + 1
    /\ pending' = <<>>
    /\ stage' = "idle"
    /\ UNCHANGED <<current, lastVolume, closed, candles, published, market, backfills>>

(* The process stops or dies and a new one begins; working bars are not     *)
(* flushed.                                                                 *)
Restart ==
    /\ faults < MaxFaults
    /\ faults' = faults + 1
    /\ current' = [f \in Frames |-> NoBar]
    /\ lastVolume' = -1
    /\ closed' = <<>> /\ pending' = <<>>
    /\ stage' = "idle"
    /\ UNCHANGED <<candles, published, market, backfills>>

(* HistoricalDataService.backfill: the range is asked for in chunks; both    *)
(* ends of a chunk belong to it, so a bar may come twice.                   *)
Chunk(f, from, to, k) ==
    {ts \in from + (k - 1) * Span .. Smaller(from + k * Span, to) : History[f][ts] # NoBar}

(* The bars of one chunk are of different minutes.                          *)
Downloaded(f, from, to) ==
    LET chunks == (to - from + Span - 1) \div Span
        after[k \in 0 .. chunks] ==
            IF k = 0 THEN candles[f]
            ELSE LET rows == after[k - 1]
                 IN  [ts \in Minutes |-> IF ts \in Chunk(f, from, to, k)
                                         THEN Merged(rows[ts], History[f][ts]) ELSE rows[ts]]
    IN  after[chunks]

(* They are upserted in one transaction, unvalidated.                       *)
Backfill(f, from, to) ==
    /\ backfills < MaxBackfills
    /\ from < to
    /\ candles' = [candles EXCEPT ![f] = Downloaded(f, from, to)]
    /\ backfills' = backfills + 1
    /\ UNCHANGED <<pipeline, published, market, faults>>
------------------------------------------------------------------------------
Quote ==
    \E t \in Minutes, cumulative \in 0 .. MaxVolume :
        \/ QuoteOffHours(t, cumulative)
        \/ \E price \in Prices : QuoteInHours(t, price, cumulative)

Request == \E f \in Frames, r \in Ranges : Backfill(f, r[1], r[2])

Next == Quote \/ Store \/ StoreFails \/ Publish \/ Restart \/ Request
Spec == Init /\ [][Next]_vars
------------------------------------------------------------------------------
Closed == [frame : Frames, bar : BarType]

TypeOK ==
    /\ current \in [Frames -> BarType \cup {NoBar}]
    /\ lastVolume \in -1 .. MaxVolume /\ traded \in 0 .. MaxVolume
    /\ closed \in Seq(Closed) /\ pending \in Seq(Closed) /\ published \in Seq(Closed)
    /\ stage \in {"idle", "storing", "publishing"}
    /\ stage = "idle" <=> pending = <<>>
    /\ candles \in [Frames -> [Minutes -> BarType \cup {NoBar}]]
    /\ quotes \in 0 .. MaxQuotes /\ lastTick \in Minutes /\ late \in BOOLEAN /\ takenBack \in Nat
    /\ faults \in 0 .. MaxFaults /\ backfills \in 0 .. MaxBackfills

Stored(f) == {ts \in Minutes : candles[f][ts] # NoBar}

(* Whatever prices the feed delivers and however late bars are merged into   *)
(* rows, no published bar is malformed, and no row, unless the broker itself  *)
(* sent a malformed bar for it: made-up bars and merges are never validated. *)
Malformed(f, ts) == History[f][ts] # NoBar /\ ~Valid(History[f][ts])
Spoilt(f, ts)    == backfills > 0 /\ Malformed(f, ts)
OnlyValidBars ==
    /\ \A f \in Frames, ts \in Minutes :
           ts \in Stored(f) => Valid(candles[f][ts]) \/ Spoilt(f, ts)
    /\ \A k \in DOMAIN published : Valid(published[k].bar)

(* The indicators never see a bar the database does not have, or has with   *)
(* a narrower range: a CandleClosed follows the commit of its row, and no   *)
(* later bar of the same minute and no backfill takes anything back.        *)
Covers(row, bar) ==
    /\ row # NoBar
    /\ row.low <= bar.low /\ bar.high <= row.high /\ bar.volume <= row.volume
PublishedAreStored ==
    \A k \in DOMAIN published :
        LET c == published[k] IN Covers(candles[c.frame][c.bar.ts], c.bar)

(* As long as quotes come in the order of time, a subscriber gets each bar  *)
(* of a timeframe once and in order, across gaps, lost transactions and     *)
(* restarts.                                                                *)
InTimeOrder ==
    ~late => \A i, j \in DOMAIN published :
        i < j /\ published[i].frame = published[j].frame => published[i].bar.ts < published[j].bar.ts

(* Volume is counted once.  The bars of a timeframe that are stored, beyond   *)
(* what the broker counted for the same minute, or on their way hold no more  *)
(* than the market traded and what late quotes took back: only that much is   *)
(* counted again by the next quote, whatever is lost, merged or fetched twice. *)
Volumes(bars, f) == [k \in DOMAIN bars |-> IF bars[k].frame = f THEN bars[k].bar.volume ELSE 0]
VolumeOf(row) == IF row = NoBar THEN 0 ELSE row.volume
BrokersVolume(f, ts) == IF backfills = 0 THEN 0 ELSE VolumeOf(History[f][ts])
RowVolumes(f) ==
    [ts \in Minutes |-> Larger(0, VolumeOf(candles[f][ts]) - BrokersVolume(f, ts))]
OnTheWay(f) ==
    SumFunction(Volumes(closed, f)) + VolumeOf(current[f])
    + (IF stage = "storing" THEN SumFunction(Volumes(pending, f)) ELSE 0)
VolumeCountedOnce ==
    \A f \in Frames : SumFunction(RowVolumes(f)) + OnTheWay(f) <= traded + takenBack

=============================================================================
