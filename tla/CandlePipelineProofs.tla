------------------------ MODULE CandlePipelineProofs ------------------------
(***************************************************************************)
(* The candle pipeline, for any timeframes, session hours, prices, broker's *)
(* bars and any number of quotes, faults and backfills.                    *)
(*                                                                         *)
(* First what the operators of one step compute: the flat bars of a gap,    *)
(* the bars one quote closes over all timeframes, the table after a         *)
(* transaction and after a backfill.  Then types, and the invariant:        *)
(* every bar is valid wherever it is, rows cover what waits to be           *)
(* published, and published, pending and closed bars stand in one line      *)
(* that ends before the bar of the latest quote.                            *)
(***************************************************************************)
EXTENDS CandlePipeline, SequenceTheorems, Induction

LEMMA Division ==
  ASSUME NEW w \in Nat \ {0}, NEW t \in Int
  PROVE  /\ t % w \in 0 .. w - 1 /\ t \div w \in Int
         /\ t = w * (t \div w) + (t % w)
         /\ t >= 0 => t \div w >= 0
  OBVIOUS

LEMMA WidthType == ASSUME NEW f \in Frames PROVE Width[f] \in Nat \ {0} /\ f \in Nat \ {0}
  BY PipelineConstants DEF Frames

LEMMA FloorType ==
  ASSUME NEW f \in Frames, NEW t \in Minutes
  PROVE  Floor(f, t) \in 0 .. t /\ Floor(f, t) \in Minutes
<1>. DEFINE w == Width[f]
<1>1. w \in Nat \ {0} /\ t \in Nat /\ t <= MaxTime /\ MaxTime \in Nat
  BY WidthType, PipelineConstants DEF Minutes
<1>. HIDE DEF w
<1>2. t % w \in 0 .. w - 1 /\ t \div w \in Int /\ t = w * (t \div w) + (t % w) /\ t \div w >= 0
  <2>1. t \in Int /\ t >= 0
    BY <1>1
  <2>. QED  BY ONLY <1>1, <2>1, Division
<1>3. w * (t \div w) >= 0
  BY <1>1, <1>2
<1>4. t - (t % w) \in 0 .. t
  BY <1>1, <1>2, <1>3
<1>. QED  BY <1>1, <1>4 DEF Floor, Minutes, w

(* A later minute belongs to the same bar or to a later one.                *)
LEMMA FloorMonotone ==
  ASSUME NEW f \in Frames, NEW s \in Minutes, NEW t \in Minutes, s <= t
  PROVE  Floor(f, s) <= Floor(f, t)
<1>. DEFINE w == Width[f]
            p == s \div w
            q == t \div w
<1>1. w \in Nat \ {0} /\ s \in Nat /\ t \in Nat
  BY WidthType, PipelineConstants DEF Minutes
<1>. HIDE DEF w
<1>2. s % w \in 0 .. w - 1 /\ p \in Int /\ s = w * p + (s % w)
  BY <1>1, Division
<1>3. t % w \in 0 .. w - 1 /\ q \in Int /\ t = w * q + (t % w)
  BY <1>1, Division
<1>. HIDE DEF p, q
<1>4. CASE p >= q + 1
  <2>1. w * p >= w * (q + 1)
    BY <1>1, <1>2, <1>3, <1>4
  <2>2. w * (q + 1) = w * q + w
    BY <1>1, <1>3
  <2>. QED  BY <1>1, <1>2, <1>3, <2>1, <2>2
<1>5. CASE p <= q
  <2>1. w * p <= w * q
    BY <1>1, <1>2, <1>3, <1>5
  <2>. QED  BY <1>1, <1>2, <1>3, <2>1 DEF Floor, w
<1>. QED  BY <1>2, <1>3, <1>4, <1>5

(* The flat bars lie one width apart between the closed bar and the new one. *)
LEMMA FlatFacts ==
  ASSUME NEW f \in Frames, NEW bar \in BarType, NEW target \in Minutes
  PROVE  /\ DOMAIN FlatBars(f, bar, target) = 1 .. Len(FlatBars(f, bar, target))
         /\ Len(FlatBars(f, bar, target)) \in Nat
         /\ FlatBars(f, bar, target) =
                [k \in DOMAIN FlatBars(f, bar, target) |-> FlatBars(f, bar, target)[k]]
         /\ \A k \in DOMAIN FlatBars(f, bar, target) :
               /\ FlatBars(f, bar, target)[k] = Opened(bar.ts + k * Width[f], bar.close, 0)
               /\ bar.ts + k * Width[f] \in Int
               /\ bar.ts + k * Width[f] > bar.ts
               /\ bar.ts + k * Width[f] <= target - Width[f]
               /\ \A j \in 1 .. k - 1 : bar.ts + j * Width[f] < bar.ts + k * Width[f]
<1>. DEFINE w == Width[f]
            d == target - NextBar(f, bar.ts)
            missing == d \div w
            n == Smaller(Larger(missing, 0), MaxGapFill)
<1>1. w \in Nat \ {0} /\ bar.ts \in Nat /\ target \in Nat /\ MaxGapFill \in Nat
  BY WidthType, PipelineConstants DEF Minutes, BarType
<1>2. d \in Int /\ d = target - bar.ts - w
  BY <1>1 DEF NextBar
<1>. HIDE DEF w, d
<1>3. missing \in Int /\ d % w \in 0 .. w - 1 /\ d = w * missing + (d % w)
  BY <1>1, <1>2, Division
<1>4. FlatBars(f, bar, target) = [k \in 1 .. n |-> Opened(bar.ts + k * Width[f], bar.close, 0)]
  BY DEF FlatBars, w, d
<1>. HIDE DEF missing
<1>5. n \in Nat /\ (n = 0 \/ n <= missing)
  BY <1>1, <1>3 DEF Smaller, Larger
<1>. HIDE DEF n
<1>6. ASSUME NEW k \in 1 .. n
      PROVE  k * w \in Int /\ k * w > 0 /\ k * w <= d
  <2>1. k \in Int /\ k >= 1 /\ k <= missing
    BY <1>3, <1>5
  <2>2. k * w <= missing * w
    BY <1>1, <1>3, <2>1
  <2>3. k * w >= 1 * w
    BY <1>1, <2>1
  <2>4. missing * w = w * missing /\ w * missing \in Int /\ k * w \in Int
    BY <1>1, <1>3, <2>1
  <2>. QED  BY <1>1, <1>2, <1>3, <2>2, <2>3, <2>4
<1>7. DOMAIN FlatBars(f, bar, target) = 1 .. n /\ Len(FlatBars(f, bar, target)) = n
  BY <1>4, <1>5
<1>8. ASSUME NEW k \in 1 .. n
      PROVE  /\ bar.ts + k * w \in Int /\ bar.ts + k * w > bar.ts /\ bar.ts + k * w <= target - w
             /\ \A j \in 1 .. k - 1 : bar.ts + j * w < bar.ts + k * w
  <2>1. ASSUME NEW j \in 1 .. k - 1 PROVE bar.ts + j * w < bar.ts + k * w
    <3>1. j * w + (k - j) * w = k * w /\ j * w \in Int /\ (k - j) * w \in Int
      BY <1>1
    <3>2. (k - j) * w >= 1 * w
      BY <1>1
    <3>. QED  BY <1>1, <1>6, <3>1, <3>2
  <2>2. bar.ts + k * w \in Int /\ bar.ts + k * w > bar.ts /\ bar.ts + k * w <= target - w
    BY <1>1, <1>2, <1>6
  <2>. QED  BY <2>1, <2>2
<1>. QED  BY <1>4, <1>5, <1>7, <1>8 DEF w

------------------------------------------------------------------------------
(* Rows and their upserts. *)
Rows  == BarType \cup {NoBar}
Table == [Frames -> [Minutes -> Rows]]

(* Whatever the old rows cover, the new ones do. *)
Widened(old, new) ==
    \A f \in Frames, ts \in Minutes, b \in BarType : Covers(old[f][ts], b) => Covers(new[f][ts], b)
Sound(rows) ==
    \A f \in Frames, ts \in Minutes : rows[f][ts] # NoBar => Valid(rows[f][ts]) \/ Spoilt(f, ts)

LEMMA MinutesType == Minutes \subseteq Nat /\ -1 \notin Minutes
  BY PipelineConstants DEF Minutes

LEMMA NoBarIsNone == NoBar \notin BarType
  BY MinutesType DEF NoBar, BarType

LEMMA MergedFacts ==
  ASSUME NEW row \in Rows, NEW bar \in BarType
  PROVE  /\ Merged(row, bar) \in BarType
         /\ Covers(Merged(row, bar), bar)
         /\ \A b \in BarType : Covers(row, b) => Covers(Merged(row, bar), b)
         /\ Valid(bar) /\ (row # NoBar => Valid(row)) => Valid(Merged(row, bar))
         /\ VolumeOf(Merged(row, bar)) = Larger(VolumeOf(row), bar.volume)
<1>1. CASE row = NoBar
  <2>1. bar.volume \in Nat
    BY DEF BarType
  <2>. QED  BY <1>1, <2>1, NoBarIsNone DEF Merged, Covers, BarType, VolumeOf, Larger
<1>2. CASE row # NoBar
  <2>. DEFINE new == Bar(row.ts, row.open, Larger(row.high, bar.high), Smaller(row.low, bar.low),
                         bar.close, Larger(row.volume, bar.volume))
  <2>1. Merged(row, bar) = new /\ row \in BarType
    BY <1>2 DEF Merged, Rows
  <2>2. /\ row.ts \in Minutes /\ \A n \in {row.open, row.high, row.low, row.close, row.volume} : n \in Nat
        /\ \A n \in {bar.open, bar.high, bar.low, bar.close, bar.volume} : n \in Nat
    BY <2>1 DEF BarType
  <2>3. new \in BarType
    BY <2>2 DEF Bar, BarType, Larger, Smaller
  <2>4. new.low <= bar.low /\ bar.high <= new.high /\ bar.volume <= new.volume
    BY <2>2 DEF Bar, Larger, Smaller
  <2>5. new.low <= row.low /\ row.high <= new.high /\ row.volume <= new.volume
    BY <2>2 DEF Bar, Larger, Smaller
  <2>6. new # NoBar
    BY <2>3, NoBarIsNone
  <2>7. ASSUME NEW b \in BarType, Covers(row, b) PROVE Covers(new, b)
    <3>1. b.low \in Nat /\ b.high \in Nat /\ b.volume \in Nat
      BY DEF BarType
    <3>2. new.low \in Nat /\ new.high \in Nat /\ new.volume \in Nat
      BY <2>3 DEF BarType
    <3>. HIDE DEF new
    <3>. QED  BY <2>2, <2>5, <2>6, <2>7, <3>1, <3>2 DEF Covers
  <2>8. ASSUME Valid(bar), Valid(row) PROVE Valid(new)
    BY <2>2, <2>8 DEF Bar, Valid, Larger, Smaller
  <2>9. VolumeOf(new) = Larger(VolumeOf(row), bar.volume)
    BY <1>2, <2>6 DEF Bar, VolumeOf
  <2>. HIDE DEF new
  <2>. QED  BY <1>2, <2>1, <2>3, <2>4, <2>6, <2>7, <2>8, <2>9 DEF Covers
<1>. QED  BY <1>1, <1>2

LEMMA VolumeType ==
  ASSUME NEW row \in Rows
  PROVE  VolumeOf(row) \in Nat
  BY DEF VolumeOf, Rows, BarType

(* One upsert. *)
Put(rows, c) == [rows EXCEPT ![c.frame][c.bar.ts] = Merged(@, c.bar)]

LEMMA PutFacts ==
  ASSUME NEW rows \in Table, NEW c \in Closed
  PROVE  /\ Put(rows, c) \in Table
         /\ Widened(rows, Put(rows, c))
         /\ Covers(Put(rows, c)[c.frame][c.bar.ts], c.bar)
         /\ Sound(rows) /\ Valid(c.bar) => Sound(Put(rows, c))
<1>. DEFINE f == c.frame
            ts == c.bar.ts
            new == Merged(rows[f][ts], c.bar)
<1>1. f \in Frames /\ ts \in Minutes /\ c.bar \in BarType /\ rows[f][ts] \in Rows
  BY DEF Closed, BarType, Table
<1>2. /\ new \in BarType /\ Covers(new, c.bar)
      /\ \A b \in BarType : Covers(rows[f][ts], b) => Covers(new, b)
      /\ Valid(c.bar) /\ (rows[f][ts] # NoBar => Valid(rows[f][ts])) => Valid(new)
  BY <1>1, MergedFacts
<1>3. Put(rows, c) = [rows EXCEPT ![f] = [rows[f] EXCEPT ![ts] = new]]
  BY <1>1 DEF Put, Table
<1>. HIDE DEF new, f, ts
<1>4. /\ Put(rows, c) \in Table /\ Put(rows, c)[f][ts] = new
      /\ \A g \in Frames, u \in Minutes : g # f \/ u # ts => Put(rows, c)[g][u] = rows[g][u]
  BY <1>1, <1>2, <1>3 DEF Table, Rows
<1>. QED  BY <1>1, <1>2, <1>4 DEF Widened, Sound, f, ts

(* The upserts of a transaction one after the other. *)
LEMMA UpsertedSteps ==
  ASSUME candles \in Table, NEW bars \in Seq(Closed)
  PROVE  \E after \in [0 .. Len(bars) -> Table] :
            /\ after[0] = candles /\ Upserted(bars) = after[Len(bars)]
            /\ \A k \in 1 .. Len(bars) : after[k] = Put(after[k - 1], bars[k])
<1>. DEFINE n == Len(bars)
            step == [k \in 1 .. n |-> [rows \in Table |-> Put(rows, bars[k])]]
            after[k \in 0 .. Len(bars)] ==
              IF k = 0 THEN candles
              ELSE [after[k - 1] EXCEPT ![bars[k].frame][bars[k].bar.ts] = Merged(@, bars[k].bar)]
            eq(g) == g = [k \in 0 .. n |-> IF k = 0 THEN candles ELSE Put(g[k - 1], bars[k])]
<1>1. n \in Nat /\ \A k \in 1 .. n : bars[k] \in Closed
  OBVIOUS
<1>2. step \in Steps(Table, n)
  BY <1>1, PutFacts DEF Steps
<1>3. PICK g : Iterates(g, Table, n, candles, step)
  <2>. HIDE DEF n, step
  <2>. QED  BY <1>1, <1>2, Iteration
<1>4. ASSUME NEW k \in 1 .. n PROVE g[k] = Put(g[k - 1], bars[k])
  BY <1>1, <1>3 DEF Iterates
<1>5. eq(g)
  <2>. HIDE DEF n
  <2>. QED  BY <1>1, <1>3, <1>4 DEF Iterates
<1>6. after = [k \in 0 .. Len(bars) |->
              IF k = 0 THEN candles
              ELSE [after[k - 1] EXCEPT ![bars[k].frame][bars[k].bar.ts] = Merged(@, bars[k].bar)]]
  <2>1. g = [k \in 0 .. Len(bars) |->
              IF k = 0 THEN candles
              ELSE [g[k - 1] EXCEPT ![bars[k].frame][bars[k].bar.ts] = Merged(@, bars[k].bar)]]
    BY <1>5 DEF Put
  <2>. QED  BY <2>1
<1>7. eq(after)
  <2>. HIDE DEF after
  <2>. QED  BY <1>6 DEF Put
<1>8. Upserted(bars) = after[n]
  BY DEF Upserted
<1>. HIDE DEF after, step, n
<1>9. after[0] = candles /\ \A k \in 1 .. n : after[k] = Put(after[k - 1], bars[k])
  BY <1>1, <1>7
<1>10. 0 .. n \subseteq {k \in 0 .. n : after[k] \in Table}
  <2>. DEFINE S == {k \in 0 .. n : after[k] \in Table}
  <2>1. 0 \in S /\ \A k \in 1 .. n : k - 1 \in S => k \in S
    BY <1>1, <1>9, PutFacts
  <2>. HIDE DEF S
  <2>2. 0 .. n \subseteq S
    BY <1>1, <2>1, BoundedInduction
  <2>. QED  BY <2>2 DEF S
<1>11. after \in [0 .. n -> Table]
  BY <1>7, <1>10
<1>. QED  BY <1>8, <1>9, <1>11 DEF n

LEMMA UpsertedFacts ==
  ASSUME candles \in Table, NEW bars \in Seq(Closed)
  PROVE  /\ Upserted(bars) \in Table
         /\ Widened(candles, Upserted(bars))
         /\ \A j \in 1 .. Len(bars) : Covers(Upserted(bars)[bars[j].frame][bars[j].bar.ts], bars[j].bar)
         /\ Sound(candles) /\ (\A j \in 1 .. Len(bars) : Valid(bars[j].bar)) => Sound(Upserted(bars))
<1>. DEFINE n == Len(bars)
<1>1. n \in Nat /\ \A k \in 1 .. n : bars[k] \in Closed
  OBVIOUS
<1>2. PICK after \in [0 .. n -> Table] :
            /\ after[0] = candles /\ Upserted(bars) = after[n]
            /\ \A k \in 1 .. n : after[k] = Put(after[k - 1], bars[k])
  BY UpsertedSteps
<1>. HIDE DEF n
<1>6. Upserted(bars) = after[n]
  BY <1>2
<1>7. after[0] = candles /\ \A k \in 1 .. n : after[k] = Put(after[k - 1], bars[k])
  BY <1>2
<1>. DEFINE Good(k) ==
              /\ after[k] \in Table
              /\ Widened(candles, after[k])
              /\ \A j \in 1 .. k : Covers(after[k][bars[j].frame][bars[j].bar.ts], bars[j].bar)
              /\ Sound(candles) /\ (\A j \in 1 .. n : Valid(bars[j].bar)) => Sound(after[k])
<1>8. Good(0)
  BY <1>7 DEF Widened
<1>9. ASSUME NEW k \in 1 .. n, Good(k - 1) PROVE Good(k)
  <2>1. /\ after[k] \in Table
        /\ Widened(after[k - 1], after[k])
        /\ Covers(after[k][bars[k].frame][bars[k].bar.ts], bars[k].bar)
        /\ Sound(after[k - 1]) /\ Valid(bars[k].bar) => Sound(after[k])
    BY <1>1, <1>7, <1>9, PutFacts
  <2>2. Widened(candles, after[k])
    BY <1>9, <2>1 DEF Widened
  <2>3. ASSUME NEW j \in 1 .. k PROVE Covers(after[k][bars[j].frame][bars[j].bar.ts], bars[j].bar)
    <3>1. CASE j = k
      BY <2>1, <3>1
    <3>2. CASE j # k
      <4>1. j \in 1 .. k - 1 /\ j \in 1 .. n
        BY <1>1, <3>2
      <4>2. bars[j].frame \in Frames /\ bars[j].bar.ts \in Minutes /\ bars[j].bar \in BarType
        BY <1>1, <4>1 DEF Closed, BarType
      <4>. QED  BY <1>9, <2>1, <4>1, <4>2 DEF Widened
    <3>. QED  BY <3>1, <3>2
  <2>. QED  BY <1>1, <1>9, <2>1, <2>2, <2>3
<1>10. Good(n)
  <2>. DEFINE S == {k \in 0 .. n : Good(k)}
  <2>. HIDE DEF Good
  <2>1. 0 \in S /\ \A k \in 1 .. n : k - 1 \in S => k \in S
    BY <1>1, <1>8, <1>9
  <2>. HIDE DEF S
  <2>2. 0 .. n \subseteq S
    BY <1>1, <2>1, BoundedInduction
  <2>. QED  BY <1>1, <2>2 DEF S
<1>. QED  BY <1>6, <1>10 DEF n

(* The rows of one timeframe after one chunk. *)
Column == [Minutes -> Rows]
Fetched(f, from, to, k, rows) ==
    [ts \in Minutes |-> IF ts \in Chunk(f, from, to, k) THEN Merged(rows[ts], History[f][ts]) ELSE rows[ts]]
Better(f, old, new) ==
    /\ \A ts \in Minutes, b \in BarType : Covers(old[ts], b) => Covers(new[ts], b)
    /\ \A ts \in Minutes :
           (old[ts] # NoBar => Valid(old[ts])) /\ ~Malformed(f, ts) => (new[ts] # NoBar => Valid(new[ts]))
    /\ \A ts \in Minutes : VolumeOf(new[ts]) <= Larger(VolumeOf(old[ts]), VolumeOf(History[f][ts]))

LEMMA FetchedFacts ==
  ASSUME NEW f \in Frames, NEW from, NEW to, NEW k, NEW rows \in Column
  PROVE  Fetched(f, from, to, k, rows) \in Column /\ Better(f, rows, Fetched(f, from, to, k, rows))
<1>. DEFINE new == Fetched(f, from, to, k, rows)
<1>1. ASSUME NEW ts \in Minutes
      PROVE  /\ new[ts] \in Rows
             /\ \A b \in BarType : Covers(rows[ts], b) => Covers(new[ts], b)
             /\ (rows[ts] # NoBar => Valid(rows[ts])) /\ ~Malformed(f, ts)
                    => (new[ts] # NoBar => Valid(new[ts]))
             /\ VolumeOf(new[ts]) <= Larger(VolumeOf(rows[ts]), VolumeOf(History[f][ts]))
  <2>0. rows[ts] \in Rows /\ VolumeOf(rows[ts]) \in Nat /\ VolumeOf(History[f][ts]) \in Nat
    BY BrokersBars, VolumeType DEF Column, Rows
  <2>1. CASE ts \in Chunk(f, from, to, k)
    <3>. DEFINE bar == History[f][ts]
    <3>1. bar \in BarType /\ bar # NoBar /\ (~Malformed(f, ts) => Valid(bar))
      BY <2>1, BrokersBars DEF Chunk, Malformed
    <3>2. new[ts] = Merged(rows[ts], bar)
      BY <2>1 DEF Fetched
    <3>3. VolumeOf(bar) = bar.volume
      BY <3>1 DEF VolumeOf
    <3>. HIDE DEF new, bar
    <3>4. /\ Merged(rows[ts], bar) \in BarType
          /\ \A b \in BarType : Covers(rows[ts], b) => Covers(Merged(rows[ts], bar), b)
          /\ Valid(bar) /\ (rows[ts] # NoBar => Valid(rows[ts])) => Valid(Merged(rows[ts], bar))
          /\ VolumeOf(Merged(rows[ts], bar)) = Larger(VolumeOf(rows[ts]), bar.volume)
      BY <2>0, <3>1, MergedFacts
    <3>5. VolumeOf(new[ts]) <= Larger(VolumeOf(rows[ts]), VolumeOf(bar))
      BY <2>0, <3>2, <3>3, <3>4 DEF Larger, bar
    <3>6. new[ts] \in Rows
      BY <3>2, <3>4 DEF Rows
    <3>. QED  BY <3>1, <3>2, <3>4, <3>5, <3>6 DEF bar
  <2>2. CASE ts \notin Chunk(f, from, to, k)
    <3>1. new[ts] = rows[ts]
      BY <2>2 DEF Fetched
    <3>. HIDE DEF new
    <3>. QED  BY <2>0, <3>1 DEF Larger
  <2>. QED  BY <2>1, <2>2
<1>2. new \in Column
  BY <1>1 DEF Fetched, Column
<1>. HIDE DEF new
<1>. QED  BY <1>1, <1>2 DEF Better, new

LEMMA DownloadedFacts ==
  ASSUME candles \in Table, NEW f \in Frames, NEW from \in Minutes, NEW to \in Minutes, from < to
  PROVE  Downloaded(f, from, to) \in Column /\ Better(f, candles[f], Downloaded(f, from, to))
<1>. DEFINE n == (to - from + Span - 1) \div Span
            step == [k \in 1 .. n |-> [rows \in Column |-> Fetched(f, from, to, k, rows)]]
            after[k \in 0 .. (to - from + Span - 1) \div Span] ==
              IF k = 0 THEN candles[f]
              ELSE LET rows == after[k - 1]
                   IN  [ts \in Minutes |-> IF ts \in Chunk(f, from, to, k)
                                            THEN Merged(rows[ts], History[f][ts]) ELSE rows[ts]]
<1>1. n \in Nat /\ candles[f] \in Column
  <2>. DEFINE d == to - from + Span - 1
  <2>1. Span \in Nat \ {0} /\ d \in Int /\ d >= 0
    BY MinutesType, PipelineConstants
  <2>2. n = d \div Span
    OBVIOUS
  <2>. HIDE DEF d
  <2>3. d \div Span \in Int /\ d \div Span >= 0
    BY ONLY <2>1, Division
  <2>. QED  BY <2>2, <2>3 DEF Table, Column
<1>2. step \in Steps(Column, n)
  BY FetchedFacts DEF Steps
<1>3. PICK g : Iterates(g, Column, n, candles[f], step)
  <2>. HIDE DEF n, step
  <2>. QED  BY <1>1, <1>2, Iteration
<1>4. ASSUME NEW k \in 1 .. n PROVE g[k] = Fetched(f, from, to, k, g[k - 1])
  <2>1. step[k] = [rows \in Column |-> Fetched(f, from, to, k, rows)]
    OBVIOUS
  <2>. HIDE DEF n, step
  <2>2. k - 1 \in 0 .. n
    BY <1>1
  <2>3. g[k] = step[k][g[k - 1]] /\ g[k - 1] \in Column
    BY <1>3, <2>2 DEF Iterates
  <2>. QED  BY <2>1, <2>3
<1>5. after = [k \in 0 .. n |->
              IF k = 0 THEN candles[f]
              ELSE [ts \in Minutes |-> IF ts \in Chunk(f, from, to, k)
                                        THEN Merged(after[k - 1][ts], History[f][ts]) ELSE after[k - 1][ts]]]
  <2>1. g = [k \in 0 .. n |->
              IF k = 0 THEN candles[f]
              ELSE [ts \in Minutes |-> IF ts \in Chunk(f, from, to, k)
                                        THEN Merged(g[k - 1][ts], History[f][ts]) ELSE g[k - 1][ts]]]
    <3>. HIDE DEF n
    <3>1. g = [k \in 0 .. n |-> g[k]] /\ g[0] = candles[f]
      BY <1>3 DEF Iterates
    <3>2. \A k \in 0 .. n : k # 0 => k \in 1 .. n
      BY <1>1
    <3>. QED  BY <1>4, <3>1, <3>2 DEF Fetched
  <2>. QED  BY <2>1
<1>. HIDE DEF after, n
<1>6. after[0] = candles[f] /\ \A k \in 1 .. n : after[k] = Fetched(f, from, to, k, after[k - 1])
  <2>1. ASSUME NEW k \in 1 .. n PROVE after[k] = Fetched(f, from, to, k, after[k - 1])
    <3>1. k \in 0 .. n /\ k # 0
      BY <1>1
    <3>. QED  BY <1>5, <3>1 DEF Fetched
  <2>2. after[0] = candles[f]
    BY <1>1, <1>5
  <2>. QED  BY <2>1, <2>2
<1>. USE DEF after, n
<1>7. Downloaded(f, from, to) = after[n]
  BY DEF Downloaded
<1>. HIDE DEF after, step, n
<1>. DEFINE Good(k) == after[k] \in Column /\ Better(f, candles[f], after[k])
<1>8. Good(0)
  <2>1. \A ts \in Minutes : VolumeOf(candles[f][ts]) \in Nat /\ VolumeOf(History[f][ts]) \in Nat
    BY <1>1, BrokersBars, VolumeType DEF Column, Rows
  <2>. QED  BY <1>1, <1>6, <2>1 DEF Better, Larger
<1>9. ASSUME NEW k \in 1 .. n, Good(k - 1) PROVE Good(k)
  <2>1. after[k] \in Column /\ Better(f, after[k - 1], after[k])
    BY <1>6, <1>9, FetchedFacts
  <2>2. ASSUME NEW ts \in Minutes
        PROVE  VolumeOf(after[k][ts]) <= Larger(VolumeOf(candles[f][ts]), VolumeOf(History[f][ts]))
    <3>1. /\ VolumeOf(after[k][ts]) \in Nat /\ VolumeOf(after[k - 1][ts]) \in Nat
          /\ VolumeOf(candles[f][ts]) \in Nat /\ VolumeOf(History[f][ts]) \in Nat
      BY <1>1, <1>9, <2>1, BrokersBars, VolumeType DEF Column, Rows
    <3>2. /\ VolumeOf(after[k][ts]) <= Larger(VolumeOf(after[k - 1][ts]), VolumeOf(History[f][ts]))
          /\ VolumeOf(after[k - 1][ts]) <= Larger(VolumeOf(candles[f][ts]), VolumeOf(History[f][ts]))
      BY <1>9, <2>1 DEF Better
    <3>. QED  BY <3>1, <3>2 DEF Larger
  <2>. QED  BY <1>9, <2>1, <2>2 DEF Better
<1>10. Good(n)
  <2>. DEFINE S == {k \in 0 .. n : Good(k)}
  <2>. HIDE DEF Good
  <2>1. 0 \in S /\ \A k \in 1 .. n : k - 1 \in S => k \in S
    BY <1>1, <1>8, <1>9
  <2>. HIDE DEF S
  <2>2. 0 .. n \subseteq S
    BY <1>1, <2>1, BoundedInduction
  <2>. QED  BY <1>1, <2>2 DEF S
<1>. QED  BY <1>7, <1>10

------------------------------------------------------------------------------
(* What one quote closes. *)
Ascending(bars) ==
    \A i, j \in DOMAIN bars : i < j /\ bars[i].frame = bars[j].frame => bars[i].bar.ts < bars[j].bar.ts

FromQuote(c, t) ==
    /\ Closes(c.frame, t) /\ Reached(c.frame, t)
    /\ Valid(c.bar)
    /\ current[c.frame].ts <= c.bar.ts
    /\ current[c.frame].ts < Floor(c.frame, t) => c.bar.ts < Floor(c.frame, t)

LEMMA ClosedByFacts ==
  ASSUME current \in [Frames -> Rows], NEW f \in Frames, NEW t \in Minutes
  PROVE  /\ ClosedBy(f, t) \in Seq(Closed)
         /\ \A k \in DOMAIN ClosedBy(f, t) : ClosedBy(f, t)[k].frame = f /\ FromQuote(ClosedBy(f, t)[k], t)
         /\ Ascending(ClosedBy(f, t))
<1>1. CASE ~(Reached(f, t) /\ Closes(f, t))
  <2>1. ClosedBy(f, t) = <<>>
    BY <1>1 DEF ClosedBy
  <2>. QED  BY <2>1 DEF Ascending
<1>2. CASE Reached(f, t) /\ Closes(f, t)
  <2>. DEFINE bar == current[f]
              flat == FlatBars(f, bar, Floor(f, t))
              n == Len(flat)
              bars == <<bar>> \o flat
              c(k) == [frame |-> f, bar |-> bars[k]]
  <2>1. bar \in BarType /\ Valid(bar) /\ f \in 1 .. f
    <3>1. f \in 1 .. f
      BY WidthType
    <3>. QED  BY <1>2, <3>1 DEF Closes, Rows, Reached, Refused
  <2>2. Floor(f, t) \in Minutes /\ Floor(f, t) \in Nat /\ Width[f] \in Nat \ {0} /\ bar.ts \in Nat
        /\ bar.close \in Nat /\ bar.close > 0
    BY <2>1, FloorType, WidthType, MinutesType DEF BarType, Valid
  <2>3. /\ n \in Nat /\ DOMAIN flat = 1 .. n /\ flat = [k \in 1 .. n |-> flat[k]]
        /\ \A k \in 1 .. n :
              /\ flat[k] = Opened(bar.ts + k * Width[f], bar.close, 0)
              /\ bar.ts + k * Width[f] \in Int
              /\ bar.ts + k * Width[f] > bar.ts
              /\ bar.ts + k * Width[f] <= Floor(f, t) - Width[f]
              /\ \A j \in 1 .. k - 1 : bar.ts + j * Width[f] < bar.ts + k * Width[f]
    BY SMTT(20), <2>1, <2>2, FlatFacts
  <2>. HIDE DEF bar, n, flat
  <2>4. ASSUME NEW k \in 1 .. n
        PROVE  /\ flat[k] \in BarType /\ Valid(flat[k])
               /\ flat[k].ts > bar.ts /\ flat[k].ts < Floor(f, t) /\ bar.ts < Floor(f, t)
               /\ \A j \in 1 .. k - 1 : flat[j].ts < flat[k].ts
    <3>. DEFINE at(i) == bar.ts + i * Width[f]
    <3>1. at(k) \in Int /\ at(k) > bar.ts /\ at(k) < Floor(f, t)
      BY <2>2, <2>3
    <3>2. flat[k].ts = at(k) /\ \A j \in 1 .. k - 1 : flat[j].ts = at(j)
      BY <2>3 DEF Opened, Bar
    <3>3. at(k) \in Minutes
      <4>. HIDE DEF at
      <4>. QED  BY SMTT(20), <2>2, <3>1, PipelineConstants DEF Minutes
    <3>4. flat[k] = Opened(at(k), bar.close, 0)
      BY <2>3
    <3>5. \A j \in 1 .. k - 1 : at(j) < at(k)
      BY <2>3
    <3>. HIDE DEF at
    <3>6. flat[k] \in BarType /\ Valid(flat[k])
      BY <2>2, <3>3, <3>4 DEF Opened, Bar, BarType, Valid
    <3>. QED  BY <2>2, <3>1, <3>2, <3>5, <3>6
  <2>5. flat \in Seq(BarType)
    BY <2>3, <2>4
  <2>6. /\ DOMAIN bars = 1 .. n + 1 /\ Len(bars) = n + 1 /\ n \in Nat
        /\ bars[1] = bar /\ \A k \in 2 .. n + 1 : bars[k] = flat[k - 1]
    BY <2>1, <2>3, <2>5
  <2>. HIDE DEF bars
  <2>7. ASSUME NEW k \in 1 .. n + 1
        PROVE  /\ bars[k] \in BarType /\ Valid(bars[k]) /\ bar.ts <= bars[k].ts
               /\ bar.ts < Floor(f, t) => bars[k].ts < Floor(f, t)
               /\ \A j \in 1 .. k - 1 : bars[j].ts < bars[k].ts
    <3>1. CASE k = 1
      BY <2>1, <2>2, <2>6, <3>1
    <3>2. CASE k # 1
      <4>1. k - 1 \in 1 .. n /\ bars[k] = flat[k - 1]
        BY <2>6, <3>2
      <4>2. /\ flat[k - 1] \in BarType /\ Valid(flat[k - 1])
            /\ flat[k - 1].ts > bar.ts /\ flat[k - 1].ts < Floor(f, t)
            /\ \A j \in 1 .. (k - 1) - 1 : flat[j].ts < flat[k - 1].ts
        BY <2>4, <4>1
      <4>3. flat[k - 1].ts \in Nat
        BY <4>2, MinutesType DEF BarType
      <4>4. ASSUME NEW j \in 1 .. k - 1 PROVE bars[j].ts < bars[k].ts
        <5>1. CASE j = 1
          BY <2>6, <4>1, <4>2, <5>1
        <5>2. CASE j # 1
          <6>1. j - 1 \in 1 .. (k - 1) - 1 /\ bars[j] = flat[j - 1]
            BY <2>6, <5>2
          <6>. QED  BY <4>1, <4>2, <6>1
        <5>. QED  BY <5>1, <5>2
      <4>. QED  BY <2>2, <4>1, <4>2, <4>3, <4>4
    <3>. QED  BY <3>1, <3>2
  <2>8. ClosedBy(f, t) = [k \in 1 .. n + 1 |-> c(k)]
    BY <1>2, <2>6 DEF ClosedBy, bar, flat, bars
  <2>9. ClosedBy(f, t) \in Seq(Closed) /\ DOMAIN ClosedBy(f, t) = 1 .. n + 1
    <3>1. \A k \in 1 .. n + 1 : c(k) \in Closed
      BY <2>7 DEF Closed
    <3>2. n + 1 \in Nat
      BY <2>3
    <3>. HIDE DEF c
    <3>. QED  BY <2>8, <3>1, <3>2
  <2>10. ASSUME NEW k \in 1 .. n + 1 PROVE c(k).frame = f /\ FromQuote(c(k), t)
    BY <1>2, <2>7 DEF FromQuote, bar
  <2>11. ASSUME NEW i \in 1 .. n + 1, NEW j \in 1 .. n + 1, i < j PROVE c(i).bar.ts < c(j).bar.ts
    <3>1. i \in 1 .. j - 1
      BY <2>11
    <3>. QED  BY <2>7, <3>1
  <2>. HIDE DEF c
  <2>. QED  BY <2>8, <2>9, <2>10, <2>11 DEF Ascending
<1>. QED  BY <1>1, <1>2

Collected(t) == FlattenSeq([f \in Frames |-> ClosedBy(f, t)])

LEMMA AppendedFacts ==
  ASSUME NEW s \in Seq(Closed), NEW r \in Seq(Closed)
  PROVE  /\ s \o r \in Seq(Closed)
         /\ \A k \in DOMAIN (s \o r) :
               \/ k \in DOMAIN s /\ (s \o r)[k] = s[k]
               \/ k - Len(s) \in DOMAIN r /\ (s \o r)[k] = r[k - Len(s)] /\ k \notin DOMAIN s
         /\ \A i \in DOMAIN (s \o r), j \in DOMAIN s : i < j => i \in DOMAIN s
<1>1. /\ Len(s) \in Nat /\ DOMAIN s = 1 .. Len(s)
      /\ Len(r) \in Nat /\ DOMAIN r = 1 .. Len(r)
  BY LenProperties
<1>2. /\ s \o r \in Seq(Closed) /\ Len(s \o r) = Len(s) + Len(r)
      /\ \A i \in 1 .. Len(s) + Len(r) : (s \o r)[i] = IF i <= Len(s) THEN s[i] ELSE r[i - Len(s)]
  BY ConcatProperties
<1>3. DOMAIN (s \o r) = 1 .. Len(s) + Len(r)
  BY <1>2, LenProperties
<1>4. ASSUME NEW k \in 1 .. Len(s) + Len(r)
      PROVE  \/ k \in DOMAIN s /\ (s \o r)[k] = s[k]
             \/ k - Len(s) \in DOMAIN r /\ (s \o r)[k] = r[k - Len(s)] /\ k \notin DOMAIN s
  BY <1>1, <1>2
<1>5. \A i \in 1 .. Len(s) + Len(r), j \in DOMAIN s : i < j => i \in DOMAIN s
  BY <1>1
<1>6. ASSUME NEW k \in DOMAIN (s \o r)
      PROVE  \/ k \in DOMAIN s /\ (s \o r)[k] = s[k]
             \/ k - Len(s) \in DOMAIN r /\ (s \o r)[k] = r[k - Len(s)] /\ k \notin DOMAIN s
  <2>1. k \in 1 .. Len(s) + Len(r)
    BY <1>3
  <2>. QED  BY <1>4, <2>1
<1>7. \A i \in DOMAIN (s \o r), j \in DOMAIN s : i < j => i \in DOMAIN s
  BY <1>3, <1>5, Zenon
<1>. QED  BY <1>2, <1>6, <1>7

LEMMA CollectedFacts ==
  ASSUME current \in [Frames -> Rows], NEW t \in Minutes
  PROVE  /\ Collected(t) \in Seq(Closed)
         /\ \A k \in DOMAIN Collected(t) : FromQuote(Collected(t)[k], t)
         /\ Ascending(Collected(t))
<1>. DEFINE s == [f \in Frames |-> ClosedBy(f, t)]
            n == Len(Width)
<1>1. Frames = 1 .. n /\ n \in Nat
  BY PipelineConstants DEF Frames
<1>2. \A f \in Frames : ClosedBy(f, t) \in Seq(Closed)
  BY ClosedByFacts
<1>3. s \in Seq(Seq(Closed)) /\ Len(s) = n /\ \A f \in Frames : s[f] = ClosedBy(f, t)
  <2>. HIDE DEF n
  <2>. QED  BY <1>1, <1>2
<1>4. CASE n = 0
  <2>1. s = <<>>
    BY <1>3, <1>4
  <2>2. Collected(t) = <<>>
    BY <2>1 DEF Collected, FlattenSeq
  <2>. QED  BY <2>2 DEF Ascending
<1>5. CASE n # 0
  <2>. HIDE DEF n, s
  <2>1. s # <<>>
    BY <1>3, <1>5
  <2>2. PICK g \in [1 .. n -> Seq(Closed)] :
            /\ g[1] = s[1]
            /\ \A k \in 2 .. n : g[k] = g[k - 1] \o s[k]
            /\ FlattenSeq(s) = g[n]
    BY <1>3, <2>1, Flattened
  <2>. DEFINE Good(k) ==
                /\ \A i \in DOMAIN g[k] : g[k][i].frame \in 1 .. k /\ FromQuote(g[k][i], t)
                /\ Ascending(g[k])
  <2>3. Good(1)
    <3>1. 1 \in Frames /\ g[1] = ClosedBy(1, t)
      BY <1>1, <1>3, <1>5, <2>2
    <3>. QED  BY <3>1, ClosedByFacts
  <2>4. ASSUME NEW k \in 2 .. n, Good(k - 1) PROVE Good(k)
    <3>. DEFINE u == g[k - 1]
                r == ClosedBy(k, t)
    <3>1. k \in Frames /\ k \in Nat /\ g[k] = u \o r /\ u \in Seq(Closed) /\ k - 1 \in 1 .. n
      <4>1. k \in Nat /\ k \in Frames /\ k - 1 \in 1 .. n
        BY <1>1
      <4>2. s[k] = r
        BY <1>3, <4>1
      <4>. QED  BY <2>2, <4>1, <4>2
    <3>2. /\ r \in Seq(Closed)
          /\ \A i \in DOMAIN r : r[i].frame = k /\ FromQuote(r[i], t)
          /\ Ascending(r)
      BY <3>1, ClosedByFacts
    <3>3. /\ \A i \in DOMAIN u : u[i].frame \in 1 .. k - 1 /\ FromQuote(u[i], t)
          /\ Ascending(u)
      BY <2>4
    <3>. HIDE DEF u, r
    <3>4. /\ \A i \in DOMAIN g[k] :
                \/ i \in DOMAIN u /\ g[k][i] = u[i]
                \/ i - Len(u) \in DOMAIN r /\ g[k][i] = r[i - Len(u)] /\ i \notin DOMAIN u
          /\ \A i \in DOMAIN g[k], j \in DOMAIN u : i < j => i \in DOMAIN u
          /\ DOMAIN g[k] \subseteq Nat /\ Len(u) \in Nat
      BY <3>1, <3>2, AppendedFacts, LenProperties
    <3>5. ASSUME NEW i \in DOMAIN g[k] PROVE g[k][i].frame \in 1 .. k /\ FromQuote(g[k][i], t)
      <4>1. CASE i \in DOMAIN u /\ g[k][i] = u[i]
        BY <3>1, <3>3, <4>1
      <4>2. CASE i - Len(u) \in DOMAIN r /\ g[k][i] = r[i - Len(u)]
        BY <3>1, <3>2, <4>2
      <4>. QED  BY <3>4, <4>1, <4>2
    <3>6. ASSUME NEW i \in DOMAIN g[k], NEW j \in DOMAIN g[k], i < j, g[k][i].frame = g[k][j].frame
          PROVE  g[k][i].bar.ts < g[k][j].bar.ts
      <4>1. CASE i \in DOMAIN u /\ j \in DOMAIN u
        <5>1. g[k][i] = u[i] /\ g[k][j] = u[j]
          BY <3>4, <4>1
        <5>. QED  BY <3>3, <3>6, <4>1, <5>1 DEF Ascending
      <4>2. CASE i \notin DOMAIN u /\ j \notin DOMAIN u
        <5>1. /\ i - Len(u) \in DOMAIN r /\ g[k][i] = r[i - Len(u)]
              /\ j - Len(u) \in DOMAIN r /\ g[k][j] = r[j - Len(u)]
          BY <3>4, <4>2
        <5>2. i - Len(u) < j - Len(u)
          BY <3>4, <3>6
        <5>. QED  BY <3>2, <3>6, <5>1, <5>2 DEF Ascending
      <4>3. CASE i \in DOMAIN u /\ j \notin DOMAIN u
        <5>1. g[k][i].frame \in 1 .. k - 1
          BY <3>3, <3>4, <4>3
        <5>2. g[k][j].frame = k
          BY <3>2, <3>4, <4>3
        <5>. QED  BY <3>1, <3>6, <5>1, <5>2
      <4>4. CASE i \notin DOMAIN u /\ j \in DOMAIN u
        BY <3>4, <3>6, <4>4
      <4>. QED  BY <4>1, <4>2, <4>3, <4>4
    <3>. QED  BY <3>5, <3>6 DEF Ascending
  <2>5. Good(n)
    <3>. DEFINE S == {0} \cup {k \in 1 .. n : Good(k)}
    <3>. HIDE DEF Good
    <3>1. ASSUME NEW k \in 1 .. n, k - 1 \in S PROVE k \in S
      <4>1. CASE k = 1
        BY <2>3, <4>1
      <4>2. CASE k # 1
        BY <1>1, <2>4, <3>1, <4>2
      <4>. QED  BY <4>1, <4>2
    <3>2. 0 \in S
      OBVIOUS
    <3>. HIDE DEF S
    <3>3. 0 .. n \subseteq S
      BY <1>1, <3>1, <3>2, BoundedInduction
    <3>. QED  BY <1>1, <1>5, <3>3 DEF S
  <2>6. Collected(t) = g[n] /\ g[n] \in Seq(Closed)
    <3>1. n \in 1 .. n
      BY <1>1, <1>5
    <3>. QED  BY <2>2, <3>1 DEF Collected, s
  <2>. QED  BY <2>5, <2>6
<1>. QED  BY <1>4, <1>5

LEMMA AfterFacts ==
  ASSUME current \in [Frames -> Rows], NEW f \in Frames, NEW t \in Minutes,
         NEW price \in Nat, NEW volume \in Nat
  PROVE  /\ AfterQuote(f, t, price, volume) \in Rows
         /\ \/ AfterQuote(f, t, price, volume) = current[f]
            \/ current[f] # NoBar /\ AfterQuote(f, t, price, volume).ts = current[f].ts
            \/ AfterQuote(f, t, price, volume).ts = Floor(f, t)
         /\ Reached(f, t) /\ Closes(f, t) => AfterQuote(f, t, price, volume).ts = Floor(f, t)
<1>1. CASE ~Reached(f, t)
  BY <1>1 DEF AfterQuote
<1>2. CASE Reached(f, t) /\ (Closes(f, t) \/ current[f] = NoBar)
  <2>1. AfterQuote(f, t, price, volume) = Opened(Floor(f, t), price, volume)
    BY <1>2 DEF AfterQuote
  <2>. QED  BY <2>1, FloorType DEF Opened, Bar, Rows, BarType
<1>3. CASE Reached(f, t) /\ ~(Closes(f, t) \/ current[f] = NoBar)
  <2>1. AfterQuote(f, t, price, volume) = Updated(current[f], price, volume)
    BY <1>3 DEF AfterQuote
  <2>2. current[f] \in BarType
    BY <1>3 DEF Rows
  <2>. QED  BY <1>3, <2>1, <2>2 DEF Updated, Bar, Rows, BarType, Larger, Smaller
<1>. QED  BY <1>1, <1>2, <1>3

LEMMA IncrementType ==
  ASSUME lastVolume \in -1 .. MaxVolume, NEW cumulative \in 0 .. MaxVolume
  PROVE  Increment(cumulative) \in Nat
  BY PipelineConstants DEF Increment, Larger

------------------------------------------------------------------------------
LEMMA TypesStart == Init => TypeOK
<1>. SUFFICES ASSUME Init PROVE TypeOK
  OBVIOUS
<1>1. current \in [Frames -> BarType \cup {NoBar}] /\ candles \in [Frames -> [Minutes -> BarType \cup {NoBar}]]
  BY DEF Init
<1>2. closed \in Seq(Closed) /\ pending \in Seq(Closed) /\ published \in Seq(Closed)
  BY EmptySeq DEF Init
<1>3. /\ lastVolume \in -1 .. MaxVolume /\ traded \in 0 .. MaxVolume /\ quotes \in 0 .. MaxQuotes
      /\ lastTick \in Minutes /\ faults \in 0 .. MaxFaults /\ backfills \in 0 .. MaxBackfills
  BY PipelineConstants DEF Init, Minutes
<1>4. stage = "idle" /\ pending = <<>> /\ late \in BOOLEAN /\ takenBack \in Nat
  BY DEF Init
<1>. QED  BY <1>1, <1>2, <1>3, <1>4 DEF TypeOK

LEMMA ObserveTypes ==
  ASSUME TypeOK, NEW t \in Minutes, NEW cumulative \in 0 .. MaxVolume, Observe(t, cumulative)
  PROVE  /\ lastVolume' \in -1 .. MaxVolume /\ traded' \in 0 .. MaxVolume
         /\ quotes' \in 0 .. MaxQuotes /\ lastTick' \in Minutes /\ late' \in BOOLEAN
         /\ takenBack' \in Nat
<1>1. takenBack' \in Nat
  BY PipelineConstants DEF TypeOK, Observe, Larger, Reference
<1>. QED  BY <1>1, PipelineConstants DEF TypeOK, Observe, Larger, Minutes

LEMMA QuoteTypes ==
  ASSUME TypeOK, NEW t \in Minutes, NEW price \in Prices, NEW cumulative \in 0 .. MaxVolume,
         QuoteInHours(t, price, cumulative)
  PROVE  TypeOK'
<1>1. Collected(t) \in Seq(Closed)
  BY CollectedFacts DEF TypeOK, Rows
<1>. DEFINE bars == closed \o Collected(t)
<1>2. bars \in Seq(Closed)
  BY <1>1, ConcatProperties DEF TypeOK
<1>3. current' \in [Frames -> BarType \cup {NoBar}]
  <2>1. price \in Nat /\ Increment(cumulative) \in Nat
    BY IncrementType, PipelineConstants DEF TypeOK
  <2>2. \A f \in Frames : AfterQuote(f, t, price, Increment(cumulative)) \in Rows
    BY <2>1, AfterFacts DEF TypeOK, Rows
  <2>. QED  BY <2>2 DEF QuoteInHours, Rows
<1>4. /\ closed' \in Seq(Closed) /\ pending' \in Seq(Closed)
      /\ stage' \in {"idle", "storing", "publishing"} /\ (stage' = "idle" <=> pending' = <<>>)
  <2>1. \/ bars # <<>> /\ stage' = "storing" /\ pending' = bars /\ closed' = <<>>
        \/ closed' = bars /\ stage' = stage /\ pending' = pending
    BY DEF QuoteInHours, Collected
  <2>2. /\ closed \in Seq(Closed) /\ pending \in Seq(Closed) /\ <<>> \in Seq(Closed)
        /\ stage = "idle" /\ pending = <<>>
    BY DEF TypeOK, QuoteInHours
  <2>. HIDE DEF bars
  <2>. QED  BY <1>2, <2>1, <2>2
<1>5. UNCHANGED <<candles, published, faults, backfills>> /\ Observe(t, cumulative)
  BY DEF QuoteInHours
<1>. QED  BY <1>3, <1>4, <1>5, ObserveTypes DEF TypeOK

LEMMA StoreTypes == TypeOK /\ Store => TypeOK'
<1>. SUFFICES ASSUME TypeOK, Store PROVE TypeOK'
  OBVIOUS
<1>1. Upserted(pending) \in Table
  BY UpsertedFacts DEF TypeOK, Table, Rows
<1>. QED  BY <1>1 DEF Store, TypeOK, Table, Rows, market

LEMMA BackfillTypes ==
  ASSUME TypeOK, NEW f \in Frames, NEW r \in Ranges, Backfill(f, r[1], r[2])
  PROVE  TypeOK'
<1>1. r[1] \in Minutes /\ r[2] \in Minutes /\ r[1] < r[2]
  BY PipelineConstants DEF Backfill
<1>2. Downloaded(f, r[1], r[2]) \in Column
  BY <1>1, DownloadedFacts DEF TypeOK, Table, Rows
<1>3. candles' \in [Frames -> [Minutes -> BarType \cup {NoBar}]]
  BY <1>2 DEF Backfill, TypeOK, Column, Rows
<1>. QED  BY <1>3, PipelineConstants DEF Backfill, TypeOK, market, pipeline

LEMMA TypesKept == TypeOK /\ [Next]_vars => TypeOK'
<1>. SUFFICES ASSUME TypeOK, [Next]_vars PROVE TypeOK'
  OBVIOUS
<1>1. CASE Quote
  <2>1. PICK t \in Minutes, cumulative \in 0 .. MaxVolume :
            \/ QuoteOffHours(t, cumulative)
            \/ \E price \in Prices : QuoteInHours(t, price, cumulative)
    BY <1>1 DEF Quote
  <2>2. CASE QuoteOffHours(t, cumulative)
    BY <2>2, ObserveTypes DEF QuoteOffHours, TypeOK
  <2>3. CASE \E price \in Prices : QuoteInHours(t, price, cumulative)
    BY <2>3, QuoteTypes
  <2>. QED  BY <2>1, <2>2, <2>3
<1>2. CASE Store
  BY <1>2, StoreTypes
<1>3. CASE StoreFails
  BY <1>3, PipelineConstants DEF StoreFails, TypeOK, market
<1>4. CASE Publish
  BY <1>4, ConcatProperties DEF Publish, TypeOK, market
<1>5. CASE Restart
  BY <1>5, PipelineConstants DEF Restart, TypeOK, market
<1>6. CASE Request
  BY <1>6, BackfillTypes DEF Request
<1>7. CASE UNCHANGED vars
  BY <1>7 DEF vars, pipeline, market, TypeOK
<1>. QED  BY <1>1, <1>2, <1>3, <1>4, <1>5, <1>6, <1>7 DEF Next

(* The bars, the rows, the counters and the transaction of the pipeline are *)
(* well typed whatever the timeframes, the session and the broker's bars:    *)
(* a flat bar never lies after the quote that asked for it, and a            *)
(* transaction is open exactly while it holds bars.                         *)
THEOREM TypeCorrect == Spec => []TypeOK
<1>1. Init => TypeOK
  BY TypesStart
<1>2. TypeOK /\ [Next]_vars => TypeOK'
  BY TypesKept
<1>. QED  BY <1>1, <1>2, PTL DEF Spec

------------------------------------------------------------------------------
(* Every bar is fit to be stored, wherever it is.                           *)
AllValid(bars) == \A k \in DOMAIN bars : Valid(bars[k].bar)
GoodBars == Sound(candles) /\ AllValid(closed) /\ AllValid(pending) /\ AllValid(published)

(* What is published, or only waits for it, has its row.                    *)
HaveRows(bars) == \A k \in DOMAIN bars : Covers(candles[bars[k].frame][bars[k].bar.ts], bars[k].bar)
KeptBars == HaveRows(published) /\ (stage = "publishing" => HaveRows(pending))

(* Published, pending and closed bars stand in one line, which ends before  *)
(* the working bar and before the bar of the latest quote.                  *)
Before(bars, later) ==
    \A i \in DOMAIN bars, j \in DOMAIN later :
        bars[i].frame = later[j].frame => bars[i].bar.ts < later[j].bar.ts
Past(bars) ==
    \A k \in DOMAIN bars : LET f == bars[k].frame IN
        /\ bars[k].bar.ts < Floor(f, lastTick)
        /\ current[f] # NoBar => bars[k].bar.ts < current[f].ts
Lined ==
    /\ Ascending(published) /\ Ascending(pending) /\ Ascending(closed)
    /\ Before(published, pending) /\ Before(published, closed) /\ Before(pending, closed)
    /\ Past(published) /\ Past(pending) /\ Past(closed)
    /\ \A f \in Frames : current[f] # NoBar => current[f].ts <= Floor(f, lastTick)

PipelineInv == TypeOK /\ GoodBars /\ KeptBars /\ (late \/ Lined)

(* Properties of both parts are properties of the whole. *)
LEMMA AppendedBars ==
  ASSUME NEW s \in Seq(Closed), NEW r \in Seq(Closed)
  PROVE  /\ AllValid(s) /\ AllValid(r) => AllValid(s \o r)
         /\ HaveRows(s) /\ HaveRows(r) => HaveRows(s \o r)
         /\ Past(s) /\ Past(r) => Past(s \o r)
         /\ Ascending(s) /\ Ascending(r) /\ Before(s, r) => Ascending(s \o r)
         /\ \A u \in Seq(Closed) : Before(u, s) /\ Before(u, r) => Before(u, s \o r)
<1>. DEFINE w == s \o r
            n == Len(s)
<1>1. /\ w \in Seq(Closed) /\ n \in Nat
      /\ \A k \in DOMAIN w :
            \/ k \in DOMAIN s /\ w[k] = s[k]
            \/ k - n \in DOMAIN r /\ w[k] = r[k - n] /\ k \notin DOMAIN s
      /\ \A i \in DOMAIN w, j \in DOMAIN s : i < j => i \in DOMAIN s
  BY AppendedFacts, LenProperties
<1>2. DOMAIN w \subseteq Int
  BY <1>1, LenProperties
<1>. HIDE DEF w, n
<1>3. ASSUME AllValid(s), AllValid(r) PROVE AllValid(w)
  BY <1>1, <1>3 DEF AllValid
<1>4. ASSUME HaveRows(s), HaveRows(r) PROVE HaveRows(w)
  BY <1>1, <1>4 DEF HaveRows
<1>5. ASSUME Past(s), Past(r) PROVE Past(w)
  BY ZenonT(40), <1>1, <1>5 DEF Past
<1>6. ASSUME Ascending(s), Ascending(r), Before(s, r) PROVE Ascending(w)
  <2>1. SUFFICES ASSUME NEW i \in DOMAIN w, NEW j \in DOMAIN w, i < j, w[i].frame = w[j].frame
                 PROVE  w[i].bar.ts < w[j].bar.ts
    BY DEF Ascending
  <2>2. CASE j \in DOMAIN s
    <3>1. i \in DOMAIN s /\ w[i] = s[i] /\ w[j] = s[j]
      BY <1>1, <2>1, <2>2
    <3>. QED  BY <1>6, <2>1, <2>2, <3>1 DEF Ascending
  <2>3. CASE j \notin DOMAIN s /\ i \in DOMAIN s
    <3>1. w[i] = s[i] /\ j - n \in DOMAIN r /\ w[j] = r[j - n]
      BY <1>1, <2>3
    <3>. QED  BY <1>6, <2>1, <2>3, <3>1 DEF Before
  <2>4. CASE j \notin DOMAIN s /\ i \notin DOMAIN s
    <3>1. i - n \in DOMAIN r /\ w[i] = r[i - n] /\ j - n \in DOMAIN r /\ w[j] = r[j - n]
      BY <1>1, <2>4
    <3>2. i - n < j - n
      BY <1>1, <1>2, <2>1
    <3>. QED  BY <1>6, <2>1, <3>1, <3>2 DEF Ascending
  <2>. QED  BY <2>2, <2>3, <2>4
<1>7. ASSUME NEW u \in Seq(Closed), Before(u, s), Before(u, r) PROVE Before(u, w)
  <2>1. SUFFICES ASSUME NEW i \in DOMAIN u, NEW j \in DOMAIN w, u[i].frame = w[j].frame
                 PROVE  u[i].bar.ts < w[j].bar.ts
    BY DEF Before
  <2>2. CASE j \in DOMAIN s /\ w[j] = s[j]
    BY <1>7, <2>1, <2>2 DEF Before
  <2>3. CASE j - n \in DOMAIN r /\ w[j] = r[j - n]
    BY <1>7, <2>1, <2>3 DEF Before
  <2>. QED  BY <1>1, <2>2, <2>3
<1>. QED  BY <1>3, <1>4, <1>5, <1>6, <1>7 DEF w

LEMMA InvStart == Init => PipelineInv
<1>. SUFFICES ASSUME Init PROVE PipelineInv
  OBVIOUS
<1>1. /\ closed = <<>> /\ pending = <<>> /\ published = <<>> /\ stage = "idle"
      /\ \A f \in Frames : current[f] = NoBar
      /\ \A f \in Frames, ts \in Minutes : candles[f][ts] = NoBar
  BY DEF Init
<1>2. GoodBars /\ KeptBars /\ Lined
  BY <1>1 DEF GoodBars, Sound, AllValid, KeptBars, HaveRows, Lined, Ascending, Before, Past
<1>. QED  BY <1>2, TypesStart DEF PipelineInv

LEMMA SoundStays ==
  ASSUME UNCHANGED <<candles, backfills>>, Sound(candles)
  PROVE  Sound(candles)'
  BY DEF Sound, Spoilt, Malformed

(* Only the transactions touch the rows, and they widen them. *)
LEMMA WidenedRows ==
  ASSUME TypeOK, Widened(candles, candles'), NEW bars \in Seq(Closed), HaveRows(bars)
  PROVE  HaveRows(bars)'
<1>1. ASSUME NEW k \in DOMAIN bars
      PROVE  bars[k].frame \in Frames /\ bars[k].bar.ts \in Minutes /\ bars[k].bar \in BarType
  <2>1. bars[k] \in Closed
    BY LenProperties, ElementOfSeq
  <2>. QED  BY <2>1 DEF Closed, BarType
<1>. QED  BY <1>1 DEF HaveRows, Widened

LEMMA StoreKeeps == PipelineInv /\ Store => (GoodBars /\ KeptBars /\ (late \/ Lined))'
<1>. SUFFICES ASSUME PipelineInv, Store PROVE (GoodBars /\ KeptBars /\ (late \/ Lined))'
  OBVIOUS
<1>1. /\ candles' = Upserted(pending)
      /\ UNCHANGED <<current, closed, pending, published, lastTick, late, backfills>>
  BY DEF Store, market
<1>2. candles \in Table /\ pending \in Seq(Closed) /\ published \in Seq(Closed)
  BY DEF PipelineInv, TypeOK, Table, Rows
<1>3. /\ Widened(candles, candles')
      /\ \A j \in 1 .. Len(pending) : Covers(candles'[pending[j].frame][pending[j].bar.ts], pending[j].bar)
      /\ Sound(candles) /\ (\A j \in 1 .. Len(pending) : Valid(pending[j].bar)) => Sound(candles')
  BY <1>1, <1>2, UpsertedFacts
<1>4. GoodBars'
  <2>1. Sound(candles)' /\ AllValid(pending)
    BY <1>1, <1>2, <1>3, LenProperties DEF PipelineInv, GoodBars, AllValid, Sound, Spoilt
  <2>. QED  BY <1>1, <2>1 DEF PipelineInv, GoodBars, AllValid
<1>5. HaveRows(published)' /\ HaveRows(pending)'
  <2>1. HaveRows(published)'
    BY <1>1, <1>2, <1>3, WidenedRows DEF PipelineInv, KeptBars, HaveRows
  <2>2. HaveRows(pending)'
    BY <1>1, <1>2, <1>3, LenProperties DEF HaveRows
  <2>. QED  BY <2>1, <2>2
<1>6. (late \/ Lined)'
  BY <1>1 DEF PipelineInv, Lined, Past, Ascending, Before
<1>. QED  BY <1>4, <1>5, <1>6 DEF KeptBars

LEMMA BackfillKeeps ==
  ASSUME PipelineInv, NEW f \in Frames, NEW r \in Ranges, Backfill(f, r[1], r[2])
  PROVE  (GoodBars /\ KeptBars /\ (late \/ Lined))'
<1>1. r[1] \in Minutes /\ r[2] \in Minutes /\ r[1] < r[2]
  BY PipelineConstants DEF Backfill
<1>2. /\ candles' = [candles EXCEPT ![f] = Downloaded(f, r[1], r[2])]
      /\ UNCHANGED <<current, closed, pending, stage, published, lastTick, late>>
  BY DEF Backfill, pipeline, market
<1>3. candles \in Table /\ pending \in Seq(Closed) /\ published \in Seq(Closed)
  BY DEF PipelineInv, TypeOK, Table, Rows
<1>4. Better(f, candles[f], candles'[f]) /\ \A g \in Frames : g # f => candles'[g] = candles[g]
  BY <1>1, <1>2, <1>3, DownloadedFacts DEF Table
<1>5. Widened(candles, candles')
  BY <1>4 DEF Better, Widened
<1>6. GoodBars'
  <2>1. backfills \in Nat /\ backfills' > 0 /\ Sound(candles)
    BY PipelineConstants DEF PipelineInv, GoodBars, TypeOK, Backfill
  <2>2. ASSUME NEW g \in Frames, NEW ts \in Minutes, candles'[g][ts] # NoBar
        PROVE  Valid(candles'[g][ts]) \/ Malformed(g, ts)
    <3>1. (candles[g][ts] # NoBar => Valid(candles[g][ts])) \/ Malformed(g, ts)
      BY <2>1 DEF Sound, Spoilt
    <3>. QED  BY <1>4, <2>2, <3>1 DEF Better
  <2>3. Sound(candles)'
    BY <2>1, <2>2 DEF Sound, Spoilt, Malformed
  <2>. QED  BY <1>2, <2>3 DEF PipelineInv, GoodBars, AllValid
<1>7. KeptBars'
  <2>1. TypeOK
    BY DEF PipelineInv
  <2>2. HaveRows(published)'
    BY <1>2, <1>3, <1>5, <2>1, WidenedRows DEF PipelineInv, KeptBars, HaveRows
  <2>3. ASSUME stage = "publishing" PROVE HaveRows(pending)'
    BY <1>2, <1>3, <1>5, <2>1, <2>3, WidenedRows DEF PipelineInv, KeptBars, HaveRows
  <2>. QED  BY <1>2, <2>2, <2>3 DEF KeptBars
<1>8. (late \/ Lined)'
  BY <1>2 DEF PipelineInv, Lined, Past, Ascending, Before
<1>. QED  BY <1>6, <1>7, <1>8

LEMMA QuietKeeps ==
  ASSUME PipelineInv, StoreFails \/ Publish \/ Restart \/ UNCHANGED vars
  PROVE  (GoodBars /\ KeptBars /\ (late \/ Lined))'
<1>0. Sound(candles)'
  BY SoundStays DEF StoreFails, Publish, Restart, vars, PipelineInv, GoodBars
<1>1. UNCHANGED <<candles, lastTick, late>>
  BY DEF StoreFails, Publish, Restart, vars, market
<1>2. closed \in Seq(Closed) /\ pending \in Seq(Closed) /\ published \in Seq(Closed)
  BY DEF PipelineInv, TypeOK
<1>3. CASE StoreFails
  <2>1. UNCHANGED <<current, closed, published>> /\ pending' = <<>> /\ stage' = "idle"
    BY <1>3 DEF StoreFails
  <2>. QED  BY SMTT(20), <1>0, <1>1, <2>1
            DEF PipelineInv, GoodBars, AllValid, KeptBars, HaveRows, Lined, Ascending, Before, Past
<1>4. CASE Publish
  <2>1. /\ UNCHANGED <<current, closed>> /\ published' = published \o pending /\ pending' = <<>>
        /\ stage' = "idle" /\ stage = "publishing"
    BY <1>4 DEF Publish
  <2>2. AllValid(published \o pending) /\ HaveRows(published \o pending)
    BY <1>2, <2>1, AppendedBars DEF PipelineInv, GoodBars, KeptBars
  <2>3. GoodBars'
    BY <1>0, <1>1, <2>1, <2>2 DEF PipelineInv, GoodBars, AllValid
  <2>4. KeptBars'
    BY <1>1, <2>1, <2>2 DEF KeptBars, HaveRows
  <2>5. ASSUME Lined PROVE Lined'
    <3>1. Past(published \o pending) /\ Ascending(published \o pending)
      BY <1>2, <2>5, AppendedBars DEF Lined
    <3>2. Before(published \o pending, closed)
      <4>1. SUFFICES ASSUME NEW i \in DOMAIN (published \o pending), NEW j \in DOMAIN closed,
                            (published \o pending)[i].frame = closed[j].frame
                     PROVE  (published \o pending)[i].bar.ts < closed[j].bar.ts
        BY DEF Before
      <4>2. \/ i \in DOMAIN published /\ (published \o pending)[i] = published[i]
            \/ /\ i - Len(published) \in DOMAIN pending
               /\ (published \o pending)[i] = pending[i - Len(published)]
        BY <1>2, AppendedFacts
      <4>. DEFINE c == (published \o pending)[i]
      <4>. HIDE DEF c
      <4>3. c.frame = closed[j].frame => c.bar.ts < closed[j].bar.ts
        BY <2>5, <4>2 DEF Lined, Before, c
      <4>. QED  BY <4>1, <4>3 DEF c
    <3>3. Ascending(published') /\ Before(published', closed') /\ Past(published)'
      BY <1>1, <2>1, <3>1, <3>2 DEF Past
    <3>. QED  BY <1>1, <2>1, <2>5, <3>3 DEF Lined, Ascending, Before, Past
  <2>. QED  BY <1>1, <2>3, <2>4, <2>5 DEF PipelineInv
<1>5. CASE Restart
  <2>1. /\ closed' = <<>> /\ pending' = <<>> /\ stage' = "idle" /\ UNCHANGED published
        /\ current' = [f \in Frames |-> NoBar]
    BY <1>5 DEF Restart
  <2>2. ASSUME NEW k \in DOMAIN published PROVE published[k].frame \in Frames
    <3>1. published[k] \in Closed
      BY <1>2, LenProperties, ElementOfSeq
    <3>. QED  BY <3>1 DEF Closed
  <2>. QED  BY SMTT(20), <1>0, <1>1, <2>1, <2>2
            DEF PipelineInv, GoodBars, AllValid, KeptBars, HaveRows, Lined, Ascending, Before, Past
<1>6. CASE UNCHANGED vars
  BY SMTT(20), <1>0, <1>6 DEF vars, pipeline, market, PipelineInv, GoodBars, AllValid, KeptBars, HaveRows,
              Lined, Ascending, Before, Past
<1>. QED  BY <1>3, <1>4, <1>5, <1>6

LEMMA BarTimes ==
  /\ \A bar \in BarType : bar.ts \in Minutes /\ bar.ts \in Int
  /\ \A c \in Closed : c.frame \in Frames /\ c.bar \in BarType /\ c.bar.ts \in Int
<1>1. ASSUME NEW bar \in BarType PROVE bar.ts \in Minutes /\ bar.ts \in Int
  <2>1. bar.ts \in Minutes
    BY DEF BarType
  <2>2. \A m \in Minutes : m \in Int
    BY PipelineConstants DEF Minutes
  <2>. QED  BY <2>1, <2>2
<1>2. \A c \in Closed : c.frame \in Frames /\ c.bar \in BarType
  BY DEF Closed
<1>. QED  BY <1>1, <1>2

(* A quote in time moves the line's end to its own bar. *)
LEMMA LaterTick ==
  ASSUME TypeOK, NEW t \in Minutes, NEW cumulative, Observe(t, cumulative), ~late'
  PROVE  ~late /\ lastTick' = t /\ \A f \in Frames : Floor(f, lastTick) <= Floor(f, t)
<1>1. lastTick \in Minutes /\ lastTick \in Nat /\ t \in Nat
  BY MinutesType DEF TypeOK
<1>2. ~late /\ lastTick <= t /\ lastTick' = t
  <2>1. lastTick' = (IF lastTick <= t THEN t ELSE lastTick) /\ ~late /\ ~(t < lastTick)
    BY DEF Observe, Larger
  <2>. QED  BY <1>1, <2>1
<1>. QED  BY <1>1, <1>2, FloorMonotone

LEMMA OffHoursKeeps ==
  ASSUME PipelineInv, NEW t \in Minutes, NEW cumulative, QuoteOffHours(t, cumulative)
  PROVE  (GoodBars /\ KeptBars /\ (late \/ Lined))'
<1>1. UNCHANGED <<current, closed, pending, stage, candles, published>> /\ Observe(t, cumulative)
  BY DEF QuoteOffHours
<1>2. GoodBars' /\ KeptBars'
  <2>1. Sound(candles)'
    BY SoundStays DEF QuoteOffHours, PipelineInv, GoodBars
  <2>. QED  BY <1>1, <2>1 DEF PipelineInv, GoodBars, AllValid, KeptBars, HaveRows
<1>3. ASSUME ~late' PROVE Lined'
  <2>1. Lined /\ lastTick' = t /\ \A f \in Frames : Floor(f, lastTick) <= Floor(f, t)
    BY <1>1, <1>3, LaterTick DEF PipelineInv
  <2>2. \A f \in Frames : Floor(f, lastTick) \in Int /\ Floor(f, t) \in Int
    BY FloorType, MinutesType DEF PipelineInv, TypeOK
  <2>3. ASSUME NEW bars \in Seq(Closed), Past(bars), NEW k \in DOMAIN bars
        PROVE  bars[k].bar.ts < Floor(bars[k].frame, t)
    <3>1. bars[k] \in Closed
      BY LenProperties, ElementOfSeq
    <3>2. bars[k].frame \in Frames /\ bars[k].bar.ts \in Int
      BY <3>1, BarTimes
    <3>. QED  BY <2>1, <2>2, <2>3, <3>2 DEF Past
  <2>4. Past(closed)' /\ Past(pending)' /\ Past(published)'
    BY <1>1, <2>1, <2>3 DEF PipelineInv, TypeOK, Lined, Past, Floor
  <2>5. ASSUME NEW f \in Frames, current[f] # NoBar PROVE current[f].ts <= Floor(f, t)
    <3>1. current[f].ts \in Int
      BY <2>5, BarTimes DEF PipelineInv, TypeOK
    <3>. QED  BY <2>1, <2>2, <2>5, <3>1 DEF Lined
  <2>. QED  BY <1>1, <2>1, <2>4, <2>5 DEF Lined, Ascending, Before, Floor
<1>. QED  BY <1>2, <1>3

(* What a quote in time does to one line. *)
LEMMA QuoteLine ==
  ASSUME PipelineInv, NEW t \in Minutes, NEW price \in Prices, NEW cumulative \in 0 .. MaxVolume,
         QuoteInHours(t, price, cumulative), ~late'
  PROVE  /\ Past(published)'
         /\ \A k \in DOMAIN (closed \o Collected(t)) : LET c == (closed \o Collected(t))[k] IN
               c.bar.ts < Floor(c.frame, t) /\ (current'[c.frame] # NoBar => c.bar.ts < current'[c.frame].ts)
         /\ Ascending(closed \o Collected(t)) /\ Before(published, closed \o Collected(t))
         /\ \A f \in Frames : current'[f] # NoBar => current'[f].ts <= Floor(f, t)
         /\ lastTick' = t
<1>1. /\ lastTick' = t /\ \A f \in Frames : Floor(f, lastTick) <= Floor(f, t)
      /\ Lined
  BY LaterTick DEF PipelineInv, QuoteInHours
<1>2. /\ closed \in Seq(Closed) /\ published \in Seq(Closed) /\ current \in [Frames -> Rows]
      /\ lastTick \in Minutes /\ price \in Nat /\ Increment(cumulative) \in Nat
  BY IncrementType, PipelineConstants DEF PipelineInv, TypeOK, Rows
<1>3. \A f \in Frames : Floor(f, lastTick) \in Int /\ Floor(f, t) \in Int
  BY <1>2, FloorType, MinutesType
<1>4. ASSUME NEW f \in Frames
      PROVE  /\ \/ current'[f] = current[f]
                \/ current[f] # NoBar /\ current'[f].ts = current[f].ts
                \/ current'[f].ts = Floor(f, t)
             /\ Reached(f, t) /\ Closes(f, t) => current'[f].ts = Floor(f, t)
  <2>1. current'[f] = AfterQuote(f, t, price, Increment(cumulative))
    BY DEF QuoteInHours
  <2>. QED  BY <1>2, <2>1, AfterFacts
<1>5. ASSUME NEW f \in Frames, current[f] # NoBar
      PROVE  current[f].ts \in Int /\ current[f].ts <= Floor(f, lastTick)
  BY <1>1, <1>2, <1>5, BarTimes DEF Rows, Lined
<1>6. ASSUME NEW bars \in Seq(Closed), Past(bars), NEW k \in DOMAIN bars
      PROVE  /\ bars[k].frame \in Frames /\ bars[k].bar.ts \in Int
             /\ bars[k].bar.ts < Floor(bars[k].frame, t)
             /\ current'[bars[k].frame] # NoBar => bars[k].bar.ts < current'[bars[k].frame].ts
  <2>1. bars[k] \in Closed
    BY LenProperties, ElementOfSeq
  <2>2. bars[k].frame \in Frames /\ bars[k].bar.ts \in Int
    BY <2>1, BarTimes
  <2>3. bars[k].bar.ts < Floor(bars[k].frame, t)
    BY <1>1, <1>3, <1>6, <2>2 DEF Past
  <2>. QED  BY <1>4, <1>6, <2>2, <2>3 DEF Past
<1>7. /\ Collected(t) \in Seq(Closed) /\ Ascending(Collected(t))
      /\ \A k \in DOMAIN Collected(t) : FromQuote(Collected(t)[k], t)
  BY <1>2, CollectedFacts
<1>. DEFINE new == Collected(t)
<1>. HIDE DEF new
<1>8. ASSUME NEW k \in DOMAIN new
      PROVE  /\ new[k].frame \in Frames /\ new[k].bar.ts \in Int
             /\ current[new[k].frame] # NoBar /\ current[new[k].frame].ts <= new[k].bar.ts
             /\ new[k].bar.ts < Floor(new[k].frame, t)
             /\ current'[new[k].frame].ts = Floor(new[k].frame, t)
  <2>1. new \in Seq(Closed) /\ FromQuote(new[k], t)
    BY <1>7 DEF new
  <2>2. new[k] \in Closed
    BY <2>1, LenProperties, ElementOfSeq
  <2>3. new[k].frame \in Frames /\ new[k].bar.ts \in Int
    BY <2>2, BarTimes
  <2>4. current[new[k].frame].ts < Floor(new[k].frame, t)
    BY <1>1, <1>3, <1>5, <2>1, <2>3 DEF FromQuote, Closes
  <2>. QED  BY <1>4, <2>1, <2>3, <2>4 DEF FromQuote, Closes
<1>9. Before(published, new) /\ Before(closed, new)
  <2>1. ASSUME NEW bars \in Seq(Closed), Past(bars) PROVE Before(bars, new)
    <3>1. SUFFICES ASSUME NEW i \in DOMAIN bars, NEW j \in DOMAIN new, bars[i].frame = new[j].frame
                   PROVE  bars[i].bar.ts < new[j].bar.ts
      BY DEF Before
    <3>2. bars[i].bar.ts < current[new[j].frame].ts /\ bars[i].bar.ts \in Int
      BY <1>6, <1>8, <2>1, <3>1 DEF Past
    <3>. QED  BY <1>5, <1>8, <3>2
  <2>. QED  BY <1>1, <1>2, <2>1 DEF Lined
<1>10. UNCHANGED published
  BY DEF QuoteInHours
<1>11. Past(published)'
  BY <1>1, <1>2, <1>6, <1>10 DEF Lined, Past, Floor
<1>12. ASSUME NEW k \in DOMAIN (closed \o new)
       PROVE  LET c == (closed \o new)[k] IN
              c.bar.ts < Floor(c.frame, t) /\ (current'[c.frame] # NoBar => c.bar.ts < current'[c.frame].ts)
  <2>. DEFINE c == (closed \o new)[k]
  <2>1. \/ k \in DOMAIN closed /\ c = closed[k]
        \/ k - Len(closed) \in DOMAIN new /\ c = new[k - Len(closed)]
    BY <1>2, <1>7, AppendedFacts DEF new
  <2>. HIDE DEF c
  <2>2. c.bar.ts < Floor(c.frame, t) /\ (current'[c.frame] # NoBar => c.bar.ts < current'[c.frame].ts)
    BY <1>1, <1>2, <1>6, <1>8, <2>1 DEF Lined
  <2>. QED  BY <2>2 DEF c
<1>13. ASSUME NEW f \in Frames, current'[f] # NoBar PROVE current'[f].ts <= Floor(f, t)
  BY <1>1, <1>3, <1>4, <1>5, <1>13
<1>14. Ascending(closed \o new) /\ Before(published, closed \o new)
  BY <1>1, <1>2, <1>7, <1>9, AppendedBars DEF Lined, new
<1>. QED  BY <1>1, <1>11, <1>12, <1>13, <1>14 DEF new

LEMMA InHoursKeeps ==
  ASSUME PipelineInv, NEW t \in Minutes, NEW price \in Prices, NEW cumulative \in 0 .. MaxVolume,
         QuoteInHours(t, price, cumulative)
  PROVE  (GoodBars /\ KeptBars /\ (late \/ Lined))'
<1>. DEFINE bars == closed \o Collected(t)
<1>1. /\ closed \in Seq(Closed) /\ Collected(t) \in Seq(Closed) /\ stage = "idle" /\ pending = <<>>
      /\ \A k \in DOMAIN Collected(t) : FromQuote(Collected(t)[k], t)
  BY CollectedFacts DEF PipelineInv, TypeOK, Rows, QuoteInHours
<1>2. \/ stage' = "storing" /\ pending' = bars /\ closed' = <<>>
      \/ stage' = "idle" /\ pending' = <<>> /\ closed' = bars
  BY <1>1 DEF QuoteInHours, Collected
<1>3. UNCHANGED <<candles, published>>
  BY DEF QuoteInHours
<1>4. AllValid(bars)
  <2>1. AllValid(Collected(t))
    BY <1>1 DEF AllValid, FromQuote
  <2>. QED  BY <1>1, <2>1, AppendedBars DEF PipelineInv, GoodBars
<1>5. GoodBars'
  <2>1. Sound(candles)'
    BY SoundStays DEF QuoteInHours, PipelineInv, GoodBars
  <2>. HIDE DEF bars
  <2>. QED  BY <1>2, <1>3, <1>4, <2>1 DEF PipelineInv, GoodBars, AllValid
<1>6. KeptBars'
  <2>. HIDE DEF bars
  <2>. QED  BY <1>2, <1>3 DEF PipelineInv, KeptBars, HaveRows
<1>7. ASSUME ~late' PROVE Lined'
  <2>1. /\ Past(published)' /\ Ascending(bars) /\ Before(published, bars) /\ lastTick' = t
        /\ \A k \in DOMAIN bars : LET c == bars[k] IN
              c.bar.ts < Floor(c.frame, t) /\ (current'[c.frame] # NoBar => c.bar.ts < current'[c.frame].ts)
        /\ \A f \in Frames : current'[f] # NoBar => current'[f].ts <= Floor(f, t)
    BY <1>7, QuoteLine
  <2>. HIDE DEF bars
  <2>2. Ascending(published)
    BY <1>7, LaterTick DEF PipelineInv, Lined, QuoteInHours
  <2>. QED  BY <1>2, <1>3, <2>1, <2>2 DEF Lined, Ascending, Before, Past, Floor
<1>. QED  BY <1>5, <1>6, <1>7

LEMMA InvKept == PipelineInv /\ [Next]_vars => PipelineInv'
<1>. SUFFICES ASSUME PipelineInv, [Next]_vars PROVE PipelineInv'
  OBVIOUS
<1>1. TypeOK'
  BY TypesKept DEF PipelineInv
<1>2. (GoodBars /\ KeptBars /\ (late \/ Lined))'
  <2>1. CASE Quote
    BY <2>1, OffHoursKeeps, InHoursKeeps DEF Quote
  <2>2. CASE Store
    BY <2>2, StoreKeeps
  <2>3. CASE StoreFails \/ Publish \/ Restart \/ UNCHANGED vars
    BY <2>3, QuietKeeps
  <2>4. CASE Request
    BY <2>4, BackfillKeeps DEF Request
  <2>. QED  BY <2>1, <2>2, <2>3, <2>4 DEF Next
<1>. QED  BY <1>1, <1>2 DEF PipelineInv

LEMMA PipelineInvariant == Spec => []PipelineInv
  BY InvStart, InvKept, PTL DEF Spec

(* However many bars are merged into a row, by late quotes, by a second     *)
(* transaction for the same minute or by a backfill, no malformed bar is    *)
(* published, and none is stored but where the broker's own bar was          *)
(* malformed: nothing is assumed of those.                                  *)
THEOREM BarsAreValid == Spec => []OnlyValidBars
<1>1. PipelineInv => OnlyValidBars
  BY DEF PipelineInv, GoodBars, Sound, AllValid, OnlyValidBars, Stored
<1>. QED  BY <1>1, PipelineInvariant, PTL

(* A published bar has its row, and no later upsert takes its range or its  *)
(* volume back: transactions that fail, restarts between commit and         *)
(* publication and concurrent backfills included.                           *)
THEOREM StoredBeforePublished == Spec => []PublishedAreStored
<1>1. PipelineInv => PublishedAreStored
  BY DEF PipelineInv, KeptBars, HaveRows, PublishedAreStored
<1>. QED  BY <1>1, PipelineInvariant, PTL

(* As long as quotes come in order, subscribers get the bars of each        *)
(* timeframe in order and never twice, for any widths, session, gap fill     *)
(* and number of faults.                                                    *)
THEOREM BarsInOrder == Spec => []InTimeOrder
<1>1. PipelineInv => InTimeOrder
  BY DEF PipelineInv, Lined, Ascending, InTimeOrder
<1>. QED  BY <1>1, PipelineInvariant, PTL

(***************************************************************************)
(* Volume.  What a quote adds to a working bar is what the market reported  *)
(* since the last one (lastVolume is what it had reported then); a bar takes *)
(* its volume along when it is closed; the bars made up for a gap have      *)
(* none; and an upsert makes of two volumes the larger one.  A backfill      *)
(* raises a row no higher than the broker's count, which is deducted.       *)
(***************************************************************************)

(* The volume of timeframe f in a sequence of bars. *)
Volume(bars, f) == SumUp(Volumes(bars, f), DOMAIN bars)

LEMMA VolumesType ==
  ASSUME NEW bars \in Seq(Closed), NEW f
  PROVE  /\ DOMAIN bars = 1 .. Len(bars) /\ Len(bars) \in Nat /\ IsFiniteSet(DOMAIN bars)
         /\ DOMAIN Volumes(bars, f) = DOMAIN bars
         /\ \A k \in DOMAIN bars : Volumes(bars, f)[k] \in Nat
         /\ Volume(bars, f) \in Nat
<1>. DEFINE S == DOMAIN bars
            v == Volumes(bars, f)
            zero == [k \in S |-> 0]
<1>1. S = 1 .. Len(bars) /\ Len(bars) \in Nat /\ IsFiniteSet(S)
  BY FS_Interval
<1>2. ASSUME NEW k \in S PROVE v[k] \in Nat
  <2>1. bars[k] \in Closed
    BY <1>1
  <2>. QED  BY <2>1 DEF Volumes, Closed, BarType
<1>3. DOMAIN v = S /\ \A k \in S : zero[k] = 0
  BY DEF Volumes
<1>4. Volume(bars, f) = SumUp(v, S)
  BY DEF Volume
<1>. HIDE DEF S, v, zero
<1>5. SumUp(zero, S) = 0
  BY <1>1, <1>3, SumOfZeros
<1>6. \A k \in S : zero[k] \in Int /\ v[k] \in Int /\ zero[k] <= v[k]
  BY <1>2, <1>3
<1>7. SumUp(v, S) \in Int /\ SumUp(zero, S) <= SumUp(v, S)
  BY <1>1, <1>6, SumUpMonotone
<1>. QED  BY <1>1, <1>2, <1>3, <1>4, <1>5, <1>7 DEF S, v

LEMMA NoVolume ==
  ASSUME NEW f
  PROVE  Volume(<<>>, f) = 0
<1>. DEFINE S == DOMAIN <<>>
            v == Volumes(<<>>, f)
<1>1. IsFiniteSet(S) /\ \A k \in S : v[k] = 0
  BY FS_EmptySet
<1>. HIDE DEF S, v
<1>2. SumUp(v, S) = 0
  BY <1>1, SumOfZeros
<1>. QED  BY <1>2 DEF Volume, S, v

LEMMA VolumeConcat ==
  ASSUME NEW s \in Seq(Closed), NEW r \in Seq(Closed), NEW f
  PROVE  Volume(s \o r, f) = Volume(s, f) + Volume(r, f)
<1>. DEFINE m == Len(s)
            n == Len(r)
            u == Volumes(s, f)
            v == Volumes(r, f)
            w == Volumes(s \o r, f)
<1>1. /\ s \o r \in Seq(Closed) /\ Len(s \o r) = m + n
      /\ \A i \in 1 .. m + n : (s \o r)[i] = IF i <= m THEN s[i] ELSE r[i - m]
  BY ConcatProperties
<1>2. /\ DOMAIN s = 1 .. m /\ m \in Nat /\ DOMAIN r = 1 .. n /\ n \in Nat /\ DOMAIN (s \o r) = 1 .. m + n
      /\ (\A k \in 1 .. m : u[k] \in Nat) /\ (\A k \in 1 .. n : v[k] \in Nat)
  BY <1>1, VolumesType
<1>3. ASSUME NEW k \in 1 .. m PROVE w[k] = u[k]
  <2>1. k \in 1 .. m + n /\ (s \o r)[k] = s[k]
    BY <1>1, <1>2
  <2>. QED  BY <1>2, <2>1 DEF Volumes
<1>4. ASSUME NEW k \in 1 .. n PROVE w[m + k] = v[k]
  <2>1. m + k \in 1 .. m + n /\ ~(m + k <= m) /\ (m + k) - m = k
    BY <1>2
  <2>2. (s \o r)[m + k] = r[k]
    BY <1>1, <2>1
  <2>. QED  BY <1>2, <2>1, <2>2 DEF Volumes
<1>5. Volume(s, f) = SumUp(u, 1 .. m) /\ Volume(r, f) = SumUp(v, 1 .. n) /\ Volume(s \o r, f) = SumUp(w, 1 .. m + n)
  BY <1>2 DEF Volume
<1>6. (\A k \in 1 .. m : u[k] \in Int /\ w[k] = u[k]) /\ (\A k \in 1 .. n : v[k] \in Int /\ w[m + k] = v[k])
  BY <1>2, <1>3, <1>4
<1>7. m \in Nat /\ n \in Nat
  BY <1>2
<1>. HIDE DEF m, n, u, v, w
<1>8. SumUp(w, 1 .. m + n) = SumUp(u, 1 .. m) + SumUp(v, 1 .. n)
  BY SMTT(20), <1>6, <1>7, SumUpConcat
<1>. QED  BY <1>5, <1>8

(* What a quote at t closes of timeframe f has the volume of the working bar. *)
LEMMA ClosedVolume ==
  ASSUME current \in [Frames -> Rows], NEW f \in Frames, NEW t \in Minutes, NEW g \in Frames
  PROVE  Volume(ClosedBy(f, t), g)
           = IF f = g /\ Reached(f, t) /\ Closes(f, t) THEN current[f].volume ELSE 0
<1>. DEFINE bars == ClosedBy(f, t)
            v == Volumes(bars, g)
            S == DOMAIN bars
<1>1. bars \in Seq(Closed) /\ \A k \in S : bars[k].frame = f
  BY ClosedByFacts
<1>2. S = 1 .. Len(bars) /\ Len(bars) \in Nat /\ IsFiniteSet(S) /\ \A k \in S : v[k] \in Nat
  BY <1>1, VolumesType
<1>3. CASE f # g
  <2>1. \A k \in S : v[k] = 0
    BY <1>1, <1>3 DEF Volumes
  <2>. HIDE DEF v, S, bars
  <2>2. SumUp(v, S) = 0
    BY <1>2, <2>1, SumOfZeros
  <2>. QED  BY <1>3, <2>2 DEF Volume, v, S, bars
<1>4. CASE ~(Reached(f, t) /\ Closes(f, t))
  <2>1. bars = <<>>
    BY <1>4 DEF ClosedBy
  <2>. QED  BY <1>4, <2>1, NoVolume
<1>5. CASE f = g /\ Reached(f, t) /\ Closes(f, t)
  <2>. DEFINE flat == FlatBars(f, current[f], Floor(f, t))
              all == <<current[f]>> \o flat
  <2>1. current[f] \in BarType /\ current[f].volume \in Nat
    BY <1>5 DEF Closes, Rows, BarType
  <2>2. /\ DOMAIN flat = 1 .. Len(flat) /\ Len(flat) \in Nat /\ flat \in Seq({flat[k] : k \in DOMAIN flat})
        /\ \A k \in DOMAIN flat : flat[k].volume = 0
    <3>1. Floor(f, t) \in Minutes
      BY FloorType
    <3>2. /\ DOMAIN flat = 1 .. Len(flat) /\ Len(flat) \in Nat
          /\ flat = [k \in DOMAIN flat |-> flat[k]]
          /\ \A k \in DOMAIN flat : flat[k] = Opened(current[f].ts + k * Width[f], current[f].close, 0)
      BY <2>1, <3>1, FlatFacts, ZenonT(40)
    <3>. HIDE DEF flat
    <3>. QED  BY <3>2 DEF Opened, Bar
  <2>. HIDE DEF flat
  <2>3. /\ DOMAIN all = 1 .. 1 + Len(flat) /\ all[1] = current[f]
        /\ \A k \in 2 .. 1 + Len(flat) : all[k] = flat[k - 1]
    BY <2>2
  <2>4. bars = [k \in DOMAIN all |-> [frame |-> f, bar |-> all[k]]]
    BY <1>5 DEF ClosedBy, flat
  <2>. HIDE DEF all
  <2>5. S = 1 .. 1 + Len(flat)
    BY <2>3, <2>4
  <2>6. /\ v[1] = current[f].volume
        /\ \A k \in 2 .. 1 + Len(flat) : v[k] = 0
    <3>1. \A k \in DOMAIN all : v[k] = all[k].volume
      BY <1>5, <2>4 DEF Volumes
    <3>2. 1 \in DOMAIN all /\ \A k \in 2 .. 1 + Len(flat) : k \in DOMAIN all /\ k - 1 \in DOMAIN flat
      BY <2>2, <2>3
    <3>. QED  BY <2>2, <2>3, <3>1, <3>2
  <2>. DEFINE one == 1
              rest == S \ {one}
  <2>7. one \in S /\ IsFiniteSet(rest) /\ \A k \in rest : v[k] = 0
    <3>1. IsFiniteSet(rest)
      BY <1>2, FS_Subset
    <3>. QED  BY <2>2, <2>5, <2>6, <3>1
  <2>8. v[one] = current[f].volume /\ \A k \in S : v[k] \in Int
    BY <1>2, <2>6
  <2>. HIDE DEF one, v, S, bars
  <2>9. SumUp(v, S) = v[one] + SumUp(v, S \ {one})
    BY <1>2, <2>7, <2>8, SumUpFacts
  <2>. HIDE DEF rest
  <2>10. SumUp(v, rest) = 0
    BY <2>7, SumOfZeros
  <2>. QED  BY <1>5, <2>1, <2>8, <2>9, <2>10 DEF Volume, rest, v, S, bars
<1>. QED  BY <1>3, <1>4, <1>5

(* All a quote closes of timeframe f has the volume of its working bar. *)
LEMMA CollectedVolume ==
  ASSUME current \in [Frames -> Rows], NEW f \in Frames, NEW t \in Minutes
  PROVE  Volume(Collected(t), f) = IF Reached(f, t) /\ Closes(f, t) THEN current[f].volume ELSE 0
<1>. DEFINE s == [g \in Frames |-> ClosedBy(g, t)]
            n == Len(Width)
            own == IF Reached(f, t) /\ Closes(f, t) THEN current[f].volume ELSE 0
<1>1. Frames = 1 .. n /\ n \in Nat /\ f \in 1 .. n
  BY PipelineConstants DEF Frames
<1>2. \A g \in Frames : ClosedBy(g, t) \in Seq(Closed)
  BY ClosedByFacts
<1>3. s \in Seq(Seq(Closed)) /\ Len(s) = n /\ \A g \in Frames : s[g] = ClosedBy(g, t)
  <2>. HIDE DEF n
  <2>. QED  BY <1>1, <1>2
<1>4. ASSUME NEW g \in 1 .. n
      PROVE  Volume(s[g], f) = (IF g = f THEN own ELSE 0) /\ Volume(s[g], f) \in Nat
  <2>1. g \in Frames
    BY <1>1
  <2>2. Volume(s[g], f) = IF g = f /\ Reached(g, t) /\ Closes(g, t) THEN current[g].volume ELSE 0
    BY <1>3, <2>1, ClosedVolume
  <2>3. Volume(s[g], f) \in Nat
    BY <1>2, <1>3, <2>1, VolumesType
  <2>. QED  BY <2>2, <2>3
<1>5. own \in Nat
  BY <1>1, <1>4
<1>. HIDE DEF s, n, own
<1>6. s # <<>>
  BY <1>1, <1>3
<1>7. PICK g \in [1 .. Len(s) -> Seq(Closed)] :
            /\ g[1] = s[1]
            /\ \A k \in 2 .. Len(s) : g[k] = g[k - 1] \o s[k]
            /\ FlattenSeq(s) = g[Len(s)]
  BY <1>3, <1>6, Flattened
<1>. DEFINE S == {k \in 0 .. n : k # 0 => Volume(g[k], f) = IF f <= k THEN own ELSE 0}
<1>8. ASSUME NEW k \in 1 .. n, k - 1 \in S PROVE k \in S
  <2>1. CASE k = 1
    <3>1. g[k] = s[k] /\ (k = f <=> f <= k)
      BY <1>1, <1>7, <2>1
    <3>2. Volume(g[k], f) = IF f <= k THEN own ELSE 0
      BY <1>4, <3>1
    <3>. QED  BY <1>1, <3>2
  <2>2. CASE k # 1
    <3>1. k \in 2 .. Len(s) /\ k - 1 \in 1 .. Len(s) /\ k - 1 # 0 /\ k \in Frames
      BY <1>1, <1>3, <2>2
    <3>2. g[k] = g[k - 1] \o s[k] /\ g[k - 1] \in Seq(Closed) /\ s[k] \in Seq(Closed)
      BY <1>2, <1>3, <1>7, <3>1
    <3>3. Volume(g[k], f) = Volume(g[k - 1], f) + Volume(s[k], f)
      BY <3>2, VolumeConcat
    <3>4. Volume(g[k - 1], f) = IF f <= k - 1 THEN own ELSE 0
      BY <1>8, <3>1
    <3>5. Volume(s[k], f) = IF k = f THEN own ELSE 0
      BY <1>4
    <3>6. Volume(g[k], f) = IF f <= k THEN own ELSE 0
      <4>1. f \in Nat /\ k \in Nat
        BY <1>1
      <4>. QED  BY <1>5, <3>3, <3>4, <3>5, <4>1
    <3>. QED  BY <1>1, <3>6
  <2>. QED  BY <2>1, <2>2
<1>9. 0 .. n \subseteq S
  <2>1. 0 \in S
    BY <1>1
  <2>. HIDE DEF S
  <2>. QED  BY <1>1, <1>8, <2>1, BoundedInduction
<1>10. n \in S /\ n # 0 /\ f <= n
  BY <1>1, <1>9
<1>11. Collected(t) = g[n]
  BY <1>3, <1>7 DEF Collected, s
<1>. QED  BY <1>10, <1>11 DEF own

(* The volume in the rows of a timeframe, of any table. *)
Own(rows, f, ts) == Larger(0, VolumeOf(rows[f][ts]) - BrokersVolume(f, ts))
InRows(rows, f) == SumUp([ts \in Minutes |-> Own(rows, f, ts)], Minutes)

LEMMA OwnType ==
  ASSUME NEW rows \in Table, NEW f \in Frames, NEW ts \in Minutes
  PROVE  BrokersVolume(f, ts) \in Nat /\ VolumeOf(rows[f][ts]) \in Nat /\ Own(rows, f, ts) \in Nat
<1>1. History[f][ts] \in Rows /\ rows[f][ts] \in Rows
  BY BrokersBars DEF Rows, Table
<1>2. BrokersVolume(f, ts) \in Nat /\ VolumeOf(rows[f][ts]) \in Nat
  BY <1>1, VolumeType DEF BrokersVolume
<1>. QED  BY <1>2 DEF Own, Larger

LEMMA MinutesFinite == IsFiniteSet(Minutes)
  BY FS_Interval, PipelineConstants DEF Minutes

LEMMA InRowsType ==
  ASSUME NEW rows \in Table, NEW f \in Frames
  PROVE  InRows(rows, f) \in Int
<1>. DEFINE v == [ts \in Minutes |-> Own(rows, f, ts)]
<1>1. \A ts \in Minutes : v[ts] \in Int
  BY OwnType
<1>. HIDE DEF v
<1>2. SumUp(v, Minutes) \in Int
  BY <1>1, MinutesFinite, SumUpFacts
<1>. QED  BY <1>2 DEF InRows, v

(* An upsert adds at most the volume of its bar to the rows. *)
LEMMA PutVolume ==
  ASSUME NEW rows \in Table, NEW c \in Closed, NEW f \in Frames
  PROVE  InRows(Put(rows, c), f) <= InRows(rows, f) + (IF c.frame = f THEN c.bar.volume ELSE 0)
<1>. DEFINE ts == c.bar.ts
            new == Put(rows, c)
            u == [m \in Minutes |-> Own(rows, f, m)]
            v == [m \in Minutes |-> Own(new, f, m)]
<1>1. c.frame \in Frames /\ ts \in Minutes /\ c.bar \in BarType /\ c.bar.volume \in Nat
  BY DEF Closed, BarType
<1>2. new \in Table /\ rows[f] \in [Minutes -> Rows]
  BY PutFacts DEF Table
<1>3. (\A m \in Minutes : u[m] \in Nat) /\ (\A m \in Minutes : v[m] \in Nat)
  BY <1>2, OwnType
<1>4. InRows(Put(rows, c), f) = SumUp(v, Minutes) /\ InRows(rows, f) = SumUp(u, Minutes)
  BY DEF InRows
<1>5. CASE c.frame # f
  <2>1. new[f] = rows[f]
    BY <1>5 DEF Put, Table
  <2>2. u = v
    BY <2>1 DEF Own
  <2>3. InRows(Put(rows, c), f) = InRows(rows, f)
    BY <1>4, <2>2
  <2>4. InRows(rows, f) \in Int
    BY InRowsType
  <2>. QED  BY <1>5, <2>3, <2>4
<1>6. CASE c.frame = f
  <2>1. new[f] = [rows[f] EXCEPT ![ts] = Merged(rows[f][ts], c.bar)]
    BY <1>1, <1>2, <1>6 DEF Put, Table
  <2>2. \A m \in Minutes : m # ts => v[m] = u[m]
    BY <1>2, <2>1 DEF Own
  <2>3. v[ts] <= u[ts] + c.bar.volume
    <3>. DEFINE row == rows[f][ts]
                h == BrokersVolume(f, ts)
    <3>1. row \in Rows /\ new[f][ts] = Merged(row, c.bar)
      BY <1>1, <1>2, <2>1
    <3>2. v[ts] = Larger(0, VolumeOf(Merged(row, c.bar)) - h) /\ u[ts] = Larger(0, VolumeOf(row) - h)
      BY <1>1, <3>1 DEF Own
    <3>3. VolumeOf(Merged(row, c.bar)) = Larger(VolumeOf(row), c.bar.volume)
      BY <1>1, <3>1, MergedFacts
    <3>4. VolumeOf(row) \in Nat /\ h \in Nat
      BY <1>1, OwnType
    <3>. HIDE DEF row, h, u, v, new, ts
    <3>. QED  BY <1>1, <3>2, <3>3, <3>4 DEF Larger
  <2>. HIDE DEF u, v, ts, new
  <2>4. SumUp(v, Minutes) = (SumUp(u, Minutes) - u[ts]) + v[ts] /\ SumUp(u, Minutes) \in Int
    BY <1>1, <1>3, <2>2, MinutesFinite, SumUpChanges
  <2>5. u[ts] \in Nat /\ v[ts] \in Nat
    BY <1>1, <1>3
  <2>. QED  BY <1>1, <1>4, <1>6, <2>3, <2>4, <2>5
<1>. QED  BY <1>5, <1>6

(* So does a transaction with the volume of its bars. *)
LEMMA UpsertedVolume ==
  ASSUME candles \in Table, NEW bars \in Seq(Closed), NEW f \in Frames
  PROVE  InRows(Upserted(bars), f) <= InRows(candles, f) + Volume(bars, f)
<1>. DEFINE n == Len(bars)
            v == Volumes(bars, f)
            sum(k) == SumUp(v, 1 .. k)
<1>0. /\ DOMAIN bars = 1 .. n /\ n \in Nat /\ \A k \in 1 .. n : v[k] \in Nat
  BY VolumesType
<1>1. /\ n \in Nat /\ (\A k \in 1 .. n : bars[k] \in Closed) /\ (\A k \in 1 .. n : v[k] \in Nat)
      /\ Volume(bars, f) = sum(n)
      /\ \A k \in 1 .. n : v[k] = IF bars[k].frame = f THEN bars[k].bar.volume ELSE 0
  <2>1. \A k \in 1 .. n : v[k] = IF bars[k].frame = f THEN bars[k].bar.volume ELSE 0
    BY <1>0 DEF Volumes
  <2>2. Volume(bars, f) = sum(n)
    BY <1>0 DEF Volume
  <2>. QED  BY <1>0, <2>1, <2>2
<1>2. PICK after \in [0 .. n -> Table] :
            /\ after[0] = candles /\ Upserted(bars) = after[n]
            /\ \A k \in 1 .. n : after[k] = Put(after[k - 1], bars[k])
  BY UpsertedSteps
<1>. HIDE DEF n, v
<1>3. \A k \in 0 .. n : sum(k) \in Int
  <2>1. ASSUME NEW k \in 0 .. n PROVE sum(k) \in Int
    <3>. DEFINE K == 1 .. k
    <3>0. \A i \in K : v[i] \in Int
      BY <1>1
    <3>1. IsFiniteSet(K)
      BY <1>1, FS_Interval
    <3>. HIDE DEF K
    <3>2. SumUp(v, K) \in Int
      BY <3>0, <3>1, SumUpFacts
    <3>. QED  BY <3>2 DEF K
  <2>. QED  BY <2>1
<1>4. ASSUME NEW k \in 1 .. n PROVE sum(k) = v[k] + sum(k - 1)
  <2>1. k \in Nat /\ k # 0 /\ \A i \in 1 .. k : v[i] \in Int
    BY <1>1
  <2>. QED  BY <2>1, SumUpLast
<1>5. sum(0) = 0
  <2>. DEFINE K == 1 .. 0
  <2>1. IsFiniteSet(K) /\ \A i \in K : v[i] = 0
    BY FS_EmptySet
  <2>. HIDE DEF K
  <2>2. SumUp(v, K) = 0
    BY <2>1, SumOfZeros
  <2>. QED  BY <2>2 DEF K
<1>6. InRows(candles, f) \in Int /\ \A k \in 0 .. n : InRows(after[k], f) \in Int
  BY <1>2, InRowsType
<1>. HIDE DEF sum
<1>. DEFINE S == {k \in 0 .. n : InRows(after[k], f) <= InRows(candles, f) + sum(k)}
<1>7. 0 \in S
  BY <1>1, <1>2, <1>5, <1>6
<1>8. ASSUME NEW k \in 1 .. n, k - 1 \in S PROVE k \in S
  <2>1. k - 1 \in 0 .. n /\ k \in 0 .. n
    BY <1>1
  <2>2. InRows(after[k], f) <= InRows(after[k - 1], f) + v[k]
    BY <1>1, <1>2, <2>1, PutVolume
  <2>3. InRows(after[k - 1], f) <= InRows(candles, f) + sum(k - 1)
    BY <1>8
  <2>4. v[k] \in Nat /\ sum(k - 1) \in Int /\ sum(k) \in Int
    BY <1>1, <1>3, <2>1
  <2>5. InRows(after[k], f) <= InRows(candles, f) + sum(k)
    BY <1>4, <1>6, <2>1, <2>2, <2>3, <2>4
  <2>. QED  BY <2>1, <2>5
<1>9. 0 .. n \subseteq S
  <2>. HIDE DEF S
  <2>. QED  BY <1>1, <1>7, <1>8, BoundedInduction
<1>10. n \in S
  BY <1>1, <1>9
<1>. QED  BY <1>1, <1>2, <1>10

(* The volume of a timeframe, wherever its bars are. *)
Total(f) ==
    InRows(candles, f) + Volume(closed, f) + VolumeOf(current[f])
    + (IF stage = "storing" THEN Volume(pending, f) ELSE 0)
Counted ==
    /\ lastVolume <= traded
    /\ \A f \in Frames : Total(f) <= Reference + takenBack
VolumeInv == TypeOK /\ Counted

LEMMA TotalType ==
  ASSUME TypeOK, NEW f \in Frames
  PROVE  /\ InRows(candles, f) \in Int /\ Volume(closed, f) \in Nat /\ Volume(pending, f) \in Nat
         /\ VolumeOf(current[f]) \in Nat /\ traded \in Nat /\ lastVolume \in Int
         /\ takenBack \in Nat /\ Reference \in Int
<1>1. candles \in Table /\ current[f] \in Rows /\ closed \in Seq(Closed) /\ pending \in Seq(Closed)
  BY DEF TypeOK, Table, Rows
<1>2. traded \in Nat /\ lastVolume \in Int /\ takenBack \in Nat /\ Reference \in Int
  BY PipelineConstants DEF TypeOK, Reference
<1>. QED  BY <1>1, <1>2, InRowsType, VolumesType, VolumeType

LEMMA CountedStart == Init => Counted
<1>. SUFFICES ASSUME Init PROVE Counted
  OBVIOUS
<1>1. ASSUME NEW f \in Frames PROVE Total(f) <= Reference + takenBack
  <2>. DEFINE v == [ts \in Minutes |-> Own(candles, f, ts)]
  <2>1. \A ts \in Minutes : v[ts] = 0
    BY DEF Init, VolumeOf, Own, BrokersVolume, Larger
  <2>2. InRows(candles, f) = SumUp(v, Minutes)
    BY DEF InRows
  <2>. HIDE DEF v
  <2>3. SumUp(v, Minutes) = 0
    BY <2>1, MinutesFinite, SumOfZeros
  <2>4. /\ Volume(closed, f) = 0 /\ VolumeOf(current[f]) = 0 /\ stage = "idle"
        /\ Reference = 0 /\ takenBack = 0
    BY NoVolume DEF Init, VolumeOf, Reference
  <2>. QED  BY <2>2, <2>3, <2>4 DEF Total
<1>. QED  BY <1>1 DEF Init, Counted

(* What a quote does to the bars of one timeframe: all the volume it brings  *)
(* goes to the working bar.                                                 *)
LEMMA AfterVolume ==
  ASSUME current \in [Frames -> Rows], NEW f \in Frames, NEW t \in Minutes,
         NEW price \in Nat, NEW volume \in Nat
  PROVE  Volume(Collected(t), f) + VolumeOf(AfterQuote(f, t, price, volume))
           <= VolumeOf(current[f]) + volume
<1>. DEFINE bar == current[f]
            new == AfterQuote(f, t, price, volume)
<1>1. bar \in Rows /\ VolumeOf(bar) \in Nat
  BY VolumeType
<1>2. Volume(Collected(t), f) = IF Reached(f, t) /\ Closes(f, t) THEN bar.volume ELSE 0
  BY CollectedVolume
<1>3. CASE ~Reached(f, t)
  <2>1. new = bar
    BY <1>3 DEF AfterQuote
  <2>. HIDE DEF new, bar
  <2>2. VolumeOf(new) <= VolumeOf(bar) + volume /\ Volume(Collected(t), f) = 0 /\ VolumeOf(new) \in Nat
    BY <1>1, <1>2, <1>3, <2>1
  <2>. QED  BY <2>2 DEF new, bar
<1>4. CASE Reached(f, t) /\ (Closes(f, t) \/ bar = NoBar)
  <2>1. new = Opened(Floor(f, t), price, volume)
    BY <1>4 DEF AfterQuote
  <2>2. VolumeOf(new) = volume
    BY <2>1, FloorType, MinutesType DEF Opened, Bar, VolumeOf, NoBar
  <2>3. Volume(Collected(t), f) = VolumeOf(bar)
    BY <1>2, <1>4 DEF Closes, VolumeOf
  <2>. HIDE DEF new, bar
  <2>4. Volume(Collected(t), f) + VolumeOf(new) <= VolumeOf(bar) + volume
    BY <1>1, <2>2, <2>3
  <2>. QED  BY <2>4 DEF new, bar
<1>5. CASE Reached(f, t) /\ ~(Closes(f, t) \/ bar = NoBar)
  <2>1. new = Updated(bar, price, volume)
    BY <1>5 DEF AfterQuote
  <2>2. bar \in BarType /\ VolumeOf(bar) = bar.volume /\ bar.volume \in Nat
    BY <1>1, <1>5 DEF Rows, VolumeOf, BarType
  <2>3. VolumeOf(new) \in {0, bar.volume + volume}
    BY <2>1 DEF Updated, Bar, VolumeOf
  <2>4. Volume(Collected(t), f) = 0
    BY <1>2, <1>5
  <2>. HIDE DEF new, bar
  <2>5. Volume(Collected(t), f) + VolumeOf(new) <= VolumeOf(bar) + volume
    BY <2>2, <2>3, <2>4
  <2>. QED  BY <2>5 DEF new, bar
<1>. QED  BY <1>3, <1>4, <1>5

(* What a quote is compared with and what it brings are together no more    *)
(* than what the next one is compared with and what this one took back.     *)
LEMMA ObservedVolume ==
  ASSUME TypeOK, Counted, NEW t \in Minutes, NEW cumulative \in 0 .. MaxVolume, Observe(t, cumulative)
  PROVE  /\ lastVolume' <= traded' /\ takenBack' \in Nat /\ Reference' \in Nat
         /\ Reference + takenBack + Increment(cumulative) <= Reference' + takenBack'
<1>1. traded \in Nat /\ lastVolume \in Int /\ cumulative \in Nat /\ takenBack \in Nat /\ Reference \in Int
  BY TotalType, PipelineConstants DEF TypeOK, Reference
<1>2. /\ traded' = Larger(traded, cumulative) /\ lastVolume' = cumulative
      /\ takenBack' = takenBack + Larger(0, Reference - cumulative)
  BY DEF Observe
<1>3. Reference' = cumulative
  BY <1>1, <1>2 DEF Reference
<1>4. Reference + Increment(cumulative) <= cumulative + Larger(0, Reference - cumulative)
  BY <1>1 DEF Reference, Increment, Larger
<1>5. Increment(cumulative) \in Nat
  BY <1>1 DEF Increment, Larger
<1>. QED  BY <1>1, <1>2, <1>3, <1>4, <1>5 DEF Larger

LEMMA OffHoursCounted ==
  ASSUME TypeOK, Counted, NEW t \in Minutes, NEW cumulative \in 0 .. MaxVolume,
         QuoteOffHours(t, cumulative)
  PROVE  Counted'
<1>1. /\ lastVolume' <= traded' /\ takenBack' \in Nat /\ Reference' \in Nat
      /\ Reference + takenBack + Increment(cumulative) <= Reference' + takenBack'
  BY ObservedVolume DEF QuoteOffHours
<1>2. Increment(cumulative) \in Nat
  BY IncrementType DEF TypeOK
<1>3. ASSUME NEW f \in Frames PROVE Total(f)' <= Reference' + takenBack'
  <2>1. Total(f)' = Total(f)
    BY DEF Total, InRows, Own, BrokersVolume, QuoteOffHours, Volume, Volumes
  <2>2. /\ Total(f) \in Int /\ Total(f) <= Reference + takenBack
        /\ Reference \in Int /\ takenBack \in Nat
    BY TotalType DEF Total, Counted
  <2>. QED  BY <1>1, <1>2, <2>1, <2>2
<1>. QED  BY <1>1, <1>3 DEF Counted

LEMMA InHoursCounted ==
  ASSUME TypeOK, Counted, NEW t \in Minutes, NEW price \in Prices, NEW cumulative \in 0 .. MaxVolume,
         QuoteInHours(t, price, cumulative)
  PROVE  Counted'
<1>. DEFINE volume == Increment(cumulative)
            bars == closed \o Collected(t)
<1>1. /\ lastVolume' <= traded' /\ takenBack' \in Nat /\ Reference' \in Nat
      /\ Reference + takenBack + volume <= Reference' + takenBack'
  BY ObservedVolume DEF QuoteInHours
<1>2. volume \in Nat /\ price \in Nat
  BY IncrementType, PipelineConstants DEF TypeOK
<1>3. ASSUME NEW f \in Frames PROVE Total(f)' <= Reference' + takenBack'
  <2>1. /\ InRows(candles, f) \in Int /\ Volume(closed, f) \in Nat /\ VolumeOf(current[f]) \in Nat
        /\ Total(f) <= Reference + takenBack /\ stage = "idle"
        /\ Reference \in Int /\ takenBack \in Nat
    BY TotalType DEF Counted, QuoteInHours
  <2>2. Total(f) = InRows(candles, f) + Volume(closed, f) + VolumeOf(current[f])
    BY <2>1 DEF Total
  <2>3. closed \in Seq(Closed) /\ Collected(t) \in Seq(Closed) /\ current \in [Frames -> Rows]
    BY CollectedFacts DEF TypeOK, Rows
  <2>4. Volume(bars, f) = Volume(closed, f) + Volume(Collected(t), f) /\ Volume(Collected(t), f) \in Nat
    BY <2>3, VolumeConcat, VolumesType
  <2>5. current'[f] = AfterQuote(f, t, price, volume) /\ current'[f] \in Rows
    BY <1>2, <2>3, AfterFacts DEF QuoteInHours
  <2>6. Volume(Collected(t), f) + VolumeOf(current'[f]) <= VolumeOf(current[f]) + volume
    BY <1>2, <2>3, <2>5, AfterVolume
  <2>7. Total(f)' = InRows(candles, f) + Volume(bars, f) + VolumeOf(current'[f])
    <3>1. InRows(candles, f)' = InRows(candles, f)
      BY DEF QuoteInHours, InRows, Own, BrokersVolume
    <3>2. \/ stage' = "storing" /\ pending' = bars /\ closed' = <<>>
          \/ stage' = "idle" /\ closed' = bars
      BY DEF QuoteInHours, Collected
    <3>3. Volume(<<>>, f) = 0
      BY NoVolume
    <3>4. Volume(bars, f) \in Int /\ VolumeOf(current'[f]) \in Int
      BY <2>1, <2>4, <2>5, VolumeType
    <3>. HIDE DEF bars
    <3>5. CASE stage' = "storing" /\ pending' = bars /\ closed' = <<>>
      <4>1. Volume(pending, f)' = Volume(bars, f) /\ Volume(closed, f)' = 0
        BY <3>3, <3>5 DEF Volume, Volumes
      <4>. QED  BY <2>1, <3>1, <3>4, <3>5, <4>1 DEF Total, VolumeOf
    <3>6. CASE stage' = "idle" /\ closed' = bars
      <4>1. Volume(closed, f)' = Volume(bars, f)
        BY <3>6 DEF Volume, Volumes
      <4>. QED  BY <2>1, <3>1, <3>4, <3>6, <4>1 DEF Total, VolumeOf
    <3>. QED  BY <3>2, <3>5, <3>6
  <2>8. VolumeOf(current'[f]) \in Nat
    BY <2>5, VolumeType
  <2>. HIDE DEF bars, volume
  <2>9. Volume(bars, f) + VolumeOf(current'[f]) <= Volume(closed, f) + VolumeOf(current[f]) + volume
    BY <1>2, <2>1, <2>4, <2>6, <2>8
  <2>10. Total(f)' <= Total(f) + volume /\ Total(f) \in Int /\ Total(f)' \in Int
    BY <1>2, <2>1, <2>2, <2>4, <2>7, <2>8, <2>9
  <2>11. /\ Reference' + takenBack' \in Int
         /\ Reference + takenBack + volume <= Reference' + takenBack'
    BY <1>1
  <2>12. Total(f) + volume <= Reference + takenBack + volume /\ Reference + takenBack + volume \in Int
    BY <1>2, <2>1, <2>10
  <2>13. volume \in Int
    BY <1>2
  <2>. QED  BY <2>10, <2>11, <2>12, <2>13
<1>. QED  BY <1>1, <1>3 DEF Counted

LEMMA StoreCounted ==
  ASSUME TypeOK, Counted, Store
  PROVE  Counted'
<1>1. ASSUME NEW f \in Frames PROVE Total(f)' <= Reference' + takenBack'
  <2>1. /\ InRows(candles, f) \in Int /\ Volume(closed, f) \in Nat /\ Volume(pending, f) \in Nat
        /\ VolumeOf(current[f]) \in Nat /\ Reference \in Int /\ takenBack \in Nat
        /\ Total(f) <= Reference + takenBack
    BY TotalType DEF Counted
  <2>2. candles \in Table /\ pending \in Seq(Closed)
    BY DEF TypeOK, Table, Rows
  <2>3. /\ InRows(Upserted(pending), f) <= InRows(candles, f) + Volume(pending, f)
        /\ InRows(Upserted(pending), f) \in Int
    BY <2>2, UpsertedVolume, UpsertedFacts, InRowsType
  <2>4. Total(f) = InRows(candles, f) + Volume(closed, f) + VolumeOf(current[f]) + Volume(pending, f)
    BY DEF Total, Store
  <2>5. Total(f)' = InRows(Upserted(pending), f) + Volume(closed, f) + VolumeOf(current[f])
    <3>1. InRows(candles, f)' = InRows(Upserted(pending), f)
      BY DEF Store, InRows, Own, BrokersVolume
    <3>2. Volume(closed, f)' = Volume(closed, f) /\ VolumeOf(current[f])' = VolumeOf(current[f])
      BY DEF Store, Volume, Volumes
    <3>3. stage' = "publishing"
      BY DEF Store
    <3>. QED  BY <2>1, <2>3, <3>1, <3>2, <3>3 DEF Total
  <2>6. Reference' = Reference /\ takenBack' = takenBack
    BY DEF Store, market, Reference
  <2>. QED  BY <2>1, <2>3, <2>4, <2>5, <2>6
<1>. QED  BY <1>1 DEF Counted, Store, market

(* A backfill raises a row no higher than the broker's count, which is no    *)
(* longer the feed's; the rows of other timeframes lose nothing by it.      *)
LEMMA BackfillRows ==
  ASSUME TypeOK, NEW g \in Frames, NEW r \in Ranges, Backfill(g, r[1], r[2]), NEW f \in Frames
  PROVE  InRows(candles, f)' \in Int /\ InRows(candles, f)' <= InRows(candles, f)
<1>. DEFINE u == [ts \in Minutes |-> Own(candles, f, ts)]
            v == [ts \in Minutes |-> Own(candles, f, ts)']
<1>1. r[1] \in Minutes /\ r[2] \in Minutes /\ r[1] < r[2] /\ candles \in Table
  BY PipelineConstants DEF Backfill, TypeOK, Table, Rows
<1>2. candles' = [candles EXCEPT ![g] = Downloaded(g, r[1], r[2])] /\ backfills \in Nat /\ backfills' # 0
  BY PipelineConstants DEF Backfill, TypeOK
<1>3. Downloaded(g, r[1], r[2]) \in Column /\ Better(g, candles[g], Downloaded(g, r[1], r[2]))
  BY <1>1, DownloadedFacts
<1>4. candles' \in Table
  BY <1>1, <1>2, <1>3 DEF Table, Column
<1>5. ASSUME NEW ts \in Minutes
      PROVE  u[ts] \in Nat /\ v[ts] \in Nat /\ v[ts] <= u[ts]
  <2>. DEFINE old == VolumeOf(candles[f][ts])
              new == VolumeOf(candles'[f][ts])
              h == VolumeOf(History[f][ts])
  <2>1. History[f][ts] \in Rows /\ candles[f][ts] \in Rows /\ candles'[f][ts] \in Rows
    BY <1>1, <1>4, BrokersBars DEF Rows, Table
  <2>2. old \in Nat /\ new \in Nat /\ h \in Nat
    BY <2>1, VolumeType
  <2>3. new <= Larger(old, h)
    <3>1. CASE f = g
      <4>1. candles'[f] = Downloaded(g, r[1], r[2])
        BY <1>1, <1>2, <3>1 DEF Table
      <4>. QED  BY <1>3, <3>1, <4>1 DEF Better
    <3>2. CASE f # g
      <4>1. candles'[f] = candles[f]
        BY <1>1, <1>2, <3>2 DEF Table
      <4>2. new = old
        BY <4>1
      <4>. HIDE DEF new, old, h
      <4>. QED  BY <2>2, <4>2 DEF Larger
    <3>. QED  BY <3>1, <3>2
  <2>4. v[ts] = Larger(0, new - h)
    BY <1>2 DEF Own, BrokersVolume, VolumeOf
  <2>5. u[ts] \in {Larger(0, old - h), Larger(0, old - 0)}
    BY DEF Own, BrokersVolume
  <2>. HIDE DEF u, v, new, old, h
  <2>. QED  BY <2>2, <2>3, <2>4, <2>5 DEF Larger
<1>6. InRows(candles, f) = SumUp(u, Minutes) /\ InRows(candles, f)' = SumUp(v, Minutes)
  BY DEF InRows
<1>. HIDE DEF u, v
<1>7. \A ts \in Minutes : u[ts] \in Int /\ v[ts] \in Int /\ v[ts] <= u[ts]
  BY <1>5
<1>8. SumUp(v, Minutes) \in Int /\ SumUp(v, Minutes) <= SumUp(u, Minutes)
  BY <1>7, MinutesFinite, SumUpMonotone
<1>. QED  BY <1>6, <1>8

LEMMA BackfillCounted ==
  ASSUME TypeOK, Counted, NEW g \in Frames, NEW r \in Ranges, Backfill(g, r[1], r[2])
  PROVE  Counted'
<1>1. ASSUME NEW f \in Frames PROVE Total(f)' <= Reference' + takenBack'
  <2>1. /\ InRows(candles, f) \in Int /\ Volume(closed, f) \in Nat /\ Volume(pending, f) \in Nat
        /\ VolumeOf(current[f]) \in Nat /\ Reference \in Int /\ takenBack \in Nat
        /\ Total(f) <= Reference + takenBack
    BY TotalType DEF Counted
  <2>2. InRows(candles, f)' \in Int /\ InRows(candles, f)' <= InRows(candles, f)
    BY BackfillRows
  <2>3. /\ Volume(closed, f)' = Volume(closed, f) /\ VolumeOf(current[f])' = VolumeOf(current[f])
        /\ Volume(pending, f)' = Volume(pending, f) /\ stage' = stage
        /\ Reference' = Reference /\ takenBack' = takenBack
    BY DEF Backfill, pipeline, market, Volume, Volumes, Reference
  <2>. QED  BY <2>1, <2>2, <2>3 DEF Total
<1>. QED  BY <1>1 DEF Counted, Backfill, pipeline, market

(* Whatever is dropped only lowers the total. *)
LEMMA QuietCounted ==
  ASSUME TypeOK, Counted, StoreFails \/ Publish \/ Restart \/ UNCHANGED vars
  PROVE  Counted'
<1>1. /\ lastVolume' \in {lastVolume, -1} /\ traded' = traded /\ takenBack' = takenBack
      /\ Reference' \in {Reference, traded}
  BY DEF StoreFails, Publish, Restart, vars, pipeline, market, Reference
<1>2. /\ Reference <= Reference' /\ Reference' \in Int
      /\ lastVolume' <= traded'
  <2>1. traded \in Nat /\ lastVolume \in Int /\ Reference \in Int /\ lastVolume <= traded
    BY PipelineConstants DEF TypeOK, Counted, Reference
  <2>. QED  BY <1>1, <2>1 DEF Reference
<1>3. ASSUME NEW f \in Frames PROVE Total(f)' <= Reference' + takenBack'
  <2>1. /\ InRows(candles, f) \in Int /\ Volume(closed, f) \in Nat /\ Volume(pending, f) \in Nat
        /\ VolumeOf(current[f]) \in Nat /\ Reference \in Int /\ takenBack \in Nat
        /\ Total(f) <= Reference + takenBack
    BY TotalType DEF Counted
  <2>2. InRows(candles, f)' = InRows(candles, f)
    BY DEF StoreFails, Publish, Restart, vars, pipeline, market, InRows, Own, BrokersVolume
  <2>3. CASE StoreFails \/ Publish
    <3>1. Volume(closed, f)' = Volume(closed, f) /\ VolumeOf(current[f])' = VolumeOf(current[f])
      BY <2>3 DEF StoreFails, Publish, Volume, Volumes
    <3>2. stage' = "idle"
      BY <2>3 DEF StoreFails, Publish
    <3>. QED  BY <1>1, <1>2, <2>1, <2>2, <3>1, <3>2 DEF Total
  <2>4. CASE Restart
    <3>1. Volume(<<>>, f) = 0
      BY NoVolume
    <3>2. Volume(closed, f)' = 0 /\ VolumeOf(current[f])' = 0
      BY <2>4, <3>1 DEF Restart, VolumeOf, Volume, Volumes
    <3>3. stage' = "idle"
      BY <2>4 DEF Restart
    <3>. QED  BY <1>1, <1>2, <2>1, <2>2, <3>2, <3>3 DEF Total
  <2>5. CASE UNCHANGED vars
    <3>1. Volume(closed, f)' = Volume(closed, f) /\ VolumeOf(current[f])' = VolumeOf(current[f])
          /\ Volume(pending, f)' = Volume(pending, f) /\ stage' = stage
      BY <2>5 DEF vars, pipeline, Volume, Volumes
    <3>. QED  BY <1>1, <1>2, <2>1, <2>2, <3>1 DEF Total
  <2>. QED  BY <2>3, <2>4, <2>5
<1>. QED  BY <1>2, <1>3 DEF Counted

LEMMA VolumeKept == VolumeInv /\ [Next]_vars => VolumeInv'
<1>. SUFFICES ASSUME TypeOK, Counted, [Next]_vars PROVE Counted'
  BY TypesKept DEF VolumeInv
<1>1. CASE Quote
  BY <1>1, OffHoursCounted, InHoursCounted DEF Quote
<1>2. CASE Store
  BY <1>2, StoreCounted
<1>3. CASE StoreFails \/ Publish \/ Restart \/ UNCHANGED vars
  BY <1>3, QuietCounted
<1>4. CASE Request
  BY <1>4, BackfillCounted DEF Request
<1>. QED  BY <1>1, <1>2, <1>3, <1>4 DEF Next

(* The bars of a timeframe never hold more volume, beyond the broker's own  *)
(* count of a minute, than the market reported and late quotes took back:    *)
(* for any timeframes, sessions and quotes, late ones included, whatever     *)
(* transactions fail or repeat, whatever is fetched twice and however often  *)
(* the feed restarts.                                                       *)
THEOREM NoVolumeTwice == Spec => []VolumeCountedOnce
<1>1. Init => VolumeInv
  BY TypesStart, CountedStart DEF VolumeInv
<1>2. VolumeInv => VolumeCountedOnce
  <2>. SUFFICES ASSUME VolumeInv, NEW f \in Frames
                PROVE  SumFunction(RowVolumes(f)) + OnTheWay(f) <= traded + takenBack
    BY DEF VolumeCountedOnce
  <2>1. TypeOK /\ Total(f) <= Reference + takenBack /\ lastVolume <= traded
    BY DEF VolumeInv, Counted
  <2>2. SumFunction(RowVolumes(f)) = InRows(candles, f)
    BY SumOfFunction DEF RowVolumes, InRows, Own
  <2>3. \A bars \in Seq(Closed) : SumFunction(Volumes(bars, f)) = Volume(bars, f)
    BY SumOfFunction, VolumesType DEF Volume
  <2>4. closed \in Seq(Closed) /\ pending \in Seq(Closed)
    BY <2>1 DEF TypeOK
  <2>5. /\ InRows(candles, f) \in Int /\ Volume(closed, f) \in Nat /\ Volume(pending, f) \in Nat
        /\ VolumeOf(current[f]) \in Nat /\ traded \in Nat /\ lastVolume \in Int
        /\ takenBack \in Nat /\ Reference \in Int
    BY <2>1, TotalType
  <2>6. Reference <= traded
    BY <2>1, <2>5 DEF Reference
  <2>. QED  BY <2>1, <2>2, <2>3, <2>4, <2>5, <2>6 DEF OnTheWay, Total
<1>. QED  BY <1>1, <1>2, VolumeKept, PTL DEF Spec
=============================================================================
