------------------------- MODULE FeedProcessProofs -------------------------
(***************************************************************************)
(* Which steps multiply the provider's lines (a ticker alive, or a          *)
(* reconnect to come), for any number of tasks and tickers, any settings    *)
(* and delays: only an entry of quote_stream, by one.                       *)
(*                                                                         *)
(* A step is judged with what earlier ones left: connect opens a ticker     *)
(* because the process before it left no line (Clean), and the close of a   *)
(* ticker that disconnect closed schedules nothing because the provider is  *)
(* stopping (Ending). That quote_stream only runs while the process is up   *)
(* (Busy) keeps its tickers out of the next start.                         *)
(***************************************************************************)
EXTENDS FeedProcess, Induction, FiniteSetTheorems, TLAPS

ConnTypes ==
    /\ ticker \in [Ids -> {"free", "opening", "up", "closing"}]
    /\ pending \in Nat /\ closing \in BOOLEAN
Clean == phase \in {"off", "connecting"} => pending = 0 /\ \A k \in Ids : ~Alive(k)
Ending == \A k \in Ids : ticker[k] = "closing" => closing
Busy == \A t \in Tasks : running[t] => phase = "up"

TickerInv == ConnTypes /\ Clean /\ Ending

Living == {k \in Ids : Alive(k)}

(* How many tickers live, before and after a step that starts or ends one.  *)
LEMMA LivingCount ==
    /\ IsFiniteSet(Living) /\ Cardinality(Living) \in Nat
    /\ IsFiniteSet(Living') /\ Cardinality(Living') \in Nat
<1>1. IsFiniteSet(Ids)
  <2>1. 1 \in Int /\ MaxTickers \in Int
    BY FeedConstants
  <2>2. QED
    BY <2>1, FS_Interval DEF Ids
<1>2. Living \subseteq Ids /\ Living' \subseteq Ids
  BY DEF Living
<1>3. IsFiniteSet(Living) /\ IsFiniteSet(Living')
  BY <1>1, <1>2, FS_Subset
<1>4. QED
  BY <1>3, FS_CardinalityType

LEMMA LinesType == ASSUME ConnTypes PROVE Lines \in Nat /\ Lines = Cardinality(Living) + pending
  BY LivingCount DEF Lines, Living, ConnTypes

LEMMA OpensOne ==
    ASSUME ConnTypes, NEW k \in Ids, Opens(k)
    PROVE  /\ ticker' \in [Ids -> {"free", "opening", "up", "closing"}]
           /\ \A j \in Ids : ticker'[j] = IF j = k THEN "opening" ELSE ticker[j]
           /\ Cardinality(Living') = Cardinality(Living) + 1
<1>1. ticker[k] = "free" /\ ticker' = [ticker EXCEPT ![k] = "opening"]
  BY DEF Opens, Set
<1>2. \A j \in Ids : ticker'[j] = IF j = k THEN "opening" ELSE ticker[j]
  BY <1>1 DEF ConnTypes
<1>3. Living' = Living \cup {k} /\ k \notin Living
  BY <1>1, <1>2 DEF Living, Alive
<1>4. Cardinality(Living \cup {k}) = Cardinality(Living) + 1
  BY <1>3, LivingCount, FS_AddElement
<1>5. QED
  BY <1>1, <1>2, <1>3, <1>4 DEF ConnTypes

LEMMA ClosesOne ==
    ASSUME ConnTypes, NEW k \in Ids, ticker' = [ticker EXCEPT ![k] = "free"]
    PROVE  /\ ticker' \in [Ids -> {"free", "opening", "up", "closing"}]
           /\ \A j \in Ids : ticker'[j] = IF j = k THEN "free" ELSE ticker[j]
           /\ Alive(k) => Cardinality(Living') = Cardinality(Living) - 1
           /\ Cardinality(Living') <= Cardinality(Living)
<1>1. \A j \in Ids : ticker'[j] = IF j = k THEN "free" ELSE ticker[j]
  BY DEF ConnTypes
<1>2. Living' = Living \ {k}
  BY <1>1 DEF Living, Alive
<1>3. Alive(k) <=> k \in Living
  BY DEF Living
<1>4. CASE k \in Living
  <2>1. Cardinality(Living \ {k}) = Cardinality(Living) - 1
    BY <1>4, LivingCount, FS_RemoveElement
  <2>2. QED
    BY <1>1, <1>2, <2>1, LivingCount DEF ConnTypes
<1>5. CASE k \notin Living
  <2>1. Living' = Living
    BY <1>2, <1>5
  <2>2. QED
    BY <1>1, <1>3, <1>5, <2>1, LivingCount DEF ConnTypes
<1>6. QED
  BY <1>4, <1>5

LEMMA LinesTypes ==
    /\ ConnTypes => Lines \in Nat /\ Lines = Cardinality(Living) + pending
    /\ ConnTypes' => Lines' \in Nat /\ Lines' = Cardinality(Living') + pending'
<1>1. ConnTypes => Lines \in Nat /\ Lines = Cardinality(Living) + pending
  BY LinesType
<1>2. ConnTypes' => Lines' \in Nat /\ Lines' = Cardinality(Living') + pending'
  BY LivingCount DEF Lines, Living, ConnTypes
<1>3. QED
  BY <1>1, <1>2

(* What a step does to the lines: none of it, a step to one line, or an      *)
(* entry of the stream.                                                    *)
Allowed == LinesMultiply => (StreamEnters \/ StreamFails) /\ Lines' = Lines + 1

(* What leaves the connection alone. *)
LEMMA ConnStays ==
    ASSUME TickerInv, UNCHANGED <<ticker, pending, closing>>,
           phase' \in {"off", "connecting"} => phase \in {"off", "connecting"}
    PROVE  TickerInv' /\ Allowed
<1>1. TickerInv'
  BY DEF TickerInv, ConnTypes, Clean, Ending, Alive
<1>2. Lines' = Lines
  BY DEF Lines, Alive
<1>3. Allowed
  BY <1>2, LinesType DEF Allowed, LinesMultiply, TickerInv
<1>4. QED
  BY <1>1, <1>3
------------------------------------------------------------------------------
LEMMA CallbackKeeps ==
    ASSUME TickerInv, NEW k \in Ids, Network(k)
    PROVE  TickerInv' /\ Allowed
<1>0. ConnTypes
  BY DEF TickerInv
<1>1. CASE OnConnect(k)
  <2>1. \A j \in Ids : Alive(j)' <=> Alive(j)
    BY <1>0, <1>1 DEF OnConnect, Set, Alive, ConnTypes
  <2>2. ConnTypes' /\ Ending'
    BY <1>0, <1>1 DEF OnConnect, Set, ConnTypes, TickerInv, Ending
  <2>3. Clean' /\ Lines' = Lines
    BY <1>1, <2>1 DEF OnConnect, TickerInv, Clean, Lines
  <2>4. QED
    BY <1>0, <2>2, <2>3, LinesType DEF TickerInv, Allowed, LinesMultiply
<1>2. CASE OnClose(k)
  <2>1. /\ ticker' = [ticker EXCEPT ![k] = "free"] /\ ticker[k] # "free"
        /\ UNCHANGED <<phase, closing>>
    BY <1>2 DEF OnClose, Closed, Set
  <2>2. \A j \in Ids : ticker'[j] = IF j = k THEN "free" ELSE ticker[j]
    BY <1>0, <2>1, ClosesOne
  <2>3. CASE closing
    <3>1. pending' = pending
      BY <1>2, <2>3 DEF OnClose
    <3>2. TickerInv'
      BY <1>0, <2>1, <2>2, <3>1 DEF TickerInv, ConnTypes, Clean, Ending, Alive
    <3>3. Lines' <= Lines
      <4>1. Cardinality(Living') <= Cardinality(Living)
        BY <1>0, <2>1, ClosesOne
      <4>2. QED
        BY <1>0, <3>1, <3>2, <4>1, LinesTypes, LivingCount DEF TickerInv, ConnTypes
    <3>4. QED
      BY <1>0, <3>2, <3>3, LinesTypes DEF Allowed, LinesMultiply, TickerInv
  <2>4. CASE ~closing
    <3>1. pending' = pending + 1 /\ Alive(k)
      BY <1>0, <1>2, <2>1, <2>4 DEF OnClose, TickerInv, Ending, ConnTypes, Alive
    <3>2. ConnTypes'
      BY <1>0, <2>1, <3>1 DEF ConnTypes
    <3>3. Clean' /\ Ending'
      BY <2>1, <2>2, <3>1 DEF TickerInv, Clean, Ending
    <3>4. Lines' = Lines
      <4>1. Cardinality(Living') = Cardinality(Living) - 1
        BY <1>0, <2>1, <3>1, ClosesOne
      <4>2. QED
        BY <1>0, <3>1, <3>2, <4>1, LinesTypes, LivingCount DEF ConnTypes
    <3>5. QED
      BY <1>0, <3>2, <3>3, <3>4, LinesTypes DEF TickerInv, Allowed, LinesMultiply
  <2>5. QED
    BY <2>3, <2>4
<1>3. CASE OnTicks(k)
  BY <1>3, ConnStays DEF OnTicks
<1>4. QED
  BY <1>1, <1>2, <1>3 DEF Network

(* A reconnect takes the place of itself, if it opens.                       *)
LEMMA ReconnectKeeps ==
    ASSUME TickerInv, Reconnect
    PROVE  TickerInv' /\ Allowed
<1>0. /\ ConnTypes /\ pending > 0 /\ pending' = pending - 1
      /\ UNCHANGED <<phase, closing>>
  BY DEF TickerInv, Reconnect
<1>1. phase \notin {"off", "connecting"}
  BY <1>0 DEF TickerInv, Clean
<1>2. CASE UNCHANGED ticker
  <2>1. TickerInv'
    BY <1>0, <1>1, <1>2 DEF TickerInv, ConnTypes, Clean, Ending, Alive
  <2>2. Living' = Living
    BY <1>2 DEF Living, Alive
  <2>3. Lines' <= Lines
    BY <1>0, <2>1, <2>2, LinesTypes, LivingCount DEF TickerInv, ConnTypes
  <2>4. QED
    BY <1>0, <2>1, <2>3, LinesTypes DEF Allowed, LinesMultiply, TickerInv
<1>3. ASSUME NEW k \in Ids, Opens(k)  PROVE TickerInv' /\ Allowed
  <2>1. ConnTypes'
    BY <1>0, <1>3, OpensOne DEF ConnTypes
  <2>2. Clean' /\ Ending'
    BY <1>0, <1>1, <1>3, OpensOne DEF TickerInv, Clean, Ending
  <2>3. Lines' = Lines
    <3>1. Cardinality(Living') = Cardinality(Living) + 1
      BY <1>0, <1>3, OpensOne
    <3>2. QED
      BY <1>0, <2>1, <3>1, LinesTypes, LivingCount DEF ConnTypes
  <2>4. QED
    BY <1>0, <2>1, <2>2, <2>3, LinesTypes DEF TickerInv, Allowed, LinesMultiply
<1>4. QED
  BY <1>2, <1>3 DEF Reconnect

(* An entry of the stream, whole or failing, opens one ticker or none.       *)
LEMMA StreamKeeps ==
    ASSUME TickerInv, Busy, StreamEnters \/ StreamFails
    PROVE  TickerInv' /\ Allowed
<1>0. ConnTypes /\ UNCHANGED <<phase, closing, pending>>
  BY DEF TickerInv, StreamEnters, StreamFails
<1>1. phase = "up"
  BY FeedConstants DEF StreamEnters, StreamFails, Enters, AtHead, Busy
<1>2. CASE UNCHANGED ticker
  BY <1>0, <1>2, ConnStays
<1>3. ASSUME NEW k \in Ids, Opens(k)  PROVE TickerInv' /\ Allowed
  <2>1. ConnTypes'
    BY <1>0, <1>3, OpensOne DEF ConnTypes
  <2>2. Clean' /\ Ending'
    BY <1>0, <1>1, <1>3, OpensOne DEF TickerInv, Clean, Ending
  <2>3. Lines' = Lines + 1
    <3>1. Cardinality(Living') = Cardinality(Living) + 1
      BY <1>0, <1>3, OpensOne
    <3>2. QED
      BY <1>0, <2>1, <3>1, LinesTypes, LivingCount DEF ConnTypes
  <2>4. QED
    BY <2>1, <2>2, <2>3 DEF TickerInv, Allowed
<1>4. QED
  BY <1>2, <1>3 DEF StreamEnters, StreamFails

(* Start, stop and exit of the process. *)
LEMMA LifecycleKeeps ==
    ASSUME TickerInv,
           \/ \E row \in Rows : EnsureProvider(row)
           \/ Connect \/ Up \/ Stop \/ Disconnect \/ Exit
    PROVE  TickerInv' /\ Allowed
<1>0. ConnTypes /\ Ending
  BY DEF TickerInv
<1>1. ASSUME NEW row \in Rows, EnsureProvider(row)  PROVE TickerInv' /\ Allowed
  BY <1>1, ConnStays DEF EnsureProvider, conn
<1>2. CASE Connect
  <2>1. /\ pending = 0 /\ \A j \in Ids : ~Alive(j)
        /\ UNCHANGED <<pending, closing>> /\ phase' \notin {"off", "connecting"}
    BY <1>2 DEF Connect, TickerInv, Clean
  <2>2. CASE UNCHANGED ticker
    BY <2>1, <2>2, ConnStays
  <2>3. ASSUME NEW k \in Ids, Opens(k)  PROVE TickerInv' /\ Allowed
    <3>1. ConnTypes' /\ Ending' /\ Clean'
      BY <1>0, <2>1, <2>3, OpensOne DEF ConnTypes, Ending, Clean
    <3>2. Cardinality(Living) = 0
      <4>1. Living = {}
        BY <2>1 DEF Living
      <4>2. QED
        BY <4>1, FS_EmptySet
    <3>3. Lines' = 1
      <4>1. Cardinality(Living') = Cardinality(Living) + 1
        BY <1>0, <2>3, OpensOne
      <4>2. QED
        BY <2>1, <3>1, <3>2, <4>1, LinesTypes
    <3>4. QED
      BY <3>1, <3>3 DEF TickerInv, Allowed, LinesMultiply
  <2>4. QED
    BY <1>2, <2>2, <2>3 DEF Connect
<1>3. CASE Up \/ Stop
  BY <1>3, ConnStays DEF Up, Stop, conn
<1>4. CASE Disconnect
  <2>1. /\ \A j \in Ids : ticker'[j] = ticker[j] \/ ticker'[j] = "closing"
        /\ ticker' \in [Ids -> {"free", "opening", "up", "closing"}]
    BY <1>0, <1>4 DEF Disconnect, ConnTypes
  <2>2. closing' = TRUE /\ UNCHANGED pending /\ phase' = "stopped"
    BY <1>4 DEF Disconnect
  <2>3. TickerInv'
    BY <1>0, <2>1, <2>2 DEF TickerInv, ConnTypes, Clean, Ending, Alive
  <2>4. Lines' <= Lines
    <3>1. Living' \subseteq Living
      BY <2>1 DEF Living, Alive
    <3>2. Cardinality(Living') <= Cardinality(Living)
      BY <3>1, LivingCount, FS_Subset
    <3>3. QED
      BY <1>0, <2>2, <2>3, <3>2, LinesTypes, LivingCount DEF TickerInv, ConnTypes
  <2>5. QED
    BY <1>0, <2>3, <2>4, LinesTypes DEF Allowed, LinesMultiply, TickerInv
<1>5. CASE Exit
  <2>1. ticker' = [k \in Ids |-> "free"] /\ pending' = 0 /\ closing' = FALSE
    BY <1>5 DEF Exit, Fresh
  <2>2. \A k \in Ids : ticker'[k] = "free"
    BY <2>1
  <2>3. ConnTypes'
    BY <2>1 DEF ConnTypes
  <2>4. TickerInv'
    BY <2>1, <2>2, <2>3 DEF TickerInv, Clean, Ending, Alive
  <2>5. Lines' = 0
    <3>1. Living' = {}
      BY <2>2 DEF Living, Alive
    <3>2. Cardinality(Living') = 0
      BY <3>1, FS_EmptySet
    <3>3. QED
      BY <2>1, <2>3, <3>2, LinesTypes
  <2>6. QED
    BY <1>0, <2>4, <2>5, LinesType DEF Allowed, LinesMultiply
<1>6. QED
  BY <1>1, <1>2, <1>3, <1>4, <1>5
------------------------------------------------------------------------------
(* Tasks run only while the process is up. *)
LEMMA BusyStep == Busy /\ [Next]_vars => Busy'
<1> SUFFICES ASSUME Busy, [Next]_vars
             PROVE  Busy'
  OBVIOUS
<1>1. CASE UNCHANGED running /\ (phase = "up" => phase' = "up")
  BY <1>1 DEF Busy
<1>2. CASE (\E row \in Rows : EnsureProvider(row)) \/ Connect \/ Disconnect \/ Exit
  BY <1>1, <1>2 DEF EnsureProvider, Connect, Disconnect, Exit, svars
<1>3. CASE Up
  BY <1>1, <1>3 DEF Up, svars, Busy
<1>4. CASE Stop
  <2>1. running' = [t \in Tasks |-> FALSE]
    BY <1>4 DEF Stop, StopAll
  <2>2. QED
    BY <2>1 DEF Busy
<1>5. CASE (\E k \in Ids : Network(k)) \/ Reconnect \/ Expire \/ Time
  <2>1. UNCHANGED <<running, phase>>
    BY <1>5 DEF Network, OnConnect, OnClose, Closed, OnTicks, Reconnect, Expire, Time, Tick, svars
  <2>2. QED
    BY <1>1, <2>1
<1>6. CASE StreamEnters \/ StreamFails \/ HandleQuote \/ Watch \/ \E t \in Tasks : Supervise(t)
  <2>1. UNCHANGED <<running, phase>>
    BY <1>6 DEF StreamEnters, Enters, StreamFails, Fails, HandleQuote, Watch, Watches, Supervise, Naps
  <2>2. QED
    BY <1>1, <2>1
<1>7. CASE UNCHANGED vars
  BY <1>1, <1>7 DEF vars, svars
<1>8. QED
  BY <1>2, <1>3, <1>4, <1>5, <1>6, <1>7 DEF Next

LEMMA TickerStep == TickerInv /\ Busy /\ [Next]_vars => TickerInv' /\ Allowed
<1> SUFFICES ASSUME TickerInv, Busy, [Next]_vars
             PROVE  TickerInv' /\ Allowed
  OBVIOUS
<1>1. CASE HandleQuote \/ Watch \/ (\E t \in Tasks : Supervise(t)) \/ Time \/ Expire
  BY <1>1, ConnStays DEF HandleQuote, Watch, Supervise, Time, Expire, conn
<1>2. CASE UNCHANGED vars
  BY <1>2, ConnStays DEF vars, conn
<1>3. QED
  BY <1>1, <1>2, LifecycleKeeps, CallbackKeeps, ReconnectKeeps, StreamKeeps DEF Next

LEMMA TickerInit == Init => TickerInv /\ Busy
<1> SUFFICES ASSUME Init  PROVE TickerInv /\ Busy
  OBVIOUS
<1>1. ticker = [k \in Ids |-> "free"] /\ pending = 0 /\ closing = FALSE
  BY DEF Init
<1>2. \A k \in Ids : ticker[k] = "free"
  BY <1>1
<1>3. ConnTypes
  BY <1>1 DEF ConnTypes
<1>4. TickerInv
  BY <1>1, <1>2, <1>3 DEF TickerInv, Clean, Ending, Alive
<1>5. Busy
  BY DEF Init, SInit, Busy
<1>6. QED
  BY <1>4, <1>5

(* No close, reconnect, start or stop multiplies the provider's lines; an entry *)
(* of the quote stream does, by one.                                           *)
THEOREM EntriesMultiply == Spec => OnlyEntriesMultiply
<1>1. TickerInv /\ Busy /\ [Next]_vars
        => [LinesMultiply => (StreamEnters \/ StreamFails) /\ Lines' = Lines + 1]_vars
  BY TickerStep DEF Allowed
<1>2. QED
  BY <1>1, TickerInit, TickerStep, BusyStep, PTL DEF Spec, OnlyEntriesMultiply
------------------------------------------------------------------------------
(***************************************************************************)
(* The rate of crashes, for any delays, thresholds and windows, and an      *)
(* event loop that is late by any time.                                     *)
(*                                                                         *)
(* While the breaker is closed it counts every crash of the last window, so *)
(* those in a row are the last of its failures, and fewer than Threshold.   *)
(* While it is open it has forgotten them, but no crash comes, and when it  *)
(* closes all of those before are a window old.                             *)
(***************************************************************************)

Suffix(c, f) ==
    /\ Len(c) <= Len(f)
    /\ \A i \in 1 .. Len(c) : c[i] = f[i + (Len(f) - Len(c))]

RateTypes ==
    /\ crashed \in [Tasks -> Seq(Nat)] /\ failures \in [Tasks -> Seq(Nat)]
    /\ openFor \in [Tasks -> Nat] /\ DOMAIN state = Tasks

(* Of the ages of the crashes in a row, the breaker's failures and the rest   *)
(* of its open time: *)
Counts(c, f, n) ==
    IF n = 0 THEN Suffix(c, f) /\ Len(f) < Threshold
    ELSE f = <<>> /\ Len(c) <= Threshold /\ \A i \in 1 .. Len(c) : c[i] + n >= Window

RateInv ==
    /\ RateTypes
    /\ \A t \in Tasks : /\ Counts(crashed[t], failures[t], openFor[t])
                        /\ state[t] = "running" => openFor[t] = 0

LEMMA OlderFacts ==
    ASSUME NEW s \in Seq(Nat), NEW bound \in Int
    PROVE  LET kept == {i \in 1 .. Len(s) : s[i] + 1 <= bound}
           IN  /\ kept = {} => Older(s, bound) = <<>>
               /\ kept # {} =>
                    /\ Min(kept) \in kept /\ (\A i \in kept : Min(kept) <= i)
                    /\ Older(s, bound) \in Seq(Nat)
                    /\ Len(Older(s, bound)) = Len(s) - Min(kept) + 1
                    /\ \A i \in 1 .. Len(Older(s, bound)) : Older(s, bound)[i] = s[i + Min(kept) - 1] + 1
<1>. DEFINE grown == [i \in 1 .. Len(s) |-> s[i] + 1]
            kept == {i \in 1 .. Len(s) : s[i] + 1 <= bound}
            low == Min(kept)
<1>1. Len(s) \in Nat /\ \A i \in 1 .. Len(s) : s[i] \in Nat
  OBVIOUS
<1>2. grown \in Seq(Nat) /\ Len(grown) = Len(s) /\ \A i \in 1 .. Len(s) : grown[i] = s[i] + 1
  BY <1>1
<1>3. {i \in DOMAIN s : [j \in DOMAIN s |-> s[j] + 1][i] <= bound} = kept
  OBVIOUS
<1>4. Older(s, bound) = IF kept = {} THEN <<>> ELSE SubSeq(grown, Min(kept), Len(grown))
  <2>1. DOMAIN s = 1 .. Len(s)
    OBVIOUS
  <2>. QED
    BY <1>3, <2>1 DEF Older
<1>5. CASE kept # {}
  <2>1. low \in kept /\ \A i \in kept : low <= i
    <3>1. kept \in SUBSET Nat
      OBVIOUS
    <3>. HIDE DEF kept
    <3>. QED
      BY <1>5, <3>1, MinAttained
  <2>2. low \in 1 .. Len(s)
    BY <2>1
  <2>. HIDE DEF low, kept, grown
  <2>3. Older(s, bound) = SubSeq(grown, low, Len(s))
    BY <1>2, <1>4, <1>5 DEF low
  <2>4. /\ SubSeq(grown, low, Len(s)) \in Seq(Nat)
        /\ Len(SubSeq(grown, low, Len(s))) = Len(s) - low + 1
        /\ \A i \in 1 .. Len(s) - low + 1 : SubSeq(grown, low, Len(s))[i] = grown[i + low - 1]
    BY <1>1, <1>2, <2>2
  <2>5. \A i \in 1 .. Len(s) - low + 1 : i + low - 1 \in 1 .. Len(s)
    BY <1>1, <2>2
  <2>6. \A i \in 1 .. Len(s) - low + 1 : Older(s, bound)[i] = s[i + low - 1] + 1
    BY <1>2, <2>3, <2>4, <2>5
  <2>. QED
    BY <1>5, <2>1, <2>3, <2>4, <2>6 DEF low, kept
<1>. QED
  BY <1>4, <1>5

(* A tick keeps the count, open or closed. *)
LEMMA OlderCounts ==
    ASSUME NEW c \in Seq(Nat), NEW f \in Seq(Nat), NEW n \in Nat, Counts(c, f, n)
    PROVE  /\ Older(c, Window - 1) \in Seq(Nat) /\ Older(f, Window) \in Seq(Nat)
           /\ Counts(Older(c, Window - 1), Older(f, Window), Left(n))
<1>. DEFINE keptC == {i \in 1 .. Len(c) : c[i] + 1 <= Window - 1}
            keptF == {i \in 1 .. Len(f) : f[i] + 1 <= Window}
            oc == Older(c, Window - 1)
            of == Older(f, Window)
            a == Min(keptC)
            b == Min(keptF)
<1>0. /\ Window \in Nat \ {0} /\ Threshold \in Nat \ {0} /\ Len(c) \in Nat /\ Len(f) \in Nat
      /\ Window - 1 \in Int /\ Window \in Int
      /\ \A i \in 1 .. Len(c) : c[i] \in Nat
  BY SupervisorConstants
<1>1. /\ keptC = {} => oc = <<>>
      /\ keptC # {} =>
           /\ a \in keptC /\ (\A i \in keptC : a <= i)
           /\ oc \in Seq(Nat) /\ Len(oc) = Len(c) - a + 1
           /\ \A i \in 1 .. Len(oc) : oc[i] = c[i + a - 1] + 1
  <2>. DEFINE w == Window - 1
  <2>1. w \in Int
    BY <1>0
  <2>. HIDE DEF w
  <2>. QED
    BY <2>1, OlderFacts DEF w
<1>2. /\ keptF = {} => of = <<>>
      /\ keptF # {} =>
           /\ b \in keptF /\ (\A i \in keptF : b <= i)
           /\ of \in Seq(Nat) /\ Len(of) = Len(f) - b + 1
           /\ \A i \in 1 .. Len(of) : of[i] = f[i + b - 1] + 1
  BY <1>0, OlderFacts
<1>3. \A i : i \in keptC <=> i \in 1 .. Len(c) /\ c[i] + 1 <= Window - 1
  OBVIOUS
<1>4. \A i : i \in keptF <=> i \in 1 .. Len(f) /\ f[i] + 1 <= Window
  OBVIOUS
<1>. HIDE DEF keptC, keptF, oc, of, a, b
<1>5. oc \in Seq(Nat) /\ of \in Seq(Nat)
  <2>1. <<>> \in Seq(Nat)
    OBVIOUS
  <2>2. oc \in Seq(Nat)
    BY <1>1, <2>1
  <2>3. of \in Seq(Nat)
    BY <1>2, <2>1
  <2>. QED
    BY <2>2, <2>3
<1>6. Len(oc) <= Len(c) /\ Len(of) <= Len(f) /\ Len(oc) \in Nat /\ Len(of) \in Nat
  <2>1. Len(oc) \in Nat /\ Len(of) \in Nat
    BY <1>5
  <2>2. Len(oc) <= Len(c)
    <3>1. CASE keptC = {}
      BY <1>0, <1>1, <3>1
    <3>2. CASE keptC # {}
      <4>1. a \in 1 .. Len(c) /\ Len(oc) = Len(c) - a + 1
        BY <1>1, <1>3, <3>2
      <4>. QED
        BY <1>0, <4>1
    <3>. QED
      BY <3>1, <3>2
  <2>3. Len(of) <= Len(f)
    <3>1. CASE keptF = {}
      BY <1>0, <1>2, <3>1
    <3>2. CASE keptF # {}
      <4>1. b \in 1 .. Len(f) /\ Len(of) = Len(f) - b + 1
        BY <1>2, <1>4, <3>2
      <4>. QED
        BY <1>0, <4>1
    <3>. QED
      BY <3>1, <3>2
  <2>. QED
    BY <2>1, <2>2, <2>3
<1>7. CASE n = 0
  <2>1. Suffix(c, f) /\ Len(f) < Threshold
    BY <1>7 DEF Counts
  <2>2. Suffix(oc, of)
    <3>1. CASE keptC = {}
      BY <1>1, <1>6, <3>1 DEF Suffix
    <3>2. CASE keptC # {}
      <4>. DEFINE d == Len(f) - Len(c)
      <4>0. a \in 1 .. Len(c) /\ c[a] + 1 <= Window - 1
        BY <1>1, <1>3, <3>2
      <4>1. d \in Nat /\ a \in 1 .. Len(c) /\ c[a] + 1 <= Window - 1 /\ c[a] = f[a + d]
        BY <1>0, <2>1, <4>0 DEF Suffix
      <4>2. a + d \in keptF
        <5>1. a + d \in 1 .. Len(f) /\ c[a] \in Nat
          BY SMTT(20), <1>0, <4>1
        <5>2. f[a + d] + 1 <= Window
          BY SMTT(20), <1>0, <4>1, <5>1
        <5>. DEFINE e == a + d
        <5>. HIDE DEF e
        <5>3. e \in 1 .. Len(f) /\ f[e] + 1 <= Window
          BY <5>1, <5>2 DEF e
        <5>4. e \in keptF
          BY <1>4, <5>3
        <5>. QED
          BY <5>4 DEF e
      <4>3. b \in 1 .. Len(f) /\ b <= a + d /\ keptF # {}
        BY <1>2, <1>4, <4>2
      <4>4. Len(oc) = Len(c) - a + 1 /\ Len(of) = Len(f) - b + 1
        BY <1>1, <1>2, <3>2, <4>3
      <4>5. Len(oc) <= Len(of)
        BY <1>0, <4>1, <4>3, <4>4
      <4>6. ASSUME NEW i \in 1 .. Len(oc)  PROVE oc[i] = of[i + (Len(of) - Len(oc))]
        <5>. DEFINE j == i + (Len(of) - Len(oc))
        <5>0. i \in Nat /\ 1 <= i /\ i <= Len(oc) /\ a \in Nat /\ b \in Nat /\ 1 <= a
          BY <1>6, <4>1, <4>3
        <5>1. j \in 1 .. Len(of) /\ i + a - 1 \in 1 .. Len(c) /\ j + b - 1 = (i + a - 1) + d
          BY SMTT(20), <1>0, <1>6, <4>4, <4>5, <5>0
        <5>2. oc[i] = c[i + a - 1] + 1
          BY <1>1, <3>2
        <5>. HIDE DEF j
        <5>3. of[j] = f[j + b - 1] + 1
          BY <1>2, <4>3, <5>1
        <5>. DEFINE k == i + a - 1
        <5>4. k \in 1 .. Len(c) /\ j + b - 1 = k + d
          BY <5>1
        <5>. HIDE DEF k
        <5>5. c[k] = f[k + d]
          BY <2>1, <5>4 DEF Suffix
        <5>. QED
          BY <5>2, <5>3, <5>4, <5>5 DEF k, j
      <4>. QED
        BY <4>5, <4>6 DEF Suffix
    <3>. QED
      BY <3>1, <3>2
  <2>3. Len(of) < Threshold
    BY <1>0, <1>6, <2>1
  <2>. QED
    BY <1>5, <1>7, <2>2, <2>3 DEF Counts, Left, oc, of
<1>8. CASE n # 0
  <2>1. f = <<>> /\ Len(c) <= Threshold /\ \A i \in 1 .. Len(c) : c[i] + n >= Window
    BY <1>8 DEF Counts
  <2>2. of = <<>>
    BY <1>2, <1>4, <2>1
  <2>3. CASE n = 1
    <3>1. keptC = {}
      BY <1>0, <1>3, <2>1, <2>3
    <3>2. oc = <<>>
      BY <1>1, <3>1
    <3>. QED
      BY <1>0, <1>5, <2>2, <2>3, <3>2 DEF Counts, Suffix, Left, oc, of
  <2>4. CASE n # 1
    <3>1. Left(n) = n - 1 /\ Left(n) # 0
      BY <1>8, <2>4 DEF Left
    <3>2. ASSUME NEW i \in 1 .. Len(oc)  PROVE oc[i] + (n - 1) >= Window
      <4>1. keptC # {}
        BY <1>1, <3>2
      <4>0. a \in 1 .. Len(c) /\ Len(oc) = Len(c) - a + 1 /\ oc[i] = c[i + a - 1] + 1
        BY <1>1, <1>3, <3>2, <4>1
      <4>2. i + a - 1 \in 1 .. Len(c) /\ oc[i] = c[i + a - 1] + 1
        BY <1>0, <1>6, <4>0
      <4>. DEFINE k == i + a - 1
      <4>. HIDE DEF k
      <4>3. k \in 1 .. Len(c) /\ oc[i] = c[k] + 1
        BY <4>2 DEF k
      <4>4. c[k] \in Nat /\ c[k] + n >= Window
        BY <1>0, <2>1, <4>3
      <4>. QED
        BY SMTT(20), <1>0, <4>3, <4>4
    <3>3. Len(oc) <= Threshold
      BY <1>0, <1>6, <2>1
    <3>. QED
      BY <1>5, <2>2, <3>1, <3>2, <3>3 DEF Counts, oc, of
  <2>. QED
    BY <2>3, <2>4
<1>. QED
  BY <1>7, <1>8
(* A crash of one task, which was not in an open circuit. *)
LEMMA CrashKeeps ==
    ASSUME RateInv, NEW t \in Tasks, openFor[t] = 0, Fails(t)
    PROVE  RateInv'
<1>. DEFINE c == crashed[t]
            f == failures[t]
<1>0. /\ RateTypes /\ c \in Seq(Nat) /\ f \in Seq(Nat) /\ Len(c) \in Nat /\ Len(f) \in Nat
      /\ Suffix(c, f) /\ Len(f) < Threshold
      /\ Threshold \in Nat \ {0} /\ Window \in Nat \ {0}
  BY SupervisorConstants DEF RateInv, RateTypes, Counts
<1>1. /\ crashed' = [crashed EXCEPT ![t] = Append(c, 0)]
      /\ state' = [state EXCEPT ![t] = "backoff"]
      /\ IF Len(Append(f, 0)) >= Threshold
         THEN openFor' = [openFor EXCEPT ![t] = Window] /\ failures' = [failures EXCEPT ![t] = <<>>]
         ELSE failures' = [failures EXCEPT ![t] = Append(f, 0)] /\ UNCHANGED openFor
  BY DEF Fails, RecordFailure, Set
<1>. HIDE DEF c, f
<1>2. /\ Append(c, 0) \in Seq(Nat) /\ Len(Append(c, 0)) = Len(c) + 1
      /\ Append(f, 0) \in Seq(Nat) /\ Len(Append(f, 0)) = Len(f) + 1
      /\ (\A i \in 1 .. Len(c) : Append(c, 0)[i] = c[i]) /\ Append(c, 0)[Len(c) + 1] = 0
      /\ (\A i \in 1 .. Len(f) : Append(f, 0)[i] = f[i]) /\ Append(f, 0)[Len(f) + 1] = 0
      /\ <<>> \in Seq(Nat)
  BY <1>0
<1>3. RateTypes'
  BY <1>0, <1>1, <1>2 DEF RateTypes
<1>4. /\ \A u \in Tasks : u # t => /\ crashed'[u] = crashed[u] /\ failures'[u] = failures[u]
                                  /\ openFor'[u] = openFor[u] /\ state'[u] = state[u]
      /\ crashed'[t] = Append(c, 0) /\ state'[t] = "backoff"
  BY <1>0, <1>1 DEF RateTypes
<1>5. Counts(crashed'[t], failures'[t], openFor'[t])
  <2>1. CASE Len(f) + 1 >= Threshold
    <3>1. openFor'[t] = Window /\ failures'[t] = <<>>
      BY <1>0, <1>1, <1>2, <2>1 DEF RateTypes
    <3>2. \A i \in 1 .. Len(Append(c, 0)) : Append(c, 0)[i] \in Nat
      BY <1>2
    <3>3. \A i \in 1 .. Len(Append(c, 0)) : Append(c, 0)[i] + Window >= Window
      BY <1>0, <3>2
    <3>4. Len(Append(c, 0)) <= Threshold
      BY <1>0, <1>2 DEF Suffix
    <3>. QED
      BY <1>0, <1>4, <3>1, <3>3, <3>4 DEF Counts
  <2>2. CASE ~(Len(f) + 1 >= Threshold)
    <3>1. openFor'[t] = 0 /\ failures'[t] = Append(f, 0)
      BY <1>0, <1>1, <1>2, <2>2 DEF RateTypes
    <3>2. Len(Append(c, 0)) <= Len(Append(f, 0)) /\ Len(Append(f, 0)) < Threshold
      BY <1>0, <1>2, <2>2 DEF Suffix
    <3>3. ASSUME NEW i \in 1 .. Len(c) + 1
          PROVE  Append(c, 0)[i] = Append(f, 0)[i + ((Len(f) + 1) - (Len(c) + 1))]
      <4>. DEFINE d == Len(f) - Len(c)
      <4>1. d \in Nat /\ i + ((Len(f) + 1) - (Len(c) + 1)) = i + d
        BY <1>0 DEF Suffix
      <4>2. CASE i = Len(c) + 1
        <5>1. i + d = Len(f) + 1
          BY <1>0, <4>2
        <5>. QED
          BY <1>2, <4>1, <4>2, <5>1
      <4>3. CASE i # Len(c) + 1
        <5>1. i \in 1 .. Len(c) /\ i + d \in 1 .. Len(f)
          BY <1>0, <4>1, <4>3
        <5>2. c[i] = f[i + d]
          BY <1>0, <5>1 DEF Suffix
        <5>. DEFINE e == i + d
        <5>. HIDE DEF e
        <5>3. e \in 1 .. Len(f)
          BY <5>1 DEF e
        <5>4. Append(f, 0)[e] = f[e]
          BY <1>2, <5>3
        <5>. QED
          BY <1>2, <4>1, <5>1, <5>2, <5>4 DEF e
      <4>. QED
        BY <4>2, <4>3
    <3>4. Suffix(Append(c, 0), Append(f, 0))
      BY ZenonT(40), <1>2, <3>2, <3>3 DEF Suffix
    <3>. QED
      BY <1>4, <3>1, <3>2, <3>4 DEF Counts
  <2>. QED
    BY <2>1, <2>2
<1>6. ASSUME NEW u \in Tasks
      PROVE  /\ Counts(crashed'[u], failures'[u], openFor'[u])
             /\ state'[u] = "running" => openFor'[u] = 0
  <2>1. CASE u = t
    BY <1>4, <1>5, <2>1
  <2>2. CASE u # t
    BY <1>4, <2>2 DEF RateInv
  <2>. QED
    BY <2>1, <2>2
<1>. QED
  BY <1>3, <1>6 DEF RateInv

LEMMA TimeKeeps ==
    ASSUME RateInv, Tick
    PROVE  RateInv'
<1>0. RateTypes /\ state' = state
  BY DEF RateInv, Tick
<1>1. ASSUME NEW t \in Tasks
      PROVE  /\ crashed'[t] = Older(crashed[t], Window - 1) /\ failures'[t] = Older(failures[t], Window)
             /\ openFor'[t] = Left(openFor[t])
             /\ crashed'[t] \in Seq(Nat) /\ failures'[t] \in Seq(Nat) /\ openFor'[t] \in Nat
             /\ Counts(crashed'[t], failures'[t], openFor'[t])
             /\ openFor[t] = 0 => openFor'[t] = 0
  <2>1. /\ crashed'[t] = Older(crashed[t], Window - 1) /\ failures'[t] = Older(failures[t], Window)
        /\ openFor'[t] = Left(openFor[t])
    BY DEF Tick
  <2>2. /\ crashed[t] \in Seq(Nat) /\ failures[t] \in Seq(Nat) /\ openFor[t] \in Nat
        /\ Counts(crashed[t], failures[t], openFor[t])
    BY DEF RateInv, RateTypes
  <2>3. /\ Older(crashed[t], Window - 1) \in Seq(Nat) /\ Older(failures[t], Window) \in Seq(Nat)
        /\ Counts(Older(crashed[t], Window - 1), Older(failures[t], Window), Left(openFor[t]))
    BY <2>2, OlderCounts
  <2>4. Left(openFor[t]) \in Nat /\ (openFor[t] = 0 => Left(openFor[t]) = 0)
    BY <2>2 DEF Left
  <2>. QED
    BY <2>1, <2>3, <2>4
<1>2. /\ crashed' = [t \in Tasks |-> Older(crashed[t], Window - 1)]
      /\ failures' = [t \in Tasks |-> Older(failures[t], Window)]
      /\ openFor' = [t \in Tasks |-> Left(openFor[t])]
  BY DEF Tick
<1>3. RateTypes'
  BY <1>0, <1>1, <1>2 DEF RateTypes
<1>. QED
  BY <1>0, <1>1, <1>3 DEF RateInv

LEMMA RateStep == RateInv /\ [Next]_vars => RateInv'
<1>. SUFFICES ASSUME RateInv, [Next]_vars
              PROVE  RateInv'
  OBVIOUS
<1>0. RateTypes /\ Stream \in Tasks /\ Watcher \in Tasks
  BY FeedConstants DEF RateInv
(* What makes no task run and leaves the crashes alone. *)
<1>1. ASSUME UNCHANGED <<crashed, failures, openFor>>, DOMAIN state' = Tasks,
             \A t \in Tasks : state'[t] = "running" => state[t] = "running" \/ openFor[t] = 0
      PROVE  RateInv'
  BY <1>0, <1>1 DEF RateInv, RateTypes
<1>2. ASSUME NEW t \in Tasks, Enters(t)  PROVE RateInv'
  <2>1. ~(openFor[t] > 0) /\ UNCHANGED <<crashed, failures, openFor>>
        /\ state' = [state EXCEPT ![t] = "running"]
    BY <1>2 DEF Enters, IsOpen, Set, breaker
  <2>2. openFor[t] = 0
    BY <1>0, <2>1 DEF RateTypes
  <2>. QED
    BY <1>0, <1>1, <2>1, <2>2 DEF RateTypes
<1>3. ASSUME NEW t \in Tasks, Naps(t)  PROVE RateInv'
  BY <1>0, <1>1, <1>3 DEF Naps, Set, breaker, RateTypes
<1>4. CASE \/ \E row \in Rows : EnsureProvider(row)
           \/ Connect \/ Disconnect \/ Exit \/ Reconnect \/ Expire \/ Watch
           \/ \E k \in Ids : Network(k)
           \/ UNCHANGED vars
  <2>1. UNCHANGED <<crashed, failures, openFor, state>>
    BY <1>4 DEF EnsureProvider, Connect, Disconnect, Exit, Reconnect, Expire, Watch, Watches, Network,
                OnConnect, OnClose, Closed, OnTicks, vars, svars, breaker
  <2>. QED
    BY <1>0, <1>1, <2>1 DEF RateTypes
<1>5. CASE Up
  <2>1. UNCHANGED <<crashed, failures, openFor, state>>
    BY <1>5 DEF Up, StartAll, svars, breaker
  <2>. QED
    BY <1>0, <1>1, <2>1 DEF RateTypes
<1>6. CASE Stop
  <2>1. /\ state' = [t \in Tasks |-> "stopped"] /\ openFor' = [t \in Tasks |-> 0]
        /\ failures' = [t \in Tasks |-> <<>>] /\ crashed' = [t \in Tasks |-> <<>>]
    BY <1>6 DEF Stop, StopAll
  <2>2. RateTypes'
    <3>1. <<>> \in Seq(Nat)
      OBVIOUS
    <3>. QED
      BY <2>1, <3>1 DEF RateTypes
  <2>3. Counts(<<>>, <<>>, 0)
    BY SupervisorConstants DEF Counts, Suffix
  <2>. QED
    BY <2>1, <2>2, <2>3 DEF RateInv
<1>7. CASE StreamEnters
  BY <1>0, <1>2, <1>7 DEF StreamEnters
<1>8. CASE StreamFails
  <2>1. openFor[Stream] = 0
    BY <1>0, <1>8 DEF StreamFails, IsOpen, RateTypes
  <2>. QED
    BY <1>0, <1>8, <2>1, CrashKeeps DEF StreamFails
<1>9. CASE HandleQuote
  <2>1. CASE Fails(Stream)
    <3>1. openFor[Stream] = 0
      BY <1>0, <1>9 DEF HandleQuote, RateInv
    <3>. QED
      BY <1>0, <2>1, <3>1, CrashKeeps
  <2>2. CASE UNCHANGED <<state, breaker, crashed>>
    BY <1>0, <1>1, <2>2 DEF breaker, RateTypes
  <2>. QED
    BY <1>9, <2>1, <2>2 DEF HandleQuote
<1>10. CASE \E t \in Tasks : Supervise(t)
  BY <1>2, <1>3, <1>10 DEF Supervise
<1>11. CASE Time
  BY <1>11, TimeKeeps DEF Time
<1>. QED
  BY <1>4, <1>5, <1>6, <1>7, <1>8, <1>9, <1>10, <1>11 DEF Next

(* The breaker bounds the crashes of a task: fewer than a window apart, no more *)
(* than Threshold in a row, however late the event loop is.                   *)
THEOREM CrashesAreLimited == Spec => []RateLimited
<1>1. Init => RateInv
  <2>. SUFFICES ASSUME Init  PROVE RateInv
    OBVIOUS
  <2>1. /\ state = [t \in Tasks |-> "stopped"] /\ openFor = [t \in Tasks |-> 0]
        /\ failures = [t \in Tasks |-> <<>>] /\ crashed = [t \in Tasks |-> <<>>]
    BY DEF Init, SInit
  <2>2. RateTypes
    <3>1. <<>> \in Seq(Nat)
      OBVIOUS
    <3>. QED
      BY <2>1, <3>1 DEF RateTypes
  <2>3. Counts(<<>>, <<>>, 0)
    BY SupervisorConstants DEF Counts, Suffix
  <2>. QED
    BY <2>1, <2>2, <2>3 DEF RateInv
<1>2. RateInv => RateLimited
  <2>. SUFFICES ASSUME RateInv, NEW t \in Tasks  PROVE Len(crashed[t]) <= Threshold
    BY DEF RateLimited
  <2>1. /\ crashed[t] \in Seq(Nat) /\ failures[t] \in Seq(Nat) /\ Threshold \in Nat
        /\ Counts(crashed[t], failures[t], openFor[t])
    BY SupervisorConstants DEF RateInv, RateTypes
  <2>2. Len(crashed[t]) \in Nat /\ Len(failures[t]) \in Nat
    BY <2>1
  <2>3. CASE openFor[t] = 0
    <3>1. Len(crashed[t]) <= Len(failures[t]) /\ Len(failures[t]) < Threshold
      BY <2>1, <2>3 DEF Counts, Suffix
    <3>. QED
      BY <2>1, <2>2, <3>1
  <2>4. CASE openFor[t] # 0
    BY <2>1, <2>4 DEF Counts
  <2>. QED
    BY <2>3, <2>4
<1>. QED
  BY <1>1, <1>2, RateStep, PTL DEF Spec
==============================================================================
