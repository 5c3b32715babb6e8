--------------------------- MODULE ServicesProofs ---------------------------
(***************************************************************************)
(* Theorems about the services that run beside each other without shared   *)
(* state: the event stream, the WebSocket client, the login sessions.      *)
(***************************************************************************)
EXTENDS Realtime, ResilientWS, Sessions, Reports, News, Induction, FiniteSetTheorems, TLAPS
------------------------------------------------------------------------------
(* Queues of numbers. *)
Ascending(q) == \A i, j \in 1 .. Len(q) : i < j => q[i] < q[j]

LEMMA AppendFacts ==
    ASSUME NEW q \in Seq(Nat), NEW n \in Nat
    PROVE  /\ Append(q, n) \in Seq(Nat) /\ Len(Append(q, n)) = Len(q) + 1
           /\ \A i \in 1 .. Len(q) : Append(q, n)[i] = q[i]
           /\ Append(q, n)[Len(q) + 1] = n
  OBVIOUS

LEMMA TailFacts ==
    ASSUME NEW q \in Seq(Nat), q # <<>>
    PROVE  /\ Tail(q) \in Seq(Nat) /\ Len(q) \in Nat \ {0} /\ Len(Tail(q)) = Len(q) - 1
           /\ \A i \in 1 .. Len(q) - 1 : Tail(q)[i] = q[i + 1]
           /\ Head(q) = q[1] /\ Head(q) \in Nat
  OBVIOUS

(* A larger message at the end keeps a queue ascending, and so does giving up  *)
(* the first one.                                                          *)
LEMMA AscendingAppend ==
    ASSUME NEW q \in Seq(Nat), Ascending(q), NEW n \in Nat, \A i \in 1 .. Len(q) : q[i] < n
    PROVE  Ascending(Append(q, n))
<1>1. Len(q) \in Nat
  OBVIOUS
<1>2. \A i \in 1 .. Len(q) + 1 : i \in 1 .. Len(q) \/ i = Len(q) + 1
  BY <1>1
<1>3. QED
  BY <1>1, <1>2, AppendFacts DEF Ascending

LEMMA AscendingTail ==
    ASSUME NEW q \in Seq(Nat), q # <<>>, Ascending(q)
    PROVE  /\ Ascending(Tail(q))
           /\ \A i \in 1 .. Len(Tail(q)) : q[1] < Tail(q)[i]
<1>1. \A i \in 1 .. Len(q) - 1 : i + 1 \in 1 .. Len(q) /\ 1 < i + 1 /\ 1 \in 1 .. Len(q)
  BY TailFacts
<1>2. QED
  BY <1>1, TailFacts DEF Ascending
------------------------------------------------------------------------------
(***************************************************************************)
(* An API process skips no entry of the stream it can read, for any stream  *)
(* bound, batch size and number of crashes of the consumer.                 *)
(*                                                                         *)
(* A read begins after the last id, or after what Redis trimmed meanwhile;  *)
(* so the entries between are those Redis trimmed unread (Behind). A        *)
(* blocked read was asked for with the id that is still the last one        *)
(* (Follows), and until the first entry there is no id and nothing skipped.  *)
(***************************************************************************)

StreamTypes ==
    /\ log \in Seq(Events) /\ trimmed \in 0 .. Len(log)
    /\ cursor # None => cursor \in 0 .. Len(log)
    /\ reading # None => reading \in 0 .. Len(log)

Follows == reading # None /\ cursor # None => reading = cursor
Behind ==
    /\ cursor = None => dispatched = {}
    /\ cursor # None => /\ dispatched \subseteq 1 .. cursor
                        /\ \A i \in cursor + 1 .. trimmed : i \in missed

(* What becomes of the entry i. *)
Settled(i) == i \in dispatched \cup missed \/ ~Readable(log[i])
Complete == cursor # None => \A first \in dispatched : \A i \in first .. cursor : Settled(i)

StreamInv == StreamTypes /\ Follows /\ Behind /\ Complete

LEMMA LogGrows ==
    ASSUME StreamTypes, NEW e \in Events, log' = Append(log, e)
    PROVE  /\ log' \in Seq(Events) /\ Len(log) \in Nat /\ Len(log') = Len(log) + 1
           /\ \A i \in 1 .. Len(log) : log'[i] = log[i]
  BY DEF StreamTypes

(* The ids of a batch follow one another. *)
LEMMA BatchFacts ==
    ASSUME StreamTypes, reading # None, NEW n \in 1 .. ReadCount
    PROVE  \E low \in Nat :
              /\ low = (IF reading < trimmed THEN trimmed ELSE reading)
              /\ Last(Batch(n)) = low + n /\ Range(Batch(n)) = low + 1 .. low + n
<1>0. reading \in Nat /\ trimmed \in Nat /\ n \in Nat \ {0}
  BY RealtimeConstants DEF StreamTypes
<1> DEFINE low == IF reading < trimmed THEN trimmed ELSE reading
<1>1. low \in Nat
  BY <1>0
<1>2. Batch(n) = [k \in 1 .. n |-> low + k]
  BY DEF Batch
<1> HIDE DEF low
<1> DEFINE b == [k \in 1 .. n |-> low + k]
<1>3. b \in Seq(Nat) /\ Len(b) = n
  BY <1>0, <1>1
<1>4. b[n] = low + n /\ DOMAIN b = 1 .. n /\ \A k \in 1 .. n : b[k] = low + k
  BY <1>0
<1>5. Range(b) = low + 1 .. low + n
  <2>1. \A x : x \in low + 1 .. low + n <=> \E k \in 1 .. n : x = low + k
    <3>1. ASSUME NEW x \in low + 1 .. low + n  PROVE \E k \in 1 .. n : x = low + k
      <4>1. x - low \in 1 .. n /\ x = low + (x - low)
        BY <1>0, <1>1
      <4>2. QED
        BY <4>1
    <3>2. ASSUME NEW k \in 1 .. n  PROVE low + k \in low + 1 .. low + n
      BY <1>0, <1>1
    <3>3. QED
      BY <3>1, <3>2
  <2> HIDE DEF b
  <2>2. \A x : x \in Range(b) <=> \E k \in 1 .. n : x = b[k]
    BY <1>4 DEF Range
  <2>3. \A x : x \in Range(b) <=> x \in low + 1 .. low + n
    BY <1>4, <2>1, <2>2
  <2>4. QED
    BY <2>3
<1>6. Last(b) = low + n
  BY <1>3, <1>4 DEF Last
<1>7. QED
  BY <1>1, <1>2, <1>5, <1>6 DEF low
------------------------------------------------------------------------------
(* An entry is added, and Redis may trim some; the unread ones are noted.     *)
LEMMA ForwardKeeps ==
    ASSUME StreamInv, Forward
    PROVE  StreamInv'
<1>0. StreamTypes
  BY DEF StreamInv
<1>1. PICK e \in Events : log' = Append(log, e)
  BY DEF Forward
<1>2. PICK t \in trimmed .. Len(log') :
          trimmed' = t /\ missed' = missed \cup {i \in trimmed + 1 .. t : Unread(i)}
  BY DEF Forward
<1>3. UNCHANGED <<cursor, reading, dispatched>>
  BY DEF Forward
<1>4. /\ log' \in Seq(Events) /\ Len(log) \in Nat /\ Len(log') = Len(log) + 1
      /\ \A i \in 1 .. Len(log) : log'[i] = log[i]
  BY <1>0, <1>1, LogGrows
<1>5. StreamTypes'
  BY <1>0, <1>2, <1>3, <1>4 DEF StreamTypes
<1>6. Behind'
  <2> SUFFICES ASSUME cursor # None, NEW i \in cursor + 1 .. trimmed'
               PROVE  i \in missed'
    BY <1>3 DEF StreamInv, Behind
  <2>1. cursor \in Nat /\ trimmed \in Nat
    BY <1>0 DEF StreamTypes
  <2>2. CASE i <= trimmed
    <3>1. i \in cursor + 1 .. trimmed
      BY <2>1, <2>2
    <3>2. QED
      BY <1>2, <3>1 DEF StreamInv, Behind
  <2>3. CASE ~(i <= trimmed)
    <3>1. i \in trimmed + 1 .. trimmed' /\ i > cursor
      BY <1>2, <2>1, <2>3
    <3>2. QED
      BY <1>2, <3>1 DEF Unread
  <2>4. QED
    BY <2>2, <2>3
<1>7. Complete'
  <2> SUFFICES ASSUME cursor # None, NEW first \in dispatched, NEW i \in first .. cursor
               PROVE  Settled(i)'
    BY <1>3 DEF Complete
  <2>1. Settled(i)
    BY DEF StreamInv, Complete
  <2>2. i \in 1 .. Len(log)
    <3>1. first \in 1 .. cursor /\ cursor \in 0 .. Len(log)
      BY <1>0 DEF StreamInv, Behind, StreamTypes
    <3>2. QED
      BY <1>4, <3>1
  <2>3. log'[i] = log[i]
    BY <1>4, <2>2
  <2>4. QED
    BY <1>2, <1>3, <2>1, <2>3 DEF Settled, Readable
<1>8. QED
  BY <1>3, <1>5, <1>6, <1>7 DEF StreamInv, Follows

(* A batch begins where the last one ended, or after what is gone for good.   *)
LEMMA ConsumeKeeps ==
    ASSUME StreamInv, Consume
    PROVE  StreamInv'
<1>0. StreamTypes /\ reading # None
  BY DEF StreamInv, Consume
<1>1. PICK n \in 1 .. ReadCount :
          /\ Last(Batch(n)) <= Len(log) /\ cursor' = Last(Batch(n))
          /\ dispatched' = dispatched \cup {i \in Range(Batch(n)) : Readable(log[i])}
  BY DEF Consume
<1>2. PICK low \in Nat :
          /\ low = (IF reading < trimmed THEN trimmed ELSE reading)
          /\ Last(Batch(n)) = low + n /\ Range(Batch(n)) = low + 1 .. low + n
  BY <1>0, BatchFacts
<1>3. UNCHANGED <<log, trimmed, missed>> /\ reading' = None
  BY DEF Consume
<1>4. /\ n \in Nat \ {0} /\ Len(log) \in Nat /\ trimmed \in Nat /\ reading \in Nat
      /\ cursor' = low + n /\ cursor' \in 1 .. Len(log) /\ cursor' # None
      /\ reading <= low /\ trimmed <= low
  BY <1>0, <1>1, <1>2, RealtimeConstants DEF StreamTypes
<1>5. \A i : i \in dispatched' <=> i \in dispatched \/ (i \in low + 1 .. low + n /\ Readable(log[i]))
  BY <1>1, <1>2
<1>6. \A i \in dispatched : cursor # None /\ i \in 1 .. reading /\ cursor = reading
  BY <1>0 DEF StreamInv, Behind, Follows
<1>7. StreamTypes' /\ Follows'
  BY <1>0, <1>3, <1>4 DEF StreamTypes, Follows
<1>8. Behind'
  <2>1. dispatched' \subseteq 1 .. cursor'
    BY <1>4, <1>5, <1>6
  <2>2. \A i \in cursor' + 1 .. trimmed' : FALSE
    BY <1>3, <1>4
  <2>3. QED
    BY <1>4, <2>1, <2>2 DEF Behind
<1>9. Complete'
  <2> SUFFICES ASSUME NEW first \in dispatched', NEW i \in first .. cursor'
               PROVE  i \in dispatched' \cup missed \/ ~Readable(log[i])
    BY <1>3 DEF Complete, Settled, Readable
  <2>1. CASE i \in low + 1 .. low + n
    BY <1>5, <2>1
  <2>2. CASE i \notin low + 1 .. low + n
    <3>1. first \in Nat /\ i \in Nat /\ i <= low
      BY <1>4, <1>5, <1>6, <2>2
    <3>2. first \in dispatched
      BY <1>4, <1>5, <3>1
    <3>3. cursor # None /\ cursor = reading
      BY <1>6, <3>2
    <3>4. CASE i <= reading
      <4>1. Settled(i)
        BY <3>1, <3>2, <3>3, <3>4, <1>4 DEF StreamInv, Complete
      <4>2. QED
        BY <1>5, <4>1 DEF Settled
    <3>5. CASE ~(i <= reading)
      <4>1. low = trimmed /\ i \in cursor + 1 .. trimmed
        BY <1>2, <1>4, <3>1, <3>3, <3>5
      <4>2. QED
        BY <3>3, <4>1 DEF StreamInv, Behind
    <3>6. QED
      BY <3>4, <3>5
  <2>3. QED
    BY <2>1, <2>2
<1>10. QED
  BY <1>7, <1>8, <1>9 DEF StreamInv
------------------------------------------------------------------------------
LEMMA StreamStep == StreamInv /\ [RealtimeNext]_rtVars => StreamInv'
<1> SUFFICES ASSUME StreamInv, [RealtimeNext]_rtVars
             PROVE  StreamInv'
  OBVIOUS
<1> USE DEF StreamInv, StreamTypes, Follows, Behind
<1>1. ASSUME UNCHANGED <<log, cursor, dispatched, missed>>  PROVE Complete'
  BY <1>1 DEF Complete, Settled, Readable
<1>2. ASSUME UNCHANGED <<streamVars, dispatched>>  PROVE StreamInv'
  BY <1>1, <1>2 DEF streamVars
<1>3. CASE Read
  <2>1. Len(log) \in 0 .. Len(log)
    OBVIOUS
  <2>2. QED
    BY <1>1, <1>3, <2>1 DEF Read
<1>4. CASE ReadTimesOut \/ ConsumerCrashes
  BY <1>1, <1>4 DEF ReadTimesOut, ConsumerCrashes
<1>5. CASE Restart
  BY <1>5 DEF Restart, Complete
<1>6. ASSUME NEW k \in Handled, Broadcast(k)  PROVE StreamInv'
  BY <1>2, <1>6 DEF Broadcast
<1>7. CASE IssueTicket \/ TicketExpires
  BY <1>2, <1>7 DEF IssueTicket, TicketExpires
<1>8. ASSUME NEW c \in Clients,
             \/ \E t \in Tickets : OpenSocket(c, t)
             \/ Accept(c) \/ Receive(c) \/ SendOne(c) \/ Vanish(c) \/ HangUp(c)
      PROVE  StreamInv'
  BY <1>2, <1>8 DEF OpenSocket, Accept, Receive, SendOne, Vanish, HangUp
<1>9. CASE UNCHANGED rtVars
  BY <1>2, <1>9 DEF rtVars
<1>10. QED
  BY <1>3, <1>4, <1>5, <1>6, <1>7, <1>8, <1>9, ForwardKeeps, ConsumeKeeps DEF RealtimeNext

LEMMA StreamStart == RealtimeInit => StreamInv
  BY DEF RealtimeInit, StreamInv, StreamTypes, Follows, Behind, Complete

(* From its first entry on, an API process reads every entry it can read,       *)
(* through any crash of its consumer, but those Redis trimmed before.          *)
THEOREM NoEntrySkipped == RealtimeSpec => []NothingSkipped
<1>1. StreamInv => NothingSkipped
  <2> SUFFICES ASSUME StreamInv, NEW first \in dispatched, cursor # None, NEW i \in first .. cursor
               PROVE  Settled(i)
    BY DEF NothingSkipped, StreamInv, Behind, Settled
  <2>1. QED
    BY DEF StreamInv, Complete
<1>2. QED
  BY <1>1, StreamStart, StreamStep, PTL DEF RealtimeSpec
------------------------------------------------------------------------------
(***************************************************************************)
(* A browser never sees the stream run backwards, for any bounds of the     *)
(* queues, any number of clients and any subscriptions.                     *)
(*                                                                         *)
(* The entries that wait in a queue of the bus ascend and the consumer is    *)
(* past them (Queued); the messages of a connection's line come from        *)
(* entries before those that still wait for the same kind's handler         *)
(* (Passed), and a channel belongs to one kind (KindOf).                    *)
(***************************************************************************)
Names == {ChannelsOf(e)[m] : e \in Events, m \in 1 .. 3}
Messages == [channel : Names, id : Nat]
KindOf(ch) == IF ch[1] \in {"quotes", "indices"} THEN "quote" ELSE ch[1]

Connections ==
    [stage : {"open"}, channels : SUBSET UNION Wanted, queue : Seq(Messages),
     sender : {"running", "dead"}, gone : BOOLEAN, sent : Seq(Messages)]

BusTypes == bus \in [Handled -> Seq(Nat)]
ConnTypes ==
    /\ DOMAIN conn = Clients
    /\ \A c \in Clients : Open(c) => conn[c] \in Connections

Queued(k) ==
    /\ Ascending(bus[k])
    /\ \A n \in 1 .. Len(bus[k]) : /\ cursor # None /\ bus[k][n] \in 1 .. cursor
                                   /\ log[bus[k][n]].kind = k
Passed(msg) ==
    /\ cursor # None /\ msg.id <= cursor
    /\ \A k \in Handled : KindOf(msg.channel) = k => \A n \in 1 .. Len(bus[k]) : msg.id < bus[k][n]
AllPassed(line) == \A i \in DOMAIN line : Passed(line[i])
Lines == \A c \in Clients : Open(c) => InOrder(Line(c)) /\ AllPassed(Line(c))

OrderInv == BusTypes /\ ConnTypes /\ (\A k \in Handled : Queued(k)) /\ Lines

(* The channels of an event are different, and belong to its kind.          *)
LEMMA ChannelFacts ==
  ASSUME NEW e \in Events, e.kind \in Handled
  PROVE  /\ Len(ChannelsOf(e)) \in 0 .. 3 /\ DOMAIN ChannelsOf(e) = 1 .. Len(ChannelsOf(e))
         /\ \A m \in DOMAIN ChannelsOf(e) : /\ ChannelsOf(e)[m] \in Names
                                            /\ KindOf(ChannelsOf(e)[m]) = e.kind
         /\ \A m, n \in DOMAIN ChannelsOf(e) : m # n => ChannelsOf(e)[m] # ChannelsOf(e)[n]
<1>. DEFINE s == ChannelsOf(e)
            Fine == /\ Len(s) \in 0 .. 3 /\ DOMAIN s = 1 .. Len(s)
                    /\ \A m \in DOMAIN s : KindOf(s[m]) = e.kind
                    /\ \A m, n \in DOMAIN s : m # n => s[m] # s[n]
<1>1. Fine
  <2>1. CASE e.kind = "quote" /\ e.symbol \in IndexSymbols
    <3>. DEFINE T == {<<"quotes", e.symbol>>, <<"quotes">>, <<"indices">>}
    <3>0. ASSUME NEW x \in T, NEW y \in T, NEW z \in T PROVE <<x, y>> \o <<z>> = <<x, y, z>>
      <4>. DEFINE a == <<x, y>>
                  b == <<z>>
                  c == <<x, y, z>>
      <4>. HIDE DEF T
      <4>1. /\ a \in Seq(T) /\ b \in Seq(T) /\ c \in Seq(T) /\ Len(a) = 2 /\ Len(b) = 1 /\ Len(c) = 3
            /\ a[1] = x /\ a[2] = y /\ b[1] = z /\ c[1] = x /\ c[2] = y /\ c[3] = z
        OBVIOUS
      <4>. HIDE DEF a, b, c
      <4>0. /\ a \o b \in Seq(T) /\ Len(a \o b) = Len(a) + Len(b)
            /\ \A i \in 1 .. Len(a) + Len(b) : (a \o b)[i] = IF i <= Len(a) THEN a[i] ELSE b[i - Len(a)]
        <5>1. a \in Seq(T) /\ b \in Seq(T)
          BY <4>1
        <5>. QED  BY <5>1, ConcatProperties
      <4>2. a \o b \in Seq(T) /\ Len(a \o b) = 3 /\ \A i \in 1 .. 3 : (a \o b)[i] = c[i]
        BY <4>0, <4>1
      <4>3. a \o b = c
        BY <4>1, <4>2, SeqEqual
      <4>. QED  BY <4>3 DEF a, b, c
    <3>1. s = <<<<"quotes", e.symbol>>, <<"quotes">>, <<"indices">>>>
      BY <2>1, <3>0 DEF ChannelsOf
    <3>. HIDE DEF s
    <3>. QED  BY <2>1, <3>1 DEF KindOf
  <2>2. CASE e.kind = "quote" /\ e.symbol \notin IndexSymbols
    <3>1. s = <<<<"quotes", e.symbol>>, <<"quotes">>>>
      BY <2>2 DEF ChannelsOf
    <3>. HIDE DEF s
    <3>. QED  BY <2>2, <3>1 DEF KindOf
  <2>3. CASE e.kind \in {"indicator", "option_chain"}
    <3>1. s = <<<<e.kind, e.symbol>>>>
      BY <2>3 DEF ChannelsOf
    <3>. HIDE DEF s
    <3>. QED  BY <2>3, <3>1 DEF KindOf
  <2>4. CASE e.kind = "news"
    <3>1. s = <<<<"news">>>>
      BY <2>4 DEF ChannelsOf
    <3>. HIDE DEF s
    <3>. QED  BY <2>4, <3>1 DEF KindOf
  <2>. QED
    BY <2>1, <2>2, <2>3, <2>4 DEF Handled
<1>2. \A m \in DOMAIN s : s[m] \in Names
  BY <1>1 DEF Names
<1>. QED
  BY <1>1, <1>2

(* What broadcast adds to a queue: messages of the entry, one per channel.  *)
Extends(new, old, id, chs, n) ==
    /\ new \in Seq(Messages) /\ Len(new) >= Len(old)
    /\ \A i \in 1 .. Len(old) : new[i] = old[i]
    /\ \A i \in Len(old) + 1 .. Len(new) : new[i].id = id /\ \E m \in 1 .. n : new[i].channel = chs[m]
    /\ \A i, j \in Len(old) + 1 .. Len(new) : i < j => new[i].channel # new[j].channel

LEMMA ExtendsMore ==
  ASSUME NEW old \in Seq(Messages), NEW id \in Nat, NEW n \in Nat, NEW chs, chs[n + 1] \in Names,
         \A m \in 1 .. n : chs[m] # chs[n + 1],
         NEW q, Extends(q, old, id, chs, n),
         NEW r, r = q \/ r = Append(q, [channel |-> chs[n + 1], id |-> id])
  PROVE  Extends(r, old, id, chs, n + 1)
<1>. DEFINE msg == [channel |-> chs[n + 1], id |-> id]
            a == Len(old)
            b == Len(q)
<1>1. a \in Nat /\ b \in Nat /\ b >= a /\ q \in Seq(Messages) /\ msg \in Messages
  BY DEF Extends, Messages
<1>2. CASE r = q
  <2>1. \A m \in 1 .. n : m \in 1 .. n + 1
    OBVIOUS
  <2>. QED  BY <1>2, <2>1 DEF Extends
<1>3. CASE r = Append(q, msg)
  <2>1. /\ r \in Seq(Messages) /\ Len(r) = b + 1 /\ r[b + 1] = msg
        /\ \A i \in 1 .. b : r[i] = q[i]
    BY <1>1, <1>3
  <2>. HIDE DEF a, b, msg
  <2>2. \A i \in 1 .. a : r[i] = old[i]
    BY <1>1, <2>1 DEF Extends, a, b
  <2>3. ASSUME NEW i \in a + 1 .. b PROVE r[i].id = id /\ \E m \in 1 .. n : r[i].channel = chs[m]
    <3>1. i \in 1 .. b
      BY <1>1
    <3>. QED  BY <2>1, <3>1 DEF Extends, a, b
  <2>4. r[b + 1].id = id /\ r[b + 1].channel = chs[n + 1]
    BY <2>1 DEF msg
  <2>5. ASSUME NEW i \in a + 1 .. b + 1 PROVE r[i].id = id /\ \E m \in 1 .. n + 1 : r[i].channel = chs[m]
    <3>1. CASE i = b + 1
      BY <2>4, <3>1
    <3>2. CASE i # b + 1
      <4>1. i \in a + 1 .. b
        BY <1>1, <3>2
      <4>2. PICK m \in 1 .. n : r[i].channel = chs[m]
        BY <2>3, <4>1
      <4>. QED  BY <2>3, <4>1, <4>2
    <3>. QED  BY <3>1, <3>2
  <2>6. ASSUME NEW i \in a + 1 .. b + 1, NEW j \in a + 1 .. b + 1, i < j
        PROVE  r[i].channel # r[j].channel
    <3>1. i \in a + 1 .. b /\ i \in 1 .. b
      BY <1>1, <2>6
    <3>2. CASE j = b + 1
      BY <2>3, <2>4, <3>1, <3>2
    <3>3. CASE j # b + 1
      <4>1. j \in a + 1 .. b /\ j \in 1 .. b
        BY <1>1, <3>3
      <4>. QED  BY <2>1, <2>6, <3>1, <4>1 DEF Extends, a, b
    <3>. QED  BY <3>2, <3>3
  <2>7. Len(r) >= a
    BY <1>1, <2>1
  <2>. QED  BY <2>1, <2>2, <2>5, <2>6, <2>7 DEF Extends, a
<1>. QED
  BY <1>2, <1>3

LEMMA OfferedFacts ==
  ASSUME NEW x, x.queue \in Seq(Messages), NEW id \in Nat, NEW chs,
         Len(chs) \in Nat, DOMAIN chs = 1 .. Len(chs), \A m \in DOMAIN chs : chs[m] \in Names,
         \A m, n \in DOMAIN chs : m # n => chs[m] # chs[n]
  PROVE  Extends(Offered(x, id, chs), x.queue, id, chs, Len(chs))
<1>. DEFINE n == Len(chs)
            old == x.queue
            X == Seq(Messages)
            put(k, q) == IF chs[k] \in x.channels /\ Len(q) < QueueSize
                         THEN Append(q, [channel |-> chs[k], id |-> id]) ELSE q
            step == [k \in 1 .. n |-> [q \in X |-> put(k, q)]]
            after[k \in 0 .. Len(chs)] ==
              IF k = 0 THEN x.queue
              ELSE IF chs[k] \in x.channels /\ Len(after[k - 1]) < QueueSize
              THEN Append(after[k - 1], [channel |-> chs[k], id |-> id]) ELSE after[k - 1]
<1>1. n \in Nat /\ old \in X /\ \A k \in 1 .. n : [channel |-> chs[k], id |-> id] \in Messages
  BY DEF Messages
<1>2. \A k \in 1 .. n, q \in X : put(k, q) \in X
  BY <1>1
<1>3. step \in Steps(X, n)
  BY <1>2 DEF Steps
<1>4. PICK g : Iterates(g, X, n, old, step)
  <2>. HIDE DEF n, step, X, old
  <2>. QED  BY <1>1, <1>3, Iteration
<1>5. g = [k \in 0 .. n |-> IF k = 0 THEN old ELSE put(k, g[k - 1])]
  <2>. HIDE DEF put, X, n, old
  <2>1. ASSUME NEW k \in 1 .. n PROVE g[k] = put(k, g[k - 1]) /\ k - 1 \in 0 .. n
    <3>1. k - 1 \in 0 .. n
      BY <1>1
    <3>2. g[k - 1] \in X /\ g[k] = step[k][g[k - 1]]
      BY <1>4, <3>1 DEF Iterates
    <3>. QED  BY <3>1, <3>2
  <2>. QED  BY <1>1, <1>4, <2>1 DEF Iterates
<1>6. after = [k \in 0 .. n |-> IF k = 0 THEN old ELSE put(k, after[k - 1])]
  BY <1>5
<1>7. Offered(x, id, chs) = after[n]
  BY DEF Offered
<1>. HIDE DEF after
<1>8. after[0] = old /\ \A k \in 1 .. n : after[k] = put(k, after[k - 1])
  <2>. HIDE DEF put, n, old
  <2>. QED  BY <1>1, <1>6
<1>. DEFINE Grown(k) == Extends(after[k], old, id, chs, k)
<1>9. Grown(0)
  BY <1>1, <1>8 DEF Extends
<1>10. ASSUME NEW k \in 1 .. n, Grown(k - 1) PROVE Grown(k)
  <2>. DEFINE q == after[k - 1]
              r == after[k]
              l == k - 1
  <2>1. r = q \/ r = Append(q, [channel |-> chs[k], id |-> id])
    BY <1>8
  <2>2. l \in Nat /\ l + 1 = k /\ chs[k] \in Names /\ \A m \in 1 .. l : chs[m] # chs[k]
    BY <1>1
  <2>3. Extends(q, old, id, chs, l) /\ old \in Seq(Messages)
    BY <1>10
  <2>. HIDE DEF q, r, l, old
  <2>4. Extends(r, old, id, chs, l + 1)
    BY <2>1, <2>2, <2>3, ExtendsMore
  <2>. QED  BY <2>2, <2>4 DEF r, q, old
<1>11. Grown(n)
  <2>. DEFINE S == {k \in 0 .. n : Grown(k)}
  <2>. HIDE DEF Grown
  <2>1. 0 \in S /\ \A k \in 1 .. n : k - 1 \in S => k \in S
    BY <1>1, <1>9, <1>10
  <2>. HIDE DEF S, n
  <2>2. 0 .. n \subseteq S
    BY <1>1, <2>1, BoundedInduction
  <2>. QED  BY <1>1, <2>2 DEF S
<1>. QED
  BY <1>7, <1>11
------------------------------------------------------------------------------
(* What the consumer of a batch leaves in one queue of the bus.             *)
Waits(q, k, low, top) ==
    /\ q \in Seq(Nat) /\ Ascending(q)
    /\ \A i \in 1 .. Len(q) : /\ q[i] \in 1 .. top /\ log[q[i]].kind = k
                              /\ q[i] > low \/ \E j \in 1 .. Len(bus[k]) : q[i] = bus[k][j]

LEMMA WaitsMore ==
  ASSUME NEW k \in Handled, NEW low \in Nat, NEW top \in Nat, low <= top,
         NEW q, Waits(q, k, low, top),
         NEW r, r = q \/ (r = Append(q, top + 1) /\ log[top + 1].kind = k)
  PROVE  Waits(r, k, low, top + 1)
<1>. DEFINE id == top + 1
<1>0. id \in Nat /\ id > top /\ id > low /\ q \in Seq(Nat)
  BY DEF Waits
<1>1. \A i \in 1 .. Len(q) : q[i] \in 1 .. id /\ q[i] < id
  BY DEF Waits
<1>2. CASE r = q
  BY <1>1, <1>2 DEF Waits
<1>3. CASE r = Append(q, id) /\ log[id].kind = k
  <2>. HIDE DEF id
  <2>1. Ascending(r)
    BY <1>0, <1>1, <1>3, AscendingAppend DEF Waits
  <2>2. /\ r \in Seq(Nat) /\ Len(r) = Len(q) + 1 /\ r[Len(q) + 1] = id /\ Len(q) \in Nat
        /\ \A i \in 1 .. Len(q) : r[i] = q[i]
    BY <1>0, <1>3, AppendFacts
  <2>3. ASSUME NEW i \in 1 .. Len(r)
        PROVE  /\ r[i] \in 1 .. id /\ log[r[i]].kind = k
               /\ r[i] > low \/ \E j \in 1 .. Len(bus[k]) : r[i] = bus[k][j]
    <3>1. CASE i = Len(q) + 1
      BY <1>0, <1>3, <2>2, <3>1
    <3>2. CASE i # Len(q) + 1
      <4>1. i \in 1 .. Len(q)
        BY <2>2, <3>2
      <4>. QED  BY <1>1, <2>2, <4>1 DEF Waits
    <3>. QED  BY <3>1, <3>2
  <2>. QED  BY <2>1, <2>2, <2>3 DEF Waits, id
<1>. QED  BY <1>2, <1>3

LEMMA PublishFacts ==
  ASSUME BusTypes, NEW low \in Nat, NEW ids \in Seq(Nat), \A m \in 1 .. Len(ids) : ids[m] = low + m,
         \A k \in Handled : Waits(bus[k], k, low, low)
  PROVE  /\ Publish(bus, ids) \in [Handled -> Seq(Nat)]
         /\ \A k \in Handled : Waits(Publish(bus, ids)[k], k, low, low + Len(ids))
<1>. DEFINE n == Len(ids)
            X == [Handled -> Seq(Nat)]
            put(m, q) == [k \in Handled |->
                            IF log[ids[m]].kind = k /\ Len(q[k]) < BusSize
                            THEN Append(q[k], ids[m]) ELSE q[k]]
            step == [m \in 1 .. n |-> [q \in X |-> put(m, q)]]
            after[m \in 0 .. Len(ids)] ==
              IF m = 0 THEN bus
              ELSE [k \in Handled |->
                      IF log[ids[m]].kind = k /\ Len(after[m - 1][k]) < BusSize
                      THEN Append(after[m - 1][k], ids[m]) ELSE after[m - 1][k]]
<1>1. n \in Nat /\ bus \in X /\ \A m \in 1 .. n : ids[m] \in Nat
  BY DEF BusTypes
<1>2. \A m \in 1 .. n, q \in X : put(m, q) \in X
  BY <1>1
<1>3. step \in Steps(X, n)
  BY <1>2 DEF Steps
<1>4. PICK g : Iterates(g, X, n, bus, step)
  <2>. HIDE DEF n, step, X
  <2>. QED  BY <1>1, <1>3, Iteration
<1>5. g = [m \in 0 .. n |-> IF m = 0 THEN bus ELSE put(m, g[m - 1])]
  <2>. HIDE DEF put, X, n
  <2>1. ASSUME NEW m \in 1 .. n PROVE g[m] = put(m, g[m - 1]) /\ m - 1 \in 0 .. n
    <3>1. m - 1 \in 0 .. n
      BY <1>1
    <3>2. g[m - 1] \in X /\ g[m] = step[m][g[m - 1]]
      BY <1>4, <3>1 DEF Iterates
    <3>. QED  BY <3>1, <3>2
  <2>. QED  BY <1>1, <1>4, <2>1 DEF Iterates
<1>6. after = [m \in 0 .. n |-> IF m = 0 THEN bus ELSE put(m, after[m - 1])]
  BY <1>5
<1>7. Publish(bus, ids) = after[n]
  BY DEF Publish
<1>. HIDE DEF after
<1>8. after[0] = bus /\ \A m \in 1 .. n : after[m] = put(m, after[m - 1])
  <2>. HIDE DEF put, n
  <2>. QED  BY <1>1, <1>6
<1>. DEFINE Good(m) == after[m] \in X /\ \A k \in Handled : Waits(after[m][k], k, low, low + m)
<1>9. Good(0)
  BY <1>1, <1>8
<1>10. ASSUME NEW m \in 1 .. n, Good(m - 1) PROVE Good(m)
  <2>. DEFINE q == after[m - 1]
              r == after[m]
              top == low + (m - 1)
  <2>1. r = put(m, q) /\ q \in X /\ m \in Nat
    <3>. HIDE DEF put
    <3>. QED  BY <1>1, <1>8, <1>10
  <2>2. r \in X
    BY <1>2, <2>1
  <2>3. top \in Nat /\ low <= top /\ top + 1 = low + m /\ ids[m] = top + 1
    BY <2>1
  <2>4. ASSUME NEW k \in Handled PROVE Waits(r[k], k, low, low + m)
    <3>1. Waits(q[k], k, low, top)
      BY <1>10
    <3>2. r[k] = q[k] \/ (r[k] = Append(q[k], top + 1) /\ log[top + 1].kind = k)
      BY <2>1, <2>3
    <3>3. PICK u : u = q[k]
      OBVIOUS
    <3>4. PICK v : v = r[k]
      OBVIOUS
    <3>. HIDE DEF q, r, top
    <3>5. Waits(v, k, low, top + 1)
      BY <2>3, <3>1, <3>2, <3>3, <3>4, WaitsMore
    <3>. QED  BY <2>3, <3>4, <3>5
  <2>. QED  BY <2>2, <2>4
<1>11. Good(n)
  <2>. DEFINE S == {m \in 0 .. n : Good(m)}
  <2>. HIDE DEF Good
  <2>1. 0 \in S /\ \A m \in 1 .. n : m - 1 \in S => m \in S
    BY <1>1, <1>9, <1>10
  <2>. HIDE DEF S, n
  <2>2. 0 .. n \subseteq S
    BY <1>1, <2>1, BoundedInduction
  <2>. QED  BY <1>1, <2>2 DEF S
<1>. QED
  BY <1>7, <1>11
------------------------------------------------------------------------------
(* A line grows by one entry's messages, at most one for a channel.         *)
LEMMA LineGrows ==
  ASSUME NEW a \in Seq(Messages), NEW q \in Seq(Messages), NEW r, NEW id, NEW chs, NEW n \in Nat,
         Extends(r, q, id, chs, n), NEW k \in Handled, bus[k] \in Seq(Nat), bus[k] # <<>>, Queued(k),
         id = Head(bus[k]), bus' = [bus EXCEPT ![k] = Tail(@)], BusTypes, cursor' = cursor, cursor # None => cursor \in Nat,
         \A m \in 1 .. n : KindOf(chs[m]) = k, InOrder(a \o q), AllPassed(a \o q)
  PROVE  InOrder(a \o r) /\ AllPassed(a \o r)'
<1>. DEFINE la == Len(a)
            lq == Len(q)
            lr == Len(r)
            s == a \o q
            t == a \o r
<1>1. /\ la \in Nat /\ lq \in Nat /\ lr \in Nat /\ lr >= lq /\ r \in Seq(Messages)
      /\ s \in Seq(Messages) /\ t \in Seq(Messages)
      /\ Len(s) = la + lq /\ Len(t) = la + lr
  BY ConcatProperties DEF Extends
<1>2. \A i \in 1 .. la + lq : i \in 1 .. la + lr /\ t[i] = s[i]
  BY <1>1, ConcatProperties DEF Extends
<1>3. \A i \in la + lq + 1 .. la + lr : i - la \in lq + 1 .. lr /\ t[i] = r[i - la]
  BY <1>1, ConcatProperties
<1>4. DOMAIN s = 1 .. la + lq /\ DOMAIN t = 1 .. la + lr
  BY <1>1
<1>5. /\ \A i \in lq + 1 .. lr : r[i].id = id /\ KindOf(r[i].channel) = k
      /\ \A i, j \in lq + 1 .. lr : i < j => r[i].channel # r[j].channel
  BY DEF Extends
<1>. HIDE DEF s, t, la, lq, lr
<1>6. /\ id = bus[k][1] /\ 1 \in 1 .. Len(bus[k]) /\ cursor # None /\ id \in 1 .. cursor /\ Ascending(bus[k])
  BY TailFacts DEF Queued
<1>7. \A i \in la + lq + 1 .. la + lr : t[i].id = id /\ KindOf(t[i].channel) = k
  BY <1>3, <1>5
<1>8. ASSUME NEW i \in 1 .. la + lr, NEW j \in 1 .. la + lr, i < j, t[i].channel = t[j].channel
      PROVE  t[i].id < t[j].id
  <2>1. CASE j <= la + lq
    <3>1. i \in 1 .. la + lq /\ j \in 1 .. la + lq
      BY <1>1, <1>8, <2>1
    <3>. QED  BY <1>2, <1>4, <1>8, <3>1 DEF InOrder, s
  <2>2. CASE ~(j <= la + lq) /\ i <= la + lq
    <3>1. i \in 1 .. la + lq /\ j \in la + lq + 1 .. la + lr
      BY <1>1, <2>2
    <3>2. KindOf(t[i].channel) = k /\ t[j].id = id /\ t[i] = s[i]
      BY <1>2, <1>7, <1>8, <3>1
    <3>3. Passed(s[i])
      BY <1>4, <3>1 DEF AllPassed, s
    <3>. QED  BY <1>6, <3>2, <3>3 DEF Passed
  <2>3. CASE ~(i <= la + lq)
    <3>1. i \in la + lq + 1 .. la + lr /\ j \in la + lq + 1 .. la + lr
      BY <1>1, <1>8, <2>3
    <3>2. i - la \in lq + 1 .. lr /\ j - la \in lq + 1 .. lr /\ i - la < j - la /\ t[i] = r[i - la] /\ t[j] = r[j - la]
      BY SMTT(20), <1>1, <1>3, <1>8, <3>1
    <3>. QED  BY <1>5, <1>8, <3>2
  <2>. QED  BY <2>1, <2>2, <2>3
<1>9. InOrder(t)
  BY <1>4, <1>8 DEF InOrder
<1>10. /\ Tail(bus[k]) \in Seq(Nat) /\ bus'[k] = Tail(bus[k])
       /\ \A i \in 1 .. Len(Tail(bus[k])) : bus[k][1] < Tail(bus[k])[i]
                                            /\ \E j \in 1 .. Len(bus[k]) : Tail(bus[k])[i] = bus[k][j]
  <2>1. bus'[k] = Tail(bus[k])
    BY DEF BusTypes
  <2>2. \A i \in 1 .. Len(Tail(bus[k])) : bus[k][1] < Tail(bus[k])[i]
    BY <1>6, AscendingTail
  <2>3. \A i \in 1 .. Len(Tail(bus[k])) : i + 1 \in 1 .. Len(bus[k]) /\ Tail(bus[k])[i] = bus[k][i + 1]
    BY TailFacts
  <2>. QED  BY <2>1, <2>2, <2>3, TailFacts
<1>11. \A h \in Handled : h # k => bus'[h] = bus[h]
  BY DEF BusTypes
<1>12. ASSUME NEW i \in 1 .. la + lr PROVE Passed(t[i])'
  <2>1. CASE i <= la + lq
    <3>1. i \in 1 .. la + lq
      BY <2>1
    <3>2. PICK x : x = t[i]
      OBVIOUS
    <3>3. Passed(x)
      BY <1>2, <1>4, <3>1, <3>2 DEF AllPassed, s
    <3>4. Passed(x)'
      BY <1>10, <1>11, <3>3 DEF Passed
    <3>. QED  BY <3>2, <3>4 DEF t
  <2>2. CASE ~(i <= la + lq)
    <3>1. i \in la + lq + 1 .. la + lr
      BY <1>1, <2>2
    <3>2. PICK x : x = t[i]
      OBVIOUS
    <3>3. x.id = id /\ KindOf(x.channel) = k
      BY <1>7, <3>1, <3>2
    <3>4. cursor' # None /\ x.id <= cursor'
      BY <1>6, <3>3
    <3>5. \A j \in 1 .. Len(bus'[k]) : x.id < bus'[k][j]
      BY <1>6, <1>10, <3>3
    <3>6. Passed(x)'
      BY <3>3, <3>4, <3>5 DEF Passed
    <3>. QED  BY <3>2, <3>6 DEF t
  <2>. QED  BY <2>1, <2>2
<1>. QED
  BY <1>4, <1>9, <1>12 DEF AllPassed, t

(* A line from which one message is taken away stays in order.              *)
LEMMA LineThins ==
  ASSUME NEW a \in Seq(Messages), NEW q \in Seq(Messages), q # <<>>, InOrder(a \o q), AllPassed(a \o q)
  PROVE  /\ Append(a, Head(q)) \o Tail(q) = a \o q
         /\ InOrder(a \o Tail(q)) /\ AllPassed(a \o Tail(q))
         /\ Append(a, Head(q)) \in Seq(Messages) /\ Tail(q) \in Seq(Messages)
<1>. DEFINE la == Len(a)
            lq == Len(q)
            u == Tail(q)
            b == Append(a, Head(q))
            s == a \o q
            t == a \o u
            v == b \o u
<1>1. /\ la \in Nat /\ lq \in Nat \ {0} /\ u \in Seq(Messages) /\ Len(u) = lq - 1
      /\ \A i \in 1 .. lq - 1 : u[i] = q[i + 1]
      /\ b \in Seq(Messages) /\ Len(b) = la + 1 /\ b[la + 1] = q[1] /\ \A i \in 1 .. la : b[i] = a[i]
  OBVIOUS
<1>. HIDE DEF u, b
<1>2. /\ s \in Seq(Messages) /\ Len(s) = la + lq
      /\ \A i \in 1 .. la + lq : s[i] = IF i <= la THEN a[i] ELSE q[i - la]
  BY ConcatProperties
<1>3. /\ t \in Seq(Messages) /\ Len(t) = Len(a) + Len(u)
      /\ \A i \in 1 .. Len(a) + Len(u) : t[i] = IF i <= Len(a) THEN a[i] ELSE u[i - Len(a)]
  BY <1>1, ConcatProperties
<1>4. /\ v \in Seq(Messages) /\ Len(v) = Len(b) + Len(u)
      /\ \A i \in 1 .. Len(b) + Len(u) : v[i] = IF i <= Len(b) THEN b[i] ELSE u[i - Len(b)]
  BY <1>1, ConcatProperties
<1>. DEFINE m == Len(u)
<1>5. m \in Nat /\ m = lq - 1 /\ Len(b) = la + 1
  BY <1>1
<1>a. Len(t) = la + m /\ \A i \in 1 .. la + m : t[i] = IF i <= la THEN a[i] ELSE u[i - la]
  BY <1>3
<1>b. Len(v) = (la + 1) + m /\ \A i \in 1 .. (la + 1) + m : v[i] = IF i <= la + 1 THEN b[i] ELSE u[i - (la + 1)]
  BY <1>4, <1>5
<1>c. la \in Nat /\ lq \in Nat /\ lq = m + 1 /\ \A i \in 1 .. m : u[i] = q[i + 1]
  BY <1>1, <1>5
<1>. HIDE DEF s, t, v, la, lq, m
<1>6. ASSUME NEW i \in 1 .. la + m
      PROVE  /\ i \in 1 .. la + lq /\ i + 1 \in 1 .. la + lq
             /\ t[i] = IF i <= la THEN s[i] ELSE s[i + 1]
  <2>0. i \in 1 .. la + lq /\ i + 1 \in 1 .. la + lq
    BY <1>5, <1>c
  <2>1. CASE i <= la
    BY <1>2, <1>a, <2>0, <2>1
  <2>2. CASE ~(i <= la)
    <3>1. i - la \in 1 .. m /\ (i + 1) - la = (i - la) + 1 /\ ~(i + 1 <= la)
      BY <1>5, <1>c, <2>2
    <3>2. t[i] = u[i - la]
      BY <1>a, <2>2
    <3>3. u[i - la] = q[(i - la) + 1]
      BY <1>c, <3>1
    <3>4. s[i + 1] = q[(i + 1) - la]
      BY <1>2, <2>0, <3>1
    <3>. QED  BY <2>0, <2>2, <3>1, <3>2, <3>3, <3>4
  <2>. QED  BY <2>1, <2>2
<1>7. v = s
  <2>1. ASSUME NEW i \in 1 .. la + lq PROVE v[i] = s[i]
    <3>0. i \in 1 .. (la + 1) + m
      BY <1>5, <1>c
    <3>1. CASE i <= la
      <4>1. i \in 1 .. la /\ i <= la + 1
        BY <1>c, <3>1
      <4>2. b[i] = a[i]
        BY <1>1, <4>1 DEF la
      <4>. QED  BY <1>2, <1>b, <3>0, <3>1, <4>1, <4>2
    <3>2. CASE i = la + 1
      <4>1. i - la = 1 /\ ~(i <= la) /\ i <= la + 1
        BY <1>c, <3>2
      <4>2. b[i] = q[1]
        BY <1>1, <3>2 DEF la
      <4>. QED  BY <1>2, <1>b, <3>0, <4>1, <4>2
    <3>3. CASE i > la + 1
      <4>1. i - (la + 1) \in 1 .. m /\ (i - (la + 1)) + 1 = i - la /\ ~(i <= la) /\ ~(i <= la + 1)
        BY <1>5, <1>c, <3>0, <3>3
      <4>2. v[i] = u[i - (la + 1)]
        BY <1>b, <3>0, <4>1
      <4>3. u[i - (la + 1)] = q[(i - (la + 1)) + 1]
        BY <1>c, <4>1
      <4>4. s[i] = q[i - la]
        BY <1>2, <4>1
      <4>. QED  BY <4>1, <4>2, <4>3, <4>4
    <3>. QED  BY <1>c, <3>1, <3>2, <3>3
  <2>2. Len(v) = Len(s) /\ \A i \in 1 .. Len(v) : v[i] = s[i]
    <3>1. (la + 1) + m = la + lq
      BY <1>5, <1>c
    <3>. QED  BY <1>2, <1>b, <2>1, <3>1
  <2>. QED  BY <1>2, <1>4, <2>2, SeqEqual
<1>8. DOMAIN s = 1 .. la + lq /\ DOMAIN t = 1 .. la + m
  BY <1>2, <1>3, <1>a
<1>9. InOrder(t)
  <2>1. ASSUME NEW i \in 1 .. la + m, NEW j \in 1 .. la + m, i < j, t[i].channel = t[j].channel
        PROVE  t[i].id < t[j].id
    <3>1. /\ i \in 1 .. la + lq /\ i + 1 \in 1 .. la + lq /\ j \in 1 .. la + lq /\ j + 1 \in 1 .. la + lq
          /\ t[i] = (IF i <= la THEN s[i] ELSE s[i + 1]) /\ t[j] = (IF j <= la THEN s[j] ELSE s[j + 1])
      BY <1>6
    <3>2. PICK x \in 1 .. la + lq, y \in 1 .. la + lq : x < y /\ t[i] = s[x] /\ t[j] = s[y]
      <4>1. i < j + 1 /\ i + 1 < j + 1 /\ (j <= la => i <= la)
        BY <1>c, <2>1
      <4>. QED  BY <2>1, <3>1, <4>1
    <3>. QED  BY <1>8, <2>1, <3>2 DEF InOrder, s
  <2>. QED  BY <1>8, <2>1 DEF InOrder
<1>10. AllPassed(t)
  <2>1. ASSUME NEW i \in 1 .. la + m PROVE Passed(t[i])
    <3>1. PICK x \in 1 .. la + lq : t[i] = s[x]
      BY <1>6
    <3>2. Passed(s[x])
      BY <1>8, <3>1 DEF AllPassed, s
    <3>. QED  BY <3>1, <3>2
  <2>. QED  BY <1>8, <2>1 DEF AllPassed
<1>. QED
  BY <1>1, <1>7, <1>9, <1>10 DEF u, b, s, t, v
------------------------------------------------------------------------------
(* One lemma for each action that changes a line or a queue of the bus.     *)
LEMMA ConsumeOrders ==
  ASSUME StreamInv, OrderInv, Consume
  PROVE  OrderInv'
<1>0. StreamTypes /\ reading # None
  BY DEF StreamInv, Consume
<1>1. PICK n \in 1 .. ReadCount :
          /\ Last(Batch(n)) <= Len(log) /\ cursor' = Last(Batch(n))
          /\ bus' = Publish(bus, Batch(n))
  BY DEF Consume
<1>2. PICK low \in Nat :
          /\ low = (IF reading < trimmed THEN trimmed ELSE reading)
          /\ Last(Batch(n)) = low + n
  BY <1>0, BatchFacts
<1>3. /\ n \in Nat \ {0} /\ reading \in Nat /\ trimmed \in Nat /\ reading <= low
      /\ cursor' = low + n /\ cursor' # None /\ UNCHANGED <<log, conn>>
  BY <1>0, <1>1, <1>2, RealtimeConstants DEF StreamTypes, Consume, socketVars
<1>4. PICK ids : ids = Batch(n)
  OBVIOUS
<1>5. ids \in Seq(Nat) /\ Len(ids) = n /\ \A m \in 1 .. Len(ids) : ids[m] = low + m
  <2>1. ids = [m \in 1 .. n |-> low + m]
    BY <1>2, <1>4 DEF Batch
  <2>. QED  BY <1>3, <2>1
<1>6. cursor # None => cursor \in Nat /\ cursor <= low
  BY <1>0, <1>3 DEF StreamInv, Follows, StreamTypes
<1>7. ASSUME NEW k \in Handled PROVE Waits(bus[k], k, low, low)
  <2>1. Queued(k) /\ bus[k] \in Seq(Nat)
    BY DEF OrderInv, BusTypes
  <2>2. \A i \in 1 .. Len(bus[k]) : bus[k][i] \in 1 .. low
    BY <1>6, <2>1 DEF Queued
  <2>. QED  BY <2>1, <2>2 DEF Queued, Waits
<1>8. BusTypes
  BY DEF OrderInv
<1>9. /\ Publish(bus, ids) \in [Handled -> Seq(Nat)]
      /\ \A k \in Handled : Waits(Publish(bus, ids)[k], k, low, low + Len(ids))
  BY <1>5, <1>7, <1>8, PublishFacts
<1>10. BusTypes' /\ \A k \in Handled : Waits(bus'[k], k, low, low + n)
  BY <1>1, <1>4, <1>5, <1>9 DEF BusTypes
<1>11. \A k \in Handled : Queued(k)'
  BY <1>3, <1>10 DEF Queued, Waits
<1>12. ASSUME NEW x, Passed(x), x.id \in Nat PROVE Passed(x)'
  <2>1. cursor # None /\ x.id <= low
    BY <1>6, <1>12 DEF Passed
  <2>2. ASSUME NEW k \in Handled, KindOf(x.channel) = k, NEW i \in 1 .. Len(bus'[k])
        PROVE  x.id < bus'[k][i]
    <3>1. bus'[k][i] \in Nat /\ (bus'[k][i] > low \/ \E j \in 1 .. Len(bus[k]) : bus'[k][i] = bus[k][j])
      BY SMTT(20), <1>10, <2>2 DEF Waits
    <3>2. \A j \in 1 .. Len(bus[k]) : x.id < bus[k][j]
      BY <1>12, <2>2 DEF Passed
    <3>. QED  BY <1>12, <2>1, <3>1, <3>2
  <2>. QED  BY <1>3, <1>12, <2>1, <2>2 DEF Passed
<1>13. ConnTypes'
  BY <1>3 DEF OrderInv, ConnTypes, Open
<1>14. ASSUME NEW c \in Clients, Open(c)' PROVE InOrder(Line(c))' /\ AllPassed(Line(c))'
  <2>1. Open(c) /\ Line(c)' = Line(c) /\ InOrder(Line(c)) /\ AllPassed(Line(c))
    BY <1>3, <1>14 DEF Open, Line, OrderInv, Lines
  <2>3. PICK s : s = Line(c)
    OBVIOUS
  <2>2. s \in Seq(Messages)
    BY <2>1, <2>3, ConcatProperties DEF OrderInv, ConnTypes, Connections, Line
  <2>6. \A i \in DOMAIN s : s[i] \in Messages
    BY <2>2
  <2>4. \A i \in DOMAIN s : Passed(s[i]) /\ s[i].id \in Nat
    BY <2>1, <2>3, <2>6 DEF AllPassed, Messages
  <2>5. AllPassed(s)'
    BY <1>12, <2>4 DEF AllPassed
  <2>. QED  BY <2>1, <2>3, <2>5 DEF InOrder
<1>. QED
  BY <1>10, <1>11, <1>13, <1>14 DEF OrderInv, Lines

LEMMA BroadcastOrders ==
  ASSUME StreamInv, OrderInv, NEW k \in Handled, Broadcast(k)
  PROVE  OrderInv'
<1>0. StreamTypes /\ BusTypes /\ ConnTypes /\ Queued(k) /\ bus[k] \in Seq(Nat) /\ bus[k] # <<>>
  BY DEF StreamInv, OrderInv, Broadcast, BusTypes
<1>. DEFINE id == Head(bus[k])
            chs == ChannelsOf(log[id])
<1>1. /\ conn' = [c \in Clients |-> IF Open(c)
                    THEN [conn[c] EXCEPT !.queue = Offered(conn[c], id, chs)] ELSE conn[c]]
      /\ bus' = [bus EXCEPT ![k] = Tail(@)] /\ UNCHANGED <<log, cursor>>
  BY DEF Broadcast, streamVars
<1>2. /\ Tail(bus[k]) \in Seq(Nat) /\ Ascending(Tail(bus[k])) /\ id = bus[k][1] /\ id \in Nat
      /\ \A i \in 1 .. Len(Tail(bus[k])) : \E j \in 1 .. Len(bus[k]) : Tail(bus[k])[i] = bus[k][j]
  <2>1. \A i \in 1 .. Len(Tail(bus[k])) : i + 1 \in 1 .. Len(bus[k]) /\ Tail(bus[k])[i] = bus[k][i + 1]
    BY <1>0, TailFacts
  <2>. QED  BY <1>0, <2>1, TailFacts, AscendingTail DEF Queued
<1>3. BusTypes' /\ bus'[k] = Tail(bus[k]) /\ \A h \in Handled : h # k => bus'[h] = bus[h]
  BY <1>0, <1>1, <1>2 DEF BusTypes
<1>4. Queued(k)'
  BY SMTT(20), <1>0, <1>1, <1>2, <1>3 DEF Queued
<1>5. \A h \in Handled : Queued(h)'
  BY <1>1, <1>3, <1>4 DEF Queued, OrderInv
<1>6. log[id] \in Events /\ log[id].kind = k
  <2>1. 1 \in 1 .. Len(bus[k])
    BY <1>0, TailFacts
  <2>2. id \in 1 .. cursor /\ cursor # None /\ log[id].kind = k
    BY <1>0, <1>2, <2>1 DEF Queued
  <2>3. id \in 1 .. Len(log)
    BY <1>0, <2>2 DEF StreamTypes
  <2>. QED  BY <1>0, <2>2, <2>3 DEF StreamTypes
<1>7. /\ Len(chs) \in Nat /\ DOMAIN chs = 1 .. Len(chs)
      /\ \A m \in DOMAIN chs : chs[m] \in Names /\ KindOf(chs[m]) = k
      /\ \A m, n \in DOMAIN chs : m # n => chs[m] # chs[n]
  BY <1>6, ChannelFacts
<1>. HIDE DEF chs
<1>8. ASSUME NEW c \in Clients, Open(c)' PROVE Open(c)
  BY <1>1, <1>8 DEF Open
<1>9. ASSUME NEW c \in Clients, Open(c)
      PROVE  conn'[c] \in Connections /\ InOrder(Line(c))' /\ AllPassed(Line(c))'
  <2>0. conn[c] \in Connections
    BY <1>0, <1>9 DEF ConnTypes
  <2>1. conn[c].queue \in Seq(Messages) /\ conn[c].sent \in Seq(Messages)
    BY <2>0 DEF Connections
  <2>2. InOrder(Line(c)) /\ AllPassed(Line(c))
    BY <1>9 DEF OrderInv, Lines
  <2>3. PICK a : a = conn[c].sent
    OBVIOUS
  <2>4. PICK q : q = conn[c].queue
    OBVIOUS
  <2>5. PICK r : r = Offered(conn[c], id, chs)
    OBVIOUS
  <2>6. Extends(r, q, id, chs, Len(chs)) /\ r \in Seq(Messages)
    <3>1. Extends(Offered(conn[c], id, chs), conn[c].queue, id, chs, Len(chs))
      <4>1. PICK x : x = conn[c]
        OBVIOUS
      <4>2. PICK n : n = id
        OBVIOUS
      <4>. HIDE DEF id
      <4>3. x.queue \in Seq(Messages) /\ n \in Nat
        BY <1>2, <2>1, <4>1, <4>2
      <4>4. Extends(Offered(x, n, chs), x.queue, n, chs, Len(chs))
        BY <1>7, <4>3, OfferedFacts
      <4>. QED  BY <4>1, <4>2, <4>4
    <3>. QED  BY <2>4, <2>5, <3>1 DEF Extends
  <2>7. conn'[c] = [conn[c] EXCEPT !.queue = r]
    BY <1>1, <1>9, <2>5
  <2>8. conn'[c].queue = r /\ conn'[c].sent = a /\ conn'[c] \in Connections
    BY <2>0, <2>3, <2>6, <2>7 DEF Connections
  <2>9. InOrder(a \o r) /\ AllPassed(a \o r)'
    <3>1. a \in Seq(Messages) /\ q \in Seq(Messages) /\ InOrder(a \o q) /\ AllPassed(a \o q)
      BY <2>1, <2>2, <2>3, <2>4 DEF Line
    <3>2. cursor' = cursor /\ (cursor # None => cursor \in Nat)
      BY <1>0, <1>1 DEF StreamTypes
    <3>3. \A m \in 1 .. Len(chs) : KindOf(chs[m]) = k
      BY <1>7
    <3>. QED  BY <1>0, <1>1, <1>7, <2>6, <3>1, <3>2, <3>3, LineGrows
  <2>. QED  BY <2>8, <2>9 DEF Line
<1>10. ConnTypes'
  BY <1>1, <1>8, <1>9 DEF ConnTypes
<1>. QED
  BY <1>3, <1>5, <1>8, <1>9, <1>10 DEF OrderInv, Lines

(* What changes neither the log, the consumer's place nor the bus, and        *)
(* changes one connection.                                                 *)
LEMMA OneLine ==
  ASSUME OrderInv, NEW c \in Clients, UNCHANGED <<log, cursor, bus>>,
         DOMAIN conn' = Clients, \A d \in Clients : d # c => conn'[d] = conn[d],
         Open(c)' => conn'[c] \in Connections /\ InOrder(Line(c)') /\ AllPassed(Line(c)')
  PROVE  OrderInv'
<1>1. BusTypes' /\ \A k \in Handled : Queued(k)'
  BY DEF OrderInv, BusTypes, Queued
<1>2. \A d \in Clients : d # c => (Open(d)' <=> Open(d)) /\ Line(d)' = Line(d)
  BY DEF Open, Line
<1>3. ConnTypes'
  BY <1>2 DEF OrderInv, ConnTypes
<1>4. \A s : AllPassed(s)' <=> AllPassed(s)
  BY DEF AllPassed, Passed
<1>5. ASSUME NEW d \in Clients, Open(d)' PROVE InOrder(Line(d))' /\ AllPassed(Line(d))'
  <2>1. PICK s : s = Line(d)'
    OBVIOUS
  <2>2. InOrder(s) /\ AllPassed(s)
    BY <1>2, <1>5, <2>1 DEF OrderInv, Lines
  <2>3. AllPassed(s)'
    BY <1>4, <2>2
  <2>. QED  BY <2>1, <2>2, <2>3
<1>. QED
  BY <1>1, <1>3, <1>5 DEF OrderInv, Lines

LEMMA SocketOrders ==
  ASSUME OrderInv, NEW c \in Clients,
         \/ \E t \in Tickets : OpenSocket(c, t)
         \/ Accept(c) \/ Receive(c) \/ SendOne(c) \/ Vanish(c) \/ HangUp(c)
  PROVE  OrderInv'
<1>0. ConnTypes /\ UNCHANGED <<log, cursor, bus>> /\ DOMAIN conn = Clients
  BY DEF OpenSocket, Accept, Receive, SendOne, Vanish, HangUp, streamVars, OrderInv, ConnTypes
<1>1. Open(c) => conn[c] \in Connections /\ InOrder(Line(c)) /\ AllPassed(Line(c))
  BY DEF OrderInv, ConnTypes, Lines
<1>2. ASSUME UNCHANGED conn PROVE OrderInv'
  BY <1>0, <1>1, <1>2, OneLine DEF Open, Line
<1>3. ASSUME NEW x, conn' = [conn EXCEPT ![c] = x], x = None \/ x.stage # "open" PROVE OrderInv'
  BY <1>0, <1>3, OneLine DEF Open
<1>4. ASSUME NEW x \in Connections, conn' = [conn EXCEPT ![c] = x],
             InOrder(x.sent \o x.queue), AllPassed(x.sent \o x.queue)
      PROVE  OrderInv'
  <2>1. conn'[c] = x /\ Line(c)' = x.sent \o x.queue
    BY <1>0, <1>4 DEF Line
  <2>. QED  BY <1>0, <1>4, <2>1, OneLine
<1>5. ASSUME NEW t \in Tickets, OpenSocket(c, t) PROVE OrderInv'
  BY <1>2, <1>3, <1>5 DEF OpenSocket
<1>6. ASSUME Accept(c) PROVE OrderInv'
  <2>. DEFINE x == [stage |-> "open", channels |-> {}, queue |-> <<>>,
                    sender |-> "running", gone |-> FALSE, sent |-> <<>>]
  <2>1. x \in Connections
    BY DEF Connections
  <2>2. x.sent \o x.queue = <<>>
    OBVIOUS
  <2>3. InOrder(<<>>) /\ AllPassed(<<>>)
    BY DEF InOrder, AllPassed
  <2>4. (conn' = [conn EXCEPT ![c] = x]) \/ (conn' = [conn EXCEPT ![c] = None])
    BY <1>6 DEF Accept
  <2>5. InOrder(x.sent \o x.queue) /\ AllPassed(x.sent \o x.queue)
    BY <2>2, <2>3
  <2>. HIDE DEF x
  <2>. QED  BY <1>3, <1>4, <2>1, <2>4, <2>5
<1>7. ASSUME Receive(c) PROVE OrderInv'
  <2>1. PICK chans \in Wanted : (conn' = [conn EXCEPT ![c].channels = @ \cup chans])
                                \/ (conn' = [conn EXCEPT ![c].channels = @ \ chans])
    BY <1>7 DEF Receive
  <2>2. PICK chs \in SUBSET UNION Wanted : conn' = [conn EXCEPT ![c].channels = chs]
    BY <1>1, <1>7, <2>1 DEF Receive, Connections
  <2>3. PICK x : x = [conn[c] EXCEPT !.channels = chs]
    OBVIOUS
  <2>4. x \in Connections /\ x.sent = conn[c].sent /\ x.queue = conn[c].queue
    BY <1>1, <1>7, <2>3 DEF Receive, Connections
  <2>5. conn' = [conn EXCEPT ![c] = x]
    BY <2>2, <2>3
  <2>. QED  BY <1>1, <1>4, <1>7, <2>4, <2>5 DEF Line, Receive
<1>8. ASSUME Vanish(c) PROVE OrderInv'
  <2>1. PICK x : x = [conn[c] EXCEPT !.gone = TRUE]
    OBVIOUS
  <2>2. x \in Connections /\ x.sent = conn[c].sent /\ x.queue = conn[c].queue
    BY <1>1, <1>8, <2>1 DEF Vanish, Connections
  <2>3. conn' = [conn EXCEPT ![c] = x]
    BY <1>8, <2>1 DEF Vanish
  <2>. QED  BY <1>1, <1>4, <1>8, <2>2, <2>3 DEF Line, Vanish
<1>9. ASSUME SendOne(c) PROVE OrderInv'
  <2>. DEFINE a == conn[c].sent
              q == conn[c].queue
              x == [conn[c] EXCEPT !.queue = Tail(q), !.sender = IF conn[c].gone THEN "dead" ELSE @,
                                   !.sent = IF conn[c].gone THEN a ELSE Append(a, Head(q))]
  <2>1. /\ a \in Seq(Messages) /\ q \in Seq(Messages) /\ q # <<>>
        /\ InOrder(a \o q) /\ AllPassed(a \o q) /\ conn[c] \in Connections
    BY <1>1, <1>9 DEF SendOne, Connections, Line
  <2>2. /\ Append(a, Head(q)) \o Tail(q) = a \o q
        /\ InOrder(a \o Tail(q)) /\ AllPassed(a \o Tail(q))
        /\ Append(a, Head(q)) \in Seq(Messages) /\ Tail(q) \in Seq(Messages)
    <3>. HIDE DEF a, q
    <3>. QED  BY <2>1, LineThins
  <2>3. /\ x \in Connections /\ x.queue = Tail(q)
        /\ x.sent = IF conn[c].gone THEN a ELSE Append(a, Head(q))
    <3>. HIDE DEF a, q
    <3>. QED  BY <2>1, <2>2 DEF Connections
  <2>4. conn' = [conn EXCEPT ![c] = x]
    BY <1>9 DEF SendOne
  <2>. HIDE DEF a, q, x
  <2>5. InOrder(x.sent \o x.queue) /\ AllPassed(x.sent \o x.queue)
    BY <2>1, <2>2, <2>3
  <2>. QED  BY <1>4, <2>3, <2>4, <2>5
<1>10. ASSUME HangUp(c) PROVE OrderInv'
  BY <1>3, <1>10 DEF HangUp
<1>. QED
  BY <1>5, <1>6, <1>7, <1>8, <1>9, <1>10
------------------------------------------------------------------------------
LEMMA LinesStay ==
  ASSUME OrderInv, UNCHANGED <<cursor, bus, conn>>
  PROVE  BusTypes' /\ ConnTypes' /\ Lines'
<1>1. BusTypes' /\ ConnTypes'
  BY DEF OrderInv, BusTypes, ConnTypes, Open
<1>2. \A s : AllPassed(s)' <=> AllPassed(s)
  BY DEF AllPassed, Passed
<1>3. ASSUME NEW c \in Clients, Open(c)' PROVE InOrder(Line(c))' /\ AllPassed(Line(c))'
  <2>1. PICK s : s = Line(c)
    OBVIOUS
  <2>2. Line(c)' = s /\ InOrder(s) /\ AllPassed(s)
    BY <1>3, <2>1 DEF Open, Line, OrderInv, Lines
  <2>3. AllPassed(s)'
    BY <1>2, <2>2
  <2>. QED  BY <2>2, <2>3
<1>. QED
  BY <1>1, <1>3 DEF Lines

LEMMA OrderStep == StreamInv /\ OrderInv /\ [RealtimeNext]_rtVars => OrderInv'
<1>. SUFFICES ASSUME StreamInv, OrderInv, [RealtimeNext]_rtVars
              PROVE  OrderInv'
  OBVIOUS
<1>1. ASSUME UNCHANGED <<log, cursor, bus, conn>> PROVE OrderInv'
  <2>1. \A k \in Handled : Queued(k)'
    BY <1>1 DEF OrderInv, Queued
  <2>. QED  BY <1>1, <2>1, LinesStay DEF OrderInv
<1>2. CASE Forward
  <2>1. PICK e \in Events : log' = Append(log, e)
    BY <1>2 DEF Forward
  <2>2. UNCHANGED <<cursor, bus, conn>>
    BY <1>2 DEF Forward, socketVars
  <2>3. \A i \in 1 .. Len(log) : log'[i] = log[i]
    BY <2>1, LogGrows DEF StreamInv
  <2>4. ASSUME NEW k \in Handled PROVE Queued(k)'
    <3>1. Queued(k) /\ (cursor # None => cursor \in 0 .. Len(log))
      BY DEF OrderInv, StreamInv, StreamTypes
    <3>2. \A n \in 1 .. Len(bus[k]) : bus[k][n] \in 1 .. Len(log)
      BY <3>1 DEF Queued
    <3>. QED  BY <2>2, <2>3, <3>1, <3>2 DEF Queued
  <2>5. BusTypes' /\ ConnTypes' /\ Lines'
    BY <2>2, LinesStay
  <2>. QED  BY <2>4, <2>5 DEF OrderInv
<1>3. CASE Read \/ ReadTimesOut \/ ConsumerCrashes
  BY <1>1, <1>3 DEF Read, ReadTimesOut, ConsumerCrashes, socketVars
<1>4. CASE Restart
  <2>1. bus' = EmptyBus /\ conn' = NoClients
    BY <1>4 DEF Restart
  <2>2. \A k \in Handled : bus'[k] = <<>>
    BY <2>1 DEF EmptyBus
  <2>3. BusTypes' /\ \A k \in Handled : Queued(k)'
    BY <2>1, <2>2 DEF EmptyBus, BusTypes, Queued, Ascending
  <2>4. \A c \in Clients : ~Open(c)'
    BY <2>1 DEF NoClients, Open
  <2>5. ConnTypes' /\ Lines'
    BY <2>1, <2>4 DEF NoClients, ConnTypes, Lines
  <2>. QED  BY <2>3, <2>5 DEF OrderInv
<1>5. CASE IssueTicket \/ TicketExpires
  BY <1>1, <1>5 DEF IssueTicket, TicketExpires, streamVars
<1>6. CASE UNCHANGED rtVars
  BY <1>1, <1>6 DEF rtVars, streamVars, socketVars
<1>. QED
  BY <1>2, <1>3, <1>4, <1>5, <1>6, ConsumeOrders, BroadcastOrders, SocketOrders DEF RealtimeNext

(* What a browser has been sent and is about to be sent on a channel follows     *)
(* the order of the stream without repetition, whatever crashes, drops or leaves. *)
THEOREM StreamKeepsOrder == RealtimeSpec => []StreamInOrder
<1>1. RealtimeInit => OrderInv
  <2>. SUFFICES ASSUME RealtimeInit PROVE OrderInv
    OBVIOUS
  <2>1. BusTypes /\ \A k \in Handled : Queued(k)
    BY DEF RealtimeInit, EmptyBus, BusTypes, Queued, Ascending
  <2>2. \A c \in Clients : ~Open(c)
    BY DEF RealtimeInit, NoClients, Open
  <2>. QED  BY <2>1, <2>2 DEF RealtimeInit, NoClients, OrderInv, ConnTypes, Lines
<1>2. OrderInv => StreamInOrder
  BY DEF OrderInv, Lines, StreamInOrder
<1>. QED
  BY <1>1, <1>2, StreamStart, StreamStep, OrderStep, PTL DEF RealtimeSpec
------------------------------------------------------------------------------
(***************************************************************************)
(* The WebSocket client, for any set of symbols, any queue bound and any   *)
(* interleaving of callers, reconnects, failed sends and stops: on a live   *)
(* link the far end holds what is wanted, once, but for what a send that    *)
(* raised or a call with a repetition named; and no message is handled      *)
(* twice or out of order.                                                  *)
(*                                                                         *)
(* The order is not inductive: a message is known to be new because         *)
(* those waiting come after those handled, and before those to come. So    *)
(* does a full queue that gives up its oldest message, and a crash that     *)
(* keeps the queue for the next link.                                      *)
(***************************************************************************)

ClientTypes ==
    /\ running \in BOOLEAN /\ transport \in BOOLEAN /\ link \in BOOLEAN
    /\ server \in [Symbols -> Nat] /\ wanted \in SUBSET Symbols
    /\ messages \in Seq(Nat) /\ handled \in Seq(Nat) /\ received \in Nat

(* What is known of the far end about one symbol. *)
Agrees(s) ==
    /\ s \notin unsure => (server[s] > 0 <=> s \in wanted)
    /\ s \notin unsure /\ s \notin twice => server[s] <= 1
Mirrored == transport /\ link => \A s \in Symbols : Agrees(s)

(* Handled messages come first, then the waiting ones, then those to come. *)
Lined ==
    /\ Ascending(handled) /\ Ascending(messages)
    /\ \A i \in 1 .. Len(handled) : handled[i] <= received
    /\ \A i \in 1 .. Len(messages) : messages[i] <= received
    /\ \A i \in 1 .. Len(handled), j \in 1 .. Len(messages) : handled[i] < messages[j]

ClientInv == ClientTypes /\ Mirrored /\ Lined

------------------------------------------------------------------------------
(* What a send that went out, or raised, leaves of the far end. *)
LEMMA SentTypes ==
    ASSUME ClientTypes, NEW symbols, NEW after \in [Symbols -> Nat], Sends(symbols, after)
    PROVE  server' \in [Symbols -> Nat]
<1>1. [s \in Symbols |-> IF s \in symbols THEN after[s] ELSE server[s]] \in [Symbols -> Nat]
  BY DEF ClientTypes
<1>2. QED
  BY <1>1 DEF Sends, ClientTypes

LEMMA SentElsewhere ==
    ASSUME NEW symbols, NEW after, Sends(symbols, after), NEW s \in Symbols, s \notin symbols
    PROVE  server'[s] = server[s] /\ (s \in unsure' <=> s \in unsure)
  BY DEF Sends

LEMMA SentHere ==
    ASSUME NEW symbols, NEW after, Sends(symbols, after), transport,
           NEW s \in Symbols, s \in symbols, s \notin unsure'
    PROVE  server'[s] = after[s] /\ s \notin unsure
  BY DEF Sends

(* No step of the client, its callers or the network leaves the types. *)
LEMMA TypesKept == ClientTypes /\ [ClientNext]_clientVars => ClientTypes'
<1> SUFFICES ASSUME ClientTypes, [ClientNext]_clientVars
             PROVE  ClientTypes'
  OBVIOUS
<1> USE DEF ClientTypes
<1>1. CASE Subscribe
  <2>1. PICK list \in [Symbols -> 0 .. MaxNamed] :
            /\ wanted' = wanted \cup New(list)
            /\ Sends(New(list), [s \in Symbols |-> More(server[s], list[s])])
    BY <1>1 DEF Subscribe
  <2>2. [s \in Symbols |-> More(server[s], list[s])] \in [Symbols -> Nat]
    BY ClientConstants DEF More
  <2>3. server' \in [Symbols -> Nat]
    BY <2>1, <2>2, SentTypes
  <2>4. wanted' \in SUBSET Symbols
    BY <2>1 DEF New, Named
  <2>5. QED
    BY <1>1, <2>3, <2>4 DEF Subscribe, clientState, mail
<1>2. CASE Unsubscribe
  <2>1. PICK symbols \in SUBSET wanted :
            wanted' = wanted \ symbols /\ Sends(symbols, [s \in Symbols |-> 0])
    BY <1>2 DEF Unsubscribe
  <2>2. [s \in Symbols |-> 0] \in [Symbols -> Nat]
    OBVIOUS
  <2>3. server' \in [Symbols -> Nat]
    BY <2>1, <2>2, SentTypes
  <2>4. QED
    BY <1>2, <2>1, <2>3 DEF Unsubscribe, clientState, mail
<1>3. CASE Run \/ Stop \/ Serve
  BY <1>3 DEF Run, Stop, Serve, mail, farEnd
<1>4. CASE ConnectFails \/ BackoffEnds \/ LinkDrops
  BY <1>4 DEF ConnectFails, BackoffEnds, LinkDrops, mail, farEnd
<1>5. CASE Connect \/ ResubscribeFails
  <2>1. [s \in Symbols |-> IF s \in wanted THEN 1 ELSE 0] \in [Symbols -> Nat]
    OBVIOUS
  <2>2. CASE Connect
    BY <2>1, <2>2 DEF Connect, mail
  <2>3. CASE ResubscribeFails
    <3>1. [s \in Symbols |-> IF s \in wanted THEN 0 ELSE server[s]] \in [Symbols -> Nat]
      OBVIOUS
    <3>2. QED
      BY <2>3, <3>1 DEF ResubscribeFails, mail
  <2>4. QED
    BY <1>5, <2>2, <2>3
<1>6. CASE ServingFails
  BY <1>6 DEF ServingFails, farEnd
<1>7. CASE ReceiveMessage
  <2>1. (IF Len(messages) = MaxQueue THEN Tail(messages) ELSE messages) \in Seq(Nat)
    BY ClientConstants, TailFacts
  <2>2. QED
    BY <1>7, <2>1, AppendFacts DEF ReceiveMessage, clientState, farEnd
<1>8. CASE TakeMessage
  BY <1>8, TailFacts, AppendFacts DEF TakeMessage, clientState, farEnd
<1>9. CASE HandlerEnds
  BY <1>9 DEF HandlerEnds, clientState, farEnd
<1>10. CASE UNCHANGED clientVars
  BY <1>10 DEF clientVars, clientState, mail, farEnd
<1>11. QED
  BY <1>1, <1>2, <1>3, <1>4, <1>5, <1>6, <1>7, <1>8, <1>9, <1>10 DEF ClientNext

(* A link comes up with the wanted symbols on it, and as long as it lives both  *)
(* sides are told of every change, but of those whose send raised.             *)
LEMMA MirrorKept == ClientTypes /\ Mirrored /\ [ClientNext]_clientVars => Mirrored'
<1> SUFFICES ASSUME ClientTypes, Mirrored, [ClientNext]_clientVars, transport', link',
                    NEW s \in Symbols
             PROVE  Agrees(s)'
  BY DEF Mirrored
<1> USE DEF ClientTypes
<1>1. CASE Subscribe
  <2>1. PICK list \in [Symbols -> 0 .. MaxNamed] :
            /\ wanted' = wanted \cup New(list)
            /\ twice' = twice \cup {x \in New(list) : list[x] > 1}
            /\ Sends(New(list), [x \in Symbols |-> More(server[x], list[x])])
    BY <1>1 DEF Subscribe
  <2>2. transport /\ link /\ Agrees(s)
    BY <1>1 DEF Subscribe, clientState, Mirrored
  <2>3. CASE s \notin New(list)
    <3>1. server'[s] = server[s] /\ (s \in unsure' <=> s \in unsure)
      BY <2>1, <2>2, <2>3, SentElsewhere
    <3>2. (s \in wanted' <=> s \in wanted) /\ (s \in twice' <=> s \in twice)
      BY <2>1, <2>3
    <3>3. QED
      BY <2>2, <3>1, <3>2 DEF Agrees
  <2>4. CASE s \in New(list) /\ s \in unsure'
    BY <2>4 DEF Agrees
  <2>5. CASE s \in New(list) /\ s \notin unsure'
    <3>1. server'[s] = More(server[s], list[s]) /\ s \notin unsure
      BY <2>1, <2>2, <2>5, SentHere
    <3>2. server[s] = 0 /\ list[s] \in Nat /\ list[s] > 0
      <4>1. s \notin wanted /\ list[s] > 0 /\ list[s] \in 0 .. MaxNamed
        BY <2>5 DEF New, Named
      <4>2. ~(server[s] > 0) /\ server[s] \in Nat
        BY <2>2, <3>1, <4>1 DEF Agrees
      <4>3. QED
        BY <4>1, <4>2, ClientConstants
    <3>3. server'[s] > 0 /\ (server'[s] <= 1 \/ list[s] > 1)
      BY <3>1, <3>2 DEF More
    <3>4. s \in wanted' /\ (list[s] > 1 => s \in twice')
      BY <2>1, <2>5
    <3>5. QED
      BY <3>3, <3>4 DEF Agrees
  <2>6. QED
    BY <2>3, <2>4, <2>5
<1>2. CASE Unsubscribe
  <2>1. PICK symbols \in SUBSET wanted :
            wanted' = wanted \ symbols /\ Sends(symbols, [x \in Symbols |-> 0])
    BY <1>2 DEF Unsubscribe
  <2>2. transport /\ link /\ Agrees(s) /\ twice' = twice
    BY <1>2 DEF Unsubscribe, clientState, Mirrored
  <2>3. CASE s \notin symbols
    <3>1. server'[s] = server[s] /\ (s \in unsure' <=> s \in unsure)
      BY <2>1, <2>2, <2>3, SentElsewhere
    <3>2. s \in wanted' <=> s \in wanted
      BY <2>1, <2>3
    <3>3. QED
      BY <2>2, <3>1, <3>2 DEF Agrees
  <2>4. CASE s \in symbols /\ s \in unsure'
    BY <2>4 DEF Agrees
  <2>5. CASE s \in symbols /\ s \notin unsure'
    <3>1. server'[s] = 0 /\ s \notin wanted'
      BY <2>1, <2>2, <2>5, SentHere
    <3>2. QED
      BY <3>1 DEF Agrees
  <2>6. QED
    BY <2>3, <2>4, <2>5
<1>3. CASE Connect
  BY <1>3 DEF Connect, Agrees
<1>4. CASE ResubscribeFails
  <2>1. /\ transport /\ link /\ wanted' = wanted /\ twice' = twice /\ unsure' = unsure \cup wanted
        /\ server' \in {server, [x \in Symbols |-> IF x \in wanted THEN 0 ELSE server[x]]}
    BY <1>4 DEF ResubscribeFails
  <2>2. s \notin wanted => server'[s] = server[s]
    BY <2>1
  <2>3. QED
    BY <2>1, <2>2 DEF Mirrored, Agrees
<1>5. CASE LinkDrops \/ ServingFails
  BY <1>5 DEF LinkDrops, ServingFails
<1>6. CASE Run \/ Stop \/ Serve \/ ConnectFails \/ BackoffEnds
  BY <1>6 DEF Run, Stop, Serve, ConnectFails, BackoffEnds, Mirrored, Agrees, farEnd
<1>7. CASE ReceiveMessage \/ TakeMessage \/ HandlerEnds
  BY <1>7 DEF ReceiveMessage, TakeMessage, HandlerEnds, clientState, Mirrored, Agrees, farEnd
<1>8. CASE UNCHANGED clientVars
  BY <1>8 DEF clientVars, clientState, Mirrored, Agrees, farEnd
<1>9. QED
  BY <1>1, <1>2, <1>3, <1>4, <1>5, <1>6, <1>7, <1>8 DEF ClientNext

(* Messages only enter at the end and leave at the front.                  *)
LEMMA LineKept == ClientTypes /\ Lined /\ [ClientNext]_clientVars => Lined'
<1> SUFFICES ASSUME ClientTypes, Lined, [ClientNext]_clientVars
             PROVE  Lined'
  OBVIOUS
<1> USE DEF ClientTypes
<1>1. CASE ReceiveMessage
  <2> DEFINE rest == IF Len(messages) = MaxQueue THEN Tail(messages) ELSE messages
  <2>1. /\ handled' = handled /\ received' = received + 1
        /\ messages' = Append(rest, received + 1)
    BY <1>1 DEF ReceiveMessage
  <2>2. /\ rest \in Seq(Nat) /\ Len(rest) \in Nat /\ Ascending(rest)
        /\ \A j \in 1 .. Len(rest) : \E k \in 1 .. Len(messages) : rest[j] = messages[k]
    <3>1. CASE Len(messages) = MaxQueue
      <4>1. messages # <<>>
        BY <3>1, ClientConstants
      <4>2. \A j \in 1 .. Len(Tail(messages)) : j + 1 \in 1 .. Len(messages)
        BY <4>1, TailFacts
      <4>3. QED
        BY <3>1, <4>1, <4>2, TailFacts, AscendingTail DEF Lined
    <3>2. CASE Len(messages) # MaxQueue
      BY <3>2 DEF Lined
    <3>3. QED
      BY <3>1, <3>2
  <2> HIDE DEF rest
  <2>3. \A j \in 1 .. Len(rest) : /\ rest[j] \in Nat /\ rest[j] <= received
                                  /\ \A i \in 1 .. Len(handled) : handled[i] < rest[j]
    <3>1. \A k \in 1 .. Len(messages) :
              /\ messages[k] \in Nat /\ messages[k] <= received
              /\ \A i \in 1 .. Len(handled) : handled[i] < messages[k]
      BY DEF Lined
    <3>2. QED
      BY <2>2, <3>1
  <2>4. Ascending(messages')
    <3>1. \A j \in 1 .. Len(rest) : rest[j] < received + 1
      BY <2>3
    <3>2. Ascending(Append(rest, received + 1))
      <4>1. received + 1 \in Nat
        OBVIOUS
      <4>2. QED
        BY <2>2, <3>1, <4>1, AscendingAppend
    <3>3. QED
      BY <2>1, <3>2
  <2>5. \A j \in 1 .. Len(messages') : messages'[j] = received + 1 \/ \E k \in 1 .. Len(rest) : messages'[j] = rest[k]
    <3>1. \A j \in 1 .. Len(rest) + 1 : j \in 1 .. Len(rest) \/ j = Len(rest) + 1
      BY <2>2
    <3>2. QED
      BY <2>1, <2>2, <3>1, AppendFacts
  <2>6. \A i \in 1 .. Len(handled) : handled[i] \in Nat /\ handled[i] <= received
    BY DEF Lined
  <2>7. Ascending(handled)
    BY DEF Lined
  <2>8. QED
    BY <2>1, <2>3, <2>4, <2>5, <2>6, <2>7 DEF Lined
<1>2. CASE TakeMessage
  <2>1. /\ messages # <<>> /\ messages' = Tail(messages) /\ received' = received
        /\ handled' = Append(handled, messages[1])
    BY <1>2, TailFacts DEF TakeMessage
  <2>2. messages[1] \in Nat /\ 1 \in 1 .. Len(messages) /\ messages[1] <= received
    BY <2>1, TailFacts DEF Lined
  <2>3. Ascending(handled')
    <3>1. \A i \in 1 .. Len(handled) : handled[i] < messages[1]
      BY <2>2 DEF Lined
    <3>2. QED
      BY <2>1, <2>2, <3>1, AscendingAppend DEF Lined
  <2>4. /\ Ascending(messages')
        /\ \A j \in 1 .. Len(messages') : messages[1] < messages'[j]
    BY <2>1, AscendingTail DEF Lined
  <2>5. \A j \in 1 .. Len(messages') : \E k \in 1 .. Len(messages) : messages'[j] = messages[k]
    <3>1. \A j \in 1 .. Len(messages') : j + 1 \in 1 .. Len(messages)
      BY <2>1, TailFacts
    <3>2. QED
      BY <2>1, <3>1, TailFacts
  <2>6. \A i \in 1 .. Len(handled') : handled'[i] = messages[1] \/ \E k \in 1 .. Len(handled) : handled'[i] = handled[k]
    <3>1. \A i \in 1 .. Len(handled) + 1 : i \in 1 .. Len(handled) \/ i = Len(handled) + 1
      OBVIOUS
    <3>2. QED
      BY <2>1, <2>2, <3>1, AppendFacts
  <2>7. QED
    BY SMTT(20), <2>1, <2>2, <2>3, <2>4, <2>5, <2>6 DEF Lined
<1>3. CASE UNCHANGED <<messages, handled, received>>
  BY <1>3 DEF Lined, Ascending
<1>4. CASE \/ Subscribe \/ Unsubscribe \/ Run \/ Stop
           \/ ConnectFails \/ Connect \/ ResubscribeFails \/ Serve \/ BackoffEnds
           \/ LinkDrops \/ ServingFails \/ HandlerEnds \/ UNCHANGED clientVars
  BY <1>3, <1>4 DEF Subscribe, Unsubscribe, Run, Stop, ConnectFails, Connect, ResubscribeFails,
                    Serve, BackoffEnds, LinkDrops, ServingFails, HandlerEnds, clientVars, mail
<1>5. QED
  BY <1>1, <1>2, <1>4 DEF ClientNext
------------------------------------------------------------------------------
(* The inductive invariant of the client. *)
LEMMA ClientInductive == ClientSpec => []ClientInv
<1>1. ClientInit => ClientInv
  <2> SUFFICES ASSUME ClientInit  PROVE ClientInv
    OBVIOUS
  <2>1. messages = <<>> /\ handled = <<>> /\ received = 0
    BY DEF ClientInit
  <2>2. Lined
    BY <2>1 DEF Lined, Ascending
  <2>3. ClientTypes
    <3>1. <<>> \in Seq(Nat) /\ {} \in SUBSET Symbols /\ [s \in Symbols |-> 0] \in [Symbols -> Nat]
      OBVIOUS
    <3>2. running \in BOOLEAN /\ transport \in BOOLEAN /\ link \in BOOLEAN
      BY DEF ClientInit
    <3>3. /\ server \in [Symbols -> Nat] /\ wanted \in SUBSET Symbols
          /\ messages \in Seq(Nat) /\ handled \in Seq(Nat) /\ received \in Nat
      BY <3>1, <2>1 DEF ClientInit
    <3>4. QED
      BY <3>2, <3>3 DEF ClientTypes
  <2>4. Mirrored
    BY DEF ClientInit, Mirrored
  <2>5. QED
    BY <2>2, <2>3, <2>4 DEF ClientInv
<1>2. ClientInv /\ [ClientNext]_clientVars => ClientInv'
  BY TypesKept, MirrorKept, LineKept DEF ClientInv
<1>3. QED
  BY <1>1, <1>2, PTL DEF ClientSpec

(* Through any sequence of reconnects, failed sends and stops, and calls at any  *)
(* moment, the far end of a live link holds what is wanted, once, but for the    *)
(* symbols of a send that raised on it or of a call that repeats them.          *)
THEOREM SubscriptionsSurvive == ClientSpec => []SubscriptionsAgree
<1>1. ClientInv => SubscriptionsAgree
  BY DEF ClientInv, Mirrored, Agrees, SubscriptionsAgree
<1>2. QED
  BY <1>1, ClientInductive, PTL

(* The messages of all links are handled in order, none of them twice.         *)
THEOREM MessagesInOrder == ClientSpec => []HandledInOrder
<1>1. ClientInv => HandledInOrder
  <2> SUFFICES ASSUME ClientInv, NEW i \in DOMAIN handled, NEW j \in DOMAIN handled, i < j
               PROVE  handled[i] < handled[j]
    BY DEF HandledInOrder
  <2>1. DOMAIN handled = 1 .. Len(handled)
    BY DEF ClientInv, ClientTypes
  <2>2. QED
    BY <2>1 DEF ClientInv, Lined, Ascending
<1>2. QED
  BY <1>1, ClientInductive, PTL
------------------------------------------------------------------------------
(***************************************************************************)
(* One usable refresh token per login, for any number of requests, logins,  *)
(* rotations, reuses and logouts, unless two refreshes of one token         *)
(* overlapped.                                                              *)
(*                                                                         *)
(* That a login has one active token is not inductive: a request that has   *)
(* read its token active adds a successor later, whatever became of the     *)
(* token. Chained says that nothing else of the login is active by then,    *)
(* and Alone that no other request will add a successor of its own.         *)
(***************************************************************************)

Row == [root : Nat, revoked : BOOLEAN]
Tokens == 1 .. Len(rows)
Rotating(q) == q \in Requests /\ tx[q].at = "rotate"

SessionTypes ==
    /\ rows \in Seq(Row) /\ \A i \in Tokens : rows[i].root \in Tokens
    /\ DOMAIN tx = Requests /\ \A q \in Requests : Rotating(q) => tx[q].token \in Tokens

(* Of a login without overlap: one active token, ...                       *)
Single ==
    \A i, j \in Live : rows[i].root = rows[j].root /\ rows[i].root \notin raced => i = j
(* ... none but the one that is being rotated, ...                         *)
Chained ==
    \A q \in Requests : \A j \in Live :
        Rotating(q) /\ rows[j].root = rows[tx[q].token].root /\ rows[j].root \notin raced
        => j = tx[q].token
(* ... and one request that rotates.                                       *)
Alone ==
    \A q, p \in Requests :
        /\ Rotating(q) /\ Rotating(p)
        /\ rows[tx[q].token].root = rows[tx[p].token].root
        /\ rows[tx[q].token].root \notin raced
        => q = p

SessionInv == SessionTypes /\ Single /\ Chained /\ Alone

LEMMA RowsFacts ==
    ASSUME SessionTypes
    PROVE  /\ DOMAIN rows = Tokens /\ Len(rows) \in Nat
           /\ \A i \in Tokens : rows[i] \in Row
           /\ \A i : i \in Live <=> i \in Tokens /\ ~rows[i].revoked
  BY DEF SessionTypes, Tokens, Live

(* A request of its own changes what it does next; the others stay. *)
LEMMA GoFacts ==
    ASSUME SessionTypes, NEW q \in Requests, NEW state, Go(q, state)
    PROVE  /\ DOMAIN tx' = Requests /\ tx'[q] = state
           /\ \A p \in Requests : p # q => tx'[p] = tx[p]
  BY DEF Go, SessionTypes

(* Revoking keeps every row's login and makes no row active. *)
LEMMA RevokedFacts ==
    ASSUME SessionTypes, NEW is
    PROVE  /\ Revoked(is) \in Seq(Row) /\ Len(Revoked(is)) = Len(rows)
           /\ \A i \in Tokens : /\ Revoked(is)[i].root = rows[i].root
                                /\ Revoked(is)[i].revoked = (rows[i].revoked \/ i \in is)
<1>1. DOMAIN rows = 1 .. Len(rows) /\ Len(rows) \in Nat /\ \A i \in 1 .. Len(rows) : rows[i] \in Row
  BY RowsFacts DEF Tokens
<1>2. ASSUME NEW row \in Row, NEW b \in BOOLEAN
      PROVE  /\ [row EXCEPT !.revoked = @ \/ b] \in Row
             /\ [row EXCEPT !.revoked = @ \/ b].root = row.root
             /\ [row EXCEPT !.revoked = @ \/ b].revoked = (row.revoked \/ b)
  BY DEF Row
<1> DEFINE f == [i \in 1 .. Len(rows) |-> [rows[i] EXCEPT !.revoked = @ \/ i \in is]]
<1>3. Revoked(is) = f
  BY <1>1 DEF Revoked
<1>4. \A i \in 1 .. Len(rows) : f[i] = [rows[i] EXCEPT !.revoked = @ \/ i \in is]
  OBVIOUS
<1>5. \A i \in 1 .. Len(rows) : /\ f[i] \in Row /\ f[i].root = rows[i].root
                                /\ f[i].revoked = (rows[i].revoked \/ i \in is)
  <2> SUFFICES ASSUME NEW i \in 1 .. Len(rows)
               PROVE  /\ f[i] \in Row /\ f[i].root = rows[i].root
                      /\ f[i].revoked = (rows[i].revoked \/ i \in is)
    OBVIOUS
  <2> DEFINE b == i \in is
  <2>1. b \in BOOLEAN /\ rows[i] \in Row
    BY <1>1
  <2>2. f[i] = [rows[i] EXCEPT !.revoked = @ \/ b]
    BY <1>4
  <2> HIDE DEF f
  <2>3. /\ [rows[i] EXCEPT !.revoked = @ \/ b] \in Row
        /\ [rows[i] EXCEPT !.revoked = @ \/ b].root = rows[i].root
        /\ [rows[i] EXCEPT !.revoked = @ \/ b].revoked = (rows[i].revoked \/ b)
    BY <1>2, <2>1
  <2>4. QED
    BY <2>2, <2>3
<1>6. f \in [1 .. Len(rows) -> Row]
  BY <1>5
<1> HIDE DEF f
<1>7. f \in Seq(Row) /\ Len(f) = Len(rows)
  BY <1>1, <1>6
<1>8. QED
  BY <1>3, <1>5, <1>7 DEF Tokens

(* A new row is active and comes last. *)
LEMMA AppendedFacts ==
    ASSUME NEW s \in Seq(Row), NEW r \in Row
    PROVE  /\ Append(s, r) \in Seq(Row) /\ Len(Append(s, r)) = Len(s) + 1
           /\ \A i \in 1 .. Len(s) : Append(s, r)[i] = s[i]
           /\ Append(s, r)[Len(s) + 1] = r
  OBVIOUS
------------------------------------------------------------------------------
(* A step that begins no rotation, adds no row and makes no row active.      *)
LEMMA QuietKeeps ==
    ASSUME SessionInv,
           rows' \in Seq(Row), Len(rows') = Len(rows), Live' \subseteq Live,
           \A i \in Tokens : rows'[i].root = rows[i].root,
           raced \subseteq raced', DOMAIN tx' = Requests,
           \A q \in Requests : tx'[q].at = "rotate" => tx'[q] = tx[q]
    PROVE  SessionInv'
<1>1. SessionTypes'
  BY DEF SessionInv, SessionTypes, Tokens, Rotating
<1>2. \A q \in Requests : Rotating(q)' => Rotating(q) /\ tx'[q] = tx[q] /\ tx[q].token \in Tokens
  BY DEF Rotating, SessionInv, SessionTypes
<1>3. Live \subseteq Tokens
  BY RowsFacts DEF SessionInv
<1>4. Single'
  BY <1>3 DEF SessionInv, Single
<1>5. Chained'
  BY <1>2, <1>3 DEF SessionInv, Chained
<1>6. Alone'
  BY <1>2 DEF SessionInv, Alone
<1>7. QED
  BY <1>1, <1>4, <1>5, <1>6 DEF SessionInv

LEMMA RefreshKeeps ==
    ASSUME SessionInv, NEW q \in Requests, NEW i \in DOMAIN rows, Refresh(q, i)
    PROVE  SessionInv'
<1>0. /\ rows' = rows /\ raced \subseteq raced' /\ Live' = Live /\ Tokens' = Tokens
      /\ SessionTypes /\ tx[q].at = "idle"
  BY DEF Refresh, Live, Tokens, SessionInv, At
<1>1. CASE i \notin Live
  <2>1. Go(q, [at |-> "sweep", seen |-> Live])
    BY <1>1 DEF Refresh
  <2>2. DOMAIN tx' = Requests /\ \A p \in Requests : tx'[p].at = "rotate" => tx'[p] = tx[p]
    BY <1>0, <2>1, GoFacts
  <2>3. QED
    BY <1>0, <2>2, QuietKeeps DEF SessionTypes
<1>2. CASE i \in Live
  <2>1. Go(q, [at |-> "rotate", token |-> i])
    BY <1>2 DEF Refresh
  <2>2. /\ DOMAIN tx' = Requests /\ tx'[q] = [at |-> "rotate", token |-> i]
        /\ \A p \in Requests : p # q => tx'[p] = tx[p]
    BY <1>0, <2>1, GoFacts
  <2>3. i \in Tokens
    BY <1>0, <1>2, RowsFacts
  <2>4. \A p \in Requests : Rotating(p)' => \/ p = q /\ tx'[p].token = i
                                            \/ p # q /\ Rotating(p) /\ tx'[p] = tx[p]
    BY <2>2 DEF Rotating
  <2>5. SessionTypes'
    BY <1>0, <2>2, <2>3, <2>4 DEF SessionTypes, Tokens, Rotating
  <2>6. Single'
    BY <1>0 DEF SessionInv, Single
  <2>7. Chained'
    BY <1>0, <1>2, <2>4 DEF SessionInv, Chained, Single
  <2>8. ASSUME NEW p \in Requests, p # q, Rotating(p), rows[tx[p].token].root = rows[i].root,
               rows[i].root \notin raced'
        PROVE  FALSE
    <3>1. i = tx[p].token
      BY <1>0, <1>2, <2>8 DEF SessionInv, Chained
    <3>2. rows[i].root \in raced'
      BY <2>8, <3>1 DEF Refresh, At, Rotating
    <3>3. QED
      BY <2>8, <3>2
  <2>9. Alone'
    <3> SUFFICES ASSUME NEW p \in Requests, NEW o \in Requests, Rotating(p)', Rotating(o)',
                        rows[tx'[p].token].root = rows[tx'[o].token].root,
                        rows[tx'[p].token].root \notin raced'
                 PROVE  p = o
      BY <1>0 DEF Alone
    <3>1. CASE p # q /\ o # q
      BY <3>1, <1>0, <2>4 DEF SessionInv, Alone
    <3>2. CASE p = q /\ o # q
      BY <3>2, <2>4, <2>8
    <3>3. CASE p # q /\ o = q
      BY <3>3, <2>4, <2>8
    <3>4. QED
      BY <3>1, <3>2, <3>3
  <2>10. QED
    BY <2>5, <2>6, <2>7, <2>9 DEF SessionInv
<1>3. QED
  BY <1>1, <1>2

(* A new row at the end keeps the invariant if its login, when it has no     *)
(* overlap, is left with no other active row and no request that rotates.    *)
LEMMA GrowKeeps ==
    ASSUME SessionInv, NEW n, n = Len(rows) + 1,
           rows' \in Seq(Row), Len(rows') = n, rows'[n].root \in 1 .. n,
           \A i \in Tokens : rows'[i].root = rows[i].root,
           \A i \in Live' : i = n \/ i \in Live,
           raced' = raced, DOMAIN tx' = Requests,
           \A p \in Requests : Rotating(p)' => Rotating(p) /\ tx'[p] = tx[p],
           rows'[n].root \notin raced =>
               /\ \A i \in Live' : i = n \/ rows[i].root # rows'[n].root
               /\ \A p \in Requests : Rotating(p)' => rows[tx[p].token].root # rows'[n].root
    PROVE  SessionInv'
<1>0. SessionTypes /\ Len(rows) \in Nat /\ Live \subseteq Tokens
  BY RowsFacts DEF SessionInv
<1>1. /\ n \notin Tokens /\ Tokens \subseteq Tokens'
      /\ \A i \in Tokens' : i \in Tokens \/ i = n
  BY <1>0 DEF Tokens
<1>2. \A p \in Requests : Rotating(p) => tx[p].token \in Tokens
  BY <1>0 DEF SessionTypes
<1>3. SessionTypes'
  <2>1. \A i \in Tokens : rows[i].root \in Tokens
    BY <1>0 DEF SessionTypes
  <2>2. \A i \in Tokens' : rows'[i].root \in Tokens'
    BY <1>1, <2>1 DEF Tokens
  <2>3. QED
    BY <1>1, <1>2, <2>2 DEF SessionTypes
<1>4. Single'
  <2> SUFFICES ASSUME NEW i \in Live', NEW j \in Live', rows'[i].root = rows'[j].root,
                      rows'[i].root \notin raced
               PROVE  i = j
    BY DEF Single
  <2>1. CASE i # n /\ j # n
    BY <2>1, <1>0 DEF SessionInv, Single
  <2>2. CASE i = n \/ j = n
    BY <2>2, <1>0
  <2>3. QED
    BY <2>1, <2>2
<1>5. Chained'
  <2> SUFFICES ASSUME NEW p \in Requests, NEW j \in Live', Rotating(p)',
                      rows'[j].root = rows'[tx'[p].token].root, rows'[j].root \notin raced
               PROVE  j = tx'[p].token
    BY DEF Chained
  <2>1. /\ Rotating(p) /\ tx'[p] = tx[p] /\ tx[p].token \in Tokens
        /\ rows'[tx'[p].token].root = rows[tx[p].token].root
    BY <1>2
  <2>2. CASE j # n
    BY <2>1, <2>2, <1>0 DEF SessionInv, Chained
  <2>3. CASE j = n
    BY <2>1, <2>3
  <2>4. QED
    BY <2>2, <2>3
<1>6. Alone'
  <2> SUFFICES ASSUME NEW p \in Requests, NEW o \in Requests, Rotating(p)', Rotating(o)',
                      rows'[tx'[p].token].root = rows'[tx'[o].token].root,
                      rows'[tx'[p].token].root \notin raced
               PROVE  p = o
    BY DEF Alone
  <2>1. /\ Rotating(p) /\ Rotating(o)
        /\ rows'[tx'[p].token].root = rows[tx[p].token].root
        /\ rows'[tx'[o].token].root = rows[tx[o].token].root
    BY <1>2
  <2>2. QED
    BY <2>1 DEF SessionInv, Alone
<1>7. QED
  BY <1>3, <1>4, <1>5, <1>6 DEF SessionInv

(* A login starts a chain of its own: no row and no request belongs to it.    *)
LEMMA IssueKeeps ==
    ASSUME SessionInv, NEW q \in Requests, Issue(q)
    PROVE  SessionInv'
<1> DEFINE n == Len(rows) + 1
           r == [root |-> n, revoked |-> FALSE]
<1>0. SessionTypes /\ rows \in Seq(Row) /\ Len(rows) \in Nat /\ r \in Row
  BY RowsFacts DEF SessionInv, SessionTypes, Row
<1>1. rows' = Append(rows, r) /\ raced' = raced /\ Go(q, Idle)
  BY DEF Issue
<1>2. /\ rows' \in Seq(Row) /\ Len(rows') = n /\ rows'[n].root = n /\ n \in 1 .. n
      /\ n \notin Tokens /\ \A i \in Tokens : rows'[i] = rows[i]
  BY <1>0, <1>1, AppendedFacts DEF Tokens
<1>3. \A i \in Live' : i \in Live \/ i = n
  BY <1>0, <1>2 DEF Live, Tokens
<1>4. /\ DOMAIN tx' = Requests
      /\ \A p \in Requests : Rotating(p)' => Rotating(p) /\ tx'[p] = tx[p]
  BY <1>0, <1>1, GoFacts DEF Idle, Rotating
<1>5. \A i \in Live : rows[i].root # n
  BY <1>0, <1>2, RowsFacts DEF SessionTypes
<1>6. \A p \in Requests : Rotating(p) => rows[tx[p].token].root # n
  BY <1>0, <1>2 DEF SessionTypes
<1>7. /\ \A i \in Live' : i = n \/ rows[i].root # rows'[n].root
      /\ \A p \in Requests : Rotating(p)' => rows[tx[p].token].root # rows'[n].root
  BY <1>2, <1>3, <1>4, <1>5, <1>6
<1>8. rows'[n].root \in 1 .. n /\ \A i \in Tokens : rows'[i].root = rows[i].root
  BY <1>2
<1> HIDE DEF n, r
<1>9. n = Len(rows) + 1
  BY DEF n
<1>10. \A i \in Live' : i = n \/ i \in Live
  BY <1>3
<1>11. QED
  BY <1>1, <1>2, <1>4, <1>7, <1>8, <1>9, <1>10, GrowKeeps

(* The successor takes the place of the token that was rotated.               *)
LEMMA RotateKeeps ==
    ASSUME SessionInv, NEW q \in Requests, Rotate(q)
    PROVE  SessionInv'
<1> DEFINE n == Len(rows) + 1
           t == tx[q].token
           s == Revoked({t})
           r == [root |-> rows[t].root, revoked |-> FALSE]
<1>0. SessionTypes /\ Len(rows) \in Nat /\ Rotating(q) /\ t \in Tokens
  BY RowsFacts DEF SessionInv, SessionTypes, Rotate, At, Rotating
<1>1. rows' = Append(s, r) /\ raced' = raced /\ Go(q, Idle)
  BY DEF Rotate
<1>2. /\ s \in Seq(Row) /\ Len(s) = Len(rows)
      /\ \A i \in Tokens : s[i].root = rows[i].root /\ s[i].revoked = (rows[i].revoked \/ i = t)
  BY <1>0, RevokedFacts
<1>3. r \in Row /\ r.root = rows[t].root /\ rows[t].root \in Tokens
  BY <1>0, RowsFacts DEF Row, SessionTypes
<1> HIDE DEF s, r
<1>4. /\ rows' \in Seq(Row) /\ Len(rows') = n /\ rows'[n] = r
      /\ \A i \in Tokens : rows'[i] = s[i]
      /\ n \notin Tokens /\ Tokens \subseteq 1 .. n /\ \A i \in 1 .. n : i \in Tokens \/ i = n
  BY <1>0, <1>1, <1>2, <1>3, AppendedFacts DEF Tokens
<1>5. \A i \in Live' : i = n \/ (i \in Live /\ i # t)
  <2>1. \A i \in Live' : i \in 1 .. n /\ ~rows'[i].revoked
    BY <1>4 DEF Live
  <2>2. QED
    BY <1>0, <1>2, <1>4, <2>1, RowsFacts
<1>6. /\ DOMAIN tx' = Requests
      /\ \A p \in Requests : Rotating(p)' => p # q /\ Rotating(p) /\ tx'[p] = tx[p]
  BY <1>0, <1>1, GoFacts DEF Idle, Rotating
<1>7. \A i \in Live : rows[i].root = rows[t].root /\ rows[t].root \notin raced => i = t
  BY <1>0 DEF SessionInv, Chained
<1>8. \A p \in Requests :
          p # q /\ Rotating(p) /\ rows[tx[p].token].root = rows[t].root => rows[t].root \in raced
  BY <1>0 DEF SessionInv, Alone
<1>9. rows'[n].root = rows[t].root /\ rows'[n].root \in 1 .. n
  BY <1>3, <1>4
<1>10. \A i \in Tokens : rows'[i].root = rows[i].root
  BY <1>2, <1>4
<1>11. ASSUME rows'[n].root \notin raced
       PROVE  /\ \A i \in Live' : i = n \/ rows[i].root # rows'[n].root
              /\ \A p \in Requests : Rotating(p)' => rows[tx[p].token].root # rows'[n].root
  BY <1>5, <1>6, <1>7, <1>8, <1>9, <1>11
<1>12. \A i \in Live' : i = n \/ i \in Live
  BY <1>5
<1>13. QED
  BY <1>1, <1>4, <1>6, <1>9, <1>10, <1>11, <1>12, GrowKeeps
------------------------------------------------------------------------------
LEMMA SessionsStep == SessionInv /\ [SessionsNext]_sessionVars => SessionInv'
<1> SUFFICES ASSUME SessionInv, [SessionsNext]_sessionVars
             PROVE  SessionInv'
  OBVIOUS
<1>0. SessionTypes /\ rows \in Seq(Row) /\ DOMAIN tx = Requests
  BY DEF SessionInv, SessionTypes
<1>1. ASSUME rows' = rows, raced' = raced, DOMAIN tx' = Requests,
             \A q \in Requests : tx'[q].at = "rotate" => tx'[q] = tx[q]
      PROVE  SessionInv'
  <2>1. Live' = Live
    BY <1>1 DEF Live
  <2>2. QED
    BY <1>0, <1>1, <2>1, QuietKeeps
<1>2. ASSUME NEW q \in Requests, NEW state, Go(q, state), state.at # "rotate"
      PROVE  DOMAIN tx' = Requests /\ \A p \in Requests : tx'[p].at = "rotate" => tx'[p] = tx[p]
  BY <1>0, <1>2, GoFacts
<1>3. ASSUME NEW q \in Requests,
             \/ BeginLogin(q) \/ Welcome(q) \/ Reject(q) \/ CountFailure(q) \/ SetLock(q) \/ LogoutAll(q)
             \/ \E i \in DOMAIN rows : Logout(q, i)
      PROVE  SessionInv'
  <2>1. rows' = rows /\ raced' = raced
    BY <1>3 DEF BeginLogin, Welcome, Reject, CountFailure, SetLock, LogoutAll, Logout, guardVars
  <2>2. \/ UNCHANGED tx
        \/ \E state : Go(q, state) /\ state.at # "rotate"
    <3>1. \A k : After(k).at # "rotate"
      BY DEF After, Idle
    <3>2. CASE BeginLogin(q) \/ Welcome(q) \/ Reject(q)
      BY <3>2 DEF BeginLogin, Welcome, Reject
    <3>3. CASE CountFailure(q)
      <4> DEFINE k == tx[q].key
      <4>1. \/ Go(q, [at |-> "lock", key |-> k]) \/ Go(q, After(k)) \/ Go(q, Idle)
        BY <3>3 DEF CountFailure
      <4>2. [at |-> "lock", key |-> k].at # "rotate" /\ Idle.at # "rotate"
        BY DEF Idle
      <4>3. QED
        BY <3>1, <4>1, <4>2
    <3>4. CASE SetLock(q)
      BY <3>1, <3>4 DEF SetLock, Idle
    <3>5. CASE LogoutAll(q) \/ \E i \in DOMAIN rows : Logout(q, i)
      <4>1. \/ Go(q, [at |-> "sweep", seen |-> Live])
            \/ \E i : Go(q, [at |-> "leave", token |-> i])
        BY <3>5 DEF LogoutAll, Logout
      <4>2. /\ [at |-> "sweep", seen |-> Live].at # "rotate"
            /\ \A i : [at |-> "leave", token |-> i].at # "rotate"
        OBVIOUS
      <4>3. QED
        BY <4>1, <4>2
    <3>6. QED
      BY <1>3, <3>2, <3>3, <3>4, <3>5
  <2>3. QED
    BY <1>0, <1>1, <1>2, <2>1, <2>2
<1>4. ASSUME NEW q \in Requests, Leave(q) \/ Sweep(q)
      PROVE  SessionInv'
  <2>1. PICK is : rows' = Revoked(is)
    BY <1>4 DEF Leave, Sweep
  <2>2. raced' = raced /\ Go(q, Idle)
    BY <1>4 DEF Leave, Sweep
  <2>3. Idle.at # "rotate"
    BY DEF Idle
  <2>4. rows' \in Seq(Row) /\ Len(rows') = Len(rows) /\ \A i \in Tokens : rows'[i].root = rows[i].root
    BY <1>0, <2>1, RevokedFacts
  <2>5. Live' \subseteq Live
    <3>1. \A i \in Live' : i \in Tokens /\ ~rows'[i].revoked
      BY <2>4 DEF Live, Tokens
    <3>2. QED
      BY <1>0, <2>1, <3>1, RevokedFacts, RowsFacts
  <2>6. QED
    BY <1>0, <1>2, <2>2, <2>3, <2>4, <2>5, QuietKeeps
<1>5. CASE (\E k \in Keys : LockExpires(k) \/ CounterExpires(k)) \/ WindowEnds
  BY <1>0, <1>1, <1>5 DEF LockExpires, CounterExpires, WindowEnds
<1>6. CASE UNCHANGED sessionVars
  BY <1>0, <1>1, <1>6 DEF sessionVars
<1>7. QED
  BY <1>3, <1>4, <1>5, <1>6, RefreshKeeps, IssueKeeps, RotateKeeps DEF SessionsNext

(* The inductive invariant of the refresh tokens. *)
LEMMA SessionsInductive == SessionsSpec => []SessionInv
<1>1. SessionsInit => SessionInv
  <2> SUFFICES ASSUME SessionsInit  PROVE SessionInv
    OBVIOUS
  <2>1. rows = <<>> /\ Live = {} /\ Tokens = {}
    BY DEF SessionsInit, Live, Tokens
  <2>2. DOMAIN tx = Requests /\ \A q \in Requests : ~Rotating(q)
    BY DEF SessionsInit, Idle, Rotating
  <2>3. QED
    BY <2>1, <2>2 DEF SessionInv, SessionTypes, Single, Chained, Alone
<1>2. QED
  BY <1>1, SessionsStep, PTL DEF SessionsSpec

(* Rotations, reuses and logouts in any order leave a login at most one usable  *)
(* refresh token, unless two refreshes of one token overlapped.             *)
THEOREM OneTokenPerLogin == SessionsSpec => []OneActivePerLogin
<1>1. SessionInv => OneActivePerLogin
  <2> SUFFICES ASSUME SessionInv, NEW r \in DOMAIN rows \ raced
               PROVE  Cardinality({i \in Live : rows[i].root = r}) <= 1
    BY DEF OneActivePerLogin
  <2> DEFINE S == {i \in Live : rows[i].root = r}
  <2>1. CASE S = {}
    <3>1. Cardinality(S) = 0
      BY <2>1, FS_EmptySet
    <3>2. QED
      BY <3>1
  <2>2. CASE S # {}
    <3>1. PICK x : S = {x}
      <4>1. PICK x \in S : TRUE
        BY <2>2
      <4>2. \A y \in S : y = x
        BY <4>1 DEF SessionInv, Single
      <4>3. QED
        BY <4>1, <4>2
    <3>2. Cardinality(S) = 1
      BY <3>1, FS_Singleton
    <3>3. QED
      BY <3>2
  <2>3. QED
    BY <2>1, <2>2
<1>2. QED
  BY <1>1, SessionsInductive, PTL
------------------------------------------------------------------------------
(***************************************************************************)
(* The lock-out of the login, for any number of requests and any limits: a  *)
(* failure that reaches the limit is counted one command before the lock is  *)
(* set, and LockHolds is inductive because it names the request between the *)
(* two; what is left are the types.                                         *)
(***************************************************************************)

GuardTypes ==
    /\ fails \in [Keys -> Nat] /\ lock \in [Keys -> BOOLEAN] /\ lapsed \in [Keys -> BOOLEAN]
    /\ glitches \in Nat
    /\ DOMAIN tx = Requests
    /\ \A q \in Requests : tx[q].at \in {"count", "lock"} => tx[q].key \in Keys

(* LockHolds for one key. *)
Locks(k) ==
    \/ fails[k] < Limit[k] \/ lapsed[k] \/ glitches > 0 \/ lock[k]
    \/ \E q \in Requests : tx[q].at = "lock" /\ tx[q].key = k

GuardInv == GuardTypes /\ \A k \in Keys : Locks(k)

(* A request that goes where no key is named, or with one of the keys.      *)
LEMMA GuardTypesKept ==
    ASSUME GuardTypes, NEW q \in Requests, NEW state, Go(q, state),
           state.at \in {"count", "lock"} => state.key \in Keys,
           fails' \in [Keys -> Nat], lock' \in [Keys -> BOOLEAN], lapsed' \in [Keys -> BOOLEAN],
           glitches' \in Nat
    PROVE  GuardTypes'
  BY DEF GuardTypes, Go

(* A step by which no request leaves the place before a lock, and that counts  *)
(* no failure and opens no lock.                                             *)
LEMMA GuardQuiet ==
    ASSUME GuardInv, GuardTypes',
           \A k \in Keys : fails'[k] <= fails[k] /\ (lock[k] => lock'[k]) /\ (lapsed[k] => lapsed'[k]),
           glitches' >= glitches,
           \A q \in Requests : tx[q].at = "lock" => tx'[q] = tx[q]
    PROVE  GuardInv'
<1>1. ASSUME NEW k \in Keys  PROVE Locks(k)'
  <2>1. /\ fails[k] \in Nat /\ fails'[k] \in Nat /\ Limit[k] \in Nat
        /\ glitches \in Nat /\ glitches' \in Nat /\ Locks(k)
    BY SessionsConstants DEF GuardInv, GuardTypes
  <2>. QED
    BY <2>1 DEF Locks
<1>. QED
  BY <1>1 DEF GuardInv

(* The places of a request and their keys. *)
LEMMA Places ==
    /\ Idle.at = "idle" /\ "acct" \in Keys /\ "ip" \in Keys
    /\ \A k : After(k).at \in {"count", "lock"} => After(k).key \in Keys
    /\ \A k : After(k).at # "lock"
  BY DEF Idle, After, Keys

LEMMA CountKeeps ==
    ASSUME GuardInv, NEW q \in Requests, CountFailure(q)
    PROVE  GuardInv'
<1>. DEFINE k == tx[q].key
<1>0. /\ GuardTypes /\ tx[q].at = "count" /\ k \in Keys /\ glitches \in Nat /\ lock' = lock
      /\ fails \in [Keys -> Nat] /\ fails[k] \in Nat /\ Limit[k] \in Nat \ {0}
  BY SessionsConstants DEF GuardInv, GuardTypes, CountFailure, At
<1>. HIDE DEF k
<1>1. \/ /\ fails' = [fails EXCEPT ![k] = @ + 1] /\ lapsed' = [lapsed EXCEPT ![k] = FALSE]
         /\ Go(q, IF Threshold(k, fails'[k]) THEN [at |-> "lock", key |-> k] ELSE After(k))
         /\ UNCHANGED glitches
      \/ /\ fails' = [fails EXCEPT ![k] = @ + 1] /\ lapsed' = [lapsed EXCEPT ![k] = FALSE]
         /\ Glitch /\ Go(q, Idle)
      \/ Glitch /\ Go(q, Idle) /\ UNCHANGED <<fails, lapsed>>
  BY DEF CountFailure, k
<1>2. CASE Glitch /\ Go(q, Idle)
  <2>1. glitches' = glitches + 1 /\ glitches' \in Nat
    BY <1>0, <1>2 DEF Glitch
  <2>4. fails' \in [Keys -> Nat] /\ lapsed' \in [Keys -> BOOLEAN] /\ lock' \in [Keys -> BOOLEAN]
    <3>1. /\ [fails EXCEPT ![k] = @ + 1] \in [Keys -> Nat]
          /\ [lapsed EXCEPT ![k] = FALSE] \in [Keys -> BOOLEAN]
      BY <1>0 DEF GuardTypes
    <3>2. /\ fails' = fails \/ fails' = [fails EXCEPT ![k] = @ + 1]
          /\ lapsed' = lapsed \/ lapsed' = [lapsed EXCEPT ![k] = FALSE]
      BY <1>1
    <3>. QED
      BY <1>0, <3>1, <3>2 DEF GuardTypes
  <2>2. GuardTypes'
    BY <1>0, <1>2, <2>1, <2>4, Places, GuardTypesKept
  <2>3. \A j \in Keys : Locks(j)'
    BY <1>0, <2>1 DEF Locks
  <2>. QED
    BY <2>2, <2>3 DEF GuardInv
<1>3. CASE /\ fails' = [fails EXCEPT ![k] = @ + 1] /\ lapsed' = [lapsed EXCEPT ![k] = FALSE]
           /\ Go(q, IF Threshold(k, fails'[k]) THEN [at |-> "lock", key |-> k] ELSE After(k))
           /\ UNCHANGED glitches
  <2>0. PICK state : state = IF Threshold(k, fails'[k]) THEN [at |-> "lock", key |-> k] ELSE After(k)
    OBVIOUS
  <2>1. /\ fails' \in [Keys -> Nat] /\ lapsed' \in [Keys -> BOOLEAN] /\ lock' \in [Keys -> BOOLEAN]
        /\ glitches' \in Nat /\ fails'[k] = fails[k] + 1
        /\ \A j \in Keys : j # k => fails'[j] = fails[j] /\ lapsed'[j] = lapsed[j]
    BY <1>0, <1>3 DEF GuardTypes
  <2>2. /\ Go(q, state)
        /\ state.at \in {"count", "lock"} => state.key \in Keys
        /\ fails'[k] >= Limit[k] => state.at = "lock" /\ state.key = k
    BY <1>0, <1>3, <2>0, <2>1, Places DEF Threshold
  <2>3. tx'[q] = state /\ \A p \in Requests : p # q => tx'[p] = tx[p]
    BY <1>0, <2>2 DEF Go, GuardTypes
  <2>4. GuardTypes'
    BY <1>0, <2>1, <2>2, GuardTypesKept
  <2>5. ASSUME NEW j \in Keys  PROVE Locks(j)'
    <3>1. CASE j = k
      BY <1>0, <2>1, <2>2, <2>3, <3>1 DEF Locks
    <3>2. CASE j # k
      <4>1. Locks(j) /\ fails'[j] = fails[j] /\ lapsed'[j] = lapsed[j]
        BY <2>1, <3>2 DEF GuardInv
      <4>2. \A p \in Requests : tx[p].at = "lock" => tx'[p] = tx[p]
        BY <1>0, <2>3
      <4>. QED
        BY <1>0, <1>3, <4>1, <4>2 DEF Locks
    <3>. QED
      BY <3>1, <3>2
  <2>. QED
    BY <2>4, <2>5 DEF GuardInv
<1>. QED
  BY <1>1, <1>2, <1>3

LEMMA SetLockKeeps ==
    ASSUME GuardInv, NEW q \in Requests, SetLock(q)
    PROVE  GuardInv'
<1>. DEFINE k == tx[q].key
<1>0. /\ GuardTypes /\ tx[q].at = "lock" /\ k \in Keys /\ glitches \in Nat
      /\ fails' = fails /\ lapsed' = lapsed
  BY DEF GuardInv, GuardTypes, SetLock, At
<1>. HIDE DEF k
<1>1. CASE lock' = [lock EXCEPT ![k] = TRUE] /\ Go(q, After(k)) /\ UNCHANGED glitches
  <2>1. lock' \in [Keys -> BOOLEAN] /\ lock'[k] = TRUE /\ \A j \in Keys : lock[j] => lock'[j]
    BY <1>0, <1>1 DEF GuardTypes
  <2>2. GuardTypes'
    BY <1>0, <1>1, <2>1, Places, GuardTypesKept DEF GuardTypes
  <2>3. ASSUME NEW j \in Keys  PROVE Locks(j)'
    <3>1. CASE j = k
      BY <2>1, <3>1 DEF Locks
    <3>2. CASE j # k
      <4>1. \A p \in Requests : tx[p].at = "lock" /\ tx[p].key = j => tx'[p] = tx[p]
        BY <1>0, <1>1, <3>2 DEF Go, GuardTypes, k
      <4>. QED
        BY <1>0, <1>1, <2>1, <4>1 DEF Locks, GuardInv
    <3>. QED
      BY <3>1, <3>2
  <2>. QED
    BY <2>2, <2>3 DEF GuardInv
<1>2. CASE Glitch /\ Go(q, Idle) /\ UNCHANGED lock
  <2>1. glitches' = glitches + 1
    BY <1>2 DEF Glitch
  <2>2. GuardTypes'
    BY <1>0, <1>2, <2>1, Places, GuardTypesKept DEF GuardTypes
  <2>. QED
    BY <1>0, <2>1, <2>2 DEF GuardInv, Locks
<1>. QED
  BY <1>1, <1>2 DEF SetLock, k

(* A right password opens the account's lock and forgets its failures. *)
LEMMA WelcomeKeeps ==
    ASSUME GuardInv, NEW q \in Requests, Welcome(q)
    PROVE  GuardInv'
<1>0. /\ GuardTypes /\ tx[q].at = "verify" /\ glitches \in Nat /\ lapsed' = lapsed
      /\ Go(q, [at |-> "issue"]) /\ Limit["acct"] \in Nat \ {0}
  BY Places, SessionsConstants DEF GuardInv, GuardTypes, Welcome, At
<1>1. CASE /\ fails' = [fails EXCEPT !["acct"] = 0] /\ lock' = [lock EXCEPT !["acct"] = FALSE]
           /\ UNCHANGED glitches
  <2>1. /\ fails' \in [Keys -> Nat] /\ lock' \in [Keys -> BOOLEAN] /\ fails'["acct"] = 0
        /\ \A j \in Keys : j # "acct" => fails'[j] = fails[j] /\ lock'[j] = lock[j]
    BY <1>0, <1>1, Places DEF GuardTypes
  <2>2. GuardTypes'
    BY <1>0, <1>1, <2>1, GuardTypesKept DEF GuardTypes
  <2>3. \A p \in Requests : tx[p].at = "lock" => tx'[p] = tx[p]
    BY <1>0 DEF Go, GuardTypes
  <2>4. ASSUME NEW j \in Keys  PROVE Locks(j)'
    <3>1. CASE j = "acct"
      BY <1>0, <2>1, <3>1 DEF Locks
    <3>2. CASE j # "acct"
      BY <1>0, <1>1, <2>1, <2>3, <3>2 DEF Locks, GuardInv
    <3>. QED
      BY <3>1, <3>2
  <2>. QED
    BY <2>2, <2>4 DEF GuardInv
<1>2. CASE Glitch /\ UNCHANGED <<fails, lock>>
  <2>1. glitches' = glitches + 1
    BY <1>2 DEF Glitch
  <2>2. GuardTypes'
    BY <1>0, <1>2, <2>1, GuardTypesKept DEF GuardTypes
  <2>. QED
    BY <1>0, <2>1, <2>2 DEF GuardInv, Locks
<1>. QED
  BY <1>1, <1>2 DEF Welcome

(* Keys that run out: a counter begins anew, a lock leaves its mark. *)
LEMMA ExpiryKeeps ==
    ASSUME GuardInv, NEW k \in Keys, LockExpires(k) \/ CounterExpires(k)
    PROVE  GuardInv'
<1>0. GuardTypes /\ tx' = tx /\ glitches' = glitches /\ Limit[k] \in Nat \ {0}
  BY SessionsConstants DEF GuardInv, LockExpires, CounterExpires
<1>1. CASE LockExpires(k)
  <2>1. GuardTypes' /\ fails' = fails
    BY <1>0, <1>1 DEF LockExpires, GuardTypes
  <2>2. lapsed'[k] = TRUE /\ \A j \in Keys : j # k => lapsed'[j] = lapsed[j] /\ lock'[j] = lock[j]
    BY <1>0, <1>1 DEF LockExpires, GuardTypes
  <2>3. \A j \in Keys : Locks(j)'
    BY <1>0, <2>1, <2>2 DEF GuardInv, Locks
  <2>. QED
    BY <2>1, <2>3 DEF GuardInv
<1>2. CASE CounterExpires(k)
  <2>1. GuardTypes' /\ UNCHANGED <<lock, lapsed>>
    BY <1>0, <1>2 DEF CounterExpires, GuardTypes
  <2>2. fails'[k] = 0 /\ \A j \in Keys : j # k => fails'[j] = fails[j]
    BY <1>0, <1>2 DEF CounterExpires, GuardTypes
  <2>3. \A j \in Keys : Locks(j)'
    BY <1>0, <2>1, <2>2 DEF GuardInv, Locks
  <2>. QED
    BY <2>1, <2>3 DEF GuardInv
<1>. QED
  BY <1>1, <1>2
------------------------------------------------------------------------------
LEMMA GuardStep == GuardInv /\ [SessionsNext]_sessionVars => GuardInv'
<1>. SUFFICES ASSUME GuardInv, [SessionsNext]_sessionVars
              PROVE  GuardInv'
  OBVIOUS
<1>0. GuardTypes /\ glitches \in Nat /\ \A k \in Keys : fails[k] \in Nat
  BY DEF GuardInv, GuardTypes
(* The other steps leave counters and locks alone. *)
<1>1. ASSUME UNCHANGED <<fails, lock, lapsed>>, glitches' \in Nat, glitches' >= glitches,
             \/ UNCHANGED tx
             \/ \E q \in Requests : \E state :
                    /\ Go(q, state) /\ tx[q].at # "lock"
                    /\ state.at \in {"count", "lock"} => state.key \in Keys
      PROVE  GuardInv'
  <2>0. fails' \in [Keys -> Nat] /\ lock' \in [Keys -> BOOLEAN] /\ lapsed' \in [Keys -> BOOLEAN]
    BY <1>0, <1>1 DEF GuardTypes
  <2>1. GuardTypes' /\ \A p \in Requests : tx[p].at = "lock" => tx'[p] = tx[p]
    <3>1. CASE UNCHANGED tx
      BY <1>0, <1>1, <2>0, <3>1 DEF GuardTypes
    <3>2. ASSUME NEW q \in Requests, NEW state, Go(q, state), tx[q].at # "lock",
                 state.at \in {"count", "lock"} => state.key \in Keys
          PROVE  GuardTypes' /\ \A p \in Requests : tx[p].at = "lock" => tx'[p] = tx[p]
      <4>1. GuardTypes'
        BY <1>0, <1>1, <2>0, <3>2, GuardTypesKept
      <4>. QED
        BY <1>0, <3>2, <4>1 DEF Go, GuardTypes
    <3>. QED
      BY <1>1, <3>1, <3>2
  <2>3. \A k \in Keys : fails'[k] <= fails[k] /\ (lock[k] => lock'[k]) /\ (lapsed[k] => lapsed'[k])
    BY <1>0, <1>1
  <2>. QED
    BY <1>1, <2>1, <2>3, GuardQuiet
<1>2. ASSUME NEW q \in Requests, BeginLogin(q)  PROVE GuardInv'
  <2>1. UNCHANGED <<fails, lock, lapsed>> /\ tx[q].at # "lock"
    BY <1>2 DEF BeginLogin, At
  <2>2. glitches' = glitches \/ glitches' = glitches + 1
    BY <1>2 DEF BeginLogin, Glitch
  <2>3. UNCHANGED tx \/ Go(q, [at |-> "verify"])
    BY <1>2 DEF BeginLogin
  <2>. QED
    BY <1>0, <1>1, <2>1, <2>2, <2>3
<1>3. ASSUME NEW q \in Requests,
             \/ Issue(q) \/ Rotate(q) \/ Leave(q) \/ Sweep(q) \/ Reject(q) \/ LogoutAll(q)
             \/ \E i \in DOMAIN rows : Refresh(q, i) \/ Logout(q, i)
      PROVE  GuardInv'
  <2>. USE DEF Issue, Rotate, Leave, Sweep, Reject, LogoutAll, Refresh, Logout
  <2>1. UNCHANGED guardVars /\ tx[q].at # "lock"
    BY <1>3 DEF At
  <2>2. \E state : Go(q, state) /\ (state.at \in {"count", "lock"} => state.key \in Keys)
    <3>1. CASE Issue(q) \/ Rotate(q) \/ Leave(q) \/ Sweep(q)
      BY <3>1, Places
    <3>2. CASE Reject(q)
      BY <3>2, Places
    <3>3. CASE LogoutAll(q) \/ \E i \in DOMAIN rows : Refresh(q, i) \/ Logout(q, i)
      <4>1. \/ \E t : Go(q, [at |-> "rotate", token |-> t]) \/ Go(q, [at |-> "leave", token |-> t])
            \/ Go(q, [at |-> "sweep", seen |-> Live])
        BY <3>3
      <4>2. \A t : [at |-> "rotate", token |-> t].at = "rotate" /\ [at |-> "leave", token |-> t].at = "leave"
        OBVIOUS
      <4>3. [at |-> "sweep", seen |-> Live].at = "sweep"
        OBVIOUS
      <4>. QED
        BY <4>1, <4>2, <4>3
    <3>. QED
      BY <1>3, <3>1, <3>2, <3>3
  <2>. QED
    BY <1>0, <1>1, <2>1, <2>2 DEF guardVars
<1>4. CASE WindowEnds \/ UNCHANGED sessionVars
  BY <1>0, <1>1, <1>4 DEF WindowEnds, sessionVars, guardVars
<1>. QED
  BY <1>2, <1>3, <1>4, WelcomeKeeps, CountKeeps, SetLockKeeps, ExpiryKeeps DEF SessionsNext

(* While Redis answers, no interleaving of logins leaves an account or an       *)
(* address at its limit without a lock or a request that is about to set it.   *)
THEOREM LockedOut == SessionsSpec => []LockHolds
<1>1. SessionsInit => GuardInv
  BY SessionsConstants DEF SessionsInit, Idle, GuardInv, GuardTypes, Locks
<1>2. GuardInv => LockHolds
  BY DEF GuardInv, LockHolds, Locks, At
<1>. QED
  BY <1>1, <1>2, GuardStep, PTL DEF SessionsSpec
------------------------------------------------------------------------------
(***************************************************************************)
(* The reports' scheduler, for any number of writers, any lengths of a day   *)
(* and a week and any trades: a tick of a day leaves yesterday's report or a *)
(* later one stored, and no period has two reports.                        *)
(*                                                                         *)
(* A tick looks, generates and commits at three moments. What it has         *)
(* promised in between (Promise) is that its daily report, if one was due,  *)
(* is of its own yesterday or later, as the clock only runs on; and if none *)
(* was due, that one is stored already. A stored report may be replaced, by *)
(* one of the same period only.                                            *)
(***************************************************************************)

ReportKinds == {"daily", "weekly"}
DayStart(d) == Bounds("daily", d)[1]
IsFrom(r, d) == r.kind = "daily" /\ r.start >= DayStart(d - 1)
Covered(d) == \E r \in reports : IsFrom(r, d)

(* Reports of which no two are of one period, with a bound on their starts   *)
(* so that there is a latest one.                                          *)
Proper(set) ==
    /\ \A r \in set : r.kind \in ReportKinds /\ r.start \in Nat
    /\ \A r, s \in set : Same(r, s) => r = s
    /\ \E last \in Nat : \A r \in set : r.start <= last

Promise(j) ==
    \/ j.at = "idle"
    \/ /\ j.at = "due" /\ j.day \in Nat /\ j.day <= Today /\ j.due \subseteq ReportKinds
       /\ \A kind \in j.due : (IF kind = "daily" THEN Today ELSE ThisWeek) >= 1
       /\ j.day > 0 => "daily" \in j.due \/ Covered(j.day)
    \/ /\ j.at = "made" /\ j.day \in Int /\ Proper(j.made)
       /\ j.day > 0 => (\E r \in j.made : IsFrom(r, j.day)) \/ Covered(j.day)

ReportInv ==
    /\ now \in Nat /\ Proper(reports) /\ DOMAIN job = Writers
    /\ \A w \in Writers : Promise(job[w])
    /\ \A d \in ticked : d \in Int /\ (d > 0 => Covered(d))

LEMMA Division ==
    ASSUME NEW m \in Nat, NEW n \in Nat, m <= n, NEW d \in Nat \ {0}
    PROVE  m \div d \in Nat /\ n \div d \in Nat /\ m \div d <= n \div d
<1>. DEFINE p == m \div d
            q == n \div d
<1>1. p \in Nat /\ q \in Nat
  OBVIOUS
<1>2. d * p <= m /\ n < d * (q + 1)
  OBVIOUS
<1>. HIDE DEF p, q
<1>3. ASSUME q < p  PROVE FALSE
  <2>1. q + 1 <= p
    BY <1>1, <1>3
  <2>2. d * (q + 1) <= d * p
    BY <1>1, <2>1
  <2>. QED
    BY <1>1, <1>2, <2>2
<1>4. p <= q
  BY <1>1, <1>3
<1>. QED
  BY <1>1, <1>4 DEF p, q

(* The periods by the clock. *)
LEMMA Periods ==
    ASSUME now \in Nat
    PROVE  /\ Today \in Nat /\ ThisWeek \in Nat
           /\ \A d \in Int : DayStart(d) = d * DayLength /\ DayStart(d) \in Int
           /\ \A c, d \in Int : c <= d => DayStart(c) <= DayStart(d)
           /\ \A kind \in ReportKinds, n \in Nat : Bounds(kind, n)[1] \in Nat
<1>1. Today \in Nat
  BY ReportConstants, Division DEF Today
<1>2. ThisWeek \in Nat
  BY <1>1, ReportConstants, Division DEF ThisWeek
<1>3. ASSUME NEW d \in Int  PROVE DayStart(d) = d * DayLength /\ DayStart(d) \in Int
  BY ReportConstants DEF DayStart, Bounds
<1>4. ASSUME NEW c \in Int, NEW d \in Int, c <= d  PROVE DayStart(c) <= DayStart(d)
  BY <1>3, <1>4, TimesKeeps, ReportConstants
<1>5. ASSUME NEW kind \in ReportKinds, NEW n \in Nat  PROVE Bounds(kind, n)[1] \in Nat
  <2>1. DayLength * WeekLength \in Nat /\ DayLength \in Nat
    BY ReportConstants
  <2>2. \A m \in Nat : n * m \in Nat
    OBVIOUS
  <2>. QED
    BY <2>1, <2>2 DEF Bounds
<1>. QED
  BY <1>1, <1>2, <1>3, <1>4, <1>5

(* latest() is the start of a stored report, or -1. *)
LEMMA LatestFacts ==
    ASSUME Proper(reports), NEW kind \in ReportKinds
    PROVE  /\ LatestStart(kind) \in Int
           /\ \/ LatestStart(kind) = -1
              \/ \E r \in reports : r.kind = kind /\ r.start = LatestStart(kind)
           /\ \A r \in reports : r.kind = kind => LatestStart(kind) >= r.start
<1>. DEFINE S == {r.start : r \in {x \in reports : x.kind = kind}} \cup {-1}
<1>1. LatestStart(kind) = Max(S)
  BY DEF LatestStart
<1>2. PICK last \in Nat : \A r \in reports : r.start <= last
  BY DEF Proper
<1>3. S \in SUBSET Int /\ S # {} /\ last \in Int /\ \A x \in S : x <= last
  BY <1>2 DEF Proper
<1>4. \A x \in S : x = -1 \/ \E r \in reports : r.kind = kind /\ r.start = x
  OBVIOUS
<1>5. \A r \in reports : r.kind = kind => r.start \in S
  OBVIOUS
<1>. HIDE DEF S
<1>6. Max(S) \in S /\ \A x \in S : Max(S) >= x
  BY <1>3, MaxAttained
<1>. QED
  BY <1>1, <1>3, <1>4, <1>5, <1>6

(* A day on which nothing daily is due is covered. *)
LEMMA NothingDue ==
    ASSUME now \in Nat, Proper(reports), "daily" \notin Due, Today > 0
    PROVE  Covered(Today)
<1>1. Today - 1 \in Nat /\ DayStart(Today - 1) \in Nat
  BY Periods DEF DayStart, ReportKinds
<1>2. LatestStart("daily") >= DayStart(Today - 1)
  <2>1. ~(LatestStart("daily") < DayStart(Today - 1))
    BY <1>1, Periods DEF Due, DayStart
  <2>. QED
    BY <1>1, <2>1, LatestFacts DEF ReportKinds
<1>3. PICK r \in reports : r.kind = "daily" /\ r.start = LatestStart("daily")
  BY <1>1, <1>2, LatestFacts DEF ReportKinds
<1>. QED
  BY <1>2, <1>3 DEF Covered, IsFrom

LEMMA ReportFacts ==
    ASSUME NEW kind, NEW n
    PROVE  Report(kind, n).kind = kind /\ Report(kind, n).start = Bounds(kind, n)[1]
  BY DEF Report

(* One report per kind, of any periods, makes a proper set. *)
LEMMA MadeProper ==
    ASSUME now \in Nat, NEW kinds \in SUBSET ReportKinds, NEW n \in [kinds -> Nat]
    PROVE  Proper({Report(kind, n[kind]) : kind \in kinds})
<1>. DEFINE made == {Report(kind, n[kind]) : kind \in kinds}
<1>1. \A r \in made : \E kind \in kinds : r = Report(kind, n[kind]) /\ r.kind = kind
  BY ReportFacts
<1>2. \A kind \in kinds : Bounds(kind, n[kind])[1] \in Nat
  BY Periods
<1>3. \A r \in made : r.kind \in ReportKinds /\ r.start \in Nat
  BY <1>2, ReportFacts
<1>4. \A r, s \in made : Same(r, s) => r = s
  BY <1>1 DEF Same
<1>5. \E last \in Nat : \A r \in made : r.start <= last
  <2>. DEFINE f(kind) == IF kind \in kinds THEN Bounds(kind, n[kind])[1] ELSE 0
              last == f("daily") + f("weekly")
  <2>1. f("daily") \in Nat /\ f("weekly") \in Nat
    BY <1>2
  <2>2. \A kind \in kinds : f(kind) <= last
    BY <2>1 DEF ReportKinds
  <2>3. \A r \in made : \E kind \in kinds : r.start = f(kind)
    BY ReportFacts
  <2>. QED
    BY SMTT(20), <2>1, <2>2, <2>3
<1>. QED
  BY <1>3, <1>4, <1>5 DEF Proper
------------------------------------------------------------------------------
(* The clock runs on: promises were made for earlier days. *)
LEMMA TickKeeps ==
    ASSUME ReportInv, Tick
    PROVE  ReportInv'
<1>1. now \in Nat /\ now' = now + 1 /\ UNCHANGED <<reports, job, ticked>>
  BY DEF ReportInv, Tick
<1>2. Today \in Nat /\ ThisWeek \in Nat /\ Today <= Today' /\ ThisWeek <= ThisWeek'
      /\ Today' \in Nat /\ ThisWeek' \in Nat
  <2>1. now' \in Nat /\ Today \in Nat /\ Today' \in Nat /\ Today <= Today'
    BY <1>1, ReportConstants, Division DEF Today
  <2>2. ThisWeek \in Nat /\ ThisWeek' \in Nat
    BY <2>1, ReportConstants, Division DEF ThisWeek
  <2>. QED
    BY <2>1, <2>2, ReportConstants, Division DEF ThisWeek
<1>. QED
  BY <1>1, <1>2 DEF ReportInv, Promise, Covered, IsFrom, DayStart, Bounds, Proper, Same

(* What a writer does next, while the stored reports stay. *)
LEMMA JobKeeps ==
    ASSUME ReportInv, NEW w \in Writers, NEW state, Set(w, state), Promise(state),
           UNCHANGED <<now, reports, ticked>>
    PROVE  ReportInv'
<1>1. /\ DOMAIN job' = Writers /\ job'[w] = state
      /\ \A v \in Writers : v # w => job'[v] = job[v]
  BY DEF Set, ReportInv
<1>2. \A j : Promise(j) => Promise(j)'
  BY DEF Promise, Covered, IsFrom, DayStart, Bounds, Proper, Same, Today, ThisWeek
<1>3. Proper(reports)' /\ \A d : Covered(d) => Covered(d)'
  BY DEF ReportInv, Proper, Same, Covered, IsFrom, DayStart, Bounds
<1>. QED
  BY <1>1, <1>2, <1>3 DEF ReportInv

LEMMA LookKeeps ==
    ASSUME ReportInv, NEW w \in Writers, Look(w)
    PROVE  ReportInv'
<1>0. now \in Nat /\ Proper(reports) /\ Today \in Nat /\ UNCHANGED <<now, reports>>
  BY Periods DEF ReportInv, Look
<1>1. CASE Due = {}
  <2>1. ticked' = ticked \cup {Today} /\ UNCHANGED job
    BY <1>1 DEF Look
  <2>2. Today > 0 => Covered(Today)
    BY <1>0, <1>1, NothingDue
  <2>3. \A d : Covered(d)' = Covered(d)
    BY <1>0 DEF Covered, IsFrom, DayStart, Bounds
  <2>4. \A j : Promise(j)' = Promise(j)
    BY <1>0 DEF Promise, Covered, IsFrom, DayStart, Bounds, Proper, Same, Today, ThisWeek
  <2>5. Proper(reports)'
    BY <1>0 DEF Proper, Same
  <2>. QED
    BY <1>0, <2>1, <2>2, <2>3, <2>4, <2>5 DEF ReportInv
<1>2. CASE Due # {}
  <2>. DEFINE state == [at |-> "due", due |-> Due, day |-> Today]
  <2>1. Set(w, state) /\ UNCHANGED ticked
    BY <1>2 DEF Look
  <2>2. Due \subseteq ReportKinds
    BY DEF Due, ReportKinds
  <2>3. \A kind \in Due : (IF kind = "daily" THEN Today ELSE ThisWeek) >= 1
    BY <1>0, Periods DEF Due
  <2>4. Today > 0 => "daily" \in Due \/ Covered(Today)
    BY <1>0, NothingDue
  <2>5. Promise(state)
    BY <1>0, <2>2, <2>3, <2>4 DEF Promise
  <2>. QED
    BY <1>0, <2>1, <2>5, JobKeeps
<1>. QED
  BY <1>1, <1>2

LEMMA GenerateKeeps ==
    ASSUME ReportInv, NEW w \in Writers, Generate(w)
    PROVE  ReportInv'
<1>. DEFINE j == job[w]
            m(kind) == (IF kind = "daily" THEN Today ELSE ThisWeek) - 1
            n == [kind \in j.due |-> m(kind)]
            made == {Report(kind, n[kind]) : kind \in j.due}
<1>1. /\ now \in Nat /\ Today \in Nat /\ ThisWeek \in Nat /\ UNCHANGED <<now, reports, ticked>>
      /\ j.at = "due" /\ Promise(j)
  BY Periods DEF ReportInv, Generate
<1>2. /\ j.day \in Nat /\ j.day <= Today /\ j.due \subseteq ReportKinds
      /\ \A kind \in j.due : m(kind) \in Nat
      /\ j.day > 0 => "daily" \in j.due \/ Covered(j.day)
  BY <1>1 DEF Promise
<1>3. \E found : Set(w, [at |-> "made", day |-> j.day, made |-> made, found |-> found])
  <2>1. made = {Report(kind, m(kind)) : kind \in j.due}
    OBVIOUS
  <2>. QED
    BY <2>1 DEF Generate
<1>4. Proper(made)
  <2>1. n \in [j.due -> Nat] /\ j.due \in SUBSET ReportKinds
    BY <1>2
  <2>. HIDE DEF n, j
  <2>. QED
    BY <1>1, <2>1, MadeProper
<1>5. ASSUME j.day > 0, "daily" \in j.due  PROVE \E r \in made : IsFrom(r, j.day)
  <2>1. n["daily"] = Today - 1
    BY <1>5
  <2>2. /\ Report("daily", n["daily"]) \in made
        /\ Report("daily", n["daily"]).kind = "daily"
        /\ Report("daily", n["daily"]).start = DayStart(Today - 1)
    BY <1>5, <2>1, ReportFacts DEF DayStart
  <2>3. DayStart(j.day - 1) <= DayStart(Today - 1) /\ DayStart(j.day - 1) \in Int /\ DayStart(Today - 1) \in Int
    <3>1. j.day - 1 \in Int /\ Today - 1 \in Int /\ j.day - 1 <= Today - 1
      BY <1>1, <1>2
    <3>. QED
      BY <1>1, <3>1, Periods
  <2>. QED
    BY <2>2, <2>3 DEF IsFrom
<1>. HIDE DEF made, n, j
<1>6. PICK found : Set(w, [at |-> "made", day |-> j.day, made |-> made, found |-> found])
  BY <1>3
<1>7. Promise([at |-> "made", day |-> j.day, made |-> made, found |-> found])
  BY <1>2, <1>4, <1>5 DEF Promise
<1>. QED
  BY <1>1, <1>6, <1>7, JobKeeps

LEMMA RequestKeeps ==
    ASSUME ReportInv, NEW w \in Writers, Request(w)
    PROVE  ReportInv'
<1>1. now \in Nat /\ Today \in Nat /\ ThisWeek \in Nat /\ UNCHANGED <<now, reports, ticked>>
  BY Periods DEF ReportInv, Request
<1>2. PICK kind \in ReportKinds : \E n \in Nat : \E found :
        Set(w, [at |-> "made", day |-> -1, made |-> {Report(kind, n)}, found |-> found])
  BY <1>1 DEF Request, ReportKinds
<1>6. PICK n \in Nat : \E found :
        Set(w, [at |-> "made", day |-> -1, made |-> {Report(kind, n)}, found |-> found])
  BY <1>2
<1>3. PICK found : Set(w, [at |-> "made", day |-> -1, made |-> {Report(kind, n)}, found |-> found])
  BY <1>6
<1>4. Proper({Report(kind, n)})
  <2>. DEFINE kinds == {kind}
              f == [k \in kinds |-> n]
  <2>1. kinds \in SUBSET ReportKinds /\ f \in [kinds -> Nat]
    BY <1>2
  <2>2. {Report(k, f[k]) : k \in kinds} = {Report(kind, n)}
    OBVIOUS
  <2>. HIDE DEF kinds, f
  <2>. QED
    BY <1>1, <2>1, <2>2, MadeProper
<1>5. Promise([at |-> "made", day |-> -1, made |-> {Report(kind, n)}, found |-> found])
  BY <1>4 DEF Promise
<1>. QED
  BY <1>1, <1>3, <1>5, JobKeeps

(* A commit replaces reports by those of the same periods. *)
LEMMA CommitReportsKeeps ==
    ASSUME ReportInv, NEW w \in Writers, CommitReports(w)
    PROVE  ReportInv'
<1>. DEFINE made == job[w].made
            kept == {s \in reports : \A r \in made : ~Same(r, s)}
<1>1. /\ now' = now /\ Set(w, NoJob) /\ job[w].at = "made" /\ Promise(job[w]) /\ Proper(reports)
      /\ now \in Nat
  BY DEF CommitReports, ReportInv
<1>0. PICK day : day = job[w].day
  OBVIOUS
<1>2. Proper(made) /\ day \in Int
      /\ (day > 0 => (\E r \in made : IsFrom(r, day)) \/ Covered(day))
  BY <1>0, <1>1 DEF Promise
<1>3. CASE UNCHANGED <<reports, ticked>>
  BY <1>1, <1>3, JobKeeps DEF Promise, NoJob
<1>4. CASE reports' = kept \cup made /\ ticked' = ticked \cup {day}
  <2>1. /\ DOMAIN job' = Writers /\ job'[w] = NoJob
        /\ \A v \in Writers : v # w => job'[v] = job[v]
    BY <1>1 DEF Set, ReportInv
  <2>2. \A r \in reports : r \in reports' \/ \E s \in made : Same(s, r)
    BY <1>4
  <2>3. ASSUME NEW d, Covered(d)  PROVE Covered(d)'
    <3>1. PICK r \in reports : IsFrom(r, d)
      BY <2>3 DEF Covered
    <3>2. \E s \in reports' : s.kind = r.kind /\ s.start = r.start
      BY <1>4, <2>2 DEF Same
    <3>. QED
      BY <3>1, <3>2 DEF Covered, IsFrom, DayStart, Bounds
  <2>4. Proper(reports)'
    <3>1. \A r \in reports' : r.kind \in ReportKinds /\ r.start \in Nat
      BY <1>1, <1>2, <1>4 DEF Proper
    <3>2. \A r, s \in reports' : Same(r, s) => r = s
      BY <1>1, <1>2, <1>4 DEF Proper, Same
    <3>3. PICK x \in Nat, y \in Nat : (\A r \in reports : r.start <= x) /\ \A r \in made : r.start <= y
      BY <1>1, <1>2 DEF Proper
    <3>4. x + y \in Nat /\ \A r \in reports' : r.start <= x + y
      BY <1>4, <3>1, <3>3
    <3>. QED
      BY <3>1, <3>2, <3>4 DEF Proper, Same
  <2>5. day > 0 => Covered(day)'
    <3>1. CASE Covered(day)
      BY <2>3, <3>1
    <3>2. CASE \E r \in made : IsFrom(r, day)
      BY <1>4, <3>2 DEF Covered, IsFrom, DayStart, Bounds
    <3>. QED
      BY <1>2, <3>1, <3>2
  <2>6. \A j : Promise(j) => Promise(j)'
    BY <1>1, <2>3 DEF Promise, IsFrom, DayStart, Bounds, Proper, Same, Today, ThisWeek
  <2>7. Promise(NoJob)'
    BY DEF Promise, NoJob
  <2>. HIDE DEF made, kept
  <2>8. \A d \in ticked' : d \in Int /\ (d > 0 => Covered(d)')
    BY <1>2, <1>4, <2>3, <2>5 DEF ReportInv
  <2>. QED
    BY <1>1, <2>1, <2>4, <2>6, <2>7, <2>8 DEF ReportInv
<1>. QED
  BY <1>0, <1>3, <1>4 DEF CommitReports
------------------------------------------------------------------------------
LEMMA ReportStep == ReportInv /\ [ReportsNext]_reportVars => ReportInv'
<1>. SUFFICES ASSUME ReportInv, [ReportsNext]_reportVars
              PROVE  ReportInv'
  OBVIOUS
<1>1. ASSUME UNCHANGED <<now, reports, job, ticked>>  PROVE ReportInv'
  BY <1>1 DEF ReportInv, Promise, Covered, IsFrom, DayStart, Bounds, Proper, Same, Today, ThisWeek
<1>2. CASE Close \/ CloseCommits \/ UNCHANGED reportVars
  BY <1>1, <1>2 DEF Close, CloseCommits, reportVars
<1>. QED
  BY <1>2, TickKeeps, LookKeeps, GenerateKeeps, RequestKeeps, CommitReportsKeeps DEF ReportsNext

(* Whatever two schedulers and on-demand reports do around midnight, a tick of  *)
(* a day leaves yesterday's report or a later one, and no period has two.      *)
THEOREM TicksLeaveReports == ReportsSpec => []TickLeavesReport
<1>1. ReportsInit => ReportInv
  BY DEF ReportsInit, ReportInv, Proper, Promise, NoJob
<1>2. ReportInv => TickLeavesReport
  <2>. SUFFICES ASSUME ReportInv  PROVE TickLeavesReport
    OBVIOUS
  <2>0. now \in Nat /\ Proper(reports)
    BY DEF ReportInv
  <2>1. ASSUME NEW d \in ticked, d > 0  PROVE LatestStart("daily") >= DayStart(d - 1)
    <3>1. d \in Int /\ Covered(d)
      BY <2>1 DEF ReportInv
    <3>2. PICK r \in reports : r.kind = "daily" /\ r.start >= DayStart(d - 1)
      BY <3>1 DEF Covered, IsFrom
    <3>3. d - 1 \in Int /\ DayStart(d - 1) \in Int
      BY <2>0, <3>1, Periods
    <3>4. LatestStart("daily") \in Int /\ LatestStart("daily") >= r.start /\ r.start \in Nat
      BY <2>0, <3>2, LatestFacts DEF ReportKinds, Proper
    <3>. QED
      BY <3>2, <3>3, <3>4
  <2>. QED
    BY <2>0, <2>1 DEF TickLeavesReport, DayStart, Proper
<1>. QED
  BY <1>1, <1>2, ReportStep, PTL DEF ReportsSpec
------------------------------------------------------------------------------
(***************************************************************************)
(* The reports' figures add up, for any writers, strategies, trades and     *)
(* lengths of a day and a week.                                            *)
(*                                                                         *)
(* Every figure is the sum of one point per trade (Point), so that it may be *)
(* added up in any partition of the trades. A report, also one not yet       *)
(* committed, is Right: it sums up the points of the trades of its period    *)
(* among the journal's entries it saw, and its strategies' figures add up.  *)
(* The journal only grows, so it remains right. A week's daily reports, if   *)
(* there are as many as days, are one of each day: their trades partition    *)
(* those of the week.                                                      *)
(***************************************************************************)
Point(f, pnl) ==
    CASE f = "total" -> 1
      [] f = "wins" -> IF pnl > 0 THEN 1 ELSE 0
      [] f = "losses" -> IF pnl < 0 THEN 1 ELSE 0
      [] f = "breakeven" -> IF pnl = 0 THEN 1 ELSE 0
      [] f = "profit" -> IF pnl > 0 THEN pnl ELSE 0
      [] f = "loss" -> IF pnl < 0 THEN -pnl ELSE 0
      [] f = "net" -> pnl
Points(f) == [i \in DOMAIN journal |-> Point(f, journal[i].pnl)]
Seen(r) == {i \in 1 .. r.asOf : r.start <= journal[i].exit /\ journal[i].exit < r.end}

Closings == [exit : Nat, pnl : Int, strategy : Strategies]
Entries == Range(Past) \cup Closings
JournalType == journal \in Seq(Entries) /\ closing \subseteq Closings

AllStrategies(r, f) == SumUp([s \in DOMAIN r.by |-> r.by[s][f]], DOMAIN r.by)
Right(r) ==
    /\ r.asOf \in 0 .. Len(journal)
    /\ \E n \in Nat : r.start = Bounds(r.kind, n)[1] /\ r.end = Bounds(r.kind, n)[2]
    /\ \A f \in Figures : r.metrics[f] = SumUp(Points(f), Seen(r)) /\ AllStrategies(r, f) = r.metrics[f]
SumInv ==
    /\ JournalType
    /\ \A r \in reports : Right(r)
    /\ \A w \in Writers : job[w].at = "made" => \A r \in job[w].made : Right(r)

LEMMA JournalFacts ==
    ASSUME JournalType
    PROVE  /\ Len(journal) \in Nat /\ DOMAIN journal = 1 .. Len(journal)
           /\ IsFiniteSet(DOMAIN journal)
           /\ \A i \in DOMAIN journal : journal[i].exit \in Nat /\ journal[i].pnl \in Int
<1>1. \A t \in Entries : t.exit \in Nat /\ t.pnl \in Int
  BY ReportTrades DEF Entries, Closings
<1>2. Len(journal) \in Nat /\ DOMAIN journal = 1 .. Len(journal)
      /\ \A i \in DOMAIN journal : journal[i] \in Entries
  BY DEF JournalType
<1>3. IsFiniteSet(DOMAIN journal)
  <2>. DEFINE n == Len(journal)
  <2>. HIDE DEF n
  <2>1. n \in Int => IsFiniteSet(1 .. n)
    BY FS_Interval
  <2>. QED  BY <1>2, <2>1 DEF n
<1>. QED  BY <1>1, <1>2, <1>3

LEMMA PointFacts ==
    ASSUME NEW p \in Int
    PROVE  /\ Point("total", p) = 1
           /\ Point("wins", p) = IF p > 0 THEN 1 ELSE 0
           /\ Point("losses", p) = IF p < 0 THEN 1 ELSE 0
           /\ Point("breakeven", p) = IF p = 0 THEN 1 ELSE 0
           /\ Point("profit", p) = IF p > 0 THEN p ELSE 0
           /\ Point("loss", p) = IF p < 0 THEN -p ELSE 0
           /\ Point("net", p) = p
           /\ \A f \in Figures : Point(f, p) \in Int
  BY DEF Point, Figures

(* Sums of points over some of the trades. *)
LEMMA PointsType ==
    ASSUME JournalType, NEW trades \in SUBSET DOMAIN journal, NEW f \in Figures
    PROVE  /\ IsFiniteSet(trades)
           /\ \A i \in trades : Points(f)[i] = Point(f, journal[i].pnl) /\ Points(f)[i] \in Int
           /\ SumUp(Points(f), trades) \in Int
<1>1. IsFiniteSet(trades)
  BY JournalFacts, FS_Subset
<1>2. \A i \in trades : Points(f)[i] = Point(f, journal[i].pnl) /\ Points(f)[i] \in Int
  BY JournalFacts, PointFacts DEF Points
<1>. DEFINE v == Points(f)
<1>. HIDE DEF v
<1>3. (\A i \in trades : v[i] \in Int) => SumUp(v, trades) \in Int
  BY <1>1, SumUpFacts
<1>. QED  BY <1>1, <1>2, <1>3 DEF v

(* The sum of the trades' results is the sum of their points. *)
LEMMA PnlFacts ==
    ASSUME JournalType, NEW trades \in SUBSET DOMAIN journal
    PROVE  SumPnl(trades) = SumUp(Points("net"), trades) /\ SumPnl(trades) \in Int
<1>. DEFINE v == [i \in trades |-> journal[i].pnl]
            w == Points("net")
<1>1. IsFiniteSet(trades) /\ \A i \in trades : v[i] \in Int /\ w[i] = v[i]
  <2>1. "net" \in Figures
    BY DEF Figures
  <2>2. \A i \in trades : v[i] \in Int /\ w[i] = Point("net", v[i])
    BY <2>1, JournalFacts, PointsType
  <2>3. IsFiniteSet(trades)
    BY <2>1, PointsType
  <2>. HIDE DEF v, w
  <2>. QED  BY <2>2, <2>3, PointFacts
<1>2. SumPnl(trades) = SumUp(v, trades)
  BY SumOfFunction DEF SumPnl
<1>. HIDE DEF v, w
<1>3. SumUp(w, trades) = SumUp(v, trades) /\ SumUp(v, trades) \in Int
  BY <1>1, SumUpSame, SumUpFacts
<1>. QED  BY <1>2, <1>3 DEF w

(* What counts for some of the trades only. *)
LEMMA PointsWithin ==
    ASSUME JournalType, NEW trades \in SUBSET DOMAIN journal, NEW part \in SUBSET trades,
           NEW f \in Figures, NEW g \in Figures,
           \A i \in part : Point(f, journal[i].pnl) = Point(g, journal[i].pnl),
           \A i \in trades \ part : Point(f, journal[i].pnl) = 0
    PROVE  SumUp(Points(f), trades) = SumUp(Points(g), part)
<1>. DEFINE v == Points(f)
            w == Points(g)
<1>1. /\ IsFiniteSet(trades) /\ \A i \in trades : v[i] \in Int
      /\ \A i \in part : w[i] = v[i]
      /\ \A i \in trades \ part : v[i] = 0
  BY PointsType
<1>. HIDE DEF v, w
<1>2. SumUp(v, trades) = SumUp(w, part)
  BY <1>1, SumUpWithin
<1>. QED  BY <1>2 DEF v, w

LEMMA PointsCount ==
    ASSUME JournalType, NEW trades \in SUBSET DOMAIN journal
    PROVE  SumUp(Points("total"), trades) = Cardinality(trades) /\ Cardinality(trades) \in Nat
<1>. DEFINE v == Points("total")
<1>1. IsFiniteSet(trades) /\ \A i \in trades : v[i] = 1
  <2>1. "total" \in Figures
    BY DEF Figures
  <2>. QED  BY <2>1, PointsType, PointFacts, JournalFacts
<1>. HIDE DEF v
<1>2. SumUp(v, trades) = Cardinality(trades)
  BY <1>1, SumOfOnes
<1>. QED  BY <1>1, <1>2, FS_CardinalityType DEF v

(* Points that are the sum of other points. *)
LEMMA PointsPlus ==
    ASSUME JournalType, NEW trades \in SUBSET DOMAIN journal,
           NEW f \in Figures, NEW g \in Figures, NEW h \in [trades -> Int],
           \A i \in trades : Point(f, journal[i].pnl) = Point(g, journal[i].pnl) + h[i]
    PROVE  /\ SumUp(Points(f), trades) = SumUp(Points(g), trades) + SumUp(h, trades)
           /\ SumUp(h, trades) \in Int
<1>. DEFINE v == Points(f)
            w == Points(g)
<1>1. /\ IsFiniteSet(trades) /\ \A i \in trades : v[i] = w[i] + h[i] /\ w[i] \in Int /\ h[i] \in Int
  BY PointsType
<1>. HIDE DEF v, w
<1>2. SumUp(v, trades) = SumUp(w, trades) + SumUp(h, trades) /\ SumUp(h, trades) \in Int
  BY <1>1, SumUpPlus, SumUpFacts
<1>. QED  BY <1>2 DEF v, w

(* Every figure of a set of trades is the sum of their points. *)
LEMMA FigureFacts ==
    ASSUME JournalType, NEW trades \in SUBSET DOMAIN journal, NEW f \in Figures
    PROVE  Metrics(trades)[f] = SumUp(Points(f), trades)
<1>. DEFINE wins == Winners(trades)
            losses == Losers(trades)
<1>1. /\ wins \in SUBSET trades /\ losses \in SUBSET trades
      /\ wins \in SUBSET DOMAIN journal /\ losses \in SUBSET DOMAIN journal
      /\ \A i \in trades : i \in wins <=> journal[i].pnl > 0
      /\ \A i \in trades : i \in losses <=> journal[i].pnl < 0
  BY DEF Winners, Losers
<1>2. {"total", "wins", "losses", "breakeven", "profit", "loss", "net"} \subseteq Figures
  BY DEF Figures
<1>3. \A i \in trades : journal[i].pnl \in Int
  BY JournalFacts
<1>. HIDE DEF wins, losses
<1>4. SumUp(Points("total"), trades) = Cardinality(trades) /\ Cardinality(trades) \in Nat
  BY PointsCount
<1>5. SumUp(Points("wins"), trades) = Cardinality(wins) /\ Cardinality(wins) \in Nat
  <2>1. SumUp(Points("wins"), trades) = SumUp(Points("total"), wins)
    BY <1>1, <1>2, <1>3, PointFacts, PointsWithin
  <2>. QED  BY <1>1, <2>1, PointsCount
<1>6. SumUp(Points("losses"), trades) = Cardinality(losses) /\ Cardinality(losses) \in Nat
  <2>1. SumUp(Points("losses"), trades) = SumUp(Points("total"), losses)
    BY <1>1, <1>2, <1>3, PointFacts, PointsWithin
  <2>. QED  BY <1>1, <2>1, PointsCount
<1>7. SumUp(Points("breakeven"), trades) = Cardinality(trades) - Cardinality(wins) - Cardinality(losses)
  <2>. DEFINE h == [i \in trades |-> Point("losses", journal[i].pnl) + Point("breakeven", journal[i].pnl)]
              k == [i \in trades |-> Point("breakeven", journal[i].pnl)]
  <2>1. h \in [trades -> Int] /\ k \in [trades -> Int]
    BY <1>2, <1>3, PointFacts
  <2>2. ASSUME NEW i \in trades
        PROVE  /\ Point("total", journal[i].pnl) = Point("wins", journal[i].pnl) + h[i]
               /\ h[i] = Points("losses")[i] + k[i] /\ k[i] = Points("breakeven")[i]
    <3>1. /\ Points("losses")[i] = Point("losses", journal[i].pnl)
          /\ Points("breakeven")[i] = Point("breakeven", journal[i].pnl)
      BY <1>2, PointsType
    <3>2. journal[i].pnl \in Int
      BY <1>3
    <3>. QED  BY <3>1, <3>2, PointFacts
  <2>3. \A i \in trades : Points("losses")[i] \in Int
    BY <1>2, PointsType
  <2>4. IsFiniteSet(trades)
    BY <1>2, PointsType
  <2>. HIDE DEF h, k
  <2>5. /\ SumUp(Points("total"), trades) = SumUp(Points("wins"), trades) + SumUp(h, trades)
        /\ SumUp(h, trades) \in Int
    BY <1>2, <2>1, <2>2, PointsPlus
  <2>. DEFINE v == Points("losses")
              b == Points("breakeven")
  <2>6. \A i \in trades : v[i] \in Int /\ k[i] \in Int /\ h[i] = v[i] + k[i] /\ b[i] = k[i]
    BY <2>1, <2>2, <2>3
  <2>. HIDE DEF v, b
  <2>7. SumUp(h, trades) = SumUp(v, trades) + SumUp(k, trades)
    BY <2>4, <2>6, SumUpPlus
  <2>8. SumUp(b, trades) = SumUp(k, trades) /\ SumUp(k, trades) \in Int
    BY <2>4, <2>6, SumUpSame, SumUpFacts
  <2>. QED  BY <1>4, <1>5, <1>6, <2>5, <2>7, <2>8 DEF v, b
<1>8. SumUp(Points("profit"), trades) = SumPnl(wins)
  <2>1. SumUp(Points("profit"), trades) = SumUp(Points("net"), wins)
    BY <1>1, <1>2, <1>3, PointFacts, PointsWithin
  <2>. QED  BY <1>1, <2>1, PnlFacts
<1>9. SumUp(Points("loss"), trades) = -SumPnl(losses)
  <2>1. SumUp(Points("loss"), trades) = SumUp(Points("loss"), losses)
    BY <1>1, <1>2, <1>3, PointFacts, PointsWithin
  <2>. DEFINE v == Points("net")
              w == Points("loss")
              zero == [i \in losses |-> 0]
  <2>2. IsFiniteSet(losses) /\ \A i \in losses : v[i] \in Int /\ w[i] \in Int /\ zero[i] = v[i] + w[i]
    <3>1. \A i \in losses : v[i] = Point("net", journal[i].pnl) /\ w[i] = Point("loss", journal[i].pnl)
      BY <1>1, <1>2, PointsType
    <3>2. IsFiniteSet(losses)
      BY <1>1, <1>2, PointsType
    <3>3. \A i \in losses : journal[i].pnl \in Int /\ journal[i].pnl < 0
      BY <1>1, <1>3
    <3>. QED  BY <3>1, <3>2, <3>3, PointFacts
  <2>3. \A i \in losses : zero[i] = 0
    OBVIOUS
  <2>. HIDE DEF v, w, zero
  <2>4. SumUp(zero, losses) = SumUp(v, losses) + SumUp(w, losses)
    BY <2>2, SumUpPlus
  <2>5. SumUp(zero, losses) = 0 /\ SumUp(v, losses) \in Int /\ SumUp(w, losses) \in Int
    BY <2>2, <2>3, SumOfZeros, SumUpFacts
  <2>6. SumPnl(losses) = SumUp(v, losses)
    BY <1>1, PnlFacts DEF v
  <2>. QED  BY <2>1, <2>4, <2>5, <2>6 DEF w
<1>10. SumUp(Points("net"), trades) = SumPnl(trades)
  BY PnlFacts
<1>11. /\ Metrics(trades)["total"] = Cardinality(trades)
       /\ Metrics(trades)["wins"] = Cardinality(wins)
       /\ Metrics(trades)["losses"] = Cardinality(losses)
       /\ Metrics(trades)["breakeven"] = Cardinality(trades) - Cardinality(wins) - Cardinality(losses)
       /\ Metrics(trades)["profit"] = SumPnl(wins)
       /\ Metrics(trades)["loss"] = -SumPnl(losses)
       /\ Metrics(trades)["net"] = SumPnl(trades)
  BY DEF Metrics, wins, losses
<1>. QED
  BY <1>4, <1>5, <1>6, <1>7, <1>8, <1>9, <1>10, <1>11 DEF Figures

(* The strategies of some trades partition them. *)
LEMMA StrategiesAddUp ==
    ASSUME JournalType, NEW trades \in SUBSET DOMAIN journal, NEW f \in Figures, NEW by,
           by = ByStrategy(trades)
    PROVE  SumUp([s \in DOMAIN by |-> by[s][f]], DOMAIN by) = SumUp(Points(f), trades)
<1>. DEFINE C == {journal[i].strategy : i \in trades}
            class == [i \in trades |-> journal[i].strategy]
            group(s) == {i \in trades : class[i] = s}
            v == Points(f)
            sums == [s \in C |-> SumUp(v, group(s))]
<1>1. IsFiniteSet(trades) /\ \A i \in trades : v[i] \in Int
  BY PointsType
<1>2. IsFiniteSet(C) /\ \A i \in trades : class[i] \in C
  <2>1. class \in Surjection(trades, C)
    BY DEF Surjection
  <2>. HIDE DEF class, C
  <2>2. IsFiniteSet(C)
    BY <1>1, <2>1, FS_Surjection
  <2>. QED  BY <2>1, <2>2 DEF Surjection
<1>3. ASSUME NEW s \in C  PROVE by[s][f] = sums[s]
  <2>1. group(s) = {i \in trades : journal[i].strategy = s} /\ group(s) \in SUBSET DOMAIN journal
    OBVIOUS
  <2>2. by[s] = Metrics(group(s))
    BY <2>1 DEF ByStrategy
  <2>. DEFINE t == group(s)
  <2>3. sums[s] = SumUp(v, t)
    OBVIOUS
  <2>. HIDE DEF sums, t, class, C
  <2>4. Metrics(t)[f] = SumUp(v, t)
    BY <2>1, FigureFacts DEF t
  <2>. QED  BY <2>2, <2>3, <2>4 DEF t
<1>4. DOMAIN by = C
  BY DEF ByStrategy
<1>5. [s \in DOMAIN by |-> by[s][f]] = sums
  BY <1>3, <1>4
<1>6. SumUp(v, trades) = SumUp(sums, C)
  <2>1. sums = [s \in C |-> SumUp(v, {i \in trades : class[i] = s})]
    OBVIOUS
  <2>. HIDE DEF sums, class, C, v
  <2>. QED  BY <1>1, <1>2, <2>1, SumUpPartition
<1>. QED  BY <1>4, <1>5, <1>6

(* A report is right when it is generated, ... *)
LEMMA ReportRight ==
    ASSUME JournalType, NEW kind \in ReportKinds, NEW n \in Nat
    PROVE  Right(Report(kind, n))
<1>1. PICK r : r = Report(kind, n)
  OBVIOUS
<1>. DEFINE b == Bounds(kind, n)
            trades == TradesOf(b[1], b[2])
<1>2. /\ r.kind = kind /\ r.start = b[1] /\ r.end = b[2]
      /\ r.metrics = Metrics(trades) /\ r.by = ByStrategy(trades) /\ r.asOf = Len(journal)
  BY <1>1 DEF Report
<1>3. trades \in SUBSET DOMAIN journal /\ Seen(r) = trades /\ Len(journal) \in Nat
  BY <1>2, JournalFacts DEF TradesOf, Seen
<1>4. r.asOf \in 0 .. Len(journal) /\ r.start = Bounds(r.kind, n)[1] /\ r.end = Bounds(r.kind, n)[2]
  BY <1>2, <1>3
<1>. HIDE DEF trades
<1>5. ASSUME NEW f \in Figures
      PROVE  r.metrics[f] = SumUp(Points(f), Seen(r)) /\ AllStrategies(r, f) = r.metrics[f]
  <2>1. Metrics(trades)[f] = SumUp(Points(f), trades)
    BY <1>3, FigureFacts
  <2>2. PICK by : by = r.by
    OBVIOUS
  <2>3. SumUp([s \in DOMAIN by |-> by[s][f]], DOMAIN by) = SumUp(Points(f), trades)
    BY <1>2, <1>3, <2>2, StrategiesAddUp
  <2>. QED  BY <1>2, <1>3, <2>1, <2>2, <2>3 DEF AllStrategies
<1>. QED  BY <1>1, <1>4, <1>5 DEF Right

(* ... and remains so while the journal grows. *)
LEMMA RightStays ==
    ASSUME JournalType, NEW r, Right(r),
           journal' = journal \/ \E t \in Entries : journal' = Append(journal, t)
    PROVE  Right(r)'
<1>. DEFINE n == Len(journal)
            j == journal'
            m == Len(j)
<1>1. /\ n \in Nat /\ DOMAIN journal = 1 .. n
      /\ m \in Nat /\ n <= m /\ DOMAIN j = 1 .. m
      /\ \A i \in 1 .. n : j[i] = journal[i]
  <2>1. n \in Nat /\ DOMAIN journal = 1 .. n /\ journal \in Seq(Entries)
    BY JournalFacts DEF JournalType
  <2>2. CASE j = journal
    BY <2>1, <2>2
  <2>3. ASSUME NEW t \in Entries, j = Append(journal, t)
        PROVE  /\ m \in Nat /\ n <= m /\ DOMAIN j = 1 .. m
               /\ \A i \in 1 .. n : j[i] = journal[i]
    <3>. HIDE DEF j
    <3>1. m = n + 1 /\ DOMAIN j = 1 .. m /\ \A i \in 1 .. n : j[i] = journal[i]
      BY <2>1, <2>3, AppendProperties
    <3>. QED  BY <2>1, <3>1
  <2>. QED  BY <2>1, <2>2, <2>3
<1>2. r.asOf \in 0 .. n
  BY DEF Right
<1>3. Seen(r)' = Seen(r) /\ Seen(r) \in SUBSET DOMAIN journal /\ Seen(r) \in SUBSET DOMAIN j
  <2>1. Seen(r)' = {i \in 1 .. r.asOf : r.start <= j[i].exit /\ j[i].exit < r.end}
    BY DEF Seen
  <2>. HIDE DEF j, m, n
  <2>2. \A i \in 1 .. r.asOf : i \in 1 .. n /\ i \in 1 .. m
    BY <1>1, <1>2
  <2>. QED  BY <1>1, <2>1, <2>2 DEF Seen
<1>4. ASSUME NEW f \in Figures  PROVE SumUp(Points(f)', Seen(r)) = SumUp(Points(f), Seen(r))
  <2>. DEFINE v == Points(f)
              w == Points(f)'
              S == Seen(r)
  <2>1. IsFiniteSet(S) /\ \A i \in S : v[i] \in Int
    BY <1>3, PointsType
  <2>2. \A i \in S : w[i] = v[i]
    BY <1>1, <1>3 DEF Points
  <2>. HIDE DEF v, w, S
  <2>3. SumUp(w, S) = SumUp(v, S)
    BY <2>1, <2>2, SumUpSame
  <2>. QED  BY <2>3 DEF v, w, S
<1>5. r.asOf \in 0 .. m
  <2>. HIDE DEF m, n
  <2>. QED  BY <1>1, <1>2
<1>6. ASSUME NEW f \in Figures
      PROVE  (r.metrics[f] = SumUp(Points(f), Seen(r)))' /\ (AllStrategies(r, f) = r.metrics[f])'
  <2>1. r.metrics[f] = SumUp(Points(f), Seen(r)) /\ AllStrategies(r, f) = r.metrics[f]
    BY DEF Right
  <2>. QED  BY <1>3, <1>4, <2>1 DEF AllStrategies
<1>7. \E k \in Nat : r.start = Bounds(r.kind, k)[1] /\ r.end = Bounds(r.kind, k)[2]
  BY DEF Right
<1>. QED  BY <1>5, <1>6, <1>7 DEF Right, Bounds
------------------------------------------------------------------------------
(* What a writer does next, while the journal and the stored reports stay. *)
LEMMA WriterSums ==
    ASSUME SumInv, NEW w \in Writers, NEW state, Set(w, state), DOMAIN job = Writers,
           state.at = "made" => \A r \in state.made : Right(r),
           UNCHANGED <<journal, closing, reports>>
    PROVE  SumInv'
<1>1. /\ job'[w] = state
      /\ \A v \in Writers : v # w => job'[v] = job[v]
  BY DEF Set
<1>2. JournalType' /\ \A r : Right(r)' <=> Right(r)
  BY DEF SumInv, JournalType, Right, Seen, Points, AllStrategies, Bounds
<1>3. ASSUME NEW v \in Writers, job'[v].at = "made", NEW r \in job'[v].made  PROVE Right(r)
  BY <1>1, <1>3 DEF SumInv
<1>4. \A r \in reports' : Right(r)
  BY DEF SumInv
<1>. QED  BY <1>2, <1>3, <1>4 DEF SumInv

(* The journal and what is on the way into it. *)
LEMMA JournalSums ==
    ASSUME SumInv, closing' \subseteq Closings, UNCHANGED <<reports, job>>,
           journal' = journal \/ \E t \in Entries : journal' = Append(journal, t)
    PROVE  SumInv'
<1>1. JournalType'
  <2>1. journal \in Seq(Entries)
    BY DEF SumInv, JournalType
  <2>2. ASSUME NEW t \in Entries  PROVE Append(journal, t) \in Seq(Entries)
    BY <2>1, AppendProperties
  <2>. QED  BY <2>1, <2>2 DEF JournalType
<1>2. ASSUME NEW r, Right(r)  PROVE Right(r)'
  BY <1>2, RightStays DEF SumInv
<1>. QED  BY <1>1, <1>2 DEF SumInv

LEMMA CloseSums ==
    ASSUME ReportInv, SumInv, Close \/ CloseCommits
    PROVE  SumInv'
<1>1. CASE Close
  <2>1. PICK s \in Strategies, p \in Profits :
          closing' = closing \cup {[exit |-> now, pnl |-> p, strategy |-> s]}
    BY <1>1 DEF Close
  <2>2. [exit |-> now, pnl |-> p, strategy |-> s] \in Closings
    BY ReportTrades DEF Closings, ReportInv
  <2>. QED  BY <1>1, <2>1, <2>2, JournalSums DEF Close, SumInv, JournalType
<1>2. CASE CloseCommits
  <2>1. PICK t \in closing : journal' = Append(journal, t) /\ closing' = closing \ {t}
    BY <1>2 DEF CloseCommits
  <2>2. closing \subseteq Closings /\ t \in Entries
    BY DEF SumInv, JournalType, Entries
  <2>. QED  BY <1>2, <2>1, <2>2, JournalSums DEF CloseCommits
<1>. QED  BY <1>1, <1>2

LEMMA GenerateSums ==
    ASSUME ReportInv, SumInv, NEW w \in Writers, Generate(w)
    PROVE  SumInv'
<1>. DEFINE j == job[w]
            n(kind) == (IF kind = "daily" THEN Today ELSE ThisWeek) - 1
            made == {Report(kind, n(kind)) : kind \in j.due}
<1>1. /\ now \in Nat /\ Today \in Nat /\ ThisWeek \in Nat /\ UNCHANGED <<journal, closing, reports>>
      /\ DOMAIN job = Writers /\ JournalType /\ j.at = "due" /\ Promise(j)
  BY Periods DEF ReportInv, SumInv, Generate
<1>2. j.due \subseteq ReportKinds /\ \A kind \in j.due : n(kind) \in Nat
  BY <1>1 DEF Promise
<1>3. \A r \in made : Right(r)
  BY <1>1, <1>2, ReportRight
<1>4. PICK found : Set(w, [at |-> "made", day |-> j.day, made |-> made, found |-> found])
  BY DEF Generate
<1>. HIDE DEF made, j, n
<1>. QED  BY <1>1, <1>3, <1>4, WriterSums

LEMMA RequestSums ==
    ASSUME ReportInv, SumInv, NEW w \in Writers, Request(w)
    PROVE  SumInv'
<1>1. /\ now \in Nat /\ Today \in Nat /\ ThisWeek \in Nat /\ UNCHANGED <<journal, closing, reports>>
      /\ DOMAIN job = Writers /\ JournalType
  BY Periods DEF ReportInv, SumInv, Request
<1>2. PICK kind \in ReportKinds : \E n \in Nat : \E found :
        Set(w, [at |-> "made", day |-> -1, made |-> {Report(kind, n)}, found |-> found])
  BY <1>1 DEF Request, ReportKinds
<1>3. PICK n \in Nat : \E found :
        Set(w, [at |-> "made", day |-> -1, made |-> {Report(kind, n)}, found |-> found])
  BY <1>2
<1>4. PICK found : Set(w, [at |-> "made", day |-> -1, made |-> {Report(kind, n)}, found |-> found])
  BY <1>3
<1>5. PICK made : made = {Report(kind, n)}
  OBVIOUS
<1>6. \A r \in made : Right(r)
  BY <1>1, <1>5, ReportRight
<1>. QED  BY <1>1, <1>4, <1>5, <1>6, WriterSums

LEMMA CommitSums ==
    ASSUME ReportInv, SumInv, NEW w \in Writers, CommitReports(w)
    PROVE  SumInv'
<1>1. UNCHANGED <<journal, closing>> /\ Set(w, NoJob) /\ DOMAIN job = Writers
  BY DEF CommitReports, ReportInv
<1>2. \A r \in reports' : r \in reports \/ r \in job[w].made
  BY DEF CommitReports
<1>3. \A r \in reports' : Right(r)
  BY <1>2 DEF SumInv, CommitReports
<1>4. JournalType' /\ \A r : Right(r)' <=> Right(r)
  BY <1>1 DEF SumInv, JournalType, Right, Seen, Points, AllStrategies, Bounds
<1>5. \A v \in Writers : job'[v] = IF v = w THEN NoJob ELSE job[v]
  BY <1>1 DEF Set
<1>6. ASSUME NEW v \in Writers, job'[v].at = "made", NEW r \in job'[v].made  PROVE Right(r)
  BY <1>5, <1>6 DEF SumInv, NoJob
<1>. QED  BY <1>3, <1>4, <1>6 DEF SumInv

LEMMA SumStep == ReportInv /\ SumInv /\ [ReportsNext]_reportVars => SumInv'
<1>. SUFFICES ASSUME ReportInv, SumInv, [ReportsNext]_reportVars
              PROVE  SumInv'
  OBVIOUS
<1>1. CASE Tick \/ UNCHANGED reportVars
  <2>1. UNCHANGED <<journal, closing, reports, job>>
    BY <1>1 DEF Tick, reportVars
  <2>. QED  BY <2>1, JournalSums DEF SumInv, JournalType
<1>2. ASSUME NEW w \in Writers, Look(w)  PROVE SumInv'
  <2>1. UNCHANGED <<journal, closing, reports>> /\ DOMAIN job = Writers
    BY <1>2 DEF Look, ReportInv
  <2>2. CASE Due = {}
    <3>1. UNCHANGED job
      BY <1>2, <2>2 DEF Look
    <3>. QED  BY <2>1, <3>1, JournalSums DEF SumInv, JournalType
  <2>3. CASE Due # {}
    <3>. DEFINE state == [at |-> "due", due |-> Due, day |-> Today]
    <3>1. Set(w, state) /\ state.at # "made"
      BY <1>2, <2>3 DEF Look
    <3>. HIDE DEF state
    <3>. QED  BY <2>1, <3>1, WriterSums
  <2>. QED  BY <2>2, <2>3
<1>. QED
  BY <1>1, <1>2, CloseSums, GenerateSums, RequestSums, CommitSums DEF ReportsNext
------------------------------------------------------------------------------
(* The days of week w, the w-th week being long days long. *)
LEMMA DaysOfWeek ==
    ASSUME NEW w \in Nat, NEW n \in Int, NEW d \in Nat \ {0}, NEW long \in Nat \ {0}
    PROVE  /\ w * (d * long) \in Int /\ (w + 1) * (d * long) \in Int
           /\ n * d \in Int /\ (n + 1) * d \in Int /\ w * long \in Int
           /\ w * (d * long) < (n + 1) * d <=> w * long <= n
           /\ w * (d * long) <= n * d <=> w * long <= n
           /\ n * d < (w + 1) * (d * long) <=> n <= w * long + long - 1
           /\ (n + 1) * d <= (w + 1) * (d * long) <=> n <= w * long + long - 1
<1>. DEFINE a == w * long
            b == (w + 1) * long
<1>1. a \in Int /\ b = a + long /\ b \in Int
  OBVIOUS
<1>2. w * (d * long) = a * d /\ (w + 1) * (d * long) = b * d
  OBVIOUS
<1>. HIDE DEF a, b
<1>3. a * d \in Int /\ b * d \in Int /\ n * d \in Int /\ (n + 1) * d \in Int
  BY <1>1
<1>4. (a * d < (n + 1) * d => a < n + 1) /\ (a * d <= n * d => a <= n)
      /\ (a <= n => a * d <= n * d /\ n * d < (n + 1) * d)
  <2>1. a * d < (n + 1) * d => a < n + 1
    BY <1>1, TimesCancels
  <2>2. a * d <= n * d => a <= n
    BY <1>1, TimesCancels
  <2>3. a <= n => a * d <= n * d
    BY <1>1, TimesKeeps
  <2>4. (n + 1) * d = n * d + d
    OBVIOUS
  <2>. QED  BY <1>3, <2>1, <2>2, <2>3, <2>4
<1>5. (n * d < b * d => n < b) /\ ((n + 1) * d <= b * d => n + 1 <= b)
      /\ (n + 1 <= b => (n + 1) * d <= b * d /\ n * d < (n + 1) * d)
  <2>1. n * d < b * d => n < b
    BY <1>1, TimesCancels
  <2>2. (n + 1) * d <= b * d => n + 1 <= b
    BY <1>1, TimesCancels
  <2>3. n + 1 <= b => (n + 1) * d <= b * d
    BY <1>1, TimesKeeps
  <2>4. (n + 1) * d = n * d + d
    OBVIOUS
  <2>. QED  BY <1>3, <2>1, <2>2, <2>3, <2>4
<1>6. a \in Int /\ b = a + long /\ b \in Int /\ n \in Int /\ long \in Nat
  BY <1>1
<1>7. /\ a * d < (n + 1) * d <=> a <= n
      /\ a * d <= n * d <=> a <= n
  BY <1>3, <1>4, <1>6
<1>8. /\ n * d < b * d <=> n <= a + long - 1
      /\ (n + 1) * d <= b * d <=> n <= a + long - 1
  BY <1>3, <1>5, <1>6
<1>. QED  BY <1>1, <1>2, <1>3, <1>7, <1>8 DEF a

(* An instant lies in one day. *)
LEMMA DayOf ==
    ASSUME NEW x \in Nat, NEW d \in Nat \ {0}
    PROVE  \E n \in Nat : n * d <= x /\ x < (n + 1) * d
<1>. DEFINE n == x \div d
<1>1. n \in Nat /\ d * n <= x /\ x < d * (n + 1)
  OBVIOUS
<1>. HIDE DEF n
<1>2. d * n = n * d /\ d * (n + 1) = (n + 1) * d
  BY <1>1
<1>. QED  BY <1>1, <1>2

LEMMA OneDay ==
    ASSUME NEW x \in Nat, NEW d \in Nat \ {0}, NEW m \in Int, NEW n \in Int,
           m * d <= x, x < (m + 1) * d, n * d <= x, x < (n + 1) * d
    PROVE  m = n
<1>1. m * d \in Int /\ n * d \in Int /\ (m + 1) * d \in Int /\ (n + 1) * d \in Int
  OBVIOUS
<1>2. m * d < (n + 1) * d /\ n * d < (m + 1) * d
  BY <1>1
<1>3. m < n + 1 /\ n < m + 1
  BY <1>2, TimesCancels
<1>. QED  BY <1>3

(* The day of a daily report of week w. *)
Nth(d, n) == n \in Int /\ d.start = n * DayLength /\ d.end = (n + 1) * DayLength
Week(w) == w * WeekLength .. w * WeekLength + WeekLength - 1

(* As many daily reports of one week as it has days are one of each day.     *)
LEMMA EachDay ==
    ASSUME Proper(reports), NEW w \in Nat, NEW days \in SUBSET reports,
           \A d \in days : d.kind = "daily" /\ \E n \in Week(w) : Nth(d, n),
           Cardinality(days) = WeekLength
    PROVE  IsFiniteSet(days) /\ \A n \in Week(w) : \E d \in days : Nth(d, n)
<1>. DEFINE D == Week(w)
            nth == [d \in days |-> CHOOSE n \in D : Nth(d, n)]
<1>1. w * WeekLength \in Int /\ WeekLength \in Nat \ {0}
  BY ReportConstants
<1>2. IsFiniteSet(D) /\ Cardinality(D) = WeekLength
  <2>. DEFINE a == w * WeekLength
              b == a + WeekLength - 1
  <2>1. a \in Int /\ b \in Int /\ ~(a > b) /\ b - a + 1 = WeekLength
    BY <1>1
  <2>2. D = a .. b
    BY DEF Week
  <2>. HIDE DEF a, b, D
  <2>. QED  BY <2>1, <2>2, FS_Interval
<1>3. \A d \in days : nth[d] \in D /\ Nth(d, nth[d])
  OBVIOUS
<1>4. nth \in Injection(days, D)
  <2>1. nth \in [days -> D]
    BY <1>3
  <2>2. ASSUME NEW c \in days, NEW d \in days, nth[c] = nth[d]  PROVE c = d
    <3>1. c.start = d.start /\ c.kind = d.kind
      BY <1>3, <2>2 DEF Nth
    <3>. QED  BY <3>1 DEF Proper, Same
  <2>. HIDE DEF nth, D
  <2>. QED  BY <2>1, <2>2 DEF Injection, IsInjective
<1>. HIDE DEF nth, D
<1>5. IsFiniteSet(days) /\ nth \in Surjection(days, D)
  BY <1>2, <1>4, FS_Injection
<1>6. ASSUME NEW n \in D  PROVE \E d \in days : Nth(d, n)
  <2>1. PICK d \in days : nth[d] = n
    BY <1>5, <1>6 DEF Surjection
  <2>. QED  BY <1>3, <2>1
<1>. QED  BY <1>5, <1>6 DEF D

(* The daily reports of a week partition its trades. *)
LEMMA WeekAddsUp ==
    ASSUME JournalType, Proper(reports), \A d \in reports : Right(d),
           NEW r \in reports, r.kind = "weekly", NEW days \in SUBSET reports,
           \A d \in days : d.kind = "daily" /\ r.start <= d.start /\ d.end <= r.end,
           Cardinality(days) = WeekLength,
           \A d \in days \cup {r} : SawAll(d, r.start, r.end),
           NEW f \in Figures
    PROVE  SumFunction([d \in days |-> d.metrics[f]]) = r.metrics[f]
<1>1. DayLength \in Nat \ {0} /\ WeekLength \in Nat \ {0}
  BY ReportConstants
<1>2. PICK w \in Nat : r.start = w * (DayLength * WeekLength) /\ r.end = (w + 1) * (DayLength * WeekLength)
  BY DEF Right, Bounds
<1>3. ASSUME NEW d \in days  PROVE \E n \in Week(w) : Nth(d, n)
  <2>1. PICK n \in Nat : d.start = n * DayLength /\ d.end = (n + 1) * DayLength
    BY DEF Right, Bounds
  <2>2. w * WeekLength \in Int /\ w * WeekLength <= n /\ n <= w * WeekLength + WeekLength - 1
    BY <1>1, <1>2, <2>1, DaysOfWeek
  <2>. QED  BY <1>1, <2>1, <2>2 DEF Week, Nth
<1>4. IsFiniteSet(days) /\ \A n \in Week(w) : \E d \in days : Nth(d, n)
  BY <1>3, EachDay
<1>. DEFINE S == Seen(r)
            v == Points(f)
            In(i, d) == d.start <= journal[i].exit /\ journal[i].exit < d.end
            class == [i \in S |-> CHOOSE d \in days : In(i, d)]
            sums == [d \in days |-> SumUp(v, {i \in S : class[i] = d})]
<1>5. /\ S \in SUBSET DOMAIN journal /\ \A i \in S : In(i, r)
      /\ \A i \in DOMAIN journal : In(i, r) => i \in S
  BY JournalFacts DEF Right, Seen, SawAll
<1>6. ASSUME NEW i \in S  PROVE class[i] \in days /\ In(i, class[i])
  <2>1. journal[i].exit \in Nat /\ In(i, r)
    BY <1>5, JournalFacts
  <2>2. PICK n \in Nat : n * DayLength <= journal[i].exit /\ journal[i].exit < (n + 1) * DayLength
    BY <1>1, <2>1, DayOf
  <2>3. n * DayLength < (w + 1) * (DayLength * WeekLength) /\ w * (DayLength * WeekLength) < (n + 1) * DayLength
    <3>1. /\ n * DayLength \in Int /\ (n + 1) * DayLength \in Int
          /\ w * (DayLength * WeekLength) \in Int /\ (w + 1) * (DayLength * WeekLength) \in Int
      BY <1>1, DaysOfWeek
    <3>. QED  BY <1>2, <2>1, <2>2, <3>1
  <2>4. w * WeekLength \in Int /\ w * WeekLength <= n /\ n <= w * WeekLength + WeekLength - 1
    BY <1>1, <2>3, DaysOfWeek
  <2>5. PICK d \in days : Nth(d, n)
    BY <1>1, <1>4, <2>4 DEF Week
  <2>6. In(i, d)
    BY <2>2, <2>5 DEF Nth
  <2>. QED  BY <2>6
<1>7. ASSUME NEW d \in days  PROVE {i \in S : class[i] = d} = Seen(d)
  <2>1. ASSUME NEW i \in S, class[i] = d  PROVE i \in Seen(d)
    <3>1. i \in DOMAIN journal /\ In(i, d) /\ In(i, r)
      BY <1>5, <1>6, <2>1
    <3>2. i <= d.asOf /\ d.asOf \in Nat /\ i \in Nat /\ 1 <= i
      BY <3>1, JournalFacts DEF SawAll, Right
    <3>. QED  BY <3>1, <3>2 DEF Seen
  <2>2. ASSUME NEW i \in Seen(d)  PROVE i \in S /\ class[i] = d
    <3>1. i \in DOMAIN journal /\ In(i, d)
      BY JournalFacts DEF Seen, Right
    <3>2. journal[i].exit \in Nat
      BY <3>1, JournalFacts
    <3>3. PICK n \in Week(w) : Nth(d, n)
      BY <1>3
    <3>4. In(i, r)
      <4>1. d.start \in Int /\ d.end \in Int /\ r.start \in Int /\ r.end \in Int
        BY <1>1, <1>2, <3>3, DaysOfWeek DEF Nth
      <4>2. r.start <= d.start /\ d.end <= r.end
        OBVIOUS
      <4>. QED  BY <3>1, <3>2, <4>1, <4>2
    <3>5. i \in S
      BY <1>5, <3>1, <3>4
    <3>6. PICK c \in days : c = class[i] /\ In(i, c)
      BY <1>6, <3>5
    <3>7. PICK m \in Week(w) : Nth(c, m)
      BY <1>3
    <3>8. m = n
      BY <1>1, <3>1, <3>2, <3>3, <3>6, <3>7, OneDay DEF Nth
    <3>9. c.start = d.start /\ c.kind = d.kind
      BY <3>3, <3>7, <3>8 DEF Nth
    <3>. QED  BY <3>5, <3>6, <3>9 DEF Proper, Same
  <2>. QED  BY <2>1, <2>2
<1>8. [d \in days |-> d.metrics[f]] = sums
  <2>1. \A d \in days : d.metrics[f] = SumUp(v, Seen(d))
    BY DEF Right
  <2>2. \A d \in days : sums[d] = SumUp(v, Seen(d))
    BY <1>7
  <2>. HIDE DEF v, class, S
  <2>. QED  BY <2>1, <2>2
<1>9. SumUp(v, S) = SumUp(sums, days)
  <2>1. IsFiniteSet(S) /\ \A i \in S : v[i] \in Int
    BY <1>5, PointsType
  <2>2. \A i \in S : class[i] \in days
    BY <1>6
  <2>3. sums = [d \in days |-> SumUp(v, {i \in S : class[i] = d})]
    OBVIOUS
  <2>. HIDE DEF S, v, class, sums
  <2>. QED  BY <1>4, <2>1, <2>2, <2>3, SumUpPartition
<1>10. r.metrics[f] = SumUp(v, S)
  BY DEF Right
<1>. HIDE DEF S, v, class
<1>11. DOMAIN sums = days
  OBVIOUS
<1>. HIDE DEF sums
<1>. QED  BY <1>8, <1>9, <1>10, <1>11, SumOfFunction
------------------------------------------------------------------------------
(* Whenever and by whomever reports are made, and whatever is closed or         *)
(* committed in between: in every stored report the strategies' figures add up  *)
(* to the totals, and a week's daily reports to the weekly one.                *)
THEOREM FiguresAddUp == ReportsSpec => []ReportsAddUp
<1>1. ReportsInit => ReportInv /\ SumInv
  <2>. SUFFICES ASSUME ReportsInit  PROVE ReportInv /\ SumInv
    OBVIOUS
  <2>1. ReportInv
    BY DEF ReportsInit, ReportInv, Proper, Promise, NoJob
  <2>2. JournalType
    <3>1. Past \in Seq(Entries)
      <4>1. Range(Past) \subseteq Entries /\ Past \in Seq(Range(Past))
        BY ReportTrades DEF Entries
      <4>. DEFINE R == Range(Past)
      <4>. HIDE DEF R
      <4>2. Past \in Seq(R) /\ R \subseteq Entries
        BY <4>1 DEF R
      <4>. QED  BY <4>2
    <3>. QED  BY <3>1 DEF ReportsInit, JournalType
  <2>. QED  BY <2>1, <2>2 DEF SumInv, ReportsInit, NoJob
<1>2. ReportInv /\ SumInv => ReportsAddUp
  <2>. SUFFICES ASSUME ReportInv, SumInv  PROVE ReportsAddUp
    OBVIOUS
  <2>0. JournalType /\ Proper(reports) /\ \A d \in reports : Right(d)
    BY DEF ReportInv, SumInv
  <2>1. ASSUME NEW r \in reports, NEW f \in Figures
        PROVE  SumFunction([s \in DOMAIN r.by |-> r.by[s][f]]) = r.metrics[f]
    <3>. DEFINE g == [s \in DOMAIN r.by |-> r.by[s][f]]
    <3>1. SumUp(g, DOMAIN r.by) = r.metrics[f] /\ DOMAIN g = DOMAIN r.by
      BY <2>0 DEF Right, AllStrategies
    <3>. HIDE DEF g
    <3>2. SumFunction(g) = r.metrics[f]
      BY <3>1, SumOfFunction
    <3>. QED  BY <3>2 DEF g
  <2>2. ASSUME NEW r \in reports, r.kind = "weekly", NEW f \in Figures, NEW days \in SUBSET reports,
               days = {d \in reports : d.kind = "daily" /\ r.start <= d.start /\ d.end <= r.end},
               Cardinality(days) = WeekLength, \A d \in days \cup {r} : SawAll(d, r.start, r.end)
        PROVE  SumFunction([d \in days |-> d.metrics[f]]) = r.metrics[f]
    <3>1. \A d \in days : d.kind = "daily" /\ r.start <= d.start /\ d.end <= r.end
      BY <2>2
    <3>. QED  BY <2>0, <2>2, <3>1, WeekAddsUp
  <2>. QED  BY <2>1, <2>2 DEF ReportsAddUp
<1>. QED
  BY <1>1, <1>2, ReportStep, SumStep, PTL DEF ReportsSpec
------------------------------------------------------------------------------
(***************************************************************************)
(* The news poll announces what it stores, for any number of pollers,       *)
(* articles and polls, and any batch size.                                  *)
(*                                                                         *)
(* What must be known of a flushed transaction (Flushed): it adds no        *)
(* article twice, none that is stored, and none another flushed one adds.   *)
(* Then its commit stores each of its articles for the first time, and the  *)
(* one announcement of each moves from what is pending to what is stored.   *)
(***************************************************************************)
Polls == {Asleep} \cup
         [at : {"ingest", "flushed"}, rest : Seq(Articles), added : Seq(Articles)]
IsFlushed(p) == poll[p].at = "flushed"
Flushed ==
    /\ \A p \in Pollers : IsFlushed(p) => Insertable(p)
    /\ \A p, q \in Pollers : p # q /\ IsFlushed(p) /\ IsFlushed(q)
                               => Range(poll[p].added) \cap Range(poll[q].added) = {}

(* What was announced of a, and what accounts for it apart from open polls. *)
Owed(a) == undone[a] + (IF a \in stored THEN 1 ELSE 0)
NewsTypes ==
    /\ poll \in [Pollers -> Polls] /\ stored \subseteq Articles
    /\ announced \in [Articles -> Nat] /\ undone \in [Articles -> Nat]
NewsInv ==
    /\ NewsTypes /\ Flushed
    /\ \A a \in Articles : announced[a] = Owed(a) + SumUp(Pending(a), Pollers)

LEMMA CountFacts ==
  ASSUME NEW A, NEW s \in Seq(A), NEW a
  PROVE  /\ Count(a, s) \in Nat
         /\ s = <<>> => Count(a, s) = 0
<1>. DEFINE I == {i \in DOMAIN s : s[i] = a}
<1>1. Len(s) \in Nat /\ DOMAIN s = 1 .. Len(s)
  OBVIOUS
<1>2. IsFiniteSet(1 .. Len(s))
  BY <1>1, FS_Interval
<1>3. IsFiniteSet(I)
  BY <1>1, <1>2, FS_Subset
<1>4. Cardinality(I) \in Nat
  BY <1>3, FS_CardinalityType
<1>5. s = <<>> => I = {}
  OBVIOUS
<1>. QED
  BY <1>4, <1>5, FS_EmptySet DEF Count

LEMMA CountAppend ==
  ASSUME NEW A, NEW s \in Seq(A), NEW b \in A, NEW a
  PROVE  Count(a, Append(s, b)) = Count(a, s) + (IF a = b THEN 1 ELSE 0)
<1>. DEFINE I == {i \in DOMAIN s : s[i] = a}
            t == Append(s, b)
            J == {i \in DOMAIN t : t[i] = a}
            n == Len(s) + 1
<1>1. /\ Len(s) \in Nat /\ DOMAIN s = 1 .. Len(s) /\ DOMAIN t = 1 .. n /\ t[n] = b
      /\ \A i \in DOMAIN s : t[i] = s[i]
  OBVIOUS
<1>2. IsFiniteSet(DOMAIN s)
  <2>. DEFINE m == Len(s)
  <2>1. m \in Int /\ DOMAIN s = 1 .. m
    OBVIOUS
  <2>. HIDE DEF m
  <2>2. IsFiniteSet(1 .. m)
    BY <2>1, FS_Interval
  <2>. QED  BY <2>1, <2>2
<1>3. IsFiniteSet(I) /\ n \notin I
  <2>1. I \in SUBSET DOMAIN s
    OBVIOUS
  <2>. QED  BY <1>1, <1>2, <2>1, FS_Subset
<1>4. Cardinality(I) \in Nat /\ Cardinality(I \cup {n}) = Cardinality(I) + 1
  <2>. HIDE DEF I, n
  <2>. QED  BY <1>3, FS_AddElement, FS_CardinalityType
<1>5. J = IF a = b THEN I \cup {n} ELSE I
  BY <1>1
<1>6. Count(a, s) = Cardinality(I) /\ Count(a, t) = Cardinality(J)
  BY DEF Count
<1>. HIDE DEF I, J, n, t
<1>. QED
  BY <1>4, <1>5, <1>6 DEF t

LEMMA CountOnce ==
  ASSUME NEW A, NEW s \in Seq(A), IsInjective(s), NEW a
  PROVE  Count(a, s) = IF a \in Range(s) THEN 1 ELSE 0
<1>. DEFINE I == {i \in DOMAIN s : s[i] = a}
<1>1. CASE a \in Range(s)
  <2>1. PICK i \in DOMAIN s : s[i] = a
    BY <1>1 DEF Range
  <2>2. I = {i}
    BY <2>1 DEF IsInjective
  <2>3. Cardinality({i}) = 1
    BY FS_Singleton
  <2>. QED  BY <1>1, <2>2, <2>3 DEF Count
<1>2. CASE a \notin Range(s)
  <2>1. I = {}
    BY <1>2 DEF Range
  <2>. QED  BY <1>2, <2>1, FS_EmptySet DEF Count
<1>. QED  BY <1>1, <1>2

(* What one transaction holds of an article, announced but not stored. *)
Held(x, a) == IF x = Asleep THEN 0 ELSE Count(a, x.added)

LEMMA HeldFacts ==
  ASSUME NEW x \in Polls, NEW a
  PROVE  Held(x, a) \in Nat
<1>1. CASE x = Asleep
  BY <1>1 DEF Held
<1>2. CASE x # Asleep
  BY <1>2, CountFacts DEF Held, Polls
<1>. QED  BY <1>1, <1>2

(* What is pending in all, when one poller moves. *)
LEMMA PollerMoves ==
  ASSUME NewsTypes, poll' \in [Pollers -> Polls],
         NEW p \in Pollers, \A q \in Pollers : q # p => poll'[q] = poll[q], NEW a
  PROVE  /\ SumUp(Pending(a)', Pollers)
              = (SumUp(Pending(a), Pollers) - Held(poll[p], a)) + Held(poll'[p], a)
         /\ SumUp(Pending(a), Pollers) \in Int
<1>1. PICK f : f = Pending(a)
  OBVIOUS
<1>2. PICK g : g = Pending(a)'
  OBVIOUS
<1>3. \A q \in Pollers : f[q] = Held(poll[q], a) /\ g[q] = Held(poll'[q], a)
  BY <1>1, <1>2 DEF Pending, Held
<1>4. \A q \in Pollers : f[q] \in Int /\ g[q] \in Int
  BY <1>3, HeldFacts DEF NewsTypes
<1>5. \A q \in Pollers : q # p => g[q] = f[q]
  BY <1>3
<1>6. SumUp(g, Pollers) = (SumUp(f, Pollers) - f[p]) + g[p] /\ SumUp(f, Pollers) \in Int
  BY <1>4, <1>5, SumUpChanges, NewsConstants
<1>. QED
  BY <1>1, <1>2, <1>3, <1>6

(* A poller that is not flushed afterwards does not disturb those that are. *)
LEMMA QuietFlush ==
  ASSUME Flushed, NEW p \in Pollers, ~IsFlushed(p)', stored' = stored,
         \A q \in Pollers : q # p => poll'[q] = poll[q]
  PROVE  Flushed'
<1>1. ASSUME NEW q \in Pollers, IsFlushed(q)'
      PROVE  q # p /\ poll'[q] = poll[q] /\ IsFlushed(q)
  BY <1>1 DEF IsFlushed
<1>2. ASSUME NEW q \in Pollers, IsFlushed(q)'  PROVE Insertable(q)'
  BY <1>1, <1>2 DEF Flushed, Insertable
<1>3. ASSUME NEW q \in Pollers, NEW r \in Pollers, q # r, IsFlushed(q)', IsFlushed(r)'
      PROVE  Range(poll'[q].added) \cap Range(poll'[r].added) = {}
  BY <1>1, <1>3 DEF Flushed
<1>. QED
  BY <1>2, <1>3 DEF Flushed

(* A step that moves one poller and leaves every article accounted for. *)
LEMMA Accounted ==
  ASSUME NewsInv, NEW p \in Pollers, poll' \in [Pollers -> Polls],
         \A q \in Pollers : q # p => poll'[q] = poll[q],
         announced' \in [Articles -> Nat], undone' \in [Articles -> Nat], stored' \subseteq Articles,
         \A a \in Articles : announced'[a] - announced[a]
                               = (Owed(a)' - Owed(a)) + (Held(poll'[p], a) - Held(poll[p], a))
  PROVE  \A a \in Articles : announced'[a] = Owed(a)' + SumUp(Pending(a)', Pollers)
<1>. SUFFICES ASSUME NEW a \in Articles
              PROVE  announced'[a] = Owed(a)' + SumUp(Pending(a)', Pollers)
  OBVIOUS
<1>. DEFINE u == SumUp(Pending(a), Pollers)
            v == SumUp(Pending(a)', Pollers)
            h == Held(poll[p], a)
            k == Held(poll'[p], a)
<1>1. announced[a] = Owed(a) + u /\ announced[a] \in Int /\ announced'[a] \in Int
  BY DEF NewsInv, NewsTypes
<1>2. Owed(a) \in Int /\ Owed(a)' \in Int
  BY DEF NewsInv, NewsTypes, Owed
<1>3. h \in Int /\ k \in Int
  BY HeldFacts DEF NewsInv, NewsTypes
<1>4. v = (u - h) + k /\ u \in Int
  BY PollerMoves DEF NewsInv
<1>5. announced'[a] - announced[a] = (Owed(a)' - Owed(a)) + (k - h)
  OBVIOUS
<1>. HIDE DEF u, v, h, k
<1>6. announced'[a] = Owed(a)' + v
  BY <1>1, <1>2, <1>3, <1>4, <1>5
<1>. QED
  BY <1>6 DEF v
------------------------------------------------------------------------------
(* One lemma for each action of a poller. *)
LEMMA FetchKeeps ==
  ASSUME NewsInv, NEW p \in Pollers, FetchNews(p)
  PROVE  NewsInv'
<1>1. PICK n \in 1 .. MaxBatch : \E batch \in [1 .. n -> Articles] :
        poll' = [poll EXCEPT ![p] = [at |-> "ingest", rest |-> batch, added |-> <<>>]]
  BY DEF FetchNews
<1>2. PICK batch \in [1 .. n -> Articles] :
        poll' = [poll EXCEPT ![p] = [at |-> "ingest", rest |-> batch, added |-> <<>>]]
  BY <1>1
<1>3. batch \in Seq(Articles)
  OBVIOUS
<1>4. /\ poll' \in [Pollers -> Polls] /\ poll'[p] = [at |-> "ingest", rest |-> batch, added |-> <<>>]
      /\ \A q \in Pollers : q # p => poll'[q] = poll[q]
  BY <1>2, <1>3 DEF NewsInv, NewsTypes, Polls
<1>5. NewsTypes' /\ UNCHANGED <<stored, announced, undone>> /\ poll[p] = Asleep
  BY <1>4 DEF FetchNews, NewsInv, NewsTypes
<1>6. Flushed'
  BY <1>4, <1>5, QuietFlush DEF NewsInv, IsFlushed
<1>7. \A a : Held(poll'[p], a) = 0 /\ Held(poll[p], a) = 0
  <2>0. <<>> \in Seq(Articles)
    OBVIOUS
  <2>1. \A a : Count(a, <<>>) = 0
    BY <2>0, CountFacts
  <2>. QED  BY <1>4, <1>5, <2>1 DEF Held, Asleep
<1>8. \A a \in Articles : announced'[a] - announced[a]
                            = (Owed(a)' - Owed(a)) + (Held(poll'[p], a) - Held(poll[p], a))
  BY <1>5, <1>7 DEF NewsInv, NewsTypes, Owed
<1>. QED
  BY <1>4, <1>5, <1>6, <1>8, Accounted DEF NewsInv, NewsTypes

LEMMA IngestKeeps ==
  ASSUME NewsInv, NEW p \in Pollers, Ingest(p)
  PROVE  NewsInv'
<1>. DEFINE b == Head(poll[p].rest)
            more == IF b \notin stored THEN Append(poll[p].added, b) ELSE poll[p].added
<1>1. /\ poll[p].at = "ingest" /\ poll[p] # Asleep
      /\ poll[p] \in [at : {"ingest", "flushed"}, rest : Seq(Articles), added : Seq(Articles)]
      /\ poll[p].rest # <<>>
  BY DEF Ingest, NewsInv, NewsTypes, Polls, Asleep
<1>2. b \in Articles /\ Tail(poll[p].rest) \in Seq(Articles) /\ more \in Seq(Articles)
  BY <1>1
<1>3. /\ poll' = [poll EXCEPT ![p].rest = Tail(@), ![p].added = more]
      /\ announced' = IF b \notin stored THEN [announced EXCEPT ![b] = @ + 1] ELSE announced
      /\ UNCHANGED <<stored, undone>>
  BY DEF Ingest
<1>. HIDE DEF b, more
<1>4. /\ poll' \in [Pollers -> Polls]
      /\ poll'[p] = [at |-> "ingest", rest |-> Tail(poll[p].rest), added |-> more]
      /\ \A q \in Pollers : q # p => poll'[q] = poll[q]
  BY <1>1, <1>2, <1>3 DEF NewsInv, NewsTypes, Polls
<1>5. NewsTypes'
  BY SMTT(20), <1>2, <1>3, <1>4 DEF NewsInv, NewsTypes
<1>6. Flushed'
  BY ZenonT(40), <1>3, <1>4, QuietFlush DEF NewsInv, IsFlushed
<1>7. ASSUME NEW a \in Articles
      PROVE  announced'[a] - announced[a]
               = (Owed(a)' - Owed(a)) + (Held(poll'[p], a) - Held(poll[p], a))
  <2>1. Owed(a)' = Owed(a) /\ Owed(a) \in Int
    BY <1>3 DEF Owed, NewsInv, NewsTypes
  <2>2. Held(poll'[p], a) = Count(a, more) /\ Held(poll[p], a) = Count(a, poll[p].added)
    BY <1>1, <1>4 DEF Held, Asleep
  <2>3. Count(a, more) = Count(a, poll[p].added) + (IF a = b /\ b \notin stored THEN 1 ELSE 0)
    BY <1>1, <1>2, CountAppend, CountFacts DEF more
  <2>4. Count(a, poll[p].added) \in Nat
    BY <1>1, CountFacts
  <2>5. announced'[a] = announced[a] + (IF a = b /\ b \notin stored THEN 1 ELSE 0) /\ announced[a] \in Nat
    BY <1>2, <1>3 DEF NewsInv, NewsTypes
  <2>. QED
    BY <2>1, <2>2, <2>3, <2>4, <2>5
<1>. QED
  BY <1>3, <1>4, <1>5, <1>6, <1>7, Accounted DEF NewsInv, NewsTypes

LEMMA FlushKeeps ==
  ASSUME NewsInv, NEW p \in Pollers, FlushNews(p)
  PROVE  NewsInv'
<1>1. /\ poll[p].at = "ingest" /\ poll[p] # Asleep
      /\ poll[p] \in [at : {"ingest", "flushed"}, rest : Seq(Articles), added : Seq(Articles)]
  BY DEF FlushNews, NewsInv, NewsTypes, Polls, Asleep
<1>2. poll' = [poll EXCEPT ![p].at = "flushed"] /\ UNCHANGED <<stored, announced, undone>>
  BY DEF FlushNews
<1>3. /\ poll' \in [Pollers -> Polls]
      /\ poll'[p] = [at |-> "flushed", rest |-> poll[p].rest, added |-> poll[p].added]
      /\ \A q \in Pollers : q # p => poll'[q] = poll[q]
  BY <1>1, <1>2 DEF NewsInv, NewsTypes, Polls
<1>4. NewsTypes'
  BY <1>2, <1>3 DEF NewsInv, NewsTypes
<1>5. Flushed'
  BY SMTT(20), <1>2, <1>3 DEF NewsInv, Flushed, IsFlushed, Insertable, FlushNews
<1>6. ASSUME NEW a \in Articles
      PROVE  announced'[a] - announced[a]
               = (Owed(a)' - Owed(a)) + (Held(poll'[p], a) - Held(poll[p], a))
  <2>1. Held(poll'[p], a) = Held(poll[p], a) /\ Held(poll[p], a) \in Int
    BY <1>1, <1>3, CountFacts DEF Held, Asleep
  <2>2. Owed(a)' = Owed(a) /\ Owed(a) \in Int /\ announced'[a] = announced[a] /\ announced[a] \in Int
    BY <1>2 DEF Owed, NewsInv, NewsTypes
  <2>. QED  BY <2>1, <2>2
<1>. QED
  BY <1>2, <1>3, <1>4, <1>5, <1>6, Accounted DEF NewsInv, NewsTypes

LEMMA CommitNewsKeeps ==
  ASSUME NewsInv, NEW p \in Pollers, CommitNews(p)
  PROVE  NewsInv'
<1>1. /\ IsFlushed(p) /\ poll[p] # Asleep
      /\ poll[p] \in [at : {"ingest", "flushed"}, rest : Seq(Articles), added : Seq(Articles)]
  BY DEF CommitNews, NewsInv, NewsTypes, Polls, Asleep, IsFlushed
<1>2. /\ poll' = [poll EXCEPT ![p] = Asleep] /\ stored' = stored \cup Range(poll[p].added)
      /\ UNCHANGED <<announced, undone>>
  BY DEF CommitNews
<1>3. IsInjective(poll[p].added) /\ Range(poll[p].added) \cap stored = {}
  BY <1>1 DEF NewsInv, Flushed, Insertable
<1>4. /\ poll' \in [Pollers -> Polls] /\ poll'[p] = Asleep
      /\ \A q \in Pollers : q # p => poll'[q] = poll[q]
  BY <1>2 DEF NewsInv, NewsTypes, Polls
<1>5. Range(poll[p].added) \subseteq Articles
  BY <1>1 DEF Range
<1>6. NewsTypes'
  BY <1>2, <1>4, <1>5 DEF NewsInv, NewsTypes
<1>7. Flushed'
  BY <1>1, <1>2, <1>4 DEF NewsInv, Flushed, IsFlushed, Insertable, Asleep
<1>8. ASSUME NEW a \in Articles
      PROVE  announced'[a] - announced[a]
               = (Owed(a)' - Owed(a)) + (Held(poll'[p], a) - Held(poll[p], a))
  <2>1. Held(poll'[p], a) = 0 /\ Held(poll[p], a) = IF a \in Range(poll[p].added) THEN 1 ELSE 0
    BY <1>1, <1>3, <1>4, CountOnce DEF Held
  <2>2. /\ Owed(a)' = Owed(a) + (IF a \in Range(poll[p].added) THEN 1 ELSE 0) /\ Owed(a) \in Int
        /\ announced'[a] = announced[a] /\ announced[a] \in Int
    BY <1>2, <1>3 DEF Owed, NewsInv, NewsTypes
  <2>. QED  BY <2>1, <2>2
<1>. QED
  BY <1>2, <1>4, <1>6, <1>7, <1>8, Accounted DEF NewsInv, NewsTypes

LEMMA FailureKeeps ==
  ASSUME NewsInv, NEW p \in Pollers, PollFails(p)
  PROVE  NewsInv'
<1>1. /\ poll[p] # Asleep
      /\ poll[p] \in [at : {"ingest", "flushed"}, rest : Seq(Articles), added : Seq(Articles)]
  BY DEF PollFails, NewsInv, NewsTypes, Polls
<1>2. /\ poll' = [poll EXCEPT ![p] = Asleep]
      /\ undone' = [a \in Articles |-> undone[a] + Count(a, poll[p].added)]
      /\ UNCHANGED <<announced, stored>>
  BY DEF PollFails
<1>3. /\ poll' \in [Pollers -> Polls] /\ poll'[p] = Asleep
      /\ \A q \in Pollers : q # p => poll'[q] = poll[q]
  BY <1>2 DEF NewsInv, NewsTypes, Polls
<1>4. \A a \in Articles : Count(a, poll[p].added) \in Nat
  BY <1>1, CountFacts
<1>5. NewsTypes'
  BY <1>2, <1>3, <1>4 DEF NewsInv, NewsTypes
<1>6. Flushed'
  BY <1>2, <1>3 DEF NewsInv, Flushed, IsFlushed, Insertable, Asleep
<1>7. ASSUME NEW a \in Articles
      PROVE  announced'[a] - announced[a]
               = (Owed(a)' - Owed(a)) + (Held(poll'[p], a) - Held(poll[p], a))
  <2>1. Held(poll'[p], a) = 0 /\ Held(poll[p], a) = Count(a, poll[p].added)
    BY <1>1, <1>3 DEF Held
  <2>2. undone'[a] = undone[a] + Count(a, poll[p].added) /\ undone[a] \in Nat
    BY <1>2 DEF NewsInv, NewsTypes
  <2>3. Owed(a)' = Owed(a) + Count(a, poll[p].added) /\ Owed(a) \in Int
    BY <1>2, <1>4, <2>2 DEF Owed
  <2>4. announced'[a] = announced[a] /\ announced[a] \in Int
    BY <1>2 DEF NewsInv, NewsTypes
  <2>. QED  BY <1>4, <2>1, <2>3, <2>4
<1>. QED
  BY <1>2, <1>3, <1>5, <1>6, <1>7, Accounted DEF NewsInv, NewsTypes
------------------------------------------------------------------------------
LEMMA NewsStart == NewsInit => NewsInv
<1>. SUFFICES ASSUME NewsInit  PROVE NewsInv
  OBVIOUS
<1>1. NewsTypes
  BY DEF NewsInit, NewsTypes, Polls
<1>2. Flushed
  BY DEF NewsInit, Flushed, IsFlushed, Asleep
<1>3. ASSUME NEW a \in Articles  PROVE announced[a] = Owed(a) + SumUp(Pending(a), Pollers)
  <2>1. PICK f : f = Pending(a)
    OBVIOUS
  <2>2. f = [p \in Pollers |-> 0]
    BY <2>1 DEF NewsInit, Pending
  <2>3. SumUp(f, Pollers) = 0
    BY <2>2, SumOfZeros, NewsConstants
  <2>. QED
    BY <2>1, <2>3 DEF NewsInit, Owed
<1>. QED
  BY <1>1, <1>2, <1>3 DEF NewsInv

LEMMA NewsStep == NewsInv /\ [NewsNext]_newsVars => NewsInv'
<1>1. ASSUME NewsInv, UNCHANGED newsVars  PROVE NewsInv'
  BY <1>1 DEF newsVars, NewsInv, NewsTypes, Flushed, IsFlushed, Insertable, Owed, Pending
<1>. QED
  BY <1>1, FetchKeeps, IngestKeeps, FlushKeeps, CommitNewsKeeps, FailureKeeps DEF NewsNext

(* The news poll announces an article once if it is stored and else not at all, *)
(* apart from what failed or open transactions announced.                      *)
THEOREM NewsAnnouncedOnce == NewsSpec => []AnnouncedAsStored
<1>1. NewsInv => AnnouncedAsStored
  BY DEF NewsInv, AnnouncedAsStored, Owed, SumUp, MapThenSumSet, MapThenFoldSet
<1>. QED
  BY <1>1, NewsStart, NewsStep, PTL DEF NewsSpec
==============================================================================
