------------------------------ MODULE Realtime ------------------------------
(* From the feed to a browser: events forwarded to the Redis stream, the API   *)
(* worker's consumer that reads them back into its bus, and the WebSocket      *)
(* gateway that fans them out. The bus is module EventBus's; here it is one    *)
(* queue per event type. A message is [channel, id], id the stream entry's.    *)
EXTENDS Naturals, Sequences, FiniteSets, SequencesExt

CONSTANTS Clients,
          Tickets,     \* the random strings of ws-ticket
          Events,      \* [kind, symbol]
          IndexSymbols,\* channels.INDEX_SYMBOLS
          Wanted,      \* sets of channels one message of a client may name
          StreamMax,   \* _MAXLEN
          ReadCount,   \* count of XREAD
          BusSize,     \* of a subscriber's queue on the bus
          QueueSize,   \* Connection.queue
          MaxEvents, MaxFaults,    \* bounds: entries ever added, failures
          None

ASSUME RealtimeConstants == None \notin Nat /\ ReadCount \in Nat /\ StreamMax \in Nat

VARIABLES
    log,        \* every event ever added to the stream; its entry's id is its index
    trimmed,    \* the entries up to this id are no longer in Redis
    cursor,     \* _last_id: None for "$"
    reading,    \* None, or the id the blocked XREAD wants to see exceeded
    bus,        \* event kind -> entries waiting for the gateway's handler
    tickets,    \* the keys ws:ticket:* in Redis
    conn,       \* client -> None, or its connection
    faults,
    dispatched, missed, spent     \* history: ids dispatched; trimmed unread; used tickets
streamVars == <<log, trimmed, cursor, reading, missed>>
socketVars == <<tickets, conn, spent>>
rtVars == <<streamVars, bus, socketVars, faults, dispatched>>

Forwardable == {"quote", "indicator", "option_chain", "news", "status"}
Handled == {"quote", "indicator", "option_chain", "news"}
Registered == Forwardable \cup {"candle"}

NoClients == [c \in Clients |-> None]
EmptyBus == [k \in Handled |-> <<>>]

(* EventStreamBridge(): a process starts with no clients and reads from "$".   *)
RealtimeInit ==
    /\ log = <<>> /\ trimmed = 0 /\ faults = 0
    /\ cursor = None /\ reading = None /\ dispatched = {} /\ missed = {}
    /\ bus = EmptyBus /\ conn = NoClients
    /\ tickets = {} /\ spent = {}

Fault == faults < MaxFaults /\ faults' = faults + 1

-----------------------------------------------------------------------------
(* The feed's side. forward: XADD with an approximate MAXLEN, which trims the  *)
(* oldest entries, or fewer; an event that is not forwardable, or whose XADD    *)
(* fails, is not added.                                                        *)
Unread(id) == cursor = None \/ id > cursor
Forward ==
    /\ Len(log) < MaxEvents
    /\ \E e \in Events :
         /\ e.kind \in Forwardable \cup {"other"}    \* "other": another version's type
         /\ log' = Append(log, e)
         /\ \E t \in trimmed .. Len(log') :
              /\ t = trimmed \/ t <= Len(log') - StreamMax
              /\ trimmed' = t
              /\ missed' = missed \cup {i \in trimmed + 1 .. t : Unread(i)}
    /\ UNCHANGED <<cursor, reading, bus, socketVars, faults, dispatched>>

(* consume_once blocks in XREAD after _last_id; "$" is resolved by this call.  *)
Read ==
    /\ reading = None
    /\ reading' = IF cursor = None THEN Len(log) ELSE cursor
    /\ UNCHANGED <<log, trimmed, cursor, missed, bus, socketVars, faults, dispatched>>

(* The block time passes without an entry, and the loop asks again.            *)
ReadTimesOut ==
    /\ reading # None /\ reading >= Len(log)
    /\ reading' = None
    /\ UNCHANGED <<log, trimmed, cursor, missed, bus, socketVars, faults, dispatched>>

(* XREAD raises: the consumer task ends, and the supervisor starts it again    *)
(* over the same bridge.                                                       *)
ConsumerCrashesAnew ==
    /\ Fault /\ reading # None
    /\ reading' = None /\ cursor' = None
    /\ UNCHANGED <<log, trimmed, missed, bus, socketVars, dispatched>>
ConsumerCrashes ==
    /\ Fault /\ reading # None
    /\ reading' = None
    /\ UNCHANGED <<log, trimmed, cursor, missed, bus, socketVars, dispatched>>

(* _deserialize and the loop over one batch, which does not await: the id moves *)
(* on with every entry, an unknown type is skipped, the rest are published; a   *)
(* full queue of the bus drops the event.                                      *)
Readable(e) == e.kind \in Registered
Publish(queues, ids) ==
    LET after[n \in 0 .. Len(ids)] ==
            IF n = 0 THEN queues
            ELSE [k \in Handled |->
                    IF log[ids[n]].kind = k /\ Len(after[n - 1][k]) < BusSize
                    THEN Append(after[n - 1][k], ids[n]) ELSE after[n - 1][k]]
    IN  after[Len(ids)]
Batch(n) == [k \in 1 .. n |-> (IF reading < trimmed THEN trimmed ELSE reading) + k]
ConsumeFromFirst ==
    /\ reading # None
    /\ \E n \in 1 .. ReadCount :
         LET ids == Batch(n)
         IN  /\ Last(ids) <= Len(log)
             /\ cursor' = ids[1]
             /\ dispatched' = dispatched \cup {i \in Range(ids) : Readable(log[i])}
             /\ bus' = Publish(bus, ids)
    /\ reading' = None
    /\ UNCHANGED <<log, trimmed, missed, socketVars, faults>>
Consume ==
    /\ reading # None
    /\ \E n \in 1 .. ReadCount :
         LET ids == Batch(n)
         IN  /\ Last(ids) <= Len(log)
             /\ cursor' = Last(ids)
             /\ dispatched' = dispatched \cup {i \in Range(ids) : Readable(log[i])}
             /\ bus' = Publish(bus, ids)
    /\ reading' = None
    /\ UNCHANGED <<log, trimmed, missed, socketVars, faults>>

-----------------------------------------------------------------------------
(* The gateway. _on_quote, _on_indicator, _on_option_chain, _on_news           *)
ChannelsOf(e) ==
    CASE e.kind = "quote" -> <<<<"quotes", e.symbol>>, <<"quotes">>>>
                              \o (IF e.symbol \in IndexSymbols THEN <<<<"indices">>>> ELSE <<>>)
      [] e.kind \in {"indicator", "option_chain"} -> <<<<e.kind, e.symbol>>>>
      [] e.kind = "news" -> <<<<"news">>>>

Open(c) == conn[c] # None /\ conn[c].stage = "open"

(* ConnectionManager.broadcast: a full queue drops the message, for its client. *)
Offered(x, id, channels) ==
    LET after[n \in 0 .. Len(channels)] ==
            IF n = 0 THEN x.queue
            ELSE IF channels[n] \in x.channels /\ Len(after[n - 1]) < QueueSize
            THEN Append(after[n - 1], [channel |-> channels[n], id |-> id]) ELSE after[n - 1]
    IN  after[Len(channels)]
Broadcast(k) ==
    /\ bus[k] # <<>>
    /\ LET id == Head(bus[k])
       IN  conn' = [c \in Clients |-> IF Open(c)
                        THEN [conn[c] EXCEPT !.queue = Offered(conn[c], id, ChannelsOf(log[id]))]
                        ELSE conn[c]]
    /\ bus' = [bus EXCEPT ![k] = Tail(@)]
    /\ UNCHANGED <<streamVars, tickets, spent, faults, dispatched>>

(* issue_ticket, and the end of its thirty seconds                             *)
IssueTicket ==
    /\ \E t \in Tickets : t \notin spent /\ tickets' = tickets \cup {t}
    /\ UNCHANGED <<streamVars, bus, conn, spent, faults, dispatched>>
TicketExpires ==
    /\ \E t \in tickets : tickets' = tickets \ {t}
    /\ UNCHANGED <<streamVars, bus, conn, spent, faults, dispatched>>

(* market_ws as far as consume_ticket, an atomic GETDEL: a ticket Redis does   *)
(* not hold gets close code 4401, and so does one whose answer is lost.        *)
OpenSocket(c, t) ==
    /\ conn[c] = None /\ t \in tickets
    /\ tickets' = tickets \ {t}
    /\ \/ /\ conn' = [conn EXCEPT ![c] = [stage |-> "accepting"]]
          /\ spent' = spent \cup {t}
          /\ UNCHANGED faults
       \/ Fault /\ UNCHANGED <<conn, spent>>
    /\ UNCHANGED <<streamVars, bus, dispatched>>

(* ConnectionManager.connect and the sender task; accept fails if the peer left. *)
Accept(c) ==
    /\ conn[c] # None /\ conn[c].stage = "accepting"
    /\ \/ conn' = [conn EXCEPT ![c] = [stage |-> "open", channels |-> {}, queue |-> <<>>,
                                       sender |-> "running", gone |-> FALSE, sent |-> <<>>]]
       \/ conn' = [conn EXCEPT ![c] = None]
    /\ UNCHANGED <<streamVars, bus, tickets, spent, faults, dispatched>>

(* The receive loop: subscribe, unsubscribe (a ping changes nothing).          *)
Receive(c) ==
    /\ Open(c) /\ ~conn[c].gone
    /\ \E chans \in Wanted : conn' = [conn EXCEPT ![c].channels = @ \cup chans]
                          \/ conn' = [conn EXCEPT ![c].channels = @ \ chans]
    /\ UNCHANGED <<streamVars, bus, tickets, spent, faults, dispatched>>

(* _sender_loop: the first queued message goes out; a send to a peer that has   *)
(* gone raises and ends the task, and nobody looks at its result.              *)
SendOne(c) ==
    /\ Open(c) /\ conn[c].sender = "running" /\ conn[c].queue # <<>>
    /\ conn' = [conn EXCEPT ![c].queue = Tail(@),
                            ![c].sender = IF conn[c].gone THEN "dead" ELSE @,
                            ![c].sent = IF conn[c].gone THEN @ ELSE Append(@, Head(conn[c].queue))]
    /\ UNCHANGED <<streamVars, bus, tickets, spent, faults, dispatched>>

(* The peer vanishes; receive_json learns of it later (external: the server's  *)
(* ping) and raises, and the finally clause cancels the sender and leaves. A    *)
(* message that is not JSON ends the loop the same way: a Vanish that HangUp    *)
(* follows at once.                                                            *)
Vanish(c) ==
    /\ Open(c) /\ ~conn[c].gone
    /\ conn' = [conn EXCEPT ![c].gone = TRUE]
    /\ UNCHANGED <<streamVars, bus, tickets, spent, faults, dispatched>>
HangUp(c) ==
    /\ Open(c) /\ conn[c].gone
    /\ conn' = [conn EXCEPT ![c] = None]
    /\ UNCHANGED <<streamVars, bus, tickets, spent, faults, dispatched>>

(* The API process stops, by lifespan or by a crash, and starts again.         *)
Restart ==
    /\ Fault
    /\ cursor' = None /\ reading' = None /\ dispatched' = {} /\ missed' = {}
    /\ bus' = EmptyBus /\ conn' = NoClients
    /\ UNCHANGED <<log, trimmed, tickets, spent>>

RealtimeNext ==
    \/ Forward \/ Read \/ ReadTimesOut \/ ConsumerCrashes \/ Consume \/ Restart
    \/ \E k \in Handled : Broadcast(k)
    \/ IssueTicket \/ TicketExpires
    \/ \E c \in Clients : \/ \E t \in Tickets : OpenSocket(c, t)
                          \/ Accept(c) \/ Receive(c) \/ SendOne(c) \/ Vanish(c) \/ HangUp(c)

RealtimeSpec == RealtimeInit /\ [][RealtimeNext]_rtVars

-----------------------------------------------------------------------------
(* What one connection was sent or is about to be sent on one channel is in the *)
(* order of the stream and without repetition, whatever the consumer did.      *)
Line(c) == conn[c].sent \o conn[c].queue
InOrder(line) ==
    \A i, j \in DOMAIN line :
        i < j /\ line[i].channel = line[j].channel => line[i].id < line[j].id
StreamInOrder == \A c \in Clients : Open(c) => InOrder(Line(c))

(* From the first entry an API process has read, it skips none that it can     *)
(* read, through any crash of its consumer, unless Redis trimmed it unread.    *)
NothingSkipped ==
    \A first \in dispatched : \A i \in first .. (IF cursor = None THEN Len(log) ELSE cursor) :
        i \in dispatched \cup missed \/ ~Readable(log[i])
=============================================================================
