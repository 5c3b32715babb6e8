----------------------------- MODULE ResilientWS -----------------------------
(* The reusable WebSocket client of provider feeds: the connect-and-serve loop, *)
(* the subscriptions that outlive connections, the bounded queue between the    *)
(* receiving and the processing task, and callers that subscribe, unsubscribe,  *)
(* stop and run at any moment. A message is its number.                        *)
EXTENDS Naturals, Sequences

CONSTANTS Symbols,
          MaxQueue,
          Nothing,
          MaxNamed,                \* bound: how often one call names a symbol
          MaxMessages, MaxLinks    \* bounds

(* A queue of asyncio with maxsize zero would be unbounded; here it never is.   *)
ASSUME ClientConstants == MaxQueue \in Nat \ {0} /\ MaxNamed \in Nat

VARIABLES
    phase,      \* of run(): "ended" (or not begun), "connecting", "subscribing",
                \* "serving", "backoff"
    running,
    transport,  \* _transport is set; after a failed resubscription it stays so
    link,       \* the connection of that transport carries messages
    server,     \* symbol -> how often the far end holds it subscribed on this link:
                \* not at all, once, or more often (2)
    wanted,     \* _subscriptions
    messages,   \* _queue
    inHand,     \* the message whose handler runs, or Nothing
    received, links,    \* counted for the bounds
    handled,    \* history: the messages handed on, in order
    unsure,     \* history: symbols of a send that raised on this link
    twice       \* history: symbols that a call since the last connect named twice
clientState == <<phase, running, transport, link>>
farEnd == <<server, unsure, twice>>
mail == <<messages, inHand, received, handled>>
clientVars == <<clientState, farEnd, wanted, mail, links>>

ClientInit ==
    /\ phase = "ended" /\ running = FALSE /\ transport = FALSE /\ link = FALSE
    /\ server = [s \in Symbols |-> 0] /\ wanted = {} /\ unsure = {} /\ twice = {}
    /\ messages = <<>> /\ inHand = Nothing /\ received = 0 /\ handled = <<>> /\ links = 0

(* _send: without a transport nothing is sent. A send that raises, or whose      *)
(* caller is cancelled, on a dead link or a live one, may have gone out or not;  *)
(* nobody sends it again on this link.                                         *)
Sends(symbols, after) ==
    LET told == [s \in Symbols |-> IF s \in symbols THEN after[s] ELSE server[s]]
    IN  \/ ~transport /\ UNCHANGED <<server, unsure>>
        \/ transport /\ link /\ server' = told /\ UNCHANGED unsure
        \/ transport /\ server' \in {server, told} /\ unsure' = unsure \cup symbols

(* A call names a list of symbols; list[s] is how often s stands in it. The      *)
(* list is filtered before the set is updated, so what is new and stands in it   *)
(* twice is sent twice.                                                        *)
Named(list) == {s \in Symbols : list[s] > 0}
New(list) == Named(list) \ wanted
More(n, k) == IF n + k > 2 THEN 2 ELSE n + k
Subscribe ==
    /\ \E list \in [Symbols -> 0 .. MaxNamed] :
         /\ New(list) # {}
         /\ wanted' = wanted \cup New(list)
         /\ twice' = twice \cup {s \in New(list) : list[s] > 1}
         /\ Sends(New(list), [s \in Symbols |-> More(server[s], list[s])])
    /\ UNCHANGED <<clientState, mail, links>>
Unsubscribe ==
    /\ \E symbols \in SUBSET wanted \ {{}} :
         /\ wanted' = wanted \ symbols
         /\ Sends(symbols, [s \in Symbols |-> 0])
    /\ UNCHANGED <<clientState, twice, mail, links>>

Run ==
    /\ phase = "ended" /\ links < MaxLinks
    /\ phase' = "connecting" /\ running' = TRUE
    /\ UNCHANGED <<transport, link, farEnd, wanted, mail, links>>
(* stop closes the transport, which makes recv raise.                          *)
Stop ==
    /\ running /\ running' = FALSE
    /\ link' = (link /\ ~transport)
    /\ UNCHANGED <<phase, transport, farEnd, wanted, mail, links>>

(* An exception is followed by a backoff, unless the client was stopped; a      *)
(* cancellation ends run itself.                                               *)
Leaves == phase' \in {"ended"} \cup (IF running THEN {"backoff"} ELSE {})

ConnectFails ==
    /\ phase = "connecting"
    /\ Leaves
    /\ UNCHANGED <<running, transport, link, farEnd, wanted, mail, links>>
(* The factory answers with a new link, on which all that is wanted at that     *)
(* moment is sent again, each symbol once. The old transport is forgotten.      *)
Connect ==
    /\ phase = "connecting" /\ links < MaxLinks /\ links' = links + 1
    /\ server' = [s \in Symbols |-> IF s \in wanted THEN 1 ELSE 0]
    /\ unsure' = {} /\ twice' = {}
    /\ phase' = "subscribing" /\ transport' = TRUE /\ link' = TRUE
    /\ UNCHANGED <<running, wanted, mail>>
(* If that send fails nothing is closed or forgotten: the link may be alive,    *)
(* and callers send on it until the next one.                                  *)
ResubscribeFails ==
    /\ phase = "subscribing" /\ wanted # {}
    /\ Leaves
    /\ link' \in {link, FALSE}
    /\ server' \in {server, [s \in Symbols |-> IF s \in wanted THEN 0 ELSE server[s]]}
    /\ unsure' = unsure \cup wanted
    /\ UNCHANGED <<running, transport, twice, wanted, mail, links>>
(* A client stopped meanwhile starts its tasks, which end at once.             *)
Serve ==
    /\ phase = "subscribing"
    /\ phase' = IF running THEN "serving" ELSE "ended"
    /\ transport' = (transport /\ running) /\ link' = (link /\ running)
    /\ UNCHANGED <<running, farEnd, wanted, mail, links>>
BackoffEnds ==
    /\ phase = "backoff"
    /\ phase' \in {"ended"} \cup (IF running THEN {"connecting"} ELSE {})
    /\ UNCHANGED <<running, transport, link, farEnd, wanted, mail, links>>

LinkDrops ==
    /\ link /\ link' = FALSE
    /\ UNCHANGED <<phase, running, transport, farEnd, wanted, mail, links>>
(* recv or a heartbeat raises, also on a live link, or run is cancelled: the    *)
(* tasks are cancelled, with the handler of the message in hand, and the        *)
(* transport is closed; the queue is kept.                                     *)
ServingFails ==
    /\ phase = "serving"
    /\ Leaves
    /\ transport' = FALSE /\ link' = FALSE /\ inHand' = Nothing
    /\ UNCHANGED <<running, farEnd, wanted, messages, received, handled, links>>

(* Mutant: a message that finds the queue full is put in front of it.           *)
ReceiveRotating ==
    /\ phase = "serving" /\ link /\ received < MaxMessages
    /\ received' = received + 1
    /\ messages' = IF Len(messages) = MaxQueue
                   THEN <<received + 1>> \o SubSeq(messages, 2, MaxQueue)
                   ELSE Append(messages, received + 1)
    /\ UNCHANGED <<clientState, farEnd, wanted, inHand, handled, links>>

(* _receive_loop: a full queue gives up its oldest message.                    *)
ReceiveMessage ==
    /\ phase = "serving" /\ link /\ received < MaxMessages
    /\ received' = received + 1
    /\ messages' = Append(IF Len(messages) = MaxQueue THEN Tail(messages) ELSE messages, received + 1)
    /\ UNCHANGED <<clientState, farEnd, wanted, inHand, handled, links>>
(* _process_loop: an exception of the handler is logged.                       *)
TakeMessage ==
    /\ phase = "serving" /\ inHand = Nothing /\ messages # <<>>
    /\ inHand' = Head(messages) /\ messages' = Tail(messages)
    /\ handled' = Append(handled, inHand')
    /\ UNCHANGED <<clientState, farEnd, wanted, received, links>>
HandlerEnds ==
    /\ inHand # Nothing /\ inHand' = Nothing
    /\ UNCHANGED <<clientState, farEnd, wanted, messages, received, handled, links>>

ClientNext ==
    \/ Subscribe \/ Unsubscribe \/ Run \/ Stop
    \/ ConnectFails \/ Connect \/ ResubscribeFails \/ Serve \/ BackoffEnds
    \/ LinkDrops \/ ServingFails \/ ReceiveMessage \/ TakeMessage \/ HandlerEnds
ClientSpec == ClientInit /\ [][ClientNext]_clientVars

-----------------------------------------------------------------------------
(* The subscriptions survive reconnects: whatever was asked for while the link   *)
(* was down, coming up, failing to resubscribe or alive, the far end of a live   *)
(* link holds exactly what is wanted, but for symbols of a send that raised on   *)
(* that link; and it holds none of them twice, unless one call named it twice.   *)
SubscriptionsAgree ==
    transport /\ link =>
        /\ \A s \in Symbols \ unsure : server[s] > 0 <=> s \in wanted
        /\ \A s \in Symbols \ (unsure \cup twice) : server[s] <= 1

(* The messages of all links reach the handler in order, none of them twice,     *)
(* whichever the full queue gives up and whichever handler a crash cancels.     *)
HandledInOrder == \A i, j \in DOMAIN handled : i < j => handled[i] < handled[j]
=============================================================================
