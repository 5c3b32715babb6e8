------------------------------ MODULE EventBus ------------------------------
(***************************************************************************)
(* The in-process event bus (shared/events/bus.py): one bounded queue and  *)
(* one worker task per subscriber, publishers that never wait, a bounded   *)
(* dead-letter queue, and the join of a graceful stop.  A step is what a   *)
(* coroutine does between two awaits.                                      *)
(*                                                                         *)
(* Subscribers are their positions in _all_subs, events their publication  *)
(* numbers.  The counters delivered/errors and dropped of a subscription   *)
(* are modelled by the events they count.                                  *)
(***************************************************************************)
EXTENDS Integers, Sequences, SequencesExt

CONSTANTS N,           \* how many subscribers register in the end
          Topics,      \* event types
          Silent,      \* no event type: the handler publishes nothing
          Topic,       \* the event type a subscriber takes
          Emits,       \* the event type its handler publishes on success
          MaxQueue,    \* the bound of a subscriber's queue
          DlqSize,
          MaxEvents,   \* bound: events published from outside the handlers
          Healthy      \* the subscribers whose handlers always come to an end

Subs == 1 .. N

ASSUME BusConstants ==
    /\ N \in Nat
    /\ Silent \notin Topics
    /\ Topic \in [Subs -> Topics]
    /\ Emits \in [Subs -> Topics \cup {Silent}]
    /\ MaxQueue \in [Subs -> Nat \ {0}] /\ DlqSize \in Nat /\ MaxEvents \in Nat
    /\ Healthy \subseteq Subs

VARIABLES
    running,
    subscribed,   \* how many subscribers are registered
    published,
    queue,        \* by subscriber: the events waiting
    unfinished,   \* by subscriber: asyncio.Queue's count of tasks not done
    worker,       \* by subscriber: "none", "idle" (in get), "busy", "dead"
    handling,     \* by subscriber: the event the worker holds, 0 for none
    handled,      \* by subscriber: delivered, or failed with an exception
    dropped,      \* by subscriber: refused by the full queue
    cut,          \* by subscriber: in the handler when stop cancelled it
    dlq,          \* dead letters, oldest first
    joining,      \* 0, or the subscriber whose queue join() waits for
    quiet         \* nothing was published from outside since join() began

history == <<handled, dropped, cut>>
vars == <<running, subscribed, published, queue, unfinished, worker, handling, history, dlq,
          joining, quiet>>

Init ==
    /\ running = FALSE
    /\ subscribed = 0 /\ published = 0
    /\ queue = [s \in Subs |-> <<>>]
    /\ unfinished = [s \in Subs |-> 0]
    /\ worker = [s \in Subs |-> "none"]
    /\ handling = [s \in Subs |-> 0]
    /\ handled = [s \in Subs |-> {}]
    /\ dropped = [s \in Subs |-> {}]
    /\ cut = [s \in Subs |-> {}]
    /\ dlq = <<>>
    /\ joining = 0
    /\ quiet = FALSE
------------------------------------------------------------------------------
(* deque(maxlen=DlqSize): the oldest letters make room. *)
Newest(letters) ==
    IF Len(letters) <= DlqSize THEN letters
    ELSE SubSeq(letters, Len(letters) - DlqSize + 1, Len(letters))

Takes(s, topic)   == s <= subscribed /\ Topic[s] = topic

(* put_nowait succeeds, or raises QueueFull. *)
Accepts(s, topic) == Takes(s, topic) /\ Len(queue[s]) < MaxQueue[s]
Refuses(s, topic) == Takes(s, topic) /\ ~Accepts(s, topic)

(* The letters of one event, in the order of the subscribers. *)
Letters(topic, event) ==
    LET letter == [s \in Subs |-> [sub |-> s, event |-> event, reason |-> "queue_full"]]
    IN  SelectSeq([s \in Subs |-> letter[s]], LAMBDA l : Refuses(l.sub, topic))

(* publish: every matching queue gets the event, or the DLQ does.  The      *)
(* unfinished counts are left to the caller, which may also finish a task.  *)
Offer(topic) ==
    /\ published' = published + 1
    /\ queue' = [s \in Subs |-> IF Accepts(s, topic) THEN Append(queue[s], published + 1)
                                ELSE queue[s]]
    /\ dropped' = [s \in Subs |-> IF Refuses(s, topic) THEN dropped[s] \cup {published + 1}
                                  ELSE dropped[s]]
    /\ dlq' = Newest(dlq \o Letters(topic, published + 1))

Put(s, topic) == IF Accepts(s, topic) THEN 1 ELSE 0

(* A component publishes from outside the bus. *)
Publish(topic) ==
    /\ published < MaxEvents
    /\ Offer(topic)
    /\ unfinished' = [s \in Subs |-> unfinished[s] + Put(s, topic)]
    /\ quiet' = FALSE
    /\ UNCHANGED <<running, subscribed, worker, handling, handled, cut, joining>>

Subscribe ==
    LET s == subscribed + 1 IN
    /\ s <= N
    /\ subscribed' = s
    /\ worker' = [worker EXCEPT ![s] = IF running THEN "idle" ELSE "none"]
    /\ UNCHANGED <<running, published, queue, unfinished, handling, history, dlq, joining, quiet>>

(* start spawns only workers that never were: a stopped one stays dead. *)
Start ==
    /\ ~running
    /\ running' = TRUE
    /\ worker' = [s \in Subs |-> IF s <= subscribed /\ worker[s] = "none" THEN "idle"
                                 ELSE worker[s]]
    /\ UNCHANGED <<subscribed, published, queue, unfinished, handling, history, dlq, joining,
                   quiet>>

(* _worker: get ...  Mutant: the youngest event first. *)
TakeLast(s) ==
    /\ worker[s] = "idle"
    /\ queue[s] # <<>>
    /\ worker' = [worker EXCEPT ![s] = "busy"]
    /\ handling' = [handling EXCEPT ![s] = Last(queue[s])]
    /\ queue' = [queue EXCEPT ![s] = Front(@)]
    /\ UNCHANGED <<running, subscribed, published, unfinished, history, dlq, joining, quiet>>

Take(s) ==
    /\ worker[s] = "idle"
    /\ queue[s] # <<>>
    /\ worker' = [worker EXCEPT ![s] = "busy"]
    /\ handling' = [handling EXCEPT ![s] = Head(queue[s])]
    /\ queue' = [queue EXCEPT ![s] = Tail(@)]
    /\ UNCHANGED <<running, subscribed, published, unfinished, history, dlq, joining, quiet>>

(* ... the handler's outcome is counted ... *)
Settle(s) ==
    /\ worker[s] = "busy"
    /\ worker' = [worker EXCEPT ![s] = "idle"]
    /\ handling' = [handling EXCEPT ![s] = 0]
    /\ handled' = [handled EXCEPT ![s] = @ \cup {handling[s]}]
    /\ UNCHANGED <<running, subscribed, cut, joining, quiet>>

(* ... and task_done follows.  A handler that publishes does so at its end. *)
HandlerReturns(s) ==
    /\ Settle(s)
    /\ IF Emits[s] = Silent
       THEN /\ unfinished' = [unfinished EXCEPT ![s] = @ - 1]
            /\ UNCHANGED <<published, queue, dropped, dlq>>
       ELSE /\ Offer(Emits[s])
            /\ unfinished' = [t \in Subs |-> unfinished[t] + Put(t, Emits[s])
                                             - (IF t = s THEN 1 ELSE 0)]

(* Mutant: the exception ends the worker. *)
FailsForGood(s) ==
    /\ worker[s] = "busy"
    /\ worker' = [worker EXCEPT ![s] = "dead"]
    /\ handling' = [handling EXCEPT ![s] = 0]
    /\ handled' = [handled EXCEPT ![s] = @ \cup {handling[s]}]
    /\ unfinished' = [unfinished EXCEPT ![s] = @ - 1]
    /\ dlq' = Newest(Append(dlq, [sub |-> s, event |-> handling[s], reason |-> "handler_error"]))
    /\ UNCHANGED <<running, subscribed, published, queue, dropped, cut, joining, quiet>>

(* Mutant: a failed event goes back into the queue. *)
FailsRequeued(s) ==
    /\ Settle(s)
    /\ Len(queue[s]) < MaxQueue[s]
    /\ queue' = [queue EXCEPT ![s] = Append(@, handling[s])]
    /\ UNCHANGED <<published, dropped, unfinished, dlq>>

HandlerFails(s) ==
    /\ Settle(s)
    /\ unfinished' = [unfinished EXCEPT ![s] = @ - 1]
    /\ dlq' = Newest(Append(dlq, [sub |-> s, event |-> handling[s], reason |-> "handler_error"]))
    /\ UNCHANGED <<published, queue, dropped>>

(* Cancelled in its handler, a worker calls task_done twice; the second     *)
(* call raises ValueError if nothing is left to be done.                    *)
TwiceDone(count) == IF count >= 2 THEN count - 2 ELSE 0

(* stop cancels every worker, busy or not. *)
Stop ==
    /\ running
    /\ running' = FALSE
    /\ worker' = [s \in Subs |-> IF worker[s] = "none" THEN "none" ELSE "dead"]
    /\ cut' = [s \in Subs |-> IF worker[s] = "busy" THEN cut[s] \cup {handling[s]} ELSE cut[s]]
    /\ unfinished' = [s \in Subs |-> IF worker[s] = "busy" THEN TwiceDone(unfinished[s])
                                     ELSE unfinished[s]]
    /\ handling' = [s \in Subs |-> 0]
    /\ UNCHANGED <<subscribed, published, queue, handled, dropped, dlq, joining, quiet>>

(* reset: stop, then forget every subscription and count. *)
Reset ==
    /\ joining = 0
    /\ running' = FALSE
    /\ subscribed' = 0 /\ published' = 0
    /\ queue' = [s \in Subs |-> <<>>]
    /\ unfinished' = [s \in Subs |-> 0]
    /\ worker' = [s \in Subs |-> "none"]
    /\ handling' = [s \in Subs |-> 0]
    /\ handled' = [s \in Subs |-> {}]
    /\ dropped' = [s \in Subs |-> {}]
    /\ cut' = [s \in Subs |-> {}]
    /\ dlq' = <<>>
    /\ UNCHANGED <<joining, quiet>>

(* join waits for the queues one after the other, or times out. *)
JoinBegin ==
    /\ joining = 0
    /\ joining' = 1
    /\ quiet' = TRUE
    /\ UNCHANGED <<running, subscribed, published, queue, unfinished, worker, handling, history,
                   dlq>>

(* Mutant: an empty queue is taken for a finished one. *)
JoinNextWhenEmpty ==
    /\ joining \in 1 .. subscribed
    /\ queue[joining] = <<>>
    /\ joining' = joining + 1
    /\ UNCHANGED <<running, subscribed, published, queue, unfinished, worker, handling, history,
                   dlq, quiet>>

JoinNext ==
    /\ joining \in 1 .. subscribed
    /\ unfinished[joining] = 0
    /\ joining' = joining + 1
    /\ UNCHANGED <<running, subscribed, published, queue, unfinished, worker, handling, history,
                   dlq, quiet>>

(* It returns after the last queue, or, just as silently, on its timeout. *)
JoinReturns ==
    /\ joining > 0
    /\ joining' = 0
    /\ quiet' = FALSE
    /\ UNCHANGED <<running, subscribed, published, queue, unfinished, worker, handling, history,
                   dlq>>
------------------------------------------------------------------------------
Work(s) == Take(s) \/ HandlerReturns(s) \/ HandlerFails(s)

Next ==
    \/ \E topic \in Topics : Publish(topic)
    \/ Subscribe \/ Start \/ Stop \/ Reset
    \/ \E s \in Subs : Work(s)
    \/ JoinBegin \/ JoinNext \/ JoinReturns

Spec == Init /\ [][Next]_vars
------------------------------------------------------------------------------
Busy(s) == IF worker[s] = "busy" THEN 1 ELSE 0

TypeOK ==
    /\ running \in BOOLEAN /\ quiet \in BOOLEAN
    /\ subscribed \in 0 .. N /\ published \in Nat
    /\ queue \in [Subs -> Seq(Nat)] /\ \A s \in Subs : Len(queue[s]) <= MaxQueue[s]
    /\ unfinished \in [Subs -> Nat]
    /\ worker \in [Subs -> {"none", "idle", "busy", "dead"}]
    /\ handling \in [Subs -> Nat]
    /\ handled \in [Subs -> SUBSET Nat] /\ dropped \in [Subs -> SUBSET Nat]
    /\ cut \in [Subs -> SUBSET Nat]
    /\ dlq \in Seq([sub : Subs, event : Nat, reason : {"queue_full", "handler_error"}])
    /\ Len(dlq) <= DlqSize
    /\ joining \in 0 .. N + 1

Waiting(s) == ToSet(queue[s]) \cup (IF worker[s] = "busy" THEN {handling[s]} ELSE {})

(* No subscriber ever gets an event twice, and none is both refused and     *)
(* handled: an event is waiting, handled, dropped or cut short, one of them *)
(* only, whatever handlers raise and whenever the bus is stopped.           *)
OnceEach ==
    \A s \in Subs :
        /\ \A i, j \in DOMAIN queue[s] : i # j => queue[s][i] # queue[s][j]
        /\ worker[s] = "busy" => handling[s] \notin ToSet(queue[s])
        /\ Waiting(s) \cap (handled[s] \cup dropped[s] \cup cut[s]) = {}
        /\ handled[s] \cap (dropped[s] \cup cut[s]) = {}
        /\ dropped[s] \cap cut[s] = {}

(* A subscriber's handler sees the events in the order of publication, also *)
(* across drops, failures, stops and restarts.                              *)
InOrder ==
    \A s \in Subs : \A e \in handled[s] \cup cut[s], w \in Waiting(s) : e < w

(* asyncio.Queue's count, which join() relies on, is the number of events   *)
(* that wait or are handled, as long as no handler was cancelled.           *)
CountExact ==
    \A s \in Subs : cut[s] = {} => unfinished[s] = Len(queue[s]) + Busy(s)

(* join() "waits until all subscriber queues are drained" although it looks *)
(* at one after the other: if nothing is published from outside meanwhile,  *)
(* and handlers publish only to subscribers behind them (the feed registers *)
(* the indicator engine before the forwarders of its results), no queue it  *)
(* has left behind fills again.                                             *)
EmitsForward == \A s, t \in Subs : Emits[s] = Topic[t] => s < t
Drained(s)   == queue[s] = <<>> /\ worker[s] # "busy"
JoinDrains ==
    EmitsForward /\ quiet =>
        \A s \in Subs : s < joining /\ cut[s] = {} => Drained(s)

(* One slow or failing consumer is isolated: the event loop runs every task *)
(* that can run, so a subscriber whose handler always ends gets each of its *)
(* events handled, although other handlers raise, or never end at all.      *)
Fairness == \A s \in Healthy : WF_vars(Work(s))
FairSpec == Spec /\ Fairness

Isolation ==
    \A s \in Healthy : \A e \in 1 .. MaxEvents :
        /\ running /\ worker[s] \in {"idle", "busy"} /\ e \in Waiting(s)
        ~> e \in handled[s] \/ ~running
=============================================================================
