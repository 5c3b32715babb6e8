----------------------------- MODULE FeedProcess -----------------------------
(***************************************************************************)
(* One feed process that ingests from Zerodha: the start and stop of       *)
(* feed/service.py, its supervised loops, and the connection of            *)
(* broker/provider.py with its callbacks from the ticker's thread and its  *)
(* scheduled reconnects.  The broker's token row is written by the API.    *)
(* A fallen-back process ingests from the simulated provider, whose stream *)
(* never drops.  Delays of the reconnects are any finite ones.  Of the     *)
(* supervised loops, quote_stream and session_watch are modelled: to the   *)
(* supervisor the others beat and crash as quote_stream does.              *)
(***************************************************************************)
EXTENDS Supervisor, FiniteSets

CONSTANTS Stream, Watcher,  \* the tasks quote_stream and session_watch
          Configured,       \* the setting market_provider
          HasKey,           \* whether broker_enc_key is set
          Nap,              \* ticks between two watchdog calls
          MaxTickers,       \* bound: tickers alive at a time
          MaxPending,       \* bound: reconnects scheduled at a time
          QueueSize         \* the provider's queue of quotes

ASSUME FeedConstants ==
    /\ {Stream, Watcher} \subseteq Tasks /\ Stream # Watcher
    /\ Configured \in {"zerodha", "simulated"} /\ HasKey \in BOOLEAN
    /\ Nap \in Nat /\ MaxTickers \in Nat \ {0}
    /\ MaxPending \in Nat \ {0} /\ QueueSize \in Nat \ {0}

VARIABLES
    phase,      \* of the process: "off", "connecting", "syncing", "up",
                \* "stopping", "stopped", "failed"
    provider,   \* "none", "simulated", "zerodha"
    token,      \* the token attached to the provider
    ticker,     \* by id: "free", "opening", "up", "closing"
    told,       \* by id: whether the ticker was sent the instrument tokens
    current,    \* _ticker, 0 for None
    connected,  \* is_connected of the provider
    closing,    \* _stopping
    pending,    \* scheduled _reconnect tasks that still sleep
    queued,     \* quotes in the provider's queue
    openFailed  \* history: the last _open_ticker of a reconnect raised

conn == <<ticker, told, current, connected, closing, pending, queued, openFailed>>
vars == <<svars, phase, provider, token, conn>>

Ids == 1 .. MaxTickers
Rows == {"none", "valid", "expired", "unreadable"}
Alive(k) == ticker[k] \in {"opening", "up"}
InProcess == phase \notin {"off", "failed"}

Fresh ==
    /\ provider' = "none" /\ token' = "none"
    /\ ticker' = [k \in Ids |-> "free"] /\ told' = [k \in Ids |-> FALSE]
    /\ current' = 0 /\ connected' = FALSE /\ closing' = FALSE
    /\ pending' = 0 /\ queued' = 0 /\ openFailed' = FALSE

Init ==
    /\ SInit
    /\ phase = "off" /\ provider = "none"
    /\ token = "none"
    /\ ticker = [k \in Ids |-> "free"] /\ told = [k \in Ids |-> FALSE]
    /\ current = 0 /\ connected = FALSE /\ closing = FALSE
    /\ pending = 0 /\ queued = 0 /\ openFailed = FALSE
------------------------------------------------------------------------------
(* The provider.                                                           *)

(* _open_ticker: the ticker before it, if any, is only forgotten.          *)
Opens(k) ==
    /\ ticker[k] = "free"
    /\ Set(ticker, k, "opening")
    /\ current' = k

(* subscribe and set_mode of a ticker: a dead one forgets. *)
Told(k) == IF k # 0 /\ Alive(k) THEN [told EXCEPT ![k] = TRUE] ELSE told

(* _on_connect: the mode goes to the current ticker, whoever called.       *)
OnConnect(k) ==
    /\ InProcess
    /\ ticker[k] = "opening" /\ token = "valid"
    /\ Set(ticker, k, "up")
    /\ connected' = TRUE
    /\ told' = Told(current)
    /\ UNCHANGED <<svars, phase, provider, token, current, closing, pending, queued, openFailed>>

Closed(k) ==
    /\ Set(ticker, k, "free") /\ Set(told, k, FALSE)
    /\ connected' = FALSE
    /\ UNCHANGED <<svars, phase, provider, token, current, closing, queued, openFailed>>

(* _on_close: the same for every ticker, current or not.                   *)
OnClose(k) ==
    /\ InProcess
    /\ ticker[k] # "free"
    /\ Closed(k)
    /\ IF closing THEN UNCHANGED pending
       ELSE pending < MaxPending /\ pending' = pending + 1

(* Mutant: a reconnect that finds the provider closed by an earlier        *)
(* disconnect is the only one that opens.                                  *)
ReconnectIfConnected ==
    /\ InProcess /\ pending > 0
    /\ pending' = pending - 1
    /\ IF closing \/ ~connected THEN UNCHANGED <<ticker, current, openFailed>>
       ELSE (\E k \in Ids : Opens(k)) /\ openFailed' = FALSE
    /\ UNCHANGED <<svars, phase, provider, token, told, connected, closing, queued>>

(* Mutant: every close starts a loop of reconnects instead of one.         *)
ReconnectAgain ==
    /\ InProcess /\ pending > 0 /\ ~closing
    /\ \E k \in Ids : Opens(k)
    /\ openFailed' = FALSE
    /\ UNCHANGED <<svars, phase, provider, token, told, connected, closing, pending, queued>>

(* _reconnect once its sleep is over: an error is logged, and that is all. *)
Reconnect ==
    /\ InProcess /\ pending > 0
    /\ pending' = pending - 1
    /\ \/ closing /\ UNCHANGED <<ticker, current, openFailed>>
       \/ ~closing /\ (\E k \in Ids : Opens(k)) /\ openFailed' = FALSE
       \/ ~closing /\ openFailed' = TRUE /\ UNCHANGED <<ticker, current>>
    /\ UNCHANGED <<svars, phase, provider, token, told, connected, closing, queued>>

(* _on_ticks and _enqueue: a full queue gives up its oldest quote.         *)
OnTicks(k) ==
    /\ InProcess
    /\ ticker[k] = "up" /\ told[k]
    /\ queued' = Shorter(queued + 1, QueueSize)
    /\ UNCHANGED <<svars, phase, provider, token, ticker, told, current, connected, closing, pending, openFailed>>
------------------------------------------------------------------------------
(* The start and the stop of the process.                                  *)

(* _ensure_provider and _load_broker_token.  The row is what the API's     *)
(* login and logout, the expiry at 07:30 and a change of the key left:     *)
(* one that another key encrypted raises.                                  *)
EnsureProvider(row) ==
    LET reads == Configured = "zerodha" /\ HasKey
    IN  /\ phase = "off"
        /\ \/ reads /\ row = "unreadable" /\ phase' = "failed" /\ UNCHANGED <<provider, token>>
           \/ reads /\ row = "valid" /\ phase' = "connecting" /\ provider' = "zerodha" /\ token' = "valid"
           \/ /\ ~reads \/ row \in {"none", "expired"}
              /\ phase' = "connecting" /\ provider' = "simulated" /\ UNCHANGED token
        /\ UNCHANGED <<svars, conn>>

(* provider.connect: instruments first, over HTTP.                         *)
Connect ==
    /\ phase = "connecting"
    /\ \/ /\ provider = "zerodha"
          /\ \E k \in Ids : Opens(k)
          /\ phase' = "syncing"
          /\ UNCHANGED connected
       \/ /\ provider = "simulated"
          /\ connected' = TRUE
          /\ phase' = "syncing"
          /\ UNCHANGED <<ticker, current>>
       \/ /\ provider = "zerodha"
          /\ phase' = "failed"
          /\ UNCHANGED <<ticker, current, connected>>
    /\ UNCHANGED <<svars, provider, token, told, closing, pending, queued, openFailed>>

(* The instrument sync, the subscription and start_all. *)
Up ==
    /\ phase = "syncing"
    /\ \/ /\ phase' = "up" /\ StartAll
          /\ told' = IF provider = "zerodha" THEN Told(current) ELSE told
       \/ phase' = "failed" /\ UNCHANGED <<svars, told>>
    /\ UNCHANGED <<provider, token, ticker, current, connected, closing, pending, queued, openFailed>>

Stop ==
    /\ phase = "up"
    /\ phase' = "stopping"
    /\ StopAll
    /\ UNCHANGED <<provider, token, conn>>

(* disconnect, after stop_all has awaited every task. *)
Disconnect ==
    /\ phase = "stopping"
    /\ phase' = "stopped"
    /\ closing' = TRUE /\ connected' = FALSE
    /\ ticker' = IF current # 0 /\ Alive(current)
                 THEN [ticker EXCEPT ![current] = "closing"] ELSE ticker
    /\ UNCHANGED <<svars, provider, token, told, current, pending, queued, openFailed>>

(* The process is gone and is started again. *)
Exit ==
    /\ phase \in {"stopped", "failed"}
    /\ phase' = "off"
    /\ Fresh
    /\ UNCHANGED svars
------------------------------------------------------------------------------
(* The loop bodies.                                                        *)

(* _run_quote_stream up to its first wait: a provider that is not          *)
(* connected gets a new ticker, although a reconnect may be scheduled, or  *)
(* the ticker of connect may still shake hands, at the first start too.     *)
StreamEnters ==
    /\ Enters(Stream)
    /\ IF connected
       THEN UNCHANGED <<ticker, told, current, openFailed>>
       ELSE /\ \E k \in Ids : Opens(k) /\ told' = [told EXCEPT ![k] = TRUE]
            /\ openFailed' = FALSE
    /\ UNCHANGED <<phase, provider, token, connected, closing, pending, queued>>

(* The same when connect raises, or when subscribe does and the ticker is   *)
(* open already: the factory crashes.                                      *)
StreamFails ==
    /\ AtHead(Stream) /\ ~IsOpen(Stream) /\ ~connected
    /\ Fails(Stream)
    /\ \/ UNCHANGED <<ticker, current, openFailed>>
       \/ (\E k \in Ids : Opens(k)) /\ openFailed' = FALSE
    /\ UNCHANGED <<phase, provider, token, told, connected, closing, pending, queued>>

HasQuote == provider = "simulated" \/ queued > 0
TakesQuote == queued' = IF provider = "zerodha" THEN queued - 1 ELSE queued

(* A quote and its _handle_quote, which may raise. *)
HandleQuote ==
    /\ running[Stream] /\ state[Stream] = "running" /\ HasQuote
    /\ TakesQuote
    /\ \/ Beats(Stream) /\ UNCHANGED <<running, state, attempt, breaker, wake, flagged, crashed>>
       \/ Fails(Stream)
    /\ UNCHANGED <<phase, provider, token, ticker, told, current, connected, closing, pending, openFailed>>

Watch == Watches(Watcher, Nap) /\ UNCHANGED <<phase, provider, token, conn>>

Supervise(t) ==
    /\ \/ Enters(t) /\ t # Stream
       \/ Naps(t)
    /\ UNCHANGED <<phase, provider, token, conn>>

Time == phase = "up" /\ Tick /\ UNCHANGED <<phase, provider, token, conn>>
------------------------------------------------------------------------------
(* The daily token dies at 07:30. *)
Expire == token = "valid" /\ token' = "expired" /\ UNCHANGED <<svars, phase, provider, conn>>

Network(k) == OnConnect(k) \/ OnClose(k) \/ OnTicks(k)

Next ==
    \/ \E row \in Rows : EnsureProvider(row)
    \/ Connect \/ Up \/ Stop \/ Disconnect \/ Exit
    \/ \E k \in Ids : Network(k)
    \/ Reconnect
    \/ StreamEnters \/ StreamFails \/ HandleQuote \/ Watch
    \/ \E t \in Tasks : Supervise(t)
    \/ Time \/ Expire

(* The event loop runs what is ready, time passes, and every start ends.   *)
Fairness ==
    /\ WF_vars(Time)
    /\ WF_vars(Reconnect)
    /\ WF_vars(StreamEnters \/ StreamFails)
    /\ WF_vars(Watch)
    /\ \A t \in Tasks : WF_vars(Supervise(t))
    /\ WF_vars(\E row \in Rows : EnsureProvider(row)) /\ WF_vars(Connect) /\ WF_vars(Up)
    /\ WF_vars(Disconnect) /\ WF_vars(Exit)

Spec == Init /\ [][Next]_vars /\ Fairness
------------------------------------------------------------------------------
(* The breaker keeps its promise: fewer than a window apart, no more than  *)
(* Threshold crashes in a row of one task, whatever its backoff, however   *)
(* late the event loop is.                                                 *)
RateLimited == \A t \in Tasks : Len(crashed[t]) <= Threshold

(* Every line beyond the first, a ticker alive or a reconnect to come, is   *)
(* of one entry of quote_stream, which opens a ticker whenever none is       *)
(* connected: no close, no reconnect, old or new, and no start of the        *)
(* process or of the connection multiplies the lines, and an entry adds one. *)
Lines == Cardinality({k \in Ids : Alive(k)}) + pending
LinesMultiply == Lines' > Lines /\ Lines' > 1
OnlyEntriesMultiply ==
    [][LinesMultiply => (StreamEnters \/ StreamFails) /\ Lines' = Lines + 1]_vars

(* A task that crashed, waits, is in an open circuit or hangs is named by  *)
(* a watchdog call, unless it runs and beats again or is stopped first.    *)
Well(t) == state[t] = "running" /\ beat[t] <= Timeout
Reported ==
    \A t \in Tasks \ {Watcher} :
        (running[t] /\ ~Well(t)) ~> (t \in flagged \/ Well(t) \/ ~running[t])

(* A connection that is lost while the feed runs is opened again, or its   *)
(* reconnect raised and the quote stream did not restart since.            *)
Lost == phase = "up" /\ provider = "zerodha" /\ \A k \in Ids : ~Alive(k)
LostComesBack == Lost ~> (~Lost \/ openFailed)

==============================================================================
