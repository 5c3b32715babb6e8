----------------------------- MODULE Supervisor -----------------------------
(***************************************************************************)
(* The task supervisor of shared/supervision/supervisor.py: every task is  *)
(* restarted after a crash, with exponential backoff, under a circuit      *)
(* breaker, and is unhealthy when its heartbeat is stale.                  *)
(*                                                                         *)
(* Time is counted in ticks and kept as ages and as ticks left, so that    *)
(* the state space is finite.  An event loop may be late: a timer that has *)
(* run out waits for its action while time goes on.                        *)
(***************************************************************************)
EXTENDS Integers, Sequences, FiniteSetsExt

CONSTANTS Tasks,
          Base, MaxDelay,     \* by task: its Backoff, in ticks
          Threshold, Window,  \* of the CircuitBreaker
          Timeout,            \* heartbeat_timeout
          CircuitNap,         \* the sleep of a task whose breaker is open
          MaxAttempt          \* bound: from here on every delay is MaxDelay

ASSUME SupervisorConstants ==
    /\ Threshold \in Nat \ {0} /\ Window \in Nat \ {0}
    /\ Timeout \in Nat /\ CircuitNap \in Nat /\ MaxAttempt \in Nat \ {0}
    /\ Base \in [Tasks -> Nat] /\ MaxDelay \in [Tasks -> Nat]

VARIABLES
    running,   \* by task: _running
    state,     \* by task: its TaskState ("starting" is never assigned)
    attempt,   \* by task: crashes so far, as no loop returns
    failures,  \* by task: ages of the failures the breaker counts
    openFor,   \* by task: ticks its breaker stays open
    wake,      \* by task: ticks its current sleep still lasts
    beat,      \* by task: age of its last heartbeat, up to Timeout + 1
    flagged,   \* what the last watchdog call returned
    crashed    \* history: by task, ages below Window of its crashes in a row

breaker == <<failures, openFor>>
clocks  == <<wake, beat>>
svars   == <<running, state, attempt, breaker, clocks, flagged, crashed>>

Set(f, t, v) == f' = [f EXCEPT ![t] = v]

SInit ==
    /\ running = [t \in Tasks |-> FALSE]
    /\ state = [t \in Tasks |-> "stopped"]
    /\ attempt = [t \in Tasks |-> 0]
    /\ failures = [t \in Tasks |-> <<>>]
    /\ openFor = [t \in Tasks |-> 0]
    /\ wake = [t \in Tasks |-> 0]
    /\ beat = [t \in Tasks |-> 0]
    /\ flagged = {}
    /\ crashed = [t \in Tasks |-> <<>>]
------------------------------------------------------------------------------
Shorter(a, b) == IF a < b THEN a ELSE b

DelayOf(t, a) == Shorter(MaxDelay[t], Base[t] * 2 ^ (a - 1))

(* Backoff.delay: up to 30 % of jitter on top of the capped delay.         *)
Delays(t, a) == LET raw == DelayOf(t, a) IN raw .. raw + (3 * raw) \div 10

IsOpen(t) == openFor[t] > 0

(* Mutant: crashed tasks only, a hung one looks well.                      *)
HealthyByState(t) == state[t] = "running" /\ ~IsOpen(t)

Healthy(t) == state[t] = "running" /\ ~IsOpen(t) /\ beat[t] <= Timeout

(* One tick later.  Ages the breaker will not count are dropped here, and  *)
(* not at the next record_failure; the oldest come first.                  *)
Older(ages, bound) ==
    LET grown == [i \in DOMAIN ages |-> ages[i] + 1]
        kept == {i \in DOMAIN ages : grown[i] <= bound}
    IN  IF kept = {} THEN <<>> ELSE SubSeq(grown, Min(kept), Len(grown))
Left(n) == IF n = 0 THEN 0 ELSE n - 1

Tick ==
    /\ failures' = [t \in Tasks |-> Older(failures[t], Window)]
    /\ openFor' = [t \in Tasks |-> Left(openFor[t])]
    /\ wake' = [t \in Tasks |-> Left(wake[t])]
    /\ beat' = [t \in Tasks |-> IF state[t] = "running"
                               THEN Shorter(beat[t] + 1, Timeout + 1) ELSE beat[t]]
    /\ crashed' = [t \in Tasks |-> Older(crashed[t], Window - 1)]
    /\ UNCHANGED <<running, state, attempt, flagged>>

(* Mutant: the breaker opens one failure late.                             *)
RecordFailureLate(t) ==
    LET counted == Append(failures[t], 0)
    IN  IF Len(counted) > Threshold
        THEN Set(openFor, t, Window) /\ Set(failures, t, <<>>)
        ELSE Set(failures, t, counted) /\ UNCHANGED openFor

(* CircuitBreaker.record_failure *)
RecordFailure(t) ==
    LET counted == Append(failures[t], 0)
    IN  IF Len(counted) >= Threshold
        THEN Set(openFor, t, Window) /\ Set(failures, t, <<>>)
        ELSE Set(failures, t, counted) /\ UNCHANGED openFor

(* The except Exception branch: a sleep of the delay, or the end of the    *)
(* loop when the task was told to stop.                                    *)
Fails(t) ==
    /\ Set(attempt, t, Shorter(attempt[t] + 1, MaxAttempt))
    /\ RecordFailure(t)
    /\ Set(state, t, "backoff")
    /\ \E d \in Delays(t, attempt[t] + 1) : Set(wake, t, d)
    /\ Set(crashed, t, Append(crashed[t], 0))
    /\ Set(beat, t, 0)   \* its age is read only while the task runs
    /\ UNCHANGED <<running, flagged>>

(* SupervisedTask.heartbeat, called by the task's loop body. *)
Beats(t) == Set(beat, t, 0)

(* The head of the loop in _supervise. *)
AtHead(t) == running[t] /\ state[t] # "running" /\ wake[t] = 0

Enters(t) ==
    /\ AtHead(t) /\ ~IsOpen(t)
    /\ Set(state, t, "running")
    /\ Beats(t)
    /\ UNCHANGED <<running, attempt, breaker, wake, flagged, crashed>>

Naps(t) ==
    /\ AtHead(t) /\ IsOpen(t)
    /\ Set(state, t, "circuit_open")
    /\ Set(wake, t, CircuitNap)
    /\ UNCHANGED <<running, attempt, breaker, beat, flagged, crashed>>

StartAll ==
    /\ running' = [t \in Tasks |-> TRUE]
    /\ UNCHANGED <<state, attempt, breaker, clocks, flagged, crashed>>

(* stop_all cancels every task and awaits it: they end in one pass of the  *)
(* event loop, and nothing reads their counters any more.                  *)
StopAll ==
    /\ running' = [t \in Tasks |-> FALSE]
    /\ state' = [t \in Tasks |-> "stopped"]
    /\ attempt' = [t \in Tasks |-> 0]
    /\ failures' = [t \in Tasks |-> <<>>] /\ crashed' = [t \in Tasks |-> <<>>]
    /\ openFor' = [t \in Tasks |-> 0]
    /\ wake' = [t \in Tasks |-> 0] /\ beat' = [t \in Tasks |-> 0]
    /\ flagged' = {}

(* The watchdog that the session_watch loop runs after its own heartbeat,  *)
(* before it sleeps for nap ticks.                                         *)
Watches(t, nap) ==
    /\ state[t] = "running" /\ running[t] /\ wake[t] = 0
    /\ Beats(t)
    /\ flagged' = {u \in Tasks : IF u = t THEN IsOpen(u) ELSE ~Healthy(u)}
    /\ Set(wake, t, nap)
    /\ UNCHANGED <<running, state, attempt, breaker, crashed>>
==============================================================================
