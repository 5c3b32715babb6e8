------------------------------ MODULE FeedLock ------------------------------
(***************************************************************************)
(* Leader election among the feed processes: the Redis lock of             *)
(* feed/lock.py in the lifespan of feed/app.py.  A process waits for the   *)
(* lock, starts its feed, renews the lock while it leads, and on a         *)
(* graceful stop ends its feed and releases the lock.                      *)
(*                                                                         *)
(* Time is counted in ticks.  The history variable late records that a     *)
(* leader overslept a renewal (an event loop that hangs, a slow network)   *)
(* or that more than MaxFails renewals in a row failed.                    *)
(***************************************************************************)
EXTENDS Integers

CONSTANTS Instances,
          Ttl, Renew,   \* ticks the key lives, ticks between two renewals
          MaxFails,     \* failed renewals in a row that still are not late
          MaxTokens     \* bound: process starts, each with a token of its own

ASSUME LockConstants ==
    /\ Renew \in Nat \ {0} /\ MaxFails \in Nat /\ MaxTokens \in Nat
    /\ Ttl \in Nat /\ Ttl > Renew * (MaxFails + 1)

VARIABLES
    proc,     \* "off", "standby", "starting", "feeding", "stopping", "released"
    token,    \* by process: the token of its SingleInstanceLock
    issued,   \* tokens handed out
    leader,   \* by process: is_leader, and so whether its renew loop runs
    timer,    \* by process: ticks its renew loop still sleeps
    fails,    \* by process: renewals in a row that raised
    key, ttl, \* in Redis: the token under the lock's key, 0 if there is none
    late

redis == <<key, ttl>>
loop  == <<leader, timer, fails>>
vars  == <<proc, token, issued, loop, redis, late>>

Nobody == 0
Live == {"standby", "starting", "feeding", "stopping"}

Init ==
    /\ proc = [i \in Instances |-> "off"]
    /\ token = [i \in Instances |-> Nobody]
    /\ issued = 0
    /\ leader = [i \in Instances |-> FALSE]
    /\ timer = [i \in Instances |-> 0]
    /\ fails = [i \in Instances |-> 0]
    /\ key = Nobody /\ ttl = 0
    /\ late = FALSE
------------------------------------------------------------------------------
Becomes(i, stage) == proc' = [proc EXCEPT ![i] = stage]
Holds(i) == key' = token[i] /\ ttl' = Ttl

StartProcess(i) ==
    /\ proc[i] \notin Live
    /\ issued < MaxTokens
    /\ Becomes(i, "standby")
    /\ issued' = issued + 1
    /\ token' = [token EXCEPT ![i] = issued + 1]
    /\ UNCHANGED <<loop, redis, late>>

(* Mutant: SET without NX. *)
TakesKey(i) ==
    /\ proc[i] = "standby"
    /\ Holds(i)

(* acquire: SET NX PX.  A refused try only sleeps until the next one. *)
SetIfFree(i) ==
    /\ proc[i] = "standby"
    /\ key = Nobody
    /\ Holds(i)

Acquire(i) ==
    /\ SetIfFree(i)
    /\ Becomes(i, "starting")
    /\ leader' = [leader EXCEPT ![i] = TRUE]
    /\ timer' = [timer EXCEPT ![i] = Renew]
    /\ fails' = [fails EXCEPT ![i] = 0]
    /\ UNCHANGED <<token, issued, late>>

(* The key is set but the answer is lost: acquire raises, startup fails. *)
AcquireFails(i) ==
    /\ SetIfFree(i)
    /\ Becomes(i, "off")
    /\ UNCHANGED <<token, issued, loop, late>>

(* service.start() returns: ingestion begins, is_leader is not looked at. *)
ServiceStarts(i) ==
    /\ proc[i] = "starting"
    /\ Becomes(i, "feeding")
    /\ UNCHANGED <<token, issued, loop, redis, late>>

Due(i) == proc[i] \in Live /\ leader[i] /\ timer[i] = 0

(* Mutant: the loop sleeps as long as the key lives. *)
SleepTtl(i) == timer' = [timer EXCEPT ![i] = Ttl]
Sleep(i) == timer' = [timer EXCEPT ![i] = Renew]

(* Mutant: SET XX without PX, the key keeps the time it has left. *)
RefreshOwnerOnly(i) == key' = token[i] /\ ttl' = ttl

(* SET XX PX: whoever's the key is, it becomes this process's. *)
Refresh(i) == Holds(i)

RenewKey(i) ==
    /\ Due(i)
    /\ key # Nobody
    /\ Refresh(i)
    /\ Sleep(i)
    /\ fails' = [fails EXCEPT ![i] = 0]
    /\ UNCHANGED <<proc, token, issued, leader, late>>

(* The key is gone: leadership is lost and the loop ends, the feed goes on. *)
RenewRefused(i) ==
    /\ Due(i)
    /\ key = Nobody
    /\ leader' = [leader EXCEPT ![i] = FALSE]
    /\ UNCHANGED <<proc, token, issued, timer, fails, redis, late>>

(* The call raises, before or after Redis executed it. *)
RenewFails(i) ==
    /\ Due(i)
    /\ UNCHANGED redis \/ (key # Nobody /\ Refresh(i))
    /\ Sleep(i)
    /\ fails' = [fails EXCEPT ![i] = IF @ > MaxFails THEN @ ELSE @ + 1]
    /\ late' = (late \/ fails[i] >= MaxFails)
    /\ UNCHANGED <<proc, token, issued, leader>>

(* Graceful stop: service.stop() ends the feed ... *)
StopService(i) ==
    /\ proc[i] = "feeding"
    /\ Becomes(i, "stopping")
    /\ UNCHANGED <<token, issued, loop, redis, late>>

(* Compare and delete. *)
DeleteOwnKey(i) ==
    IF key = token[i] THEN key' = Nobody /\ ttl' = 0 ELSE UNCHANGED redis

(* ... and release() cancels the renew loop.  If the loop still runs, its   *)
(* CancelledError leaves release() before the key is looked at.             *)
Release(i) ==
    /\ proc[i] = "stopping"
    /\ Becomes(i, "released")
    /\ IF leader[i] THEN UNCHANGED redis ELSE DeleteOwnKey(i)
    /\ leader' = [leader EXCEPT ![i] = FALSE]
    /\ timer' = [timer EXCEPT ![i] = 0]
    /\ UNCHANGED <<token, issued, fails, late>>

(* The process dies, or its startup fails after the lock was acquired. *)
Crash(i) ==
    /\ proc[i] \in Live
    /\ Becomes(i, "off")
    /\ leader' = [leader EXCEPT ![i] = FALSE]
    /\ timer' = [timer EXCEPT ![i] = 0]
    /\ UNCHANGED <<token, issued, fails, redis, late>>

Down(count) == IF count > 0 THEN count - 1 ELSE 0

(* Mutant: SET without PX, the key never expires. *)
TickForever ==
    /\ \E i \in Instances : timer[i] > 0
    /\ timer' = [i \in Instances |-> Down(timer[i])]
    /\ late' = (late \/ \E i \in Instances : Due(i))
    /\ UNCHANGED <<proc, token, issued, leader, fails, redis>>

(* A tick, in which Redis expires a key that was not refreshed in time. *)
Tick ==
    /\ ttl > 0 \/ \E i \in Instances : timer[i] > 0
    /\ timer' = [i \in Instances |-> Down(timer[i])]
    /\ ttl' = Down(ttl)
    /\ key' = IF ttl <= 1 THEN Nobody ELSE key
    /\ late' = (late \/ \E i \in Instances : Due(i))
    /\ UNCHANGED <<proc, token, issued, leader, fails>>
------------------------------------------------------------------------------
Serve(i) == ServiceStarts(i) \/ StopService(i) \/ Release(i)
Renewal(i) == RenewKey(i) \/ RenewRefused(i) \/ RenewFails(i)

Next ==
    \/ \E i \in Instances :
          StartProcess(i) \/ Acquire(i) \/ AcquireFails(i) \/ Serve(i) \/ Renewal(i) \/ Crash(i)
    \/ Tick

Spec == Init /\ [][Next]_vars
------------------------------------------------------------------------------
TypeOK ==
    /\ proc \in [Instances -> Live \cup {"off", "released"}]
    /\ issued \in 0 .. MaxTokens
    /\ token \in [Instances -> 0 .. issued]
    /\ leader \in [Instances -> BOOLEAN]
    /\ timer \in [Instances -> 0 .. Renew]
    /\ fails \in [Instances -> 0 .. MaxFails + 1]
    /\ key \in 0 .. issued
    /\ ttl \in 0 .. Ttl
    /\ late \in BOOLEAN

(* "Only one feed instance may ingest at a time", through crashes, lost     *)
(* answers and failed renewals, as long as no leader was late: a renewal    *)
(* may fail MaxFails times in a row if Ttl > Renew * (MaxFails + 1).        *)
Ingests(i) == proc[i] \in {"feeding", "stopping"}
OneIngester ==
    ~late => \A i, j \in Instances : Ingests(i) /\ Ingests(j) => i = j

(* What /health/ready reports: a process that says it leads holds the key,  *)
(* and one that feeds says so; again as long as no leader was late.         *)
LeaderHoldsKey ==
    ~late => \A i \in Instances :
        /\ leader[i] => key = token[i]
        /\ Ingests(i) => leader[i]

(* The key never passes from one process to another without having been     *)
(* free: "Refresh TTL only if we still own it", "release only if we still   *)
(* own the lock".  It holds until a leader is late.                            *)
HandedOver == key # Nobody /\ key' # Nobody /\ key' # key
NoTakeover == [][~late' => ~HandedOver]_vars

(* A process that released its lock left no key behind to wait for.         *)
ReleaseFreesKey == \A i \in Instances : proc[i] = "released" => key # token[i]

(* Redis lets keys expire, standby processes poll, and a process that runs  *)
(* completes its startup, its renewals and its release.                     *)
Fairness ==
    /\ WF_vars(Tick)
    /\ \A i \in Instances :
          /\ WF_vars(Acquire(i))
          /\ WF_vars(ServiceStarts(i)) /\ WF_vars(Release(i)) /\ WF_vars(Renewal(i))
FairSpec == Spec /\ Fairness

(* "If this instance loses/omits renewal, the lock expires and another      *)
(* instance can take over": a standby does not wait while nobody feeds.     *)
Failover ==
    \A i \in Instances :
        proc[i] = "standby" ~> proc[i] # "standby" \/ \E j \in Instances : proc[j] = "feeding"
=============================================================================
