------------------------------ MODULE Sessions ------------------------------
(* Refresh tokens of one account and the guard of its login, under concurrent   *)
(* requests. A request is one transaction, and a write takes effect with its    *)
(* commit: what blocks on a row lock is the order of the commits; an UPDATE     *)
(* reaches only rows committed when it started. A token is its row's index.     *)
(* Hashes, signatures and access tokens are libraries.                         *)
EXTENDS Naturals, Sequences, FiniteSets

CONSTANTS Requests,     \* requests in flight at once
          RateLimit,    \* login_rate_limit
          Limit,        \* key -> failures that lock it: [acct |-> max_failures, ip |-> ip_failure_limit]
          MaxTokens, MaxAttempts, MaxGlitches     \* bounds; a glitch is a Redis error

VARIABLES
    rows,       \* refresh_tokens: [root, revoked], root the login it descends from
    tx,         \* request -> where it is, the token or the key it works on, the rows it saw
    rate,       \* rl:login:<ip>
    fails, lock,       \* fail:<key> and whether lock:<key> is set
    endless,    \* counters that have no expiry
    tries, glitches,   \* counted for the bounds
    raced, lapsed      \* history: roots with overlapping refreshes; locks that ran out
guardVars == <<rate, fails, lock, endless, tries, glitches, lapsed>>
sessionVars == <<rows, tx, raced, guardVars>>

Keys == {"acct", "ip"}
ASSUME SessionsConstants == Limit \in [Keys -> Nat \ {0}]
Idle == [at |-> "idle"]
At(q, place) == tx[q].at = place
Go(q, state) == tx' = [tx EXCEPT ![q] = state]
Glitch == glitches < MaxGlitches /\ glitches' = glitches + 1

SessionsInit ==
    /\ rows = <<>> /\ tx = [q \in Requests |-> Idle] /\ raced = {}
    /\ rate = 0 /\ fails = [k \in Keys |-> 0] /\ lock = [k \in Keys |-> FALSE]
    /\ endless = {} /\ tries = 0 /\ glitches = 0 /\ lapsed = [k \in Keys |-> FALSE]

-----------------------------------------------------------------------------
(* TokenBucket.allow and LoginGuard.is_locked. INCR and, at one, EXPIRE: an     *)
(* error before or between them lets the request pass, the second kind leaves   *)
(* a counter that never expires. A refused attempt ends there. The commands are *)
(* one step: between them nothing else reads this counter's expiry, and a lock  *)
(* set meanwhile is one this attempt might as well have come before.            *)
BeginLogin(q) ==
    /\ At(q, "idle") /\ tries < MaxAttempts /\ tries' = tries + 1
    /\ \/ /\ rate' = rate + 1
          /\ UNCHANGED <<glitches, endless>>
          /\ IF rate' <= RateLimit /\ \A k \in Keys : ~lock[k] THEN Go(q, [at |-> "verify"]) ELSE UNCHANGED tx
       \/ /\ Glitch
          /\ rate' \in {rate, rate + 1}
          /\ endless' = endless \cup (IF rate = 0 /\ rate' = 1 THEN {"rate"} ELSE {})
          /\ Go(q, [at |-> "verify"])
    /\ UNCHANGED <<rows, raced, fails, lock, lapsed>>

(* AuthService.login of a right password: the row is added, the counters go    *)
(* (unless Redis fails), and the transaction commits.                          *)
Welcome(q) ==
    /\ At(q, "verify")
    /\ \/ /\ fails' = [fails EXCEPT !["acct"] = 0] /\ lock' = [lock EXCEPT !["acct"] = FALSE]
          /\ endless' = endless \ {"acct"} /\ UNCHANGED glitches
       \/ Glitch /\ UNCHANGED <<fails, lock, endless>>
    /\ Go(q, [at |-> "issue"])
    /\ UNCHANGED <<rows, raced, rate, tries, lapsed>>
Issue(q) ==
    /\ At(q, "issue") /\ Len(rows) < MaxTokens
    /\ rows' = Append(rows, [root |-> Len(rows) + 1, revoked |-> FALSE])
    /\ Go(q, Idle)
    /\ UNCHANGED <<raced, guardVars>>

(* A wrong password: record_failure for the account, then for the address. The  *)
(* count INCR returned decides about the lock, which is set one command later.  *)
LateThreshold(k, n) == n > Limit[k]
Threshold(k, n) == n >= Limit[k]
After(k) == IF k = "acct" THEN [at |-> "count", key |-> "ip"] ELSE Idle
Reject(q) ==
    /\ At(q, "verify")
    /\ Go(q, [at |-> "count", key |-> "acct"])
    /\ UNCHANGED <<rows, raced, guardVars>>
CountFailure(q) ==
    /\ At(q, "count")
    /\ LET k == tx[q].key
       IN  \/ /\ fails' = [fails EXCEPT ![k] = @ + 1] /\ lapsed' = [lapsed EXCEPT ![k] = FALSE]
              /\ \/ /\ Go(q, IF Threshold(k, fails'[k]) THEN [at |-> "lock", key |-> k] ELSE After(k))
                    /\ UNCHANGED <<glitches, endless>>
                 \/ /\ Glitch /\ fails[k] = 0 /\ Go(q, Idle)
                    /\ endless' = endless \cup {k}
           \/ Glitch /\ Go(q, Idle) /\ UNCHANGED <<fails, lapsed, endless>>
    /\ UNCHANGED <<rows, raced, rate, lock, tries>>
SetLock(q) ==
    /\ At(q, "lock")
    /\ \/ lock' = [lock EXCEPT ![tx[q].key] = TRUE] /\ Go(q, After(tx[q].key)) /\ UNCHANGED glitches
       \/ Glitch /\ Go(q, Idle) /\ UNCHANGED lock
    /\ UNCHANGED <<rows, raced, rate, fails, endless, tries, lapsed>>

(* Redis drops a key at the end of its time; a lock may outlive its counter.   *)
LockExpires(k) ==
    /\ lock[k]
    /\ lock' = [lock EXCEPT ![k] = FALSE] /\ lapsed' = [lapsed EXCEPT ![k] = TRUE]
    /\ UNCHANGED <<rows, tx, raced, rate, fails, endless, tries, glitches>>
CounterExpires(k) ==
    /\ fails[k] > 0 /\ k \notin endless
    /\ fails' = [fails EXCEPT ![k] = 0]
    /\ UNCHANGED <<rows, tx, raced, rate, lock, endless, tries, glitches, lapsed>>
WindowEnds ==
    /\ rate > 0 /\ "rate" \notin endless
    /\ rate' = 0
    /\ UNCHANGED <<rows, tx, raced, fails, lock, endless, tries, glitches, lapsed>>

-----------------------------------------------------------------------------
(* get_active_by_jti *)
Live == {i \in DOMAIN rows : ~rows[i].revoked}
Revoked(is) == [i \in DOMAIN rows |-> [rows[i] EXCEPT !.revoked = @ \/ i \in is]]

(* refresh reads the row of its token: an active one will be rotated, any other *)
(* is a reuse, for which a second transaction revokes all that are active.     *)
Refresh(q, i) ==
    /\ At(q, "idle") /\ i \in DOMAIN rows
    /\ IF i \in Live THEN Go(q, [at |-> "rotate", token |-> i]) ELSE Go(q, [at |-> "sweep", seen |-> Live])
    /\ raced' = raced \cup (IF \E p \in Requests : At(p, "rotate") /\ tx[p].token = i
                            THEN {rows[i].root} ELSE {})
    /\ UNCHANGED <<rows, guardVars>>
(* revoke writes the row it has read, whatever became of it, and _issue_pair   *)
(* adds the successor in the same transaction.                                 *)
RotateKeeping(q) ==
    /\ At(q, "rotate") /\ Len(rows) < MaxTokens
    /\ rows' = Append(rows, [root |-> rows[tx[q].token].root, revoked |-> FALSE])
    /\ Go(q, Idle)
    /\ UNCHANGED <<raced, guardVars>>
Rotate(q) ==
    /\ At(q, "rotate") /\ Len(rows) < MaxTokens
    /\ rows' = Append(Revoked({tx[q].token}), [root |-> rows[tx[q].token].root, revoked |-> FALSE])
    /\ Go(q, Idle)
    /\ UNCHANGED <<raced, guardVars>>

(* logout of an active token; logout_all and change_password; revoke_all.      *)
Logout(q, i) ==
    /\ At(q, "idle") /\ i \in Live
    /\ Go(q, [at |-> "leave", token |-> i])
    /\ UNCHANGED <<rows, raced, guardVars>>
Leave(q) ==
    /\ At(q, "leave")
    /\ rows' = Revoked({tx[q].token}) /\ Go(q, Idle)
    /\ UNCHANGED <<raced, guardVars>>
LogoutAll(q) ==
    /\ At(q, "idle") /\ Live # {}
    /\ Go(q, [at |-> "sweep", seen |-> Live])
    /\ UNCHANGED <<rows, raced, guardVars>>
Sweep(q) ==
    /\ At(q, "sweep")
    /\ rows' = Revoked(tx[q].seen) /\ Go(q, Idle)
    /\ UNCHANGED <<raced, guardVars>>

SessionsNext ==
    \/ \E q \in Requests :
         \/ BeginLogin(q) \/ Welcome(q) \/ Issue(q) \/ Reject(q) \/ CountFailure(q) \/ SetLock(q)
         \/ Rotate(q) \/ Leave(q) \/ LogoutAll(q) \/ Sweep(q)
         \/ \E i \in DOMAIN rows : Refresh(q, i) \/ Logout(q, i)
    \/ \E k \in Keys : LockExpires(k) \/ CounterExpires(k)
    \/ WindowEnds
SessionsSpec == SessionsInit /\ [][SessionsNext]_sessionVars

-----------------------------------------------------------------------------
(* One login has at most one usable refresh token at a time, through rotations, *)
(* reuse and logouts, unless two refreshes of one token overlapped.            *)
OneActivePerLogin ==
    \A r \in DOMAIN rows \ raced : Cardinality({i \in Live : rows[i].root = r}) <= 1

(* While Redis answers, the failure that reached the limit of an account or an  *)
(* address has locked it, until that lock runs out or a login succeeds,        *)
(* whatever other requests count or clear in between.                          *)
LockHolds ==
    \A k \in Keys :
        \/ fails[k] < Limit[k] \/ lapsed[k] \/ glitches > 0 \/ lock[k]
        \/ \E q \in Requests : At(q, "lock") /\ tx[q].key = k
=============================================================================
