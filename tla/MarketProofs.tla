--------------------------- MODULE MarketProofs ----------------------------
(***************************************************************************)
(* From market data to signals: who runs the feed (FeedLock), what the      *)
(* indicators say of its bars (IndicatorEngine), and what a backtest makes  *)
(* of them (Backtest).                                                      *)
(***************************************************************************)
EXTENDS FeedLock, IndicatorEngine, Backtest, Induction, FiniteSetTheorems, TLAPS
-----------------------------------------------------------------------------
(***************************************************************************)
(* Mutual exclusion among the feed processes, for any number of processes, *)
(* any Ttl and Renew with Ttl > Renew * (MaxFails + 1).                    *)
(*                                                                         *)
(* The inductive invariant says why: a leader's key still lives longer     *)
(* than its renew loop sleeps, with one Renew in reserve for each further  *)
(* failure it may have; so it cannot expire before it is refreshed, and    *)
(* nobody else can find it free.                                           *)
(***************************************************************************)

(* Every action in Next keeps the types. *)
LEMMA TypeStep == TypeOK /\ [Next]_vars => TypeOK'
<1> SUFFICES ASSUME TypeOK, [Next]_vars
             PROVE  TypeOK'
  OBVIOUS
<1> USE LockConstants DEF TypeOK, Live, Nobody
<1>1. ASSUME NEW i \in Instances, StartProcess(i)  PROVE TypeOK'
  BY <1>1 DEF StartProcess, Becomes, loop, redis
<1>2. ASSUME NEW i \in Instances, Acquire(i)  PROVE TypeOK'
  BY <1>2 DEF Acquire, SetIfFree, Holds, Becomes
<1>3. ASSUME NEW i \in Instances, AcquireFails(i)  PROVE TypeOK'
  BY <1>3 DEF AcquireFails, SetIfFree, Holds, Becomes, loop
<1>4. ASSUME NEW i \in Instances, ServiceStarts(i) \/ StopService(i)  PROVE TypeOK'
  BY <1>4 DEF ServiceStarts, StopService, Becomes, loop, redis
<1>5. ASSUME NEW i \in Instances, Release(i)  PROVE TypeOK'
  BY <1>5 DEF Release, DeleteOwnKey, Becomes, redis
<1>6. ASSUME NEW i \in Instances, RenewKey(i)  PROVE TypeOK'
  BY <1>6 DEF RenewKey, Refresh, Holds, Sleep
<1>7. ASSUME NEW i \in Instances, RenewRefused(i)  PROVE TypeOK'
  BY <1>7 DEF RenewRefused, redis
<1>8. ASSUME NEW i \in Instances, RenewFails(i)  PROVE TypeOK'
  BY <1>8 DEF RenewFails, Refresh, Holds, Sleep, redis
<1>9. ASSUME NEW i \in Instances, Crash(i)  PROVE TypeOK'
  BY <1>9 DEF Crash, Becomes, redis
<1>10. CASE Tick
  BY <1>10 DEF Tick, Down
<1>11. CASE UNCHANGED vars
  BY <1>11 DEF vars, loop, redis
<1>12. QED
  BY <1>1, <1>2, <1>3, <1>4, <1>5, <1>6, <1>7, <1>8, <1>9, <1>10, <1>11 DEF Next, Serve, Renewal

LEMMA InitTypes == Init => TypeOK
<1> SUFFICES ASSUME Init  PROVE TypeOK
  OBVIOUS
<1>1. /\ proc \in [Instances -> Live \cup {"off", "released"}]
      /\ leader \in [Instances -> BOOLEAN] /\ late \in BOOLEAN
  BY DEF Init
<1>2. issued = 0 /\ issued \in 0 .. MaxTokens /\ key \in 0 .. issued /\ ttl \in 0 .. Ttl
  BY LockConstants DEF Init, Nobody
<1>3. token \in [Instances -> 0 .. issued]
  BY <1>2 DEF Init, Nobody
<1>4. timer \in [Instances -> 0 .. Renew] /\ fails \in [Instances -> 0 .. MaxFails + 1]
  BY LockConstants DEF Init
<1>5. QED
  BY <1>1, <1>2, <1>3, <1>4 DEF TypeOK

(* Every state of the specification has the types of TypeOK. *)
THEOREM TypeCorrect == Spec => []TypeOK
<1>1. Init => TypeOK
  BY InitTypes
<1>2. QED
  BY <1>1, TypeStep, PTL DEF Spec
------------------------------------------------------------------------------
(* Running processes have tokens of their own. *)
OwnTokens ==
    /\ \A i \in Instances : proc[i] \in Live => token[i] # Nobody
    /\ \A i, j \in Instances :
          proc[i] \in Live /\ proc[j] \in Live /\ token[i] = token[j] => i = j

Elected(i) == proc[i] \in {"starting", "feeding", "stopping"}

(* What the failures a leader may still have, and its sleep, take of the    *)
(* key's life leaves something of it.                                       *)
Secure(i) ==
    /\ key = token[i]
    /\ fails[i] <= MaxFails
    /\ ttl > timer[i] + Renew * (MaxFails - fails[i])

Leadership ==
    \A i \in Instances :
        /\ leader[i] => Elected(i)
        /\ ~late /\ Elected(i) => leader[i] /\ Secure(i)

IInv == TypeOK /\ OwnTokens /\ Leadership

LEMMA TokensStep == TypeOK /\ OwnTokens /\ [Next]_vars => OwnTokens'
<1> SUFFICES ASSUME TypeOK, OwnTokens, [Next]_vars
             PROVE  OwnTokens'
  OBVIOUS
<1>1. ASSUME NEW i \in Instances, StartProcess(i)  PROVE OwnTokens'
  <2>1. \A j \in Instances : token[j] <= issued /\ issued + 1 # token[j]
    BY DEF TypeOK
  <2>2. issued \in Nat
    BY LockConstants DEF TypeOK
  <2>3. \A j \in Instances : /\ proc'[j] = IF j = i THEN "standby" ELSE proc[j]
                             /\ token'[j] = IF j = i THEN issued + 1 ELSE token[j]
    BY <1>1 DEF StartProcess, Becomes, TypeOK
  <2>4. QED
    BY <2>1, <2>2, <2>3 DEF OwnTokens, Live, Nobody
<1>2. ASSUME token' = token,
             \A j \in Instances : proc'[j] \in Live => proc[j] \in Live
      PROVE  OwnTokens'
  BY <1>2 DEF OwnTokens
<1>3. ASSUME NEW i \in Instances, NEW stage, Becomes(i, stage), proc[i] \in Live
      PROVE  \A j \in Instances : proc'[j] \in Live => proc[j] \in Live
  BY <1>3 DEF Becomes, TypeOK
<1>4. ASSUME NEW i \in Instances, Acquire(i) \/ AcquireFails(i)  PROVE OwnTokens'
  <2>1. proc[i] \in Live /\ token' = token /\ (Becomes(i, "starting") \/ Becomes(i, "off"))
    BY <1>4 DEF Acquire, AcquireFails, SetIfFree, Live
  <2>2. QED
    BY <2>1, <1>2, <1>3
<1>5. ASSUME NEW i \in Instances, Serve(i)  PROVE OwnTokens'
  <2>1. /\ proc[i] \in Live /\ token' = token
        /\ Becomes(i, "feeding") \/ Becomes(i, "stopping") \/ Becomes(i, "released")
    BY <1>5 DEF Serve, ServiceStarts, StopService, Release, Live
  <2>2. QED
    BY <2>1, <1>2, <1>3
<1>6. ASSUME NEW i \in Instances, Renewal(i)  PROVE OwnTokens'
  BY <1>2, <1>6 DEF Renewal, RenewKey, RenewRefused, RenewFails
<1>7. ASSUME NEW i \in Instances, Crash(i)  PROVE OwnTokens'
  <2>1. proc[i] \in Live /\ token' = token /\ Becomes(i, "off")
    BY <1>7 DEF Crash
  <2>2. QED
    BY <2>1, <1>2, <1>3
<1>8. CASE Tick
  BY <1>2, <1>8 DEF Tick
<1>9. CASE UNCHANGED vars
  BY <1>2, <1>9 DEF vars
<1>10. QED
  BY <1>1, <1>4, <1>5, <1>6, <1>7, <1>8, <1>9 DEF Next

(* A fresh key covers a first sleep and MaxFails failed renewals ... *)
LEMMA FreshKey == Ttl > Renew + Renew * (MaxFails - 0)
  BY LockConstants

(* ... and each failure spends one Renew of the reserve. *)
LEMMA Reserve ==
    \A f \in 0 .. MaxFails : f < MaxFails =>
        Renew * (MaxFails - f) = Renew + Renew * (MaxFails - (f + 1))
  BY LockConstants

LEMMA ReserveNat == \A f \in 0 .. MaxFails : Renew * (MaxFails - f) \in Nat
  BY LockConstants

(* The process that was elected is the only one, and holds the key. *)
LEMMA OneElected ==
    ASSUME IInv, ~late,
           NEW i \in Instances, Elected(i),
           NEW j \in Instances, Elected(j)
    PROVE  i = j
<1>1. key = token[i] /\ key = token[j]
  BY DEF IInv, Leadership, Secure
<1>2. proc[i] \in Live /\ proc[j] \in Live
  BY DEF Elected, Live
<1>3. QED
  BY <1>1, <1>2 DEF IInv, OwnTokens

LEMMA LeadershipStep == IInv /\ [Next]_vars => Leadership'
<1> SUFFICES ASSUME IInv, [Next]_vars,
                    NEW j \in Instances
             PROVE  /\ leader'[j] => Elected(j)'
                    /\ ~late' /\ Elected(j)' => leader'[j] /\ Secure(j)'
  BY DEF Leadership
<1> DEFINE Goal == /\ leader'[j] => Elected(j)'
                   /\ ~late' /\ Elected(j)' => leader'[j] /\ Secure(j)'
           Old  == /\ leader[j] => Elected(j)
                   /\ ~late /\ Elected(j) => leader[j] /\ Secure(j)
<1>0. Old /\ TypeOK
  BY DEF IInv, Leadership
<1>1. ASSUME NEW i \in Instances, StartProcess(i)  PROVE Goal
  <2>1. i # j => token'[j] = token[j] /\ proc'[j] = proc[j]
    BY <1>1, <1>0 DEF StartProcess, Becomes, TypeOK
  <2>2. proc'[i] = "standby" /\ proc[i] \notin Live
    BY <1>1, <1>0 DEF StartProcess, Becomes, TypeOK
  <2>3. UNCHANGED <<loop, redis, late>>
    BY <1>1 DEF StartProcess
  <2>4. QED
    BY <2>1, <2>2, <2>3, <1>0 DEF Elected, Secure, Live, loop, redis
<1>2. ASSUME NEW i \in Instances, Acquire(i)  PROVE Goal
  <2>1. CASE i = j
    <3>1. /\ proc'[j] = "starting" /\ leader'[j] /\ timer'[j] = Renew /\ fails'[j] = 0
          /\ key' = token'[j] /\ ttl' = Ttl
      BY <2>1, <1>2, <1>0 DEF Acquire, SetIfFree, Holds, Becomes, TypeOK
    <3>2. QED
      BY <3>1, FreshKey, LockConstants DEF Elected, Secure
  <2>2. CASE i # j
    <3>1. proc'[j] = proc[j] /\ leader'[j] = leader[j] /\ late' = late
      BY <2>2, <1>2, <1>0 DEF Acquire, Becomes, TypeOK
    <3>2. key = Nobody
      BY <1>2 DEF Acquire, SetIfFree
    <3>3. Elected(j) => late
      BY <3>2, <1>0 DEF IInv, OwnTokens, Secure, Elected, Live
    <3>4. QED
      BY <3>1, <3>3, <1>0 DEF Elected
  <2>3. QED
    BY <2>1, <2>2
<1>3. ASSUME NEW i \in Instances, AcquireFails(i)  PROVE Goal
  <2>1. key = Nobody /\ UNCHANGED <<loop, late>>
    BY <1>3 DEF AcquireFails, SetIfFree
  <2>2. /\ Elected(j)' => Elected(j)
        /\ Elected(j) => Elected(j)'
    BY <1>3, <1>0 DEF AcquireFails, SetIfFree, Becomes, Elected, TypeOK
  <2>3. Elected(j) => late
    BY <2>1, <1>0 DEF IInv, OwnTokens, Secure, Elected, Live
  <2>4. QED
    BY <2>1, <2>2, <2>3, <1>0 DEF loop
<1>4. ASSUME NEW i \in Instances, ServiceStarts(i) \/ StopService(i)  PROVE Goal
  <2>1. UNCHANGED <<token, loop, redis, late>>
    BY <1>4 DEF ServiceStarts, StopService
  <2>2. Elected(j)' <=> Elected(j)
    BY <1>4, <1>0 DEF ServiceStarts, StopService, Becomes, Elected, TypeOK
  <2>3. QED
    BY <2>1, <2>2, <1>0 DEF Secure, loop, redis
<1>5. ASSUME NEW i \in Instances, Release(i)  PROVE Goal
  <2>1. CASE i = j
    BY <2>1, <1>5, <1>0 DEF Release, Becomes, Elected, TypeOK
  <2>2. CASE i # j
    <3>1. /\ proc'[j] = proc[j] /\ leader'[j] = leader[j] /\ timer'[j] = timer[j]
          /\ token' = token /\ fails' = fails /\ late' = late
      BY <2>2, <1>5, <1>0 DEF Release, Becomes, TypeOK
    <3>2. ~late /\ Elected(j) => UNCHANGED redis
      <4>1. Elected(i)
        BY <1>5 DEF Release, Elected
      <4>2. QED
        BY <4>1, <2>2, OneElected
    <3>3. QED
      BY <3>1, <3>2, <1>0 DEF Elected, Secure, redis
  <2>3. QED
    BY <2>1, <2>2
<1>6. ASSUME NEW i \in Instances, Renewal(i)  PROVE Goal
  <2>1. proc' = proc /\ token' = token /\ leader[i] /\ timer[i] = 0
    BY <1>6 DEF Renewal, RenewKey, RenewRefused, RenewFails, Due
  <2>2. Elected(i) /\ (Elected(j)' <=> Elected(j))
    BY <2>1 DEF Elected, IInv, Leadership
  <2>3. ~late => key = token[i] /\ key # Nobody /\ fails[i] <= MaxFails
                 /\ ttl > Renew * (MaxFails - fails[i])
    <3>1. ~late => Secure(i)
      BY <2>2 DEF IInv, Leadership
    <3>2. token[i] # Nobody
      BY <2>2 DEF IInv, OwnTokens, Elected, Live
    <3>3. ASSUME Secure(i)
          PROVE  fails[i] <= MaxFails /\ ttl > Renew * (MaxFails - fails[i])
      <4>1. fails[i] \in 0 .. MaxFails
        BY <3>3, <1>0, LockConstants DEF Secure, TypeOK
      <4>2. QED
        BY <4>1, <3>3, <2>1, ReserveNat DEF Secure
    <3>4. QED
      BY <3>1, <3>2, <3>3 DEF Secure
  <2>4. late => late'
    BY <1>6 DEF Renewal, RenewKey, RenewRefused, RenewFails
  <2>5. CASE i # j
    <3>1. leader'[j] = leader[j]
      BY <1>6, <2>5, <1>0 DEF Renewal, RenewKey, RenewRefused, RenewFails, TypeOK
    <3>2. ~late => ~Elected(j)
      BY <2>2, <2>5, OneElected
    <3>3. QED
      BY <3>1, <3>2, <2>2, <2>4, <1>0
  <2>6. CASE i = j /\ RenewKey(i)
    <3>1. /\ leader' = leader /\ timer'[j] = Renew /\ fails'[j] = 0
          /\ key' = token'[j] /\ ttl' = Ttl
      BY <2>6, <2>1, <1>0 DEF RenewKey, Refresh, Holds, Sleep, TypeOK
    <3>2. Secure(j)'
      BY <3>1, FreshKey, LockConstants DEF Secure
    <3>3. QED
      BY <3>1, <3>2, <2>2, <2>4, <1>0
  <2>7. CASE i = j /\ RenewRefused(i)
    <3>1. key = Nobody /\ late' = late /\ ~leader'[j]
      BY <2>7, <1>0 DEF RenewRefused, TypeOK
    <3>2. QED
      BY <3>1, <2>2, <2>3
  <2>8. CASE i = j /\ RenewFails(i)
    <3>1. leader' = leader
      BY <2>8 DEF RenewFails
    <3>2. ASSUME ~late'  PROVE Secure(j)'
      <4>1. ~late /\ fails[j] < MaxFails /\ fails[j] \in 0 .. MaxFails
        <5>1. fails[j] \in 0 .. MaxFails + 1 /\ MaxFails \in Nat
          BY <1>0, LockConstants DEF TypeOK
        <5>2. ~late /\ ~(fails[j] >= MaxFails)
          BY <3>2, <2>8, <2>4 DEF RenewFails
        <5>3. QED
          BY <5>1, <5>2
      <4>2. timer'[j] = Renew /\ fails'[j] = fails[j] + 1
        BY <2>8, <4>1, <1>0, LockConstants DEF RenewFails, Sleep, TypeOK
      <4>3. key' = token[j] /\ (ttl' = ttl \/ ttl' = Ttl)
        BY <2>8, <4>1, <2>3 DEF RenewFails, Refresh, Holds, redis
      <4>4. ttl <= Ttl /\ ttl \in Nat /\ Ttl \in Nat
        BY <1>0, LockConstants DEF TypeOK
      <4>5. ttl' > Renew * (MaxFails - fails[j])
        BY <4>1, <4>3, <4>4, <2>3, <2>8, ReserveNat
      <4>6. Renew * (MaxFails - fails[j]) = Renew + Renew * (MaxFails - (fails[j] + 1))
        BY <4>1, Reserve
      <4>7. fails'[j] <= MaxFails
        BY <4>1, <4>2, LockConstants
      <4>8. QED
        BY <4>2, <4>3, <4>5, <4>6, <4>7, <2>1 DEF Secure
    <3>3. QED
      BY <3>1, <3>2, <2>2, <2>4, <1>0
  <2>9. QED
    BY <1>6, <2>5, <2>6, <2>7, <2>8 DEF Renewal
<1>7. ASSUME NEW i \in Instances, Crash(i)  PROVE Goal
  <2>1. CASE i = j
    BY <2>1, <1>7, <1>0 DEF Crash, Becomes, Elected, TypeOK
  <2>2. CASE i # j
    BY <2>2, <1>7, <1>0 DEF Crash, Becomes, Elected, Secure, redis, TypeOK
  <2>3. QED
    BY <2>1, <2>2
<1>8. CASE Tick
  <2>1. UNCHANGED <<proc, token, leader, fails>> /\ (Elected(j)' <=> Elected(j))
    BY <1>8 DEF Tick, Elected
  <2>2. ASSUME ~late', Elected(j)  PROVE leader'[j] /\ Secure(j)'
    <3>1. ~late /\ leader[j] /\ Secure(j)
      BY <2>2, <1>8, <1>0 DEF Tick
    <3>2. timer[j] \in Nat /\ timer[j] # 0 /\ timer'[j] = timer[j] - 1
      BY <2>2, <3>1, <1>8, <1>0, LockConstants DEF Tick, Due, Down, Elected, Live, TypeOK
    <3>3. fails[j] \in 0 .. MaxFails
      BY <3>1, <1>0, LockConstants DEF Secure, TypeOK
    <3>4. Renew * (MaxFails - fails[j]) \in Nat
      BY <3>3, ReserveNat
    <3>5. ttl \in Nat /\ ttl > 1 /\ ttl' = ttl - 1 /\ key' = key
      BY <3>1, <3>2, <3>4, <1>8, <1>0, LockConstants DEF Tick, Down, Secure, TypeOK
    <3>6. QED
      BY <3>1, <3>2, <3>4, <3>5, <2>1 DEF Secure
  <2>3. QED
    BY <2>1, <2>2, <1>0
<1>9. CASE UNCHANGED vars
  BY <1>9, <1>0 DEF vars, loop, redis, Elected, Secure
<1>10. QED
  BY <1>1, <1>2, <1>3, <1>4, <1>5, <1>6, <1>7, <1>8, <1>9 DEF Next, Serve
------------------------------------------------------------------------------
(* The inductive invariant holds throughout. *)
THEOREM Inductive == Spec => []IInv
<1>1. Init => IInv
  <2>1. Init => TypeOK
    BY InitTypes
  <2>2. Init => OwnTokens /\ Leadership
    BY DEF Init, OwnTokens, Leadership, Elected, Live
  <2>3. QED
    BY <2>1, <2>2 DEF IInv
<1>2. IInv /\ [Next]_vars => IInv'
  BY TypeStep, TokensStep, LeadershipStep DEF IInv
<1>3. QED
  BY <1>1, <1>2, PTL DEF Spec

LEMMA IngestersAreElected ==
    ASSUME NEW i \in Instances, Ingests(i)
    PROVE  Elected(i)
  BY DEF Ingests, Elected

(* Only one feed process ingests, as long as no leader was late. *)
THEOREM MutualExclusion == Spec => []OneIngester
<1>1. IInv => OneIngester
  BY OneElected, IngestersAreElected DEF OneIngester
<1>2. QED
  BY <1>1, Inductive, PTL

(* A process that says it leads holds the key, and one that feeds says so. *)
THEOREM HonestLeader == Spec => []LeaderHoldsKey
<1>1. IInv => LeaderHoldsKey
  <2> SUFFICES ASSUME IInv, ~late, NEW i \in Instances
               PROVE  /\ leader[i] => key = token[i]
                      /\ Ingests(i) => leader[i]
    BY DEF LeaderHoldsKey
  <2>1. (leader[i] \/ Ingests(i)) => Elected(i)
    BY IngestersAreElected DEF IInv, Leadership
  <2>2. Elected(i) => leader[i] /\ key = token[i]
    BY DEF IInv, Leadership, Secure
  <2>3. QED
    BY <2>1, <2>2
<1>2. QED
  BY <1>1, Inductive, PTL

(* The key is never taken over while it is held. *)
THEOREM NeverTakenOver == Spec => NoTakeover
<1>1. IInv /\ [Next]_vars => [~late' => ~HandedOver]_vars
  <2> SUFFICES ASSUME IInv, Next, ~late', key # Nobody, key' # Nobody
               PROVE  key' = key
    BY DEF HandedOver, Nobody, vars, redis
  <2>1. ASSUME NEW i \in Instances, Renewal(i)  PROVE key' = key
    <3>1. leader[i] /\ ~late
      <4>1. late \in BOOLEAN
        BY DEF IInv, TypeOK
      <4>2. late => late'
        BY <2>1, <4>1 DEF Renewal, RenewKey, RenewRefused, RenewFails
      <4>3. QED
        BY <2>1, <4>2 DEF Renewal, RenewKey, RenewRefused, RenewFails, Due
    <3>2. key = token[i]
      BY <3>1 DEF IInv, Leadership, Secure
    <3>3. QED
      BY <2>1, <3>2 DEF Renewal, RenewKey, RenewRefused, RenewFails, Refresh, Holds, redis
  <2>2. ASSUME NEW i \in Instances,
               StartProcess(i) \/ Acquire(i) \/ AcquireFails(i) \/ Serve(i) \/ Crash(i)
        PROVE  key' = key
    BY <2>2 DEF StartProcess, Acquire, AcquireFails, SetIfFree, Serve, ServiceStarts, StopService,
                Release, DeleteOwnKey, Crash, redis
  <2>3. CASE Tick
    BY <2>3 DEF Tick
  <2>4. QED
    BY <2>1, <2>2, <2>3 DEF Next
<1>2. QED
  BY <1>1, Inductive, PTL DEF Spec, NoTakeover
-----------------------------------------------------------------------------
(***************************************************************************)
(* The indicators: what the incremental state says after any bars is what   *)
(* the batch functions compute from all of them.                            *)
(*                                                                         *)
(* A recursive series of core.py is described by its values (EmaFacts,      *)
(* WilderFacts, TrendFacts), which a bar at the end leaves as they were; an  *)
(* average of incremental.py then takes over from the seed (EmaTaken,        *)
(* WilderTaken).                                                            *)
(***************************************************************************)
Maybe == Int \cup {Never}

(* A series that is undefined before place p, given there, and computed from *)
(* its value one place before after that.                                    *)
IsAverage(f, n, p, first, step) ==
    \A i \in 1 .. n :
        /\ i < p => f[i] = Never
        /\ i = p => f[i] = first
        /\ i > p => f[i - 1] \in Int /\ f[i] = step[i][f[i - 1]]
        /\ i >= p => f[i] \in Int

LEMMA AverageExists ==
  ASSUME NEW n \in Nat, NEW p \in Nat \ {0}, NEW first \in Int, NEW step \in [1 .. n -> [Int -> Int]]
  PROVE  \E f \in [1 .. n -> Maybe] : IsAverage(f, n, p, first, step)
<1>. DEFINE next == [i \in 1 .. n |-> [x \in Maybe |->
                        IF i < p THEN Never ELSE IF i = p THEN first
                        ELSE IF x \in Int THEN step[i][x] ELSE Never]]
            X == Maybe
            none == Never
<1>1. next \in Steps(X, n)
  BY DEF Steps, Maybe
<1>2. none \in X
  BY DEF Maybe
<1>3. PICK g : Iterates(g, X, n, none, next)
  <2>. HIDE DEF next, X, none
  <2>. QED  BY <1>1, <1>2, Iteration
<1>4. g \in [0 .. n -> X] /\ \A k \in 1 .. n : g[k] = next[k][g[k - 1]]
  BY <1>3 DEF Iterates
<1>. DEFINE Good(k) == k >= p => g[k] \in Int
            S == {k \in 0 .. n : Good(k)}
<1>5. 0 \in S
  OBVIOUS
<1>0. ASSUME NEW k \in 1 .. n
      PROVE  /\ k < p => g[k] = Never
             /\ k = p => g[k] = first
             /\ k > p /\ g[k - 1] \in Int => g[k] = step[k][g[k - 1]] /\ g[k] \in Int
  <2>1. k - 1 \in 0 .. n
    OBVIOUS
  <2>2. g[k] = next[k][g[k - 1]] /\ g[k - 1] \in X
    <3>. HIDE DEF next, X
    <3>. QED  BY <1>4, <2>1
  <2>3. \A x \in X : next[k][x] = IF k < p THEN Never ELSE IF k = p THEN first
                                ELSE IF x \in Int THEN step[k][x] ELSE Never
    OBVIOUS
  <2>4. \A x \in Int : step[k][x] \in Int
    OBVIOUS
  <2>. DEFINE y == g[k - 1]
  <2>5. g[k] = next[k][y] /\ y \in X
    <3>. HIDE DEF next, X
    <3>. QED  BY <2>2
  <2>6. next[k][y] = IF k < p THEN Never ELSE IF k = p THEN first
                   ELSE IF y \in Int THEN step[k][y] ELSE Never
    <3>. HIDE DEF next, X, y
    <3>. QED  BY <2>3, <2>5
  <2>7. y \in Int => step[k][y] \in Int
    <3>. HIDE DEF y
    <3>. QED  BY <2>4
  <2>8. k \in Int /\ p \in Int
    OBVIOUS
  <2>. HIDE DEF next, X
  <2>9. g[k] = IF k < p THEN Never ELSE IF k = p THEN first
               ELSE IF y \in Int THEN step[k][y] ELSE Never
    BY <2>5, <2>6
  <2>. QED  BY <2>7, <2>8, <2>9
<1>. HIDE DEF next, X
<1>6. ASSUME NEW k \in 1 .. n, k - 1 \in S  PROVE k \in S
  <2>1. k > p => g[k - 1] \in Int
    BY <1>6
  <2>2. k >= p => g[k] \in Int
    BY <1>0, <2>1
  <2>. QED  BY <2>2
<1>7. 0 .. n \subseteq S
  <2>. HIDE DEF S
  <2>. QED  BY <1>5, <1>6, BoundedInduction
<1>8. \A k \in 0 .. n : k >= p => g[k] \in Int
  BY <1>7
<1>. DEFINE f == [i \in 1 .. n |-> g[i]]
<1>9. f \in [1 .. n -> Maybe]
  <2>1. \A i \in 1 .. n : i \in 0 .. n
    OBVIOUS
  <2>. QED  BY <1>4, <2>1 DEF X
<1>10. ASSUME NEW i \in 1 .. n
       PROVE  /\ i < p => f[i] = Never
              /\ i = p => f[i] = first
              /\ i > p => f[i - 1] \in Int /\ f[i] = step[i][f[i - 1]]
              /\ i >= p => f[i] \in Int
  <2>1. i > p => i - 1 \in 0 .. n /\ i - 1 \in 1 .. n /\ i - 1 >= p
    OBVIOUS
  <2>2. i > p => g[i - 1] \in Int /\ f[i - 1] = g[i - 1]
    BY <1>8, <2>1
  <2>3. i >= p => g[i] \in Int
    BY <1>8
  <2>4. f[i] = g[i]
    OBVIOUS
  <2>. HIDE DEF f
  <2>. QED  BY <1>0, <2>2, <2>3, <2>4
<1>. QED  BY <1>9, <1>10 DEF IsAverage

(* Two such series agree as far as their steps do.                           *)
Longer(f, g, n) == \A i \in 1 .. n : g[i] = f[i]
LEMMA AverageUnique ==
  ASSUME NEW m \in Nat, NEW n \in Nat, m <= n, NEW p \in Nat \ {0}, NEW first, NEW other, p <= m => first = other,
         NEW step, NEW next, Longer(step, next, m),
         NEW f, NEW g, IsAverage(f, m, p, first, step), IsAverage(g, n, p, other, next)
  PROVE  Longer(f, g, m)
<1>. USE DEF Longer
<1>. DEFINE Good(k) == k = 0 \/ f[k] = g[k]
            S == {k \in 0 .. m : Good(k)}
<1>1. 0 \in S
  OBVIOUS
<1>2. ASSUME NEW k \in 1 .. m, k - 1 \in S  PROVE k \in S
  <2>1. /\ k < p => f[k] = Never
        /\ k = p => f[k] = first
        /\ k > p => f[k] = step[k][f[k - 1]]
    BY DEF IsAverage
  <2>2. /\ k < p => g[k] = Never
        /\ k = p => g[k] = other
        /\ k > p => g[k] = next[k][g[k - 1]]
    BY DEF IsAverage
  <2>3. step[k] = next[k] /\ (k > p => f[k - 1] = g[k - 1]) /\ (k = p => first = other)
    BY <1>2
  <2>. QED  BY <2>1, <2>2, <2>3
<1>3. 0 .. m \subseteq S
  <2>. HIDE DEF S
  <2>. QED  BY <1>1, <1>2, BoundedInduction
<1>. QED  BY <1>3

(* The total of a sequence, and of one more number.                          *)
LEMMA TotalFacts ==
  ASSUME NEW s \in Seq(Int)
  PROVE  /\ Total(s) \in Int
         /\ s = <<>> => Total(s) = 0
         /\ s # <<>> => Mean(s) \in Int
         /\ \A x \in Int : Total(Append(s, x)) = Total(s) + x
<1>. DEFINE D == 1 .. Len(s)
<1>1. IsFiniteSet(D) /\ D = DOMAIN s /\ \A k \in D : s[k] \in Int
  BY FS_Interval
<1>2. Total(s) = SumUp(s, D)
  BY <1>1, SumOfFunction DEF Total
<1>3. SumUp(s, D) \in Int /\ (D = {} => SumUp(s, D) = 0)
  <2>. HIDE DEF D
  <2>. QED  BY <1>1, SumUpFacts
<1>4. s # <<>> => Len(s) \in Nat \ {0}
  OBVIOUS
<1>5. ASSUME NEW x \in Int PROVE Total(Append(s, x)) = Total(s) + x
  <2>. DEFINE t == Append(s, x)
              n == Len(s) + 1
  <2>1. n \in Nat /\ n # 0 /\ n - 1 = Len(s) /\ DOMAIN t = 1 .. n /\ t[n] = x /\ \A k \in D : t[k] = s[k]
    BY AppendProperties
  <2>2. \A k \in 1 .. n : t[k] \in Int
    BY AppendProperties
  <2>. HIDE DEF t, n, D
  <2>3. SumUp(t, 1 .. n) = t[n] + SumUp(t, 1 .. n - 1)
    BY <2>1, <2>2, SumUpLast
  <2>4. SumUp(t, D) = SumUp(s, D)
    BY <1>1, <2>1, SumUpSame
  <2>5. Total(t) = SumUp(t, 1 .. n)
    BY <2>1, SumOfFunction DEF Total
  <2>6. SumUp(t, 1 .. n - 1) = Total(s) /\ Total(s) \in Int
    BY <1>2, <1>3, <2>1, <2>4 DEF D
  <2>7. Total(t) = Total(s) + x
    BY <2>1, <2>3, <2>5, <2>6
  <2>. QED  BY <2>7 DEF t
<1>6. s # <<>> => Mean(s) \in Int
  <2>. HIDE DEF D
  <2>. QED  BY <1>2, <1>3, <1>4 DEF Mean
<1>7. s = <<>> => Total(s) = 0
  BY <1>1, <1>2, <1>3
<1>. HIDE DEF D
<1>. QED  BY <1>2, <1>3, <1>5, <1>6, <1>7

(* A function on the places 1 to n is a sequence.                            *)
LEMMA SeriesIsSeq ==
  ASSUME NEW n \in Nat, NEW X, NEW f \in [1 .. n -> X]
  PROVE  f \in Seq(X) /\ Len(f) = n /\ DOMAIN f = 1 .. n
  OBVIOUS

LEMMA StepsAreNumbers ==
  ASSUME NEW p \in Nat \ {0}, NEW x \in Int, NEW v \in Int
  PROVE  EmaStep(p, x, v) \in Int /\ WilderStep(p, x, v) \in Int
<1>1. 2 * v + (p - 1) * x \in Int /\ p + 1 \in Nat \ {0} /\ x * (p - 1) + v \in Int
  OBVIOUS
<1>2. \A a \in Int, d \in Nat \ {0} : a \div d \in Int
  OBVIOUS
<1>. QED  BY <1>1, <1>2 DEF EmaStep, WilderStep

(* What core.py's ema and wilder_smooth compute.                             *)
EmaSteps(nums, p) == [i \in 1 .. Len(nums) |-> [x \in Int |-> EmaStep(p, x, nums[i])]]
WilderSteps(nums, p) == [i \in 1 .. Len(nums) |-> [x \in Int |-> WilderStep(p, x, nums[i])]]
Seed(nums, p) == IF p <= Len(nums) THEN Mean(SubSeq(nums, 1, p)) ELSE 0

LEMMA SeedFacts ==
  ASSUME NEW nums \in Seq(Int), NEW p \in Nat \ {0}
  PROVE  /\ Seed(nums, p) \in Int
         /\ \A v \in Int : p <= Len(nums) => Seed(Append(nums, v), p) = Seed(nums, p)
         /\ p = Len(nums) => Seed(nums, p) = Mean(nums)
<1>1. ASSUME p <= Len(nums) PROVE Mean(SubSeq(nums, 1, p)) \in Int
  <2>. DEFINE s == SubSeq(nums, 1, p)
  <2>1. s \in Seq(Int) /\ s # <<>>
    BY <1>1
  <2>. HIDE DEF s
  <2>2. Mean(s) \in Int
    BY <2>1, TotalFacts
  <2>. QED  BY <2>2 DEF s
<1>2. ASSUME NEW v \in Int, p <= Len(nums) PROVE Seed(Append(nums, v), p) = Seed(nums, p)
  <2>1. Len(Append(nums, v)) = Len(nums) + 1 /\ Len(nums) \in Nat
    OBVIOUS
  <2>2. p <= Len(Append(nums, v))
    BY <1>2, <2>1
  <2>3. SubSeq(Append(nums, v), 1, p) = SubSeq(nums, 1, p)
    BY <1>2
  <2>. QED  BY <1>2, <2>2, <2>3 DEF Seed
<1>3. ASSUME p = Len(nums) PROVE Seed(nums, p) = Mean(nums)
  <2>. DEFINE T == Int
  <2>1. nums \in Seq(T)
    OBVIOUS
  <2>. HIDE DEF T
  <2>2. SubSeq(nums, 1, Len(nums)) = nums
    BY <2>1, SubSeqFull
  <2>3. p <= Len(nums) /\ SubSeq(nums, 1, p) = nums
    BY <1>3, <2>2
  <2>. QED  BY <2>3 DEF Seed
<1>. QED  BY <1>1, <1>2, <1>3 DEF Seed

LEMMA EmaFacts ==
  ASSUME NEW nums \in Seq(Int), NEW p \in Nat \ {0}
  PROVE  /\ Ema(nums, p) \in [1 .. Len(nums) -> Maybe]
         /\ IsAverage(Ema(nums, p), Len(nums), p, Seed(nums, p), EmaSteps(nums, p))
<1>. DEFINE n == Len(nums)
            first == Seed(nums, p)
            step == EmaSteps(nums, p)
<1>1. n \in Nat /\ DOMAIN nums = 1 .. n /\ first \in Int /\ \A i \in 1 .. n : nums[i] \in Int
  BY SeedFacts
<1>2. step \in [1 .. n -> [Int -> Int]]
  BY <1>1, StepsAreNumbers DEF EmaSteps
<1>3. PICK f \in [1 .. n -> Maybe] : IsAverage(f, n, p, first, step)
  <2>. HIDE DEF n, first, step
  <2>. QED  BY <1>1, <1>2, AverageExists
<1>. DEFINE g[i \in DOMAIN nums] ==
              IF i < p THEN Never
              ELSE IF i = p THEN Mean(SubSeq(nums, 1, p)) ELSE EmaStep(p, g[i - 1], nums[i])
<1>4. ASSUME NEW i \in 1 .. n
      PROVE  f[i] = IF i < p THEN Never
                    ELSE IF i = p THEN Mean(SubSeq(nums, 1, p)) ELSE EmaStep(p, f[i - 1], nums[i])
  <2>1. i = p => first = Mean(SubSeq(nums, 1, p))
    BY DEF Seed
  <2>2. f[i - 1] \in Int => step[i][f[i - 1]] = EmaStep(p, f[i - 1], nums[i])
    BY DEF EmaSteps
  <2>3. /\ i < p => f[i] = Never
        /\ i = p => f[i] = first
        /\ i > p => f[i - 1] \in Int /\ f[i] = step[i][f[i - 1]]
    BY <1>3 DEF IsAverage
  <2>. HIDE DEF n, first, step
  <2>4. i \in Int
    BY <1>1
  <2>. QED  BY <2>1, <2>2, <2>3, <2>4
<1>5. f = [i \in DOMAIN nums |->
              IF i < p THEN Never
              ELSE IF i = p THEN Mean(SubSeq(nums, 1, p)) ELSE EmaStep(p, f[i - 1], nums[i])]
  BY <1>1, <1>4
<1>6. g = [i \in DOMAIN nums |->
              IF i < p THEN Never
              ELSE IF i = p THEN Mean(SubSeq(nums, 1, p)) ELSE EmaStep(p, g[i - 1], nums[i])]
  BY <1>5
<1>7. Ema(nums, p) = g
  BY DEF Ema, Smoothed
<1>. HIDE DEF g
<1>8. g = [i \in 1 .. n |-> g[i]]
  BY <1>1, <1>6
<1>9. \A i \in 1 .. n : g[i] = f[i]
  <2>. DEFINE Good(k) == k = 0 \/ g[k] = f[k]
              S == {k \in 0 .. n : Good(k)}
  <2>1. ASSUME NEW k \in 1 .. n, k - 1 \in S  PROVE k \in S
    <3>1. k > p => g[k - 1] = f[k - 1]
      BY <2>1
    <3>2. g[k] = IF k < p THEN Never
                 ELSE IF k = p THEN Mean(SubSeq(nums, 1, p)) ELSE EmaStep(p, g[k - 1], nums[k])
      <4>. HIDE DEF n
      <4>. QED  BY <1>1, <1>6
    <3>3. g[k] = f[k]
      <4>. HIDE DEF n, S
      <4>. QED  BY <1>1, <1>4, <3>1, <3>2
    <3>. QED  BY <3>3
  <2>2. 0 \in S
    BY <1>1
  <2>3. 0 .. n \subseteq S
    <3>. HIDE DEF S, n
    <3>. QED  BY <1>1, <2>1, <2>2, BoundedInduction
  <2>. QED  BY <2>3
<1>10. g = f
  <2>. HIDE DEF n
  <2>. QED  BY <1>8, <1>9
<1>. QED  BY <1>3, <1>7, <1>10

LEMMA WilderFacts ==
  ASSUME NEW nums \in Seq(Int), NEW p \in Nat \ {0}
  PROVE  /\ WilderSmooth(nums, p) \in [1 .. Len(nums) -> Maybe]
         /\ IsAverage(WilderSmooth(nums, p), Len(nums), p, Seed(nums, p), WilderSteps(nums, p))
<1>. DEFINE n == Len(nums)
            first == Seed(nums, p)
            step == WilderSteps(nums, p)
<1>1. n \in Nat /\ DOMAIN nums = 1 .. n /\ first \in Int /\ \A i \in 1 .. n : nums[i] \in Int
  BY SeedFacts
<1>2. step \in [1 .. n -> [Int -> Int]]
  BY <1>1, StepsAreNumbers DEF WilderSteps
<1>3. PICK f \in [1 .. n -> Maybe] : IsAverage(f, n, p, first, step)
  <2>. HIDE DEF n, first, step
  <2>. QED  BY <1>1, <1>2, AverageExists
<1>. DEFINE g[i \in DOMAIN nums] ==
              IF i < p THEN Never
              ELSE IF i = p THEN Mean(SubSeq(nums, 1, p)) ELSE WilderStep(p, g[i - 1], nums[i])
<1>4. ASSUME NEW i \in 1 .. n
      PROVE  f[i] = IF i < p THEN Never
                    ELSE IF i = p THEN Mean(SubSeq(nums, 1, p)) ELSE WilderStep(p, f[i - 1], nums[i])
  <2>1. i = p => first = Mean(SubSeq(nums, 1, p))
    BY DEF Seed
  <2>2. f[i - 1] \in Int => step[i][f[i - 1]] = WilderStep(p, f[i - 1], nums[i])
    BY DEF WilderSteps
  <2>3. /\ i < p => f[i] = Never
        /\ i = p => f[i] = first
        /\ i > p => f[i - 1] \in Int /\ f[i] = step[i][f[i - 1]]
    BY <1>3 DEF IsAverage
  <2>. HIDE DEF n, first, step
  <2>4. i \in Int
    BY <1>1
  <2>. QED  BY <2>1, <2>2, <2>3, <2>4
<1>5. f = [i \in DOMAIN nums |->
              IF i < p THEN Never
              ELSE IF i = p THEN Mean(SubSeq(nums, 1, p)) ELSE WilderStep(p, f[i - 1], nums[i])]
  BY <1>1, <1>4
<1>6. g = [i \in DOMAIN nums |->
              IF i < p THEN Never
              ELSE IF i = p THEN Mean(SubSeq(nums, 1, p)) ELSE WilderStep(p, g[i - 1], nums[i])]
  BY <1>5
<1>7. WilderSmooth(nums, p) = g
  BY DEF WilderSmooth, Smoothed
<1>. HIDE DEF g
<1>8. g = [i \in 1 .. n |-> g[i]]
  BY <1>1, <1>6
<1>9. \A i \in 1 .. n : g[i] = f[i]
  <2>. DEFINE Good(k) == k = 0 \/ g[k] = f[k]
              S == {k \in 0 .. n : Good(k)}
  <2>1. ASSUME NEW k \in 1 .. n, k - 1 \in S  PROVE k \in S
    <3>1. k > p => g[k - 1] = f[k - 1]
      BY <2>1
    <3>2. g[k] = IF k < p THEN Never
                 ELSE IF k = p THEN Mean(SubSeq(nums, 1, p)) ELSE WilderStep(p, g[k - 1], nums[k])
      <4>. HIDE DEF n
      <4>. QED  BY <1>1, <1>6
    <3>3. g[k] = f[k]
      <4>. HIDE DEF n, S
      <4>. QED  BY <1>1, <1>4, <3>1, <3>2
    <3>. QED  BY <3>3
  <2>2. 0 \in S
    BY <1>1
  <2>3. 0 .. n \subseteq S
    <3>. HIDE DEF S, n
    <3>. QED  BY <1>1, <2>1, <2>2, BoundedInduction
  <2>. QED  BY <2>3
<1>10. g = f
  <2>. HIDE DEF n
  <2>. QED  BY <1>8, <1>9
<1>. QED  BY <1>3, <1>7, <1>10

(* One more number leaves the series as it was, and adds the next value.     *)
Latest(f, n) == IF n = 0 THEN Never ELSE f[n]

LEMMA AverageLonger ==
  ASSUME NEW n \in Nat, NEW p \in Nat \ {0}, NEW first, NEW other, p <= n => first = other,
         NEW step, NEW next, Longer(step, next, n),
         NEW f, NEW g, IsAverage(f, n, p, first, step), IsAverage(g, n + 1, p, other, next)
  PROVE  /\ Longer(f, g, n)
         /\ g[n + 1] = IF n + 1 < p THEN Never ELSE IF n + 1 = p THEN other ELSE next[n + 1][f[n]]
         /\ n + 1 > p => Latest(f, n) = f[n] /\ f[n] \in Int
         /\ n + 1 <= p => Latest(f, n) = Never
<1>. DEFINE m == n + 1
<1>1. m \in Nat /\ n <= m /\ m \in 1 .. m /\ m - 1 = n
  OBVIOUS
<1>2. IsAverage(g, m, p, other, next)
  OBVIOUS
<1>. HIDE DEF m
<1>3. Longer(f, g, n)
  BY <1>1, <1>2, AverageUnique
<1>4. /\ m < p => g[m] = Never
      /\ m = p => g[m] = other
      /\ m > p => g[n] \in Int /\ g[m] = next[m][g[n]]
  BY <1>1, <1>2 DEF IsAverage
<1>5. m > p => n \in 1 .. n /\ g[n] = f[n]
  BY <1>1, <1>3 DEF Longer
<1>6. g[m] = IF m < p THEN Never ELSE IF m = p THEN other ELSE next[m][f[n]]
  BY <1>1, <1>4, <1>5
<1>7. m > p => Latest(f, n) = f[n] /\ f[n] \in Int
  BY <1>4, <1>5 DEF Latest
<1>8. ASSUME m <= p PROVE Latest(f, n) = Never
  <2>1. n # 0 => n \in 1 .. n /\ n < p
    BY <1>1, <1>8
  <2>. QED  BY <2>1 DEF Latest, IsAverage
<1>. QED  BY <1>3, <1>6, <1>7, <1>8 DEF m

(* An average of incremental.py after the given numbers: f is the series.    *)
Average == [seed : Seq(Int), value : Maybe]
Taken(s, nums, p, f) ==
    s \in Average /\ (Len(nums) < p => s.seed = nums) /\ s.value = Latest(f, Len(nums))

Moves(s, t, p, v, step) ==
    t = IF s.value # Never THEN [s EXCEPT !.value = step[s.value]]
        ELSE [seed |-> Append(s.seed, v),
              value |-> IF Len(s.seed) + 1 = p THEN Mean(Append(s.seed, v)) ELSE Never]

LEMMA TakesNext ==
  ASSUME NEW nums \in Seq(Int), NEW v \in Int, NEW p \in Nat \ {0},
         NEW step, NEW next, Longer(step, next, Len(nums)),
         NEW f, IsAverage(f, Len(nums), p, Seed(nums, p), step),
         NEW g, IsAverage(g, Len(nums) + 1, p, Seed(Append(nums, v), p), next),
         g[Len(nums) + 1] \in Maybe,
         NEW s, Taken(s, nums, p, f), NEW t, Moves(s, t, p, v, next[Len(nums) + 1])
  PROVE  Taken(t, Append(nums, v), p, g)
<1>. DEFINE n == Len(nums)
            m == n + 1
            first == Seed(nums, p)
            other == Seed(Append(nums, v), p)
<1>1. n \in Nat /\ Append(nums, v) \in Seq(Int) /\ Len(Append(nums, v)) = m /\ m # 0 /\ m \in Nat
  OBVIOUS
<1>2. p <= n => first = other
  BY SeedFacts
<1>3. m = p => other = Mean(Append(nums, v))
  BY <1>1, SeedFacts
<1>4. /\ g[m] = IF m < p THEN Never ELSE IF m = p THEN other ELSE next[m][f[n]]
      /\ m > p => Latest(f, n) = f[n] /\ f[n] \in Int
      /\ m <= p => Latest(f, n) = Never
  <2>1. IsAverage(f, n, p, first, step) /\ IsAverage(g, n + 1, p, other, next) /\ Longer(step, next, n)
    OBVIOUS
  <2>2. /\ g[n + 1] = IF n + 1 < p THEN Never ELSE IF n + 1 = p THEN other ELSE next[n + 1][f[n]]
        /\ n + 1 > p => Latest(f, n) = f[n] /\ f[n] \in Int
        /\ n + 1 <= p => Latest(f, n) = Never
    <3>. HIDE DEF n, first, other
    <3>. QED  BY <1>1, <1>2, <2>1, AverageLonger
  <2>. QED  BY <2>2
<1>5. Latest(g, m) = g[m] /\ g[m] \in Maybe
  BY <1>1 DEF Latest
<1>6. s \in Average /\ (n < p => s.seed = nums) /\ s.value = Latest(f, n)
  BY DEF Taken
<1>7. t = IF s.value # Never THEN [s EXCEPT !.value = next[m][s.value]]
          ELSE [seed |-> Append(s.seed, v),
                value |-> IF Len(s.seed) + 1 = p THEN Mean(Append(s.seed, v)) ELSE Never]
  BY DEF Moves
<1>. HIDE DEF n, m, first, other
<1>8. CASE m > p
  <2>1. s.value = f[n] /\ s.value \in Int /\ s.value # Never
    BY <1>4, <1>6, <1>8, NeverIsNoNumber
  <2>2. t = [s EXCEPT !.value = next[m][s.value]] /\ g[m] = next[m][s.value]
    BY <1>1, <1>4, <1>7, <1>8, <2>1
  <2>3. t \in Average /\ t.value = Latest(g, m)
    BY <1>5, <1>6, <2>2 DEF Average
  <2>4. ~(m < p)
    BY <1>1, <1>8
  <2>. QED  BY <1>1, <2>3, <2>4 DEF Taken
<1>9. CASE m <= p
  <2>1. s.value = Never /\ n < p
    BY <1>4, <1>6, <1>9, <1>1 DEF m
  <2>2. s.seed = nums /\ Len(s.seed) + 1 = m
    BY <1>6, <2>1 DEF n, m
  <2>3. t = [seed |-> Append(nums, v), value |-> IF m = p THEN Mean(Append(nums, v)) ELSE Never]
    BY <1>7, <2>1, <2>2
  <2>4. g[m] = IF m = p THEN Mean(Append(nums, v)) ELSE Never
    BY <1>1, <1>3, <1>4, <1>9
  <2>5. t.seed = Append(nums, v) /\ t.value = g[m] /\ g[m] \in Maybe
    BY <1>5, <2>3, <2>4
  <2>6. t \in Average
    <3>1. t = [seed |-> Append(nums, v), value |-> g[m]]
      BY <2>3, <2>4
    <3>. QED  BY <1>1, <2>5, <3>1 DEF Average
  <2>. QED  BY <1>1, <1>5, <2>5, <2>6 DEF Taken
<1>. QED  BY <1>1, <1>8, <1>9

(* The averages that the state keeps, after one more number.                 *)
LEMMA EmaTaken ==
  ASSUME NEW nums \in Seq(Int), NEW v \in Int, NEW p \in Nat \ {0},
         NEW s, Taken(s, nums, p, Ema(nums, p))
  PROVE  /\ Taken(NextEma(s, p, v), Append(nums, v), p, Ema(Append(nums, v), p))
         /\ Longer(Ema(nums, p), Ema(Append(nums, v), p), Len(nums))
<1>. DEFINE more == Append(nums, v)
            m == Len(nums) + 1
            step == EmaSteps(nums, p)
            next == EmaSteps(more, p)
            f == Ema(nums, p)
            g == Ema(more, p)
            t == NextEma(s, p, v)
<1>1. /\ more \in Seq(Int) /\ Len(more) = m /\ m \in Nat /\ m \in 1 .. m /\ Len(nums) \in Nat
      /\ more[m] = v /\ \A i \in 1 .. Len(nums) : more[i] = nums[i] /\ i \in 1 .. m
  OBVIOUS
<1>2. /\ IsAverage(f, Len(nums), p, Seed(nums, p), step)
      /\ IsAverage(g, m, p, Seed(more, p), next)
      /\ g[m] \in Maybe
  <2>. HIDE DEF more, m
  <2>. QED  BY <1>1, EmaFacts
<1>3. Longer(step, next, Len(nums))
  <2>. HIDE DEF more, m
  <2>. QED  BY <1>1 DEF EmaSteps, Longer
<1>4. \A x \in Int : next[m][x] = EmaStep(p, x, v)
  <2>. HIDE DEF more, m
  <2>. QED  BY <1>1 DEF EmaSteps
<1>5. Moves(s, t, p, v, next[m])
  <2>1. s \in [seed : Seq(Int), value : Maybe]
    BY DEF Taken, Average
  <2>2. s.value # Never => s.value \in Int
    BY <2>1 DEF Maybe
  <2>3. s.value # Never => next[m][s.value] = EmaStep(p, s.value, v)
    <3>. HIDE DEF next, m
    <3>. QED  BY <1>4, <2>2
  <2>. HIDE DEF next, m
  <2>. QED  BY <2>3 DEF NextEma, Advance, Moves
<1>. HIDE DEF step, next, f, g, t
<1>6. Taken(t, more, p, g)
  <2>1. Taken(s, nums, p, f)
    BY DEF f
  <2>2. IsAverage(g, Len(nums) + 1, p, Seed(Append(nums, v), p), next) /\ g[Len(nums) + 1] \in Maybe
    BY <1>2
  <2>3. Moves(s, t, p, v, next[Len(nums) + 1])
    BY <1>5
  <2>. QED  BY <1>2, <1>3, <2>1, <2>2, <2>3, TakesNext
<1>7. Longer(f, g, Len(nums))
  <2>1. p <= Len(nums) => Seed(nums, p) = Seed(more, p)
    BY SeedFacts
  <2>. DEFINE n == Len(nums)
              first == Seed(nums, p)
              other == Seed(more, p)
  <2>2. IsAverage(f, n, p, first, step) /\ IsAverage(g, n + 1, p, other, next) /\ (p <= n => first = other)
    BY <1>2, <2>1
  <2>3. n \in Nat /\ Longer(step, next, n)
    BY <1>3
  <2>. HIDE DEF n, first, other
  <2>4. Longer(f, g, n)
    BY <2>2, <2>3, AverageLonger
  <2>. QED  BY <2>4 DEF n
<1>. QED  BY <1>6, <1>7 DEF f, g, t

LEMMA WilderTaken ==
  ASSUME NEW nums \in Seq(Int), NEW v \in Int, NEW p \in Nat \ {0},
         NEW s, Taken(s, nums, p, WilderSmooth(nums, p))
  PROVE  /\ Taken(NextWilder(s, p, v), Append(nums, v), p, WilderSmooth(Append(nums, v), p))
         /\ Longer(WilderSmooth(nums, p), WilderSmooth(Append(nums, v), p), Len(nums))
<1>. DEFINE more == Append(nums, v)
            m == Len(nums) + 1
            step == WilderSteps(nums, p)
            next == WilderSteps(more, p)
            f == WilderSmooth(nums, p)
            g == WilderSmooth(more, p)
            t == NextWilder(s, p, v)
<1>1. /\ more \in Seq(Int) /\ Len(more) = m /\ m \in Nat /\ m \in 1 .. m /\ Len(nums) \in Nat
      /\ more[m] = v /\ \A i \in 1 .. Len(nums) : more[i] = nums[i] /\ i \in 1 .. m
  OBVIOUS
<1>2. /\ IsAverage(f, Len(nums), p, Seed(nums, p), step)
      /\ IsAverage(g, m, p, Seed(more, p), next)
      /\ g[m] \in Maybe
  <2>. HIDE DEF more, m
  <2>. QED  BY <1>1, WilderFacts
<1>3. Longer(step, next, Len(nums))
  <2>. HIDE DEF more, m
  <2>. QED  BY <1>1 DEF WilderSteps, Longer
<1>4. \A x \in Int : next[m][x] = WilderStep(p, x, v)
  <2>. HIDE DEF more, m
  <2>. QED  BY <1>1 DEF WilderSteps
<1>5. Moves(s, t, p, v, next[m])
  <2>1. s \in [seed : Seq(Int), value : Maybe]
    BY DEF Taken, Average
  <2>2. s.value # Never => s.value \in Int
    BY <2>1 DEF Maybe
  <2>3. s.value # Never => next[m][s.value] = WilderStep(p, s.value, v)
    <3>. HIDE DEF next, m
    <3>. QED  BY <1>4, <2>2
  <2>. HIDE DEF next, m
  <2>. QED  BY <2>3 DEF NextWilder, Advance, Moves
<1>. HIDE DEF step, next, f, g, t
<1>6. Taken(t, more, p, g)
  <2>1. Taken(s, nums, p, f)
    BY DEF f
  <2>2. IsAverage(g, Len(nums) + 1, p, Seed(Append(nums, v), p), next) /\ g[Len(nums) + 1] \in Maybe
    BY <1>2
  <2>3. Moves(s, t, p, v, next[Len(nums) + 1])
    BY <1>5
  <2>. QED  BY <1>2, <1>3, <2>1, <2>2, <2>3, TakesNext
<1>7. Longer(f, g, Len(nums))
  <2>1. p <= Len(nums) => Seed(nums, p) = Seed(more, p)
    BY SeedFacts
  <2>. DEFINE n == Len(nums)
              first == Seed(nums, p)
              other == Seed(more, p)
  <2>2. IsAverage(f, n, p, first, step) /\ IsAverage(g, n + 1, p, other, next) /\ (p <= n => first = other)
    BY <1>2, <2>1
  <2>3. n \in Nat /\ Longer(step, next, n)
    BY <1>3
  <2>. HIDE DEF n, first, other
  <2>4. Longer(f, g, n)
    BY <2>2, <2>3, AverageLonger
  <2>. QED  BY <2>4 DEF n
<1>. QED  BY <1>6, <1>7 DEF f, g, t

(* An average that has begun never ends.                                     *)
LEMMA StaysDefined ==
  ASSUME NEW s \in Average, NEW p \in Nat \ {0}, NEW v \in Int
  PROVE  /\ NextEma(s, p, v).value = Never => s.value = Never
         /\ NextWilder(s, p, v).value = Never => s.value = Never
<1>1. ASSUME s.value # Never
      PROVE  NextEma(s, p, v).value # Never /\ NextWilder(s, p, v).value # Never
  <2>1. s.value \in Int
    BY <1>1 DEF Average, Maybe
  <2>2. EmaStep(p, s.value, v) \in Int /\ WilderStep(p, s.value, v) \in Int
    BY <2>1, StepsAreNumbers
  <2>3. NextEma(s, p, v).value = EmaStep(p, s.value, v) /\ NextWilder(s, p, v).value = WilderStep(p, s.value, v)
    BY <1>1 DEF NextEma, NextWilder, Advance, Average
  <2>. QED  BY <2>2, <2>3, NeverIsNoNumber
<1>. QED  BY <1>1

(* What agrees with a sequence and gives one more value is the sequence with *)
(* that value.                                                               *)
LEMMA AppendIs ==
  ASSUME NEW X, NEW s \in Seq(X), NEW x \in X, NEW f, DOMAIN f = 1 .. Len(s) + 1, f = [i \in DOMAIN f |-> f[i]],
         Longer(s, f, Len(s)), f[Len(s) + 1] = x
  PROVE  f = Append(s, x)
<1>. DEFINE g == Append(s, x)
            D == 1 .. Len(s) + 1
<1>1. DOMAIN g = D /\ g = [i \in D |-> g[i]] /\ DOMAIN f = D /\ f = [i \in D |-> f[i]]
  <2>1. DOMAIN g = D /\ g \in Seq(X)
    OBVIOUS
  <2>2. g = [i \in DOMAIN g |-> g[i]]
    <3>. HIDE DEF g
    <3>. QED  BY <2>1
  <2>3. DOMAIN f = D
    OBVIOUS
  <2>. HIDE DEF D, g
  <2>. QED  BY <2>1, <2>2, <2>3
<1>2. ASSUME NEW i \in D PROVE f[i] = g[i]
  <2>1. i \in 1 .. Len(s) \/ i = Len(s) + 1
    OBVIOUS
  <2>. QED  BY <2>1 DEF Longer
<1>. HIDE DEF g, D
<1>3. f = g
  BY <1>1, <1>2
<1>. QED  BY <1>3 DEF g

LEMMA AppendFacts ==
  ASSUME NEW X, NEW s \in Seq(X), NEW x \in X
  PROVE  /\ Append(s, x) \in Seq(X) /\ Len(Append(s, x)) = Len(s) + 1
         /\ DOMAIN Append(s, x) = 1 .. Len(s) + 1
         /\ Append(s, x)[Len(s) + 1] = x
         /\ \A i \in 1 .. Len(s) : Append(s, x)[i] = s[i]
  OBVIOUS

Bar == [h : Int, l : Int, c : Int, v : Int, day : Int, minute : Int]

LEMMA ColumnFacts ==
  ASSUME NEW bars \in Seq(Bar), NEW f \in {"h", "l", "c", "v"}
  PROVE  /\ Column(bars, f) \in Seq(Int) /\ Len(Column(bars, f)) = Len(bars)
         /\ \A b \in Bar : Column(Append(bars, b), f) = Append(Column(bars, f), b[f])
<1>. DEFINE n == Len(bars)
            s == Column(bars, f)
<1>1. n \in Nat /\ DOMAIN bars = 1 .. n /\ \A i \in 1 .. n : bars[i] \in Bar
  OBVIOUS
<1>2. \A b \in Bar : b[f] \in Int
  BY DEF Bar
<1>3. s \in [1 .. n -> Int]
  <2>. HIDE DEF n
  <2>. QED  BY <1>1, <1>2 DEF Column
<1>4. s \in Seq(Int) /\ Len(s) = n
  <2>. HIDE DEF s, n
  <2>. QED  BY <1>1, <1>3, SeriesIsSeq
<1>5. ASSUME NEW b \in Bar PROVE Column(Append(bars, b), f) = Append(s, b[f])
  <2>. DEFINE t == Column(Append(bars, b), f)
              x == b[f]
  <2>1. /\ DOMAIN Append(bars, b) = 1 .. n + 1 /\ Append(bars, b)[n + 1] = b
        /\ \A i \in 1 .. n : Append(bars, b)[i] = bars[i] /\ i \in 1 .. n + 1
        /\ n + 1 \in 1 .. n + 1
    OBVIOUS
  <2>2. DOMAIN t = 1 .. n + 1 /\ t = [i \in DOMAIN t |-> t[i]] /\ t[n + 1] = x
    BY <2>1 DEF Column
  <2>3. Longer(s, t, n)
    <3>. HIDE DEF n
    <3>. QED  BY <1>1, <2>1 DEF Column, Longer
  <2>. HIDE DEF s, t, x, n
  <2>4. t = Append(s, x)
    BY <1>2, <1>4, <2>2, <2>3, AppendIs DEF x
  <2>. QED  BY <2>4 DEF t, x
<1>. QED  BY <1>4, <1>5

(* The changes of price that the RSI averages.                               *)
Gains(close) == [i \in DOMAIN Changes(close) |-> Positive(Changes(close)[i])]
Losses(close) == [i \in DOMAIN Changes(close) |-> Positive(-Changes(close)[i])]

LEMMA GainFacts ==
  ASSUME NEW close \in Seq(Int)
  PROVE  /\ close = <<>> => Gains(close) = <<>> /\ Losses(close) = <<>>
         /\ \A v \in Int : close = <<>> => Gains(Append(close, v)) = <<>> /\ Losses(Append(close, v)) = <<>>
         /\ Gains(close) \in Seq(Int) /\ Losses(close) \in Seq(Int)
         /\ close # <<>> => /\ Len(Gains(close)) = Len(close) - 1 /\ Len(Losses(close)) = Len(close) - 1
                            /\ \A v \in Int :
                                  /\ Gains(Append(close, v)) = Append(Gains(close), Positive(v - close[Len(close)]))
                                  /\ Losses(Append(close, v)) = Append(Losses(close), Positive(close[Len(close)] - v))
<1>. DEFINE n == Len(close)
<1>1. n \in Nat /\ \A i \in 1 .. n : close[i] \in Int
  OBVIOUS
<1>2. \A x \in Int : Positive(x) \in Int
  BY DEF Positive, Larger
<1>3. DOMAIN Gains(close) = 1 .. n - 1 /\ DOMAIN Losses(close) = 1 .. n - 1
  BY DEF Gains, Losses, Changes
<1>4. ASSUME n = 0 PROVE Gains(close) = <<>> /\ Losses(close) = <<>>
  <2>1. DOMAIN Changes(close) = {}
    BY <1>4 DEF Changes
  <2>. QED  BY <2>1 DEF Gains, Losses
<1>5. ASSUME NEW v \in Int, n = 0 PROVE Gains(Append(close, v)) = <<>> /\ Losses(Append(close, v)) = <<>>
  <2>1. Len(Append(close, v)) = 1
    BY <1>5
  <2>2. DOMAIN Changes(Append(close, v)) = {}
    BY <2>1 DEF Changes
  <2>. QED  BY <2>2 DEF Gains, Losses
<1>6. ASSUME NEW i \in 1 .. n - 1
      PROVE  /\ Gains(close)[i] = Positive(close[i + 1] - close[i]) /\ Gains(close)[i] \in Int
             /\ Losses(close)[i] = Positive(-(close[i + 1] - close[i])) /\ Losses(close)[i] \in Int
  <2>1. close[i] \in Int /\ close[i + 1] \in Int
    BY <1>1
  <2>2. i \in DOMAIN Changes(close) /\ Changes(close)[i] = close[i + 1] - close[i]
    BY DEF Changes
  <2>. DEFINE x == close[i + 1] - close[i]
  <2>3. x \in Int /\ -x \in Int
    BY <2>1
  <2>4. Positive(x) \in Int /\ Positive(-x) \in Int
    <3>. HIDE DEF x
    <3>. QED  BY <1>2, <2>3
  <2>5. i \in DOMAIN Changes(close) /\ Changes(close)[i] = x
    BY <2>2
  <2>. HIDE DEF x
  <2>6. Gains(close)[i] = Positive(x) /\ Losses(close)[i] = Positive(-x)
    BY <2>5 DEF Gains, Losses
  <2>. QED  BY <2>4, <2>6 DEF x
<1>7. Gains(close) = [i \in DOMAIN Gains(close) |-> Gains(close)[i]] /\ Losses(close) = [i \in DOMAIN Losses(close) |-> Losses(close)[i]]
  BY DEF Gains, Losses
<1>8. ASSUME n # 0
      PROVE  /\ Gains(close) \in Seq(Int) /\ Len(Gains(close)) = n - 1
             /\ Losses(close) \in Seq(Int) /\ Len(Losses(close)) = n - 1
  <2>. DEFINE k == n - 1
              g == Gains(close)
              l == Losses(close)
  <2>1. k \in Nat
    BY <1>1, <1>8
  <2>2. g \in [1 .. k -> Int] /\ l \in [1 .. k -> Int]
    BY <1>3, <1>6, <1>7
  <2>. HIDE DEF k, g, l
  <2>3. g \in Seq(Int) /\ Len(g) = k
    BY <2>1, <2>2, SeriesIsSeq
  <2>4. l \in Seq(Int) /\ Len(l) = k
    BY <2>1, <2>2, SeriesIsSeq
  <2>. QED  BY <2>3, <2>4 DEF k, g, l
<1>9. ASSUME NEW v \in Int, n # 0
      PROVE  /\ Gains(Append(close, v)) = Append(Gains(close), Positive(v - close[n]))
             /\ Losses(Append(close, v)) = Append(Losses(close), Positive(close[n] - v))
  <2>. DEFINE more == Append(close, v)
              m == n - 1
              g == Gains(close)
              l == Losses(close)
              G == Gains(more)
              L == Losses(more)
              x == Positive(v - close[n])
              y == Positive(close[n] - v)
  <2>1. Len(more) = n + 1 /\ (\A i \in 1 .. n : more[i] = close[i]) /\ more[n + 1] = v /\ n \in 1 .. n /\ m \in Nat /\ m + 1 = n
    BY <1>1, <1>9
  <2>2. \A i \in 1 .. n : i \in DOMAIN Changes(more) /\ Changes(more)[i] = more[i + 1] - more[i]
    BY <2>1 DEF Changes
  <2>3. DOMAIN Changes(more) = 1 .. n
    BY <2>1 DEF Changes
  <2>4. /\ DOMAIN G = 1 .. n /\ G = [i \in DOMAIN G |-> G[i]]
        /\ DOMAIN L = 1 .. n /\ L = [i \in DOMAIN L |-> L[i]]
    BY <2>3 DEF Gains, Losses
  <2>5. \A i \in 1 .. n : G[i] = Positive(more[i + 1] - more[i]) /\ L[i] = Positive(-(more[i + 1] - more[i]))
    <3>. HIDE DEF more, n
    <3>. QED  BY <2>2 DEF Gains, Losses
  <2>6. close[n] \in Int /\ G[n] = x /\ L[n] = y /\ x \in Int /\ y \in Int
    <3>. DEFINE d == more[n + 1] - more[n]
                e == v - close[n]
                r == close[n] - v
    <3>1. close[n] \in Int /\ e \in Int /\ r \in Int /\ -e = r
      BY <1>1, <2>1
    <3>2. d = e
      <4>1. more[n] = close[n] /\ more[n + 1] = v
        <5>. HIDE DEF more, n
        <5>. QED  BY <2>1
      <4>. HIDE DEF more, n
      <4>. QED  BY <4>1
    <3>3. G[n] = Positive(d) /\ L[n] = Positive(-d)
      <4>. HIDE DEF more, G, L, n
      <4>. QED  BY <2>1, <2>5
    <3>4. x = Positive(e) /\ y = Positive(r)
      OBVIOUS
    <3>. HIDE DEF d, e, r, G, L, x, y
    <3>5. Positive(-e) = Positive(r) /\ Positive(-d) = Positive(-e) /\ Positive(d) = Positive(e)
      BY <3>1, <3>2
    <3>. QED  BY <1>2, <3>1, <3>3, <3>4, <3>5
  <2>7. Longer(g, G, m) /\ Longer(l, L, m)
    <3>1. ASSUME NEW i \in 1 .. m PROVE G[i] = g[i] /\ L[i] = l[i]
      <4>1. i \in 1 .. n /\ i + 1 \in 1 .. n /\ i \in 1 .. n - 1
        BY <1>1
      <4>2. more[i] = close[i] /\ more[i + 1] = close[i + 1]
        <5>. DEFINE j == i + 1
        <5>1. more[j] = close[j]
          <6>. HIDE DEF more, n
          <6>. QED  BY <2>1, <4>1
        <5>. QED  BY <2>1, <4>1, <5>1
      <4>. HIDE DEF more, n
      <4>. QED  BY <1>6, <2>5, <4>1, <4>2
    <3>. QED  BY <3>1 DEF Longer
  <2>8. g \in Seq(Int) /\ Len(g) = m /\ l \in Seq(Int) /\ Len(l) = m
    BY <1>8, <1>9
  <2>. HIDE DEF more, m, g, l, G, L, x, y
  <2>0. /\ DOMAIN G = 1 .. Len(g) + 1 /\ G[Len(g) + 1] = x /\ Longer(g, G, Len(g))
        /\ DOMAIN L = 1 .. Len(l) + 1 /\ L[Len(l) + 1] = y /\ Longer(l, L, Len(l))
    <3>. HIDE DEF n
    <3>. QED  BY <2>1, <2>4, <2>6, <2>7, <2>8
  <2>9. G = Append(g, x)
    BY <2>0, <2>4, <2>6, <2>8, AppendIs
  <2>10. L = Append(l, y)
    BY <2>0, <2>4, <2>6, <2>8, AppendIs
  <2>. QED  BY <2>9, <2>10 DEF more, g, l, G, L, x, y
<1>10. close = <<>> <=> n = 0
  OBVIOUS
<1>11. <<>> \in Seq(Int)
  OBVIOUS
<1>. QED  BY <1>4, <1>5, <1>8, <1>9, <1>10, <1>11

(* The true ranges: RangeOf needs only the close before.                     *)
LEMMA RangeFacts ==
  ASSUME NEW bars \in Seq(Bar)
  PROVE  /\ TrueRange(bars) \in Seq(Int) /\ Len(TrueRange(bars)) = Len(bars)
         /\ \A b \in Bar : \A s :
                s.prev = Latest(Column(bars, "c"), Len(bars)) =>
                   /\ RangeOf(s, b) \in Int
                   /\ TrueRange(Append(bars, b)) = Append(TrueRange(bars), RangeOf(s, b))
<1>. DEFINE n == Len(bars)
            r == TrueRange(bars)
            range(x, y) == Larger(x.h - x.l, Larger(Gap(x.h, y.c), Gap(x.l, y.c)))
<1>1. n \in Nat /\ DOMAIN bars = 1 .. n /\ \A i \in 1 .. n : bars[i] \in Bar
  OBVIOUS
<1>2. \A x, y \in Bar : range(x, y) \in Int /\ x.h - x.l \in Int
  <2>1. \A u, w \in Int : Larger(u, w) \in Int
    BY DEF Larger
  <2>2. \A u, w \in Int : Gap(u, w) \in Int
    BY DEF Gap, Larger
  <2>3. \A x \in Bar : x.h \in Int /\ x.l \in Int /\ x.c \in Int /\ x.h - x.l \in Int
    BY DEF Bar
  <2>. QED  BY <2>1, <2>2, <2>3
<1>3. ASSUME NEW i \in 1 .. n PROVE r[i] \in Int
  <2>1. r[i] = IF i = 1 THEN bars[i].h - bars[i].l ELSE range(bars[i], bars[i - 1])
    BY <1>1 DEF TrueRange
  <2>2. bars[i] \in Bar /\ (i # 1 => bars[i - 1] \in Bar)
    BY <1>1
  <2>. HIDE DEF range, r
  <2>. QED  BY <1>2, <2>1, <2>2
<1>4. r \in [1 .. n -> Int]
  BY <1>1, <1>3 DEF TrueRange
<1>5. r \in Seq(Int) /\ Len(r) = n
  <2>. HIDE DEF r, n
  <2>. QED  BY <1>1, <1>4, SeriesIsSeq
<1>6. ASSUME NEW b \in Bar, NEW s, s.prev = Latest(Column(bars, "c"), n)
      PROVE  RangeOf(s, b) \in Int /\ TrueRange(Append(bars, b)) = Append(r, RangeOf(s, b))
  <2>. DEFINE more == Append(bars, b)
              m == n + 1
              t == TrueRange(more)
              x == RangeOf(s, b)
  <2>1. /\ DOMAIN more = 1 .. m /\ more[m] = b /\ m \in 1 .. m /\ \A i \in 1 .. n : more[i] = bars[i] /\ i \in 1 .. m
    BY AppendFacts
  <2>2. DOMAIN t = 1 .. m /\ t = [i \in DOMAIN t |-> t[i]]
    BY <2>1 DEF TrueRange
  <2>3. \A i \in 1 .. m : t[i] = IF i = 1 THEN more[i].h - more[i].l ELSE range(more[i], more[i - 1])
    <3>. HIDE DEF more, m
    <3>. QED  BY <2>1 DEF TrueRange
  <2>4. ASSUME NEW i \in 1 .. n PROVE t[i] = r[i]
    <3>1. r[i] = IF i = 1 THEN bars[i].h - bars[i].l ELSE range(bars[i], bars[i - 1])
      BY <1>1 DEF TrueRange
    <3>2. i \in 1 .. m /\ more[i] = bars[i] /\ (i # 1 => more[i - 1] = bars[i - 1])
      <4>1. i # 1 => i - 1 \in 1 .. n
        BY <1>1
      <4>. HIDE DEF n, m, more
      <4>. QED  BY <2>1, <4>1
    <3>3. t[i] = IF i = 1 THEN more[i].h - more[i].l ELSE range(more[i], more[i - 1])
      <4>. HIDE DEF n, m, more, t, range
      <4>. QED  BY <2>3, <3>2
    <3>. HIDE DEF t, r, n, m, more, range
    <3>4. CASE i = 1
      BY <3>1, <3>2, <3>3, <3>4
    <3>5. CASE i # 1
      BY <3>1, <3>2, <3>3, <3>5
    <3>. QED  BY <3>4, <3>5
  <2>5. t[m] = x /\ x \in Int
    <3>1. t[m] = IF m = 1 THEN b.h - b.l ELSE range(b, more[n])
      <4>1. m \in 1 .. m /\ m - 1 = n
        BY <1>1
      <4>2. t[m] = IF m = 1 THEN more[m].h - more[m].l ELSE range(more[m], more[m - 1])
        <5>. HIDE DEF t, more, m, range
        <5>. QED  BY <2>3, <4>1
      <4>3. more[m] = b
        BY <2>1
      <4>. HIDE DEF t, more, m, range, n
      <4>. QED  BY <4>1, <4>2, <4>3
    <3>2. CASE n = 0
      <4>1. s.prev = Never /\ m = 1
        BY <1>6, <3>2 DEF Latest
      <4>2. x = b.h - b.l
        BY <4>1 DEF RangeOf
      <4>3. b.h - b.l \in Int
        BY <1>2
      <4>. HIDE DEF t, m, x
      <4>. QED  BY <3>1, <4>1, <4>2, <4>3
    <3>3. CASE n # 0
      <4>1. n \in 1 .. n /\ m # 1
        BY <1>1, <3>3
      <4>2. s.prev = bars[n].c /\ more[n] = bars[n] /\ bars[n] \in Bar
        <5>1. Latest(Column(bars, "c"), n) = bars[n].c
          BY <1>1, <3>3, <4>1 DEF Latest, Column
        <5>. HIDE DEF more
        <5>. QED  BY <1>1, <1>6, <2>1, <4>1, <5>1
      <4>3. s.prev \in Int /\ s.prev # Never
        BY <4>2, NeverIsNoNumber DEF Bar
      <4>4. x = range(b, bars[n])
        BY <4>2, <4>3 DEF RangeOf
      <4>5. range(b, bars[n]) \in Int
        <5>. HIDE DEF range
        <5>. QED  BY <1>2, <4>2
      <4>. HIDE DEF t, m, x, range, n, more
      <4>. QED  BY <3>1, <4>1, <4>2, <4>4, <4>5
    <3>. QED  BY <3>2, <3>3
  <2>6. Longer(r, t, n)
    BY <2>4 DEF Longer
  <2>7. DOMAIN t = 1 .. Len(r) + 1 /\ t[Len(r) + 1] = x /\ Longer(r, t, Len(r)) /\ r \in Seq(Int)
    <3>. HIDE DEF t, r, x, n
    <3>. QED  BY <1>5, <2>2, <2>5, <2>6 DEF m
  <2>. HIDE DEF t, r, x
  <2>8. t = Append(r, x)
    BY <2>2, <2>5, <2>7, AppendIs
  <2>. QED  BY <2>5, <2>8 DEF t, r, x
<1>. QED  BY <1>5, <1>6

(* The same steps from the same start give the same values.                  *)
LEMMA IterationsAgree ==
  ASSUME NEW m \in Nat, NEW n \in Nat, m <= n, NEW X, NEW a, NEW step, NEW next, Longer(step, next, m),
         NEW f, Iterates(f, X, m, a, step), NEW g, Iterates(g, X, n, a, next)
  PROVE  \A i \in 0 .. m : g[i] = f[i] /\ f[i] \in X
<1>. DEFINE S == {k \in 0 .. m : g[k] = f[k]}
<1>1. 0 \in S
  BY DEF Iterates
<1>2. ASSUME NEW k \in 1 .. m, k - 1 \in S  PROVE k \in S
  <2>1. f[k] = step[k][f[k - 1]] /\ g[k] = next[k][g[k - 1]] /\ next[k] = step[k]
    BY DEF Iterates, Longer
  <2>. QED  BY <1>2, <2>1
<1>3. 0 .. m \subseteq S
  <2>. HIDE DEF S
  <2>. QED  BY <1>1, <1>2, BoundedInduction
<1>. QED  BY <1>3 DEF Iterates

(* The defined part of a series.                                             *)
Collect(s) == [k \in 1 .. Len(s) |-> [u \in Seq(Int) |-> IF s[k] = Never THEN u ELSE Append(u, s[k])]]

LEMMA DefinedIterates ==
  ASSUME NEW s \in Seq(Maybe)
  PROVE  \E g : Iterates(g, Seq(Int), Len(s), <<>>, Collect(s)) /\ Defined(s) = g[Len(s)]
<1>. DEFINE n == Len(s)
            step == Collect(s)
            none == <<>>
            X == Seq(Int)
<1>1. n \in Nat /\ none \in X
  OBVIOUS
<1>2. step \in Steps(X, n)
  <2>1. \A k \in 1 .. n : s[k] = Never \/ s[k] \in Int
    BY DEF Maybe
  <2>2. \A u \in X, x \in Int : Append(u, x) \in X
    OBVIOUS
  <2>3. \A k \in 1 .. n : step[k] \in [X -> X]
    <3>. HIDE DEF X
    <3>. QED  BY <2>1, <2>2 DEF Collect, X
  <2>. QED  BY <2>3 DEF Steps, Collect
<1>3. PICK g : Iterates(g, X, n, none, step)
  <2>. HIDE DEF X, n, none, step
  <2>. QED  BY <1>1, <1>2, Iteration
<1>. DEFINE f[i \in 0 .. Len(s)] ==
              IF i = 0 THEN <<>> ELSE IF s[i] = Never THEN f[i - 1] ELSE Append(f[i - 1], s[i])
<1>4. ASSUME NEW i \in 0 .. n
      PROVE  g[i] = IF i = 0 THEN <<>> ELSE IF s[i] = Never THEN g[i - 1] ELSE Append(g[i - 1], s[i])
  <2>1. CASE i = 0
    BY <1>3, <2>1 DEF Iterates
  <2>2. CASE i # 0
    <3>1. i \in 1 .. n /\ i - 1 \in 0 .. n
      BY <1>1, <2>2
    <3>2. g[i] = step[i][g[i - 1]] /\ g[i - 1] \in X
      <4>. HIDE DEF X, n, step
      <4>. QED  BY <1>3, <3>1 DEF Iterates
    <3>3. \A u \in X : step[i][u] = IF s[i] = Never THEN u ELSE Append(u, s[i])
      BY <3>1 DEF Collect
    <3>. HIDE DEF X, n, step
    <3>. QED  BY <2>2, <3>2, <3>3
  <2>. QED  BY <2>1, <2>2
<1>5. g = [i \in 0 .. Len(s) |->
             IF i = 0 THEN <<>> ELSE IF s[i] = Never THEN g[i - 1] ELSE Append(g[i - 1], s[i])]
  <2>1. g = [i \in 0 .. n |-> g[i]]
    BY <1>3 DEF Iterates
  <2>. QED  BY <1>4, <2>1
<1>6. f = [i \in 0 .. Len(s) |->
             IF i = 0 THEN <<>> ELSE IF s[i] = Never THEN f[i - 1] ELSE Append(f[i - 1], s[i])]
  BY <1>5
<1>7. Defined(s) = f[n]
  BY DEF Defined
<1>. HIDE DEF f
<1>8. f[n] = g[n]
  <2>. DEFINE S == {k \in 0 .. n : f[k] = g[k]}
  <2>1. f[0] = g[0] /\ 0 \in 0 .. n
    BY <1>1, <1>4, <1>6
  <2>2. ASSUME NEW k \in 1 .. n, k - 1 \in S  PROVE k \in S
    <3>1. k \in 0 .. n /\ k # 0 /\ f[k - 1] = g[k - 1]
      BY <1>1, <2>2
    <3>2. f[k] = IF s[k] = Never THEN f[k - 1] ELSE Append(f[k - 1], s[k])
      BY <1>6, <3>1
    <3>3. g[k] = IF s[k] = Never THEN g[k - 1] ELSE Append(g[k - 1], s[k])
      BY <1>4, <3>1
    <3>. QED  BY <3>1, <3>2, <3>3
  <2>3. 0 .. n \subseteq S
    <3>1. 0 \in S
      BY <2>1
    <3>. HIDE DEF S, n
    <3>. QED  BY <1>1, <2>2, <3>1, BoundedInduction
  <2>4. n \in 0 .. n
    BY <1>1
  <2>. QED  BY <2>3, <2>4
<1>. QED  BY <1>3, <1>7, <1>8

LEMMA DefinedFacts ==
  ASSUME NEW s \in Seq(Maybe)
  PROVE  /\ Defined(s) \in Seq(Int)
         /\ s = <<>> => Defined(s) = <<>>
         /\ (\A i \in 1 .. Len(s) : s[i] = Never) => Defined(s) = <<>>
         /\ \A x \in Maybe : Defined(Append(s, x)) = IF x = Never THEN Defined(s) ELSE Append(Defined(s), x)
<1>. DEFINE n == Len(s)
            X == Seq(Int)
            none == <<>>
            step == Collect(s)
<1>1. n \in Nat /\ n \in 0 .. n /\ 0 \in 0 .. n
  OBVIOUS
<1>2. PICK g : Iterates(g, X, n, none, step) /\ Defined(s) = g[n]
  BY DefinedIterates
<1>3. Defined(s) \in X
  BY <1>1, <1>2 DEF Iterates
<1>4. ASSUME \A i \in 1 .. n : s[i] = Never PROVE Defined(s) = none
  <2>. DEFINE S == {k \in 0 .. n : g[k] = none}
  <2>1. 0 \in S
    BY <1>1, <1>2 DEF Iterates
  <2>2. ASSUME NEW k \in 1 .. n, k - 1 \in S  PROVE k \in S
    <3>1. g[k] = step[k][g[k - 1]] /\ k \in 0 .. n
      <4>. HIDE DEF X, none, step
      <4>. QED  BY <1>1, <1>2 DEF Iterates
    <3>2. step[k] = [u \in X |-> IF s[k] = Never THEN u ELSE Append(u, s[k])]
      BY DEF Collect
    <3>3. g[k - 1] = none /\ none \in X
      BY <2>2
    <3>. HIDE DEF none, X, step
    <3>4. step[k][none] = none
      BY <1>4, <3>2, <3>3
    <3>. QED  BY <3>1, <3>3, <3>4
  <2>3. 0 .. n \subseteq S
    <3>. HIDE DEF S, n
    <3>. QED  BY <1>1, <2>1, <2>2, BoundedInduction
  <2>. QED  BY <1>1, <1>2, <2>3
<1>5. ASSUME NEW x \in Maybe PROVE Defined(Append(s, x)) = IF x = Never THEN Defined(s) ELSE Append(Defined(s), x)
  <2>. DEFINE t == Append(s, x)
              m == n + 1
              next == Collect(t)
  <2>1. t \in Seq(Maybe) /\ Len(t) = m /\ t[m] = x /\ \A i \in 1 .. n : t[i] = s[i]
    BY AppendFacts
  <2>2. PICK h : Iterates(h, X, m, none, next) /\ Defined(t) = h[m]
    <3>. HIDE DEF t, m
    <3>. QED  BY <2>1, DefinedIterates
  <2>3. m \in Nat /\ n <= m /\ m \in 1 .. m /\ m - 1 = n /\ \A i \in 1 .. n : i \in 1 .. m
    BY <1>1
  <2>4. Longer(step, next, n)
    <3>. HIDE DEF t, m
    <3>. QED  BY <2>1, <2>3 DEF Longer, Collect
  <2>5. \A k \in 0 .. n : h[k] = g[k] /\ g[k] \in X
    <3>. HIDE DEF t, m, n, next, step, X, none
    <3>. QED  BY <1>1, <1>2, <2>2, <2>3, <2>4, IterationsAgree
  <2>6. h[m] = next[m][h[n]]
    <3>. HIDE DEF t, m, n, next, X, none
    <3>. QED  BY <2>2, <2>3 DEF Iterates
  <2>7. next[m] = [u \in X |-> IF x = Never THEN u ELSE Append(u, x)]
    <3>. HIDE DEF t, m
    <3>. QED  BY <2>1, <2>3 DEF Collect
  <2>8. h[n] = Defined(s)
    BY <1>1, <1>2, <2>5
  <2>. HIDE DEF t, m, next, X
  <2>9. h[m] = IF x = Never THEN Defined(s) ELSE Append(Defined(s), x)
    BY <1>3, <2>6, <2>7, <2>8
  <2>. QED  BY <2>2, <2>9 DEF t
<1>6. s = <<>> => \A i \in 1 .. n : s[i] = Never
  OBVIOUS
<1>. QED  BY <1>3, <1>4, <1>5, <1>6

(* The last defined value of an average is its latest.                       *)
LEMMA LastOfAverage ==
  ASSUME NEW n \in Nat, NEW p \in Nat \ {0}, NEW f \in [1 .. n -> Maybe],
         NEW first, NEW step, IsAverage(f, n, p, first, step)
  PROVE  LastDefined(f) = Latest(f, n)
<1>1. f \in Seq(Maybe) /\ Len(f) = n
  BY SeriesIsSeq
<1>2. CASE n < p
  <2>1. \A i \in 1 .. n : f[i] = Never
    BY <1>2 DEF IsAverage
  <2>2. Defined(f) = <<>>
    BY <1>1, <2>1, DefinedFacts
  <2>. QED  BY <2>1, <2>2 DEF LastDefined, Latest
<1>3. CASE n >= p
  <2>. DEFINE x == f[n]
              m == n - 1
              r == [i \in 1 .. m |-> f[i]]
  <2>1. n \in 1 .. n /\ n # 0 /\ m \in Nat /\ m + 1 = n /\ \A i \in 1 .. m : i \in 1 .. n
    BY <1>3
  <2>2. x \in Int /\ x \in Maybe /\ x # Never
    BY <1>3, <2>1, NeverIsNoNumber DEF IsAverage, Maybe
  <2>3. r \in Seq(Maybe) /\ Len(r) = m
    <3>1. r \in [1 .. m -> Maybe]
      <4>. HIDE DEF m
      <4>. QED  BY <2>1
    <3>. HIDE DEF r, m
    <3>. QED  BY <2>1, <3>1, SeriesIsSeq
  <2>4. f = Append(r, x)
    <3>1. DOMAIN f = 1 .. Len(r) + 1 /\ f = [i \in DOMAIN f |-> f[i]] /\ f[Len(r) + 1] = x
      <4>. HIDE DEF r
      <4>. QED  BY <2>1, <2>3
    <3>2. Longer(r, f, Len(r))
      <4>1. Longer(r, f, m)
        BY DEF Longer
      <4>. HIDE DEF r, m
      <4>. QED  BY <2>3, <4>1
    <3>. HIDE DEF r, x
    <3>. QED  BY <2>2, <2>3, <3>1, <3>2, AppendIs
  <2>. HIDE DEF r, x
  <2>5. Defined(f) = Append(Defined(r), x) /\ Defined(r) \in Seq(Int)
    BY <2>2, <2>3, <2>4, DefinedFacts
  <2>6. Defined(f) # <<>> /\ Last(Defined(f)) = x
    BY <2>2, <2>5, AppendFacts DEF Last
  <2>. QED  BY <2>1, <2>6 DEF LastDefined, Latest, x
<1>. QED  BY <1>2, <1>3

(* The MACD line, whose averages the state takes from the same closes.       *)
MacdOf(fast, slow) == IF Never \in {fast.value, slow.value} THEN Never ELSE fast.value - slow.value

LEMMA MacdFacts ==
  ASSUME NEW close \in Seq(Int)
  PROVE  /\ MacdLine(close) \in Seq(Maybe) /\ Len(MacdLine(close)) = Len(close)
         /\ \A i \in 1 .. Len(close) :
                MacdLine(close)[i] = IF Ema(close, Fast)[i] = Never \/ Ema(close, Slow)[i] = Never THEN Never
                                     ELSE Ema(close, Fast)[i] - Ema(close, Slow)[i]
<1>. DEFINE n == Len(close)
            fast == Ema(close, Fast)
            slow == Ema(close, Slow)
            line == MacdLine(close)
<1>1. n \in Nat /\ DOMAIN close = 1 .. n
  OBVIOUS
<1>2. fast \in [1 .. n -> Maybe] /\ slow \in [1 .. n -> Maybe]
  BY IndicatorConstants, EmaFacts
<1>3. line = [i \in 1 .. n |-> IF fast[i] = Never \/ slow[i] = Never THEN Never ELSE fast[i] - slow[i]]
  BY <1>1 DEF MacdLine
<1>. HIDE DEF n, fast, slow, line
<1>4. line \in [1 .. n -> Maybe]
  BY <1>2, <1>3 DEF Maybe
<1>5. line \in Seq(Maybe) /\ Len(line) = n
  BY <1>1, <1>4, SeriesIsSeq
<1>6. \A i \in 1 .. n : line[i] = IF fast[i] = Never \/ slow[i] = Never THEN Never ELSE fast[i] - slow[i]
  BY <1>3
<1>. QED  BY <1>5, <1>6 DEF n, fast, slow, line

LEMMA MacdLonger ==
  ASSUME NEW close \in Seq(Int), NEW v \in Int,
         NEW fast, Taken(fast, close, Fast, Ema(close, Fast)),
         NEW slow, Taken(slow, close, Slow, Ema(close, Slow))
  PROVE  /\ MacdOf(NextEma(fast, Fast, v), NextEma(slow, Slow, v)) \in Maybe
         /\ MacdLine(Append(close, v)) =
              Append(MacdLine(close), MacdOf(NextEma(fast, Fast, v), NextEma(slow, Slow, v)))
<1>. DEFINE n == Len(close)
            m == n + 1
            more == Append(close, v)
            line == MacdLine(close)
            t == MacdLine(more)
            f == Ema(close, Fast)
            g == Ema(more, Fast)
            k == Ema(close, Slow)
            l == Ema(more, Slow)
            newFast == NextEma(fast, Fast, v)
            newSlow == NextEma(slow, Slow, v)
            x == MacdOf(newFast, newSlow)
<1>1. n \in Nat /\ m \in Nat /\ m # 0 /\ m \in 1 .. m /\ more \in Seq(Int) /\ Len(more) = m /\ \A i \in 1 .. n : i \in 1 .. m
  OBVIOUS
<1>2. Taken(newFast, more, Fast, g) /\ Longer(f, g, n)
  BY IndicatorConstants, EmaTaken
<1>3. Taken(newSlow, more, Slow, l) /\ Longer(k, l, n)
  BY IndicatorConstants, EmaTaken
<1>4. line \in Seq(Maybe) /\ Len(line) = n /\ \A i \in 1 .. n : line[i] = IF f[i] = Never \/ k[i] = Never THEN Never ELSE f[i] - k[i]
  BY MacdFacts
<1>5. t \in Seq(Maybe) /\ Len(t) = m /\ \A i \in 1 .. m : t[i] = IF g[i] = Never \/ l[i] = Never THEN Never ELSE g[i] - l[i]
  <2>. HIDE DEF more, m
  <2>. QED  BY <1>1, MacdFacts
<1>. HIDE DEF n, more, line, t, f, g, k, l, newFast, newSlow
<1>6. newFast.value = g[m] /\ newSlow.value = l[m]
  <2>. HIDE DEF m
  <2>. QED  BY <1>1, <1>2, <1>3 DEF Taken, Latest
<1>7. t[m] = x
  <2>. HIDE DEF m
  <2>. QED  BY <1>1, <1>5, <1>6 DEF MacdOf
<1>8. x \in Maybe
  <2>1. t[m] \in Maybe
    <3>. HIDE DEF m
    <3>. QED  BY <1>1, <1>5
  <2>. HIDE DEF x, m
  <2>. QED  BY <1>7, <2>1
<1>9. Longer(line, t, n)
  <2>1. ASSUME NEW i \in 1 .. n PROVE t[i] = line[i]
    <3>1. g[i] = f[i] /\ l[i] = k[i]
      BY <1>2, <1>3 DEF Longer
    <3>2. t[i] = IF g[i] = Never \/ l[i] = Never THEN Never ELSE g[i] - l[i]
      <4>. HIDE DEF m
      <4>. QED  BY <1>1, <1>5
    <3>3. line[i] = IF f[i] = Never \/ k[i] = Never THEN Never ELSE f[i] - k[i]
      BY <1>4
    <3>. QED  BY <3>1, <3>2, <3>3
  <2>. QED  BY <2>1 DEF Longer
<1>10. DOMAIN t = 1 .. Len(line) + 1 /\ t = [i \in DOMAIN t |-> t[i]] /\ t[Len(line) + 1] = x /\ Longer(line, t, Len(line))
  <2>. HIDE DEF x
  <2>. QED  BY <1>1, <1>4, <1>5, <1>7, <1>9
<1>11. t = Append(line, x)
  <2>. HIDE DEF x
  <2>. QED  BY <1>4, <1>8, <1>10, AppendIs
<1>. QED  BY <1>8, <1>11 DEF more, line, t, newFast, newSlow

(* The supertrend. Its bands look at the close before only when there is a   *)
(* band before.                                                              *)
Trend == [upper : Int, lower : Int, dir : Int, line : Int] \cup {Never}
Follow(bars, atr) ==
    [i \in 1 .. Len(bars) |-> [x \in Trend |->
        IF atr[i] = Never THEN Never
        ELSE Turn(bars[i].c, Bands(bars[i], atr[i], x, IF i = 1 THEN 0 ELSE bars[i - 1].c), x)]]

LEMMA TurnType ==
  ASSUME NEW b \in Bar, NEW atr \in Int, NEW x \in Trend, NEW before \in Int
  PROVE  Turn(b.c, Bands(b, atr, x, before), x) \in Trend
<1>. DEFINE mid == (b.h + b.l) \div 2
            up == mid + TrendTimes * atr
            low == mid - TrendTimes * atr
            band == Bands(b, atr, x, before)
<1>1. b.h \in Int /\ b.l \in Int /\ b.c \in Int /\ b.h + b.l \in Int
  BY DEF Bar
<1>2. up \in Int /\ low \in Int /\ mid \in Int
  <2>1. TrendTimes * atr \in Int
    BY IndicatorConstants
  <2>2. mid \in Int
    BY <1>1
  <2>. HIDE DEF mid
  <2>. QED  BY <2>1, <2>2
<1>3. x # Never => x.upper \in Int /\ x.lower \in Int /\ x.dir \in Int /\ x.line \in Int
  BY DEF Trend
<1>4. /\ band.mid = mid
      /\ band.upper = up \/ (x # Never /\ band.upper = x.upper)
      /\ band.lower = low \/ (x # Never /\ band.lower = x.lower)
  <2>1. band = IF x = Never THEN [mid |-> mid, upper |-> up, lower |-> low]
               ELSE [mid |-> mid,
                     upper |-> IF up < x.upper \/ before > x.upper THEN up ELSE x.upper,
                     lower |-> IF low > x.lower \/ before < x.lower THEN low ELSE x.lower]
    BY DEF Bands
  <2>. HIDE DEF mid, up, low, band
  <2>. QED  BY <2>1
<1>. HIDE DEF mid, up, low, band
<1>5. band.upper \in Int /\ band.lower \in Int
  BY <1>2, <1>3, <1>4
<1>. DEFINE t == Turn(b.c, band, x)
<1>6. \E dir \in Int : t = [upper |-> band.upper, lower |-> band.lower, dir |-> dir,
                            line |-> IF dir = 1 THEN band.lower ELSE band.upper]
  <2>. DEFINE dir == IF x = Never THEN IF b.c >= band.mid THEN 1 ELSE -1
                     ELSE IF b.c > (IF x.dir = -1 THEN x.upper ELSE x.line) THEN 1
                     ELSE IF b.c < (IF x.dir = 1 THEN x.lower ELSE x.line) THEN -1
                     ELSE x.dir
  <2>1. dir \in Int
    <3>1. 1 \in Int /\ -1 \in Int
      OBVIOUS
    <3>. QED  BY <1>3, <3>1
  <2>2. t = [upper |-> band.upper, lower |-> band.lower, dir |-> dir,
             line |-> IF dir = 1 THEN band.lower ELSE band.upper]
    BY DEF Turn
  <2>. HIDE DEF dir, t
  <2>. QED  BY <2>1, <2>2
<1>. HIDE DEF t
<1>7. t \in Trend
  BY <1>5, <1>6 DEF Trend
<1>. QED  BY <1>7 DEF t, band

(* Without a band before, the close before is not looked at.                 *)
LEMMA FirstBand ==
  ASSUME NEW b, NEW atr, NEW x, NEW y
  PROVE  Bands(b, atr, Never, x) = Bands(b, atr, Never, y)
  BY DEF Bands

LEMMA TrendIterates ==
  ASSUME NEW bars \in Seq(Bar)
  PROVE  \E g : /\ Iterates(g, Trend, Len(bars), Never, Follow(bars, Atr(bars, TrendPeriod)))
                /\ \A i \in 1 .. Len(bars) : Supertrend(bars)[i] = g[i]
                /\ DOMAIN Supertrend(bars) = 1 .. Len(bars)
<1>. DEFINE n == Len(bars)
            atr == Atr(bars, TrendPeriod)
            step == Follow(bars, atr)
            X == Trend
            none == Never
            before(i) == IF i = 1 THEN 0 ELSE bars[i - 1].c
<1>1. n \in Nat /\ DOMAIN bars = 1 .. n /\ none \in X /\ \A i \in 1 .. n : bars[i] \in Bar
  BY DEF Trend
<1>2. atr \in [1 .. n -> Maybe]
  <2>. DEFINE s == TrueRange(bars)
  <2>1. s \in Seq(Int) /\ Len(s) = n
    BY RangeFacts
  <2>. HIDE DEF s
  <2>2. WilderSmooth(s, TrendPeriod) \in [1 .. Len(s) -> Maybe]
    BY <2>1, IndicatorConstants, WilderFacts
  <2>. QED  BY <2>1, <2>2 DEF Atr, s
<1>3. step \in Steps(X, n)
  <2>1. \A i \in 1 .. n : before(i) \in Int
    <3>1. ASSUME NEW i \in 1 .. n PROVE before(i) \in Int
      <4>1. i # 1 => bars[i - 1] \in Bar
        BY <1>1
      <4>2. i # 1 => bars[i - 1].c \in Int
        BY <4>1 DEF Bar
      <4>. QED  BY <4>2
    <3>. QED  BY <3>1
  <2>2. ASSUME NEW i \in 1 .. n, NEW x \in X
        PROVE  (IF atr[i] = Never THEN Never ELSE Turn(bars[i].c, Bands(bars[i], atr[i], x, before(i)), x)) \in X
    <3>1. atr[i] = Never \/ atr[i] \in Int
      <4>. HIDE DEF atr, n
      <4>. QED  BY <1>2 DEF Maybe
    <3>2. ASSUME atr[i] \in Int PROVE Turn(bars[i].c, Bands(bars[i], atr[i], x, before(i)), x) \in Trend
      <4>. DEFINE b == bars[i]
                  a == atr[i]
                  w == before(i)
      <4>1. b \in Bar /\ a \in Int /\ w \in Int
        <5>. HIDE DEF before, atr
        <5>. QED  BY <1>1, <2>1, <3>2
      <4>. HIDE DEF b, a, w
      <4>2. Turn(b.c, Bands(b, a, x, w), x) \in Trend
        BY <4>1, TurnType
      <4>. QED  BY <4>2 DEF b, a, w
    <3>. HIDE DEF atr, before
    <3>. QED  BY <1>1, <3>1, <3>2
  <2>3. step = [i \in 1 .. n |-> [x \in X |-> IF atr[i] = Never THEN Never
                                       ELSE Turn(bars[i].c, Bands(bars[i], atr[i], x, before(i)), x)]]
    BY DEF Follow
  <2>. HIDE DEF atr, before, n, X, step
  <2>. QED  BY <2>2, <2>3 DEF Steps
<1>4. PICK g : Iterates(g, X, n, none, step)
  <2>. HIDE DEF X, n, none, step
  <2>. QED  BY <1>1, <1>3, Iteration
<1>5. ASSUME NEW i \in 1 .. n
      PROVE  g[i] = IF atr[i] = Never THEN Never
                    ELSE Turn(bars[i].c, Bands(bars[i], atr[i], IF i = 1 THEN Never ELSE g[i - 1], before(i)),
                              IF i = 1 THEN Never ELSE g[i - 1])
  <2>1. i - 1 \in 0 .. n
    BY <1>1
  <2>. DEFINE x == g[i - 1]
  <2>2. g[i] = step[i][x] /\ x \in X /\ (i = 1 => x = Never)
    <3>. HIDE DEF X, n, step
    <3>. QED  BY <1>4, <2>1 DEF Iterates
  <2>3. \A y \in X : step[i][y] = IF atr[i] = Never THEN Never
                                  ELSE Turn(bars[i].c, Bands(bars[i], atr[i], y, before(i)), y)
    BY DEF Follow
  <2>4. x = IF i = 1 THEN Never ELSE x
    <3>. HIDE DEF x
    <3>. QED  BY <2>2
  <2>. HIDE DEF X, step, x, atr, before
  <2>. QED  BY <2>2, <2>3, <2>4 DEF x
<1>. DEFINE f[i \in DOMAIN bars] ==
              IF atr[i] = Never THEN Never
              ELSE LET prev == IF i = 1 THEN Never ELSE f[i - 1]
                       prevClose == IF i = 1 THEN 0 ELSE bars[i - 1].c
                   IN  Turn(bars[i].c, Bands(bars[i], atr[i], prev, prevClose), prev)
            r == [i \in 1 .. n |-> g[i]]
<1>6. r = [i \in DOMAIN bars |->
             IF atr[i] = Never THEN Never
             ELSE LET prev == IF i = 1 THEN Never ELSE r[i - 1]
                      prevClose == IF i = 1 THEN 0 ELSE bars[i - 1].c
                  IN  Turn(bars[i].c, Bands(bars[i], atr[i], prev, prevClose), prev)]
  <2>1. ASSUME NEW i \in 1 .. n
        PROVE  r[i] = IF atr[i] = Never THEN Never
                      ELSE Turn(bars[i].c, Bands(bars[i], atr[i], IF i = 1 THEN Never ELSE r[i - 1], before(i)),
                                IF i = 1 THEN Never ELSE r[i - 1])
    <3>1. (IF i = 1 THEN Never ELSE r[i - 1]) = IF i = 1 THEN Never ELSE g[i - 1]
      <4>1. i # 1 => i - 1 \in 1 .. n
        BY <1>1
      <4>. QED  BY <4>1
    <3>2. r[i] = g[i]
      OBVIOUS
    <3>. HIDE DEF atr, r, before
    <3>. QED  BY <1>5, <3>1, <3>2
  <2>2. r = [i \in DOMAIN bars |-> r[i]]
    BY <1>1
  <2>3. ASSUME NEW i \in DOMAIN bars
        PROVE  r[i] = IF atr[i] = Never THEN Never
                      ELSE LET prev == IF i = 1 THEN Never ELSE r[i - 1]
                               prevClose == IF i = 1 THEN 0 ELSE bars[i - 1].c
                           IN  Turn(bars[i].c, Bands(bars[i], atr[i], prev, prevClose), prev)
    <3>1. i \in 1 .. n
      BY <1>1
    <3>. HIDE DEF atr, r, n
    <3>. QED  BY <2>1, <3>1
  <2>. HIDE DEF atr, r
  <2>. QED  BY <2>2, <2>3
<1>7. f = [i \in DOMAIN bars |->
             IF atr[i] = Never THEN Never
             ELSE LET prev == IF i = 1 THEN Never ELSE f[i - 1]
                      prevClose == IF i = 1 THEN 0 ELSE bars[i - 1].c
                  IN  Turn(bars[i].c, Bands(bars[i], atr[i], prev, prevClose), prev)]
  <2>. HIDE DEF atr, r
  <2>. QED  BY <1>6
<1>8. Supertrend(bars) = f
  BY DEF Supertrend
<1>. HIDE DEF f
<1>9. \A i \in 1 .. n : f[i] = g[i]
  <2>. DEFINE Good(k) == k = 0 \/ f[k] = g[k]
              S == {k \in 0 .. n : Good(k)}
  <2>1. ASSUME NEW k \in 1 .. n, k - 1 \in S  PROVE k \in S
    <3>1. (IF k = 1 THEN Never ELSE f[k - 1]) = IF k = 1 THEN Never ELSE g[k - 1]
      <4>1. k # 1 => f[k - 1] = g[k - 1]
        BY <2>1
      <4>. QED  BY <4>1
    <3>2. f[k] = IF atr[k] = Never THEN Never
                 ELSE Turn(bars[k].c, Bands(bars[k], atr[k], IF k = 1 THEN Never ELSE f[k - 1], before(k)),
                           IF k = 1 THEN Never ELSE f[k - 1])
      <4>. HIDE DEF atr
      <4>. QED  BY <1>1, <1>7
    <3>3. f[k] = g[k]
      <4>. HIDE DEF atr, before
      <4>. QED  BY <1>5, <3>1, <3>2
    <3>. QED  BY <3>3
  <2>2. 0 \in S
    BY <1>1
  <2>3. 0 .. n \subseteq S
    <3>. HIDE DEF S, n
    <3>. QED  BY <1>1, <2>1, <2>2, BoundedInduction
  <2>. QED  BY <2>3
<1>10. DOMAIN f = 1 .. n
  BY <1>1, <1>7
<1>. QED  BY <1>4, <1>8, <1>9, <1>10

LEMMA TrendLonger ==
  ASSUME NEW bars \in Seq(Bar), NEW b \in Bar,
         NEW close, close = Latest(Column(bars, "c"), Len(bars)),
         NEW trend, trend = Latest(Supertrend(bars), Len(bars)),
         NEW atr, atr = Atr(Append(bars, b), TrendPeriod)[Len(bars) + 1],
         Longer(Atr(bars, TrendPeriod), Atr(Append(bars, b), TrendPeriod), Len(bars))
  PROVE  Latest(Supertrend(Append(bars, b)), Len(bars) + 1) =
           IF atr = Never THEN Never ELSE Turn(b.c, Bands(b, atr, trend, close), trend)
<1>. DEFINE n == Len(bars)
            m == n + 1
            more == Append(bars, b)
            ranges == Atr(bars, TrendPeriod)
            longer == Atr(more, TrendPeriod)
            step == Follow(bars, ranges)
            next == Follow(more, longer)
            X == Trend
            none == Never
<1>1. /\ n \in Nat /\ m \in Nat /\ m # 0 /\ n <= m /\ m \in 1 .. m /\ m - 1 = n /\ n \in 0 .. n /\ 0 \in 0 .. n
      /\ more \in Seq(Bar) /\ Len(more) = m /\ more[m] = b
      /\ \A i \in 1 .. n : i \in 1 .. m /\ more[i] = bars[i]
  BY AppendFacts
<1>2. PICK g : Iterates(g, X, n, none, step) /\ \A i \in 1 .. n : Supertrend(bars)[i] = g[i]
  BY TrendIterates
<1>3. PICK h : Iterates(h, X, m, none, next) /\ \A i \in 1 .. m : Supertrend(more)[i] = h[i]
  <2>. HIDE DEF more, m
  <2>. QED  BY <1>1, TrendIterates
<1>4. Longer(step, next, n)
  <2>1. ASSUME NEW i \in 1 .. n PROVE next[i] = step[i]
    <3>1. i # 1 => more[i - 1] = bars[i - 1]
      <4>1. i # 1 => i - 1 \in 1 .. n
        BY <1>1
      <4>. HIDE DEF more, n
      <4>. QED  BY <1>1, <4>1
    <3>2. more[i] = bars[i] /\ longer[i] = ranges[i] /\ i \in 1 .. m
      <4>1. Longer(ranges, longer, n)
        OBVIOUS
      <4>. HIDE DEF more, n, m, ranges, longer
      <4>. QED  BY <1>1, <4>1 DEF Longer
    <3>3. next[i] = [x \in Trend |->
             IF longer[i] = Never THEN Never
             ELSE Turn(more[i].c, Bands(more[i], longer[i], x, IF i = 1 THEN 0 ELSE more[i - 1].c), x)]
      <4>. HIDE DEF more, m, longer
      <4>. QED  BY <1>1, <3>2 DEF Follow
    <3>4. step[i] = [x \in Trend |->
             IF ranges[i] = Never THEN Never
             ELSE Turn(bars[i].c, Bands(bars[i], ranges[i], x, IF i = 1 THEN 0 ELSE bars[i - 1].c), x)]
      <4>. HIDE DEF ranges
      <4>. QED  BY DEF Follow
    <3>5. (IF i = 1 THEN 0 ELSE more[i - 1].c) = IF i = 1 THEN 0 ELSE bars[i - 1].c
      <4>. HIDE DEF more
      <4>. QED  BY <3>1
    <3>. HIDE DEF more, longer, ranges, next, step
    <3>. QED  BY <3>2, <3>3, <3>4, <3>5
  <2>. HIDE DEF next, step, n
  <2>. QED  BY <2>1 DEF Longer
<1>5. \A k \in 0 .. n : h[k] = g[k] /\ g[k] \in X
  <2>. HIDE DEF more, m, n, next, step, X, none
  <2>. QED  BY <1>1, <1>2, <1>3, <1>4, IterationsAgree
<1>6. h[n] = trend /\ trend \in X /\ (n = 0 => trend = Never)
  <2>1. CASE n = 0
    <3>1. trend = Never /\ g[0] = Never
      BY <1>2, <2>1 DEF Latest, Iterates
    <3>. HIDE DEF n, X
    <3>. QED  BY <1>1, <1>5, <2>1, <3>1
  <2>2. CASE n # 0
    <3>1. n \in 1 .. n
      BY <1>1, <2>2
    <3>2. trend = g[n]
      BY <1>2, <2>2, <3>1 DEF Latest
    <3>. HIDE DEF n, X
    <3>. QED  BY <1>1, <1>5, <2>2, <3>2
  <2>. QED  BY <2>1, <2>2
<1>7. h[m] = next[m][trend]
  <2>1. h[m] = next[m][h[m - 1]]
    <3>. HIDE DEF m, next, X, none
    <3>. QED  BY <1>1, <1>3 DEF Iterates
  <2>. HIDE DEF m, n, next
  <2>. QED  BY <1>1, <1>6, <2>1
<1>8. next[m][trend] = IF atr = Never THEN Never
                       ELSE Turn(b.c, Bands(b, atr, trend, IF m = 1 THEN 0 ELSE more[m - 1].c), trend)
  <2>1. atr = longer[m]
    OBVIOUS
  <2>. HIDE DEF m, more, longer
  <2>. QED  BY <1>1, <1>6, <2>1 DEF Follow
<1>9. Bands(b, atr, trend, IF m = 1 THEN 0 ELSE more[m - 1].c) = Bands(b, atr, trend, close)
  <2>1. CASE n = 0
    <3>1. trend = Never
      BY <1>6, <2>1
    <3>. DEFINE y == IF m = 1 THEN 0 ELSE more[m - 1].c
    <3>. HIDE DEF y
    <3>2. Bands(b, atr, trend, y) = Bands(b, atr, trend, close)
      BY <3>1, FirstBand
    <3>. QED  BY <3>2 DEF y
  <2>2. CASE n # 0
    <3>1. n \in 1 .. n /\ m # 1 /\ DOMAIN bars = 1 .. n
      BY <1>1, <2>2
    <3>2. more[m - 1] = bars[n]
      <4>. HIDE DEF more, m, n
      <4>. QED  BY <1>1, <3>1
    <3>3. close = bars[n].c
      BY <2>2, <3>1 DEF Latest, Column
    <3>. HIDE DEF more, m, n
    <3>. QED  BY <3>1, <3>2, <3>3
  <2>. QED  BY <2>1, <2>2
<1>10. Latest(Supertrend(more), m) = h[m]
  <2>. HIDE DEF more, m
  <2>. QED  BY <1>1, <1>3 DEF Latest
<1>11. Latest(Supertrend(more), m) = IF atr = Never THEN Never ELSE Turn(b.c, Bands(b, atr, trend, close), trend)
  <2>. HIDE DEF more, m, next
  <2>. QED  BY <1>7, <1>8, <1>9, <1>10
<1>. QED  BY <1>11

(* The bars kept, and what the state of a session is about.                  *)
Kept(bars) == SubSeq(bars, Larger(1, Len(bars) - Window + 1), Len(bars))

LEMMA SubSeqFacts ==
  ASSUME NEW X, NEW s \in Seq(X), NEW k \in Nat \ {0}, k <= Len(s) + 1
  PROVE  /\ SubSeq(s, k, Len(s)) \in Seq(X) /\ Len(SubSeq(s, k, Len(s))) = Len(s) - k + 1
         /\ \A i \in 1 .. Len(s) - k + 1 : SubSeq(s, k, Len(s))[i] = s[k + i - 1]
         /\ \A x \in X : SubSeq(Append(s, x), k, Len(s) + 1) = Append(SubSeq(s, k, Len(s)), x)
         /\ k <= Len(s) => Tail(SubSeq(s, k, Len(s))) = SubSeq(s, k + 1, Len(s))
<1>. DEFINE n == Len(s)
            r == SubSeq(s, k, n)
<1>1. n \in Nat /\ \A i \in 1 .. n : s[i] \in X
  OBVIOUS
<1>2. \A i \in 1 .. n - k + 1 : k + i - 1 \in 1 .. n
  BY <1>1
<1>3. r \in Seq(X) /\ Len(r) = n - k + 1 /\ \A i \in 1 .. n - k + 1 : r[i] = s[k + i - 1]
  <2>1. r = [i \in 1 .. n - k + 1 |-> s[k + i - 1]]
    OBVIOUS
  <2>. DEFINE l == n - k + 1
  <2>2. l \in Nat
    BY <1>1
  <2>3. r \in [1 .. l -> X]
    BY <1>1, <1>2, <2>1
  <2>4. \A i \in 1 .. l : r[i] = s[k + i - 1]
    BY <2>1
  <2>. HIDE DEF l, r
  <2>5. r \in Seq(X) /\ Len(r) = l
    BY <2>2, <2>3, SeriesIsSeq
  <2>. QED  BY <2>4, <2>5 DEF l
<1>4. ASSUME NEW x \in X PROVE SubSeq(Append(s, x), k, n + 1) = Append(r, x)
  <2>. DEFINE more == Append(s, x)
              t == SubSeq(more, k, n + 1)
              l == n - k + 1
  <2>1. more \in Seq(X) /\ Len(more) = n + 1 /\ more[n + 1] = x /\ \A i \in 1 .. n : more[i] = s[i]
    BY AppendFacts
  <2>2. t = [i \in 1 .. (n + 1) - k + 1 |-> more[k + i - 1]]
    <3>. HIDE DEF more
    <3>. QED  BY <1>1, <2>1
  <2>3. l \in Nat /\ (n + 1) - k + 1 = l + 1 /\ l + 1 \in 1 .. l + 1 /\ k + (l + 1) - 1 = n + 1
    BY <1>1
  <2>4. DOMAIN t = 1 .. l + 1 /\ t = [i \in DOMAIN t |-> t[i]] /\ \A i \in 1 .. l + 1 : t[i] = more[k + i - 1]
    <3>. HIDE DEF more, l, t
    <3>. QED  BY <2>2, <2>3
  <2>5. t[l + 1] = x
    <3>1. t[l + 1] = more[k + (l + 1) - 1]
      <4>. DEFINE j == l + 1
      <4>1. j \in 1 .. l + 1
        BY <2>3
      <4>. HIDE DEF j, t, more, l
      <4>2. t[j] = more[k + j - 1]
        BY <2>4, <4>1
      <4>. QED  BY <4>2 DEF j
    <3>. HIDE DEF t, more, l, n
    <3>. QED  BY <2>1, <2>3, <3>1
  <2>6. ASSUME NEW i \in 1 .. l PROVE t[i] = r[i]
    <3>1. i \in 1 .. l + 1 /\ i \in 1 .. n - k + 1 /\ k + i - 1 \in 1 .. n
      BY <1>1, <1>2
    <3>2. t[i] = more[k + i - 1]
      <4>. HIDE DEF t, more, l
      <4>. QED  BY <2>4, <3>1
    <3>3. r[i] = s[k + i - 1]
      <4>. HIDE DEF r
      <4>. QED  BY <1>3, <3>1
    <3>. HIDE DEF t, more, l, r, n
    <3>. QED  BY <2>1, <3>1, <3>2, <3>3
  <2>7. Longer(r, t, Len(r)) /\ Len(r) + 1 = l + 1
    <3>1. Len(r) = l
      BY <1>3
    <3>. HIDE DEF r, t, l
    <3>. QED  BY <2>6, <3>1 DEF Longer
  <2>8. DOMAIN t = 1 .. Len(r) + 1 /\ t[Len(r) + 1] = x /\ t = [i \in DOMAIN t |-> t[i]]
    <3>. HIDE DEF r, t, l
    <3>. QED  BY <2>4, <2>5, <2>7
  <2>. HIDE DEF r, t
  <2>9. t = Append(r, x)
    BY <1>3, <2>7, <2>8, AppendIs
  <2>. QED  BY <2>9 DEF t
<1>5. ASSUME k <= n PROVE Tail(r) = SubSeq(s, k + 1, n)
  <2>1. k \in Int /\ n \in Int /\ k \in 1 .. n
    BY <1>1, <1>5
  <2>2. \A i \in k .. n : s[i] \in X
    BY <1>1
  <2>. QED  BY <2>1, <2>2, <1>1, <1>5, <1>2
<1>. QED  BY <1>3, <1>4, <1>5

LEMMA KeptFacts ==
  ASSUME NEW bars \in Seq(Bar)
  PROVE  /\ Kept(bars) \in Seq(Bar)
         /\ bars = <<>> => Kept(bars) = <<>>
         /\ \A b \in Bar : Kept(Append(bars, b)) = IF Len(Kept(bars)) = Window THEN Append(Tail(Kept(bars)), b)
                                                  ELSE Append(Kept(bars), b)
<1>. DEFINE n == Len(bars)
            k == Larger(1, n - Window + 1)
            r == SubSeq(bars, k, n)
<1>1. n \in Nat /\ Window \in Nat /\ Window # 0
  <2>1. BandPeriod \in Nat \ {0} /\ Window \in Nat /\ BandPeriod <= Window
    BY IndicatorConstants
  <2>. QED  BY <2>1
<1>2. k \in Nat \ {0} /\ k <= n + 1
  BY <1>1 DEF Larger
<1>3. r \in Seq(Bar) /\ Len(r) = n - k + 1
  <2>. HIDE DEF k
  <2>. QED  BY <1>2, SubSeqFacts
<1>4. bars = <<>> => r = <<>>
  <2>1. bars = <<>> => n = 0 /\ k = 1
    BY <1>1 DEF Larger
  <2>. HIDE DEF r, k
  <2>2. bars = <<>> => Len(r) = 0
    BY <1>3, <2>1
  <2>. QED  BY <1>3, <2>2
<1>5. ASSUME NEW b \in Bar
      PROVE  Kept(Append(bars, b)) = IF Len(r) = Window THEN Append(Tail(r), b) ELSE Append(r, b)
  <2>. DEFINE more == Append(bars, b)
              j == Larger(1, (n + 1) - Window + 1)
  <2>1. Len(more) = n + 1
    OBVIOUS
  <2>2. Kept(more) = SubSeq(more, j, n + 1)
    <3>. HIDE DEF more, j
    <3>. QED  BY <2>1 DEF Kept, j
  <2>3. CASE n >= Window
    <3>1. Len(r) = Window /\ k <= n /\ j = k + 1 /\ j \in Nat \ {0} /\ j <= n + 1
      <4>1. k = n - Window + 1 /\ j = n - Window + 2
        BY <1>1, <2>3 DEF Larger
      <4>. HIDE DEF k, r, j
      <4>. QED  BY <1>1, <1>3, <2>3, <4>1
    <3>0. j \in Nat \ {0} /\ j <= Len(bars) + 1 /\ k <= Len(bars)
      BY <3>1
    <3>. HIDE DEF j, k
    <3>2. SubSeq(more, j, n + 1) = Append(SubSeq(bars, j, n), b)
      BY <3>0, SubSeqFacts
    <3>3. Tail(r) = SubSeq(bars, k + 1, n)
      BY <1>2, <3>0, SubSeqFacts
    <3>4. Tail(r) = SubSeq(bars, j, n)
      BY <3>1, <3>3
    <3>5. Kept(more) = Append(Tail(r), b)
      <4>. HIDE DEF r, more, n
      <4>. QED  BY <2>2, <3>2, <3>4
    <3>. HIDE DEF r
    <3>. QED  BY <3>1, <3>5
  <2>4. CASE n < Window
    <3>1. Len(r) # Window /\ j = k
      <4>1. k = 1 /\ j = 1
        BY <1>1, <2>4 DEF Larger
      <4>. HIDE DEF k, r, j
      <4>. QED  BY <1>1, <1>3, <2>4, <4>1
    <3>. HIDE DEF j, k
    <3>2. SubSeq(more, k, n + 1) = Append(SubSeq(bars, k, n), b)
      BY <1>2, SubSeqFacts
    <3>3. Kept(more) = Append(r, b)
      BY <2>2, <3>1, <3>2
    <3>. HIDE DEF r
    <3>. QED  BY <3>1, <3>3
  <2>5. n >= Window \/ n < Window
    BY <1>1
  <2>. HIDE DEF r, n
  <2>. QED  BY <2>3, <2>4, <2>5
<1>. QED  BY <1>3, <1>4, <1>5 DEF Kept

(* The bands need only the bars kept.                                        *)
LEMMA BandFacts ==
  ASSUME NEW bars \in Seq(Bar)
  PROVE  Bollinger(Column(Kept(bars), "c")) = Bollinger(Column(bars, "c"))
<1>. DEFINE n == Len(bars)
            k == Larger(1, n - Window + 1)
            r == SubSeq(bars, k, n)
            B == BandPeriod
            s == Column(r, "c")
            t == Column(bars, "c")
            m == Len(s)
<1>1. n \in Nat /\ Window \in Nat /\ B \in Nat \ {0} /\ B <= Window
  BY IndicatorConstants
<1>2. k \in Nat \ {0} /\ k <= n + 1 /\ k \in Int
  BY <1>1 DEF Larger
<1>3. r \in Seq(Bar) /\ Len(r) = n - k + 1 /\ \A i \in 1 .. n - k + 1 : r[i] = bars[k + i - 1]
  <2>. HIDE DEF k
  <2>. QED  BY <1>2, SubSeqFacts
<1>4. s \in Seq(Int) /\ m = n - k + 1 /\ t \in Seq(Int) /\ Len(t) = n
  <2>. HIDE DEF r, k
  <2>. QED  BY <1>3, ColumnFacts
<1>5. \A i \in 1 .. m : s[i] = t[k + i - 1]
  <2>1. \A i \in 1 .. m : i \in 1 .. n - k + 1 /\ i \in DOMAIN r /\ k + i - 1 \in 1 .. n
    <3>. HIDE DEF r, s, k
    <3>. QED  BY <1>1, <1>2, <1>3, <1>4
  <2>2. DOMAIN bars = 1 .. n
    OBVIOUS
  <2>. HIDE DEF r, k, n
  <2>. QED  BY <1>3, <2>1, <2>2 DEF Column
<1>6. (m < B) = (n < B)
  <2>. HIDE DEF s, r, n
  <2>. QED  BY <1>1, <1>4 DEF Larger
<1>7. ASSUME ~(m < B) PROVE SubSeq(s, m - B + 1, m) = SubSeq(t, n - B + 1, n)
  <2>. DEFINE p == m - B + 1
              q == n - B + 1
              u == SubSeq(s, p, Len(s))
              w == SubSeq(t, q, Len(t))
  <2>1. p \in Nat \ {0} /\ p <= Len(s) + 1 /\ q \in Nat \ {0} /\ q <= Len(t) + 1
    <3>1. m \in Nat /\ B <= m /\ B <= n
      <4>1. m \in Nat
        BY <1>4
      <4>. HIDE DEF s, n
      <4>. QED  BY <1>1, <1>6, <1>7, <4>1
    <3>2. Len(s) = m /\ Len(t) = n
      BY <1>4
    <3>. HIDE DEF m, n, s, t
    <3>. QED  BY <1>1, <3>1, <3>2
  <2>2. u \in Seq(Int) /\ Len(u) = Len(s) - p + 1 /\ \A i \in 1 .. Len(s) - p + 1 : u[i] = s[p + i - 1]
    <3>. HIDE DEF s, p, m
    <3>. QED  BY <1>4, <2>1, SubSeqFacts
  <2>3. w \in Seq(Int) /\ Len(w) = Len(t) - q + 1 /\ \A i \in 1 .. Len(t) - q + 1 : w[i] = t[q + i - 1]
    <3>. HIDE DEF t, q, n
    <3>. QED  BY <1>4, <2>1, SubSeqFacts
  <2>4. m \in Nat /\ Len(s) = m /\ Len(t) = n /\ Len(s) - p + 1 = B /\ Len(t) - q + 1 = B
    <3>1. m \in Nat /\ Len(s) = m /\ Len(t) = n
      BY <1>4
    <3>. HIDE DEF m, n, s, t
    <3>. QED  BY <1>1, <3>1
  <2>5. ASSUME NEW i \in 1 .. B PROVE u[i] = w[i]
    <3>1. p + i - 1 \in 1 .. m /\ k + (p + i - 1) - 1 = q + i - 1
      <4>1. m = n - k + 1
        BY <1>4
      <4>2. p \in Nat \ {0} /\ p = m - B + 1 /\ q = n - B + 1
        BY <2>1
      <4>3. m \in Nat /\ B \in Nat
        BY <1>1, <2>4
      <4>4. i \in Int /\ 1 <= i /\ i <= B /\ q \in Int /\ k \in Int /\ n \in Int
        BY <1>1, <1>2, <2>1
      <4>. HIDE DEF m, p, q, k, n, B
      <4>. QED  BY <4>1, <4>2, <4>3, <4>4
    <3>2. u[i] = s[p + i - 1] /\ w[i] = t[q + i - 1]
      <4>. HIDE DEF u, w, s, t, p, q, n
      <4>. QED  BY <2>2, <2>3, <2>4
    <3>. DEFINE j == p + i - 1
    <3>3. s[j] = t[k + j - 1]
      <4>1. j \in 1 .. m
        BY <3>1
      <4>. HIDE DEF j, s, t, m, k
      <4>. QED  BY <1>5, <4>1
    <3>. HIDE DEF u, w, s, t, p, q, k
    <3>. QED  BY <3>1, <3>2, <3>3 DEF j
  <2>6. u = w
    <3>1. Len(u) = B /\ Len(w) = B
      <4>. HIDE DEF u, w, s, t, p, q
      <4>. QED  BY <2>2, <2>3, <2>4
    <3>2. \A i \in 1 .. Len(u) : u[i] = w[i]
      <4>. HIDE DEF u, w
      <4>. QED  BY <2>5, <3>1
    <3>. HIDE DEF u, w
    <3>. QED  BY <2>2, <2>3, <3>1, <3>2, SeqEqual
  <2>. QED  BY <2>4, <2>6
<1>8. Kept(bars) = r
  BY DEF Kept
<1>9. Bollinger(s) = Bollinger(t)
  <2>. DEFINE x == SubSeq(s, m - B + 1, m)
              y == SubSeq(t, n - B + 1, n)
  <2>1. CASE m < B
    <3>1. Len(s) < B /\ Len(t) < B
      BY <1>4, <1>6, <2>1
    <3>. QED  BY <3>1 DEF Bollinger
  <2>2. CASE ~(m < B)
    <3>1. ~(Len(s) < B) /\ ~(Len(t) < B) /\ x = y
      BY <1>4, <1>6, <1>7, <2>2
    <3>2. Bollinger(s) = [mid |-> Mean(x), variance |-> Mean([i \in DOMAIN x |-> (x[i] - Mean(x)) * (x[i] - Mean(x))])]
      <4>. HIDE DEF s
      <4>. QED  BY <3>1 DEF Bollinger
    <3>3. Bollinger(t) = [mid |-> Mean(y), variance |-> Mean([i \in DOMAIN y |-> (y[i] - Mean(y)) * (y[i] - Mean(y))])]
      <4>1. n = Len(t)
        BY <1>4
      <4>. HIDE DEF t, n
      <4>. QED  BY <3>1, <4>1 DEF Bollinger
    <3>. HIDE DEF x, y, s, t
    <3>. QED  BY <3>1, <3>2, <3>3
  <2>. QED  BY <2>1, <2>2
<1>. QED  BY <1>8, <1>9

(* What VWAP weighs with the volume.                                         *)
Worth(bars) == [i \in DOMAIN bars |-> Typical(bars[i]) * bars[i].v]

LEMMA WorthFacts ==
  ASSUME NEW bars \in Seq(Bar)
  PROVE  /\ Worth(bars) \in Seq(Int)
         /\ \A b \in Bar : Worth(Append(bars, b)) = Append(Worth(bars), Typical(b) * b.v) /\ Typical(b) * b.v \in Int
<1>. DEFINE n == Len(bars)
            s == Worth(bars)
            worth(b) == Typical(b) * b.v
<1>1. n \in Nat /\ DOMAIN bars = 1 .. n /\ \A i \in 1 .. n : bars[i] \in Bar
  OBVIOUS
<1>2. ASSUME NEW b \in Bar PROVE worth(b) \in Int
  <2>1. b.h \in Int /\ b.l \in Int /\ b.c \in Int /\ b.v \in Int
    BY DEF Bar
  <2>2. Typical(b) \in Int
    <3>1. b.h + b.l + b.c \in Int
      BY <2>1
    <3>. QED  BY <3>1 DEF Typical
  <2>. QED  BY <2>1, <2>2
<1>3. s \in [1 .. n -> Int]
  <2>. HIDE DEF n, worth
  <2>1. s = [i \in 1 .. n |-> worth(bars[i])]
    BY <1>1 DEF Worth, worth
  <2>. QED  BY <1>1, <1>2, <2>1
<1>4. s \in Seq(Int) /\ Len(s) = n
  <2>. HIDE DEF s, n
  <2>. QED  BY <1>1, <1>3, SeriesIsSeq
<1>5. ASSUME NEW b \in Bar PROVE Worth(Append(bars, b)) = Append(s, worth(b))
  <2>. DEFINE more == Append(bars, b)
              t == Worth(more)
              x == worth(b)
  <2>1. /\ DOMAIN more = 1 .. n + 1 /\ more[n + 1] = b
        /\ \A i \in 1 .. n : more[i] = bars[i] /\ i \in 1 .. n + 1
        /\ n + 1 \in 1 .. n + 1
    BY AppendFacts
  <2>2. DOMAIN t = 1 .. n + 1 /\ t = [i \in DOMAIN t |-> t[i]] /\ t[n + 1] = x
    <3>. HIDE DEF more, n
    <3>. QED  BY <2>1 DEF Worth
  <2>3. Longer(s, t, n)
    <3>. HIDE DEF n, more
    <3>. QED  BY <1>1, <2>1 DEF Worth, Longer
  <2>4. x \in Int
    BY <1>2
  <2>. HIDE DEF s, t, x, n
  <2>5. t = Append(s, x)
    BY <1>4, <2>2, <2>3, <2>4, AppendIs
  <2>. QED  BY <2>5 DEF t, x
<1>. QED  BY <1>2, <1>4, <1>5

(* The session of the last bar that is in one, and the place its bars begin. *)
InSession(bars) == {i \in 1 .. Len(bars) : SessionOpen(bars[i]) # Never}
SessionIs(session, bars) ==
    IF InSession(bars) = {} THEN session = Never
    ELSE \E m \in InSession(bars) : session = SessionOpen(bars[m]) /\ \A j \in InSession(bars) : j <= m
Begins(i, bars) ==
    i \in InSession(bars) /\ \A j \in InSession(bars) : j >= i => SessionOpen(bars[j]) = SessionOpen(bars[i])

LEMMA StartFacts ==
  ASSUME NEW bars \in Seq(Bar)
  PROVE  /\ InSession(bars) = {} => SessionStart(bars) = 1
         /\ InSession(bars) # {} => Begins(SessionStart(bars), bars) /\ \A i \in Nat : Begins(i, bars) => SessionStart(bars) <= i
         /\ SessionStart(bars) \in Nat \ {0} /\ SessionStart(bars) <= Len(bars) + 1
<1>. DEFINE in == InSession(bars)
            S == {i \in in : \A j \in in : j >= i => SessionOpen(bars[j]) = SessionOpen(bars[i])}
            n == Len(bars)
<1>1. n \in Nat /\ DOMAIN bars = 1 .. n /\ in \in SUBSET Int /\ in \in SUBSET Nat /\ \A i \in in : i <= n /\ i # 0
  BY DEF InSession
<1>2. {i \in DOMAIN bars : SessionOpen(bars[i]) # Never} = in
  BY DEF InSession
<1>3. SessionStart(bars) = IF in = {} THEN 1 ELSE Min(S)
  <2>. HIDE DEF in
  <2>. QED  BY <1>2 DEF SessionStart
<1>4. \A i : Begins(i, bars) <=> i \in S
  BY DEF Begins
<1>5. S \in SUBSET Nat
  BY <1>1
<1>6. ASSUME in # {} PROVE S # {}
  <2>. DEFINE m == Max(in)
  <2>1. m \in in /\ \A j \in in : m >= j
    <3>1. n \in Int /\ in \in SUBSET Int /\ \A i \in in : i <= n
      BY <1>1
    <3>. HIDE DEF in, n
    <3>. QED  BY <1>6, <3>1, MaxAttained
  <2>. HIDE DEF in, m
  <2>2. \A j \in in : j >= m => j = m
    BY <1>1, <2>1
  <2>3. m \in S
    BY <2>1, <2>2
  <2>. QED  BY <2>3
<1>7. ASSUME in # {} PROVE Min(S) \in S /\ \A i \in S : Min(S) <= i
  <2>. HIDE DEF S, in
  <2>. QED  BY <1>5, <1>6, <1>7, MinAttained
<1>8. SessionStart(bars) \in Nat \ {0} /\ SessionStart(bars) <= n + 1
  <2>1. CASE in = {}
    <3>. HIDE DEF in, S, n
    <3>. QED  BY <1>1, <1>3, <2>1
  <2>2. CASE in # {}
    <3>. DEFINE k == Min(S)
    <3>1. k \in in
      BY <1>7, <2>2
    <3>2. k \in Nat /\ k <= n /\ k # 0
      <4>. HIDE DEF k, in, n
      <4>. QED  BY <1>1, <3>1
    <3>3. SessionStart(bars) = k
      BY <1>3, <2>2
    <3>. HIDE DEF k, n
    <3>. QED  BY <1>1, <3>2, <3>3
  <2>. QED  BY <2>1, <2>2
<1>9. in # {} => Begins(SessionStart(bars), bars) /\ \A i \in Nat : Begins(i, bars) => SessionStart(bars) <= i
  <2>. HIDE DEF in, S
  <2>. QED  BY <1>3, <1>4, <1>7
<1>10. in = {} => SessionStart(bars) = 1
  <2>. HIDE DEF in, S
  <2>. QED  BY <1>3
<1>. QED  BY <1>8, <1>9, <1>10

LEMMA SessionNext ==
  ASSUME NEW bars \in Seq(Bar), NEW b \in Bar, NEW session, SessionIs(session, bars)
  PROVE  LET anew == SessionOpen(b) \notin {Never, session}
         IN  /\ SessionIs(IF anew THEN SessionOpen(b) ELSE session, Append(bars, b))
             /\ SessionStart(Append(bars, b)) = IF anew THEN Len(bars) + 1 ELSE SessionStart(bars)
<1>. DEFINE n == Len(bars)
            m == n + 1
            more == Append(bars, b)
            in == InSession(bars)
            later == InSession(more)
            o == SessionOpen(b)
            anew == o \notin {Never, session}
            opens(i) == SessionOpen(more[i])
            start == SessionStart(bars)
            next == SessionStart(more)
<1>1. /\ n \in Nat /\ m \in Nat /\ m = n + 1 /\ more \in Seq(Bar) /\ Len(more) = m /\ more[m] = b
      /\ \A i \in 1 .. n : more[i] = bars[i]
  BY AppendFacts
<1>2. later = IF o = Never THEN in ELSE in \cup {m}
  <2>1. \A i \in 1 .. m : i \in 1 .. n \/ i = m
    BY <1>1
  <2>2. m \in 1 .. m /\ m \notin 1 .. n /\ \A i \in 1 .. n : i \in 1 .. m
    BY <1>1
  <2>. HIDE DEF more, m, n
  <2>. QED  BY <1>1, <2>1, <2>2 DEF InSession, n
<1>3. \A i \in in : i \in Nat /\ i < m /\ SessionOpen(bars[i]) = opens(i) /\ opens(i) # Never
  <2>1. \A i \in in : i \in 1 .. n /\ SessionOpen(bars[i]) # Never
    BY DEF InSession
  <2>. HIDE DEF more, in, n
  <2>. QED  BY <1>1, <2>1
<1>4. opens(m) = o
  <2>. HIDE DEF m, more
  <2>. QED  BY <1>1
<1>5. /\ in = {} => start = 1
      /\ in # {} => Begins(start, bars) /\ \A i \in Nat : Begins(i, bars) => start <= i
      /\ start \in Nat
  BY StartFacts
<1>6. /\ later = {} => next = 1
      /\ later # {} => Begins(next, more) /\ \A i \in Nat : Begins(i, more) => next <= i
      /\ next \in Nat
  <2>. HIDE DEF more
  <2>. QED  BY <1>1, StartFacts
<1>7. \A i : Begins(i, bars) <=> i \in in /\ \A j \in in : j >= i => opens(j) = opens(i)
  <2>. HIDE DEF opens, in, more
  <2>. QED  BY <1>3 DEF Begins, in
<1>8. \A i : Begins(i, more) <=> i \in later /\ \A j \in later : j >= i => opens(j) = opens(i)
  BY DEF Begins
<1>9. in = {} => session = Never
  BY DEF SessionIs
<1>10. in # {} => \E k \in in : session = opens(k) /\ \A j \in in : j <= k
  <2>1. in # {} => \E k \in in : session = SessionOpen(bars[k]) /\ \A j \in in : j <= k
    BY DEF SessionIs
  <2>. HIDE DEF in, opens, more
  <2>. QED  BY <1>3, <2>1
<1>11. \A x : SessionIs(x, more) <=> IF later = {} THEN x = Never
                                     ELSE \E k \in later : x = opens(k) /\ \A j \in later : j <= k
  BY DEF SessionIs
<1>. HIDE DEF n, more, in, later, o, opens, start, next, m
<1>12. CASE o = Never
  <2>1. later = in /\ ~anew
    BY <1>2, <1>12
  <2>2. SessionIs(session, more)
    BY <1>9, <1>10, <1>11, <2>1
  <2>3. next = start
    <3>1. CASE in = {}
      BY <1>5, <1>6, <2>1, <3>1
    <3>2. CASE in # {}
      <4>1. Begins(start, more) /\ Begins(next, bars)
        BY <1>5, <1>6, <1>7, <1>8, <2>1, <3>2
      <4>2. start <= next /\ next <= start
        BY <1>5, <1>6, <2>1, <3>2, <4>1
      <4>. QED  BY <1>5, <1>6, <4>2
    <3>. QED  BY <3>1, <3>2
  <2>. QED  BY <2>1, <2>2, <2>3 DEF o, more, start, next
<1>13. CASE o # Never /\ o = session
  <2>1. later = in \cup {m} /\ ~anew /\ in # {}
    BY <1>2, <1>9, <1>13
  <2>2. PICK k \in in : session = opens(k) /\ \A j \in in : j <= k
    BY <1>10, <2>1
  <2>3. SessionIs(session, more)
    <3>1. m \in later /\ session = opens(m) /\ \A j \in later : j <= m
      BY <1>1, <1>3, <1>4, <1>13, <2>1
    <3>. QED  BY <1>11, <3>1
  <2>4. opens(start) = session /\ start \in in /\ start <= k
    <3>1. start \in in /\ \A j \in in : j >= start => opens(j) = opens(start)
      BY <1>5, <1>7, <2>1
    <3>2. k >= start
      BY <1>3, <2>2, <3>1
    <3>. QED  BY <2>2, <3>1, <3>2
  <2>5. Begins(start, more)
    <3>1. \A j \in later : j >= start => opens(j) = opens(start)
      <4>1. \A j \in in : j >= start => opens(j) = opens(start)
        BY <1>5, <1>7, <2>1
      <4>2. opens(m) = opens(start)
        BY <1>4, <1>13, <2>4
      <4>. QED  BY <2>1, <4>1, <4>2
    <3>. QED  BY <1>8, <2>1, <2>4, <3>1
  <2>6. next <= start
    BY <1>5, <1>6, <2>1, <2>5
  <2>7. next \in in
    <3>1. next \in later /\ next # m
      BY <1>1, <1>3, <1>6, <1>8, <2>1, <2>4, <2>6
    <3>. QED  BY <2>1, <3>1
  <2>8. Begins(next, bars)
    <3>1. \A j \in later : j >= next => opens(j) = opens(next)
      BY <1>6, <1>8, <2>1
    <3>2. \A j \in in : j \in later
      BY <2>1
    <3>. QED  BY <1>7, <2>7, <3>1, <3>2
  <2>9. start <= next
    BY <1>5, <1>6, <2>1, <2>8
  <2>10. next = start
    BY <1>5, <1>6, <2>6, <2>9
  <2>. QED  BY <2>1, <2>3, <2>10 DEF o, more, start, next
<1>14. CASE o # Never /\ o # session
  <2>1. later = in \cup {m} /\ anew
    BY <1>2, <1>14
  <2>2. m \in later /\ \A j \in later : j <= m
    BY <1>1, <1>3, <2>1
  <2>3. SessionIs(o, more)
    BY <1>4, <1>11, <2>2
  <2>4. Begins(next, more) /\ next \in later
    BY <1>6, <1>8, <2>2
  <2>5. ASSUME next \in in PROVE FALSE
    <3>1. PICK k \in in : session = opens(k) /\ \A j \in in : j <= k
      BY <1>10, <2>5
    <3>2. k \in later /\ k >= next /\ m >= next
      BY <1>1, <1>3, <2>1, <2>5, <3>1
    <3>3. opens(k) = opens(next) /\ opens(m) = opens(next)
      BY <1>8, <2>2, <2>4, <3>2
    <3>. QED  BY <1>4, <1>14, <3>1, <3>3
  <2>6. next = m
    BY <2>1, <2>4, <2>5
  <2>. QED  BY <2>1, <2>3, <2>6 DEF o, more, next, m, n
<1>. QED  BY <1>12, <1>13, <1>14

(* The sums of the session's bars.                                           *)
Since(bars) == SubSeq(bars, SessionStart(bars), Len(bars))

LEMMA SinceFacts ==
  ASSUME NEW bars \in Seq(Bar)
  PROVE  /\ Since(bars) \in Seq(Bar)
         /\ bars = <<>> => Since(bars) = <<>>
         /\ \A b \in Bar : /\ SessionStart(Append(bars, b)) = SessionStart(bars) =>
                                 Since(Append(bars, b)) = Append(Since(bars), b)
                           /\ SessionStart(Append(bars, b)) = Len(bars) + 1 =>
                                 Since(Append(bars, b)) = Append(<<>>, b)
<1>. DEFINE n == Len(bars)
            k == SessionStart(bars)
<1>1. n \in Nat /\ k \in Nat \ {0} /\ k <= n + 1
  BY StartFacts
<1>2. SubSeq(bars, k, n) \in Seq(Bar) /\ Len(SubSeq(bars, k, n)) = n - k + 1
  <2>. HIDE DEF k
  <2>. QED  BY <1>1, SubSeqFacts
<1>3. ASSUME bars = <<>> PROVE SubSeq(bars, k, n) = <<>>
  <2>1. n = 0 /\ InSession(bars) = {}
    BY <1>3 DEF InSession
  <2>2. k = 1
    BY <2>1, StartFacts
  <2>. DEFINE r == SubSeq(bars, k, n)
  <2>3. Len(r) = 0 /\ r \in Seq(Bar)
    BY <1>2, <2>1, <2>2
  <2>. HIDE DEF r
  <2>4. r = <<>>
    BY <2>3
  <2>. QED  BY <2>4 DEF r
<1>4. ASSUME NEW b \in Bar
      PROVE  /\ SubSeq(Append(bars, b), k, n + 1) = Append(SubSeq(bars, k, n), b)
             /\ SubSeq(Append(bars, b), n + 1, n + 1) = Append(<<>>, b)
  <2>1. SubSeq(Append(bars, b), k, n + 1) = Append(SubSeq(bars, k, n), b)
    <3>. HIDE DEF k
    <3>. QED  BY <1>1, SubSeqFacts
  <2>. DEFINE j == n + 1
              r == SubSeq(bars, j, n)
  <2>2. j \in Nat \ {0} /\ j <= n + 1
    BY <1>1
  <2>3. SubSeq(Append(bars, b), j, n + 1) = Append(r, b) /\ r \in Seq(Bar) /\ Len(r) = n - j + 1
    <3>. HIDE DEF j
    <3>. QED  BY <2>2, SubSeqFacts
  <2>4. r = <<>>
    <3>1. Len(r) = 0
      BY <1>1, <2>3
    <3>. HIDE DEF r
    <3>. QED  BY <2>3, <3>1
  <2>. HIDE DEF r
  <2>. QED  BY <2>1, <2>3, <2>4 DEF j
<1>5. \A b \in Bar : Len(Append(bars, b)) = n + 1
  BY AppendFacts
<1>6. ASSUME NEW b \in Bar
      PROVE  /\ SessionStart(Append(bars, b)) = k => Since(Append(bars, b)) = Append(SubSeq(bars, k, n), b)
             /\ SessionStart(Append(bars, b)) = n + 1 => Since(Append(bars, b)) = Append(<<>>, b)
  <2>. DEFINE more == Append(bars, b)
              j == SessionStart(more)
  <2>1. Since(more) = SubSeq(more, j, n + 1)
    <3>1. Len(more) = n + 1
      BY <1>5
    <3>. HIDE DEF more, n
    <3>. QED  BY <3>1 DEF Since
  <2>2. SubSeq(more, k, n + 1) = Append(SubSeq(bars, k, n), b)
    BY <1>4
  <2>3. SubSeq(more, n + 1, n + 1) = Append(<<>>, b)
    BY <1>4
  <2>4. j = k => Since(more) = Append(SubSeq(bars, k, n), b)
    <3>. HIDE DEF j, k, more, n
    <3>. QED  BY <2>1, <2>2
  <2>5. j = n + 1 => Since(more) = Append(<<>>, b)
    <3>. HIDE DEF j, k, more, n
    <3>. QED  BY <2>1, <2>3
  <2>. QED  BY <2>4, <2>5
<1>7. Since(bars) = SubSeq(bars, k, n)
  BY DEF Since
<1>. HIDE DEF k
<1>. QED  BY <1>2, <1>3, <1>6, <1>7 DEF k

Weighed(session, pv, volume, bars) ==
    /\ SessionIs(session, bars)
    /\ pv = Total(Worth(Since(bars)))
    /\ volume = Total(Column(Since(bars), "v"))

LEMMA WeighedNext ==
  ASSUME NEW bars \in Seq(Bar), NEW b \in Bar, NEW session, NEW pv, NEW volume, Weighed(session, pv, volume, bars)
  PROVE  LET anew == SessionOpen(b) \notin {Never, session}
         IN  Weighed(IF anew THEN SessionOpen(b) ELSE session,
                     (IF anew THEN 0 ELSE pv) + Typical(b) * b.v, (IF anew THEN 0 ELSE volume) + b.v,
                     Append(bars, b))
<1>. DEFINE more == Append(bars, b)
            anew == SessionOpen(b) \notin {Never, session}
            w == Typical(b) * b.v
            x == b.v
            start == SessionStart(more)
            old == IF anew THEN <<>> ELSE Since(bars)
<1>1. /\ SessionIs(IF anew THEN SessionOpen(b) ELSE session, more)
      /\ start = IF anew THEN Len(bars) + 1 ELSE SessionStart(bars)
  BY SessionNext DEF Weighed
<1>2. Since(more) = Append(old, b) /\ old \in Seq(Bar)
  <2>1. <<>> \in Seq(Bar)
    OBVIOUS
  <2>2. start = SessionStart(bars) => Since(more) = Append(Since(bars), b)
    BY SinceFacts
  <2>3. start = Len(bars) + 1 => Since(more) = Append(<<>>, b)
    BY SinceFacts
  <2>4. Since(bars) \in Seq(Bar)
    BY SinceFacts
  <2>. HIDE DEF start, more, anew
  <2>. QED  BY <1>1, <2>1, <2>2, <2>3, <2>4
<1>3. /\ Total(Worth(old)) = IF anew THEN 0 ELSE pv
      /\ Total(Column(old, "v")) = IF anew THEN 0 ELSE volume
  <2>1. Worth(<<>>) = <<>> /\ Column(<<>>, "v") = <<>> /\ <<>> \in Seq(Int)
    BY DEF Worth, Column
  <2>2. Total(<<>>) = 0
    BY <2>1, TotalFacts
  <2>3. pv = Total(Worth(Since(bars))) /\ volume = Total(Column(Since(bars), "v"))
    BY DEF Weighed
  <2>. HIDE DEF anew
  <2>. QED  BY <2>1, <2>2, <2>3
<1>. HIDE DEF old
<1>4. Worth(Append(old, b)) = Append(Worth(old), w) /\ Worth(old) \in Seq(Int) /\ w \in Int
  BY <1>2, WorthFacts
<1>5. Column(Append(old, b), "v") = Append(Column(old, "v"), x) /\ Column(old, "v") \in Seq(Int) /\ x \in Int
  <2>1. x \in Int
    BY DEF Bar
  <2>. DEFINE f == "v"
  <2>2. f \in {"h", "l", "c", "v"}
    OBVIOUS
  <2>3. b[f] = x
    OBVIOUS
  <2>. HIDE DEF f, x
  <2>4. Column(Append(old, b), f) = Append(Column(old, f), b[f]) /\ Column(old, f) \in Seq(Int)
    BY <1>2, <2>2, ColumnFacts
  <2>. QED  BY <2>1, <2>3, <2>4 DEF f
<1>6. Total(Append(Worth(old), w)) = Total(Worth(old)) + w
  <2>. HIDE DEF w
  <2>. QED  BY <1>4, TotalFacts
<1>7. Total(Append(Column(old, "v"), x)) = Total(Column(old, "v")) + x
  <2>. HIDE DEF x
  <2>. QED  BY <1>5, TotalFacts
<1>8. Total(Worth(Since(more))) = (IF anew THEN 0 ELSE pv) + w
  <2>. HIDE DEF w, anew, more
  <2>. QED  BY <1>2, <1>3, <1>4, <1>6
<1>9. Total(Column(Since(more), "v")) = (IF anew THEN 0 ELSE volume) + x
  <2>. HIDE DEF x, anew, more
  <2>. QED  BY <1>2, <1>3, <1>5, <1>7
<1>. QED  BY <1>1, <1>8, <1>9 DEF Weighed

(* The state says of the bars what core.py computes from them.               *)
Tracks(s, bars) ==
    /\ Taken(s.ema, Column(bars, "c"), EmaPeriod, Ema(Column(bars, "c"), EmaPeriod))
    /\ Taken(s.gain, Gains(Column(bars, "c")), RsiPeriod, WilderSmooth(Gains(Column(bars, "c")), RsiPeriod))
    /\ Taken(s.loss, Losses(Column(bars, "c")), RsiPeriod, WilderSmooth(Losses(Column(bars, "c")), RsiPeriod))
    /\ Taken(s.atr, TrueRange(bars), AtrPeriod, Atr(bars, AtrPeriod))
    /\ Taken(s.fast, Column(bars, "c"), Fast, Ema(Column(bars, "c"), Fast))
    /\ Taken(s.slow, Column(bars, "c"), Slow, Ema(Column(bars, "c"), Slow))
    /\ s.macd = Latest(MacdLine(Column(bars, "c")), Len(bars))
    /\ Taken(s.signal, Defined(MacdLine(Column(bars, "c"))), SignalPeriod, MacdSignal(Column(bars, "c")))
    /\ Taken(s.range, TrueRange(bars), TrendPeriod, Atr(bars, TrendPeriod))
    /\ s.trend = Latest(Supertrend(bars), Len(bars))
    /\ s.prev = Latest(Column(bars, "c"), Len(bars))
    /\ s.recent = Kept(bars)
    /\ Weighed(s.session, s.pv, s.volume, bars)

LEMMA TracksNothing == Tracks(NewState, <<>>)
<1>. DEFINE bars == <<>>
            s == NewState
            close == Column(bars, "c")
<1>1. bars \in Seq(Bar) /\ bars \in Seq(Int) /\ bars = <<>> /\ Len(bars) = 0
  OBVIOUS
<1>2. close = <<>> /\ close \in Seq(Int)
  BY DEF Column
<1>3. Gains(close) = <<>> /\ Losses(close) = <<>>
  BY <1>2, GainFacts
<1>4. TrueRange(bars) = <<>>
  BY DEF TrueRange
<1>5. MacdLine(close) \in Seq(Maybe) /\ MacdLine(close) = <<>>
  <2>1. MacdLine(close) \in Seq(Maybe) /\ Len(MacdLine(close)) = 0
    <3>. HIDE DEF close
    <3>. QED  BY <1>2, MacdFacts
  <2>. DEFINE x == MacdLine(close)
  <2>. HIDE DEF x
  <2>2. x = <<>>
    BY <2>1 DEF x
  <2>. QED  BY <2>1, <2>2 DEF x
<1>6. Defined(MacdLine(close)) = <<>>
  BY <1>5, DefinedFacts
<1>7. ASSUME NEW nums, nums = <<>>, NEW p, NEW f PROVE Taken(NewAverage, nums, p, f)
  <2>1. NewAverage \in Average
    BY DEF NewAverage, Average, Maybe
  <2>2. Len(nums) = 0
    BY <1>7
  <2>. QED  BY <1>7, <2>1, <2>2 DEF Taken, NewAverage, Latest
<1>8. Kept(bars) = <<>>
  BY <1>1, KeptFacts
<1>9. Weighed(Never, 0, 0, bars)
  <2>1. Since(bars) = <<>>
    BY <1>1, SinceFacts
  <2>2. Worth(<<>>) = <<>> /\ Column(<<>>, "v") = <<>>
    BY DEF Worth, Column
  <2>3. Total(<<>>) = 0
    BY <1>1, TotalFacts
  <2>4. InSession(bars) = {}
    BY <1>1 DEF InSession
  <2>5. SessionIs(Never, bars)
    BY <2>4 DEF SessionIs
  <2>. HIDE DEF bars
  <2>. QED  BY <2>1, <2>2, <2>3, <2>5 DEF Weighed
<1>10. /\ s.ema = NewAverage /\ s.gain = NewAverage /\ s.loss = NewAverage /\ s.atr = NewAverage
       /\ s.fast = NewAverage /\ s.slow = NewAverage /\ s.signal = NewAverage /\ s.range = NewAverage
       /\ s.macd = Never /\ s.trend = Never /\ s.prev = Never /\ s.recent = <<>>
       /\ s.session = Never /\ s.pv = 0 /\ s.volume = 0
  BY DEF NewState
<1>11. \A f : Latest(f, Len(bars)) = Never
  BY DEF Latest
<1>. HIDE DEF close, bars, s
<1>12. Tracks(s, bars)
  BY <1>2, <1>3, <1>4, <1>6, <1>7, <1>8, <1>9, <1>10, <1>11 DEF Tracks, close
<1>. QED  BY <1>12 DEF s, bars

LEMMA TracksNext ==
  ASSUME NEW bars \in Seq(Bar), NEW b \in Bar, NEW s, Tracks(s, bars)
  PROVE  Tracks(Update(s, b), Append(bars, b))
<1>. DEFINE n == Len(bars)
            m == n + 1
            more == Append(bars, b)
            close == Column(bars, "c")
            closes == Column(more, "c")
            v == b.c
            range == RangeOf(s, b)
            t == Update(s, b)
            fast == NextEma(s.fast, Fast, v)
            slow == NextEma(s.slow, Slow, v)
            x == MacdOf(fast, slow)
            line == MacdLine(close)
            atrs == NextWilder(s.range, TrendPeriod, range)
            anew == NewSession(s, b)
<1>1. n \in Nat /\ more \in Seq(Bar) /\ Len(more) = m /\ m # 0 /\ m \in Nat /\ m \in 1 .. m
  OBVIOUS
<1>2. /\ close \in Seq(Int) /\ Len(close) = n /\ v \in Int /\ closes = Append(close, v)
  <2>. DEFINE f == "c"
  <2>1. f \in {"h", "l", "c", "v"} /\ b[f] = v /\ v \in Int
    BY DEF Bar
  <2>. HIDE DEF f, v
  <2>2. Column(bars, f) \in Seq(Int) /\ Len(Column(bars, f)) = Len(bars) /\ Column(Append(bars, b), f) = Append(Column(bars, f), b[f])
    BY <2>1, ColumnFacts
  <2>. QED  BY <2>1, <2>2 DEF f
<1>3. /\ {EmaPeriod, RsiPeriod, AtrPeriod, Fast, Slow, SignalPeriod, TrendPeriod, BandPeriod} \subseteq Nat \ {0}
  BY IndicatorConstants
<1>4. /\ TrueRange(bars) \in Seq(Int) /\ Len(TrueRange(bars)) = n
      /\ range \in Int /\ TrueRange(more) = Append(TrueRange(bars), range)
  BY RangeFacts DEF Tracks
<1>5. Taken(NextEma(s.ema, EmaPeriod, v), closes, EmaPeriod, Ema(closes, EmaPeriod))
  <2>1. Taken(s.ema, close, EmaPeriod, Ema(close, EmaPeriod))
    BY DEF Tracks
  <2>. HIDE DEF close, closes, v
  <2>. QED  BY <1>2, <1>3, <2>1, EmaTaken
<1>6. Taken(fast, closes, Fast, Ema(closes, Fast)) /\ Taken(s.fast, close, Fast, Ema(close, Fast))
  <2>1. Taken(s.fast, close, Fast, Ema(close, Fast))
    BY DEF Tracks
  <2>. HIDE DEF close, closes, v
  <2>. QED  BY <1>2, <1>3, <2>1, EmaTaken
<1>7. Taken(slow, closes, Slow, Ema(closes, Slow)) /\ Taken(s.slow, close, Slow, Ema(close, Slow))
  <2>1. Taken(s.slow, close, Slow, Ema(close, Slow))
    BY DEF Tracks
  <2>. HIDE DEF close, closes, v
  <2>. QED  BY <1>2, <1>3, <2>1, EmaTaken
<1>8. x \in Maybe /\ MacdLine(closes) = Append(line, x) /\ line \in Seq(Maybe) /\ Len(line) = n
  <2>. HIDE DEF close, closes, v
  <2>. QED  BY <1>2, <1>6, <1>7, MacdLonger, MacdFacts
(* While one of the two averages is not there, nor was the line before.      *)
<1>9. x = Never => s.macd = Never
  <2>1. s.fast \in Average /\ s.slow \in Average /\ s.fast.value = Latest(Ema(close, Fast), n) /\ s.slow.value = Latest(Ema(close, Slow), n)
    BY <1>2, <1>6, <1>7 DEF Taken
  <2>2. fast.value = Never => s.fast.value = Never
    BY <1>2, <1>3, <2>1, StaysDefined
  <2>3. slow.value = Never => s.slow.value = Never
    BY <1>2, <1>3, <2>1, StaysDefined
  <2>4. x = Never => fast.value = Never \/ slow.value = Never
    <3>1. fast \in Average /\ slow \in Average
      BY <1>6, <1>7 DEF Taken
    <3>2. (fast.value = Never \/ fast.value \in Int) /\ (slow.value = Never \/ slow.value \in Int)
      BY <3>1 DEF Average, Maybe
    <3>3. fast.value \in Int /\ slow.value \in Int => fast.value - slow.value # Never
      BY NeverIsNoNumber
    <3>. HIDE DEF fast, slow
    <3>. QED  BY <3>2, <3>3 DEF MacdOf
  <2>5. s.macd = Latest(line, n)
    BY DEF Tracks
  <2>6. n # 0 => line[n] = IF Ema(close, Fast)[n] = Never \/ Ema(close, Slow)[n] = Never THEN Never
                           ELSE Ema(close, Fast)[n] - Ema(close, Slow)[n]
    <3>1. n # 0 => n \in 1 .. Len(close)
      BY <1>1, <1>2
    <3>. HIDE DEF close, n
    <3>. QED  BY <1>2, <3>1, MacdFacts
  <2>. HIDE DEF fast, slow, x, line, close, n
  <2>. QED  BY <2>1, <2>2, <2>3, <2>4, <2>5, <2>6 DEF Latest
<1>10. t.macd = x /\ t.macd = Latest(MacdLine(closes), m)
  <2>1. t.macd = IF Never \in {fast.value, slow.value} THEN s.macd ELSE fast.value - slow.value
    BY DEF Update
  <2>2. x = IF Never \in {fast.value, slow.value} THEN Never ELSE fast.value - slow.value
    BY DEF MacdOf
  <2>3. t.macd = x
    <3>. HIDE DEF t, fast, slow, x
    <3>. QED  BY <1>9, <2>1, <2>2
  <2>4. Append(line, x)[n + 1] = x
    BY <1>8, AppendFacts
  <2>5. Latest(MacdLine(closes), m) = x
    <3>. HIDE DEF line, x, closes, n
    <3>. QED  BY <1>1, <1>8, <2>4 DEF Latest
  <2>. QED  BY <2>3, <2>5
<1>11. Taken(t.signal, Defined(MacdLine(closes)), SignalPeriod, MacdSignal(closes))
  <2>1. t.signal = IF Never \in {fast.value, slow.value} THEN s.signal
                   ELSE NextEma(s.signal, SignalPeriod, fast.value - slow.value)
    BY DEF Update
  <2>2. x = IF Never \in {fast.value, slow.value} THEN Never ELSE fast.value - slow.value
    BY DEF MacdOf
  <2>3. x = Never => Never \in {fast.value, slow.value}
    <3>1. fast \in Average /\ slow \in Average
      BY <1>6, <1>7 DEF Taken
    <3>2. (fast.value = Never \/ fast.value \in Int) /\ (slow.value = Never \/ slow.value \in Int)
      BY <3>1 DEF Average, Maybe
    <3>3. fast.value \in Int /\ slow.value \in Int => fast.value - slow.value # Never
      BY NeverIsNoNumber
    <3>. HIDE DEF fast, slow, x
    <3>. QED  BY <2>2, <3>2, <3>3
  <2>4. t.signal = IF x = Never THEN s.signal ELSE NextEma(s.signal, SignalPeriod, x)
    <3>. HIDE DEF t, fast, slow, x
    <3>. QED  BY <2>1, <2>2, <2>3
  <2>. DEFINE d == Defined(line)
  <2>5. d \in Seq(Int) /\ Defined(Append(line, x)) = IF x = Never THEN d ELSE Append(d, x)
    BY <1>8, DefinedFacts
  <2>6. Taken(s.signal, d, SignalPeriod, Ema(d, SignalPeriod))
    BY DEF Tracks, MacdSignal
  <2>7. Defined(MacdLine(closes)) = IF x = Never THEN d ELSE Append(d, x)
    BY <1>8, <2>5
  <2>8. MacdSignal(closes) = Ema(Defined(MacdLine(closes)), SignalPeriod)
    BY DEF MacdSignal
  <2>9. CASE x = Never
    <3>. HIDE DEF t, x, d, closes
    <3>. QED  BY <2>4, <2>6, <2>7, <2>8, <2>9
  <2>10. CASE x # Never
    <3>1. x \in Int
      BY <1>8, <2>10 DEF Maybe
    <3>. HIDE DEF t, x, d, closes
    <3>2. Taken(NextEma(s.signal, SignalPeriod, x), Append(d, x), SignalPeriod, Ema(Append(d, x), SignalPeriod))
      BY <1>3, <2>5, <2>6, <3>1, EmaTaken
    <3>. QED  BY <2>4, <2>7, <2>8, <2>10, <3>2
  <2>. QED  BY <2>9, <2>10
<1>12. Taken(t.atr, TrueRange(more), AtrPeriod, Atr(more, AtrPeriod))
  <2>1. Taken(s.atr, TrueRange(bars), AtrPeriod, WilderSmooth(TrueRange(bars), AtrPeriod))
    BY DEF Tracks, Atr
  <2>2. t.atr = NextWilder(s.atr, AtrPeriod, range)
    BY DEF Update
  <2>3. Atr(more, AtrPeriod) = WilderSmooth(TrueRange(more), AtrPeriod)
    BY DEF Atr
  <2>. HIDE DEF t, range, more
  <2>. QED  BY <1>3, <1>4, <2>1, <2>2, <2>3, WilderTaken
<1>13. /\ Taken(atrs, TrueRange(more), TrendPeriod, Atr(more, TrendPeriod))
       /\ Longer(Atr(bars, TrendPeriod), Atr(more, TrendPeriod), n)
  <2>1. Taken(s.range, TrueRange(bars), TrendPeriod, WilderSmooth(TrueRange(bars), TrendPeriod))
    BY DEF Tracks, Atr
  <2>2. Atr(more, TrendPeriod) = WilderSmooth(TrueRange(more), TrendPeriod) /\ Atr(bars, TrendPeriod) = WilderSmooth(TrueRange(bars), TrendPeriod)
    BY DEF Atr
  <2>. HIDE DEF range, more, n
  <2>. QED  BY <1>3, <1>4, <2>1, <2>2, WilderTaken
<1>14. t.trend = Latest(Supertrend(more), m)
  <2>. DEFINE a == Atr(more, TrendPeriod)[n + 1]
  <2>1. atrs.value = a
    <3>1. Len(TrueRange(more)) = m
      <4>. HIDE DEF range, more, n
      <4>. QED  BY <1>4, AppendFacts
    <3>. HIDE DEF atrs, more, n
    <3>. QED  BY <1>1, <1>13, <3>1 DEF Taken, Latest
  <2>2. t.trend = IF atrs.value = Never THEN Never
                  ELSE Turn(b.c, Bands(b, atrs.value, s.trend, s.prev), s.trend)
    BY DEF Update
  <2>3. s.trend = Latest(Supertrend(bars), n) /\ s.prev = Latest(close, n)
    BY DEF Tracks
  <2>4. Latest(Supertrend(more), m) = IF a = Never THEN Never ELSE Turn(b.c, Bands(b, a, s.trend, s.prev), s.trend)
    BY <1>13, <2>3, TrendLonger
  <2>. HIDE DEF t, atrs, more, m, a
  <2>. QED  BY <2>1, <2>2, <2>4
<1>15. t.prev = Latest(closes, m)
  <2>1. t.prev = v
    BY DEF Update
  <2>2. Append(close, v)[n + 1] = v
    BY <1>2, AppendFacts
  <2>. HIDE DEF t, v, closes, close, n
  <2>. QED  BY <1>1, <1>2, <2>1, <2>2 DEF Latest
<1>16. t.recent = Kept(more)
  <2>1. t.recent = IF Len(s.recent) = Window THEN Append(Tail(s.recent), b) ELSE Append(s.recent, b)
    BY DEF Update
  <2>2. s.recent = Kept(bars)
    BY DEF Tracks
  <2>. HIDE DEF t
  <2>. QED  BY <2>1, <2>2, KeptFacts
<1>17. Weighed(t.session, t.pv, t.volume, more)
  <2>1. Weighed(s.session, s.pv, s.volume, bars)
    BY DEF Tracks
  <2>2. Weighed(IF anew THEN SessionOpen(b) ELSE s.session,
                (IF anew THEN 0 ELSE s.pv) + Typical(b) * b.v, (IF anew THEN 0 ELSE s.volume) + b.v, more)
    BY <2>1, WeighedNext DEF NewSession
  <2>3. /\ t.session = IF anew THEN SessionOpen(b) ELSE s.session
        /\ t.pv = (IF anew THEN 0 ELSE s.pv) + Typical(b) * b.v
        /\ t.volume = (IF anew THEN 0 ELSE s.volume) + b.v
    BY DEF Update
  <2>. HIDE DEF t, anew, more
  <2>. QED  BY <2>2, <2>3
<1>18. /\ Taken(t.gain, Gains(closes), RsiPeriod, WilderSmooth(Gains(closes), RsiPeriod))
       /\ Taken(t.loss, Losses(closes), RsiPeriod, WilderSmooth(Losses(closes), RsiPeriod))
  <2>1. /\ t.gain = IF s.prev = Never THEN NewAverage ELSE NextWilder(s.gain, RsiPeriod, Positive(v - s.prev))
        /\ t.loss = IF s.prev = Never THEN NewAverage ELSE NextWilder(s.loss, RsiPeriod, Positive(s.prev - v))
    BY DEF Update
  <2>2. s.prev = Latest(close, n)
    BY DEF Tracks
  <2>3. /\ Taken(s.gain, Gains(close), RsiPeriod, WilderSmooth(Gains(close), RsiPeriod))
        /\ Taken(s.loss, Losses(close), RsiPeriod, WilderSmooth(Losses(close), RsiPeriod))
    BY DEF Tracks
  <2>4. CASE n = 0
    <3>1. close = <<>>
      BY <1>2, <2>4
    <3>2. Gains(closes) = <<>> /\ Losses(closes) = <<>>
      <4>. HIDE DEF close, closes, v
      <4>. QED  BY <1>2, <3>1, GainFacts
    <3>3. t.gain = NewAverage /\ t.loss = NewAverage
      <4>. HIDE DEF t
      <4>. QED  BY <2>1, <2>2, <2>4 DEF Latest
    <3>4. NewAverage \in Average /\ NewAverage.seed = <<>> /\ NewAverage.value = Never
      BY DEF NewAverage, Average, Maybe
    <3>5. Len(<<>>) = 0
      OBVIOUS
    <3>. HIDE DEF t, closes
    <3>. QED  BY <3>2, <3>3, <3>4, <3>5 DEF Taken, Latest
  <2>5. CASE n # 0
    <3>1. close # <<>> /\ close[n] \in Int /\ s.prev = close[n] /\ s.prev # Never
      <4>1. n \in 1 .. n
        BY <1>1, <2>5
      <4>2. close # <<>> /\ close[n] \in Int
        <5>. HIDE DEF close
        <5>. QED  BY <1>2, <4>1, <2>5
      <4>. HIDE DEF close, n
      <4>. QED  BY <2>2, <2>5, <4>2, NeverIsNoNumber DEF Latest
    <3>. DEFINE up == Positive(v - s.prev)
                down == Positive(s.prev - v)
    <3>2. up \in Int /\ down \in Int
      <4>. HIDE DEF close, v
      <4>. QED  BY <1>2, <3>1 DEF Positive, Larger
    <3>3. /\ Gains(closes) = Append(Gains(close), up) /\ Losses(closes) = Append(Losses(close), down)
          /\ Gains(close) \in Seq(Int) /\ Losses(close) \in Seq(Int)
      <4>1. Len(close) = n /\ close \in Seq(Int) /\ close # <<>>
        BY <1>2, <3>1
      <4>. DEFINE last == close[Len(close)]
      <4>2. last = s.prev
        <5>. HIDE DEF close, n
        <5>. QED  BY <3>1, <4>1
      <4>3. /\ Gains(Append(close, v)) = Append(Gains(close), Positive(v - last))
            /\ Losses(Append(close, v)) = Append(Losses(close), Positive(last - v))
            /\ Gains(close) \in Seq(Int) /\ Losses(close) \in Seq(Int)
        <5>. HIDE DEF close, v
        <5>. QED  BY <1>2, <4>1, GainFacts
      <4>. HIDE DEF close, closes, v, n, last
      <4>. QED  BY <1>2, <4>2, <4>3
    <3>4. t.gain = NextWilder(s.gain, RsiPeriod, up) /\ t.loss = NextWilder(s.loss, RsiPeriod, down)
      <4>. HIDE DEF t
      <4>. QED  BY <2>1, <3>1
    <3>. HIDE DEF t, close, closes, up, down
    <3>5. Taken(t.gain, Gains(closes), RsiPeriod, WilderSmooth(Gains(closes), RsiPeriod))
      BY <1>3, <2>3, <3>2, <3>3, <3>4, WilderTaken
    <3>6. Taken(t.loss, Losses(closes), RsiPeriod, WilderSmooth(Losses(closes), RsiPeriod))
      BY <1>3, <2>3, <3>2, <3>3, <3>4, WilderTaken
    <3>. QED  BY <3>5, <3>6
  <2>. QED  BY <2>4, <2>5
<1>19. t.ema = NextEma(s.ema, EmaPeriod, v) /\ t.fast = fast /\ t.slow = slow /\ t.range = atrs
  BY DEF Update
<1>. HIDE DEF t, more, fast, slow, atrs, m, n, v
<1>20. Tracks(t, more)
  BY <1>1, <1>5, <1>6, <1>7, <1>10, <1>11, <1>12, <1>13, <1>14, <1>15, <1>16, <1>17, <1>18, <1>19 DEF Tracks
<1>. QED  BY <1>20 DEF t, more

LEMMA TracksMatches ==
  ASSUME NEW bars \in Seq(Bar), bars # <<>>, NEW s, Tracks(s, bars)
  PROVE  /\ Bundle(s) = [ComputeBundle(bars) EXCEPT !.adx = ComputeBundle(Kept(bars)).adx]
         /\ VwapOf(s) = Vwap(Since(bars))
<1>. DEFINE n == Len(bars)
            close == Column(bars, "c")
            gains == Gains(close)
            losses == Losses(close)
            up == WilderSmooth(gains, RsiPeriod)
            down == WilderSmooth(losses, RsiPeriod)
<1>1. n \in Nat /\ n # 0 /\ n \in 1 .. n
  OBVIOUS
<1>2. close \in Seq(Int) /\ Len(close) = n /\ close # <<>>
  <2>1. close \in Seq(Int) /\ Len(close) = n
    BY ColumnFacts
  <2>. HIDE DEF close, n
  <2>. QED  BY <1>1, <2>1
<1>3. {EmaPeriod, RsiPeriod, AtrPeriod, Fast, Slow, SignalPeriod, TrendPeriod, BandPeriod} \subseteq Nat \ {0}
  BY IndicatorConstants
<1>4. Last(Ema(close, EmaPeriod)) = s.ema.value
  <2>1. s.ema.value = Latest(Ema(close, EmaPeriod), n)
    BY <1>2 DEF Tracks, Taken
  <2>. DEFINE f == Ema(close, EmaPeriod)
  <2>2. f \in [1 .. n -> Maybe]
    <3>. HIDE DEF close, n
    <3>. QED  BY <1>2, <1>3, EmaFacts
  <2>. HIDE DEF f, n
  <2>3. Len(f) = n
    BY <1>1, <2>2, SeriesIsSeq
  <2>. QED  BY <1>1, <2>1, <2>3 DEF Latest, Last, f
<1>5. Last(Atr(bars, AtrPeriod)) = s.atr.value
  <2>1. TrueRange(bars) \in Seq(Int) /\ Len(TrueRange(bars)) = n
    BY RangeFacts
  <2>2. s.atr.value = Latest(Atr(bars, AtrPeriod), n)
    BY <2>1 DEF Tracks, Taken
  <2>. DEFINE f == Atr(bars, AtrPeriod)
  <2>3. f \in [1 .. n -> Maybe]
    <3>. HIDE DEF n
    <3>. QED  BY <1>3, <2>1, WilderFacts DEF Atr
  <2>. HIDE DEF f, n
  <2>4. Len(f) = n
    BY <1>1, <2>3, SeriesIsSeq
  <2>. QED  BY <1>1, <2>2, <2>4 DEF Latest, Last, f
<1>6. Last(MacdLine(close)) = s.macd
  <2>1. s.macd = Latest(MacdLine(close), n)
    BY DEF Tracks
  <2>2. Len(MacdLine(close)) = n
    <3>. HIDE DEF close, n
    <3>. QED  BY <1>2, MacdFacts
  <2>. HIDE DEF close, n
  <2>. QED  BY <1>1, <2>1, <2>2 DEF Latest, Last
<1>7. LastDefined(MacdSignal(close)) = s.signal.value
  <2>. DEFINE d == Defined(MacdLine(close))
              f == Ema(d, SignalPeriod)
              k == Len(d)
  <2>1. d \in Seq(Int)
    <3>1. MacdLine(close) \in Seq(Maybe)
      <4>. HIDE DEF close
      <4>. QED  BY <1>2, MacdFacts
    <3>. HIDE DEF close
    <3>. QED  BY <3>1, DefinedFacts
  <2>2. s.signal.value = Latest(f, k)
    BY DEF Tracks, Taken, MacdSignal
  <2>3. f \in [1 .. k -> Maybe] /\ IsAverage(f, k, SignalPeriod, Seed(d, SignalPeriod), EmaSteps(d, SignalPeriod))
    <3>. HIDE DEF d
    <3>. QED  BY <1>3, <2>1, EmaFacts
  <2>4. k \in Nat
    BY <2>1
  <2>. HIDE DEF f, k, d
  <2>5. LastDefined(f) = Latest(f, k)
    BY <1>3, <2>3, <2>4, LastOfAverage
  <2>. QED  BY <2>2, <2>5 DEF f, d, MacdSignal
<1>8. Last(Rsi(close, RsiPeriod)) = IF s.gain.value = Never THEN Never ELSE RsiValue(s.gain.value, s.loss.value)
  <2>. DEFINE k == n - 1
              rsi == Rsi(close, RsiPeriod)
              p == RsiPeriod
  <2>1. gains \in Seq(Int) /\ losses \in Seq(Int) /\ Len(gains) = k /\ Len(losses) = k /\ k \in Nat /\ p \in Nat \ {0}
    <3>1. gains \in Seq(Int) /\ losses \in Seq(Int) /\ Len(gains) = Len(close) - 1 /\ Len(losses) = Len(close) - 1
      <4>. HIDE DEF close
      <4>. QED  BY <1>2, GainFacts
    <3>. HIDE DEF close, n, gains, losses
    <3>. QED  BY <1>1, <1>2, <1>3, <3>1
  <2>2. s.gain.value = Latest(up, k) /\ s.loss.value = Latest(down, k)
    <3>. HIDE DEF k
    <3>. QED  BY <2>1 DEF Tracks, Taken
  <2>3. DOMAIN close = 1 .. n
    <3>. HIDE DEF close, n
    <3>. QED  BY <1>2
  <2>4. Len(rsi) = n /\ rsi[n] = IF n <= p THEN Never ELSE RsiValue(up[k], down[k])
    <3>1. rsi = [i \in 1 .. n |-> IF i <= p THEN Never ELSE RsiValue(up[i - 1], down[i - 1])]
      <4>. HIDE DEF close, n
      <4>. QED  BY <2>3 DEF Rsi, Gains, Losses
    <3>. HIDE DEF rsi, up, down, n, p
    <3>2. Len(rsi) = n
      BY <1>1, <3>1
    <3>3. rsi[n] = IF n <= p THEN Never ELSE RsiValue(up[n - 1], down[n - 1])
      BY <1>1, <3>1
    <3>. QED  BY <3>2, <3>3
  <2>5. IsAverage(up, k, p, Seed(gains, p), WilderSteps(gains, p))
    <3>. HIDE DEF gains, k
    <3>. QED  BY <2>1, WilderFacts
  <2>6. (n <= p) = (Latest(up, k) = Never)
    <3>1. k < p => Latest(up, k) = Never
      <4>1. k # 0 => k \in 1 .. k
        BY <2>1
      <4>. HIDE DEF up, k, gains, p
      <4>. QED  BY <2>5, <4>1 DEF Latest, IsAverage
    <3>2. k >= p => Latest(up, k) # Never
      <4>1. k >= p => k \in 1 .. k /\ k # 0
        <5>. HIDE DEF k, p
        <5>. QED  BY <2>1
      <4>2. k >= p => up[k] \in Int
        <5>. HIDE DEF up, k, gains, p
        <5>. QED  BY <2>5, <4>1 DEF IsAverage
      <4>. HIDE DEF up, k, p
      <4>. QED  BY <4>1, <4>2, NeverIsNoNumber DEF Latest
    <3>3. n <= p <=> k < p
      <4>. HIDE DEF n, p
      <4>. QED  BY <1>1, <2>1
    <3>4. k < p \/ k >= p
      BY <2>1
    <3>. HIDE DEF up, k, n, p
    <3>. QED  BY <3>1, <3>2, <3>3, <3>4
  <2>7. n > p => Latest(up, k) = up[k] /\ Latest(down, k) = down[k]
    <3>1. n > p => k # 0
      <4>. HIDE DEF n, p
      <4>. QED  BY <1>1, <2>1
    <3>. HIDE DEF up, down, k, n, p
    <3>. QED  BY <3>1 DEF Latest
  <2>8. n <= p \/ n > p
    <3>. HIDE DEF n, p
    <3>. QED  BY <1>1, <2>1
  <2>. HIDE DEF rsi, up, down, k, n, p
  <2>9. rsi[n] = IF s.gain.value = Never THEN Never ELSE RsiValue(s.gain.value, s.loss.value)
    BY <2>2, <2>4, <2>6, <2>7, <2>8
  <2>. QED  BY <2>4, <2>9 DEF Last, rsi
<1>9. Last(Supertrend(bars)) = s.trend
  <2>. DEFINE f == Supertrend(bars)
  <2>1. DOMAIN f = 1 .. n
    BY TrendIterates
  <2>2. s.trend = Latest(f, n)
    BY DEF Tracks
  <2>. HIDE DEF f, n
  <2>3. Len(f) = n
    BY <1>1, <2>1
  <2>. QED  BY <1>1, <2>2, <2>3 DEF Latest, Last, f
<1>10. s.recent = Kept(bars)
  BY DEF Tracks
<1>11. Bollinger(Column(s.recent, "c")) = Bollinger(close)
  BY <1>10, BandFacts
<1>12. Bundle(s) = [ComputeBundle(bars) EXCEPT !.adx = ComputeBundle(Kept(bars)).adx]
  <2>1. ComputeBundle(bars) =
          [ema |-> Last(Ema(close, EmaPeriod)), rsi |-> Last(Rsi(close, RsiPeriod)),
           macd |-> Last(MacdLine(close)), signal |-> LastDefined(MacdSignal(close)),
           atr |-> Last(Atr(bars, AtrPeriod)), trend |-> Last(Supertrend(bars)),
           adx |-> LastDefined(Adx(bars, AdxPeriod)), band |-> Bollinger(close)]
    BY DEF ComputeBundle
  <2>2. ComputeBundle(Kept(bars)).adx = LastDefined(Adx(Kept(bars), AdxPeriod))
    BY DEF ComputeBundle
  <2>3. Bundle(s) =
          [ema |-> s.ema.value, macd |-> s.macd, signal |-> s.signal.value, atr |-> s.atr.value,
           rsi |-> IF s.gain.value = Never THEN Never ELSE RsiValue(s.gain.value, s.loss.value),
           trend |-> s.trend, adx |-> LastDefined(Adx(s.recent, AdxPeriod)),
           band |-> Bollinger(Column(s.recent, "c"))]
    BY DEF Bundle
  <2>. HIDE DEF close
  <2>. QED  BY <1>4, <1>5, <1>6, <1>7, <1>8, <1>9, <1>10, <1>11, <2>1, <2>2, <2>3
<1>13. VwapOf(s) = Vwap(Since(bars))
  <2>1. s.pv = Total(Worth(Since(bars))) /\ s.volume = Total(Column(Since(bars), "v"))
    BY DEF Tracks, Weighed
  <2>. QED  BY <2>1 DEF VwapOf, Vwap, Worth
<1>. QED  BY <1>12, <1>13

EngineInv ==
    /\ seen \in Seq(Bar) /\ closed \in Seq(Bar) /\ Len(closed) <= Len(Instants)
    /\ Tracks(state, seen)

LEMMA NextBarType ==
  ASSUME EngineInv, NEW bar \in NextBars
  PROVE  bar \in Bar /\ Len(closed) + 1 <= Len(Instants) /\ Append(closed, bar) \in Seq(Bar)
<1>1. Len(closed) \in Nat /\ Len(Instants) \in Nat /\ Len(closed) # Len(Instants)
  BY BarsAreNumbers DEF EngineInv, NextBars
<1>2. Len(closed) + 1 \in 1 .. Len(Instants)
  BY <1>1 DEF EngineInv
<1>3. Instants[Len(closed) + 1] \in [day : Int, minute : Int]
  <2>. DEFINE k == Len(closed) + 1
              T == [day : Int, minute : Int]
  <2>1. k \in 1 .. Len(Instants) /\ Instants \in Seq(T)
    BY <1>2, BarsAreNumbers
  <2>. HIDE DEF k, T
  <2>2. Instants[k] \in T
    BY <2>1
  <2>. QED  BY <2>2 DEF k, T
<1>. DEFINE i == Instants[Len(closed) + 1]
<1>4. PICK s \in Shapes : bar = [h |-> s.h, l |-> s.l, c |-> s.c, v |-> s.v, day |-> i.day, minute |-> i.minute]
  BY <1>1 DEF NextBars
<1>. HIDE DEF i
<1>5. s \in [h : Int, l : Int, c : Int, v : Int] /\ i \in [day : Int, minute : Int]
  BY <1>3, BarsAreNumbers DEF i
<1>6. bar \in Bar
  BY <1>4, <1>5 DEF Bar
<1>. QED  BY <1>2, <1>6 DEF EngineInv

(* What RollingIndicatorState says after any bars, lost bars and restarts is *)
(* what core.py computes from all the bars it handled.                       *)
THEOREM IncrementalMatchesBatch == EngineSpec => []MatchesBatch
<1>1. EngineInit => EngineInv
  <2>1. <<>> \in Seq(Bar) /\ Len(<<>>) = 0 /\ Len(Instants) \in Nat
    BY BarsAreNumbers
  <2>. QED  BY <2>1, TracksNothing DEF EngineInit, EngineInv
<1>2. EngineInv /\ [EngineNext]_engineVars => EngineInv'
  <2>. SUFFICES ASSUME EngineInv, [EngineNext]_engineVars PROVE EngineInv'
    OBVIOUS
  <2>1. ASSUME NEW bar \in NextBars, NEW done, Handle(bar, done) PROVE EngineInv'
    <3>1. bar \in Bar /\ Len(closed) + 1 <= Len(Instants) /\ Append(closed, bar) \in Seq(Bar)
      BY NextBarType
    <3>2. closed' = Append(closed, bar) /\ seen' = Append(seen, bar) /\ state' = Update(state, bar)
      BY <2>1 DEF Handle
    <3>3. seen' \in Seq(Bar) /\ Len(closed') = Len(closed) + 1
      BY <3>1, <3>2, AppendFacts DEF EngineInv
    <3>4. Tracks(Update(state, bar), Append(seen, bar))
      BY <3>1, TracksNext DEF EngineInv
    <3>. QED  BY <3>1, <3>2, <3>3, <3>4 DEF EngineInv
  <2>2. CASE OnCandleClosed
    BY <2>1, <2>2 DEF OnCandleClosed
  <2>3. CASE CacheFails
    BY <2>1, <2>3 DEF CacheFails
  <2>4. CASE PersistFails
    BY <2>1, <2>4 DEF PersistFails
  <2>5. CASE BarDropped
    <3>1. PICK bar \in NextBars : closed' = Append(closed, bar)
      BY <2>5 DEF BarDropped
    <3>2. bar \in Bar /\ Len(closed) + 1 <= Len(Instants) /\ Append(closed, bar) \in Seq(Bar)
      BY NextBarType
    <3>3. Len(closed') = Len(closed) + 1
      BY <3>1, <3>2, AppendFacts DEF EngineInv
    <3>. QED  BY <2>5, <3>1, <3>2, <3>3 DEF BarDropped, EngineInv
  <2>6. CASE EngineRestart
    <3>1. <<>> \in Seq(Bar)
      OBVIOUS
    <3>. QED  BY <2>6, <3>1, TracksNothing DEF EngineRestart, EngineInv
  <2>7. CASE UNCHANGED engineVars
    BY <2>7 DEF engineVars, EngineInv
  <2>. QED  BY <2>2, <2>3, <2>4, <2>5, <2>6, <2>7 DEF EngineNext
<1>3. EngineInv => MatchesBatch
  <2>. SUFFICES ASSUME EngineInv, seen # <<>> PROVE MatchesBatch
    BY DEF MatchesBatch
  <2>1. /\ Bundle(state) = [ComputeBundle(seen) EXCEPT !.adx = ComputeBundle(Kept(seen)).adx]
        /\ VwapOf(state) = Vwap(Since(seen))
    BY TracksMatches DEF EngineInv
  <2>. QED  BY <2>1 DEF MatchesBatch, Kept, Since
<1>. QED  BY <1>1, <1>2, <1>3, PTL DEF EngineSpec

-----------------------------------------------------------------------------
(***************************************************************************)
(* The backtest: an honest replay, for any bars and any strategy.           *)
(***************************************************************************)

(* What holds at a place because it holds at all later ones holds everywhere. *)
LEMMA DownInduction ==
  ASSUME NEW n \in Nat, NEW S, \A i \in 1 .. n : (\A j \in i + 1 .. n : j \in S) => i \in S
  PROVE  1 .. n \subseteq S
<1>. DEFINE G == {k \in 0 .. n : \A j \in n - k + 1 .. n : j \in S}
<1>1. 0 \in G
  OBVIOUS
<1>2. ASSUME NEW k \in 1 .. n, k - 1 \in G  PROVE k \in G
  <2>. DEFINE i == n - k + 1
  <2>1. i \in 1 .. n /\ n - (k - 1) + 1 = i + 1
    OBVIOUS
  <2>2. \A j \in i + 1 .. n : j \in S
    BY <1>2, <2>1
  <2>3. i \in S
    <3>. HIDE DEF i
    <3>. QED  BY <2>1, <2>2
  <2>4. \A j \in i .. n : j = i \/ j \in i + 1 .. n
    OBVIOUS
  <2>5. \A j \in i .. n : j \in S
    <3>. HIDE DEF i
    <3>. QED  BY <2>2, <2>3, <2>4
  <2>. QED  BY <2>5
<1>3. 0 .. n \subseteq G
  <2>. HIDE DEF G
  <2>. QED  BY <1>1, <1>2, BoundedInduction
<1>4. n \in G
  BY <1>3
<1>. QED  BY <1>4

LEMMA ConsFacts ==
  ASSUME NEW X, NEW x \in X, NEW s \in Seq(X)
  PROVE  /\ <<x>> \o s \in Seq(X) /\ Len(<<x>> \o s) = 1 + Len(s)
         /\ (<<x>> \o s)[1] = x /\ \A i \in 1 .. Len(s) : (<<x>> \o s)[1 + i] = s[i]
         /\ Range(<<x>> \o s) = {x} \cup Range(s)
<1>. DEFINE t == <<x>> \o s
<1>1. t \in Seq(X) /\ Len(t) = 1 + Len(s) /\ t[1] = x /\ \A i \in 1 .. Len(s) : t[1 + i] = s[i]
  OBVIOUS
<1>2. DOMAIN t = 1 .. 1 + Len(s) /\ DOMAIN s = 1 .. Len(s) /\ Len(s) \in Nat
  BY <1>1
<1>3. \A i \in 1 .. 1 + Len(s) : i = 1 \/ \E j \in 1 .. Len(s) : i = 1 + j
  <2>1. ASSUME NEW i \in 1 .. 1 + Len(s), i # 1 PROVE i - 1 \in 1 .. Len(s) /\ i = 1 + (i - 1)
    BY <1>2, <2>1
  <2>. QED  BY <2>1
<1>4. \A j \in 1 .. Len(s) : 1 + j \in 1 .. 1 + Len(s)
  BY <1>2
<1>5. 1 \in 1 .. 1 + Len(s)
  BY <1>2
<1>. HIDE DEF t
<1>6. Range(t) \subseteq {x} \cup Range(s)
  <2>1. ASSUME NEW i \in 1 .. 1 + Len(s) PROVE t[i] = x \/ t[i] \in Range(s)
    <3>1. CASE i = 1
      BY <1>1, <3>1
    <3>2. ASSUME NEW j \in 1 .. Len(s), i = 1 + j PROVE t[i] \in Range(s)
      <4>1. t[i] = s[j] /\ j \in DOMAIN s
        BY <1>1, <1>2, <3>2
      <4>. QED  BY <4>1 DEF Range
    <3>. QED  BY <1>3, <3>1, <3>2
  <2>. QED  BY <1>2, <2>1 DEF Range
<1>7. {x} \cup Range(s) \subseteq Range(t)
  BY <1>1, <1>2, <1>4, <1>5 DEF Range
<1>. QED  BY <1>1, <1>6, <1>7 DEF t

-----------------------------------------------------------------------------
(* The exit of a trade. The horizon ends with the bars or at MaxHolding.     *)
Sooner(a, b) == IF a <= b THEN a ELSE b
Horizon(history, i) == SubSeq(history, i + 1, Sooner(i + MaxHolding, Len(history)))
Hits(bars, sig) == {k \in DOMAIN bars : Touches(sig, bars[k]).stop \/ Touches(sig, bars[k]).target}
Ends(bars, sig) ==
    IF Hits(bars, sig) = {} THEN [price |-> Last(bars).c, held |-> Len(bars), timed |-> TRUE]
    ELSE [price |-> IF Touches(sig, bars[Min(Hits(bars, sig))]).stop THEN sig.stop ELSE sig.target,
          held |-> Min(Hits(bars, sig)), timed |-> FALSE]

LEMMA MinIs ==
  ASSUME NEW S \in SUBSET Nat, NEW x \in S, \A y \in S : x <= y
  PROVE  Min(S) = x
<1>1. Min(S) \in S /\ \A y \in S : Min(S) <= y
  BY MinAttained
<1>2. Min(S) <= x /\ x <= Min(S) /\ Min(S) \in Nat /\ x \in Nat
  BY <1>1
<1>. QED  BY <1>2

LEMMA ExitEnds ==
  ASSUME NEW X, NEW history \in Seq(X), NEW i \in Nat, NEW sig
  PROVE  Exit(history, i, sig) = Ends(Horizon(history, i), sig)
<1>. DEFINE a == i + MaxHolding
            b == Len(history)
<1>1. a \in Nat /\ b \in Nat
  BY BacktestConstants
<1>2. Min({a, b}) = Sooner(a, b)
  <2>. HIDE DEF a, b
  <2>1. {a, b} \in SUBSET Nat /\ Sooner(a, b) \in {a, b} /\ \A y \in {a, b} : Sooner(a, b) <= y
    BY <1>1 DEF Sooner
  <2>. QED  BY <2>1, MinIs
<1>. QED  BY <1>2 DEF Exit, Ends, Hits, Horizon

LEMMA HorizonFacts ==
  ASSUME NEW X, NEW history \in Seq(X), NEW i \in Nat \ {0}, i < Len(history)
  PROVE  LET n == Sooner(i + MaxHolding, Len(history)) - i
         IN  /\ n \in 1 .. MaxHolding /\ i + n <= Len(history)
             /\ Horizon(history, i) \in Seq(X) /\ Len(Horizon(history, i)) = n
             /\ \A k \in 1 .. n : Horizon(history, i)[k] = history[i + k]
<1>. DEFINE e == Sooner(i + MaxHolding, Len(history))
            n == e - i
<1>1. e \in Nat /\ n \in 1 .. MaxHolding /\ i + n = e /\ e <= Len(history) /\ MaxHolding \in Nat /\ n \in Nat
  BY BacktestConstants DEF Sooner
<1>. HIDE DEF e
<1>2. \A k \in 1 .. n : k + (i + 1) - 1 = i + k /\ i + k \in 1 .. Len(history) /\ history[i + k] \in X
  BY <1>1
<1>3. e - (i + 1) + 1 = n /\ i + 1 \in Nat
  BY <1>1
<1>4. SubSeq(history, i + 1, e) = [k \in 1 .. n |-> history[i + k]]
  BY <1>1, <1>2, <1>3
<1>5. [k \in 1 .. n |-> history[i + k]] \in [1 .. n -> X]
  BY <1>2
<1>6. Horizon(history, i) = [k \in 1 .. n |-> history[i + k]]
  BY <1>4 DEF Horizon, e
<1>7. Horizon(history, i) \in Seq(X) /\ Len(Horizon(history, i)) = n
  <2>. HIDE DEF n
  <2>. QED  BY <1>1, <1>5, <1>6, SeriesIsSeq
<1>8. \A k \in 1 .. n : Horizon(history, i)[k] = history[i + k]
  BY <1>6
<1>. QED  BY <1>1, <1>7, <1>8 DEF e

LEMMA EndsFacts ==
  ASSUME NEW X, NEW bars \in Seq(X), bars # <<>>, NEW sig
  PROVE  LET x == Ends(bars, sig)
         IN  /\ x.held \in 1 .. Len(bars) /\ x.timed \in BOOLEAN
             /\ x.timed <=> Hits(bars, sig) = {}
             /\ x.timed => x.held = Len(bars)
             /\ ~x.timed => x.held \in Hits(bars, sig) /\ \A k \in Hits(bars, sig) : x.held <= k
<1>. DEFINE S == Hits(bars, sig)
<1>1. S \subseteq 1 .. Len(bars) /\ Len(bars) \in Nat \ {0}
  BY DEF Hits
<1>2. S # {} => Min(S) \in S /\ \A k \in S : Min(S) <= k
  <2>. HIDE DEF S
  <2>1. S \in SUBSET Nat
    BY <1>1
  <2>. QED  BY <2>1, MinAttained
<1>. HIDE DEF S
<1>3. Min(Hits(bars, sig)) = Min(S)
  BY DEF S
<1>. QED  BY <1>1, <1>2, <1>3 DEF Ends, S

(* A part of the bars settles a trade as all of them do, if it settles it.    *)
LEMMA EndsEarly ==
  ASSUME NEW X, NEW part \in Seq(X), part # <<>>, NEW bars \in Seq(X), Len(part) <= Len(bars),
         Longer(part, bars, Len(part)), NEW sig,
         ~Ends(part, sig).timed \/ (Ends(bars, sig).held <= Len(part) /\ Len(part) < Len(bars))
  PROVE  Ends(part, sig) = Ends(bars, sig)
<1>. DEFINE S == Hits(part, sig)
            U == Hits(bars, sig)
            p == Len(part)
<1>1. DOMAIN part = 1 .. p /\ DOMAIN bars = 1 .. Len(bars) /\ p \in Nat \ {0} /\ Len(bars) \in Nat /\ bars # <<>>
  OBVIOUS
<1>2. \A k \in 1 .. p : k \in 1 .. Len(bars) /\ bars[k] = part[k]
  BY <1>1 DEF Longer
<1>3. \A k \in 1 .. p : k \in S <=> k \in U
  BY <1>1, <1>2 DEF Hits
<1>4. S \subseteq 1 .. p /\ U \subseteq 1 .. Len(bars)
  BY <1>1 DEF Hits
<1>5. PICK k \in S : k \in U /\ k <= p /\ \A j \in U : k <= j
  <2>. DEFINE x == Ends(part, sig)
              y == Ends(bars, sig)
  <2>1. ~x.timed => x.held \in S /\ \A j \in S : x.held <= j
    BY EndsFacts
  <2>2. (y.timed => y.held = Len(bars)) /\ (~y.timed => y.held \in U /\ \A j \in U : y.held <= j)
    BY <1>1, EndsFacts
  <2>3. y.timed \in BOOLEAN /\ y.held \in 1 .. Len(bars)
    BY <1>1, EndsFacts
  <2>4. ~x.timed \/ (y.held <= p /\ p < Len(bars))
    OBVIOUS
  <2>. HIDE DEF x, y, S, U, p
  <2>5. CASE ~x.timed
    <3>1. \A j \in U : j \in 1 .. p \/ (j \in Nat /\ p < j)
      BY <1>1, <1>4
    <3>2. x.held \in S /\ x.held \in U /\ x.held \in 1 .. p
      BY <1>3, <1>4, <2>1, <2>5
    <3>3. ASSUME NEW j \in U PROVE x.held <= j
      <4>1. CASE j \in 1 .. p
        BY <1>3, <2>1, <2>5, <4>1
      <4>2. CASE j \in Nat /\ p < j
        BY <1>1, <3>2, <4>2
      <4>. QED  BY <3>1, <4>1, <4>2
    <3>4. x.held <= p
      BY <1>1, <3>2
    <3>. QED  BY <3>2, <3>3, <3>4
  <2>6. CASE y.held <= p /\ p < Len(bars)
    <3>1. ~y.timed
      BY <1>1, <2>2, <2>3, <2>6
    <3>2. y.held \in 1 .. p
      BY <1>1, <2>3, <2>6
    <3>. QED  BY <1>3, <2>2, <3>1, <3>2
  <2>. QED  BY <2>4, <2>5, <2>6
<1>6. Min(S) = k /\ Min(U) = k
  <2>. HIDE DEF S, U
  <2>1. S \in SUBSET Nat /\ U \in SUBSET Nat /\ \A j \in S : j \in U
    BY <1>1, <1>3, <1>4
  <2>2. \A j \in S : k <= j
    BY <1>5, <2>1
  <2>. QED  BY <1>5, <2>1, <2>2, MinIs
<1>7. S # {} /\ U # {} /\ part[k] = bars[k]
  BY <1>2, <1>4, <1>5
<1>. HIDE DEF S, U
<1>. QED  BY <1>6, <1>7 DEF Ends, S, U

(* The first bars of a history.                                              *)
LEMMA FirstFacts ==
  ASSUME NEW X, NEW s \in Seq(X), NEW n \in 0 .. Len(s)
  PROVE  /\ SubSeq(s, 1, n) \in Seq(X) /\ Len(SubSeq(s, 1, n)) = n
         /\ \A i \in 1 .. n : SubSeq(s, 1, n)[i] = s[i]
<1>1. n \in Nat /\ n - 1 + 1 = n /\ \A i \in 1 .. n : i + 1 - 1 = i /\ i \in 1 .. Len(s) /\ s[i] \in X
  OBVIOUS
<1>2. SubSeq(s, 1, n) = [i \in 1 .. n |-> s[i]]
  BY <1>1
<1>3. [i \in 1 .. n |-> s[i]] \in [1 .. n -> X]
  BY <1>1
<1>4. SubSeq(s, 1, n) \in Seq(X) /\ Len(SubSeq(s, 1, n)) = n
  BY <1>1, <1>2, <1>3, SeriesIsSeq
<1>5. \A i \in 1 .. n : SubSeq(s, 1, n)[i] = s[i]
  BY <1>2
<1>. QED  BY <1>4, <1>5

LEMMA ExitFacts ==
  ASSUME NEW X, NEW history \in Seq(X), NEW i \in Nat \ {0}, i < Len(history), NEW sig
  PROVE  LET x == Exit(history, i, sig)
         IN  /\ x.held \in 1 .. MaxHolding /\ i + x.held <= Len(history) /\ x.timed \in BOOLEAN
             /\ x.timed => x.held = MaxHolding \/ i + x.held = Len(history)
<1>. DEFINE n == Sooner(i + MaxHolding, Len(history)) - i
            h == Horizon(history, i)
<1>1. n \in 1 .. MaxHolding /\ i + n <= Len(history) /\ h \in Seq(X) /\ Len(h) = n
  BY HorizonFacts
<1>2. n = MaxHolding \/ i + n = Len(history)
  BY BacktestConstants DEF Sooner
<1>3. Exit(history, i, sig) = Ends(h, sig)
  BY ExitEnds
<1>. HIDE DEF n, h
<1>4. h # <<>>
  BY <1>1
<1>5. Ends(h, sig).held \in 1 .. n /\ Ends(h, sig).timed \in BOOLEAN
      /\ (Ends(h, sig).timed => Ends(h, sig).held = n)
  BY <1>1, <1>4, EndsFacts
<1>6. MaxHolding \in Nat
  BY BacktestConstants
<1>. QED  BY <1>1, <1>2, <1>3, <1>5, <1>6

LEMMA SameExit ==
  ASSUME NEW X, NEW history \in Seq(X), NEW n \in 1 .. Len(history), NEW i \in Nat \ {0}, i < n, NEW sig,
         LET u == Exit(SubSeq(history, 1, n), i, sig)
         IN  ~u.timed \/ u.held = MaxHolding \/ i + Exit(history, i, sig).held <= n
  PROVE  Exit(SubSeq(history, 1, n), i, sig) = Exit(history, i, sig)
<1>. DEFINE past == SubSeq(history, 1, n)
            part == Horizon(past, i)
            bars == Horizon(history, i)
            p == Sooner(i + MaxHolding, n) - i
            q == Sooner(i + MaxHolding, Len(history)) - i
<1>1. past \in Seq(X) /\ Len(past) = n /\ \A k \in 1 .. n : past[k] = history[k]
  BY FirstFacts
<1>2. p \in 1 .. MaxHolding /\ i + p <= n /\ part \in Seq(X) /\ Len(part) = p
      /\ \A k \in 1 .. p : part[k] = past[i + k]
  <2>. HIDE DEF past
  <2>. QED  BY <1>1, HorizonFacts
<1>3. q \in 1 .. MaxHolding /\ bars \in Seq(X) /\ Len(bars) = q /\ \A k \in 1 .. q : bars[k] = history[i + k]
  BY HorizonFacts
<1>4. p <= q /\ p \in Nat \ {0} /\ q \in Nat \ {0} /\ (p < q => p = n - i /\ p # MaxHolding)
  <2>1. MaxHolding \in Nat \ {0} /\ p \in Nat \ {0} /\ q \in Nat \ {0}
    BY <1>2, <1>3, BacktestConstants
  <2>2. i \in Nat /\ n \in Nat /\ Len(history) \in Nat /\ n <= Len(history)
    OBVIOUS
  <2>. HIDE DEF past, part, bars
  <2>. DEFINE a == i + MaxHolding
              l == Len(history)
  <2>3. a \in Nat /\ l \in Nat /\ n <= l /\ p = Sooner(a, n) - i /\ q = Sooner(a, l) - i /\ a - i = MaxHolding
    BY <2>1, <2>2
  <2>. HIDE DEF a, l, p, q
  <2>4. Sooner(a, n) \in Nat /\ Sooner(a, l) \in Nat /\ Sooner(a, n) <= Sooner(a, l)
    BY <2>2, <2>3 DEF Sooner
  <2>5. p < q => Sooner(a, n) = n /\ n < a
    BY <2>2, <2>3, <2>4 DEF Sooner
  <2>. QED  BY <2>1, <2>2, <2>3, <2>4, <2>5
<1>5. Exit(past, i, sig) = Ends(part, sig) /\ Exit(history, i, sig) = Ends(bars, sig)
  <2>. HIDE DEF past
  <2>. QED  BY <1>1, ExitEnds
<1>. HIDE DEF past, part, bars, p, q
<1>6. \A k \in 1 .. p : bars[k] = part[k]
  <2>1. \A k \in 1 .. p : k \in 1 .. q /\ i + k \in 1 .. n
    BY <1>2, <1>4
  <2>. QED  BY <1>1, <1>2, <1>3, <2>1
<1>7. CASE p = q
  <2>1. part = bars
    <3>1. part = [k \in 1 .. p |-> part[k]] /\ bars = [k \in 1 .. p |-> bars[k]]
      BY <1>2, <1>3, <1>7
    <3>. QED  BY <1>6, <3>1
  <2>. QED  BY <1>5, <2>1 DEF past
<1>8. CASE p < q
  <2>1. part # <<>> /\ Ends(part, sig).held \in 1 .. p /\ Ends(part, sig).timed \in BOOLEAN
        /\ (Ends(part, sig).timed => Ends(part, sig).held = p)
    <3>1. part # <<>>
      BY <1>2, <1>4
    <3>. QED  BY <1>2, <3>1, EndsFacts
  <2>2. ~Ends(part, sig).timed \/ Ends(part, sig).held = MaxHolding \/ i + Ends(bars, sig).held <= n
    BY <1>5 DEF past
  <2>3. bars # <<>> /\ Ends(bars, sig).held \in 1 .. q
    <3>1. bars # <<>>
      BY <1>3, <1>4
    <3>. QED  BY <1>3, <3>1, EndsFacts
  <2>4. ~Ends(part, sig).timed \/ (Ends(bars, sig).held <= p /\ p < q)
    BY <1>4, <1>8, <2>1, <2>2, <2>3
  <2>5. Longer(part, bars, p)
    BY <1>6 DEF Longer
  <2>6. Ends(part, sig) = Ends(bars, sig)
    BY <1>2, <1>3, <1>4, <2>1, <2>4, <2>5, EndsEarly
  <2>. QED  BY <1>5, <2>6 DEF past
<1>. QED  BY <1>4, <1>7, <1>8

-----------------------------------------------------------------------------
(* The walk from a place on: nothing, the walk from the next place, or a     *)
(* trade and the walk from its exit.                                         *)
SignalAt(m, i) == Evaluate(Context(m, i))
TradeAt(m, i) == Simulate(m.bars, i, SignalAt(m, i))
Tradeable(m) == {TradeAt(m, i) : i \in 1 .. Len(m.bars)}
Places(m) == 1 .. Len(m.bars) + MaxHolding
Onward(w, m, i) ==
    IF i >= Len(m.bars) THEN <<>>
    ELSE IF SignalAt(m, i) = NoSignal THEN w[i + 1]
    ELSE <<TradeAt(m, i)>> \o w[i + Skip(TradeAt(m, i).held)]
Walks(w, m) ==
    /\ w \in [Places(m) -> Seq(Tradeable(m))]
    /\ \A i \in Places(m) : w[i] = Onward(w, m, i)
DatedBars(m) == m.bars \in Seq(Bar)

LEMMA TradeFacts ==
  ASSUME NEW m, DatedBars(m), NEW i \in Nat \ {0}, i < Len(m.bars)
  PROVE  LET t == TradeAt(m, i)
         IN  /\ t.at = i /\ t.signal = SignalAt(m, i) /\ t \in Tradeable(m)
             /\ t.held \in 1 .. MaxHolding /\ i + t.held \in i + 1 .. Len(m.bars)
             /\ Settled(t) \/ i + t.held = Len(m.bars)
             /\ Skip(t.held) = t.held
<1>. DEFINE sig == SignalAt(m, i)
            x == Exit(m.bars, i, sig)
            t == TradeAt(m, i)
<1>1. x.held \in 1 .. MaxHolding /\ i + x.held <= Len(m.bars) /\ x.timed \in BOOLEAN
      /\ (x.timed => x.held = MaxHolding \/ i + x.held = Len(m.bars))
  <2>. HIDE DEF sig
  <2>. QED  BY ExitFacts DEF DatedBars
<1>2. t.at = i /\ t.signal = sig /\ t.held = x.held /\ t.outcome = Outcome(sig, x)
  BY DEF TradeAt, Simulate
<1>3. t \in Tradeable(m)
  <2>1. Len(m.bars) \in Nat
    BY DEF DatedBars
  <2>2. i \in 1 .. Len(m.bars)
    BY <2>1
  <2>. QED  BY <2>2 DEF Tradeable
<1>4. MaxHolding \in Nat /\ Len(m.bars) \in Nat
  BY BacktestConstants DEF DatedBars
<1>. HIDE DEF sig, x, t
<1>5. ~x.timed => Outcome(sig, x) # "timeout"
  BY DEF Outcome
<1>6. Settled(t) \/ i + t.held = Len(m.bars)
  BY <1>1, <1>2, <1>5 DEF Settled
<1>7. t.held \in 1 .. MaxHolding /\ i + t.held \in i + 1 .. Len(m.bars)
  BY <1>1, <1>2, <1>4
<1>8. Skip(t.held) = t.held
  BY <1>4, <1>7 DEF Skip, Larger
<1>. QED  BY <1>2, <1>3, <1>6, <1>7, <1>8 DEF t, sig

LEMMA OnwardSame ==
  ASSUME NEW m, DatedBars(m), NEW v, NEW w, NEW i \in Places(m),
         \A k \in i + 1 .. Len(m.bars) + MaxHolding : w[k] = v[k]
  PROVE  Onward(w, m, i) = Onward(v, m, i)
<1>1. Len(m.bars) \in Nat /\ MaxHolding \in Nat /\ i \in Nat \ {0}
  BY BacktestConstants DEF DatedBars, Places
<1>2. CASE i >= Len(m.bars)
  BY <1>2 DEF Onward
<1>3. CASE i < Len(m.bars)
  <2>. DEFINE j == i + Skip(TradeAt(m, i).held)
  <2>1. j \in i + 1 .. Len(m.bars)
    BY <1>1, <1>3, TradeFacts
  <2>. HIDE DEF j
  <2>2. j \in i + 1 .. Len(m.bars) + MaxHolding /\ i + 1 \in i + 1 .. Len(m.bars) + MaxHolding
    BY <1>1, <1>3, <2>1
  <2>3. w[j] = v[j] /\ w[i + 1] = v[i + 1]
    BY <2>2
  <2>. QED  BY <2>3 DEF Onward, j
<1>. QED  BY <1>1, <1>2, <1>3

LEMMA OnwardType ==
  ASSUME NEW m, DatedBars(m), NEW w \in [Places(m) -> Seq(Tradeable(m))], NEW i \in Places(m)
  PROVE  Onward(w, m, i) \in Seq(Tradeable(m))
<1>1. Len(m.bars) \in Nat /\ MaxHolding \in Nat /\ i \in Nat \ {0}
  BY BacktestConstants DEF DatedBars, Places
<1>2. CASE i >= Len(m.bars)
  BY <1>2 DEF Onward
<1>3. CASE i < Len(m.bars)
  <2>. DEFINE t == TradeAt(m, i)
              j == i + Skip(t.held)
              T == Tradeable(m)
  <2>1. t \in T /\ j \in i + 1 .. Len(m.bars)
    BY <1>1, <1>3, TradeFacts
  <2>2. i + 1 \in Places(m) /\ j \in Places(m)
    <3>. HIDE DEF j
    <3>. QED  BY <1>1, <1>3, <2>1 DEF Places
  <2>3. w[i + 1] \in Seq(T) /\ w[j] \in Seq(T)
    <3>. HIDE DEF j
    <3>. QED  BY <2>2
  <2>4. <<t>> \o w[j] \in Seq(T)
    <3>. HIDE DEF t, j, T
    <3>. QED  BY <2>1, <2>3, ConsFacts
  <2>. QED  BY <2>3, <2>4 DEF Onward
<1>. QED  BY <1>1, <1>2, <1>3

LEMMA WalkExists ==
  ASSUME NEW m, DatedBars(m)
  PROVE  \E w : Walks(w, m)
<1>. DEFINE n == Len(m.bars) + MaxHolding
            W == [Places(m) -> Seq(Tradeable(m))]
            S == {i \in Places(m) : \E w \in W : \A j \in i .. n : w[j] = Onward(w, m, j)}
<1>1. n \in Nat /\ n # 0 /\ Places(m) = 1 .. n
  BY BacktestConstants DEF DatedBars, Places
<1>. HIDE DEF n, W
<1>2. ASSUME NEW i \in 1 .. n, \A j \in i + 1 .. n : j \in S  PROVE i \in S
  <2>1. PICK v \in W : \A j \in i + 1 .. n : v[j] = Onward(v, m, j)
    <3>1. CASE i = n
      <4>. DEFINE v == [k \in Places(m) |-> <<>>]
      <4>1. v \in W
        BY DEF W
      <4>2. \A j \in i + 1 .. n : FALSE
        BY <1>1, <3>1
      <4>. QED  BY <4>1, <4>2
    <3>2. CASE i # n
      <4>1. i + 1 \in i + 1 .. n
        BY <1>1, <3>2
      <4>. QED  BY <1>2, <4>1
    <3>. QED  BY <3>1, <3>2
  <2>. DEFINE w == [v EXCEPT ![i] = Onward(v, m, i)]
  <2>2. Onward(v, m, i) \in Seq(Tradeable(m))
    BY <1>1, OnwardType DEF W
  <2>3. w \in W /\ w[i] = Onward(v, m, i) /\ \A k \in i + 1 .. n : w[k] = v[k]
    <3>1. \A k \in i + 1 .. n : k # i /\ k \in Places(m)
      BY <1>1
    <3>. QED  BY <1>1, <2>2, <3>1 DEF W
  <2>. HIDE DEF w
  <2>4. ASSUME NEW j \in i .. n PROVE w[j] = Onward(w, m, j)
    <3>1. j \in Places(m) /\ \A k \in j + 1 .. n : k \in i + 1 .. n
      BY <1>1
    <3>2. \A k \in j + 1 .. n : w[k] = v[k]
      BY <2>3, <3>1
    <3>3. Onward(w, m, j) = Onward(v, m, j)
      BY <3>1, <3>2, OnwardSame DEF n
    <3>4. j = i \/ j \in i + 1 .. n
      BY <1>1
    <3>. QED  BY <2>1, <2>3, <3>3, <3>4
  <2>5. \E u \in W : \A j \in i .. n : u[j] = Onward(u, m, j)
    BY <2>3, <2>4
  <2>. QED  BY <1>1, <2>5
<1>3. 1 .. n \subseteq S
  <2>. HIDE DEF S
  <2>. QED  BY <1>1, <1>2, DownInduction
<1>4. 1 \in S
  BY <1>1, <1>3
<1>. QED  BY <1>1, <1>4 DEF Walks, W

LEMMA WalkFacts ==
  ASSUME NEW m, DatedBars(m)
  PROVE  \E w : Walks(w, m) /\ Walk(m) = IF Len(m.bars) <= WindowCap + 1 THEN <<>> ELSE w[WindowCap + 1]
<1>. DEFINE n == Len(m.bars) + MaxHolding
            from[i \in 1 .. Len(m.bars) + MaxHolding] ==
              IF i >= Len(m.bars) THEN <<>>
              ELSE LET sig == Evaluate(Context(m, i))
                       trade == Simulate(m.bars, i, sig)
                   IN  IF sig = NoSignal THEN from[i + 1] ELSE <<trade>> \o from[i + Skip(trade.held)]
<1>1. PICK w : Walks(w, m)
  BY WalkExists
<1>2. w = [i \in 1 .. Len(m.bars) + MaxHolding |->
              IF i >= Len(m.bars) THEN <<>>
              ELSE LET sig == Evaluate(Context(m, i))
                       trade == Simulate(m.bars, i, sig)
                   IN  IF sig = NoSignal THEN w[i + 1] ELSE <<trade>> \o w[i + Skip(trade.held)]]
  <2>1. w = [i \in Places(m) |-> w[i]]
    BY <1>1 DEF Walks
  <2>2. w = [i \in Places(m) |-> Onward(w, m, i)]
    BY <1>1, <2>1 DEF Walks
  <2>. QED  BY <2>2 DEF Places, Onward, TradeAt, SignalAt
<1>3. from = [i \in 1 .. Len(m.bars) + MaxHolding |->
              IF i >= Len(m.bars) THEN <<>>
              ELSE LET sig == Evaluate(Context(m, i))
                       trade == Simulate(m.bars, i, sig)
                   IN  IF sig = NoSignal THEN from[i + 1] ELSE <<trade>> \o from[i + Skip(trade.held)]]
  BY <1>2
<1>4. Walk(m) = IF Len(m.bars) <= WindowCap + 1 THEN <<>> ELSE from[WindowCap + 1]
  BY DEF Walk
<1>. HIDE DEF from
<1>5. from = [i \in Places(m) |-> Onward(from, m, i)]
  BY <1>3 DEF Places, Onward, TradeAt, SignalAt
<1>6. from = w
  <2>. DEFINE S == {i \in Places(m) : from[i] = w[i]}
  <2>1. n \in Nat /\ Places(m) = 1 .. n
    BY BacktestConstants DEF DatedBars, Places
  <2>. HIDE DEF n
  <2>2. ASSUME NEW i \in 1 .. n, \A j \in i + 1 .. n : j \in S PROVE i \in S
    <3>1. \A j \in i + 1 .. n : from[j] = w[j]
      BY <2>2
    <3>2. i \in Places(m) /\ Onward(from, m, i) = Onward(w, m, i)
      BY <2>1, <3>1, OnwardSame DEF n
    <3>3. from[i] = Onward(from, m, i) /\ w[i] = Onward(w, m, i)
      BY <1>1, <1>5, <3>2 DEF Walks
    <3>. QED  BY <3>2, <3>3
  <2>3. 1 .. n \subseteq S
    <3>. HIDE DEF S
    <3>. QED  BY <2>1, <2>2, DownInduction
  <2>4. \A i \in Places(m) : from[i] = w[i]
    BY <2>1, <2>3
  <2>5. from = [i \in Places(m) |-> from[i]] /\ w = [i \in Places(m) |-> w[i]]
    BY <1>1, <1>5 DEF Walks
  <2>. QED  BY <2>4, <2>5
<1>. QED  BY <1>1, <1>4, <1>6

LEMMA WalkCases ==
  ASSUME NEW m, DatedBars(m), NEW w, Walks(w, m), NEW i \in Places(m)
  PROVE  /\ i >= Len(m.bars) => w[i] = <<>> /\ Range(w[i]) = {}
         /\ i < Len(m.bars) /\ SignalAt(m, i) = NoSignal => i + 1 \in Places(m) /\ w[i] = w[i + 1]
         /\ i < Len(m.bars) /\ SignalAt(m, i) # NoSignal =>
              /\ i + TradeAt(m, i).held \in Places(m)
              /\ w[i] = <<TradeAt(m, i)>> \o w[i + TradeAt(m, i).held]
              /\ Range(w[i]) = {TradeAt(m, i)} \cup Range(w[i + TradeAt(m, i).held])
<1>1. Len(m.bars) \in Nat /\ MaxHolding \in Nat /\ i \in Nat \ {0} /\ w[i] = Onward(w, m, i)
  BY BacktestConstants DEF DatedBars, Places, Walks
<1>2. ASSUME i >= Len(m.bars) PROVE w[i] = <<>> /\ Range(w[i]) = {}
  <2>1. w[i] = <<>>
    BY <1>1, <1>2 DEF Onward
  <2>. QED  BY <2>1 DEF Range
<1>3. ASSUME i < Len(m.bars), SignalAt(m, i) = NoSignal PROVE i + 1 \in Places(m) /\ w[i] = w[i + 1]
  <2>1. i + 1 \in Places(m)
    BY <1>1, <1>3 DEF Places
  <2>2. ~(i >= Len(m.bars))
    BY <1>1, <1>3
  <2>. QED  BY <1>1, <1>3, <2>1, <2>2 DEF Onward
<1>4. ASSUME i < Len(m.bars), SignalAt(m, i) # NoSignal
      PROVE  /\ i + TradeAt(m, i).held \in Places(m)
             /\ w[i] = <<TradeAt(m, i)>> \o w[i + TradeAt(m, i).held]
             /\ Range(w[i]) = {TradeAt(m, i)} \cup Range(w[i + TradeAt(m, i).held])
  <2>. DEFINE t == TradeAt(m, i)
              T == Tradeable(m)
              j == i + t.held
  <2>1. t \in T /\ j \in i + 1 .. Len(m.bars) /\ Skip(t.held) = t.held
    BY <1>1, <1>4, TradeFacts
  <2>2. ~(i >= Len(m.bars))
    BY <1>1, <1>4
  <2>3. w[i] = <<t>> \o w[j]
    BY <1>1, <1>4, <2>1, <2>2 DEF Onward
  <2>. HIDE DEF j, t, T
  <2>4. j \in Places(m)
    BY <1>1, <1>4, <2>1 DEF Places
  <2>5. w[j] \in Seq(T)
    BY <2>4 DEF Walks, T
  <2>6. Range(w[i]) = {t} \cup Range(w[j])
    BY <2>1, <2>3, <2>5, ConsFacts
  <2>. QED  BY <2>3, <2>4, <2>6 DEF t, j
<1>. QED  BY <1>2, <1>3, <1>4

Waits(w, i) == w[i] = w[i + 1]
Ended(w, i) == w[i] = <<>>
LEMMA AtTheEnd ==
  ASSUME NEW m, DatedBars(m), NEW w, Walks(w, m), NEW i \in Places(m), i >= Len(m.bars)
  PROVE  Ended(w, i)
  BY DEF Ended, Walks, Onward

LEMMA NoTrade ==
  ASSUME NEW m, DatedBars(m), NEW w, Walks(w, m), NEW i \in Places(m), i < Len(m.bars), SignalAt(m, i) = NoSignal
  PROVE  Waits(w, i)
<1>1. ~(i >= Len(m.bars))
  <2>1. i \in Nat /\ Len(m.bars) \in Nat
    BY BacktestConstants DEF DatedBars, Places
  <2>. QED  BY <2>1
<1>2. w[i] = Onward(w, m, i)
  BY DEF Walks
<1>. QED  BY <1>1, <1>2 DEF Waits, Onward

(* The trades of a walk are those of places with a signal, from its start on. *)
Signalled(m, i, t) ==
    \E j \in Nat \ {0} : i <= j /\ j < Len(m.bars) /\ t = TradeAt(m, j) /\ SignalAt(m, j) # NoSignal

LEMMA WalkTrades ==
  ASSUME NEW m, DatedBars(m), NEW w, Walks(w, m), NEW i \in Places(m), NEW t \in Range(w[i])
  PROVE  Signalled(m, i, t)
<1>. DEFINE n == Len(m.bars) + MaxHolding
            S == {k \in Places(m) : \A u \in Range(w[k]) : Signalled(m, k, u)}
<1>1. n \in Nat /\ Places(m) = 1 .. n /\ Len(m.bars) \in Nat
  BY BacktestConstants DEF DatedBars, Places
<1>. HIDE DEF n
<1>2. ASSUME NEW k \in 1 .. n, \A j \in k + 1 .. n : j \in S  PROVE k \in S
  <2>1. ASSUME NEW u \in Range(w[k]) PROVE Signalled(m, k, u)
    <3>1. k < Len(m.bars)
      <4>1. ~(k >= Len(m.bars))
        BY <1>1, <2>1, WalkCases
      <4>. QED  BY <1>1, <4>1
    <3>2. ASSUME NEW j \in k + 1 .. n, u \in Range(w[j]) PROVE Signalled(m, k, u)
      <4>1. Signalled(m, j, u) /\ j \in Nat /\ k \in Nat /\ k <= j
        BY <1>1, <1>2, <3>2
      <4>. QED  BY <4>1, <1>1 DEF Signalled
    <3>3. CASE SignalAt(m, k) = NoSignal
      <4>1. k + 1 \in Places(m) /\ w[k] = w[k + 1]
        BY <1>1, <3>1, <3>3, WalkCases
      <4>2. k + 1 \in k + 1 .. n
        BY <1>1, <4>1
      <4>3. u \in Range(w[k + 1])
        BY <4>1
      <4>. QED  BY <3>2, <4>2, <4>3
    <3>4. CASE SignalAt(m, k) # NoSignal
      <4>. DEFINE j == k + TradeAt(m, k).held
      <4>1. j \in Places(m) /\ Range(w[k]) = {TradeAt(m, k)} \cup Range(w[j])
        BY <1>1, <3>1, <3>4, WalkCases
      <4>2. j \in k + 1 .. Len(m.bars) /\ k \in Nat \ {0} /\ k <= k
        BY <1>1, <3>1, TradeFacts
      <4>. HIDE DEF j
      <4>3. j \in k + 1 .. n
        BY <1>1, <4>1, <4>2
      <4>4. CASE u = TradeAt(m, k)
        BY <3>1, <3>4, <4>2, <4>4 DEF Signalled
      <4>. QED  BY <3>2, <4>1, <4>3, <4>4
    <3>. QED  BY <3>3, <3>4
  <2>. QED  BY <1>1, <2>1
<1>3. 1 .. n \subseteq S
  <2>. HIDE DEF S
  <2>. QED  BY <1>1, <1>2, DownInduction
<1>. QED  BY <1>1, <1>3

LEMMA SignalledFacts ==
  ASSUME NEW m, DatedBars(m), NEW i, NEW t, Signalled(m, i, t)
  PROVE  /\ t.at \in Nat \ {0} /\ i <= t.at /\ t.at < Len(m.bars) /\ t.held \in 1 .. MaxHolding
         /\ t.at + t.held \in t.at + 1 .. Len(m.bars)
         /\ t = TradeAt(m, t.at) /\ SignalAt(m, t.at) = t.signal /\ t.signal # NoSignal
  BY TradeFacts DEF Signalled

Apart(t, u) == u.at > t.at => u.at >= t.at + t.held
LEMMA OneByOne ==
  ASSUME NEW m, DatedBars(m), NEW w, Walks(w, m), NEW i \in Places(m)
  PROVE  \A t, u \in Range(w[i]) : Apart(t, u)
<1>. DEFINE n == Len(m.bars) + MaxHolding
            S == {k \in Places(m) : \A t, u \in Range(w[k]) : Apart(t, u)}
<1>1. n \in Nat /\ Places(m) = 1 .. n /\ Len(m.bars) \in Nat
  BY BacktestConstants DEF DatedBars, Places
<1>. HIDE DEF n
<1>2. ASSUME NEW k \in 1 .. n, \A j \in k + 1 .. n : j \in S  PROVE k \in S
  <2>1. ASSUME NEW t \in Range(w[k]), NEW u \in Range(w[k]) PROVE Apart(t, u)
    <3>1. k < Len(m.bars)
      <4>1. ~(k >= Len(m.bars))
        BY <1>1, <2>1, WalkCases
      <4>. QED  BY <1>1, <4>1
    <3>2. CASE SignalAt(m, k) = NoSignal
      <4>1. k + 1 \in Places(m) /\ w[k] = w[k + 1]
        BY <1>1, <3>1, <3>2, WalkCases
      <4>2. k + 1 \in k + 1 .. n
        BY <1>1, <4>1
      <4>3. k + 1 \in S
        BY <1>2, <4>2
      <4>. QED  BY <4>1, <4>3
    <3>3. CASE SignalAt(m, k) # NoSignal
      <4>. DEFINE a == TradeAt(m, k)
                  j == k + a.held
      <4>1. j \in Places(m) /\ Range(w[k]) = {a} \cup Range(w[j])
        BY <1>1, <3>1, <3>3, WalkCases
      <4>2. j \in k + 1 .. Len(m.bars) /\ k \in Nat \ {0} /\ a.at = k
        BY <1>1, <3>1, TradeFacts
      <4>. HIDE DEF j
      <4>3. j \in k + 1 .. n /\ j \in S
        BY <1>1, <1>2, <4>1, <4>2
      <4>4. ASSUME NEW b \in Range(w[j]) PROVE b.at \in Nat /\ j <= b.at
        <5>1. Signalled(m, j, b)
          BY <4>1, WalkTrades
        <5>. QED  BY <5>1, SignalledFacts
      <4>. HIDE DEF a
      <4>5. CASE t = a
        BY <4>1, <4>2, <4>4, <4>5 DEF Apart, j
      <4>6. CASE t \in Range(w[j]) /\ u = a
        BY <4>1, <4>2, <4>4, <4>6 DEF Apart
      <4>7. CASE t \in Range(w[j]) /\ u \in Range(w[j])
        BY <4>3, <4>7
      <4>. QED  BY <4>1, <4>5, <4>6, <4>7
    <3>. QED  BY <3>2, <3>3
  <2>. QED  BY <1>1, <2>1
<1>3. 1 .. n \subseteq S
  <2>. HIDE DEF S
  <2>. QED  BY <1>1, <1>2, DownInduction
<1>. QED  BY <1>1, <1>3

-----------------------------------------------------------------------------
(* The market as it was when n of the symbol's bars were there, on day d.    *)
Cut(m, n, d) ==
    [bars |-> SubSeq(m.bars, 1, n), bundles |-> SubSeq(m.bundles, 1, n),
     bench |-> SubSeq(m.bench, 1, d + 1), trends |-> SubSeq(m.trends, 1, d + 1)]
StateAfter(bars) == Replay(bars)[Len(bars)]
Told(bars) == [i \in 1 .. Len(bars) |-> Bundle(StateAfter(SubSeq(bars, 1, i)))]
Orderly(m) ==
    /\ DatedBars(m) /\ m.bundles = Told(m.bars)
    /\ m.bench \in Seq(Bar) /\ m.trends \in Seq({"none", "long", "short"})
    /\ Len(m.bench) = Len(m.trends) /\ Len(m.bars) <= Len(m.bench)
CutAt(m, n, d) == n \in 1 .. Len(m.bars) /\ d \in Nat /\ n <= d + 1 /\ d < Len(m.bench)

LEMMA PartOfFirst ==
  ASSUME NEW X, NEW s \in Seq(X), NEW n \in 0 .. Len(s), NEW k \in Nat \ {0}, NEW i \in Nat, i <= n
  PROVE  SubSeq(SubSeq(s, 1, n), k, i) = SubSeq(s, k, i)
<1>. DEFINE past == SubSeq(s, 1, n)
<1>1. past \in Seq(X) /\ Len(past) = n /\ \A j \in 1 .. n : past[j] = s[j]
  BY FirstFacts
<1>2. \A j \in 1 .. i - k + 1 : j + k - 1 \in 1 .. n /\ n \in Nat
  OBVIOUS
<1>. HIDE DEF past
<1>3. SubSeq(past, k, i) = [j \in 1 .. i - k + 1 |-> past[j + k - 1]]
  BY <1>1
<1>4. SubSeq(s, k, i) = [j \in 1 .. i - k + 1 |-> s[j + k - 1]]
  OBVIOUS
<1>5. \A j \in 1 .. i - k + 1 : past[j + k - 1] = s[j + k - 1]
  BY <1>1, <1>2
<1>6. SubSeq(past, k, i) = SubSeq(s, k, i)
  BY <1>3, <1>4, <1>5
<1>. QED  BY <1>6 DEF past

LEMMA CutFacts ==
  ASSUME NEW m, Orderly(m), NEW n, NEW d, CutAt(m, n, d)
  PROVE  /\ DatedBars(Cut(m, n, d)) /\ Len(Cut(m, n, d).bars) = n
         /\ Cut(m, n, d).bars = SubSeq(m.bars, 1, n)
         /\ Cut(m, n, d).bench \in Seq(Bar) /\ Len(Cut(m, n, d).bench) = d + 1
         /\ \A i \in 1 .. n : Cut(m, n, d).bundles[i] = m.bundles[i]
         /\ \A i \in 1 .. d + 1 : Cut(m, n, d).bench[i] = m.bench[i] /\ Cut(m, n, d).trends[i] = m.trends[i]
<1>1. n \in 0 .. Len(m.bars) /\ d + 1 \in 0 .. Len(m.bench) /\ d + 1 \in 0 .. Len(m.trends) /\ m.bars \in Seq(Bar)
  BY DEF CutAt, Orderly, DatedBars
<1>2. SubSeq(m.bars, 1, n) \in Seq(Bar) /\ Len(SubSeq(m.bars, 1, n)) = n
  BY <1>1, FirstFacts
<1>. DEFINE e == d + 1
<1>3. SubSeq(m.bench, 1, e) \in Seq(Bar) /\ Len(SubSeq(m.bench, 1, e)) = e
      /\ \A i \in 1 .. e : SubSeq(m.bench, 1, e)[i] = m.bench[i]
  <2>1. e \in 0 .. Len(m.bench) /\ m.bench \in Seq(Bar)
    BY <1>1 DEF Orderly
  <2>. HIDE DEF e
  <2>. QED  BY <2>1, FirstFacts
<1>4. \A i \in 1 .. e : SubSeq(m.trends, 1, e)[i] = m.trends[i]
  <2>1. e \in 0 .. Len(m.trends) /\ m.trends \in Seq({"none", "long", "short"})
    BY <1>1 DEF Orderly
  <2>. HIDE DEF e
  <2>. QED  BY <2>1, FirstFacts
<1>5. \A i \in 1 .. n : SubSeq(m.bundles, 1, n)[i] = m.bundles[i]
  <2>. DEFINE X == {Bundle(StateAfter(SubSeq(m.bars, 1, i))) : i \in 1 .. Len(m.bars)}
              l == Len(m.bars)
  <2>1. l \in Nat
    BY <1>1
  <2>2. m.bundles \in [1 .. l -> X]
    BY DEF Orderly, Told
  <2>. HIDE DEF X, l
  <2>3. m.bundles \in Seq(X) /\ Len(m.bundles) = l
    BY <2>1, <2>2, SeriesIsSeq
  <2>4. n \in 0 .. Len(m.bundles)
    BY <1>1, <2>3 DEF l
  <2>. QED  BY <2>3, <2>4, FirstFacts
<1>. QED  BY <1>2, <1>3, <1>4, <1>5 DEF Cut, DatedBars

LEMMA CutContext ==
  ASSUME NEW m, Orderly(m), NEW n, NEW d, CutAt(m, n, d), NEW i \in 1 .. n
  PROVE  Context(Cut(m, n, d), i) = Context(m, i)
<1>. DEFINE p == Cut(m, n, d)
            a == Larger(1, i - WindowCap + 1)
            window == SubSeq(m.bars, a, i)
<1>1. /\ p.bars = SubSeq(m.bars, 1, n) /\ p.bundles[i] = m.bundles[i]
      /\ \A k \in 1 .. d + 1 : p.bench[k] = m.bench[k] /\ p.trends[k] = m.trends[k]
  BY CutFacts
<1>2. i \in Nat \ {0} /\ i \in 1 .. d + 1 /\ i <= n /\ n \in 0 .. Len(m.bars) /\ m.bars \in Seq(Bar)
  BY DEF CutAt, Orderly, DatedBars
<1>3. a \in Nat \ {0}
  BY <1>2, BacktestConstants DEF Larger, WindowCap
<1>. HIDE DEF p, a
<1>4. SubSeq(p.bars, a, i) = window
  BY <1>1, <1>2, <1>3, PartOfFirst
<1>. HIDE DEF window
<1>5. StrengthAt(i, window, p.bench) = StrengthAt(i, window, m.bench)
  <2>1. CASE i <= Lookback
    BY <2>1 DEF StrengthAt
  <2>2. CASE i > Lookback
    <3>1. i - Lookback \in 1 .. d + 1
      <4>1. Lookback \in Nat \ {0}
        BY BacktestConstants
      <4>2. d \in Nat
        BY DEF CutAt
      <4>. QED  BY <1>2, <2>2, <4>1, <4>2
    <3>2. p.bench[i - Lookback] = m.bench[i - Lookback] /\ p.bench[i] = m.bench[i]
      BY <1>1, <1>2, <3>1
    <3>. QED  BY <3>2 DEF StrengthAt
  <2>. QED  BY <1>2, <2>1, <2>2, BacktestConstants
<1>6. p.trends[i] = m.trends[i]
  BY <1>1, <1>2
<1>. QED  BY <1>1, <1>4, <1>5, <1>6 DEF Context, RelativeStrength, a, window, p

LEMMA SameTrade ==
  ASSUME NEW m, Orderly(m), NEW n, NEW d, CutAt(m, n, d), NEW i \in Nat \ {0}, i < n,
         Settled(TradeAt(Cut(m, n, d), i)) \/ i + TradeAt(m, i).held <= n
  PROVE  TradeAt(Cut(m, n, d), i) = TradeAt(m, i)
<1>. DEFINE p == Cut(m, n, d)
            sig == SignalAt(m, i)
            past == SubSeq(m.bars, 1, n)
            u == Exit(past, i, sig)
            v == Exit(m.bars, i, sig)
<1>1. p.bars = past /\ m.bars \in Seq(Bar) /\ n \in 1 .. Len(m.bars)
  <2>1. p.bars = past
    BY CutFacts
  <2>. QED  BY <2>1 DEF CutAt, Orderly, DatedBars
<1>2. SignalAt(p, i) = sig
  <2>1. i \in 1 .. n
    BY <1>1
  <2>. QED  BY <2>1, CutContext DEF SignalAt
<1>3. /\ TradeAt(p, i) = [at |-> i, signal |-> sig, exit |-> u.price, held |-> u.held, outcome |-> Outcome(sig, u)]
      /\ TradeAt(m, i) = [at |-> i, signal |-> sig, exit |-> v.price, held |-> v.held, outcome |-> Outcome(sig, v)]
  <2>. HIDE DEF sig, past, p
  <2>1. TradeAt(p, i) = Simulate(past, i, sig)
    BY <1>1, <1>2 DEF TradeAt
  <2>2. TradeAt(m, i) = Simulate(m.bars, i, sig)
    BY DEF TradeAt, sig
  <2>. QED  BY <2>1, <2>2 DEF Simulate
<1>. HIDE DEF sig, past, p, u, v
<1>4. ~u.timed \/ u.held = MaxHolding \/ i + v.held <= n
  <2>1. CASE Settled(TradeAt(p, i))
    <3>1. Outcome(sig, u) # "timeout" \/ u.held = MaxHolding
      BY <1>3, <2>1 DEF Settled
    <3>2. u.timed => Outcome(sig, u) = "timeout"
      BY DEF Outcome
    <3>3. u.timed \in BOOLEAN
      <4>1. past \in Seq(Bar) /\ Len(past) = n
        BY <1>1, FirstFacts DEF past
      <4>. QED  BY <4>1, ExitFacts DEF u
    <3>. QED  BY <3>1, <3>2, <3>3
  <2>2. CASE i + TradeAt(m, i).held <= n
    BY <1>3, <2>2
  <2>. QED  BY <2>1, <2>2 DEF p
<1>5. u = v
  BY <1>1, <1>4, SameExit DEF u, v, past
<1>. QED  BY <1>3, <1>5 DEF p

(* What was over by then, the walk of then knew.                             *)
LEMMA WalkKnown ==
  ASSUME NEW m, Orderly(m), NEW n, NEW d, CutAt(m, n, d),
         NEW w, Walks(w, m), NEW v, Walks(v, Cut(m, n, d)), NEW i \in 1 .. n,
         NEW t \in Range(w[i]), t.at + t.held <= n
  PROVE  t \in Range(v[i])
<1>. DEFINE p == Cut(m, n, d)
            Over(x) == x.at + x.held <= n
            S == {k \in 1 .. n : \A x \in Range(w[k]) : Over(x) => x \in Range(v[k])}
<1>1. /\ n \in Nat \ {0} /\ n <= Len(m.bars) /\ Len(m.bars) \in Nat /\ MaxHolding \in Nat
      /\ DatedBars(m) /\ DatedBars(p) /\ Len(p.bars) = n
  <2>1. DatedBars(p) /\ Len(p.bars) = n
    BY CutFacts
  <2>2. DatedBars(m) /\ Len(m.bars) \in Nat /\ MaxHolding \in Nat
    BY BacktestConstants DEF Orderly, DatedBars
  <2>. HIDE DEF p
  <2>. QED  BY <2>1, <2>2 DEF CutAt
<1>2. \A k \in 1 .. n : k \in Places(m) /\ k \in Places(p)
  BY <1>1 DEF Places
<1>3. \A k \in 1 .. n : SignalAt(p, k) = SignalAt(m, k)
  BY CutContext DEF SignalAt
<1>. HIDE DEF p
<1>4. ASSUME NEW k \in 1 .. n, \A j \in k + 1 .. n : j \in S  PROVE k \in S
  <2>1. ASSUME NEW x \in Range(w[k]), Over(x) PROVE x \in Range(v[k])
    <3>1. x.at \in Nat \ {0} /\ k <= x.at /\ x.held \in 1 .. MaxHolding /\ x = TradeAt(m, x.at)
      <4>1. Signalled(m, k, x)
        BY <1>1, <1>2, WalkTrades
      <4>. QED  BY <1>1, <4>1, SignalledFacts
    <3>2. k \in Nat \ {0} /\ x.at < n /\ k < n /\ k < Len(m.bars) /\ k < Len(p.bars)
      BY <1>1, <2>1, <3>1
    <3>3. CASE SignalAt(m, k) = NoSignal
      <4>1. w[k] = w[k + 1] /\ v[k] = v[k + 1]
        <5>1. Waits(w, k)
          BY <1>1, <1>2, <3>2, <3>3, NoTrade
        <5>2. SignalAt(p, k) = NoSignal /\ Walks(v, p)
          BY <1>3, <3>3 DEF p
        <5>3. Waits(v, k)
          BY <1>1, <1>2, <3>2, <5>2, NoTrade
        <5>. QED  BY <5>1, <5>3 DEF Waits
      <4>2. k + 1 \in k + 1 .. n
        BY <1>1, <3>2
      <4>3. k + 1 \in S
        BY <1>4, <4>2
      <4>. QED  BY <2>1, <4>1, <4>3
    <3>4. CASE SignalAt(m, k) # NoSignal
      <4>. DEFINE a == TradeAt(m, k)
                  b == TradeAt(p, k)
      <4>1. Range(w[k]) = {a} \cup Range(w[k + a.held]) /\ k + a.held \in Places(m)
        BY <1>1, <1>2, <3>2, <3>4, WalkCases
      <4>2. Range(v[k]) = {b} \cup Range(v[k + b.held])
        BY <1>1, <1>2, <1>3, <3>2, <3>4, WalkCases DEF p
      <4>3. a.at = k /\ a.held \in 1 .. MaxHolding
        BY <1>1, <3>2, TradeFacts
      <4>4. k + a.held <= n => b = a
        <5>. HIDE DEF a
        <5>. QED  BY <3>2, SameTrade DEF a, p
      <4>. HIDE DEF a, b
      <4>5. CASE x = a
        <5>1. k + a.held <= n
          BY <2>1, <4>3, <4>5
        <5>. QED  BY <4>2, <4>4, <4>5, <5>1
      <4>6. CASE x \in Range(w[k + a.held])
        <5>1. k + a.held <= x.at
          <6>1. Signalled(m, k + a.held, x)
            BY <1>1, <4>1, <4>6, WalkTrades
          <6>. QED  BY <1>1, <6>1, SignalledFacts
        <5>2. k + a.held \in k + 1 .. n
          BY <1>1, <3>1, <3>2, <4>3, <5>1
        <5>3. k + a.held \in S /\ b = a
          BY <1>1, <1>4, <4>4, <5>2
        <5>. QED  BY <2>1, <4>2, <4>6, <5>3
      <4>. QED  BY <4>1, <4>5, <4>6
    <3>. QED  BY <3>3, <3>4
  <2>. QED  BY <2>1
<1>5. 1 .. n \subseteq S
  <2>. HIDE DEF S
  <2>. QED  BY <1>1, <1>4, DownInduction
<1>. QED  BY <1>5

(* What that walk had settled, the walk of today has.                        *)
LEMMA WalkFixed ==
  ASSUME NEW m, Orderly(m), NEW n, NEW d, CutAt(m, n, d),
         NEW w, Walks(w, m), NEW v, Walks(v, Cut(m, n, d)), NEW i \in 1 .. n,
         NEW t \in Range(v[i]), Settled(t)
  PROVE  t \in Range(w[i])
<1>. DEFINE p == Cut(m, n, d)
            S == {k \in 1 .. n : \A x \in Range(v[k]) : Settled(x) => x \in Range(w[k])}
<1>1. /\ n \in Nat \ {0} /\ n <= Len(m.bars) /\ Len(m.bars) \in Nat /\ MaxHolding \in Nat
      /\ DatedBars(m) /\ DatedBars(p) /\ Len(p.bars) = n
  <2>1. DatedBars(p) /\ Len(p.bars) = n
    BY CutFacts
  <2>2. DatedBars(m) /\ Len(m.bars) \in Nat /\ MaxHolding \in Nat
    BY BacktestConstants DEF Orderly, DatedBars
  <2>. HIDE DEF p
  <2>. QED  BY <2>1, <2>2 DEF CutAt
<1>2. \A k \in 1 .. n : k \in Places(m) /\ k \in Places(p)
  BY <1>1 DEF Places
<1>3. \A k \in 1 .. n : SignalAt(p, k) = SignalAt(m, k)
  BY CutContext DEF SignalAt
<1>4. Walks(v, p)
  OBVIOUS
<1>. HIDE DEF p
<1>5. ASSUME NEW k \in 1 .. n, \A j \in k + 1 .. n : j \in S  PROVE k \in S
  <2>1. ASSUME NEW x \in Range(v[k]), Settled(x) PROVE x \in Range(w[k])
    <3>1. k \in Nat \ {0} /\ k < n /\ k < Len(m.bars) /\ k < Len(p.bars)
      <4>1. ~(k >= Len(p.bars))
        BY <1>1, <1>2, <1>4, <2>1, WalkCases
      <4>. QED  BY <1>1, <4>1
    <3>2. CASE SignalAt(m, k) = NoSignal
      <4>1. w[k] = w[k + 1] /\ v[k] = v[k + 1]
        <5>1. Waits(w, k)
          BY <1>1, <1>2, <3>1, <3>2, NoTrade
        <5>2. SignalAt(p, k) = NoSignal
          BY <1>3, <3>2
        <5>3. Waits(v, k)
          BY <1>1, <1>2, <1>4, <3>1, <5>2, NoTrade
        <5>. QED  BY <5>1, <5>3 DEF Waits
      <4>2. k + 1 \in k + 1 .. n
        BY <1>1, <3>1
      <4>3. k + 1 \in S
        BY <1>5, <4>2
      <4>. QED  BY <2>1, <4>1, <4>3
    <3>3. CASE SignalAt(m, k) # NoSignal
      <4>. DEFINE a == TradeAt(m, k)
                  b == TradeAt(p, k)
      <4>1. Range(w[k]) = {a} \cup Range(w[k + a.held])
        BY <1>1, <1>2, <3>1, <3>3, WalkCases
      <4>2. Range(v[k]) = {b} \cup Range(v[k + b.held]) /\ k + b.held \in Places(p)
        BY <1>1, <1>2, <1>3, <1>4, <3>1, <3>3, WalkCases
      <4>3. b.held \in 1 .. MaxHolding /\ (Settled(b) \/ k + b.held = n)
        BY <1>1, <3>1, TradeFacts
      <4>4. Settled(b) => b = a
        <5>. HIDE DEF a
        <5>. QED  BY <3>1, SameTrade DEF a, b, p
      <4>. HIDE DEF a, b
      <4>5. CASE x = b
        BY <2>1, <4>1, <4>4, <4>5
      <4>6. CASE x \in Range(v[k + b.held])
        <5>1. k + b.held <= x.at /\ x.at < n /\ x.at \in Nat
          <6>1. Signalled(p, k + b.held, x)
            BY <1>1, <1>4, <4>2, <4>6, WalkTrades
          <6>. QED  BY <1>1, <6>1, SignalledFacts
        <5>2. k + b.held \in k + 1 .. n /\ k + b.held # n
          BY <1>1, <3>1, <4>3, <5>1
        <5>3. k + b.held \in S /\ b = a
          BY <1>1, <1>5, <4>3, <4>4, <5>2
        <5>. QED  BY <2>1, <4>1, <4>6, <5>3
      <4>. QED  BY <4>2, <4>5, <4>6
    <3>. QED  BY <3>2, <3>3
  <2>. QED  BY <2>1
<1>6. 1 .. n \subseteq S
  <2>. HIDE DEF S
  <2>. QED  BY <1>1, <1>5, DownInduction
<1>. QED  BY <1>6

-----------------------------------------------------------------------------
(* The indicators at a bar are those of the bars up to it.                   *)
Replays(f, bars) == f[0] = NewState /\ \A i \in 1 .. Len(bars) : f[i] = Update(f[i - 1], bars[i])

LEMMA ReplayExists ==
  ASSUME NEW X, NEW bars \in Seq(X)
  PROVE  Replays(Replay(bars), bars)
<1>. DEFINE n == Len(bars)
            Right(f, k) == /\ DOMAIN f = 0 .. n /\ f = [i \in DOMAIN f |-> f[i]] /\ f[0] = NewState
                           /\ \A i \in 1 .. k : f[i] = Update(f[i - 1], bars[i])
            S == {k \in 0 .. n : \E f : Right(f, k)}
            g[i \in 0 .. Len(bars)] == IF i = 0 THEN NewState ELSE Update(g[i - 1], bars[i])
<1>1. n \in Nat
  OBVIOUS
<1>2. 0 \in S
  <2>. DEFINE f == [i \in 0 .. n |-> NewState]
  <2>1. Right(f, 0)
    BY <1>1
  <2>. HIDE DEF f, Right
  <2>. QED  BY <1>1, <2>1
<1>3. ASSUME NEW k \in 1 .. n, k - 1 \in S  PROVE k \in S
  <2>1. PICK f : Right(f, k - 1)
    BY <1>3
  <2>. DEFINE new == Update(f[k - 1], bars[k])
              h == [i \in 0 .. n |-> IF i = k THEN new ELSE f[i]]
  <2>2. \A i \in 1 .. k : i \in 0 .. n /\ i - 1 \in 0 .. n /\ i - 1 # k /\ (i = k \/ i \in 1 .. k - 1)
    BY <1>1
  <2>3. DOMAIN h = 0 .. n /\ h = [i \in DOMAIN h |-> h[i]] /\ h[0] = NewState
    <3>. HIDE DEF new
    <3>. QED  BY <1>1, <2>1
  <2>4. h[k] = new /\ h[k - 1] = f[k - 1] /\ \A i \in 1 .. k - 1 : h[i] = f[i] /\ h[i - 1] = f[i - 1]
    <3>. HIDE DEF new, Right
    <3>. QED  BY <1>1, <2>2
  <2>5. \A i \in 1 .. k - 1 : f[i] = Update(f[i - 1], bars[i])
    BY <2>1
  <2>. HIDE DEF h
  <2>6. \A i \in 1 .. k : h[i] = Update(h[i - 1], bars[i])
    <3>1. ASSUME NEW i \in 1 .. k PROVE h[i] = Update(h[i - 1], bars[i])
      <4>1. CASE i = k
        BY <2>4, <4>1
      <4>2. CASE i \in 1 .. k - 1
        <5>1. h[i] = f[i] /\ h[i - 1] = f[i - 1] /\ f[i] = Update(f[i - 1], bars[i])
          BY <2>4, <2>5, <4>2
        <5>. QED  BY <5>1
      <4>. QED  BY <2>2, <4>1, <4>2
    <3>. QED  BY <3>1
  <2>7. Right(h, k)
    BY <2>3, <2>6
  <2>. HIDE DEF Right
  <2>. QED  BY <1>1, <2>7
<1>4. 0 .. n \subseteq S
  <2>. HIDE DEF S, n
  <2>. QED  BY <1>1, <1>2, <1>3, BoundedInduction
<1>5. PICK f : Right(f, n)
  BY <1>1, <1>4
<1>6. f = [i \in 0 .. Len(bars) |-> IF i = 0 THEN NewState ELSE Update(f[i - 1], bars[i])]
  <2>1. \A i \in 0 .. n : f[i] = IF i = 0 THEN NewState ELSE Update(f[i - 1], bars[i])
    <3>1. \A i \in 0 .. n : i = 0 \/ i \in 1 .. n
      BY <1>1
    <3>. QED  BY <1>5, <3>1
  <2>2. f = [i \in 0 .. n |-> f[i]]
    BY <1>5
  <2>. QED  BY <2>1, <2>2
<1>7. g = [i \in 0 .. Len(bars) |-> IF i = 0 THEN NewState ELSE Update(g[i - 1], bars[i])]
  BY <1>6
<1>8. Replay(bars) = g
  BY DEF Replay
<1>. HIDE DEF g
<1>9. \A i \in 0 .. n : g[i] = IF i = 0 THEN NewState ELSE Update(g[i - 1], bars[i])
  BY <1>7
<1>10. \A i \in 1 .. n : i \in 0 .. n /\ i # 0 /\ 0 \in 0 .. n
  BY <1>1
<1>11. g[0] = NewState
  BY <1>1, <1>9
<1>12. \A i \in 1 .. n : g[i] = Update(g[i - 1], bars[i])
  BY <1>9, <1>10
<1>. QED  BY <1>8, <1>11, <1>12 DEF Replays

LEMMA StateNext ==
  ASSUME NEW X, NEW bars \in Seq(X), NEW b \in X
  PROVE  StateAfter(Append(bars, b)) = Update(StateAfter(bars), b)
<1>. DEFINE n == Len(bars)
            more == Append(bars, b)
            f == Replay(bars)
            g == Replay(more)
            S == {k \in 0 .. n : g[k] = f[k]}
<1>1. n \in Nat /\ more \in Seq(X) /\ Len(more) = n + 1 /\ more[n + 1] = b /\ \A i \in 1 .. n : more[i] = bars[i]
  BY AppendFacts
<1>2. Replays(f, bars) /\ Replays(g, more)
  BY <1>1, ReplayExists
<1>. HIDE DEF f, g, more
<1>3. 0 \in S
  BY <1>1, <1>2 DEF Replays
<1>4. ASSUME NEW k \in 1 .. n, k - 1 \in S  PROVE k \in S
  <2>1. k \in 1 .. n + 1 /\ k \in 0 .. n
    BY <1>1
  <2>2. f[k] = Update(f[k - 1], bars[k]) /\ g[k] = Update(g[k - 1], more[k])
    BY <1>1, <1>2, <2>1 DEF Replays
  <2>. QED  BY <1>1, <1>4, <2>1, <2>2
<1>5. 0 .. n \subseteq S
  <2>. HIDE DEF S, n
  <2>. QED  BY <1>1, <1>3, <1>4, BoundedInduction
<1>6. g[n] = f[n]
  BY <1>1, <1>5
<1>7. g[n + 1] = Update(g[n], b)
  <2>. DEFINE k == n + 1
  <2>1. k \in 1 .. Len(more) /\ k - 1 = n
    BY <1>1
  <2>. HIDE DEF k
  <2>2. g[k] = Update(g[k - 1], more[k])
    BY <1>2, <2>1 DEF Replays
  <2>3. more[k] = b
    BY <1>1 DEF k
  <2>4. g[k] = Update(g[n], b)
    BY <2>1, <2>2, <2>3
  <2>. QED  BY <2>4 DEF k
<1>. QED  BY <1>1, <1>6, <1>7 DEF StateAfter, f, g, more

LEMMA NoBars == StateAfter(<<>>) = NewState
<1>. DEFINE none == <<>>
<1>1. none \in Seq(Bar) /\ Len(none) = 0
  OBVIOUS
<1>. HIDE DEF none
<1>2. Replays(Replay(none), none)
  BY <1>1, ReplayExists
<1>3. StateAfter(none) = NewState
  BY <1>1, <1>2 DEF StateAfter, Replays
<1>. QED  BY <1>3 DEF none

-----------------------------------------------------------------------------
(* The candle store: the indicators at every bar are those of the bars up to  *)
(* it, and no two bars are of one day.                                       *)
Bundles == {Bundle(StateAfter(b)) : b \in Seq(Bar)}
Histories ==
    {m \in [bars : Seq(Bar), bundles : Seq(Bundles), bench : Seq(Bar), trends : Seq({"none", "long", "short"})] :
        Orderly(m)}
OnDays(bars, d) ==
    /\ \A i \in 1 .. Len(bars) : bars[i].day \in i - 1 .. d - 1
    /\ \A i, j \in 1 .. Len(bars) : i < j => bars[i].day < bars[j].day
BacktestInv ==
    /\ market \in Histories /\ today \in Nat /\ Len(market.bench) = today
    /\ rolling.stock = StateAfter(market.bars) /\ OnDays(market.bars, today)

LEMMA ToldNext ==
  ASSUME NEW bars \in Seq(Bar), NEW b \in Bar
  PROVE  /\ Told(bars) \in Seq(Bundles) /\ Len(Told(bars)) = Len(bars)
         /\ Told(Append(bars, b)) = Append(Told(bars), Bundle(StateAfter(Append(bars, b))))
<1>. DEFINE n == Len(bars)
            more == Append(bars, b)
            s == Told(bars)
            f == Told(more)
            x == Bundle(StateAfter(more))
<1>1. n \in Nat /\ more \in Seq(Bar) /\ Len(more) = n + 1 /\ \A i \in 1 .. n : more[i] = bars[i]
  BY AppendFacts
<1>. HIDE DEF more, n
<1>2. s \in [1 .. n -> Bundles]
  <2>1. \A i \in 1 .. n : SubSeq(bars, 1, i) \in Seq(Bar)
    BY <1>1, FirstFacts DEF n
  <2>2. s = [i \in 1 .. n |-> Bundle(StateAfter(SubSeq(bars, 1, i)))]
    BY DEF Told, n
  <2>. QED  BY <2>1, <2>2 DEF Bundles
<1>3. s \in Seq(Bundles) /\ Len(s) = n
  <2>. HIDE DEF s
  <2>. QED  BY <1>1, <1>2, SeriesIsSeq
<1>4. x \in Bundles
  BY <1>1 DEF Bundles
<1>5. f = [i \in 1 .. n + 1 |-> Bundle(StateAfter(SubSeq(more, 1, i)))]
  BY <1>1 DEF Told
<1>6. SubSeq(more, 1, n + 1) = more
  BY <1>1
<1>7. f[n + 1] = x
  <2>1. n + 1 \in 1 .. n + 1
    BY <1>1
  <2>2. f[n + 1] = Bundle(StateAfter(SubSeq(more, 1, n + 1)))
    BY <1>5, <2>1
  <2>. QED  BY <1>6, <2>2
<1>8. ASSUME NEW i \in 1 .. n PROVE f[i] = s[i]
  <2>1. i \in 1 .. n + 1 /\ i \in Nat /\ i - 1 + 1 = i /\ \A j \in 1 .. i : j + 1 - 1 = j /\ more[j] = bars[j]
    BY <1>1
  <2>2. SubSeq(more, 1, i) = [j \in 1 .. i |-> more[j]] /\ SubSeq(bars, 1, i) = [j \in 1 .. i |-> bars[j]]
    BY <1>1, <2>1
  <2>3. SubSeq(more, 1, i) = SubSeq(bars, 1, i)
    BY <2>1, <2>2
  <2>4. f[i] = Bundle(StateAfter(SubSeq(more, 1, i))) /\ s[i] = Bundle(StateAfter(SubSeq(bars, 1, i)))
    BY <1>5, <2>1 DEF Told, n
  <2>. QED  BY <2>3, <2>4
<1>9. DOMAIN f = 1 .. n + 1 /\ f = [i \in DOMAIN f |-> f[i]]
  BY <1>5
<1>. HIDE DEF f, s, x
<1>10. Longer(s, f, Len(s))
  BY <1>3, <1>8 DEF Longer
<1>11. f = Append(s, x)
  BY <1>3, <1>4, <1>7, <1>9, <1>10, AppendIs
<1>. QED  BY <1>3, <1>11 DEF f, s, x, more, n

LEMMA StampType ==
  ASSUME today \in Nat, NEW day \in DayShapes
  PROVE  Stamp(day[2]) \in Bar /\ (day[1] # Never => Stamp(day[1]) \in Bar)
<1>. DEFINE shapes == [h : Int, l : Int, c : Int, v : Int]
<1>1. ASSUME NEW s \in shapes PROVE Stamp(s) \in Bar
  BY DEF Stamp, Bar, NormalOpen
<1>2. day[2] \in shapes /\ (day[1] # Never => day[1] \in shapes)
  BY DaysAreBars
<1>. HIDE DEF shapes
<1>. QED  BY <1>1, <1>2

LEMMA BacktestStart == BacktestInit => BacktestInv
<1>. SUFFICES ASSUME BacktestInit PROVE BacktestInv
  OBVIOUS
<1>. DEFINE none == <<>>
<1>1. market = [bars |-> none, bundles |-> none, bench |-> none, trends |-> none] /\ today = 0
      /\ rolling.stock = NewState
  BY DEF BacktestInit
<1>2. \A X : none \in Seq(X)
  OBVIOUS
<1>3. Len(none) = 0 /\ (1 .. 0) = {}
  OBVIOUS
<1>4. Told(none) = none
  BY <1>3 DEF Told
<1>5. rolling.stock = StateAfter(none)
  BY <1>1, NoBars
<1>. HIDE DEF none
<1>6. Orderly(market)
  BY <1>1, <1>2, <1>3, <1>4 DEF Orderly, DatedBars
<1>7. market \in Histories
  BY <1>1, <1>2, <1>6 DEF Histories
<1>8. OnDays(none, 0)
  BY <1>3 DEF OnDays
<1>. QED  BY <1>1, <1>3, <1>5, <1>7, <1>8 DEF BacktestInv

LEMMA BacktestStep == BacktestInv /\ [NextDay]_backtestVars => BacktestInv'
<1>. SUFFICES ASSUME BacktestInv, [NextDay]_backtestVars PROVE BacktestInv'
  OBVIOUS
<1>1. CASE UNCHANGED backtestVars
  BY <1>1 DEF BacktestInv, backtestVars
<1>2. CASE NextDay
  <2>. DEFINE bars == market.bars
              trend == {"none", "long", "short"}
  <2>1. PICK day \in DayShapes :
          LET traded == day[1] # Never
              stock == IF traded THEN Update(rolling.stock, Stamp(day[1])) ELSE rolling.stock
              index == Update(rolling.index, Stamp(day[2]))
          IN  /\ rolling' = [stock |-> stock, index |-> index]
              /\ market' = [bars |-> IF traded THEN Append(market.bars, Stamp(day[1])) ELSE market.bars,
                            bundles |-> IF traded THEN Append(market.bundles, Bundle(stock)) ELSE market.bundles,
                            bench |-> Append(market.bench, Stamp(day[2])),
                            trends |-> Append(market.trends, IndexTrend(index))]
    BY <1>2 DEF NextDay
  <2>2. today \in Nat /\ today' = today + 1 /\ today + 1 \in Nat
    BY <1>2 DEF NextDay, BacktestInv
  <2>3. /\ bars \in Seq(Bar) /\ market.bundles = Told(bars) /\ market.bundles \in Seq(Bundles)
        /\ market.bench \in Seq(Bar) /\ market.trends \in Seq(trend) /\ Len(market.bench) = today
        /\ Len(market.trends) = today /\ Len(bars) <= today /\ rolling.stock = StateAfter(bars)
        /\ OnDays(bars, today)
    BY DEF BacktestInv, Histories, Orderly, DatedBars
  <2>. DEFINE index == Update(rolling.index, Stamp(day[2]))
              bench == Append(market.bench, Stamp(day[2]))
              trends == Append(market.trends, IndexTrend(index))
  <2>4. bench \in Seq(Bar) /\ Len(bench) = today + 1 /\ trends \in Seq(trend) /\ Len(trends) = today + 1
    <3>1. IndexTrend(index) \in trend
      BY DEF IndexTrend
    <3>2. Stamp(day[2]) \in Bar
      BY <2>2, StampType
    <3>. HIDE DEF index, trend
    <3>3. bench \in Seq(Bar) /\ Len(bench) = Len(market.bench) + 1
      BY <2>3, <3>2, AppendFacts
    <3>4. trends \in Seq(trend) /\ Len(trends) = Len(market.trends) + 1
      BY <2>3, <3>1, AppendFacts
    <3>. QED  BY <2>3, <3>3, <3>4
  <2>5. CASE day[1] = Never
    <3>1. market' = [bars |-> bars, bundles |-> market.bundles, bench |-> bench, trends |-> trends]
          /\ rolling'.stock = rolling.stock
      BY <2>1, <2>5
    <3>. HIDE DEF bars, bench, trends, index, trend
    <3>2. Orderly(market')
      BY <2>2, <2>3, <2>4, <3>1 DEF Orderly, DatedBars, trend
    <3>3. market' \in Histories
      BY <2>3, <2>4, <3>1, <3>2 DEF Histories, trend
    <3>4. OnDays(bars, today + 1)
      <4>1. \A i \in 1 .. Len(bars) : bars[i].day \in i - 1 .. today
        BY <2>2, <2>3 DEF OnDays
      <4>. QED  BY <2>2, <2>3, <4>1 DEF OnDays
    <3>. QED  BY <2>2, <2>3, <2>4, <3>1, <3>3, <3>4 DEF BacktestInv
  <2>6. CASE day[1] # Never
    <3>. DEFINE b == Stamp(day[1])
                stock == Update(rolling.stock, b)
                more == Append(bars, b)
                told == Append(market.bundles, Bundle(stock))
    <3>1. market' = [bars |-> more, bundles |-> told, bench |-> bench, trends |-> trends] /\ rolling'.stock = stock
      BY <2>1, <2>6
    <3>2. b \in Bar /\ b.day = today
      <4>1. b.day = today
        BY DEF Stamp
      <4>. QED  BY <2>2, <2>6, <4>1, StampType
    <3>. HIDE DEF b, bars, bench, trends, index, trend
    <3>3. more \in Seq(Bar) /\ Len(more) = Len(bars) + 1 /\ more[Len(bars) + 1] = b
          /\ \A i \in 1 .. Len(bars) : more[i] = bars[i]
      BY <2>3, <3>2, AppendFacts
    <3>4. stock = StateAfter(more)
      BY <2>3, <3>2, StateNext
    <3>5. told = Told(more)
      BY <2>3, <3>2, <3>4, ToldNext
    <3>6. told \in Seq(Bundles)
      <4>1. Bundle(stock) \in Bundles
        BY <3>3, <3>4 DEF Bundles
      <4>. HIDE DEF stock
      <4>. QED  BY <2>3, <4>1
    <3>7. OnDays(more, today + 1)
      <4>. DEFINE n == Len(bars)
      <4>1. n \in Nat /\ n <= today /\ Len(more) = n + 1
        BY <2>3, <3>3
      <4>2. /\ \A i \in 1 .. n : bars[i].day \in i - 1 .. today - 1
            /\ \A i, j \in 1 .. n : i < j => bars[i].day < bars[j].day
        BY <2>3 DEF OnDays
      <4>3. more[n + 1].day = today /\ \A i \in 1 .. n : more[i].day = bars[i].day
        BY <3>2, <3>3
      <4>. HIDE DEF n, more
      <4>4. \A i \in 1 .. n + 1 : i = n + 1 \/ i \in 1 .. n
        BY <4>1
      <4>5. ASSUME NEW i \in 1 .. n + 1 PROVE more[i].day \in i - 1 .. (today + 1) - 1
        <5>1. CASE i = n + 1
          BY <2>2, <4>1, <4>3, <5>1
        <5>2. CASE i \in 1 .. n
          BY <2>2, <4>1, <4>2, <4>3, <5>2
        <5>. QED  BY <4>4, <5>1, <5>2
      <4>6. ASSUME NEW i \in 1 .. n + 1, NEW j \in 1 .. n + 1, i < j PROVE more[i].day < more[j].day
        <5>1. i \in 1 .. n
          BY <4>1, <4>6
        <5>2. more[i].day = bars[i].day /\ bars[i].day \in i - 1 .. today - 1
          BY <4>2, <4>3, <5>1
        <5>3. CASE j = n + 1
          BY <2>2, <4>1, <4>3, <5>2, <5>3
        <5>4. CASE j \in 1 .. n
          BY <4>2, <4>3, <4>6, <5>1, <5>4
        <5>. QED  BY <4>4, <5>3, <5>4
      <4>. QED  BY <4>1, <4>5, <4>6 DEF OnDays
    <3>. HIDE DEF more, told, stock
    <3>8. Orderly(market')
      BY <2>2, <2>3, <2>4, <3>1, <3>3, <3>5 DEF Orderly, DatedBars, trend
    <3>9. market' \in Histories
      BY <2>4, <3>1, <3>3, <3>6, <3>8 DEF Histories, trend
    <3>. QED  BY <2>2, <2>4, <3>1, <3>4, <3>7, <3>9 DEF BacktestInv
  <2>. QED  BY <2>5, <2>6
<1>. QED  BY <1>1, <1>2

LEMMA BacktestInvariant == BacktestSpec => []BacktestInv
  BY BacktestStart, BacktestStep, PTL DEF BacktestSpec

-----------------------------------------------------------------------------
(* What was known on an evening is the market cut after its last bar.        *)
LEMMA UntilFacts ==
  ASSUME BacktestInv, NEW d \in 0 .. today - 1
  PROVE  \E n \in 0 .. Len(market.bars) :
            /\ Until(d) = Cut(market, n, d) /\ n <= d + 1 /\ (n # 0 => CutAt(market, n, d))
            /\ \A i \in 1 .. Len(market.bars) : market.bars[i].day <= d <=> i <= n
<1>. DEFINE bars == market.bars
            l == Len(bars)
            S == {i \in DOMAIN bars : bars[i].day <= d}
<1>1. /\ bars \in Seq(Bar) /\ l \in Nat /\ DOMAIN bars = 1 .. l /\ Len(market.bench) = today
      /\ today \in Nat /\ d \in Nat /\ OnDays(bars, today)
  BY DEF BacktestInv, Histories, Orderly, DatedBars
<1>2. /\ \A i \in 1 .. l : bars[i].day \in Int /\ i - 1 <= bars[i].day
      /\ \A i, j \in 1 .. l : i < j => bars[i].day < bars[j].day
  <2>1. \A i \in 1 .. l : bars[i].day \in i - 1 .. today - 1
    BY <1>1 DEF OnDays
  <2>2. \A i, j \in 1 .. l : i < j => bars[i].day < bars[j].day
    BY <1>1 DEF OnDays
  <2>. HIDE DEF bars, l
  <2>3. \A i \in 1 .. l : bars[i].day \in Int /\ i - 1 <= bars[i].day
    BY <1>1, <2>1
  <2>. QED  BY <2>2, <2>3
<1>. HIDE DEF bars, l
<1>3. PICK n \in 0 .. l : \A i \in 1 .. l : i \in S <=> i <= n
  <2>1. CASE S = {}
    <3>1. 0 \in 0 .. l /\ \A i \in 1 .. l : ~(i <= 0)
      BY <1>1
    <3>. QED  BY <2>1, <3>1
  <2>2. CASE S # {}
    <3>1. S \subseteq 1 .. l
      BY <1>1
    <3>2. Max(S) \in S /\ \A x \in S : Max(S) >= x
      <4>. HIDE DEF S
      <4>1. S \in SUBSET Int /\ l \in Int /\ \A x \in S : x <= l
        BY <1>1, <3>1
      <4>. QED  BY <2>2, <4>1, MaxAttained
    <3>. DEFINE n == Max(S)
    <3>. HIDE DEF n
    <3>3. n \in S /\ n \in 1 .. l /\ \A x \in S : n >= x
      BY <3>1, <3>2 DEF n
    <3>4. ASSUME NEW i \in 1 .. l, i <= n PROVE i \in S
      <4>1. bars[n].day <= d
        BY <3>3
      <4>2. i = n \/ bars[i].day < bars[n].day
        BY <1>2, <3>3, <3>4
      <4>3. bars[i].day <= d
        BY <1>1, <1>2, <3>3, <4>1, <4>2
      <4>. QED  BY <1>1, <4>3
    <3>5. \A i \in 1 .. l : i \in S <=> i <= n
      <4>. HIDE DEF S
      <4>. QED  BY <1>1, <3>3, <3>4
    <3>6. n \in 0 .. l
      BY <3>3
    <3>. QED  BY <3>5, <3>6
  <2>. QED  BY <2>1, <2>2
<1>4. S = 1 .. n
  <2>1. S \subseteq 1 .. l
    BY <1>1
  <2>2. \A i \in 1 .. n : i \in 1 .. l /\ i <= n
    BY <1>1
  <2>3. \A i \in 1 .. l : i <= n => i \in 1 .. n
    BY <1>1
  <2>. HIDE DEF S
  <2>. QED  BY <1>3, <2>1, <2>2, <2>3
<1>5. Cardinality(S) = n
  <2>. HIDE DEF S
  <2>1. Cardinality(1 .. n) = IF 1 > n THEN 0 ELSE n - 1 + 1
    BY FS_Interval
  <2>. QED  BY <1>4, <2>1
<1>6. n <= d + 1
  <2>1. CASE n = 0
    BY <1>1, <2>1
  <2>2. CASE n # 0
    <3>1. n \in 1 .. l /\ n \in S
      BY <1>3, <2>2
    <3>. QED  BY <1>1, <1>2, <3>1
  <2>. QED  BY <2>1, <2>2
<1>7. Until(d) = Cut(market, n, d)
  BY <1>5 DEF Until, Cut, bars
<1>8. n # 0 => CutAt(market, n, d)
  BY <1>1, <1>6 DEF CutAt, l, bars
<1>9. \A i \in 1 .. l : bars[i].day <= d <=> i <= n
  BY <1>1, <1>3
<1>. QED  BY <1>6, <1>7, <1>8, <1>9 DEF l, bars

LEMMA UntilBar ==
  ASSUME BacktestInv, NEW i \in 1 .. Len(market.bars)
  PROVE  Until(DayOf(i)) = Cut(market, i, DayOf(i)) /\ CutAt(market, i, DayOf(i))
<1>. DEFINE d == DayOf(i)
            l == Len(market.bars)
<1>1. /\ today \in Nat /\ l \in Nat /\ market.bars[i].day = d /\ d \in 0 .. today - 1 /\ i \in 1 .. l
      /\ \A j, k \in 1 .. l : j < k => market.bars[j].day < market.bars[k].day
      /\ \A j \in 1 .. l : market.bars[j].day \in Int
  <2>1. market.bars \in Seq(Bar) /\ today \in Nat /\ OnDays(market.bars, today)
    BY DEF BacktestInv, Histories, Orderly, DatedBars
  <2>2. d = market.bars[i].day
    BY DEF DayOf
  <2>3. \A j \in 1 .. l : market.bars[j].day \in j - 1 .. today - 1
    BY <2>1 DEF OnDays
  <2>4. d \in 0 .. today - 1
    <3>1. d \in i - 1 .. today - 1 /\ i \in 1 .. l /\ l \in Nat
      BY <2>1, <2>2, <2>3
    <3>. HIDE DEF d, l
    <3>. QED  BY <2>1, <3>1
  <2>5. \A j \in 1 .. l : market.bars[j].day \in Int
    BY <2>1, <2>3
  <2>6. \A j, k \in 1 .. l : j < k => market.bars[j].day < market.bars[k].day
    BY <2>1 DEF OnDays
  <2>7. l \in Nat /\ i \in 1 .. l
    BY <2>1
  <2>. HIDE DEF d, l
  <2>. QED  BY <2>1, <2>2, <2>4, <2>5, <2>6, <2>7
<1>. HIDE DEF d
<1>2. PICK n \in 0 .. Len(market.bars) :
            /\ Until(d) = Cut(market, n, d) /\ n <= d + 1 /\ (n # 0 => CutAt(market, n, d))
            /\ \A j \in 1 .. Len(market.bars) : market.bars[j].day <= d <=> j <= n
  <2>1. d \in 0 .. today - 1
    BY <1>1
  <2>. HIDE DEF l
  <2>. QED  BY <2>1, UntilFacts
<1>3. n \in 0 .. l /\ \A j \in 1 .. l : market.bars[j].day <= d <=> j <= n
  BY <1>2
<1>. HIDE DEF l
<1>4. i <= n
  BY <1>1, <1>3
<1>5. ~(i < n)
  <2>1. ASSUME i < n PROVE FALSE
    <3>1. n \in 1 .. l /\ n <= n
      BY <1>1, <1>3, <2>1
    <3>2. market.bars[n].day <= d /\ market.bars[i].day < market.bars[n].day
      BY <1>1, <1>3, <2>1, <3>1
    <3>. QED  BY <1>1, <3>1, <3>2
  <2>. QED  BY <2>1
<1>6. n = i /\ n # 0
  BY <1>1, <1>3, <1>4, <1>5
<1>. QED  BY <1>2, <1>6 DEF d

(* Today's trades are those of a walk, from WindowCap + 1 on.                *)
LEMMA TradesOfWalk ==
  ASSUME NEW m, DatedBars(m)
  PROVE  \E w : /\ Walks(w, m)
                /\ \A t \in Range(Walk(m)) : WindowCap + 1 < Len(m.bars) /\ t \in Range(w[WindowCap + 1])
                /\ WindowCap + 1 < Len(m.bars) => Walk(m) = w[WindowCap + 1]
<1>1. PICK w : Walks(w, m) /\ Walk(m) = IF Len(m.bars) <= WindowCap + 1 THEN <<>> ELSE w[WindowCap + 1]
  BY WalkFacts
<1>2. WindowCap \in Nat /\ Len(m.bars) \in Nat
  BY BacktestConstants DEF WindowCap, Larger, DatedBars
<1>3. Range(<<>>) = {}
  BY DEF Range
<1>4. (Len(m.bars) <= WindowCap + 1) \/ WindowCap + 1 < Len(m.bars)
  BY <1>2
<1>5. ~(WindowCap + 1 < Len(m.bars) /\ Len(m.bars) <= WindowCap + 1)
  BY <1>2
<1>. QED  BY <1>1, <1>3, <1>4, <1>5

LEMMA StartPlace ==
  ASSUME NEW m, DatedBars(m), WindowCap + 1 < Len(m.bars)
  PROVE  WindowCap + 1 \in Places(m) /\ WindowCap \in Nat
  BY BacktestConstants DEF WindowCap, Larger, DatedBars, Places

LEMMA Causal == BacktestInv => NoLookAhead
<1>. SUFFICES ASSUME BacktestInv, NEW t \in Trades
              PROVE  /\ Evaluate(Context(Until(DayOf(t.at)), t.at)) = t.signal
                     /\ t \in Range(Walk(Until(DayOf(t.at + t.held))))
  BY DEF NoLookAhead
<1>. DEFINE start == WindowCap + 1
            l == Len(market.bars)
            k == t.at + t.held
            p == Cut(market, k, DayOf(k))
<1>1. Orderly(market) /\ DatedBars(market) /\ l \in Nat
  BY DEF BacktestInv, Histories, Orderly, DatedBars
<1>2. PICK w : /\ Walks(w, market)
               /\ \A x \in Range(Walk(market)) : start < l /\ x \in Range(w[start])
  BY <1>1, TradesOfWalk
<1>3. start < l /\ t \in Range(w[start])
  BY <1>2 DEF Trades
<1>4. start \in Places(market) /\ WindowCap \in Nat
  BY <1>1, <1>3, StartPlace
<1>. HIDE DEF start
<1>5. Signalled(market, start, t)
  BY <1>1, <1>2, <1>3, <1>4, WalkTrades
<1>6. /\ t.at \in Nat \ {0} /\ start <= t.at /\ t.at < l /\ k \in t.at + 1 .. l
      /\ SignalAt(market, t.at) = t.signal
  BY <1>1, <1>5, SignalledFacts
<1>7. Evaluate(Context(Until(DayOf(t.at)), t.at)) = t.signal
  <2>. DEFINE i == t.at
  <2>1. i \in 1 .. l /\ i \in 1 .. i
    BY <1>1, <1>6
  <2>. HIDE DEF i
  <2>2. Until(DayOf(i)) = Cut(market, i, DayOf(i)) /\ CutAt(market, i, DayOf(i))
    BY <2>1, UntilBar
  <2>3. Context(Cut(market, i, DayOf(i)), i) = Context(market, i)
    BY <1>1, <2>1, <2>2, CutContext
  <2>. QED  BY <1>6, <2>2, <2>3 DEF SignalAt, i
<1>8. k \in 1 .. l /\ k <= k
  BY <1>1, <1>6
<1>. HIDE DEF k
<1>9. Until(DayOf(k)) = p /\ CutAt(market, k, DayOf(k))
  BY <1>8, UntilBar
<1>10. DatedBars(p) /\ Len(p.bars) = k
  BY <1>1, <1>9, CutFacts
<1>. HIDE DEF l
<1>11. WindowCap + 1 < Len(p.bars) /\ start \in 1 .. k
  BY <1>1, <1>4, <1>6, <1>8, <1>10 DEF start
<1>12. PICK v : Walks(v, p) /\ Walk(p) = v[start]
  BY <1>10, <1>11, TradesOfWalk DEF start
<1>13. t \in Range(v[start])
  <2>1. t.at + t.held <= k
    BY <1>8 DEF k
  <2>. QED  BY <1>1, <1>2, <1>3, <1>9, <1>11, <1>12, <2>1, WalkKnown
<1>. QED  BY <1>7, <1>9, <1>12, <1>13 DEF k

LEMMA OnePosition == BacktestInv => OneAtATime
<1>. SUFFICES ASSUME BacktestInv, NEW t \in Trades, NEW u \in Trades PROVE Apart(t, u)
  BY DEF OneAtATime, Apart
<1>1. DatedBars(market)
  BY DEF BacktestInv, Histories, Orderly
<1>2. PICK w : /\ Walks(w, market)
               /\ \A x \in Range(Walk(market)) :
                     WindowCap + 1 < Len(market.bars) /\ x \in Range(w[WindowCap + 1])
  BY <1>1, TradesOfWalk
<1>. DEFINE start == WindowCap + 1
<1>3. WindowCap + 1 < Len(market.bars) /\ t \in Range(w[start]) /\ u \in Range(w[start])
  BY <1>2 DEF Trades
<1>4. start \in Places(market)
  BY <1>1, <1>3, StartPlace
<1>. HIDE DEF start
<1>. QED  BY <1>1, <1>2, <1>3, <1>4, OneByOne

LEMMA PastStands == BacktestInv => PastIsFixed
<1>. SUFFICES ASSUME BacktestInv, NEW d \in 0 .. today - 1, NEW t \in Range(Walk(Until(d))), Settled(t)
              PROVE  t \in Trades
  BY DEF PastIsFixed
<1>. DEFINE start == WindowCap + 1
            l == Len(market.bars)
<1>1. Orderly(market) /\ DatedBars(market) /\ l \in Nat
  BY DEF BacktestInv, Histories, Orderly, DatedBars
<1>2. PICK n \in 0 .. l : Until(d) = Cut(market, n, d) /\ (n # 0 => CutAt(market, n, d))
  BY UntilFacts
<1>. DEFINE p == Cut(market, n, d)
<1>3. n # 0
  <2>1. ASSUME n = 0 PROVE FALSE
    <3>1. p.bars = SubSeq(market.bars, 1, 0)
      BY <2>1 DEF Cut
    <3>2. p.bars \in Seq(Bar)
      <4>1. market.bars \in Seq(Bar) /\ 0 \in 0 .. Len(market.bars)
        BY <1>1 DEF DatedBars
      <4>. HIDE DEF p
      <4>. QED  BY <3>1, <4>1
    <3>3. Len(p.bars) = 0
      <4>1. market.bars \in Seq(Bar)
        BY <1>1 DEF DatedBars
      <4>. HIDE DEF p
      <4>. QED  BY <3>1, <4>1
    <3>. HIDE DEF p
    <3>4. PICK v : \A x \in Range(Walk(p)) : WindowCap + 1 < Len(p.bars)
      BY <3>2, TradesOfWalk DEF DatedBars
    <3>5. WindowCap + 1 < 0 /\ WindowCap \in Nat
      <4>1. WindowCap \in Nat
        BY BacktestConstants DEF WindowCap, Larger
      <4>. QED  BY <1>2, <3>3, <3>4, <4>1 DEF p
    <3>. QED  BY <3>5
  <2>. QED  BY <2>1
<1>4. CutAt(market, n, d)
  BY <1>2, <1>3
<1>5. DatedBars(p) /\ Len(p.bars) = n
  BY <1>1, <1>4, CutFacts
<1>6. PICK v : Walks(v, p) /\ \A x \in Range(Walk(p)) : start < Len(p.bars) /\ x \in Range(v[start])
  <2>. HIDE DEF p
  <2>. QED  BY <1>5, TradesOfWalk
<1>7. start < n /\ t \in Range(v[start])
  BY <1>2, <1>5, <1>6
<1>8. WindowCap \in Nat
  BY BacktestConstants DEF WindowCap, Larger
<1>9. start < l /\ start \in 1 .. n
  BY <1>1, <1>2, <1>7, <1>8
<1>10. PICK w : Walks(w, market) /\ Walk(market) = w[start]
  BY <1>1, <1>9, TradesOfWalk
<1>. HIDE DEF start
<1>11. t \in Range(w[start])
  BY <1>1, <1>4, <1>6, <1>7, <1>9, <1>10, WalkFixed
<1>. QED  BY <1>10, <1>11 DEF Trades

-----------------------------------------------------------------------------
LEMMA PartFacts ==
  ASSUME NEW X, NEW s \in Seq(X), NEW k \in Nat \ {0}, NEW i \in 1 .. Len(s), k <= i
  PROVE  /\ SubSeq(s, k, i) \in Seq(X) /\ Len(SubSeq(s, k, i)) = i - k + 1
         /\ \A j \in 1 .. i - k + 1 : SubSeq(s, k, i)[j] = s[j + k - 1]
<1>. DEFINE l == i - k + 1
<1>1. l \in Nat /\ \A j \in 1 .. l : j + k - 1 \in 1 .. Len(s)
  OBVIOUS
<1>2. SubSeq(s, k, i) = [j \in 1 .. l |-> s[j + k - 1]]
  OBVIOUS
<1>3. [j \in 1 .. l |-> s[j + k - 1]] \in [1 .. l -> X]
  BY <1>1
<1>4. \A j \in 1 .. l : SubSeq(s, k, i)[j] = s[j + k - 1]
  BY <1>2
<1>. HIDE DEF l
<1>5. SubSeq(s, k, i) \in Seq(X) /\ Len(SubSeq(s, k, i)) = l
  BY <1>1, <1>2, <1>3, SeriesIsSeq
<1>. QED  BY <1>4, <1>5 DEF l

(* The backtest's strength of a bar, and the scanner's on its evening.       *)
LEMMA SameStrength ==
  ASSUME NEW bars \in Seq(Bar), NEW bench \in Seq(Bar), NEW i \in 1 .. Len(bars), i <= Len(bench),
         Lookback < WindowCap, WindowCap < i
  PROVE  RelativeStrength(SubSeq(bars, Larger(1, i - WindowCap + 1), i), bench, i)
           = LiveStrength([bars |-> SubSeq(bars, 1, i), bundles |-> <<>>, bench |-> SubSeq(bench, 1, i), trends |-> <<>>])
<1>. DEFINE k == i - WindowCap + 1
            window == SubSeq(bars, k, i)
            past == SubSeq(bars, 1, i)
            base == SubSeq(bench, 1, i)
<1>1. Lookback \in Nat \ {0} /\ WindowCap \in Nat /\ i \in Nat
  BY BacktestConstants DEF WindowCap, Larger
<1>2. k \in Nat \ {0} /\ k <= i /\ Larger(1, k) = k /\ i - k + 1 = WindowCap
  BY <1>1 DEF Larger
<1>. DEFINE a == WindowCap - Lookback
            b == i - Lookback
<1>3. a \in 1 .. WindowCap /\ a + k - 1 = b /\ b \in 1 .. i /\ WindowCap + k - 1 = i /\ WindowCap \in 1 .. WindowCap
  BY <1>1
<1>. HIDE DEF k, a, b
<1>4. /\ window \in Seq(Bar) /\ Len(window) = WindowCap
      /\ \A j \in 1 .. WindowCap : window[j] = bars[j + k - 1]
  BY <1>2, PartFacts
<1>5. window[a] = bars[b] /\ window[WindowCap] = bars[i]
  BY <1>3, <1>4
<1>6. past \in Seq(Bar) /\ Len(past) = i /\ past[b] = bars[b] /\ past[i] = bars[i]
  <2>1. i \in 0 .. Len(bars) /\ b \in 1 .. i /\ i \in 1 .. i
    BY <1>3
  <2>. QED  BY <2>1, FirstFacts
<1>7. base \in Seq(Bar) /\ Len(base) = i /\ base[b] = bench[b] /\ base[i] = bench[i]
  <2>1. i \in 0 .. Len(bench) /\ b \in 1 .. i /\ i \in 1 .. i
    BY <1>3
  <2>. QED  BY <2>1, FirstFacts
<1>. HIDE DEF window, past, base
<1>8. RelativeStrength(window, bench, i) = Return(bars[b].c, bars[i].c) - Return(bench[b].c, bench[i].c)
  <2>1. ~(i <= Lookback \/ WindowCap <= Lookback)
    BY <1>1
  <2>2. Last(window) = bars[i]
    BY <1>4, <1>5 DEF Last
  <2>. QED  BY <1>4, <1>5, <2>1, <2>2 DEF RelativeStrength, StrengthAt, a, b
<1>9. LiveStrength([bars |-> past, bundles |-> <<>>, bench |-> base, trends |-> <<>>])
        = Return(bars[b].c, bars[i].c) - Return(bench[b].c, bench[i].c)
  <2>1. ~(i < Lookback + 1)
    BY <1>1
  <2>2. Last(past) = bars[i] /\ Last(base) = bench[i]
    BY <1>6, <1>7 DEF Last
  <2>. QED  BY <1>6, <1>7, <2>1, <2>2 DEF LiveStrength, b
<1>. QED  BY <1>2, <1>8, <1>9 DEF window, past, base, k

LEMMA ShownAlike == BacktestInv => LiveParity
<1>. DEFINE bars == market.bars
            l == Len(bars)
<1>. SUFFICES ASSUME BacktestInv, \A j \in DOMAIN bars : DayOf(j) = j - 1,
                     NEW i \in WindowCap + 1 .. Min({l, LiveHistory})
              PROVE  LET c == Context(market, i)
                     IN  [bundle |-> c.bundle, rs |-> c.rs, prevClose |-> c.prevClose] = LiveContext(Until(i - 1))
  BY DEF LiveParity
<1>1. /\ Orderly(market) /\ bars \in Seq(Bar) /\ market.bench \in Seq(Bar) /\ l \in Nat /\ DOMAIN bars = 1 .. l
      /\ l <= Len(market.bench) /\ market.bundles = Told(bars)
  BY DEF BacktestInv, Histories, Orderly, DatedBars
<1>2. WindowCap \in Nat /\ LiveHistory \in Nat /\ Lookback \in Nat \ {0} /\ Lookback < WindowCap
  BY BacktestConstants DEF WindowCap, Larger
<1>. DEFINE e == Min({l, LiveHistory})
<1>3. e \in Nat /\ e <= l /\ e <= LiveHistory
  <2>1. {l, LiveHistory} \in SUBSET Nat /\ {l, LiveHistory} # {}
    BY <1>1, <1>2
  <2>. HIDE DEF l
  <2>. QED  BY <2>1, MinAttained
<1>. HIDE DEF e
<1>4. i \in WindowCap + 1 .. e
  BY DEF e
<1>5. i \in 1 .. l /\ i \in Nat /\ i <= LiveHistory /\ WindowCap < i /\ i >= 2 /\ i <= Len(market.bench)
  <2>. HIDE DEF l
  <2>. QED  BY <1>1, <1>2, <1>3, <1>4
<1>6. DayOf(i) = i - 1
  BY <1>1, <1>5
<1>. DEFINE d == i - 1
            p == Cut(market, i, d)
            past == SubSeq(bars, 1, i)
            base == SubSeq(market.bench, 1, i)
<1>7. Until(d) = p /\ CutAt(market, i, d)
  <2>1. Until(DayOf(i)) = Cut(market, i, DayOf(i)) /\ CutAt(market, i, DayOf(i))
    BY <1>5, UntilBar
  <2>. QED  BY <1>6, <2>1
<1>8. p.bars = past /\ p.bench = base
  <2>1. d + 1 = i
    BY <1>5
  <2>. QED  BY <2>1 DEF Cut
<1>9. past \in Seq(Bar) /\ Len(past) = i /\ \A j \in 1 .. i : past[j] = bars[j]
  <2>1. i \in 0 .. Len(bars)
    BY <1>5
  <2>. QED  BY <1>1, <2>1, FirstFacts
<1>. HIDE DEF p, d, past, base, l
<1>10. Larger(1, i - LiveHistory + 1) = 1
  BY <1>2, <1>5 DEF Larger
<1>11. SubSeq(past, 1, i) = past
  BY <1>9
<1>12. LiveContext(p) = [bundle |-> Bundle(StateAfter(past)), rs |-> LiveStrength(p), prevClose |-> past[i - 1].c]
  <2>1. i - 1 \in Nat /\ Len(past) >= 2
    BY <1>5, <1>9
  <2>. QED  BY <1>8, <1>9, <1>10, <1>11, <2>1 DEF LiveContext, StateAfter
<1>. DEFINE k == i - WindowCap + 1
            window == SubSeq(bars, Larger(1, i - WindowCap + 1), i)
<1>13. market.bundles[i] = Bundle(StateAfter(past))
  BY <1>1, <1>5 DEF Told, past, l
<1>14. Len(window) >= 2 /\ window[Len(window) - 1] = bars[i - 1]
  <2>1. k \in Nat \ {0} /\ k <= i /\ Larger(1, k) = k /\ i - k + 1 = WindowCap /\ WindowCap >= 2
    BY <1>2, <1>5 DEF Larger
  <2>2. WindowCap - 1 \in 1 .. WindowCap /\ (WindowCap - 1) + k - 1 = i - 1
    BY <1>2, <2>1
  <2>3. window = SubSeq(bars, k, i)
    BY <2>1
  <2>4. bars \in Seq(Bar) /\ i \in 1 .. Len(bars)
    BY <1>1, <1>5 DEF l
  <2>. HIDE DEF window, k, bars
  <2>5. Len(window) = WindowCap /\ \A j \in 1 .. WindowCap : window[j] = bars[j + k - 1]
    <3>1. Len(SubSeq(bars, k, i)) = i - k + 1 /\ \A j \in 1 .. i - k + 1 : SubSeq(bars, k, i)[j] = bars[j + k - 1]
      BY <2>1, <2>4, PartFacts
    <3>. QED  BY <2>1, <2>3, <3>1
  <2>. DEFINE j == WindowCap - 1
  <2>6. window[j] = bars[j + k - 1]
    <3>. HIDE DEF j
    <3>1. j \in 1 .. WindowCap
      BY <2>2 DEF j
    <3>. QED  BY <2>5, <3>1
  <2>. QED  BY <2>1, <2>2, <2>5, <2>6
<1>15. past[i - 1] = bars[i - 1]
  <2>. DEFINE j == i - 1
  <2>1. j \in 1 .. i
    BY <1>5
  <2>. HIDE DEF j
  <2>2. past[j] = bars[j]
    BY <1>9, <2>1
  <2>. QED  BY <2>2 DEF j
<1>16. RelativeStrength(window, market.bench, i) = LiveStrength(p)
  <2>. DEFINE q == [bars |-> past, bundles |-> <<>>, bench |-> base, trends |-> <<>>]
  <2>1. RelativeStrength(window, market.bench, i) = LiveStrength(q)
    <3>. HIDE DEF bars
    <3>1. i \in 1 .. Len(bars) /\ i <= Len(market.bench)
      BY <1>5 DEF l
    <3>. QED  BY <1>1, <1>2, <1>5, <3>1, SameStrength DEF past, base
  <2>2. LiveStrength(q) = LiveStrength(p)
    BY <1>8 DEF LiveStrength
  <2>. QED  BY <2>1, <2>2
<1>17. /\ Context(market, i).bundle = market.bundles[i]
       /\ Context(market, i).rs = RelativeStrength(window, market.bench, i)
       /\ Context(market, i).prevClose = IF Len(window) >= 2 THEN window[Len(window) - 1].c ELSE Never
  BY DEF Context
<1>. HIDE DEF window
<1>18. Context(market, i).prevClose = past[i - 1].c
  BY <1>14, <1>15, <1>17
<1>. QED  BY <1>7, <1>12, <1>13, <1>16, <1>17, <1>18 DEF d

-----------------------------------------------------------------------------
(* A strategy that answers every context with a setup or nothing.            *)
Setups == [dir : {"long", "short"}, entry : Int, stop : Int, target : Int]
StrategySignals ==
    \A m \in Histories : \A i \in 1 .. Len(m.bars) : Evaluate(Context(m, i)) \in Setups \cup {NoSignal}

LEMMA MultipleIsNumber ==
  ASSUME StrategySignals, NEW m \in Histories, NEW i, NEW t, Signalled(m, i, t)
  PROVE  R(t) \in Int
<1>1. Orderly(m) /\ DatedBars(m) /\ m.bars \in Seq(Bar) /\ Len(m.bars) \in Nat
  BY DEF Histories, Orderly, DatedBars
<1>. DEFINE j == t.at
            sig == t.signal
            h == Horizon(m.bars, j)
            x == Exit(m.bars, j, sig)
<1>2. j \in Nat \ {0} /\ j < Len(m.bars) /\ t = TradeAt(m, j) /\ SignalAt(m, j) = sig /\ sig # NoSignal
  BY <1>1, SignalledFacts
<1>. HIDE DEF j, sig, h, x
<1>3. sig \in Setups
  <2>1. j \in 1 .. Len(m.bars)
    BY <1>1, <1>2
  <2>2. Evaluate(Context(m, j)) \in Setups \cup {NoSignal}
    BY <2>1 DEF StrategySignals
  <2>. QED  BY <1>2, <2>2 DEF SignalAt
<1>4. t.exit = x.price
  BY <1>2 DEF TradeAt, Simulate, x
<1>5. h \in Seq(Bar) /\ Len(h) \in Nat \ {0}
  <2>. DEFINE n == Sooner(j + MaxHolding, Len(m.bars)) - j
  <2>1. n \in 1 .. MaxHolding /\ h \in Seq(Bar) /\ Len(h) = n
    BY <1>1, <1>2, HorizonFacts DEF h
  <2>. HIDE DEF n
  <2>. QED  BY <2>1, BacktestConstants
<1>6. x.price \in Int
  <2>1. x = Ends(h, sig)
    BY <1>1, <1>2, ExitEnds DEF x, h
  <2>2. h[Len(h)].c \in Int
    <3>1. h[Len(h)] \in Bar
      BY <1>5
    <3>. QED  BY <3>1 DEF Bar
  <2>3. Last(h).c \in Int
    BY <2>2 DEF Last
  <2>. QED  BY <1>3, <2>1, <2>3 DEF Ends, Setups
<1>. DEFINE risk == Gap(sig.entry, sig.stop)
            raw == 10000 * Profit(sig, x.price)
<1>7. risk \in Nat /\ raw \in Int
  BY <1>3, <1>6 DEF Setups, Gap, Larger, Profit
<1>8. R(t) = IF risk = 0 THEN 0 ELSE raw \div risk
  BY <1>4 DEF R, sig
<1>. HIDE DEF risk, raw
<1>9. risk # 0 => raw \div risk \in Int
  BY <1>7
<1>. QED  BY <1>8, <1>9

(* The bars a walk is in the market are no more than there are.              *)
HeldOf(s) == Total(Column(s, "held"))
LEMMA HeldOfNone == HeldOf(<<>>) = 0
<1>. DEFINE e == Column(<<>>, "held")
<1>1. DOMAIN e = {}
  BY DEF Column
<1>. HIDE DEF e
<1>2. SumFunction(e) = SumUp(e, DOMAIN e) /\ SumUp(e, {}) = 0
  BY SumOfFunction, SumUpFacts, FS_EmptySet
<1>. QED  BY <1>1, <1>2 DEF HeldOf, Total, e

LEMMA HeldCons ==
  ASSUME NEW T, NEW s \in Seq(T), NEW a \in T, a.held \in Nat, \A x \in Range(s) : x.held \in Nat
  PROVE  HeldOf(<<a>> \o s) = a.held + HeldOf(s) /\ HeldOf(<<>>) = 0
<1>. DEFINE n == Len(s)
            f == [k \in 1 .. 1 |-> a.held]
            g == Column(s, "held")
            t == <<a>> \o s
            h == Column(t, "held")
<1>1. n \in Nat /\ DOMAIN s = 1 .. n /\ t \in Seq(T) /\ Len(t) = 1 + n /\ t[1] = a
      /\ \A k \in 1 .. n : t[1 + k] = s[k]
  BY ConsFacts
<1>2. DOMAIN t = 1 .. 1 + n
  <2>. HIDE DEF t, n
  <2>. QED  BY <1>1
<1>. HIDE DEF t, n
<1>3. DOMAIN h = 1 .. 1 + n /\ DOMAIN g = 1 .. n
  BY <1>1, <1>2 DEF Column
<1>4. \A k \in 1 .. 1 + n : h[k] = t[k].held
  BY <1>2 DEF Column
<1>5. \A k \in 1 .. n : g[k] = s[k].held /\ g[k] \in Int
  <2>1. \A k \in 1 .. n : s[k] \in Range(s)
    BY <1>1 DEF Range
  <2>2. \A k \in 1 .. n : s[k].held \in Nat
    BY <2>1
  <2>. QED  BY <1>1, <2>2 DEF Column
<1>. HIDE DEF h, g
<1>6. ASSUME NEW k \in 1 .. 1 PROVE f[k] \in Int /\ h[k] = f[k]
  <2>1. k = 1 /\ 1 \in 1 .. 1 + n
    BY <1>1
  <2>. QED  BY <1>1, <1>4, <2>1
<1>7. ASSUME NEW k \in 1 .. n PROVE g[k] \in Int /\ h[1 + k] = g[k]
  <2>. DEFINE j == 1 + k
  <2>1. j \in 1 .. 1 + n
    BY <1>1
  <2>2. t[j] = s[k] /\ g[k] = s[k].held /\ g[k] \in Int
    BY <1>1, <1>5
  <2>. HIDE DEF j
  <2>3. h[j] = t[j].held
    BY <1>4, <2>1
  <2>. QED  BY <2>2, <2>3 DEF j
<1>8. SumUp(h, 1 .. 1 + n) = SumUp(f, 1 .. 1) + SumUp(g, 1 .. n)
  <2>. DEFINE one == 1
  <2>1. one \in Nat /\ \A k \in 1 .. one : f[k] \in Int /\ h[k] = f[k]
    BY <1>6
  <2>2. \A k \in 1 .. n : g[k] \in Int /\ h[one + k] = g[k]
    BY <1>7
  <2>. HIDE DEF one, f
  <2>3. SumUp(h, 1 .. one + n) = SumUp(f, 1 .. one) + SumUp(g, 1 .. n)
    <3>1. one \in Nat /\ n \in Nat
      BY <1>1, <2>1
    <3>2. \A k \in 1 .. one : f[k] \in Int /\ h[k] = f[k]
      BY <2>1
    <3>. QED  BY SMTT(30), <2>2, <3>1, <3>2, SumUpConcat
  <2>. QED  BY <2>3 DEF one
<1>9. SumUp(f, 1 .. 1) = a.held
  <2>. DEFINE one == 1
  <2>1. one \in Nat /\ one # 0 /\ \A k \in 1 .. one : f[k] \in Int
    BY <1>6
  <2>2. f[one] = a.held /\ (1 .. one - 1) = {}
    OBVIOUS
  <2>. HIDE DEF one, f
  <2>3. SumUp(f, 1 .. one) = f[one] + SumUp(f, 1 .. one - 1)
    BY <2>1, SumUpLast
  <2>4. SumUp(f, {}) = 0
    BY FS_EmptySet, SumUpFacts
  <2>. DEFINE u == SumUp(f, 1 .. one)
              v == SumUp(f, 1 .. one - 1)
  <2>5. v = 0 /\ u = f[one] + v /\ f[one] = a.held
    BY <2>2, <2>3, <2>4
  <2>. HIDE DEF u, v
  <2>6. u = a.held
    BY <2>5
  <2>. QED  BY <2>6 DEF one, u
<1>10. HeldOf(t) = SumUp(h, 1 .. 1 + n) /\ HeldOf(s) = SumUp(g, 1 .. n)
  BY <1>3, SumOfFunction DEF HeldOf, Total, h, g
<1>11. HeldOf(<<>>) = 0
  BY HeldOfNone
<1>. QED  BY <1>8, <1>9, <1>10, <1>11 DEF t

LEMMA HeldFits ==
  ASSUME NEW m, DatedBars(m), NEW w, Walks(w, m), NEW i \in Places(m)
  PROVE  HeldOf(w[i]) \in Nat /\ HeldOf(w[i]) <= Larger(0, Len(m.bars) - i)
<1>. DEFINE n == Len(m.bars) + MaxHolding
            T == Tradeable(m)
            S == {k \in Places(m) : HeldOf(w[k]) \in Nat /\ HeldOf(w[k]) <= Larger(0, Len(m.bars) - k)}
<1>1. n \in Nat /\ Places(m) = 1 .. n /\ Len(m.bars) \in Nat /\ MaxHolding \in Nat
  BY BacktestConstants DEF DatedBars, Places
<1>. HIDE DEF n
<1>2. HeldOf(<<>>) = 0
  BY HeldOfNone
<1>3. ASSUME NEW k \in 1 .. n, \A j \in k + 1 .. n : j \in S  PROVE k \in S
  <2>1. CASE k >= Len(m.bars)
    <3>1. w[k] = <<>>
      BY <1>1, <2>1, AtTheEnd DEF Ended
    <3>. QED  BY <1>1, <1>2, <3>1 DEF Larger
  <2>2. CASE k < Len(m.bars) /\ SignalAt(m, k) = NoSignal
    <3>1. Waits(w, k)
      BY <1>1, <2>2, NoTrade
    <3>2. k + 1 \in k + 1 .. n
      <4>1. k < n
        BY <1>1, <2>2, BacktestConstants DEF n
      <4>. QED  BY <1>1, <4>1
    <3>3. k + 1 \in S
      BY <1>3, <3>2
    <3>. DEFINE x == HeldOf(w[k + 1])
    <3>4. x \in Nat /\ x <= Larger(0, Len(m.bars) - (k + 1)) /\ HeldOf(w[k]) = x
      BY <3>1, <3>3 DEF Waits
    <3>. HIDE DEF x
    <3>5. x <= Larger(0, Len(m.bars) - k)
      BY <1>1, <2>2, <3>4 DEF Larger
    <3>. QED  BY <1>1, <3>4, <3>5
  <2>3. CASE k < Len(m.bars) /\ SignalAt(m, k) # NoSignal
    <3>. DEFINE a == TradeAt(m, k)
                j == k + a.held
                x == HeldOf(w[j])
    <3>1. j \in Places(m) /\ w[k] = <<a>> \o w[j]
      BY <1>1, <2>3, WalkCases
    <3>2. a \in T /\ a.held \in 1 .. MaxHolding /\ j \in k + 1 .. Len(m.bars)
      BY <1>1, <2>3, TradeFacts
    <3>3. a.held \in Nat /\ j = k + a.held
      BY <1>1, <3>2
    <3>. HIDE DEF j, a
    <3>4. j \in k + 1 .. n /\ j \in S
      BY <1>1, <1>3, <3>1, <3>2
    <3>5. w[j] \in Seq(T)
      BY <3>1 DEF Walks
    <3>6. \A y \in Range(w[j]) : y.held \in Nat
      <4>1. ASSUME NEW y \in Range(w[j]) PROVE y.held \in Nat
        <5>1. Signalled(m, j, y)
          BY <3>1, WalkTrades
        <5>2. y.held \in 1 .. MaxHolding
          BY <5>1, SignalledFacts
        <5>. QED  BY <1>1, <5>2
      <4>. QED  BY <4>1
    <3>7. HeldOf(<<a>> \o w[j]) = a.held + x
      <4>. HIDE DEF T
      <4>. QED  BY <3>2, <3>3, <3>5, <3>6, HeldCons
    <3>8. x \in Nat /\ x <= Larger(0, Len(m.bars) - j)
      BY <3>4
    <3>. HIDE DEF x
    <3>9. a.held + x \in Nat /\ a.held + x <= Larger(0, Len(m.bars) - k)
      <4>. DEFINE l == Len(m.bars)
                  d == a.held
      <4>1. l \in Nat /\ d \in Nat /\ k \in Nat /\ j \in Nat /\ j = k + d /\ j <= l
        BY <1>1, <3>2, <3>3
      <4>2. x \in Nat /\ x <= Larger(0, l - j)
        BY <3>8
      <4>. HIDE DEF l, d
      <4>3. Larger(0, l - j) = l - j /\ Larger(0, l - k) = l - k
        BY <4>1 DEF Larger
      <4>4. d + x \in Nat /\ d + x <= l - k
        BY <4>1, <4>2, <4>3
      <4>. QED  BY <4>3, <4>4 DEF l, d
    <3>10. HeldOf(w[k]) = a.held + x
      BY <3>1, <3>7
    <3>. QED  BY <1>1, <3>9, <3>10
  <2>. QED  BY <1>1, <2>1, <2>2, <2>3
<1>4. 1 .. n \subseteq S
  <2>. HIDE DEF S
  <2>. QED  BY <1>1, <1>3, DownInduction
<1>. QED  BY <1>1, <1>4

(* The figures of any multiples. The equity falls from no place to a later   *)
(* one by more than all losses together.                                     *)
Equity(rs) == [i \in 0 .. Len(rs) |-> Total(SubSeq(rs, 1, i))]
Falls(e) == {e[p[1]] - e[p[2]] : p \in {q \in (DOMAIN e) \X (DOMAIN e) : q[1] <= q[2]}}
Won(rs) == {i \in DOMAIN rs : rs[i] > 0}
Lost(rs) == {i \in DOMAIN rs : rs[i] < 0}

LEMMA DrawdownFacts ==
  ASSUME NEW rs \in Seq(Int)
  PROVE  /\ Max(Falls(Equity(rs))) >= -SumUp(rs, Lost(rs)) - SumUp(rs, Won(rs))
         /\ Max(Falls(Equity(rs))) <= -SumUp(rs, Lost(rs))
<1>. DEFINE n == Len(rs)
            D == 1 .. n
            e == Equity(rs)
            gains == [i \in D |-> IF rs[i] > 0 THEN rs[i] ELSE 0]
            losses == [i \in D |-> IF rs[i] < 0 THEN rs[i] ELSE 0]
            L(i) == SumUp(losses, 1 .. i)
<1>1. n \in Nat /\ DOMAIN rs = D /\ \A i \in D : rs[i] \in Int
  OBVIOUS
<1>2. IsFiniteSet(D)
  BY <1>1, FS_Interval
<1>3. \A i \in D : gains[i] \in Int /\ losses[i] \in Int /\ rs[i] = gains[i] + losses[i] /\ losses[i] <= 0
                   /\ losses[i] <= rs[i]
  BY <1>1
<1>4. SumUp(gains, D) = SumUp(rs, Won(rs)) /\ SumUp(losses, D) = SumUp(rs, Lost(rs))
  <2>1. Won(rs) \in SUBSET D /\ Lost(rs) \in SUBSET D
    BY <1>1 DEF Won, Lost
  <2>2. \A i \in Won(rs) : rs[i] = gains[i]
    BY <1>1 DEF Won
  <2>3. \A i \in D \ Won(rs) : gains[i] = 0
    BY <1>1 DEF Won
  <2>4. \A i \in Lost(rs) : rs[i] = losses[i]
    BY <1>1 DEF Lost
  <2>5. \A i \in D \ Lost(rs) : losses[i] = 0
    BY <1>1 DEF Lost
  <2>. HIDE DEF D, gains, losses
  <2>6. SumUp(gains, D) = SumUp(rs, Won(rs))
    BY <1>2, <1>3, <2>1, <2>2, <2>3, SumUpWithin
  <2>7. SumUp(losses, D) = SumUp(rs, Lost(rs))
    BY <1>2, <1>3, <2>1, <2>4, <2>5, SumUpWithin
  <2>. QED  BY <2>6, <2>7
<1>5. SumUp(rs, D) = SumUp(gains, D) + SumUp(losses, D)
      /\ SumUp(gains, D) \in Int /\ SumUp(losses, D) \in Int
  <2>. HIDE DEF D, gains, losses
  <2>1. SumUp(rs, D) = SumUp(gains, D) + SumUp(losses, D)
    BY <1>2, <1>3, SumUpPlus
  <2>. QED  BY <1>2, <1>3, <2>1, SumUpFacts
<1>6. ASSUME NEW i \in 0 .. n PROVE e[i] = SumUp(rs, 1 .. i) /\ e[i] \in Int
  <2>. DEFINE part == SubSeq(rs, 1, i)
  <2>1. part \in Seq(Int) /\ Len(part) = i /\ \A k \in 1 .. i : part[k] = rs[k]
    BY FirstFacts
  <2>2. e[i] = Total(part)
    BY DEF Equity
  <2>. HIDE DEF part, e
  <2>3. DOMAIN part = 1 .. i /\ IsFiniteSet(1 .. i) /\ \A k \in 1 .. i : rs[k] \in Int
    BY <1>1, <2>1, FS_Interval
  <2>4. SumUp(part, 1 .. i) = SumUp(rs, 1 .. i)
    BY <2>1, <2>3, SumUpSame
  <2>5. Total(part) = SumUp(part, 1 .. i)
    BY <2>3, SumOfFunction DEF Total
  <2>6. SumUp(rs, 1 .. i) \in Int
    BY <2>3, SumUpFacts
  <2>. QED  BY <2>2, <2>4, <2>5, <2>6
<1>7. ASSUME NEW i \in 0 .. n PROVE L(i) \in Int
  <2>1. IsFiniteSet(1 .. i) /\ \A k \in 1 .. i : losses[k] \in Int
    BY <1>1, <1>3, FS_Interval
  <2>. HIDE DEF losses
  <2>. QED  BY <2>1, SumUpFacts
<1>8. ASSUME NEW i \in 1 .. n PROVE L(i) = losses[i] + L(i - 1) /\ e[i] = rs[i] + e[i - 1]
  <2>1. i \in Nat /\ i # 0 /\ i - 1 \in 0 .. n /\ i \in 0 .. n
    BY <1>1
  <2>2. \A k \in 1 .. i : losses[k] \in Int /\ rs[k] \in Int
    BY <1>1, <1>3
  <2>. HIDE DEF losses, e
  <2>3. L(i) = losses[i] + L(i - 1)
    BY <2>1, <2>2, SumUpLast
  <2>4. SumUp(rs, 1 .. i) = rs[i] + SumUp(rs, 1 .. i - 1)
    BY <2>1, <2>2, SumUpLast
  <2>5. e[i - 1] = SumUp(rs, 1 .. i - 1) /\ e[i] = SumUp(rs, 1 .. i)
    BY <1>6, <2>1
  <2>. QED  BY <2>3, <2>4, <2>5
<1>9. e[0] = 0 /\ L(0) = 0
  <2>1. (1 .. 0) = {} /\ 0 \in 0 .. n
    BY <1>1
  <2>. HIDE DEF e, losses
  <2>2. SumUp(rs, {}) = 0 /\ SumUp(losses, {}) = 0
    BY FS_EmptySet, SumUpFacts
  <2>. QED  BY <1>6, <2>1, <2>2
<1>. HIDE DEF e, L
<1>. DEFINE Bound(k) == \A q \in 0 .. k : L(k) <= L(q) /\ \A p \in 0 .. q : e[p] - e[q] <= -L(k)
            S == {k \in 0 .. n : Bound(k)}
<1>10. 0 \in S
  <2>1. \A q \in 0 .. 0 : q = 0
    OBVIOUS
  <2>2. L(0) <= L(0) /\ e[0] - e[0] <= -L(0)
    BY <1>9
  <2>3. Bound(0)
    BY <2>1, <2>2
  <2>. QED  BY <1>1, <2>3
<1>11. ASSUME NEW k \in 1 .. n, k - 1 \in S  PROVE k \in S
  <2>. DEFINE c == k - 1
  <2>1. c \in 0 .. n /\ k \in 0 .. n /\ Bound(c) /\ c \in 0 .. c /\ 0 \in 0 .. c
    BY <1>1, <1>11
  <2>2. L(k) = losses[k] + L(c) /\ e[k] = rs[k] + e[c]
    BY <1>8
  <2>3. losses[k] \in Int /\ losses[k] <= 0 /\ losses[k] <= rs[k] /\ rs[k] \in Int
    BY <1>1, <1>3
  <2>. HIDE DEF c, losses
  <2>4. L(c) \in Int /\ L(k) \in Int /\ e[c] \in Int /\ e[k] \in Int /\ L(k) <= L(c)
    <3>1. L(c) \in Int /\ L(k) \in Int
      BY <1>7, <2>1
    <3>2. e[c] \in Int /\ e[k] \in Int
      BY <1>6, <2>1
    <3>3. L(k) <= L(c)
      BY <2>2, <2>3, <3>1
    <3>. QED  BY <3>1, <3>2, <3>3
  <2>5. \A q \in 0 .. k : q = k \/ q \in 0 .. c
    BY <1>1 DEF c
  <2>6. ASSUME NEW q \in 0 .. c PROVE L(k) <= L(q) /\ \A p \in 0 .. q : e[p] - e[q] <= -L(k)
    <3>1. q \in 0 .. n
      BY <2>1, <1>1
    <3>2. L(q) \in Int /\ L(c) <= L(q)
      BY <1>7, <2>1, <3>1
    <3>3. ASSUME NEW p \in 0 .. q PROVE e[p] - e[q] <= -L(k)
      <4>1. p \in 0 .. n
        BY <3>1, <1>1
      <4>2. e[p] \in Int /\ e[q] \in Int /\ e[p] - e[q] <= -L(c)
        BY <1>6, <2>1, <3>1, <4>1
      <4>. QED  BY <2>4, <4>2
    <3>. QED  BY <2>4, <3>2, <3>3
  <2>7. L(k) <= L(k)
    BY <2>4
  <2>8. ASSUME NEW p \in 0 .. k PROVE e[p] - e[k] <= -L(k)
    <3>1. CASE p = k
      <4>1. L(k) <= L(0)
        BY <2>1, <2>6
      <4>2. L(k) <= 0
        BY <1>9, <4>1
      <4>. QED  BY <2>4, <3>1, <4>2
    <3>2. CASE p \in 0 .. c
      <4>1. p \in 0 .. n /\ e[p] \in Int
        BY <1>1, <1>6, <2>1, <3>2
      <4>2. e[p] - e[c] <= -L(c)
        BY <2>1, <3>2
      <4>. DEFINE y == e[p]
                  z == e[c]
                  r == rs[k]
                  o == losses[k]
      <4>3. y \in Int /\ z \in Int /\ r \in Int /\ o \in Int /\ o <= r /\ y - z <= -L(c)
            /\ e[k] = r + z /\ L(k) = o + L(c) /\ L(c) \in Int
        BY <2>2, <2>3, <2>4, <4>1, <4>2
      <4>. HIDE DEF y, z, r, o
      <4>4. y - (r + z) <= -(o + L(c))
        BY <4>3
      <4>5. y - e[k] <= -L(k)
        BY <4>3, <4>4
      <4>. QED  BY <4>5 DEF y
    <3>. QED  BY <2>5, <3>1, <3>2
  <2>9. Bound(k)
    BY <2>5, <2>6, <2>7, <2>8
  <2>. QED  BY <2>1, <2>9
<1>12. Bound(n)
  <2>1. 0 .. n \subseteq S
    <3>. HIDE DEF S
    <3>. QED  BY <1>1, <1>10, <1>11, BoundedInduction
  <2>2. n \in 0 .. n
    BY <1>1
  <2>3. n \in S
    BY <2>1, <2>2
  <2>. HIDE DEF Bound
  <2>. QED  BY <2>3
<1>. DEFINE F == Falls(e)
            b == -L(n)
<1>13. DOMAIN e = 0 .. n
  BY DEF e, Equity
<1>14. \A x \in F : x \in Int /\ x <= b
  <2>1. ASSUME NEW p \in 0 .. n, NEW q \in 0 .. n, p <= q PROVE e[p] - e[q] \in Int /\ e[p] - e[q] <= b
    <3>1. p \in 0 .. q /\ q \in 0 .. n
      BY <2>1
    <3>2. e[p] \in Int /\ e[q] \in Int
      BY <1>6
    <3>3. e[p] - e[q] <= b
      BY <1>12, <3>1
    <3>. QED  BY <3>2, <3>3
  <2>. HIDE DEF b
  <2>. QED  BY <1>13, <2>1 DEF Falls
<1>15. 0 - e[n] \in F
  <2>1. 0 \in 0 .. n /\ n \in 0 .. n /\ 0 <= n
    BY <1>1
  <2>2. <<0, n>> \in {q \in (DOMAIN e) \X (DOMAIN e) : q[1] <= q[2]}
    BY <1>13, <2>1
  <2>3. e[0] - e[n] \in F
    <3>1. <<0, n>>[1] = 0 /\ <<0, n>>[2] = n
      OBVIOUS
    <3>. QED  BY <2>2, <3>1 DEF Falls
  <2>. QED  BY <1>9, <2>3
<1>16. b \in Int /\ n \in 0 .. n
  BY <1>1, <1>7
<1>. HIDE DEF F, b
<1>17. Max(F) \in F /\ \A x \in F : Max(F) >= x
  <2>1. F \in SUBSET Int /\ F # {}
    BY <1>14, <1>15
  <2>. QED  BY <1>14, <1>16, <2>1, MaxAttained
<1>18. Max(F) <= b /\ Max(F) >= 0 - e[n]
  BY <1>14, <1>15, <1>17
<1>19. b = -SumUp(rs, Lost(rs)) /\ SumUp(rs, Lost(rs)) \in Int
  BY <1>4, <1>5 DEF b, L
<1>20. e[n] = SumUp(rs, Won(rs)) + SumUp(rs, Lost(rs)) /\ SumUp(rs, Won(rs)) \in Int
  <2>1. e[n] = SumUp(rs, D)
    BY <1>6, <1>16
  <2>. QED  BY <1>4, <1>5, <2>1
<1>21. Max(F) \in Int
  BY <1>14, <1>17
<1>22. Max(F) >= -SumUp(rs, Lost(rs)) - SumUp(rs, Won(rs))
  BY <1>18, <1>19, <1>20, <1>21
<1>. QED  BY <1>18, <1>19, <1>22 DEF F, e

LEMMA ResultFacts ==
  ASSUME NEW X, NEW trades \in Seq(X), \A i \in 1 .. Len(trades) : R(trades[i]) \in Int
  PROVE  /\ Result(trades).wins + Result(trades).losses <= Result(trades).total
         /\ Result(trades).losses <= Result(trades).bad
         /\ Result(trades).drawdown >= Result(trades).grossLoss - Result(trades).grossWin
         /\ Result(trades).drawdown <= Result(trades).grossLoss
         /\ Result(trades).held = HeldOf(trades)
<1>. DEFINE n == Len(trades)
            rs == [i \in DOMAIN trades |-> R(trades[i])]
            wins == {i \in DOMAIN trades : rs[i] > 0}
            losses == {i \in DOMAIN trades : rs[i] < 0}
            bad == {i \in DOMAIN trades : rs[i] < 0 \/ (trades[i].outcome = "timeout" /\ rs[i] <= 0)}
            equity == [i \in 0 .. Len(trades) |-> Total(SubSeq(rs, 1, i))]
            falls == {equity[p[1]] - equity[p[2]] : p \in {q \in (DOMAIN equity) \X (DOMAIN equity) : q[1] <= q[2]}}
<1>1. /\ Result(trades).total = n /\ Result(trades).wins = Cardinality(wins)
      /\ Result(trades).losses = Cardinality(losses) /\ Result(trades).bad = Cardinality(bad)
      /\ Result(trades).grossWin = SumFunctionOnSet(rs, wins)
      /\ Result(trades).grossLoss = -SumFunctionOnSet(rs, losses)
      /\ Result(trades).held = HeldOf(trades) /\ Result(trades).drawdown = Max(falls)
  BY DEF Result, HeldOf
<1>2. n \in Nat /\ DOMAIN trades = 1 .. n
  OBVIOUS
<1>3. DOMAIN rs = 1 .. n /\ \A i \in 1 .. n : rs[i] \in Int
  BY <1>2
<1>4. rs \in Seq(Int) /\ Len(rs) = n
  <2>1. rs \in [1 .. n -> Int]
    BY <1>2, <1>3
  <2>. HIDE DEF rs
  <2>2. rs \in Seq(Int)
    BY <1>2, <2>1
  <2>. QED  BY <1>2, <2>1, <2>2
<1>5. wins = Won(rs) /\ losses = Lost(rs) /\ equity = Equity(rs) /\ falls = Falls(equity)
  <2>1. wins = Won(rs) /\ losses = Lost(rs)
    BY <1>2, <1>3 DEF Won, Lost
  <2>2. equity = Equity(rs)
    BY <1>4 DEF Equity
  <2>3. falls = Falls(equity)
    BY DEF Falls
  <2>. QED  BY <2>1, <2>2, <2>3
<1>6. wins \subseteq 1 .. n /\ losses \subseteq bad /\ bad \subseteq 1 .. n /\ wins \cap losses = {}
  BY <1>2, <1>3
<1>. HIDE DEF n, rs, wins, losses, bad, equity, falls
<1>7. IsFiniteSet(1 .. n) /\ Cardinality(1 .. n) = n
  BY <1>2, FS_Interval
<1>8. Cardinality(wins) + Cardinality(losses) <= n /\ Cardinality(losses) <= Cardinality(bad)
  <2>1. IsFiniteSet(wins) /\ IsFiniteSet(losses) /\ IsFiniteSet(bad)
    BY <1>6, <1>7, FS_Subset
  <2>. DEFINE both == wins \cup losses
  <2>2. both \in SUBSET (1 .. n) /\ losses \in SUBSET bad
    BY <1>6
  <2>3. Cardinality(both) = Cardinality(wins) + Cardinality(losses) - Cardinality(wins \cap losses)
    BY <2>1, FS_Union
  <2>4. Cardinality(wins \cap losses) = 0
    BY <1>6, FS_EmptySet
  <2>5. Cardinality(wins) \in Nat /\ Cardinality(losses) \in Nat
    BY <2>1, FS_CardinalityType
  <2>. HIDE DEF both
  <2>6. Cardinality(both) <= n
    BY <1>7, <2>2, FS_Subset
  <2>7. Cardinality(losses) <= Cardinality(bad)
    BY <2>1, <2>2, FS_Subset
  <2>. QED  BY <2>3, <2>4, <2>5, <2>6, <2>7
<1>9. SumFunctionOnSet(rs, wins) = SumUp(rs, wins) /\ SumFunctionOnSet(rs, losses) = SumUp(rs, losses)
  BY DEF SumFunctionOnSet, FoldFunctionOnSet, SumUp, MapThenSumSet
<1>10. Max(falls) >= -SumUp(rs, losses) - SumUp(rs, wins) /\ Max(falls) <= -SumUp(rs, losses)
  BY <1>4, <1>5, DrawdownFacts
<1>. QED  BY <1>1, <1>8, <1>9, <1>10

LEMMA FiguresHold == BacktestInv /\ StrategySignals => FiguresAgree
<1>. SUFFICES ASSUME BacktestInv, StrategySignals PROVE FiguresAgree
  OBVIOUS
<1>. DEFINE trades == Walk(market)
            T == Tradeable(market)
            l == Len(market.bars)
            start == WindowCap + 1
<1>1. market \in Histories /\ DatedBars(market) /\ l \in Nat /\ WindowCap \in Nat
  BY BacktestConstants DEF BacktestInv, Histories, Orderly, DatedBars, WindowCap, Larger
<1>2. PICK w : /\ Walks(w, market)
               /\ \A t \in Range(Walk(market)) : start < l /\ t \in Range(w[start])
               /\ trades = IF l <= start THEN <<>> ELSE w[start]
  <2>1. PICK w : /\ Walks(w, market)
                 /\ trades = IF l <= start THEN <<>> ELSE w[start]
    BY <1>1, WalkFacts
  <2>2. CASE l <= start
    <3>1. Range(trades) = {}
      BY <2>1, <2>2 DEF Range
    <3>. QED  BY <2>1, <3>1
  <2>3. CASE ~(l <= start)
    <3>1. start < l
      BY <1>1, <2>3
    <3>. QED  BY <2>1, <2>3, <3>1
  <2>. QED  BY <2>2, <2>3
<1>3. trades \in Seq(T) /\ HeldOf(trades) <= Larger(0, l - 1)
  <2>1. CASE l <= start
    <3>1. trades = <<>>
      BY <1>2, <2>1
    <3>2. HeldOf(<<>>) = 0
      BY HeldOfNone
    <3>3. <<>> \in Seq(T)
      OBVIOUS
    <3>. HIDE DEF trades, T
    <3>4. 0 <= Larger(0, l - 1)
      BY <1>1 DEF Larger
    <3>. QED  BY <3>1, <3>2, <3>3, <3>4
  <2>2. CASE ~(l <= start)
    <3>1. trades = w[start] /\ start < l
      BY <1>1, <1>2, <2>2
    <3>2. start \in Places(market)
      BY <1>1, <3>1, StartPlace
    <3>3. w[start] \in Seq(T)
      BY <1>2, <3>2 DEF Walks
    <3>4. HeldOf(w[start]) \in Nat /\ HeldOf(w[start]) <= Larger(0, l - start)
      <4>. HIDE DEF start
      <4>. QED  BY <1>1, <1>2, <3>2, HeldFits
    <3>. DEFINE x == HeldOf(w[start])
    <3>. HIDE DEF x, trades, T, l
    <3>5. x <= Larger(0, l - 1)
      <4>1. x \in Nat /\ x <= Larger(0, l - start)
        BY <3>4 DEF x
      <4>. QED  BY <1>1, <3>1, <4>1 DEF Larger
    <3>6. HeldOf(trades) = x
      BY <3>1 DEF x
    <3>. QED  BY <3>1, <3>3, <3>5, <3>6
  <2>. QED  BY <2>1, <2>2
<1>4. ASSUME NEW i \in 1 .. Len(trades) PROVE R(trades[i]) \in Int
  <2>1. trades[i] \in Range(trades)
    <3>. HIDE DEF trades, T
    <3>1. i \in DOMAIN trades
      BY <1>3
    <3>. QED  BY <3>1 DEF Range
  <2>. DEFINE t == trades[i]
  <2>2. start < l /\ t \in Range(w[start])
    BY <1>2, <2>1
  <2>3. start \in Places(market)
    BY <1>1, <2>2, StartPlace
  <2>. HIDE DEF t, start
  <2>4. Signalled(market, start, t)
    BY <1>1, <1>2, <2>2, <2>3, WalkTrades
  <2>5. R(t) \in Int
    BY <1>1, <2>4, MultipleIsNumber
  <2>. QED  BY <2>5 DEF t
<1>. DEFINE r == Result(trades)
<1>5. /\ r.wins + r.losses <= r.total /\ r.losses <= r.bad
      /\ r.drawdown >= r.grossLoss - r.grossWin /\ r.drawdown <= r.grossLoss
      /\ r.held = HeldOf(trades)
  <2>. HIDE DEF trades, T
  <2>. QED  BY <1>3, <1>4, ResultFacts
<1>. QED  BY <1>3, <1>5 DEF FiguresAgree

(* "A green backtest is real evidence about the live edge" (backtester.py): for *)
(* every strategy, every history and every walk over it, no trade uses what     *)
(* came after its signal, one position is open at a time, what an earlier       *)
(* evening's backtest settled stands in today's, and the strategy is shown what *)
(* the scanner would have shown it.                                             *)
THEOREM ReplayIsCausal == BacktestSpec => [](NoLookAhead /\ OneAtATime /\ PastIsFixed /\ LiveParity)
<1>1. BacktestInv => NoLookAhead /\ OneAtATime /\ PastIsFixed /\ LiveParity
  BY Causal, OnePosition, PastStands, ShownAlike
<1>. QED  BY <1>1, BacktestInvariant, PTL

(* And with a strategy that answers with a direction and three prices or with  *)
(* nothing, the figures handed to the live registry agree with each other: the *)
(* drawdown lies between the net and the gross loss, no trade is both a win and *)
(* a loss, and the trades fit in the bars.                                     *)
THEOREM ReplayIsHonest ==
  ASSUME StrategySignals
  PROVE  BacktestSpec => []HonestReplay
<1>1. BacktestInv => HonestReplay
  BY Causal, OnePosition, PastStands, ShownAlike, FiguresHold DEF HonestReplay
<1>. QED  BY <1>1, BacktestInvariant, PTL
=============================================================================
