--------------------------- MODULE EventBusProofs ---------------------------
(***************************************************************************)
(* The bus's promises to its subscribers, for any number of them, any      *)
(* topics, handlers and queue sizes.  Each step of the bus is first cut    *)
(* down to what it does to one subscriber.                                 *)
(***************************************************************************)
EXTENDS EventBus, TLAPS

(* The types of what the proofs speak of: all of the state but the dead     *)
(* letters and the flags of a bus and a join.                               *)
Types ==
    /\ published \in Nat
    /\ subscribed \in Nat /\ joining \in Nat
    /\ queue \in [Subs -> Seq(Nat)]
    /\ unfinished \in [Subs -> Nat]
    /\ worker \in [Subs -> {"none", "idle", "busy", "dead"}]
    /\ handling \in [Subs -> Nat]
    /\ handled \in [Subs -> SUBSET Nat]
    /\ dropped \in [Subs -> SUBSET Nat]
    /\ cut \in [Subs -> SUBSET Nat]

(* A worker whose handler was cut short never works again, and only then    *)
(* its queue's count is off; who has not subscribed has no worker.          *)
Absent(s)  == s > subscribed => worker[s] = "none" /\ cut[s] = {}
CutDead(s) == cut[s] # {} => worker[s] = "dead"
Counts(s)  == cut[s] = {} => unfinished[s] = Len(queue[s]) + Busy(s)
Counted    == \A s \in Subs : Absent(s) /\ CutDead(s) /\ Counts(s)
------------------------------------------------------------------------------
(* Facts about sequences and single components. *)

LEMMA AppendSeq ==
    ASSUME NEW q \in Seq(Nat), NEW e \in Nat
    PROVE  /\ Len(Append(q, e)) = Len(q) + 1
           /\ DOMAIN Append(q, e) = 1 .. Len(q) + 1 /\ DOMAIN q = 1 .. Len(q)
           /\ \A i \in DOMAIN q : Append(q, e)[i] = q[i]
           /\ Append(q, e)[Len(q) + 1] = e
           /\ Append(q, e) \in Seq(Nat) /\ Len(q) \in Nat
  OBVIOUS

LEMMA TailSeq ==
    ASSUME NEW q \in Seq(Nat), q # <<>>
    PROVE  /\ Len(Tail(q)) = Len(q) - 1
           /\ DOMAIN Tail(q) = 1 .. Len(q) - 1 /\ DOMAIN q = 1 .. Len(q)
           /\ \A i \in DOMAIN Tail(q) : Tail(q)[i] = q[i + 1] /\ i + 1 \in DOMAIN q
           /\ 1 \in DOMAIN q /\ Head(q) = q[1] /\ Head(q) \in Nat
           /\ Tail(q) \in Seq(Nat) /\ Len(q) \in Nat
  OBVIOUS

LEMMA FieldTypes ==
    ASSUME Types, NEW s \in Subs
    PROVE  /\ queue[s] \in Seq(Nat) /\ Len(queue[s]) \in Nat /\ unfinished[s] \in Nat
           /\ handling[s] \in Nat /\ published \in Nat /\ subscribed \in Nat /\ joining \in Nat
           /\ handled[s] \subseteq Nat /\ dropped[s] \subseteq Nat /\ cut[s] \subseteq Nat
           /\ s \in Int /\ Busy(s) \in {0, 1}
<1>1. queue[s] \in Seq(Nat)
  BY DEF Types
<1>2. Len(queue[s]) \in Nat
  BY <1>1
<1>3. QED
  BY <1>1, <1>2 DEF Types, Subs, Busy

(* A busy worker's queue counts its event. *)
LEMMA BusyCounts ==
    ASSUME Counted, NEW s \in Subs, worker[s] = "busy"
    PROVE  cut[s] = {} /\ unfinished[s] = Len(queue[s]) + 1 /\ ~(s > subscribed)
<1>1. Absent(s) /\ CutDead(s) /\ Counts(s)
  BY DEF Counted
<1>2. cut[s] = {}
  BY <1>1 DEF CutDead
<1>3. Busy(s) = 1
  BY DEF Busy
<1>4. QED
  BY <1>1, <1>2, <1>3 DEF Absent, Counts
------------------------------------------------------------------------------
(* What one subscriber sees of a step *)

(* An event is offered to it: it is queued, or refused. *)
Queued(s)  == /\ published' = published + 1
              /\ queue'[s] = Append(queue[s], published + 1)
              /\ dropped'[s] = dropped[s]
Missed(s)  == /\ published' = published + 1
              /\ queue'[s] = queue[s]
              /\ dropped'[s] \in {dropped[s], dropped[s] \cup {published + 1}}
Nothing(s) == published' = published /\ queue'[s] = queue[s] /\ dropped'[s] = dropped[s]
Receives(s) == Queued(s) \/ Missed(s) \/ Nothing(s)

Bystands(s) == /\ Receives(s)
               /\ handling'[s] = handling[s] /\ handled'[s] = handled[s] /\ cut'[s] = cut[s]
               /\ worker'[s] \in {worker[s], "none", "idle"}
Begins(s)   == /\ queue[s] # <<>> /\ queue'[s] = Tail(queue[s]) /\ handling'[s] = Head(queue[s])
               /\ worker[s] = "idle" /\ worker'[s] = "busy"
               /\ published' = published
               /\ handled'[s] = handled[s] /\ dropped'[s] = dropped[s] /\ cut'[s] = cut[s]
Ends(s)     == /\ Receives(s)
               /\ worker[s] = "busy" /\ worker'[s] = "idle"
               /\ handled'[s] = handled[s] \cup {handling[s]} /\ cut'[s] = cut[s]
Halts(s)    == /\ Nothing(s) /\ worker'[s] \in {"none", "dead"} /\ handled'[s] = handled[s]
               /\ cut'[s] = IF worker[s] = "busy" THEN cut[s] \cup {handling[s]} ELSE cut[s]
Vanishes(s) == /\ published' = 0 /\ queue'[s] = <<>> /\ worker'[s] = "none"
               /\ handled'[s] = {} /\ dropped'[s] = {} /\ cut'[s] = {}

LEMMA OfferEffect ==
    ASSUME Types, NEW topic, Offer(topic), NEW s \in Subs
    PROVE  \/ Put(s, topic) = 1 /\ Accepts(s, topic) /\ Queued(s)
           \/ Put(s, topic) = 0 /\ Missed(s)
<1>1. /\ published' = published + 1
      /\ queue'[s] = IF Accepts(s, topic) THEN Append(queue[s], published + 1) ELSE queue[s]
      /\ dropped'[s] = IF Refuses(s, topic) THEN dropped[s] \cup {published + 1} ELSE dropped[s]
  BY DEF Offer
<1>2. CASE Accepts(s, topic)
  BY <1>1, <1>2 DEF Put, Refuses, Queued
<1>3. CASE ~Accepts(s, topic)
  BY <1>1, <1>3 DEF Put, Missed
<1>4. QED
  BY <1>2, <1>3

LEMMA OfferTypes ==
    ASSUME Types, NEW topic, Offer(topic)
    PROVE  /\ published' \in Nat
           /\ queue' \in [Subs -> Seq(Nat)]
           /\ dropped' \in [Subs -> SUBSET Nat]
<1>1. published' = published + 1 /\ published + 1 \in Nat
  BY DEF Offer, Types
<1>2. ASSUME NEW s \in Subs
      PROVE  Append(queue[s], published + 1) \in Seq(Nat) /\ queue[s] \in Seq(Nat)
  BY <1>1, AppendSeq DEF Types
<1>3. queue' \in [Subs -> Seq(Nat)]
  BY <1>2 DEF Offer
<1>4. dropped' \in [Subs -> SUBSET Nat]
  BY <1>1 DEF Offer, Types
<1>5. QED
  BY <1>1, <1>3, <1>4

(* A step is one of these for every subscriber. *)
LEMMA StepOfOne ==
    ASSUME Types, [Next]_vars, NEW s \in Subs
    PROVE  Bystands(s) \/ Begins(s) \/ Ends(s) \/ Halts(s) \/ Vanishes(s)
<1>1. ASSUME NEW topic \in Topics, Publish(topic)  PROVE Bystands(s)
  <2>1. Offer(topic) /\ UNCHANGED <<worker, handling, handled, cut>>
    BY <1>1 DEF Publish
  <2>2. QED
    BY <2>1, OfferEffect DEF Bystands, Receives
<1>2. CASE Subscribe \/ Start
  BY <1>2 DEF Subscribe, Start, history, Types, Bystands, Receives, Nothing
<1>3. ASSUME NEW t \in Subs, Take(t)  PROVE Bystands(s) \/ Begins(s)
  <2>1. CASE t = s
    BY <1>3, <2>1 DEF Take, history, Types, Begins
  <2>2. CASE t # s
    BY <1>3, <2>2 DEF Take, history, Types, Bystands, Receives, Nothing
  <2>3. QED
    BY <2>1, <2>2
<1>4. ASSUME NEW t \in Subs, Settle(t), Receives(s)  PROVE Bystands(s) \/ Ends(s)
  <2>1. CASE t = s
    BY <1>4, <2>1 DEF Settle, Types, Ends
  <2>2. CASE t # s
    BY <1>4, <2>2 DEF Settle, Types, Bystands
  <2>3. QED
    BY <2>1, <2>2
<1>5. ASSUME NEW t \in Subs, HandlerReturns(t) \/ HandlerFails(t)
      PROVE Settle(t) /\ Receives(s)
  <2>1. Settle(t) /\ ((UNCHANGED <<published, queue, dropped>>) \/ Offer(Emits[t]))
    BY <1>5 DEF HandlerReturns, HandlerFails
  <2>2. QED
    BY <2>1, OfferEffect DEF Receives, Nothing
<1>6. CASE Stop
  BY <1>6 DEF Stop, Types, Halts, Nothing
<1>7. CASE Reset
  BY <1>7 DEF Reset, Vanishes
<1>8. CASE JoinBegin \/ JoinNext \/ JoinReturns \/ UNCHANGED vars
  <2>1. UNCHANGED <<queue, published, dropped, worker, handling, handled, cut>>
    BY <1>8 DEF JoinBegin, JoinNext, JoinReturns, vars, history
  <2>2. QED
    BY <2>1 DEF Bystands, Receives, Nothing
<1>9. QED
  BY <1>1, <1>2, <1>3, <1>4, <1>5, <1>6, <1>7, <1>8 DEF Next, Work
------------------------------------------------------------------------------
(* Counts *)

LEMMA InitCounted == Init => Types /\ Counted
<1> SUFFICES ASSUME Init PROVE Types /\ Counted
  OBVIOUS
<1>1. Types
  BY DEF Init, Types
<1>2. ASSUME NEW s \in Subs PROVE Absent(s) /\ CutDead(s) /\ Counts(s)
  <2>1. worker[s] = "none" /\ cut[s] = {} /\ unfinished[s] = 0 /\ queue[s] = <<>>
    BY DEF Init
  <2>2. Len(queue[s]) = 0 /\ Busy(s) = 0
    BY <2>1 DEF Busy
  <2>3. QED
    BY <2>1, <2>2 DEF Absent, CutDead, Counts
<1>3. QED
  BY <1>1, <1>2 DEF Counted

(* What a subscriber's count, and its place in the list, see of a step: it  *)
(* stays as it is, is (or is not yet) registered or started, begins or ends *)
(* an event, is stopped, or is forgotten.                                   *)
Steady(s)  == /\ s > subscribed' => s > subscribed
              /\ worker'[s] = worker[s] /\ cut'[s] = cut[s]
              /\ unfinished'[s] + Len(queue[s]) = unfinished[s] + Len(queue'[s])
Enrols(s)  == /\ ~(s > subscribed') /\ worker[s] = "none" /\ worker'[s] \in {"none", "idle"}
              /\ cut'[s] = {}
              /\ cut[s] = {} /\ unfinished'[s] = unfinished[s] /\ queue'[s] = queue[s]
Engages(s) == /\ subscribed' = subscribed
              /\ worker[s] = "idle" /\ worker'[s] = "busy" /\ cut'[s] = cut[s]
              /\ unfinished'[s] = unfinished[s] /\ Len(queue'[s]) = Len(queue[s]) - 1
Finishes(s) == /\ subscribed' = subscribed
               /\ worker[s] = "busy" /\ worker'[s] = "idle" /\ cut'[s] = cut[s]
               /\ unfinished'[s] + Len(queue[s]) + 1 = unfinished[s] + Len(queue'[s])
Stopped(s) == /\ subscribed' = subscribed
              /\ worker'[s] = IF worker[s] = "none" THEN "none" ELSE "dead"
              /\ worker[s] = "busy" => cut'[s] # {}
              /\ worker[s] # "busy" => cut'[s] = cut[s] /\ unfinished'[s] = unfinished[s]
              /\ queue'[s] = queue[s]
Forgotten(s) == worker'[s] = "none" /\ cut'[s] = {} /\ unfinished'[s] = 0 /\ queue'[s] = <<>>
Counting(s) == \/ Steady(s) \/ Enrols(s) \/ Engages(s)
               \/ Finishes(s) \/ Stopped(s) \/ Forgotten(s)

LEMMA CountingKeeps ==
    ASSUME Types, Types', NEW s \in Subs, Absent(s), CutDead(s), Counts(s), Counting(s)
    PROVE  (Absent(s) /\ CutDead(s) /\ Counts(s))'
<1>1. /\ unfinished[s] \in Nat /\ unfinished'[s] \in Nat
      /\ Len(queue[s]) \in Nat /\ Len(queue'[s]) \in Nat
  <2>1. queue[s] \in Seq(Nat) /\ queue'[s] \in Seq(Nat)
    BY DEF Types
  <2>2. Len(queue[s]) \in Nat /\ Len(queue'[s]) \in Nat
    BY <2>1
  <2>3. QED
    BY <2>2 DEF Types
<1>2. CASE Steady(s)
  <2>1. Busy(s)' = Busy(s) /\ Busy(s) \in {0, 1}
    BY <1>2 DEF Steady, Busy
  <2>2. unfinished[s] = Len(queue[s]) + Busy(s) => unfinished'[s] = Len(queue'[s]) + Busy(s)'
    BY <1>1, <1>2, <2>1 DEF Steady
  <2>3. QED
    BY <1>2, <2>2 DEF Steady, Absent, CutDead, Counts
<1>3. CASE Enrols(s)
  <2>1. Busy(s)' = 0 /\ Busy(s) = 0
    BY <1>3 DEF Enrols, Busy
  <2>2. QED
    BY <1>3, <2>1 DEF Enrols, Absent, CutDead, Counts
<1>4. CASE Engages(s)
  <2>1. Busy(s)' = 1 /\ Busy(s) = 0 /\ cut[s] = {}
    BY <1>4 DEF Engages, Busy, CutDead
  <2>2. Counts(s)'
    BY <1>1, <1>4, <2>1 DEF Engages, Counts
  <2>3. QED
    BY <1>4, <2>1, <2>2 DEF Engages, Absent, CutDead
<1>5. CASE Finishes(s)
  <2>1. Busy(s)' = 0 /\ Busy(s) = 1 /\ cut[s] = {}
    BY <1>5 DEF Finishes, Busy, CutDead
  <2>2. unfinished'[s] + Len(queue[s]) + 1 = unfinished[s] + Len(queue'[s])
    BY <1>5 DEF Finishes
  <2>3. unfinished[s] = Len(queue[s]) + 1
    BY <2>1 DEF Counts
  <2>4. unfinished'[s] = Len(queue'[s])
    <3> DEFINE u == unfinished[s]  v == unfinished'[s]  k == Len(queue[s])  l == Len(queue'[s])
    <3>1. u \in Nat /\ v \in Nat /\ k \in Nat /\ l \in Nat
      BY <1>1
    <3>2. v + k + 1 = u + l /\ u = k + 1
      BY <2>2, <2>3
    <3> HIDE DEF u, v, k, l
    <3>3. v = l
      BY <3>1, <3>2
    <3>4. QED
      BY <3>3 DEF v, l
  <2>5. unfinished'[s] = Len(queue'[s]) + Busy(s)'
    BY <1>1, <2>1, <2>4
  <2>6. QED
    BY <1>5, <2>1, <2>5 DEF Finishes, Absent, CutDead, Counts
<1>6. CASE Stopped(s)
  <2>1. Busy(s)' = 0 /\ (worker[s] # "busy" => Busy(s) = 0)
    BY <1>6 DEF Stopped, Busy
  <2>2. Absent(s)'
    BY <1>6 DEF Stopped, Absent
  <2>3. CutDead(s)'
    BY <1>6 DEF Stopped, CutDead
  <2>4. Counts(s)'
    BY <1>6, <2>1 DEF Stopped, Counts
  <2>5. QED
    BY <2>2, <2>3, <2>4
<1>7. CASE Forgotten(s)
  <2>1. Busy(s)' = 0 /\ Len(queue'[s]) = 0
    BY <1>7 DEF Forgotten, Busy
  <2>2. QED
    BY <1>7, <2>1 DEF Forgotten, Absent, CutDead, Counts
<1>8. QED
  BY <1>2, <1>3, <1>4, <1>5, <1>6, <1>7 DEF Counting

LEMMA CountingTogether ==
    ASSUME Types, Types', Counted, \A s \in Subs : Counting(s)
    PROVE  Counted'
<1>1. ASSUME NEW s \in Subs
      PROVE  Absent(s)' /\ CutDead(s)' /\ Counts(s)'
  BY CountingKeeps DEF Counted
<1>2. QED
  BY <1>1 DEF Counted

(* task_done and an offer in one step. *)
LEMMA OfferCounts ==
    ASSUME Types, NEW topic, Offer(topic), NEW s \in Subs
    PROVE  Len(queue'[s]) = Len(queue[s]) + Put(s, topic) /\ Put(s, topic) \in {0, 1}
<1>1. queue[s] \in Seq(Nat) /\ published + 1 \in Nat
  BY DEF Types
<1>2. CASE Put(s, topic) = 1 /\ Queued(s)
  BY <1>1, <1>2, AppendSeq DEF Queued
<1>3. CASE Put(s, topic) = 0 /\ Missed(s)
  <2>1. Len(queue[s]) \in Nat
    BY <1>1
  <2>2. QED
    BY <1>3, <2>1 DEF Missed
<1>4. QED
  BY <1>2, <1>3, OfferEffect

LEMMA CountsStep == Types /\ Counted /\ [Next]_vars => Types' /\ Counted'
<1> SUFFICES ASSUME Types, Counted, [Next]_vars
             PROVE  Types' /\ (Types' => \A s \in Subs : Counting(s))
  BY CountingTogether
<1> DEFINE Goal == Types' /\ (Types' => \A s \in Subs : Counting(s))
<1> USE DEF Goal
<1>1. ASSUME NEW topic \in Topics, Publish(topic)  PROVE Goal
  <2>1. Offer(topic)
    BY <1>1 DEF Publish
  <2>2. unfinished' = [s \in Subs |-> unfinished[s] + Put(s, topic)]
        /\ UNCHANGED <<subscribed, worker, handling, handled, cut, joining>>
    BY <1>1 DEF Publish
  <2>3. Types'
    BY <2>1, <2>2, OfferTypes DEF Types, Put
  <2>4. ASSUME NEW s \in Subs PROVE Counting(s)
    <3>1. Len(queue'[s]) = Len(queue[s]) + Put(s, topic) /\ Put(s, topic) \in {0, 1}
      BY <2>1, OfferCounts
    <3>2. unfinished'[s] = unfinished[s] + Put(s, topic)
      BY <2>2
    <3>3. Len(queue[s]) \in Nat /\ unfinished[s] \in Nat
      BY FieldTypes
    <3>4. unfinished'[s] + Len(queue[s]) = unfinished[s] + Len(queue'[s])
      BY <3>1, <3>2, <3>3
    <3>5. QED
      BY <2>2, <3>4 DEF Counting, Steady, Enrols, Engages, Finishes
  <2>5. QED
    BY <2>3, <2>4
<1>2. CASE Subscribe
  <2>1. /\ UNCHANGED <<queue, unfinished, cut, published, joining, handling, handled, dropped>>
        /\ subscribed' = subscribed + 1
    BY <1>2 DEF Subscribe, history
  <2>2. Types'
    <3>1. worker' \in [Subs -> {"none", "idle", "busy", "dead"}]
      BY <1>2 DEF Subscribe, Types
    <3>2. subscribed' \in Nat
      BY <2>1 DEF Types
    <3>3. QED
      BY <2>1, <3>1, <3>2 DEF Types
  <2>3. ASSUME NEW s \in Subs PROVE Counting(s)
    <3>1. s \in Int /\ subscribed \in Nat /\ Len(queue[s]) \in Nat /\ unfinished[s] \in Nat
      BY FieldTypes
    <3>2. CASE s = subscribed + 1
      <4>1. worker[s] = "none" /\ cut[s] = {}
        BY <3>1, <3>2 DEF Counted, Absent
      <4>2. worker'[s] \in {"none", "idle"}
        BY <1>2, <3>2 DEF Subscribe, Types
      <4>3. QED
        BY <2>1, <3>1, <3>2, <4>1, <4>2 DEF Counting, Steady, Enrols, Engages, Finishes
    <3>3. CASE s <= subscribed
      <4>1. worker'[s] = worker[s]
        BY <1>2, <3>1, <3>3 DEF Subscribe, Types
      <4>2. QED
        BY <2>1, <3>1, <3>3, <4>1 DEF Counting, Steady, Enrols, Engages, Finishes
    <3>4. CASE s > subscribed + 1
      <4>1. worker'[s] = worker[s] /\ worker[s] = "none" /\ cut[s] = {}
        BY <1>2, <3>1, <3>4 DEF Subscribe, Types, Counted, Absent
      <4>2. unfinished'[s] + Len(queue[s]) = unfinished[s] + Len(queue'[s])
        BY <2>1, <3>1
      <4>3. QED
        BY <2>1, <3>1, <3>4, <4>1, <4>2 DEF Counting, Steady, Enrols, Engages, Finishes
    <3>5. QED
      BY <3>1, <3>2, <3>3, <3>4
  <2>4. QED
    BY <2>2, <2>3
<1>3. CASE Start
  <2>1. Types'
    BY <1>3 DEF Start, Types, history
  <2>2. UNCHANGED <<queue, unfinished, cut, subscribed>>
    BY <1>3 DEF Start, history
  <2>3. ASSUME NEW s \in Subs PROVE Counting(s)
    <3>1. s \in Int /\ subscribed \in Nat /\ Len(queue[s]) \in Nat /\ unfinished[s] \in Nat
      BY FieldTypes
    <3>2. worker'[s] = IF s <= subscribed /\ worker[s] = "none" THEN "idle" ELSE worker[s]
      BY <1>3 DEF Start
    <3>3. worker[s] = "none" => cut[s] = {}
      BY DEF Counted, CutDead
    <3>4. CASE s <= subscribed /\ worker[s] = "none"
      BY <2>2, <3>1, <3>2, <3>3, <3>4 DEF Counting, Enrols
    <3>5. CASE ~(s <= subscribed /\ worker[s] = "none")
      <4>1. unfinished'[s] + Len(queue[s]) = unfinished[s] + Len(queue'[s])
        BY <2>2, <3>1
      <4>2. QED
        BY <2>2, <3>2, <3>5, <4>1 DEF Counting, Steady
    <3>6. QED
      BY <3>4, <3>5
  <2>4. QED
    BY <2>1, <2>3
<1>4. ASSUME NEW t \in Subs, Take(t)  PROVE Goal
  <2>1. queue[t] \in Seq(Nat) /\ queue[t] # <<>> /\ worker[t] = "idle"
    BY <1>4 DEF Take, Types
  <2>2. /\ Head(queue[t]) \in Nat /\ Tail(queue[t]) \in Seq(Nat)
        /\ Len(Tail(queue[t])) = Len(queue[t]) - 1
    BY <2>1, TailSeq
  <2>3. Types'
    BY <1>4, <2>2 DEF Take, Types, history
  <2>4. UNCHANGED <<subscribed, cut, unfinished>>
    BY <1>4 DEF Take, history
  <2>5. ASSUME NEW s \in Subs PROVE Counting(s)
    <3>1. CASE s = t
      <4>1. worker'[s] = "busy" /\ queue'[s] = Tail(queue[s])
        BY <1>4, <3>1 DEF Take, Types
      <4>2. QED
        BY <2>1, <2>2, <2>4, <3>1, <4>1 DEF Counting, Steady, Enrols, Engages, Finishes
    <3>2. CASE s # t
      <4>1. worker'[s] = worker[s] /\ queue'[s] = queue[s]
        BY <1>4, <3>2 DEF Take, Types
      <4>2. QED
        BY <2>4, <4>1, FieldTypes DEF Counting, Steady, Enrols, Engages, Finishes
    <3>3. QED
      BY <3>1, <3>2
  <2>6. QED
    BY <2>3, <2>5
<1>5. ASSUME NEW t \in Subs, Settle(t), unfinished' \in [Subs -> Nat],
             \A s \in Subs : unfinished'[s] + Len(queue[s]) + (IF s = t THEN 1 ELSE 0)
                = unfinished[s] + Len(queue'[s]),
             published' \in Nat, queue' \in [Subs -> Seq(Nat)], dropped' \in [Subs -> SUBSET Nat]
      PROVE  Goal
  <2>1. Types'
    BY <1>5 DEF Settle, Types
  <2>2. ASSUME NEW s \in Subs PROVE Counting(s)
    <3>1. UNCHANGED <<subscribed, cut>> /\ worker[t] = "busy"
          /\ worker'[s] = IF s = t THEN "idle" ELSE worker[s]
      BY <1>5 DEF Settle, Types
    <3>2. Len(queue[s]) \in Nat /\ Len(queue'[s]) \in Nat
      <4>1. queue[s] \in Seq(Nat) /\ queue'[s] \in Seq(Nat)
        BY <1>5 DEF Types
      <4>2. QED
        BY <4>1
    <3>3. CASE s = t
      BY <1>5, <3>1, <3>3 DEF Counting, Steady, Enrols, Engages, Finishes
    <3>4. CASE s # t
      <4>1. unfinished'[s] + Len(queue[s]) + 0 = unfinished[s] + Len(queue'[s])
        BY <1>5, <3>4
      <4>2. QED
        <5>1. unfinished[s] \in Nat /\ unfinished'[s] \in Nat
          BY <1>5 DEF Types
        <5>2. unfinished'[s] + Len(queue[s]) = unfinished[s] + Len(queue'[s])
          BY <3>2, <4>1, <5>1
        <5>3. QED
          BY <3>1, <3>4, <5>2 DEF Counting, Steady, Enrols, Engages, Finishes
    <3>5. QED
      BY <3>3, <3>4
  <2>3. QED
    BY <2>1, <2>2
<1>6. ASSUME NEW t \in Subs, HandlerReturns(t) \/ HandlerFails(t)  PROVE Goal
  <2>1. Settle(t) /\ unfinished[t] >= 1
    <3>1. Settle(t)
      BY <1>6 DEF HandlerReturns, HandlerFails
    <3>2. unfinished[t] = Len(queue[t]) + 1
      BY <3>1, BusyCounts DEF Settle
    <3>3. QED
      BY <3>1, <3>2, FieldTypes
  <2>2. CASE HandlerFails(t) \/ (HandlerReturns(t) /\ Emits[t] = Silent)
    <3>1. unfinished' = [unfinished EXCEPT ![t] = @ - 1] /\ UNCHANGED <<published, queue, dropped>>
      BY <2>2 DEF HandlerFails, HandlerReturns
    <3>2. unfinished' \in [Subs -> Nat]
      BY <2>1, <3>1 DEF Types
    <3>3. ASSUME NEW s \in Subs
          PROVE unfinished'[s] + Len(queue[s]) + (IF s = t THEN 1 ELSE 0)
                = unfinished[s] + Len(queue'[s])
      <4>1. unfinished'[s] = unfinished[s] - (IF s = t THEN 1 ELSE 0)
        BY <3>1, FieldTypes DEF Types
      <4>2. Len(queue'[s]) = Len(queue[s])
        BY <3>1
      <4>3. QED
        BY <4>1, <4>2, FieldTypes
    <3>4. published' \in Nat /\ queue' \in [Subs -> Seq(Nat)] /\ dropped' \in [Subs -> SUBSET Nat]
      BY <3>1 DEF Types
    <3>5. QED
      BY <1>5, <2>1, <3>2, <3>3, <3>4
  <2>3. CASE HandlerReturns(t) /\ Emits[t] # Silent
    <3>1. /\ Offer(Emits[t])
          /\ unfinished' = [s \in Subs |-> unfinished[s] + Put(s, Emits[t])
                                           - (IF s = t THEN 1 ELSE 0)]
      BY <2>3 DEF HandlerReturns
    <3>2. unfinished' \in [Subs -> Nat]
      BY <2>1, <3>1 DEF Put, Types
    <3>3. ASSUME NEW s \in Subs
          PROVE unfinished'[s] + Len(queue[s]) + (IF s = t THEN 1 ELSE 0)
                = unfinished[s] + Len(queue'[s])
      <4>1. Len(queue'[s]) = Len(queue[s]) + Put(s, Emits[t]) /\ Put(s, Emits[t]) \in {0, 1}
        BY <3>1, OfferCounts
      <4>2. unfinished'[s] = unfinished[s] + Put(s, Emits[t]) - (IF s = t THEN 1 ELSE 0)
        BY <3>1
      <4>3. Len(queue[s]) \in Nat /\ unfinished[s] \in Nat
        BY FieldTypes
      <4>4. QED
        BY <4>1, <4>2, <4>3
    <3>4. QED
      BY <1>5, <2>1, <3>1, <3>2, <3>3, OfferTypes
  <2>4. QED
    BY <1>6, <2>2, <2>3
<1>7. CASE Stop
  <2>1. Types'
    BY <1>7 DEF Stop, Types, TwiceDone
  <2>2. ASSUME NEW s \in Subs PROVE Counting(s)
    BY <1>7 DEF Stop, Counting, Stopped
  <2>3. QED
    BY <2>1, <2>2
<1>8. CASE Reset
  <2>1. Types'
    BY <1>8 DEF Reset, Types
  <2>2. QED
    BY <1>8, <2>1 DEF Reset, Counting, Forgotten
<1>9. CASE JoinBegin \/ JoinNext \/ JoinReturns \/ UNCHANGED vars
  <2>1. UNCHANGED <<published, subscribed, queue, unfinished, worker, handling, handled, dropped, cut>>
    BY <1>9 DEF JoinBegin, JoinNext, JoinReturns, vars, history
  <2>2. joining' \in Nat
    BY <1>9 DEF JoinBegin, JoinNext, JoinReturns, vars, Types
  <2>3. Types'
    BY <2>1, <2>2 DEF Types
  <2>4. ASSUME NEW s \in Subs PROVE Counting(s)
    BY <2>1, FieldTypes DEF Counting, Steady, Enrols, Engages, Finishes
  <2>5. QED
    BY <2>3, <2>4
<1>10. QED
  BY <1>1, <1>2, <1>3, <1>4, <1>6, <1>7, <1>8, <1>9 DEF Next, Work

(* asyncio.Queue's count is exact unless a handler was cancelled, for any   *)
(* number of subscribers, whatever they publish to each other.              *)
THEOREM CountsAreExact == Spec => []CountExact
<1>1. Types /\ Counted => CountExact
  BY DEF Counted, Counts, CountExact
<1>2. QED
  BY <1>1, InitCounted, CountsStep, PTL DEF Spec
------------------------------------------------------------------------------
(* Order and uniqueness *)

(* One subscriber's events, by where they are: what waits is in rising      *)
(* order, what is in the handler precedes it, and what is over precedes     *)
(* both; nothing refused is anywhere else.                                  *)
Past(s)   == handled[s] \cup cut[s]
Known(s)  == /\ \A e \in Past(s) \cup dropped[s] : e <= published
             /\ worker[s] = "busy" => handling[s] <= published
             /\ \A i \in DOMAIN queue[s] : queue[s][i] <= published
Rising(s) == /\ \A i, j \in DOMAIN queue[s] : i < j => queue[s][i] < queue[s][j]
             /\ \A e \in Past(s), i \in DOMAIN queue[s] : e < queue[s][i]
             /\ worker[s] = "busy" =>
                   /\ \A i \in DOMAIN queue[s] : handling[s] < queue[s][i]
                   /\ \A e \in Past(s) : e < handling[s]
Apart(s)  == /\ \A e \in dropped[s], i \in DOMAIN queue[s] : e # queue[s][i]
             /\ worker[s] = "busy" => handling[s] \notin dropped[s]
             /\ dropped[s] \cap Past(s) = {} /\ handled[s] \cap cut[s] = {}
Placed(s) == Known(s) /\ Rising(s) /\ Apart(s)
Sorted    == \A s \in Subs : Placed(s)

LEMMA QueueTypes ==
    ASSUME Types, NEW s \in Subs
    PROVE  /\ published \in Nat /\ handling[s] \in Nat
           /\ \A i \in DOMAIN queue[s] : queue[s][i] \in Nat
           /\ \A e \in Past(s) \cup dropped[s] : e \in Nat
<1>1. queue[s] \in Seq(Nat)
  BY DEF Types
<1>2. \A i \in DOMAIN queue[s] : queue[s][i] \in Nat
  BY <1>1
<1>3. QED
  BY <1>2 DEF Types, Past

(* The events that wait after an offer: those before it, and the new one. *)
LEMMA ReceivesQueue ==
    ASSUME Types, NEW s \in Subs, Receives(s)
    PROVE  /\ \A j \in DOMAIN queue'[s] :
                 \/ j \in DOMAIN queue[s] /\ queue'[s][j] = queue[s][j]
                 \/ /\ queue'[s][j] = published + 1 /\ published' = published + 1
                    /\ \A i \in DOMAIN queue[s] : i < j
                    /\ \A i \in DOMAIN queue'[s] : i <= j
                    /\ dropped'[s] = dropped[s]
           /\ published' \in {published, published + 1}
           /\ dropped'[s] \in {dropped[s], dropped[s] \cup {published'}}
           /\ dropped'[s] # dropped[s] => published' = published + 1
<1>1. queue[s] \in Seq(Nat) /\ published + 1 \in Nat
  BY DEF Types
<1>2. CASE Queued(s)
  <2>1. /\ DOMAIN queue'[s] = 1 .. Len(queue[s]) + 1 /\ DOMAIN queue[s] = 1 .. Len(queue[s])
        /\ \A i \in DOMAIN queue[s] : queue'[s][i] = queue[s][i]
        /\ queue'[s][Len(queue[s]) + 1] = published + 1 /\ Len(queue[s]) \in Nat
    BY <1>1, <1>2, AppendSeq DEF Queued
  <2>2. QED
    BY <1>2, <2>1 DEF Queued
<1>3. CASE Missed(s)
  BY <1>3 DEF Missed
<1>4. CASE Nothing(s)
  BY <1>4 DEF Nothing
<1>5. QED
  BY <1>2, <1>3, <1>4 DEF Receives

(* An offer leaves the places in order, with the same or no event in the    *)
(* handler, or with the handled one moved to the past.                      *)
LEMMA ReceivesPlaced ==
    ASSUME Types, NEW s \in Subs, Receives(s), Placed(s), worker'[s] # "busy" \/ worker[s] = "busy",
           worker'[s] = "busy" => handling'[s] = handling[s] /\ handled'[s] = handled[s],
           handled'[s] = handled[s] \/ (worker[s] = "busy" /\ handled'[s] = handled[s] \cup {handling[s]}),
           cut'[s] = cut[s]
    PROVE  Placed(s)'
<1>2. /\ \A e \in Past(s)' : e \in Past(s) \/ (worker[s] = "busy" /\ e = handling[s])
      /\ \A e \in Past(s) : e \in Past(s)'
  BY DEF Past
<1>3. /\ published \in Nat /\ published' \in {published, published + 1}
      /\ handling[s] \in Nat
      /\ \A i \in DOMAIN queue[s] : queue[s][i] \in Nat
      /\ \A e \in Past(s) \cup dropped[s] : e \in Nat
  BY QueueTypes, ReceivesQueue
<1>4. Known(s)'
  <2>1. \A e \in Past(s)' : e <= published'
    BY <1>2, <1>3 DEF Placed, Known
  <2>2. \A e \in dropped'[s] : e <= published'
    BY <1>3, ReceivesQueue DEF Placed, Known
  <2>3. worker'[s] = "busy" => handling'[s] <= published'
    BY <1>3 DEF Placed, Known
  <2>4. \A i \in DOMAIN queue'[s] : queue'[s][i] <= published'
    BY <1>3, ReceivesQueue DEF Placed, Known
  <2>5. QED
    BY <2>1, <2>2, <2>3, <2>4 DEF Known
<1>5. Rising(s)'
  <2>1. ASSUME NEW i \in DOMAIN queue'[s], NEW j \in DOMAIN queue'[s], i < j
        PROVE  queue'[s][i] < queue'[s][j]
    <3>1. i \in DOMAIN queue[s] /\ queue'[s][i] = queue[s][i]
      <4>1. queue'[s] \in Seq(Nat)
        <5>1. queue[s] \in Seq(Nat) /\ published + 1 \in Nat
          BY DEF Types
        <5>2. QED
          BY <5>1, AppendSeq DEF Receives, Queued, Missed, Nothing
      <4>2. i \in Nat /\ j \in Nat
        BY <4>1
      <4>3. QED
        BY <2>1, <4>2, ReceivesQueue
    <3>2. QED
      BY <1>3, <2>1, <3>1, ReceivesQueue DEF Placed, Known, Rising
  <2>2. ASSUME NEW e \in Past(s)', NEW i \in DOMAIN queue'[s]
        PROVE  e < queue'[s][i]
    <3>1. CASE i \in DOMAIN queue[s] /\ queue'[s][i] = queue[s][i]
      BY <1>2, <3>1 DEF Placed, Rising
    <3>2. CASE queue'[s][i] = published + 1
      <4>1. e <= published /\ e \in Nat
        BY <1>2, <1>3 DEF Placed, Known
      <4>2. QED
        BY <1>3, <3>2, <4>1
    <3>3. QED
      BY <3>1, <3>2, ReceivesQueue
  <2>3. ASSUME worker'[s] = "busy"
        PROVE  /\ \A i \in DOMAIN queue'[s] : handling'[s] < queue'[s][i]
               /\ \A e \in Past(s)' : e < handling'[s]
    <3>1. worker[s] = "busy" /\ handling'[s] = handling[s] /\ Past(s)' = Past(s)
      BY <2>3 DEF Past
    <3>2. handling[s] <= published
      BY <3>1 DEF Placed, Known
    <3>3. QED
      BY <1>3, <3>1, <3>2, ReceivesQueue DEF Placed, Rising
  <2>4. QED
    BY <2>1, <2>2, <2>3 DEF Rising
<1>6. Apart(s)'
  <2>1. ASSUME NEW e \in dropped'[s], NEW i \in DOMAIN queue'[s]
        PROVE  e # queue'[s][i]
    BY <1>3, ReceivesQueue DEF Placed, Known, Apart
  <2>2. ASSUME worker'[s] = "busy"
        PROVE  handling'[s] \notin dropped'[s]
    BY <1>3, <2>2, ReceivesQueue DEF Placed, Known, Apart
  <2>3. ASSUME NEW e \in dropped'[s] PROVE e \notin Past(s)'
    BY <1>2, <1>3, ReceivesQueue DEF Placed, Known, Apart
  <2>4. handled'[s] \cap cut'[s] = {}
    <3>1. ASSUME worker[s] = "busy" PROVE handling[s] \notin cut[s]
      BY <1>3, <3>1 DEF Placed, Rising, Past
    <3>2. handled[s] \cap cut[s] = {}
      BY DEF Placed, Apart
    <3>3. QED
      BY <3>1, <3>2
  <2>5. QED
    BY <2>1, <2>2, <2>3, <2>4 DEF Apart
<1>7. QED
  BY <1>4, <1>5, <1>6 DEF Placed

(* The worker takes the first of the waiting events. *)
LEMMA BeginsPlaced ==
    ASSUME Types, NEW s \in Subs, Begins(s), Placed(s)
    PROVE  Placed(s)'
<1>1. queue[s] \in Seq(Nat) /\ queue[s] # <<>>
  BY DEF Types, Begins
<1>2. /\ DOMAIN queue'[s] = 1 .. Len(queue[s]) - 1 /\ DOMAIN queue[s] = 1 .. Len(queue[s])
      /\ \A i \in DOMAIN queue'[s] : queue'[s][i] = queue[s][i + 1] /\ i + 1 \in DOMAIN queue[s]
      /\ 1 \in DOMAIN queue[s] /\ handling'[s] = queue[s][1] /\ Len(queue[s]) \in Nat
  BY <1>1, TailSeq DEF Begins
<1>3. Past(s)' = Past(s) /\ UNCHANGED <<published, handled[s], cut[s], dropped[s]>>
  BY DEF Begins, Past
<1>4. Known(s)'
  BY <1>2, <1>3 DEF Placed, Known
<1>5. Rising(s)'
  <2>1. ASSUME NEW i \in DOMAIN queue'[s], NEW j \in DOMAIN queue'[s], i < j
        PROVE  queue'[s][i] < queue'[s][j]
    <3>1. i + 1 \in DOMAIN queue[s] /\ j + 1 \in DOMAIN queue[s] /\ i + 1 < j + 1
      BY <1>2, <2>1
    <3>2. queue'[s][i] = queue[s][i + 1] /\ queue'[s][j] = queue[s][j + 1]
      BY <1>2
    <3>3. QED
      BY <3>1, <3>2 DEF Placed, Rising
  <2>2. ASSUME NEW i \in DOMAIN queue'[s] PROVE handling'[s] < queue'[s][i]
    BY <1>2 DEF Placed, Rising
  <2>3. QED
    BY <1>2, <1>3, <2>1, <2>2 DEF Placed, Rising
<1>6. Apart(s)'
  BY <1>2, <1>3 DEF Placed, Apart
<1>7. QED
  BY <1>4, <1>5, <1>6 DEF Placed

(* A stop moves the event of a busy worker to the past. *)
LEMMA HaltsPlaced ==
    ASSUME Types, NEW s \in Subs, Halts(s), Placed(s)
    PROVE  Placed(s)'
<1>1. /\ UNCHANGED <<published, queue[s], dropped[s], handled[s]>> /\ worker'[s] # "busy"
  BY DEF Halts, Nothing
<1>2. /\ \A e \in Past(s)' : e \in Past(s) \/ (worker[s] = "busy" /\ e = handling[s])
      /\ \A e \in cut'[s] : e \in cut[s] \/ (worker[s] = "busy" /\ e = handling[s])
  BY <1>1 DEF Halts, Past
<1>3. handling[s] \in Nat /\ \A e \in Past(s) \cup dropped[s] : e \in Nat
  BY QueueTypes
<1>4. Known(s)'
  BY <1>1, <1>2 DEF Placed, Known
<1>5. Rising(s)'
  BY <1>1, <1>2 DEF Placed, Rising
<1>6. Apart(s)'
  <2>1. worker[s] = "busy" => handling[s] \notin handled[s]
    BY <1>3 DEF Placed, Rising, Past
  <2>2. handled'[s] \cap cut'[s] = {}
    BY <1>1, <1>2, <2>1 DEF Placed, Apart
  <2>3. dropped'[s] \cap Past(s)' = {}
    BY <1>1, <1>2 DEF Placed, Apart
  <2>4. QED
    BY <1>1, <2>2, <2>3 DEF Placed, Apart
<1>7. QED
  BY <1>4, <1>5, <1>6 DEF Placed

LEMMA EmptyPlaced ==
    ASSUME NEW s \in Subs, queue[s] = <<>>, worker[s] = "none",
           handled[s] = {}, dropped[s] = {}, cut[s] = {}
    PROVE  Placed(s)
  BY DEF Placed, Known, Rising, Apart, Past

LEMMA SortedStep == Types /\ Sorted /\ [Next]_vars => Sorted'
<1> SUFFICES ASSUME Types, Sorted, [Next]_vars, NEW s \in Subs
             PROVE  Placed(s)'
  BY DEF Sorted
<1>1. Placed(s)
  BY DEF Sorted
<1>2. CASE Bystands(s)
  BY <1>1, <1>2, ReceivesPlaced DEF Bystands
<1>3. CASE Begins(s)
  BY <1>1, <1>3, BeginsPlaced
<1>4. CASE Ends(s)
  BY <1>1, <1>4, ReceivesPlaced DEF Ends
<1>5. CASE Halts(s)
  BY <1>1, <1>5, HaltsPlaced
<1>6. CASE Vanishes(s)
  BY <1>6 DEF Vanishes, Placed, Known, Rising, Apart, Past
<1>7. QED
  BY <1>2, <1>3, <1>4, <1>5, <1>6, StepOfOne

LEMMA InitSorted == Init => Sorted
  BY EmptyPlaced DEF Init, Sorted

LEMMA Places == Spec => [](Types /\ Counted /\ Sorted)
<1>1. Init => Types /\ Counted /\ Sorted
  BY InitCounted, InitSorted
<1>2. Types /\ Counted /\ Sorted /\ [Next]_vars => (Types /\ Counted /\ Sorted)'
  BY CountsStep, SortedStep
<1>3. QED
  BY <1>1, <1>2, PTL DEF Spec

LEMMA WaitingPlaces ==
    ASSUME Types, NEW s \in Subs, NEW w \in Waiting(s)
    PROVE  \/ \E i \in DOMAIN queue[s] : w = queue[s][i]
           \/ worker[s] = "busy" /\ w = handling[s]
  BY DEF Waiting, ToSet

(* A handler sees its events in the order of publication, whatever is       *)
(* dropped, fails, is stopped or restarted in between.                      *)
THEOREM OrderKept == Spec => []InOrder
<1>1. Types /\ Sorted => InOrder
  <2> SUFFICES ASSUME Types, Sorted, NEW s \in Subs, NEW e \in Past(s), NEW w \in Waiting(s)
               PROVE  e < w
    BY DEF InOrder, Past
  <2>1. Rising(s)
    BY DEF Sorted, Placed
  <2>2. QED
    BY <2>1, WaitingPlaces DEF Rising
<1>2. QED
  BY <1>1, Places, PTL

(* No subscriber gets an event twice, and none is both refused and handled. *)
THEOREM DeliveredOnce == Spec => []OnceEach
<1>1. Types /\ Sorted => OnceEach
  <2> SUFFICES ASSUME Types, Sorted, NEW s \in Subs
               PROVE  /\ \A i, j \in DOMAIN queue[s] : i # j => queue[s][i] # queue[s][j]
                      /\ worker[s] = "busy" => handling[s] \notin ToSet(queue[s])
                      /\ Waiting(s) \cap (handled[s] \cup dropped[s] \cup cut[s]) = {}
                      /\ handled[s] \cap (dropped[s] \cup cut[s]) = {}
                      /\ dropped[s] \cap cut[s] = {}
    BY DEF OnceEach
  <2>1. Rising(s) /\ Apart(s)
    BY DEF Sorted, Placed
  <2>2. queue[s] \in Seq(Nat) /\ handling[s] \in Nat
    BY DEF Types
  <2>3. /\ \A i \in DOMAIN queue[s] : i \in Nat /\ queue[s][i] \in Nat
        /\ \A e \in Past(s) \cup dropped[s] : e \in Nat
    BY <2>2, QueueTypes
  <2>4. ASSUME NEW i \in DOMAIN queue[s], NEW j \in DOMAIN queue[s], i # j
        PROVE  queue[s][i] # queue[s][j]
    BY <2>1, <2>3, <2>4 DEF Rising
  <2>5. worker[s] = "busy" => handling[s] \notin ToSet(queue[s])
    BY <2>1, <2>2, <2>3 DEF Rising, ToSet
  <2>6. ASSUME NEW w \in Waiting(s) PROVE w \notin Past(s) \cup dropped[s]
    BY <2>1, <2>2, <2>3, WaitingPlaces DEF Rising, Apart
  <2>7. Waiting(s) \cap (handled[s] \cup dropped[s] \cup cut[s]) = {}
    BY <2>6 DEF Past
  <2>8. QED
    BY <2>1, <2>4, <2>5, <2>7 DEF Apart, Past
<1>2. QED
  BY <1>1, Places, PTL
------------------------------------------------------------------------------
(* A graceful stop *)

LEMMA EmptyQueue == ASSUME NEW q \in Seq(Nat), Len(q) = 0 PROVE q = <<>>
  OBVIOUS

LEMMA DrainedCount ==
    ASSUME Types, Counted, NEW s \in Subs, unfinished[s] = 0, cut[s] = {}
    PROVE  Drained(s)
<1>1. unfinished[s] = Len(queue[s]) + Busy(s)
  BY DEF Counted, Counts
<1>2. queue[s] \in Seq(Nat) /\ Len(queue[s]) \in Nat /\ Busy(s) \in {0, 1}
  BY FieldTypes
<1>3. Len(queue[s]) = 0 /\ Busy(s) = 0
  BY <1>1, <1>2
<1>4. queue[s] = <<>>
  BY <1>2, <1>3, EmptyQueue
<1>5. QED
  BY <1>3, <1>4 DEF Drained, Busy

(* A step that offers nothing leaves a drained subscriber drained. *)
LEMMA StaysDrained ==
    ASSUME Types, [Next]_vars, NEW s \in Subs, Drained(s), queue'[s] = queue[s] \/ Nothing(s)
    PROVE  Drained(s)'
<1>1. queue[s] = <<>> /\ worker[s] # "busy" /\ queue'[s] = <<>>
  BY DEF Drained, Nothing
<1>2. worker'[s] # "busy"
  BY <1>1, StepOfOne DEF Bystands, Begins, Ends, Halts, Vanishes
<1>3. QED
  BY <1>1, <1>2 DEF Drained

LEMMA JoinStep == Types /\ Counted /\ JoinDrains /\ [Next]_vars => JoinDrains'
<1> SUFFICES ASSUME Types, Counted, JoinDrains, [Next]_vars, EmitsForward, quiet',
                    NEW s \in Subs, s < joining', cut'[s] = {}
             PROVE  Drained(s)'
  BY DEF JoinDrains, EmitsForward
<1>1. s \in Nat /\ s >= 1 /\ joining \in Nat
  BY DEF Subs, Types
<1>2. ASSUME joining' = joining, quiet' = quiet, cut[s] = {}  PROVE Drained(s)
  BY <1>2 DEF JoinDrains
<1>3. ASSUME NEW topic \in Topics, Publish(topic)  PROVE Drained(s)'
  BY <1>3 DEF Publish
<1>4. CASE Subscribe \/ Start
  <2>1. UNCHANGED <<joining, quiet, cut, queue>>
    BY <1>4 DEF Subscribe, Start, history
  <2>2. QED
    BY <1>2, <2>1, StaysDrained
<1>5. ASSUME NEW t \in Subs, Take(t)  PROVE Drained(s)'
  <2>1. UNCHANGED <<joining, quiet, cut>> /\ queue[t] # <<>>
    BY <1>5 DEF Take, history
  <2>2. Drained(s)
    BY <1>2, <2>1
  <2>3. queue'[s] = queue[s]
    BY <1>5, <2>1, <2>2 DEF Take, Types, Drained
  <2>4. QED
    BY <2>2, <2>3, StaysDrained
<1>6. ASSUME NEW t \in Subs, HandlerReturns(t) \/ HandlerFails(t)  PROVE Drained(s)'
  <2>1. /\ UNCHANGED <<joining, quiet, cut>> /\ worker[t] = "busy"
        /\ (UNCHANGED queue) \/ (Emits[t] # Silent /\ Offer(Emits[t]))
    BY <1>6 DEF HandlerReturns, HandlerFails, Settle
  <2>2. Drained(s) /\ cut[t] = {}
    BY <1>2, <2>1, BusyCounts
  <2>3. ~(t < joining)
    <3>1. t < joining => Drained(t)
      BY <2>1, <2>2 DEF JoinDrains
    <3>2. QED
      BY <2>1, <3>1 DEF Drained
  <2>4. CASE UNCHANGED queue
    BY <2>2, <2>4, StaysDrained
  <2>5. CASE Emits[t] # Silent /\ Offer(Emits[t])
    <3>1. Topic[s] # Emits[t]
      <4>1. Topic[s] = Emits[t] => t < s
        BY DEF EmitsForward
      <4>2. t \in Nat
        BY DEF Subs
      <4>3. QED
        BY <1>1, <2>1, <2>3, <4>1, <4>2
    <3>2. ~Accepts(s, Emits[t])
      BY <3>1 DEF Accepts, Takes
    <3>3. queue'[s] = queue[s]
      BY <2>5, <3>2 DEF Offer
    <3>4. QED
      BY <2>2, <3>3, StaysDrained
  <2>6. QED
    BY <2>1, <2>4, <2>5
<1>7. CASE Stop
  <2>1. UNCHANGED <<joining, quiet, queue>> /\ cut[s] = {}
    BY <1>7 DEF Stop
  <2>2. QED
    BY <1>2, <2>1, StaysDrained
<1>8. CASE Reset
  BY <1>1, <1>8 DEF Reset
<1>9. CASE JoinBegin
  BY <1>1, <1>9 DEF JoinBegin
<1>10. CASE JoinNext
  <2>1. UNCHANGED <<quiet, cut, queue>> /\ joining' = joining + 1 /\ unfinished[joining] = 0
    BY <1>10 DEF JoinNext, history
  <2>2. CASE s = joining
    BY <2>1, <2>2, DrainedCount, StaysDrained
  <2>3. CASE s < joining
    <3>1. Drained(s)
      BY <2>1, <2>3 DEF JoinDrains
    <3>2. QED
      BY <2>1, <3>1, StaysDrained
  <2>4. QED
    BY <1>1, <2>1, <2>2, <2>3
<1>11. CASE JoinReturns
  BY <1>11 DEF JoinReturns
<1>12. CASE UNCHANGED vars
  <2>1. UNCHANGED <<joining, quiet, cut, queue>>
    BY <1>12 DEF vars, history
  <2>2. QED
    BY <1>2, <2>1, StaysDrained
<1>13. QED
  BY <1>3, <1>4, <1>5, <1>6, <1>7, <1>8, <1>9, <1>10, <1>11, <1>12 DEF Next, Work

(* join looks at one queue after the other, and yet, if nothing comes from  *)
(* outside and handlers publish only to those behind them, every queue it   *)
(* has passed is still drained: for any number of subscribers.              *)
THEOREM JoinLeavesNothing == Spec => []JoinDrains
<1>1. Init => JoinDrains
  BY DEF Init, JoinDrains
<1>2. QED
  BY <1>1, JoinStep, Places, PTL DEF Spec
=============================================================================
