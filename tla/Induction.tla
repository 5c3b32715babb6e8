------------------------------ MODULE Induction ------------------------------
(***************************************************************************)
(* Induction over the natural numbers in terms of sets instead of          *)
(* predicates, the functions that recursive definitions stand for, and     *)
(* FlattenSeq, which is defined by such a function.                        *)
(***************************************************************************)
EXTENDS Integers, FiniteSets, SequencesExt, SequenceTheorems, FiniteSetTheorems,
        WellFoundedInduction, TLAPS

LEMMA NatMin ==
  ASSUME NEW S \in SUBSET Nat, S # {}
  PROVE  \E n \in S : \A m \in S : n <= m
<1>1. IsWellFoundedOn(OpToRel(<, Nat), Nat)
  BY NatLessThanWellFounded
<1>2. PICK n \in S : \A m \in S : <<m, n>> \notin OpToRel(<, Nat)
  BY <1>1, WFMin
<1>3. \A m \in S : ~(m < n)
  BY <1>2 DEF OpToRel
<1>. QED  BY <1>3

(* A set that holds 0 and the successor of each of its members holds every  *)
(* natural number.                                                         *)
LEMMA SetInduction ==
  ASSUME NEW S \in SUBSET Nat, 0 \in S, \A n \in S : n + 1 \in S
  PROVE  S = Nat
<1>1. SUFFICES ASSUME Nat \ S # {} PROVE FALSE
  OBVIOUS
<1>2. PICK n \in Nat \ S : \A m \in Nat \ S : n <= m
  BY <1>1, NatMin
<1>3. n # 0 /\ n - 1 \in Nat /\ n - 1 \in S
  BY <1>2
<1>. QED  BY <1>3

(* The same up to a bound.                                                  *)
LEMMA BoundedInduction ==
  ASSUME NEW n \in Nat, NEW S, 0 \in S, \A k \in 1 .. n : k - 1 \in S => k \in S
  PROVE  0 .. n \subseteq S
<1>. DEFINE T == {k \in Nat : k <= n => k \in S}
<1>1. 0 \in T
  OBVIOUS
<1>2. ASSUME NEW k \in T PROVE k + 1 \in T
  <2>1. k + 1 <= n => k + 1 \in 1 .. n /\ (k + 1) - 1 \in S
    OBVIOUS
  <2>2. (k + 1) \in 1 .. n /\ (k + 1) - 1 \in S => k + 1 \in S
    OBVIOUS
  <2>. QED  BY <2>1, <2>2
<1>3. T \in SUBSET Nat
  OBVIOUS
<1>4. T = Nat
  <2>. HIDE DEF T
  <2>. QED  BY <1>1, <1>2, <1>3, SetInduction
<1>. QED  BY <1>4

LEMMA MinAttained ==
  ASSUME NEW S \in SUBSET Nat, S # {}
  PROVE  Min(S) \in S /\ \A m \in S : Min(S) <= m
  BY NatMin DEF Min

(* A set of integers with an upper bound has a maximum.                     *)
LEMMA MaxAttained ==
  ASSUME NEW S \in SUBSET Int, S # {}, NEW b \in Int, \A x \in S : x <= b
  PROVE  Max(S) \in S /\ \A x \in S : Max(S) >= x
<1>. DEFINE T == {b - x : x \in S}
<1>1. T \in SUBSET Nat /\ T # {}
  <2>1. \A x \in S : b - x \in Nat /\ b - x \in T
    OBVIOUS
  <2>. QED  BY <2>1
<1>2. PICK n \in T : \A m \in T : n <= m
  <2>. HIDE DEF T
  <2>. QED  BY <1>1, NatMin
<1>3. PICK y \in S : n = b - y
  BY <1>2
<1>4. \A x \in S : b - x \in T
  OBVIOUS
<1>5. ASSUME NEW x \in S PROVE y >= x
  <2>1. n <= b - x /\ x \in Int /\ y \in Int
    BY <1>2, <1>4
  <2>. HIDE DEF T
  <2>. QED  BY <1>3, <2>1
<1>. QED  BY <1>5 DEF Max

(* n steps that map X to X, one after the other.                            *)
Steps(X, n) == [1 .. n -> [X -> X]]
Iterates(g, X, n, a, step) ==
    g \in [0 .. n -> X] /\ g[0] = a /\ \A k \in 1 .. n : g[k] = step[k][g[k - 1]]

LEMMA Iteration ==
  ASSUME NEW X, NEW n \in Nat, NEW a \in X, NEW step \in Steps(X, n)
  PROVE  \E g : Iterates(g, X, n, a, step)
<1>. USE DEF Steps
<1>. DEFINE P(m) == \E g \in [0 .. m -> X] : g[0] = a /\ \A k \in 1 .. m : g[k] = step[k][g[k - 1]]
           S == {m \in Nat : m <= n => P(m)}
<1>1. 0 \in S
  <2>. DEFINE h == [k \in 0 .. 0 |-> a]
  <2>1. h \in [0 .. 0 -> X] /\ h[0] = a /\ \A k \in 1 .. 0 : FALSE
    OBVIOUS
  <2>. HIDE DEF h
  <2>2. P(0)
    BY <2>1
  <2>. QED  BY <2>2
<1>2. ASSUME NEW m \in S PROVE m + 1 \in S
  <2>1. ASSUME m + 1 <= n PROVE P(m + 1)
    <3>1. PICK g \in [0 .. m -> X] : g[0] = a /\ \A k \in 1 .. m : g[k] = step[k][g[k - 1]]
      BY <2>1, <1>2
    <3>. DEFINE h == [k \in 0 .. m + 1 |-> IF k = m + 1 THEN step[m + 1][g[m]] ELSE g[k]]
    <3>2. m \in 0 .. m /\ g[m] \in X /\ m + 1 \in 1 .. n
      BY <2>1
    <3>3. step[m + 1][g[m]] \in X
      BY <3>2
    <3>4. h \in [0 .. m + 1 -> X] /\ h[0] = a
      BY <3>1, <3>3
    <3>5. ASSUME NEW k \in 1 .. m + 1 PROVE h[k] = step[k][h[k - 1]]
      BY <3>1
    <3>. HIDE DEF h
    <3>. QED  BY <3>4, <3>5
  <2>. HIDE DEF P
  <2>. QED  BY <2>1
<1>3. S = Nat
  <2>. HIDE DEF P
  <2>1. S \in SUBSET Nat
    OBVIOUS
  <2>. QED  BY <1>1, <1>2, <2>1, SetInduction
<1>4. n \in S
  BY <1>3
<1>. QED  BY <1>4 DEF Iterates

(* FlattenSeq appends one sequence after the other.                         *)
LEMMA Flattened ==
  ASSUME NEW T, NEW s \in Seq(Seq(T)), s # <<>>
  PROVE  \E g \in [1 .. Len(s) -> Seq(T)] :
            /\ g[1] = s[1]
            /\ \A k \in 2 .. Len(s) : g[k] = g[k - 1] \o s[k]
            /\ FlattenSeq(s) = g[Len(s)]
<1>. DEFINE n == Len(s) - 1
            step == [k \in 1 .. n |-> [u \in Seq(T) |-> u \o s[k + 1]]]
            flatten[i \in 1 .. Len(s)] == IF i = 1 THEN s[i] ELSE flatten[i - 1] \o s[i]
<1>1. n \in Nat /\ Len(s) \in Nat /\ Len(s) # 0 /\ \A i \in 1 .. Len(s) : s[i] \in Seq(T)
  OBVIOUS
<1>2. step \in [1 .. n -> [Seq(T) -> Seq(T)]] /\ s[1] \in Seq(T)
  BY <1>1
<1>3. PICK g \in [0 .. n -> Seq(T)] : g[0] = s[1] /\ \A k \in 1 .. n : g[k] = step[k][g[k - 1]]
  <2>1. step \in Steps(Seq(T), n)
    BY <1>2 DEF Steps
  <2>. HIDE DEF n, step
  <2>2. \E g : Iterates(g, Seq(T), n, s[1], step)
    BY <1>1, <1>2, <2>1, Iteration
  <2>. QED  BY <2>2 DEF Iterates
<1>. DEFINE h == [i \in 1 .. Len(s) |-> g[i - 1]]
<1>4. h = [i \in 1 .. Len(s) |-> IF i = 1 THEN s[i] ELSE h[i - 1] \o s[i]]
  <2>1. ASSUME NEW i \in 1 .. Len(s), i # 1 PROVE h[i] = h[i - 1] \o s[i]
    <3>1. i - 1 \in 1 .. n /\ (i - 1) - 1 \in 0 .. n /\ (i - 1) + 1 = i /\ i - 1 \in 1 .. Len(s)
      BY <1>1, <2>1
    <3>2. g[i - 1] = step[i - 1][g[(i - 1) - 1]] /\ g[(i - 1) - 1] \in Seq(T)
      BY <1>3, <3>1
    <3>. QED  BY <3>1, <3>2
  <2>2. h[1] = s[1]
    BY <1>1, <1>3
  <2>. QED  BY <2>1, <2>2
<1>5. flatten = [i \in 1 .. Len(s) |-> IF i = 1 THEN s[i] ELSE flatten[i - 1] \o s[i]]
  <2>. HIDE DEF h
  <2>. QED  BY <1>4
<1>6. FlattenSeq(s) = flatten[Len(s)]
  BY <1>1 DEF FlattenSeq
<1>. HIDE DEF flatten
<1>7. 0 .. n \subseteq {k \in 0 .. n : flatten[k + 1] \in Seq(T)}
  <2>. DEFINE S == {k \in 0 .. n : flatten[k + 1] \in Seq(T)}
  <2>1. 0 \in S
    BY <1>1, <1>5
  <2>2. ASSUME NEW k \in 1 .. n, k - 1 \in S PROVE k \in S
    <3>1. k + 1 \in 1 .. Len(s) /\ k + 1 # 1 /\ (k + 1) - 1 = k /\ (k - 1) + 1 = k
      BY <1>1
    <3>2. flatten[k] \in Seq(T) /\ s[k + 1] \in Seq(T)
      BY <1>1, <2>2, <3>1
    <3>3. flatten[k + 1] = flatten[k] \o s[k + 1]
      BY <1>5, <3>1
    <3>4. flatten[k] \o s[k + 1] \in Seq(T)
      BY <3>2, ConcatProperties
    <3>5. k \in 0 .. n /\ flatten[k + 1] \in Seq(T)
      BY <1>1, <3>3, <3>4
    <3>. HIDE DEF n
    <3>. QED  BY <3>5
  <2>. HIDE DEF S, n
  <2>3. 0 .. n \subseteq S
    BY <1>1, <2>1, <2>2, BoundedInduction
  <2>. QED  BY <2>3 DEF S
<1>8. ASSUME NEW i \in 1 .. Len(s) PROVE flatten[i] \in Seq(T)
  <2>1. i - 1 \in 0 .. n /\ (i - 1) + 1 = i
    BY <1>1
  <2>. QED  BY <1>7, <2>1
<1>9. flatten \in [1 .. Len(s) -> Seq(T)]
  BY <1>5, <1>8
<1>10. flatten[1] = s[1]
  BY <1>1, <1>5
<1>11. ASSUME NEW k \in 2 .. Len(s) PROVE flatten[k] = flatten[k - 1] \o s[k]
  <2>1. k \in 1 .. Len(s) /\ k # 1
    BY <1>1
  <2>. QED  BY <1>5, <2>1
<1>. QED  BY <1>6, <1>9, <1>10, <1>11

LEMMA FlattenedType ==
  ASSUME NEW T, NEW s \in Seq(Seq(T))
  PROVE  FlattenSeq(s) \in Seq(T)
<1>1. CASE s = <<>>
  BY <1>1 DEF FlattenSeq
<1>2. CASE s # <<>>
  <2>1. Len(s) \in 1 .. Len(s)
    BY <1>2
  <2>2. PICK g \in [1 .. Len(s) -> Seq(T)] : FlattenSeq(s) = g[Len(s)]
    BY <1>2, Flattened
  <2>. QED  BY <2>1, <2>2
<1>. QED  BY <1>1, <1>2

(* A finite set of whose subsets each is in G if all smaller ones are.       *)
LEMMA SubsetInduction ==
  ASSUME NEW S, IsFiniteSet(S), NEW G,
         \A s \in SUBSET S :
            (\A r \in SUBSET S : Cardinality(r) < Cardinality(s) => r \in G) => s \in G
  PROVE  SUBSET S \subseteq G
<1>. DEFINE T == {k \in Nat : \A s \in SUBSET S : Cardinality(s) < k => s \in G}
<1>1. \A s \in SUBSET S : Cardinality(s) \in Nat
  BY FS_Subset, FS_CardinalityType
<1>2. 0 \in T
  BY <1>1
<1>3. ASSUME NEW k \in T PROVE k + 1 \in T
  <2>1. ASSUME NEW s \in SUBSET S, Cardinality(s) < k + 1 PROVE s \in G
    <3>1. \A r \in SUBSET S : Cardinality(r) < Cardinality(s) => Cardinality(r) < k
      BY <1>1, <2>1
    <3>. QED  BY <1>3, <3>1
  <2>. QED  BY <2>1
<1>4. T = Nat
  <2>1. T \in SUBSET Nat
    OBVIOUS
  <2>. HIDE DEF T
  <2>. QED  BY <1>2, <1>3, <2>1, SetInduction
<1>5. ASSUME NEW s \in SUBSET S PROVE s \in G
  <2>1. Cardinality(s) + 1 \in T /\ Cardinality(s) < Cardinality(s) + 1
    BY <1>1, <1>4
  <2>. QED  BY <2>1
<1>. QED  BY <1>5

(* The sum of f over a finite set, as MapThenSumSet defines it.              *)
SumUp(f, S) == MapThenSumSet(LAMBDA x : f[x], S)

(* h adds up f over the subsets of S, one chosen element after the other.   *)
Adds(h, f, S) ==
    h = [s \in SUBSET S |-> IF s = {} THEN 0
                            ELSE f[CHOOSE x \in s : TRUE] + h[s \ {CHOOSE x \in s : TRUE}]]

LEMMA AddsExists ==
  ASSUME NEW S, IsFiniteSet(S), NEW f, \A x \in S : f[x] \in Int
  PROVE  \E h \in [SUBSET S -> Int] : Adds(h, f, S)
<1>. DEFINE X == [SUBSET S -> Int]
            pick(s) == CHOOSE x \in s : TRUE
            next(h) == [s \in SUBSET S |-> IF s = {} THEN 0 ELSE f[pick(s)] + h[s \ {pick(s)}]]
            n == Cardinality(S) + 1
            zero == [s \in SUBSET S |-> 0]
            step == [k \in 1 .. n |-> [h \in X |-> next(h)]]
<1>1. Cardinality(S) \in Nat /\ n \in Nat
  BY FS_CardinalityType
<1>2. ASSUME NEW s \in SUBSET S, s # {}
      PROVE  /\ pick(s) \in s /\ s \ {pick(s)} \in SUBSET S /\ IsFiniteSet(s)
             /\ Cardinality(s) \in Nat \ {0} /\ Cardinality(s \ {pick(s)}) = Cardinality(s) - 1
  <2>1. pick(s) \in s
    BY <1>2
  <2>2. IsFiniteSet(s)
    BY FS_Subset
  <2>. HIDE DEF pick
  <2>3. Cardinality(s) \in Nat /\ Cardinality(s) # 0
    BY <1>2, <2>2, FS_CardinalityType, FS_EmptySet
  <2>4. Cardinality(s \ {pick(s)}) = Cardinality(s) - 1
    BY <2>1, <2>2, FS_RemoveElement
  <2>. QED  BY <2>1, <2>2, <2>3, <2>4
<1>3. ASSUME NEW h \in X PROVE next(h) \in X
  BY <1>2
<1>4. zero \in X /\ step \in Steps(X, n)
  <2>1. zero \in X
    OBVIOUS
  <2>. HIDE DEF next, X
  <2>2. \A k \in 1 .. n : step[k] \in [X -> X]
    BY <1>3
  <2>. QED  BY <2>1, <2>2 DEF Steps
<1>5. PICK g : Iterates(g, X, n, zero, step)
  <2>. HIDE DEF X, step, n, zero
  <2>. QED  BY <1>1, <1>4, Iteration
<1>6. /\ g \in [0 .. n -> X] /\ \A k \in 1 .. n : g[k] = next(g[k - 1])
  <2>1. \A k \in 1 .. n : k - 1 \in 0 .. n
    BY <1>1
  <2>. HIDE DEF next, n, X
  <2>. QED  BY <1>5, <2>1 DEF Iterates
(* Of a set of k elements, nothing changes after k steps.                   *)
<1>. DEFINE Done == {k \in 0 .. n - 1 : \A s \in SUBSET S : Cardinality(s) <= k => g[k + 1][s] = g[k][s]}
<1>7. 0 \in Done
  <2>1. ASSUME NEW s \in SUBSET S, Cardinality(s) <= 0 PROVE g[0 + 1][s] = g[0][s]
    <3>1. s = {}
      <4>1. IsFiniteSet(s)
        BY FS_Subset
      <4>2. Cardinality(s) = 0
        BY <2>1, <4>1, FS_CardinalityType
      <4>. QED  BY <4>1, <4>2, FS_EmptySet
    <3>. DEFINE one == 1
    <3>2. one \in 1 .. n /\ one - 1 = 0 /\ 0 + 1 = one
      BY <1>1
    <3>. HIDE DEF one
    <3>3. g[one] = next(g[0])
      <4>. HIDE DEF next, n
      <4>. QED  BY <1>6, <3>2
    <3>4. g[0] = zero
      BY <1>5 DEF Iterates
    <3>5. g[one][s] = 0 /\ g[0][s] = 0
      BY <3>1, <3>3, <3>4
    <3>. QED  BY <3>2, <3>5
  <2>2. 0 \in 0 .. n - 1
    BY <1>1
  <2>. QED  BY <2>1, <2>2
<1>8. ASSUME NEW k \in 1 .. n - 1, k - 1 \in Done PROVE k \in Done
  <2>1. ASSUME NEW s \in SUBSET S, Cardinality(s) <= k PROVE g[k + 1][s] = g[k][s]
    <3>0. k \in 1 .. n /\ k + 1 \in 1 .. n /\ k - 1 \in 0 .. n /\ k \in 0 .. n /\ (k + 1) - 1 = k /\ (k - 1) + 1 = k
      BY <1>1
    <3>1. g[k + 1] = next(g[k]) /\ g[k] = next(g[k - 1])
      <4>. HIDE DEF next, n
      <4>. DEFINE m == k + 1
      <4>1. m \in 1 .. n /\ m - 1 = k
        BY <3>0
      <4>. HIDE DEF m
      <4>2. g[m] = next(g[k])
        BY <1>6, <4>1
      <4>. QED  BY <1>6, <3>0, <4>2 DEF m
    <3>2. CASE s = {}
      BY <3>1, <3>2
    <3>3. CASE s # {}
      <4>. DEFINE r == s \ {pick(s)}
      <4>1. r \in SUBSET S /\ Cardinality(r) <= k - 1
        <5>1. Cardinality(s) \in Nat /\ Cardinality(r) = Cardinality(s) - 1 /\ r \in SUBSET S
          BY <1>2, <3>3
        <5>. QED  BY <2>1, <5>1
      <4>2. g[k][r] = g[k - 1][r]
        <5>1. g[(k - 1) + 1][r] = g[k - 1][r]
          <6>. HIDE DEF r
          <6>. QED  BY <1>8, <4>1
        <5>. QED  BY <3>0, <5>1
      <4>3. g[k + 1][s] = f[pick(s)] + g[k][r] /\ g[k][s] = f[pick(s)] + g[k - 1][r]
        BY <3>1, <3>3
      <4>. QED  BY <4>2, <4>3
    <3>. QED  BY <3>2, <3>3
  <2>2. k \in 0 .. n - 1
    BY <1>1
  <2>. QED  BY <2>1, <2>2
<1>9. 0 .. n - 1 \subseteq Done
  <2>1. n - 1 \in Nat
    BY <1>1
  <2>. DEFINE m == n - 1
  <2>. HIDE DEF Done, m
  <2>2. m \in Nat /\ \A k \in 1 .. m : k - 1 \in Done => k \in Done
    BY <1>8, <2>1 DEF m
  <2>3. 0 .. m \subseteq Done
    BY <1>7, <2>2, BoundedInduction
  <2>. QED  BY <2>3 DEF m
<1>10. g[n - 1] \in X /\ Adds(g[n - 1], f, S)
  <2>0. n - 1 \in 0 .. n - 1 /\ n - 1 \in 0 .. n /\ n \in 0 .. n /\ n \in 1 .. n /\ (n - 1) + 1 = n /\ n - 1 = Cardinality(S)
    BY <1>1
  <2>1. g[n] = next(g[n - 1]) /\ g[n - 1] \in X /\ g[n] \in X
    <3>. HIDE DEF next
    <3>. QED  BY <1>6, <2>0
  <2>2. ASSUME NEW s \in SUBSET S PROVE g[n][s] = g[n - 1][s]
    <3>1. Cardinality(s) <= n - 1
      BY <2>0, FS_Subset
    <3>2. n - 1 \in Done
      BY <1>9, <2>0
    <3>. QED  BY <2>0, <3>1, <3>2
  <2>3. g[n] = g[n - 1]
    BY ZenonT(40), <2>1, <2>2
  <2>. QED  BY <2>1, <2>3 DEF Adds
<1>. QED  BY <1>10

(* The chosen element of a set, and what remains. *)
LEMMA OneTaken ==
  ASSUME NEW S, IsFiniteSet(S), NEW s \in SUBSET S, NEW x \in s
  PROVE  /\ (CHOOSE y \in s : TRUE) \in s /\ s \ {x} \in SUBSET S
         /\ Cardinality(s \ {x}) < Cardinality(s)
<1>1. IsFiniteSet(s)
  BY FS_Subset
<1>2. Cardinality(s) \in Nat /\ Cardinality(s \ {x}) = Cardinality(s) - 1
  BY <1>1, FS_CardinalityType, FS_RemoveElement
<1>. QED  BY <1>2

AddsFrom(h, f, S) == \A s \in SUBSET S : h[s] \in Int /\ \A x \in s : h[s] = f[x] + h[s \ {x}]

(* The order of the choices does not matter. *)
LEMMA AddsAnyOrder ==
  ASSUME NEW S, IsFiniteSet(S), NEW f, \A x \in S : f[x] \in Int, NEW h, Adds(h, f, S)
  PROVE  AddsFrom(h, f, S)
<1>. DEFINE pick(s) == CHOOSE x \in s : TRUE
            Good(s) == h[s] \in Int /\ \A x \in s : h[s] = f[x] + h[s \ {x}]
            G == {s \in SUBSET S : Good(s)}
<1>1. ASSUME NEW s \in SUBSET S PROVE h[s] = IF s = {} THEN 0 ELSE f[pick(s)] + h[s \ {pick(s)}]
  BY DEF Adds
<1>2. ASSUME NEW s \in SUBSET S, \A r \in SUBSET S : Cardinality(r) < Cardinality(s) => r \in G
      PROVE  s \in G
  <2>1. CASE s = {}
    <3>1. h[s] = 0 /\ \A x \in s : FALSE
      BY <1>1, <2>1
    <3>. QED  BY <3>1
  <2>2. CASE s # {}
    <3>. DEFINE c == pick(s)
    <3>1. c \in s /\ f[c] \in Int /\ h[s] = f[c] + h[s \ {c}]
      BY <1>1, <2>2
    <3>. HIDE DEF c
    <3>2. s \ {c} \in G
      BY <1>2, <3>1, OneTaken
    <3>3. h[s \ {c}] \in Int /\ \A x \in s \ {c} : h[s \ {c}] = f[x] + h[(s \ {c}) \ {x}]
      BY <3>2
    <3>4. ASSUME NEW x \in s PROVE h[s] = f[x] + h[s \ {x}]
      <4>1. CASE x = c
        BY <3>1, <4>1
      <4>2. CASE x # c
        <5>1. s \ {x} \in G
          BY <1>2, OneTaken
        <5>2. h[s \ {x}] = f[c] + h[(s \ {x}) \ {c}]
          BY <3>1, <4>2, <5>1
        <5>3. (s \ {x}) \ {c} = (s \ {c}) \ {x} /\ (s \ {c}) \ {x} \in SUBSET S
          OBVIOUS
        <5>4. h[s \ {c}] = f[x] + h[(s \ {c}) \ {x}]
          BY <3>3, <4>2
        <5>5. (s \ {c}) \ {x} \in G /\ f[x] \in Int
          <6>1. Cardinality((s \ {c}) \ {x}) < Cardinality(s \ {c})
            BY <4>2, OneTaken
          <6>2. Cardinality(s \ {c}) < Cardinality(s)
            BY <3>1, OneTaken
          <6>3. Cardinality((s \ {c}) \ {x}) < Cardinality(s)
            <7>1. /\ Cardinality(s) \in Nat /\ Cardinality(s \ {c}) \in Nat
                  /\ Cardinality((s \ {c}) \ {x}) \in Nat
              BY FS_Subset, FS_CardinalityType
            <7>. QED  BY <6>1, <6>2, <7>1
          <6>. QED  BY <1>2, <5>3, <6>3
        <5>6. h[(s \ {c}) \ {x}] \in Int
          BY <5>5
        <5>. DEFINE u == h[(s \ {c}) \ {x}]
        <5>7. u \in Int /\ h[s \ {c}] = f[x] + u /\ h[s \ {x}] = f[c] + u
          BY <5>2, <5>3, <5>4, <5>6
        <5>. HIDE DEF u
        <5>. QED  BY <3>1, <5>5, <5>7
      <4>. QED  BY <4>1, <4>2
    <3>5. h[s] \in Int
      BY <3>1, <3>3
    <3>. QED  BY <3>4, <3>5
  <2>. QED  BY <2>1, <2>2
<1>3. SUBSET S \subseteq G
  <2>. HIDE DEF G
  <2>. QED  BY <1>2, SubsetInduction
<1>. QED  BY <1>3 DEF AddsFrom

(* The sum depends on the values only. *)
LEMMA AddsAgree ==
  ASSUME NEW S, IsFiniteSet(S), NEW T \in SUBSET S, NEW f, NEW g, \A x \in T : f[x] = g[x],
         NEW h, Adds(h, f, S), NEW k, Adds(k, g, T)
  PROVE  h[T] = k[T]
<1>. DEFINE G == {s \in SUBSET T : h[s] = k[s]}
<1>0. IsFiniteSet(T)
  BY FS_Subset
<1>1. ASSUME NEW s \in SUBSET T, \A r \in SUBSET T : Cardinality(r) < Cardinality(s) => r \in G
      PROVE  s \in G
  <2>1. CASE s = {}
    BY <2>1 DEF Adds
  <2>2. CASE s # {}
    <3>. DEFINE c == CHOOSE x \in s : TRUE
    <3>1. /\ h[s] = f[c] + h[s \ {c}] /\ k[s] = g[c] + k[s \ {c}]
      BY <2>2 DEF Adds
    <3>2. c \in s
      BY <2>2
    <3>. HIDE DEF c
    <3>3. s \ {c} \in G
      BY <1>0, <1>1, <3>2, OneTaken
    <3>. QED  BY <3>1, <3>2, <3>3
  <2>. QED  BY <2>1, <2>2
<1>2. SUBSET T \subseteq G
  <2>. HIDE DEF G
  <2>. QED  BY <1>0, <1>1, SubsetInduction
<1>. QED  BY <1>2

LEMMA SumUpAdds ==
  ASSUME NEW S, IsFiniteSet(S), NEW f, \A x \in S : f[x] \in Int
  PROVE  \E h : Adds(h, f, S) /\ SumUp(f, S) = h[S]
<1>1. PICK h : Adds(h, f, S)
  BY AddsExists
<1>. DEFINE iter[s \in SUBSET S] ==
              IF s = {} THEN 0
              ELSE LET x == CHOOSE x \in s : TRUE IN f[x] + iter[s \ {x}]
<1>2. SumUp(f, S) = iter[S]
  BY DEF SumUp, MapThenSumSet, MapThenFoldSet
<1>3. iter = [s \in SUBSET S |->
                IF s = {} THEN 0
                ELSE LET x == CHOOSE x \in s : TRUE IN f[x] + iter[s \ {x}]]
  BY <1>1 DEF Adds
<1>. HIDE DEF iter
<1>4. Adds(iter, f, S)
  BY <1>3 DEF Adds
<1>. QED  BY <1>2, <1>4

(* What is summed up element by element. *)
LEMMA SumUpFacts ==
  ASSUME NEW S, IsFiniteSet(S), NEW f, \A x \in S : f[x] \in Int
  PROVE  /\ SumUp(f, S) \in Int
         /\ S = {} => SumUp(f, S) = 0
         /\ \A x \in S : SumUp(f, S) = f[x] + SumUp(f, S \ {x})
<1>1. PICK h : Adds(h, f, S) /\ SumUp(f, S) = h[S]
  BY SumUpAdds
<1>0. Adds(h, f, S)
  BY <1>1
<1>2. \A s \in SUBSET S : h[s] \in Int /\ \A y \in s : h[s] = f[y] + h[s \ {y}]
  <2>1. AddsFrom(h, f, S)
    BY <1>0, AddsAnyOrder
  <2>. QED  BY <2>1 DEF AddsFrom
<1>3. S = {} => SumUp(f, S) = 0
  BY <1>1 DEF Adds
<1>4. ASSUME NEW x \in S PROVE SumUp(f, S) = f[x] + SumUp(f, S \ {x})
  <2>1. IsFiniteSet(S \ {x})
    BY FS_Subset
  <2>2. PICK k : Adds(k, f, S \ {x}) /\ SumUp(f, S \ {x}) = k[S \ {x}]
    BY <2>1, SumUpAdds
  <2>3. h[S \ {x}] = k[S \ {x}]
    BY <1>1, <2>2, AddsAgree
  <2>4. h[S] = f[x] + h[S \ {x}]
    BY <1>2
  <2>. QED  BY <1>1, <2>2, <2>3, <2>4
<1>5. SumUp(f, S) \in Int
  BY <1>1, <1>2
<1>. QED  BY <1>3, <1>4, <1>5

LEMMA SumUpSame ==
  ASSUME NEW S, IsFiniteSet(S), NEW f, \A x \in S : f[x] \in Int, NEW g, \A x \in S : g[x] = f[x]
  PROVE  SumUp(g, S) = SumUp(f, S)
<1>1. PICK h : Adds(h, f, S) /\ SumUp(f, S) = h[S]
  BY SumUpAdds
<1>2. PICK k : Adds(k, g, S) /\ SumUp(g, S) = k[S]
  BY SumUpAdds
<1>3. h[S] = k[S]
  <2>1. S \in SUBSET S /\ \A x \in S : f[x] = g[x]
    OBVIOUS
  <2>. QED  BY <1>1, <1>2, <2>1, AddsAgree
<1>. QED  BY <1>1, <1>2, <1>3

(* One summand changes. *)
LEMMA SumUpChanges ==
  ASSUME NEW S, IsFiniteSet(S), NEW p \in S,
         NEW f, \A x \in S : f[x] \in Int, NEW g, g[p] \in Int, \A x \in S : x # p => g[x] = f[x]
  PROVE  SumUp(g, S) = (SumUp(f, S) - f[p]) + g[p] /\ SumUp(f, S) \in Int
<1>1. IsFiniteSet(S \ {p}) /\ \A x \in S : g[x] \in Int
  BY FS_Subset
<1>2. SumUp(f, S) = f[p] + SumUp(f, S \ {p}) /\ SumUp(f, S) \in Int
  BY SumUpFacts
<1>3. SumUp(g, S) = g[p] + SumUp(g, S \ {p})
  BY <1>1, SumUpFacts
<1>4. SumUp(g, S \ {p}) = SumUp(f, S \ {p})
  BY <1>1, SumUpSame
<1>5. SumUp(f, S \ {p}) \in Int
  BY <1>1, SumUpFacts
<1>. QED  BY <1>2, <1>3, <1>4, <1>5

LEMMA SumOfZeros ==
  ASSUME NEW S, IsFiniteSet(S), NEW f, \A x \in S : f[x] = 0
  PROVE  SumUp(f, S) = 0
<1>. DEFINE h == [s \in SUBSET S |-> 0]
<1>1. PICK k : Adds(k, f, S) /\ SumUp(f, S) = k[S]
  BY SumUpAdds
<1>2. Adds(h, f, S)
  BY DEF Adds
<1>. HIDE DEF h
<1>3. h[S] = k[S]
  <2>1. S \in SUBSET S
    OBVIOUS
  <2>. QED  BY <1>1, <1>2, <2>1, AddsAgree
<1>. QED  BY <1>1, <1>3 DEF h

(* What is smaller everywhere is smaller in sum. *)
LEMMA SumUpMonotone ==
  ASSUME NEW S, IsFiniteSet(S), NEW f, \A x \in S : f[x] \in Int,
         NEW g, \A x \in S : g[x] \in Int /\ f[x] <= g[x]
  PROVE  SumUp(f, S) \in Int /\ SumUp(g, S) \in Int /\ SumUp(f, S) <= SumUp(g, S)
<1>. DEFINE G == {s \in SUBSET S : SumUp(f, s) <= SumUp(g, s)}
<1>1. ASSUME NEW s \in SUBSET S, \A r \in SUBSET S : Cardinality(r) < Cardinality(s) => r \in G
      PROVE  s \in G
  <2>0. IsFiniteSet(s)
    BY FS_Subset
  <2>1. CASE s = {}
    <3>1. SumUp(f, s) = 0 /\ SumUp(g, s) = 0
      BY <2>0, <2>1, SumUpFacts
    <3>. QED  BY <3>1
  <2>2. CASE s # {}
    <3>1. PICK x \in s : TRUE
      BY <2>2
    <3>2. s \ {x} \in G
      BY <1>1, <3>1, OneTaken
    <3>3. /\ SumUp(f, s) = f[x] + SumUp(f, s \ {x})
          /\ SumUp(g, s) = g[x] + SumUp(g, s \ {x})
      BY <2>0, SumUpFacts
    <3>4. IsFiniteSet(s \ {x}) /\ \A y \in s \ {x} : f[y] \in Int /\ g[y] \in Int
      BY <2>0, FS_Subset
    <3>5. SumUp(f, s \ {x}) \in Int /\ SumUp(g, s \ {x}) \in Int
      BY <3>4, SumUpFacts
    <3>. QED  BY <3>1, <3>2, <3>3, <3>5
  <2>. QED  BY <2>1, <2>2
<1>2. SUBSET S \subseteq G
  <2>. HIDE DEF G
  <2>. QED  BY <1>1, SubsetInduction
<1>. QED  BY <1>2, SumUpFacts

(* The sum of a sequence, its last element taken off. *)
LEMMA SumUpLast ==
  ASSUME NEW n \in Nat, n # 0, NEW f, \A k \in 1 .. n : f[k] \in Int
  PROVE  SumUp(f, 1 .. n) = f[n] + SumUp(f, 1 .. n - 1)
<1>1. IsFiniteSet(1 .. n) /\ n \in 1 .. n /\ (1 .. n) \ {n} = 1 .. n - 1
  BY FS_Interval
<1>. DEFINE S == 1 .. n
<1>2. IsFiniteSet(S) /\ n \in S /\ S \ {n} = 1 .. n - 1 /\ \A k \in S : f[k] \in Int
  BY <1>1
<1>. HIDE DEF S
<1>3. SumUp(f, S) = f[n] + SumUp(f, S \ {n})
  BY <1>2, SumUpFacts
<1>. QED  BY <1>2, <1>3 DEF S

(* The sum of one sequence after another. *)
LEMMA SumUpConcat ==
  ASSUME NEW m \in Nat, NEW n \in Nat, NEW f, NEW g, NEW h,
         \A k \in 1 .. m : f[k] \in Int /\ h[k] = f[k],
         \A k \in 1 .. n : g[k] \in Int /\ h[m + k] = g[k]
  PROVE  SumUp(h, 1 .. m + n) = SumUp(f, 1 .. m) + SumUp(g, 1 .. n)
<1>. DEFINE S == {k \in 0 .. n : SumUp(h, 1 .. m + k) = SumUp(f, 1 .. m) + SumUp(g, 1 .. k)}
<1>1. 0 \in S
  <2>. DEFINE M == 1 .. m
  <2>1. IsFiniteSet(M) /\ \A k \in M : f[k] \in Int /\ h[k] = f[k]
    BY FS_Interval
  <2>2. IsFiniteSet({}) /\ 1 .. 0 = {} /\ m + 0 = m
    BY FS_EmptySet
  <2>. HIDE DEF M
  <2>3. SumUp(h, M) = SumUp(f, M) /\ SumUp(f, M) \in Int
    BY <2>1, SumUpSame, SumUpFacts
  <2>. DEFINE Z == {}
  <2>4. SumUp(g, Z) = 0
    <3>1. IsFiniteSet(Z) /\ \A x \in Z : g[x] \in Int
      BY <2>2
    <3>. HIDE DEF Z
    <3>2. Z = {} => SumUp(g, Z) = 0
      BY <3>1, SumUpFacts
    <3>. QED  BY <3>2 DEF Z
  <2>. QED  BY <2>2, <2>3, <2>4 DEF M
<1>2. ASSUME NEW k \in 1 .. n, k - 1 \in S PROVE k \in S
  <2>. DEFINE j == m + k
  <2>1. /\ j \in Nat /\ j # 0 /\ j - 1 = m + (k - 1) /\ k \in Nat /\ k # 0
    OBVIOUS
  <2>2. \A i \in 1 .. j : h[i] \in Int
    <3>1. ASSUME NEW i \in 1 .. m + k PROVE h[i] \in Int
      <4>1. CASE i \in 1 .. m
        BY <4>1
      <4>2. CASE i \notin 1 .. m
        <5>1. i - m \in 1 .. n /\ m + (i - m) = i
          BY <4>2
        <5>2. g[i - m] \in Int /\ h[m + (i - m)] = g[i - m]
          BY <5>1
        <5>. QED  BY <5>1, <5>2
      <4>. QED  BY <4>1, <4>2
    <3>. QED  BY <3>1
  <2>3. h[j] = g[k] /\ \A i \in 1 .. k : g[i] \in Int
    OBVIOUS
  <2>. HIDE DEF j
  <2>4. SumUp(h, 1 .. j) = h[j] + SumUp(h, 1 .. j - 1)
    BY <2>1, <2>2, SumUpLast
  <2>5. SumUp(g, 1 .. k) = g[k] + SumUp(g, 1 .. k - 1)
    BY <2>1, <2>3, SumUpLast
  <2>6. SumUp(h, 1 .. j - 1) = SumUp(f, 1 .. m) + SumUp(g, 1 .. k - 1)
    BY <1>2, <2>1
  <2>7. SumUp(f, 1 .. m) \in Int /\ SumUp(g, 1 .. k - 1) \in Int
    <3>. DEFINE M == 1 .. m
                K == 1 .. k - 1
    <3>1. IsFiniteSet(M) /\ IsFiniteSet(K) /\ (\A i \in M : f[i] \in Int) /\ \A i \in K : g[i] \in Int
      BY FS_Interval
    <3>. HIDE DEF M, K
    <3>2. SumUp(f, M) \in Int /\ SumUp(g, K) \in Int
      BY <3>1, SumUpFacts
    <3>. QED  BY <3>2 DEF M, K
  <2>8. SumUp(h, 1 .. j) = SumUp(f, 1 .. m) + SumUp(g, 1 .. k)
    BY <2>3, <2>4, <2>5, <2>6, <2>7
  <2>. QED  BY <2>8 DEF j
<1>3. 0 .. n \subseteq S
  <2>. HIDE DEF S
  <2>. QED  BY <1>1, <1>2, BoundedInduction
<1>. QED  BY <1>3

(* The sum of sums. *)
LEMMA SumUpPlus ==
  ASSUME NEW S, IsFiniteSet(S), NEW f, NEW g, NEW h,
         \A x \in S : f[x] \in Int /\ g[x] \in Int /\ h[x] = f[x] + g[x]
  PROVE  SumUp(h, S) = SumUp(f, S) + SumUp(g, S)
<1>. DEFINE G == {s \in SUBSET S : SumUp(h, s) = SumUp(f, s) + SumUp(g, s)}
<1>1. ASSUME NEW s \in SUBSET S, \A r \in SUBSET S : Cardinality(r) < Cardinality(s) => r \in G
      PROVE  s \in G
  <2>0. IsFiniteSet(s) /\ \A x \in s : f[x] \in Int /\ g[x] \in Int /\ h[x] \in Int
    BY FS_Subset
  <2>1. CASE s = {}
    <3>1. SumUp(f, s) = 0 /\ SumUp(g, s) = 0 /\ SumUp(h, s) = 0
      BY <2>0, <2>1, SumUpFacts
    <3>. QED  BY <3>1
  <2>2. CASE s # {}
    <3>1. PICK x \in s : TRUE
      BY <2>2
    <3>2. s \ {x} \in G
      BY <1>1, <3>1, OneTaken
    <3>3. /\ SumUp(f, s) = f[x] + SumUp(f, s \ {x})
          /\ SumUp(g, s) = g[x] + SumUp(g, s \ {x})
          /\ SumUp(h, s) = h[x] + SumUp(h, s \ {x})
      BY <2>0, SumUpFacts
    <3>4. IsFiniteSet(s \ {x}) /\ \A y \in s \ {x} : f[y] \in Int /\ g[y] \in Int
      BY <2>0, FS_Subset
    <3>5. SumUp(f, s \ {x}) \in Int /\ SumUp(g, s \ {x}) \in Int
      BY <3>4, SumUpFacts
    <3>. QED  BY <3>1, <3>2, <3>3, <3>5
  <2>. QED  BY <2>1, <2>2
<1>2. SUBSET S \subseteq G
  <2>. HIDE DEF G
  <2>. QED  BY <1>1, SubsetInduction
<1>. QED  BY <1>2

(* The cardinality is the sum of ones. *)
LEMMA SumOfOnes ==
  ASSUME NEW S, IsFiniteSet(S), NEW f, \A x \in S : f[x] = 1
  PROVE  SumUp(f, S) = Cardinality(S)
<1>. DEFINE G == {s \in SUBSET S : SumUp(f, s) = Cardinality(s)}
<1>1. ASSUME NEW s \in SUBSET S, \A r \in SUBSET S : Cardinality(r) < Cardinality(s) => r \in G
      PROVE  s \in G
  <2>0. IsFiniteSet(s) /\ \A x \in s : f[x] \in Int
    BY FS_Subset
  <2>1. CASE s = {}
    <3>1. SumUp(f, s) = 0 /\ Cardinality(s) = 0
      BY <2>0, <2>1, SumUpFacts, FS_EmptySet
    <3>. QED  BY <3>1
  <2>2. CASE s # {}
    <3>1. PICK x \in s : TRUE
      BY <2>2
    <3>2. s \ {x} \in G
      BY <1>1, <3>1, OneTaken
    <3>3. SumUp(f, s) = f[x] + SumUp(f, s \ {x})
      BY <2>0, SumUpFacts
    <3>4. Cardinality(s \ {x}) = Cardinality(s) - 1 /\ Cardinality(s) \in Nat
      BY <2>0, <3>1, FS_RemoveElement, FS_CardinalityType
    <3>. QED  BY <3>1, <3>2, <3>3, <3>4
  <2>. QED  BY <2>1, <2>2
<1>2. SUBSET S \subseteq G
  <2>. HIDE DEF G
  <2>. QED  BY <1>1, SubsetInduction
<1>. QED  BY <1>2

(* The sum over a set is that of the sums over its classes. *)
LEMMA SumUpPartition ==
  ASSUME NEW S, IsFiniteSet(S), NEW C, IsFiniteSet(C), NEW class, \A x \in S : class[x] \in C,
         NEW f, \A x \in S : f[x] \in Int
  PROVE  SumUp(f, S) = SumUp([c \in C |-> SumUp(f, {x \in S : class[x] = c})], C)
<1>. DEFINE of(s) == [c \in C |-> SumUp(f, {x \in s : class[x] = c})]
            G == {s \in SUBSET S : SumUp(f, s) = SumUp(of(s), C)}
<1>1. ASSUME NEW s \in SUBSET S PROVE IsFiniteSet(s) /\ \A x \in s : f[x] \in Int
  BY FS_Subset
<1>2. ASSUME NEW s \in SUBSET S, NEW c \in C
      PROVE  IsFiniteSet({x \in s : class[x] = c}) /\ SumUp(f, {x \in s : class[x] = c}) \in Int
  <2>. DEFINE t == {x \in s : class[x] = c}
  <2>1. IsFiniteSet(t) /\ \A x \in t : f[x] \in Int
    BY <1>1, FS_Subset
  <2>. HIDE DEF t
  <2>2. SumUp(f, t) \in Int
    BY <2>1, SumUpFacts
  <2>. QED  BY <2>1, <2>2 DEF t
<1>3. ASSUME NEW s \in SUBSET S, \A r \in SUBSET S : Cardinality(r) < Cardinality(s) => r \in G
      PROVE  s \in G
  <2>1. CASE s = {}
    <3>1. SumUp(f, s) = 0
      BY <1>1, <2>1, SumUpFacts
    <3>. DEFINE u == of(s)
    <3>2. \A c \in C : u[c] = 0
      <4>1. ASSUME NEW c \in C PROVE u[c] = 0
        <5>1. {x \in s : class[x] = c} = s
          BY <2>1
        <5>. QED  BY <3>1, <5>1
      <4>. QED  BY <4>1
    <3>. HIDE DEF u
    <3>3. SumUp(u, C) = 0
      BY <3>2, SumOfZeros
    <3>. QED  BY <3>1, <3>3 DEF u
  <2>2. CASE s # {}
    <3>1. PICK x \in s : TRUE
      BY <2>2
    <3>. DEFINE r == s \ {x}
                k == class[x]
                t == {y \in s : class[y] = k}
                u == of(r)
                v == of(s)
    <3>2. r \in G /\ r \in SUBSET S /\ k \in C /\ x \in t
      BY <1>3, <3>1, OneTaken
    <3>3. SumUp(f, s) = f[x] + SumUp(f, r)
      BY <1>1, <3>1, SumUpFacts
    <3>4. \A c \in C : u[c] \in Int /\ v[c] \in Int
      BY <1>2, <3>2
    <3>5. ASSUME NEW c \in C, c # k PROVE v[c] = u[c]
      <4>1. {y \in s : class[y] = c} = {y \in r : class[y] = c}
        BY <3>5
      <4>. QED  BY <4>1
    <3>6. v[k] = f[x] + u[k]
      <4>1. t \ {x} = {y \in r : class[y] = k}
        OBVIOUS
      <4>2. IsFiniteSet(t) /\ \A y \in t : f[y] \in Int
        BY <1>1, <1>2, <3>2
      <4>3. v[k] = SumUp(f, t) /\ u[k] = SumUp(f, t \ {x})
        BY <3>2, <4>1
      <4>. HIDE DEF t, u, v, k
      <4>4. SumUp(f, t) = f[x] + SumUp(f, t \ {x})
        BY <3>2, <4>2, SumUpFacts
      <4>. QED  BY <4>3, <4>4
    <3>7. f[x] \in Int /\ SumUp(f, r) = SumUp(u, C)
      BY <1>1, <3>1, <3>2
    <3>. HIDE DEF r, k, t, u, v
    <3>8. SumUp(v, C) = (SumUp(u, C) - u[k]) + v[k] /\ SumUp(u, C) \in Int
      BY <3>2, <3>4, <3>5, SumUpChanges
    <3>9. u[k] \in Int /\ v[k] \in Int
      BY <3>2, <3>4
    <3>10. SumUp(f, s) = SumUp(v, C)
      BY <3>3, <3>6, <3>7, <3>8, <3>9
    <3>. QED  BY <3>10 DEF v
  <2>. QED  BY <2>1, <2>2
<1>4. SUBSET S \subseteq G
  <2>. HIDE DEF G
  <2>. QED  BY <1>3, SubsetInduction
<1>. QED  BY <1>4

(* Nothing is added outside a part of the set. *)
LEMMA SumUpWithin ==
  ASSUME NEW S, IsFiniteSet(S), NEW T \in SUBSET S, NEW f, \A x \in S : f[x] \in Int,
         NEW g, \A x \in T : g[x] = f[x], \A x \in S \ T : f[x] = 0
  PROVE  SumUp(f, S) = SumUp(g, T)
<1>. DEFINE G == {s \in SUBSET S : SumUp(f, s) = SumUp(g, s \cap T)}
<1>1. ASSUME NEW s \in SUBSET S, \A r \in SUBSET S : Cardinality(r) < Cardinality(s) => r \in G
      PROVE  s \in G
  <2>. DEFINE t == s \cap T
  <2>0. /\ IsFiniteSet(s) /\ \A x \in s : f[x] \in Int
        /\ IsFiniteSet(t) /\ \A x \in t : g[x] \in Int
    BY FS_Subset
  <2>1. CASE s = {}
    <3>1. t = {}
      BY <2>1
    <3>. HIDE DEF t
    <3>2. SumUp(f, s) = 0 /\ SumUp(g, t) = 0
      BY <2>0, <2>1, <3>1, SumUpFacts
    <3>. QED  BY <3>2 DEF t
  <2>2. CASE s # {}
    <3>1. PICK x \in s : TRUE
      BY <2>2
    <3>2. s \ {x} \in G
      BY <1>1, <3>1, OneTaken
    <3>3. SumUp(f, s) = f[x] + SumUp(f, s \ {x})
      BY <2>0, <3>1, SumUpFacts
    <3>4. CASE x \in T
      <4>1. x \in t /\ t \ {x} = (s \ {x}) \cap T /\ g[x] = f[x]
        BY <3>1, <3>4
      <4>0. SumUp(f, s \ {x}) = SumUp(g, t \ {x})
        BY <3>2, <4>1
      <4>. HIDE DEF t, G
      <4>2. SumUp(g, t) = g[x] + SumUp(g, t \ {x})
        BY <2>0, <4>1, SumUpFacts
      <4>3. SumUp(f, s) = SumUp(g, t)
        BY <3>3, <4>0, <4>1, <4>2
      <4>. QED  BY <4>3 DEF t, G
    <3>5. CASE x \notin T
      <4>1. t = (s \ {x}) \cap T /\ f[x] = 0
        BY <3>1, <3>5
      <4>2. SumUp(f, s \ {x}) \in Int
        <5>. DEFINE r == s \ {x}
        <5>1. IsFiniteSet(r) /\ \A y \in r : f[y] \in Int
          BY <2>0, FS_Subset
        <5>. HIDE DEF r
        <5>2. SumUp(f, r) \in Int
          BY <5>1, SumUpFacts
        <5>. QED  BY <5>2 DEF r
      <4>3. SumUp(f, s \ {x}) = SumUp(g, t)
        BY <3>2, <4>1
      <4>. HIDE DEF t, G
      <4>4. SumUp(f, s) = SumUp(g, t)
        BY <3>3, <4>1, <4>2, <4>3
      <4>. QED  BY <4>4 DEF t, G
    <3>. QED  BY <3>4, <3>5
  <2>. QED  BY <2>1, <2>2
<1>2. SUBSET S \subseteq G
  <2>. HIDE DEF G
  <2>. QED  BY <1>1, SubsetInduction
<1>3. S \cap T = T /\ S \in G
  BY <1>2
<1>. QED  BY <1>3

(* The community modules' sum over a function is the sum over its domain.   *)
LEMMA SumOfFunction ==
  ASSUME NEW v
  PROVE  SumFunction(v) = SumUp(v, DOMAIN v)
  BY DEF SumFunction, SumFunctionOnSet, FoldFunctionOnSet, SumUp, MapThenSumSet

(* Multiplication keeps an order, and a positive factor cancels.            *)
LEMMA TimesKeeps ==
  ASSUME NEW m \in Int, NEW n \in Int, m <= n, NEW d \in Nat
  PROVE  m * d \in Int /\ n * d \in Int /\ m * d <= n * d
  OBVIOUS

LEMMA TimesCancels ==
  ASSUME NEW a \in Int, NEW b \in Int, NEW d \in Nat \ {0}
  PROVE  (a * d <= b * d => a <= b) /\ (a * d < b * d => a < b)
<1>1. ASSUME b + 1 <= a  PROVE b * d < a * d
  <2>1. (b + 1) * d <= a * d
    BY <1>1, TimesKeeps
  <2>2. (b + 1) * d = b * d + d /\ b * d \in Int
    OBVIOUS
  <2>. QED  BY <2>1, <2>2
<1>2. ASSUME b <= a  PROVE b * d <= a * d
  BY <1>2, TimesKeeps
<1>3. a * d \in Int /\ b * d \in Int
  OBVIOUS
<1>. QED  BY <1>1, <1>2, <1>3
=============================================================================
