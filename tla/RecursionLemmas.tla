--------------------------- MODULE RecursionLemmas ---------------------------
(***************************************************************************)
(* Induction, and the existence of recursive functions, for proofs about   *)
(* the loops of the components: a loop of the code over a sequence is a    *)
(* function of the number of rounds that are done.  The facts are about    *)
(* sets and functions, so a property P is shown by induction for the set   *)
(* {n \in Nat : P(n)}.                                                     *)
(***************************************************************************)
EXTENDS Integers, FiniteSetTheorems, WellFoundedInduction, TLAPS

\* A set of numbers has a least element: the intervals that end in one of its
\* elements have a least one.
LEMMA LeastElement ==
    ASSUME NEW T \in SUBSET Nat, T # {}
    PROVE  \E n \in T : \A m \in T : n <= m
<1> DEFINE U == {0..n : n \in T}
<1>1. IsWellFoundedOn(StrictSubsetOrdering(Nat), FiniteSubsetsOf(Nat))
  BY FS_StrictSubsetOrderingWellFounded
<1>2. U \subseteq FiniteSubsetsOf(Nat)
  <2>1. \A n \in T : IsFiniteSet(0..n) /\ (0..n) \in SUBSET Nat
    BY FS_Interval
  <2> QED  BY <2>1 DEF FiniteSubsetsOf
<1>3. U # {}
  OBVIOUS
<1>4. PICK u \in U : \A v \in U : ~ (<<v, u>> \in StrictSubsetOrdering(Nat))
  BY <1>1, <1>2, <1>3, WFMin
<1>5. PICK n \in T : u = 0..n
  OBVIOUS
<1>6. ASSUME NEW m \in T, m < n PROVE FALSE
  <2>1. <<0..m, 0..n>> \in StrictSubsetOrdering(Nat)
    BY <1>6 DEF StrictSubsetOrdering
  <2> QED  BY <2>1, <1>4, <1>5
<1> QED  BY <1>6

\* Induction over the numbers.
LEMMA SetInduction ==
    ASSUME NEW S, 0 \in S, \A n \in Nat : n \in S => n + 1 \in S
    PROVE  Nat \subseteq S
<1> DEFINE T == Nat \ S
<1>1. SUFFICES ASSUME T # {} PROVE FALSE
  OBVIOUS
<1>2. PICK n \in T : \A m \in T : n <= m
  BY <1>1, LeastElement
<1>3. n # 0 /\ n - 1 \in Nat
  OBVIOUS
<1>4. n - 1 \in S
  BY <1>2, <1>3
<1> QED  BY <1>3, <1>4

\* Induction over the rounds of a loop of N rounds.
LEMMA RoundInduction ==
    ASSUME NEW N \in Nat, NEW S, 0 \in S,
           \A n \in 1..N : n - 1 \in S => n \in S
    PROVE  0..N \subseteq S
<1> DEFINE U == {n \in Nat : n \in 0..N => n \in S}
<1>1. 0 \in U
  OBVIOUS
<1>2. \A n \in Nat : n \in U => n + 1 \in U
  <2> TAKE n \in Nat
  <2> HAVE n \in U
  <2>1. CASE n + 1 \in 1..N
    <3>1. n \in S /\ (n + 1) - 1 = n
      BY <2>1
    <3> QED  BY <2>1, <3>1
  <2> QED  BY <2>1
<1>3. Nat \subseteq U
  <2> HIDE DEF U
  <2> QED  BY <1>1, <1>2, SetInduction
<1> QED  BY <1>3

\* The function a loop of N rounds computes, from the value c before the first
\* round and what each round makes of the value so far.
LEMMA RecursiveFunction ==
    ASSUME NEW N \in Nat, NEW V, NEW c \in V, NEW D \in [1..N -> [V -> V]]
    PROVE  \E g : /\ \A k \in 0..N : g[k] \in V
                  /\ g = [k \in 0..N |-> IF k = 0 THEN c ELSE D[k][g[k - 1]]]
<1> DEFINE Computes(g, n) ==
              \A k \in 0..n : g[k] = IF k = 0 THEN c ELSE D[k][g[k - 1]]
           S == {n \in 0..N : \E g \in [0..n -> V] : Computes(g, n)}
<1>1. 0 \in S
  <2> DEFINE h == [k \in 0..0 |-> c]
  <2>1. h \in [0..0 -> V] /\ Computes(h, 0)
    OBVIOUS
  <2>2. \E g \in [0..0 -> V] : Computes(g, 0)
    <3> HIDE DEF h, Computes
    <3> QED  BY <2>1
  <2> QED  BY <2>2
<1>2. ASSUME NEW n \in 1..N, n - 1 \in S PROVE n \in S
  <2>1. PICK g \in [0..(n - 1) -> V] : Computes(g, n - 1)
    BY <1>2
  <2> DEFINE h == [k \in 0..n |-> IF k = n THEN D[n][g[n - 1]] ELSE g[k]]
  <2>2. h \in [0..n -> V]
    <3>1. D[n][g[n - 1]] \in V
      OBVIOUS
    <3> QED  BY <3>1
  <2>3. Computes(h, n)
    <3>1. SUFFICES ASSUME NEW k \in 0..n
                   PROVE  h[k] = IF k = 0 THEN c ELSE D[k][h[k - 1]]
      OBVIOUS
    <3>2. CASE k = n
      <4>1. n # 0 /\ n - 1 \in 0..n /\ n - 1 # n
        OBVIOUS
      <4>2. h[n - 1] = g[n - 1] /\ h[n] = D[n][g[n - 1]]
        BY <4>1
      <4> HIDE DEF h
      <4> QED  BY <3>2, <4>1, <4>2
    <3>3. CASE k # n
      <4>1. k \in 0..(n - 1) /\ h[k] = g[k] /\ (k # 0 => h[k - 1] = g[k - 1])
        BY <3>3
      <4> QED  BY <4>1, <2>1
    <3> QED  BY <3>2, <3>3
  <2> HIDE DEF h, Computes
  <2> QED  BY <2>2, <2>3
<1>3. N \in S
  <2> HIDE DEF S
  <2>1. 0..N \subseteq S
    BY <1>1, <1>2, RoundInduction
  <2> QED  BY <2>1
<1>4. PICK g \in [0..N -> V] : Computes(g, N)
  BY <1>3
<1>5. g = [k \in 0..N |-> IF k = 0 THEN c ELSE D[k][g[k - 1]]]
  BY <1>4
<1> QED  BY <1>5

\* The same, round by round.
LEMMA RoundFunction ==
    ASSUME NEW N \in Nat, NEW V, NEW c \in V, NEW D \in [1..N -> [V -> V]]
    PROVE  \E g : /\ g[0] = c
                  /\ \A k \in 0..N : g[k] \in V
                  /\ \A k \in 1..N : g[k] = D[k][g[k - 1]]
<1>1. PICK g : /\ \A k \in 0..N : g[k] \in V
               /\ g = [k \in 0..N |-> IF k = 0 THEN c ELSE D[k][g[k - 1]]]
  BY RecursiveFunction
<1>2. g[0] = c
  BY <1>1
<1>3. ASSUME NEW k \in 1..N PROVE g[k] = D[k][g[k - 1]]
  <2>1. k \in 0..N /\ k # 0
    OBVIOUS
  <2> QED  BY <1>1, <2>1
<1> QED  BY <1>1, <1>2, <1>3

\* A sequence of numbers that is not empty has a greatest entry.
LEMMA GreatestEntry ==
    ASSUME NEW N \in Nat \ {0}, NEW f, \A k \in 1..N : f[k] \in Int
    PROVE  \E i \in 1..N : \A k \in 1..N : f[k] <= f[i]
<1> DEFINE S == {n \in 0..N : n > 0 => \E i \in 1..n : \A k \in 1..n : f[k] <= f[i]}
<1>1. 0 \in S
  OBVIOUS
<1>2. ASSUME NEW n \in 1..N, n - 1 \in S PROVE n \in S
  <2>1. CASE n = 1
    BY <2>1
  <2>2. CASE n > 1
    <3>1. PICK i \in 1..(n - 1) : \A k \in 1..(n - 1) : f[k] <= f[i]
      BY <1>2, <2>2
    <3>2. \A k \in 1..n : k = n \/ k \in 1..(n - 1)
      OBVIOUS
    <3>3. CASE f[n] <= f[i]
      <4>1. \A k \in 1..n : f[k] <= f[i]
        BY <3>1, <3>2, <3>3
      <4> QED  BY <4>1
    <3>4. CASE ~(f[n] <= f[i])
      <4>1. f[n] \in Int /\ f[i] \in Int
        OBVIOUS
      <4>2. \A k \in 1..(n - 1) : f[k] \in Int
        OBVIOUS
      <4>3. \A k \in 1..n : f[k] <= f[n]
        BY <3>1, <3>2, <3>4, <4>1, <4>2
      <4> QED  BY <4>3
    <3> QED  BY <3>3, <3>4
  <2> QED  BY <2>1, <2>2
<1>3. 0..N \subseteq S
  <2> HIDE DEF S
  <2> QED  BY <1>1, <1>2, RoundInduction
<1> QED  BY <1>3

\* one gives an element of every set that has any.
Selects(one, S) == \A s \in SUBSET S : s # {} => one[s] \in s

\* f is a number for every element of S, or one of two numbers.
Numbers(f, S) == \A x \in S : f[x] \in Int
TwoNumbers(f, S, A, a, b) == \A x \in S : f[x] = IF x \in A THEN a ELSE b

\* g adds up what f is for the elements of a subset of S.
Adds(g, f, one, S) ==
    \A s \in SUBSET S : g[s] = IF s = {} THEN 0 ELSE f[one[s]] + g[s \ {one[s]}]

\* What is left of a finite set without the element a fold chooses.
LEMMA ChooseOne ==
    ASSUME NEW S, IsFiniteSet(S), NEW s \in SUBSET S, NEW x \in s
    PROVE  /\ x \in S /\ s \ {x} \in SUBSET S
           /\ Cardinality(s) \in Nat /\ Cardinality(s \ {x}) \in Nat
           /\ Cardinality(s \ {x}) = Cardinality(s) - 1
<1>1. IsFiniteSet(s)
  BY FS_Subset
<1>2. IsFiniteSet(s \ {x}) /\ Cardinality(s \ {x}) = Cardinality(s) - 1
  BY <1>1, FS_RemoveElement
<1>3. Cardinality(s) \in Nat /\ Cardinality(s \ {x}) \in Nat
  BY <1>1, <1>2, FS_CardinalityType
<1> QED  BY <1>2, <1>3

\* The recursive function that a fold over a finite set defines exists: after as
\* many rounds as the set has elements a further one changes nothing.
LEMMA FoldExists ==
    ASSUME NEW S, IsFiniteSet(S), NEW f, Numbers(f, S), NEW one, Selects(one, S)
    PROVE  \E g : Adds(g, f, one, S)
<1> DEFINE N == Cardinality(S)
           V == [SUBSET S -> Int]
           c == [s \in SUBSET S |-> 0]
           Round(h) == [s \in SUBSET S |->
                          IF s = {} THEN 0 ELSE f[one[s]] + h[s \ {one[s]}]]
           D == [k \in 1..(N + 1) |-> [h \in V |-> Round(h)]]
<1>1. N \in Nat /\ N + 1 \in Nat
  BY FS_CardinalityType
<1>2. ASSUME NEW s \in SUBSET S, s # {}
      PROVE  /\ one[s] \in s /\ s \ {one[s]} \in SUBSET S /\ f[one[s]] \in Int
             /\ Cardinality(s) \in Nat /\ Cardinality(s \ {one[s]}) \in Nat
             /\ Cardinality(s \ {one[s]}) = Cardinality(s) - 1
  BY <1>2, ChooseOne DEF Selects, Numbers
<1> HIDE DEF N
<1>4. ASSUME NEW h \in V PROVE Round(h) \in V
  <2>1. ASSUME NEW s \in SUBSET S
        PROVE  (IF s = {} THEN 0 ELSE f[one[s]] + h[s \ {one[s]}]) \in Int
    <3>1. CASE s # {}
      <4>1. s \ {one[s]} \in SUBSET S /\ f[one[s]] \in Int
        BY <1>2, <3>1
      <4>2. h[s \ {one[s]}] \in Int
        BY <4>1
      <4> QED  BY <3>1, <4>1, <4>2
    <3> QED  BY <3>1
  <2> QED  BY <2>1
<1>5. c \in V /\ D \in [1..(N + 1) -> [V -> V]]
  <2> HIDE DEF V, Round
  <2>1. D \in [1..(N + 1) -> [V -> V]]
    BY <1>4
  <2>2. c \in V
    BY DEF V
  <2> QED  BY <2>1, <2>2
<1>6. \A k \in 1..(N + 1) : \A h \in V : D[k][h] = Round(h)
  <2> HIDE DEF V, Round
  <2> QED  OBVIOUS
<1>7. PICK g : /\ g[0] = c
               /\ \A k \in 0..(N + 1) : g[k] \in V
               /\ \A k \in 1..(N + 1) : g[k] = D[k][g[k - 1]]
  <2> DEFINE M == N + 1
  <2>1. M \in Nat /\ c \in V
    BY <1>1, <1>5
  <2>2. D \in [1..M -> [V -> V]]
    BY <1>5
  <2> HIDE DEF V, D, c, M
  <2>3. \E g : /\ g[0] = c
               /\ \A k \in 0..M : g[k] \in V
               /\ \A k \in 1..M : g[k] = D[k][g[k - 1]]
    BY <2>1, <2>2, RoundFunction, Z3
  <2> QED  BY <2>3 DEF M
<1> HIDE DEF D, c
<1>8. ASSUME NEW k \in 1..(N + 1), NEW s \in SUBSET S
      PROVE  g[k][s] = IF s = {} THEN 0 ELSE f[one[s]] + g[k - 1][s \ {one[s]}]
  <2>1. k - 1 \in 0..(N + 1) /\ g[k - 1] \in V
    <3> HIDE DEF V
    <3> QED  BY <1>1, <1>7
  <2>2. g[k] = Round(g[k - 1])
    BY <1>6, <1>7, <2>1
  <2> QED  BY <2>2
<1> DEFINE Settled == {k \in 0..N : \A s \in SUBSET S :
                         Cardinality(s) <= k => g[k + 1][s] = g[k][s]}
<1>9. 0..N \subseteq Settled
  <2>1. 0 \in Settled
    <3>1. ASSUME NEW s \in SUBSET S, Cardinality(s) <= 0 PROVE g[0 + 1][s] = g[0][s]
      <4>1. s = {}
        <5>1. SUFFICES ASSUME s # {} PROVE FALSE
          OBVIOUS
        <5>2. /\ Cardinality(s) \in Nat /\ Cardinality(s \ {one[s]}) \in Nat
              /\ Cardinality(s \ {one[s]}) = Cardinality(s) - 1
          BY <1>2, <5>1
        <5> QED  BY <3>1, <5>2
      <4>2. 0 + 1 = 1 /\ 1 \in 1..(N + 1)
        BY <1>1
      <4>3. g[1][s] = 0
        BY <1>8, <4>1, <4>2
      <4>4. g[0][s] = 0
        BY <1>7 DEF c
      <4> QED  BY <4>2, <4>3, <4>4
    <3> QED  BY <1>1, <3>1
  <2>2. ASSUME NEW k \in 1..N, k - 1 \in Settled PROVE k \in Settled
    <3>1. ASSUME NEW s \in SUBSET S, Cardinality(s) <= k PROVE g[k + 1][s] = g[k][s]
      <4>1. k \in 1..(N + 1) /\ k + 1 \in 1..(N + 1) /\ (k + 1) - 1 = k /\ (k - 1) + 1 = k
        BY <1>1
      <4>2. g[k + 1][s] = IF s = {} THEN 0 ELSE f[one[s]] + g[k][s \ {one[s]}]
        BY <1>8, <4>1
      <4>3. g[k][s] = IF s = {} THEN 0 ELSE f[one[s]] + g[k - 1][s \ {one[s]}]
        BY <1>8, <4>1
      <4>4. CASE s = {}
        BY <4>2, <4>3, <4>4
      <4>5. CASE s # {}
        <5>1. s \ {one[s]} \in SUBSET S /\ Cardinality(s \ {one[s]}) <= k - 1
          BY <1>1, <1>2, <3>1, <4>5
        <5>2. g[k][s \ {one[s]}] = g[k - 1][s \ {one[s]}]
          BY <2>2, <4>1, <5>1
        <5> QED  BY <4>2, <4>3, <5>2
      <4> QED  BY <4>4, <4>5
    <3> QED  BY <1>1, <3>1
  <2> HIDE DEF Settled
  <2> QED  BY <1>1, <2>1, <2>2, RoundInduction
<1>10. ASSUME NEW s \in SUBSET S PROVE g[N + 1][s] = g[N][s]
  <2>1. Cardinality(s) <= N
    BY FS_Subset DEF N
  <2>2. N \in Settled
    BY <1>1, <1>9
  <2> QED  BY <2>1, <2>2
<1> DEFINE h == g[N + 1]
<1>11. h \in V
  <2> HIDE DEF V
  <2> QED  BY <1>1, <1>7
<1>12. ASSUME NEW s \in SUBSET S
       PROVE  h[s] = IF s = {} THEN 0 ELSE f[one[s]] + h[s \ {one[s]}]
  <2>1. N + 1 \in 1..(N + 1) /\ (N + 1) - 1 = N
    BY <1>1
  <2>2. h[s] = IF s = {} THEN 0 ELSE f[one[s]] + g[N][s \ {one[s]}]
    BY <1>8, <2>1
  <2>3. s # {} => g[N][s \ {one[s]}] = h[s \ {one[s]}]
    BY <1>2, <1>10
  <2> QED  BY <2>2, <2>3
<1> HIDE DEF h
<1> QED  BY <1>12 DEF Adds

\* A sum over a finite set of numbers of which there are two.
LEMMA SumOfTwo ==
    ASSUME NEW S, IsFiniteSet(S), NEW f, NEW A, NEW a \in Int, NEW b \in Int,
           TwoNumbers(f, S, A, a, b), NEW one, Selects(one, S),
           NEW g, Adds(g, f, one, S)
    PROVE  g[S] = a * Cardinality(S \cap A) + b * Cardinality(S \ A)
<1> DEFINE N == Cardinality(S)
           Good(s) == g[s] = a * Cardinality(s \cap A) + b * Cardinality(s \ A)
           Sizes == {n \in 0..N : \A s \in SUBSET S : Cardinality(s) = n => Good(s)}
<1>1. N \in Nat
  BY FS_CardinalityType
<1>2. 0 \in Sizes
  <2>1. ASSUME NEW s \in SUBSET S, Cardinality(s) = 0 PROVE Good(s)
    <3>1. s = {}
      BY <2>1, FS_Subset, FS_EmptySet
    <3>2. g[s] = 0 /\ s \cap A = {} /\ s \ A = {}
      BY <3>1 DEF Adds
    <3>3. Cardinality({}) = 0 /\ a * 0 + b * 0 = 0
      BY FS_EmptySet
    <3> QED  BY <3>2, <3>3
  <2> QED  BY <1>1, <2>1
<1>3. ASSUME NEW n \in 1..N, n - 1 \in Sizes PROVE n \in Sizes
  <2>1. ASSUME NEW s \in SUBSET S, Cardinality(s) = n PROVE Good(s)
    <3>1. s # {}
      <4>1. Cardinality({}) = 0 /\ n # 0
        BY <1>1, FS_EmptySet
      <4> QED  BY <2>1, <4>1
    <3> DEFINE x == one[s]
               t == s \ {x}
    <3>2. x \in s /\ x \in S /\ t \in SUBSET S /\ Cardinality(t) = n - 1
      BY <2>1, <3>1, ChooseOne DEF Selects
    <3>3. g[s] = f[x] + g[t]
      BY <3>1 DEF Adds
    <3> HIDE DEF x
    <3>4. Good(t)
      BY <1>3, <3>2
    <3>5. IsFiniteSet(t \cap A) /\ IsFiniteSet(t \ A)
      <4>1. t \cap A \subseteq S /\ t \ A \subseteq S
        BY <3>2
      <4> QED  BY <4>1, FS_Subset
    <3>6. Cardinality(t \cap A) \in Nat /\ Cardinality(t \ A) \in Nat
      BY <3>5, FS_CardinalityType
    <3>7. CASE x \in A
      <4>1. s \cap A = (t \cap A) \cup {x} /\ s \ A = t \ A /\ x \notin t \cap A
        BY <3>2, <3>7
      <4>2. Cardinality(s \cap A) = Cardinality(t \cap A) + 1
        BY <3>5, <4>1, FS_AddElement
      <4>3. f[x] = a
        BY <3>2, <3>7 DEF TwoNumbers
      <4>4. \A i, j \in Nat : a + (a * i + b * j) = a * (i + 1) + b * j
        OBVIOUS
      <4>5. g[t] = a * Cardinality(t \cap A) + b * Cardinality(t \ A)
        BY <3>4
      <4> DEFINE i == Cardinality(t \cap A)
                 j == Cardinality(t \ A)
      <4>6. g[s] = a + (a * i + b * j) /\ i \in Nat /\ j \in Nat
        BY <3>3, <3>6, <4>3, <4>5
      <4>7. Cardinality(s \cap A) = i + 1 /\ Cardinality(s \ A) = j
        BY <4>1, <4>2
      <4> HIDE DEF i, j, t
      <4>8. g[s] = a * (i + 1) + b * j
        BY <4>4, <4>6
      <4> QED  BY <4>7, <4>8
    <3>8. CASE x \notin A
      <4>1. s \cap A = t \cap A /\ s \ A = (t \ A) \cup {x} /\ x \notin t \ A
        BY <3>2, <3>8
      <4>2. Cardinality(s \ A) = Cardinality(t \ A) + 1
        BY <3>5, <4>1, FS_AddElement
      <4>3. f[x] = b
        BY <3>2, <3>8 DEF TwoNumbers
      <4>4. \A i, j \in Nat : b + (a * i + b * j) = a * i + b * (j + 1)
        OBVIOUS
      <4>5. g[t] = a * Cardinality(t \cap A) + b * Cardinality(t \ A)
        BY <3>4
      <4> DEFINE i == Cardinality(t \cap A)
                 j == Cardinality(t \ A)
      <4>6. g[s] = b + (a * i + b * j) /\ i \in Nat /\ j \in Nat
        BY <3>3, <3>6, <4>3, <4>5
      <4>7. Cardinality(s \cap A) = i /\ Cardinality(s \ A) = j + 1
        BY <4>1, <4>2
      <4> HIDE DEF i, j, t
      <4>8. g[s] = a * i + b * (j + 1)
        BY <4>4, <4>6
      <4> QED  BY <4>7, <4>8
    <3> QED  BY <3>7, <3>8
  <2> HIDE DEF Good
  <2> QED  BY <2>1
<1>4. 0..N \subseteq Sizes
  <2> HIDE DEF Sizes
  <2> QED  BY <1>1, <1>2, <1>3, RoundInduction
<1>5. N \in Sizes
  BY <1>1, <1>4
<1> QED  BY <1>5

\* The remainder on division by l of a number within l of 0..(l - 1).
LEMMA Remainder ==
    ASSUME NEW x \in Int, NEW l \in Nat \ {0}
    PROVE  /\ 0 <= x /\ x < l => x % l = x
           /\ -l <= x /\ x < 0 => x % l = x + l
           /\ l <= x /\ x < 2 * l => x % l = x - l
<1>1. CASE 0 <= x /\ x < l
  BY <1>1, Z3
<1>2. CASE -l <= x /\ x < 0
  BY <1>2, Z3
<1>3. CASE l <= x /\ x < 2 * l
  BY <1>3, Z3
<1> QED  BY <1>1, <1>2, <1>3
=============================================================================
