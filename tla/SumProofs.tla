----------------------------- MODULE SumProofs ------------------------------
(***************************************************************************)
(* Sums over finite sets: what a fold of + over the elements of a set, one *)
(* at a time, computes.  The quantity of a level, the commands applied by  *)
(* all shards and the bytes of a message are such sums.  Induction over a  *)
(* finite set is a choice of a smallest counterexample.  Then a few facts  *)
(* about the concatenation of sequences.                                   *)
(***************************************************************************)
EXTENDS Integers, Sequences, FiniteSets, FiniteSetTheorems, SequenceTheorems, TLAPS

LEMMA SmallestSet ==
  ASSUME NEW S, IsFiniteSet(S), NEW Bad \in SUBSET (SUBSET S), Bad # {}
  PROVE  \E u \in Bad : \A v \in SUBSET u : v # u => v \notin Bad
<1>1. /\ IsWellFoundedOn(StrictSubsetOrdering(S), FiniteSubsetsOf(S))
      /\ FiniteSubsetsOf(S) = SUBSET S
  BY FS_StrictSubsetOrderingWellFounded, FS_FiniteSubsetsOfFinite
<1>2. PICK u \in Bad : \A v \in Bad : ~(<<v, u>> \in StrictSubsetOrdering(S))
  BY <1>1, WFMin
<1>3. ASSUME NEW v \in SUBSET u, v # u PROVE v \notin Bad
  <2>1. v \in SUBSET S /\ u \in SUBSET S
    OBVIOUS
  <2>2. <<v, u>> \in StrictSubsetOrdering(S)
    BY <1>3, <2>1 DEF StrictSubsetOrdering
  <2>3. QED
    BY <1>2, <2>2
<1>4. QED
  BY <1>3

Pick(s) == CHOOSE x \in s : TRUE

\* g maps every subset of T to the sum of its weights, one element at a time.
Sums(g, w, T) ==
  g = [s \in SUBSET T |-> IF s = {} THEN 0 ELSE w[Pick(s)] + g[s \ {Pick(s)}]]

SumFcn(w, T) == CHOOSE g : Sums(g, w, T)
Sum(w, T) == SumFcn(w, T)[T]

LEMMA PickIn == \A s : s # {} => Pick(s) \in s
BY DEF Pick

LEMMA SumsAgree ==
  ASSUME NEW w, NEW S, IsFiniteSet(S), NEW T \in SUBSET S,
         NEW g, Sums(g, w, S), NEW h, Sums(h, w, T)
  PROVE  \A u \in SUBSET T : h[u] = g[u]
<1> DEFINE Bad == {u \in SUBSET T : h[u] # g[u]}
<1> SUFFICES ASSUME Bad # {} PROVE FALSE
  OBVIOUS
<1>1. IsFiniteSet(T)
  BY FS_Subset
<1>2. PICK u \in Bad : \A v \in SUBSET u : v # u => v \notin Bad
  <2>1. Bad \in SUBSET (SUBSET T)
    OBVIOUS
  <2> HIDE DEF Bad
  <2>2. QED
    BY <1>1, <2>1, SmallestSet
<1>3. /\ h[u] = IF u = {} THEN 0 ELSE w[Pick(u)] + h[u \ {Pick(u)}]
      /\ g[u] = IF u = {} THEN 0 ELSE w[Pick(u)] + g[u \ {Pick(u)}]
  BY DEF Sums
<1>4. u # {}
  BY <1>3
<1>5. h[u \ {Pick(u)}] = g[u \ {Pick(u)}]
  BY <1>2, <1>4, PickIn
<1>6. QED
  BY <1>3, <1>5

LEMMA SumsExist ==
  ASSUME NEW w, NEW S, IsFiniteSet(S)
  PROVE  Sums(SumFcn(w, S), w, S)
<1> DEFINE Bad == {u \in SUBSET S : ~Sums(SumFcn(w, u), w, u)}
<1> SUFFICES ASSUME Bad # {} PROVE FALSE
  OBVIOUS
<1>1. PICK u \in Bad : \A v \in SUBSET u : v # u => v \notin Bad
  <2>1. Bad \in SUBSET (SUBSET S)
    OBVIOUS
  <2> HIDE DEF Bad
  <2>2. QED
    BY <2>1, SmallestSet
<1>2. \A v \in SUBSET u : v # u => Sums(SumFcn(w, v), w, v)
  BY <1>1
<1> DEFINE g == [s \in SUBSET u |-> IF s = {} THEN 0
                                    ELSE w[Pick(s)] + Sum(w, s \ {Pick(s)})]
<1>3. ASSUME NEW s \in SUBSET u, s # {}
      PROVE  g[s \ {Pick(s)}] = Sum(w, s \ {Pick(s)})
  <2> DEFINE v == s \ {Pick(s)}
             t == v \ {Pick(v)}
  <2>1. v \in SUBSET u /\ v # u /\ t \in SUBSET u /\ t # u /\ t \in SUBSET v
    BY <1>3, PickIn
  <2>2. Sums(SumFcn(w, v), w, v) /\ Sums(SumFcn(w, t), w, t)
    BY <1>2, <2>1
  <2>3. IsFiniteSet(v)
    BY <2>1, FS_Subset
  <2> HIDE DEF t, v
  <2>4. SumFcn(w, v)[t] = Sum(w, t)
    BY <2>1, <2>2, <2>3, SumsAgree DEF Sum
  <2>5. Sum(w, v) = IF v = {} THEN 0 ELSE w[Pick(v)] + SumFcn(w, v)[t]
    BY <2>2 DEF Sum, Sums, t
  <2>6. g[v] = IF v = {} THEN 0 ELSE w[Pick(v)] + Sum(w, t)
    BY <2>1 DEF t
  <2>7. QED
    BY <2>4, <2>5, <2>6 DEF v
<1>4. Sums(g, w, u)
  <2>1. g = [s \in SUBSET u |-> IF s = {} THEN 0 ELSE w[Pick(s)] + g[s \ {Pick(s)}]]
    BY <1>3
  <2> HIDE DEF g
  <2>2. QED
    BY <2>1 DEF Sums
<1>5. Sums(SumFcn(w, u), w, u)
  <2> HIDE DEF g
  <2>1. QED
    BY <1>4 DEF SumFcn
<1>6. QED
  BY <1>1, <1>5

LEMMA SumUnfold ==
  ASSUME NEW w, NEW T, IsFiniteSet(T)
  PROVE  /\ Sum(w, {}) = 0
         /\ T # {} => Pick(T) \in T /\ Sum(w, T) = w[Pick(T)] + Sum(w, T \ {Pick(T)})
<1>1. Sum(w, {}) = 0
  <2>1. Sums(SumFcn(w, {}), w, {})
    BY SumsExist, FS_EmptySet
  <2>2. QED
    BY <2>1 DEF Sum, Sums
<1>2. ASSUME T # {} PROVE Sum(w, T) = w[Pick(T)] + Sum(w, T \ {Pick(T)})
  <2> DEFINE t == T \ {Pick(T)}
  <2>1. t \in SUBSET T /\ IsFiniteSet(t)
    BY FS_Subset
  <2> HIDE DEF t
  <2>2. Sums(SumFcn(w, T), w, T) /\ Sums(SumFcn(w, t), w, t)
    BY <2>1, SumsExist
  <2>3. SumFcn(w, T)[t] = Sum(w, t)
    BY <2>1, <2>2, SumsAgree DEF Sum
  <2>4. Sum(w, T) = w[Pick(T)] + SumFcn(w, T)[t]
    BY <1>2, <2>2 DEF Sum, Sums, t
  <2>5. QED
    BY <2>3, <2>4 DEF t
<1>3. QED
  BY <1>1, <1>2, PickIn

LEMMA SumNat ==
  ASSUME NEW S, IsFiniteSet(S), NEW w \in [S -> Nat], NEW T \in SUBSET S
  PROVE  Sum(w, T) \in Nat
<1> DEFINE Bad == {u \in SUBSET S : Sum(w, u) \notin Nat}
<1> SUFFICES ASSUME Bad # {} PROVE FALSE
  OBVIOUS
<1>1. PICK u \in Bad : \A v \in SUBSET u : v # u => v \notin Bad
  <2>1. Bad \in SUBSET (SUBSET S)
    OBVIOUS
  <2> HIDE DEF Bad
  <2>2. QED
    BY <2>1, SmallestSet
<1>2. IsFiniteSet(u)
  BY FS_Subset
<1>3. u # {} /\ Pick(u) \in u /\ Sum(w, u) = w[Pick(u)] + Sum(w, u \ {Pick(u)})
  BY <1>2, SumUnfold
<1>4. Sum(w, u \ {Pick(u)}) \in Nat
  BY <1>1, <1>3
<1>5. QED
  BY <1>3, <1>4

\* The order in which a fold picks the elements does not matter.
LEMMA SumTake ==
  ASSUME NEW S, IsFiniteSet(S), NEW w \in [S -> Nat], NEW T \in SUBSET S, NEW o \in T
  PROVE  Sum(w, T) = w[o] + Sum(w, T \ {o})
<1> DEFINE Bad == {u \in SUBSET S : \E x \in u : Sum(w, u) # w[x] + Sum(w, u \ {x})}
<1> SUFFICES ASSUME Bad # {} PROVE FALSE
  OBVIOUS
<1>1. PICK u \in Bad : \A v \in SUBSET u : v # u => v \notin Bad
  <2>1. Bad \in SUBSET (SUBSET S)
    OBVIOUS
  <2> HIDE DEF Bad
  <2>2. QED
    BY <2>1, SmallestSet
<1>2. PICK x \in u : Sum(w, u) # w[x] + Sum(w, u \ {x})
  BY <1>1
<1>3. IsFiniteSet(u) /\ u \in SUBSET S
  BY FS_Subset
<1>4. Pick(u) \in u /\ Sum(w, u) = w[Pick(u)] + Sum(w, u \ {Pick(u)})
  BY <1>2, <1>3, SumUnfold
<1> DEFINE y == Pick(u)
<1> HIDE DEF y
<1>5. y \in u /\ x # y /\ Sum(w, u) = w[y] + Sum(w, u \ {y})
  BY <1>2, <1>4 DEF y
<1>6. u \ {y} \notin Bad /\ u \ {x} \notin Bad
  BY <1>1, <1>2, <1>5
<1>7. /\ Sum(w, u \ {y}) = w[x] + Sum(w, (u \ {y}) \ {x})
      /\ Sum(w, u \ {x}) = w[y] + Sum(w, (u \ {x}) \ {y})
  <2>1. u \ {y} \in SUBSET S /\ u \ {x} \in SUBSET S /\ x \in u \ {y} /\ y \in u \ {x}
    BY <1>2, <1>3, <1>5
  <2>2. QED
    BY <1>6, <2>1
<1>8. (u \ {y}) \ {x} = (u \ {x}) \ {y}
  OBVIOUS
<1>9. w[x] \in Nat /\ w[y] \in Nat /\ Sum(w, (u \ {x}) \ {y}) \in Nat
  <2>1. (u \ {x}) \ {y} \in SUBSET S
    BY <1>3
  <2>2. QED
    BY <1>2, <1>3, <1>5, <2>1, SumNat
<1> DEFINE z == Sum(w, (u \ {x}) \ {y})
           m == w[x]
           n == w[y]
<1>10. /\ m \in Nat /\ n \in Nat /\ z \in Nat
       /\ Sum(w, u) = n + (m + z) /\ Sum(w, u \ {x}) = n + z /\ Sum(w, u) # m + Sum(w, u \ {x})
  BY <1>2, <1>5, <1>7, <1>8, <1>9, Zenon
<1> HIDE DEF m, n, z
<1>11. QED
  BY <1>10

LEMMA SumSame ==
  ASSUME NEW S, IsFiniteSet(S), NEW w, NEW v, \A s \in S : w[s] = v[s]
  PROVE  Sum(w, S) = Sum(v, S)
<1> DEFINE Bad == {u \in SUBSET S : Sum(w, u) # Sum(v, u)}
<1> SUFFICES ASSUME Bad # {} PROVE FALSE
  OBVIOUS
<1>1. PICK u \in Bad : \A t \in SUBSET u : t # u => t \notin Bad
  <2>1. Bad \in SUBSET (SUBSET S)
    OBVIOUS
  <2> HIDE DEF Bad
  <2>2. QED
    BY <2>1, SmallestSet
<1>2. IsFiniteSet(u)
  BY FS_Subset
<1>3. /\ u # {} /\ Pick(u) \in u
      /\ Sum(w, u) = w[Pick(u)] + Sum(w, u \ {Pick(u)})
      /\ Sum(v, u) = v[Pick(u)] + Sum(v, u \ {Pick(u)})
  BY <1>2, SumUnfold
<1>4. Sum(w, u \ {Pick(u)}) = Sum(v, u \ {Pick(u)})
  BY <1>1, <1>3
<1>5. QED
  BY <1>3, <1>4

LEMMA SumBound ==
  ASSUME NEW S, IsFiniteSet(S), NEW w \in [S -> Nat], NEW M \in Nat, \A s \in S : w[s] <= M,
         NEW T \in SUBSET S
  PROVE  Sum(w, T) <= M * Cardinality(T)
<1> DEFINE Bad == {u \in SUBSET S : ~(Sum(w, u) <= M * Cardinality(u))}
<1> SUFFICES ASSUME Bad # {} PROVE FALSE
  OBVIOUS
<1>1. PICK u \in Bad : \A t \in SUBSET u : t # u => t \notin Bad
  <2>1. Bad \in SUBSET (SUBSET S)
    OBVIOUS
  <2> HIDE DEF Bad
  <2>2. QED
    BY <2>1, SmallestSet
<1>2. IsFiniteSet(u) /\ u \in SUBSET S /\ Cardinality({}) = 0
  BY FS_Subset, FS_EmptySet
<1>3. u # {} /\ Pick(u) \in u /\ Sum(w, u) = w[Pick(u)] + Sum(w, u \ {Pick(u)})
  <2>1. Sum(w, {}) = 0
    BY <1>2, SumUnfold
  <2>2. Sum(w, {}) <= M * Cardinality({})
    <3>1. M * 0 = 0
      OBVIOUS
    <3>2. QED
      BY <1>2, <2>1, <3>1
  <2>3. u # {}
    BY <2>2
  <2>4. QED
    BY <1>2, <2>3, SumUnfold
<1> DEFINE t == u \ {Pick(u)}
<1>4. t \in SUBSET S /\ Sum(w, t) <= M * Cardinality(t)
  BY <1>1, <1>2, <1>3
<1>5. Cardinality(t) = Cardinality(u) - 1 /\ Cardinality(u) \in Nat
  BY <1>2, <1>3, FS_RemoveElement, FS_CardinalityType
<1>6. Sum(w, t) \in Nat /\ w[Pick(u)] \in Nat /\ w[Pick(u)] <= M
  BY <1>2, <1>3, <1>4, SumNat
<1> HIDE DEF t
<1>7. Sum(w, u) <= M * (Cardinality(u) - 1) + M
  BY <1>3, <1>4, <1>5, <1>6 DEF t
<1>8. M * (Cardinality(u) - 1) + M = M * Cardinality(u)
  BY <1>5
<1>9. QED
  BY <1>7, <1>8

LEMMA SumAdd ==
  ASSUME NEW S, IsFiniteSet(S), NEW w \in [S -> Nat], NEW T \in SUBSET S, NEW o \in S \ T
  PROVE  Sum(w, T \cup {o}) = w[o] + Sum(w, T)
<1>1. T \cup {o} \in SUBSET S /\ o \in T \cup {o} /\ (T \cup {o}) \ {o} = T
  OBVIOUS
<1>2. QED
  BY <1>1, SumTake

LEMMA SumConst ==
  ASSUME NEW S, IsFiniteSet(S), NEW w \in [S -> Nat], NEW M \in Nat, \A s \in S : w[s] = M
  PROVE  Sum(w, S) = M * Cardinality(S)
<1> DEFINE Bad == {u \in SUBSET S : Sum(w, u) # M * Cardinality(u)}
<1> SUFFICES ASSUME Bad # {} PROVE FALSE
  OBVIOUS
<1>1. PICK u \in Bad : \A t \in SUBSET u : t # u => t \notin Bad
  <2>1. Bad \in SUBSET (SUBSET S)
    OBVIOUS
  <2> HIDE DEF Bad
  <2>2. QED
    BY <2>1, SmallestSet
<1>2. u \in SUBSET S /\ IsFiniteSet(u) /\ Sum(w, u) # M * Cardinality(u)
  BY <1>1, FS_Subset
<1>3. CASE u = {}
  <2>1. Sum(w, u) = 0 /\ Cardinality(u) = 0
    BY <1>2, <1>3, SumUnfold, FS_EmptySet
  <2>2. QED
    BY <1>2, <2>1
<1>4. CASE u # {}
  <2>1. PICK x : x \in u
    BY <1>4
  <2> DEFINE v == u \ {x}
  <2>2. v \in SUBSET u /\ v # u /\ v \in SUBSET S
    BY <1>2, <2>1
  <2>3. Sum(w, v) = M * Cardinality(v)
    BY <1>1, <2>2
  <2>4. Sum(w, u) = w[x] + Sum(w, v) /\ w[x] = M
    BY <1>2, <2>1, SumTake
  <2>5. Cardinality(v) = Cardinality(u) - 1 /\ Cardinality(u) \in Nat /\ Cardinality(v) \in Nat
    BY <1>2, <2>1, FS_RemoveElement, FS_CardinalityType, FS_Subset
  <2> DEFINE c == Cardinality(v)
             d == Cardinality(u)
  <2>6. d = c + 1 /\ c \in Nat
    BY <2>5
  <2> HIDE DEF c, d
  <2>7. M * d = M * c + M
    BY <2>6
  <2>8. Sum(w, u) = M + M * c /\ M * c \in Nat /\ Sum(w, u) # M * d
    BY <1>2, <2>3, <2>4, <2>6 DEF c, d
  <2>9. QED
    BY ONLY <2>7, <2>8
<1>5. QED
  BY <1>3, <1>4

\* Raising one weight by one raises the sums that it belongs to.
LEMMA SumBump ==
  ASSUME NEW S, IsFiniteSet(S), NEW w \in [S -> Nat], NEW v \in [S -> Nat], NEW x \in S,
         v[x] = w[x] + 1, \A s \in S : s # x => v[s] = w[s], NEW T \in SUBSET S
  PROVE  Sum(v, T) = Sum(w, T) + (IF x \in T THEN 1 ELSE 0) /\ Sum(w, T) \in Nat
<1>1. Sum(w, T) \in Nat
  BY SumNat
<1>2. CASE x \in T
  <2> DEFINE U == T \ {x}
  <2>1. U \in SUBSET S /\ IsFiniteSet(U) /\ \A s \in U : w[s] = v[s]
    BY FS_Subset
  <2>2. Sum(w, U) = Sum(v, U)
    BY <2>1, SumSame
  <2>3. Sum(v, T) = v[x] + Sum(v, U) /\ Sum(w, T) = w[x] + Sum(w, U) /\ Sum(w, U) \in Nat
    BY <1>2, <2>1, SumTake, SumNat
  <2>4. QED
    BY <1>1, <1>2, <2>2, <2>3
<1>3. CASE x \notin T
  <2>1. IsFiniteSet(T) /\ \A s \in T : w[s] = v[s]
    BY <1>3, FS_Subset
  <2>2. Sum(w, T) = Sum(v, T)
    BY <2>1, SumSame
  <2>3. QED
    BY <1>1, <1>3, <2>2
<1>4. QED
  BY <1>1, <1>2, <1>3

\* A sum over fewer elements is not larger.
LEMMA SumMono ==
  ASSUME NEW S, IsFiniteSet(S), NEW w \in [S -> Nat], NEW T \in SUBSET S
  PROVE  Sum(w, T) <= Sum(w, S)
<1> DEFINE Bad == {u \in SUBSET S : T \subseteq u /\ ~(Sum(w, T) <= Sum(w, u))}
<1> SUFFICES ASSUME Bad # {} PROVE FALSE
  OBVIOUS
<1>1. PICK u \in Bad : \A t \in SUBSET u : t # u => t \notin Bad
  <2>1. Bad \in SUBSET (SUBSET S)
    OBVIOUS
  <2> HIDE DEF Bad
  <2>2. QED
    BY <2>1, SmallestSet
<1>2. u \in SUBSET S /\ T \subseteq u /\ ~(Sum(w, T) <= Sum(w, u))
  OBVIOUS
<1>3. Sum(w, T) \in Nat /\ \A t \in SUBSET S : Sum(w, t) \in Nat
  BY SumNat
<1>4. PICK x \in u : x \notin T
  <2>1. T # u
    BY <1>2, <1>3
  <2>2. QED
    BY <1>2, <2>1
<1> DEFINE v == u \ {x}
<1>5. v \in SUBSET u /\ v # u /\ v \in SUBSET S /\ T \subseteq v
  BY <1>2, <1>4
<1>6. Sum(w, T) <= Sum(w, v)
  BY <1>1, <1>5
<1>7. Sum(w, u) = w[x] + Sum(w, v) /\ w[x] \in Nat /\ Sum(w, v) \in Nat
  BY <1>2, <1>3, <1>4, <1>5, SumTake
<1>8. QED
  BY <1>2, <1>3, <1>6, <1>7

\* The first n weights.
LEMMA SumUpTo ==
  ASSUME NEW n \in Nat, NEW w, w \in [1..n -> Nat], NEW i \in 1..n
  PROVE  /\ Sum(w, 1..0) = 0
         /\ Sum(w, 1..i) = w[i] + Sum(w, 1..(i - 1))
         /\ Sum(w, 1..i) \in Nat /\ Sum(w, 1..(i - 1)) \in Nat
         /\ Sum(w, 1..i) <= Sum(w, 1..n)
<1> DEFINE N == 1..n
           I == 1..i
           J == 1..(i - 1)
<1>1. IsFiniteSet(N)
  <2>1. 1 \in Int /\ n \in Int
    OBVIOUS
  <2>2. QED
    BY <2>1, FS_Interval
<1>2. I \in SUBSET N /\ J \in SUBSET N /\ i \in N \ J /\ J \cup {i} = I /\ w \in [N -> Nat]
  OBVIOUS
<1>3. 1..0 = {}
  OBVIOUS
<1>4. Sum(w, {}) = 0
  BY FS_EmptySet, SumUnfold
<1> HIDE DEF N, I, J
<1>5. Sum(w, J \cup {i}) = w[i] + Sum(w, J)
  <2> DEFINE x == i
  <2>1. IsFiniteSet(N) /\ w \in [N -> Nat] /\ J \in SUBSET N /\ x \in N \ J
    BY <1>1, <1>2
  <2> HIDE DEF x
  <2>2. Sum(w, J \cup {x}) = w[x] + Sum(w, J)
    BY ONLY <2>1, SumAdd
  <2>3. QED
    BY <2>2 DEF x
<1>6. Sum(w, I) \in Nat /\ Sum(w, J) \in Nat
  BY <1>1, <1>2, SumNat
<1>7. Sum(w, I) <= Sum(w, N)
  BY <1>1, <1>2, SumMono
<1>8. QED
  BY <1>2, <1>3, <1>4, <1>5, <1>6, <1>7 DEF I, J, N

LEMMA SmallestNat ==
  ASSUME NEW Bad \in SUBSET Nat, Bad # {}
  PROVE  \E m \in Bad : \A k \in Bad : m <= k
<1>1. PICK m \in Bad : \A k \in Bad : ~(<<k, m>> \in OpToRel(<, Nat))
  BY NatLessThanWellFounded, WFMin
<1>2. \A k \in Bad : ~(k < m)
  BY <1>1 DEF OpToRel
<1>3. QED
  BY <1>2

\* The first weight, and the others counted from one.
LEMMA SumShift ==
  ASSUME NEW n \in Nat, NEW w \in [1..(n + 1) -> Nat], NEW v \in [1..n -> Nat],
         \A i \in 1..n : v[i] = w[i + 1]
  PROVE  Sum(w, 1..(n + 1)) = w[1] + Sum(v, 1..n)
<1> DEFINE Good(m) == Sum(w, 1..(m + 1)) = w[1] + Sum(v, 1..m)
           Bad == {m \in 0..n : ~Good(m)}
<1>1. n + 1 \in Nat
  OBVIOUS
<1>2. Good(0)
  <2>1. 1 \in 1..(n + 1) /\ 1 - 1 = 0 /\ 0 + 1 = 1
    OBVIOUS
  <2>2. Sum(w, 1..1) = w[1] + Sum(w, 1..(1 - 1)) /\ Sum(w, 1..0) = 0
    BY <1>1, <2>1, SumUpTo
  <2>3. Sum(v, 1..0) = 0
    <3>1. 1..0 = {}
      OBVIOUS
    <3>2. QED
      BY <3>1, FS_EmptySet, SumUnfold
  <2>4. QED
    BY <2>1, <2>2, <2>3
<1>3. ASSUME NEW m \in 0..(n - 1), Good(m) PROVE Good(m + 1)
  <2> DEFINE i == m + 1
             j == m + 2
  <2>1. i \in 1..n /\ j \in 1..(n + 1) /\ j - 1 = i /\ i - 1 = m /\ i + 1 = j
    OBVIOUS
  <2> HIDE DEF i, j
  <2>2. Sum(w, 1..j) = w[j] + Sum(w, 1..(j - 1)) /\ Sum(w, 1..(j - 1)) \in Nat
    BY <1>1, <2>1, SumUpTo
  <2>3. Sum(v, 1..i) = v[i] + Sum(v, 1..(i - 1)) /\ Sum(v, 1..(i - 1)) \in Nat
    BY <2>1, SumUpTo
  <2>4. v[i] = w[j] /\ w[j] \in Nat /\ w[1] \in Nat
    BY <2>1
  <2>5. Sum(w, 1..i) = w[1] + Sum(v, 1..m)
    BY <1>3 DEF i
  <2>6. Sum(w, 1..j) = w[1] + Sum(v, 1..i)
    BY <2>1, <2>2, <2>3, <2>4, <2>5
  <2>7. QED
    BY <2>1, <2>6 DEF i
<1>4. Bad = {}
  <2> SUFFICES ASSUME Bad # {} PROVE FALSE
    OBVIOUS
  <2>1. PICK m \in Bad : \A k \in Bad : m <= k
    <3>1. Bad \in SUBSET Nat
      OBVIOUS
    <3> HIDE DEF Bad
    <3>2. QED
      BY <3>1, SmallestNat
  <2>2. m \in 0..n /\ ~Good(m) /\ m # 0
    BY <1>2, <2>1
  <2>3. m - 1 \in 0..(n - 1) /\ (m - 1) + 1 = m /\ m - 1 \in 0..n /\ m - 1 \notin Bad
    BY <2>1, <2>2
  <2>4. Good(m - 1)
    BY <2>3
  <2> HIDE DEF Good
  <2>5. Good((m - 1) + 1)
    BY <1>3, <2>3, <2>4
  <2>6. QED
    BY <2>2, <2>3, <2>5
<1>5. n \in 0..n
  OBVIOUS
<1>6. QED
  BY <1>4, <1>5

-----------------------------------------------------------------------------
(***************************************************************************)
(* Concatenations of three sequences.                                      *)
(***************************************************************************)
LEMMA ConcatAppend ==
  ASSUME NEW V, NEW X \in Seq(V), NEW R \in Seq(V), NEW v \in V
  PROVE  X \o Append(R, v) = Append(X \o R, v)
<1>1. <<v>> \in Seq(V) /\ X \o R \in Seq(V)
  BY ConcatProperties
<1>2. Append(R, v) = R \o <<v>> /\ Append(X \o R, v) = (X \o R) \o <<v>>
  BY <1>1, AppendIsConcat
<1>3. (X \o R) \o <<v>> = X \o (R \o <<v>>)
  BY <1>1, ConcatAssociative
<1>4. QED
  BY <1>2, <1>3

Regroups(x, y, z) == (x \o y) \o z = x \o (y \o z)

LEMMA Regroup ==
  ASSUME NEW V, NEW x \in Seq(V), NEW y \in Seq(V), NEW z \in Seq(V)
  PROVE  Regroups(x, y, z)
BY ConcatAssociative DEF Regroups

\* Moving the head of R to the end of U.
HeadMoves(X, U, R) == X \o Append(U, R[1]) \o Tail(R) = X \o U \o R

LEMMA ConcatMove ==
  ASSUME NEW V, NEW X \in Seq(V), NEW U \in Seq(V), NEW R \in Seq(V), R # <<>>
  PROVE  HeadMoves(X, U, R)
<1> DEFINE v == R[1]
           T == Tail(R)
<1>1. v \in V /\ T \in Seq(V) /\ Len(R) \in Nat /\ Len(R) >= 1 /\ Len(T) = Len(R) - 1
      /\ \A i \in 1..Len(T) : T[i] = R[i + 1]
  BY HeadTailProperties, EmptySeq, ElementOfSeq, LenProperties
<1> HIDE DEF T
<1>2. R = <<v>> \o T
  <2>1. <<v>> \in Seq(V) /\ Len(<<v>>) = 1 /\ <<v>>[1] = v
    BY <1>1
  <2> DEFINE s == <<v>>
  <2>2. s \in Seq(V) /\ Len(s) = 1 /\ s[1] = v
    BY <2>1
  <2> HIDE DEF s
  <2>3. s \o T \in Seq(V) /\ Len(s \o T) = Len(R)
        /\ \A i \in 1..Len(R) : (s \o T)[i] = IF i <= 1 THEN s[i] ELSE T[i - 1]
    <3>1. /\ s \o T \in Seq(V) /\ Len(s \o T) = Len(s) + Len(T)
          /\ \A i \in 1..(Len(s) + Len(T)) : (s \o T)[i] = IF i <= Len(s) THEN s[i] ELSE T[i - Len(s)]
      <4>1. s \in Seq(V) /\ T \in Seq(V)
        BY <1>1, <2>2
      <4>2. QED
        BY ONLY <4>1, ConcatProperties, Zenon
    <3> DEFINE c == s \o T
    <3> HIDE DEF c
    <3>2. Len(s) + Len(T) = Len(R)
      BY ONLY <1>1, <2>2
    <3>3. c \in Seq(V) /\ Len(c) = Len(R)
          /\ \A i \in 1..Len(R) : c[i] = IF i <= 1 THEN s[i] ELSE T[i - 1]
      BY ONLY <3>1, <3>2, <2>2 DEF c
    <3>4. QED
      BY ONLY <3>3 DEF c
  <2>4. ASSUME NEW i \in 1..Len(R) PROVE (s \o T)[i] = R[i]
    <3>1. CASE i = 1
      BY <2>2, <2>3, <3>1 DEF v
    <3>2. CASE i # 1
      <4>1. i - 1 \in 1..Len(T) /\ (i - 1) + 1 = i /\ ~(i <= 1)
        BY <1>1, <3>2
      <4>2. QED
        BY <1>1, <2>3, <4>1
    <3>3. QED
      BY <3>1, <3>2
  <2>5. s \o T = R
    BY <2>3, <2>4, SeqEqual
  <2>6. QED
    BY <2>5 DEF s
<1> HIDE DEF v
<1>3. <<v>> \in Seq(V) /\ X \o U \in Seq(V) /\ U \o <<v>> \in Seq(V) /\ Append(U, v) = U \o <<v>>
  <2>1. <<v>> \in Seq(V)
    BY <1>1
  <2>2. QED
    BY <1>1, <2>1, ConcatProperties, AppendIsConcat
<1>4. X \o (U \o <<v>>) = (X \o U) \o <<v>>
  BY <1>3, ConcatAssociative
<1>5. ((X \o U) \o <<v>>) \o T = (X \o U) \o (<<v>> \o T)
  <2> DEFINE Y == X \o U
             s == <<v>>
  <2>1. Y \in Seq(V) /\ s \in Seq(V)
    BY <1>3
  <2> HIDE DEF Y, s
  <2>2. (Y \o s) \o T = Y \o (s \o T)
    <3>1. Y \in Seq(V) /\ s \in Seq(V) /\ T \in Seq(V)
      BY <1>1, <2>1
    <3>2. Regroups(Y, s, T)
      BY ONLY <3>1, Regroup
    <3>3. QED
      BY ONLY <3>2 DEF Regroups
  <2>3. QED
    BY ONLY <2>2 DEF Y, s
<1>6. QED
  BY <1>2, <1>3, <1>4, <1>5 DEF v, T, HeadMoves

-----------------------------------------------------------------------------
(***************************************************************************)
(* The greatest of a set of indices: where a fold over a sequence from the *)
(* left takes its last element.                                            *)
(***************************************************************************)
Greatest(s) == CHOOSE x \in s : \A y \in s : x >= y

LEMMA GreatestIn ==
  ASSUME NEW n \in Nat, NEW s \in SUBSET (1..n), s # {}
  PROVE  Greatest(s) \in s /\ \A y \in s : Greatest(s) >= y
<1> DEFINE HasMax(u) == \E x \in u : \A y \in u : x >= y
           Bad == {u \in SUBSET (1..n) : u # {} /\ ~HasMax(u)}
<1>1. Bad = {}
  <2> SUFFICES ASSUME Bad # {} PROVE FALSE
    OBVIOUS
  <2>1. PICK u \in Bad : \A v \in SUBSET u : v # u => v \notin Bad
    <3>1. Bad \in SUBSET (SUBSET (1..n)) /\ IsFiniteSet(1..n)
      BY FS_Interval
    <3> HIDE DEF Bad
    <3>2. QED
      BY <3>1, SmallestSet
  <2>2. PICK x \in u : TRUE
    OBVIOUS
  <2>3. u \ {x} \notin Bad /\ u \ {x} \in SUBSET (1..n)
    BY <2>1, <2>2
  <2>4. CASE u \ {x} = {}
    <3>1. \A y \in u : y = x /\ x >= y
      BY <2>2, <2>4
    <3>2. QED
      BY <2>2, <3>1
  <2>5. CASE u \ {x} # {}
    <3>1. PICK m \in u \ {x} : \A y \in u \ {x} : m >= y
      BY <2>3, <2>5
    <3>2. CASE m >= x
      <4>1. \A y \in u : m >= y
        BY <3>1, <3>2
      <4>2. QED
        BY <3>1, <4>1
    <3>3. CASE x >= m
      <4>1. \A y \in u : x >= y
        BY <2>2, <3>1, <3>3
      <4>2. QED
        BY <2>2, <4>1
    <3>4. m \in Int /\ x \in Int
      BY <2>2, <3>1
    <3>5. QED
      BY <3>2, <3>3, <3>4
  <2>6. QED
    BY <2>4, <2>5
<1>2. \E x \in s : \A y \in s : x >= y
  BY <1>1
<1>3. QED
  BY <1>2 DEF Greatest

LEMMA GreatestRange ==
  ASSUME NEW n \in Nat
  PROVE  Greatest(1..(n + 1)) = n + 1 /\ (1..(n + 1)) \ {n + 1} = 1..n
<1>1. n + 1 \in Nat /\ 1..(n + 1) \in SUBSET (1..(n + 1)) /\ 1..(n + 1) # {}
  OBVIOUS
<1>2. Greatest(1..(n + 1)) \in 1..(n + 1) /\ \A y \in 1..(n + 1) : Greatest(1..(n + 1)) >= y
  BY <1>1, GreatestIn
<1>3. QED
  BY <1>2
=============================================================================
