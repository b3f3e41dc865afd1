------------------------- MODULE BatchShardingProofs -------------------------
(***************************************************************************)
(* The packers and the sharding of a batch, for any rows, lengths, sizes   *)
(* and shards: every packer holds every sequence once within its capacity, *)
(* and every sharding gives each row to one shard, uncut and within the    *)
(* budget, in equally many microbatches where the workers rely on it.      *)
(* Before them what they rest on: folds, sorted lists, sums.               *)
(***************************************************************************)
EXTENDS BatchSharding, FiniteSetTheorems, SequenceTheorems, WellFoundedInduction, TLAPS

(***************************************************************************)
(* Least and greatest numbers, lists, induction, and what a fold computes. *)
(***************************************************************************)
LEMMA LeastOf ==
  ASSUME NEW S, S \subseteq Nat, S # {}
  PROVE  Min(S) \in S /\ \A x \in S : Min(S) <= x
<1>1. PICK s \in S : \A x \in S : <<x, s>> \notin OpToRel(<, Nat)
  BY WFMin, NatLessThanWellFounded, Zenon
<1>2. \A x \in S : ~(x < s)
  BY <1>1, Zenon DEF OpToRel
<1>3. \A x \in S : s <= x
  BY <1>2
<1>4. QED
  BY <1>3, Zenon DEF Min

(* An element that none exceeds is the greatest.                           *)
LEMMA GreatestIs ==
  ASSUME NEW S, S \subseteq Nat, NEW m \in S, \A x \in S : x <= m
  PROVE  Max(S) = m
<1>1. Max(S) \in S /\ \A y \in S : Max(S) >= y
  <2>1. \A y \in S : m >= y
    OBVIOUS
  <2>2. QED
    BY <2>1, Zenon DEF Max
<1>2. \A w \in S : (\A y \in S : w >= y) => w = m
  OBVIOUS
<1>3. QED
  BY <1>1, <1>2, Zenon

(* Some numbers up to n have a greatest one.                               *)
LEMMA GreatestOf ==
  ASSUME NEW n \in Nat, NEW S, S \subseteq 0 .. n, S # {}
  PROVE  Max(S) \in S /\ \A x \in S : x <= Max(S)
<1> DEFINE gaps == {n - x : x \in S}
<1>1. gaps \subseteq Nat /\ gaps # {}
  <2>1. \A x \in S : n - x \in Nat
    OBVIOUS
  <2>2. QED
    BY <2>1
<1>2. Min(gaps) \in gaps /\ \A g \in gaps : Min(gaps) <= g
  <2> HIDE DEF gaps
  <2> QED
    BY <1>1, LeastOf
<1>3. PICK m \in S : Min(gaps) = n - m
  BY <1>2
<1>4. \A x \in S : x <= m
  <2> SUFFICES ASSUME NEW x \in S PROVE x <= m
    OBVIOUS
  <2>1. n - m <= n - x
    BY <1>2, <1>3
  <2>2. QED
    BY <2>1
<1>5. Max(S) = m
  <2>1. S \subseteq Nat
    OBVIOUS
  <2>2. QED
    BY <1>4, <2>1, GreatestIs, Zenon
<1>6. QED
  BY <1>4, <1>5

(* A list of anything.                                                     *)
Listing(x) == Len(x) \in Nat /\ x = [k \in 1 .. Len(x) |-> x[k]]

(* A sequence is a list.                                                   *)
LEMMA ListingSeq ==
  ASSUME NEW A, NEW x \in Seq(A)
  PROVE  Listing(x) /\ \A k \in 1 .. Len(x) : x[k] \in A
BY DEF Listing

(* The places of a list.                                                   *)
LEMMA ListingDomain ==
  ASSUME NEW x, Listing(x)
  PROVE  Len(x) \in Nat /\ DOMAIN x = 1 .. Len(x) /\ x \in Seq({x[k] : k \in 1 .. Len(x)})
<1>1. Len(x) \in Nat /\ x = [k \in 1 .. Len(x) |-> x[k]]
  BY DEF Listing
<1>2. DOMAIN x = 1 .. Len(x)
  BY <1>1
<1>3. x \in [1 .. Len(x) -> {x[k] : k \in 1 .. Len(x)}]
  BY <1>1
<1>4. QED
  BY <1>1, <1>2, <1>3

(* A list and one more.                                                    *)
LEMMA ListingAppend ==
  ASSUME NEW x, Listing(x), NEW e
  PROVE  /\ Listing(Append(x, e)) /\ Len(Append(x, e)) = Len(x) + 1
         /\ \A k \in 1 .. Len(x) : Append(x, e)[k] = x[k]
         /\ Append(x, e)[Len(x) + 1] = e
<1> DEFINE A == {x[k] : k \in 1 .. Len(x)} \cup {e}
<1>1. x \in Seq(A)
  <2>1. Len(x) \in Nat /\ x = [k \in 1 .. Len(x) |-> x[k]]
    BY DEF Listing
  <2>2. \A k \in 1 .. Len(x) : x[k] \in A
    OBVIOUS
  <2> HIDE DEF A
  <2>3. x \in [1 .. Len(x) -> A]
    BY <2>1, <2>2
  <2>4. QED
    BY <2>1, <2>3
<1>2. e \in A
  OBVIOUS
<1> HIDE DEF A
<1>3. /\ Append(x, e) \in Seq(A) /\ Len(Append(x, e)) = Len(x) + 1
      /\ \A k \in 1 .. Len(x) : Append(x, e)[k] = x[k]
      /\ Append(x, e)[Len(x) + 1] = e
  BY <1>1, <1>2
<1>4. QED
  BY <1>3, ListingSeq

(* Two functions of sets that agree on the empty set, and on a set when    *)
(* they agree on the set without a chosen element, agree: what a fold      *)
(* computes is what its steps keep.                                        *)
LEMMA FoldUnique ==
  ASSUME NEW D, IsFiniteSet(D), NEW f, NEW g, f[{}] = g[{}],
         \A s \in SUBSET D : s # {} => \E x \in s : f[s \ {x}] = g[s \ {x}] => f[s] = g[s]
  PROVE  f[D] = g[D]
<1> DEFINE Wrong == {s \in SUBSET D : f[s] # g[s]}
           sizes == {Cardinality(s) : s \in Wrong}
<1> SUFFICES ASSUME Wrong # {} PROVE FALSE
  OBVIOUS
<1>1. \A s \in SUBSET D : IsFiniteSet(s) /\ Cardinality(s) \in Nat
  BY FS_Subset, FS_CardinalityType
<1>2. sizes \subseteq Nat /\ sizes # {}
  BY <1>1
<1>3. Min(sizes) \in sizes /\ \A x \in sizes : Min(sizes) <= x
  <2> HIDE DEF sizes
  <2> QED
    BY <1>2, LeastOf
<1>4. PICK s \in Wrong : Min(sizes) = Cardinality(s)
  BY <1>3
<1>5. \A r \in Wrong : Cardinality(s) <= Cardinality(r)
  BY <1>3, <1>4
<1>6. s \in SUBSET D /\ f[s] # g[s] /\ s # {}
  BY <1>4
<1>7. PICK x \in s : f[s \ {x}] = g[s \ {x}] => f[s] = g[s]
  BY <1>6
<1> DEFINE r == s \ {x}
<1>8. r \in SUBSET D /\ Cardinality(r) = Cardinality(s) - 1
  BY <1>1, <1>6, <1>7, FS_RemoveElement
<1>9. r \in Wrong
  BY <1>6, <1>7, <1>8
<1>10. Cardinality(s) \in Nat /\ Cardinality(s) <= Cardinality(r)
  BY <1>1, <1>5, <1>6, <1>9
<1>11. QED
  BY <1>8, <1>10

(* What holds at zero, and one up from where it holds, holds up to n.      *)
LEMMA Upward ==
  ASSUME NEW n \in Nat, NEW W, 0 \in W, \A k \in 0 .. n - 1 : k \in W => k + 1 \in W
  PROVE  \A k \in 0 .. n : k \in W
<1> DEFINE Wrong == {k \in 0 .. n : k \notin W}
<1> SUFFICES ASSUME Wrong # {} PROVE FALSE
  OBVIOUS
<1>1. Wrong \subseteq Nat
  OBVIOUS
<1>2. Min(Wrong) \in Wrong /\ \A x \in Wrong : Min(Wrong) <= x
  <2> HIDE DEF Wrong
  <2> QED
    BY <1>1, LeastOf
<1>3. PICK m \in Wrong : \A x \in Wrong : m <= x
  BY <1>2
<1>4. m \in 1 .. n /\ m \notin W
  BY <1>3
<1>5. m - 1 \in 0 .. n - 1 /\ (m - 1) + 1 = m
  BY <1>4
<1>6. m - 1 \in Wrong
  BY <1>4, <1>5
<1>7. QED
  BY <1>3, <1>4, <1>6

(* Some places have a last one.                                            *)
LEMMA TopOf ==
  ASSUME NEW n \in Nat, NEW s \in SUBSET (1 .. n), s # {}
  PROVE  Max(s) \in s /\ Max(s) \in 1 .. n /\ \A x \in s : x <= Max(s)
<1>1. s \subseteq 0 .. n
  OBVIOUS
<1>2. Max(s) \in s /\ \A x \in s : x <= Max(s)
  BY <1>1, GreatestOf
<1>3. QED
  BY <1>2

(* The last of all of them.                                                *)
LEMMA TopOfAll ==
  ASSUME NEW n \in Nat, n > 0
  PROVE  Max(1 .. n) = n
<1>1. n \in 1 .. n /\ 1 .. n \subseteq Nat /\ \A x \in 1 .. n : x <= n
  OBVIOUS
<1>2. QED
  BY <1>1, GreatestIs

(* A fold over n places: what a step makes of a value at a place, what the *)
(* recursion of a fold computes for every set of places, and the values it *)
(* goes through.                                                           *)
Steps(G, V, n) == G \in [V -> [1 .. n -> V]]
Computes(g, V, n, base, G) ==
  /\ g \in [SUBSET (1 .. n) -> V] /\ g[{}] = base
  /\ \A s \in SUBSET (1 .. n) : s # {} => g[s] = G[g[s \ {Max(s)}]][Max(s)]
Folds(it, V, n, base, G) ==
  /\ it[{}] = base
  /\ \A s \in SUBSET (1 .. n) :
       s # {} /\ it[s \ {Max(s)}] \in V => it[s] = G[it[s \ {Max(s)}]][Max(s)]
Trail(t, V, n, base, G) ==
  /\ t \in [0 .. n -> V] /\ t[0] = base
  /\ \A k \in 1 .. n : t[k] = G[t[k - 1]][k]

(* The recursion of a fold can be computed.                                *)
LEMMA FoldSolved ==
  ASSUME NEW V, NEW n \in Nat, NEW base \in V, NEW G, Steps(G, V, n)
  PROVE  \E g : Computes(g, V, n, base, G)
<1> USE DEF Steps
<1> DEFINE Solves(g, m) ==
             /\ g \in [SUBSET (1 .. m) -> V] /\ g[{}] = base
             /\ \A s \in SUBSET (1 .. m) :
                  s # {} => g[s] = G[g[s \ {Max(s)}]][Max(s)]
           W == {m \in 0 .. n : \E g : Solves(g, m)}
<1>1. 0 \in W
  <2> DEFINE g0 == [s \in SUBSET (1 .. 0) |-> base]
  <2>1. SUBSET (1 .. 0) = {{}}
    OBVIOUS
  <2>2. g0 \in [SUBSET (1 .. 0) -> V] /\ g0[{}] = base
    BY <2>1
  <2>3. \A s \in SUBSET (1 .. 0) : s = {}
    BY <2>1
  <2>4. Solves(g0, 0)
    BY <2>2, <2>3
  <2> HIDE DEF Solves, g0
  <2>5. QED
    BY <2>4
<1>2. ASSUME NEW k \in 0 .. n - 1, k \in W PROVE k + 1 \in W
  <2>1. PICK g : Solves(g, k)
    BY <1>2
  <2> DEFINE T == SUBSET (1 .. k + 1)
             h == [s \in T |-> IF k + 1 \in s THEN G[g[s \ {k + 1}]][k + 1] ELSE g[s]]
  <2>2. \A s \in T : s \ {k + 1} \in SUBSET (1 .. k) /\ (k + 1 \notin s => s \in SUBSET (1 .. k))
    <3>1. \A x \in 1 .. k + 1 : x # k + 1 => x \in 1 .. k
      OBVIOUS
    <3>2. QED
      BY <3>1
  <2>3. k + 1 \in 1 .. n
    OBVIOUS
  <2>4. h \in [T -> V]
    <3>1. ASSUME NEW s \in T PROVE (IF k + 1 \in s THEN G[g[s \ {k + 1}]][k + 1] ELSE g[s]) \in V
      <4>1. s \ {k + 1} \in SUBSET (1 .. k) /\ (k + 1 \notin s => s \in SUBSET (1 .. k))
        BY <2>2
      <4>2. g[s \ {k + 1}] \in V /\ (k + 1 \notin s => g[s] \in V)
        BY <2>1, <4>1
      <4>3. QED
        BY <2>3, <4>2
    <3>2. QED
      BY <3>1
  <2>5. h[{}] = base
    <3>1. {} \in T /\ k + 1 \notin {}
      OBVIOUS
    <3>2. h[{}] = g[{}]
      BY <3>1
    <3>3. QED
      BY <2>1, <3>2
  <2>6. ASSUME NEW s \in T, s # {} PROVE h[s] = G[h[s \ {Max(s)}]][Max(s)]
    <3>1. CASE k + 1 \in s
      <4>1. Max(s) = k + 1
        <5>1. s \subseteq Nat /\ \A x \in s : x <= k + 1
          OBVIOUS
        <5>2. QED
          BY <3>1, <5>1, GreatestIs
      <4>2. s \ {k + 1} \in T /\ k + 1 \notin s \ {k + 1}
        OBVIOUS
      <4>3. h[s \ {k + 1}] = g[s \ {k + 1}]
        BY <4>2
      <4>4. h[s] = G[g[s \ {k + 1}]][k + 1]
        BY <3>1
      <4> HIDE DEF h
      <4>5. QED
        BY <4>1, <4>3, <4>4
    <3>2. CASE k + 1 \notin s
      <4>1. s \in SUBSET (1 .. k)
        BY <2>2, <3>2
      <4>2. g[s] = G[g[s \ {Max(s)}]][Max(s)]
        BY <2>1, <2>6, <4>1
      <4>3. s \ {Max(s)} \in T /\ k + 1 \notin s \ {Max(s)}
        BY <3>2
      <4>4. h[s] = g[s] /\ h[s \ {Max(s)}] = g[s \ {Max(s)}]
        BY <3>2, <4>3
      <4> HIDE DEF h
      <4>5. QED
        BY <4>2, <4>4
    <3>3. QED
      BY <3>1, <3>2
  <2> HIDE DEF h
  <2>7. Solves(h, k + 1)
    BY <2>4, <2>5, <2>6
  <2> HIDE DEF Solves
  <2>8. QED
    BY <2>3, <2>7
<1>3. n \in W
  <2> HIDE DEF W
  <2>1. \A k \in 0 .. n : k \in W
    BY <1>1, <1>2, Upward
  <2>2. QED
    BY <2>1
<1>4. PICK g : Solves(g, n)
  BY <1>3
<1>5. QED
  BY <1>4 DEF Computes

(* A fold over the places of a list goes through them in turn.             *)
LEMMA FoldTrail ==
  ASSUME NEW V, NEW n \in Nat, NEW base \in V, NEW G, Steps(G, V, n),
         NEW it, Folds(it, V, n, base, G)
  PROVE  \E t : Trail(t, V, n, base, G) /\ it[1 .. n] = t[n]
<1> DEFINE trail == [k \in 0 .. n |-> it[1 .. k]]
           W == {k \in 0 .. n : it[1 .. k] \in V}
<1>1. 1 .. 0 = {} /\ it[{}] = base
  BY DEF Folds
<1>2. ASSUME NEW k \in 1 .. n, it[1 .. k - 1] \in V
      PROVE  it[1 .. k] = G[it[1 .. k - 1]][k] /\ it[1 .. k] \in V
  <2>1. 1 .. k \in SUBSET (1 .. n) /\ 1 .. k # {} /\ (1 .. k) \ {k} = 1 .. k - 1
    OBVIOUS
  <2>2. Max(1 .. k) = k
    <3>1. k \in Nat /\ k > 0
      OBVIOUS
    <3>2. QED
      BY <3>1, TopOfAll
  <2>3. (1 .. k) \ {Max(1 .. k)} = 1 .. k - 1
    BY <2>1, <2>2
  <2>4. it[1 .. k] = G[it[1 .. k - 1]][k]
    BY <1>2, <2>1, <2>2, <2>3 DEF Folds
  <2>5. QED
    BY <1>2, <2>4 DEF Steps
<1>3. 0 \in W
  BY <1>1
<1>4. ASSUME NEW k \in 0 .. n - 1, k \in W PROVE k + 1 \in W
  <2>1. k + 1 \in 1 .. n /\ (k + 1) - 1 = k /\ it[1 .. k] \in V
    BY <1>4
  <2>2. it[1 .. k + 1] \in V
    BY <1>2, <2>1
  <2>3. QED
    BY <2>1, <2>2
<1>5. \A k \in 0 .. n : k \in W
  <2> HIDE DEF W
  <2> QED
    BY <1>3, <1>4, Upward
<1>6. trail \in [0 .. n -> V]
  BY <1>5
<1>7. trail[0] = base /\ it[1 .. n] = trail[n]
  BY <1>1
<1>8. ASSUME NEW k \in 1 .. n PROVE trail[k] = G[trail[k - 1]][k]
  <2>1. k - 1 \in 0 .. n /\ k \in 0 .. n
    OBVIOUS
  <2>2. it[1 .. k - 1] \in V
    BY <1>5, <2>1
  <2>3. it[1 .. k] = G[it[1 .. k - 1]][k]
    BY <1>2, <2>2
  <2>4. trail[k] = it[1 .. k] /\ trail[k - 1] = it[1 .. k - 1]
    BY <2>1
  <2>5. QED
    BY <2>3, <2>4
<1> HIDE DEF trail
<1>9. QED
  BY <1>6, <1>7, <1>8 DEF Trail

(* The sums of the first places of a list of numbers.                      *)
Sums(w, n, r) == r \in [0 .. n -> Nat] /\ r[0] = 0 /\ \A k \in 1 .. n : r[k] = r[k - 1] + w[k]

(* Two sums of the same numbers agree as far as the numbers do.            *)
LEMMA SumsAgree ==
  ASSUME NEW n \in Nat, NEW m \in Nat, NEW d \in Nat, d <= n, d <= m,
         NEW w, NEW v, NEW r, NEW q,
         Sums(w, n, r), Sums(v, m, q), \A k \in 1 .. d : w[k] = v[k]
  PROVE  r[d] = q[d]
<1> DEFINE W == {k \in 0 .. d : r[k] = q[k]}
<1>1. 0 \in W
  BY DEF Sums
<1>2. ASSUME NEW k \in 0 .. d - 1, k \in W PROVE k + 1 \in W
  <2>1. k + 1 \in 1 .. d /\ k + 1 \in 1 .. n /\ k + 1 \in 1 .. m /\ (k + 1) - 1 = k /\ k + 1 \in 0 .. d
    OBVIOUS
  <2>2. r[k + 1] = r[k] + w[k + 1] /\ q[k + 1] = q[k] + v[k + 1]
    BY <2>1 DEF Sums
  <2>3. r[k] = q[k] /\ w[k + 1] = v[k + 1]
    BY <1>2, <2>1
  <2>4. QED
    BY <2>1, <2>2, <2>3
<1> HIDE DEF W
<1>3. \A k \in 0 .. d : k \in W
  BY <1>1, <1>2, Upward
<1>4. QED
  BY <1>3 DEF W

(* Sums of natural numbers do not fall.                                    *)
LEMMA SumsRise ==
  ASSUME NEW n \in Nat, NEW w, NEW r, Sums(w, n, r), \A k \in 1 .. n : w[k] \in Nat,
         NEW i \in 0 .. n, NEW j \in 0 .. n, i <= j
  PROVE  r[i] <= r[j]
<1> DEFINE W == {k \in 0 .. n : k <= j => r[k] <= r[j]}
           V == {d \in 0 .. j : r[j - d] <= r[j]}
<1>1. 0 \in V
  BY DEF Sums
<1>2. ASSUME NEW d \in 0 .. j - 1, d \in V PROVE d + 1 \in V
  <2>1. j - d \in 1 .. n /\ (j - d) - 1 = j - (d + 1) /\ d + 1 \in 0 .. j
    OBVIOUS
  <2>2. r[j - d] = r[(j - d) - 1] + w[j - d] /\ w[j - d] \in Nat /\ r[(j - d) - 1] \in Nat
    BY <2>1 DEF Sums
  <2>3. r[j - d] <= r[j] /\ r[j] \in Nat
    BY <1>2 DEF Sums
  <2>4. r[j - (d + 1)] <= r[j]
    BY <2>1, <2>2, <2>3
  <2>5. QED
    BY <2>1, <2>4
<1> HIDE DEF V
<1>3. \A d \in 0 .. j : d \in V
  BY <1>1, <1>2, Upward
<1>4. j - i \in 0 .. j /\ j - (j - i) = i
  OBVIOUS
<1>5. QED
  BY <1>3, <1>4 DEF V

(* The fold behind a sum.                                                  *)
Numbers(w, n) == w \in [1 .. n -> Nat]
Adds(it, n, w) ==
  it[{}] = 0 /\ \A s \in SUBSET (1 .. n) : s # {} => it[s] = it[s \ {Max(s)}] + w[Max(s)]

(* A sum is a fold over n places.                                          *)
LEMMA SumSteps ==
  ASSUME NEW n \in Nat, NEW w, Numbers(w, n)
  PROVE  \E G : Steps(G, Nat, n) /\ \A a \in Nat, k \in 1 .. n : G[a][k] = a + w[k]
<1> DEFINE G == [a \in Nat |-> [k \in 1 .. n |-> a + w[k]]]
<1>1. \A a \in Nat, k \in 1 .. n : a + w[k] \in Nat
  BY DEF Numbers
<1>2. G \in [Nat -> [1 .. n -> Nat]]
  BY <1>1
<1>3. \A a \in Nat, k \in 1 .. n : G[a][k] = a + w[k]
  OBVIOUS
<1> HIDE DEF G
<1>4. QED
  BY <1>2, <1>3 DEF Steps

(* What the recursion of a sum computes.                                   *)
LEMMA SumTrail ==
  ASSUME NEW n \in Nat, NEW w, Numbers(w, n), NEW it, Adds(it, n, w)
  PROVE  \E r : Sums(w, n, r) /\ it[1 .. n] = r[n]
<1>1. PICK G : Steps(G, Nat, n) /\ \A a \in Nat, k \in 1 .. n : G[a][k] = a + w[k]
  BY SumSteps
<1>2. Folds(it, Nat, n, 0, G)
  BY <1>1, TopOf DEF Folds, Adds
<1>3. PICK r : Trail(r, Nat, n, 0, G) /\ it[1 .. n] = r[n]
  <2>1. PICK V, base : V = Nat /\ base = 0 /\ base \in V
    OBVIOUS
  <2>2. QED
    BY <1>1, <1>2, <2>1, FoldTrail
<1>4. \A k \in 1 .. n : r[k] = r[k - 1] + w[k]
  <2> SUFFICES ASSUME NEW k \in 1 .. n PROVE r[k] = r[k - 1] + w[k]
    OBVIOUS
  <2>1. k - 1 \in 0 .. n
    OBVIOUS
  <2>2. r[k - 1] \in Nat /\ r[k] = G[r[k - 1]][k]
    BY <1>3, <2>1 DEF Trail
  <2>3. QED
    BY <1>1, <2>2
<1>5. QED
  BY <1>3, <1>4 DEF Sums, Trail

(* Such a fold exists.                                                     *)
LEMMA SumSolved ==
  ASSUME NEW n \in Nat, NEW w, Numbers(w, n)
  PROVE  \E g : g = [s \in SUBSET (1 .. n) |->
                       IF s = {} THEN 0 ELSE g[s \ {Max(s)}] + w[Max(s)]]
<1>1. PICK G : Steps(G, Nat, n) /\ \A a \in Nat, k \in 1 .. n : G[a][k] = a + w[k]
  BY SumSteps
<1>2. PICK g : Computes(g, Nat, n, 0, G)
  <2>1. PICK V, base : V = Nat /\ base = 0 /\ base \in V
    OBVIOUS
  <2>2. QED
    BY <1>1, <2>1, FoldSolved
<1>3. \A s \in SUBSET (1 .. n) : s # {} => g[s] = g[s \ {Max(s)}] + w[Max(s)]
  <2> SUFFICES ASSUME NEW s \in SUBSET (1 .. n), s # {} PROVE g[s] = g[s \ {Max(s)}] + w[Max(s)]
    OBVIOUS
  <2>1. Max(s) \in 1 .. n
    BY TopOf
  <2>2. s \ {Max(s)} \in SUBSET (1 .. n)
    OBVIOUS
  <2>3. g[s \ {Max(s)}] \in Nat /\ g[s] = G[g[s \ {Max(s)}]][Max(s)]
    BY <1>2, <2>2 DEF Computes
  <2>4. QED
    BY <1>1, <2>1, <2>3
<1>4. g = [s \in SUBSET (1 .. n) |-> g[s]] /\ g[{}] = 0
  BY <1>2 DEF Computes
<1>5. \A s \in SUBSET (1 .. n) : g[s] = (IF s = {} THEN 0 ELSE g[s \ {Max(s)}] + w[Max(s)])
  BY <1>3, <1>4
<1>6. g = [s \in SUBSET (1 .. n) |-> IF s = {} THEN 0 ELSE g[s \ {Max(s)}] + w[Max(s)]]
  BY <1>4, <1>5, Zenon
<1>7. QED
  BY <1>6, Zenon

(* The load of a bin is the sum of the lengths in it.                      *)
LEMMA LoadSums ==
  ASSUME NEW I, NEW lens \in [I -> Nat], NEW bin \in Seq(I)
  PROVE  \E r : Sums([k \in 1 .. Len(bin) |-> lens[bin[k]]], Len(bin), r) /\ Load(bin, lens) = r[Len(bin)]
<1> DEFINE n == Len(bin)
           w == [k \in 1 .. n |-> lens[bin[k]]]
           iter == CHOOSE f : f = [s \in SUBSET (1 .. n) |->
                     IF s = {} THEN 0 ELSE f[s \ {Max(s)}] + lens[bin[Max(s)]]]
<1>1. n \in Nat /\ DOMAIN bin = 1 .. n /\ Numbers(w, n) /\ \A k \in 1 .. n : w[k] = lens[bin[k]]
  BY DEF Numbers
<1>2. Load(bin, lens) = iter[1 .. n]
  <2>1. Load(bin, lens) = (CHOOSE f : f = [s \in SUBSET DOMAIN bin |->
                     IF s = {} THEN 0 ELSE f[s \ {Max(s)}] + lens[bin[Max(s)]]])[DOMAIN bin]
    BY Zenon DEF Load, FoldLeft, MapThenFoldSet
  <2>2. QED
    BY <1>1, <2>1, Zenon
<1> HIDE DEF w
<1>3. PICK g : g = [s \in SUBSET (1 .. n) |->
                     IF s = {} THEN 0 ELSE g[s \ {Max(s)}] + w[Max(s)]]
  BY <1>1, SumSolved
<1>4. g = [s \in SUBSET (1 .. n) |-> IF s = {} THEN 0 ELSE g[s \ {Max(s)}] + lens[bin[Max(s)]]]
  <2>1. \A s \in SUBSET (1 .. n) : s # {} => w[Max(s)] = lens[bin[Max(s)]]
    BY <1>1, TopOf
  <2>2. \A s \in SUBSET (1 .. n) :
          (IF s = {} THEN 0 ELSE g[s \ {Max(s)}] + w[Max(s)])
          = (IF s = {} THEN 0 ELSE g[s \ {Max(s)}] + lens[bin[Max(s)]])
    BY <2>1
  <2>3. QED
    BY <1>3, <2>2, Zenon
<1>5. iter = [s \in SUBSET (1 .. n) |-> IF s = {} THEN 0 ELSE iter[s \ {Max(s)}] + lens[bin[Max(s)]]]
  BY <1>4, Zenon
<1> HIDE DEF iter
<1>6. iter[{}] = 0
  <2>1. {} \in SUBSET (1 .. n)
    OBVIOUS
  <2>2. QED
    BY <1>5, <2>1
<1>7. \A s \in SUBSET (1 .. n) : s # {} => iter[s] = iter[s \ {Max(s)}] + w[Max(s)]
  <2> SUFFICES ASSUME NEW s \in SUBSET (1 .. n), s # {} PROVE iter[s] = iter[s \ {Max(s)}] + w[Max(s)]
    OBVIOUS
  <2>1. iter[s] = iter[s \ {Max(s)}] + lens[bin[Max(s)]]
    BY <1>5
  <2>2. w[Max(s)] = lens[bin[Max(s)]]
    BY <1>1, TopOf
  <2>3. QED
    BY <2>1, <2>2
<1>8. \E r : Sums(w, n, r) /\ iter[1 .. n] = r[n]
  <2>1. PICK m, it, v : m \in Nat /\ m = n /\ it = iter /\ v = w
    BY <1>1
  <2>2. Numbers(v, m) /\ Adds(it, m, v)
    BY <1>1, <1>6, <1>7, <2>1 DEF Adds
  <2>3. QED
    BY <2>1, <2>2, SumTrail
<1>9. QED
  BY <1>2, <1>8 DEF w

(* It is a number, and zero for no items.                                  *)
LEMMA LoadNat ==
  ASSUME NEW I, NEW lens \in [I -> Nat], NEW bin \in Seq(I)
  PROVE  Load(bin, lens) \in Nat /\ (bin = <<>> => Load(bin, lens) = 0)
<1>1. PICK r : Sums([k \in 1 .. Len(bin) |-> lens[bin[k]]], Len(bin), r) /\ Load(bin, lens) = r[Len(bin)]
  BY LoadSums
<1>2. QED
  BY <1>1 DEF Sums

(* An item more adds its length.                                           *)
LEMMA LoadAppend ==
  ASSUME NEW I, NEW lens \in [I -> Nat], NEW bin \in Seq(I), NEW i \in I
  PROVE  Load(Append(bin, i), lens) = Load(bin, lens) + lens[i]
<1> DEFINE b == Append(bin, i)
           n == Len(bin)
           w == [k \in 1 .. n |-> lens[bin[k]]]
           v == [k \in 1 .. Len(b) |-> lens[b[k]]]
<1>1. b \in Seq(I) /\ Len(b) = n + 1 /\ n \in Nat /\ b[n + 1] = i /\ \A k \in 1 .. n : b[k] = bin[k]
  OBVIOUS
<1> HIDE DEF b
<1>2. PICK r : Sums(w, n, r) /\ Load(bin, lens) = r[n]
  BY LoadSums
<1>3. PICK q : Sums(v, n + 1, q) /\ Load(b, lens) = q[n + 1]
  BY <1>1, LoadSums
<1>4. \A k \in 1 .. n : w[k] = v[k]
  BY <1>1
<1>5. v[n + 1] = lens[i]
  BY <1>1
<1>6. r[n] = q[n]
  <2> HIDE DEF w, v, n
  <2>1. n \in Nat /\ n + 1 \in Nat /\ n <= n /\ n <= n + 1
    BY <1>1
  <2>2. QED
    BY <1>2, <1>3, <1>4, <2>1, SumsAgree
<1>7. q[n + 1] = q[n] + v[n + 1]
  <2>1. n + 1 \in 1 .. n + 1 /\ (n + 1) - 1 = n
    BY <1>1
  <2> HIDE DEF v, n
  <2>2. QED
    BY <1>3, <2>1 DEF Sums
<1>8. QED
  BY <1>2, <1>3, <1>5, <1>6, <1>7 DEF b

(* The load of one item.                                                   *)
LEMMA LoadOne ==
  ASSUME NEW I, NEW lens \in [I -> Nat], NEW i \in I
  PROVE  Load(<<i>>, lens) = lens[i]
<1>1. <<>> \in Seq(I) /\ <<i>> = Append(<<>>, i)
  OBVIOUS
<1>2. Load(<<i>>, lens) = Load(<<>>, lens) + lens[i] /\ Load(<<>>, lens) = 0
  BY <1>1, LoadAppend, LoadNat
<1>3. QED
  BY <1>2

(* Without its last item a bin is not fuller.                              *)
LEMMA LoadFront ==
  ASSUME NEW I, NEW lens \in [I -> Nat], NEW bin \in Seq(I), Len(bin) > 0
  PROVE  /\ Front(bin) \in Seq(I) /\ Len(Front(bin)) = Len(bin) - 1
         /\ \A k \in 1 .. Len(bin) - 1 : Front(bin)[k] = bin[k]
         /\ Last(bin) = bin[Len(bin)] /\ Last(bin) \in I
         /\ Load(Front(bin), lens) <= Load(bin, lens)
<1> DEFINE n == Len(bin)
<1>1. n \in Nat /\ n - 1 \in Nat /\ n \in 1 .. n /\ n - 1 <= n
  OBVIOUS
<1>2. bin[n] \in I
  BY <1>1
<1>3. /\ SubSeq(bin, 1, n - 1) \in Seq(I) /\ Len(SubSeq(bin, 1, n - 1)) = n - 1
      /\ \A k \in 1 .. n - 1 : SubSeq(bin, 1, n - 1)[k] = bin[k]
  <2>1. \A k \in 1 .. n - 1 : bin[k] \in I
    BY <1>1
  <2>2. 1 \in Int /\ n - 1 \in Int /\ (n - 1) - 1 + 1 = n - 1 /\ \A k \in Int : 1 + k - 1 = k
    BY <1>1
  <2>3. PICK m \in Int : m = n - 1
    BY <2>2
  <2>4. /\ SubSeq(bin, 1, m) \in Seq(I) /\ Len(SubSeq(bin, 1, m)) = (IF 1 <= m THEN m - 1 + 1 ELSE 0)
        /\ \A k \in 1 .. m - 1 + 1 : SubSeq(bin, 1, m)[k] = bin[1 + k - 1]
    BY <2>1, <2>2, <2>3, SubSeqProperties
  <2>5. Len(SubSeq(bin, 1, m)) = m
    BY <1>1, <2>3, <2>4
  <2>6. \A k \in 1 .. m : SubSeq(bin, 1, m)[k] = bin[k]
    <3>1. \A k \in 1 .. m : k \in 1 .. m - 1 + 1 /\ 1 + k - 1 = k
      OBVIOUS
    <3>2. QED
      BY <2>4, <3>1
  <2>7. QED
    BY <2>3, <2>4, <2>5, <2>6
<1>4. PICK front : front = SubSeq(bin, 1, n - 1)
  OBVIOUS
<1>5. front \in Seq(I) /\ Len(front) = n - 1 /\ \A k \in 1 .. n - 1 : front[k] = bin[k]
  BY <1>3, <1>4
<1>6. Front(bin) = front /\ Last(bin) = bin[n]
  BY <1>4, Zenon DEF Front, Last
<1>7. PICK i \in I : i = bin[n]
  BY <1>2
<1>8. bin = Append(front, i)
  <2>1. PICK b : b = Append(front, i)
    OBVIOUS
  <2>2. /\ b \in Seq(I) /\ Len(b) = (n - 1) + 1
        /\ \A k \in 1 .. n - 1 : b[k] = front[k]
        /\ b[(n - 1) + 1] = i
    BY <1>5, <2>1, AppendProperties
  <2>3. \A k \in 1 .. n : b[k] = bin[k]
    <3> SUFFICES ASSUME NEW k \in 1 .. n PROVE b[k] = bin[k]
      OBVIOUS
    <3>1. CASE k = n
      BY <1>1, <1>7, <2>2, <3>1
    <3>2. CASE k # n
      <4>1. k \in 1 .. n - 1
        BY <1>1, <3>2
      <4>2. QED
        BY <1>5, <2>2, <4>1
    <3>3. QED
      BY <3>1, <3>2
  <2>4. Len(b) = Len(bin)
    BY <1>1, <2>2
  <2>5. bin = b
    BY <2>2, <2>3, <2>4, SeqEqual
  <2>6. QED
    BY <2>1, <2>5
<1>9. Load(Append(front, i), lens) = Load(front, lens) + lens[i]
  BY <1>5, LoadAppend
<1>10. Load(front, lens) \in Nat /\ lens[i] \in Nat
  BY <1>5, LoadNat
<1>11. Load(front, lens) <= Load(bin, lens)
  <2>1. Load(bin, lens) = Load(front, lens) + lens[i]
    BY <1>8, <1>9, Zenon
  <2>2. QED
    BY <1>10, <2>1
<1>12. QED
  BY <1>2, <1>5, <1>6, <1>11

-----------------------------------------------------------------------------
(***************************************************************************)
(* Bins: every item put into them is in one place, no bin is empty and     *)
(* none is over the capacity.                                              *)
(***************************************************************************)
Placed(bs, b, k) == b \in 1 .. Len(bs) /\ k \in 1 .. Len(bs[b])
Item(bs, b, k) == bs[b][k]
Sound(bin, lens, capacity) == Len(bin) > 0 /\ Load(bin, lens) <= capacity
Measured(lens, I) == lens \in [I -> Nat]

(* The items of the places are those of a set, each in one place.          *)
Holds(bs, done) ==
  /\ \A b, k : Placed(bs, b, k) => Item(bs, b, k) \in done
  /\ \A i \in done : \E b, k : Placed(bs, b, k) /\ Item(bs, b, k) = i
  /\ \A b, c, j, k : Placed(bs, b, j) /\ Placed(bs, c, k) /\ Item(bs, b, j) = Item(bs, c, k)
                       => b = c /\ j = k

Packed(bs, done, I, lens, capacity) ==
  /\ bs \in Seq(Seq(I)) /\ done \subseteq I /\ Holds(bs, done)
  /\ \A b \in 1 .. Len(bs) : Sound(bs[b], lens, capacity)

(* One place more, one set of places moved behind another.                 *)
OnePlace(new, bs, b, m, i) ==
  /\ ~Placed(bs, b, m) /\ Item(new, b, m) = i
  /\ \A c, k : Placed(new, c, k) <=> Placed(bs, c, k) \/ (c = b /\ k = m)
  /\ \A c, k : Placed(bs, c, k) => Item(new, c, k) = Item(bs, c, k)
Behind(new, bs, cs, n) ==
  /\ \A b, k : Placed(bs, b, k) => b <= n /\ Placed(new, b, k) /\ Item(new, b, k) = Item(bs, b, k)
  /\ \A b, k : Placed(cs, b, k) => b \in Nat /\ Placed(new, n + b, k) /\ Item(new, n + b, k) = Item(cs, b, k)
  /\ \A b, k : Placed(new, b, k) => \/ Placed(bs, b, k)
                                    \/ \E c : Placed(cs, c, k) /\ b = n + c

(* One item put into one place.                                            *)
LEMMA OneHolds ==
  ASSUME NEW bs, NEW done, Holds(bs, done), NEW new, NEW b, NEW m, NEW i, i \notin done,
         OnePlace(new, bs, b, m, i)
  PROVE  Holds(new, done \cup {i})
<1>1. \A c, k : Placed(new, c, k) => \/ Placed(bs, c, k) /\ Item(new, c, k) = Item(bs, c, k)
                                     \/ c = b /\ k = m /\ Item(new, c, k) = i
  BY DEF OnePlace
<1>2. \A c, k : Placed(new, c, k) => Item(new, c, k) \in done \cup {i}
  BY <1>1 DEF Holds
<1>3. \A x \in done \cup {i} : \E c, k : Placed(new, c, k) /\ Item(new, c, k) = x
  <2>1. \E c, k : Placed(new, c, k) /\ Item(new, c, k) = i
    BY DEF OnePlace
  <2>2. \A x \in done : \E c, k : Placed(new, c, k) /\ Item(new, c, k) = x
    BY DEF OnePlace, Holds
  <2>3. QED
    BY <2>1, <2>2
<1>4. \A c, d, j, k : Placed(new, c, j) /\ Placed(new, d, k) /\ Item(new, c, j) = Item(new, d, k)
                        => c = d /\ j = k
  <2> SUFFICES ASSUME NEW c, NEW d, NEW j, NEW k, Placed(new, c, j), Placed(new, d, k),
                      Item(new, c, j) = Item(new, d, k)
               PROVE  c = d /\ j = k
    OBVIOUS
  <2>1. /\ Placed(bs, c, j) => Item(bs, c, j) # i
        /\ Placed(bs, d, k) => Item(bs, d, k) # i
    BY DEF Holds
  <2>2. CASE Placed(bs, c, j) /\ Placed(bs, d, k)
    BY <2>2 DEF Holds, OnePlace
  <2>3. CASE ~Placed(bs, c, j)
    BY <1>1, <2>1, <2>3
  <2>4. CASE ~Placed(bs, d, k)
    BY <1>1, <2>1, <2>4
  <2>5. QED
    BY <2>2, <2>3, <2>4
<1>5. QED
  BY <1>2, <1>3, <1>4 DEF Holds

(* Bins put behind others hold what both held.                             *)
LEMMA BehindHolds ==
  ASSUME NEW bs, NEW done, Holds(bs, done), NEW cs, NEW more, Holds(cs, more),
         done \cap more = {}, NEW n \in Nat, NEW new, Behind(new, bs, cs, n)
  PROVE  Holds(new, done \cup more)
<1>1. \A b, k : Placed(new, b, k) =>
        \/ Placed(bs, b, k) /\ Item(new, b, k) = Item(bs, b, k) /\ Item(bs, b, k) \in done
        \/ \E c : /\ Placed(cs, c, k) /\ b = n + c /\ c \in Nat
                  /\ Item(new, b, k) = Item(cs, c, k) /\ Item(cs, c, k) \in more
  BY DEF Behind, Holds
<1>2. \A b, k : Placed(new, b, k) => Item(new, b, k) \in done \cup more
  BY <1>1
<1>3. \A x \in done \cup more : \E b, k : Placed(new, b, k) /\ Item(new, b, k) = x
  <2>1. \A x \in done : \E b, k : Placed(new, b, k) /\ Item(new, b, k) = x
    BY DEF Behind, Holds
  <2>2. \A x \in more : \E b, k : Placed(new, b, k) /\ Item(new, b, k) = x
    <3> SUFFICES ASSUME NEW x \in more PROVE \E b, k : Placed(new, b, k) /\ Item(new, b, k) = x
      OBVIOUS
    <3>1. PICK c, k : Placed(cs, c, k) /\ Item(cs, c, k) = x
      BY DEF Holds
    <3>2. Placed(new, n + c, k) /\ Item(new, n + c, k) = x
      BY <3>1 DEF Behind
    <3>3. QED
      BY <3>2
  <2>3. QED
    BY <2>1, <2>2
<1>4. \A b, c, j, k : Placed(new, b, j) /\ Placed(new, c, k) /\ Item(new, b, j) = Item(new, c, k)
                        => b = c /\ j = k
  <2> SUFFICES ASSUME NEW b, NEW c, NEW j, NEW k, Placed(new, b, j), Placed(new, c, k),
                      Item(new, b, j) = Item(new, c, k)
               PROVE  b = c /\ j = k
    OBVIOUS
  <2>1. CASE Item(new, b, j) \in done
    <3>1. Placed(bs, b, j) /\ Placed(bs, c, k) /\ Item(bs, b, j) = Item(bs, c, k)
      BY <1>1, <2>1
    <3>2. QED
      BY <3>1 DEF Holds
  <2>2. CASE Item(new, b, j) \notin done
    <3>1. PICK d : Placed(cs, d, j) /\ b = n + d /\ Item(new, b, j) = Item(cs, d, j)
      BY <1>1, <2>2
    <3>2. PICK e : Placed(cs, e, k) /\ c = n + e /\ Item(new, c, k) = Item(cs, e, k)
      BY <1>1, <2>2
    <3>3. d = e /\ j = k
      BY <3>1, <3>2 DEF Holds
    <3>4. QED
      BY <3>1, <3>2, <3>3
  <2>3. QED
    BY <2>1, <2>2
<1>5. QED
  BY <1>2, <1>3, <1>4 DEF Holds

(* Bins are lists of items.                                                *)
LEMMA BinsShape ==
  ASSUME NEW I, NEW bs, bs \in Seq(Seq(I))
  PROVE  Len(bs) \in Nat /\ \A b \in 1 .. Len(bs) : bs[b] \in Seq(I) /\ Len(bs[b]) \in Nat
<1>1. PICK S : S = Seq(I)
  OBVIOUS
<1>2. bs \in Seq(S)
  BY <1>1
<1>3. Len(bs) \in Nat /\ \A b \in 1 .. Len(bs) : bs[b] \in S
  BY <1>2
<1>4. \A b \in 1 .. Len(bs) : Len(bs[b]) \in Nat
  BY <1>1, <1>3
<1>5. QED
  BY <1>1, <1>3, <1>4

(* No bins hold nothing.                                                   *)
LEMMA PackedNone ==
  ASSUME NEW I, NEW lens, NEW capacity
  PROVE  Packed(<<>>, {}, I, lens, capacity)
BY DEF Packed, Holds, Placed

(* The bins new are bs with i behind the items of bin b.                   *)
IsPut(new, bs, b, i, I) ==
  /\ new \in Seq(Seq(I)) /\ Len(new) = Len(bs) /\ new[b] = Append(bs[b], i)
  /\ \A c \in 1 .. Len(bs) : c # b => new[c] = bs[c]
  /\ bs[b] \in Seq(I)

(* What PutInto changes.                                                   *)
LEMMA PutShape ==
  ASSUME NEW I, NEW bs, bs \in Seq(Seq(I)), NEW b, b \in 1 .. Len(bs), NEW i, i \in I
  PROVE  IsPut(PutInto(bs, b, i), bs, b, i, I)
<1>1. bs[b] \in Seq(I) /\ Append(bs[b], i) \in Seq(I)
  OBVIOUS
<1>2. PICK e \in Seq(I) : e = Append(bs[b], i)
  BY <1>1
<1>3. PutInto(bs, b, i) = [bs EXCEPT ![b] = e]
  BY <1>2 DEF PutInto
<1>4. PICK S : S = Seq(I)
  OBVIOUS
<1>5. /\ [bs EXCEPT ![b] = e] \in Seq(S) /\ Len([bs EXCEPT ![b] = e]) = Len(bs)
      /\ \A c \in 1 .. Len(bs) : [bs EXCEPT ![b] = e][c] = IF c = b THEN e ELSE bs[c]
  BY <1>2, <1>4, ExceptSeq
<1>6. QED
  BY <1>1, <1>2, <1>3, <1>4, <1>5 DEF IsPut

(* The item put into a bin is at its end.                                  *)
LEMMA PutPlace ==
  ASSUME NEW I, NEW bs, bs \in Seq(Seq(I)), NEW b, b \in 1 .. Len(bs), NEW i, i \in I
  PROVE  OnePlace(PutInto(bs, b, i), bs, b, Len(bs[b]) + 1, i)
<1>1. PICK new, m : new = PutInto(bs, b, i) /\ m = Len(bs[b]) + 1
  OBVIOUS
<1>0. IsPut(new, bs, b, i, I)
  BY <1>1, PutShape
<1>2. /\ new \in Seq(Seq(I)) /\ Len(new) = Len(bs) /\ new[b] = Append(bs[b], i)
      /\ \A c \in 1 .. Len(bs) : c # b => new[c] = bs[c]
  BY <1>0 DEF IsPut
<1>3. bs[b] \in Seq(I) /\ Len(bs[b]) \in Nat
  BY BinsShape
<1>4. Len(new[b]) = m /\ new[b][m] = i /\ \A k \in 1 .. Len(bs[b]) : new[b][k] = bs[b][k]
  BY <1>1, <1>2, <1>3
<1>5. \A c, k : Placed(new, c, k) <=> Placed(bs, c, k) \/ (c = b /\ k = m)
  <2> SUFFICES ASSUME NEW c, NEW k PROVE Placed(new, c, k) <=> Placed(bs, c, k) \/ (c = b /\ k = m)
    OBVIOUS
  <2>1. CASE c = b
    <3>1. k \in 1 .. m <=> k \in 1 .. Len(bs[b]) \/ k = m
      BY <1>1, <1>3
    <3>2. QED
      BY <1>2, <1>4, <2>1, <3>1 DEF Placed
  <2>2. CASE c # b
    BY <1>2, <2>2 DEF Placed
  <2>3. QED
    BY <2>1, <2>2
<1>6. \A c, k : Placed(bs, c, k) => Item(new, c, k) = Item(bs, c, k)
  <2> SUFFICES ASSUME NEW c, NEW k, Placed(bs, c, k) PROVE Item(new, c, k) = Item(bs, c, k)
    OBVIOUS
  <2>1. CASE c = b
    BY <1>4, <2>1 DEF Placed, Item
  <2>2. CASE c # b
    BY <1>2, <2>2 DEF Placed, Item
  <2>3. QED
    BY <2>1, <2>2
<1>7. ~Placed(bs, b, m)
  BY <1>1, <1>3 DEF Placed
<1>8. Item(new, b, m) = i
  BY <1>4 DEF Item
<1>9. OnePlace(new, bs, b, m, i)
  BY <1>5, <1>6, <1>7, <1>8 DEF OnePlace
<1>10. QED
  BY <1>1, <1>2, <1>3, <1>9

(* An item put where it fits leaves the bins sound.                        *)
LEMMA PutPacked ==
  ASSUME NEW I, NEW lens, Measured(lens, I), NEW capacity \in Nat, NEW bs, NEW done,
         Packed(bs, done, I, lens, capacity),
         NEW b, b \in 1 .. Len(bs), NEW i, i \in I, i \notin done, Fits(bs[b], i, lens, capacity)
  PROVE  /\ Packed(PutInto(bs, b, i), done \cup {i}, I, lens, capacity)
         /\ Len(PutInto(bs, b, i)) = Len(bs)
<1>1. /\ bs \in Seq(Seq(I)) /\ done \subseteq I /\ Holds(bs, done)
      /\ \A c \in 1 .. Len(bs) : Sound(bs[c], lens, capacity)
  BY DEF Packed
<1>2. PICK new : new = PutInto(bs, b, i)
  OBVIOUS
<1>3. OnePlace(new, bs, b, Len(bs[b]) + 1, i)
  BY <1>1, <1>2, PutPlace
<1>a. IsPut(new, bs, b, i, I)
  BY <1>1, <1>2, PutShape
<1>4. new \in Seq(Seq(I)) /\ Len(new) = Len(bs)
  BY <1>a DEF IsPut
<1>5. new[b] = Append(bs[b], i) /\ bs[b] \in Seq(I)
  BY <1>a DEF IsPut
<1>6. \A c \in 1 .. Len(bs) : c # b => new[c] = bs[c]
  BY <1>a DEF IsPut
<1>7. Holds(new, done \cup {i})
  BY <1>1, <1>3, OneHolds
<1>8. Sound(new[b], lens, capacity)
  <2>1. Load(Append(bs[b], i), lens) = Load(bs[b], lens) + lens[i]
    BY <1>5, LoadAppend DEF Measured
  <2>2. Load(bs[b], lens) + lens[i] <= capacity
    BY DEF Fits
  <2>3. Load(new[b], lens) <= capacity
    BY <1>5, <2>1, <2>2, Zenon
  <2>4. Len(Append(bs[b], i)) > 0
    BY <1>5
  <2>5. QED
    BY <1>5, <2>3, <2>4, Zenon DEF Sound
<1>9. \A c \in 1 .. Len(new) : Sound(new[c], lens, capacity)
  BY <1>1, <1>4, <1>6, <1>8, Zenon
<1>10. done \cup {i} \subseteq I
  BY <1>1
<1>11. Packed(new, done \cup {i}, I, lens, capacity)
  BY <1>4, <1>7, <1>9, <1>10, Zenon DEF Packed
<1>12. QED
  BY <1>2, <1>4, <1>11, Zenon

(* Two packings of different items, one after the other.                   *)
LEMMA JoinPacked ==
  ASSUME NEW I, NEW lens, NEW capacity, NEW bs, NEW cs, NEW done, NEW more,
         Packed(bs, done, I, lens, capacity), Packed(cs, more, I, lens, capacity),
         done \cap more = {}
  PROVE  /\ Packed(bs \o cs, done \cup more, I, lens, capacity)
         /\ Len(bs \o cs) = Len(bs) + Len(cs)
<1>1. bs \in Seq(Seq(I)) /\ done \subseteq I /\ Holds(bs, done)
  BY DEF Packed
<1>2. cs \in Seq(Seq(I)) /\ more \subseteq I /\ Holds(cs, more)
  BY DEF Packed
<1>3. PICK n \in Nat, m \in Nat : n = Len(bs) /\ m = Len(cs)
  BY <1>1, <1>2, BinsShape
<1>4. PICK new : new = bs \o cs
  OBVIOUS
<1>5. /\ new \in Seq(Seq(I)) /\ Len(new) = n + m
      /\ \A b \in 1 .. n : new[b] = bs[b]
      /\ \A b \in 1 .. m : new[n + b] = cs[b]
  <2>1. PICK S : S = Seq(I)
    OBVIOUS
  <2>2. /\ new \in Seq(S) /\ Len(new) = Len(bs) + Len(cs)
        /\ \A b \in 1 .. Len(bs) + Len(cs) :
             new[b] = IF b <= Len(bs) THEN bs[b] ELSE cs[b - Len(bs)]
    BY <1>1, <1>2, <1>4, <2>1, ConcatProperties
  <2>3. \A b \in 1 .. m : new[n + b] = cs[b]
    <3> SUFFICES ASSUME NEW b \in 1 .. m PROVE new[n + b] = cs[b]
      OBVIOUS
    <3>1. n + b \in 1 .. n + m /\ ~(n + b <= n) /\ (n + b) - n = b
      OBVIOUS
    <3>2. QED
      BY <1>3, <2>2, <3>1
  <2>4. QED
    BY <1>3, <2>1, <2>2, <2>3
<1>6. \A b \in 1 .. n + m : b \in 1 .. n \/ \E c \in 1 .. m : b = n + c
  <2> SUFFICES ASSUME NEW b \in 1 .. n + m, b \notin 1 .. n PROVE \E c \in 1 .. m : b = n + c
    OBVIOUS
  <2>1. b - n \in 1 .. m /\ b = n + (b - n)
    OBVIOUS
  <2>2. QED
    BY <2>1
<1>7. Behind(new, bs, cs, n)
  <2>1. \A b, k : Placed(bs, b, k) => b <= n /\ Placed(new, b, k) /\ Item(new, b, k) = Item(bs, b, k)
    <3> SUFFICES ASSUME NEW b, NEW k, Placed(bs, b, k)
                 PROVE  b <= n /\ Placed(new, b, k) /\ Item(new, b, k) = Item(bs, b, k)
      OBVIOUS
    <3>1. b \in 1 .. n /\ k \in 1 .. Len(bs[b])
      BY <1>3 DEF Placed
    <3>2. new[b] = bs[b] /\ b \in 1 .. n + m
      BY <1>5, <3>1
    <3>3. QED
      BY <1>5, <3>1, <3>2 DEF Placed, Item
  <2>2. \A b, k : Placed(cs, b, k) =>
          b \in Nat /\ Placed(new, n + b, k) /\ Item(new, n + b, k) = Item(cs, b, k)
    <3> SUFFICES ASSUME NEW b, NEW k, Placed(cs, b, k)
                 PROVE  b \in Nat /\ Placed(new, n + b, k) /\ Item(new, n + b, k) = Item(cs, b, k)
      OBVIOUS
    <3>1. b \in 1 .. m /\ k \in 1 .. Len(cs[b])
      BY <1>3 DEF Placed
    <3>2. new[n + b] = cs[b] /\ n + b \in 1 .. n + m
      BY <1>5, <3>1
    <3>3. QED
      BY <1>5, <3>1, <3>2 DEF Placed, Item
  <2>3. \A b, k : Placed(new, b, k) => \/ Placed(bs, b, k)
                                       \/ \E c : Placed(cs, c, k) /\ b = n + c
    <3> SUFFICES ASSUME NEW b, NEW k, Placed(new, b, k), ~Placed(bs, b, k)
                 PROVE  \E c : Placed(cs, c, k) /\ b = n + c
      OBVIOUS
    <3>1. b \in 1 .. n + m /\ k \in 1 .. Len(new[b])
      BY <1>5 DEF Placed
    <3>2. b \notin 1 .. n
      BY <1>3, <1>5, <3>1 DEF Placed
    <3>3. PICK c \in 1 .. m : b = n + c
      BY <1>6, <3>1, <3>2
    <3>4. new[b] = cs[c]
      BY <1>5, <3>3
    <3>5. QED
      BY <1>3, <3>1, <3>3, <3>4 DEF Placed
  <2>4. QED
    BY <2>1, <2>2, <2>3 DEF Behind
<1>8. Holds(new, done \cup more)
  BY <1>1, <1>2, <1>7, BehindHolds
<1>9. \A b \in 1 .. n + m : Sound(new[b], lens, capacity)
  <2> SUFFICES ASSUME NEW b \in 1 .. n + m PROVE Sound(new[b], lens, capacity)
    OBVIOUS
  <2>1. CASE b \in 1 .. n
    <3>1. new[b] = bs[b] /\ b \in 1 .. Len(bs)
      BY <1>3, <1>5, <2>1
    <3>2. QED
      BY <3>1 DEF Packed
  <2>2. CASE b \notin 1 .. n
    <3>1. PICK c \in 1 .. m : b = n + c
      BY <1>6, <2>2
    <3>2. new[b] = cs[c] /\ c \in 1 .. Len(cs)
      BY <1>3, <1>5, <3>1
    <3>3. QED
      BY <3>2 DEF Packed
  <2>3. QED
    BY <2>1, <2>2
<1>10. Packed(new, done \cup more, I, lens, capacity)
  BY <1>1, <1>2, <1>5, <1>8, <1>9 DEF Packed
<1>11. QED
  BY <1>3, <1>4, <1>5, <1>10

(* A bin of one item is a packing.                                         *)
LEMMA OnePacked ==
  ASSUME NEW I, NEW lens, Measured(lens, I), NEW capacity \in Nat,
         NEW i, i \in I, lens[i] <= capacity
  PROVE  Packed(<<<<i>>>>, {i}, I, lens, capacity) /\ Len(<<<<i>>>>) = 1
<1>1. PICK one : one = <<<<i>>>>
  OBVIOUS
<1>3. one \in Seq(Seq(I)) /\ Len(one) = 1 /\ one[1] = <<i>> /\ Len(one[1]) = 1 /\ one[1][1] = i
  BY <1>1
<1>4. Load(one[1], lens) = lens[i]
  <2>1. Load(<<i>>, lens) = lens[i]
    BY LoadOne DEF Measured
  <2>2. QED
    BY <1>3, <2>1, Zenon
<1>5. \A b, k : Placed(one, b, k) <=> b = 1 /\ k = 1
  <2>1. \A b : b \in 1 .. Len(one) <=> b = 1
    BY <1>3
  <2>2. \A k : k \in 1 .. Len(one[1]) <=> k = 1
    BY <1>3
  <2>3. QED
    BY <2>1, <2>2, Zenon DEF Placed
<1>6. Item(one, 1, 1) = i
  BY <1>3 DEF Item
<1>7. Holds(one, {i})
  BY <1>5, <1>6 DEF Holds
<1>8. \A b \in 1 .. Len(one) : Sound(one[b], lens, capacity)
  BY <1>3, <1>4 DEF Sound
<1>9. QED
  BY <1>1, <1>3, <1>7, <1>8 DEF Packed

(* A new bin for one item.                                                 *)
LEMMA NewPacked ==
  ASSUME NEW I, NEW lens, Measured(lens, I), NEW capacity \in Nat, NEW bs, NEW done,
         Packed(bs, done, I, lens, capacity), NEW i, i \in I, i \notin done, lens[i] <= capacity
  PROVE  /\ Packed(Append(bs, <<i>>), done \cup {i}, I, lens, capacity)
         /\ Len(Append(bs, <<i>>)) = Len(bs) + 1
<1>1. PICK one : one = <<<<i>>>>
  OBVIOUS
<1>2. PICK more : more = {i}
  OBVIOUS
<1>5. Packed(one, more, I, lens, capacity) /\ Len(one) = 1
  BY <1>1, <1>2, OnePacked
<1>6. Append(bs, <<i>>) = bs \o one
  <2>1. PICK S, e : S = Seq(I) /\ e = <<i>> /\ e \in S
    <3>1. <<i>> \in Seq(I)
      OBVIOUS
    <3>2. QED
      BY <3>1, Zenon
  <2>2. bs \in Seq(S)
    BY <2>1 DEF Packed
  <2>3. Append(bs, e) = bs \o <<e>>
    BY <2>1, <2>2, AppendIsConcat
  <2>4. QED
    BY <1>1, <2>1, <2>3
<1>7. done \cap more = {}
  BY <1>2
<1>8. Packed(bs \o one, done \cup more, I, lens, capacity)
  BY <1>5, <1>7, JoinPacked
<1>9. Len(Append(bs, <<i>>)) = Len(bs) + 1
  <2>1. PICK S, e : S = Seq(I) /\ e = <<i>> /\ e \in S
    <3>1. <<i>> \in Seq(I)
      OBVIOUS
    <3>2. QED
      BY <3>1, Zenon
  <2>2. bs \in Seq(S)
    BY <2>1 DEF Packed
  <2>3. Len(Append(bs, e)) = Len(bs) + 1
    BY <2>1, <2>2
  <2>4. QED
    BY <2>1, <2>3
<1>10. QED
  BY <1>2, <1>5, <1>6, <1>8, <1>9, Zenon

(* The last item of bin b is the only one of a new bin.                    *)
Moved(new, bs, b, m, n) ==
  /\ Placed(bs, b, m) /\ ~Placed(bs, n, 1) /\ Item(new, n, 1) = Item(bs, b, m)
  /\ \A c, k : Placed(new, c, k) <=> (Placed(bs, c, k) /\ ~(c = b /\ k = m)) \/ (c = n /\ k = 1)
  /\ \A c, k : Placed(bs, c, k) /\ ~(c = b /\ k = m) => Item(new, c, k) = Item(bs, c, k)

(* An item moved elsewhere is still held once.                             *)
LEMMA MovedHolds ==
  ASSUME NEW bs, NEW done, Holds(bs, done), NEW new, NEW b, NEW m, NEW n, Moved(new, bs, b, m, n)
  PROVE  Holds(new, done)
<1>1. \A c, k : Placed(new, c, k) =>
        \/ Placed(bs, c, k) /\ ~(c = b /\ k = m) /\ Item(new, c, k) = Item(bs, c, k)
        \/ c = n /\ k = 1 /\ Item(new, c, k) = Item(bs, b, m) /\ Placed(bs, b, m)
  BY DEF Moved
<1>2. \A c, k : Placed(new, c, k) => Item(new, c, k) \in done
  BY <1>1 DEF Holds
<1>3. \A x \in done : \E c, k : Placed(new, c, k) /\ Item(new, c, k) = x
  <2> SUFFICES ASSUME NEW x \in done PROVE \E c, k : Placed(new, c, k) /\ Item(new, c, k) = x
    OBVIOUS
  <2>1. PICK c, k : Placed(bs, c, k) /\ Item(bs, c, k) = x
    BY DEF Holds
  <2>2. CASE c = b /\ k = m
    <3>1. Placed(new, n, 1) /\ Item(new, n, 1) = x
      BY <2>1, <2>2 DEF Moved
    <3>2. QED
      BY <3>1
  <2>3. CASE ~(c = b /\ k = m)
    BY <2>1, <2>3 DEF Moved
  <2>4. QED
    BY <2>2, <2>3
<1>4. \A c, d, j, k : Placed(new, c, j) /\ Placed(new, d, k) /\ Item(new, c, j) = Item(new, d, k)
                        => c = d /\ j = k
  <2> SUFFICES ASSUME NEW c, NEW d, NEW j, NEW k, Placed(new, c, j), Placed(new, d, k),
                      Item(new, c, j) = Item(new, d, k)
               PROVE  c = d /\ j = k
    OBVIOUS
  <2>1. \/ Placed(bs, c, j) /\ ~(c = b /\ j = m) /\ Item(new, c, j) = Item(bs, c, j)
        \/ c = n /\ j = 1 /\ Item(new, c, j) = Item(bs, b, m) /\ Placed(bs, b, m)
    BY <1>1
  <2>2. \/ Placed(bs, d, k) /\ ~(d = b /\ k = m) /\ Item(new, d, k) = Item(bs, d, k)
        \/ d = n /\ k = 1 /\ Item(new, d, k) = Item(bs, b, m) /\ Placed(bs, b, m)
    BY <1>1
  <2>3. QED
    BY <2>1, <2>2 DEF Holds
<1>5. QED
  BY <1>2, <1>3, <1>4 DEF Holds

Moves(new, bs, b) ==
  /\ Len(new) = Len(bs) + 1 /\ Len(new[Len(bs) + 1]) = 1
  /\ \A c \in 1 .. Len(bs) : c # b => new[c] = bs[c]

(* The last item of a bin of two or more can have a bin of its own.        *)
LEMMA MovePacked ==
  ASSUME NEW I, NEW lens, Measured(lens, I), NEW capacity \in Nat, NEW bs, NEW done,
         Packed(bs, done, I, lens, capacity),
         NEW b, b \in 1 .. Len(bs), Len(bs[b]) > 1,
         \A i \in done : lens[i] <= capacity
  PROVE  /\ Packed(Append([bs EXCEPT ![b] = Front(@)], <<Last(bs[b])>>), done, I, lens, capacity)
         /\ Moves(Append([bs EXCEPT ![b] = Front(@)], <<Last(bs[b])>>), bs, b)
<1>1. /\ bs \in Seq(Seq(I)) /\ done \subseteq I /\ Holds(bs, done)
      /\ \A c \in 1 .. Len(bs) : Sound(bs[c], lens, capacity)
  BY DEF Packed
<1>2. Len(bs) \in Nat /\ bs[b] \in Seq(I)
  BY <1>1, BinsShape
<1>3. PICK m \in Nat, l \in Nat : m = Len(bs[b]) /\ l = Len(bs) /\ m > 1
  BY <1>2
<1>4. PICK front, last : front = Front(bs[b]) /\ last = Last(bs[b])
  OBVIOUS
<1>5. /\ front \in Seq(I) /\ Len(front) = m - 1 /\ \A k \in 1 .. m - 1 : front[k] = bs[b][k]
      /\ last = bs[b][m] /\ last \in I
      /\ Load(front, lens) <= Load(bs[b], lens)
  <2>1. Len(bs[b]) > 0
    BY <1>3
  <2>2. /\ Front(bs[b]) \in Seq(I) /\ Len(Front(bs[b])) = Len(bs[b]) - 1
        /\ \A k \in 1 .. Len(bs[b]) - 1 : Front(bs[b])[k] = bs[b][k]
        /\ Last(bs[b]) = bs[b][Len(bs[b])] /\ Last(bs[b]) \in I
        /\ Load(Front(bs[b]), lens) <= Load(bs[b], lens)
    BY <1>2, <2>1, LoadFront DEF Measured
  <2>3. QED
    BY <1>3, <1>4, <2>2, Zenon
<1>6. PICK mid : mid = [bs EXCEPT ![b] = front]
  OBVIOUS
<1>7. /\ mid \in Seq(Seq(I)) /\ Len(mid) = l /\ mid[b] = front
      /\ \A c \in 1 .. l : c # b => mid[c] = bs[c]
  <2>1. PICK S : S = Seq(I)
    OBVIOUS
  <2>2. /\ [bs EXCEPT ![b] = front] \in Seq(S) /\ Len([bs EXCEPT ![b] = front]) = Len(bs)
        /\ \A c \in 1 .. Len(bs) : [bs EXCEPT ![b] = front][c] = IF c = b THEN front ELSE bs[c]
    BY <1>1, <1>5, <2>1, ExceptSeq
  <2>3. QED
    BY <1>3, <1>6, <2>1, <2>2
<1>8. PICK new : new = Append(mid, <<last>>)
  OBVIOUS
<1>9. /\ new \in Seq(Seq(I)) /\ Len(new) = l + 1 /\ new[l + 1] = <<last>>
      /\ \A c \in 1 .. l : new[c] = mid[c]
  <2>1. PICK S, e : S = Seq(I) /\ e = <<last>> /\ e \in S
    <3>1. <<last>> \in Seq(I)
      BY <1>5
    <3>2. QED
      BY <3>1, Zenon
  <2>2. mid \in Seq(S)
    BY <1>7, <2>1
  <2>a. Len(mid) = l
    BY <1>7
  <2>3. /\ Append(mid, e) \in Seq(S) /\ Len(Append(mid, e)) = l + 1 /\ Append(mid, e)[l + 1] = e
        /\ \A c \in 1 .. l : Append(mid, e)[c] = mid[c]
    <3> HIDE <2>1
    <3>1. e \in S
      BY <2>1
    <3>2. /\ Append(mid, e) \in Seq(S) /\ Len(Append(mid, e)) = Len(mid) + 1
          /\ Append(mid, e)[Len(mid) + 1] = e
          /\ \A c \in 1 .. Len(mid) : Append(mid, e)[c] = mid[c]
      BY <2>2, <3>1, AppendProperties
    <3>3. QED
      BY <2>a, <3>2, Zenon
  <2>4. QED
    BY <1>8, <2>1, <2>3
<1>10. /\ new[b] = front /\ \A c \in 1 .. l : c # b => new[c] = bs[c]
  BY <1>3, <1>7, <1>9
<1>11. Len(new[l + 1]) = 1 /\ new[l + 1][1] = last
  BY <1>9
<1>12. Moved(new, bs, b, m, l + 1)
  <2>1. Placed(bs, b, m) /\ ~Placed(bs, l + 1, 1)
    BY <1>3 DEF Placed
  <2>2. Item(new, l + 1, 1) = Item(bs, b, m)
    BY <1>5, <1>11 DEF Item
  <2>3. \A c, k : Placed(new, c, k) <=>
          (Placed(bs, c, k) /\ ~(c = b /\ k = m)) \/ (c = l + 1 /\ k = 1)
    <3> SUFFICES ASSUME NEW c, NEW k
                 PROVE  Placed(new, c, k) <=>
                          (Placed(bs, c, k) /\ ~(c = b /\ k = m)) \/ (c = l + 1 /\ k = 1)
      OBVIOUS
    <3>1. CASE c = b
      <4>1. k \in 1 .. Len(new[b]) <=> k \in 1 .. m /\ k # m
        BY <1>5, <1>10
      <4>2. b \in 1 .. l + 1 /\ b # l + 1 /\ b \in 1 .. l
        BY <1>3
      <4>3. QED
        BY <1>3, <1>9, <3>1, <4>1, <4>2 DEF Placed
    <3>2. CASE c = l + 1
      <4>1. k \in 1 .. Len(new[l + 1]) <=> k = 1
        BY <1>11
      <4>2. l + 1 \in 1 .. l + 1 /\ b # l + 1 /\ l + 1 \notin 1 .. l
        BY <1>3
      <4>3. QED
        BY <1>3, <1>9, <3>2, <4>1, <4>2 DEF Placed
    <3>3. CASE c # b /\ c # l + 1
      <4>1. c \in 1 .. l + 1 <=> c \in 1 .. l
        BY <3>3
      <4>2. c \in 1 .. l => new[c] = bs[c]
        BY <1>10, <3>3
      <4>3. QED
        BY <1>3, <1>9, <3>3, <4>1, <4>2 DEF Placed
    <3>4. QED
      BY <3>1, <3>2, <3>3
  <2>4. \A c, k : Placed(bs, c, k) /\ ~(c = b /\ k = m) => Item(new, c, k) = Item(bs, c, k)
    <3> SUFFICES ASSUME NEW c, NEW k, Placed(bs, c, k), ~(c = b /\ k = m)
                 PROVE  Item(new, c, k) = Item(bs, c, k)
      OBVIOUS
    <3>1. CASE c = b
      <4>1. k \in 1 .. m - 1
        BY <1>3, <3>1 DEF Placed
      <4>2. QED
        BY <1>5, <1>10, <3>1, <4>1 DEF Item
    <3>2. CASE c # b
      <4>1. c \in 1 .. l
        BY <1>3 DEF Placed
      <4>2. QED
        BY <1>10, <3>2, <4>1 DEF Item
    <3>3. QED
      BY <3>1, <3>2
  <2>5. QED
    BY <2>1, <2>2, <2>3, <2>4 DEF Moved
<1>13. Holds(new, done)
  BY <1>1, <1>12, MovedHolds
<1>14. \A c \in 1 .. l + 1 : Sound(new[c], lens, capacity)
  <2> SUFFICES ASSUME NEW c \in 1 .. l + 1 PROVE Sound(new[c], lens, capacity)
    OBVIOUS
  <2>1. CASE c = b
    <3>1. Load(bs[b], lens) <= capacity /\ Load(bs[b], lens) \in Nat /\ Load(front, lens) \in Nat
      <4>1. Load(bs[b], lens) <= capacity
        BY <1>1 DEF Sound
      <4>2. Load(bs[b], lens) \in Nat
        BY <1>2, LoadNat DEF Measured
      <4>3. Load(front, lens) \in Nat
        BY <1>5, LoadNat DEF Measured
      <4>4. QED
        BY <4>1, <4>2, <4>3
    <3>2. Load(front, lens) <= capacity
      BY <1>5, <3>1
    <3>3. Len(front) > 0
      BY <1>3, <1>5
    <3>4. new[c] = front
      BY <1>10, <2>1
    <3>5. QED
      BY <3>2, <3>3, <3>4, Zenon DEF Sound
  <2>2. CASE c = l + 1
    <3>1. Load(<<last>>, lens) = lens[last]
      BY <1>5, LoadOne DEF Measured
    <3>2. last \in done
      <4>1. Placed(bs, b, m) /\ Item(bs, b, m) = last
        BY <1>5, <1>12 DEF Moved, Item
      <4>2. QED
        BY <1>1, <4>1 DEF Holds
    <3>3. lens[last] <= capacity
      BY <3>2
    <3>4. Len(<<last>>) > 0
      OBVIOUS
    <3>5. Sound(<<last>>, lens, capacity)
      BY <3>1, <3>3, <3>4, Zenon DEF Sound
    <3>6. QED
      BY <1>9, <2>2, <3>5
  <2>3. CASE c # b /\ c # l + 1
    <3>1. c \in 1 .. l /\ c \in 1 .. Len(bs)
      BY <1>3, <2>3
    <3>2. QED
      BY <1>1, <1>10, <2>3, <3>1
  <2>4. QED
    BY <2>1, <2>2, <2>3
<1>15. Packed(new, done, I, lens, capacity)
  BY <1>1, <1>9, <1>13, <1>14 DEF Packed
<1>16. new = Append([bs EXCEPT ![b] = Front(@)], <<Last(bs[b])>>)
  BY <1>4, <1>6, <1>8
<1>17. Moves(new, bs, b)
  BY <1>3, <1>9, <1>10, <1>11 DEF Moves
<1>18. QED
  BY <1>15, <1>16, <1>17

-----------------------------------------------------------------------------
(***************************************************************************)
(* A set listed in a strict total order: every element once.               *)
(***************************************************************************)
Enumerates(L, S) ==
  /\ L \in Seq(S)
  /\ \A j, k \in 1 .. Len(L) : L[j] = L[k] => j = k
  /\ \A x \in S : \E k \in 1 .. Len(L) : L[k] = x

Orders(R, S) ==
  /\ \A x \in S : <<x, x>> \notin R
  /\ \A x, y \in S : x # y => <<x, y>> \in R \/ <<y, x>> \in R
  /\ \A x, y, z \in S : <<x, y>> \in R /\ <<y, z>> \in R => <<x, z>> \in R

(* A finite set listed in a strict total order is listed once.             *)
LEMMA ListedAll ==
  ASSUME NEW S, IsFiniteSet(S), NEW R, Orders(R, S)
  PROVE  Enumerates(Listed(S, R), S) /\ Len(Listed(S, R)) = Cardinality(S)
<1> DEFINE before == [x \in S |-> {y \in S : <<y, x>> \in R}]
           rank == [x \in S |-> Cardinality(before[x])]
<1>1. PICK n \in Nat : n = Cardinality(S)
  BY FS_CardinalityType
<1>2. \A x \in S : before[x] \subseteq S /\ before[x] = {y \in S : <<y, x>> \in R}
  OBVIOUS
<1> HIDE DEF before
<1>3. \A x \in S : IsFiniteSet(before[x]) /\ rank[x] \in 0 .. n - 1
  <2> SUFFICES ASSUME NEW x \in S PROVE IsFiniteSet(before[x]) /\ rank[x] \in 0 .. n - 1
    OBVIOUS
  <2>0. before[x] \subseteq S /\ x \notin before[x]
    BY <1>2, ZenonT(40) DEF Orders
  <2>1. before[x] \in SUBSET S /\ before[x] # S
    BY <2>0
  <2>2. /\ IsFiniteSet(before[x]) /\ Cardinality(before[x]) <= Cardinality(S)
        /\ Cardinality(S) # Cardinality(before[x])
    <3>1. PICK T \in SUBSET S : T = before[x]
      BY <2>1
    <3>2. /\ IsFiniteSet(T) /\ Cardinality(T) <= Cardinality(S)
          /\ Cardinality(S) = Cardinality(T) => S = T
      BY FS_Subset
    <3>3. QED
      BY <2>1, <3>1, <3>2, Zenon
  <2>3. Cardinality(before[x]) \in Nat
    BY <2>2, FS_CardinalityType
  <2>4. QED
    BY <1>1, <2>2, <2>3
<1>4. \A x, y \in S : <<x, y>> \in R => rank[x] < rank[y]
  <2> SUFFICES ASSUME NEW x \in S, NEW y \in S, <<x, y>> \in R PROVE rank[x] < rank[y]
    OBVIOUS
  <2>1. before[x] \in SUBSET before[y] /\ x \in before[y] /\ x \notin before[x]
    BY <1>2, ZenonT(40) DEF Orders
  <2>2. Cardinality(before[x]) <= Cardinality(before[y]) /\ Cardinality(before[x]) # Cardinality(before[y])
    BY <1>3, <2>1, FS_Subset
  <2>3. rank[x] \in Nat /\ rank[y] \in Nat
    BY <1>3
  <2>4. QED
    BY <2>2, <2>3
<1>5. \A x, y \in S : rank[x] = rank[y] => x = y
  <2> SUFFICES ASSUME NEW x \in S, NEW y \in S, rank[x] = rank[y], x # y PROVE FALSE
    OBVIOUS
  <2>1. rank[x] < rank[y] \/ rank[y] < rank[x]
    BY <1>4 DEF Orders
  <2>2. rank[x] \in Nat /\ rank[y] \in Nat
    BY <1>3
  <2>3. QED
    BY <2>1, <2>2
<1>6. \A k \in 0 .. n - 1 : \E x \in S : rank[x] = k
  <2>1. rank \in Injection(S, 0 .. n - 1)
    <3>1. rank \in [S -> 0 .. n - 1]
      BY <1>3
    <3> HIDE DEF rank
    <3>2. QED
      BY <1>5, <3>1 DEF Injection, IsInjective
  <2> HIDE DEF rank
  <2>2. IsFiniteSet(0 .. n - 1) /\ Cardinality(0 .. n - 1) = n
    <3>1. 0 \in Int /\ n - 1 \in Int
      OBVIOUS
    <3>2. IsFiniteSet(0 .. n - 1) /\ Cardinality(0 .. n - 1) = IF 0 > n - 1 THEN 0 ELSE n - 1 - 0 + 1
      BY <3>1, FS_Interval
    <3>3. QED
      BY <3>2
  <2>3. rank \in Surjection(S, 0 .. n - 1)
    BY <1>1, <2>1, <2>2, FS_Injection
  <2>4. QED
    BY <2>3 DEF Surjection
<1>7. PICK L : L = Listed(S, R)
  OBVIOUS
<1>8. L = [k \in 1 .. n |-> CHOOSE x \in S : Cardinality({y \in S : <<y, x>> \in R}) = k - 1]
  BY <1>1, <1>7 DEF Listed
<1>9. \A k \in 1 .. n : L[k] \in S /\ rank[L[k]] = k - 1
  <2> SUFFICES ASSUME NEW k \in 1 .. n PROVE L[k] \in S /\ rank[L[k]] = k - 1
    OBVIOUS
  <2>1. L[k] = CHOOSE x \in S : Cardinality({y \in S : <<y, x>> \in R}) = k - 1
    BY <1>8
  <2>2. k - 1 \in 0 .. n - 1
    OBVIOUS
  <2>3. PICK x \in S : rank[x] = k - 1
    BY <1>6, <2>2
  <2>4. Cardinality({y \in S : <<y, x>> \in R}) = k - 1
    BY <1>2, <2>3
  <2>5. L[k] \in S /\ Cardinality({y \in S : <<y, L[k]>> \in R}) = k - 1
    BY <2>1, <2>4, Zenon
  <2>6. QED
    BY <1>2, <2>5
<1>10. L \in [1 .. n -> S]
  BY <1>8, <1>9
<1>11. L \in Seq(S) /\ Len(L) = n
  BY <1>10
<1>12. \A j, k \in 1 .. n : L[j] = L[k] => j = k
  <2> SUFFICES ASSUME NEW j \in 1 .. n, NEW k \in 1 .. n, L[j] = L[k] PROVE j = k
    OBVIOUS
  <2>1. rank[L[j]] = j - 1 /\ rank[L[k]] = k - 1
    BY <1>9
  <2>2. j - 1 = k - 1
    BY <2>1, Zenon
  <2>3. QED
    BY <2>2
<1>13. \A x \in S : \E k \in 1 .. n : L[k] = x
  <2> SUFFICES ASSUME NEW x \in S PROVE \E k \in 1 .. n : L[k] = x
    OBVIOUS
  <2>1. rank[x] \in 0 .. n - 1
    BY <1>3
  <2>2. PICK k \in 1 .. n : rank[x] = k - 1
    <3>1. rank[x] + 1 \in 1 .. n /\ rank[x] = (rank[x] + 1) - 1
      BY <2>1
    <3>2. QED
      BY <3>1
  <2>3. L[k] = x
    BY <1>5, <1>9, <2>2
  <2>4. QED
    BY <2>3
<1>14. QED
  BY <1>1, <1>7, <1>11, <1>12, <1>13 DEF Enumerates

(* The orders the code sorts by.                                           *)
LEMMA SortedLists ==
  ASSUME NEW I, NEW lens, Measured(lens, I), NEW S, S \subseteq I, S \subseteq Nat, IsFiniteSet(S)
  PROVE  /\ Enumerates(Descending(S, lens), S) /\ Len(Descending(S, lens)) = Cardinality(S)
         /\ Enumerates(StableDescending(S, lens), S) /\ Len(StableDescending(S, lens)) = Cardinality(S)
         /\ Enumerates(StableAscending(S, lens), S) /\ Len(StableAscending(S, lens)) = Cardinality(S)
<1>1. \A x \in S : lens[x] \in Nat /\ x \in Nat
  BY DEF Measured
<1>2. PICK down, stable, up :
        /\ down = {p \in S \X S : \/ lens[p[1]] > lens[p[2]]
                                  \/ lens[p[1]] = lens[p[2]] /\ p[1] > p[2]}
        /\ stable = {p \in S \X S : \/ lens[p[1]] > lens[p[2]]
                                    \/ lens[p[1]] = lens[p[2]] /\ p[1] < p[2]}
        /\ up = {p \in S \X S : \/ lens[p[1]] < lens[p[2]]
                                \/ lens[p[1]] = lens[p[2]] /\ p[1] < p[2]}
  OBVIOUS
<1>3. /\ \A x, y \in S : <<x, y>> \in down <=> lens[x] > lens[y] \/ (lens[x] = lens[y] /\ x > y)
      /\ \A x, y \in S : <<x, y>> \in stable <=> lens[x] > lens[y] \/ (lens[x] = lens[y] /\ x < y)
      /\ \A x, y \in S : <<x, y>> \in up <=> lens[x] < lens[y] \/ (lens[x] = lens[y] /\ x < y)
  BY <1>2
<1>4. Orders(down, S)
  BY <1>1, <1>3 DEF Orders
<1>5. Orders(stable, S)
  BY <1>1, <1>3 DEF Orders
<1>6. Orders(up, S)
  BY <1>1, <1>3 DEF Orders
<1>7. /\ Descending(S, lens) = Listed(S, down) /\ StableDescending(S, lens) = Listed(S, stable)
      /\ StableAscending(S, lens) = Listed(S, up)
  BY <1>2, Zenon DEF Descending, StableDescending, StableAscending
<1>8. QED
  BY <1>4, <1>5, <1>6, <1>7, ListedAll

-----------------------------------------------------------------------------
(***************************************************************************)
(* The folds of the packers, step by step.                                 *)
(***************************************************************************)
ConcatStep(bins_, i, lens, capacity) ==
  IF bins_ # <<>> /\ Fits(Last(bins_), i, lens, capacity)
  THEN PutInto(bins_, Len(bins_), i)
  ELSE Append(bins_, <<i>>)

FitStep(bins_, i, lens, capacity) ==
  LET open == {b \in DOMAIN bins_ : Fits(bins_[b], i, lens, capacity)}
  IN IF open = {} THEN Append(bins_, <<i>>)
     ELSE PutInto(bins_, Min(open), i)

TopStep(s, i, b, lens, capacity) ==
  IF Fits(s.bins[b], i, lens, capacity)
  THEN [s EXCEPT !.bins = PutInto(@, b, i), !.left = @ \ {i}]
  ELSE s

OpenStep(bins_, i) == Append(bins_, <<i>>)

MoveStep(bs, k, sources) == MoveOne(bs, sources)

(* Concatenate: a fold of ConcatStep over a list. *)
ConcatClosed(V, L, n, lens, capacity) ==
  /\ n \in Nat /\ DOMAIN L = 1 .. n
  /\ \A a \in V, k \in 1 .. n : ConcatStep(a, L[k], lens, capacity) \in V
ConcatFolded(base, L, lens, capacity) == FoldLeft(LAMBDA bins_, i : ConcatStep(bins_, i, lens, capacity), base, L)
ConcatRuns(t, V, base, L, n, lens, capacity) ==
  /\ t \in [0 .. n -> V] /\ t[0] = base
  /\ \A k \in 1 .. n : t[k] = ConcatStep(t[k - 1], L[k], lens, capacity)

(* The fold of the concatenating packer.                                   *)
LEMMA ConcatFold ==
  ASSUME NEW V, NEW base \in V, NEW L, NEW n, NEW lens, NEW capacity, ConcatClosed(V, L, n, lens, capacity)
  PROVE  \E t : /\ ConcatRuns(t, V, base, L, n, lens, capacity)
               /\ ConcatFolded(base, L, lens, capacity) = t[n]
<1> DEFINE G == [a \in V |-> [k \in 1 .. n |-> ConcatStep(a, L[k], lens, capacity)]]
           iter == CHOOSE f : f = [s \in SUBSET (1 .. n) |->
                     IF s = {} THEN base ELSE ConcatStep(f[s \ {Max(s)}], L[Max(s)], lens, capacity)]
<1>1. /\ n \in Nat /\ DOMAIN L = 1 .. n
      /\ \A a \in V, k \in 1 .. n : ConcatStep(a, L[k], lens, capacity) \in V
  BY Zenon DEF ConcatClosed
<1>2. \A a \in V, k \in 1 .. n : G[a][k] = ConcatStep(a, L[k], lens, capacity)
  OBVIOUS
<1>3. Steps(G, V, n)
  BY <1>1 DEF Steps
<1> HIDE DEF G
<1>4. ConcatFolded(base, L, lens, capacity) = iter[1 .. n]
  <2>1. ConcatFolded(base, L, lens, capacity) = (CHOOSE f : f = [s \in SUBSET DOMAIN L |->
           IF s = {} THEN base ELSE ConcatStep(f[s \ {Max(s)}], L[Max(s)], lens, capacity)])[DOMAIN L]
    BY Zenon DEF ConcatFolded, FoldLeft, MapThenFoldSet
  <2>2. QED
    BY <1>1, <2>1, Zenon
<1>5. PICK g : Computes(g, V, n, base, G)
  BY <1>1, <1>3, FoldSolved
<1>6. g = [s \in SUBSET (1 .. n) |->
             IF s = {} THEN base ELSE ConcatStep(g[s \ {Max(s)}], L[Max(s)], lens, capacity)]
  <2>1. \A s \in SUBSET (1 .. n) :
          g[s] = (IF s = {} THEN base ELSE ConcatStep(g[s \ {Max(s)}], L[Max(s)], lens, capacity))
    <3> SUFFICES ASSUME NEW s \in SUBSET (1 .. n), s # {}
                 PROVE  g[s] = ConcatStep(g[s \ {Max(s)}], L[Max(s)], lens, capacity)
      BY <1>5 DEF Computes
    <3>1. Max(s) \in 1 .. n
      BY <1>1, TopOf
    <3>2. s \ {Max(s)} \in SUBSET (1 .. n)
      OBVIOUS
    <3>3. g[s \ {Max(s)}] \in V /\ g[s] = G[g[s \ {Max(s)}]][Max(s)]
      BY <1>5, <3>2 DEF Computes
    <3>4. QED
      BY <1>2, <3>1, <3>3, Zenon
  <2>2. g = [s \in SUBSET (1 .. n) |-> g[s]]
    BY <1>5 DEF Computes
  <2>3. QED
    BY <2>1, <2>2, Zenon
<1>7. iter = [s \in SUBSET (1 .. n) |->
                IF s = {} THEN base ELSE ConcatStep(iter[s \ {Max(s)}], L[Max(s)], lens, capacity)]
  BY <1>6, Zenon
<1> HIDE DEF iter
<1>8. PICK it : it = iter
  OBVIOUS
<1>9. Folds(it, V, n, base, G)
  <2>1. {} \in SUBSET (1 .. n)
    OBVIOUS
  <2>2. it[{}] = base
    BY <1>7, <1>8, <2>1, Zenon
  <2>3. ASSUME NEW s \in SUBSET (1 .. n), s # {}, it[s \ {Max(s)}] \in V
        PROVE  it[s] = G[it[s \ {Max(s)}]][Max(s)]
    <3>1. Max(s) \in 1 .. n
      BY <1>1, <2>3, TopOf
    <3>2. it[s] = ConcatStep(it[s \ {Max(s)}], L[Max(s)], lens, capacity)
      BY <1>7, <1>8, <2>3, Zenon
    <3>3. G[it[s \ {Max(s)}]][Max(s)] = ConcatStep(it[s \ {Max(s)}], L[Max(s)], lens, capacity)
      BY <1>2, <2>3, <3>1, Zenon
    <3>4. QED
      BY <3>2, <3>3, Zenon
  <2>4. QED
    BY <2>2, <2>3 DEF Folds
<1>10. PICK t : Trail(t, V, n, base, G) /\ it[1 .. n] = t[n]
  BY <1>1, <1>3, <1>9, FoldTrail
<1>11. ConcatRuns(t, V, base, L, n, lens, capacity)
  <2>1. t \in [0 .. n -> V] /\ t[0] = base
    BY <1>10 DEF Trail
  <2>2. ASSUME NEW k \in 1 .. n PROVE t[k] = ConcatStep(t[k - 1], L[k], lens, capacity)
    <3>1. k - 1 \in 0 .. n
      BY <1>1
    <3>2. t[k - 1] \in V /\ t[k] = G[t[k - 1]][k]
      BY <1>10, <3>1 DEF Trail
    <3>3. QED
      BY <1>2, <3>2
  <2>3. QED
    BY <2>1, <2>2 DEF ConcatRuns
<1>12. QED
  BY <1>4, <1>8, <1>10, <1>11, Zenon

(* FirstFit. *)
FitClosed(V, L, n, lens, capacity) ==
  /\ n \in Nat /\ DOMAIN L = 1 .. n
  /\ \A a \in V, k \in 1 .. n : FitStep(a, L[k], lens, capacity) \in V
FitFolded(base, L, lens, capacity) == FoldLeft(LAMBDA bins_, i : FitStep(bins_, i, lens, capacity), base, L)
FitRuns(t, V, base, L, n, lens, capacity) ==
  /\ t \in [0 .. n -> V] /\ t[0] = base
  /\ \A k \in 1 .. n : t[k] = FitStep(t[k - 1], L[k], lens, capacity)

(* The fold of first fit.                                                  *)
LEMMA FitFold ==
  ASSUME NEW V, NEW base \in V, NEW L, NEW n, NEW lens, NEW capacity, FitClosed(V, L, n, lens, capacity)
  PROVE  \E t : /\ FitRuns(t, V, base, L, n, lens, capacity)
               /\ FitFolded(base, L, lens, capacity) = t[n]
<1> DEFINE G == [a \in V |-> [k \in 1 .. n |-> FitStep(a, L[k], lens, capacity)]]
           iter == CHOOSE f : f = [s \in SUBSET (1 .. n) |->
                     IF s = {} THEN base ELSE FitStep(f[s \ {Max(s)}], L[Max(s)], lens, capacity)]
<1>1. /\ n \in Nat /\ DOMAIN L = 1 .. n
      /\ \A a \in V, k \in 1 .. n : FitStep(a, L[k], lens, capacity) \in V
  BY Zenon DEF FitClosed
<1>2. \A a \in V, k \in 1 .. n : G[a][k] = FitStep(a, L[k], lens, capacity)
  OBVIOUS
<1>3. Steps(G, V, n)
  BY <1>1 DEF Steps
<1> HIDE DEF G
<1>4. FitFolded(base, L, lens, capacity) = iter[1 .. n]
  <2>1. FitFolded(base, L, lens, capacity) = (CHOOSE f : f = [s \in SUBSET DOMAIN L |->
           IF s = {} THEN base ELSE FitStep(f[s \ {Max(s)}], L[Max(s)], lens, capacity)])[DOMAIN L]
    BY Zenon DEF FitFolded, FoldLeft, MapThenFoldSet
  <2>2. QED
    BY <1>1, <2>1, Zenon
<1>5. PICK g : Computes(g, V, n, base, G)
  BY <1>1, <1>3, FoldSolved
<1>6. g = [s \in SUBSET (1 .. n) |->
             IF s = {} THEN base ELSE FitStep(g[s \ {Max(s)}], L[Max(s)], lens, capacity)]
  <2>1. \A s \in SUBSET (1 .. n) :
          g[s] = (IF s = {} THEN base ELSE FitStep(g[s \ {Max(s)}], L[Max(s)], lens, capacity))
    <3> SUFFICES ASSUME NEW s \in SUBSET (1 .. n), s # {}
                 PROVE  g[s] = FitStep(g[s \ {Max(s)}], L[Max(s)], lens, capacity)
      BY <1>5 DEF Computes
    <3>1. Max(s) \in 1 .. n
      BY <1>1, TopOf
    <3>2. s \ {Max(s)} \in SUBSET (1 .. n)
      OBVIOUS
    <3>3. g[s \ {Max(s)}] \in V /\ g[s] = G[g[s \ {Max(s)}]][Max(s)]
      BY <1>5, <3>2 DEF Computes
    <3>4. QED
      BY <1>2, <3>1, <3>3, Zenon
  <2>2. g = [s \in SUBSET (1 .. n) |-> g[s]]
    BY <1>5 DEF Computes
  <2>3. QED
    BY <2>1, <2>2, Zenon
<1>7. iter = [s \in SUBSET (1 .. n) |->
                IF s = {} THEN base ELSE FitStep(iter[s \ {Max(s)}], L[Max(s)], lens, capacity)]
  BY <1>6, Zenon
<1> HIDE DEF iter
<1>8. PICK it : it = iter
  OBVIOUS
<1>9. Folds(it, V, n, base, G)
  <2>1. {} \in SUBSET (1 .. n)
    OBVIOUS
  <2>2. it[{}] = base
    BY <1>7, <1>8, <2>1, Zenon
  <2>3. ASSUME NEW s \in SUBSET (1 .. n), s # {}, it[s \ {Max(s)}] \in V
        PROVE  it[s] = G[it[s \ {Max(s)}]][Max(s)]
    <3>1. Max(s) \in 1 .. n
      BY <1>1, <2>3, TopOf
    <3>2. it[s] = FitStep(it[s \ {Max(s)}], L[Max(s)], lens, capacity)
      BY <1>7, <1>8, <2>3, Zenon
    <3>3. G[it[s \ {Max(s)}]][Max(s)] = FitStep(it[s \ {Max(s)}], L[Max(s)], lens, capacity)
      BY <1>2, <2>3, <3>1, Zenon
    <3>4. QED
      BY <3>2, <3>3, Zenon
  <2>4. QED
    BY <2>2, <2>3 DEF Folds
<1>10. PICK t : Trail(t, V, n, base, G) /\ it[1 .. n] = t[n]
  BY <1>1, <1>3, <1>9, FoldTrail
<1>11. FitRuns(t, V, base, L, n, lens, capacity)
  <2>1. t \in [0 .. n -> V] /\ t[0] = base
    BY <1>10 DEF Trail
  <2>2. ASSUME NEW k \in 1 .. n PROVE t[k] = FitStep(t[k - 1], L[k], lens, capacity)
    <3>1. k - 1 \in 0 .. n
      BY <1>1
    <3>2. t[k - 1] \in V /\ t[k] = G[t[k - 1]][k]
      BY <1>10, <3>1 DEF Trail
    <3>3. QED
      BY <1>2, <3>2
  <2>3. QED
    BY <2>1, <2>2 DEF FitRuns
<1>12. QED
  BY <1>4, <1>8, <1>10, <1>11, Zenon

(* One bin for every large item. *)
OpenClosed(V, L, n) ==
  /\ n \in Nat /\ DOMAIN L = 1 .. n
  /\ \A a \in V, k \in 1 .. n : OpenStep(a, L[k]) \in V
OpenFolded(base, L) == FoldLeft(LAMBDA bins_, i : OpenStep(bins_, i), base, L)
OpenRuns(t, V, base, L, n) ==
  /\ t \in [0 .. n -> V] /\ t[0] = base
  /\ \A k \in 1 .. n : t[k] = OpenStep(t[k - 1], L[k])

(* The fold that opens a bin for every large item.                         *)
LEMMA OpenFold ==
  ASSUME NEW V, NEW base \in V, NEW L, NEW n, OpenClosed(V, L, n)
  PROVE  \E t : /\ OpenRuns(t, V, base, L, n)
               /\ OpenFolded(base, L) = t[n]
<1> DEFINE G == [a \in V |-> [k \in 1 .. n |-> OpenStep(a, L[k])]]
           iter == CHOOSE f : f = [s \in SUBSET (1 .. n) |->
                     IF s = {} THEN base ELSE OpenStep(f[s \ {Max(s)}], L[Max(s)])]
<1>1. /\ n \in Nat /\ DOMAIN L = 1 .. n
      /\ \A a \in V, k \in 1 .. n : OpenStep(a, L[k]) \in V
  BY Zenon DEF OpenClosed
<1>2. \A a \in V, k \in 1 .. n : G[a][k] = OpenStep(a, L[k])
  OBVIOUS
<1>3. Steps(G, V, n)
  BY <1>1 DEF Steps
<1> HIDE DEF G
<1>4. OpenFolded(base, L) = iter[1 .. n]
  <2>1. OpenFolded(base, L) = (CHOOSE f : f = [s \in SUBSET DOMAIN L |->
           IF s = {} THEN base ELSE OpenStep(f[s \ {Max(s)}], L[Max(s)])])[DOMAIN L]
    BY Zenon DEF OpenFolded, FoldLeft, MapThenFoldSet
  <2>2. QED
    BY <1>1, <2>1, Zenon
<1>5. PICK g : Computes(g, V, n, base, G)
  BY <1>1, <1>3, FoldSolved
<1>6. g = [s \in SUBSET (1 .. n) |->
             IF s = {} THEN base ELSE OpenStep(g[s \ {Max(s)}], L[Max(s)])]
  <2>1. \A s \in SUBSET (1 .. n) :
          g[s] = (IF s = {} THEN base ELSE OpenStep(g[s \ {Max(s)}], L[Max(s)]))
    <3> SUFFICES ASSUME NEW s \in SUBSET (1 .. n), s # {}
                 PROVE  g[s] = OpenStep(g[s \ {Max(s)}], L[Max(s)])
      BY <1>5 DEF Computes
    <3>1. Max(s) \in 1 .. n
      BY <1>1, TopOf
    <3>2. s \ {Max(s)} \in SUBSET (1 .. n)
      OBVIOUS
    <3>3. g[s \ {Max(s)}] \in V /\ g[s] = G[g[s \ {Max(s)}]][Max(s)]
      BY <1>5, <3>2 DEF Computes
    <3>4. QED
      BY <1>2, <3>1, <3>3, Zenon
  <2>2. g = [s \in SUBSET (1 .. n) |-> g[s]]
    BY <1>5 DEF Computes
  <2>3. QED
    BY <2>1, <2>2, Zenon
<1>7. iter = [s \in SUBSET (1 .. n) |->
                IF s = {} THEN base ELSE OpenStep(iter[s \ {Max(s)}], L[Max(s)])]
  BY <1>6, Zenon
<1> HIDE DEF iter
<1>8. PICK it : it = iter
  OBVIOUS
<1>9. Folds(it, V, n, base, G)
  <2>1. {} \in SUBSET (1 .. n)
    OBVIOUS
  <2>2. it[{}] = base
    BY <1>7, <1>8, <2>1, Zenon
  <2>3. ASSUME NEW s \in SUBSET (1 .. n), s # {}, it[s \ {Max(s)}] \in V
        PROVE  it[s] = G[it[s \ {Max(s)}]][Max(s)]
    <3>1. Max(s) \in 1 .. n
      BY <1>1, <2>3, TopOf
    <3>2. it[s] = OpenStep(it[s \ {Max(s)}], L[Max(s)])
      BY <1>7, <1>8, <2>3, Zenon
    <3>3. G[it[s \ {Max(s)}]][Max(s)] = OpenStep(it[s \ {Max(s)}], L[Max(s)])
      BY <1>2, <2>3, <3>1, Zenon
    <3>4. QED
      BY <3>2, <3>3, Zenon
  <2>4. QED
    BY <2>2, <2>3 DEF Folds
<1>10. PICK t : Trail(t, V, n, base, G) /\ it[1 .. n] = t[n]
  BY <1>1, <1>3, <1>9, FoldTrail
<1>11. OpenRuns(t, V, base, L, n)
  <2>1. t \in [0 .. n -> V] /\ t[0] = base
    BY <1>10 DEF Trail
  <2>2. ASSUME NEW k \in 1 .. n PROVE t[k] = OpenStep(t[k - 1], L[k])
    <3>1. k - 1 \in 0 .. n
      BY <1>1
    <3>2. t[k - 1] \in V /\ t[k] = G[t[k - 1]][k]
      BY <1>10, <3>1 DEF Trail
    <3>3. QED
      BY <1>2, <3>2
  <2>3. QED
    BY <2>1, <2>2 DEF OpenRuns
<1>12. QED
  BY <1>4, <1>8, <1>10, <1>11, Zenon

(* The medium items. *)
MediumClosed(V, L, n, lens, capacity) ==
  /\ n \in Nat /\ DOMAIN L = 1 .. n
  /\ \A a \in V, k \in 1 .. n : AddMedium(a, L[k], lens, capacity) \in V
MediumFolded(base, L, lens, capacity) == FoldLeft(LAMBDA s, b : AddMedium(s, b, lens, capacity), base, L)
MediumRuns(t, V, base, L, n, lens, capacity) ==
  /\ t \in [0 .. n -> V] /\ t[0] = base
  /\ \A k \in 1 .. n : t[k] = AddMedium(t[k - 1], L[k], lens, capacity)

(* The fold over the bins that adds medium items.                          *)
LEMMA MediumFold ==
  ASSUME NEW V, NEW base \in V, NEW L, NEW n, NEW lens, NEW capacity, MediumClosed(V, L, n, lens, capacity)
  PROVE  \E t : /\ MediumRuns(t, V, base, L, n, lens, capacity)
               /\ MediumFolded(base, L, lens, capacity) = t[n]
<1> DEFINE G == [a \in V |-> [k \in 1 .. n |-> AddMedium(a, L[k], lens, capacity)]]
           iter == CHOOSE f : f = [s \in SUBSET (1 .. n) |->
                     IF s = {} THEN base ELSE AddMedium(f[s \ {Max(s)}], L[Max(s)], lens, capacity)]
<1>1. /\ n \in Nat /\ DOMAIN L = 1 .. n
      /\ \A a \in V, k \in 1 .. n : AddMedium(a, L[k], lens, capacity) \in V
  BY Zenon DEF MediumClosed
<1>2. \A a \in V, k \in 1 .. n : G[a][k] = AddMedium(a, L[k], lens, capacity)
  OBVIOUS
<1>3. Steps(G, V, n)
  BY <1>1 DEF Steps
<1> HIDE DEF G
<1>4. MediumFolded(base, L, lens, capacity) = iter[1 .. n]
  <2>1. MediumFolded(base, L, lens, capacity) = (CHOOSE f : f = [s \in SUBSET DOMAIN L |->
           IF s = {} THEN base ELSE AddMedium(f[s \ {Max(s)}], L[Max(s)], lens, capacity)])[DOMAIN L]
    BY Zenon DEF MediumFolded, FoldLeft, MapThenFoldSet
  <2>2. QED
    BY <1>1, <2>1, Zenon
<1>5. PICK g : Computes(g, V, n, base, G)
  BY <1>1, <1>3, FoldSolved
<1>6. g = [s \in SUBSET (1 .. n) |->
             IF s = {} THEN base ELSE AddMedium(g[s \ {Max(s)}], L[Max(s)], lens, capacity)]
  <2>1. \A s \in SUBSET (1 .. n) :
          g[s] = (IF s = {} THEN base ELSE AddMedium(g[s \ {Max(s)}], L[Max(s)], lens, capacity))
    <3> SUFFICES ASSUME NEW s \in SUBSET (1 .. n), s # {}
                 PROVE  g[s] = AddMedium(g[s \ {Max(s)}], L[Max(s)], lens, capacity)
      BY <1>5 DEF Computes
    <3>1. Max(s) \in 1 .. n
      BY <1>1, TopOf
    <3>2. s \ {Max(s)} \in SUBSET (1 .. n)
      OBVIOUS
    <3>3. g[s \ {Max(s)}] \in V /\ g[s] = G[g[s \ {Max(s)}]][Max(s)]
      BY <1>5, <3>2 DEF Computes
    <3>4. QED
      BY <1>2, <3>1, <3>3, Zenon
  <2>2. g = [s \in SUBSET (1 .. n) |-> g[s]]
    BY <1>5 DEF Computes
  <2>3. QED
    BY <2>1, <2>2, Zenon
<1>7. iter = [s \in SUBSET (1 .. n) |->
                IF s = {} THEN base ELSE AddMedium(iter[s \ {Max(s)}], L[Max(s)], lens, capacity)]
  BY <1>6, Zenon
<1> HIDE DEF iter
<1>8. PICK it : it = iter
  OBVIOUS
<1>9. Folds(it, V, n, base, G)
  <2>1. {} \in SUBSET (1 .. n)
    OBVIOUS
  <2>2. it[{}] = base
    BY <1>7, <1>8, <2>1, Zenon
  <2>3. ASSUME NEW s \in SUBSET (1 .. n), s # {}, it[s \ {Max(s)}] \in V
        PROVE  it[s] = G[it[s \ {Max(s)}]][Max(s)]
    <3>1. Max(s) \in 1 .. n
      BY <1>1, <2>3, TopOf
    <3>2. it[s] = AddMedium(it[s \ {Max(s)}], L[Max(s)], lens, capacity)
      BY <1>7, <1>8, <2>3, Zenon
    <3>3. G[it[s \ {Max(s)}]][Max(s)] = AddMedium(it[s \ {Max(s)}], L[Max(s)], lens, capacity)
      BY <1>2, <2>3, <3>1, Zenon
    <3>4. QED
      BY <3>2, <3>3, Zenon
  <2>4. QED
    BY <2>2, <2>3 DEF Folds
<1>10. PICK t : Trail(t, V, n, base, G) /\ it[1 .. n] = t[n]
  BY <1>1, <1>3, <1>9, FoldTrail
<1>11. MediumRuns(t, V, base, L, n, lens, capacity)
  <2>1. t \in [0 .. n -> V] /\ t[0] = base
    BY <1>10 DEF Trail
  <2>2. ASSUME NEW k \in 1 .. n PROVE t[k] = AddMedium(t[k - 1], L[k], lens, capacity)
    <3>1. k - 1 \in 0 .. n
      BY <1>1
    <3>2. t[k - 1] \in V /\ t[k] = G[t[k - 1]][k]
      BY <1>10, <3>1 DEF Trail
    <3>3. QED
      BY <1>2, <3>2
  <2>3. QED
    BY <2>1, <2>2 DEF MediumRuns
<1>12. QED
  BY <1>4, <1>8, <1>10, <1>11, Zenon

(* The pairs of small items. *)
PairClosed(V, L, n, lens, capacity) ==
  /\ n \in Nat /\ DOMAIN L = 1 .. n
  /\ \A a \in V, k \in 1 .. n : AddSmallPair(a, L[k], lens, capacity) \in V
PairFolded(base, L, lens, capacity) == FoldLeft(LAMBDA s, b : AddSmallPair(s, b, lens, capacity), base, L)
PairRuns(t, V, base, L, n, lens, capacity) ==
  /\ t \in [0 .. n -> V] /\ t[0] = base
  /\ \A k \in 1 .. n : t[k] = AddSmallPair(t[k - 1], L[k], lens, capacity)

(* The fold over the bins that adds pairs of small items.                  *)
LEMMA PairFold ==
  ASSUME NEW V, NEW base \in V, NEW L, NEW n, NEW lens, NEW capacity, PairClosed(V, L, n, lens, capacity)
  PROVE  \E t : /\ PairRuns(t, V, base, L, n, lens, capacity)
               /\ PairFolded(base, L, lens, capacity) = t[n]
<1> DEFINE G == [a \in V |-> [k \in 1 .. n |-> AddSmallPair(a, L[k], lens, capacity)]]
           iter == CHOOSE f : f = [s \in SUBSET (1 .. n) |->
                     IF s = {} THEN base ELSE AddSmallPair(f[s \ {Max(s)}], L[Max(s)], lens, capacity)]
<1>1. /\ n \in Nat /\ DOMAIN L = 1 .. n
      /\ \A a \in V, k \in 1 .. n : AddSmallPair(a, L[k], lens, capacity) \in V
  BY Zenon DEF PairClosed
<1>2. \A a \in V, k \in 1 .. n : G[a][k] = AddSmallPair(a, L[k], lens, capacity)
  OBVIOUS
<1>3. Steps(G, V, n)
  BY <1>1 DEF Steps
<1> HIDE DEF G
<1>4. PairFolded(base, L, lens, capacity) = iter[1 .. n]
  <2>1. PairFolded(base, L, lens, capacity) = (CHOOSE f : f = [s \in SUBSET DOMAIN L |->
           IF s = {} THEN base ELSE AddSmallPair(f[s \ {Max(s)}], L[Max(s)], lens, capacity)])[DOMAIN L]
    BY Zenon DEF PairFolded, FoldLeft, MapThenFoldSet
  <2>2. QED
    BY <1>1, <2>1, Zenon
<1>5. PICK g : Computes(g, V, n, base, G)
  BY <1>1, <1>3, FoldSolved
<1>6. g = [s \in SUBSET (1 .. n) |->
             IF s = {} THEN base ELSE AddSmallPair(g[s \ {Max(s)}], L[Max(s)], lens, capacity)]
  <2>1. \A s \in SUBSET (1 .. n) :
          g[s] = (IF s = {} THEN base ELSE AddSmallPair(g[s \ {Max(s)}], L[Max(s)], lens, capacity))
    <3> SUFFICES ASSUME NEW s \in SUBSET (1 .. n), s # {}
                 PROVE  g[s] = AddSmallPair(g[s \ {Max(s)}], L[Max(s)], lens, capacity)
      BY <1>5 DEF Computes
    <3>1. Max(s) \in 1 .. n
      BY <1>1, TopOf
    <3>2. s \ {Max(s)} \in SUBSET (1 .. n)
      OBVIOUS
    <3>3. g[s \ {Max(s)}] \in V /\ g[s] = G[g[s \ {Max(s)}]][Max(s)]
      BY <1>5, <3>2 DEF Computes
    <3>4. QED
      BY <1>2, <3>1, <3>3, Zenon
  <2>2. g = [s \in SUBSET (1 .. n) |-> g[s]]
    BY <1>5 DEF Computes
  <2>3. QED
    BY <2>1, <2>2, Zenon
<1>7. iter = [s \in SUBSET (1 .. n) |->
                IF s = {} THEN base ELSE AddSmallPair(iter[s \ {Max(s)}], L[Max(s)], lens, capacity)]
  BY <1>6, Zenon
<1> HIDE DEF iter
<1>8. PICK it : it = iter
  OBVIOUS
<1>9. Folds(it, V, n, base, G)
  <2>1. {} \in SUBSET (1 .. n)
    OBVIOUS
  <2>2. it[{}] = base
    BY <1>7, <1>8, <2>1, Zenon
  <2>3. ASSUME NEW s \in SUBSET (1 .. n), s # {}, it[s \ {Max(s)}] \in V
        PROVE  it[s] = G[it[s \ {Max(s)}]][Max(s)]
    <3>1. Max(s) \in 1 .. n
      BY <1>1, <2>3, TopOf
    <3>2. it[s] = AddSmallPair(it[s \ {Max(s)}], L[Max(s)], lens, capacity)
      BY <1>7, <1>8, <2>3, Zenon
    <3>3. G[it[s \ {Max(s)}]][Max(s)] = AddSmallPair(it[s \ {Max(s)}], L[Max(s)], lens, capacity)
      BY <1>2, <2>3, <3>1, Zenon
    <3>4. QED
      BY <3>2, <3>3, Zenon
  <2>4. QED
    BY <2>2, <2>3 DEF Folds
<1>10. PICK t : Trail(t, V, n, base, G) /\ it[1 .. n] = t[n]
  BY <1>1, <1>3, <1>9, FoldTrail
<1>11. PairRuns(t, V, base, L, n, lens, capacity)
  <2>1. t \in [0 .. n -> V] /\ t[0] = base
    BY <1>10 DEF Trail
  <2>2. ASSUME NEW k \in 1 .. n PROVE t[k] = AddSmallPair(t[k - 1], L[k], lens, capacity)
    <3>1. k - 1 \in 0 .. n
      BY <1>1
    <3>2. t[k - 1] \in V /\ t[k] = G[t[k - 1]][k]
      BY <1>10, <3>1 DEF Trail
    <3>3. QED
      BY <1>2, <3>2
  <2>3. QED
    BY <2>1, <2>2 DEF PairRuns
<1>12. QED
  BY <1>4, <1>8, <1>10, <1>11, Zenon

(* What a bin is topped up with. *)
TopClosed(V, L, n, b, lens, capacity) ==
  /\ n \in Nat /\ DOMAIN L = 1 .. n
  /\ \A a \in V, k \in 1 .. n : TopStep(a, L[k], b, lens, capacity) \in V
TopFolded(base, L, b, lens, capacity) == FoldLeft(LAMBDA s, i : TopStep(s, i, b, lens, capacity), base, L)
TopRuns(t, V, base, L, n, b, lens, capacity) ==
  /\ t \in [0 .. n -> V] /\ t[0] = base
  /\ \A k \in 1 .. n : t[k] = TopStep(t[k - 1], L[k], b, lens, capacity)

(* The fold over the items left that tops up one bin.                      *)
LEMMA TopFold ==
  ASSUME NEW V, NEW base \in V, NEW L, NEW n, NEW b, NEW lens, NEW capacity, TopClosed(V, L, n, b, lens, capacity)
  PROVE  \E t : /\ TopRuns(t, V, base, L, n, b, lens, capacity)
               /\ TopFolded(base, L, b, lens, capacity) = t[n]
<1> DEFINE G == [a \in V |-> [k \in 1 .. n |-> TopStep(a, L[k], b, lens, capacity)]]
           iter == CHOOSE f : f = [s \in SUBSET (1 .. n) |->
                     IF s = {} THEN base ELSE TopStep(f[s \ {Max(s)}], L[Max(s)], b, lens, capacity)]
<1>1. /\ n \in Nat /\ DOMAIN L = 1 .. n
      /\ \A a \in V, k \in 1 .. n : TopStep(a, L[k], b, lens, capacity) \in V
  BY Zenon DEF TopClosed
<1>2. \A a \in V, k \in 1 .. n : G[a][k] = TopStep(a, L[k], b, lens, capacity)
  OBVIOUS
<1>3. Steps(G, V, n)
  BY <1>1 DEF Steps
<1> HIDE DEF G
<1>4. TopFolded(base, L, b, lens, capacity) = iter[1 .. n]
  <2>1. TopFolded(base, L, b, lens, capacity) = (CHOOSE f : f = [s \in SUBSET DOMAIN L |->
           IF s = {} THEN base ELSE TopStep(f[s \ {Max(s)}], L[Max(s)], b, lens, capacity)])[DOMAIN L]
    BY Zenon DEF TopFolded, FoldLeft, MapThenFoldSet
  <2>2. QED
    BY <1>1, <2>1, Zenon
<1>5. PICK g : Computes(g, V, n, base, G)
  BY <1>1, <1>3, FoldSolved
<1>6. g = [s \in SUBSET (1 .. n) |->
             IF s = {} THEN base ELSE TopStep(g[s \ {Max(s)}], L[Max(s)], b, lens, capacity)]
  <2>1. \A s \in SUBSET (1 .. n) :
          g[s] = (IF s = {} THEN base ELSE TopStep(g[s \ {Max(s)}], L[Max(s)], b, lens, capacity))
    <3> SUFFICES ASSUME NEW s \in SUBSET (1 .. n), s # {}
                 PROVE  g[s] = TopStep(g[s \ {Max(s)}], L[Max(s)], b, lens, capacity)
      BY <1>5 DEF Computes
    <3>1. Max(s) \in 1 .. n
      BY <1>1, TopOf
    <3>2. s \ {Max(s)} \in SUBSET (1 .. n)
      OBVIOUS
    <3>3. g[s \ {Max(s)}] \in V /\ g[s] = G[g[s \ {Max(s)}]][Max(s)]
      BY <1>5, <3>2 DEF Computes
    <3>4. QED
      BY <1>2, <3>1, <3>3, Zenon
  <2>2. g = [s \in SUBSET (1 .. n) |-> g[s]]
    BY <1>5 DEF Computes
  <2>3. QED
    BY <2>1, <2>2, Zenon
<1>7. iter = [s \in SUBSET (1 .. n) |->
                IF s = {} THEN base ELSE TopStep(iter[s \ {Max(s)}], L[Max(s)], b, lens, capacity)]
  BY <1>6, Zenon
<1> HIDE DEF iter
<1>8. PICK it : it = iter
  OBVIOUS
<1>9. Folds(it, V, n, base, G)
  <2>1. {} \in SUBSET (1 .. n)
    OBVIOUS
  <2>2. it[{}] = base
    BY <1>7, <1>8, <2>1, Zenon
  <2>3. ASSUME NEW s \in SUBSET (1 .. n), s # {}, it[s \ {Max(s)}] \in V
        PROVE  it[s] = G[it[s \ {Max(s)}]][Max(s)]
    <3>1. Max(s) \in 1 .. n
      BY <1>1, <2>3, TopOf
    <3>2. it[s] = TopStep(it[s \ {Max(s)}], L[Max(s)], b, lens, capacity)
      BY <1>7, <1>8, <2>3, Zenon
    <3>3. G[it[s \ {Max(s)}]][Max(s)] = TopStep(it[s \ {Max(s)}], L[Max(s)], b, lens, capacity)
      BY <1>2, <2>3, <3>1, Zenon
    <3>4. QED
      BY <3>2, <3>3, Zenon
  <2>4. QED
    BY <2>2, <2>3 DEF Folds
<1>10. PICK t : Trail(t, V, n, base, G) /\ it[1 .. n] = t[n]
  BY <1>1, <1>3, <1>9, FoldTrail
<1>11. TopRuns(t, V, base, L, n, b, lens, capacity)
  <2>1. t \in [0 .. n -> V] /\ t[0] = base
    BY <1>10 DEF Trail
  <2>2. ASSUME NEW k \in 1 .. n PROVE t[k] = TopStep(t[k - 1], L[k], b, lens, capacity)
    <3>1. k - 1 \in 0 .. n
      BY <1>1
    <3>2. t[k - 1] \in V /\ t[k] = G[t[k - 1]][k]
      BY <1>10, <3>1 DEF Trail
    <3>3. QED
      BY <1>2, <3>2
  <2>3. QED
    BY <2>1, <2>2 DEF TopRuns
<1>12. QED
  BY <1>4, <1>8, <1>10, <1>11, Zenon

(* Every bin is topped up. *)
TopsClosed(V, L, n, lens, capacity) ==
  /\ n \in Nat /\ DOMAIN L = 1 .. n
  /\ \A a \in V, k \in 1 .. n : TopUp(a, L[k], lens, capacity) \in V
TopsFolded(base, L, lens, capacity) == FoldLeft(LAMBDA s, b : TopUp(s, b, lens, capacity), base, L)
TopsRuns(t, V, base, L, n, lens, capacity) ==
  /\ t \in [0 .. n -> V] /\ t[0] = base
  /\ \A k \in 1 .. n : t[k] = TopUp(t[k - 1], L[k], lens, capacity)

(* The fold over the bins that tops up all of them.                        *)
LEMMA TopsFold ==
  ASSUME NEW V, NEW base \in V, NEW L, NEW n, NEW lens, NEW capacity, TopsClosed(V, L, n, lens, capacity)
  PROVE  \E t : /\ TopsRuns(t, V, base, L, n, lens, capacity)
               /\ TopsFolded(base, L, lens, capacity) = t[n]
<1> DEFINE G == [a \in V |-> [k \in 1 .. n |-> TopUp(a, L[k], lens, capacity)]]
           iter == CHOOSE f : f = [s \in SUBSET (1 .. n) |->
                     IF s = {} THEN base ELSE TopUp(f[s \ {Max(s)}], L[Max(s)], lens, capacity)]
<1>1. /\ n \in Nat /\ DOMAIN L = 1 .. n
      /\ \A a \in V, k \in 1 .. n : TopUp(a, L[k], lens, capacity) \in V
  BY Zenon DEF TopsClosed
<1>2. \A a \in V, k \in 1 .. n : G[a][k] = TopUp(a, L[k], lens, capacity)
  OBVIOUS
<1>3. Steps(G, V, n)
  BY <1>1 DEF Steps
<1> HIDE DEF G
<1>4. TopsFolded(base, L, lens, capacity) = iter[1 .. n]
  <2>1. TopsFolded(base, L, lens, capacity) = (CHOOSE f : f = [s \in SUBSET DOMAIN L |->
           IF s = {} THEN base ELSE TopUp(f[s \ {Max(s)}], L[Max(s)], lens, capacity)])[DOMAIN L]
    BY Zenon DEF TopsFolded, FoldLeft, MapThenFoldSet
  <2>2. QED
    BY <1>1, <2>1, Zenon
<1>5. PICK g : Computes(g, V, n, base, G)
  BY <1>1, <1>3, FoldSolved
<1>6. g = [s \in SUBSET (1 .. n) |->
             IF s = {} THEN base ELSE TopUp(g[s \ {Max(s)}], L[Max(s)], lens, capacity)]
  <2>1. \A s \in SUBSET (1 .. n) :
          g[s] = (IF s = {} THEN base ELSE TopUp(g[s \ {Max(s)}], L[Max(s)], lens, capacity))
    <3> SUFFICES ASSUME NEW s \in SUBSET (1 .. n), s # {}
                 PROVE  g[s] = TopUp(g[s \ {Max(s)}], L[Max(s)], lens, capacity)
      BY <1>5 DEF Computes
    <3>1. Max(s) \in 1 .. n
      BY <1>1, TopOf
    <3>2. s \ {Max(s)} \in SUBSET (1 .. n)
      OBVIOUS
    <3>3. g[s \ {Max(s)}] \in V /\ g[s] = G[g[s \ {Max(s)}]][Max(s)]
      BY <1>5, <3>2 DEF Computes
    <3>4. QED
      BY <1>2, <3>1, <3>3, Zenon
  <2>2. g = [s \in SUBSET (1 .. n) |-> g[s]]
    BY <1>5 DEF Computes
  <2>3. QED
    BY <2>1, <2>2, Zenon
<1>7. iter = [s \in SUBSET (1 .. n) |->
                IF s = {} THEN base ELSE TopUp(iter[s \ {Max(s)}], L[Max(s)], lens, capacity)]
  BY <1>6, Zenon
<1> HIDE DEF iter
<1>8. PICK it : it = iter
  OBVIOUS
<1>9. Folds(it, V, n, base, G)
  <2>1. {} \in SUBSET (1 .. n)
    OBVIOUS
  <2>2. it[{}] = base
    BY <1>7, <1>8, <2>1, Zenon
  <2>3. ASSUME NEW s \in SUBSET (1 .. n), s # {}, it[s \ {Max(s)}] \in V
        PROVE  it[s] = G[it[s \ {Max(s)}]][Max(s)]
    <3>1. Max(s) \in 1 .. n
      BY <1>1, <2>3, TopOf
    <3>2. it[s] = TopUp(it[s \ {Max(s)}], L[Max(s)], lens, capacity)
      BY <1>7, <1>8, <2>3, Zenon
    <3>3. G[it[s \ {Max(s)}]][Max(s)] = TopUp(it[s \ {Max(s)}], L[Max(s)], lens, capacity)
      BY <1>2, <2>3, <3>1, Zenon
    <3>4. QED
      BY <3>2, <3>3, Zenon
  <2>4. QED
    BY <2>2, <2>3 DEF Folds
<1>10. PICK t : Trail(t, V, n, base, G) /\ it[1 .. n] = t[n]
  BY <1>1, <1>3, <1>9, FoldTrail
<1>11. TopsRuns(t, V, base, L, n, lens, capacity)
  <2>1. t \in [0 .. n -> V] /\ t[0] = base
    BY <1>10 DEF Trail
  <2>2. ASSUME NEW k \in 1 .. n PROVE t[k] = TopUp(t[k - 1], L[k], lens, capacity)
    <3>1. k - 1 \in 0 .. n
      BY <1>1
    <3>2. t[k - 1] \in V /\ t[k] = G[t[k - 1]][k]
      BY <1>10, <3>1 DEF Trail
    <3>3. QED
      BY <1>2, <3>2
  <2>3. QED
    BY <2>1, <2>2 DEF TopsRuns
<1>12. QED
  BY <1>4, <1>8, <1>10, <1>11, Zenon

(* Bins are added. *)
MoveClosed(V, L, n, sources) ==
  /\ n \in Nat /\ DOMAIN L = 1 .. n
  /\ \A a \in V, k \in 1 .. n : MoveStep(a, L[k], sources) \in V
MoveFolded(base, L, sources) == FoldLeft(LAMBDA bs, k : MoveStep(bs, k, sources), base, L)
MoveRuns(t, V, base, L, n, sources) ==
  /\ t \in [0 .. n -> V] /\ t[0] = base
  /\ \A k \in 1 .. n : t[k] = MoveStep(t[k - 1], L[k], sources)

(* The fold that makes the missing bins.                                   *)
LEMMA MoveFold ==
  ASSUME NEW V, NEW base \in V, NEW L, NEW n, NEW sources, MoveClosed(V, L, n, sources)
  PROVE  \E t : /\ MoveRuns(t, V, base, L, n, sources)
               /\ MoveFolded(base, L, sources) = t[n]
<1> DEFINE G == [a \in V |-> [k \in 1 .. n |-> MoveStep(a, L[k], sources)]]
           iter == CHOOSE f : f = [s \in SUBSET (1 .. n) |->
                     IF s = {} THEN base ELSE MoveStep(f[s \ {Max(s)}], L[Max(s)], sources)]
<1>1. /\ n \in Nat /\ DOMAIN L = 1 .. n
      /\ \A a \in V, k \in 1 .. n : MoveStep(a, L[k], sources) \in V
  BY Zenon DEF MoveClosed
<1>2. \A a \in V, k \in 1 .. n : G[a][k] = MoveStep(a, L[k], sources)
  OBVIOUS
<1>3. Steps(G, V, n)
  BY <1>1 DEF Steps
<1> HIDE DEF G
<1>4. MoveFolded(base, L, sources) = iter[1 .. n]
  <2>1. MoveFolded(base, L, sources) = (CHOOSE f : f = [s \in SUBSET DOMAIN L |->
           IF s = {} THEN base ELSE MoveStep(f[s \ {Max(s)}], L[Max(s)], sources)])[DOMAIN L]
    BY Zenon DEF MoveFolded, FoldLeft, MapThenFoldSet
  <2>2. QED
    BY <1>1, <2>1, Zenon
<1>5. PICK g : Computes(g, V, n, base, G)
  BY <1>1, <1>3, FoldSolved
<1>6. g = [s \in SUBSET (1 .. n) |->
             IF s = {} THEN base ELSE MoveStep(g[s \ {Max(s)}], L[Max(s)], sources)]
  <2>1. \A s \in SUBSET (1 .. n) :
          g[s] = (IF s = {} THEN base ELSE MoveStep(g[s \ {Max(s)}], L[Max(s)], sources))
    <3> SUFFICES ASSUME NEW s \in SUBSET (1 .. n), s # {}
                 PROVE  g[s] = MoveStep(g[s \ {Max(s)}], L[Max(s)], sources)
      BY <1>5 DEF Computes
    <3>1. Max(s) \in 1 .. n
      BY <1>1, TopOf
    <3>2. s \ {Max(s)} \in SUBSET (1 .. n)
      OBVIOUS
    <3>3. g[s \ {Max(s)}] \in V /\ g[s] = G[g[s \ {Max(s)}]][Max(s)]
      BY <1>5, <3>2 DEF Computes
    <3>4. QED
      BY <1>2, <3>1, <3>3, Zenon
  <2>2. g = [s \in SUBSET (1 .. n) |-> g[s]]
    BY <1>5 DEF Computes
  <2>3. QED
    BY <2>1, <2>2, Zenon
<1>7. iter = [s \in SUBSET (1 .. n) |->
                IF s = {} THEN base ELSE MoveStep(iter[s \ {Max(s)}], L[Max(s)], sources)]
  BY <1>6, Zenon
<1> HIDE DEF iter
<1>8. PICK it : it = iter
  OBVIOUS
<1>9. Folds(it, V, n, base, G)
  <2>1. {} \in SUBSET (1 .. n)
    OBVIOUS
  <2>2. it[{}] = base
    BY <1>7, <1>8, <2>1, Zenon
  <2>3. ASSUME NEW s \in SUBSET (1 .. n), s # {}, it[s \ {Max(s)}] \in V
        PROVE  it[s] = G[it[s \ {Max(s)}]][Max(s)]
    <3>1. Max(s) \in 1 .. n
      BY <1>1, <2>3, TopOf
    <3>2. it[s] = MoveStep(it[s \ {Max(s)}], L[Max(s)], sources)
      BY <1>7, <1>8, <2>3, Zenon
    <3>3. G[it[s \ {Max(s)}]][Max(s)] = MoveStep(it[s \ {Max(s)}], L[Max(s)], sources)
      BY <1>2, <2>3, <3>1, Zenon
    <3>4. QED
      BY <3>2, <3>3, Zenon
  <2>4. QED
    BY <2>2, <2>3 DEF Folds
<1>10. PICK t : Trail(t, V, n, base, G) /\ it[1 .. n] = t[n]
  BY <1>1, <1>3, <1>9, FoldTrail
<1>11. MoveRuns(t, V, base, L, n, sources)
  <2>1. t \in [0 .. n -> V] /\ t[0] = base
    BY <1>10 DEF Trail
  <2>2. ASSUME NEW k \in 1 .. n PROVE t[k] = MoveStep(t[k - 1], L[k], sources)
    <3>1. k - 1 \in 0 .. n
      BY <1>1
    <3>2. t[k - 1] \in V /\ t[k] = G[t[k - 1]][k]
      BY <1>10, <3>1 DEF Trail
    <3>3. QED
      BY <1>2, <3>2
  <2>3. QED
    BY <2>1, <2>2 DEF MoveRuns
<1>12. QED
  BY <1>4, <1>8, <1>10, <1>11, Zenon

-----------------------------------------------------------------------------
(***************************************************************************)
(* First fit and the concatenating packer.                                 *)
(***************************************************************************)
Firsts(L, k) == {L[j] : j \in 1 .. k}
HasRoom(S, lens, capacity) == \A i \in S : lens[i] <= capacity

(* L lists S, in n places.                                                 *)
LEMMA EnumeratesFirsts ==
  ASSUME NEW S, NEW L, Enumerates(L, S)
  PROVE  /\ Len(L) \in Nat /\ DOMAIN L = 1 .. Len(L)
         /\ Firsts(L, 0) = {} /\ Firsts(L, Len(L)) = S
         /\ \A k \in 1 .. Len(L) : /\ L[k] \in S /\ L[k] \notin Firsts(L, k - 1)
                                   /\ Firsts(L, k) = Firsts(L, k - 1) \cup {L[k]}
                                   /\ Firsts(L, k - 1) \subseteq S
<1>1. L \in Seq(S) /\ Len(L) \in Nat /\ DOMAIN L = 1 .. Len(L)
  BY DEF Enumerates
<1>2. \A k \in 1 .. Len(L) : L[k] \in S
  BY <1>1
<1>3. Firsts(L, 0) = {}
  BY DEF Firsts
<1>4. Firsts(L, Len(L)) = S
  <2>1. \A x \in S : x \in Firsts(L, Len(L))
    BY DEF Enumerates, Firsts
  <2>2. \A x \in Firsts(L, Len(L)) : x \in S
    BY <1>2 DEF Firsts
  <2>3. QED
    BY <2>1, <2>2
<1>5. ASSUME NEW k \in 1 .. Len(L)
      PROVE  /\ L[k] \in S /\ L[k] \notin Firsts(L, k - 1)
             /\ Firsts(L, k) = Firsts(L, k - 1) \cup {L[k]}
             /\ Firsts(L, k - 1) \subseteq S
  <2>1. \A j : j \in 1 .. k - 1 <=> j \in 1 .. k /\ j # k
    BY <1>1
  <2>2. \A j \in 1 .. k : j \in 1 .. Len(L)
    BY <1>1
  <2>3. L[k] \notin Firsts(L, k - 1)
    <3> SUFFICES ASSUME NEW j \in 1 .. k - 1, L[j] = L[k] PROVE FALSE
      BY DEF Firsts
    <3>1. j \in 1 .. Len(L) /\ j # k
      BY <2>1, <2>2
    <3>2. QED
      BY <3>1 DEF Enumerates
  <2>4. Firsts(L, k) = Firsts(L, k - 1) \cup {L[k]}
    <3>1. k \in 1 .. k
      BY <1>1
    <3>2. \A x : x \in Firsts(L, k) <=> \E j \in 1 .. k : x = L[j]
      BY DEF Firsts
    <3>3. \A x : x \in Firsts(L, k - 1) <=> \E j \in 1 .. k - 1 : x = L[j]
      BY DEF Firsts
    <3>4. \A x : x \in Firsts(L, k) <=> x \in Firsts(L, k - 1) \/ x = L[k]
      BY <2>1, <3>1, <3>2, <3>3
    <3>5. QED
      BY <3>4
  <2>5. Firsts(L, k - 1) \subseteq S
    BY <1>2, <2>1, <2>2 DEF Firsts
  <2>6. QED
    BY <1>2, <2>3, <2>4, <2>5
<1>6. QED
  BY <1>1, <1>3, <1>4, <1>5

(* A new bin for one item.                                                 *)
LEMMA AppendBin ==
  ASSUME NEW I, NEW bs, bs \in Seq(Seq(I)), NEW i, i \in I
  PROVE  Append(bs, <<i>>) \in Seq(Seq(I))
<1>1. PICK S, e : S = Seq(I) /\ e = <<i>> /\ e \in S
  <2>1. <<i>> \in Seq(I)
    OBVIOUS
  <2>2. QED
    BY <2>1, Zenon
<1>2. bs \in Seq(S)
  BY <1>1
<1>3. Append(bs, e) \in Seq(S)
  BY <1>1, <1>2
<1>4. QED
  BY <1>1, <1>3

(* An item put into a bin.                                                 *)
LEMMA PutBin ==
  ASSUME NEW I, NEW bs, bs \in Seq(Seq(I)), NEW b, b \in 1 .. Len(bs), NEW i, i \in I
  PROVE  PutInto(bs, b, i) \in Seq(Seq(I)) /\ Len(PutInto(bs, b, i)) = Len(bs)
BY PutShape, SMTT(40) DEF IsPut

(* First fit opens a bin or puts the item where it fits.                   *)
LEMMA FitStepBins ==
  ASSUME NEW I, NEW bs, bs \in Seq(Seq(I)), NEW i, i \in I, NEW lens, NEW capacity
  PROVE  /\ FitStep(bs, i, lens, capacity) \in Seq(Seq(I))
         /\ \/ FitStep(bs, i, lens, capacity) = Append(bs, <<i>>)
            \/ \E b \in 1 .. Len(bs) : /\ Fits(bs[b], i, lens, capacity)
                                       /\ FitStep(bs, i, lens, capacity) = PutInto(bs, b, i)
<1>1. PICK open : open = {b \in DOMAIN bs : Fits(bs[b], i, lens, capacity)}
  OBVIOUS
<1>2. PICK new : new = FitStep(bs, i, lens, capacity)
  OBVIOUS
<1>3. new = IF open = {} THEN Append(bs, <<i>>) ELSE PutInto(bs, Min(open), i)
  BY <1>1, <1>2, Zenon DEF FitStep
<1>4. DOMAIN bs = 1 .. Len(bs) /\ Len(bs) \in Nat
  BY BinsShape
<1>5. CASE open = {}
  <2>1. new = Append(bs, <<i>>)
    BY <1>3, <1>5
  <2>2. QED
    BY <1>2, <2>1, AppendBin
<1>6. CASE open # {}
  <2>1. open \subseteq Nat
    BY <1>1, <1>4
  <2>2. Min(open) \in open
    BY <1>6, <2>1, LeastOf
  <2>3. PICK b \in 1 .. Len(bs) : b = Min(open) /\ Fits(bs[b], i, lens, capacity)
    BY <1>1, <1>4, <2>2
  <2>4. new = PutInto(bs, b, i)
    BY <1>3, <1>6, <2>3, Zenon
  <2>5. PutInto(bs, b, i) \in Seq(Seq(I))
    BY <2>3, PutBin
  <2>6. QED
    BY <1>2, <2>3, <2>4, <2>5
<1>7. QED
  BY <1>5, <1>6

(* So an item more is held.                                                *)
LEMMA FitStepPacked ==
  ASSUME NEW I, NEW lens, Measured(lens, I), NEW capacity \in Nat, NEW bs, NEW done,
         Packed(bs, done, I, lens, capacity),
         NEW i, i \in I, i \notin done, lens[i] <= capacity
  PROVE  Packed(FitStep(bs, i, lens, capacity), done \cup {i}, I, lens, capacity)
<1>1. bs \in Seq(Seq(I))
  BY DEF Packed
<1>2. \/ FitStep(bs, i, lens, capacity) = Append(bs, <<i>>)
      \/ \E b \in 1 .. Len(bs) : /\ Fits(bs[b], i, lens, capacity)
                                 /\ FitStep(bs, i, lens, capacity) = PutInto(bs, b, i)
  BY <1>1, FitStepBins
<1>3. Packed(Append(bs, <<i>>), done \cup {i}, I, lens, capacity)
  BY NewPacked
<1>4. \A b \in 1 .. Len(bs) : Fits(bs[b], i, lens, capacity)
        => Packed(PutInto(bs, b, i), done \cup {i}, I, lens, capacity)
  BY PutPacked
<1>5. QED
  BY <1>2, <1>3, <1>4, Zenon

(* First fit holds every item it is given, once, within the capacity.      *)
LEMMA FirstFitPacked ==
  ASSUME NEW I, NEW lens, Measured(lens, I), NEW capacity \in Nat,
         NEW S, S \subseteq I, HasRoom(S, lens, capacity), NEW L, Enumerates(L, S)
  PROVE  Packed(FirstFit(L, lens, capacity), S, I, lens, capacity)
<1>1. PICK n \in Nat : n = Len(L)
  BY EnumeratesFirsts
<1>2. /\ DOMAIN L = 1 .. n /\ Firsts(L, 0) = {} /\ Firsts(L, n) = S
      /\ \A k \in 1 .. n : /\ L[k] \in S /\ L[k] \notin Firsts(L, k - 1)
                           /\ Firsts(L, k) = Firsts(L, k - 1) \cup {L[k]}
  BY <1>1, EnumeratesFirsts
<1>3. PICK V, base : V = Seq(Seq(I)) /\ base = <<>>
  OBVIOUS
<1>4. base \in V
  BY <1>3
<1>5. FitClosed(V, L, n, lens, capacity)
  <2>1. \A a \in V, k \in 1 .. n : FitStep(a, L[k], lens, capacity) \in V
    <3> SUFFICES ASSUME NEW a \in V, NEW k \in 1 .. n PROVE FitStep(a, L[k], lens, capacity) \in V
      OBVIOUS
    <3>1. PICK i \in I : i = L[k]
      BY <1>2
    <3>2. FitStep(a, i, lens, capacity) \in V
      BY <1>3, FitStepBins
    <3>3. QED
      BY <3>1, <3>2
  <2>2. QED
    BY <1>2, <2>1 DEF FitClosed
<1>6. PICK t : /\ FitRuns(t, V, base, L, n, lens, capacity)
               /\ FitFolded(base, L, lens, capacity) = t[n]
  BY <1>4, <1>5, FitFold
<1>7. FirstFit(L, lens, capacity) = t[n]
  <2>1. FirstFit(L, lens, capacity) = FitFolded(<<>>, L, lens, capacity)
    BY Zenon DEF FirstFit, FitStep, FitFolded
  <2>2. QED
    BY <1>3, <1>6, <2>1, Zenon
<1>8. t[0] = <<>> /\ \A k \in 1 .. n : t[k] = FitStep(t[k - 1], L[k], lens, capacity)
  BY <1>3, <1>6 DEF FitRuns
<1> DEFINE W == {k \in 0 .. n : Packed(t[k], Firsts(L, k), I, lens, capacity)}
<1>9. 0 \in W
  <2>1. t[0] = <<>> /\ Firsts(L, 0) = {}
    BY <1>2, <1>8
  <2>2. Packed(t[0], Firsts(L, 0), I, lens, capacity)
    BY <2>1, PackedNone, Zenon
  <2>3. QED
    BY <2>2
<1>10. ASSUME NEW k \in 0 .. n - 1, k \in W PROVE k + 1 \in W
  <2>1. k + 1 \in 1 .. n /\ (k + 1) - 1 = k /\ Packed(t[k], Firsts(L, k), I, lens, capacity)
    BY <1>10
  <2>2. PICK i \in I : i = L[k + 1] /\ i \in S
    BY <1>2, <2>1
  <2>3. i \notin Firsts(L, k) /\ Firsts(L, k + 1) = Firsts(L, k) \cup {i}
    BY <1>2, <2>1, <2>2
  <2>4. lens[i] <= capacity
    BY <2>2 DEF HasRoom
  <2>5. Packed(FitStep(t[k], i, lens, capacity), Firsts(L, k) \cup {i}, I, lens, capacity)
    BY <2>1, <2>3, <2>4, FitStepPacked
  <2>6. t[k + 1] = FitStep(t[k], i, lens, capacity)
    BY <1>8, <2>1, <2>2
  <2>7. Packed(t[k + 1], Firsts(L, k + 1), I, lens, capacity)
    BY <2>3, <2>5, <2>6, Zenon
  <2>8. QED
    BY <2>1, <2>7
<1>11. n \in W
  <2> HIDE DEF W
  <2>1. \A k \in 0 .. n : k \in W
    BY <1>9, <1>10, Upward
  <2>2. QED
    BY <2>1
<1>12. QED
  BY <1>2, <1>7, <1>11

(* Concatenation opens a bin or puts the item into the last.               *)
LEMMA ConcatStepBins ==
  ASSUME NEW I, NEW bs, bs \in Seq(Seq(I)), NEW i, i \in I, NEW lens, NEW capacity
  PROVE  /\ ConcatStep(bs, i, lens, capacity) \in Seq(Seq(I))
         /\ \/ ConcatStep(bs, i, lens, capacity) = Append(bs, <<i>>)
            \/ \E b \in 1 .. Len(bs) : /\ Fits(bs[b], i, lens, capacity)
                                       /\ ConcatStep(bs, i, lens, capacity) = PutInto(bs, b, i)
<1>1. PICK new : new = ConcatStep(bs, i, lens, capacity)
  OBVIOUS
<1>2. CASE bs # <<>> /\ Fits(Last(bs), i, lens, capacity)
  <2>1. PICK b \in 1 .. Len(bs) : b = Len(bs)
    <3>1. PICK S : S = Seq(I)
      OBVIOUS
    <3>2. bs \in Seq(S) /\ bs # <<>>
      BY <1>2, <3>1
    <3>3. Len(bs) \in 1 .. Len(bs)
      BY <3>2
    <3>4. QED
      BY <3>3
  <2>2. new = PutInto(bs, b, i) /\ Fits(bs[b], i, lens, capacity)
    BY <1>1, <1>2, <2>1, Zenon DEF ConcatStep, Last
  <2>3. PutInto(bs, b, i) \in Seq(Seq(I))
    BY <2>1, PutBin
  <2>4. QED
    BY <1>1, <2>1, <2>2, <2>3
<1>3. CASE ~(bs # <<>> /\ Fits(Last(bs), i, lens, capacity))
  <2>1. new = Append(bs, <<i>>)
    BY <1>1, <1>3, Zenon DEF ConcatStep
  <2>2. QED
    BY <1>1, <2>1, AppendBin
<1>4. QED
  BY <1>2, <1>3

(* So an item more is held.                                                *)
LEMMA ConcatStepPacked ==
  ASSUME NEW I, NEW lens, Measured(lens, I), NEW capacity \in Nat, NEW bs, NEW done,
         Packed(bs, done, I, lens, capacity),
         NEW i, i \in I, i \notin done, lens[i] <= capacity
  PROVE  Packed(ConcatStep(bs, i, lens, capacity), done \cup {i}, I, lens, capacity)
<1>1. bs \in Seq(Seq(I))
  BY DEF Packed
<1>2. \/ ConcatStep(bs, i, lens, capacity) = Append(bs, <<i>>)
      \/ \E b \in 1 .. Len(bs) : /\ Fits(bs[b], i, lens, capacity)
                                 /\ ConcatStep(bs, i, lens, capacity) = PutInto(bs, b, i)
  BY <1>1, ConcatStepBins
<1>3. Packed(Append(bs, <<i>>), done \cup {i}, I, lens, capacity)
  BY NewPacked
<1>4. \A b \in 1 .. Len(bs) : Fits(bs[b], i, lens, capacity)
        => Packed(PutInto(bs, b, i), done \cup {i}, I, lens, capacity)
  BY PutPacked
<1>5. QED
  BY <1>2, <1>3, <1>4, Zenon

(* The concatenating packer holds every item once.                         *)
LEMMA ConcatenatePacked ==
  ASSUME NEW n \in Nat, NEW lens, Measured(lens, 1 .. n), NEW capacity \in Nat,
         HasRoom(1 .. n, lens, capacity)
  PROVE  Packed(Concatenate(lens, capacity), 1 .. n, 1 .. n, lens, capacity)
<1>1. PICK I : I = 1 .. n
  OBVIOUS
<1>2. PICK L : L = [i \in 1 .. n |-> i]
  OBVIOUS
<1>3. /\ DOMAIN L = 1 .. n /\ Firsts(L, 0) = {} /\ Firsts(L, n) = I
      /\ \A k \in 1 .. n : /\ L[k] \in I /\ L[k] \notin Firsts(L, k - 1)
                           /\ Firsts(L, k) = Firsts(L, k - 1) \cup {L[k]}
  <2>1. L \in Seq(I) /\ Len(L) = n
    BY <1>1, <1>2
  <2>2. Enumerates(L, I)
    BY <1>1, <1>2, <2>1 DEF Enumerates
  <2>3. QED
    BY <2>1, <2>2, EnumeratesFirsts
<1>4. PICK V, base : V = Seq(Seq(I)) /\ base = <<>>
  OBVIOUS
<1>5. base \in V
  BY <1>4
<1>6. ConcatClosed(V, L, n, lens, capacity)
  <2>1. \A a \in V, k \in 1 .. n : ConcatStep(a, L[k], lens, capacity) \in V
    <3> SUFFICES ASSUME NEW a \in V, NEW k \in 1 .. n PROVE ConcatStep(a, L[k], lens, capacity) \in V
      OBVIOUS
    <3>1. PICK i \in I : i = L[k]
      BY <1>3
    <3>2. ConcatStep(a, i, lens, capacity) \in V
      BY <1>4, ConcatStepBins
    <3>3. QED
      BY <3>1, <3>2
  <2>2. QED
    BY <1>3, <2>1 DEF ConcatClosed
<1>7. PICK t : /\ ConcatRuns(t, V, base, L, n, lens, capacity)
               /\ ConcatFolded(base, L, lens, capacity) = t[n]
  BY <1>5, <1>6, ConcatFold
<1>8. Concatenate(lens, capacity) = t[n]
  <2>1. Concatenate(lens, capacity) = ConcatFolded(<<>>, [i \in DOMAIN lens |-> i], lens, capacity)
    BY Zenon DEF Concatenate, ConcatStep, ConcatFolded
  <2>2. DOMAIN lens = 1 .. n
    BY DEF Measured
  <2>3. QED
    BY <1>2, <1>4, <1>7, <2>1, <2>2, Zenon
<1>9. t[0] = <<>> /\ \A k \in 1 .. n : t[k] = ConcatStep(t[k - 1], L[k], lens, capacity)
  BY <1>4, <1>7 DEF ConcatRuns
<1> DEFINE W == {k \in 0 .. n : Packed(t[k], Firsts(L, k), I, lens, capacity)}
<1>10. 0 \in W
  <2>1. t[0] = <<>> /\ Firsts(L, 0) = {}
    BY <1>3, <1>9
  <2>2. Packed(t[0], Firsts(L, 0), I, lens, capacity)
    BY <2>1, PackedNone, Zenon
  <2>3. QED
    BY <2>2
<1>11. ASSUME NEW k \in 0 .. n - 1, k \in W PROVE k + 1 \in W
  <2>1. k + 1 \in 1 .. n /\ (k + 1) - 1 = k /\ Packed(t[k], Firsts(L, k), I, lens, capacity)
    BY <1>11
  <2>2. PICK i \in I : i = L[k + 1]
    BY <1>3, <2>1
  <2>3. i \notin Firsts(L, k) /\ Firsts(L, k + 1) = Firsts(L, k) \cup {i}
    BY <1>3, <2>1, <2>2
  <2>4. lens[i] <= capacity
    BY <1>1, <2>2 DEF HasRoom
  <2>5. Packed(ConcatStep(t[k], i, lens, capacity), Firsts(L, k) \cup {i}, I, lens, capacity)
    BY <1>1, <2>1, <2>3, <2>4, ConcatStepPacked
  <2>6. t[k + 1] = ConcatStep(t[k], i, lens, capacity)
    BY <1>9, <2>1, <2>2
  <2>7. Packed(t[k + 1], Firsts(L, k + 1), I, lens, capacity)
    BY <2>3, <2>5, <2>6, Zenon
  <2>8. QED
    BY <2>1, <2>7
<1>12. n \in W
  <2> HIDE DEF W
  <2>1. \A k \in 0 .. n : k \in W
    BY <1>10, <1>11, Upward
  <2>2. QED
    BY <2>1
<1>13. QED
  BY <1>1, <1>3, <1>8, <1>12

-----------------------------------------------------------------------------
(***************************************************************************)
(* Modified first fit decreasing.                                          *)
(***************************************************************************)
MffRecords(I) == [bins : Seq(Seq(I)), medium : SUBSET I, small : SUBSET I, left : SUBSET I]
MffStates(I, n) == {s \in MffRecords(I) : Len(s.bins) = n}

(* The parts of a state of modified first fit.                             *)
LEMMA StateParts ==
  ASSUME NEW I, NEW n, NEW s, s \in MffStates(I, n)
  PROVE  /\ s.bins \in Seq(Seq(I)) /\ Len(s.bins) = n
         /\ s.medium \subseteq I /\ s.small \subseteq I /\ s.left \subseteq I
         /\ s = [bins |-> s.bins, medium |-> s.medium, small |-> s.small, left |-> s.left]
<1>1. PICK B, M : B = Seq(Seq(I)) /\ M = SUBSET I
  OBVIOUS
<1>2. s \in [bins : B, medium : M, small : M, left : M] /\ Len(s.bins) = n
  BY <1>1 DEF MffStates, MffRecords
<1>3. s.bins \in B /\ s.medium \in M /\ s.small \in M /\ s.left \in M
  BY <1>2
<1>4. s = [bins |-> s.bins, medium |-> s.medium, small |-> s.small, left |-> s.left]
  BY <1>2
<1>5. QED
  BY <1>1, <1>2, <1>3, <1>4

(* A state is made of its parts.                                           *)
LEMMA StateMade ==
  ASSUME NEW I, NEW n, NEW bs, bs \in Seq(Seq(I)), Len(bs) = n,
         NEW medium, medium \subseteq I, NEW small, small \subseteq I, NEW left, left \subseteq I
  PROVE  [bins |-> bs, medium |-> medium, small |-> small, left |-> left] \in MffStates(I, n)
<1>1. PICK B, M : B = Seq(Seq(I)) /\ M = SUBSET I
  OBVIOUS
<1>2. [bins |-> bs, medium |-> medium, small |-> small, left |-> left]
        \in [bins : B, medium : M, small : M, left : M]
  BY <1>1
<1>3. QED
  BY <1>1, <1>2 DEF MffStates, MffRecords

(* What is in no bin yet waits with the medium or with the small items.    *)
Sharing(s, A, I, lens, capacity) ==
  /\ Packed(s.bins, A \ (s.medium \cup s.small), I, lens, capacity)
  /\ s.medium \cup s.small \subseteq A /\ s.medium \cap s.small = {}

(* The first of a list is of the set.                                      *)
LEMMA FirstListed ==
  ASSUME NEW n \in Nat, NEW lens, Measured(lens, 1 .. n), NEW S, S \subseteq 1 .. n, S # {}
  PROVE  StableDescending(S, lens)[1] \in S
<1>1. S \subseteq Nat /\ IsFiniteSet(S)
  <2>1. 1 \in Int /\ n \in Int
    OBVIOUS
  <2>2. IsFiniteSet(1 .. n)
    BY <2>1, FS_Interval
  <2>3. S \in SUBSET (1 .. n)
    OBVIOUS
  <2>4. IsFiniteSet(S)
    BY <2>2, <2>3, FS_Subset
  <2>5. QED
    BY <2>4
<1>2. PICK I : I = 1 .. n
  OBVIOUS
<1>3. Enumerates(StableDescending(S, lens), S)
  BY <1>1, <1>2, SortedLists
<1>4. PICK L : L = StableDescending(S, lens)
  OBVIOUS
<1>5. PICK x \in S : TRUE
  OBVIOUS
<1>6. PICK k \in 1 .. Len(L) : L[k] = x
  BY <1>3, <1>4 DEF Enumerates
<1>7. 1 \in 1 .. Len(L)
  BY <1>3, <1>4, <1>6, EnumeratesFirsts
<1>8. L[1] \in S
  BY <1>3, <1>4, <1>7, EnumeratesFirsts
<1>9. QED
  BY <1>4, <1>8

(* A medium item leaves its class for a bin it fits.                       *)
LEMMA AddMediumKeeps ==
  ASSUME NEW n \in Nat, NEW lens, Measured(lens, 1 .. n), NEW capacity \in Nat,
         NEW I, I = 1 .. n, NEW m, NEW s, s \in MffStates(I, m), NEW b, b \in 1 .. m,
         NEW A, A \subseteq I
  PROVE  /\ AddMedium(s, b, lens, capacity) \in MffStates(I, m)
         /\ Sharing(s, A, I, lens, capacity)
              => Sharing(AddMedium(s, b, lens, capacity), A, I, lens, capacity)
<1>1. /\ s.bins \in Seq(Seq(I)) /\ Len(s.bins) = m
      /\ s.medium \subseteq I /\ s.small \subseteq I /\ s.left \subseteq I
  BY StateParts
<1>2. s = [bins |-> s.bins, medium |-> s.medium, small |-> s.small, left |-> s.left]
  BY StateParts
<1>3. PICK fit : fit = {i \in s.medium : Fits(s.bins[b], i, lens, capacity)}
  OBVIOUS
<1>4. PICK largest : largest = StableDescending(fit, lens)[1]
  OBVIOUS
<1>5. PICK new : new = AddMedium(s, b, lens, capacity)
  OBVIOUS
<1>6. new = IF fit = {} THEN s
            ELSE [s EXCEPT !.bins = PutInto(@, b, largest), !.medium = @ \ {largest}]
  BY <1>3, <1>4, <1>5, Zenon DEF AddMedium
<1>7. CASE fit = {}
  BY <1>5, <1>6, <1>7
<1>8. CASE fit # {}
  <2>1. fit \subseteq 1 .. n
    BY <1>1, <1>3
  <2>2. largest \in fit
    BY <1>4, <1>8, <2>1, FirstListed
  <2>3. largest \in s.medium /\ largest \in I /\ Fits(s.bins[b], largest, lens, capacity)
    BY <1>1, <1>3, <2>2
  <2>4. PICK bs : bs = PutInto(s.bins, b, largest)
    OBVIOUS
  <2>5. new = [bins |-> bs, medium |-> s.medium \ {largest}, small |-> s.small, left |-> s.left]
    BY <1>2, <1>6, <1>8, <2>4
  <2>6. bs \in Seq(Seq(I)) /\ Len(bs) = m
    <3>1. PICK old : old = s.bins
      OBVIOUS
    <3>2. old \in Seq(Seq(I)) /\ Len(old) = m /\ b \in 1 .. Len(old)
      BY <1>1, <3>1
    <3>3. IsPut(PutInto(old, b, largest), old, b, largest, I)
      BY <2>3, <3>2, PutShape
    <3>4. QED
      BY <2>4, <3>1, <3>2, <3>3 DEF IsPut
  <2>7. new \in MffStates(I, m)
    BY <1>1, <2>5, <2>6, StateMade
  <2>8. new.bins = bs /\ new.medium = s.medium \ {largest} /\ new.small = s.small
    BY <2>5
  <2>9. ASSUME Sharing(s, A, I, lens, capacity) PROVE Sharing(new, A, I, lens, capacity)
    <3>1. PICK done : done = A \ (s.medium \cup s.small)
      OBVIOUS
    <3>2. /\ Packed(s.bins, done, I, lens, capacity)
          /\ s.medium \cup s.small \subseteq A /\ s.medium \cap s.small = {}
      BY <2>9, <3>1 DEF Sharing
    <3>3. largest \notin done
      BY <2>3, <3>1
    <3>4. Packed(bs, done \cup {largest}, I, lens, capacity)
      BY <1>1, <2>3, <2>4, <3>2, <3>3, PutPacked
    <3>5. A \ ((s.medium \ {largest}) \cup s.small) = done \cup {largest}
      BY <2>3, <3>1, <3>2
    <3>6. /\ (s.medium \ {largest}) \cup s.small \subseteq A
          /\ (s.medium \ {largest}) \cap s.small = {}
      BY <3>2
    <3>7. QED
      BY <2>8, <3>4, <3>5, <3>6, Zenon DEF Sharing
  <2>10. QED
    BY <1>5, <2>7, <2>9
<1>9. QED
  BY <1>7, <1>8

(* A pair of small items leaves its class for a bin both fit.              *)
LEMMA AddSmallPairKeeps ==
  ASSUME NEW n \in Nat, NEW lens, Measured(lens, 1 .. n), NEW capacity \in Nat,
         NEW I, I = 1 .. n, NEW m, NEW s, s \in MffStates(I, m), NEW b, b \in 1 .. m,
         NEW A, A \subseteq I
  PROVE  /\ AddSmallPair(s, b, lens, capacity) \in MffStates(I, m)
         /\ Sharing(s, A, I, lens, capacity)
              => Sharing(AddSmallPair(s, b, lens, capacity), A, I, lens, capacity)
<1>1. /\ s.bins \in Seq(Seq(I)) /\ Len(s.bins) = m
      /\ s.medium \subseteq I /\ s.small \subseteq I /\ s.left \subseteq I
  BY StateParts
<1>2. s = [bins |-> s.bins, medium |-> s.medium, small |-> s.small, left |-> s.left]
  BY StateParts
<1>3. PICK bin : bin = s.bins[b]
  OBVIOUS
<1>4. PICK small : small = StableAscending(s.small, lens)
  OBVIOUS
<1>5. PICK fit : fit = {k \in 2 .. Len(small) :
                          Load(bin, lens) + lens[small[1]] + lens[small[k]] <= capacity}
  OBVIOUS
<1>6. PICK x, y : x = small[1] /\ y = small[Max(fit)]
  OBVIOUS
<1>7. PICK new : new = AddSmallPair(s, b, lens, capacity)
  OBVIOUS
<1>8. \/ new = s
      \/ /\ 2 \in fit
         /\ new = [s EXCEPT !.bins = PutInto(PutInto(@, b, x), b, y), !.small = @ \ {x, y}]
  BY <1>3, <1>4, <1>5, <1>6, <1>7, Zenon DEF AddSmallPair
<1>9. CASE new = s
  BY <1>7, <1>9
<1>10. CASE /\ 2 \in fit
            /\ new = [s EXCEPT !.bins = PutInto(PutInto(@, b, x), b, y), !.small = @ \ {x, y}]
  <2>1. s.small \subseteq Nat /\ IsFiniteSet(s.small)
    <3>1. 1 \in Int /\ n \in Int
      OBVIOUS
    <3>2. IsFiniteSet(1 .. n)
      BY <3>1, FS_Interval
    <3>3. QED
      BY <1>1, <3>2, FS_Subset
  <2>2. Enumerates(small, s.small)
    BY <1>1, <1>4, <2>1, SortedLists
  <2>3. PICK l \in Nat : l = Len(small)
    BY <2>2, EnumeratesFirsts
  <2>4. \A k \in 1 .. l : small[k] \in s.small
    BY <2>2, <2>3, EnumeratesFirsts
  <2>5. Max(fit) \in fit
    <3>1. fit \subseteq 0 .. l /\ fit # {}
      BY <1>5, <1>10, <2>3
    <3>2. QED
      BY <3>1, GreatestOf
  <2>6. PICK k \in 2 .. l : k = Max(fit) /\ Load(bin, lens) + lens[x] + lens[y] <= capacity
    BY <1>5, <1>6, <2>3, <2>5, Zenon
  <2>7. 1 \in 1 .. l /\ k \in 1 .. l /\ k # 1
    BY <2>3
  <2>8. x \in s.small /\ y \in s.small /\ x # y
    <3>1. x = small[1] /\ y = small[k]
      BY <1>6, <2>6
    <3>2. x \in s.small /\ y \in s.small
      BY <2>4, <2>7, <3>1
    <3>3. x # y
      BY <2>2, <2>3, <2>7, <3>1 DEF Enumerates
    <3>4. QED
      BY <3>2, <3>3
  <2>9. x \in I /\ y \in I /\ lens[x] \in Nat /\ lens[y] \in Nat
    BY <1>1, <2>8 DEF Measured
  <2>10. bin \in Seq(I) /\ Load(bin, lens) \in Nat
    <3>1. bin \in Seq(I)
      BY <1>1, <1>3, BinsShape
    <3>2. QED
      BY <3>1, LoadNat DEF Measured
  <2>11. Fits(bin, x, lens, capacity)
    <3>1. Load(bin, lens) + lens[x] <= capacity
      BY <2>6, <2>9, <2>10, SMTT(40)
    <3>2. QED
      BY <3>1, Zenon DEF Fits
  <2>12. PICK one, two : one = PutInto(s.bins, b, x) /\ two = PutInto(one, b, y)
    OBVIOUS
  <2>13. one \in Seq(Seq(I)) /\ Len(one) = m /\ one[b] = Append(bin, x)
    <3>1. PICK old : old = s.bins
      OBVIOUS
    <3>2. old \in Seq(Seq(I)) /\ Len(old) = m /\ b \in 1 .. Len(old)
      BY <1>1, <3>1
    <3>3. IsPut(PutInto(old, b, x), old, b, x, I)
      BY <2>9, <3>2, PutShape
    <3>4. QED
      BY <1>3, <2>12, <3>1, <3>2, <3>3 DEF IsPut
  <2>14. two \in Seq(Seq(I)) /\ Len(two) = m
    <3>1. b \in 1 .. Len(one)
      BY <2>13
    <3>2. IsPut(PutInto(one, b, y), one, b, y, I)
      BY <2>9, <2>13, <3>1, PutShape
    <3>3. QED
      BY <2>12, <2>13, <3>2 DEF IsPut
  <2>15. Fits(one[b], y, lens, capacity)
    <3>1. Load(Append(bin, x), lens) = Load(bin, lens) + lens[x]
      BY <2>9, <2>10, LoadAppend DEF Measured
    <3>2. Load(one[b], lens) + lens[y] <= capacity
      BY <2>6, <2>13, <3>1, Zenon
    <3>3. QED
      BY <3>2, Zenon DEF Fits
  <2>16. new = [bins |-> two, medium |-> s.medium, small |-> s.small \ {x, y}, left |-> s.left]
    BY <1>2, <1>10, <2>12
  <2>17. new \in MffStates(I, m)
    BY <1>1, <2>14, <2>16, StateMade
  <2>18. new.bins = two /\ new.medium = s.medium /\ new.small = s.small \ {x, y}
    BY <2>16
  <2>19. ASSUME Sharing(s, A, I, lens, capacity) PROVE Sharing(new, A, I, lens, capacity)
    <3>1. PICK done, more : done = A \ (s.medium \cup s.small) /\ more = done \cup {x}
      OBVIOUS
    <3>2. /\ Packed(s.bins, done, I, lens, capacity)
          /\ s.medium \cup s.small \subseteq A /\ s.medium \cap s.small = {}
      BY <2>19, <3>1 DEF Sharing
    <3>3. x \notin done /\ y \notin more
      BY <2>8, <3>1
    <3>4. Packed(one, more, I, lens, capacity)
      BY <1>1, <1>3, <2>9, <2>11, <2>12, <3>1, <3>2, <3>3, PutPacked
    <3>5. Packed(two, more \cup {y}, I, lens, capacity)
      BY <2>9, <2>12, <2>13, <2>15, <3>3, <3>4, PutPacked
    <3>6. A \ (s.medium \cup (s.small \ {x, y})) = more \cup {y}
      BY <2>8, <3>1, <3>2
    <3>7. /\ s.medium \cup (s.small \ {x, y}) \subseteq A
          /\ s.medium \cap (s.small \ {x, y}) = {}
      BY <3>2
    <3>8. QED
      BY <2>18, <3>5, <3>6, <3>7, Zenon DEF Sharing
  <2>20. QED
    BY <1>7, <2>17, <2>19
<1>11. QED
  BY <1>8, <1>9, <1>10

(* What is in no bin yet is left.                                          *)
Leaving(s, I, lens, capacity) == Packed(s.bins, I \ s.left, I, lens, capacity)

(* An item that is left leaves for a bin it fits.                          *)
LEMMA TopStepKeeps ==
  ASSUME NEW I, NEW lens, Measured(lens, I), NEW capacity \in Nat,
         NEW m, NEW s, s \in MffStates(I, m), NEW b, b \in 1 .. m, NEW i, i \in I
  PROVE  /\ TopStep(s, i, b, lens, capacity) \in MffStates(I, m)
         /\ \A x \in s.left : x # i => x \in TopStep(s, i, b, lens, capacity).left
         /\ i \in s.left /\ Leaving(s, I, lens, capacity)
              => Leaving(TopStep(s, i, b, lens, capacity), I, lens, capacity)
<1>1. /\ s.bins \in Seq(Seq(I)) /\ Len(s.bins) = m
      /\ s.medium \subseteq I /\ s.small \subseteq I /\ s.left \subseteq I
  BY StateParts
<1>2. s = [bins |-> s.bins, medium |-> s.medium, small |-> s.small, left |-> s.left]
  BY StateParts
<1>3. PICK new : new = TopStep(s, i, b, lens, capacity)
  OBVIOUS
<1>4. PICK old, bs : old = s.bins /\ bs = PutInto(old, b, i)
  OBVIOUS
<1>5. CASE ~Fits(s.bins[b], i, lens, capacity)
  <2>1. new = s
    BY <1>3, <1>5, Zenon DEF TopStep
  <2>2. QED
    BY <1>3, <2>1
<1>6. CASE Fits(s.bins[b], i, lens, capacity)
  <2>1. new = [s EXCEPT !.bins = PutInto(@, b, i), !.left = @ \ {i}]
    BY <1>3, <1>6, Zenon DEF TopStep
  <2>2. new = [bins |-> bs, medium |-> s.medium, small |-> s.small, left |-> s.left \ {i}]
    BY <1>2, <1>4, <2>1
  <2>3. bs \in Seq(Seq(I)) /\ Len(bs) = m
    <3>1. old \in Seq(Seq(I)) /\ Len(old) = m /\ b \in 1 .. Len(old)
      BY <1>1, <1>4
    <3>2. IsPut(PutInto(old, b, i), old, b, i, I)
      BY <3>1, PutShape
    <3>3. QED
      BY <1>4, <3>1, <3>2 DEF IsPut
  <2>4. new \in MffStates(I, m)
    BY <1>1, <2>2, <2>3, StateMade
  <2>5. new.bins = bs /\ new.left = s.left \ {i}
    BY <2>2
  <2>6. ASSUME i \in s.left, Leaving(s, I, lens, capacity) PROVE Leaving(new, I, lens, capacity)
    <3>1. PICK done : done = I \ s.left
      OBVIOUS
    <3>2. Packed(old, done, I, lens, capacity) /\ i \notin done
      BY <1>4, <2>6, <3>1 DEF Leaving
    <3>3. b \in 1 .. Len(old) /\ Fits(old[b], i, lens, capacity)
      BY <1>1, <1>4, <1>6
    <3>4. Packed(bs, done \cup {i}, I, lens, capacity)
      BY <1>4, <3>2, <3>3, PutPacked
    <3>5. I \ (s.left \ {i}) = done \cup {i}
      BY <2>6, <3>1
    <3>6. QED
      BY <2>5, <3>4, <3>5, Zenon DEF Leaving
  <2>7. QED
    BY <1>3, <2>4, <2>5, <2>6
<1>7. QED
  BY <1>5, <1>6

(* Sets of places.                                                         *)
LEMMA IntervalParts ==
  ASSUME NEW n \in Nat, NEW S, S \subseteq 1 .. n
  PROVE  S \subseteq Nat /\ IsFiniteSet(S)
<1>1. 1 \in Int /\ n \in Int
  OBVIOUS
<1>2. IsFiniteSet(1 .. n)
  BY <1>1, FS_Interval
<1>3. S \in SUBSET (1 .. n)
  OBVIOUS
<1>4. IsFiniteSet(S)
  BY <1>2, <1>3, FS_Subset
<1>5. QED
  BY <1>4

(* Topping up one bin keeps what is held and what is left apart.           *)
LEMMA TopUpKeeps ==
  ASSUME NEW n \in Nat, NEW lens, Measured(lens, 1 .. n), NEW capacity \in Nat,
         NEW I, I = 1 .. n, NEW m, NEW s, s \in MffStates(I, m), NEW b, b \in 1 .. m
  PROVE  /\ TopUp(s, b, lens, capacity) \in MffStates(I, m)
         /\ Leaving(s, I, lens, capacity) => Leaving(TopUp(s, b, lens, capacity), I, lens, capacity)
<1>1. s.left \subseteq I
  BY StateParts
<1>2. PICK left, L : left = s.left /\ L = StableDescending(left, lens)
  OBVIOUS
<1>3. left \subseteq Nat /\ IsFiniteSet(left) /\ left \subseteq I
  BY <1>1, <1>2, IntervalParts
<1>4. Enumerates(L, left)
  BY <1>2, <1>3, SortedLists
<1>5. PICK l \in Nat : l = Len(L)
  BY <1>4, EnumeratesFirsts
<1>6. DOMAIN L = 1 .. l /\ \A k \in 1 .. l : L[k] \in left
  BY <1>4, <1>5, EnumeratesFirsts
<1>7. PICK V : V = MffStates(I, m)
  OBVIOUS
<1>8. TopClosed(V, L, l, b, lens, capacity)
  <2>1. \A a \in V, k \in 1 .. l : TopStep(a, L[k], b, lens, capacity) \in V
    <3> SUFFICES ASSUME NEW a \in V, NEW k \in 1 .. l PROVE TopStep(a, L[k], b, lens, capacity) \in V
      OBVIOUS
    <3>1. PICK i \in I : i = L[k]
      BY <1>3, <1>6
    <3>2. TopStep(a, i, b, lens, capacity) \in V
      BY <1>7, TopStepKeeps
    <3>3. QED
      BY <3>1, <3>2
  <2>2. QED
    BY <1>6, <2>1 DEF TopClosed
<1>9. s \in V
  BY <1>7
<1>10. PICK t : TopRuns(t, V, s, L, l, b, lens, capacity) /\ TopFolded(s, L, b, lens, capacity) = t[l]
  BY <1>8, <1>9, TopFold
<1>11. TopUp(s, b, lens, capacity) = t[l]
  <2>1. TopUp(s, b, lens, capacity) = TopFolded(s, StableDescending(s.left, lens), b, lens, capacity)
    BY Zenon DEF TopUp, TopStep, TopFolded
  <2>2. QED
    BY <1>2, <1>10, <2>1, Zenon
<1>12. t[0] = s /\ t \in [0 .. l -> V]
       /\ \A k \in 1 .. l : t[k] = TopStep(t[k - 1], L[k], b, lens, capacity)
  BY <1>10 DEF TopRuns
<1>13. t[l] \in MffStates(I, m)
  BY <1>5, <1>7, <1>12
<1>14. ASSUME Leaving(s, I, lens, capacity) PROVE Leaving(t[l], I, lens, capacity)
  <2> DEFINE W == {k \in 0 .. l : /\ Leaving(t[k], I, lens, capacity)
                                  /\ \A j \in k + 1 .. l : L[j] \in t[k].left}
  <2>1. 0 \in W
    <3>1. \A j \in 0 + 1 .. l : L[j] \in t[0].left
      BY <1>2, <1>6, <1>12
    <3>2. Leaving(t[0], I, lens, capacity)
      BY <1>12, <1>14
    <3>3. QED
      BY <3>1, <3>2
  <2>2. ASSUME NEW k \in 0 .. l - 1, k \in W PROVE k + 1 \in W
    <3>1. k + 1 \in 1 .. l /\ (k + 1) - 1 = k /\ k \in 0 .. l /\ k + 1 \in 0 .. l
      OBVIOUS
    <3>2. Leaving(t[k], I, lens, capacity) /\ \A j \in k + 1 .. l : L[j] \in t[k].left
      BY <2>2
    <3>3. PICK i \in I : i = L[k + 1]
      BY <1>3, <1>6, <3>1
    <3>4. PICK old, new : old = t[k] /\ new = t[k + 1]
      OBVIOUS
    <3>5. new = TopStep(old, i, b, lens, capacity) /\ old \in MffStates(I, m)
      BY <1>7, <1>12, <3>1, <3>3, <3>4
    <3>6. k + 1 \in k + 1 .. l
      BY <3>1
    <3>7. i \in old.left /\ Leaving(old, I, lens, capacity)
      BY <3>2, <3>3, <3>4, <3>6
    <3>8. /\ \A x \in old.left : x # i => x \in TopStep(old, i, b, lens, capacity).left
          /\ i \in old.left /\ Leaving(old, I, lens, capacity)
               => Leaving(TopStep(old, i, b, lens, capacity), I, lens, capacity)
      BY <3>5, TopStepKeeps
    <3>9. Leaving(new, I, lens, capacity) /\ \A x \in old.left : x # i => x \in new.left
      BY <3>5, <3>7, <3>8, Zenon
    <3>10. \A j \in (k + 1) + 1 .. l : L[j] \in new.left
      <4> SUFFICES ASSUME NEW j \in (k + 1) + 1 .. l PROVE L[j] \in new.left
        OBVIOUS
      <4>1. j \in k + 1 .. l /\ j # k + 1 /\ j \in 1 .. l
        BY <3>1
      <4>2. L[j] \in old.left
        BY <3>2, <3>4, <4>1
      <4>3. L[j] # i
        BY <1>4, <1>5, <3>1, <3>3, <4>1 DEF Enumerates
      <4>4. QED
        BY <3>9, <4>2, <4>3
    <3>11. QED
      BY <3>1, <3>4, <3>9, <3>10
  <2>3. l \in W
    <3> HIDE DEF W
    <3>1. \A k \in 0 .. l : k \in W
      BY <2>1, <2>2, Upward
    <3>2. QED
      BY <3>1
  <2>4. QED
    BY <2>3
<1>15. QED
  BY <1>11, <1>13, <1>14

(* One bin for every large item.                                           *)
LEMMA OpenPacked ==
  ASSUME NEW I, NEW lens, Measured(lens, I), NEW capacity \in Nat,
         NEW S, S \subseteq I, HasRoom(S, lens, capacity), NEW L, Enumerates(L, S)
  PROVE  /\ Packed(OpenFolded(<<>>, L), S, I, lens, capacity)
         /\ Len(OpenFolded(<<>>, L)) = Len(L)
<1>1. PICK n \in Nat : n = Len(L)
  BY EnumeratesFirsts
<1>2. /\ DOMAIN L = 1 .. n /\ Firsts(L, 0) = {} /\ Firsts(L, n) = S
      /\ \A k \in 1 .. n : /\ L[k] \in S /\ L[k] \notin Firsts(L, k - 1)
                           /\ Firsts(L, k) = Firsts(L, k - 1) \cup {L[k]}
  BY <1>1, EnumeratesFirsts
<1>3. PICK V, base : V = Seq(Seq(I)) /\ base = <<>>
  OBVIOUS
<1>4. base \in V
  BY <1>3
<1>5. OpenClosed(V, L, n)
  <2>1. \A a \in V, k \in 1 .. n : OpenStep(a, L[k]) \in V
    <3> SUFFICES ASSUME NEW a \in V, NEW k \in 1 .. n PROVE OpenStep(a, L[k]) \in V
      OBVIOUS
    <3>1. PICK i \in I : i = L[k]
      BY <1>2
    <3>2. Append(a, <<i>>) \in V
      BY <1>3, AppendBin
    <3>3. QED
      BY <3>1, <3>2 DEF OpenStep
  <2>2. QED
    BY <1>2, <2>1 DEF OpenClosed
<1>6. PICK t : OpenRuns(t, V, base, L, n) /\ OpenFolded(base, L) = t[n]
  BY <1>4, <1>5, OpenFold
<1>7. OpenFolded(<<>>, L) = t[n]
  BY <1>3, <1>6
<1>8. t[0] = <<>> /\ \A k \in 1 .. n : t[k] = Append(t[k - 1], <<L[k]>>)
  BY <1>3, <1>6 DEF OpenRuns, OpenStep
<1> DEFINE W == {k \in 0 .. n : Packed(t[k], Firsts(L, k), I, lens, capacity) /\ Len(t[k]) = k}
<1>9. 0 \in W
  <2>1. t[0] = <<>> /\ Firsts(L, 0) = {}
    BY <1>2, <1>8
  <2>2. Packed(t[0], Firsts(L, 0), I, lens, capacity)
    BY <2>1, PackedNone, Zenon
  <2>3. Len(t[0]) = 0
    BY <2>1
  <2>4. QED
    BY <2>2, <2>3
<1>10. ASSUME NEW k \in 0 .. n - 1, k \in W PROVE k + 1 \in W
  <2>1. k + 1 \in 1 .. n /\ (k + 1) - 1 = k /\ Packed(t[k], Firsts(L, k), I, lens, capacity)
        /\ Len(t[k]) = k
    BY <1>10
  <2>2. PICK i \in I : i = L[k + 1] /\ i \in S
    BY <1>2, <2>1
  <2>3. i \notin Firsts(L, k) /\ Firsts(L, k + 1) = Firsts(L, k) \cup {i}
    BY <1>2, <2>1, <2>2
  <2>4. lens[i] <= capacity
    BY <2>2 DEF HasRoom
  <2>5. /\ Packed(Append(t[k], <<i>>), Firsts(L, k) \cup {i}, I, lens, capacity)
        /\ Len(Append(t[k], <<i>>)) = Len(t[k]) + 1
    BY <2>1, <2>3, <2>4, NewPacked
  <2>6. t[k + 1] = Append(t[k], <<i>>)
    BY <1>8, <2>1, <2>2
  <2>7. Packed(t[k + 1], Firsts(L, k + 1), I, lens, capacity) /\ Len(t[k + 1]) = k + 1
    BY <2>1, <2>3, <2>5, <2>6, Zenon
  <2>8. QED
    BY <2>1, <2>7
<1>11. n \in W
  <2> HIDE DEF W
  <2>1. \A k \in 0 .. n : k \in W
    BY <1>9, <1>10, Upward
  <2>2. QED
    BY <2>1
<1>12. QED
  BY <1>1, <1>2, <1>7, <1>11

(* A list of l numbers of bins.                                            *)
Places(L, l, m) == DOMAIN L = 1 .. l /\ \A k \in 1 .. l : L[k] \in 1 .. m

(* So do all bins after another take medium items,                         *)
LEMMA MediumsKeep ==
  ASSUME NEW n \in Nat, NEW lens, Measured(lens, 1 .. n), NEW capacity \in Nat,
         NEW I, I = 1 .. n, NEW m, NEW s, s \in MffStates(I, m),
         NEW l \in Nat, NEW L, Places(L, l, m), NEW A, A \subseteq I
  PROVE  /\ MediumFolded(s, L, lens, capacity) \in MffStates(I, m)
         /\ Sharing(s, A, I, lens, capacity) => Sharing(MediumFolded(s, L, lens, capacity), A, I, lens, capacity)
<1>1. PICK V : V = MffStates(I, m)
  OBVIOUS
<1>2. DOMAIN L = 1 .. l /\ \A k \in 1 .. l : L[k] \in 1 .. m
  BY DEF Places
<1>3. MediumClosed(V, L, l, lens, capacity)
  <2>1. \A a \in V, k \in 1 .. l : AddMedium(a, L[k], lens, capacity) \in V
    <3> SUFFICES ASSUME NEW a \in V, NEW k \in 1 .. l PROVE AddMedium(a, L[k], lens, capacity) \in V
      OBVIOUS
    <3>1. PICK b \in 1 .. m : b = L[k]
      BY <1>2
    <3>2. AddMedium(a, b, lens, capacity) \in V
      BY <1>1, AddMediumKeeps
    <3>3. QED
      BY <3>1, <3>2
  <2>2. QED
    BY <1>2, <2>1 DEF MediumClosed
<1>4. s \in V
  BY <1>1
<1>5. PICK t : MediumRuns(t, V, s, L, l, lens, capacity) /\ MediumFolded(s, L, lens, capacity) = t[l]
  BY <1>3, <1>4, MediumFold
<1>6. t[0] = s /\ t \in [0 .. l -> V]
      /\ \A k \in 1 .. l : t[k] = AddMedium(t[k - 1], L[k], lens, capacity)
  BY <1>5 DEF MediumRuns
<1>7. t[l] \in MffStates(I, m)
  BY <1>1, <1>6
<1>8. ASSUME Sharing(s, A, I, lens, capacity) PROVE Sharing(t[l], A, I, lens, capacity)
  <2> DEFINE W == {k \in 0 .. l : Sharing(t[k], A, I, lens, capacity)}
  <2>1. 0 \in W
    BY <1>6, <1>8
  <2>2. ASSUME NEW k \in 0 .. l - 1, k \in W PROVE k + 1 \in W
    <3>1. k + 1 \in 1 .. l /\ (k + 1) - 1 = k /\ k \in 0 .. l /\ k + 1 \in 0 .. l
      OBVIOUS
    <3>2. PICK b \in 1 .. m : b = L[k + 1]
      BY <1>2, <3>1
    <3>3. t[k + 1] = AddMedium(t[k], b, lens, capacity) /\ t[k] \in MffStates(I, m)
      BY <1>1, <1>6, <3>1, <3>2
    <3>4. Sharing(t[k], A, I, lens, capacity)
      BY <2>2
    <3>5. Sharing(AddMedium(t[k], b, lens, capacity), A, I, lens, capacity)
      BY <3>3, <3>4, AddMediumKeeps
    <3>6. QED
      BY <3>1, <3>3, <3>5
  <2>3. l \in W
    <3> HIDE DEF W
    <3>1. \A k \in 0 .. l : k \in W
      BY <2>1, <2>2, Upward
    <3>2. QED
      BY <3>1
  <2>4. QED
    BY <2>3
<1>9. QED
  BY <1>5, <1>7, <1>8

(* or pairs of small ones,                                                 *)
LEMMA PairsKeep ==
  ASSUME NEW n \in Nat, NEW lens, Measured(lens, 1 .. n), NEW capacity \in Nat,
         NEW I, I = 1 .. n, NEW m, NEW s, s \in MffStates(I, m),
         NEW l \in Nat, NEW L, Places(L, l, m), NEW A, A \subseteq I
  PROVE  /\ PairFolded(s, L, lens, capacity) \in MffStates(I, m)
         /\ Sharing(s, A, I, lens, capacity) => Sharing(PairFolded(s, L, lens, capacity), A, I, lens, capacity)
<1>1. PICK V : V = MffStates(I, m)
  OBVIOUS
<1>2. DOMAIN L = 1 .. l /\ \A k \in 1 .. l : L[k] \in 1 .. m
  BY DEF Places
<1>3. PairClosed(V, L, l, lens, capacity)
  <2>1. \A a \in V, k \in 1 .. l : AddSmallPair(a, L[k], lens, capacity) \in V
    <3> SUFFICES ASSUME NEW a \in V, NEW k \in 1 .. l PROVE AddSmallPair(a, L[k], lens, capacity) \in V
      OBVIOUS
    <3>1. PICK b \in 1 .. m : b = L[k]
      BY <1>2
    <3>2. AddSmallPair(a, b, lens, capacity) \in V
      BY <1>1, AddSmallPairKeeps
    <3>3. QED
      BY <3>1, <3>2
  <2>2. QED
    BY <1>2, <2>1 DEF PairClosed
<1>4. s \in V
  BY <1>1
<1>5. PICK t : PairRuns(t, V, s, L, l, lens, capacity) /\ PairFolded(s, L, lens, capacity) = t[l]
  BY <1>3, <1>4, PairFold
<1>6. t[0] = s /\ t \in [0 .. l -> V]
      /\ \A k \in 1 .. l : t[k] = AddSmallPair(t[k - 1], L[k], lens, capacity)
  BY <1>5 DEF PairRuns
<1>7. t[l] \in MffStates(I, m)
  BY <1>1, <1>6
<1>8. ASSUME Sharing(s, A, I, lens, capacity) PROVE Sharing(t[l], A, I, lens, capacity)
  <2> DEFINE W == {k \in 0 .. l : Sharing(t[k], A, I, lens, capacity)}
  <2>1. 0 \in W
    BY <1>6, <1>8
  <2>2. ASSUME NEW k \in 0 .. l - 1, k \in W PROVE k + 1 \in W
    <3>1. k + 1 \in 1 .. l /\ (k + 1) - 1 = k /\ k \in 0 .. l /\ k + 1 \in 0 .. l
      OBVIOUS
    <3>2. PICK b \in 1 .. m : b = L[k + 1]
      BY <1>2, <3>1
    <3>3. t[k + 1] = AddSmallPair(t[k], b, lens, capacity) /\ t[k] \in MffStates(I, m)
      BY <1>1, <1>6, <3>1, <3>2
    <3>4. Sharing(t[k], A, I, lens, capacity)
      BY <2>2
    <3>5. Sharing(AddSmallPair(t[k], b, lens, capacity), A, I, lens, capacity)
      BY <3>3, <3>4, AddSmallPairKeeps
    <3>6. QED
      BY <3>1, <3>3, <3>5
  <2>3. l \in W
    <3> HIDE DEF W
    <3>1. \A k \in 0 .. l : k \in W
      BY <2>1, <2>2, Upward
    <3>2. QED
      BY <3>1
  <2>4. QED
    BY <2>3
<1>9. QED
  BY <1>5, <1>7, <1>8

(* or are topped up.                                                       *)
LEMMA TopsKeep ==
  ASSUME NEW n \in Nat, NEW lens, Measured(lens, 1 .. n), NEW capacity \in Nat,
         NEW I, I = 1 .. n, NEW m, NEW s, s \in MffStates(I, m),
         NEW l \in Nat, NEW L, Places(L, l, m)
  PROVE  /\ TopsFolded(s, L, lens, capacity) \in MffStates(I, m)
         /\ Leaving(s, I, lens, capacity) => Leaving(TopsFolded(s, L, lens, capacity), I, lens, capacity)
<1>1. PICK V : V = MffStates(I, m)
  OBVIOUS
<1>2. DOMAIN L = 1 .. l /\ \A k \in 1 .. l : L[k] \in 1 .. m
  BY DEF Places
<1>3. TopsClosed(V, L, l, lens, capacity)
  <2>1. \A a \in V, k \in 1 .. l : TopUp(a, L[k], lens, capacity) \in V
    <3> SUFFICES ASSUME NEW a \in V, NEW k \in 1 .. l PROVE TopUp(a, L[k], lens, capacity) \in V
      OBVIOUS
    <3>1. PICK b \in 1 .. m : b = L[k]
      BY <1>2
    <3>2. TopUp(a, b, lens, capacity) \in V
      BY <1>1, TopUpKeeps
    <3>3. QED
      BY <3>1, <3>2
  <2>2. QED
    BY <1>2, <2>1 DEF TopsClosed
<1>4. s \in V
  BY <1>1
<1>5. PICK t : TopsRuns(t, V, s, L, l, lens, capacity) /\ TopsFolded(s, L, lens, capacity) = t[l]
  BY <1>3, <1>4, TopsFold
<1>6. t[0] = s /\ t \in [0 .. l -> V]
      /\ \A k \in 1 .. l : t[k] = TopUp(t[k - 1], L[k], lens, capacity)
  BY <1>5 DEF TopsRuns
<1>7. t[l] \in MffStates(I, m)
  BY <1>1, <1>6
<1>8. ASSUME Leaving(s, I, lens, capacity) PROVE Leaving(t[l], I, lens, capacity)
  <2> DEFINE W == {k \in 0 .. l : Leaving(t[k], I, lens, capacity)}
  <2>1. 0 \in W
    BY <1>6, <1>8
  <2>2. ASSUME NEW k \in 0 .. l - 1, k \in W PROVE k + 1 \in W
    <3>1. k + 1 \in 1 .. l /\ (k + 1) - 1 = k /\ k \in 0 .. l /\ k + 1 \in 0 .. l
      OBVIOUS
    <3>2. PICK b \in 1 .. m : b = L[k + 1]
      BY <1>2, <3>1
    <3>3. t[k + 1] = TopUp(t[k], b, lens, capacity) /\ t[k] \in MffStates(I, m)
      BY <1>1, <1>6, <3>1, <3>2
    <3>4. Leaving(t[k], I, lens, capacity)
      BY <2>2
    <3>5. Leaving(TopUp(t[k], b, lens, capacity), I, lens, capacity)
      BY <3>3, <3>4, TopUpKeeps
    <3>6. QED
      BY <3>1, <3>3, <3>5
  <2>3. l \in W
    <3> HIDE DEF W
    <3>1. \A k \in 0 .. l : k \in W
      BY <2>1, <2>2, Upward
    <3>2. QED
      BY <3>1
  <2>4. QED
    BY <2>3
<1>9. QED
  BY <1>5, <1>7, <1>8

(* The classes of the items.                                               *)
Classified(big, medium, small, tiny, I, lens, capacity) ==
  /\ big = {i \in I : Large(i, lens, capacity)} /\ medium = {i \in I : Medium(i, lens, capacity)}
  /\ small = {i \in I : Small(i, lens, capacity)} /\ tiny = {i \in I : Tiny(i, lens, capacity)}

(* Every item is of one class.                                             *)
LEMMA Classes ==
  ASSUME NEW n \in Nat, NEW lens, Measured(lens, 1 .. n), NEW capacity \in Nat,
         NEW I, I = 1 .. n,
         NEW big, NEW medium, NEW small, NEW tiny,
         Classified(big, medium, small, tiny, I, lens, capacity)
  PROVE  /\ big \subseteq I /\ medium \subseteq I /\ small \subseteq I /\ tiny \subseteq I
         /\ medium \cap small = {} /\ big \cap (medium \cup small) = {}
         /\ I = big \cup medium \cup small \cup tiny
         /\ tiny \cap (big \cup medium \cup small) = {}
<1>1. \A i \in I : lens[i] \in Nat
  BY DEF Measured
<1>2. \A i \in I : /\ Medium(i, lens, capacity) => ~Large(i, lens, capacity)
                   /\ Small(i, lens, capacity) => ~Large(i, lens, capacity) /\ ~Medium(i, lens, capacity)
  BY DEF Medium, Small
<1>3. \A i \in I : Tiny(i, lens, capacity) =>
        ~Large(i, lens, capacity) /\ ~Medium(i, lens, capacity) /\ ~Small(i, lens, capacity)
  BY <1>1 DEF Large, Medium, Small, Tiny
<1>4. \A i \in I : \/ Large(i, lens, capacity) \/ Medium(i, lens, capacity)
                   \/ Small(i, lens, capacity) \/ Tiny(i, lens, capacity)
  BY <1>1 DEF Small, Tiny
<1>5. QED
  BY <1>2, <1>3, <1>4 DEF Classified

(* Modified first fit holds every item once, within the capacity.          *)
LEMMA ModifiedFirstFitPacked ==
  ASSUME NEW n \in Nat, NEW lens, Measured(lens, 1 .. n), NEW capacity \in Nat,
         HasRoom(1 .. n, lens, capacity)
  PROVE  Packed(ModifiedFirstFit(lens, capacity), 1 .. n, 1 .. n, lens, capacity)
<1>1. PICK I : I = 1 .. n
  OBVIOUS
<1>2. DOMAIN lens = I
  BY <1>1 DEF Measured
<1>3. PICK big, medium, small, tiny :
        /\ big = {i \in I : Large(i, lens, capacity)} /\ medium = {i \in I : Medium(i, lens, capacity)}
        /\ small = {i \in I : Small(i, lens, capacity)} /\ tiny = {i \in I : Tiny(i, lens, capacity)}
  OBVIOUS
<1>4. /\ big \subseteq I /\ medium \subseteq I /\ small \subseteq I /\ tiny \subseteq I
      /\ medium \cap small = {} /\ big \cap (medium \cup small) = {}
      /\ I = big \cup medium \cup small \cup tiny
      /\ tiny \cap (big \cup medium \cup small) = {}
  <2>1. Classified(big, medium, small, tiny, I, lens, capacity)
    BY <1>3 DEF Classified
  <2>2. QED
    BY <1>1, <2>1, Classes
<1>5. PICK large : large = StableDescending(big, lens)
  OBVIOUS
<1>6. PICK ord : ord = [b \in DOMAIN large |-> b]
  OBVIOUS
<1>7. PICK start : start = [bins |-> OpenFolded(<<>>, large), medium |-> medium, small |-> small,
                           left |-> {}]
  OBVIOUS
<1>8. PICK mediums : mediums = MediumFolded(start, ord, lens, capacity)
  OBVIOUS
<1>9. PICK smalls : smalls = PairFolded(mediums, Reverse(ord), lens, capacity)
  OBVIOUS
<1>10. PICK again : again = [smalls EXCEPT !.left = smalls.medium \cup smalls.small \cup tiny]
  OBVIOUS
<1>11. PICK topped : topped = TopsFolded(again, ord, lens, capacity)
  OBVIOUS
<1>12. ModifiedFirstFit(lens, capacity)
         = topped.bins \o FirstFit(StableDescending(topped.left, lens), lens, capacity)
  BY <1>2, <1>3, <1>5, <1>6, <1>7, <1>8, <1>9, <1>10, <1>11, ZenonT(40)
     DEF ModifiedFirstFit, OpenFolded, OpenStep, MediumFolded, PairFolded, TopsFolded
<1>13. Enumerates(large, big)
  <2>1. big \subseteq Nat /\ IsFiniteSet(big)
    BY <1>1, <1>4, IntervalParts
  <2>2. QED
    BY <1>1, <1>4, <1>5, <2>1, SortedLists
<1>14. PICK m \in Nat : m = Len(large) /\ DOMAIN large = 1 .. m
  BY <1>13, EnumeratesFirsts
<1>15. Places(ord, m, m) /\ Places(Reverse(ord), m, m)
  <2>1. ord = [b \in 1 .. m |-> b]
    BY <1>6, <1>14
  <2>2. Len(ord) = m
    BY <2>1
  <2>3. Reverse(ord) = [b \in 1 .. m |-> ord[(m - b) + 1]]
    BY <2>2, Zenon DEF Reverse
  <2>4. PICK back : back = Reverse(ord)
    OBVIOUS
  <2>5. \A b \in 1 .. m : (m - b) + 1 \in 1 .. m
    OBVIOUS
  <2>6. \A b \in 1 .. m : back[b] \in 1 .. m
    BY <2>1, <2>3, <2>4, <2>5
  <2>7. DOMAIN back = 1 .. m
    BY <2>3, <2>4
  <2>8. Places(back, m, m)
    BY <2>6, <2>7 DEF Places
  <2>9. Places(ord, m, m)
    BY <2>1 DEF Places
  <2>10. QED
    BY <2>4, <2>8, <2>9
<1>16. PICK open : open = OpenFolded(<<>>, large)
  OBVIOUS
<1>17. Packed(open, big, I, lens, capacity) /\ Len(open) = m
  <2>1. HasRoom(big, lens, capacity)
    BY <1>1, <1>4 DEF HasRoom
  <2>2. /\ Packed(OpenFolded(<<>>, large), big, I, lens, capacity)
        /\ Len(OpenFolded(<<>>, large)) = Len(large)
    BY <1>1, <1>4, <1>13, <2>1, OpenPacked
  <2>3. QED
    BY <1>14, <1>16, <2>2
<1>18. PICK A : A = big \cup medium \cup small
  OBVIOUS
<1>19. A \subseteq I
  BY <1>4, <1>18
<1>20. start \in MffStates(I, m)
  <2>1. open \in Seq(Seq(I))
    BY <1>17 DEF Packed
  <2>2. QED
    BY <1>4, <1>7, <1>16, <1>17, <2>1, StateMade
<1>21. Sharing(start, A, I, lens, capacity)
  <2>1. start.bins = open /\ start.medium = medium /\ start.small = small
    BY <1>7, <1>16
  <2>2. A \ (medium \cup small) = big /\ medium \cup small \subseteq A
    BY <1>4, <1>18
  <2>3. QED
    BY <1>4, <1>17, <2>1, <2>2, Zenon DEF Sharing
<1>22. mediums \in MffStates(I, m) /\ Sharing(mediums, A, I, lens, capacity)
  BY <1>1, <1>8, <1>15, <1>19, <1>20, <1>21, MediumsKeep
<1>23. smalls \in MffStates(I, m) /\ Sharing(smalls, A, I, lens, capacity)
  BY <1>1, <1>9, <1>15, <1>19, <1>22, PairsKeep
<1>24. PICK rest : rest = smalls.medium \cup smalls.small \cup tiny
  OBVIOUS
<1>25. /\ smalls.bins \in Seq(Seq(I)) /\ Len(smalls.bins) = m
       /\ smalls.medium \subseteq I /\ smalls.small \subseteq I /\ rest \subseteq I
       /\ again = [bins |-> smalls.bins, medium |-> smalls.medium, small |-> smalls.small, left |-> rest]
  <2>1. /\ smalls.bins \in Seq(Seq(I)) /\ Len(smalls.bins) = m
        /\ smalls.medium \subseteq I /\ smalls.small \subseteq I
    BY <1>23, StateParts
  <2>2. smalls = [bins |-> smalls.bins, medium |-> smalls.medium, small |-> smalls.small,
                  left |-> smalls.left]
    BY <1>23, StateParts
  <2>3. again = [bins |-> smalls.bins, medium |-> smalls.medium, small |-> smalls.small, left |-> rest]
    BY <1>10, <1>24, <2>2
  <2>4. rest \subseteq I
    BY <1>4, <1>24, <2>1
  <2>5. QED
    BY <2>1, <2>3, <2>4
<1>26. again \in MffStates(I, m)
  BY <1>25, StateMade
<1>27. Leaving(again, I, lens, capacity)
  <2>1. Packed(smalls.bins, A \ (smalls.medium \cup smalls.small), I, lens, capacity)
    BY <1>23 DEF Sharing
  <2>2. smalls.medium \cup smalls.small \subseteq A
    BY <1>23 DEF Sharing
  <2>3. I \ rest = A \ (smalls.medium \cup smalls.small)
    BY <1>4, <1>18, <1>24, <2>2
  <2>4. again.bins = smalls.bins /\ again.left = rest
    BY <1>25
  <2>5. QED
    BY <2>1, <2>3, <2>4, Zenon DEF Leaving
<1>28. topped \in MffStates(I, m) /\ Leaving(topped, I, lens, capacity)
  BY <1>1, <1>11, <1>15, <1>26, <1>27, TopsKeep
<1>29. PICK left, bs, cs : /\ left = topped.left /\ bs = topped.bins
                          /\ cs = FirstFit(StableDescending(topped.left, lens), lens, capacity)
  OBVIOUS
<1>30. left \subseteq I /\ left \subseteq Nat /\ IsFiniteSet(left)
  <2>1. left \subseteq I
    BY <1>28, <1>29, StateParts
  <2>2. QED
    BY <1>1, <2>1, IntervalParts
<1>31. Packed(bs, I \ left, I, lens, capacity)
  BY <1>28, <1>29 DEF Leaving
<1>32. Packed(cs, left, I, lens, capacity)
  <2>1. PICK L : L = StableDescending(left, lens)
    OBVIOUS
  <2>2. Enumerates(L, left)
    BY <1>1, <1>30, <2>1, SortedLists
  <2>3. HasRoom(left, lens, capacity)
    BY <1>1, <1>30 DEF HasRoom
  <2>4. Packed(FirstFit(L, lens, capacity), left, I, lens, capacity)
    BY <1>1, <1>30, <2>2, <2>3, FirstFitPacked
  <2>5. QED
    BY <1>29, <2>1, <2>4
<1>33. PICK done : done = I \ left
  OBVIOUS
<1>34. done \cap left = {} /\ done \cup left = I
  BY <1>30, <1>33
<1>35. Packed(bs \o cs, done \cup left, I, lens, capacity)
  BY <1>31, <1>32, <1>33, <1>34, JoinPacked
<1>36. QED
  BY <1>1, <1>12, <1>29, <1>34, <1>35, Zenon

-----------------------------------------------------------------------------
(***************************************************************************)
(* _adjust_bin_count.                                                      *)
(***************************************************************************)
(* No packing has more bins than items.                                    *)
LEMMA NotMoreBins ==
  ASSUME NEW I, NEW lens, NEW capacity, NEW bs, NEW done, Packed(bs, done, I, lens, capacity),
         IsFiniteSet(done)
  PROVE  Len(bs) <= Cardinality(done)
<1>1. PICK n \in Nat : n = Len(bs)
  BY BinsShape DEF Packed
<1>2. PICK f : f = [b \in 1 .. n |-> Item(bs, b, 1)]
  OBVIOUS
<1>3. \A b \in 1 .. n : Placed(bs, b, 1)
  <2>1. \A b \in 1 .. n : Len(bs[b]) \in Nat
    BY <1>1, BinsShape DEF Packed
  <2>2. \A b \in 1 .. n : Len(bs[b]) > 0
    BY <1>1 DEF Packed, Sound
  <2>3. \A b \in 1 .. n : 1 \in 1 .. Len(bs[b])
    BY <2>1, <2>2
  <2>4. QED
    BY <1>1, <2>3 DEF Placed
<1>4. Holds(bs, done)
  BY DEF Packed
<1>5. f \in [1 .. n -> done]
  BY <1>2, <1>3, <1>4 DEF Holds
<1>6. \A a, b \in 1 .. n : f[a] = f[b] => a = b
  BY <1>2, <1>3, <1>4 DEF Holds
<1>7. f \in Injection(1 .. n, done)
  BY <1>5, <1>6 DEF Injection, IsInjective
<1>8. Cardinality(1 .. n) <= Cardinality(done)
  BY <1>7, FS_Injection
<1>9. Cardinality(1 .. n) = n
  <2>1. 1 \in Int /\ n \in Int
    OBVIOUS
  <2>2. Cardinality(1 .. n) = IF 1 > n THEN 0 ELSE n - 1 + 1
    BY <2>1, FS_Interval
  <2>3. QED
    BY <2>2
<1>10. QED
  BY <1>1, <1>8, <1>9

(* With more items than bins, a bin has two.                               *)
LEMMA Crowded ==
  ASSUME NEW I, NEW lens, NEW capacity, NEW bs, NEW done, Packed(bs, done, I, lens, capacity),
         IsFiniteSet(done), Len(bs) < Cardinality(done)
  PROVE  \E b \in 1 .. Len(bs) : Len(bs[b]) > 1
<1> SUFFICES ASSUME \A b \in 1 .. Len(bs) : ~(Len(bs[b]) > 1) PROVE FALSE
  OBVIOUS
<1>1. PICK n \in Nat : n = Len(bs)
  BY BinsShape DEF Packed
<1>2. PICK f : f = [b \in 1 .. n |-> Item(bs, b, 1)]
  OBVIOUS
<1>3. \A b, k : Placed(bs, b, k) <=> b \in 1 .. n /\ k = 1
  <2>1. \A b \in 1 .. n : Len(bs[b]) \in Nat
    BY <1>1, BinsShape DEF Packed
  <2>2. \A b \in 1 .. n : Len(bs[b]) > 0
    BY <1>1 DEF Packed, Sound
  <2>3. \A b \in 1 .. n : Len(bs[b]) = 1
    <3>1. \A b \in 1 .. n : ~(Len(bs[b]) > 1)
      BY <1>1
    <3>2. \A u \in Nat : u > 0 /\ ~(u > 1) => u = 1
      OBVIOUS
    <3>3. QED
      BY <2>1, <2>2, <3>1, <3>2, Zenon
  <2>4. \A k : k \in 1 .. 1 <=> k = 1
    OBVIOUS
  <2>5. QED
    BY <1>1, <2>3, <2>4 DEF Placed
<1>4. Holds(bs, done)
  BY DEF Packed
<1>5. f \in [1 .. n -> done]
  BY <1>2, <1>3, <1>4 DEF Holds
<1>6. \A x \in done : \E b \in 1 .. n : f[b] = x
  BY <1>2, <1>3, <1>4 DEF Holds
<1>7. f \in Surjection(1 .. n, done)
  BY <1>5, <1>6 DEF Surjection
<1>8. IsFiniteSet(1 .. n) /\ Cardinality(1 .. n) = n
  <2>1. 1 \in Int /\ n \in Int
    OBVIOUS
  <2>2. IsFiniteSet(1 .. n) /\ Cardinality(1 .. n) = IF 1 > n THEN 0 ELSE n - 1 + 1
    BY <2>1, FS_Interval
  <2>3. QED
    BY <2>2
<1>9. Cardinality(done) <= Cardinality(1 .. n)
  BY <1>7, <1>8, FS_Surjection
<1>10. Cardinality(done) \in Nat
  BY FS_CardinalityType
<1>11. QED
  BY <1>1, <1>8, <1>9, <1>10

(* From the m-th on, every bin is a new one, with one item.                *)
Singles(bs, m) == \A c \in 1 .. Len(bs) : c > m => Len(bs[c]) = 1

Shifted(new, bs, m) ==
  \E b \in 1 .. m : /\ Len(bs[b]) > 1
                    /\ new = Append([bs EXCEPT ![b] = Front(@)], <<Last(bs[b])>>)
Crammed(bs, m) == \E b \in 1 .. m : Len(bs[b]) > 1

(* One bin more, of the last item of a bin that has two.                   *)
LEMMA MoveStepBins ==
  ASSUME NEW I, NEW m \in Nat, NEW bs, bs \in Seq(Seq(I)), m <= Len(bs),
         NEW sources, Enumerates(sources, 1 .. m), NEW k
  PROVE  /\ MoveStep(bs, k, sources) \in Seq(Seq(I)) /\ m <= Len(MoveStep(bs, k, sources))
         /\ Crammed(bs, m) => Shifted(MoveStep(bs, k, sources), bs, m)
<1>1. PICK many : many = {j \in DOMAIN sources : Len(bs[sources[j]]) > 1}
  OBVIOUS
<1>2. PICK new : new = MoveStep(bs, k, sources)
  OBVIOUS
<1>3. PICK from : from = sources[Min(many)]
  OBVIOUS
<1>4. new = IF many = {} THEN bs ELSE Append([bs EXCEPT ![from] = Front(@)], <<Last(bs[from])>>)
  BY <1>1, <1>2, <1>3, Zenon DEF MoveStep, MoveOne
<1>5. PICK l \in Nat : l = Len(sources) /\ DOMAIN sources = 1 .. l
  BY EnumeratesFirsts
<1>6. \A j \in 1 .. l : sources[j] \in 1 .. m
  BY <1>5, EnumeratesFirsts
<1>7. Len(bs) \in Nat
  BY BinsShape
<1>8. CASE many = {}
  <2>1. \A b \in 1 .. m : ~(Len(bs[b]) > 1)
    <3> SUFFICES ASSUME NEW b \in 1 .. m, Len(bs[b]) > 1 PROVE FALSE
      OBVIOUS
    <3>1. PICK j \in 1 .. l : sources[j] = b
      BY <1>5 DEF Enumerates
    <3>2. j \in many
      BY <1>1, <1>5, <3>1
    <3>3. QED
      BY <1>8, <3>2
  <2>2. new = bs
    BY <1>4, <1>8
  <2>3. ~Crammed(bs, m)
    BY <2>1 DEF Crammed
  <2>4. QED
    BY <1>2, <2>2, <2>3
<1>9. CASE many # {}
  <2>1. many \subseteq Nat
    BY <1>1, <1>5
  <2>2. Min(many) \in many
    BY <1>9, <2>1, LeastOf
  <2>3. from \in 1 .. m /\ Len(bs[from]) > 1
    BY <1>1, <1>3, <1>5, <1>6, <2>2
  <2>4. new = Append([bs EXCEPT ![from] = Front(@)], <<Last(bs[from])>>)
    BY <1>4, <1>9
  <2>5. from \in 1 .. Len(bs)
    BY <1>7, <2>3
  <2>6. new \in Seq(Seq(I)) /\ Len(new) = Len(bs) + 1
    <3>1. PICK bin : bin = bs[from] /\ bin \in Seq(I) /\ Len(bin) > 1
      BY <2>3, <2>5, BinsShape
    <3>2. bin # <<>>
      BY <3>1
    <3>3. PICK front, last : front = Front(bin) /\ last = <<Last(bin)>>
      OBVIOUS
    <3>4. front \in Seq(I) /\ last \in Seq(I)
      <4>1. Front(bin) \in Seq(I)
        BY <3>1, <3>2 DEF Front
      <4>2. Last(bin) \in I
        BY <3>1, <3>2 DEF Last
      <4>3. <<Last(bin)>> \in Seq(I)
        BY <4>2
      <4>4. QED
        BY <3>3, <4>1, <4>3
    <3>5. PICK S : S = Seq(I)
      OBVIOUS
    <3>6. PICK mid : mid = [bs EXCEPT ![from] = front]
      OBVIOUS
    <3>7. mid \in Seq(S) /\ Len(mid) = Len(bs)
      <4>1. bs \in Seq(S) /\ front \in S
        BY <3>4, <3>5
      <4>2. QED
        BY <2>5, <3>6, <4>1, ExceptSeq
    <3>8. Append(mid, last) \in Seq(S) /\ Len(Append(mid, last)) = Len(mid) + 1
      <4>1. last \in S
        BY <3>4, <3>5
      <4>2. QED
        BY <3>7, <4>1, AppendProperties
    <3>9. new = Append(mid, last)
      BY <2>4, <3>1, <3>3, <3>6
    <3>10. QED
      BY <3>5, <3>7, <3>8, <3>9
  <2>7. m <= Len(new)
    BY <1>7, <2>6
  <2>8. Shifted(new, bs, m)
    BY <2>3, <2>4 DEF Shifted
  <2>9. QED
    BY <1>2, <2>6, <2>7, <2>8
<1>10. QED
  BY <1>8, <1>9

(* Bins of one item are not taken from.                                    *)
LEMMA SinglesOne ==
  ASSUME NEW bs, NEW m, Singles(bs, m), NEW c \in 1 .. Len(bs), Len(bs[c]) > 1
  PROVE  ~(c > m)
<1> SUFFICES ASSUME c > m PROVE FALSE
  OBVIOUS
<1>1. Len(bs[c]) = 1
  BY DEF Singles
<1>2. QED
  BY <1>1

(* The new bins have one item each.                                        *)
LEMMA MovedSingles ==
  ASSUME NEW new, NEW bs, NEW c, Moves(new, bs, c), NEW m \in Nat, Singles(bs, m), c \in 1 .. m,
         Len(bs) \in Nat
  PROVE  Len(new) = Len(bs) + 1 /\ Singles(new, m)
<1>1. Len(new) = Len(bs) + 1
  BY DEF Moves
<1>2. Len(new[Len(bs) + 1]) = 1
  BY DEF Moves
<1>3. \A d \in 1 .. Len(bs) : d # c => new[d] = bs[d]
  BY DEF Moves
<1>4. \A d \in 1 .. Len(bs) : d > m => Len(bs[d]) = 1
  BY DEF Singles
<1>5. PICK n \in Nat : n = Len(bs)
  OBVIOUS
<1>6. ASSUME NEW d \in 1 .. Len(new), d > m PROVE Len(new[d]) = 1
  <2>1. d \in 1 .. n + 1
    BY <1>1, <1>5, <1>6
  <2>2. CASE d = n + 1
    BY <1>2, <1>5, <2>2
  <2>3. CASE d # n + 1
    <3>1. d \in 1 .. n /\ d # c
      BY <1>6, <2>1, <2>3
    <3>2. Len(bs[d]) = 1
      BY <1>4, <1>5, <1>6, <3>1
    <3>3. QED
      BY <1>3, <1>5, <3>1, <3>2
  <2>4. QED
    BY <2>2, <2>3
<1>7. QED
  BY <1>1, <1>6 DEF Singles

(* One bin more, and every item still held once.                           *)
LEMMA MoveStepPacked ==
  ASSUME NEW I, IsFiniteSet(I), NEW lens, Measured(lens, I), NEW capacity \in Nat,
         HasRoom(I, lens, capacity), NEW bs, Packed(bs, I, I, lens, capacity), Len(bs) < Cardinality(I),
         NEW m \in Nat, m <= Len(bs), Singles(bs, m),
         NEW sources, Enumerates(sources, 1 .. m), NEW k
  PROVE  /\ Packed(MoveStep(bs, k, sources), I, I, lens, capacity)
         /\ Len(MoveStep(bs, k, sources)) = Len(bs) + 1
         /\ Singles(MoveStep(bs, k, sources), m)
<1>1. bs \in Seq(Seq(I)) /\ Len(bs) \in Nat
  BY BinsShape DEF Packed
<1>2. PICK b \in 1 .. Len(bs) : Len(bs[b]) > 1
  BY Crowded
<1>3. b \in 1 .. m
  <2>1. ~(b > m)
    BY <1>2, SinglesOne
  <2>2. QED
    BY <1>1, <2>1
<1>4. Crammed(bs, m)
  BY <1>2, <1>3 DEF Crammed
<1>5. PICK new : new = MoveStep(bs, k, sources)
  OBVIOUS
<1>6. Shifted(new, bs, m)
  BY <1>1, <1>4, <1>5, MoveStepBins
<1>7. PICK c \in 1 .. m : /\ Len(bs[c]) > 1
                          /\ new = Append([bs EXCEPT ![c] = Front(@)], <<Last(bs[c])>>)
  BY <1>6 DEF Shifted
<1>8. c \in 1 .. Len(bs)
  BY <1>1
<1>9. \A i \in I : lens[i] <= capacity
  BY DEF HasRoom
<1>10. Packed(new, I, I, lens, capacity)
  BY <1>7, <1>8, <1>9, MovePacked, Zenon
<1>11. Moves(new, bs, c)
  BY <1>7, <1>8, <1>9, MovePacked, Zenon
<1>12. Len(new) = Len(bs) + 1 /\ Singles(new, m)
  BY <1>1, <1>11, MovedSingles
<1>13. QED
  BY <1>5, <1>10, <1>12

(* Quotient and remainder.                                                 *)
LEMMA Division ==
  ASSUME NEW a \in Nat, NEW s \in Nat, s > 0
  PROVE  \E q, r \in Nat : q = a \div s /\ r = a % s /\ r < s /\ a = q * s + r
<1>1. PICK q, r \in Nat : q = a \div s /\ r = a % s /\ r < s
  <2>1. a \div s \in Nat /\ a % s \in Nat /\ a % s < s
    OBVIOUS
  <2>2. QED
    BY <2>1
<1>2. PICK z \in Nat : z = q * s
  OBVIOUS
<1>3. a % s = a - (a \div s) * s
  BY SMT
<1>4. r = a - z
  BY <1>1, <1>2, <1>3
<1>5. a = z + r
  BY <1>4
<1>6. QED
  BY <1>1, <1>2, <1>5

(* Quotient and remainder are unique.                                      *)
LEMMA DivisionIs ==
  ASSUME NEW q \in Nat, NEW s \in Nat, s > 0, NEW r \in Nat, r < s
  PROVE  (q * s + r) % s = r /\ (q * s + r) \div s = q
OBVIOUS

(* Multiples and their order.                                              *)
LEMMA Multiples ==
  ASSUME NEW q \in Nat, NEW p \in Nat, NEW s \in Nat, s > 0
  PROVE  /\ q * s \in Nat /\ (q + p) * s = q * s + p * s
         /\ q * s < p * s => q < p
         /\ q < p => (q + 1) * s <= p * s
  OBVIOUS

(* The least multiple of s that is not below c.                            *)
LEMMA TargetIs ==
  ASSUME NEW c \in Nat, NEW s \in Nat, s > 0, NEW n \in Nat, c <= n, n % s = 0
  PROVE  /\ Target(c, s) \in Nat /\ c <= Target(c, s) /\ Target(c, s) <= n
         /\ \E q \in Nat : Target(c, s) = q * s
<1>1. PICK q \in Nat, r \in Nat : r < s /\ c + s - 1 = q * s + r /\ q = (c + s - 1) \div s
  <2>1. c + s - 1 \in Nat
    OBVIOUS
  <2>2. QED
    BY <2>1, Division
<1>2. PICK p \in Nat : n = p * s
  <2>1. PICK p, r_ \in Nat : r_ = n % s /\ n = p * s + r_
    BY Division
  <2>2. p * s \in Nat
    BY Multiples
  <2>3. QED
    BY <2>1, <2>2
<1>3. PICK qs \in Nat, ps \in Nat : qs = q * s /\ ps = p * s
  BY Multiples
<1>4. Target(c, s) = qs
  BY <1>1, <1>3 DEF Target
<1>5. c <= qs
  BY <1>1, <1>3
<1>6. qs <= ps
  <2> SUFFICES ASSUME ps < qs PROVE FALSE
    BY <1>3
  <2>1. p < q
    BY <1>3, Multiples
  <2>2. (p + 1) * s <= q * s
    BY <2>1, Multiples
  <2>3. (p + 1) * s = p * s + 1 * s
    BY Multiples
  <2>4. ps + s <= qs
    BY <1>3, <2>2, <2>3
  <2>5. QED
    BY <1>1, <1>2, <1>3, <2>4
<1>7. QED
  BY <1>2, <1>3, <1>4, <1>5, <1>6

(* What every packer returns: each item in one bin, each bin within the    *)
(* capacity, as many bins for every shard.                                 *)
Spread(bs, n, lens, capacity, s) ==
  Packed(bs, 1 .. n, 1 .. n, lens, capacity) /\ \E q \in Nat : Len(bs) = q * s

(* Bins are added until there are as many for every shard: every item      *)
(* stays in one bin.                                                       *)
LEMMA AdjustedPacked ==
  ASSUME NEW n \in Nat, NEW lens, Measured(lens, 1 .. n), NEW capacity \in Nat,
         HasRoom(1 .. n, lens, capacity), NEW bs, Packed(bs, 1 .. n, 1 .. n, lens, capacity),
         NEW s \in Nat, s > 0, n % s = 0
  PROVE  Spread(Adjusted(bs, s), n, lens, capacity, s)
<1>1. PICK I : I = 1 .. n
  OBVIOUS
<1>2. IsFiniteSet(I) /\ Cardinality(I) = n
  <2>1. 1 \in Int /\ n \in Int
    OBVIOUS
  <2>2. IsFiniteSet(1 .. n) /\ Cardinality(1 .. n) = IF 1 > n THEN 0 ELSE n - 1 + 1
    BY <2>1, FS_Interval
  <2>3. QED
    BY <1>1, <2>2
<1>3. Packed(bs, I, I, lens, capacity) /\ Measured(lens, I) /\ HasRoom(I, lens, capacity)
  BY <1>1
<1>4. PICK m \in Nat : m = Len(bs)
  BY <1>3, BinsShape DEF Packed
<1>5. bs \in Seq(Seq(I)) /\ \A b \in 1 .. m : Len(bs[b]) \in Nat
  BY <1>3, <1>4, BinsShape DEF Packed
<1>6. m <= n
  BY <1>2, <1>3, <1>4, NotMoreBins
<1>7. PICK missing \in Nat, q \in Nat : /\ missing = Target(m, s) - m
                                        /\ m + missing = q * s /\ m + missing <= n
  <2>1. PICK target \in Nat, q \in Nat : target = Target(m, s) /\ m <= target /\ target <= n /\ target = q * s
    BY <1>6, TargetIs, ZenonT(40)
  <2>2. target - m \in Nat /\ m + (target - m) = target
    BY <2>1
  <2>3. QED
    BY <2>1, <2>2
<1>8. PICK sizes, sources : /\ sizes = [b \in DOMAIN bs |-> Len(bs[b])]
                            /\ sources = Descending(DOMAIN bs, sizes)
  OBVIOUS
<1>9. Enumerates(sources, 1 .. m)
  <2>1. DOMAIN bs = 1 .. m
    BY <1>4, <1>5
  <2>2. Measured(sizes, 1 .. m)
    BY <1>5, <1>8, <2>1 DEF Measured
  <2>3. IsFiniteSet(1 .. m) /\ 1 .. m \subseteq Nat
    <3>1. 1 \in Int /\ m \in Int
      OBVIOUS
    <3>2. IsFiniteSet(1 .. m)
      BY <3>1, FS_Interval
    <3>3. QED
      BY <3>2
  <2>4. Enumerates(Descending(1 .. m, sizes), 1 .. m)
    BY <2>2, <2>3, SortedLists
  <2>5. QED
    BY <1>8, <2>1, <2>4
<1>10. PICK L : L = [k \in 1 .. missing |-> k]
  OBVIOUS
<1>11. Adjusted(bs, s) = MoveFolded(bs, L, sources)
  <2>1. Adjusted(bs, s) = MoveFolded(bs, [k \in 1 .. Target(Len(bs), s) - Len(bs) |-> k],
                                     Descending(DOMAIN bs, [b \in DOMAIN bs |-> Len(bs[b])]))
    BY Zenon DEF Adjusted, MoveFolded, MoveStep
  <2>2. L = [k \in 1 .. Target(Len(bs), s) - Len(bs) |-> k]
    BY <1>4, <1>7, <1>10
  <2>3. QED
    BY <1>8, <2>1, <2>2, Zenon
<1>12. PICK V : V = {a \in Seq(Seq(I)) : m <= Len(a)}
  OBVIOUS
<1>13. bs \in V
  BY <1>4, <1>5, <1>12
<1>14. MoveClosed(V, L, missing, sources)
  <2>1. ASSUME NEW a \in V, NEW k \in 1 .. missing PROVE MoveStep(a, L[k], sources) \in V
    <3>1. a \in Seq(Seq(I)) /\ m <= Len(a)
      BY <1>12
    <3>2. PICK j : j = L[k]
      OBVIOUS
    <3>3. MoveStep(a, j, sources) \in Seq(Seq(I)) /\ m <= Len(MoveStep(a, j, sources))
      BY <1>9, <3>1, MoveStepBins
    <3>4. QED
      BY <1>12, <3>2, <3>3
  <2>2. DOMAIN L = 1 .. missing
    BY <1>10
  <2>3. QED
    BY <2>1, <2>2 DEF MoveClosed
<1>15. PICK t : MoveRuns(t, V, bs, L, missing, sources) /\ MoveFolded(bs, L, sources) = t[missing]
  BY <1>13, <1>14, MoveFold
<1>16. PICK W : W = {k \in 0 .. missing : /\ Packed(t[k], I, I, lens, capacity)
                                          /\ Len(t[k]) = m + k /\ Singles(t[k], m)}
  OBVIOUS
<1>17. 0 \in W
  <2>1. t[0] = bs
    BY <1>15 DEF MoveRuns
  <2>2. Singles(bs, m)
    BY <1>4 DEF Singles
  <2>3. Len(t[0]) = m + 0
    BY <1>4, <2>1
  <2>4. QED
    BY <1>3, <1>16, <2>1, <2>2, <2>3
<1>18. ASSUME NEW k \in 0 .. missing - 1, k \in W PROVE k + 1 \in W
  <2>1. PICK old : /\ old = t[k] /\ Packed(old, I, I, lens, capacity)
                   /\ Len(old) = m + k /\ Singles(old, m)
    BY <1>16, <1>18
  <2>2. PICK j : j = L[k + 1]
    OBVIOUS
  <2>3. t[k + 1] = MoveStep(old, j, sources)
    BY <1>15, <2>1, <2>2 DEF MoveRuns
  <2>4. Len(old) < Cardinality(I) /\ m <= Len(old)
    BY <1>2, <1>7, <2>1
  <2>5. /\ Packed(MoveStep(old, j, sources), I, I, lens, capacity)
        /\ Len(MoveStep(old, j, sources)) = Len(old) + 1
        /\ Singles(MoveStep(old, j, sources), m)
    BY <1>2, <1>3, <1>9, <2>1, <2>4, MoveStepPacked
  <2>6. Len(t[k + 1]) = m + (k + 1)
    BY <2>1, <2>3, <2>5
  <2>7. QED
    BY <1>16, <2>3, <2>5, <2>6, SMTT(40)
<1>19. missing \in W
  <2>1. \A k \in 0 .. missing : k \in W
    BY <1>17, <1>18, Upward
  <2>2. QED
    BY <2>1
<1>20. Packed(Adjusted(bs, s), I, I, lens, capacity) /\ Len(Adjusted(bs, s)) = q * s
  BY <1>7, <1>11, <1>15, <1>16, <1>19
<1>21. QED
  BY <1>1, <1>20 DEF Spread

(* Any order of a finite set lists it.                                     *)
LEMMA ShufflesList ==
  ASSUME NEW S, IsFiniteSet(S), NEW L, L \in SetToSeqs(S)
  PROVE  Enumerates(L, S)
<1>1. PICK n \in Nat : n = Cardinality(S)
  BY FS_CardinalityType
<1>2. L \in [1 .. n -> S] /\ \A j, k \in 1 .. n : j # k => L[j] # L[k]
  BY <1>1, Zenon DEF SetToSeqs
<1>3. L \in Seq(S) /\ Len(L) = n
  BY <1>2
<1>4. L \in Injection(1 .. n, S)
  BY <1>2 DEF Injection, IsInjective
<1>5. Cardinality(1 .. n) = n
  <2>1. 1 \in Int /\ n \in Int
    OBVIOUS
  <2>2. Cardinality(1 .. n) = IF 1 > n THEN 0 ELSE n - 1 + 1
    BY <2>1, FS_Interval
  <2>3. QED
    BY <2>2
<1>6. L \in Surjection(1 .. n, S)
  <2>1. Cardinality(1 .. n) = Cardinality(S) <=> L \in Surjection(1 .. n, S)
    BY <1>4, FS_Injection, Zenon
  <2>2. QED
    BY <1>1, <1>5, <2>1
<1>7. \A x \in S : \E k \in 1 .. n : L[k] = x
  BY <1>6 DEF Surjection
<1>8. QED
  BY <1>2, <1>3, <1>7 DEF Enumerates

(* What a packer returns, the number of its bins adjusted to the shards    *)
(* (_adjust_bin_count), holds every sequence once, within the capacity, in *)
(* a multiple of the shards; its error for want of a bin with two never    *)
(* comes.                                                                  *)
THEOREM PackingsPacked ==
  ASSUME NEW algorithm, algorithm \in Algorithms,
         NEW n \in Nat, NEW lens, Measured(lens, 1 .. n), NEW capacity \in Nat,
         HasRoom(1 .. n, lens, capacity), NEW s \in Nat, s > 0, n % s = 0,
         NEW bs, bs \in Packings(algorithm, lens, capacity, s)
  PROVE  Spread(bs, n, lens, capacity, s)
<1>1. PICK I : I = 1 .. n
  OBVIOUS
<1>2. DOMAIN lens = I /\ Measured(lens, I) /\ HasRoom(I, lens, capacity) /\ I \subseteq Nat
  BY <1>1 DEF Measured
<1>3. IsFiniteSet(I)
  <2>1. 1 \in Int /\ n \in Int
    OBVIOUS
  <2>2. IsFiniteSet(1 .. n)
    BY <2>1, FS_Interval
  <2>3. QED
    BY <1>1, <2>2
<1>4. PICK first : Packed(first, I, I, lens, capacity) /\ bs = Adjusted(first, s)
  <2>1. CASE algorithm = "concatenative"
    <3>1. bs = Adjusted(Concatenate(lens, capacity), s)
      BY <2>1 DEF Packings
    <3>2. Packed(Concatenate(lens, capacity), I, I, lens, capacity)
      BY <1>1, ConcatenatePacked
    <3>3. QED
      BY <3>1, <3>2
  <2>2. CASE algorithm = "first_fit_decreasing"
    <3>1. bs = Adjusted(FirstFit(Descending(DOMAIN lens, lens), lens, capacity), s)
      BY <2>2 DEF Packings
    <3>2. Enumerates(Descending(I, lens), I)
      BY <1>2, <1>3, SortedLists
    <3>3. PICK L : L = Descending(I, lens)
      OBVIOUS
    <3>4. Packed(FirstFit(L, lens, capacity), I, I, lens, capacity)
      BY <1>2, <3>2, <3>3, FirstFitPacked
    <3>5. QED
      BY <1>2, <3>1, <3>3, <3>4
  <2>3. CASE algorithm = "first_fit_shuffle"
    <3>1. PICK L : L \in SetToSeqs(I) /\ bs = Adjusted(FirstFit(L, lens, capacity), s)
      BY <1>2, <2>3 DEF Packings
    <3>2. Enumerates(L, I)
      BY <1>3, <3>1, ShufflesList
    <3>3. Packed(FirstFit(L, lens, capacity), I, I, lens, capacity)
      BY <1>2, <3>2, FirstFitPacked
    <3>4. QED
      BY <3>1, <3>3
  <2>4. CASE algorithm = "modified_first_fit_decreasing"
    <3>1. bs = Adjusted(ModifiedFirstFit(lens, capacity), s)
      BY <2>4 DEF Packings
    <3>2. Packed(ModifiedFirstFit(lens, capacity), I, I, lens, capacity)
      BY <1>1, ModifiedFirstFitPacked
    <3>3. QED
      BY <3>1, <3>2
  <2>5. QED
    BY <2>1, <2>2, <2>3, <2>4 DEF Algorithms
<1>5. Packed(first, 1 .. n, 1 .. n, lens, capacity)
  BY <1>1, <1>4
<1>6. Spread(Adjusted(first, s), n, lens, capacity, s)
  BY <1>5, AdjustedPacked
<1>7. QED
  BY <1>4, <1>6

-----------------------------------------------------------------------------
(***************************************************************************)
(* Lists put one behind the other.                                         *)
(***************************************************************************)
(* t[k] is the first k lists of ss in one.                                 *)
Joins(t, ss, n, S) ==
  /\ t \in [0 .. n -> Seq(S)] /\ t[0] = <<>>
  /\ \A k \in 1 .. n : t[k] = t[k - 1] \o ss[k] /\ ss[k] \in Seq(S)

(* The joined lists exist.                                                 *)
LEMMA JoinsIs ==
  ASSUME NEW S, NEW ss, ss \in Seq(Seq(S))
  PROVE  \E t : Joins(t, ss, Len(ss), S)
<1>1. PICK n \in Nat : n = Len(ss)
  OBVIOUS
<1>2. PICK V : V = Seq(S)
  OBVIOUS
<1>3. \A k \in 1 .. n : ss[k] \in Seq(S)
  BY <1>1
<1>4. PICK G : G = [a \in V |-> [k \in 1 .. n |-> a \o ss[k]]]
  OBVIOUS
<1>5. \A a \in V, k \in 1 .. n : G[a][k] = a \o ss[k]
  BY <1>4
<1>6. \A a \in V, k \in 1 .. n : a \o ss[k] \in V
  <2>1. ASSUME NEW a \in V, NEW k \in 1 .. n PROVE a \o ss[k] \in V
    <3>1. a \in Seq(S) /\ ss[k] \in Seq(S)
      BY <1>2, <1>3
    <3>2. PICK b \in Seq(S) : b = ss[k]
      BY <3>1
    <3>3. a \o b \in Seq(S)
      BY <3>1, ConcatProperties
    <3>4. QED
      BY <1>2, <3>2, <3>3
  <2>2. QED
    BY <2>1
<1>7. Steps(G, V, n)
  BY <1>4, <1>6 DEF Steps
<1>8. PICK base : base = <<>> /\ base \in V
  <2>1. <<>> \in Seq(S)
    OBVIOUS
  <2>2. QED
    BY <1>2, <2>1
<1>9. PICK g : Computes(g, V, n, base, G)
  BY <1>7, <1>8, FoldSolved
<1>10. /\ g \in [SUBSET (1 .. n) -> V] /\ g[{}] = base
       /\ \A s \in SUBSET (1 .. n) : s # {} => g[s] = G[g[s \ {Max(s)}]][Max(s)]
  BY <1>9 DEF Computes
<1>11. PICK t : t = [k \in 0 .. n |-> g[1 .. k]]
  OBVIOUS
<1>12. \A k \in 0 .. n : t[k] \in V /\ t[k] = g[1 .. k]
  <2>1. \A k \in 0 .. n : 1 .. k \in SUBSET (1 .. n)
    OBVIOUS
  <2>2. QED
    BY <1>10, <1>11, <2>1
<1>13. t[0] = <<>>
  <2>1. 1 .. 0 = {}
    OBVIOUS
  <2>2. t[0] = g[1 .. 0]
    BY <1>12
  <2>3. QED
    BY <1>8, <1>10, <2>1, <2>2
<1>14. ASSUME NEW k \in 1 .. n PROVE t[k] = t[k - 1] \o ss[k]
  <2>1. k \in Nat /\ k > 0 /\ k - 1 \in 0 .. n /\ k \in 0 .. n
    OBVIOUS
  <2>2. Max(1 .. k) = k
    BY <2>1, TopOfAll
  <2>3. 1 .. k \in SUBSET (1 .. n) /\ 1 .. k # {} /\ (1 .. k) \ {k} = 1 .. (k - 1)
    <3>1. 1 .. k \in SUBSET (1 .. n)
      OBVIOUS
    <3>2. k \in 1 .. k
      BY <2>1
    <3>3. \A x : x \in (1 .. k) \ {k} <=> x \in 1 .. (k - 1)
      BY <2>1
    <3>4. QED
      BY <3>1, <3>2, <3>3
  <2>4. g[1 .. k] = G[g[1 .. (k - 1)]][k]
    BY <1>10, <2>2, <2>3
  <2>5. PICK a \in V : a = t[k - 1] /\ a = g[1 .. (k - 1)]
    BY <1>12, <2>1
  <2>6. g[1 .. k] = a \o ss[k]
    BY <1>5, <2>4, <2>5
  <2>7. t[k] = g[1 .. k]
    BY <1>12, <2>1
  <2>8. QED
    BY <2>5, <2>6, <2>7
<1>15. t \in [0 .. n -> Seq(S)]
  BY <1>2, <1>11, <1>12
<1>16. QED
  BY <1>1, <1>3, <1>13, <1>14, <1>15 DEF Joins

(* FlattenSeq is the last of them.                                         *)
LEMMA Flat ==
  ASSUME NEW S, NEW ss, ss \in Seq(Seq(S)), NEW t, Joins(t, ss, Len(ss), S)
  PROVE  FlattenSeq(ss) = t[Len(ss)] /\ FlattenSeq(ss) \in Seq(S)
<1>1. PICK n \in Nat : n = Len(ss)
  OBVIOUS
<1>2. /\ t \in [0 .. n -> Seq(S)] /\ t[0] = <<>>
      /\ \A k \in 1 .. n : t[k] = t[k - 1] \o ss[k]
  BY <1>1 DEF Joins
<1>3. t[n] \in Seq(S)
  BY <1>2
<1>4. CASE n = 0
  <2>1. ss = <<>>
    <3>1. PICK U : U = Seq(S)
      OBVIOUS
    <3>2. ss \in Seq(U) /\ Len(ss) = 0
      BY <1>1, <1>4, <3>1
    <3>3. QED
      BY <3>2, EmptySeq
  <2>2. FlattenSeq(ss) = ss
    BY <1>1, <1>4 DEF FlattenSeq
  <2>3. QED
    BY <1>1, <1>2, <1>3, <1>4, <2>1, <2>2
<1>5. CASE n # 0
  <2>1. PICK f : f = CHOOSE h : h = [i \in 1 .. Len(ss) |-> IF i = 1 THEN ss[i] ELSE h[i - 1] \o ss[i]]
    OBVIOUS
  <2>2. FlattenSeq(ss) = f[Len(ss)]
    BY <1>1, <1>5, <2>1, Zenon DEF FlattenSeq
  <2>3. PICK h : h = [i \in 1 .. n |-> t[i]]
    OBVIOUS
  <2>4. \A i \in 1 .. n : h[i] = IF i = 1 THEN ss[i] ELSE h[i - 1] \o ss[i]
    <3> SUFFICES ASSUME NEW i \in 1 .. n PROVE h[i] = IF i = 1 THEN ss[i] ELSE h[i - 1] \o ss[i]
      OBVIOUS
    <3>1. h[i] = t[i - 1] \o ss[i]
      BY <1>2, <2>3
    <3>2. CASE i = 1
      <4>1. PICK one \in Seq(S) : one = ss[i]
        BY <1>1
      <4>2. <<>> \o one = one
        BY ConcatEmptySeq
      <4>3. t[i - 1] = <<>>
        BY <1>2, <3>2
      <4>4. QED
        BY <3>1, <3>2, <4>1, <4>2, <4>3
    <3>3. CASE i # 1
      <4>1. i - 1 \in 1 .. n
        BY <3>3
      <4>2. h[i - 1] = t[i - 1]
        BY <2>3, <4>1
      <4>3. QED
        BY <3>1, <3>3, <4>2
    <3>4. QED
      BY <3>2, <3>3
  <2>5. h = [i \in 1 .. Len(ss) |-> IF i = 1 THEN ss[i] ELSE h[i - 1] \o ss[i]]
    <3>1. h = [i \in 1 .. n |-> h[i]]
      BY <2>3
    <3>2. [i \in 1 .. n |-> h[i]] = [i \in 1 .. n |-> IF i = 1 THEN ss[i] ELSE h[i - 1] \o ss[i]]
      BY <2>4, Zenon
    <3>3. QED
      BY <1>1, <3>1, <3>2, Zenon
  <2>6. f = [i \in 1 .. Len(ss) |-> IF i = 1 THEN ss[i] ELSE f[i - 1] \o ss[i]]
    BY <2>1, <2>5, Zenon
  <2>7. \A i \in 1 .. n : f[i] = IF i = 1 THEN ss[i] ELSE f[i - 1] \o ss[i]
    BY <1>1, <2>6, Zenon
  <2>8. PICK W : W = {k \in 0 .. n : k = 0 \/ f[k] = h[k]}
    OBVIOUS
  <2>9. 0 \in W
    BY <2>8
  <2>10. ASSUME NEW k \in 0 .. n - 1, k \in W PROVE k + 1 \in W
    <3>1. k + 1 \in 1 .. n /\ (k + 1) - 1 = k /\ k + 1 \in 0 .. n
      OBVIOUS
    <3>2. CASE k = 0
      <4>1. k + 1 = 1
        BY <3>2
      <4>2. f[k + 1] = h[k + 1]
        BY <2>4, <2>7, <3>1, <4>1
      <4>3. QED
        BY <2>8, <3>1, <4>2
    <3>3. CASE k # 0
      <4>1. f[k] = h[k] /\ k + 1 # 1
        BY <2>8, <2>10, <3>3
      <4>2. f[k + 1] = f[k] \o ss[k + 1] /\ h[k + 1] = h[k] \o ss[k + 1]
        BY <2>4, <2>7, <3>1, <4>1
      <4>3. f[k + 1] = h[k + 1]
        BY <4>1, <4>2, Zenon
      <4>4. QED
        BY <2>8, <3>1, <4>3
    <3>4. QED
      BY <3>2, <3>3
  <2>11. \A k \in 0 .. n : k \in W
    BY <2>9, <2>10, Upward
  <2>12. f[n] = h[n]
    BY <1>5, <2>8, <2>11
  <2>13. h[n] = t[n]
    BY <1>5, <2>3
  <2>14. QED
    BY <1>1, <1>3, <2>2, <2>12, <2>13
<1>6. QED
  BY <1>4, <1>5

(* A function on the first n numbers is a list. *)
LEMMA ListMade ==
  ASSUME NEW S, NEW n \in Nat, NEW f, f \in [1 .. n -> S]
  PROVE  f \in Seq(S) /\ Len(f) = n /\ DOMAIN f = 1 .. n
OBVIOUS

(* A list of n lists; a list that begins with the n of another; a list     *)
(* that goes on from there with the m of another.                          *)
Lists(f, n, S) == f \in [1 .. n -> Seq(S)]
Begins(g, f, n) == \A k \in 1 .. n : g[k] = f[k]
GoesOn(g, h, n, m) == \A k \in 1 .. m : g[n + k] = h[k]
FlatIs(g, f, last) == FlattenSeq(g) = FlattenSeq(f) \o last
FlatAre(g, f, h) == FlattenSeq(g) = FlattenSeq(f) \o FlattenSeq(h)

(* What FlattenSeq makes of no lists, and of one list more.                *)
LEMMA FlatNone == FlattenSeq(<<>>) = <<>>
<1>1. Len(<<>>) = 0
  OBVIOUS
<1>2. QED
  BY <1>1 DEF FlattenSeq

LEMMA FlatNext ==
  ASSUME NEW S, NEW n \in Nat, NEW f, Lists(f, n, S), NEW g, Lists(g, n + 1, S), Begins(g, f, n)
  PROVE  /\ FlattenSeq(f) \in Seq(S) /\ FlattenSeq(g) \in Seq(S)
         /\ FlatIs(g, f, g[n + 1])
<1> USE DEF Lists, Begins
<1>1. PICK V : V = Seq(S)
  OBVIOUS
<1>2. f \in Seq(V) /\ Len(f) = n /\ g \in Seq(V) /\ Len(g) = n + 1
  BY <1>1
<1>3. PICK t : Joins(t, g, n + 1, S)
  BY <1>1, <1>2, JoinsIs
<1>4. /\ t \in [0 .. n + 1 -> V] /\ t[0] = <<>>
      /\ \A k \in 1 .. n + 1 : t[k] = t[k - 1] \o g[k] /\ g[k] \in V
  BY <1>1, <1>3, Zenon DEF Joins
<1>5. PICK u : u = [k \in 0 .. n |-> t[k]]
  OBVIOUS
<1>6. u \in [0 .. n -> V] /\ u[0] = <<>> /\ u[n] = t[n]
  BY <1>4, <1>5
<1>7. ASSUME NEW k \in 1 .. n PROVE u[k] = u[k - 1] \o f[k] /\ f[k] \in V
  <2>1. k - 1 \in 0 .. n /\ k \in 0 .. n /\ k \in 1 .. n + 1
    OBVIOUS
  <2>2. u[k] = t[k] /\ u[k - 1] = t[k - 1]
    BY <1>5, <2>1
  <2>3. t[k] = t[k - 1] \o g[k] /\ g[k] \in V
    BY <1>4, <2>1
  <2>4. QED
    BY <2>2, <2>3
<1>8. Joins(u, f, n, S)
  BY <1>1, <1>6, <1>7, Zenon DEF Joins
<1>9. FlattenSeq(g) = t[n + 1] /\ FlattenSeq(g) \in Seq(S)
  BY <1>1, <1>2, <1>3, Flat
<1>10. FlattenSeq(f) = u[n] /\ FlattenSeq(f) \in Seq(S)
  BY <1>1, <1>2, <1>8, Flat
<1>11. t[n + 1] = t[n] \o g[n + 1]
  <2>1. n + 1 \in 1 .. n + 1 /\ (n + 1) - 1 = n
    OBVIOUS
  <2>2. QED
    BY <1>4, <2>1, Zenon
<1>12. FlattenSeq(g) = FlattenSeq(f) \o g[n + 1]
  BY <1>6, <1>9, <1>10, <1>11
<1>13. QED
  BY <1>9, <1>10, <1>12, Zenon DEF FlatIs

(* What it makes of any lists.                                             *)
LEMMA FlatTyped ==
  ASSUME NEW S, NEW n \in Nat, NEW f, Lists(f, n, S)
  PROVE  FlattenSeq(f) \in Seq(S)
<1>1. PICK g : g = [k \in 1 .. n + 1 |-> IF k \in 1 .. n THEN f[k] ELSE <<>>]
  OBVIOUS
<1>2. <<>> \in Seq(S)
  OBVIOUS
<1>3. g \in [1 .. n + 1 -> Seq(S)] /\ \A k \in 1 .. n : g[k] = f[k]
  BY <1>1, <1>2 DEF Lists
<1>4. Lists(g, n + 1, S) /\ Begins(g, f, n)
  BY <1>3 DEF Lists, Begins
<1>5. QED
  BY <1>4, FlatNext

(* And of the lists of two lists.                                          *)
LEMMA FlatBoth ==
  ASSUME NEW S, NEW n \in Nat, NEW f, Lists(f, n, S), NEW m \in Nat, NEW h, Lists(h, m, S),
         NEW g, Lists(g, n + m, S), Begins(g, f, n), GoesOn(g, h, n, m)
  PROVE  FlatAre(g, f, h)
<1>0. /\ f \in [1 .. n -> Seq(S)] /\ h \in [1 .. m -> Seq(S)] /\ g \in [1 .. n + m -> Seq(S)]
      /\ \A k \in 1 .. n : g[k] = f[k]
      /\ \A k \in 1 .. m : g[n + k] = h[k]
  BY DEF Lists, Begins, GoesOn
<1>1. PICK G : G = [k \in 0 .. m |-> [i \in 1 .. n + k |-> g[i]]]
  OBVIOUS
<1>2. PICK H : H = [k \in 0 .. m |-> [i \in 1 .. k |-> h[i]]]
  OBVIOUS
<1>3. \A k \in 0 .. m : G[k] \in [1 .. n + k -> Seq(S)] /\ \A i \in 1 .. n + k : G[k][i] = g[i]
  BY <1>0, <1>1
<1>4. \A k \in 0 .. m : H[k] \in [1 .. k -> Seq(S)] /\ \A i \in 1 .. k : H[k][i] = h[i]
  BY <1>0, <1>2
<1>5. PICK W : W = {k \in 0 .. m : FlattenSeq(G[k]) = FlattenSeq(f) \o FlattenSeq(H[k])}
  OBVIOUS
<1>6. 0 \in W
  <2>1. H[0] = <<>>
    <3>1. H[0] \in [1 .. 0 -> Seq(S)]
      BY <1>4
    <3>2. QED
      BY <3>1
  <2>2. G[0] = f
    <3>1. 0 \in 0 .. m /\ n + 0 = n
      OBVIOUS
    <3>2. G[0] \in [1 .. n -> Seq(S)] /\ \A i \in 1 .. n : G[0][i] = g[i]
      BY <1>3, <3>1
    <3>3. PICK a : a = G[0]
      OBVIOUS
    <3>4. a = [i \in 1 .. n |-> a[i]] /\ f = [i \in 1 .. n |-> f[i]] /\ \A i \in 1 .. n : a[i] = f[i]
      BY <1>0, <3>2, <3>3
    <3>5. a = f
      BY <3>4
    <3>6. QED
      BY <3>3, <3>5
  <2>3. FlattenSeq(f) \o <<>> = FlattenSeq(f)
    <3>1. FlattenSeq(f) \in Seq(S)
      BY FlatTyped
    <3>2. QED
      BY <3>1, ConcatEmptySeq
  <2>4. FlattenSeq(G[0]) = FlattenSeq(f) \o FlattenSeq(H[0])
    BY <2>1, <2>2, <2>3, FlatNone, Zenon
  <2>5. QED
    BY <1>5, <2>4
<1>7. ASSUME NEW k \in 0 .. m - 1, k \in W PROVE k + 1 \in W
  <2>1. k \in Nat /\ k \in 0 .. m /\ k + 1 \in 0 .. m /\ n + k \in Nat /\ k + 1 \in 1 .. m
    OBVIOUS
  <2>2. n + (k + 1) = (n + k) + 1
    OBVIOUS
  <2>3. /\ FlattenSeq(G[k + 1]) = FlattenSeq(G[k]) \o G[k + 1][(n + k) + 1]
    <3>1. G[k] \in [1 .. n + k -> Seq(S)] /\ G[k + 1] \in [1 .. (n + k) + 1 -> Seq(S)]
      BY <1>3, <2>1, <2>2
    <3>2. \A i \in 1 .. n + k : G[k + 1][i] = G[k][i]
      <4>1. \A i \in 1 .. n + k : i \in 1 .. n + (k + 1)
        OBVIOUS
      <4>2. QED
        BY <1>3, <2>1, <4>1
    <3>3. PICK a : a = G[k]
      OBVIOUS
    <3>4. PICK b : b = G[k + 1]
      OBVIOUS
    <3>5. PICK j \in Nat : j = n + k
      BY <2>1
    <3>6. Lists(a, j, S) /\ Lists(b, j + 1, S) /\ Begins(b, a, j)
      BY <3>1, <3>2, <3>3, <3>4, <3>5 DEF Lists, Begins
    <3>7. FlatIs(b, a, b[j + 1])
      BY <3>5, <3>6, FlatNext
    <3>8. FlattenSeq(b) = FlattenSeq(a) \o b[j + 1]
      BY <3>7, Zenon DEF FlatIs
    <3>9. QED
      BY <3>3, <3>4, <3>5, <3>8
  <2>4. /\ FlattenSeq(H[k]) \in Seq(S)
        /\ FlattenSeq(H[k + 1]) = FlattenSeq(H[k]) \o H[k + 1][k + 1]
    <3>1. H[k] \in [1 .. k -> Seq(S)] /\ H[k + 1] \in [1 .. k + 1 -> Seq(S)]
      BY <1>4, <2>1
    <3>2. \A i \in 1 .. k : H[k + 1][i] = H[k][i]
      <4>1. \A i \in 1 .. k : i \in 1 .. k + 1
        OBVIOUS
      <4>2. QED
        BY <1>4, <2>1, <4>1
    <3>3. PICK a : a = H[k]
      OBVIOUS
    <3>4. PICK b : b = H[k + 1]
      OBVIOUS
    <3>5. Lists(a, k, S) /\ Lists(b, k + 1, S) /\ Begins(b, a, k)
      BY <3>1, <3>2, <3>3, <3>4 DEF Lists, Begins
    <3>6. FlattenSeq(a) \in Seq(S) /\ FlatIs(b, a, b[k + 1])
      BY <2>1, <3>5, FlatNext
    <3>7. FlattenSeq(b) = FlattenSeq(a) \o b[k + 1]
      BY <3>6, Zenon DEF FlatIs
    <3>8. QED
      BY <3>3, <3>4, <3>6, <3>7
  <2>5. G[k + 1][(n + k) + 1] = h[k + 1] /\ H[k + 1][k + 1] = h[k + 1]
    <3>1. (n + k) + 1 \in 1 .. n + (k + 1) /\ n + (k + 1) = (n + k) + 1 /\ k + 1 \in 1 .. k + 1
      OBVIOUS
    <3>2. G[k + 1][(n + k) + 1] = g[(n + k) + 1]
      BY <1>3, <2>1, <3>1
    <3>3. g[n + (k + 1)] = h[k + 1]
      BY <1>0, <2>1
    <3>4. H[k + 1][k + 1] = h[k + 1]
      BY <1>4, <2>1, <3>1
    <3>5. QED
      BY <3>1, <3>2, <3>3, <3>4
  <2>6. FlattenSeq(f) \in Seq(S) /\ h[k + 1] \in Seq(S)
    BY <1>0, <2>1, FlatTyped
  <2>7. (FlattenSeq(f) \o FlattenSeq(H[k])) \o h[k + 1] = FlattenSeq(f) \o (FlattenSeq(H[k]) \o h[k + 1])
    <3>1. PICK a \in Seq(S), b \in Seq(S), c \in Seq(S) : a = FlattenSeq(f) /\ b = FlattenSeq(H[k]) /\ c = h[k + 1]
      BY <2>4, <2>6
    <3>2. (a \o b) \o c = a \o (b \o c)
      BY ConcatAssociative
    <3>3. QED
      BY <3>1, <3>2
  <2>8. FlattenSeq(G[k]) = FlattenSeq(f) \o FlattenSeq(H[k])
    BY <1>5, <1>7
  <2>9. QED
    BY <1>5, <2>1, <2>3, <2>4, <2>5, <2>7, <2>8
<1>8. m \in W
  <2>1. \A k \in 0 .. m : k \in W
    BY <1>6, <1>7, Upward
  <2>2. QED
    BY <2>1
<1>9. G[m] = g /\ H[m] = h
  <2>1. m \in 0 .. m
    OBVIOUS
  <2>2. QED
    BY <1>0, <1>1, <1>2, <2>1
<1>10. FlattenSeq(g) = FlattenSeq(f) \o FlattenSeq(h)
  BY <1>5, <1>8, <1>9
<1>11. QED
  BY <1>10, Zenon DEF FlatAre

-----------------------------------------------------------------------------
(***************************************************************************)
(* What the shards of a batch have in common.                              *)
(***************************************************************************)
LEMMA OneLess ==
  ASSUME NEW n \in Nat, NEW b, b \in 1 .. n
  PROVE  \E a \in Nat : a = b - 1 /\ a < n
<1>1. b - 1 \in Nat /\ b - 1 < n
  OBVIOUS
<1>2. QED
  BY <1>1

BinsAt(bs, s, m, q) == BinsOf(bs, s, m) = [k \in 1 .. q |-> bs[(k - 1) * m + s]]

(* The bins of a shard: every m-th.                                        *)
LEMMA BinsOfEach ==
  ASSUME NEW q \in Nat, NEW m \in Nat, m > 0, NEW bs, DOMAIN bs = 1 .. q * m, NEW s \in 1 .. m
  PROVE  /\ DOMAIN BinsOf(bs, s, m) = 1 .. q
         /\ BinsAt(bs, s, m, q)
<1>1. PICK B : B = {b \in DOMAIN bs : (b - 1) % m = s - 1}
  OBVIOUS
<1>2. \A k \in 1 .. q : (k - 1) * m + s \in B
  <2> SUFFICES ASSUME NEW k \in 1 .. q PROVE (k - 1) * m + s \in B
    OBVIOUS
  <2>1. k - 1 \in Nat /\ s - 1 \in Nat /\ s - 1 < m /\ k - 1 < q
    OBVIOUS
  <2>2. PICK j \in Nat, r \in Nat : j = k - 1 /\ r = s - 1 /\ r < m /\ j < q
    BY <2>1
  <2>3. (j * m + r) % m = r
    BY <2>2, DivisionIs
  <2>4. (j + 1) * m <= q * m /\ (j + 1) * m = j * m + 1 * m
    BY <2>2, Multiples
  <2>5. PICK jm \in Nat, qm \in Nat : jm = j * m /\ qm = q * m
    BY Multiples
  <2>6. jm + m <= qm
    BY <2>4, <2>5
  <2>7. jm + s \in 1 .. qm
    BY <2>2, <2>5, <2>6
  <2>8. (jm + s) - 1 = jm + r
    BY <2>2
  <2>9. ((jm + s) - 1) % m = s - 1
    BY <2>2, <2>3, <2>5, <2>8
  <2>10. jm + s \in B
    BY <1>1, <2>5, <2>7, <2>9
  <2>11. (k - 1) * m + s = jm + s
    BY <2>2, <2>5
  <2>12. QED
    BY <2>10, <2>11
<1>3. \A b \in B : \E k \in 1 .. q : b = (k - 1) * m + s
  <2> SUFFICES ASSUME NEW b \in B PROVE \E k \in 1 .. q : b = (k - 1) * m + s
    OBVIOUS
  <2>1. b \in 1 .. q * m /\ (b - 1) % m = s - 1
    BY <1>1
  <2>2. PICK qm \in Nat : qm = q * m
    BY Multiples
  <2>3. PICK a \in Nat : a = b - 1 /\ a < qm
    <3>1. b \in 1 .. qm
      BY <2>1, <2>2, Zenon
    <3>2. QED
      BY <3>1, OneLess
  <2>4. PICK j, r \in Nat : j = a \div m /\ r = a % m /\ r < m /\ a = j * m + r
    BY Division, Zenon
  <2>5. r = s - 1
    BY <2>1, <2>3, <2>4
  <2>6. PICK jm \in Nat : jm = j * m
    BY Multiples
  <2>7. jm < qm
    BY <2>3, <2>4, <2>6
  <2>8. j < q
    BY <2>2, <2>6, <2>7, Multiples
  <2>9. b = jm + s
    BY <2>1, <2>2, <2>3, <2>4, <2>5, <2>6
  <2>10. j + 1 \in 1 .. q /\ (j + 1) - 1 = j
    BY <2>8
  <2>11. b = ((j + 1) - 1) * m + s
    BY <2>6, <2>9, <2>10
  <2>12. QED
    BY <2>10, <2>11
<1>4. PICK f : f = [k \in 1 .. q |-> (k - 1) * m + s]
  OBVIOUS
<1>5. f \in [1 .. q -> B] /\ \A b \in B : \E k \in 1 .. q : f[k] = b
  BY <1>2, <1>3, <1>4
<1>6. \A j, k \in 1 .. q : f[j] = f[k] => j = k
  <2> SUFFICES ASSUME NEW j \in 1 .. q, NEW k \in 1 .. q, f[j] = f[k] PROVE j = k
    OBVIOUS
  <2>1. PICK x \in Nat, y \in Nat : x = j - 1 /\ y = k - 1
    OBVIOUS
  <2>2. PICK xm \in Nat, ym \in Nat : xm = x * m /\ ym = y * m
    BY Multiples
  <2>3. xm = ym
    BY <1>4, <2>1, <2>2
  <2>4. (xm + 0) \div m = x /\ (ym + 0) \div m = y
    <3>1. (x * m + 0) \div m = x
      BY DivisionIs
    <3>2. (y * m + 0) \div m = y
      BY DivisionIs
    <3>3. QED
      BY <2>2, <3>1, <3>2
  <2>5. x = y
    BY <2>3, <2>4
  <2>6. QED
    BY <2>1, <2>5
<1>7. ExistsBijection(1 .. q, B)
  BY <1>5, <1>6 DEF ExistsBijection, Bijection, Injection, Surjection, IsInjective
<1>8. Cardinality(B) = q
  BY <1>7, FS_CountingElements
<1>9. BinsOf(bs, s, m) = [k \in 1 .. q |-> bs[(k - 1) * m + s]]
  BY <1>1, <1>8, Zenon DEF BinsOf
<1>10. DOMAIN BinsOf(bs, s, m) = 1 .. q
  BY <1>9
<1>11. QED
  BY <1>9, <1>10, Zenon DEF BinsAt

-----------------------------------------------------------------------------
(***************************************************************************)
(* The microbatches of a shard's part of a global batch.                   *)
(***************************************************************************)
LEMMA RoundUpIs ==
  ASSUME NEW n \in Nat, NEW m \in Nat, m > 0
  PROVE  RoundUp(n, m) \in Nat /\ n <= RoundUp(n, m)
<1>1. n + m - 1 \in Nat
  OBVIOUS
<1>2. PICK q, r \in Nat : q = (n + m - 1) \div m /\ r < m /\ n + m - 1 = q * m + r
  BY <1>1, Division
<1>3. PICK qm \in Nat : qm = q * m
  BY Multiples
<1>4. RoundUp(n, m) = qm
  BY <1>2, <1>3 DEF RoundUp
<1>5. n <= qm
  BY <1>2, <1>3
<1>6. QED
  BY <1>4, <1>5

(* The largest of finitely many numbers.                                   *)
LEMMA LargestOf ==
  ASSUME NEW n \in Nat, n > 0, NEW f, Numbers(f, n)
  PROVE  \E x : /\ x = Max({f[k] : k \in 1 .. n}) /\ x \in Nat
                /\ \A k \in 1 .. n : f[k] <= x
                /\ \E k \in 1 .. n : f[k] = x
<1>1. \A k \in 1 .. n : f[k] \in Nat
  BY DEF Numbers
<1>2. PICK W : W = {k \in 0 .. n : \E b \in Nat : \A j \in 1 .. k : f[j] <= b}
  OBVIOUS
<1>3. 0 \in W
  BY <1>2
<1>4. ASSUME NEW k \in 0 .. n - 1, k \in W PROVE k + 1 \in W
  <2>1. PICK b \in Nat : \A j \in 1 .. k : f[j] <= b
    BY <1>2, <1>4
  <2>2. PICK c \in Nat : c = f[k + 1]
    BY <1>1
  <2>3. b + c \in Nat /\ \A j \in 1 .. k + 1 : f[j] <= b + c
    <3>1. \A j \in 1 .. k + 1 : j \in 1 .. k \/ j = k + 1
      OBVIOUS
    <3>2. \A j \in 1 .. k : f[j] \in Nat
      BY <1>1
    <3>3. QED
      BY <2>1, <2>2, <3>1, <3>2
  <2>4. QED
    BY <1>2, <2>3
<1>5. n \in W
  <2>1. \A k \in 0 .. n : k \in W
    BY <1>3, <1>4, Upward
  <2>2. QED
    BY <2>1
<1>6. PICK b \in Nat : \A j \in 1 .. n : f[j] <= b
  BY <1>2, <1>5
<1>7. PICK S : S = {f[k] : k \in 1 .. n}
  OBVIOUS
<1>8. S \subseteq 0 .. b
  BY <1>1, <1>6, <1>7
<1>9. f[1] \in S
  BY <1>7
<1>10. Max(S) \in S /\ \A x \in S : x <= Max(S)
  BY <1>8, <1>9, GreatestOf
<1>11. PICK x : x = Max(S)
  OBVIOUS
<1>12. x \in S /\ \A y \in S : y <= x
  BY <1>10, <1>11, Zenon
<1>13. x \in Nat
  BY <1>8, <1>12
<1>14. \A k \in 1 .. n : f[k] <= x
  BY <1>7, <1>12
<1>15. \E k \in 1 .. n : f[k] = x
  BY <1>7, <1>12
<1>16. QED
  BY <1>7, <1>11, <1>13, <1>14, <1>15

(* The greater and the less of two numbers.                                *)
LEMMA OfTwo ==
  ASSUME NEW a \in Nat, NEW b \in Nat
  PROVE  /\ Max({a, b}) \in Nat /\ a <= Max({a, b}) /\ b <= Max({a, b})
         /\ Max({a, b}) = a \/ Max({a, b}) = b
         /\ Min({a, b}) \in Nat /\ Min({a, b}) <= a /\ Min({a, b}) <= b
         /\ Min({a, b}) = a \/ Min({a, b}) = b
<1>1. PICK S : S = {a, b}
  OBVIOUS
<1>2. S \subseteq Nat /\ S # {} /\ a \in S /\ b \in S /\ \A x \in S : x = a \/ x = b
  BY <1>1
<1>3. Min(S) \in S /\ \A x \in S : Min(S) <= x
  BY <1>2, LeastOf
<1>4. S \subseteq 0 .. a + b
  BY <1>1
<1>5. PICK n \in Nat : n = a + b
  OBVIOUS
<1>6. S \subseteq 0 .. n /\ S # {}
  BY <1>2, <1>4, <1>5
<1>7. Max(S) \in S /\ \A x \in S : x <= Max(S)
  BY <1>6, GreatestOf
<1>8. PICK x, y : x = Max(S) /\ y = Min(S)
  OBVIOUS
<1>9. x \in Nat /\ a <= x /\ b <= x /\ (x = a \/ x = b)
  BY <1>2, <1>7, <1>8
<1>10. y \in Nat /\ y <= a /\ y <= b /\ (y = a \/ y = b)
  BY <1>2, <1>3, <1>8
<1>11. QED
  BY <1>1, <1>8, <1>9, <1>10, Zenon

(* Rows of a batch of rows 1 .. N, as many in every list.                  *)
Grid(parts, m, n, N) ==
  DOMAIN parts = 1 .. m /\ \A s \in 1 .. m, k \in 1 .. n : parts[s][k] \in 1 .. N
Wide(w, parts, k, lens, m) == \A s \in 1 .. m : lens[parts[s][k]] <= w

(* The width of a row covers that row of every shard, in the budget.       *)
LEMMA WidthIs ==
  ASSUME NEW m \in Nat, m > 0, NEW n, NEW N \in Nat, N > 0, NEW parts, Grid(parts, m, n, N),
         NEW lens, Measured(lens, 1 .. N), NEW round \in Nat, round > 0,
         NEW k \in 1 .. n, NEW budget, DynamicFits(lens, round, budget)
  PROVE  /\ Width(parts, k, lens, round) \in Nat
         /\ Width(parts, k, lens, round) <= budget
         /\ Wide(Width(parts, k, lens, round), parts, k, lens, m)
<1>1. \A i \in 1 .. N : lens[i] \in Nat
  BY DEF Measured
<1>2. DOMAIN lens = 1 .. N /\ DOMAIN parts = 1 .. m
  BY DEF Measured, Grid
<1>3. \A s \in 1 .. m : parts[s][k] \in 1 .. N
  BY DEF Grid
<1>4. PICK f : f = [s \in 1 .. m |-> lens[parts[s][k]]]
  OBVIOUS
<1>5. Numbers(f, m)
  BY <1>1, <1>3, <1>4 DEF Numbers
<1>6. PICK x \in Nat : /\ x = Max({f[s] : s \in 1 .. m}) /\ \A s \in 1 .. m : f[s] <= x
                       /\ \E s \in 1 .. m : f[s] = x
  BY <1>5, LargestOf
<1>7. {f[s] : s \in 1 .. m} = {lens[parts[s][k]] : s \in DOMAIN parts}
  BY <1>2, <1>4
<1>8. Numbers(lens, N)
  BY <1>1, <1>2 DEF Numbers, Measured
<1>9. PICK y \in Nat : y = Max({lens[i] : i \in 1 .. N}) /\ \A i \in 1 .. N : lens[i] <= y
  BY <1>8, LargestOf
<1>10. Range(lens) = {lens[i] : i \in 1 .. N}
  BY <1>2 DEF Range
<1>11. PICK u \in Nat : u = RoundUp(x, round) /\ x <= u
  BY RoundUpIs
<1>12. PICK w : w = Width(parts, k, lens, round)
  OBVIOUS
<1>13. w = Min({u, y})
  <2>1. Width(parts, k, lens, round)
          = Min({RoundUp(Max({lens[parts[s][k]] : s \in DOMAIN parts}), round), Max(Range(lens))})
    BY Zenon DEF Width
  <2>2. QED
    BY <1>6, <1>7, <1>9, <1>10, <1>11, <1>12, <2>1, Zenon
<1>14. w \in Nat /\ (w = u \/ w = y)
  BY <1>13, OfTwo
<1>15. PICK i \in 1 .. N : lens[i] = x
  BY <1>3, <1>4, <1>6
<1>16. x <= y
  BY <1>9, <1>15
<1>17. x <= w
  BY <1>11, <1>14, <1>16
<1>18. w <= budget
  <2>1. Min({RoundUp(lens[i], round), Max(Range(lens))}) <= budget
    BY <1>2, <1>15 DEF DynamicFits
  <2>2. QED
    BY <1>9, <1>10, <1>11, <1>13, <1>15, <2>1, Zenon
<1>19. \A s \in 1 .. m : lens[parts[s][k]] <= w
  <2>1. \A s \in 1 .. m : lens[parts[s][k]] \in Nat /\ lens[parts[s][k]] <= x
    BY <1>1, <1>3, <1>4, <1>6
  <2>2. QED
    BY <1>14, <1>17, <2>1
<1>20. QED
  BY <1>12, <1>14, <1>18, <1>19 DEF Wide

-----------------------------------------------------------------------------
(* Microbatches as a list of bounds: they cut the places 1 .. n.           *)
Bound == [from : Nat, to : Nat, width : Nat]
From(micro, k) == micro[k].from
To(micro, k) == micro[k].to
Breadth(micro, k) == micro[k].width
Tiles(micro, l, n) ==
  /\ l \in Nat /\ l > 0 /\ micro \in Seq(Bound) /\ Len(micro) = l
  /\ From(micro, 1) = 1 /\ To(micro, l) = n
  /\ \A k \in 1 .. l : From(micro, k) <= To(micro, k) + 1
  /\ \A k \in 1 .. l - 1 : From(micro, k + 1) = To(micro, k) + 1
Tiled(micro, n) == \E l : Tiles(micro, l, n)

(* A microbatch of rows f .. t is as wide as they are, and in the budget.  *)
Covers(parts, m, lens, f, t, w) == \A s \in 1 .. m, x \in f .. t : lens[parts[s][x]] <= w
Within(f, t, w, budget) == (t - f + 1) * w <= budget
Fitting(micro, parts, m, lens, budget) ==
  \A k \in 1 .. Len(micro) :
    /\ Covers(parts, m, lens, From(micro, k), To(micro, k), Breadth(micro, k))
    /\ Within(From(micro, k), To(micro, k), Breadth(micro, k), budget)

(* The bounds of a microbatch are numbers.                                 *)
LEMMA TilesParts ==
  ASSUME NEW micro, NEW l, NEW n, Tiles(micro, l, n)
  PROVE  /\ l \in Nat /\ l > 0 /\ micro \in Seq(Bound) /\ Len(micro) = l /\ DOMAIN micro = 1 .. l
         /\ \A k \in 1 .. l : /\ micro[k] \in Bound /\ From(micro, k) \in Nat
                             /\ To(micro, k) \in Nat /\ Breadth(micro, k) \in Nat
<1>1. l \in Nat /\ l > 0 /\ micro \in Seq(Bound) /\ Len(micro) = l
  BY DEF Tiles
<1>2. DOMAIN micro = 1 .. l /\ \A k \in 1 .. l : micro[k] \in Bound
  BY <1>1
<1>3. \A k \in 1 .. l : From(micro, k) \in Nat /\ To(micro, k) \in Nat /\ Breadth(micro, k) \in Nat
  BY <1>2 DEF From, To, Breadth, Bound
<1>4. QED
  BY <1>1, <1>2, <1>3

(* A microbatch more behind the others, or the last one widened.           *)
Added(new, micro, f, t, w) == new = Append(micro, [from |-> f, to |-> t, width |-> w])
Raised(new, micro, l, t, w) == new = [micro EXCEPT ![l] = [@ EXCEPT !.to = t, !.width = w]]
OneMore(new, micro, l, f, t, w) ==
  /\ Tiles(new, l + 1, t) /\ \A k \in 1 .. l : new[k] = micro[k]
  /\ From(new, l + 1) = f /\ To(new, l + 1) = t /\ Breadth(new, l + 1) = w
OneWider(new, micro, l, t, w) ==
  /\ Tiles(new, l, t) /\ \A k \in 1 .. l : k # l => new[k] = micro[k]
  /\ From(new, l) = From(micro, l) /\ To(new, l) = t /\ Breadth(new, l) = w

(* One microbatch more.                                                    *)
LEMMA TilesAppend ==
  ASSUME NEW micro, NEW l, NEW j \in Nat, Tiles(micro, l, j), NEW f \in Nat, f = j + 1, NEW t \in Nat, f <= t + 1, NEW w \in Nat,
         NEW new, Added(new, micro, f, t, w)
  PROVE  OneMore(new, micro, l, f, t, w)
<1>1. l \in Nat /\ l > 0 /\ micro \in Seq(Bound) /\ Len(micro) = l
  BY TilesParts
<1>2. PICK one \in Bound : /\ one = [from |-> f, to |-> t, width |-> w]
                            /\ one.from = f /\ one.to = t /\ one.width = w
  <2>1. PICK one : one = [from |-> f, to |-> t, width |-> w]
    OBVIOUS
  <2>2. one \in Bound
    BY <2>1 DEF Bound
  <2>3. one.from = f /\ one.to = t /\ one.width = w
    BY <2>1
  <2>4. QED
    BY <2>1, <2>2, <2>3
<1>3. new \in Seq(Bound) /\ Len(new) = l + 1 /\ new[l + 1] = one
  <2>1. new = Append(micro, one)
    BY <1>2 DEF Added
  <2>2. QED
    BY <1>1, <1>2, <2>1, AppendProperties
<1>4. \A k \in 1 .. l : new[k] = micro[k]
  <2>1. new = Append(micro, one)
    BY <1>2 DEF Added
  <2>2. QED
    BY <1>1, <1>2, <2>1, AppendProperties
<1>5. From(new, l + 1) = f /\ To(new, l + 1) = t /\ Breadth(new, l + 1) = w
  BY <1>2, <1>3 DEF From, To, Breadth
<1>6. \A k \in 1 .. l : From(new, k) = From(micro, k) /\ To(new, k) = To(micro, k)
  BY <1>4 DEF From, To
<1>7. /\ From(micro, 1) = 1 /\ To(micro, l) = j
      /\ \A k \in 1 .. l : From(micro, k) <= To(micro, k) + 1
      /\ \A k \in 1 .. l - 1 : From(micro, k + 1) = To(micro, k) + 1
  BY DEF Tiles
<1>8. From(new, 1) = 1
  BY <1>1, <1>6, <1>7
<1>9. \A k \in 1 .. l + 1 : From(new, k) <= To(new, k) + 1
  <2> SUFFICES ASSUME NEW k \in 1 .. l + 1 PROVE From(new, k) <= To(new, k) + 1
    OBVIOUS
  <2>1. CASE k = l + 1
    BY <1>5, <2>1
  <2>2. CASE k # l + 1
    <3>1. k \in 1 .. l
      BY <1>1, <2>2
    <3>2. QED
      BY <1>6, <1>7, <3>1
  <2>3. QED
    BY <2>1, <2>2
<1>10. \A k \in 1 .. l : From(new, k + 1) = To(new, k) + 1
  <2> SUFFICES ASSUME NEW k \in 1 .. l PROVE From(new, k + 1) = To(new, k) + 1
    OBVIOUS
  <2>1. CASE k = l
    <3>1. To(new, k) = j
      BY <1>1, <1>6, <1>7, <2>1
    <3>2. QED
      BY <1>5, <2>1, <3>1
  <2>2. CASE k # l
    <3>1. k \in 1 .. l - 1 /\ k + 1 \in 1 .. l
      BY <1>1, <2>2
    <3>2. QED
      BY <1>6, <1>7, <3>1
  <2>3. QED
    BY <2>1, <2>2
<1>11. l + 1 \in Nat /\ l + 1 > 0 /\ (l + 1) - 1 = l
  BY <1>1
<1>12. Tiles(new, l + 1, t)
  BY <1>3, <1>5, <1>8, <1>9, <1>10, <1>11 DEF Tiles
<1>13. QED
  BY <1>4, <1>5, <1>12 DEF OneMore

(* A list with one element replaced.                                       *)
LEMMA ExceptAt ==
  ASSUME NEW S, NEW s, s \in Seq(S), NEW l, Len(s) = l, l \in 1 .. l, NEW e, e \in S,
         NEW new, new = [s EXCEPT ![l] = e]
  PROVE  new \in Seq(S) /\ Len(new) = l /\ \A k \in 1 .. l : new[k] = IF k = l THEN e ELSE s[k]
OBVIOUS

(* The last microbatch widened.                                            *)
LEMMA TilesWiden ==
  ASSUME NEW micro, NEW l, NEW j \in Nat, Tiles(micro, l, j), NEW t \in Nat, t = j + 1, NEW w \in Nat,
         NEW new, Raised(new, micro, l, t, w)
  PROVE  OneWider(new, micro, l, t, w)
<1>1. /\ l \in Nat /\ l > 0 /\ micro \in Seq(Bound) /\ Len(micro) = l
      /\ micro[l] \in Bound /\ l \in 1 .. l /\ From(micro, l) \in Nat
  BY TilesParts
<1>2. PICK one \in Bound : /\ one = [micro[l] EXCEPT !.to = t, !.width = w]
                            /\ one.from = micro[l].from /\ one.to = t /\ one.width = w
  <2>1. PICK old \in Bound : old = micro[l]
    BY <1>1
  <2>2. PICK one : one = [old EXCEPT !.to = t, !.width = w]
    OBVIOUS
  <2>3. one \in Bound
    BY <2>1, <2>2 DEF Bound
  <2>4. one.from = old.from /\ one.to = t /\ one.width = w
    BY <2>1, <2>2 DEF Bound
  <2>5. QED
    BY <2>1, <2>2, <2>3, <2>4
<1>3. new = [micro EXCEPT ![l] = one]
  BY <1>2 DEF Raised
<1>4. new \in Seq(Bound) /\ Len(new) = l /\ \A k \in 1 .. l : new[k] = IF k = l THEN one ELSE micro[k]
  BY <1>1, <1>2, <1>3, ExceptAt
<1>5. From(new, l) = From(micro, l) /\ To(new, l) = t /\ Breadth(new, l) = w
  BY <1>1, <1>2, <1>4 DEF From, To, Breadth
<1>6. \A k \in 1 .. l : k # l => new[k] = micro[k]
  BY <1>4
<1>7. \A k \in 1 .. l : k # l => From(new, k) = From(micro, k) /\ To(new, k) = To(micro, k)
  BY <1>6 DEF From, To
<1>8. /\ From(micro, 1) = 1 /\ To(micro, l) = j
      /\ \A k \in 1 .. l : From(micro, k) <= To(micro, k) + 1
      /\ \A k \in 1 .. l - 1 : From(micro, k + 1) = To(micro, k) + 1
  BY DEF Tiles
<1>9. \A k \in 1 .. l : From(new, k) = From(micro, k)
  BY <1>5, <1>7
<1>10. From(micro, l) <= t + 1
  BY <1>1, <1>8
<1>11. \A k \in 1 .. l : From(new, k) <= To(new, k) + 1
  <2> SUFFICES ASSUME NEW k \in 1 .. l PROVE From(new, k) <= To(new, k) + 1
    OBVIOUS
  <2>1. CASE k = l
    BY <1>5, <1>10, <2>1
  <2>2. CASE k # l
    BY <1>7, <1>8, <2>2
  <2>3. QED
    BY <2>1, <2>2
<1>12. \A k \in 1 .. l - 1 : From(new, k + 1) = To(new, k) + 1
  <2> SUFFICES ASSUME NEW k \in 1 .. l - 1 PROVE From(new, k + 1) = To(new, k) + 1
    OBVIOUS
  <2>1. k \in 1 .. l /\ k # l /\ k + 1 \in 1 .. l
    BY <1>1
  <2>2. QED
    BY <1>7, <1>8, <1>9, <2>1
<1>13. From(new, 1) = 1
  <2>1. 1 \in 1 .. l
    BY <1>1
  <2>2. QED
    BY <1>8, <1>9, <2>1
<1>14. Tiles(new, l, t)
  BY <1>1, <1>4, <1>5, <1>11, <1>12, <1>13 DEF Tiles
<1>15. QED
  BY <1>5, <1>6, <1>14 DEF OneWider

CutStep(micro, k, parts, lens, round, budget) == Extend(micro, k, Width(parts, k, lens, round), budget)

(* Dynamic batching: the rows of the shards one after the other. *)
CutClosed(V, L, n, parts, lens, round, budget) ==
  /\ n \in Nat /\ DOMAIN L = 1 .. n
  /\ \A a \in V, k \in 1 .. n : CutStep(a, L[k], parts, lens, round, budget) \in V
CutFolded(base, L, parts, lens, round, budget) == FoldLeft(LAMBDA micro, k : CutStep(micro, k, parts, lens, round, budget), base, L)
CutRuns(t, V, base, L, n, parts, lens, round, budget) ==
  /\ t \in [0 .. n -> V] /\ t[0] = base
  /\ \A k \in 1 .. n : t[k] = CutStep(t[k - 1], L[k], parts, lens, round, budget)

(* The fold that cuts microbatches.                                        *)
LEMMA CutFold ==
  ASSUME NEW V, NEW base \in V, NEW L, NEW n, NEW parts, NEW lens, NEW round, NEW budget, CutClosed(V, L, n, parts, lens, round, budget)
  PROVE  \E t : /\ CutRuns(t, V, base, L, n, parts, lens, round, budget)
               /\ CutFolded(base, L, parts, lens, round, budget) = t[n]
<1> DEFINE G == [a \in V |-> [k \in 1 .. n |-> CutStep(a, L[k], parts, lens, round, budget)]]
           iter == CHOOSE f : f = [s \in SUBSET (1 .. n) |->
                     IF s = {} THEN base ELSE CutStep(f[s \ {Max(s)}], L[Max(s)], parts, lens, round, budget)]
<1>1. /\ n \in Nat /\ DOMAIN L = 1 .. n
      /\ \A a \in V, k \in 1 .. n : CutStep(a, L[k], parts, lens, round, budget) \in V
  BY Zenon DEF CutClosed
<1>2. \A a \in V, k \in 1 .. n : G[a][k] = CutStep(a, L[k], parts, lens, round, budget)
  OBVIOUS
<1>3. Steps(G, V, n)
  BY <1>1 DEF Steps
<1> HIDE DEF G
<1>4. CutFolded(base, L, parts, lens, round, budget) = iter[1 .. n]
  <2>1. CutFolded(base, L, parts, lens, round, budget) = (CHOOSE f : f = [s \in SUBSET DOMAIN L |->
           IF s = {} THEN base ELSE CutStep(f[s \ {Max(s)}], L[Max(s)], parts, lens, round, budget)])[DOMAIN L]
    BY Zenon DEF CutFolded, FoldLeft, MapThenFoldSet
  <2>2. QED
    BY <1>1, <2>1, Zenon
<1>5. PICK g : Computes(g, V, n, base, G)
  BY <1>1, <1>3, FoldSolved
<1>6. g = [s \in SUBSET (1 .. n) |->
             IF s = {} THEN base ELSE CutStep(g[s \ {Max(s)}], L[Max(s)], parts, lens, round, budget)]
  <2>1. \A s \in SUBSET (1 .. n) :
          g[s] = (IF s = {} THEN base ELSE CutStep(g[s \ {Max(s)}], L[Max(s)], parts, lens, round, budget))
    <3> SUFFICES ASSUME NEW s \in SUBSET (1 .. n), s # {}
                 PROVE  g[s] = CutStep(g[s \ {Max(s)}], L[Max(s)], parts, lens, round, budget)
      BY <1>5 DEF Computes
    <3>1. Max(s) \in 1 .. n
      BY <1>1, TopOf
    <3>2. s \ {Max(s)} \in SUBSET (1 .. n)
      OBVIOUS
    <3>3. g[s \ {Max(s)}] \in V /\ g[s] = G[g[s \ {Max(s)}]][Max(s)]
      BY <1>5, <3>2 DEF Computes
    <3>4. QED
      BY <1>2, <3>1, <3>3, Zenon
  <2>2. g = [s \in SUBSET (1 .. n) |-> g[s]]
    BY <1>5 DEF Computes
  <2>3. QED
    BY <2>1, <2>2, Zenon
<1>7. iter = [s \in SUBSET (1 .. n) |->
                IF s = {} THEN base ELSE CutStep(iter[s \ {Max(s)}], L[Max(s)], parts, lens, round, budget)]
  BY <1>6, Zenon
<1> HIDE DEF iter
<1>8. PICK it : it = iter
  OBVIOUS
<1>9. Folds(it, V, n, base, G)
  <2>1. {} \in SUBSET (1 .. n)
    OBVIOUS
  <2>2. it[{}] = base
    BY <1>7, <1>8, <2>1, Zenon
  <2>3. ASSUME NEW s \in SUBSET (1 .. n), s # {}, it[s \ {Max(s)}] \in V
        PROVE  it[s] = G[it[s \ {Max(s)}]][Max(s)]
    <3>1. Max(s) \in 1 .. n
      BY <1>1, <2>3, TopOf
    <3>2. it[s] = CutStep(it[s \ {Max(s)}], L[Max(s)], parts, lens, round, budget)
      BY <1>7, <1>8, <2>3, Zenon
    <3>3. G[it[s \ {Max(s)}]][Max(s)] = CutStep(it[s \ {Max(s)}], L[Max(s)], parts, lens, round, budget)
      BY <1>2, <2>3, <3>1, Zenon
    <3>4. QED
      BY <3>2, <3>3, Zenon
  <2>4. QED
    BY <2>2, <2>3 DEF Folds
<1>10. PICK t : Trail(t, V, n, base, G) /\ it[1 .. n] = t[n]
  BY <1>1, <1>3, <1>9, FoldTrail
<1>11. CutRuns(t, V, base, L, n, parts, lens, round, budget)
  <2>1. t \in [0 .. n -> V] /\ t[0] = base
    BY <1>10 DEF Trail
  <2>2. ASSUME NEW k \in 1 .. n PROVE t[k] = CutStep(t[k - 1], L[k], parts, lens, round, budget)
    <3>1. k - 1 \in 0 .. n
      BY <1>1
    <3>2. t[k - 1] \in V /\ t[k] = G[t[k - 1]][k]
      BY <1>10, <3>1 DEF Trail
    <3>3. QED
      BY <1>2, <3>2
  <2>3. QED
    BY <2>1, <2>2 DEF CutRuns
<1>12. QED
  BY <1>4, <1>8, <1>10, <1>11, Zenon

(* One row more: the last microbatch is widened, or a new one begun.       *)
Widened(new, micro, k, widest) ==
  new = [micro EXCEPT ![Len(micro)] = [@ EXCEPT !.to = k, !.width = widest]]
Begun(new, micro, k, w) == new = Append(micro, [from |-> k, to |-> k, width |-> w])

(* A row widens the last microbatch or begins a new one.                   *)
LEMMA ExtendIs ==
  ASSUME NEW micro, micro \in Seq(Bound), NEW l, Len(micro) = l, l \in Nat, l > 0,
         NEW k \in Nat, NEW w \in Nat, NEW budget
  PROVE  \/ Begun(Extend(micro, k, w, budget), micro, k, w)
         \/ \E widest \in Nat :
              /\ Widened(Extend(micro, k, w, budget), micro, k, widest)
              /\ Breadth(micro, l) <= widest /\ w <= widest
              /\ (To(micro, l) - From(micro, l) + 2) * widest <= budget
<1>1. PICK last \in Bound : last = Last(micro) /\ last = micro[l]
  BY DEF Last
<1>2. last.width \in Nat
  BY DEF Bound
<1>3. PICK widest \in Nat : widest = Max({last.width, w}) /\ last.width <= widest /\ w <= widest
  BY <1>2, OfTwo
<1>4. PICK new : new = Extend(micro, k, w, budget)
  OBVIOUS
<1>5. new = IF (last.to - last.from + 2) * widest <= budget
            THEN [micro EXCEPT ![Len(micro)] = [@ EXCEPT !.to = k, !.width = widest]]
            ELSE Append(micro, [from |-> k, to |-> k, width |-> w])
  BY <1>1, <1>3, <1>4, Zenon DEF Extend
<1>6. CASE (last.to - last.from + 2) * widest <= budget
  <2>1. Widened(new, micro, k, widest)
    BY <1>5, <1>6, Zenon DEF Widened
  <2>2. Breadth(micro, l) <= widest
    BY <1>1, <1>3 DEF Breadth
  <2>3. (To(micro, l) - From(micro, l) + 2) * widest <= budget
    BY <1>1, <1>6, Zenon DEF To, From
  <2>4. QED
    BY <1>3, <1>4, <2>1, <2>2, <2>3, Zenon
<1>7. CASE ~((last.to - last.from + 2) * widest <= budget)
  <2>1. Begun(new, micro, k, w)
    BY <1>5, <1>7, Zenon DEF Begun
  <2>2. QED
    BY <1>4, <2>1
<1>8. QED
  BY <1>6, <1>7, Zenon

(* A new one keeps the rows covered in the budget.                         *)
LEMMA BegunTiles ==
  ASSUME NEW micro, NEW j \in Nat, Tiled(micro, j), NEW parts, NEW m, NEW lens, NEW budget,
         Fitting(micro, parts, m, lens, budget), NEW w \in Nat, w <= budget,
         Wide(w, parts, j + 1, lens, m), NEW new, Begun(new, micro, j + 1, w)
  PROVE  Tiled(new, j + 1) /\ Fitting(new, parts, m, lens, budget)
<1>1. PICK l : Tiles(micro, l, j)
  BY DEF Tiled
<1>2. l \in Nat /\ l > 0 /\ Len(micro) = l
  BY <1>1, TilesParts
<1>3. PICK f \in Nat : f = j + 1 /\ f <= f + 1
  OBVIOUS
<1>4. Added(new, micro, f, f, w)
  BY <1>3 DEF Begun, Added
<1>5. /\ Tiles(new, l + 1, f) /\ \A k \in 1 .. l : new[k] = micro[k]
      /\ From(new, l + 1) = f /\ To(new, l + 1) = f /\ Breadth(new, l + 1) = w
  <2>1. OneMore(new, micro, l, f, f, w)
    BY <1>1, <1>3, <1>4, TilesAppend
  <2>2. QED
    BY <2>1 DEF OneMore
<1>6. Len(new) = l + 1
  BY <1>5 DEF Tiles
<1>7. ASSUME NEW k \in 1 .. l + 1
      PROVE  /\ Covers(parts, m, lens, From(new, k), To(new, k), Breadth(new, k))
             /\ Within(From(new, k), To(new, k), Breadth(new, k), budget)
  <2>1. CASE k = l + 1
    <3>1. Covers(parts, m, lens, f, f, w)
      <4>1. \A x \in f .. f : x = j + 1
        BY <1>3
      <4>2. QED
        BY <4>1 DEF Covers, Wide
    <3>2. Within(f, f, w, budget)
      <4>1. f - f + 1 = 1 /\ 1 * w = w
        OBVIOUS
      <4>2. QED
        BY <4>1 DEF Within
    <3>3. QED
      BY <1>5, <2>1, <3>1, <3>2
  <2>2. CASE k # l + 1
    <3>1. k \in 1 .. l
      BY <1>2, <2>2
    <3>2. /\ From(new, k) = From(micro, k) /\ To(new, k) = To(micro, k)
          /\ Breadth(new, k) = Breadth(micro, k)
      BY <1>5, <3>1 DEF From, To, Breadth
    <3>3. QED
      BY <1>2, <3>1, <3>2 DEF Fitting
  <2>3. QED
    BY <2>1, <2>2
<1>8. QED
  BY <1>3, <1>5, <1>6, <1>7 DEF Tiled, Fitting

(* The bounds of the tiles rise from 1 to n.                               *)
LEMMA TilesRise ==
  ASSUME NEW micro, NEW l, NEW n \in Nat, Tiles(micro, l, n)
  PROVE  \A k \in 1 .. l : From(micro, k) >= 1 /\ To(micro, k) <= n
<1>1. /\ l \in Nat /\ l > 0
      /\ \A k \in 1 .. l : From(micro, k) \in Nat /\ To(micro, k) \in Nat
  BY TilesParts
<1>2. /\ From(micro, 1) = 1 /\ To(micro, l) = n
      /\ \A k \in 1 .. l : From(micro, k) <= To(micro, k) + 1
      /\ \A k \in 1 .. l - 1 : From(micro, k + 1) = To(micro, k) + 1
  BY DEF Tiles
<1>3. \A k \in 1 .. l : From(micro, k) >= 1
  <2> SUFFICES ASSUME NEW k \in 1 .. l PROVE From(micro, k) >= 1
    OBVIOUS
  <2>1. CASE k = 1
    BY <1>2, <2>1
  <2>2. CASE k # 1
    <3>1. PICK j \in 1 .. l - 1 : j + 1 = k /\ j \in 1 .. l
      <4>1. k - 1 \in 1 .. l - 1 /\ (k - 1) + 1 = k /\ k - 1 \in 1 .. l
        BY <1>1, <2>2
      <4>2. QED
        BY <4>1
    <3>2. From(micro, k) = To(micro, j) + 1 /\ To(micro, j) \in Nat
      BY <1>1, <1>2, <3>1
    <3>3. QED
      BY <3>2
  <2>3. QED
    BY <2>1, <2>2
<1>4. PICK W : W = {d \in 0 .. l - 1 : To(micro, l - d) <= n}
  OBVIOUS
<1>5. PICK h \in Nat : h = l - 1
  BY <1>1
<1>6. 0 \in W
  BY <1>1, <1>2, <1>4
<1>7. ASSUME NEW d \in 0 .. h - 1, d \in W PROVE d + 1 \in W
  <2>1. PICK k : k = l - (d + 1) /\ k \in 1 .. l - 1 /\ k + 1 = l - d /\ k \in 1 .. l /\ k + 1 \in 1 .. l
    <3>1. l - (d + 1) \in 1 .. l - 1 /\ l - (d + 1) + 1 = l - d
      BY <1>1, <1>5
    <3>2. l - (d + 1) \in 1 .. l /\ l - (d + 1) + 1 \in 1 .. l
      BY <1>1, <1>5
    <3>3. QED
      BY <3>1, <3>2
  <2>2. To(micro, k + 1) <= n
    BY <1>4, <1>7, <2>1
  <2>3. From(micro, k + 1) = To(micro, k) + 1 /\ From(micro, k + 1) <= To(micro, k + 1) + 1
    BY <1>2, <2>1
  <2>4. To(micro, k) \in Nat /\ To(micro, k + 1) \in Nat
    BY <1>1, <2>1
  <2>5. To(micro, k) <= n
    BY <2>2, <2>3, <2>4
  <2>6. d + 1 \in 0 .. l - 1
    BY <1>5
  <2>7. QED
    BY <1>4, <2>1, <2>5, <2>6
<1>8. \A d \in 0 .. h : d \in W
  <2> HIDE <1>4
  <2>1. QED
    BY <1>6, <1>7, Upward
<1>9. \A k \in 1 .. l : To(micro, k) <= n
  <2> SUFFICES ASSUME NEW k \in 1 .. l PROVE To(micro, k) <= n
    OBVIOUS
  <2>1. l - k \in 0 .. h /\ l - (l - k) = k
    BY <1>1, <1>5
  <2>2. l - k \in W
    BY <1>8, <2>1
  <2>3. QED
    BY <1>4, <2>1, <2>2
<1>10. QED
  BY <1>3, <1>9

(* A wider one keeps the rows covered in the budget.                       *)
LEMMA WidenedTiles ==
  ASSUME NEW micro, NEW j \in Nat, Tiled(micro, j), NEW m \in Nat, NEW n \in Nat, j + 1 \in 1 .. n,
         NEW N, NEW parts, Grid(parts, m, n, N), NEW lens, Measured(lens, 1 .. N), NEW budget,
         Fitting(micro, parts, m, lens, budget), NEW w \in Nat,
         Wide(w, parts, j + 1, lens, m), NEW widest \in Nat,
         NEW l, l = Len(micro), Breadth(micro, l) <= widest, w <= widest,
         (To(micro, l) - From(micro, l) + 2) * widest <= budget,
         NEW new, Widened(new, micro, j + 1, widest)
  PROVE  Tiled(new, j + 1) /\ Fitting(new, parts, m, lens, budget)
<1>1. Tiles(micro, l, j)
  BY DEF Tiled, Tiles
<1>2. l \in Nat /\ l > 0 /\ Len(micro) = l /\ l \in 1 .. l
  BY <1>1, TilesParts
<1>3. PICK f \in Nat : f = j + 1
  OBVIOUS
<1>4. Raised(new, micro, l, f, widest)
  BY <1>3, Zenon DEF Widened, Raised
<1>5. /\ Tiles(new, l, f) /\ \A k \in 1 .. l : k # l => new[k] = micro[k]
      /\ From(new, l) = From(micro, l) /\ To(new, l) = f /\ Breadth(new, l) = widest
  <2>1. OneWider(new, micro, l, f, widest)
    BY <1>1, <1>3, <1>4, TilesWiden
  <2>2. QED
    BY <2>1 DEF OneWider
<1>6. Len(new) = l
  BY <1>5 DEF Tiles
<1>7. PICK a \in Nat, b \in Nat : a = From(micro, l) /\ b = Breadth(micro, l) /\ To(micro, l) = j
  <2>1. From(micro, l) \in Nat /\ Breadth(micro, l) \in Nat
    BY <1>1, <1>2, TilesParts
  <2>2. To(micro, l) = j
    BY <1>1 DEF Tiles
  <2>3. QED
    BY <2>1, <2>2
<1>8. Covers(parts, m, lens, a, f, widest)
  <2> SUFFICES ASSUME NEW s \in 1 .. m, NEW x \in a .. f PROVE lens[parts[s][x]] <= widest
    BY DEF Covers
  <2>1. CASE x = f
    <3>1. lens[parts[s][f]] <= w
      BY <1>3 DEF Wide
    <3>2. lens[parts[s][f]] \in Nat
      BY <1>3 DEF Grid, Measured
    <3>3. PICK y \in Nat : y = lens[parts[s][f]]
      BY <3>2
    <3>4. y <= widest
      BY <3>1, <3>3, SMTT(40)
    <3>5. QED
      BY <2>1, <3>3, <3>4
  <2>2. CASE x # f
    <3>1. x \in a .. j
      BY <1>3, <2>2
    <3>2. Covers(parts, m, lens, a, j, b)
      BY <1>2, <1>7 DEF Fitting
    <3>3. lens[parts[s][x]] <= b
      BY <3>1, <3>2 DEF Covers
    <3>4. b <= widest
      BY <1>7
    <3>5. CASE x \in 1 .. n
      <4>1. PICK y \in Nat : y = lens[parts[s][x]]
        BY <3>5 DEF Grid, Measured
      <4>2. y <= widest
        BY <3>3, <3>4, <4>1, SMTT(40)
      <4>3. QED
        BY <4>1, <4>2
    <3>6. CASE x \notin 1 .. n
      <4>1. a >= 1
        BY <1>1, <1>2, <1>7, TilesRise
      <4>2. x \in 1 .. j
        BY <3>1, <4>1
      <4>3. x \in 1 .. n
        BY <4>2
      <4>4. QED
        BY <3>6, <4>3
    <3>7. QED
      BY <3>5, <3>6
  <2>3. QED
    BY <2>1, <2>2
<1>9. Within(a, f, widest, budget)
  <2>1. (j - a + 2) * widest <= budget
    BY <1>7, Zenon
  <2>2. f - a + 1 = j - a + 2
    BY <1>3
  <2>3. QED
    BY <2>1, <2>2, Zenon DEF Within
<1>10. ASSUME NEW k \in 1 .. l
      PROVE  /\ Covers(parts, m, lens, From(new, k), To(new, k), Breadth(new, k))
             /\ Within(From(new, k), To(new, k), Breadth(new, k), budget)
  <2>1. CASE k = l
    BY <1>5, <1>7, <1>8, <1>9, <2>1
  <2>2. CASE k # l
    <3>1. /\ From(new, k) = From(micro, k) /\ To(new, k) = To(micro, k)
          /\ Breadth(new, k) = Breadth(micro, k)
      BY <1>5, <2>2 DEF From, To, Breadth
    <3>2. QED
      BY <1>2, <3>1 DEF Fitting
  <2>3. QED
    BY <2>1, <2>2
<1>11. QED
  BY <1>3, <1>5, <1>6, <1>10 DEF Tiled, Fitting

(* A step of the fold keeps the shape of microbatches.                     *)
LEMMA CutStepShape ==
  ASSUME NEW micro, micro \in Seq(Bound), Len(micro) > 0, NEW k \in Nat, NEW w \in Nat, NEW budget
  PROVE  Extend(micro, k, w, budget) \in Seq(Bound) /\ Len(Extend(micro, k, w, budget)) > 0
<1>1. PICK l \in Nat : l = Len(micro) /\ l > 0
  OBVIOUS
<1>2. PICK new : new = Extend(micro, k, w, budget)
  OBVIOUS
<1>3. \/ Begun(new, micro, k, w)
      \/ \E widest \in Nat : Widened(new, micro, k, widest)
  BY <1>1, <1>2, ExtendIs
<1>4. CASE Begun(new, micro, k, w)
  <2>1. PICK one : one = [from |-> k, to |-> k, width |-> w]
    OBVIOUS
  <2>2. one \in Bound
    BY <2>1 DEF Bound
  <2>3. new = Append(micro, one)
    BY <1>4, <2>1 DEF Begun
  <2>4. new \in Seq(Bound) /\ Len(new) = Len(micro) + 1
    BY <2>2, <2>3, AppendProperties
  <2>5. QED
    BY <1>1, <1>2, <2>4
<1>5. ASSUME NEW widest \in Nat, Widened(new, micro, k, widest)
      PROVE  new \in Seq(Bound) /\ Len(new) > 0
  <2>1. l \in 1 .. l
    BY <1>1
  <2>2. PICK old \in Bound : old = micro[l]
    BY <1>1, <2>1
  <2>3. PICK one : one = [old EXCEPT !.to = k, !.width = widest]
    OBVIOUS
  <2>4. one \in Bound
    BY <2>2, <2>3 DEF Bound
  <2>5. new = [micro EXCEPT ![l] = one]
    BY <1>1, <1>5, <2>2, <2>3, Zenon DEF Widened
  <2>6. new \in Seq(Bound) /\ Len(new) = l
    BY <1>1, <2>1, <2>4, <2>5, ExceptAt
  <2>7. QED
    BY <1>1, <2>6
<1>6. QED
  BY <1>2, <1>3, <1>4, <1>5

(* The microbatches of dynamic batching: the places of the rows in order,  *)
(* each microbatch within the budget and as wide as its rows.              *)
LEMMA DynamicMicroFits ==
  ASSUME NEW m \in Nat, m > 0, NEW n \in Nat, NEW N \in Nat, N > 0, NEW parts, Grid(parts, m, n, N),
         DOMAIN parts[1] = 1 .. n,
         NEW lens, Measured(lens, 1 .. N), NEW round \in Nat, round > 0,
         NEW budget \in Nat, DynamicFits(lens, round, budget)
  PROVE  /\ Tiled(DynamicMicro(parts, lens, round, budget), n)
         /\ Fitting(DynamicMicro(parts, lens, round, budget), parts, m, lens, budget)
<1>1. PICK L : L = [k \in 1 .. n |-> k]
  OBVIOUS
<1>2. DOMAIN L = 1 .. n /\ \A k \in 1 .. n : L[k] = k
  BY <1>1
<1>3. PICK none : none = [from |-> 1, to |-> 0, width |-> 0]
  OBVIOUS
<1>4. none \in Bound
  BY <1>3 DEF Bound
<1>5. PICK base : base = <<none>>
  OBVIOUS
<1>6. base \in Seq(Bound) /\ Len(base) = 1 /\ base[1] = none
  BY <1>4, <1>5
<1>7. PICK V : V = {a \in Seq(Bound) : Len(a) > 0}
  OBVIOUS
<1>8. base \in V
  BY <1>6, <1>7
<1>9. \A k \in 1 .. n : /\ Width(parts, k, lens, round) \in Nat
                        /\ Width(parts, k, lens, round) <= budget
                        /\ Wide(Width(parts, k, lens, round), parts, k, lens, m)
  BY WidthIs
<1>10. CutClosed(V, L, n, parts, lens, round, budget)
  <2>1. ASSUME NEW a \in V, NEW k \in 1 .. n
        PROVE  CutStep(a, L[k], parts, lens, round, budget) \in V
    <3>1. PICK w \in Nat : w = Width(parts, k, lens, round)
      BY <1>9
    <3>2. a \in Seq(Bound) /\ Len(a) > 0
      BY <1>7
    <3>3. Extend(a, k, w, budget) \in Seq(Bound) /\ Len(Extend(a, k, w, budget)) > 0
      BY <3>2, CutStepShape
    <3>4. CutStep(a, L[k], parts, lens, round, budget) = Extend(a, k, w, budget)
      BY <1>2, <3>1 DEF CutStep
    <3>5. QED
      BY <1>7, <3>3, <3>4
  <2>2. QED
    BY <1>2, <2>1 DEF CutClosed
<1>11. PICK t : /\ CutRuns(t, V, base, L, n, parts, lens, round, budget)
                /\ CutFolded(base, L, parts, lens, round, budget) = t[n]
  BY <1>8, <1>10, CutFold
<1>12. DynamicMicro(parts, lens, round, budget) = t[n]
  <2>1. DynamicMicro(parts, lens, round, budget)
          = CutFolded(<<[from |-> 1, to |-> 0, width |-> 0]>>, [k \in DOMAIN parts[1] |-> k],
                      parts, lens, round, budget)
    BY Zenon DEF DynamicMicro, CutFolded, CutStep
  <2>2. L = [k \in DOMAIN parts[1] |-> k]
    BY <1>1
  <2>3. QED
    BY <1>3, <1>5, <1>11, <2>1, <2>2, Zenon
<1>13. PICK W : W = {j \in 0 .. n : Tiled(t[j], j) /\ Fitting(t[j], parts, m, lens, budget)}
  OBVIOUS
<1>14. 0 \in W
  <2>1. t[0] = base
    BY <1>11 DEF CutRuns
  <2>2. From(base, 1) = 1 /\ To(base, 1) = 0 /\ Breadth(base, 1) = 0
    BY <1>3, <1>6 DEF From, To, Breadth
  <2>3. Tiles(base, 1, 0)
    <3>1. \A k \in 1 .. 1 : From(base, k) <= To(base, k) + 1
      BY <2>2
    <3>2. 1 .. (1 - 1) = {}
      OBVIOUS
    <3>3. QED
      BY <1>6, <2>2, <3>1, <3>2 DEF Tiles
  <2>4. Fitting(base, parts, m, lens, budget)
    <3>1. \A k \in 1 .. Len(base) : k = 1
      BY <1>6
    <3>2. 1 .. 0 = {}
      OBVIOUS
    <3>3. Covers(parts, m, lens, 1, 0, 0)
      BY <3>2 DEF Covers
    <3>4. Within(1, 0, 0, budget)
      BY DEF Within
    <3>5. QED
      BY <2>2, <3>1, <3>3, <3>4 DEF Fitting
  <2>5. QED
    BY <1>13, <2>1, <2>3, <2>4 DEF Tiled
<1>15. ASSUME NEW j \in 0 .. n - 1, j \in W PROVE j + 1 \in W
  <2>1. PICK k \in 1 .. n : k = j + 1 /\ k - 1 = j
    <3>1. j + 1 \in 1 .. n /\ (j + 1) - 1 = j
      OBVIOUS
    <3>2. QED
      BY <3>1
  <2>2. PICK old : old = t[j] /\ Tiled(old, j) /\ Fitting(old, parts, m, lens, budget)
    BY <1>13, <1>15
  <2>3. PICK w \in Nat : /\ w = Width(parts, k, lens, round) /\ w <= budget
                         /\ Wide(w, parts, k, lens, m)
    BY <1>9
  <2>4. PICK new : new = Extend(old, k, w, budget)
    OBVIOUS
  <2>5. t[k] = new
    <3>1. t[k] = CutStep(t[k - 1], L[k], parts, lens, round, budget)
      BY <1>11 DEF CutRuns
    <3>2. QED
      BY <1>2, <2>1, <2>2, <2>3, <2>4, <3>1 DEF CutStep
  <2>6. PICK l : Tiles(old, l, j)
    BY <2>2 DEF Tiled
  <2>7. old \in Seq(Bound) /\ Len(old) = l /\ l \in Nat /\ l > 0
    BY <2>6, TilesParts
  <2>8. \/ Begun(new, old, k, w)
        \/ \E widest \in Nat :
              /\ Widened(new, old, k, widest)
              /\ Breadth(old, l) <= widest /\ w <= widest
              /\ (To(old, l) - From(old, l) + 2) * widest <= budget
    BY <2>4, <2>7, ExtendIs
  <2>9. j \in Nat /\ Wide(w, parts, j + 1, lens, m)
    BY <2>1, <2>3
  <2>10. CASE Begun(new, old, k, w)
    <3>1. Tiled(new, j + 1) /\ Fitting(new, parts, m, lens, budget)
      BY <2>1, <2>2, <2>3, <2>9, <2>10, BegunTiles
    <3>2. QED
      BY <1>13, <2>1, <2>5, <3>1
  <2>11. ASSUME NEW widest \in Nat, Widened(new, old, k, widest),
                Breadth(old, l) <= widest, w <= widest,
                (To(old, l) - From(old, l) + 2) * widest <= budget
         PROVE  j + 1 \in W
    <3>1. Tiled(new, j + 1) /\ Fitting(new, parts, m, lens, budget)
      BY <2>1, <2>2, <2>3, <2>7, <2>9, <2>11, WidenedTiles
    <3>2. QED
      BY <1>13, <2>1, <2>5, <3>1
  <2>12. QED
    BY <2>8, <2>10, <2>11, Zenon
<1>16. n \in W
  <2>1. \A j \in 0 .. n : j \in W
    BY <1>14, <1>15, Upward
  <2>2. QED
    BY <2>1
<1>17. QED
  BY <1>12, <1>13, <1>16

(* The joined lists, place by place.                                       *)
JoinsAt(t, ss, k, S) ==
  /\ t[k] \in Seq(S) /\ t[k - 1] \in Seq(S) /\ ss[k] \in Seq(S)
  /\ Len(t[k]) \in Nat /\ Len(t[k - 1]) \in Nat /\ Len(ss[k]) \in Nat
  /\ Len(t[k]) = Len(t[k - 1]) + Len(ss[k])
  /\ \A i \in 1 .. Len(t[k - 1]) : t[k][i] = t[k - 1][i]
  /\ \A i \in 1 .. Len(ss[k]) : t[k][Len(t[k - 1]) + i] = ss[k][i]
Joined(c, a, b, S) ==
  /\ c \in Seq(S) /\ a \in Seq(S) /\ b \in Seq(S)
  /\ Len(c) \in Nat /\ Len(a) \in Nat /\ Len(b) \in Nat
  /\ Len(c) = Len(a) + Len(b)
  /\ \A i \in 1 .. Len(a) : c[i] = a[i]
  /\ \A i \in 1 .. Len(b) : c[Len(a) + i] = b[i]
JoinsHead(t, k, n) ==
  /\ Len(t[k]) \in Nat /\ Len(t[n]) \in Nat /\ Len(t[k]) <= Len(t[n])
  /\ \A i \in 1 .. Len(t[k]) : t[n][i] = t[k][i]

(* Each list is behind those before.                                       *)
LEMMA JoinsLen ==
  ASSUME NEW S, NEW ss, NEW n \in Nat, NEW t, Joins(t, ss, n, S), NEW k \in 1 .. n
  PROVE  JoinsAt(t, ss, k, S)
<1>1. k - 1 \in 0 .. n /\ k \in 0 .. n
  OBVIOUS
<1>2. t \in [0 .. n -> Seq(S)] /\ t[k] = t[k - 1] \o ss[k] /\ ss[k] \in Seq(S)
  BY DEF Joins
<1>3. PICK a \in Seq(S), b \in Seq(S) : a = t[k - 1] /\ b = ss[k]
  BY <1>1, <1>2
<1>4. PICK c : c = a \o b
  OBVIOUS
<1>5. /\ c \in Seq(S) /\ Len(c) = Len(a) + Len(b) /\ Len(a) \in Nat /\ Len(b) \in Nat
      /\ \A i \in 1 .. Len(a) + Len(b) : c[i] = IF i <= Len(a) THEN a[i] ELSE b[i - Len(a)]
  BY <1>4, ConcatProperties
<1>6. PICK x \in Nat, y \in Nat : x = Len(a) /\ y = Len(b)
  BY <1>5
<1>7. \A i \in 1 .. x : c[i] = a[i]
  BY <1>5, <1>6
<1>8. \A i \in 1 .. y : c[x + i] = b[i]
  <2> SUFFICES ASSUME NEW i \in 1 .. y PROVE c[x + i] = b[i]
    OBVIOUS
  <2>1. x + i \in 1 .. x + y /\ ~(x + i <= x) /\ (x + i) - x = i
    OBVIOUS
  <2>2. QED
    BY <1>5, <1>6, <2>1
<1>9. t[k] = c
  BY <1>2, <1>3, <1>4
<1>10. Len(c) \in Nat
  BY <1>5
<1>11. Joined(c, a, b, S)
  BY <1>3, <1>5, <1>6, <1>7, <1>8, <1>10 DEF Joined
<1>12. Joined(t[k], t[k - 1], ss[k], S)
  BY <1>3, <1>9, <1>11, Zenon
<1>13. QED
  BY <1>12, Zenon DEF JoinsAt, Joined

(* What is joined stays where it is.                                       *)
LEMMA JoinsPrefix ==
  ASSUME NEW S, NEW ss, NEW n \in Nat, NEW t, Joins(t, ss, n, S), NEW k \in 0 .. n
  PROVE  JoinsHead(t, k, n)
<1>1. t \in [0 .. n -> Seq(S)]
  BY DEF Joins
<1>2. \A j \in 0 .. n : Len(t[j]) \in Nat
  BY <1>1
<1>3. PICK d \in Nat : d = n - k
  OBVIOUS
<1>4. PICK x \in Nat : x = Len(t[k])
  BY <1>2
<1>5. PICK W : W = {e \in 0 .. d : x <= Len(t[k + e]) /\ \A i \in 1 .. x : t[k + e][i] = t[k][i]}
  OBVIOUS
<1>6. 0 \in W
  <2>1. k + 0 = k
    OBVIOUS
  <2>2. QED
    BY <1>4, <1>5, <2>1
<1>7. ASSUME NEW e \in 0 .. d - 1, e \in W PROVE e + 1 \in W
  <2>1. PICK j \in 1 .. n : j = k + (e + 1) /\ j - 1 = k + e
    <3>1. k + (e + 1) \in 1 .. n /\ (k + (e + 1)) - 1 = k + e
      BY <1>3
    <3>2. QED
      BY <3>1
  <2>2. PICK y \in Nat, z \in Nat : y = Len(t[j - 1]) /\ z = Len(t[j]) /\ y <= z /\ \A i \in 1 .. y : t[j][i] = t[j - 1][i]
    <3>0. JoinsAt(t, ss, j, S)
      BY JoinsLen
    <3>1. /\ Len(t[j]) \in Nat /\ Len(t[j - 1]) \in Nat /\ Len(ss[j]) \in Nat
          /\ Len(t[j]) = Len(t[j - 1]) + Len(ss[j])
      BY <3>0 DEF JoinsAt
    <3>2. \A i \in 1 .. Len(t[j - 1]) : t[j][i] = t[j - 1][i]
      BY <3>0 DEF JoinsAt
    <3>3. PICK y \in Nat, z \in Nat, u \in Nat : y = Len(t[j - 1]) /\ z = Len(t[j]) /\ u = Len(ss[j])
      BY <3>1, Zenon
    <3>4. z = y + u
      BY <3>1, <3>3, Zenon
    <3>5. y <= z
      BY <3>4
    <3>6. QED
      BY <3>2, <3>3, <3>5, Zenon
  <2>3. x <= y /\ \A i \in 1 .. x : t[j - 1][i] = t[k][i]
    BY <1>5, <1>7, <2>1, <2>2
  <2>4. x <= z /\ \A i \in 1 .. x : t[j][i] = t[k][i]
    BY <2>2, <2>3
  <2>5. e + 1 \in 0 .. d
    OBVIOUS
  <2>6. QED
    BY <1>5, <2>1, <2>2, <2>4, <2>5
<1>8. d \in W
  <2>1. \A e \in 0 .. d : e \in W
    BY <1>6, <1>7, Upward
  <2>2. QED
    BY <2>1
<1>9. k + d = n
  BY <1>3
<1>10. n \in 0 .. n /\ Len(t[n]) \in Nat
  BY <1>2
<1>11. x <= Len(t[n]) /\ \A i \in 1 .. x : t[n][i] = t[k][i]
  BY <1>5, <1>8, <1>9, Zenon
<1>12. QED
  BY <1>4, <1>10, <1>11, Zenon DEF JoinsHead

(* The k-th list can be cut out again.                                     *)
Sliced(t, n, k, list) == SubSeq(t[n], Len(t[k - 1]) + 1, Len(t[k])) = list

(* A list is found again between the lengths.                              *)
LEMMA JoinsSlice ==
  ASSUME NEW S, NEW ss, NEW n \in Nat, NEW t, Joins(t, ss, n, S), NEW k \in 1 .. n
  PROVE  Sliced(t, n, k, ss[k])
<1>0. JoinsAt(t, ss, k, S)
  BY JoinsLen
<1>1. PICK x \in Nat, y \in Nat, z \in Nat, b \in Seq(S) :
        /\ x = Len(t[k - 1]) /\ y = Len(b) /\ z = Len(t[k]) /\ z = x + y /\ b = ss[k]
  BY <1>0, Zenon DEF JoinsAt
<1>13. z = x + y
  BY <1>1
<1>2. \A i \in 1 .. y : t[k][x + i] = b[i]
  BY <1>0, <1>1 DEF JoinsAt
<1>3. \A i \in 1 .. z : t[n][i] = t[k][i]
  <2>1. k \in 0 .. n
    OBVIOUS
  <2>2. JoinsHead(t, k, n)
    BY <2>1, JoinsPrefix
  <2>3. QED
    BY <1>1, <2>2 DEF JoinsHead
<1>4. \A i \in 1 .. y : t[n][x + i] = b[i] /\ b[i] \in S
  <2> SUFFICES ASSUME NEW i \in 1 .. y PROVE t[n][x + i] = b[i] /\ b[i] \in S
    OBVIOUS
  <2>1. x + i \in 1 .. z
    BY <1>13
  <2>2. b[i] \in S
    BY <1>1
  <2>3. QED
    BY <1>2, <1>3, <2>1, <2>2
<1>5. PICK L : L = t[n]
  OBVIOUS
<1>6. \A i \in x + 1 .. z : L[i] \in S
  <2> SUFFICES ASSUME NEW i \in x + 1 .. z PROVE L[i] \in S
    OBVIOUS
  <2>1. i - x \in 1 .. y /\ x + (i - x) = i
    BY <1>13
  <2>2. t[n][x + (i - x)] \in S
    BY <1>4, <2>1
  <2>3. QED
    BY <1>5, <2>1, <2>2
<1>7. PICK c : c = SubSeq(L, x + 1, z)
  OBVIOUS
<1>8. /\ c \in Seq(S) /\ Len(c) = IF x + 1 <= z THEN z - (x + 1) + 1 ELSE 0
      /\ \A i \in 1 .. z - (x + 1) + 1 : c[i] = L[(x + 1) + i - 1]
  <2>1. x + 1 \in Int /\ z \in Int
    OBVIOUS
  <2>2. QED
    BY <1>6, <1>7, <2>1, SubSeqProperties
<1>9. Len(c) = y
  BY <1>8, <1>13
<1>10. \A i \in 1 .. y : c[i] = b[i]
  <2> SUFFICES ASSUME NEW i \in 1 .. y PROVE c[i] = b[i]
    OBVIOUS
  <2>1. i \in 1 .. z - (x + 1) + 1 /\ (x + 1) + i - 1 = x + i
    BY <1>13
  <2>2. QED
    BY <1>4, <1>5, <1>8, <2>1
<1>11. c = b
  BY <1>1, <1>8, <1>9, <1>10, SeqEqual
<1>12. SubSeq(t[n], Len(t[k - 1]) + 1, Len(t[k])) = ss[k]
  BY <1>1, <1>5, <1>7, <1>11
<1>14. QED
  BY <1>12 DEF Sliced

(* Every place belongs to one of the lists.                                *)
LEMMA JoinsPlace ==
  ASSUME NEW S, NEW ss, NEW n \in Nat, NEW t, Joins(t, ss, n, S), NEW i \in 1 .. Len(t[n])
  PROVE  \E k \in 1 .. n : i \in Len(t[k - 1]) + 1 .. Len(t[k])
<1>1. t \in [0 .. n -> Seq(S)] /\ t[0] = <<>>
  BY DEF Joins
<1>2. \A j \in 0 .. n : Len(t[j]) \in Nat
  BY <1>1
<1>3. i \in Nat
  BY <1>2
<1>4. SUFFICES ASSUME \A k \in 1 .. n : i \notin Len(t[k - 1]) + 1 .. Len(t[k]) PROVE FALSE
  OBVIOUS
<1>5. PICK W : W = {k \in 0 .. n : i > Len(t[k])}
  OBVIOUS
<1>6. 0 \in W
  <2>1. Len(t[0]) = 0
    BY <1>1
  <2>2. i > 0
    BY <1>2
  <2>3. QED
    BY <1>5, <2>1, <2>2
<1>7. ASSUME NEW k \in 0 .. n - 1, k \in W PROVE k + 1 \in W
  <2>1. k + 1 \in 1 .. n /\ (k + 1) - 1 = k /\ k + 1 \in 0 .. n
    OBVIOUS
  <2>2. PICK x \in Nat, y \in Nat : x = Len(t[k]) /\ y = Len(t[k + 1])
    BY <1>2, <2>1
  <2>3. i > x /\ i \notin x + 1 .. y
    BY <1>4, <1>5, <1>7, <2>1, <2>2
  <2>4. i > y
    BY <1>3, <2>3
  <2>5. QED
    BY <1>5, <2>1, <2>2, <2>4
<1>8. n \in W
  <2>1. \A k \in 0 .. n : k \in W
    BY <1>6, <1>7, Upward
  <2>2. QED
    BY <2>1
<1>9. PICK x \in Nat : x = Len(t[n]) /\ i > x
  BY <1>2, <1>5, <1>8
<1>10. QED
  BY <1>3, <1>9

(* The first lists of a list of lists, in one.                             *)
LEMMA JoinsFront ==
  ASSUME NEW S, NEW ss, ss \in Seq(Seq(S)), NEW t, Joins(t, ss, Len(ss), S), NEW k \in 0 .. Len(ss)
  PROVE  FlattenSeq(SubSeq(ss, 1, k)) = t[k]
<1>1. PICK n \in Nat : n = Len(ss)
  OBVIOUS
<1>2. PICK U : U = Seq(S)
  OBVIOUS
<1>3. ss \in Seq(U) /\ \A i \in 1 .. n : ss[i] \in U
  <2>1. ss \in Seq(U)
    BY <1>2
  <2>2. \A i \in 1 .. Len(ss) : ss[i] \in U
    BY <2>1
  <2>3. QED
    BY <1>1, <2>1, <2>2, Zenon
<1>4. PICK f : f = SubSeq(ss, 1, k)
  OBVIOUS
<1>5. f \in Seq(U) /\ Len(f) = k /\ \A i \in 1 .. k : f[i] = ss[i]
  <2>1. 1 \in Int /\ k \in Int /\ \A i \in 1 .. k : ss[i] \in U
    BY <1>1, <1>3
  <2>2. /\ f \in Seq(U) /\ Len(f) = IF 1 <= k THEN k - 1 + 1 ELSE 0
        /\ \A i \in 1 .. k - 1 + 1 : f[i] = ss[1 + i - 1]
    BY <1>4, <2>1, SubSeqProperties
  <2>3. k \in Nat /\ k - 1 + 1 = k /\ \A i \in 1 .. k : 1 + i - 1 = i
    BY <1>1
  <2>4. Len(f) = k
    BY <2>2, <2>3
  <2>5. \A i \in 1 .. k : f[i] = ss[i]
    BY <2>2, <2>3
  <2>6. QED
    BY <2>2, <2>4, <2>5
<1>6. PICK u : u = [j \in 0 .. k |-> t[j]]
  OBVIOUS
<1>7. Joins(u, f, k, S)
  <2>1. /\ t \in [0 .. n -> Seq(S)] /\ t[0] = <<>>
        /\ \A j \in 1 .. n : t[j] = t[j - 1] \o ss[j] /\ ss[j] \in Seq(S)
    BY <1>1 DEF Joins
  <2>2. u \in [0 .. k -> Seq(S)] /\ u[0] = <<>>
    <3>1. \A j \in 0 .. k : t[j] \in Seq(S)
      BY <1>1, <2>1
    <3>2. 0 \in 0 .. k
      BY <1>1
    <3>3. QED
      BY <1>6, <2>1, <3>1, <3>2
  <2>3. ASSUME NEW j \in 1 .. k PROVE u[j] = u[j - 1] \o f[j] /\ f[j] \in Seq(S)
    <3>1. j \in 1 .. n /\ j \in 0 .. k /\ j - 1 \in 0 .. k
      BY <1>1
    <3>2. u[j] = t[j] /\ u[j - 1] = t[j - 1]
      BY <1>6, <3>1
    <3>3. t[j] = t[j - 1] \o ss[j] /\ ss[j] \in Seq(S)
      BY <2>1, <3>1
    <3>4. f[j] = ss[j]
      BY <1>5
    <3>5. QED
      BY <3>2, <3>3, <3>4, Zenon
  <2>4. QED
    BY <2>2, <2>3 DEF Joins
<1>8. FlattenSeq(f) = u[k]
  <2>1. f \in Seq(Seq(S)) /\ Joins(u, f, Len(f), S)
    BY <1>2, <1>5, <1>7
  <2>2. FlattenSeq(f) = u[Len(f)]
    BY <2>1, Flat
  <2>3. QED
    BY <1>5, <2>2
<1>9. u[k] = t[k]
  BY <1>1, <1>6
<1>10. QED
  BY <1>4, <1>8, <1>9

(* A packed microbatch is a bin: its rows, its width.                      *)
Bins(micro, mine, L, lens) ==
  \A k \in 1 .. Len(mine) : /\ SubSeq(L, From(micro, k), To(micro, k)) = mine[k]
                            /\ Breadth(micro, k) = Load(mine[k], lens)

(* The bounds of the bins tile their rows, a bin each.                     *)
LEMMA BoundsTiled ==
  ASSUME NEW I, NEW mine, mine \in Seq(Seq(I)), Len(mine) > 0, NEW padded, Measured(padded, I)
  PROVE  /\ Tiles(Bounds(mine, padded), Len(mine), Len(FlattenSeq(mine)))
         /\ Bins(Bounds(mine, padded), mine, FlattenSeq(mine), padded)
         /\ FlattenSeq(mine) \in Seq(I)
<1>1. PICK q \in Nat : q = Len(mine) /\ q > 0
  OBVIOUS
<1>2. DOMAIN mine = 1 .. q /\ \A k \in 1 .. q : mine[k] \in Seq(I)
  BY <1>1
<1>3. PICK t : Joins(t, mine, q, I)
  BY <1>1, JoinsIs
<1>4. FlattenSeq(mine) = t[q] /\ FlattenSeq(mine) \in Seq(I)
  BY <1>1, <1>3, Flat
<1>5. PICK micro : micro = Bounds(mine, padded)
  OBVIOUS
<1>6. \A k \in 1 .. q : JoinsAt(t, mine, k, I)
  BY <1>3, JoinsLen
<1>7. \A k \in 1 .. q : /\ Len(t[k]) \in Nat /\ Len(t[k - 1]) \in Nat /\ Len(mine[k]) \in Nat
                        /\ Len(t[k]) = Len(t[k - 1]) + Len(mine[k])
  BY <1>6, Zenon DEF JoinsAt
<1>8. ASSUME NEW k \in 1 .. q
      PROVE  micro[k] = [from |-> Len(t[k - 1]) + 1, to |-> Len(t[k]), width |-> Load(mine[k], padded)]
  <2>1. k - 1 \in 0 .. q
    BY <1>1
  <2>2. FlattenSeq(SubSeq(mine, 1, k - 1)) = t[k - 1]
    <3>1. Joins(t, mine, Len(mine), I) /\ k - 1 \in 0 .. Len(mine)
      BY <1>1, <1>3, <2>1, Zenon
    <3>2. QED
      BY <3>1, JoinsFront
  <2>3. micro = [j \in DOMAIN mine |->
             LET before == Len(FlattenSeq(SubSeq(mine, 1, j - 1)))
             IN [from |-> before + 1, to |-> before + Len(mine[j]), width |-> Load(mine[j], padded)]]
    BY <1>5, Zenon DEF Bounds
  <2>4. micro[k] = [from |-> Len(t[k - 1]) + 1, to |-> Len(t[k - 1]) + Len(mine[k]), width |-> Load(mine[k], padded)]
    BY <1>2, <2>2, <2>3
  <2>5. Len(t[k]) = Len(t[k - 1]) + Len(mine[k])
    BY <1>7
  <2>6. QED
    BY <2>4, <2>5, Zenon
<1>9. ASSUME NEW k \in 1 .. q
      PROVE  /\ From(micro, k) = Len(t[k - 1]) + 1 /\ To(micro, k) = Len(t[k])
             /\ Breadth(micro, k) = Load(mine[k], padded)
  <2>1. PICK x : x = Len(t[k - 1]) + 1
    OBVIOUS
  <2>2. PICK y : y = Len(t[k])
    OBVIOUS
  <2>3. PICK z : z = Load(mine[k], padded)
    OBVIOUS
  <2>4. PICK one : one = [from |-> x, to |-> y, width |-> z]
    OBVIOUS
  <2>5. one.from = x /\ one.to = y /\ one.width = z
    BY <2>4
  <2>6. micro[k] = one
    BY <1>8, <2>1, <2>2, <2>3, <2>4, Zenon
  <2>7. QED
    BY <2>1, <2>2, <2>3, <2>5, <2>6, Zenon DEF From, To, Breadth
<1>10. \A k \in 1 .. q : Load(mine[k], padded) \in Nat
  <2> SUFFICES ASSUME NEW k \in 1 .. q PROVE Load(mine[k], padded) \in Nat
    OBVIOUS
  <2>1. PICK b : b = mine[k] /\ b \in Seq(I)
    BY <1>2
  <2>2. padded \in [I -> Nat]
    BY DEF Measured
  <2>3. Load(b, padded) \in Nat
    BY <2>1, <2>2, LoadNat
  <2>4. QED
    BY <2>1, <2>3
<1>11. micro \in Seq(Bound) /\ Len(micro) = q
  <2>1. \A k \in 1 .. q : micro[k] \in Bound
    <3> SUFFICES ASSUME NEW k \in 1 .. q PROVE micro[k] \in Bound
      OBVIOUS
    <3>1. PICK x, y, z \in Nat : x = Len(t[k - 1]) + 1 /\ y = Len(t[k]) /\ z = Load(mine[k], padded)
      <4>1. PICK u \in Nat : u = Len(t[k - 1])
        BY <1>7
      <4>2. PICK v \in Nat : v = u + 1
        OBVIOUS
      <4>3. v = Len(t[k - 1]) + 1
        BY <4>1, <4>2
      <4>4. QED
        BY <1>7, <1>10, <4>3, Zenon
    <3>2. [from |-> x, to |-> y, width |-> z] \in Bound
      BY DEF Bound
    <3>3. QED
      BY <1>8, <3>1, <3>2, Zenon
  <2>2. micro = [k \in 1 .. q |-> micro[k]]
    <3>1. micro = [j \in DOMAIN mine |->
             LET before == Len(FlattenSeq(SubSeq(mine, 1, j - 1)))
             IN [from |-> before + 1, to |-> before + Len(mine[j]), width |-> Load(mine[j], padded)]]
      BY <1>5, Zenon DEF Bounds
    <3>2. DOMAIN micro = 1 .. q
      BY <1>2, <3>1, Zenon
    <3>3. micro = [k \in DOMAIN micro |-> micro[k]]
      BY <3>1, Zenon
    <3>4. QED
      BY <3>2, <3>3, Zenon
  <2>3. micro \in [1 .. q -> Bound]
    BY <2>1, <2>2, Zenon
  <2>4. QED
    BY <2>3
<1>12. From(micro, 1) = 1
  <2>1. t[0] = <<>> /\ Len(<<>>) = 0
    BY <1>3 DEF Joins
  <2>2. 1 \in 1 .. q /\ 1 - 1 = 0 /\ 0 + 1 = 1
    BY <1>1
  <2>3. From(micro, 1) = Len(t[1 - 1]) + 1
    BY <1>9, <2>2, Zenon
  <2>4. QED
    BY <2>1, <2>2, <2>3
<1>13. To(micro, q) = Len(t[q])
  <2>1. q \in 1 .. q
    BY <1>1
  <2>2. QED
    BY <1>9, <2>1
<1>14. \A k \in 1 .. q : From(micro, k) <= To(micro, k) + 1
  <2> SUFFICES ASSUME NEW k \in 1 .. q PROVE From(micro, k) <= To(micro, k) + 1
    OBVIOUS
  <2>1. PICK x, y, z \in Nat : x = Len(t[k - 1]) /\ y = Len(mine[k]) /\ z = Len(t[k])
    BY <1>7, Zenon
  <2>2. z = x + y
    BY <1>7, <2>1, Zenon
  <2>3. From(micro, k) = x + 1 /\ To(micro, k) = z
    BY <1>9, <2>1, Zenon
  <2>4. x + 1 <= z + 1
    BY <2>2
  <2>5. QED
    BY <2>3, <2>4, Zenon
<1>15. \A k \in 1 .. q - 1 : From(micro, k + 1) = To(micro, k) + 1
  <2> SUFFICES ASSUME NEW k \in 1 .. q - 1 PROVE From(micro, k + 1) = To(micro, k) + 1
    OBVIOUS
  <2>1. k \in 1 .. q /\ k + 1 \in 1 .. q /\ (k + 1) - 1 = k
    BY <1>1
  <2>2. From(micro, k + 1) = Len(t[(k + 1) - 1]) + 1 /\ To(micro, k) = Len(t[k])
    BY <1>9, <2>1, Zenon
  <2>3. QED
    BY <2>1, <2>2, Zenon
<1>16. Tiles(micro, q, Len(t[q]))
  BY <1>1, <1>11, <1>12, <1>13, <1>14, <1>15, Zenon DEF Tiles
<1>17. Bins(micro, mine, t[q], padded)
  <2>1. ASSUME NEW k \in 1 .. q PROVE SubSeq(t[q], From(micro, k), To(micro, k)) = mine[k]
    <3>1. Sliced(t, q, k, mine[k])
      BY <1>3, JoinsSlice
    <3>2. QED
      BY <1>9, <3>1, Zenon DEF Sliced
  <2>2. QED
    BY <1>1, <1>9, <2>1, Zenon DEF Bins
<1>18. QED
  BY <1>1, <1>4, <1>5, <1>16, <1>17, Zenon

(* Microbatches of a fixed number of rows.                                 *)
AsWide(micro, width) == \A k \in 1 .. Len(micro) : Breadth(micro, k) = width

(* Microbatches of a fixed size tile a part they divide.                   *)
LEMMA FixedMicroTiled ==
  ASSUME NEW size \in Nat, size > 0, NEW mbs \in Nat, mbs > 0, size % mbs = 0, NEW width \in Nat
  PROVE  Tiled(FixedMicro(size, mbs, width), size) /\ AsWide(FixedMicro(size, mbs, width), width)
<1>1. PICK q, r \in Nat : q = size \div mbs /\ r = size % mbs /\ r < mbs /\ size = q * mbs + r
  BY Division, Zenon
<1>2. r = 0
  BY <1>1
<1>3. PICK qm \in Nat : qm = q * mbs
  BY Multiples
<1>4. size = qm
  BY <1>1, <1>2, <1>3
<1>5. q > 0
  <2> SUFFICES ASSUME q = 0 PROVE FALSE
    OBVIOUS
  <2>1. 0 * mbs = 0
    OBVIOUS
  <2>2. QED
    BY <1>3, <1>4, <2>1
<1>6. PICK micro : micro = [k \in 1 .. q |-> [from |-> (k - 1) * mbs + 1, to |-> k * mbs, width |-> width]]
  OBVIOUS
<1>7. FixedMicro(size, mbs, width) = micro
  BY <1>1, <1>6, Zenon DEF FixedMicro
<1>8. ASSUME NEW k \in 1 .. q
      PROVE  /\ micro[k] \in Bound /\ From(micro, k) = (k - 1) * mbs + 1 /\ To(micro, k) = k * mbs
             /\ Breadth(micro, k) = width
  <2>1. PICK x \in Nat, y \in Nat : x = (k - 1) * mbs + 1 /\ y = k * mbs
    <3>1. k - 1 \in Nat /\ k \in Nat
      OBVIOUS
    <3>2. (k - 1) * mbs \in Nat /\ k * mbs \in Nat
      BY <3>1, Multiples
    <3>3. PICK u \in Nat, v \in Nat : u = (k - 1) * mbs /\ v = k * mbs
      BY <3>2, Zenon
    <3>4. PICK w \in Nat : w = u + 1
      OBVIOUS
    <3>5. QED
      BY <3>3, <3>4, Zenon
  <2>2. micro[k] = [from |-> x, to |-> y, width |-> width]
    BY <1>6, <2>1, Zenon
  <2>3. PICK one : one = [from |-> x, to |-> y, width |-> width]
    OBVIOUS
  <2>4. one \in Bound /\ one.from = x /\ one.to = y /\ one.width = width
    BY <2>3 DEF Bound
  <2>5. QED
    BY <2>1, <2>2, <2>3, <2>4, Zenon DEF From, To, Breadth
<1>9. micro \in Seq(Bound) /\ Len(micro) = q
  <2>1. \A k \in 1 .. q : micro[k] \in Bound
    BY <1>8, Zenon
  <2>2. micro = [k \in 1 .. q |-> micro[k]]
    BY <1>6, Zenon
  <2>3. QED
    BY <2>1, <2>2
<1>10. From(micro, 1) = 1
  <2>1. 1 \in 1 .. q
    BY <1>5
  <2>2. (1 - 1) * mbs + 1 = 1
    OBVIOUS
  <2>3. QED
    BY <1>8, <2>1, <2>2, Zenon
<1>11. To(micro, q) = size
  <2>1. q \in 1 .. q
    BY <1>5
  <2>2. QED
    BY <1>3, <1>4, <1>8, <2>1, Zenon
<1>12. \A k \in 1 .. q : From(micro, k) <= To(micro, k) + 1
  <2> SUFFICES ASSUME NEW k \in 1 .. q PROVE (k - 1) * mbs + 1 <= k * mbs + 1
    BY <1>8, Zenon
  <2>1. PICK j \in Nat : j = k - 1 /\ j + 1 = k
    OBVIOUS
  <2>2. (j + 1) * mbs = j * mbs + 1 * mbs /\ j * mbs \in Nat
    BY Multiples
  <2>3. PICK x \in Nat : x = j * mbs
    BY <2>2
  <2>4. x + 1 <= x + mbs + 1
    OBVIOUS
  <2>5. k * mbs = x + mbs
    BY <2>1, <2>2, <2>3
  <2>6. QED
    BY <2>1, <2>3, <2>4, <2>5
<1>13. \A k \in 1 .. q - 1 : From(micro, k + 1) = To(micro, k) + 1
  <2> SUFFICES ASSUME NEW k \in 1 .. q - 1 PROVE From(micro, k + 1) = To(micro, k) + 1
    OBVIOUS
  <2>1. k \in 1 .. q /\ k + 1 \in 1 .. q /\ (k + 1) - 1 = k
    OBVIOUS
  <2>2. QED
    BY <1>8, <2>1, Zenon
<1>14. Tiles(micro, q, size)
  BY <1>5, <1>9, <1>10, <1>11, <1>12, <1>13 DEF Tiles
<1>15. QED
  BY <1>7, <1>8, <1>9, <1>14 DEF Tiled, AsWide

-----------------------------------------------------------------------------
(***************************************************************************)
(* Parts of one size.                                                      *)
(***************************************************************************)
(* p is the n places of list that follow the first o.                      *)
CutOut(p, list, o, n, S) ==
  /\ p \in Seq(S) /\ Len(p) = n /\ DOMAIN p = 1 .. n
  /\ \A i \in 1 .. n : p[i] = list[o + i]
ListOf(list, n, S) == list \in Seq(S) /\ Len(list) = n /\ DOMAIN list = 1 .. n

(* A part of a list.                                                       *)
LEMMA PartIs ==
  ASSUME NEW S, NEW n \in Nat, NEW list, ListOf(list, n, S),
         NEW size \in Nat, size > 0, NEW c \in Nat, NEW o \in Nat, o = c * size, o + size <= n
  PROVE  CutOut(Part(list, c + 1, size), list, o, size, S)
<1>1. list \in Seq(S) /\ Len(list) = n
  BY DEF ListOf
<1>2. ((c + 1) - 1) * size + 1 = o + 1 /\ (c + 1) * size = o + size
  <2>1. (c + 1) - 1 = c
    OBVIOUS
  <2>2. (c + 1) * size = c * size + 1 * size /\ 1 * size = size
    BY Multiples
  <2>3. QED
    BY <2>1, <2>2
<1>3. PICK p : p = SubSeq(list, o + 1, o + size)
  OBVIOUS
<1>4. PICK e \in Nat, f \in Nat : e = o + 1 /\ f = o + size
  OBVIOUS
<1>5. \A i \in e .. f : list[i] \in S
  <2>1. \A i \in e .. f : i \in 1 .. n
    BY <1>4
  <2>2. QED
    BY <1>1, <2>1
<1>6. /\ p \in Seq(S) /\ Len(p) = IF e <= f THEN f - e + 1 ELSE 0
      /\ \A i \in 1 .. f - e + 1 : p[i] = list[e + i - 1]
  <2>1. e \in Int /\ f \in Int /\ p = SubSeq(list, e, f)
    BY <1>3, <1>4
  <2>2. QED
    BY <1>5, <2>1, SubSeqProperties
<1>7. e <= f /\ f - e + 1 = size /\ \A i \in 1 .. size : e + i - 1 = o + i
  BY <1>4
<1>8. Len(p) = size
  BY <1>6, <1>7
<1>9. \A i \in 1 .. size : p[i] = list[o + i]
  BY <1>6, <1>7
<1>10. DOMAIN p = 1 .. size
  BY <1>6, <1>8
<1>11. Part(list, c + 1, size) = p
  BY <1>2, <1>3 DEF Part
<1>12. QED
  BY <1>6, <1>8, <1>9, <1>10, <1>11, Zenon DEF CutOut

(* Lists of one length, joined: the k-th is the k-th part.                 *)
SameLong(ss, q, size, S) ==
  /\ ss \in Seq(Seq(S)) /\ Len(ss) = q /\ DOMAIN ss = 1 .. q
  /\ \A k \in 1 .. q : ListOf(ss[k], size, S)
Cuttable(ss, q, size, S) ==
  /\ q * size \in Nat /\ ListOf(FlattenSeq(ss), q * size, S)
  /\ \A k \in 1 .. q : Part(FlattenSeq(ss), k, size) = ss[k]

(* Joined lists of one length.                                             *)
LEMMA JoinsSameLong ==
  ASSUME NEW S, NEW q \in Nat, NEW size \in Nat, size > 0, NEW ss, SameLong(ss, q, size, S),
         NEW t, Joins(t, ss, q, S), NEW k \in 0 .. q
  PROVE  Len(t[k]) = k * size
<1>1. t \in [0 .. q -> Seq(S)] /\ t[0] = <<>>
  BY DEF Joins
<1>2. PICK W : W = {j \in 0 .. q : Len(t[j]) = j * size}
  OBVIOUS
<1>3. 0 \in W
  <2>1. Len(t[0]) = 0 /\ 0 * size = 0
    BY <1>1
  <2>2. 0 \in 0 .. q
    OBVIOUS
  <2>3. QED
    BY <1>2, <2>1, <2>2
<1>4. ASSUME NEW j \in 0 .. q - 1, j \in W PROVE j + 1 \in W
  <2>1. PICK i : i = j + 1 /\ i \in 1 .. q /\ i - 1 = j /\ i \in 0 .. q
    OBVIOUS
  <2>2. JoinsAt(t, ss, i, S)
    BY <2>1, JoinsLen
  <2>3. Len(t[i]) = Len(t[i - 1]) + Len(ss[i])
    BY <2>2 DEF JoinsAt
  <2>4. Len(ss[i]) = size
    BY <2>1 DEF SameLong, ListOf
  <2>5. Len(t[j]) = j * size
    BY <1>2, <1>4
  <2>6. (j + 1) * size = j * size + 1 * size /\ 1 * size = size
    BY Multiples
  <2>7. Len(t[i]) = (j + 1) * size
    BY <2>1, <2>3, <2>4, <2>5, <2>6
  <2>8. QED
    BY <1>2, <2>1, <2>7, Zenon
<1>5. \A j \in 0 .. q : j \in W
  BY <1>3, <1>4, Upward
<1>6. QED
  BY <1>2, <1>5

(* Lists of one length, joined, can be cut again.                          *)
LEMMA FlatCuttable ==
  ASSUME NEW S, NEW q \in Nat, NEW size \in Nat, size > 0, NEW ss, SameLong(ss, q, size, S)
  PROVE  Cuttable(ss, q, size, S)
<1>1. ss \in Seq(Seq(S)) /\ Len(ss) = q
  BY DEF SameLong
<1>2. PICK t : Joins(t, ss, q, S)
  BY <1>1, JoinsIs, Zenon
<1>3. FlattenSeq(ss) = t[q] /\ FlattenSeq(ss) \in Seq(S)
  <2>1. Joins(t, ss, Len(ss), S)
    BY <1>1, <1>2, Zenon
  <2>2. FlattenSeq(ss) = t[Len(ss)] /\ FlattenSeq(ss) \in Seq(S)
    BY <1>1, <2>1, Flat
  <2>3. QED
    BY <1>1, <2>2, Zenon
<1>4. PICK L : L = FlattenSeq(ss)
  OBVIOUS
<1>5. PICK qs \in Nat : qs = q * size
  BY Multiples
<1>6. Len(t[q]) = q * size
  <2>1. q \in 0 .. q
    OBVIOUS
  <2>2. QED
    BY <1>2, <2>1, JoinsSameLong
<1>7. ListOf(L, qs, S)
  <2>1. L \in Seq(S) /\ Len(L) = qs
    BY <1>3, <1>4, <1>5, <1>6, Zenon
  <2>2. DOMAIN L = 1 .. qs
    BY <2>1
  <2>3. QED
    BY <2>1, <2>2 DEF ListOf
<1>8. ASSUME NEW k \in 1 .. q PROVE Part(L, k, size) = ss[k]
  <2>1. Sliced(t, q, k, ss[k])
    BY <1>2, JoinsSlice
  <2>2. k - 1 \in 0 .. q /\ k \in 0 .. q
    OBVIOUS
  <2>3. Len(t[k - 1]) = (k - 1) * size /\ Len(t[k]) = k * size
    <3>1. \A j \in 0 .. q : Len(t[j]) = j * size
      BY <1>2, JoinsSameLong
    <3>2. QED
      BY <2>2, <3>1, Zenon
  <2>4. SubSeq(t[q], (k - 1) * size + 1, k * size) = ss[k]
    BY <2>1, <2>3, Zenon DEF Sliced
  <2>5. QED
    BY <1>3, <1>4, <2>4, Zenon DEF Part
<1>9. QED
  BY <1>4, <1>5, <1>7, <1>8, Zenon DEF Cuttable

(* The places of a table of rows of m, counted row by row.                 *)
Cell(k, s, m) == (k - 1) * m + s

(* A cell of a table of m columns.                                         *)
LEMMA CellIs ==
  ASSUME NEW q \in Nat, NEW m \in Nat, m > 0, NEW n \in Nat, n = q * m, NEW k \in 1 .. q, NEW s \in 1 .. m
  PROVE  Cell(k, s, m) \in 1 .. n
<1>1. PICK j \in Nat : j = k - 1 /\ j < q
  OBVIOUS
<1>2. (j + 1) * m <= q * m /\ (j + 1) * m = j * m + 1 * m /\ 1 * m = m
  BY <1>1, Multiples
<1>3. PICK jm \in Nat : jm = j * m
  BY Multiples
<1>4. jm + m <= n
  BY <1>2, <1>3
<1>5. jm + s \in 1 .. n
  BY <1>4
<1>6. Cell(k, s, m) = jm + s
  BY <1>1, <1>3 DEF Cell
<1>7. QED
  BY <1>5, <1>6

(* Two cells with one number are the same.                                 *)
LEMMA CellOnce ==
  ASSUME NEW q \in Nat, NEW m \in Nat, m > 0, NEW j \in 1 .. q, NEW k \in 1 .. q,
         NEW r \in 1 .. m, NEW s \in 1 .. m, Cell(j, r, m) = Cell(k, s, m)
  PROVE  j = k /\ r = s
<1>1. PICK x \in Nat, y \in Nat, a \in Nat, b \in Nat :
        x = j - 1 /\ y = k - 1 /\ a = r - 1 /\ b = s - 1 /\ a < m /\ b < m
  <2>1. j - 1 \in Nat /\ k - 1 \in Nat /\ r - 1 \in Nat /\ s - 1 \in Nat /\ r - 1 < m /\ s - 1 < m
    OBVIOUS
  <2>2. QED
    BY <2>1
<1>2. PICK xm \in Nat, ym \in Nat : xm = x * m /\ ym = y * m
  BY Multiples
<1>3. xm + a = ym + b
  BY <1>1, <1>2 DEF Cell
<1>4. (xm + a) \div m = x /\ (ym + b) \div m = y
  <2>1. (x * m + a) \div m = x
    BY <1>1, DivisionIs
  <2>2. (y * m + b) \div m = y
    BY <1>1, DivisionIs
  <2>3. QED
    BY <1>2, <2>1, <2>2
<1>5. x = y
  BY <1>3, <1>4
<1>6. xm = ym
  BY <1>2, <1>5
<1>7. a = b
  BY <1>3, <1>6
<1>8. QED
  BY <1>1, <1>5, <1>7

(* Every number is that of a cell.                                         *)
LEMMA CellOf ==
  ASSUME NEW q \in Nat, NEW m \in Nat, m > 0, NEW n \in Nat, n = q * m, NEW i \in 1 .. n
  PROVE  \E k \in 1 .. q, s \in 1 .. m : i = Cell(k, s, m)
<1>1. PICK a \in Nat : a = i - 1 /\ a < n
  BY OneLess
<1>2. PICK j, r \in Nat : j = a \div m /\ r = a % m /\ r < m /\ a = j * m + r
  BY Division, Zenon
<1>3. PICK jm \in Nat : jm = j * m
  BY Multiples
<1>4. jm < n
  BY <1>1, <1>2, <1>3
<1>5. j < q
  BY <1>3, <1>4, Multiples
<1>6. j + 1 \in 1 .. q /\ (j + 1) - 1 = j /\ r + 1 \in 1 .. m
  BY <1>2, <1>5
<1>7. i = jm + (r + 1)
  BY <1>1, <1>2, <1>3
<1>8. i = Cell(j + 1, r + 1, m)
  BY <1>3, <1>6, <1>7 DEF Cell
<1>9. QED
  BY <1>6, <1>8

(* A list dealt to m lists of q in turn, or cut into them.                 *)
DealtOut(bs, L, m, q) ==
  /\ Len(bs) = m
  /\ \A s \in 1 .. m : Len(bs[s]) = q /\ \A k \in 1 .. q : bs[s][k] = L[Cell(k, s, m)]
CutUp(bs, L, m, q) ==
  /\ Len(bs) = m
  /\ \A s \in 1 .. m : Len(bs[s]) = q /\ \A k \in 1 .. q : bs[s][k] = L[Cell(s, k, q)]

(* A list dealt in turn is held once.                                      *)
LEMMA DealtHolds ==
  ASSUME NEW D, NEW m \in Nat, m > 0, NEW q \in Nat, NEW n \in Nat, n = q * m,
         NEW L, Enumerates(L, D), Len(L) = n, NEW bs, DealtOut(bs, L, m, q)
  PROVE  Holds(bs, D)
<1>1. \A s, k : Placed(bs, s, k) <=> s \in 1 .. m /\ k \in 1 .. q
  BY DEF DealtOut, Placed
<1>2. \A s \in 1 .. m, k \in 1 .. q : Item(bs, s, k) = L[Cell(k, s, m)]
  BY DEF DealtOut, Item
<1>3. \A i \in 1 .. n : L[i] \in D
  BY DEF Enumerates
<1>4. \A s \in 1 .. m, k \in 1 .. q : Cell(k, s, m) \in 1 .. n
  BY CellIs
<1>5. ASSUME NEW s, NEW k, Placed(bs, s, k) PROVE Item(bs, s, k) \in D
  BY <1>1, <1>2, <1>3, <1>4, <1>5
<1>6. ASSUME NEW x \in D PROVE \E s, k : Placed(bs, s, k) /\ Item(bs, s, k) = x
  <2>1. PICK i \in 1 .. n : L[i] = x
    BY DEF Enumerates
  <2>2. PICK k \in 1 .. q, s \in 1 .. m : i = Cell(k, s, m)
    BY CellOf, ZenonT(40)
  <2>3. QED
    BY <1>1, <1>2, <2>1, <2>2, Zenon
<1>7. ASSUME NEW s, NEW r, NEW j, NEW k, Placed(bs, s, j), Placed(bs, r, k), Item(bs, s, j) = Item(bs, r, k)
      PROVE  s = r /\ j = k
  <2>1. s \in 1 .. m /\ r \in 1 .. m /\ j \in 1 .. q /\ k \in 1 .. q
    BY <1>1, <1>7
  <2>2. L[Cell(j, s, m)] = L[Cell(k, r, m)]
    BY <1>2, <1>7, <2>1, Zenon
  <2>3. Cell(j, s, m) \in 1 .. n /\ Cell(k, r, m) \in 1 .. n
    BY <1>4, <2>1
  <2>4. Cell(j, s, m) = Cell(k, r, m)
    BY <2>2, <2>3 DEF Enumerates
  <2>5. QED
    BY <2>1, <2>4, CellOnce, SMTT(40)
<1>8. QED
  BY <1>5, <1>6, <1>7 DEF Holds

(* A list cut into equal parts is held once.                               *)
LEMMA CutHolds ==
  ASSUME NEW D, NEW m \in Nat, NEW q \in Nat, q > 0, NEW n \in Nat, n = m * q,
         NEW L, Enumerates(L, D), Len(L) = n, NEW bs, CutUp(bs, L, m, q)
  PROVE  Holds(bs, D)
<1>1. \A s, k : Placed(bs, s, k) <=> s \in 1 .. m /\ k \in 1 .. q
  BY DEF CutUp, Placed
<1>2. \A s \in 1 .. m, k \in 1 .. q : Item(bs, s, k) = L[Cell(s, k, q)]
  BY DEF CutUp, Item
<1>3. \A i \in 1 .. n : L[i] \in D
  BY DEF Enumerates
<1>4. \A s \in 1 .. m, k \in 1 .. q : Cell(s, k, q) \in 1 .. n
  BY CellIs
<1>5. ASSUME NEW s, NEW k, Placed(bs, s, k) PROVE Item(bs, s, k) \in D
  BY <1>1, <1>2, <1>3, <1>4, <1>5
<1>6. ASSUME NEW x \in D PROVE \E s, k : Placed(bs, s, k) /\ Item(bs, s, k) = x
  <2>1. PICK i \in 1 .. n : L[i] = x
    BY DEF Enumerates
  <2>2. PICK s \in 1 .. m, k \in 1 .. q : i = Cell(s, k, q)
    BY CellOf, ZenonT(40)
  <2>3. QED
    BY <1>1, <1>2, <2>1, <2>2, Zenon
<1>7. ASSUME NEW s, NEW r, NEW j, NEW k, Placed(bs, s, j), Placed(bs, r, k), Item(bs, s, j) = Item(bs, r, k)
      PROVE  s = r /\ j = k
  <2>1. s \in 1 .. m /\ r \in 1 .. m /\ j \in 1 .. q /\ k \in 1 .. q
    BY <1>1, <1>7
  <2>2. L[Cell(s, j, q)] = L[Cell(r, k, q)]
    BY <1>2, <1>7, <2>1, Zenon
  <2>3. Cell(s, j, q) \in 1 .. n /\ Cell(r, k, q) \in 1 .. n
    BY <1>4, <2>1
  <2>4. Cell(s, j, q) = Cell(r, k, q)
    BY <2>2, <2>3 DEF Enumerates
  <2>5. QED
    BY <2>1, <2>4, CellOnce, SMTT(40)
<1>8. QED
  BY <1>5, <1>6, <1>7 DEF Holds

-----------------------------------------------------------------------------
(***************************************************************************)
(* The shards: what of every global batch each of them holds.              *)
(***************************************************************************)
(* N rows in G global batches of b, of which every shard of m has q.       *)
Sizes(N, G, b, m, q) ==
  /\ N \in Nat /\ G \in Nat /\ b \in Nat /\ m \in Nat /\ q \in Nat
  /\ m > 0 /\ q > 0 /\ b > 0 /\ b = m * q /\ b = q * m /\ N = G * b

(* The sizes, from the assertions of the sharding.                         *)
LEMMA SizesAre ==
  ASSUME NEW N \in Nat, NEW b \in Nat, b > 0, NEW m \in Nat, m > 0, N % b = 0, b % m = 0
  PROVE  Sizes(N, N \div b, b, m, b \div m)
<1>1. PICK G, r \in Nat : G = N \div b /\ r = N % b /\ r < b /\ N = G * b + r
  BY Division, Zenon
<1>2. PICK q, t \in Nat : q = b \div m /\ t = b % m /\ t < m /\ b = q * m + t
  BY Division, Zenon
<1>3. PICK Gb \in Nat, qm \in Nat : Gb = G * b /\ qm = q * m
  BY Multiples
<1>4. N = Gb /\ b = qm
  BY <1>1, <1>2, <1>3
<1>5. q > 0
  <2> SUFFICES ASSUME q = 0 PROVE FALSE
    OBVIOUS
  <2>1. 0 * m = 0
    OBVIOUS
  <2>2. QED
    BY <1>3, <1>4, <2>1
<1>6. m * q = q * m
  OBVIOUS
<1>7. b = q * m /\ N = G * b
  BY <1>3, <1>4
<1>8. b = m * q
  BY <1>6, <1>7
<1>9. QED
  BY <1>1, <1>2, <1>5, <1>7, <1>8, Zenon DEF Sizes

(* The c-th chunk of the rows.                                             *)
Chunk(c, b) == (c - 1) * b + 1 .. (c - 1) * b + b

(* Where a chunk begins.                                                   *)
LEMMA ChunkAt ==
  ASSUME NEW N, NEW G, NEW b, NEW m, NEW q, Sizes(N, G, b, m, q), NEW c \in 1 .. G
  PROVE  \E o \in Nat : o = (c - 1) * b /\ o + b <= N /\ Chunk(c, b) = o + 1 .. o + b
<1>1. N \in Nat /\ G \in Nat /\ b \in Nat /\ b > 0 /\ N = G * b
  BY DEF Sizes
<1>2. PICK j \in Nat : j = c - 1 /\ j < G
  BY <1>1
<1>3. (j + 1) * b <= G * b /\ (j + 1) * b = j * b + 1 * b /\ 1 * b = b
  BY <1>1, <1>2, Multiples
<1>4. PICK o \in Nat : o = j * b
  BY <1>1, Multiples
<1>5. o + b <= N
  BY <1>1, <1>3, <1>4
<1>6. o = (c - 1) * b
  BY <1>2, <1>4
<1>7. QED
  BY <1>5, <1>6, Zenon DEF Chunk

(* The part of a list at a chunk.                                          *)
LEMMA ChunkPart ==
  ASSUME NEW N, NEW G, NEW b, NEW m, NEW q, Sizes(N, G, b, m, q), NEW c \in 1 .. G,
         NEW S, NEW rows, ListOf(rows, N, S), NEW o, o = (c - 1) * b
  PROVE  CutOut(Part(rows, c, b), rows, o, b, S)
<1>1. PICK z \in Nat : z = (c - 1) * b /\ z + b <= N
  BY ChunkAt, Zenon
<1>2. N \in Nat /\ G \in Nat /\ b \in Nat /\ b > 0
  BY DEF Sizes
<1>3. PICK j \in Nat : j = c - 1 /\ j + 1 = c
  BY <1>2
<1>4. z = j * b
  BY <1>1, <1>3, Zenon
<1>5. CutOut(Part(rows, j + 1, b), rows, z, b, S)
  BY <1>1, <1>2, <1>4, PartIs
<1>6. QED
  BY <1>1, <1>3, <1>5, Zenon

(* EqualShards, shard by shard: a part of every chunk.                     *)
Piece(rows, c, b, s, q) == Part(Part(rows, c, b), s, q)
Pieces(rows, s, G, b, q) == [c \in 1 .. G |-> Piece(rows, c, b, s, q)]

(* The piece of a shard in a chunk.                                        *)
LEMMA PieceIs ==
  ASSUME NEW N, NEW G, NEW b, NEW m, NEW q, Sizes(N, G, b, m, q), NEW c \in 1 .. G, NEW s \in 1 .. m,
         NEW S, NEW rows, ListOf(rows, N, S)
  PROVE  /\ ListOf(Piece(rows, c, b, s, q), q, S)
         /\ \A k \in 1 .. q : Piece(rows, c, b, s, q)[k] = Part(rows, c, b)[Cell(s, k, q)]
<1>1. b \in Nat /\ m \in Nat /\ q \in Nat /\ q > 0 /\ b = m * q
  BY DEF Sizes
<1>2. PICK chunk : chunk = Part(rows, c, b)
  OBVIOUS
<1>3. ListOf(chunk, b, S)
  <2>1. CutOut(chunk, rows, (c - 1) * b, b, S)
    BY <1>2, ChunkPart
  <2>2. QED
    BY <2>1 DEF CutOut, ListOf
<1>4. PICK j \in Nat : j = s - 1 /\ j + 1 = s /\ j < m
  BY <1>1
<1>5. PICK z \in Nat : z = j * q
  BY <1>1, Multiples
<1>6. z + q <= b
  <2>1. (j + 1) * q <= m * q /\ (j + 1) * q = j * q + 1 * q /\ 1 * q = q
    BY <1>1, <1>4, Multiples
  <2>2. QED
    BY <1>1, <1>5, <2>1
<1>7. CutOut(Part(chunk, j + 1, q), chunk, z, q, S)
  BY <1>1, <1>3, <1>5, <1>6, PartIs
<1>8. CutOut(Piece(rows, c, b, s, q), chunk, z, q, S)
  BY <1>2, <1>4, <1>7, Zenon DEF Piece
<1>9. \A k \in 1 .. q : Cell(s, k, q) = z + k
  BY <1>4, <1>5 DEF Cell
<1>10. QED
  BY <1>2, <1>8, <1>9, Zenon DEF CutOut, ListOf

(* A shard is its pieces, one behind the other.                            *)
LEMMA EqualShardsIs ==
  ASSUME NEW N, NEW G, NEW b, NEW m, NEW q, Sizes(N, G, b, m, q), NEW s \in 1 .. m,
         NEW S, NEW rows, ListOf(rows, N, S), N \div b = G, b \div m = q
  PROVE  /\ EqualShards(rows, b, m)[s] = FlattenSeq(Pieces(rows, s, G, b, q))
         /\ SameLong(Pieces(rows, s, G, b, q), G, q, S)
<1>1. Len(rows) = N
  BY DEF ListOf
<1>2. EqualShards(rows, b, m)[s] = FlattenSeq(Pieces(rows, s, G, b, q))
  BY <1>1, Zenon DEF EqualShards, Pieces, Piece
<1>3. PICK p : p = Pieces(rows, s, G, b, q)
  OBVIOUS
<1>4. \A c \in 1 .. G : ListOf(p[c], q, S)
  <2> SUFFICES ASSUME NEW c \in 1 .. G PROVE ListOf(p[c], q, S)
    OBVIOUS
  <2>1. p[c] = Piece(rows, c, b, s, q)
    BY <1>3 DEF Pieces
  <2>2. ListOf(Piece(rows, c, b, s, q), q, S)
    BY PieceIs
  <2>3. QED
    BY <2>1, <2>2, Zenon
<1>5. p \in [1 .. G -> Seq(S)]
  <2>1. \A c \in 1 .. G : p[c] \in Seq(S)
    BY <1>4, Zenon DEF ListOf
  <2>2. p = [c \in 1 .. G |-> p[c]]
    BY <1>3, Zenon DEF Pieces
  <2>3. QED
    BY <2>1, <2>2, Zenon
<1>6. p \in Seq(Seq(S)) /\ Len(p) = G /\ DOMAIN p = 1 .. G
  <2>1. G \in Nat
    BY DEF Sizes
  <2>2. PICK U : U = Seq(S)
    OBVIOUS
  <2>3. p \in [1 .. G -> U]
    BY <1>5, <2>2
  <2>4. p \in Seq(U) /\ Len(p) = G /\ DOMAIN p = 1 .. G
    BY <2>1, <2>3
  <2>5. QED
    BY <2>2, <2>4, Zenon
<1>7. QED
  BY <1>2, <1>3, <1>4, <1>6, Zenon DEF SameLong

(* P[s][g]: the rows of global batch g that shard s has; its microbatches  *)
(* are those rows, one after the other.                                    *)
Slices(p, G, S) == p \in Seq(Seq(S)) /\ Len(p) = G /\ DOMAIN p = 1 .. G
Shape(shard, p, G, S) ==
  /\ Slices(p, G, S) /\ shard.rows = FlattenSeq(p) /\ DOMAIN shard.micro = 1 .. G
  /\ \A g \in 1 .. G : Tiled(shard.micro[g], Len(p[g]))
Splits(ss, P, m, G, S) == \A s \in 1 .. m : Shape(ss[s], P[s], G, S)

(* Every row of a chunk is with one shard, once.                           *)
Column(P, m, g) == [s \in 1 .. m |-> P[s][g]]
Once(P, m, G, b) == \A g \in 1 .. G : Holds(Column(P, m, g), Chunk(g, b))

(* The shards have as many microbatches.                                   *)
SameMicro(ss, m, G) ==
  \A r, s \in 1 .. m, g \in 1 .. G : Len(ss[r].micro[g]) = Len(ss[s].micro[g])

(* The rows of a microbatch, and what holds of them and their width.       *)
CutRows(p, micro, k) == SubSeq(p, From(micro, k), To(micro, k))
CutLong(p, micro, k) == Len(CutRows(p, micro, k)) = To(micro, k) - From(micro, k) + 1
CutFrom(p, micro, k, n) ==
  \A i \in Range(CutRows(p, micro, k)) :
    \E x \in From(micro, k) .. To(micro, k) : x \in 1 .. n /\ i = p[x]
Uncut(p, micro, lens) ==
  \A k \in 1 .. Len(micro) : \A i \in Range(CutRows(p, micro, k)) : lens[i] <= Breadth(micro, k)
AllUncut(ss, P, m, G, lens) == \A s \in 1 .. m, g \in 1 .. G : Uncut(P[s][g], ss[s].micro[g], lens)

(* The rows of a batch as a list.                                          *)
LEMMA RowsList ==
  ASSUME NEW N \in Nat, NEW lens, Measured(lens, 1 .. N)
  PROVE  ListOf(Rows(lens), N, 1 .. N) /\ \A i \in 1 .. N : Rows(lens)[i] = i
<1>1. DOMAIN lens = 1 .. N
  BY DEF Measured
<1>2. Rows(lens) = [i \in 1 .. N |-> i]
  BY <1>1, Zenon DEF Rows
<1>3. PICK f : f = [i \in 1 .. N |-> i]
  OBVIOUS
<1>4. f \in [1 .. N -> 1 .. N] /\ \A i \in 1 .. N : f[i] = i
  BY <1>3
<1>5. f \in Seq(1 .. N) /\ Len(f) = N /\ DOMAIN f = 1 .. N
  BY <1>4
<1>6. QED
  BY <1>2, <1>3, <1>4, <1>5, Zenon DEF ListOf

(* The rows of a chunk as a list.                                          *)
LEMMA ChunkListed ==
  ASSUME NEW N, NEW G, NEW b, NEW m, NEW q, Sizes(N, G, b, m, q), NEW c \in 1 .. G,
         NEW lens, Measured(lens, 1 .. N)
  PROVE  /\ Enumerates(Part(Rows(lens), c, b), Chunk(c, b))
         /\ Len(Part(Rows(lens), c, b)) = b
<1>0. N \in Nat /\ b \in Nat
  BY DEF Sizes
<1>1. ListOf(Rows(lens), N, 1 .. N) /\ \A i \in 1 .. N : Rows(lens)[i] = i
  BY <1>0, RowsList
<1>2. PICK o \in Nat : o = (c - 1) * b /\ o + b <= N /\ Chunk(c, b) = o + 1 .. o + b
  BY ChunkAt, Zenon
<1>3. PICK p : p = Part(Rows(lens), c, b)
  OBVIOUS
<1>4. CutOut(p, Rows(lens), o, b, 1 .. N)
  BY <1>1, <1>2, <1>3, ChunkPart
<1>5. DOMAIN p = 1 .. b /\ Len(p) = b /\ \A i \in 1 .. b : p[i] = Rows(lens)[o + i]
  BY <1>4 DEF CutOut
<1>6. \A i \in 1 .. b : p[i] = o + i
  <2> SUFFICES ASSUME NEW i \in 1 .. b PROVE p[i] = o + i
    OBVIOUS
  <2>1. o + i \in 1 .. N
    BY <1>0, <1>2
  <2>2. QED
    BY <1>1, <1>5, <2>1
<1>7. \A i \in 1 .. b : p[i] \in Chunk(c, b)
  BY <1>0, <1>2, <1>6
<1>8. p \in Seq(Chunk(c, b))
  <2>1. p \in Seq(1 .. N)
    BY <1>4 DEF CutOut
  <2>2. p \in [1 .. b -> Chunk(c, b)]
    <3>1. p = [i \in 1 .. Len(p) |-> p[i]]
      BY <2>1
    <3>2. p = [i \in 1 .. b |-> p[i]]
      BY <1>5, <3>1, Zenon
    <3>3. QED
      BY <1>7, <3>2, Zenon
  <2>3. QED
    BY <1>0, <2>2
<1>9. \A i, j \in 1 .. b : p[i] = p[j] => i = j
  BY <1>0, <1>6
<1>10. \A x \in Chunk(c, b) : \E i \in 1 .. b : p[i] = x
  <2> SUFFICES ASSUME NEW x \in o + 1 .. o + b PROVE \E i \in 1 .. b : p[i] = x
    BY <1>2, Zenon
  <2>1. x - o \in 1 .. b /\ o + (x - o) = x
    BY <1>0
  <2>2. QED
    BY <1>6, <2>1
<1>11. QED
  BY <1>3, <1>5, <1>8, <1>9, <1>10, Zenon DEF Enumerates

(* The longest row.                                                        *)
LEMMA LongestIs ==
  ASSUME NEW N \in Nat, N > 0, NEW lens, Measured(lens, 1 .. N)
  PROVE  Max(Range(lens)) \in Nat /\ \A i \in 1 .. N : lens[i] <= Max(Range(lens))
<1>1. lens \in [1 .. N -> Nat]
  BY DEF Measured
<1>2. Numbers(lens, N)
  BY <1>1 DEF Numbers
<1>3. PICK x : x = Max({lens[k] : k \in 1 .. N}) /\ x \in Nat /\ \A k \in 1 .. N : lens[k] <= x
  BY <1>2, LargestOf
<1>4. Range(lens) = {lens[k] : k \in 1 .. N}
  BY <1>1 DEF Range
<1>5. QED
  BY <1>3, <1>4, Zenon

(* The bounds of a microbatch lie within the part.                         *)
LEMMA TilesBounds ==
  ASSUME NEW micro, NEW l, NEW n \in Nat, Tiles(micro, l, n), NEW k \in 1 .. Len(micro)
  PROVE  \E f, t \in Nat : f = From(micro, k) /\ t = To(micro, k) /\ f >= 1 /\ f <= t + 1 /\ t <= n
<1>1. k \in 1 .. l /\ From(micro, k) \in Nat /\ To(micro, k) \in Nat
  BY TilesParts
<1>2. From(micro, k) >= 1 /\ To(micro, k) <= n
  BY <1>1, TilesRise
<1>3. From(micro, k) <= To(micro, k) + 1
  BY <1>1 DEF Tiles
<1>4. QED
  BY <1>1, <1>2, <1>3

(* The rows of a microbatch are places of the part it is cut from.         *)
LEMMA CutRowsAre ==
  ASSUME NEW S, NEW n \in Nat, NEW p, ListOf(p, n, S), NEW micro, Tiled(micro, n), NEW k \in 1 .. Len(micro)
  PROVE  /\ CutRows(p, micro, k) \in Seq(S)
         /\ CutLong(p, micro, k)
         /\ CutFrom(p, micro, k, n)
<1>1. PICK l : Tiles(micro, l, n)
  BY DEF Tiled
<1>2. PICK f \in Nat, t \in Nat : f = From(micro, k) /\ t = To(micro, k) /\ f >= 1 /\ f <= t + 1 /\ t <= n
  BY <1>1, TilesBounds, Zenon
<1>3. p \in Seq(S) /\ Len(p) = n
  BY DEF ListOf
<1>4. \A i \in f .. t : i \in 1 .. n
  BY <1>2
<1>5. \A i \in f .. t : p[i] \in S
  BY <1>3, <1>4
<1>6. PICK r : r = SubSeq(p, f, t)
  OBVIOUS
<1>7. /\ r \in Seq(S) /\ Len(r) = IF f <= t THEN t - f + 1 ELSE 0
      /\ \A i \in 1 .. t - f + 1 : r[i] = p[f + i - 1]
  <2>1. f \in Int /\ t \in Int
    OBVIOUS
  <2>2. QED
    BY <1>5, <1>6, <2>1, SubSeqProperties
<1>8. CutRows(p, micro, k) = r
  BY <1>2, <1>6, Zenon DEF CutRows
<1>9. ASSUME NEW i \in Range(r) PROVE \E x \in f .. t : x \in 1 .. n /\ i = p[x]
  <2>1. PICK j \in DOMAIN r : i = r[j]
    BY Zenon DEF Range
  <2>2. DOMAIN r = 1 .. Len(r)
    BY <1>7
  <2>3. j \in 1 .. t - f + 1
    BY <1>2, <1>7, <2>1, <2>2
  <2>4. f + j - 1 \in f .. t
    BY <2>3
  <2>5. QED
    BY <1>4, <1>7, <2>1, <2>3, <2>4
<1>10. Len(r) = t - f + 1
  BY <1>2, <1>7
<1>11. QED
  BY <1>2, <1>7, <1>8, <1>9, <1>10, Zenon DEF CutLong, CutFrom

(* Its rows are rows of the part.                                          *)
LEMMA CutRowsIn ==
  ASSUME NEW S, NEW n \in Nat, NEW p, ListOf(p, n, S), NEW micro, Tiled(micro, n), NEW k \in 1 .. Len(micro),
         NEW i \in Range(CutRows(p, micro, k))
  PROVE  i \in S
<1>1. PICK x \in 1 .. n : i = p[x]
  <2>1. CutFrom(p, micro, k, n)
    BY CutRowsAre
  <2>2. QED
    BY <2>1, Zenon DEF CutFrom
<1>2. p \in Seq(S) /\ Len(p) = n
  BY DEF ListOf
<1>3. QED
  BY <1>1, <1>2

(* Every row of a table of equal pieces is in one of them.                 *)
LEMMA PiecesOnce ==
  ASSUME NEW N, NEW G, NEW b, NEW m, NEW q, Sizes(N, G, b, m, q), N \div b = G, b \div m = q,
         NEW S, NEW rows, ListOf(rows, N, S),
         \A c \in 1 .. G : Enumerates(Part(rows, c, b), Chunk(c, b)),
         NEW P, P = [s \in 1 .. m |-> Pieces(rows, s, G, b, q)]
  PROVE  Once(P, m, G, b)
<1>1. m \in Nat /\ q \in Nat /\ q > 0 /\ b \in Nat /\ b = m * q
  BY DEF Sizes
<1>2. ASSUME NEW c \in 1 .. G PROVE Holds(Column(P, m, c), Chunk(c, b))
  <2>1. PICK L : L = Part(rows, c, b)
    OBVIOUS
  <2>2. Enumerates(L, Chunk(c, b))
    BY <2>1
  <2>3. Len(L) = b
    <3>1. CutOut(L, rows, (c - 1) * b, b, S)
      BY <2>1, ChunkPart
    <3>2. QED
      BY <3>1 DEF CutOut
  <2>4. PICK bs : bs = Column(P, m, c)
    OBVIOUS
  <2>5. \A s \in 1 .. m : bs[s] = Piece(rows, c, b, s, q)
    BY <2>4 DEF Column, Pieces
  <2>6. Len(bs) = m
    BY <1>1, <2>4 DEF Column
  <2>7. \A s \in 1 .. m : Len(bs[s]) = q /\ \A k \in 1 .. q : bs[s][k] = L[Cell(s, k, q)]
    <3> SUFFICES ASSUME NEW s \in 1 .. m PROVE Len(bs[s]) = q /\ \A k \in 1 .. q : bs[s][k] = L[Cell(s, k, q)]
      OBVIOUS
    <3>1. /\ ListOf(Piece(rows, c, b, s, q), q, S)
          /\ \A k \in 1 .. q : Piece(rows, c, b, s, q)[k] = Part(rows, c, b)[Cell(s, k, q)]
      BY PieceIs
    <3>2. QED
      BY <2>1, <2>5, <3>1, Zenon DEF ListOf
  <2>8. CutUp(bs, L, m, q)
    BY <2>6, <2>7 DEF CutUp
  <2>9. Holds(bs, Chunk(c, b))
    BY <1>1, <2>2, <2>3, <2>8, CutHolds
  <2>10. QED
    BY <2>4, <2>9
<1>3. QED
  BY <1>2 DEF Once

(* Plain shards (shard_by_batch_size) give every row of a global batch to  *)
(* one shard, in microbatches as wide as any row.                          *)
THEOREM PlainSharded ==
  ASSUME NEW N, NEW G, NEW b, NEW m, NEW q, Sizes(N, G, b, m, q), N \div b = G, b \div m = q, N > 0,
         NEW lens, Measured(lens, 1 .. N), NEW mbs \in Nat, mbs > 0, q % mbs = 0,
         NEW ss, ss = PlainShards(lens, b, m, mbs),
         NEW P, P = [s \in 1 .. m |-> Pieces(Rows(lens), s, G, b, q)]
  PROVE  /\ Splits(ss, P, m, G, 1 .. N) /\ Once(P, m, G, b) /\ SameMicro(ss, m, G)
         /\ AllUncut(ss, P, m, G, lens)
<1>1. /\ N \in Nat /\ m \in Nat /\ q \in Nat /\ q > 0 /\ b \in Nat /\ b = m * q
  BY DEF Sizes
<1>2. PICK rows : rows = Rows(lens) /\ ListOf(rows, N, 1 .. N)
  BY <1>1, RowsList
<1>3. Len(lens) = N
  BY <1>1 DEF Measured
<1>4. PICK width \in Nat : width = Max(Range(lens)) /\ \A i \in 1 .. N : lens[i] <= width
  BY <1>1, LongestIs
<1>5. PICK micro : micro = FixedMicro(q, mbs, width)
  OBVIOUS
<1>6. Tiled(micro, q) /\ AsWide(micro, width)
  BY <1>1, <1>5, FixedMicroTiled
<1>7. ASSUME NEW s \in 1 .. m
      PROVE  /\ ss[s].rows = FlattenSeq(P[s])
             /\ DOMAIN ss[s].micro = 1 .. G /\ \A g \in 1 .. G : ss[s].micro[g] = micro
             /\ P[s] = Pieces(rows, s, G, b, q) /\ SameLong(P[s], G, q, 1 .. N)
  <2>1. ss[s] = [rows |-> EqualShards(Rows(lens), b, m)[s],
                 micro |-> [c \in Chunks(lens, b) |-> FixedMicro(b \div m, mbs, Max(Range(lens)))]]
    BY Zenon DEF PlainShards
  <2>2. PICK x : x = EqualShards(Rows(lens), b, m)[s]
    OBVIOUS
  <2>3. PICK y : y = [c \in Chunks(lens, b) |-> FixedMicro(b \div m, mbs, Max(Range(lens)))]
    OBVIOUS
  <2>4. ss[s].rows = x /\ ss[s].micro = y
    BY <2>1, <2>2, <2>3
  <2>5. Chunks(lens, b) = 1 .. G
    BY <1>3, Zenon DEF Chunks
  <2>6. y = [c \in 1 .. G |-> micro]
    BY <1>4, <1>5, <2>3, <2>5, Zenon
  <2>7. P[s] = Pieces(rows, s, G, b, q)
    BY <1>2
  <2>8. x = FlattenSeq(P[s]) /\ SameLong(P[s], G, q, 1 .. N)
    <3>1. /\ EqualShards(rows, b, m)[s] = FlattenSeq(Pieces(rows, s, G, b, q))
          /\ SameLong(Pieces(rows, s, G, b, q), G, q, 1 .. N)
      BY <1>2, EqualShardsIs
    <3>2. QED
      BY <1>2, <2>2, <2>7, <3>1, Zenon
  <2>9. DOMAIN y = 1 .. G /\ \A g \in 1 .. G : y[g] = micro
    BY <2>6
  <2>10. QED
    BY <2>4, <2>7, <2>8, <2>9, Zenon
<1>8. Splits(ss, P, m, G, 1 .. N)
  <2>1. ASSUME NEW s \in 1 .. m PROVE Shape(ss[s], P[s], G, 1 .. N)
    <3>1. Slices(P[s], G, 1 .. N) /\ \A g \in 1 .. G : Len(P[s][g]) = q
      BY <1>7, SMTT(40) DEF SameLong, Slices, ListOf
    <3>2. DOMAIN ss[s].micro = 1 .. G /\ \A g \in 1 .. G : ss[s].micro[g] = micro
      BY <1>7, Zenon
    <3>3. \A g \in 1 .. G : Tiled(ss[s].micro[g], Len(P[s][g]))
      BY <1>6, <3>1, <3>2, Zenon
    <3>4. QED
      BY <1>7, <3>1, <3>2, <3>3, Zenon DEF Shape
  <2>2. QED
    BY <2>1 DEF Splits
<1>9. SameMicro(ss, m, G)
  <2>1. \A s \in 1 .. m, g \in 1 .. G : ss[s].micro[g] = micro
    BY <1>7, Zenon
  <2>2. ASSUME NEW r \in 1 .. m, NEW s \in 1 .. m, NEW g \in 1 .. G
        PROVE  Len(ss[r].micro[g]) = Len(ss[s].micro[g])
    <3>1. ss[r].micro[g] = micro /\ ss[s].micro[g] = micro
      BY <2>1
    <3>2. QED
      BY <3>1, Zenon
  <2>3. QED
    BY <2>2 DEF SameMicro
<1>10. Once(P, m, G, b)
  <2>1. \A c \in 1 .. G : Enumerates(Part(rows, c, b), Chunk(c, b))
    BY <1>2, ChunkListed
  <2>2. P = [s \in 1 .. m |-> Pieces(rows, s, G, b, q)]
    BY <1>2
  <2>3. QED
    BY <1>2, <2>1, <2>2, PiecesOnce
<1>11. AllUncut(ss, P, m, G, lens)
  <2>1. ASSUME NEW s \in 1 .. m, NEW g \in 1 .. G PROVE Uncut(P[s][g], ss[s].micro[g], lens)
    <3>1. ss[s].micro[g] = micro
      BY <1>7, Zenon
    <3>2. ListOf(P[s][g], q, 1 .. N)
      BY <1>7, Zenon DEF SameLong
    <3>3. ASSUME NEW k \in 1 .. Len(micro), NEW i \in Range(CutRows(P[s][g], micro, k))
          PROVE  lens[i] <= Breadth(micro, k)
      <4>1. i \in 1 .. N
        <5>1. PICK p : p = P[s][g]
          OBVIOUS
        <5>2. ListOf(p, q, 1 .. N) /\ i \in Range(CutRows(p, micro, k))
          BY <3>2, <3>3, <5>1
        <5>3. QED
          BY <1>1, <1>6, <5>2, CutRowsIn
      <4>2. QED
        BY <1>4, <1>6, <4>1 DEF AsWide
    <3>4. QED
      BY <3>1, <3>3, Zenon DEF Uncut
  <2>2. QED
    BY <2>1 DEF AllUncut
<1>12. QED
  BY <1>8, <1>9, <1>10, <1>11

-----------------------------------------------------------------------------
(***************************************************************************)
(* Dynamic batching: the rows of a chunk dealt by length.                  *)
(***************************************************************************)
Ascending(lens, c, b) == StableAscending(Range(Part(Rows(lens), c, b)), lens)
Deal(lens, c, b, m, q, s) == [k \in 1 .. q |-> Ascending(lens, c, b)[s + (k - 1) * m]]
Deals(lens, c, b, m, q) == [s \in 1 .. m |-> Deal(lens, c, b, m, q, s)]

(* The elements of a list of a set.                                        *)
LEMMA RangeListed ==
  ASSUME NEW S, NEW L, Enumerates(L, S)
  PROVE  Range(L) = S
<1>1. L \in Seq(S) /\ \A x \in S : \E k \in 1 .. Len(L) : L[k] = x
  BY DEF Enumerates
<1>2. DOMAIN L = 1 .. Len(L) /\ \A k \in 1 .. Len(L) : L[k] \in S
  BY <1>1
<1>3. Range(L) = {L[k] : k \in DOMAIN L}
  BY Zenon DEF Range
<1>4. QED
  BY <1>1, <1>2, <1>3, Zenon

(* Its length.                                                             *)
LEMMA ListedSize ==
  ASSUME NEW S, NEW L, Enumerates(L, S)
  PROVE  Len(L) = Cardinality(S)
<1>1. PICK n \in Nat : n = Len(L)
  BY DEF Enumerates
<1>2. /\ L \in [1 .. n -> S]
      /\ \A x \in S : \E k \in 1 .. n : L[k] = x
      /\ \A j, k \in 1 .. n : L[j] = L[k] => j = k
  BY <1>1 DEF Enumerates
<1>3. ExistsBijection(1 .. n, S)
  BY <1>2 DEF ExistsBijection, Bijection, Injection, Surjection, IsInjective
<1>4. Cardinality(S) = n
  BY <1>3, FS_CountingElements
<1>5. QED
  BY <1>1, <1>4

(* The rows of a chunk by length.                                          *)
LEMMA AscendingIs ==
  ASSUME NEW N, NEW G, NEW b, NEW m, NEW q, Sizes(N, G, b, m, q), NEW c \in 1 .. G,
         NEW lens, Measured(lens, 1 .. N)
  PROVE  Enumerates(Ascending(lens, c, b), Chunk(c, b)) /\ Len(Ascending(lens, c, b)) = b
<1>1. N \in Nat /\ b \in Nat
  BY DEF Sizes
<1>2. Enumerates(Part(Rows(lens), c, b), Chunk(c, b)) /\ Len(Part(Rows(lens), c, b)) = b
  BY ChunkListed
<1>3. Range(Part(Rows(lens), c, b)) = Chunk(c, b)
  BY <1>2, RangeListed
<1>4. PICK o \in Nat : o + b <= N /\ Chunk(c, b) = o + 1 .. o + b
  BY ChunkAt, Zenon
<1>5. Chunk(c, b) \subseteq 1 .. N /\ Chunk(c, b) \subseteq Nat
  <2>1. o + 1 .. o + b \subseteq 1 .. N /\ o + 1 .. o + b \subseteq Nat
    BY <1>1, <1>4
  <2>2. QED
    BY <1>4, <2>1, Zenon
<1>6. IsFiniteSet(Chunk(c, b)) /\ Cardinality(Chunk(c, b)) = b
  <2>1. o + 1 \in Int /\ o + b \in Int
    BY <1>1
  <2>2. IsFiniteSet(o + 1 .. o + b)
    BY <2>1, FS_Interval
  <2>3. Cardinality(o + 1 .. o + b) = IF o + 1 > o + b THEN 0 ELSE (o + b) - (o + 1) + 1
    BY <2>1, FS_Interval
  <2>4. (IF o + 1 > o + b THEN 0 ELSE (o + b) - (o + 1) + 1) = b
    BY <1>1
  <2>5. QED
    BY <1>4, <2>2, <2>3, <2>4, Zenon
<1>7. PICK C : C = Chunk(c, b)
  OBVIOUS
<1>8. Enumerates(StableAscending(C, lens), C)
  <2>1. PICK I : I = 1 .. N
    OBVIOUS
  <2>2. Measured(lens, I) /\ C \subseteq I /\ C \subseteq Nat /\ IsFiniteSet(C)
    BY <1>5, <1>6, <1>7, <2>1, Zenon
  <2>3. QED
    BY <2>2, SortedLists
<1>9. Len(StableAscending(C, lens)) = Cardinality(C)
  BY <1>8, ListedSize
<1>10. QED
  BY <1>3, <1>6, <1>7, <1>8, <1>9, Zenon DEF Ascending

(* A deal is a list of q rows, the k-th the one at the place of the table. *)
LEMMA DealIs ==
  ASSUME NEW N, NEW G, NEW b, NEW m, NEW q, Sizes(N, G, b, m, q), NEW c \in 1 .. G, NEW s \in 1 .. m,
         NEW lens, Measured(lens, 1 .. N)
  PROVE  /\ ListOf(Deal(lens, c, b, m, q, s), q, 1 .. N)
         /\ \A k \in 1 .. q : Deal(lens, c, b, m, q, s)[k] = Ascending(lens, c, b)[Cell(k, s, m)]
<1>1. N \in Nat /\ b \in Nat /\ m \in Nat /\ m > 0 /\ q \in Nat /\ b = q * m
  BY DEF Sizes
<1>2. PICK L : L = Ascending(lens, c, b)
  OBVIOUS
<1>3. Enumerates(L, Chunk(c, b)) /\ Len(L) = b
  BY <1>2, AscendingIs
<1>4. Chunk(c, b) \subseteq 1 .. N
  <2>1. PICK o \in Nat : o + b <= N /\ Chunk(c, b) = o + 1 .. o + b
    BY ChunkAt, Zenon
  <2>2. o + 1 .. o + b \subseteq 1 .. N
    BY <1>1, <2>1
  <2>3. QED
    BY <2>1, <2>2, Zenon
<1>5. \A i \in 1 .. b : L[i] \in 1 .. N
  <2>1. L \in Seq(Chunk(c, b))
    BY <1>3 DEF Enumerates
  <2>2. \A i \in 1 .. Len(L) : L[i] \in Chunk(c, b)
    BY <2>1
  <2>3. QED
    BY <1>3, <1>4, <2>2, Zenon
<1>6. \A k \in 1 .. q : Cell(k, s, m) \in 1 .. b
  BY <1>1, CellIs
<1>7. \A k \in 1 .. q : s + (k - 1) * m = Cell(k, s, m)
  <2> SUFFICES ASSUME NEW k \in 1 .. q PROVE s + (k - 1) * m = (k - 1) * m + s
    BY DEF Cell
  <2>1. k - 1 \in Nat
    BY <1>1
  <2>2. PICK z \in Nat : z = (k - 1) * m
    BY <1>1, <2>1, Multiples
  <2>3. s + z = z + s
    BY <1>1
  <2>4. QED
    BY <2>2, <2>3, Zenon
<1>8. PICK d : d = Deal(lens, c, b, m, q, s)
  OBVIOUS
<1>9. d = [k \in 1 .. q |-> L[s + (k - 1) * m]]
  BY <1>2, <1>8, Zenon DEF Deal
<1>10. \A k \in 1 .. q : d[k] = L[Cell(k, s, m)]
  <2> SUFFICES ASSUME NEW k \in 1 .. q PROVE d[k] = L[Cell(k, s, m)]
    OBVIOUS
  <2>1. d[k] = L[s + (k - 1) * m]
    BY <1>9, Zenon
  <2>2. s + (k - 1) * m = Cell(k, s, m)
    BY <1>7
  <2>3. QED
    BY <2>1, <2>2, Zenon
<1>11. \A k \in 1 .. q : d[k] \in 1 .. N
  BY <1>5, <1>6, <1>10, Zenon
<1>12. ListOf(d, q, 1 .. N)
  <2>1. d = [k \in 1 .. q |-> d[k]]
    BY <1>9, Zenon
  <2>2. d \in [1 .. q -> 1 .. N]
    BY <1>11, <2>1, Zenon
  <2>3. d \in Seq(1 .. N) /\ Len(d) = q /\ DOMAIN d = 1 .. q
    BY <1>1, <2>2
  <2>4. QED
    BY <2>3 DEF ListOf
<1>13. QED
  BY <1>2, <1>8, <1>10, <1>12, Zenon

(* A list of lists of one length, as a function.                           *)
LEMMA SameLongIs ==
  ASSUME NEW S, NEW n \in Nat, NEW size, NEW f, DOMAIN f = 1 .. n, f = [k \in DOMAIN f |-> f[k]],
         \A k \in 1 .. n : ListOf(f[k], size, S)
  PROVE  SameLong(f, n, size, S)
<1>1. PICK U : U = Seq(S)
  OBVIOUS
<1>2. \A k \in 1 .. n : f[k] \in U
  BY <1>1, Zenon DEF ListOf
<1>3. f \in [1 .. n -> U]
  BY <1>2, Zenon
<1>4. f \in Seq(U) /\ Len(f) = n
  BY <1>3
<1>5. f \in Seq(Seq(S))
  BY <1>1, <1>4
<1>6. QED
  BY <1>4, <1>5, Zenon DEF SameLong

(* The rows of a chunk, dealt.                                             *)
LEMMA DealtIs ==
  ASSUME NEW N, NEW G, NEW b, NEW m, NEW q, Sizes(N, G, b, m, q), b \div m = q, NEW c \in 1 .. G,
         NEW lens, Measured(lens, 1 .. N)
  PROVE  /\ Dealt(Part(Rows(lens), c, b), lens, m) = FlattenSeq(Deals(lens, c, b, m, q))
         /\ SameLong(Deals(lens, c, b, m, q), m, q, 1 .. N)
         /\ Cuttable(Deals(lens, c, b, m, q), m, q, 1 .. N)
<1>1. m \in Nat /\ q \in Nat /\ q > 0
  BY DEF Sizes
<1>2. Len(Part(Rows(lens), c, b)) = b
  BY ChunkListed
<1>3. Dealt(Part(Rows(lens), c, b), lens, m) = FlattenSeq(Deals(lens, c, b, m, q))
  BY <1>2, Zenon DEF Dealt, Deals, Deal, Ascending
<1>4. PICK f : f = Deals(lens, c, b, m, q)
  OBVIOUS
<1>5. DOMAIN f = 1 .. m /\ f = [s \in DOMAIN f |-> f[s]]
  BY <1>4, Zenon DEF Deals
<1>6. \A s \in 1 .. m : ListOf(f[s], q, 1 .. N)
  <2> SUFFICES ASSUME NEW s \in 1 .. m PROVE ListOf(f[s], q, 1 .. N)
    OBVIOUS
  <2>1. f[s] = Deal(lens, c, b, m, q, s)
    BY <1>4, Zenon DEF Deals
  <2>2. ListOf(Deal(lens, c, b, m, q, s), q, 1 .. N)
    BY DealIs
  <2>3. QED
    BY <2>1, <2>2
<1>7. SameLong(f, m, q, 1 .. N)
  BY <1>1, <1>5, <1>6, SameLongIs
<1>8. Cuttable(f, m, q, 1 .. N)
  BY <1>1, <1>7, FlatCuttable
<1>9. QED
  BY <1>3, <1>4, <1>7, <1>8, Zenon

(* The chunks dealt, one behind the other.                                 *)
Dealts(lens, G, b, m) == [c \in 1 .. G |-> Dealt(Part(Rows(lens), c, b), lens, m)]

(* The rows of a batch, dealt chunk by chunk.                              *)
LEMMA SortedIs ==
  ASSUME NEW N, NEW G, NEW b, NEW m, NEW q, Sizes(N, G, b, m, q), N \div b = G, b \div m = q,
         NEW lens, Measured(lens, 1 .. N)
  PROVE  /\ ListOf(Sorted(lens, b, m), N, 1 .. N)
         /\ \A c \in 1 .. G : Part(Sorted(lens, b, m), c, b) = FlattenSeq(Deals(lens, c, b, m, q))
<1>1. N \in Nat /\ G \in Nat /\ b \in Nat /\ b > 0 /\ m \in Nat /\ q \in Nat /\ b = m * q /\ N = G * b
  BY DEF Sizes
<1>2. Len(lens) = N
  BY <1>1 DEF Measured
<1>3. PICK f : f = Dealts(lens, G, b, m)
  OBVIOUS
<1>4. Sorted(lens, b, m) = FlattenSeq(f)
  BY <1>2, <1>3, Zenon DEF Sorted, Dealts, Chunks
<1>5. DOMAIN f = 1 .. G /\ f = [c \in DOMAIN f |-> f[c]]
  BY <1>3, Zenon DEF Dealts
<1>6. ASSUME NEW c \in 1 .. G
      PROVE  f[c] = FlattenSeq(Deals(lens, c, b, m, q)) /\ ListOf(f[c], b, 1 .. N)
  <2>1. f[c] = Dealt(Part(Rows(lens), c, b), lens, m)
    BY <1>3, Zenon DEF Dealts
  <2>2. /\ Dealt(Part(Rows(lens), c, b), lens, m) = FlattenSeq(Deals(lens, c, b, m, q))
        /\ Cuttable(Deals(lens, c, b, m, q), m, q, 1 .. N)
    BY DealtIs
  <2>3. ListOf(FlattenSeq(Deals(lens, c, b, m, q)), m * q, 1 .. N)
    BY <2>2 DEF Cuttable
  <2>4. QED
    BY <1>1, <2>1, <2>2, <2>3, Zenon
<1>7. SameLong(f, G, b, 1 .. N)
  <2>1. \A c \in 1 .. G : ListOf(f[c], b, 1 .. N)
    BY <1>6
  <2>2. QED
    BY <1>1, <1>5, <2>1, SameLongIs
<1>8. Cuttable(f, G, b, 1 .. N)
  BY <1>1, <1>7, FlatCuttable
<1>9. ListOf(FlattenSeq(f), N, 1 .. N) /\ \A c \in 1 .. G : Part(FlattenSeq(f), c, b) = f[c]
  BY <1>1, <1>8, Zenon DEF Cuttable
<1>10. QED
  BY <1>4, <1>6, <1>9, Zenon

(* What a shard has of a chunk is a deal, and it can be cut out again.     *)
LEMMA DynamicPieces ==
  ASSUME NEW N, NEW G, NEW b, NEW m, NEW q, Sizes(N, G, b, m, q), N \div b = G, b \div m = q,
         NEW lens, Measured(lens, 1 .. N), NEW s \in 1 .. m,
         NEW p, p = Pieces(Sorted(lens, b, m), s, G, b, q),
         NEW rows, rows = EqualShards(Sorted(lens, b, m), b, m)[s]
  PROVE  /\ rows = FlattenSeq(p) /\ SameLong(p, G, q, 1 .. N)
         /\ \A c \in 1 .. G : p[c] = Deal(lens, c, b, m, q, s) /\ Part(rows, c, q) = p[c]
<1>1. G \in Nat /\ m \in Nat /\ q \in Nat /\ q > 0
  BY DEF Sizes
<1>2. /\ ListOf(Sorted(lens, b, m), N, 1 .. N)
      /\ \A c \in 1 .. G : Part(Sorted(lens, b, m), c, b) = FlattenSeq(Deals(lens, c, b, m, q))
  BY SortedIs
<1>3. rows = FlattenSeq(p) /\ SameLong(p, G, q, 1 .. N)
  <2>1. PICK L : L = Sorted(lens, b, m)
    OBVIOUS
  <2>2. ListOf(L, N, 1 .. N)
    BY <1>2, <2>1
  <2>3. /\ EqualShards(L, b, m)[s] = FlattenSeq(Pieces(L, s, G, b, q))
        /\ SameLong(Pieces(L, s, G, b, q), G, q, 1 .. N)
    BY <2>2, EqualShardsIs
  <2>4. QED
    BY <2>1, <2>3, Zenon
<1>4. Cuttable(p, G, q, 1 .. N)
  BY <1>1, <1>3, FlatCuttable
<1>5. ASSUME NEW c \in 1 .. G PROVE p[c] = Deal(lens, c, b, m, q, s) /\ Part(rows, c, q) = p[c]
  <2>1. p[c] = Part(Part(Sorted(lens, b, m), c, b), s, q)
    BY Zenon DEF Pieces, Piece
  <2>2. PICK f : f = Deals(lens, c, b, m, q)
    OBVIOUS
  <2>3. Part(FlattenSeq(f), s, q) = f[s]
    <3>1. Cuttable(f, m, q, 1 .. N)
      BY <2>2, DealtIs
    <3>2. QED
      BY <3>1, Zenon DEF Cuttable
  <2>4. f[s] = Deal(lens, c, b, m, q, s)
    BY <2>2, Zenon DEF Deals
  <2>5. p[c] = Deal(lens, c, b, m, q, s)
    BY <1>2, <2>1, <2>2, <2>3, <2>4, Zenon
  <2>6. Part(rows, c, q) = p[c]
    BY <1>3, <1>4, Zenon DEF Cuttable
  <2>7. QED
    BY <2>5, <2>6
<1>6. QED
  BY <1>3, <1>5

(* Within the budget.                                                      *)
Frugal(p, micro, budget) ==
  \A k \in 1 .. Len(micro) : Len(CutRows(p, micro, k)) * Breadth(micro, k) <= budget
AllFrugal(ss, P, m, G, budget) == \A s \in 1 .. m, g \in 1 .. G : Frugal(P[s][g], ss[s].micro[g], budget)

(* Covered within the budget: uncut and frugal.                            *)
LEMMA FittingCuts ==
  ASSUME NEW m \in Nat, NEW n \in Nat, NEW S, NEW parts, NEW micro, Tiled(micro, n), NEW lens, NEW budget,
         Fitting(micro, parts, m, lens, budget), NEW s \in 1 .. m, ListOf(parts[s], n, S)
  PROVE  Uncut(parts[s], micro, lens) /\ Frugal(parts[s], micro, budget)
<1>1. PICK p : p = parts[s]
  OBVIOUS
<1>2. ListOf(p, n, S)
  BY <1>1
<1>3. ASSUME NEW k \in 1 .. Len(micro), NEW i \in Range(CutRows(p, micro, k)) PROVE lens[i] <= Breadth(micro, k)
  <2>1. PICK x \in From(micro, k) .. To(micro, k) : i = p[x]
    <3>1. CutFrom(p, micro, k, n)
      BY <1>2, CutRowsAre
    <3>2. QED
      BY <1>3, <3>1, Zenon DEF CutFrom
  <2>2. Covers(parts, m, lens, From(micro, k), To(micro, k), Breadth(micro, k))
    BY DEF Fitting
  <2>3. lens[parts[s][x]] <= Breadth(micro, k)
    BY <2>2, Zenon DEF Covers
  <2>4. QED
    BY <1>1, <2>1, <2>3, Zenon
<1>4. ASSUME NEW k \in 1 .. Len(micro) PROVE Len(CutRows(p, micro, k)) * Breadth(micro, k) <= budget
  <2>1. Within(From(micro, k), To(micro, k), Breadth(micro, k), budget)
    BY DEF Fitting
  <2>2. CutLong(p, micro, k)
    BY <1>2, CutRowsAre
  <2>3. QED
    BY <2>1, <2>2, Zenon DEF Within, CutLong
<1>5. QED
  BY <1>1, <1>3, <1>4, Zenon DEF Uncut, Frugal

(* Dynamic batching gives every row of a global batch to one shard, cuts   *)
(* all shards at the same places, and no microbatch cuts a row short or is *)
(* over the token budget.                                                  *)
THEOREM DynamicSharded ==
  ASSUME NEW N, NEW G, NEW b, NEW m, NEW q, Sizes(N, G, b, m, q), N \div b = G, b \div m = q, N > 0,
         NEW lens, Measured(lens, 1 .. N), NEW round \in Nat, round > 0,
         NEW budget \in Nat, DynamicFits(lens, round, budget),
         NEW ss, ss = DynamicShards(lens, b, m, round, budget),
         NEW P, P = [s \in 1 .. m |-> Pieces(Sorted(lens, b, m), s, G, b, q)]
  PROVE  /\ Splits(ss, P, m, G, 1 .. N) /\ Once(P, m, G, b) /\ SameMicro(ss, m, G)
         /\ AllUncut(ss, P, m, G, lens) /\ AllFrugal(ss, P, m, G, budget)
<1>1. /\ N \in Nat /\ m \in Nat /\ m > 0 /\ q \in Nat /\ q > 0 /\ b \in Nat /\ b = q * m /\ G \in Nat
  BY DEF Sizes
<1>2. PICK rows : rows = EqualShards(Sorted(lens, b, m), b, m)
  OBVIOUS
<1>3. Chunks(lens, b) = 1 .. G
  <2>1. Len(lens) = N
    BY <1>1 DEF Measured
  <2>2. QED
    BY <2>1, Zenon DEF Chunks
<1>4. ASSUME NEW s \in 1 .. m
      PROVE  /\ rows[s] = FlattenSeq(P[s]) /\ SameLong(P[s], G, q, 1 .. N)
             /\ \A c \in 1 .. G : P[s][c] = Deal(lens, c, b, m, q, s) /\ Part(rows[s], c, q) = P[s][c]
  <2>1. PICK p : p = Pieces(Sorted(lens, b, m), s, G, b, q)
    OBVIOUS
  <2>2. PICK r : r = EqualShards(Sorted(lens, b, m), b, m)[s]
    OBVIOUS
  <2>3. /\ r = FlattenSeq(p) /\ SameLong(p, G, q, 1 .. N)
        /\ \A c \in 1 .. G : p[c] = Deal(lens, c, b, m, q, s) /\ Part(r, c, q) = p[c]
    BY <2>1, <2>2, DynamicPieces
  <2>4. P[s] = p /\ rows[s] = r
    BY <1>2, <2>1, <2>2
  <2>5. QED
    BY <2>3, <2>4, Zenon
<1>5. ASSUME NEW c \in 1 .. G
      PROVE  [s \in 1 .. m |-> Part(rows[s], c, q)] = Column(P, m, c)
  <2>1. \A s \in 1 .. m : Part(rows[s], c, q) = P[s][c]
    BY <1>4
  <2>2. QED
    BY <2>1, Zenon DEF Column
<1>6. PICK micro : micro = [c \in 1 .. G |-> DynamicMicro(Column(P, m, c), lens, round, budget)]
  OBVIOUS
<1>7. ASSUME NEW s \in 1 .. m PROVE ss[s].rows = FlattenSeq(P[s]) /\ ss[s].micro = micro
  <2>1. ss[s] = [rows |-> rows[s],
                 micro |-> [c \in Chunks(lens, b) |->
                   DynamicMicro([r \in 1 .. m |-> Part(rows[r], c, b \div m)], lens, round, budget)]]
    BY <1>2, Zenon DEF DynamicShards
  <2>2. PICK x : x = [c \in Chunks(lens, b) |->
                   DynamicMicro([r \in 1 .. m |-> Part(rows[r], c, b \div m)], lens, round, budget)]
    OBVIOUS
  <2>3. x = micro
    <3>1. x = [c \in 1 .. G |-> DynamicMicro([r \in 1 .. m |-> Part(rows[r], c, q)], lens, round, budget)]
      BY <1>3, <2>2, Zenon
    <3>2. \A c \in 1 .. G : DynamicMicro([r \in 1 .. m |-> Part(rows[r], c, q)], lens, round, budget)
                          = DynamicMicro(Column(P, m, c), lens, round, budget)
      BY <1>5, Zenon
    <3>3. QED
      BY <1>6, <3>1, <3>2, Zenon
  <2>4. ss[s] = [rows |-> rows[s], micro |-> x]
    BY <2>1, <2>2, Zenon
  <2>5. ss[s].rows = rows[s] /\ ss[s].micro = x
    BY <2>4
  <2>6. QED
    BY <1>4, <2>3, <2>5
<1>8. DOMAIN micro = 1 .. G /\ \A g \in 1 .. G : micro[g] = DynamicMicro(Column(P, m, g), lens, round, budget)
  BY <1>6
<1>9. ASSUME NEW g \in 1 .. G
      PROVE  Tiled(micro[g], q) /\ Fitting(micro[g], Column(P, m, g), m, lens, budget)
  <2>1. PICK parts : parts = Column(P, m, g)
    OBVIOUS
  <2>2. \A s \in 1 .. m : parts[s] = P[s][g]
    BY <2>1, Zenon DEF Column
  <2>3. \A s \in 1 .. m : ListOf(parts[s], q, 1 .. N)
    BY <1>4, <2>2, Zenon DEF SameLong
  <2>4. DOMAIN parts = 1 .. m
    BY <2>1, Zenon DEF Column
  <2>5. \A s \in 1 .. m, k \in 1 .. q : parts[s][k] \in 1 .. N
    <3> SUFFICES ASSUME NEW s \in 1 .. m, NEW k \in 1 .. q PROVE parts[s][k] \in 1 .. N
      OBVIOUS
    <3>1. PICK p : p = parts[s]
      OBVIOUS
    <3>2. p \in Seq(1 .. N) /\ Len(p) = q
      BY <2>3, <3>1, Zenon DEF ListOf
    <3>3. p[k] \in 1 .. N
      <4>1. PICK I : I = 1 .. N
        OBVIOUS
      <4>2. p \in Seq(I)
        BY <3>2, <4>1, Zenon
      <4>3. k \in 1 .. Len(p)
        BY <3>2
      <4>4. p[k] \in I
        BY <4>2, <4>3
      <4>5. QED
        BY <4>1, <4>4, Zenon
    <3>4. QED
      BY <3>1, <3>3
  <2>6. Grid(parts, m, q, N)
    BY <2>4, <2>5 DEF Grid
  <2>7. DOMAIN parts[1] = 1 .. q
    <3>1. 1 \in 1 .. m
      BY <1>1
    <3>2. QED
      BY <2>3, <3>1, Zenon DEF ListOf
  <2>8. /\ Tiled(DynamicMicro(parts, lens, round, budget), q)
        /\ Fitting(DynamicMicro(parts, lens, round, budget), parts, m, lens, budget)
    BY <1>1, <2>6, <2>7, DynamicMicroFits
  <2>9. QED
    BY <1>8, <2>1, <2>8, Zenon
<1>10. Splits(ss, P, m, G, 1 .. N)
  <2>1. ASSUME NEW s \in 1 .. m PROVE Shape(ss[s], P[s], G, 1 .. N)
    <3>1. Slices(P[s], G, 1 .. N) /\ \A g \in 1 .. G : Len(P[s][g]) = q
      BY <1>4, Zenon DEF SameLong, Slices, ListOf
    <3>2. DOMAIN ss[s].micro = 1 .. G /\ \A g \in 1 .. G : ss[s].micro[g] = micro[g]
      BY <1>7, <1>8, Zenon
    <3>3. \A g \in 1 .. G : Tiled(ss[s].micro[g], Len(P[s][g]))
      BY <1>9, <3>1, <3>2, Zenon
    <3>4. QED
      BY <1>7, <3>1, <3>2, <3>3, Zenon DEF Shape
  <2>2. QED
    BY <2>1 DEF Splits
<1>11. SameMicro(ss, m, G)
  <2>1. ASSUME NEW r \in 1 .. m, NEW s \in 1 .. m, NEW g \in 1 .. G
        PROVE  Len(ss[r].micro[g]) = Len(ss[s].micro[g])
    <3>1. ss[r].micro = micro /\ ss[s].micro = micro
      BY <1>7
    <3>2. QED
      BY <3>1, Zenon
  <2>2. QED
    BY <2>1 DEF SameMicro
<1>12. Once(P, m, G, b)
  <2>1. ASSUME NEW c \in 1 .. G PROVE Holds(Column(P, m, c), Chunk(c, b))
    <3>1. PICK L : L = Ascending(lens, c, b)
      OBVIOUS
    <3>2. Enumerates(L, Chunk(c, b)) /\ Len(L) = b
      BY <3>1, AscendingIs
    <3>3. PICK bs : bs = Column(P, m, c)
      OBVIOUS
    <3>4. \A s \in 1 .. m : bs[s] = Deal(lens, c, b, m, q, s)
      BY <1>4, <3>3, Zenon DEF Column
    <3>5. Len(bs) = m
      BY <1>1, <3>3 DEF Column
    <3>6. ASSUME NEW s \in 1 .. m PROVE Len(bs[s]) = q /\ \A k \in 1 .. q : bs[s][k] = L[Cell(k, s, m)]
      <4>1. /\ ListOf(Deal(lens, c, b, m, q, s), q, 1 .. N)
            /\ \A k \in 1 .. q : Deal(lens, c, b, m, q, s)[k] = Ascending(lens, c, b)[Cell(k, s, m)]
        BY DealIs
      <4>2. QED
        BY <3>1, <3>4, <4>1, Zenon DEF ListOf
    <3>7. DealtOut(bs, L, m, q)
      BY <3>5, <3>6 DEF DealtOut
    <3>8. Holds(bs, Chunk(c, b))
      BY <1>1, <3>2, <3>7, DealtHolds
    <3>9. QED
      BY <3>3, <3>8
  <2>2. QED
    BY <2>1 DEF Once
<1>13. ASSUME NEW s \in 1 .. m, NEW g \in 1 .. G
       PROVE  Uncut(P[s][g], ss[s].micro[g], lens) /\ Frugal(P[s][g], ss[s].micro[g], budget)
  <2>1. PICK parts : parts = Column(P, m, g)
    OBVIOUS
  <2>2. parts[s] = P[s][g]
    BY <2>1, Zenon DEF Column
  <2>3. ListOf(parts[s], q, 1 .. N)
    BY <1>4, <2>2, Zenon DEF SameLong
  <2>4. PICK mic : mic = micro[g]
    OBVIOUS
  <2>5. Tiled(mic, q) /\ Fitting(mic, parts, m, lens, budget)
    BY <1>9, <2>1, <2>4, Zenon
  <2>6. Uncut(parts[s], mic, lens) /\ Frugal(parts[s], mic, budget)
    BY <1>1, <2>3, <2>5, FittingCuts
  <2>7. ss[s].micro[g] = mic
    BY <1>7, <2>4, Zenon
  <2>8. QED
    BY <2>2, <2>6, <2>7, Zenon
<1>14. AllUncut(ss, P, m, G, lens) /\ AllFrugal(ss, P, m, G, budget)
  BY <1>13, Zenon DEF AllUncut, AllFrugal
<1>15. QED
  BY <1>10, <1>11, <1>12, <1>14

-----------------------------------------------------------------------------
(***************************************************************************)
(* Sequence packing: the bins of a chunk, dealt to the shards.             *)
(***************************************************************************)
LEMMA SumsOnce ==
  ASSUME NEW n \in Nat, NEW w, NEW r, NEW q, Sums(w, n, r), Sums(w, n, q)
  PROVE  r[n] = q[n]
<1>1. PICK W : W = {k \in 0 .. n : r[k] = q[k]}
  OBVIOUS
<1>2. 0 \in W
  BY <1>1 DEF Sums
<1>3. ASSUME NEW k \in 0 .. n - 1, k \in W PROVE k + 1 \in W
  <2>1. k + 1 \in 1 .. n /\ (k + 1) - 1 = k /\ k + 1 \in 0 .. n
    OBVIOUS
  <2>2. r[k + 1] = r[k] + w[k + 1] /\ q[k + 1] = q[k] + w[k + 1]
    BY <2>1 DEF Sums
  <2>3. r[k] = q[k]
    BY <1>1, <1>3
  <2>4. QED
    BY <1>1, <2>1, <2>2, <2>3, Zenon
<1>4. \A k \in 0 .. n : k \in W
  BY <1>2, <1>3, Upward
<1>5. QED
  BY <1>1, <1>4

SameLoads(bin, lens, bun, more, n) ==
  n = Len(bin) /\ n = Len(bun) /\ \A k \in 1 .. n : lens[bin[k]] = more[bun[k]]

(* Bins of the same lengths have the same load.                            *)
LEMMA LoadAlike ==
  ASSUME NEW I, NEW lens, Measured(lens, I), NEW bin \in Seq(I),
         NEW J, NEW more, Measured(more, J), NEW bun \in Seq(J),
         NEW n \in Nat, SameLoads(bin, lens, bun, more, n)
  PROVE  Load(bin, lens) = Load(bun, more)
<1>0. /\ lens \in [I -> Nat] /\ more \in [J -> Nat] /\ n = Len(bin) /\ n = Len(bun)
      /\ \A k \in 1 .. n : lens[bin[k]] = more[bun[k]]
  BY DEF Measured, SameLoads
<1>1. PICK w : w = [k \in 1 .. n |-> lens[bin[k]]]
  OBVIOUS
<1>2. PICK v : v = [k \in 1 .. n |-> more[bun[k]]]
  OBVIOUS
<1>3. PICK r : Sums(w, n, r) /\ Load(bin, lens) = r[n]
  <2>1. PICK r : Sums([k \in 1 .. Len(bin) |-> lens[bin[k]]], Len(bin), r) /\ Load(bin, lens) = r[Len(bin)]
    BY <1>0, LoadSums
  <2>2. QED
    BY <1>0, <1>1, <2>1, Zenon
<1>4. PICK q : Sums(v, n, q) /\ Load(bun, more) = q[n]
  <2>1. PICK q : Sums([k \in 1 .. Len(bun) |-> more[bun[k]]], Len(bun), q) /\ Load(bun, more) = q[Len(bun)]
    BY <1>0, LoadSums
  <2>2. QED
    BY <1>0, <1>2, <2>1, Zenon
<1>5. w = v
  BY <1>0, <1>1, <1>2
<1>6. r[n] = q[n]
  BY <1>3, <1>4, <1>5, SumsOnce
<1>7. QED
  BY <1>3, <1>4, <1>6

(* A bin is at least as full as an item in it.                             *)
LEMMA LoadAtLeast ==
  ASSUME NEW I, NEW lens \in [I -> Nat], NEW bin \in Seq(I), NEW k \in 1 .. Len(bin)
  PROVE  lens[bin[k]] <= Load(bin, lens)
<1>1. PICK n \in Nat : n = Len(bin)
  OBVIOUS
<1>2. PICK w : w = [j \in 1 .. n |-> lens[bin[j]]]
  OBVIOUS
<1>3. PICK r : Sums(w, n, r) /\ Load(bin, lens) = r[n]
  <2>1. PICK r : Sums([j \in 1 .. Len(bin) |-> lens[bin[j]]], Len(bin), r) /\ Load(bin, lens) = r[Len(bin)]
    BY LoadSums
  <2>2. QED
    BY <1>1, <1>2, <2>1, Zenon
<1>4. \A j \in 1 .. n : w[j] \in Nat /\ w[j] = lens[bin[j]]
  BY <1>1, <1>2
<1>5. k \in 1 .. n /\ k - 1 \in 0 .. n /\ k \in 0 .. n /\ n \in 0 .. n /\ k <= n
  BY <1>1
<1>6. r[k] = r[k - 1] + w[k] /\ r[k - 1] \in Nat /\ r[k] \in Nat /\ r[n] \in Nat
  BY <1>3, <1>5 DEF Sums
<1>7. r[k] <= r[n]
  <2>1. \A j \in 1 .. n : w[j] \in Nat
    BY <1>4
  <2>2. QED
    BY <1>3, <1>5, <2>1, SumsRise
<1>8. w[k] \in Nat /\ w[k] = lens[bin[k]]
  BY <1>4, <1>5
<1>9. w[k] <= r[n]
  BY <1>6, <1>7, <1>8
<1>10. QED
  BY <1>3, <1>8, <1>9

(* Bins whose items are numbered from further on.                          *)
Displaced(bin, o) == [k \in DOMAIN bin |-> bin[k] + o]
MovedAll(bs, o) == [x \in DOMAIN bs |-> Displaced(bs[x], o)]

(* A bin of items numbered from further on.                                *)
LEMMA MovedIs ==
  ASSUME NEW b \in Nat, NEW o \in Nat, NEW N \in Nat, o + b <= N, NEW bin \in Seq(1 .. b)
  PROVE  /\ Displaced(bin, o) \in Seq(1 .. N) /\ Len(Displaced(bin, o)) = Len(bin)
         /\ \A k \in 1 .. Len(bin) : Displaced(bin, o)[k] = bin[k] + o
<1>1. PICK n \in Nat : n = Len(bin)
  OBVIOUS
<1>2. DOMAIN bin = 1 .. n /\ \A k \in 1 .. n : bin[k] \in 1 .. b
  BY <1>1
<1>3. PICK f : f = [k \in 1 .. n |-> bin[k] + o]
  OBVIOUS
<1>4. Displaced(bin, o) = f
  BY <1>2, <1>3, Zenon DEF Displaced
<1>5. \A k \in 1 .. n : f[k] \in 1 .. N /\ f[k] = bin[k] + o
  BY <1>2, <1>3
<1>6. f \in [1 .. n -> 1 .. N]
  BY <1>3, <1>5
<1>7. f \in Seq(1 .. N) /\ Len(f) = n
  BY <1>6
<1>8. QED
  BY <1>1, <1>4, <1>5, <1>7

(* Renumbering the items leaves bins sound.                                *)
LEMMA MovedPacked ==
  ASSUME NEW b \in Nat, NEW o \in Nat, NEW N \in Nat, o + b <= N, NEW part, Measured(part, 1 .. b),
         NEW padded, Measured(padded, 1 .. N), \A i \in 1 .. b : part[i] = padded[o + i],
         NEW capacity, NEW bs, Packed(bs, 1 .. b, 1 .. b, part, capacity)
  PROVE  /\ Packed(MovedAll(bs, o), o + 1 .. o + b, 1 .. N, padded, capacity)
         /\ Len(MovedAll(bs, o)) = Len(bs) /\ DOMAIN MovedAll(bs, o) = 1 .. Len(bs)
<1>1. bs \in Seq(Seq(1 .. b)) /\ Holds(bs, 1 .. b) /\ \A x \in 1 .. Len(bs) : Sound(bs[x], part, capacity)
  BY DEF Packed
<1>2. PICK n \in Nat : n = Len(bs)
  BY <1>1
<1>3. PICK U, V : U = Seq(1 .. b) /\ V = Seq(1 .. N)
  OBVIOUS
<1>4. DOMAIN bs = 1 .. n /\ \A x \in 1 .. n : bs[x] \in U
  BY <1>1, <1>2, <1>3
<1>5. PICK new : new = MovedAll(bs, o)
  OBVIOUS
<1>6. new = [x \in 1 .. n |-> Displaced(bs[x], o)]
  BY <1>4, <1>5, Zenon DEF MovedAll
<1>7. ASSUME NEW x \in 1 .. n
      PROVE  /\ new[x] \in V /\ Len(new[x]) = Len(bs[x]) /\ new[x] \in Seq(1 .. N)
             /\ \A k \in 1 .. Len(bs[x]) : new[x][k] = bs[x][k] + o
  <2>1. PICK bin \in Seq(1 .. b) : bin = bs[x]
    BY <1>3, <1>4
  <2>2. /\ Displaced(bin, o) \in Seq(1 .. N) /\ Len(Displaced(bin, o)) = Len(bin)
        /\ \A k \in 1 .. Len(bin) : Displaced(bin, o)[k] = bin[k] + o
    BY MovedIs
  <2>3. new[x] = Displaced(bin, o)
    BY <1>6, <2>1
  <2>4. QED
    BY <1>3, <2>1, <2>2, <2>3, Zenon
<1>8. new \in Seq(V) /\ Len(new) = n /\ DOMAIN new = 1 .. n
  <2>1. new \in [1 .. n -> V]
    BY <1>6, <1>7
  <2>2. QED
    BY <2>1
<1>9. new \in Seq(Seq(1 .. N))
  BY <1>3, <1>8, Zenon
<1>10. \A x, k : Placed(new, x, k) <=> Placed(bs, x, k)
  BY <1>2, <1>7, <1>8, Zenon DEF Placed
<1>11. ASSUME NEW x, NEW k, Placed(bs, x, k)
       PROVE  Item(bs, x, k) \in 1 .. b /\ Item(new, x, k) = Item(bs, x, k) + o
  <2>1. x \in 1 .. n /\ k \in 1 .. Len(bs[x])
    BY <1>2, <1>11, Zenon DEF Placed
  <2>2. Item(bs, x, k) \in 1 .. b
    BY <1>1, <1>11, Zenon DEF Holds
  <2>3. QED
    BY <1>7, <2>1, <2>2, Zenon DEF Item
<1>12. Holds(new, o + 1 .. o + b)
  <2>1. ASSUME NEW x, NEW k, Placed(new, x, k) PROVE Item(new, x, k) \in o + 1 .. o + b
    <3>1. PICK i \in 1 .. b : Item(new, x, k) = i + o
      BY <1>10, <1>11, <2>1
    <3>2. QED
      BY <3>1
  <2>2. ASSUME NEW i \in o + 1 .. o + b PROVE \E x, k : Placed(new, x, k) /\ Item(new, x, k) = i
    <3>1. PICK j \in 1 .. b : i = j + o
      <4>1. i - o \in 1 .. b /\ i = (i - o) + o
        OBVIOUS
      <4>2. QED
        BY <4>1
    <3>2. PICK x, k : Placed(bs, x, k) /\ Item(bs, x, k) = j
      BY <1>1, Zenon DEF Holds
    <3>3. Placed(new, x, k) /\ Item(new, x, k) = i
      BY <1>10, <1>11, <3>1, <3>2
    <3>4. QED
      BY <3>3
  <2>3. ASSUME NEW x, NEW y, NEW j, NEW k, Placed(new, x, j), Placed(new, y, k), Item(new, x, j) = Item(new, y, k)
        PROVE  x = y /\ j = k
    <3>1. Placed(bs, x, j) /\ Placed(bs, y, k)
      BY <1>10, <2>3, Zenon
    <3>2. PICK i \in 1 .. b, l \in 1 .. b : i = Item(bs, x, j) /\ l = Item(bs, y, k) /\ i + o = l + o
      BY <1>11, <2>3, <3>1
    <3>3. i = l
      BY <3>2
    <3>4. Item(bs, x, j) = Item(bs, y, k)
      BY <3>2, <3>3
    <3>5. QED
      BY <1>1, <3>1, <3>4, Zenon DEF Holds
  <2>4. QED
    BY <2>1, <2>2, <2>3, Zenon DEF Holds
<1>13. ASSUME NEW x \in 1 .. n PROVE Sound(new[x], padded, capacity)
  <2>1. PICK bin \in Seq(1 .. b), bun \in Seq(1 .. N) : bin = bs[x] /\ bun = new[x]
    BY <1>3, <1>4, <1>7
  <2>2. PICK l \in Nat : l = Len(bin)
    OBVIOUS
  <2>3. Len(bun) = l /\ \A k \in 1 .. l : bun[k] = bin[k] + o
    BY <1>7, <2>1, <2>2, Zenon
  <2>4. ASSUME NEW k \in 1 .. l PROVE part[bin[k]] = padded[bun[k]]
    <3>1. PICK i \in 1 .. b : i = bin[k]
      BY <2>2
    <3>2. o + i = i + o
      OBVIOUS
    <3>3. QED
      BY <2>3, <3>1, <3>2, Zenon
  <2>5. SameLoads(bin, part, bun, padded, l)
    BY <2>2, <2>3, <2>4, Zenon DEF SameLoads
  <2>6. Load(bin, part) = Load(bun, padded)
    BY <2>5, LoadAlike
  <2>7. Sound(bin, part, capacity)
    BY <1>1, <1>2, <2>1, Zenon
  <2>8. Sound(bun, padded, capacity)
    BY <2>2, <2>3, <2>6, <2>7, Zenon DEF Sound
  <2>9. QED
    BY <2>1, <2>8
<1>14. o + 1 .. o + b \subseteq 1 .. N
  OBVIOUS
<1>15. Packed(new, o + 1 .. o + b, 1 .. N, padded, capacity)
  BY <1>8, <1>9, <1>12, <1>13, <1>14, Zenon DEF Packed
<1>16. QED
  BY <1>2, <1>5, <1>8, <1>15, Zenon

(* Place i of the joined lists is place j of the k-th.                     *)
Spot(t, ss, n, i, k, j) == k \in 1 .. n /\ j \in 1 .. Len(ss[k]) /\ i = Len(t[k - 1]) + j
SpotHolds(t, ss, n, i, k, j) == i \in 1 .. Len(t[n]) /\ t[n][i] = ss[k][j]

(* Every place of the joined lists is one of a list.                       *)
LEMMA SpotOf ==
  ASSUME NEW S, NEW ss, NEW n \in Nat, NEW t, Joins(t, ss, n, S), NEW i \in 1 .. Len(t[n])
  PROVE  \E k, j : Spot(t, ss, n, i, k, j)
<1>1. PICK k \in 1 .. n : i \in Len(t[k - 1]) + 1 .. Len(t[k])
  BY JoinsPlace
<1>2. JoinsAt(t, ss, k, S)
  BY JoinsLen
<1>3. PICK x \in Nat, y \in Nat, z \in Nat : x = Len(t[k - 1]) /\ y = Len(ss[k]) /\ z = Len(t[k]) /\ z = x + y
  BY <1>2, Zenon DEF JoinsAt
<1>4. i \in x + 1 .. z
  BY <1>1, <1>3, Zenon
<1>5. z = x + y
  BY <1>3
<1>6. PICK j \in 1 .. y : i = x + j
  <2>1. i - x \in 1 .. y /\ i = x + (i - x)
    BY <1>4, <1>5
  <2>2. QED
    BY <2>1
<1>7. Spot(t, ss, n, i, k, j)
  BY <1>3, <1>6, Zenon DEF Spot
<1>8. QED
  BY <1>7

(* What is there.                                                          *)
LEMMA SpotIs ==
  ASSUME NEW S, NEW ss, NEW n \in Nat, NEW t, Joins(t, ss, n, S), NEW i, NEW k, NEW j, Spot(t, ss, n, i, k, j)
  PROVE  SpotHolds(t, ss, n, i, k, j)
<1>1. k \in 1 .. n /\ j \in 1 .. Len(ss[k]) /\ i = Len(t[k - 1]) + j
  BY DEF Spot
<1>2. JoinsAt(t, ss, k, S)
  BY <1>1, JoinsLen
<1>3. PICK x \in Nat, y \in Nat, z \in Nat : x = Len(t[k - 1]) /\ y = Len(ss[k]) /\ z = Len(t[k]) /\ z = x + y
  BY <1>2, Zenon DEF JoinsAt
<1>4. k \in 0 .. n
  BY <1>1
<1>5. JoinsHead(t, k, n)
  BY <1>4, JoinsPrefix
<1>6. PICK l \in Nat : l = Len(t[n]) /\ z <= l /\ \A u \in 1 .. z : t[n][u] = t[k][u]
  <2>1. Len(t[n]) \in Nat /\ Len(t[k]) <= Len(t[n]) /\ \A u \in 1 .. Len(t[k]) : t[n][u] = t[k][u]
    BY <1>5 DEF JoinsHead
  <2>2. QED
    BY <1>3, <2>1, Zenon
<1>7. j \in 1 .. y /\ i = x + j
  BY <1>1, <1>3, Zenon
<1>8. i \in 1 .. z /\ i \in 1 .. l
  <2>1. z = x + y /\ z <= l
    BY <1>3, <1>6
  <2>2. QED
    BY <1>7, <2>1
<1>9. t[k][Len(t[k - 1]) + j] = ss[k][j]
  BY <1>1, <1>2, Zenon DEF JoinsAt
<1>10. t[n][i] = ss[k][j]
  <2>1. t[k][i] = ss[k][j]
    BY <1>1, <1>9, Zenon
  <2>2. t[n][i] = t[k][i]
    BY <1>6, <1>8
  <2>3. QED
    BY <2>1, <2>2
<1>11. QED
  BY <1>6, <1>8, <1>10, Zenon DEF SpotHolds

(* The same place is not found twice.                                      *)
LEMMA SpotSame ==
  ASSUME NEW t, NEW ss, NEW n, NEW h, NEW i, NEW k, NEW j, Spot(t, ss, n, i, k, j), Spot(t, ss, n, h, k, j)
  PROVE  i = h
BY Zenon DEF Spot

(* The bins of the shards hold what all the bins hold.                     *)
Dealing(col, bs, m) == Len(col) = m /\ \A s \in 1 .. m : col[s] = FlattenSeq(BinsOf(bs, s, m))

BinsFor(mine, bs, s, m, Q, I) ==
  /\ mine \in Seq(Seq(I)) /\ Len(mine) = Q /\ DOMAIN mine = 1 .. Q
  /\ \A k \in 1 .. Q : mine[k] = bs[Cell(k, s, m)]

(* The bins dealt to a shard.                                              *)
LEMMA BinsDealt ==
  ASSUME NEW Q \in Nat, NEW m \in Nat, m > 0, NEW n \in Nat, n = Q * m, NEW I,
         NEW bs, bs \in Seq(Seq(I)), Len(bs) = n, NEW s \in 1 .. m
  PROVE  BinsFor(BinsOf(bs, s, m), bs, s, m, Q, I)
<1>1. DOMAIN bs = 1 .. n
  BY SMT
<1>2. BinsOf(bs, s, m) = [k \in 1 .. Q |-> bs[(k - 1) * m + s]]
  <2>1. DOMAIN bs = 1 .. Q * m
    BY <1>1, Zenon
  <2>2. BinsAt(bs, s, m, Q)
    BY <2>1, BinsOfEach
  <2>3. QED
    BY <2>2 DEF BinsAt
<1>3. PICK f : f = BinsOf(bs, s, m)
  OBVIOUS
<1>4. \A k \in 1 .. Q : f[k] = bs[Cell(k, s, m)]
  BY <1>2, <1>3, Zenon DEF Cell
<1>5. PICK U : U = Seq(I)
  OBVIOUS
<1>6. \A k \in 1 .. Q : f[k] \in U
  <2> SUFFICES ASSUME NEW k \in 1 .. Q PROVE f[k] \in U
    OBVIOUS
  <2>1. Cell(k, s, m) \in 1 .. n
    BY CellIs
  <2>2. \A x \in 1 .. n : bs[x] \in U
    BY <1>5, SMT
  <2>3. QED
    BY <1>4, <2>1, <2>2, Zenon
<1>7. f \in [1 .. Q -> U]
  <2>1. DOMAIN f = 1 .. Q /\ f = [k \in DOMAIN f |-> f[k]]
    BY <1>2, <1>3, Zenon
  <2>2. QED
    BY <1>6, <2>1, Zenon
<1>8. f \in Seq(U) /\ Len(f) = Q /\ DOMAIN f = 1 .. Q
  BY <1>7
<1>9. QED
  BY <1>3, <1>4, <1>5, <1>8, Zenon DEF BinsFor

Found(col, bs, T, B, Q, m, s, i, k, j) ==
  /\ s \in 1 .. m /\ Spot(T[s], B[s], Q, i, k, j)
  /\ Placed(bs, Cell(k, s, m), j) /\ Item(col, s, i) = Item(bs, Cell(k, s, m), j)

(* An item found in two bins is found in one.                              *)
LEMMA FoundSame ==
  ASSUME NEW Q \in Nat, NEW m \in Nat, m > 0, NEW col, NEW bs, NEW T, NEW B,
         NEW s, NEW i, NEW k, NEW j, Found(col, bs, T, B, Q, m, s, i, k, j),
         NEW r, NEW h, NEW x, NEW y, Found(col, bs, T, B, Q, m, r, h, x, y), Cell(k, s, m) = Cell(x, r, m)
  PROVE  k = x /\ s = r
<1>1. k \in 1 .. Q /\ s \in 1 .. m
  BY Zenon DEF Found, Spot
<1>2. x \in 1 .. Q /\ r \in 1 .. m
  BY Zenon DEF Found, Spot
<1>3. QED
  BY <1>1, <1>2, CellOnce

(* Bins dealt to the shards hold what they held.                           *)
LEMMA DealtBinsHold ==
  ASSUME NEW Q \in Nat, NEW m \in Nat, m > 0, NEW n \in Nat, n = Q * m, NEW I, NEW D,
         NEW bs, bs \in Seq(Seq(I)), Len(bs) = n, Holds(bs, D), NEW col, Dealing(col, bs, m)
  PROVE  Holds(col, D)
<1>1. PICK B : B = [s \in 1 .. m |-> BinsOf(bs, s, m)]
  OBVIOUS
<1>2. ASSUME NEW s \in 1 .. m
      PROVE  /\ B[s] \in Seq(Seq(I)) /\ Len(B[s]) = Q
             /\ \A k \in 1 .. Q : B[s][k] = bs[Cell(k, s, m)]
  <2>1. BinsFor(BinsOf(bs, s, m), bs, s, m, Q, I)
    BY BinsDealt
  <2>2. B[s] = BinsOf(bs, s, m)
    BY <1>1
  <2>3. BinsFor(B[s], bs, s, m, Q, I)
    BY <2>1, <2>2, Zenon
  <2>4. QED
    BY <2>3, Zenon DEF BinsFor
<1>3. PICK T : T = [s \in 1 .. m |-> CHOOSE t : Joins(t, B[s], Q, I)]
  OBVIOUS
<1>4. ASSUME NEW s \in 1 .. m PROVE Joins(T[s], B[s], Q, I)
  <2>1. \E t : Joins(t, B[s], Len(B[s]), I)
    BY <1>2, JoinsIs
  <2>2. \E t : Joins(t, B[s], Q, I)
    BY <1>2, <2>1, Zenon
  <2>3. Joins(CHOOSE t : Joins(t, B[s], Q, I), B[s], Q, I)
    BY <2>2, Zenon
  <2>4. T[s] = CHOOSE t : Joins(t, B[s], Q, I)
    BY <1>3, Zenon
  <2>5. QED
    BY <2>3, <2>4, Zenon
<1>5. ASSUME NEW s \in 1 .. m PROVE col[s] = T[s][Q]
  <2>1. PICK mine : mine = B[s] /\ mine \in Seq(Seq(I)) /\ Len(mine) = Q
    BY <1>2
  <2>2. Joins(T[s], mine, Len(mine), I)
    BY <1>4, <2>1, Zenon
  <2>3. FlattenSeq(mine) = T[s][Len(mine)]
    BY <2>1, <2>2, Flat
  <2>4. mine = BinsOf(bs, s, m)
    BY <1>1, <2>1
  <2>5. col[s] = FlattenSeq(mine)
    BY <2>4, Zenon DEF Dealing
  <2>6. QED
    BY <2>1, <2>3, <2>5, Zenon
<1>6. Len(col) = m
  BY DEF Dealing
<1>7. ASSUME NEW s, NEW i, Placed(col, s, i)
      PROVE  \E k, j : Found(col, bs, T, B, Q, m, s, i, k, j)
  <2>1. s \in 1 .. m /\ i \in 1 .. Len(T[s][Q])
    BY <1>5, <1>6, <1>7, Zenon DEF Placed
  <2>2. Joins(T[s], B[s], Q, I)
    BY <1>4, <2>1
  <2>3. PICK t, ss : t = T[s] /\ ss = B[s]
    OBVIOUS
  <2>4. Joins(t, ss, Q, I) /\ i \in 1 .. Len(t[Q])
    BY <2>1, <2>2, <2>3, Zenon
  <2>5. PICK k, j : Spot(t, ss, Q, i, k, j)
    BY <2>4, SpotOf
  <2>6. SpotHolds(t, ss, Q, i, k, j)
    BY <2>4, <2>5, SpotIs
  <2>7. k \in 1 .. Q /\ j \in 1 .. Len(ss[k]) /\ t[Q][i] = ss[k][j]
    BY <2>5, <2>6, Zenon DEF Spot, SpotHolds
  <2>8. Cell(k, s, m) \in 1 .. n
    BY <2>1, <2>7, CellIs
  <2>9. ss[k] = bs[Cell(k, s, m)]
    BY <1>2, <2>1, <2>3, <2>7, Zenon
  <2>10. Placed(bs, Cell(k, s, m), j)
    BY <2>7, <2>8, <2>9, Zenon DEF Placed
  <2>11. Item(col, s, i) = Item(bs, Cell(k, s, m), j)
    BY <1>5, <2>1, <2>3, <2>7, <2>9, Zenon DEF Item
  <2>12. QED
    BY <2>1, <2>3, <2>5, <2>10, <2>11, Zenon DEF Found
<1>8. ASSUME NEW s, NEW i, Placed(col, s, i) PROVE Item(col, s, i) \in D
  <2>1. PICK k, j : Found(col, bs, T, B, Q, m, s, i, k, j)
    BY <1>7, <1>8, Zenon
  <2>2. Placed(bs, Cell(k, s, m), j) /\ Item(col, s, i) = Item(bs, Cell(k, s, m), j)
    BY <2>1, Zenon DEF Found
  <2>3. QED
    BY <2>2, Zenon DEF Holds
<1>9. ASSUME NEW d \in D PROVE \E s, i : Placed(col, s, i) /\ Item(col, s, i) = d
  <2>1. PICK x, j : Placed(bs, x, j) /\ Item(bs, x, j) = d
    BY Zenon DEF Holds
  <2>2. x \in 1 .. n /\ j \in 1 .. Len(bs[x])
    BY <2>1, Zenon DEF Placed
  <2>3. PICK k \in 1 .. Q, s \in 1 .. m : x = Cell(k, s, m)
    BY <2>2, CellOf, ZenonT(40)
  <2>4. PICK t, ss : t = T[s] /\ ss = B[s]
    OBVIOUS
  <2>5. Joins(t, ss, Q, I)
    BY <1>4, <2>4
  <2>6. ss[k] = bs[x]
    BY <1>2, <2>3, <2>4, Zenon
  <2>7. PICK i : i = Len(t[k - 1]) + j
    OBVIOUS
  <2>8. Spot(t, ss, Q, i, k, j)
    BY <2>2, <2>6, <2>7, Zenon DEF Spot
  <2>9. i \in 1 .. Len(t[Q]) /\ t[Q][i] = ss[k][j]
    BY <2>5, <2>8, SpotIs DEF SpotHolds
  <2>10. col[s] = t[Q]
    BY <1>5, <2>4
  <2>11. Placed(col, s, i) /\ Item(col, s, i) = d
    BY <1>6, <2>1, <2>6, <2>9, <2>10, Zenon DEF Placed, Item
  <2>12. QED
    BY <2>11
<1>10. ASSUME NEW s, NEW r, NEW i, NEW h, Placed(col, s, i), Placed(col, r, h), Item(col, s, i) = Item(col, r, h)
       PROVE  s = r /\ i = h
  <2>1. PICK k, j : Found(col, bs, T, B, Q, m, s, i, k, j)
    BY <1>7, <1>10, Zenon
  <2>2. PICK x, y : Found(col, bs, T, B, Q, m, r, h, x, y)
    BY <1>7, <1>10, Zenon
  <2>3. /\ s \in 1 .. m /\ Spot(T[s], B[s], Q, i, k, j)
         /\ Placed(bs, Cell(k, s, m), j) /\ Item(col, s, i) = Item(bs, Cell(k, s, m), j)
    BY <2>1, Zenon DEF Found
  <2>4. /\ r \in 1 .. m /\ Spot(T[r], B[r], Q, h, x, y)
         /\ Placed(bs, Cell(x, r, m), y) /\ Item(col, r, h) = Item(bs, Cell(x, r, m), y)
    BY <2>2, Zenon DEF Found
  <2>5. Item(bs, Cell(k, s, m), j) = Item(bs, Cell(x, r, m), y)
    BY <1>10, <2>3, <2>4, Zenon
  <2>6. Cell(k, s, m) = Cell(x, r, m) /\ j = y
    BY <2>5, <2>3, <2>4, Zenon DEF Holds
  <2>7. k \in 1 .. Q /\ x \in 1 .. Q
    BY <2>3, <2>4, Zenon DEF Spot
  <2>8. k = x /\ s = r
    BY <2>1, <2>2, <2>6, FoundSame, Zenon
  <2>9. Spot(T[s], B[s], Q, h, k, j)
    BY <2>6, <2>8, <2>4, Zenon
  <2>10. i = h
    BY <2>9, <2>3, SpotSame, Zenon
  <2>11. QED
    BY <2>8, <2>10
<1>11. QED
  BY <1>8, <1>9, <1>10, Zenon DEF Holds

(* As many bins for every shard, each within the capacity.                 *)
Chunked(x, D, I, padded, capacity, m) ==
  Packed(x, D, I, padded, capacity) /\ \E Q \in Nat : Len(x) = Q * m

(* A shard's microbatches of a chunk: its bins, as wide as they are full.  *)
Filled(p, micro, padded, capacity) ==
  \A k \in 1 .. Len(micro) :
    /\ Load(CutRows(p, micro, k), padded) = Breadth(micro, k) /\ Breadth(micro, k) <= capacity
    /\ \A i \in Range(CutRows(p, micro, k)) : padded[i] <= Breadth(micro, k)
Microbatched(p, micro, n, I, padded, capacity) ==
  p \in Seq(I) /\ Tiled(micro, Len(p)) /\ Len(micro) = n /\ Filled(p, micro, padded, capacity)

(* A shard's bins are microbatches as wide as they are full.               *)
LEMMA BinsFilled ==
  ASSUME NEW I, NEW padded, Measured(padded, I), NEW capacity, NEW Q \in Nat, Q > 0,
         NEW mine, mine \in Seq(Seq(I)), Len(mine) = Q,
         \A k \in 1 .. Q : Sound(mine[k], padded, capacity)
  PROVE  Microbatched(FlattenSeq(mine), Bounds(mine, padded), Q, I, padded, capacity)
<1>1. PICK L : L = FlattenSeq(mine)
  OBVIOUS
<1>2. PICK micro : micro = Bounds(mine, padded)
  OBVIOUS
<1>3. Tiles(micro, Q, Len(L)) /\ Bins(micro, mine, L, padded) /\ L \in Seq(I)
  <2>1. /\ Tiles(Bounds(mine, padded), Len(mine), Len(FlattenSeq(mine)))
        /\ Bins(Bounds(mine, padded), mine, FlattenSeq(mine), padded)
        /\ FlattenSeq(mine) \in Seq(I)
    BY BoundsTiled
  <2>2. QED
    BY <1>1, <1>2, <2>1, Zenon
<1>4. Len(micro) = Q
  BY <1>3, TilesParts
<1>5. ASSUME NEW k \in 1 .. Len(micro)
      PROVE  /\ Load(CutRows(L, micro, k), padded) = Breadth(micro, k) /\ Breadth(micro, k) <= capacity
             /\ \A i \in Range(CutRows(L, micro, k)) : padded[i] <= Breadth(micro, k)
  <2>1. k \in 1 .. Q
    BY <1>4
  <2>2. CutRows(L, micro, k) = mine[k] /\ Breadth(micro, k) = Load(mine[k], padded)
    BY <1>3, <2>1, Zenon DEF Bins, CutRows
  <2>3. Load(mine[k], padded) <= capacity
    BY <2>1, Zenon DEF Sound
  <2>4. PICK bin \in Seq(I) : bin = mine[k]
    <3>1. PICK U : U = Seq(I)
      OBVIOUS
    <3>2. mine[k] \in U
      BY <2>1, <3>1
    <3>3. QED
      BY <3>1, <3>2
  <2>5. padded \in [I -> Nat]
    BY DEF Measured
  <2>6. \A i \in Range(bin) : padded[i] <= Load(bin, padded)
    <3> SUFFICES ASSUME NEW i \in Range(bin) PROVE padded[i] <= Load(bin, padded)
      OBVIOUS
    <3>1. PICK j \in DOMAIN bin : i = bin[j]
      BY Zenon DEF Range
    <3>2. j \in 1 .. Len(bin)
      BY <2>4
    <3>3. padded[bin[j]] <= Load(bin, padded)
      BY <2>5, <3>2, LoadAtLeast
    <3>4. QED
      BY <3>1, <3>3
  <2>7. QED
    BY <2>2, <2>3, <2>4, <2>6, Zenon
<1>6. Filled(L, micro, padded, capacity)
  BY <1>5, Zenon DEF Filled
<1>7. Tiled(micro, Len(L))
  BY <1>3 DEF Tiled
<1>8. QED
  BY <1>1, <1>2, <1>3, <1>4, <1>6, <1>7, Zenon DEF Microbatched

(* So are those of every shard, as many for each.                          *)
LEMMA ChunkedBins ==
  ASSUME NEW I, NEW D, D # {}, NEW padded, Measured(padded, I), NEW capacity, NEW m \in Nat, m > 0,
         NEW x, Chunked(x, D, I, padded, capacity, m)
  PROVE  \E Q \in Nat : /\ DOMAIN x = 1 .. Q * m
                        /\ \A s \in 1 .. m : Microbatched(FlattenSeq(BinsOf(x, s, m)), Bounds(BinsOf(x, s, m), padded),
                                                          Q, I, padded, capacity)
<1>1. x \in Seq(Seq(I)) /\ Holds(x, D) /\ \A k \in 1 .. Len(x) : Sound(x[k], padded, capacity)
  BY DEF Chunked, Packed
<1>2. PICK n \in Nat, Q \in Nat : n = Len(x) /\ n = Q * m
  <2>1. Len(x) \in Nat
    BY <1>1
  <2>2. QED
    BY <2>1 DEF Chunked
<1>3. Q > 0
  <2> SUFFICES ASSUME Q = 0 PROVE FALSE
    OBVIOUS
  <2>1. n = 0
    <3>1. 0 * m = 0
      OBVIOUS
    <3>2. QED
      BY <1>2, <3>1
  <2>2. PICK d \in D : TRUE
    OBVIOUS
  <2>3. PICK e, k : Placed(x, e, k)
    BY <1>1, <2>2, Zenon DEF Holds
  <2>4. e \in 1 .. n
    BY <1>2, <2>3, Zenon DEF Placed
  <2>5. QED
    BY <2>1, <2>4
<1>4. ASSUME NEW s \in 1 .. m
      PROVE  Microbatched(FlattenSeq(BinsOf(x, s, m)), Bounds(BinsOf(x, s, m), padded), Q, I, padded, capacity)
  <2>1. BinsFor(BinsOf(x, s, m), x, s, m, Q, I)
    BY <1>1, <1>2, BinsDealt
  <2>2. PICK mine : mine = BinsOf(x, s, m)
    OBVIOUS
  <2>3. mine \in Seq(Seq(I)) /\ Len(mine) = Q /\ \A k \in 1 .. Q : mine[k] = x[Cell(k, s, m)]
    BY <2>1, <2>2, Zenon DEF BinsFor
  <2>4. \A k \in 1 .. Q : Cell(k, s, m) \in 1 .. n
    BY <1>2, CellIs
  <2>5. \A k \in 1 .. Q : Sound(mine[k], padded, capacity)
    BY <1>1, <1>2, <2>3, <2>4, Zenon
  <2>6. Microbatched(FlattenSeq(mine), Bounds(mine, padded), Q, I, padded, capacity)
    BY <1>3, <2>3, <2>5, BinsFilled
  <2>7. QED
    BY <2>2, <2>6
<1>5. DOMAIN x = 1 .. Q * m
  <2>1. DOMAIN x = 1 .. Len(x)
    BY <1>1
  <2>2. QED
    BY <1>2, <2>1, Zenon
<1>6. QED
  BY <1>4, <1>5, Zenon

AllFilled(ss, P, m, G, padded, capacity) ==
  \A s \in 1 .. m, g \in 1 .. G : Filled(P[s][g], ss[s].micro[g], padded, capacity)
FlatBins(bs, s, G, m) == [c \in 1 .. G |-> FlattenSeq(BinsOf(bs[c], s, m))]

(* The bins dealt to the shards give every row of a global batch to one    *)
(* shard, a microbatch for each bin, in the capacity.                      *)
THEOREM PackedSharded ==
  ASSUME NEW N, NEW G, NEW b, NEW m, NEW q, Sizes(N, G, b, m, q),
         NEW padded, Measured(padded, 1 .. N), NEW capacity,
         NEW bs, DOMAIN bs = 1 .. G,
         \A c \in 1 .. G : Chunked(bs[c], Chunk(c, b), 1 .. N, padded, capacity, m),
         NEW ss, ss = PackedShards(bs, padded, m),
         NEW P, P = [s \in 1 .. m |-> FlatBins(bs, s, G, m)]
  PROVE  /\ Splits(ss, P, m, G, 1 .. N) /\ Once(P, m, G, b) /\ SameMicro(ss, m, G)
         /\ AllFilled(ss, P, m, G, padded, capacity)
<1>1. N \in Nat /\ G \in Nat /\ m \in Nat /\ m > 0 /\ b \in Nat /\ b > 0
  BY DEF Sizes
<1>2. PICK I : I = 1 .. N /\ Measured(padded, I)
  OBVIOUS
<1>3. ASSUME NEW c \in 1 .. G
      PROVE  \E Q \in Nat : /\ DOMAIN bs[c] = 1 .. Q * m
                            /\ \A s \in 1 .. m : Microbatched(FlattenSeq(BinsOf(bs[c], s, m)), Bounds(BinsOf(bs[c], s, m), padded),
                                                              Q, I, padded, capacity)
  <2>1. PICK x, D : x = bs[c] /\ D = Chunk(c, b)
    OBVIOUS
  <2>2. Chunked(x, D, I, padded, capacity, m)
    BY <1>2, <2>1, Zenon
  <2>3. D # {}
    <3>1. PICK o \in Nat : o = (c - 1) * b /\ o + b <= N /\ Chunk(c, b) = o + 1 .. o + b
      BY ChunkAt
    <3>2. o + 1 \in o + 1 .. o + b
      <4>1. b \in Nat /\ b > 0
        BY <1>1
      <4>2. QED
        BY <3>1, <4>1
    <3>3. QED
      BY <2>1, <3>1, <3>2, Zenon
  <2>4. \E Q \in Nat : /\ DOMAIN x = 1 .. Q * m
                       /\ \A s \in 1 .. m : Microbatched(FlattenSeq(BinsOf(x, s, m)), Bounds(BinsOf(x, s, m), padded),
                                                         Q, I, padded, capacity)
    <3>1. Measured(padded, I) /\ m \in Nat /\ m > 0
      BY <1>1, <1>2
    <3>2. QED
      BY <2>2, <2>3, <3>1, ChunkedBins
  <2>5. QED
    BY <2>1, <2>4, Zenon
<1>4. ASSUME NEW s \in 1 .. m
      PROVE  /\ ss[s].rows = FlattenSeq(P[s]) /\ DOMAIN ss[s].micro = 1 .. G
             /\ \A g \in 1 .. G : ss[s].micro[g] = Bounds(BinsOf(bs[g], s, m), padded)
             /\ DOMAIN P[s] = 1 .. G /\ P[s] = [g \in DOMAIN P[s] |-> P[s][g]]
             /\ \A g \in 1 .. G : P[s][g] = FlattenSeq(BinsOf(bs[g], s, m))
  <2>1. PICK r : r = FlattenSeq([c \in 1 .. G |-> FlattenSeq(BinsOf(bs[c], s, m))])
    OBVIOUS
  <2>2. PICK u : u = [c \in 1 .. G |-> Bounds(BinsOf(bs[c], s, m), padded)]
    OBVIOUS
  <2>3. ss[s] = [rows |-> r, micro |-> u]
    BY <2>1, <2>2, Zenon DEF PackedShards
  <2>4. ss[s].rows = r /\ ss[s].micro = u
    BY <2>3
  <2>5. P[s] = [c \in 1 .. G |-> FlattenSeq(BinsOf(bs[c], s, m))]
    BY Zenon DEF FlatBins
  <2>6. DOMAIN u = 1 .. G /\ \A g \in 1 .. G : u[g] = Bounds(BinsOf(bs[g], s, m), padded)
    BY <2>2, Zenon
  <2>7. ss[s].rows = FlattenSeq(P[s])
    BY <2>1, <2>4, <2>5, Zenon
  <2>8. DOMAIN P[s] = 1 .. G /\ P[s] = [g \in DOMAIN P[s] |-> P[s][g]]
    BY <2>5, Zenon
  <2>9. \A g \in 1 .. G : P[s][g] = FlattenSeq(BinsOf(bs[g], s, m))
    BY <2>5, Zenon
  <2>10. DOMAIN ss[s].micro = 1 .. G /\ \A g \in 1 .. G : ss[s].micro[g] = Bounds(BinsOf(bs[g], s, m), padded)
    BY <2>4, <2>6, Zenon
  <2>11. QED
    BY <2>7, <2>8, <2>9, <2>10
<1>5. ASSUME NEW c \in 1 .. G
      PROVE  \E Q \in Nat : \A s \in 1 .. m : Microbatched(P[s][c], ss[s].micro[c], Q, I, padded, capacity)
  <2>1. PICK Q \in Nat : \A s \in 1 .. m : Microbatched(FlattenSeq(BinsOf(bs[c], s, m)), Bounds(BinsOf(bs[c], s, m), padded),
                                                        Q, I, padded, capacity)
    BY <1>3, Zenon
  <2>2. ASSUME NEW s \in 1 .. m PROVE Microbatched(P[s][c], ss[s].micro[c], Q, I, padded, capacity)
    <3>1. P[s][c] = FlattenSeq(BinsOf(bs[c], s, m)) /\ ss[s].micro[c] = Bounds(BinsOf(bs[c], s, m), padded)
      BY <1>4, Zenon
    <3>2. QED
      BY <2>1, <3>1, Zenon
  <2>3. QED
    BY <2>2, Zenon
<1>6. ASSUME NEW s \in 1 .. m, NEW g \in 1 .. G
      PROVE  P[s][g] \in Seq(I) /\ Tiled(ss[s].micro[g], Len(P[s][g])) /\ Filled(P[s][g], ss[s].micro[g], padded, capacity)
  BY <1>5, Zenon DEF Microbatched
<1>7. Splits(ss, P, m, G, 1 .. N)
  <2>1. ASSUME NEW s \in 1 .. m PROVE Shape(ss[s], P[s], G, I)
    <3>1. PICK U : U = Seq(I)
      OBVIOUS
    <3>2. PICK p : p = P[s]
      OBVIOUS
    <3>3. \A g \in 1 .. G : p[g] \in U
      BY <1>6, <3>1, <3>2, Zenon
    <3>4. p \in [1 .. G -> U]
      BY <1>4, <3>2, <3>3, Zenon
    <3>5. p \in Seq(U) /\ Len(p) = G /\ DOMAIN p = 1 .. G
      BY <1>1, <3>4
    <3>6. Slices(p, G, I)
      BY <3>1, <3>5, Zenon DEF Slices
    <3>7. QED
      BY <1>4, <1>6, <3>2, <3>6, Zenon DEF Shape
  <2>2. QED
    BY <1>2, <2>1 DEF Splits
<1>8. SameMicro(ss, m, G)
  <2>1. ASSUME NEW r \in 1 .. m, NEW s \in 1 .. m, NEW g \in 1 .. G
        PROVE  Len(ss[r].micro[g]) = Len(ss[s].micro[g])
    <3>1. PICK Q \in Nat : \A t \in 1 .. m : Microbatched(P[t][g], ss[t].micro[g], Q, I, padded, capacity)
      BY <1>5
    <3>2. Len(ss[r].micro[g]) = Q
      BY <3>1, Zenon DEF Microbatched
    <3>3. Len(ss[s].micro[g]) = Q
      BY <3>1, Zenon DEF Microbatched
    <3>4. QED
      BY <3>2, <3>3
  <2>2. QED
    BY <2>1 DEF SameMicro
<1>9. ASSUME NEW c \in 1 .. G PROVE Holds(Column(P, m, c), Chunk(c, b))
  <2>1. PICK x, D : x = bs[c] /\ D = Chunk(c, b)
    OBVIOUS
  <2>2. Chunked(x, D, I, padded, capacity, m)
    BY <1>2, <2>1, Zenon
  <2>3. PICK n \in Nat, Q \in Nat : n = Len(x) /\ n = Q * m
    <3>1. x \in Seq(Seq(I))
      BY <2>2 DEF Chunked, Packed
    <3>2. Len(x) \in Nat
      BY <3>1
    <3>3. QED
      BY <2>2, <3>2 DEF Chunked
  <2>4. PICK col : col = Column(P, m, c)
    OBVIOUS
  <2>5. Len(col) = m
    BY <1>1, <2>4 DEF Column
  <2>6. \A s \in 1 .. m : col[s] = FlattenSeq(BinsOf(x, s, m))
    BY <1>4, <2>1, <2>4, Zenon DEF Column
  <2>7. Dealing(col, x, m)
    BY <2>5, <2>6, Zenon DEF Dealing
  <2>8. x \in Seq(Seq(I)) /\ Len(x) = n /\ Holds(x, D)
    BY <2>2, <2>3 DEF Chunked, Packed
  <2>9. Holds(col, D)
    BY <1>1, <2>3, <2>7, <2>8, DealtBinsHold
  <2>10. QED
    BY <2>1, <2>4, <2>9
<1>10. Once(P, m, G, b)
  BY <1>9 DEF Once
<1>11. AllFilled(ss, P, m, G, padded, capacity)
  BY <1>6, Zenon DEF AllFilled
<1>12. QED
  BY <1>7, <1>8, <1>10, <1>11

-----------------------------------------------------------------------------
(***************************************************************************)
(* What the packers are given, and the shards of a call.                   *)
(***************************************************************************)
LEMMA PaddedIs ==
  ASSUME NEW N \in Nat, NEW lens, Measured(lens, 1 .. N), NEW multiple \in Nat, multiple > 0
  PROVE  Measured(Padded(lens, multiple), 1 .. N)
<1>1. DOMAIN lens = 1 .. N /\ \A i \in 1 .. N : lens[i] \in Nat
  BY DEF Measured
<1>2. Padded(lens, multiple) = [i \in 1 .. N |-> RoundUp(lens[i], multiple)]
  BY <1>1, Zenon DEF Padded
<1>3. ASSUME NEW i \in 1 .. N PROVE RoundUp(lens[i], multiple) \in Nat
  <2>1. PICK l \in Nat : l = lens[i]
    BY <1>1
  <2>2. RoundUp(l, multiple) \in Nat
    BY RoundUpIs
  <2>3. QED
    BY <2>1, <2>2
<1>4. PICK f : f = [i \in 1 .. N |-> RoundUp(lens[i], multiple)]
  OBVIOUS
<1>5. f \in [1 .. N -> Nat]
  BY <1>3, <1>4, Zenon
<1>6. QED
  BY <1>2, <1>4, <1>5, Zenon DEF Measured

(* The bins of a chunk: every row of the chunk in one bin, as many bins    *)
(* for every shard.                                                        *)
LEMMA ChunkBinsAre ==
  ASSUME NEW N, NEW G, NEW b, NEW m, NEW q, Sizes(N, G, b, m, q), NEW c \in 1 .. G,
         NEW padded, Measured(padded, 1 .. N), NEW capacity \in Nat, Packable(padded, capacity),
         NEW algorithm, algorithm \in Algorithms,
         NEW x, x \in ChunkPackings(algorithm, padded, c, b, capacity, m)
  PROVE  Chunked(x, Chunk(c, b), 1 .. N, padded, capacity, m)
<1>1. /\ N \in Nat /\ m \in Nat /\ m > 0 /\ b \in Nat /\ b > 0 /\ q \in Nat /\ b = q * m
  BY DEF Sizes
<1>2. PICK o \in Nat : o = (c - 1) * b /\ o + b <= N /\ Chunk(c, b) = o + 1 .. o + b
  BY ChunkAt
<1>3. PICK S : S = {padded[i] : i \in 1 .. N}
  OBVIOUS
<1>4. S \subseteq Nat /\ ListOf(padded, N, S)
  <2>1. padded \in [1 .. N -> Nat]
    BY DEF Measured
  <2>2. padded \in [1 .. N -> S]
    BY <1>3, <2>1
  <2>3. padded \in Seq(S) /\ Len(padded) = N /\ DOMAIN padded = 1 .. N
    BY <1>1, <2>2
  <2>4. S \subseteq Nat
    BY <1>3, <2>1
  <2>5. QED
    BY <2>3, <2>4 DEF ListOf
<1>5. PICK part : part = Part(padded, c, b)
  OBVIOUS
<1>6. CutOut(part, padded, o, b, S)
  BY <1>2, <1>4, <1>5, ChunkPart
<1>7. part \in Seq(S) /\ DOMAIN part = 1 .. b /\ \A i \in 1 .. b : part[i] = padded[o + i]
  BY <1>6, Zenon DEF CutOut
<1>8. \A i \in 1 .. b : o + i \in 1 .. N
  BY <1>1, <1>2
<1>9. \A i \in 1 .. N : padded[i] \in Nat /\ padded[i] <= capacity
  BY DEF Measured, Packable
<1>10. Measured(part, 1 .. b) /\ HasRoom(1 .. b, part, capacity)
  <2>1. \A i \in 1 .. b : part[i] \in Nat /\ part[i] <= capacity
    BY <1>7, <1>8, <1>9, Zenon
  <2>2. part = [i \in 1 .. b |-> part[i]]
    BY <1>1, <1>7
  <2>3. part \in [1 .. b -> Nat]
    BY <2>1, <2>2, Zenon
  <2>4. QED
    BY <2>1, <2>3 DEF Measured, HasRoom
<1>11. b % m = 0
  <2>1. 0 \in Nat /\ 0 < m
    BY <1>1
  <2>2. (q * m + 0) % m = 0
    BY <1>1, <2>1, DivisionIs
  <2>3. q * m + 0 = b
    BY <1>1
  <2>4. QED
    BY <2>2, <2>3, Zenon
<1>12. PICK bs : /\ bs \in Packings(algorithm, part, capacity, m)
                 /\ x = [e \in DOMAIN bs |-> [k \in DOMAIN bs[e] |-> bs[e][k] + (c - 1) * b]]
  BY <1>5, Zenon DEF ChunkPackings
<1>13. x = MovedAll(bs, o)
  BY <1>2, <1>12, Zenon DEF MovedAll, Displaced
<1>14. Spread(bs, b, part, capacity, m)
  BY <1>1, <1>10, <1>11, <1>12, PackingsPacked
<1>15. Packed(bs, 1 .. b, 1 .. b, part, capacity) /\ \E Q \in Nat : Len(bs) = Q * m
  BY <1>14 DEF Spread
<1>16. /\ Packed(MovedAll(bs, o), o + 1 .. o + b, 1 .. N, padded, capacity)
       /\ Len(MovedAll(bs, o)) = Len(bs) /\ DOMAIN MovedAll(bs, o) = 1 .. Len(bs)
  <2>1. b \in Nat /\ o \in Nat /\ N \in Nat /\ o + b <= N
    BY <1>1, <1>2
  <2>2. Measured(part, 1 .. b) /\ Measured(padded, 1 .. N) /\ \A i \in 1 .. b : part[i] = padded[o + i]
    BY <1>7, <1>10
  <2>3. Packed(bs, 1 .. b, 1 .. b, part, capacity)
    BY <1>15
  <2>4. QED
    BY <2>1, <2>2, <2>3, MovedPacked
<1>17. Packed(x, Chunk(c, b), 1 .. N, padded, capacity) /\ Len(x) = Len(bs)
  BY <1>2, <1>13, <1>16
<1>18. \E Q \in Nat : Len(x) = Q * m
  BY <1>15, <1>17
<1>19. QED
  BY <1>17, <1>18 DEF Chunked

=============================================================================
