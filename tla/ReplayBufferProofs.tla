-------------------------- MODULE ReplayBufferProofs --------------------------
(***************************************************************************)
(* The three lists of the replay buffer, for any sizes, ages and versions: *)
(* they implement the pool, and a sample takes the oldest groups.          *)
(***************************************************************************)
EXTENDS ReplayBuffer, FiniteSetTheorems, FunctionTheorems, WellFoundedInduction, TLAPS

(***************************************************************************)
(* What is left of a list.  Kept(T) lists the indices in T in their order; *)
(* Thinned(list, R) is the list without those in R.                        *)
(***************************************************************************)
Lists(h, T) ==
  /\ \A t \in T : \E k \in 1 .. Len(h) : h[k] = t
  /\ \A j, k \in 1 .. Len(h) : j < k => h[j] < h[k]

Kept(T) == CHOOSE h \in Seq(T) : Lists(h, T)

Thinned(list, R) ==
  [k \in 1 .. Len(Kept((1 .. Len(list)) \ R)) |-> list[Kept((1 .. Len(list)) \ R)[k]]]

LEMMA LeastOf ==
  ASSUME NEW S, S \subseteq Nat, S # {}
  PROVE  Min(S) \in S /\ \A x \in S : Min(S) <= x
<1>1. PICK s \in S : \A x \in S : <<x, s>> \notin OpToRel(<, Nat)
  BY WFMin, NatLessThanWellFounded, Zenon
<1>2. \A x \in S : ~(x < s)
  BY <1>1, Zenon DEF OpToRel
<1>3. \A x \in S : s <= x
  BY <1>2
<1>4. QED
  BY <1>3, Zenon DEF Min

LEMMA SeqTyped ==
  ASSUME NEW A, NEW s \in Seq(A)
  PROVE  Len(s) \in Nat /\ \A k \in 1 .. Len(s) : s[k] \in A
OBVIOUS

LEMMA Removed ==
  ASSUME NEW A, NEW s \in Seq(A), NEW i \in 1 .. Len(s)
  PROVE  /\ RemoveAt(s, i) \in Seq(A) /\ Len(RemoveAt(s, i)) = Len(s) - 1
         /\ \A k \in 1 .. Len(s) - 1 : RemoveAt(s, i)[k] = IF k < i THEN s[k] ELSE s[k + 1]
<1> DEFINE front == SubSeq(s, 1, i - 1)
           back == SubSeq(s, i + 1, Len(s))
<1>1. /\ front \in Seq(A) /\ Len(front) = i - 1
      /\ \A k \in 1 .. i - 1 : front[k] = s[k]
  OBVIOUS
<1>2. /\ back \in Seq(A) /\ Len(back) = Len(s) - i
      /\ \A k \in 1 .. Len(s) - i : back[k] = s[i + k]
  OBVIOUS
<1>3. RemoveAt(s, i) = front \o back
  BY DEF RemoveAt
<1> HIDE DEF front, back
<1>4. /\ front \o back \in Seq(A) /\ Len(front \o back) = Len(s) - 1
      /\ \A k \in 1 .. Len(s) - 1 :
           (front \o back)[k] = IF k <= Len(front) THEN front[k] ELSE back[k - Len(front)]
  <2>1. \A a, b \in Seq(A) :
          /\ a \o b \in Seq(A) /\ Len(a \o b) = Len(a) + Len(b)
          /\ \A k \in 1 .. Len(a) + Len(b) : (a \o b)[k] = IF k <= Len(a) THEN a[k] ELSE b[k - Len(a)]
    OBVIOUS
  <2>2. Len(front) + Len(back) = Len(s) - 1
    BY <1>1, <1>2, SeqTyped
  <2>3. /\ front \o back \in Seq(A) /\ Len(front \o back) = Len(front) + Len(back)
        /\ \A k \in 1 .. Len(front) + Len(back) :
             (front \o back)[k] = IF k <= Len(front) THEN front[k] ELSE back[k - Len(front)]
    BY <1>1, <1>2, <2>1, Zenon
  <2>4. QED
    BY <2>2, <2>3
<1>5. ASSUME NEW k \in 1 .. Len(s) - 1
      PROVE  (front \o back)[k] = IF k < i THEN s[k] ELSE s[k + 1]
  <2>1. CASE k < i
    BY <1>1, <1>4, <2>1
  <2>2. CASE ~(k < i)
    <3>1. k - (i - 1) \in 1 .. Len(s) - i /\ i + (k - (i - 1)) = k + 1
      BY <2>2
    <3>2. (front \o back)[k] = back[k - (i - 1)]
      BY <1>1, <1>4, <2>2
    <3>3. QED
      BY <1>2, <2>2, <3>1, <3>2
  <2>3. QED
    BY <2>1, <2>2
<1>6. QED
  BY <1>3, <1>4, <1>5

(* Every set of indices has one such list.                                 *)
LEMMA Listed ==
  ASSUME NEW n \in Nat, NEW T, T \subseteq 1 .. n
  PROVE  \E h \in Seq(T) : Lists(h, T)
<1> DEFINE Bad == {m \in Nat : \E S \in SUBSET (1 .. m) : \A h \in Seq(S) : ~Lists(h, S)}
<1>1. ASSUME Bad # {} PROVE FALSE
  <2> DEFINE m == Min(Bad)
  <2>1. m \in Bad /\ \A x \in Bad : m <= x
    <3> HIDE DEF Bad
    <3> QED
      BY <1>1, LeastOf DEF Bad
  <2>2. m \in Nat
    BY <2>1
  <2>3. PICK S \in SUBSET (1 .. m) : \A h \in Seq(S) : ~Lists(h, S)
    BY <2>1
  <2> HIDE DEF m
  <2>4. CASE m = 0
    <3>1. S = {} /\ <<>> \in Seq(S)
      BY <2>4
    <3>2. Lists(<<>>, S)
      BY <3>1 DEF Lists
    <3>3. QED
      BY <2>3, <3>1, <3>2
  <2>5. CASE m # 0
    <3> DEFINE Q == S \ {m}
    <3>1. m - 1 \in Nat /\ m - 1 \notin Bad
      <4> HIDE DEF Bad
      <4> QED
        BY <2>1, <2>2, <2>5
    <3>2. Q \in SUBSET (1 .. m - 1)
      BY <2>2, <2>5
    <3>3. PICK h \in Seq(Q) : Lists(h, Q)
      BY <3>1, <3>2
    <3>4. CASE m \notin S
      <4>1. Q = S
        BY <3>4
      <4>2. QED
        BY <2>3, <3>3, <4>1
    <3>5. CASE m \in S
      <4> DEFINE g == Append(h, m)
      <4>1. h \in Seq(S)
        BY <3>3
      <4>2. /\ g \in Seq(S) /\ Len(g) = Len(h) + 1 /\ g[Len(h) + 1] = m
            /\ \A k \in 1 .. Len(h) : g[k] = h[k]
        BY <3>5, <4>1
      <4> HIDE DEF g
      <4>3. \A k \in 1 .. Len(h) : h[k] \in Q /\ h[k] < m /\ h[k] \in Nat
        <5>1. \A x \in Q : x < m /\ x \in Nat
          BY <2>2, <3>2
        <5>2. \A k \in 1 .. Len(h) : h[k] \in Q
          <6> HIDE DEF Q
          <6> QED
            BY SeqTyped
        <5> HIDE DEF Q
        <5>3. QED
          BY <5>1, <5>2
      <4>4. \A t \in S : \E k \in 1 .. Len(g) : g[k] = t
        <5> SUFFICES ASSUME NEW t \in S PROVE \E k \in 1 .. Len(g) : g[k] = t
          OBVIOUS
        <5>1. CASE t = m
          BY <4>1, <4>2, <5>1
        <5>2. CASE t # m
          <6>1. PICK k \in 1 .. Len(h) : h[k] = t
            BY <3>3, <5>2 DEF Lists
          <6>2. k \in 1 .. Len(g) /\ g[k] = t
            BY <4>1, <4>2, <6>1
          <6>3. QED
            BY <6>2
        <5>3. QED
          BY <5>1, <5>2
      <4>5. \A j, k \in 1 .. Len(g) : j < k => g[j] < g[k]
        <5> SUFFICES ASSUME NEW j \in 1 .. Len(g), NEW k \in 1 .. Len(g), j < k PROVE g[j] < g[k]
          OBVIOUS
        <5>1. Len(h) \in Nat /\ j \in 1 .. Len(h) /\ (k \in 1 .. Len(h) \/ k = Len(h) + 1)
          <6>1. Len(h) \in Nat
            BY <4>1, SeqTyped
          <6>2. j \in 1 .. Len(h) + 1 /\ k \in 1 .. Len(h) + 1
            BY <4>2
          <6>3. QED
            BY <6>1, <6>2
        <5>2. CASE k \in 1 .. Len(h)
          <6>1. h[j] < h[k]
            BY <3>3, <5>1, <5>2 DEF Lists
          <6>2. QED
            BY <4>2, <5>1, <5>2, <6>1
        <5>3. CASE k = Len(h) + 1
          BY <4>2, <4>3, <5>1, <5>3
        <5>4. QED
          BY <5>1, <5>2, <5>3
      <4>6. QED
        BY <2>3, <4>2, <4>4, <4>5 DEF Lists
    <3>6. QED
      BY <3>4, <3>5
  <2>6. QED
    BY <2>4, <2>5
<1>2. n \notin Bad
  BY <1>1
<1>3. QED
  BY <1>2

LEMMA ListedOnce ==
  ASSUME NEW T, T \subseteq Nat, NEW h \in Seq(T), NEW g \in Seq(T), Lists(h, T), Lists(g, T)
  PROVE  h = g
<1>1. /\ Len(h) \in Nat /\ Len(g) \in Nat
      /\ \A k \in 1 .. Len(h) : h[k] \in T /\ h[k] \in Nat
      /\ \A k \in 1 .. Len(g) : g[k] \in T /\ g[k] \in Nat
  BY SeqTyped
<1>2. ASSUME NEW k \in 1 .. Len(h), k \in 1 .. Len(g), h[k] # g[k] PROVE FALSE
  <2> DEFINE Bad == {i \in Nat : i \in 1 .. Len(h) /\ i \in 1 .. Len(g) /\ h[i] # g[i]}
             m == Min(Bad)
  <2>1. Bad \subseteq Nat /\ Bad # {}
    BY <1>2
  <2>2. m \in Bad /\ \A x \in Bad : m <= x
    <3> HIDE DEF Bad
    <3> QED
      BY <2>1, LeastOf
  <2>3. m \in 1 .. Len(h) /\ m \in 1 .. Len(g) /\ h[m] # g[m]
    BY <2>2
  <2>4. \A i \in 1 .. m - 1 : h[i] = g[i]
    BY <2>2, <2>3
  <2> HIDE DEF m, Bad
  <2>5. CASE h[m] < g[m]
    <3>1. PICK j \in 1 .. Len(g) : g[j] = h[m]
      BY <1>1, <2>3 DEF Lists
    <3>2. CASE j < m
      <4>1. j \in 1 .. Len(h) /\ h[j] = h[m]
        BY <1>1, <2>3, <2>4, <3>1, <3>2
      <4>2. h[j] < h[m]
        BY <2>3, <3>2, <4>1 DEF Lists
      <4>3. QED
        BY <1>1, <2>3, <4>1, <4>2
    <3>3. CASE m < j
      <4>1. g[m] < g[j]
        BY <2>3, <3>1, <3>3 DEF Lists
      <4>2. QED
        BY <1>1, <2>3, <2>5, <3>1, <4>1
    <3>4. QED
      BY <2>3, <3>1, <3>2, <3>3
  <2>6. CASE g[m] < h[m]
    <3>1. PICK j \in 1 .. Len(h) : h[j] = g[m]
      BY <1>1, <2>3 DEF Lists
    <3>2. CASE j < m
      <4>1. j \in 1 .. Len(g) /\ g[j] = g[m]
        BY <1>1, <2>3, <2>4, <3>1, <3>2
      <4>2. g[j] < g[m]
        BY <2>3, <3>2, <4>1 DEF Lists
      <4>3. QED
        BY <1>1, <2>3, <4>1, <4>2
    <3>3. CASE m < j
      <4>1. h[m] < h[j]
        BY <2>3, <3>1, <3>3 DEF Lists
      <4>2. QED
        BY <1>1, <2>3, <2>6, <3>1, <4>1
    <3>4. QED
      BY <2>3, <3>1, <3>2, <3>3
  <2>7. QED
    BY <1>1, <2>3, <2>5, <2>6
<1>3. ~(Len(h) < Len(g))
  <2> SUFFICES ASSUME Len(h) < Len(g) PROVE FALSE
    OBVIOUS
  <2>1. Len(h) + 1 \in 1 .. Len(g)
    BY <1>1
  <2>2. PICK j \in 1 .. Len(h) : h[j] = g[Len(h) + 1]
    BY <1>1, <2>1 DEF Lists
  <2>3. j \in 1 .. Len(g) /\ j < Len(h) + 1 /\ g[j] = g[Len(h) + 1]
    BY <1>1, <1>2, <2>2
  <2>4. QED
    BY <1>1, <2>1, <2>3 DEF Lists
<1>4. ~(Len(g) < Len(h))
  <2> SUFFICES ASSUME Len(g) < Len(h) PROVE FALSE
    OBVIOUS
  <2>1. Len(g) + 1 \in 1 .. Len(h)
    BY <1>1
  <2>2. PICK j \in 1 .. Len(g) : g[j] = h[Len(g) + 1]
    BY <1>1, <2>1 DEF Lists
  <2>3. j \in 1 .. Len(h) /\ j < Len(g) + 1 /\ h[j] = h[Len(g) + 1]
    BY <1>1, <1>2, <2>2
  <2>4. QED
    BY <1>1, <2>1, <2>3 DEF Lists
<1>5. Len(h) = Len(g)
  BY <1>1, <1>3, <1>4
<1>6. \A k \in 1 .. Len(h) : h[k] = g[k]
  BY <1>2, <1>5
<1>7. QED
  BY <1>5, <1>6

LEMMA KeptLists ==
  ASSUME NEW n \in Nat, NEW T, T \subseteq 1 .. n
  PROVE  /\ Kept(T) \in Seq(T) /\ Lists(Kept(T), T)
         /\ \A h \in Seq(T) : Lists(h, T) => h = Kept(T)
<1>1. Kept(T) \in Seq(T) /\ Lists(Kept(T), T)
  BY Listed DEF Kept
<1>2. T \subseteq Nat
  OBVIOUS
<1>3. QED
  BY <1>1, <1>2, ListedOnce

(* Below the first gap an index is where it was.                           *)
LEMMA BelowGap ==
  ASSUME NEW n \in Nat, NEW T, T \subseteq 1 .. n, NEW i \in Nat, 1 .. i \subseteq T
  PROVE  \A k \in 1 .. i : k \in 1 .. Len(Kept(T)) /\ Kept(T)[k] = k
<1> DEFINE h == Kept(T)
<1>1. h \in Seq(T) /\ Lists(h, T)
  BY KeptLists
<1> HIDE DEF h
<1>2. Len(h) \in Nat /\ \A k \in 1 .. Len(h) : h[k] \in T /\ h[k] \in Nat /\ h[k] >= 1
  <2>1. Len(h) \in Nat /\ \A k \in 1 .. Len(h) : h[k] \in T
    BY <1>1, SeqTyped
  <2>2. \A t \in T : t \in Nat /\ t >= 1
    OBVIOUS
  <2>3. QED
    BY <2>1, <2>2
<1> DEFINE Bad == {k \in Nat : k \in 1 .. i /\ ~(k \in 1 .. Len(h) /\ h[k] = k)}
<1>3. ASSUME Bad # {} PROVE FALSE
  <2> DEFINE m == Min(Bad)
  <2>1. m \in Bad /\ \A x \in Bad : m <= x
    <3>1. Bad \subseteq Nat
      OBVIOUS
    <3> HIDE DEF Bad
    <3> QED
      BY <1>3, <3>1, LeastOf
  <2>2. m \in 1 .. i /\ ~(m \in 1 .. Len(h) /\ h[m] = m)
    BY <2>1
  <2>3. \A k \in 1 .. m - 1 : k \in 1 .. Len(h) /\ h[k] = k
    BY <2>1, <2>2
  <2> HIDE DEF m, Bad
  <2>4. PICK j \in 1 .. Len(h) : h[j] = m
    BY <1>1, <2>2 DEF Lists
  <2>5. ~(j < m)
    BY <2>2, <2>3, <2>4
  <2>6. m < j
    BY <2>2, <2>4, <2>5
  <2>7. m \in 1 .. Len(h) /\ h[m] < m
    <3>1. m \in 1 .. Len(h)
      BY <1>2, <2>2, <2>4, <2>6
    <3>2. QED
      BY <1>1, <2>4, <2>6, <3>1 DEF Lists
  <2>8. h[h[m]] = h[m] /\ h[m] \in 1 .. Len(h)
    BY <1>2, <2>2, <2>3, <2>7
  <2>9. h[h[m]] < h[m]
    BY <1>1, <2>7, <2>8 DEF Lists
  <2>10. QED
    BY <1>2, <2>7, <2>8, <2>9
<1>4. QED
  BY <1>3 DEF h

(* Taking the smallest of R out last.                                      *)
LEMMA ThinnedOnce ==
  ASSUME NEW A, NEW list \in Seq(A), NEW R, R \subseteq 1 .. Len(list), NEW a \in R, \A x \in R : a <= x
  PROVE  Thinned(list, R) = RemoveAt(Thinned(list, R \ {a}), a)
<1> DEFINE n == Len(list)
           T == (1 .. n) \ (R \ {a})
           Q == (1 .. n) \ R
           h == Kept(T)
           g == RemoveAt(h, a)
<1>1. n \in Nat /\ T \subseteq 1 .. n /\ Q \subseteq 1 .. n /\ Q = T \ {a} /\ a \in Nat /\ a \in T /\ a >= 1
  BY SeqTyped
<1>2. h \in Seq(T) /\ Lists(h, T)
  BY <1>1, KeptLists
<1>3. 1 .. a \subseteq T
  BY <1>1
<1>4. a \in 1 .. Len(h) /\ h[a] = a
  BY <1>1, <1>3, BelowGap
<1> HIDE DEF h, T
<1>5. Len(h) \in Nat /\ \A k \in 1 .. Len(h) : h[k] \in T
  BY <1>2, SeqTyped
<1>6. /\ g \in Seq(T) /\ Len(g) = Len(h) - 1
      /\ \A k \in 1 .. Len(h) - 1 : g[k] = IF k < a THEN h[k] ELSE h[k + 1]
  BY <1>2, <1>4, Removed
<1> HIDE DEF g, n, Q
<1>7. \A t \in T : t \in Nat
  BY <1>1
<1>8. \A j, k \in 1 .. Len(h) : j < k => h[j] < h[k]
  BY <1>2 DEF Lists
<1>9. Lists(g, Q)
  <2>1. ASSUME NEW t \in Q PROVE \E k \in 1 .. Len(g) : g[k] = t
    <3>1. t \in T /\ t # a
      BY <1>1
    <3>2. PICK k \in 1 .. Len(h) : h[k] = t
      BY <1>2, <3>1 DEF Lists
    <3>3. CASE k < a
      <4>1. k \in 1 .. Len(h) - 1
        BY <1>4, <1>5, <3>3
      <4>2. QED
        BY <1>6, <3>2, <3>3, <4>1
    <3>4. CASE a < k
      <4>1. k - 1 \in 1 .. Len(h) - 1 /\ ~(k - 1 < a) /\ k - 1 + 1 = k
        BY <1>1, <1>5, <3>4
      <4>2. g[k - 1] = t
        BY <1>6, <3>2, <4>1
      <4>3. QED
        BY <1>6, <4>1, <4>2
    <3>5. QED
      BY <1>1, <1>4, <3>1, <3>2, <3>3, <3>4
  <2>2. ASSUME NEW j \in 1 .. Len(g), NEW k \in 1 .. Len(g), j < k PROVE g[j] < g[k]
    <3>1. /\ j \in 1 .. Len(h) /\ j + 1 \in 1 .. Len(h) /\ k \in 1 .. Len(h) /\ k + 1 \in 1 .. Len(h)
          /\ j \in 1 .. Len(h) - 1 /\ k \in 1 .. Len(h) - 1
      BY <1>5, <1>6
    <3>2. CASE k < a
      BY <1>6, <1>8, <2>2, <3>1, <3>2
    <3>3. CASE j < a /\ ~(k < a)
      <4>1. j < k + 1
        BY <2>2
      <4>2. QED
        BY <1>6, <1>8, <3>1, <3>3, <4>1
    <3>4. CASE ~(j < a) /\ ~(k < a)
      <4>1. j + 1 < k + 1
        BY <2>2
      <4>2. QED
        BY <1>6, <1>8, <3>1, <3>4, <4>1
    <3>5. QED
      BY <1>1, <2>2, <3>2, <3>3, <3>4
  <2>3. QED
    BY <2>1, <2>2 DEF Lists
<1>10. g \in Seq(Q)
  <2>1. ASSUME NEW k \in 1 .. Len(g) PROVE g[k] \in Q
    <3>1. /\ k \in 1 .. Len(h) /\ k + 1 \in 1 .. Len(h) /\ k \in 1 .. Len(h) - 1
      BY <1>5, <1>6
    <3>2. CASE k < a
      <4>1. h[k] < a
        BY <1>4, <1>8, <3>1, <3>2
      <4>2. QED
        BY <1>1, <1>5, <1>6, <1>7, <3>1, <3>2, <4>1
    <3>3. CASE ~(k < a)
      <4>1. a < k + 1
        BY <1>1, <3>3
      <4>2. a < h[k + 1]
        BY <1>4, <1>8, <3>1, <4>1
      <4>3. QED
        BY <1>1, <1>5, <1>6, <1>7, <3>1, <3>3, <4>2
    <3>4. QED
      BY <3>2, <3>3
  <2>2. g = [k \in 1 .. Len(g) |-> g[k]] /\ Len(g) \in Nat
    BY <1>6
  <2>3. QED
    BY <2>1, <2>2
<1>11. g = Kept(Q)
  BY <1>1, <1>9, <1>10, KeptLists
<1>12. Thinned(list, R) = [k \in 1 .. Len(g) |-> list[g[k]]]
  BY <1>11 DEF Thinned, Q, n
<1> DEFINE s == Thinned(list, R \ {a})
<1>13. s = [k \in 1 .. Len(h) |-> list[h[k]]]
  BY DEF Thinned, h, T, n
<1> HIDE DEF s
<1>14. s \in Seq(A) /\ Len(s) = Len(h)
  <2>1. \A k \in 1 .. Len(h) : list[h[k]] \in A
    BY <1>1, <1>5, SeqTyped DEF n
  <2>2. QED
    BY <1>5, <1>13, <2>1
<1>15. /\ RemoveAt(s, a) \in Seq(A) /\ Len(RemoveAt(s, a)) = Len(g)
       /\ \A k \in 1 .. Len(g) : RemoveAt(s, a)[k] = IF k < a THEN s[k] ELSE s[k + 1]
  BY <1>4, <1>6, <1>14, Removed
<1>16. ASSUME NEW k \in 1 .. Len(g) PROVE RemoveAt(s, a)[k] = list[g[k]]
  <2>1. k \in 1 .. Len(h) /\ k + 1 \in 1 .. Len(h) /\ k \in 1 .. Len(h) - 1
    BY <1>5, <1>6
  <2>2. QED
    BY <1>6, <1>13, <1>15, <2>1
<1>17. RemoveAt(s, a) = [k \in 1 .. Len(g) |-> list[g[k]]]
  <2>1. RemoveAt(s, a) = [k \in 1 .. Len(g) |-> RemoveAt(s, a)[k]]
    BY <1>15
  <2>2. QED
    BY <1>16, <2>1
<1>18. QED
  BY <1>12, <1>17 DEF s

LEMMA ThinnedNone ==
  ASSUME NEW A, NEW list \in Seq(A)
  PROVE  Thinned(list, {}) = list
<1> DEFINE n == Len(list)
           T == (1 .. n) \ {}
           id == [k \in 1 .. n |-> k]
<1>1. n \in Nat /\ T = 1 .. n
  BY SeqTyped
<1>2. id \in Seq(T) /\ Len(id) = n
  BY <1>1
<1>3. Lists(id, T)
  BY <1>1, <1>2 DEF Lists
<1>4. id = Kept(T)
  BY <1>1, <1>2, <1>3, KeptLists
<1>5. Thinned(list, {}) = [k \in 1 .. Len(id) |-> list[id[k]]]
  BY <1>4 DEF Thinned
<1>6. Thinned(list, {}) = [k \in 1 .. n |-> list[k]]
  BY <1>2, <1>5
<1>7. QED
  BY <1>6

(* However many pops there are, they leave the list without the indices.   *)
LEMMA PopsAll ==
  ASSUME NEW A, NEW list \in Seq(A), NEW R, R \subseteq 1 .. Len(list)
  PROVE  PopAll(list, R) = Thinned(list, R)
<1> DEFINE Rest(f, s) == IF s = {} THEN list ELSE RemoveAt(f[s \ {Min(s)}], Min(s))
           iter == CHOOSE f : f = [s \in SUBSET R |-> Rest(f, s)]
           thin == [s \in SUBSET R |-> Thinned(list, s)]
<1>1. PopAll(list, R) = iter[R]
  BY Zenon DEF PopAll, MapThenFoldSet
<1>2. ASSUME NEW s \in SUBSET R, s # {}
      PROVE  Min(s) \in s /\ Thinned(list, s) = RemoveAt(Thinned(list, s \ {Min(s)}), Min(s))
  <2>1. s \subseteq Nat
    OBVIOUS
  <2>2. Min(s) \in s /\ \A x \in s : Min(s) <= x
    BY <1>2, <2>1, LeastOf
  <2>3. QED
    BY <2>2, ThinnedOnce
<1>3. \A s \in SUBSET R : Thinned(list, s) = Rest(thin, s)
  <2> SUFFICES ASSUME NEW s \in SUBSET R PROVE Thinned(list, s) = Rest(thin, s)
    OBVIOUS
  <2>1. CASE s = {}
    BY <2>1, ThinnedNone
  <2>2. CASE s # {}
    <3>1. s \ {Min(s)} \in SUBSET R
      OBVIOUS
    <3>2. thin[s \ {Min(s)}] = Thinned(list, s \ {Min(s)})
      BY <3>1
    <3>3. QED
      BY <1>2, <2>2, <3>2
  <2>3. QED
    BY <2>1, <2>2
<1>4. thin = [s \in SUBSET R |-> Rest(thin, s)]
  BY <1>3
<1>5. iter = [s \in SUBSET R |-> Rest(iter, s)]
  <2>1. \E f : f = [s \in SUBSET R |-> Rest(f, s)]
    <3> HIDE DEF thin
    <3> QED
      BY <1>4
  <2>2. QED
    BY <2>1, Zenon
<1>6. \A s \in SUBSET R : iter[s] = Rest(iter, s)
  <2> HIDE DEF iter
  <2> QED
    BY <1>5
<1> HIDE DEF iter, thin
<1>7. IsFiniteSet(R)
  <2>1. Len(list) \in Nat
    BY SeqTyped
  <2>2. IsFiniteSet(1 .. Len(list))
    BY <2>1, FS_Interval
  <2>3. QED
    BY <2>2, FS_Subset
<1>8. iter[R] = Thinned(list, R)
  <2> DEFINE Wrong == {s \in SUBSET R : iter[s] # Thinned(list, s)}
             sizes == {Cardinality(s) : s \in Wrong}
  <2> SUFFICES ASSUME Wrong # {} PROVE FALSE
    OBVIOUS
  <2>1. \A s \in SUBSET R : IsFiniteSet(s) /\ Cardinality(s) \in Nat
    BY <1>7, FS_Subset, FS_CardinalityType
  <2>2. sizes \subseteq Nat /\ sizes # {}
    BY <2>1
  <2>3. Min(sizes) \in sizes /\ \A x \in sizes : Min(sizes) <= x
    <3> HIDE DEF sizes
    <3> QED
      BY <2>2, LeastOf
  <2>4. PICK s \in Wrong : Min(sizes) = Cardinality(s)
    BY <2>3
  <2>5. \A r \in Wrong : Cardinality(s) <= Cardinality(r)
    BY <2>3, <2>4
  <2>6. s \in SUBSET R /\ iter[s] # Thinned(list, s)
    BY <2>4
  <2> HIDE DEF sizes
  <2>7. s # {}
    BY <1>6, <2>6, ThinnedNone
  <2>8. Min(s) \in s /\ Thinned(list, s) = RemoveAt(Thinned(list, s \ {Min(s)}), Min(s))
    BY <1>2, <2>6, <2>7
  <2> DEFINE r == s \ {Min(s)}
  <2>9. r \in SUBSET R /\ Cardinality(r) = Cardinality(s) - 1
    BY <2>1, <2>6, <2>8, FS_RemoveElement
  <2>10. r \notin Wrong
    <3>1. Cardinality(s) \in Nat
      BY <2>1, <2>6
    <3> HIDE DEF Wrong, r
    <3>2. QED
      BY <2>5, <2>9, <3>1
  <2>11. iter[r] = Thinned(list, r)
    BY <2>9, <2>10
  <2>12. QED
    BY <1>6, <2>6, <2>7, <2>8, <2>11
<1>9. QED
  BY <1>1, <1>8

-----------------------------------------------------------------------------
(***************************************************************************)
(* The lists run in parallel: of one length, each group once, and meant    *)
(* for a step that its version is young enough for.                        *)
(***************************************************************************)
Size == Len(trajectories)
EntryAt(i) ==
  [id |-> trajectories[i], version |-> trajectory_versions[i], target |-> target_weight_versions[i]]
Held == {EntryAt(i) : i \in DOMAIN trajectories}

BufferInv ==
  /\ trajectories \in Seq(Trajectories)
  /\ trajectory_versions \in Seq(Versions) /\ Len(trajectory_versions) = Size
  /\ target_weight_versions \in Seq(Versions) /\ Len(target_weight_versions) = Size
  /\ \A i, j \in 1 .. Size : trajectories[i] = trajectories[j] => i = j
  /\ \A i \in 1 .. Size : trajectories[i] \in pushed
  /\ \A i \in 1 .. Size :
       target_weight_versions[i] \in trajectory_versions[i] .. trajectory_versions[i] + MaxAge

USE BufferAssumption

LEMMA BufferTypes ==
  ASSUME BufferInv
  PROVE  /\ Size \in Nat /\ DOMAIN trajectories = 1 .. Size /\ DOMAIN trajectory_versions = 1 .. Size
         /\ \A i \in 1 .. Size :
              /\ trajectories[i] \in Trajectories
              /\ trajectory_versions[i] \in Versions /\ trajectory_versions[i] \in Nat
              /\ target_weight_versions[i] \in Versions /\ target_weight_versions[i] \in Nat
              /\ trajectory_versions[i] <= target_weight_versions[i]
<1>1. Size \in Nat /\ DOMAIN trajectories = 1 .. Size /\ DOMAIN trajectory_versions = 1 .. Size
  BY DEF BufferInv, Size
<1>2. \A v \in Versions : v \in Nat
  BY DEF Versions
<1>3. \A i \in 1 .. Size :
        /\ trajectories[i] \in Trajectories /\ trajectory_versions[i] \in Versions
        /\ target_weight_versions[i] \in Versions
  BY SeqTyped DEF BufferInv, Size
<1>4. \A i \in 1 .. Size : trajectory_versions[i] <= target_weight_versions[i]
  BY <1>2, <1>3 DEF BufferInv
<1>5. QED
  BY <1>1, <1>2, <1>3, <1>4

(* What a set of indices leaves of each of the lists.                      *)
LEMMA PoppedTogether ==
  ASSUME BufferInv, NEW R, R \subseteq 1 .. Size,
         trajectories' = PopAll(trajectories, R),
         trajectory_versions' = PopAll(trajectory_versions, R),
         target_weight_versions' = PopAll(target_weight_versions, R)
  PROVE  \E h \in Seq((1 .. Size) \ R) :
           /\ Lists(h, (1 .. Size) \ R)
           /\ trajectories' \in Seq(Trajectories) /\ Len(trajectories') = Len(h)
           /\ trajectory_versions' \in Seq(Versions) /\ Len(trajectory_versions') = Len(h)
           /\ target_weight_versions' \in Seq(Versions) /\ Len(target_weight_versions') = Len(h)
           /\ \A k \in 1 .. Len(h) :
                /\ trajectories'[k] = trajectories[h[k]]
                /\ trajectory_versions'[k] = trajectory_versions[h[k]]
                /\ target_weight_versions'[k] = target_weight_versions[h[k]]
<1> DEFINE T == (1 .. Size) \ R
           h == Kept(T)
<1>1. h \in Seq(T) /\ Lists(h, T)
  BY BufferTypes, KeptLists
<1>2. Len(h) \in Nat /\ \A k \in 1 .. Len(h) : h[k] \in 1 .. Size
  BY <1>1, SeqTyped
<1>3. ASSUME NEW A, NEW list \in Seq(A), Len(list) = Size
      PROVE  /\ PopAll(list, R) \in Seq(A) /\ Len(PopAll(list, R)) = Len(h)
             /\ \A k \in 1 .. Len(h) : PopAll(list, R)[k] = list[h[k]]
  <2>1. PopAll(list, R) = [k \in 1 .. Len(h) |-> list[h[k]]]
    <3>1. PopAll(list, R) = Thinned(list, R)
      <4>1. R \subseteq 1 .. Len(list)
        BY <1>3
      <4>2. QED
        BY <4>1, PopsAll
    <3>2. QED
      BY <1>3, <3>1, Zenon DEF Thinned
  <2>2. \A k \in 1 .. Len(h) : list[h[k]] \in A
    BY <1>2, <1>3, SeqTyped
  <2> HIDE DEF h
  <2>3. QED
    BY <1>2, <2>1, <2>2
<1>4. /\ PopAll(trajectories, R) \in Seq(Trajectories) /\ Len(PopAll(trajectories, R)) = Len(h)
      /\ \A k \in 1 .. Len(h) : PopAll(trajectories, R)[k] = trajectories[h[k]]
  BY <1>3 DEF BufferInv, Size
<1>5. /\ PopAll(trajectory_versions, R) \in Seq(Versions) /\ Len(PopAll(trajectory_versions, R)) = Len(h)
      /\ \A k \in 1 .. Len(h) : PopAll(trajectory_versions, R)[k] = trajectory_versions[h[k]]
  BY <1>3 DEF BufferInv
<1>6. /\ PopAll(target_weight_versions, R) \in Seq(Versions) /\ Len(PopAll(target_weight_versions, R)) = Len(h)
      /\ \A k \in 1 .. Len(h) : PopAll(target_weight_versions, R)[k] = target_weight_versions[h[k]]
  BY <1>3 DEF BufferInv
<1> HIDE DEF h
<1>7. QED
  BY <1>1, <1>4, <1>5, <1>6

(* The first indices are those of the smallest.                            *)
LEMMA FirstSelected ==
  ASSUME BufferInv, NEW cur, Cardinality(IntendedIndices(cur)) >= NumGroups
  PROVE  /\ Selected(cur) \subseteq IntendedIndices(cur) /\ Selected(cur) \subseteq 1 .. Size
         /\ IsFiniteSet(Selected(cur)) /\ Cardinality(Selected(cur)) = NumGroups
         /\ \A i \in IntendedIndices(cur), j \in Selected(cur) : i < j => i \in Selected(cur)
<1> DEFINE T == IntendedIndices(cur)
           Before(i) == {j \in T : j < i}
           h == Kept(T)
<1>1. T \subseteq 1 .. Size /\ Selected(cur) \subseteq T
  BY BufferTypes DEF IntendedIndices, Selected
<1>2. IsFiniteSet(T) /\ \A i : IsFiniteSet(Before(i)) /\ Cardinality(Before(i)) \in Nat
  <2>1. IsFiniteSet(1 .. Size)
    BY BufferTypes, FS_Interval
  <2>2. \A i : Before(i) \subseteq 1 .. Size
    BY <1>1
  <2>3. QED
    BY <1>1, <2>1, <2>2, FS_Subset, FS_CardinalityType
<1>3. ASSUME NEW i \in T, NEW j \in Selected(cur), i < j PROVE i \in Selected(cur)
  <2>1. Before(i) \subseteq Before(j)
    <3>1. i \in Int /\ j \in Int /\ \A x \in T : x \in Int
      BY <1>1
    <3>2. \A x \in T : x < i => x < j
      BY <1>3, <3>1
    <3>3. QED
      BY <3>2
  <2>2. Cardinality(Before(i)) <= Cardinality(Before(j))
    BY <1>2, <2>1, FS_Subset
  <2>3. Cardinality(Before(j)) < NumGroups
    BY DEF Selected
  <2>4. Cardinality(Before(i)) < NumGroups
    BY <1>2, <2>2, <2>3
  <2>5. QED
    BY <2>4 DEF Selected
<1>4. h \in Seq(T) /\ Lists(h, T)
  BY <1>1, BufferTypes, KeptLists
<1> HIDE DEF h, T
<1>5. Len(h) \in Nat /\ \A k \in 1 .. Len(h) : h[k] \in T /\ h[k] \in Nat
  <2>1. Len(h) \in Nat /\ \A k \in 1 .. Len(h) : h[k] \in T
    BY <1>4, SeqTyped
  <2>2. \A x \in T : x \in Nat
    BY <1>1, BufferTypes
  <2>3. QED
    BY <2>1, <2>2
<1>6. \A j, k \in 1 .. Len(h) : j < k => h[j] < h[k]
  BY <1>4 DEF Lists
<1>7. \A j, k \in 1 .. Len(h) : (h[j] < h[k] <=> j < k) /\ (h[j] = h[k] => j = k)
  <2> SUFFICES ASSUME NEW j \in 1 .. Len(h), NEW k \in 1 .. Len(h)
               PROVE  (h[j] < h[k] <=> j < k) /\ (h[j] = h[k] => j = k)
    OBVIOUS
  <2>1. h[j] \in Nat /\ h[k] \in Nat /\ (j < k => h[j] < h[k]) /\ (k < j => h[k] < h[j])
    BY <1>5, <1>6
  <2>2. j < k \/ j = k \/ k < j
    OBVIOUS
  <2>3. QED
    BY <2>1, <2>2
<1>8. ASSUME NEW m \in 0 .. Len(h)
      PROVE  IsFiniteSet({h[k] : k \in 1 .. m}) /\ Cardinality({h[k] : k \in 1 .. m}) = m
  <2> DEFINE D == 1 .. m
             S == {h[k] : k \in D}
             f == [k \in D |-> h[k]]
  <2>1. D \subseteq 1 .. Len(h)
    BY <1>5
  <2>2. f \in [D -> S] /\ (\A j, k \in D : f[j] = f[k] => j = k) /\ \A s \in S : \E k \in D : f[k] = s
    BY <1>7, <2>1
  <2>3. IsFiniteSet(D) /\ Cardinality(D) = m
    BY <1>5, FS_Interval
  <2> HIDE DEF D, f, S
  <2>4. f \in Bijection(D, S)
    BY <2>2, Fun_IsBij
  <2>5. ExistsBijection(D, S)
    BY <2>4, Fun_ExistsBij
  <2>6. IsFiniteSet(S) /\ Cardinality(S) = m
    BY <2>3, <2>5, FS_Bijection
  <2>7. QED
    BY <2>6 DEF S, D
<1>9. ASSUME NEW k \in 1 .. Len(h) PROVE Cardinality(Before(h[k])) = k - 1
  <2>1. Before(h[k]) = {h[j] : j \in 1 .. k - 1}
    <3>1. ASSUME NEW x \in T, x < h[k] PROVE \E j \in 1 .. k - 1 : h[j] = x
      <4>1. PICK j \in 1 .. Len(h) : h[j] = x
        BY <1>4 DEF Lists
      <4>2. j < k
        BY <1>7, <3>1, <4>1
      <4>3. QED
        BY <4>1, <4>2
    <3>2. ASSUME NEW j \in 1 .. k - 1 PROVE h[j] \in T /\ h[j] < h[k]
      <4>1. j \in 1 .. Len(h) /\ j < k
        BY <1>5
      <4>2. QED
        BY <1>5, <1>7, <4>1
    <3>3. QED
      BY <3>1, <3>2
  <2>2. k - 1 \in 0 .. Len(h)
    BY <1>5
  <2>3. QED
    BY <1>8, <2>1, <2>2
<1>10. Len(h) >= NumGroups
  <2>1. T = {h[k] : k \in 1 .. Len(h)}
    BY <1>4, <1>5 DEF Lists
  <2>2. Len(h) \in 0 .. Len(h)
    BY <1>5
  <2>3. Cardinality(T) = Len(h)
    BY <1>8, <2>1, <2>2
  <2>4. QED
    BY <2>3 DEF T
<1>11. Selected(cur) = {h[k] : k \in 1 .. NumGroups}
  <2>1. \A i \in T : i \in Selected(cur) <=> Cardinality(Before(i)) < NumGroups
    BY DEF Selected, T
  <2>2. ASSUME NEW i \in Selected(cur) PROVE \E k \in 1 .. NumGroups : h[k] = i
    <3>1. PICK k \in 1 .. Len(h) : h[k] = i
      BY <1>1, <1>4 DEF Lists
    <3>2. k - 1 < NumGroups
      BY <1>1, <1>9, <2>1, <3>1
    <3>3. k \in 1 .. NumGroups
      BY <3>2
    <3>4. QED
      BY <3>1, <3>3
  <2>3. ASSUME NEW k \in 1 .. NumGroups PROVE h[k] \in Selected(cur)
    <3>1. k \in 1 .. Len(h) /\ k - 1 < NumGroups
      BY <1>5, <1>10
    <3>2. QED
      BY <1>5, <1>9, <2>1, <3>1
  <2>4. QED
    BY <2>2, <2>3
<1>12. IsFiniteSet(Selected(cur)) /\ Cardinality(Selected(cur)) = NumGroups
  <2>1. NumGroups \in 0 .. Len(h)
    BY <1>5, <1>10
  <2>2. QED
    BY <1>8, <1>11, <2>1
<1>13. QED
  BY <1>1, <1>3, <1>12 DEF T


-----------------------------------------------------------------------------
(***************************************************************************)
(* Every call keeps the lists in step.                                     *)
(***************************************************************************)
LEMMA Appended ==
  ASSUME NEW A, NEW s \in Seq(A), NEW a \in A
  PROVE  /\ Append(s, a) \in Seq(A) /\ Len(Append(s, a)) = Len(s) + 1
         /\ \A k \in 1 .. Len(s) : Append(s, a)[k] = s[k]
         /\ Append(s, a)[Len(s) + 1] = a
OBVIOUS

LEMMA PushKeeps ==
  ASSUME BufferInv, NEW id \in Trajectories \ pushed, NEW version \in Versions, NEW target \in Versions,
         target \in version .. version + MaxAge, Push(id, version, target)
  PROVE  /\ BufferInv' /\ Size' = Size + 1
         /\ \A n : n = Size + 1 => EntryAt(n)' = [id |-> id, version |-> version, target |-> target]
         /\ \A k \in 1 .. Size : EntryAt(k)' = EntryAt(k)
<1>1. Size \in Nat /\ 1 .. Size + 1 = (1 .. Size) \cup {Size + 1} /\ Size + 1 \notin 1 .. Size
  BY BufferTypes
<1>2. /\ trajectories' \in Seq(Trajectories) /\ Len(trajectories') = Size + 1
      /\ \A k \in 1 .. Size : trajectories'[k] = trajectories[k]
      /\ trajectories'[Size + 1] = id
  BY Appended DEF BufferInv, Size, Push
<1>3. /\ trajectory_versions' \in Seq(Versions) /\ Len(trajectory_versions') = Size + 1
      /\ \A k \in 1 .. Size : trajectory_versions'[k] = trajectory_versions[k]
      /\ trajectory_versions'[Size + 1] = version
  <2>1. trajectory_versions \in Seq(Versions) /\ Len(trajectory_versions) = Size
    BY DEF BufferInv
  <2>2. trajectory_versions' = Append(trajectory_versions, version)
    BY DEF Push
  <2>3. QED
    BY <2>1, <2>2, Appended
<1>4. /\ target_weight_versions' \in Seq(Versions) /\ Len(target_weight_versions') = Size + 1
      /\ \A k \in 1 .. Size : target_weight_versions'[k] = target_weight_versions[k]
      /\ target_weight_versions'[Size + 1] = target
  <2>1. target_weight_versions \in Seq(Versions) /\ Len(target_weight_versions) = Size
    BY DEF BufferInv
  <2>2. target_weight_versions' = Append(target_weight_versions, target)
    BY DEF Push
  <2>3. QED
    BY <2>1, <2>2, Appended
<1>5. Size' = Size + 1
  BY <1>2 DEF Size
<1>6. pushed' = pushed \cup {id}
  BY DEF Push
<1>7. \A i, j \in 1 .. Size + 1 : trajectories'[i] = trajectories'[j] => i = j
  <2>1. \A i, j \in 1 .. Size : trajectories[i] = trajectories[j] => i = j
    BY DEF BufferInv
  <2>2. \A i \in 1 .. Size : trajectories[i] # id
    BY DEF BufferInv
  <2> HIDE DEF Size
  <2>3. QED
    BY <1>1, <1>2, <2>1, <2>2, Zenon
<1>8. \A i \in 1 .. Size + 1 : trajectories'[i] \in pushed'
  <2>1. \A i \in 1 .. Size : trajectories[i] \in pushed
    BY DEF BufferInv
  <2>2. QED
    BY <1>1, <1>2, <1>6, <2>1, Zenon
<1>9. \A i \in 1 .. Size + 1 :
        target_weight_versions'[i] \in trajectory_versions'[i] .. trajectory_versions'[i] + MaxAge
  <2>1. \A i \in 1 .. Size :
          target_weight_versions[i] \in trajectory_versions[i] .. trajectory_versions[i] + MaxAge
    BY DEF BufferInv
  <2>2. QED
    BY <1>1, <1>3, <1>4, <2>1, Zenon
<1>10. BufferInv'
  BY <1>2, <1>3, <1>4, <1>5, <1>7, <1>8, <1>9, Zenon DEF BufferInv
<1>11. /\ \A n : n = Size + 1 => EntryAt(n)' = [id |-> id, version |-> version, target |-> target]
       /\ \A k \in 1 .. Size : EntryAt(k)' = EntryAt(k)
  <2>1. ASSUME NEW k \in 1 .. Size PROVE EntryAt(k)' = EntryAt(k)
    BY <1>2, <1>3, <1>4 DEF EntryAt
  <2>2. ASSUME NEW n, n = Size + 1
        PROVE  EntryAt(n)' = [id |-> id, version |-> version, target |-> target]
    BY <1>2, <1>3, <1>4, <2>2, Zenon DEF EntryAt
  <2>3. QED
    BY <2>1, <2>2
<1>12. QED
  BY <1>5, <1>10, <1>11

LEMMA SampleKeeps ==
  ASSUME BufferInv, NEW cur, Sample(cur)
  PROVE  /\ BufferInv'
         /\ \E h : /\ \A k \in 1 .. Size' : h[k] \in (1 .. Size) \ Selected(cur) /\ EntryAt(k)' = EntryAt(h[k])
                   /\ \A t \in (1 .. Size) \ Selected(cur) : \E k \in 1 .. Size' : h[k] = t
<1> DEFINE T == (1 .. Size) \ Selected(cur)
<1>1. Selected(cur) \subseteq 1 .. Size
  BY FirstSelected DEF Sample
<1>2. PICK h \in Seq(T) :
        /\ Lists(h, T)
        /\ trajectories' \in Seq(Trajectories) /\ Len(trajectories') = Len(h)
        /\ trajectory_versions' \in Seq(Versions) /\ Len(trajectory_versions') = Len(h)
        /\ target_weight_versions' \in Seq(Versions) /\ Len(target_weight_versions') = Len(h)
        /\ \A k \in 1 .. Len(h) :
             /\ trajectories'[k] = trajectories[h[k]]
             /\ trajectory_versions'[k] = trajectory_versions[h[k]]
             /\ target_weight_versions'[k] = target_weight_versions[h[k]]
  BY <1>1, PoppedTogether DEF Sample
<1>3. Size' = Len(h) /\ Len(h) \in Nat /\ \A k \in 1 .. Len(h) : h[k] \in T
  BY <1>2, SeqTyped DEF Size
<1>4. T \subseteq 1 .. Size /\ \A t \in T : t \in Int
  BY BufferTypes
<1>5. \A j, k \in 1 .. Len(h) : h[j] = h[k] => j = k
  <2> SUFFICES ASSUME NEW j \in 1 .. Len(h), NEW k \in 1 .. Len(h), h[j] = h[k] PROVE j = k
    OBVIOUS
  <2>1. h[j] \in Int /\ h[k] \in Int /\ (j < k => h[j] < h[k]) /\ (k < j => h[k] < h[j])
    BY <1>2, <1>3, <1>4 DEF Lists
  <2>2. QED
    BY <1>3, <2>1
<1>6. pushed' = pushed
  BY DEF Sample
<1> HIDE DEF T
<1>7. /\ \A i, j \in 1 .. Size : trajectories[i] = trajectories[j] => i = j
      /\ \A i \in 1 .. Size : trajectories[i] \in pushed
      /\ \A i \in 1 .. Size :
           target_weight_versions[i] \in trajectory_versions[i] .. trajectory_versions[i] + MaxAge
  BY DEF BufferInv
<1>8. \A i, j \in 1 .. Len(h) : trajectories'[i] = trajectories'[j] => i = j
  <2> SUFFICES ASSUME NEW i \in 1 .. Len(h), NEW j \in 1 .. Len(h), trajectories'[i] = trajectories'[j]
               PROVE  i = j
    OBVIOUS
  <2>1. h[i] \in 1 .. Size /\ h[j] \in 1 .. Size
    BY <1>3, <1>4
  <2>2. trajectories[h[i]] = trajectories[h[j]]
    BY <1>2, Zenon
  <2>3. QED
    BY <1>5, <1>7, <2>1, <2>2, Zenon
<1>9. \A i \in 1 .. Len(h) : trajectories'[i] \in pushed'
  BY <1>2, <1>3, <1>4, <1>6, <1>7, Zenon
<1>10. \A i \in 1 .. Len(h) :
         target_weight_versions'[i] \in trajectory_versions'[i] .. trajectory_versions'[i] + MaxAge
  BY <1>2, <1>3, <1>4, <1>7, Zenon
<1>11. BufferInv'
  BY <1>2, <1>3, <1>8, <1>9, <1>10, Zenon DEF BufferInv
<1>12. \A k \in 1 .. Size' : h[k] \in T /\ EntryAt(k)' = EntryAt(h[k])
  BY <1>2, <1>3, Zenon DEF EntryAt
<1>13. \A t \in T : \E k \in 1 .. Size' : h[k] = t
  BY <1>2, <1>3 DEF Lists
<1>14. QED
  BY <1>11, <1>12, <1>13 DEF T

LEMMA InitBuffer == Init => BufferInv
BY DEF Init, BufferInv, Size

LEMMA NextBuffer ==
  ASSUME BufferInv, [Next]_vars
  PROVE  BufferInv'
<1>1. ASSUME NEW id \in Trajectories \ pushed, NEW version \in Versions, NEW target \in Versions,
             target \in version .. version + MaxAge, Push(id, version, target)
      PROVE  BufferInv'
  BY <1>1, PushKeeps
<1>2. ASSUME NEW cur \in Versions, Sample(cur) PROVE BufferInv'
  BY <1>2, SampleKeeps
<1>3. CASE Clear
  BY <1>3 DEF Clear, BufferInv, Size
<1>4. CASE UNCHANGED vars
  BY <1>4 DEF vars, lists, BufferInv, Size
<1>5. QED
  BY <1>1, <1>2, <1>3, <1>4 DEF Next, PushFull, SampleWaits, SampleRaises

THEOREM ListsInStep == Spec => []BufferInv
BY InitBuffer, NextBuffer, PTL DEF Spec


-----------------------------------------------------------------------------
(***************************************************************************)
(* Each call does to the pool what the pool promises.                      *)
(***************************************************************************)
LEMMA DistinctEntries ==
  ASSUME BufferInv
  PROVE  /\ \A i, j \in 1 .. Size : EntryAt(i) = EntryAt(j) => i = j
         /\ Held = {EntryAt(i) : i \in 1 .. Size}
<1>1. \A i, j \in 1 .. Size : EntryAt(i) = EntryAt(j) => i = j
  <2>1. \A i, j \in 1 .. Size : trajectories[i] = trajectories[j] => i = j
    BY DEF BufferInv
  <2>2. \A i, j : EntryAt(i) = EntryAt(j) => trajectories[i] = trajectories[j]
    <3>1. \A i : EntryAt(i).id = trajectories[i]
      BY DEF EntryAt
    <3>2. QED
      BY <3>1, Zenon
  <2>3. QED
    BY <2>1, <2>2, Zenon
<1>2. Held = {EntryAt(i) : i \in 1 .. Size}
  BY BufferTypes, Zenon DEF Held
<1>3. QED
  BY <1>1, <1>2

LEMMA SizeOfEntries ==
  ASSUME BufferInv, NEW R, R \subseteq 1 .. Size
  PROVE  Cardinality({EntryAt(i) : i \in R}) = Cardinality(R)
<1> DEFINE S == {EntryAt(i) : i \in R}
           f == [i \in R |-> EntryAt(i)]
<1>1. IsFiniteSet(R)
  <2>1. IsFiniteSet(1 .. Size)
    BY BufferTypes, FS_Interval
  <2>2. QED
    BY <2>1, FS_Subset
<1>2. f \in [R -> S] /\ (\A i, j \in R : f[i] = f[j] => i = j) /\ \A s \in S : \E i \in R : f[i] = s
  <2>1. \A i, j \in R : EntryAt(i) = EntryAt(j) => i = j
    BY DistinctEntries
  <2> HIDE DEF EntryAt
  <2>2. QED
    BY <2>1
<1> HIDE DEF S, f
<1>3. f \in Bijection(R, S)
  BY <1>2, Fun_IsBij
<1>4. Cardinality(S) = Cardinality(R)
  BY <1>1, <1>3, Fun_ExistsBij, FS_Bijection
<1>5. QED
  BY <1>4 DEF S

LEMMA SizeOfHeld ==
  ASSUME BufferInv
  PROVE  Cardinality(Held) = Size
<1>1. Cardinality(1 .. Size) = Size
  BY BufferTypes, FS_Interval
<1>2. Cardinality({EntryAt(i) : i \in 1 .. Size}) = Cardinality(1 .. Size)
  BY SizeOfEntries
<1>3. QED
  BY <1>1, <1>2, DistinctEntries

LEMMA SameCardinality ==
  ASSUME NEW S
  PROVE  Pool!Cardinality(S) = Cardinality(S)
BY DEF Pool!Cardinality, Cardinality

(* A push adds the entry.                                                  *)
LEMMA PushStep ==
  ASSUME BufferInv, NEW id \in Trajectories \ pushed, NEW version \in Versions, NEW target \in Versions,
         target \in version .. version + MaxAge, Push(id, version, target)
  PROVE  Pool!PoolNext(Versions, NumGroups, MaxAge)
<1> DEFINE e == [id |-> id, version |-> version, target |-> target]
<1>1. Size \in Nat /\ 1 .. Size + 1 = (1 .. Size) \cup {Size + 1}
  BY BufferTypes
<1>2. /\ BufferInv' /\ Size' = Size + 1
      /\ \A n : n = Size + 1 => EntryAt(n)' = e
      /\ \A k \in 1 .. Size : EntryAt(k)' = EntryAt(k)
  BY PushKeeps
<1>3. Held = {EntryAt(i) : i \in 1 .. Size} /\ Held' = {EntryAt(i)' : i \in 1 .. Size + 1}
  <2>1. DOMAIN trajectories' = 1 .. Size'
    BY <1>2 DEF BufferInv, Size
  <2>2. QED
    BY <1>2, <2>1, DistinctEntries, Zenon DEF Held
<1> HIDE DEF e
<1>4. Held' = Held \cup {e}
  BY <1>1, <1>2, <1>3, Zenon
<1>5. Cardinality(Held) < MaxSize
  BY SizeOfHeld DEF Push, Size
<1>6. last_target' = Pool!Larger(last_target, e.target)
  BY DEF Push, Bigger, Pool!Larger, e
<1>7. e \in [id : Trajectories, version : Versions, target : Versions]
  BY DEF e
<1>8. Pool!PoolPush(e)
  BY <1>4, <1>5, <1>6, SameCardinality, Zenon DEF Pool!PoolPush, Held, EntryAt
<1>9. QED
  BY <1>7, <1>8, Zenon DEF Pool!PoolNext


(* A sample takes the entries it selects, and those only.                  *)
LEMMA SampleStep ==
  ASSUME BufferInv, NEW cur \in Versions, Sample(cur)
  PROVE  Pool!PoolNext(Versions, NumGroups, MaxAge)
<1> DEFINE R == Selected(cur)
           S == {EntryAt(i) : i \in R}
<1>1. /\ R \subseteq IntendedIndices(cur) /\ R \subseteq 1 .. Size
      /\ Cardinality(R) = NumGroups
  BY FirstSelected DEF Sample
<1>2. /\ BufferInv'
      /\ \E h : /\ \A k \in 1 .. Size' : h[k] \in (1 .. Size) \ R /\ EntryAt(k)' = EntryAt(h[k])
                /\ \A t \in (1 .. Size) \ R : \E k \in 1 .. Size' : h[k] = t
  BY SampleKeeps
<1>3. Held = {EntryAt(i) : i \in 1 .. Size} /\ Held' = {EntryAt(i)' : i \in 1 .. Size'}
  <2>1. DOMAIN trajectories' = 1 .. Size'
    BY <1>2 DEF BufferInv, Size
  <2>2. QED
    BY <2>1, DistinctEntries, Zenon DEF Held
<1>4. \A i, j \in 1 .. Size : EntryAt(i) = EntryAt(j) => i = j
  BY DistinctEntries
<1>5. /\ \A i \in DOMAIN trajectory_versions : ~(trajectory_versions[i] < Oldest(cur))
      /\ \A i \in R : trajectory_versions[i] \in Oldest(cur) .. cur /\ target_weight_versions[i] = cur
  BY <1>1 DEF Sample, TooOld, IntendedIndices
<1>6. Oldest(cur) = Pool!MinValidVersion(cur, MaxAge)
  BY DEF Oldest, Bigger, Pool!MinValidVersion, Pool!Larger
<1>7. \A i : /\ EntryAt(i).version = trajectory_versions[i]
             /\ EntryAt(i).target = target_weight_versions[i]
  BY DEF EntryAt
<1>8. cur \in Int /\ Oldest(cur) \in Int
  BY DEF Versions, Oldest, Bigger
<1>9. last_target' = last_target
  BY DEF Sample
<1> HIDE DEF R
<1>10. Held' = Held \ S
  <2>1. PICK h : /\ \A k \in 1 .. Size' : h[k] \in (1 .. Size) \ R /\ EntryAt(k)' = EntryAt(h[k])
                 /\ \A t \in (1 .. Size) \ R : \E k \in 1 .. Size' : h[k] = t
    BY <1>2
  <2>2. ASSUME NEW x \in Held' PROVE x \in Held \ S
    <3>1. PICK k \in 1 .. Size' : x = EntryAt(k)'
      BY <1>3, <2>2
    <3>2. h[k] \in (1 .. Size) \ R /\ x = EntryAt(h[k])
      BY <2>1, <3>1, Zenon
    <3>3. x \in Held
      BY <1>3, <3>2, Zenon
    <3>4. x \notin S
      BY <1>1, <1>4, <3>2, Zenon
    <3>5. QED
      BY <3>3, <3>4
  <2>3. ASSUME NEW x \in Held, x \notin S PROVE x \in Held'
    <3>1. PICK t \in 1 .. Size : x = EntryAt(t)
      BY <1>3
    <3>2. t \in (1 .. Size) \ R
      BY <2>3, <3>1
    <3>3. PICK k \in 1 .. Size' : h[k] = t
      BY <2>1, <3>2
    <3>4. x = EntryAt(k)'
      BY <2>1, <3>1, <3>3, Zenon
    <3>5. QED
      BY <1>3, <3>4, Zenon
  <2>4. QED
    BY <2>2, <2>3
<1>11. Cardinality(S) = NumGroups
  BY <1>1, SizeOfEntries
<1>12. Pool!Stale(cur, MaxAge) = {}
  <2>1. \A e \in Held : ~(e.version < Pool!MinValidVersion(cur, MaxAge))
    BY <1>3, <1>5, <1>6, <1>7, BufferTypes, Zenon
  <2>2. Pool!Stale(cur, MaxAge) = {e \in Held : e.version < Pool!MinValidVersion(cur, MaxAge)}
    BY Zenon DEF Pool!Stale, Held, EntryAt
  <2>3. QED
    BY <2>1, <2>2, Zenon
<1>13. S \subseteq Pool!Intended(cur, MaxAge)
  <2>1. ASSUME NEW i \in R
        PROVE  /\ EntryAt(i) \in Held
               /\ Pool!MinValidVersion(cur, MaxAge) <= EntryAt(i).version
               /\ EntryAt(i).version <= cur /\ EntryAt(i).target = cur
    <3>1. EntryAt(i) \in Held
      BY <1>1, <1>3
    <3>2. \A v \in Oldest(cur) .. cur : Oldest(cur) <= v /\ v <= cur
      BY <1>8
    <3>3. Oldest(cur) <= trajectory_versions[i] /\ trajectory_versions[i] <= cur
      BY <1>5, <3>2
    <3>4. QED
      BY <1>5, <1>6, <1>7, <3>1, <3>3, Zenon
  <2>2. Pool!Intended(cur, MaxAge) = {e \in Held : /\ Pool!MinValidVersion(cur, MaxAge) <= e.version
                                                   /\ e.version <= cur /\ e.target = cur}
    BY Zenon DEF Pool!Intended, Held, EntryAt
  <2>3. QED
    BY <2>1, <2>2, Zenon
<1> HIDE DEF S
<1>14. Pool!PoolTake(S, NumGroups, cur, MaxAge)
  BY <1>9, <1>10, <1>11, <1>12, <1>13, SameCardinality, Zenon DEF Pool!PoolTake, Held, EntryAt
<1>15. QED
  BY <1>13, <1>14, Zenon DEF Pool!PoolNext

(* A clear empties it.                                                     *)
LEMMA ClearStep ==
  ASSUME Clear
  PROVE  Pool!PoolNext(Versions, NumGroups, MaxAge)
<1>1. Held' = {}
  BY DEF Clear, Held
<1>2. last_target' = last_target
  BY DEF Clear
<1>3. Pool!PoolClear
  BY <1>1, <1>2, Zenon DEF Pool!PoolClear, Held, EntryAt
<1>4. QED
  BY <1>3, Zenon DEF Pool!PoolNext

LEMMA NextPool ==
  ASSUME BufferInv, [Next]_vars
  PROVE  [Pool!PoolNext(Versions, NumGroups, MaxAge)]_(Pool!poolVars)
<1>1. ASSUME NEW id \in Trajectories \ pushed, NEW version \in Versions, NEW target \in Versions,
             target \in version .. version + MaxAge, Push(id, version, target)
      PROVE  Pool!PoolNext(Versions, NumGroups, MaxAge)
  BY <1>1, PushStep
<1>2. ASSUME NEW cur \in Versions, Sample(cur)
      PROVE  Pool!PoolNext(Versions, NumGroups, MaxAge)
  BY <1>2, SampleStep
<1>3. CASE Clear
  BY <1>3, ClearStep
<1>4. CASE UNCHANGED vars
  BY <1>4 DEF vars, lists, Pool!poolVars
<1>5. QED
  BY <1>1, <1>2, <1>3, <1>4 DEF Next, PushFull, SampleWaits, SampleRaises

LEMMA InitPool == Init => Pool!PoolInit
BY DEF Init, Pool!PoolInit

(* The three lists implement the pool: every push, sample and clear of the *)
(* code does to the entries what the collector and the training loop rely  *)
(* on, an entry keeps its version and its target in whatever order the     *)
(* others are popped, and a sample takes exactly the entries it returns.   *)
THEOREM BufferImplemented == Spec => ImplementsPool
<1>1. Spec => []BufferInv
  BY ListsInStep
<1>2. BufferInv /\ [Next]_vars => [Pool!PoolNext(Versions, NumGroups, MaxAge)]_(Pool!poolVars)
  BY NextPool
<1>3. QED
  BY <1>1, <1>2, InitPool, PTL DEF Spec, ImplementsPool

-----------------------------------------------------------------------------
(* First in, first out within the step that a group is meant for: a sample *)
(* that takes a group leaves none behind that was pushed before it.        *)
FifoStep ==
  trajectories' # <<>> =>
    \A i, j \in DOMAIN trajectories :
      (/\ i < j /\ target_weight_versions[i] = target_weight_versions[j]
       /\ trajectories[j] \notin ToSet(trajectories'))
        => trajectories[i] \notin ToSet(trajectories')

LEMMA SampleFifo ==
  ASSUME BufferInv, NEW cur \in Versions, Sample(cur)
  PROVE  FifoStep
<1> SUFFICES ASSUME NEW i \in DOMAIN trajectories, NEW j \in DOMAIN trajectories,
                    i < j, target_weight_versions[i] = target_weight_versions[j],
                    trajectories[j] \notin ToSet(trajectories')
             PROVE  trajectories[i] \notin ToSet(trajectories')
  BY DEF FifoStep
<1>1. i \in 1 .. Size /\ j \in 1 .. Size
  BY BufferTypes
<1>2. PICK h : /\ \A k \in 1 .. Size' : h[k] \in (1 .. Size) \ Selected(cur) /\ EntryAt(k)' = EntryAt(h[k])
               /\ \A t \in (1 .. Size) \ Selected(cur) : \E k \in 1 .. Size' : h[k] = t
  BY SampleKeeps
<1>3. DOMAIN trajectories' = 1 .. Size'
  BY SampleKeeps DEF BufferInv, Size
<1>4. \A k \in 1 .. Size' : trajectories'[k] = trajectories[h[k]]
  <2>1. \A k : EntryAt(k).id = trajectories[k] /\ EntryAt(k)'.id = trajectories'[k]
    BY DEF EntryAt
  <2>2. QED
    BY <1>2, <2>1, Zenon
<1>5. ToSet(trajectories') = {trajectories'[k] : k \in 1 .. Size'}
  BY <1>3, Zenon DEF ToSet
<1>6. j \in Selected(cur)
  BY <1>1, <1>2, <1>4, <1>5, Zenon
<1>7. /\ Selected(cur) \subseteq IntendedIndices(cur)
      /\ \A x \in IntendedIndices(cur), y \in Selected(cur) : x < y => x \in Selected(cur)
  BY FirstSelected DEF Sample
<1>8. i \in IntendedIndices(cur)
  <2>1. target_weight_versions[i] = cur
    BY <1>6, <1>7 DEF IntendedIndices
  <2>2. trajectory_versions[i] \in Nat /\ trajectory_versions[i] <= cur
    BY <1>1, <2>1, BufferTypes
  <2>3. ~(trajectory_versions[i] < Oldest(cur))
    BY <1>1, BufferTypes DEF Sample, TooOld
  <2>4. cur \in Int /\ Oldest(cur) \in Int
    BY DEF Versions, Oldest, Bigger
  <2>5. trajectory_versions[i] \in Oldest(cur) .. cur
    BY <2>2, <2>3, <2>4
  <2>6. QED
    BY <2>1, <2>5 DEF IntendedIndices
<1>9. i \in Selected(cur)
  BY <1>6, <1>7, <1>8
<1>10. \A x, y \in 1 .. Size : trajectories[x] = trajectories[y] => x = y
  BY DEF BufferInv
<1>11. ASSUME NEW k \in 1 .. Size' PROVE trajectories'[k] # trajectories[i]
  <2>1. h[k] \in (1 .. Size) \ Selected(cur)
    BY <1>2, Zenon
  <2>2. h[k] \in 1 .. Size /\ h[k] # i
    BY <1>9, <2>1, Zenon
  <2>3. trajectories[h[k]] # trajectories[i]
    BY <1>1, <1>10, <2>2, Zenon
  <2>4. QED
    BY <1>4, <2>3, Zenon
<1>12. QED
  BY <1>5, <1>11, Zenon

LEMMA PushFifo ==
  ASSUME BufferInv, NEW id \in Trajectories \ pushed, NEW version \in Versions, NEW target \in Versions,
         target \in version .. version + MaxAge, Push(id, version, target)
  PROVE  FifoStep
<1>1. ASSUME NEW j \in 1 .. Size PROVE trajectories[j] \in ToSet(trajectories')
  <2>1. EntryAt(j)' = EntryAt(j) /\ Size' = Size + 1 /\ BufferInv'
    BY PushKeeps
  <2>2. trajectories'[j] = trajectories[j]
    BY <2>1 DEF EntryAt
  <2>3. j \in DOMAIN trajectories'
    BY <2>1, BufferTypes DEF BufferInv, Size
  <2>4. QED
    BY <2>2, <2>3, Zenon DEF ToSet
<1>2. QED
  BY <1>1, BufferTypes DEF FifoStep

LEMMA NextFifo ==
  ASSUME BufferInv, [Next]_vars
  PROVE  [FifoStep]_vars
<1>1. ASSUME NEW id \in Trajectories \ pushed, NEW version \in Versions, NEW target \in Versions,
             target \in version .. version + MaxAge, Push(id, version, target)
      PROVE  FifoStep
  BY <1>1, PushFifo
<1>2. ASSUME NEW cur \in Versions, Sample(cur) PROVE FifoStep
  BY <1>2, SampleFifo
<1>3. CASE Clear
  BY <1>3 DEF Clear, FifoStep
<1>4. QED
  BY <1>1, <1>2, <1>3 DEF Next, PushFull, SampleWaits, SampleRaises

(* No group waits while one pushed after it for the same step is trained:  *)
(* the indices are those of the smallest, in the order of the list, and a  *)
(* group meant for the step of the sample is never too young for it.       *)
THEOREM OldestFirst == Spec => FifoWithinTarget
<1>1. Spec => []BufferInv
  BY ListsInStep
<1>2. BufferInv /\ [Next]_vars => [FifoStep]_vars
  BY NextFifo
<1>3. [][FifoStep]_vars => FifoWithinTarget
  BY DEF FifoStep, FifoWithinTarget
<1>4. QED
  BY <1>1, <1>2, <1>3, PTL DEF Spec

=============================================================================
