---------------------------- MODULE RolloutsProofs ----------------------------
(***************************************************************************)
(* The rollouts, for any batches, lengths, turns, replies, shards and      *)
(* failures: what a sample is handed and what it asked for are its own,    *)
(* what is returned for it is what happened to it, every sample has an     *)
(* episode of its own, the steps of Episodes, and a conversation's result  *)
(* has the tokens generated and the text said.                             *)
(***************************************************************************)
EXTENDS Rollouts, BatchShardingProofs, FiniteSetTheorems, SequenceTheorems, WellFoundedInduction, TLAPS

(* A list of a given length. *)
LEMMA ListingMade ==
  ASSUME NEW m \in Nat, NEW x, x = [k \in 1 .. m |-> x[k]]
  PROVE  Len(x) = m /\ Listing(x)
<1>1. x \in Seq({x[k] : k \in 1 .. m})
  <2>1. x \in [1 .. m -> {x[k] : k \in 1 .. m}]
    OBVIOUS
  <2>2. QED
    BY <2>1
<1>2. Len(x) \in Nat /\ DOMAIN x = 1 .. Len(x) /\ DOMAIN x = 1 .. m
  BY <1>1
<1>3. Len(x) = m
  BY <1>2
<1>4. QED
  BY <1>3 DEF Listing

-----------------------------------------------------------------------------
(***************************************************************************)
(* The parts of a turn: the shards of a request, the answers appended to   *)
(* the logs, the row whose environment is next.                            *)
(***************************************************************************)
LEMMA ShardOf ==
  ASSUME NEW n \in Nat, NEW shards \in Nat \ {0}, NEW k \in 1 .. n
  PROVE  \E s \in 1 .. shards :
           k \in Range(UnevenShards([i \in 1 .. n |-> i], shards)[s])
<1> DEFINE size == (n + shards - 1) \div shards
           enough == {s \in Nat : k <= s * size}
           id == [i \in 1 .. n |-> i]
<1>1. size \in Nat /\ shards * size >= n
  <2> DEFINE a == n + shards - 1
  <2>1. a \in Nat
    OBVIOUS
  <2>2. a \div shards \in Nat /\ a % shards \in 0 .. shards - 1
    BY <2>1, SMT
  <2>3. a = shards * (a \div shards) + (a % shards)
    <3>1. a % shards = a - shards * (a \div shards)
      BY <2>1, SMT
    <3>2. shards * (a \div shards) \in Int
      BY <2>2
    <3>3. QED
      BY <2>1, <2>2, <3>1, <3>2
  <2>4. shards * size \in Int
    BY <2>2
  <2>5. QED
    BY <2>2, <2>3, <2>4
<1> HIDE DEF size
<1>2. shards \in enough
  BY <1>1
<1>3. Min(enough) \in enough /\ \A s \in enough : Min(enough) <= s
  <2>1. enough \subseteq Nat /\ enough # {}
    BY <1>2
  <2> HIDE DEF enough
  <2>2. QED
    BY <2>1, LeastOf
<1> DEFINE s == Min(enough)
<1>4. s \in 1 .. shards /\ k <= s * size /\ (s - 1) * size < k
  <2>1. s \in Nat /\ s <= shards /\ k <= s * size
    BY <1>2, <1>3
  <2>2. s # 0
    <3>1. 0 * size = 0
      BY <1>1
    <3>2. QED
      BY <2>1, <3>1
  <2> HIDE DEF s
  <2>3. s - 1 \in Nat /\ (s - 1) * size \in Int
    BY <1>1, <2>1, <2>2
  <2>4. s - 1 \notin enough
    BY <1>3, <2>1, <2>3 DEF s
  <2>5. QED
    BY <2>1, <2>2, <2>3, <2>4
<1> HIDE DEF s
<1> DEFINE lo == Min({(s - 1) * size, n})
           hi == Min({s * size, n})
<1>5. lo \in Nat /\ hi \in Nat /\ lo < k /\ k <= hi /\ hi <= n
  <2>1. (s - 1) * size \in Nat /\ s * size \in Nat
    BY <1>1, <1>4
  <2>2. \A a, b \in Nat : Min({a, b}) \in {a, b} /\ Min({a, b}) <= a /\ Min({a, b}) <= b
    <3> SUFFICES ASSUME NEW a \in Nat, NEW b \in Nat
                 PROVE  Min({a, b}) \in {a, b} /\ Min({a, b}) <= a /\ Min({a, b}) <= b
      OBVIOUS
    <3>1. {a, b} \subseteq Nat /\ {a, b} # {}
      OBVIOUS
    <3>2. QED
      BY <3>1, LeastOf
  <2>3. lo \in {(s - 1) * size, n} /\ lo <= (s - 1) * size
    BY <2>1, <2>2
  <2>4. hi \in {s * size, n} /\ hi <= n
    BY <2>1, <2>2
  <2> HIDE DEF lo, hi
  <2>5. QED
    BY <1>4, <2>1, <2>3, <2>4
<1> HIDE DEF lo, hi
<1>6. UnevenShards(id, shards)[s] = SubSeq(id, lo + 1, hi)
  <2>1. id \in Seq(Nat) /\ Len(id) = n
    OBVIOUS
  <2> HIDE DEF id
  <2>2. QED
    BY <1>4, <2>1, Zenon DEF UnevenShards, size, lo, hi
<1>7. k \in Range(SubSeq(id, lo + 1, hi))
  <2>1. id \in Seq(Nat) /\ Len(id) = n /\ \A i \in 1 .. n : id[i] = i
    OBVIOUS
  <2>2. k - lo \in 1 .. hi - lo /\ lo + 1 \in 1 .. n /\ hi \in 1 .. n
    BY <1>5
  <2>3. /\ DOMAIN SubSeq(id, lo + 1, hi) = 1 .. hi - lo
        /\ SubSeq(id, lo + 1, hi)[k - lo] = id[lo + 1 + (k - lo) - 1]
    <3> HIDE DEF id
    <3> QED
      BY <1>5, <2>1, <2>2
  <2>4. SubSeq(id, lo + 1, hi)[k - lo] = k
    BY <1>5, <2>1, <2>3
  <2> HIDE DEF id
  <2>5. QED
    BY <2>2, <2>3, <2>4 DEF Range
<1>8. QED
  BY <1>4, <1>6, <1>7


(* Every row's message is appended to the row's log, and nothing to the    *)
(* others.                                                                 *)
LEMMA AppendedToAll ==
  ASSUME NEW rows, NEW messages, NEW n \in Nat, DOMAIN rows = 1 .. n,
         heap = [l \in DOMAIN heap |-> heap[l]],
         \A k \in 1 .. n : rows[k].log \in DOMAIN heap,
         \A j, k \in 1 .. n : rows[j].log = rows[k].log => j = k
  PROVE  /\ Appended(rows, messages) = [l \in DOMAIN heap |-> Appended(rows, messages)[l]]
         /\ \A k \in 1 .. n :
              Appended(rows, messages)[rows[k].log] = Append(heap[rows[k].log], messages[k])
         /\ \A l \in DOMAIN heap :
              (\A k \in 1 .. n : rows[k].log # l) => Appended(rows, messages)[l] = heap[l]
<1> DEFINE seq == [k \in DOMAIN rows |-> k]
           D == DOMAIN seq
           Rest(f, s) ==
             IF s = {} THEN heap
             ELSE [f[s \ {Max(s)}] EXCEPT ![rows[seq[Max(s)]].log] = Append(@, messages[seq[Max(s)]])]
           iter == CHOOSE f : f = [s \in SUBSET D |-> Rest(f, s)]
           Row(l) == CHOOSE k \in 1 .. n : rows[k].log = l
           After(s) ==
             [l \in DOMAIN heap |->
                IF \E k \in s : rows[k].log = l THEN Append(heap[l], messages[Row(l)]) ELSE heap[l]]
           after == [s \in SUBSET D |-> After(s)]
<1>1. Appended(rows, messages) = iter[D]
  BY Zenon DEF Appended, FoldLeft, MapThenFoldSet
<1>2. D = 1 .. n /\ \A k \in 1 .. n : seq[k] = k
  OBVIOUS
<1>3. \A k \in 1 .. n : Row(rows[k].log) = k
  <2> SUFFICES ASSUME NEW k \in 1 .. n PROVE Row(rows[k].log) = k
    OBVIOUS
  <2>1. Row(rows[k].log) \in 1 .. n /\ rows[Row(rows[k].log)].log = rows[k].log
    BY Zenon
  <2> HIDE DEF Row
  <2>2. QED
    BY <2>1, Zenon
<1> HIDE DEF Row
<1>4. ASSUME NEW s \in SUBSET D, NEW x \in s
      PROVE  After(s) = [After(s \ {x}) EXCEPT ![rows[x].log] = Append(@, messages[x])]
  <2>1. x \in 1 .. n /\ rows[x].log \in DOMAIN heap /\ Row(rows[x].log) = x
    BY <1>2, <1>3
  <2>2. ~\E k \in s \ {x} : rows[k].log = rows[x].log
    BY <1>2, <2>1
  <2>3. After(s \ {x})[rows[x].log] = heap[rows[x].log]
    BY <2>1, <2>2
  <2>4. After(s)[rows[x].log] = Append(After(s \ {x})[rows[x].log], messages[x])
    BY <2>1, <2>3
  <2>5. \A l \in DOMAIN heap : l # rows[x].log => After(s)[l] = After(s \ {x})[l]
    OBVIOUS
  <2>6. /\ After(s) = [l \in DOMAIN heap |-> After(s)[l]]
        /\ After(s \ {x}) = [l \in DOMAIN heap |-> After(s \ {x})[l]]
    OBVIOUS
  <2> HIDE DEF After
  <2>7. QED
    BY <2>1, <2>4, <2>5, <2>6
<1>5. \A s \in SUBSET D : s # {} => Max(s) \in s /\ seq[Max(s)] = Max(s)
  <2> SUFFICES ASSUME NEW s \in SUBSET D, s # {} PROVE Max(s) \in s /\ seq[Max(s)] = Max(s)
    OBVIOUS
  <2>1. s \subseteq 0 .. n
    BY <1>2
  <2>2. Max(s) \in s
    BY <2>1, GreatestOf
  <2> HIDE DEF seq, D
  <2>3. Max(s) \in 1 .. n
    BY <1>2, <2>2, Zenon
  <2>4. QED
    BY <1>2, <2>2, <2>3, Zenon
<1>6. After({}) = heap
  OBVIOUS
<1> HIDE DEF seq, D, After
<1>7. \A s \in SUBSET D : after[s] = Rest(after, s)
  <2> SUFFICES ASSUME NEW s \in SUBSET D PROVE after[s] = Rest(after, s)
    OBVIOUS
  <2>1. CASE s = {}
    BY <1>6, <2>1
  <2>2. CASE s # {}
    <3>1. s \ {Max(s)} \in SUBSET D /\ Max(s) \in s /\ seq[Max(s)] = Max(s)
      BY <1>5, <2>2
    <3>2. after[s] = After(s) /\ after[s \ {Max(s)}] = After(s \ {Max(s)})
      BY <3>1
    <3>3. After(s) = [After(s \ {Max(s)}) EXCEPT ![rows[Max(s)].log] = Append(@, messages[Max(s)])]
      BY <1>4, <3>1
    <3>4. QED
      BY <2>2, <3>1, <3>2, <3>3
  <2>3. QED
    BY <2>1, <2>2
<1>8. after = [s \in SUBSET D |-> Rest(after, s)]
  BY <1>7
<1>9. iter = [s \in SUBSET D |-> Rest(iter, s)]
  <2>1. \E f : f = [s \in SUBSET D |-> Rest(f, s)]
    <3> HIDE DEF after
    <3> QED
      BY <1>8
  <2>2. QED
    BY <2>1, Zenon
<1>10. \A s \in SUBSET D : iter[s] = Rest(iter, s)
  <2> HIDE DEF iter
  <2> QED
    BY <1>9
<1> HIDE DEF iter, after
<1>11. iter[D] = after[D]
  <2>1. IsFiniteSet(D)
    BY <1>2, FS_Interval
  <2>2. iter[{}] = after[{}]
    BY <1>7, <1>10
  <2>3. ASSUME NEW s \in SUBSET D, s # {}
        PROVE  \E x \in s : iter[s \ {x}] = after[s \ {x}] => iter[s] = after[s]
    <3>1. Max(s) \in s
      BY <1>5, <2>3
    <3>2. iter[s \ {Max(s)}] = after[s \ {Max(s)}] => iter[s] = after[s]
      BY <1>7, <1>10, <2>3
    <3>3. QED
      BY <3>1, <3>2
  <2>4. QED
    BY <2>1, <2>2, <2>3, FoldUnique
<1>12. Appended(rows, messages) = After(D)
  <2>1. after[D] = After(D)
    BY DEF after
  <2>2. QED
    BY <1>1, <1>11, <2>1
<1>13. \A k \in 1 .. n : After(D)[rows[k].log] = Append(heap[rows[k].log], messages[k])
  BY <1>2, <1>3 DEF After
<1>14. \A l \in DOMAIN heap : (\A k \in 1 .. n : rows[k].log # l) => After(D)[l] = heap[l]
  BY <1>2 DEF After
<1>15. After(D) = [l \in DOMAIN heap |-> After(D)[l]]
  BY DEF After
<1>16. QED
  BY <1>12, <1>13, <1>14, <1>15

(* The environment is asked about a row that was not asked about yet.      *)
LEMMA NextLeft ==
  ASSUME NEW rows, NEW n \in Nat, DOMAIN rows = 1 .. n, NEW left, left \subseteq 1 .. n, left # {}
  PROVE  NextGrouped(rows, left) \in left
<1> DEFINE Same(k) == {i \in DOMAIN rows : rows[i].task = rows[k].task}
           firsts == {Min(Same(k)) : k \in left}
           next == {k \in left : Min(Same(k)) = Min(firsts)}
<1>1. \A k \in left : Min(Same(k)) \in Nat
  <2> SUFFICES ASSUME NEW k \in left PROVE Min(Same(k)) \in Nat
    OBVIOUS
  <2>1. Same(k) \subseteq Nat /\ Same(k) # {}
    OBVIOUS
  <2> HIDE DEF Same
  <2>2. QED
    BY <2>1, LeastOf
<1> HIDE DEF Same
<1>2. firsts \subseteq Nat /\ firsts # {}
  BY <1>1
<1>3. \A m \in firsts : \E k \in left : Min(Same(k)) = m
  OBVIOUS
<1> HIDE DEF firsts
<1>4. next \subseteq Nat /\ next # {}
  <2>1. Min(firsts) \in firsts
    BY <1>2, LeastOf
  <2>2. PICK k \in left : Min(Same(k)) = Min(firsts)
    BY <1>3, <2>1, Zenon
  <2>3. k \in next
    BY <2>2, Zenon
  <2>4. next \subseteq left
    BY Zenon
  <2> HIDE DEF next
  <2>5. QED
    BY <2>3, <2>4
<1> HIDE DEF next
<1>5. Min(next) \in next
  BY <1>4, LeastOf
<1>6. NextGrouped(rows, left) = Min(next)
  BY Zenon DEF NextGrouped, next, firsts, Same
<1>7. QED
  BY <1>5, <1>6 DEF next

(* The answers a log has.                                                  *)
LEMMA TurnAppended ==
  ASSUME NEW messages, Listing(messages), NEW m
  PROVE  /\ Turn(messages) \in Nat
         /\ m.role = "assistant" => Turn(Append(messages, m)) = Turn(messages) + 1
         /\ m.role # "assistant" => Turn(Append(messages, m)) = Turn(messages)
<1> DEFINE n == Len(messages)
           S == {k \in DOMAIN messages : messages[k].role = "assistant"}
           longer == Append(messages, m)
           T == {k \in DOMAIN longer : longer[k].role = "assistant"}
<1>1. n \in Nat /\ DOMAIN messages = 1 .. n
  BY ListingDomain
<1>2. /\ DOMAIN longer = 1 .. n + 1 /\ longer[n + 1] = m
      /\ \A k \in 1 .. n : longer[k] = messages[k]
  BY ListingAppend, ListingDomain
<1>3. 1 .. n + 1 = (1 .. n) \cup {n + 1} /\ n + 1 \notin 1 .. n
  BY <1>1
<1> HIDE DEF n, longer
<1>4. IsFiniteSet(S) /\ n + 1 \notin S
  <2>1. IsFiniteSet(1 .. n) /\ S \subseteq 1 .. n
    BY <1>1, FS_Interval
  <2>2. QED
    BY <1>3, <2>1, FS_Subset
<1>5. m.role = "assistant" => T = S \cup {n + 1}
  BY <1>1, <1>2, <1>3
<1>6. m.role # "assistant" => T = S
  BY <1>1, <1>2, <1>3
<1> HIDE DEF S, T
<1>7. Cardinality(S) \in Nat /\ Cardinality(S \cup {n + 1}) = Cardinality(S) + 1
  BY <1>4, FS_CardinalityType, FS_AddElement
<1>8. Turn(messages) = Cardinality(S) /\ Turn(Append(messages, m)) = Cardinality(T)
  BY Zenon DEF Turn, S, T, longer
<1>9. QED
  BY <1>5, <1>6, <1>7, <1>8


LEMMA HeadOf ==
  ASSUME NEW messages, Listing(messages), Len(messages) >= 1
  PROVE  /\ Head(messages) = messages[1]
         /\ \A m : Listing(Append(messages, m)) /\ Len(Append(messages, m)) >= 1
                   /\ Append(messages, m)[1] = messages[1]
<1>1. Head(messages) = messages[1]
  BY ListingDomain
<1>2. 1 \in 1 .. Len(messages) /\ Len(messages) \in Nat
  BY ListingDomain
<1>3. QED
  BY <1>1, <1>2, ListingAppend

(* The places of the rows that go on are the first ones.                   *)
LEMMA RankTaken ==
  ASSUME NEW n \in Nat, NEW going, going \subseteq 1 .. n, NEW i \in 1 .. Cardinality(going)
  PROVE  \E k \in going : Rank(k, going) = i
<1> DEFINE Upto(k) == {j \in going : j <= k}
           enough == {k \in Nat : Cardinality(Upto(k)) >= i}
<1>0. \A j \in going : j \in Nat /\ 1 <= j /\ j <= n
  OBVIOUS
<1>1. IsFiniteSet(going) /\ Cardinality(going) \in Nat
  <2>1. IsFiniteSet(1 .. n)
    BY FS_Interval
  <2>2. QED
    BY <2>1, FS_Subset, FS_CardinalityType
<1>2. ASSUME NEW k \in Nat PROVE IsFiniteSet(Upto(k)) /\ Cardinality(Upto(k)) \in Nat
  <2>1. Upto(k) \subseteq going
    OBVIOUS
  <2> HIDE DEF Upto
  <2>2. QED
    BY <1>1, <2>1, FS_Subset, FS_CardinalityType
<1>3. n \in enough
  <2>1. Upto(n) = going
    BY <1>0
  <2>2. Cardinality(going) >= i
    BY <1>1
  <2> HIDE DEF Upto
  <2>3. QED
    BY <2>1, <2>2
<1>4. Upto(0) = {} /\ Cardinality({}) = 0
  <2>1. \A j \in going : ~(j <= 0)
    BY <1>0
  <2>2. Upto(0) = {}
    BY <2>1, Zenon
  <2>3. QED
    BY <2>2, FS_EmptySet
<1>5. ASSUME NEW k \in Nat, k + 1 \in going
      PROVE  Upto(k + 1) = Upto(k) \cup {k + 1} /\ k + 1 \notin Upto(k)
  <2>1. \A j \in going : j <= k + 1 <=> j <= k \/ j = k + 1
    BY <1>0
  <2>2. ~(k + 1 <= k) /\ k + 1 <= k + 1
    OBVIOUS
  <2>3. QED
    BY <1>5, <2>1, <2>2, Zenon
<1>6. ASSUME NEW k \in Nat, k + 1 \notin going
      PROVE  Upto(k + 1) = Upto(k)
  <2>1. \A j \in going : j <= k + 1 <=> j <= k \/ j = k + 1
    BY <1>0
  <2>2. QED
    BY <1>6, <2>1, Zenon
<1> HIDE DEF Upto
<1> DEFINE m == Min(enough)
<1>7. m \in enough /\ \A k \in enough : m <= k
  <2>1. enough \subseteq Nat /\ enough # {}
    BY <1>3
  <2> HIDE DEF enough
  <2>2. QED
    BY <2>1, LeastOf
<1> HIDE DEF m
<1>8. m \in Nat /\ Cardinality(Upto(m)) >= i /\ m # 0
  BY <1>4, <1>7
<1> DEFINE k == m - 1
<1>9. k \in Nat /\ k + 1 = m /\ Cardinality(Upto(k)) < i
  <2>1. k \in Nat /\ k + 1 = m /\ k < m
    BY <1>8
  <2>2. k \notin enough
    BY <1>7, <1>8, <2>1
  <2>3. QED
    BY <1>2, <2>1, <2>2
<1> HIDE DEF k
<1>10. m \in going
  <2> SUFFICES ASSUME m \notin going PROVE FALSE
    OBVIOUS
  <2>1. Upto(m) = Upto(k)
    BY <1>6, <1>9
  <2>2. QED
    BY <1>1, <1>2, <1>8, <1>9, <2>1
<1>11. Cardinality(Upto(m)) = Cardinality(Upto(k)) + 1
  <2>1. Upto(m) = Upto(k) \cup {m} /\ m \notin Upto(k)
    BY <1>5, <1>9, <1>10
  <2>2. QED
    BY <1>2, <1>9, <2>1, FS_AddElement
<1>12. Cardinality(Upto(m)) = i
  BY <1>2, <1>8, <1>9, <1>11
<1>13. QED
  BY <1>10, <1>12, Zenon DEF Rank, Upto

-----------------------------------------------------------------------------
(***************************************************************************)
(* What an environment is handed before its t-th step: the info it last    *)
(* returned.                                                               *)
(***************************************************************************)
GivenBefore(steps, t, s) ==
  LET given == {u \in 1 .. t - 1 : steps[u].said.info # <<>>}
  IN IF given = {} THEN [of |-> s, step |-> 0] ELSE steps[Max(given)].said.info[1]

LEMMA GivenSame ==
  ASSUME NEW a, NEW b, NEW s, NEW t \in Nat, \A u \in 1 .. t - 1 : a[u] = b[u]
  PROVE  GivenBefore(a, t, s) = GivenBefore(b, t, s)
<1> DEFINE A == {u \in 1 .. t - 1 : a[u].said.info # <<>>}
           B == {u \in 1 .. t - 1 : b[u].said.info # <<>>}
<1>1. A = B
  OBVIOUS
<1>2. A # {} => Max(A) \in 1 .. t - 1
  <2>1. A \subseteq 0 .. t
    OBVIOUS
  <2>2. A # {} => Max(A) \in A
    <3> HIDE DEF A
    <3> QED
      BY <2>1, GreatestOf
  <2>3. QED
    BY <2>2
<1>3. A # {} => a[Max(A)] = b[Max(B)]
  <2> HIDE DEF A, B
  <2> QED
    BY <1>1, <1>2
<1>4. QED
  BY <1>1, <1>3, Zenon DEF GivenBefore, A, B

LEMMA GivenNext ==
  ASSUME NEW a, NEW s, NEW t \in Nat \ {0}
  PROVE  GivenBefore(a, t + 1, s) =
           IF a[t].said.info # <<>> THEN a[t].said.info[1] ELSE GivenBefore(a, t, s)
<1> DEFINE A == {u \in 1 .. t - 1 : a[u].said.info # <<>>}
           B == {u \in 1 .. t + 1 - 1 : a[u].said.info # <<>>}
<1>1. CASE a[t].said.info # <<>>
  <2>1. t \in B /\ B \subseteq Nat /\ \A x \in B : x <= t
    BY <1>1
  <2>2. Max(B) = t /\ B # {}
    <3> HIDE DEF B
    <3> QED
      BY <2>1, GreatestIs
  <2>3. GivenBefore(a, t + 1, s) = a[Max(B)].said.info[1]
    BY <2>2 DEF GivenBefore, B
  <2> HIDE DEF B
  <2>4. QED
    BY <1>1, <2>2, <2>3
<1>2. CASE a[t].said.info = <<>>
  <2>1. A = B
    BY <1>2
  <2>2. GivenBefore(a, t + 1, s) = IF B = {} THEN [of |-> s, step |-> 0] ELSE a[Max(B)].said.info[1]
    BY DEF GivenBefore
  <2>3. GivenBefore(a, t, s) = IF A = {} THEN [of |-> s, step |-> 0] ELSE a[Max(A)].said.info[1]
    BY DEF GivenBefore
  <2> HIDE DEF A, B
  <2>4. QED
    BY <1>2, <2>1, <2>2, <2>3
<1>3. QED
  BY <1>1, <1>2


-----------------------------------------------------------------------------
(***************************************************************************)
(* The inductive invariant.  A sample is at rest between two turns; in a   *)
(* turn it is asked, the answer enters its log, and the environment is     *)
(* told and heard.                                                         *)
(***************************************************************************)
WantedBefore(t, s) == IF t = 1 THEN {<<s, 0>>} ELSE served[s][t - 1].said.stops

InfoFits(s) == info[s] = GivenBefore(served[s], Len(served[s]) + 1, s)

AtRest(s) ==
  /\ Len(asked[s]) = Len(served[s]) /\ Turn(heap[s]) = Len(served[s])
  /\ InfoFits(s) /\ WantedBefore(Len(served[s]) + 1, s) \subseteq stops[s]
IsAsked(s) ==
  Len(asked[s]) = Len(served[s]) + 1 /\ Turn(heap[s]) = Len(served[s]) /\ InfoFits(s)
IsTold(s) ==
  Len(asked[s]) = Len(served[s]) + 1 /\ Turn(heap[s]) = Len(served[s]) + 1 /\ InfoFits(s)
IsHeard(s) ==
  /\ Len(asked[s]) = Len(served[s]) /\ Turn(heap[s]) = Len(served[s]) /\ Len(served[s]) >= 1
  /\ info[s] = GivenBefore(served[s], Len(served[s]), s)

PerSample(f) == f = [s \in Samples |-> f[s]]

(* A row's log is its own, and starts with its prompt.                     *)
LogsInv ==
  /\ ref = [s \in Samples |-> s]
  /\ PerSample(heap) /\ PerSample(stops) /\ PerSample(info) /\ PerSample(asked)
  /\ PerSample(served) /\ PerSample(turns) /\ PerSample(terminated) /\ PerSample(truncated)
  /\ \A s \in Samples : /\ Listing(heap[s]) /\ Len(heap[s]) >= 1 /\ heap[s][1].of = s
                        /\ Listing(asked[s]) /\ Listing(served[s]) /\ turns[s] \in Nat

InLoop == phase \in {"select", "generate", "feedback"}
Stepped == {replies[i].index : i \in 1 .. Len(replies)}

ActiveInv ==
  InLoop =>
    /\ mode = "batch" /\ Listing(active)
    /\ \A k \in 1 .. Len(active) : active[k] \in Samples
    /\ \A j, k \in 1 .. Len(active) : active[j] = active[k] => j = k

SelectInv ==
  phase = "select" => \A s \in Samples, k \in 1 .. Len(active) : active[k] = s => AtRest(s)

ViewInv ==
  phase \in {"generate", "feedback"} =>
    /\ Listing(view) /\ Len(view) = Len(active)
    /\ \A k \in 1 .. Len(active) :
         /\ view[k].log = active[k] /\ view[k].info = info[active[k]]
         /\ view[k].stops = stops[active[k]]

GenerateInv ==
  phase = "generate" =>
    /\ Listing(outs) /\ Len(outs) <= Len(active)
    /\ replies = <<>>
    /\ \A s \in Samples, k \in 1 .. Len(active) : active[k] = s =>
         IF k <= Len(outs) THEN IsAsked(s) /\ outs[k].role = "assistant" ELSE AtRest(s)

FeedbackInv ==
  phase = "feedback" =>
    /\ Listing(replies) /\ Stepped \subseteq 1 .. Len(active)
    /\ Cardinality(Stepped) = Len(replies)
    /\ \A i, j \in 1 .. Len(replies) : replies[i].index = replies[j].index => i = j
    /\ \A s \in Samples, k \in 1 .. Len(active) : active[k] = s =>
         IF k \in Stepped THEN IsHeard(s) ELSE IsTold(s)
    /\ \A s \in Samples, i \in 1 .. Len(replies) : active[replies[i].index] = s =>
         replies[i].said = served[s][Len(served[s])].said

(* A coroutine that waits for the engine or goes on is at rest, and one    *)
(* whose environment is stepping holds the loop.                           *)
AsyncInv ==
  mode = "async" /\ phase = "concurrent" =>
    /\ outs = <<>> \/ \E s \in Samples : outs = <<s>>
    /\ \A s \in Samples :
         IF outs = <<s>> THEN IsTold(s) /\ turns[s] <= Len(asked[s])
         ELSE /\ ~Ended(s) => AtRest(s)
              /\ Ended(s) => turns[s] <= Len(asked[s])
              /\ turns[s] <= Len(asked[s]) + 1

PhaseInv ==
  /\ phase \in {"select", "generate", "feedback", "concurrent", "returned", "raised"}
  /\ phase = "concurrent" => mode # "batch"

RolloutInv ==
  /\ LogsInv /\ SamplesInStep /\ PhaseInv /\ ActiveInv /\ SelectInv /\ ViewInv
  /\ GenerateInv /\ FeedbackInv /\ AsyncInv

(* Every rollout starts with the prompts, at rest.                         *)
LEMMA InitRollout == Init => RolloutInv
<1> SUFFICES ASSUME Init PROVE RolloutInv
  OBVIOUS
<1>1. PICK m \in DOMAIN Batches : \E b \in Batches[m] : 
        LET all == DOMAIN Copy(b)
        IN /\ mode = m
           /\ task = [s \in all |-> PromptOf(b, s).task]
           /\ heap = [s \in all |-> <<User(s, PromptOf(b, s).len)>>]
           /\ ref = Copy(b)
           /\ stops = [s \in all |-> {<<s, 0>>}]
           /\ info = [s \in all |-> [of |-> s, step |-> 0]]
           /\ turns = [s \in all |-> 0]
           /\ terminated = [s \in all |-> FALSE] /\ truncated = [s \in all |-> FALSE]
           /\ phase = IF m = "batch" THEN "select" ELSE "concurrent"
           /\ active = [s \in all |-> s] /\ outs = <<>>
           /\ asked = [s \in all |-> <<>>] /\ served = [s \in all |-> <<>>]
  BY DEF Init
<1>2. PICK b \in Batches[m] :
        LET all == DOMAIN Copy(b)
        IN /\ mode = m
           /\ task = [s \in all |-> PromptOf(b, s).task]
           /\ heap = [s \in all |-> <<User(s, PromptOf(b, s).len)>>]
           /\ ref = Copy(b)
           /\ stops = [s \in all |-> {<<s, 0>>}]
           /\ info = [s \in all |-> [of |-> s, step |-> 0]]
           /\ turns = [s \in all |-> 0]
           /\ terminated = [s \in all |-> FALSE] /\ truncated = [s \in all |-> FALSE]
           /\ phase = IF m = "batch" THEN "select" ELSE "concurrent"
           /\ active = [s \in all |-> s] /\ outs = <<>>
           /\ asked = [s \in all |-> <<>>] /\ served = [s \in all |-> <<>>]
  BY <1>1
<1> DEFINE n == Len(b.rows) * b.gen
<1>3. n \in Nat
  <2>1. b.rows \in Seq(Range(b.rows)) /\ b.gen \in Nat \ {0}
    BY RolloutAssumption
  <2>2. Len(b.rows) \in Nat
    BY <2>1
  <2>3. QED
    BY <2>1, <2>2
<1>4. Copy(b) = [s \in 1 .. n |-> s] /\ DOMAIN Copy(b) = 1 .. n
  BY DEF Copy
<1> HIDE DEF n
<1>5. Samples = 1 .. n
  BY <1>2, <1>4 DEF Samples
<1>6. LogsInv
  <2>1. ref = [s \in Samples |-> s]
    BY <1>2, <1>4, <1>5
  <2>2. /\ PerSample(heap) /\ PerSample(stops) /\ PerSample(info) /\ PerSample(asked)
        /\ PerSample(served) /\ PerSample(turns) /\ PerSample(terminated) /\ PerSample(truncated)
    BY <1>2, <1>4, <1>5 DEF PerSample
  <2>3. ASSUME NEW s \in Samples
        PROVE  /\ Listing(heap[s]) /\ Len(heap[s]) >= 1 /\ heap[s][1].of = s
               /\ Listing(asked[s]) /\ Listing(served[s]) /\ turns[s] \in Nat
    <3>1. heap[s] = <<User(s, PromptOf(b, s).len)>> /\ asked[s] = <<>> /\ served[s] = <<>> /\ turns[s] = 0
      BY <1>2, <1>4, <1>5
    <3>2. QED
      BY <3>1 DEF Listing, User
  <2>4. QED
    BY <2>1, <2>2, <2>3 DEF LogsInv
<1>7. \A s \in Samples : asked[s] = <<>> /\ served[s] = <<>> /\ AtRest(s) /\ ~Ended(s) /\ turns[s] = 0
  <2> SUFFICES ASSUME NEW s \in Samples
               PROVE  asked[s] = <<>> /\ served[s] = <<>> /\ AtRest(s) /\ ~Ended(s) /\ turns[s] = 0
    OBVIOUS
  <2>1. /\ heap[s] = <<User(s, PromptOf(b, s).len)>> /\ asked[s] = <<>> /\ served[s] = <<>>
        /\ info[s] = [of |-> s, step |-> 0] /\ stops[s] = {<<s, 0>>} /\ turns[s] = 0
        /\ ~terminated[s] /\ ~truncated[s]
    BY <1>2, <1>4, <1>5
  <2>2. Len(<<>>) = 0
    OBVIOUS
  <2>3. GivenBefore(<<>>, 1, s) = [of |-> s, step |-> 0]
    BY DEF GivenBefore
  <2>4. Turn(heap[s]) = 0
    <3>1. {k \in DOMAIN heap[s] : heap[s][k].role = "assistant"} = {}
      BY <2>1 DEF User
    <3>2. QED
      BY <3>1, FS_EmptySet DEF Turn
  <2>5. QED
    BY <2>1, <2>2, <2>3, <2>4 DEF AtRest, InfoFits, WantedBefore, Ended
<1>8. SamplesInStep
  BY <1>7 DEF SamplesInStep, EnvInStep, StopsReachEngine
<1>9. phase \in {"select", "concurrent"} /\ (phase = "select" <=> mode = "batch")
  BY <1>2
<1>10. Listing(active) /\ Len(active) = n /\ \A k \in 1 .. n : active[k] = k
  BY <1>2, <1>3, <1>4 DEF Listing
<1>11. QED
  BY <1>2, <1>5, <1>6, <1>7, <1>8, <1>9, <1>10
     DEF RolloutInv, PhaseInv, ActiveInv, SelectInv, ViewInv, GenerateInv, FeedbackInv, AsyncInv, InLoop

-----------------------------------------------------------------------------
(***************************************************************************)
(* What a step keeps of a sample it does not touch.                        *)
(***************************************************************************)
Untouched(s) ==
  /\ heap'[s] = heap[s] /\ stops'[s] = stops[s] /\ info'[s] = info[s]
  /\ asked'[s] = asked[s] /\ served'[s] = served[s]

LEMMA SampleKept ==
  ASSUME NEW s, Untouched(s)
  PROVE  /\ AtRest(s) => AtRest(s)'
         /\ IsAsked(s) => IsAsked(s)'
         /\ IsTold(s) => IsTold(s)'
         /\ IsHeard(s) => IsHeard(s)'
BY DEF Untouched, AtRest, IsAsked, IsTold, IsHeard, InfoFits, WantedBefore

(* A sample's history, from what was asked and served of it.               *)
History(s, a, v) ==
  /\ \A t \in DOMAIN v : v[t].turn = t /\ v[t].given = GivenBefore(v, t, s)
  /\ \A t \in DOMAIN a : (IF t = 1 THEN {<<s, 0>>} ELSE v[t - 1].said.stops) \subseteq a[t]

LEMMA HistoryOf ==
  /\ SamplesInStep <=> \A s \in Samples : History(s, asked[s], served[s])
  /\ SamplesInStep' <=> \A s \in Samples' : History(s, asked'[s], served'[s])
<1>1. SamplesInStep <=> \A s \in Samples : History(s, asked[s], served[s])
  BY Zenon DEF SamplesInStep, EnvInStep, StopsReachEngine, History, GivenBefore
<1>2. SamplesInStep' <=> \A s \in Samples' : History(s, asked'[s], served'[s])
  BY Zenon DEF SamplesInStep, EnvInStep, StopsReachEngine, History, GivenBefore
<1>3. QED
  BY <1>1, <1>2

LEMMA HistoryAsked ==
  ASSUME NEW s, NEW a, NEW v, NEW e, Listing(a), Listing(v), Len(a) = Len(v), History(s, a, v),
         (IF Len(v) + 1 = 1 THEN {<<s, 0>>} ELSE v[Len(v)].said.stops) \subseteq e
  PROVE  History(s, Append(a, e), v)
<1> DEFINE n == Len(v)
<1>1. /\ n \in Nat /\ DOMAIN a = 1 .. n /\ DOMAIN Append(a, e) = 1 .. n + 1
      /\ Append(a, e)[n + 1] = e /\ \A t \in 1 .. n : Append(a, e)[t] = a[t]
  BY ListingDomain, ListingAppend
<1>2. ASSUME NEW t \in 1 .. n + 1
      PROVE  (IF t = 1 THEN {<<s, 0>>} ELSE v[t - 1].said.stops) \subseteq Append(a, e)[t]
  <2>1. CASE t \in 1 .. n
    BY <1>1, <2>1 DEF History
  <2>2. CASE t = n + 1
    <3>1. t - 1 = n
      BY <1>1, <2>2
    <3>2. QED
      BY <1>1, <2>2, <3>1
  <2>3. QED
    BY <1>1, <2>1, <2>2
<1>3. QED
  BY <1>1, <1>2 DEF History

LEMMA HistoryServed ==
  ASSUME NEW s, NEW a, NEW v, NEW e, Listing(a), Listing(v), Len(a) = Len(v) + 1, History(s, a, v),
         e.turn = Len(v) + 1, e.given = GivenBefore(v, Len(v) + 1, s)
  PROVE  History(s, a, Append(v, e))
<1> DEFINE n == Len(v)
           w == Append(v, e)
<1>1. /\ n \in Nat /\ DOMAIN a = 1 .. n + 1 /\ DOMAIN v = 1 .. n /\ DOMAIN w = 1 .. n + 1
      /\ w[n + 1] = e /\ \A t \in 1 .. n : w[t] = v[t]
  BY ListingDomain, ListingAppend
<1> HIDE DEF w
<1>2. ASSUME NEW t \in 1 .. n + 1
      PROVE  w[t].turn = t /\ w[t].given = GivenBefore(w, t, s)
  <2>1. \A u \in 1 .. t - 1 : w[u] = v[u]
    BY <1>1
  <2>2. GivenBefore(w, t, s) = GivenBefore(v, t, s)
    BY <1>1, <2>1, GivenSame
  <2>3. CASE t \in 1 .. n
    BY <1>1, <2>2, <2>3 DEF History
  <2>4. CASE t = n + 1
    BY <1>1, <2>2, <2>4
  <2>5. QED
    BY <1>1, <2>3, <2>4
<1>3. ASSUME NEW t \in 1 .. n + 1
      PROVE  (IF t = 1 THEN {<<s, 0>>} ELSE w[t - 1].said.stops) \subseteq a[t]
  <2>1. t # 1 => t - 1 \in 1 .. n
    BY <1>1
  <2>2. t # 1 => w[t - 1] = v[t - 1]
    BY <1>1, <2>1
  <2>3. QED
    BY <1>1, <2>2 DEF History
<1>4. History(s, a, w)
  BY <1>1, <1>2, <1>3 DEF History
<1>5. QED
  BY <1>4 DEF w

LEMMA HistoryKept ==
  ASSUME SamplesInStep, UNCHANGED <<task, asked, served>>
  PROVE  SamplesInStep'
<1>1. Samples' = Samples
  BY DEF Samples
<1>2. QED
  BY <1>1, HistoryOf

LEMMA LogsKept ==
  ASSUME LogsInv, UNCHANGED <<task, ref, heap, stops, info, asked, served>>,
         turns' = [s \in Samples |-> turns'[s]], \A s \in Samples : turns'[s] \in Nat,
         UNCHANGED <<terminated, truncated>>
  PROVE  LogsInv'
<1>1. Samples' = Samples
  BY DEF Samples
<1>2. QED
  BY <1>1 DEF LogsInv, PerSample

(* The actions that leave the samples alone.                               *)
LEMMA QuietKeeps ==
  ASSUME RolloutInv, UNCHANGED <<mode, task, ref, heap, stops, info, asked, served, turns, terminated, truncated>>,
         \/ phase' = phase /\ UNCHANGED loop
         \/ phase' \in {"returned", "raised"}
  PROVE  RolloutInv'
<1>1. Samples' = Samples
  BY DEF Samples
<1>2. LogsInv'
  BY LogsKept DEF RolloutInv, LogsInv, PerSample
<1>3. SamplesInStep'
  BY HistoryKept DEF RolloutInv
<1>4. \A s : /\ AtRest(s) => AtRest(s)'
             /\ IsAsked(s) => IsAsked(s)'
             /\ IsTold(s) => IsTold(s)'
             /\ IsHeard(s) => IsHeard(s)'
  BY SampleKept DEF Untouched
<1>5. CASE phase' \in {"returned", "raised"}
  BY <1>2, <1>3, <1>5 DEF RolloutInv, PhaseInv, ActiveInv, SelectInv, ViewInv, GenerateInv, FeedbackInv,
                          AsyncInv, InLoop
<1>6. CASE phase' = phase /\ UNCHANGED loop
  <2>1. active' = active /\ view' = view /\ outs' = outs /\ replies' = replies
    BY <1>6 DEF loop
  <2>2. PhaseInv' /\ ActiveInv' /\ ViewInv'
    BY <1>1, <1>6, <2>1 DEF RolloutInv, PhaseInv, ActiveInv, ViewInv, InLoop
  <2>3. SelectInv'
    BY <1>1, <1>4, <1>6, <2>1 DEF RolloutInv, SelectInv
  <2>4. GenerateInv'
    BY <1>1, <1>4, <1>6, <2>1 DEF RolloutInv, GenerateInv
  <2>5. FeedbackInv'
    <3>1. Stepped' = Stepped
      BY <2>1 DEF Stepped
    <3> SUFFICES ASSUME phase' = "feedback" PROVE FeedbackInv'
      BY DEF FeedbackInv
    <3>2. FeedbackInv /\ phase = "feedback"
      BY <1>6 DEF RolloutInv
    <3>3. \A s \in Samples, k \in 1 .. Len(active) : active[k] = s =>
            IF k \in Stepped' THEN IsHeard(s)' ELSE IsTold(s)'
      BY <1>4, <3>1, <3>2 DEF FeedbackInv
    <3>4. QED
      BY <1>1, <2>1, <3>1, <3>2, <3>3 DEF FeedbackInv
  <2>6. AsyncInv'
    BY <1>1, <1>4, <1>6, <2>1 DEF RolloutInv, AsyncInv, Ended
  <2>7. QED
    BY <1>2, <1>3, <2>2, <2>3, <2>4, <2>5, <2>6 DEF RolloutInv
<1>7. QED
  BY <1>5, <1>6

-----------------------------------------------------------------------------
(***************************************************************************)
(* A sample's turn.                                                        *)
(***************************************************************************)
LEMMA IsAskedNext ==
  ASSUME NEW s, AtRest(s), Listing(asked[s]), NEW e, asked'[s] = Append(asked[s], e),
         heap'[s] = heap[s], info'[s] = info[s], served'[s] = served[s]
  PROVE  IsAsked(s)'
<1>1. Len(asked'[s]) = Len(asked[s]) + 1
  BY ListingAppend
<1>2. QED
  BY <1>1 DEF AtRest, IsAsked, InfoFits

LEMMA IsToldNext ==
  ASSUME NEW s, IsAsked(s), Listing(heap[s]), NEW m, m.role = "assistant",
         heap'[s] = Append(heap[s], m),
         asked'[s] = asked[s], info'[s] = info[s], served'[s] = served[s]
  PROVE  IsTold(s)'
<1>1. Turn(heap'[s]) = Turn(heap[s]) + 1
  BY TurnAppended
<1>2. QED
  BY <1>1 DEF IsTold, IsAsked, InfoFits

LEMMA IsHeardNext ==
  ASSUME NEW s, IsTold(s), Listing(served[s]), NEW e, served'[s] = Append(served[s], e),
         asked'[s] = asked[s], info'[s] = info[s], heap'[s] = heap[s]
  PROVE  IsHeard(s)'
<1> DEFINE n == Len(served[s])
<1>1. n \in Nat /\ Len(served'[s]) = n + 1 /\ \A u \in 1 .. n : served'[s][u] = served[s][u]
  BY ListingAppend, ListingDomain
<1>2. GivenBefore(served'[s], n + 1, s) = GivenBefore(served[s], n + 1, s)
  <2>1. n + 1 \in Nat /\ \A u \in 1 .. (n + 1) - 1 : served'[s][u] = served[s][u]
    BY <1>1
  <2>2. \A v, w : \A t \in Nat : (\A u \in 1 .. t - 1 : w[u] = v[u])
                               => GivenBefore(w, t, s) = GivenBefore(v, t, s)
    BY GivenSame
  <2> HIDE DEF n
  <2>3. QED
    BY <2>1, <2>2
<1>3. Len(asked[s]) = n + 1 /\ Turn(heap[s]) = n + 1 /\ info[s] = GivenBefore(served[s], n + 1, s)
  BY DEF IsTold, InfoFits
<1> HIDE DEF n
<1>4. QED
  BY <1>1, <1>2, <1>3 DEF IsHeard

LEMMA AtRestNext ==
  ASSUME NEW s, IsHeard(s), Listing(heap[s]), Listing(served[s]), NEW m, m.role # "assistant",
         heap'[s] = Append(heap[s], m), asked'[s] = asked[s], served'[s] = served[s],
         LET said == served[s][Len(served[s])].said
         IN /\ said.stops \subseteq stops'[s]
            /\ info'[s] = IF said.info # <<>> THEN said.info[1] ELSE info[s]
  PROVE  AtRest(s)'
<1> DEFINE n == Len(served[s])
<1>1. n \in Nat \ {0}
  BY ListingDomain DEF IsHeard
<1>2. Turn(heap'[s]) = Turn(heap[s])
  BY TurnAppended
<1>3. GivenBefore(served[s], n + 1, s) =
        IF served[s][n].said.info # <<>> THEN served[s][n].said.info[1]
        ELSE GivenBefore(served[s], n, s)
  BY <1>1, GivenNext
<1>4. /\ Len(asked[s]) = n /\ Turn(heap[s]) = n /\ info[s] = GivenBefore(served[s], n, s)
      /\ served[s][n].said.stops \subseteq stops'[s]
      /\ info'[s] = IF served[s][n].said.info # <<>> THEN served[s][n].said.info[1] ELSE info[s]
  BY DEF IsHeard
<1>5. info'[s] = GivenBefore(served[s], n + 1, s)
  BY <1>3, <1>4
<1>6. n + 1 # 1 /\ (n + 1) - 1 = n
  BY <1>1
<1>7. n = Len(served'[s])
  OBVIOUS
<1> HIDE DEF n
<1>8. (IF n + 1 = 1 THEN {<<s, 0>>} ELSE served'[s][n + 1 - 1].said.stops) \subseteq stops'[s]
  BY <1>4, <1>6
<1>9. QED
  BY <1>2, <1>4, <1>5, <1>7, <1>8 DEF AtRest, InfoFits, WantedBefore

LEMMA HeapOwn ==
  ASSUME LogsInv
  PROVE  /\ DOMAIN heap = Samples /\ DOMAIN asked = Samples /\ DOMAIN served = Samples
         /\ heap = [s \in Samples |-> heap[s]]
         /\ \A s \in Samples : ref[s] = s /\ Head(heap[s]) = heap[s][1] /\ Head(heap[s]).of = s
<1>1. /\ heap = [s \in Samples |-> heap[s]] /\ asked = [s \in Samples |-> asked[s]]
      /\ served = [s \in Samples |-> served[s]] /\ ref = [s \in Samples |-> s]
  BY DEF LogsInv, PerSample
<1>2. DOMAIN heap = Samples /\ DOMAIN asked = Samples /\ DOMAIN served = Samples
  BY <1>1
<1>3. \A s \in Samples : ref[s] = s
  BY <1>1
<1>4. ASSUME NEW s \in Samples PROVE Head(heap[s]) = heap[s][1] /\ Head(heap[s]).of = s
  <2>1. Listing(heap[s]) /\ Len(heap[s]) >= 1 /\ heap[s][1].of = s
    BY DEF LogsInv
  <2>2. QED
    BY <2>1, HeadOf
<1>5. QED
  BY <1>1, <1>2, <1>3, <1>4

LEMMA EmptyListing == Listing(<<>>) /\ Len(<<>>) = 0
BY DEF Listing

(* The next selection holds the rows that are still active.                *)
LEMMA SelectKeeps ==
  ASSUME RolloutInv, Select
  PROVE  RolloutInv'
<1>1. /\ mode = "batch" /\ phase = "select" /\ phase' = "generate" /\ mode' = mode
      /\ view' = ActiveBatch /\ outs' = <<>> /\ replies' = <<>> /\ active' = active
      /\ UNCHANGED <<task, ref, heap, stops, info, asked, served, turns, terminated, truncated>>
  BY DEF Select, sample
<1>2. Samples' = Samples
  BY <1>1 DEF Samples
<1>3. LogsInv'
  BY <1>1, LogsKept DEF RolloutInv, LogsInv, PerSample
<1>4. SamplesInStep'
  BY <1>1, HistoryKept DEF RolloutInv
<1>5. PhaseInv' /\ ActiveInv' /\ SelectInv' /\ FeedbackInv' /\ AsyncInv'
  BY <1>1, <1>2 DEF RolloutInv, PhaseInv, ActiveInv, InLoop, SelectInv, FeedbackInv, AsyncInv
<1>6. ViewInv'
  <2>1. Listing(active) /\ DOMAIN active = 1 .. Len(active) /\ \A k \in 1 .. Len(active) : active[k] \in Samples
    BY <1>1, ListingDomain DEF RolloutInv, ActiveInv, InLoop
  <2>2. Listing(view') /\ Len(view') = Len(active)
    BY <1>1, <2>1, ListingDomain DEF ActiveBatch, Listing
  <2>3. ASSUME NEW k \in 1 .. Len(active)
        PROVE  /\ view'[k].log = active[k] /\ view'[k].info = info[active[k]]
               /\ view'[k].stops = stops[active[k]]
    <3>1. ref[active[k]] = active[k]
      BY <2>1, HeapOwn DEF RolloutInv
    <3>2. QED
      BY <1>1, <2>1, <3>1 DEF ActiveBatch
  <2>4. QED
    BY <1>1, <2>2, <2>3 DEF ViewInv
<1>7. GenerateInv'
  <2>1. \A s \in Samples, k \in 1 .. Len(active) : active[k] = s => AtRest(s)'
    <3> SUFFICES ASSUME NEW s \in Samples, NEW k \in 1 .. Len(active), active[k] = s PROVE AtRest(s)'
      OBVIOUS
    <3>1. AtRest(s)
      BY <1>1 DEF RolloutInv, SelectInv
    <3>2. QED
      BY <1>1, <3>1, SampleKept DEF Untouched
  <2>2. Listing(active) /\ Len(active) \in Nat /\ \A k \in 1 .. Len(active) : ~(k <= 0)
    BY <1>1, ListingDomain DEF RolloutInv, ActiveInv, InLoop
  <2>3. QED
    BY <1>1, <1>2, <2>1, <2>2, EmptyListing DEF GenerateInv
<1>8. QED
  BY <1>3, <1>4, <1>5, <1>6, <1>7 DEF RolloutInv

(* The rows of a selection are different samples, each with its own log.   *)
LEMMA RowsOwn ==
  ASSUME LogsInv, ActiveInv, ViewInv, phase \in {"generate", "feedback"}
  PROVE  /\ Len(active) \in Nat /\ Len(view) = Len(active) /\ Listing(active) /\ Listing(view)
         /\ DOMAIN view = 1 .. Len(active) /\ DOMAIN active = 1 .. Len(active)
         /\ \A k \in 1 .. Len(active) :
              /\ active[k] \in Samples /\ view[k].log = active[k]
              /\ view[k].info = info[active[k]] /\ view[k].stops = stops[active[k]]
              /\ Head(heap[view[k].log]).of = active[k]
         /\ \A j, k \in 1 .. Len(active) : active[j] = active[k] => j = k
<1>1. /\ Listing(active) /\ Listing(view) /\ Len(view) = Len(active)
      /\ \A k \in 1 .. Len(active) :
              /\ active[k] \in Samples /\ view[k].log = active[k]
              /\ view[k].info = info[active[k]] /\ view[k].stops = stops[active[k]]
      /\ \A j, k \in 1 .. Len(active) : active[j] = active[k] => j = k
  BY DEF ActiveInv, ViewInv, InLoop
<1>2. Len(active) \in Nat /\ DOMAIN view = 1 .. Len(active) /\ DOMAIN active = 1 .. Len(active)
  BY <1>1, ListingDomain
<1>3. QED
  BY <1>1, <1>2, HeapOwn

(* The request of a shard carries the stop strings of its rows.            *)
LEMMA OwnStopsMerged ==
  ASSUME NEW n \in Nat, DOMAIN view = 1 .. n, NEW k \in 1 .. n
  PROVE  view[k].stops \subseteq Merged({view[i].stops : i \in Range(ShardWith(k))})
<1> DEFINE parts == UnevenShards([i \in 1 .. n |-> i], NumShards)
<1>1. NumShards \in Nat \ {0}
  BY RolloutAssumption
<1>2. PICK s \in 1 .. NumShards : k \in Range(parts[s])
  BY <1>1, ShardOf
<1>3. DOMAIN parts = 1 .. NumShards
  BY DEF UnevenShards
<1> HIDE DEF parts
<1>4. parts[s] \in Range(parts)
  BY <1>2, <1>3 DEF Range
<1>5. k \in Range(CHOOSE p \in Range(parts) : k \in Range(p))
  BY <1>2, <1>4, Zenon
<1>6. ShardWith(k) = CHOOSE p \in Range(parts) : k \in Range(p)
  BY DEF ShardWith, parts
<1>7. k \in Range(ShardWith(k))
  BY <1>5, <1>6
<1>8. QED
  BY <1>7 DEF Merged

(* The engine is asked for a row.                                          *)
LEMMA GenerateKeeps ==
  ASSUME RolloutInv, Generate
  PROVE  RolloutInv'
<1>0. PICK k : k = Len(outs) + 1
  OBVIOUS
<1>a. PICK a : a = active[k]
  OBVIOUS
<1> DEFINE e == Merged({view[i].stops : i \in Range(ShardWith(k))})
<1>1. /\ phase = "generate" /\ Len(outs) < Len(view) /\ phase' = phase /\ mode' = mode
      /\ \E len \in Lengths(heap[view[k].log]) : outs' = Append(outs, AnswerTo(heap[view[k].log], len))
      /\ asked' = [asked EXCEPT ![Head(heap[view[k].log]).of] = Append(@, e)]
      /\ UNCHANGED <<active, view, replies>>
      /\ UNCHANGED <<task, ref, heap, stops, info, served, turns, terminated, truncated>>
  BY <1>0 DEF Generate, sample
<1>2. /\ Len(active) \in Nat /\ Len(view) = Len(active) /\ Listing(active)
      /\ DOMAIN view = 1 .. Len(active)
      /\ \A j \in 1 .. Len(active) :
              /\ active[j] \in Samples /\ view[j].log = active[j] /\ view[j].stops = stops[active[j]]
              /\ Head(heap[view[j].log]).of = active[j]
      /\ \A i, j \in 1 .. Len(active) : active[i] = active[j] => i = j
  BY <1>1, RowsOwn DEF RolloutInv
<1>3. Listing(outs) /\ Len(outs) \in Nat /\ k \in 1 .. Len(active)
  <2>1. Listing(outs)
    BY <1>1 DEF RolloutInv, GenerateInv
  <2>2. Len(outs) \in Nat
    BY <2>1, ListingDomain
  <2>3. Len(outs) < Len(active) /\ Len(active) \in Nat
    BY <1>1, <1>2
  <2>4. QED
    BY <1>0, <2>1, <2>2, <2>3
<1>4. PICK m : outs' = Append(outs, m) /\ m.role = "assistant"
  <2>1. PICK len : outs' = Append(outs, AnswerTo(heap[view[k].log], len))
    BY <1>1
  <2>2. AnswerTo(heap[view[k].log], len).role = "assistant"
    BY DEF AnswerTo
  <2>3. QED
    BY <2>1, <2>2
<1>5. Listing(outs') /\ Len(outs') = k /\ (\A j \in 1 .. Len(outs) : outs'[j] = outs[j]) /\ outs'[k] = m
  BY <1>0, <1>3, <1>4, ListingAppend
<1>6. asked' = [asked EXCEPT ![a] = Append(@, e)] /\ a \in Samples
  BY <1>1, <1>2, <1>3, <1>a
<1>7. stops[a] \subseteq e
  BY <1>2, <1>3, <1>a, OwnStopsMerged
<1> HIDE DEF e
<1>8. Samples' = Samples
  BY <1>1 DEF Samples
<1>9. /\ DOMAIN asked = Samples /\ asked = [s \in Samples |-> asked[s]]
      /\ \A s \in Samples : Listing(heap[s]) /\ Listing(asked[s]) /\ Listing(served[s])
  BY HeapOwn DEF RolloutInv, LogsInv, PerSample
<1>10. /\ asked'[a] = Append(asked[a], e) /\ \A s \in Samples \ {a} : asked'[s] = asked[s]
       /\ PerSample(asked)'
  BY <1>6, <1>8, <1>9 DEF PerSample
<1>11. Listing(asked'[a])
  BY <1>6, <1>9, <1>10, ListingAppend
<1>12. LogsInv'
  <2>1. \A s \in Samples : Listing(asked'[s])
    BY <1>9, <1>10, <1>11
  <2>2. QED
    BY <1>1, <1>8, <1>10, <2>1 DEF RolloutInv, LogsInv, PerSample
<1>13. AtRest(a)
  <2>1. ~(k <= Len(outs))
    BY <1>0, <1>3
  <2>2. QED
    BY <1>1, <1>3, <1>6, <1>a, <2>1 DEF RolloutInv, GenerateInv
<1>14. IsAsked(a)'
  BY <1>1, <1>6, <1>9, <1>10, <1>13, IsAskedNext
<1>15. \A s \in Samples \ {a} : Untouched(s)
  BY <1>1, <1>10 DEF Untouched
<1>16. SamplesInStep'
  <2>1. \A s \in Samples : History(s, asked[s], served[s])
    BY HistoryOf DEF RolloutInv
  <2>2. ASSUME NEW s \in Samples, s = a
        PROVE  History(s, Append(asked[s], e), served[s])
    <3>1. Len(asked[s]) = Len(served[s]) /\ Len(served[s]) \in Nat
      BY <1>9, <1>13, <2>2, ListingDomain DEF AtRest
    <3>2. (IF Len(served[s]) + 1 = 1 THEN {<<s, 0>>} ELSE served[s][Len(served[s])].said.stops) \subseteq stops[s]
      <4>1. (IF Len(served[s]) + 1 = 1 THEN {<<s, 0>>} ELSE served[s][Len(served[s]) + 1 - 1].said.stops) \subseteq stops[s]
        BY <1>13, <2>2 DEF AtRest, WantedBefore
      <4>2. Len(served[s]) + 1 - 1 = Len(served[s])
        BY <3>1
      <4>3. QED
        BY <4>1, <4>2
    <3>3. QED
      BY <1>7, <1>9, <2>1, <2>2, <3>1, <3>2, HistoryAsked
  <2>3. \A s \in Samples : History(s, asked'[s], served'[s])
    BY <1>1, <1>10, <2>1, <2>2
  <2>4. QED
    BY <1>8, <2>3, HistoryOf
<1>17. GenerateInv'
  <2>1. ASSUME NEW s \in Samples, NEW j \in 1 .. Len(active), active[j] = s
        PROVE  IF j <= k THEN IsAsked(s)' /\ outs'[j].role = "assistant" ELSE AtRest(s)'
    <3>1. IF j <= Len(outs) THEN IsAsked(s) /\ outs[j].role = "assistant" ELSE AtRest(s)
      BY <1>1, <2>1 DEF RolloutInv, GenerateInv
    <3>2. CASE j = k
      <4>1. s = a /\ j <= k
        BY <1>3, <1>a, <2>1, <3>2
      <4>2. outs'[j].role = "assistant"
        BY <1>4, <1>5, <3>2
      <4>3. IsAsked(s)'
        BY <1>14, <4>1
      <4>4. QED
        BY <4>1, <4>2, <4>3
    <3>3. CASE j # k
      <4>1. Untouched(s)
        BY <1>2, <1>3, <1>a, <1>15, <2>1, <3>3
      <4>2. (IsAsked(s) => IsAsked(s)') /\ (AtRest(s) => AtRest(s)')
        BY <4>1, SampleKept
      <4>3. CASE j <= Len(outs)
        <5>1. outs'[j] = outs[j] /\ j <= k
          BY <1>0, <1>3, <1>5, <4>3
        <5>2. QED
          BY <3>1, <4>2, <4>3, <5>1
      <4>4. CASE ~(j <= Len(outs))
        <5>1. ~(j <= k)
          BY <1>0, <1>3, <3>3, <4>4
        <5>2. QED
          BY <3>1, <4>2, <4>4, <5>1
      <4>5. QED
        BY <4>3, <4>4
    <3>4. QED
      BY <3>2, <3>3
  <2>2. replies' = <<>>
    BY <1>1 DEF RolloutInv, GenerateInv
  <2>3. k <= Len(active)
    BY <1>3
  <2>4. QED
    BY <1>1, <1>5, <1>8, <2>1, <2>2, <2>3 DEF GenerateInv
<1>18. PhaseInv' /\ ActiveInv' /\ SelectInv' /\ FeedbackInv' /\ AsyncInv' /\ ViewInv'
  BY <1>1, <1>8 DEF RolloutInv, PhaseInv, ActiveInv, InLoop, SelectInv, FeedbackInv, AsyncInv, ViewInv
<1>19. QED
  BY <1>12, <1>16, <1>17, <1>18 DEF RolloutInv

(* A message for every row of the selection enters the row's log.          *)
LEMMA HeapAppended ==
  ASSUME LogsInv, ActiveInv, ViewInv, phase \in {"generate", "feedback"}, Samples' = Samples,
         NEW messages, heap' = Appended(view, messages)
  PROVE  /\ PerSample(heap)'
         /\ \A s \in Samples : Listing(heap'[s]) /\ Len(heap'[s]) >= 1 /\ heap'[s][1].of = s
         /\ \A s \in Samples, k \in 1 .. Len(active) :
              active[k] = s => heap'[s] = Append(heap[s], messages[k])
         /\ \A s \in Samples :
              (\A k \in 1 .. Len(active) : active[k] # s) => heap'[s] = heap[s]
<1>1. PICK n \in Nat : n = Len(active)
  BY RowsOwn
<1>2. /\ DOMAIN view = 1 .. n
      /\ \A k \in 1 .. n : view[k].log = active[k] /\ active[k] \in Samples
      /\ \A j, k \in 1 .. n : active[j] = active[k] => j = k
  BY <1>1, RowsOwn
<1>3. DOMAIN heap = Samples /\ heap = [s \in DOMAIN heap |-> heap[s]]
  BY HeapOwn
<1>4. /\ \A k \in 1 .. n : view[k].log \in DOMAIN heap
      /\ \A j, k \in 1 .. n : view[j].log = view[k].log => j = k
  BY <1>2, <1>3
<1>5. /\ heap' = [l \in DOMAIN heap |-> heap'[l]]
      /\ \A k \in 1 .. n : heap'[view[k].log] = Append(heap[view[k].log], messages[k])
      /\ \A l \in DOMAIN heap : (\A k \in 1 .. n : view[k].log # l) => heap'[l] = heap[l]
  <2>1. /\ Appended(view, messages) = [l \in DOMAIN heap |-> Appended(view, messages)[l]]
        /\ \A k \in 1 .. n :
             Appended(view, messages)[view[k].log] = Append(heap[view[k].log], messages[k])
        /\ \A l \in DOMAIN heap :
             (\A k \in 1 .. n : view[k].log # l) => Appended(view, messages)[l] = heap[l]
    BY <1>2, <1>3, <1>4, AppendedToAll
  <2>2. QED
    BY <2>1, Zenon
<1>6. PerSample(heap)'
  BY <1>3, <1>5 DEF PerSample
<1>7. \A s \in Samples, k \in 1 .. n : active[k] = s => heap'[s] = Append(heap[s], messages[k])
  BY <1>2, <1>5
<1>8. \A s \in Samples : (\A k \in 1 .. n : active[k] # s) => heap'[s] = heap[s]
  BY <1>2, <1>3, <1>5
<1>9. ASSUME NEW s \in Samples
      PROVE  Listing(heap'[s]) /\ Len(heap'[s]) >= 1 /\ heap'[s][1].of = s
  <2>1. Listing(heap[s]) /\ Len(heap[s]) >= 1 /\ heap[s][1].of = s
    BY DEF LogsInv
  <2>2. CASE \E k \in 1 .. n : active[k] = s
    <3>1. PICK m : heap'[s] = Append(heap[s], m)
      BY <1>7, <2>2
    <3>2. QED
      BY <2>1, <3>1, HeadOf
  <2>3. CASE ~ \E k \in 1 .. n : active[k] = s
    BY <1>8, <2>1, <2>3
  <2>4. QED
    BY <2>2, <2>3
<1>10. QED
  BY <1>1, <1>6, <1>7, <1>8, <1>9

(* The answers enter the logs.                                             *)
LEMMA RespondKeeps ==
  ASSUME RolloutInv, Respond
  PROVE  RolloutInv'
<1>1. /\ phase = "generate" /\ Len(outs) = Len(view) /\ phase' = "feedback" /\ mode' = mode
      /\ heap' = Appended(view, outs)
      /\ UNCHANGED <<active, view, outs, replies>>
      /\ UNCHANGED <<task, ref, stops, info, asked, served, turns, terminated, truncated>>
  BY DEF Respond, loop
<1>2. Samples' = Samples
  BY <1>1 DEF Samples
<1>3. /\ PerSample(heap)'
      /\ \A s \in Samples : Listing(heap'[s]) /\ Len(heap'[s]) >= 1 /\ heap'[s][1].of = s
      /\ \A s \in Samples, k \in 1 .. Len(active) : active[k] = s => heap'[s] = Append(heap[s], outs[k])
  BY <1>1, <1>2, HeapAppended DEF RolloutInv
<1>4. LogsInv'
  BY <1>1, <1>2, <1>3 DEF RolloutInv, LogsInv, PerSample
<1>5. SamplesInStep'
  BY <1>1, HistoryKept DEF RolloutInv
<1>6. Len(active) \in Nat /\ Len(outs) = Len(active)
  BY <1>1, RowsOwn DEF RolloutInv
<1>7. ASSUME NEW s \in Samples, NEW k \in 1 .. Len(active), active[k] = s
      PROVE  IsTold(s)'
  <2>1. k <= Len(outs)
    BY <1>6
  <2>2. IsAsked(s) /\ outs[k].role = "assistant"
    BY <1>1, <1>7, <2>1 DEF RolloutInv, GenerateInv
  <2>3. Listing(heap[s])
    BY DEF RolloutInv, LogsInv
  <2>4. heap'[s] = Append(heap[s], outs[k])
    BY <1>3, <1>7
  <2>5. QED
    BY <1>1, <2>2, <2>3, <2>4, IsToldNext
<1>8. FeedbackInv'
  <2>1. replies' = <<>> /\ Listing(replies') /\ Len(replies') = 0
    BY <1>1, EmptyListing DEF RolloutInv, GenerateInv
  <2>2. Stepped' = {}
    BY <2>1 DEF Stepped
  <2>3. Cardinality({}) = 0
    BY FS_EmptySet
  <2>4. QED
    BY <1>1, <1>2, <1>7, <2>1, <2>2, <2>3 DEF FeedbackInv
<1>9. PhaseInv' /\ ActiveInv' /\ SelectInv' /\ GenerateInv' /\ AsyncInv' /\ ViewInv'
  BY <1>1, <1>2 DEF RolloutInv, PhaseInv, ActiveInv, InLoop, SelectInv, GenerateInv, AsyncInv, ViewInv
<1>10. QED
  BY <1>4, <1>5, <1>8, <1>9 DEF RolloutInv

(* The environment of a row that was not asked yet answers.                *)
LEMMA RowLeft ==
  ASSUME RolloutInv, phase = "feedback", Len(replies) < Len(view)
  PROVE  LET k == NextGrouped(view, DOMAIN view \ {replies[i].index : i \in DOMAIN replies})
         IN k \in 1 .. Len(active) /\ k \notin Stepped
<1>1. Len(active) \in Nat /\ Len(view) = Len(active) /\ DOMAIN view = 1 .. Len(active)
  BY RowsOwn DEF RolloutInv
<1>2. /\ Listing(replies) /\ Stepped \subseteq 1 .. Len(active)
      /\ Cardinality(Stepped) = Len(replies)
  BY DEF RolloutInv, FeedbackInv
<1>3. Stepped = {replies[i].index : i \in DOMAIN replies}
  BY <1>2, ListingDomain DEF Stepped
<1> DEFINE left == (1 .. Len(active)) \ Stepped
<1>4. left # {}
  <2> SUFFICES ASSUME left = {} PROVE FALSE
    OBVIOUS
  <2>1. Stepped = 1 .. Len(active)
    BY <1>2
  <2>2. Cardinality(1 .. Len(active)) = Len(active)
    <3>1. PICK m \in Nat : m = Len(active)
      BY <1>1
    <3>2. Cardinality(1 .. m) = m
      <4>1. Cardinality(1 .. m) = IF 1 > m THEN 0 ELSE m - 1 + 1
        BY FS_Interval
      <4>2. QED
        BY <4>1
    <3>3. QED
      BY <3>1, <3>2
  <2>3. Len(replies) \in Nat
    BY <1>2, ListingDomain
  <2>4. QED
    BY <1>1, <1>2, <2>1, <2>2, <2>3
<1>5. NextGrouped(view, left) \in left
  <2> HIDE DEF left
  <2>1. left \subseteq 1 .. Len(active)
    BY DEF left
  <2>2. QED
    BY <1>1, <1>4, <2>1, NextLeft
<1>6. QED
  BY <1>1, <1>3, <1>5

(* One row is told to its environment.                                     *)
LEMMA StepKeeps ==
  ASSUME RolloutInv, Step
  PROVE  RolloutInv'
<1>1. /\ phase = "feedback" /\ Len(replies) < Len(view) /\ phase' = phase /\ mode' = mode
      /\ UNCHANGED <<active, view, outs>>
      /\ UNCHANGED <<task, ref, heap, stops, info, asked, turns, terminated, truncated>>
  BY DEF Step, sample
<1>2. PICK k : k = NextGrouped(view, DOMAIN view \ {replies[i].index : i \in DOMAIN replies})
  OBVIOUS
<1>3. k \in 1 .. Len(active) /\ k \notin Stepped
  BY <1>1, <1>2, RowLeft
<1>4. PICK r \in Replies :
        LET feedback == Feedback(heap[view[k].log], view[k].info, r)
        IN /\ replies' = Append(replies, [index |-> k, said |-> feedback])
           /\ Record(heap[view[k].log], view[k].info, feedback)
  BY <1>2 DEF Step
<1>5. PICK fb : fb = Feedback(heap[view[k].log], view[k].info, r)
  OBVIOUS
<1>6. /\ Len(active) \in Nat /\ Len(view) = Len(active) /\ Listing(active)
      /\ \A j \in 1 .. Len(active) :
              /\ active[j] \in Samples /\ view[j].log = active[j] /\ view[j].info = info[active[j]]
              /\ Head(heap[view[j].log]).of = active[j]
      /\ \A i, j \in 1 .. Len(active) : active[i] = active[j] => i = j
  BY <1>1, RowsOwn DEF RolloutInv
<1>7. PICK a \in Samples : a = active[k]
  BY <1>3, <1>6
<1>8. PICK e : e = [turn |-> Turn(heap[a]), given |-> info[a], said |-> fb]
  OBVIOUS
<1>9. replies' = Append(replies, [index |-> k, said |-> fb]) /\ served' = [served EXCEPT ![a] = Append(@, e)]
  BY <1>3, <1>4, <1>5, <1>6, <1>7, <1>8 DEF Record
<1>10. Samples' = Samples
  BY <1>1 DEF Samples
<1>11. /\ DOMAIN served = Samples /\ served = [s \in Samples |-> served[s]]
       /\ \A s \in Samples : Listing(heap[s]) /\ Listing(asked[s]) /\ Listing(served[s])
  BY HeapOwn DEF RolloutInv, LogsInv, PerSample
<1>12. /\ served'[a] = Append(served[a], e) /\ \A s \in Samples \ {a} : served'[s] = served[s]
       /\ PerSample(served)'
  BY <1>9, <1>10, <1>11 DEF PerSample
<1>13. Listing(served'[a]) /\ Len(served'[a]) = Len(served[a]) + 1 /\ served'[a][Len(served[a]) + 1] = e
  BY <1>11, <1>12, ListingAppend
<1>14. LogsInv'
  <2>1. \A s \in Samples : Listing(served'[s])
    BY <1>11, <1>12, <1>13
  <2>2. QED
    BY <1>1, <1>10, <1>12, <2>1 DEF RolloutInv, LogsInv, PerSample
<1>15. IsTold(a)
  BY <1>1, <1>3, <1>7 DEF RolloutInv, FeedbackInv
<1>16. IsHeard(a)'
  BY <1>1, <1>11, <1>12, <1>15, IsHeardNext
<1>17. \A s \in Samples \ {a} : Untouched(s)
  BY <1>1, <1>12 DEF Untouched
<1>18. SamplesInStep'
  <2>1. \A s \in Samples : History(s, asked[s], served[s])
    BY HistoryOf DEF RolloutInv
  <2>2. /\ Len(asked[a]) = Len(served[a]) + 1 /\ Turn(heap[a]) = Len(served[a]) + 1
        /\ info[a] = GivenBefore(served[a], Len(served[a]) + 1, a)
    BY <1>15 DEF IsTold, InfoFits
  <2>3. e.turn = Len(served[a]) + 1 /\ e.given = GivenBefore(served[a], Len(served[a]) + 1, a)
    BY <1>8, <2>2
  <2>4. History(a, asked[a], Append(served[a], e))
    BY <1>11, <2>1, <2>2, <2>3, HistoryServed
  <2>5. \A s \in Samples : History(s, asked'[s], served'[s])
    BY <1>1, <1>12, <2>1, <2>4
  <2>6. QED
    BY <1>10, <2>5, HistoryOf
<1>19. /\ Listing(replies) /\ Stepped \subseteq 1 .. Len(active)
       /\ Cardinality(Stepped) = Len(replies)
       /\ \A i, j \in 1 .. Len(replies) : replies[i].index = replies[j].index => i = j
       /\ \A s \in Samples, j \in 1 .. Len(active) : active[j] = s =>
            IF j \in Stepped THEN IsHeard(s) ELSE IsTold(s)
       /\ \A s \in Samples, i \in 1 .. Len(replies) : active[replies[i].index] = s =>
            replies[i].said = served[s][Len(served[s])].said
  BY <1>1 DEF RolloutInv, FeedbackInv
<1>20. PICK n \in Nat : n = Len(replies)
  BY <1>19, ListingDomain
<1>21. /\ Listing(replies') /\ Len(replies') = n + 1
       /\ \A i \in 1 .. n : replies'[i] = replies[i]
       /\ replies'[n + 1].index = k /\ replies'[n + 1].said = fb
  BY <1>9, <1>19, <1>20, ListingAppend
<1>22. 1 .. n + 1 = (1 .. n) \cup {n + 1}
  OBVIOUS
<1>23. Stepped' = Stepped \cup {k}
  BY <1>20, <1>21, <1>22 DEF Stepped
<1>24. Cardinality(Stepped \cup {k}) = n + 1
  <2>1. IsFiniteSet(Stepped)
    <3>1. PICK m \in Nat : m = Len(active)
      BY <1>6
    <3>2. IsFiniteSet(1 .. m)
      BY FS_Interval
    <3>3. QED
      BY <1>19, <3>1, <3>2, FS_Subset
  <2>2. QED
    BY <1>3, <1>19, <1>20, <2>1, FS_AddElement
<1>25. \A i \in 1 .. n : replies[i].index \in Stepped
  BY <1>20 DEF Stepped
<1>26. \A i, j \in 1 .. n + 1 : replies'[i].index = replies'[j].index => i = j
  <2> SUFFICES ASSUME NEW i \in 1 .. n + 1, NEW j \in 1 .. n + 1, replies'[i].index = replies'[j].index
               PROVE  i = j
    OBVIOUS
  <2>1. CASE i \in 1 .. n /\ j \in 1 .. n
    BY <1>19, <1>20, <1>21, <2>1
  <2>2. CASE i \notin 1 .. n \/ j \notin 1 .. n
    <3>1. (i \in 1 .. n \/ i = n + 1) /\ (j \in 1 .. n \/ j = n + 1)
      BY <1>22
    <3>2. QED
      BY <1>3, <1>21, <1>25, <2>2, <3>1
  <2>3. QED
    BY <2>1, <2>2
<1>27. ASSUME NEW s \in Samples, NEW j \in 1 .. Len(active), active[j] = s
       PROVE  IF j \in Stepped' THEN IsHeard(s)' ELSE IsTold(s)'
  <2>1. CASE j = k
    BY <1>7, <1>16, <1>23, <1>27, <2>1
  <2>2. CASE j # k
    <3>1. s # a
      BY <1>3, <1>6, <1>7, <1>27, <2>2
    <3>2. (IsHeard(s) => IsHeard(s)') /\ (IsTold(s) => IsTold(s)')
      BY <1>17, <3>1, SampleKept
    <3>3. QED
      BY <1>19, <1>23, <1>27, <2>2, <3>2
  <2>3. QED
    BY <2>1, <2>2
<1>28. ASSUME NEW s \in Samples, NEW i \in 1 .. n + 1, active[replies'[i].index] = s
       PROVE  replies'[i].said = served'[s][Len(served'[s])].said
  <2>1. CASE i = n + 1
    <3>1. s = a
      BY <1>7, <1>21, <1>28, <2>1
    <3>2. QED
      BY <1>8, <1>13, <1>21, <2>1, <3>1
  <2>2. CASE i # n + 1
    <3>1. i \in 1 .. n
      BY <1>22, <2>2
    <3>2. replies'[i] = replies[i] /\ replies[i].index \in Stepped
      BY <1>21, <1>25, <3>1
    <3>3. s # a
      BY <1>3, <1>6, <1>7, <1>19, <1>28, <3>2
    <3>4. served'[s] = served[s]
      BY <1>12, <3>3
    <3>5. QED
      BY <1>19, <1>20, <1>28, <3>1, <3>2, <3>4
  <2>3. QED
    BY <2>1, <2>2
<1>29. FeedbackInv'
  <2>1. Stepped' \subseteq 1 .. Len(active)
    BY <1>3, <1>19, <1>23
  <2>2. Cardinality(Stepped') = n + 1
    BY <1>23, <1>24
  <2>3. QED
    BY <1>1, <1>10, <1>21, <1>26, <1>27, <1>28, <2>1, <2>2 DEF FeedbackInv
<1>30. PhaseInv' /\ ActiveInv' /\ SelectInv' /\ GenerateInv' /\ AsyncInv' /\ ViewInv'
  BY <1>1, <1>10 DEF RolloutInv, PhaseInv, ActiveInv, InLoop, SelectInv, GenerateInv, AsyncInv, ViewInv
<1>31. QED
  BY <1>14, <1>18, <1>29, <1>30 DEF RolloutInv

(* What all environments said is in the order of the rows.                 *)
LEMMA AllHeard ==
  ASSUME RolloutInv, phase = "feedback", Len(replies) = Len(view)
  PROVE  \A s \in Samples, k \in 1 .. Len(active) : active[k] = s =>
           IsHeard(s) /\ InOrder[k] = served[s][Len(served[s])].said
<1>1. PICK n \in Nat : n = Len(active)
  BY RowsOwn DEF RolloutInv
<1>2. /\ Len(replies) = n /\ Listing(replies) /\ Stepped \subseteq 1 .. n /\ Cardinality(Stepped) = n
      /\ \A i, j \in 1 .. n : replies[i].index = replies[j].index => i = j
      /\ \A s \in Samples, k \in 1 .. n : active[k] = s =>
           IF k \in Stepped THEN IsHeard(s) ELSE IsTold(s)
      /\ \A s \in Samples, i \in 1 .. n : active[replies[i].index] = s =>
           replies[i].said = served[s][Len(served[s])].said
  <2>1. Len(replies) = n
    BY <1>1, RowsOwn DEF RolloutInv
  <2>2. QED
    BY <1>1, <2>1 DEF RolloutInv, FeedbackInv
<1>3. DOMAIN replies = 1 .. n
  BY <1>2, ListingDomain
<1>4. Stepped = 1 .. n
  <2>1. IsFiniteSet(1 .. n) /\ Cardinality(1 .. n) = n
    <3>1. Cardinality(1 .. n) = (IF 1 > n THEN 0 ELSE n - 1 + 1) /\ IsFiniteSet(1 .. n)
      BY FS_Interval
    <3>2. QED
      BY <3>1
  <2>2. QED
    BY <1>2, <2>1, FS_Subset
<1>5. ASSUME NEW s \in Samples, NEW k \in 1 .. n, active[k] = s
      PROVE  IsHeard(s) /\ InOrder[k] = served[s][Len(served[s])].said
  <2>1. PICK i \in 1 .. n : replies[i].index = k
    BY <1>2, <1>4 DEF Stepped
  <2>2. (CHOOSE j \in 1 .. n : replies[j].index = k) = i
    BY <1>2, <2>1
  <2>3. InOrder[k] = replies[i].said
    BY <1>3, <2>2 DEF InOrder
  <2>4. IsHeard(s)
    BY <1>2, <1>4, <1>5
  <2>5. QED
    BY <1>2, <1>5, <2>1, <2>3, <2>4
<1>6. QED
  BY <1>1, <1>5

(* The survivors, in their order.                                          *)
Taken(rows, going) ==
  [i \in 1 .. Cardinality(going) |-> rows[CHOOSE k \in going : Rank(k, going) = i]]

LEMMA SurvivorsTaken ==
  ASSUME NEW n \in Nat, NEW rows, NEW going, going \subseteq 1 .. n,
         \A j, k \in 1 .. n : rows[j] = rows[k] => j = k
  PROVE  /\ Listing(Taken(rows, going))
         /\ \A i \in 1 .. Len(Taken(rows, going)) : \E k \in going : Taken(rows, going)[i] = rows[k]
         /\ \A i, j \in 1 .. Len(Taken(rows, going)) :
              Taken(rows, going)[i] = Taken(rows, going)[j] => i = j
<1> DEFINE at(i) == CHOOSE k \in going : Rank(k, going) = i
<1>1. PICK m \in Nat : m = Cardinality(going)
  <2>1. IsFiniteSet(1 .. n)
    BY FS_Interval
  <2>2. QED
    BY <2>1, FS_Subset, FS_CardinalityType
<1>2. \A i \in 1 .. m : at(i) \in going /\ Rank(at(i), going) = i
  <2> SUFFICES ASSUME NEW i \in 1 .. m PROVE at(i) \in going /\ Rank(at(i), going) = i
    OBVIOUS
  <2>1. \E k \in going : Rank(k, going) = i
    BY <1>1, RankTaken
  <2>2. QED
    BY <2>1, Zenon
<1>3. PICK taken : taken = Taken(rows, going)
  OBVIOUS
<1>4. /\ \A i \in 1 .. m : taken[i] = rows[at(i)]
      /\ taken = [i \in 1 .. m |-> taken[i]]
  BY <1>1, <1>3 DEF Taken
<1> HIDE DEF at
<1>5. Len(taken) = m /\ Listing(taken)
  BY <1>4, ListingMade
<1>6. \A i, j \in 1 .. m : taken[i] = taken[j] => i = j
  <2> SUFFICES ASSUME NEW i \in 1 .. m, NEW j \in 1 .. m, taken[i] = taken[j] PROVE i = j
    OBVIOUS
  <2>1. rows[at(i)] = rows[at(j)]
    BY <1>4
  <2>2. at(i) \in 1 .. n /\ at(j) \in 1 .. n
    BY <1>2
  <2>3. at(i) = at(j)
    BY <2>1, <2>2
  <2>4. QED
    BY <1>2, <2>3, Zenon
<1>7. \A i \in 1 .. m : \E k \in going : taken[i] = rows[k]
  BY <1>2, <1>4
<1>8. QED
  BY <1>3, <1>5, <1>6, <1>7

(* The turn ends: what does not go on leaves, the rest is at rest.         *)
LEMMA CollectKeeps ==
  ASSUME RolloutInv, Collect
  PROVE  RolloutInv'
<1> DEFINE said == InOrder
           place(s) == CHOOSE k \in DOMAIN active : active[k] = s
           over(k) == Overflows(heap[ref[active[k]]], said[k])
           going == {k \in DOMAIN active : ~said[k].end /\ ~over(k)}
           messages == [k \in DOMAIN view |->
                          Observation(said[k], Cut(heap[ref[active[k]]], said[k]))]
           goes(s) == s \in Range(active) /\ place(s) \in going
           next(s) == Continuing(said, place(s), going)
<1>1. going \subseteq DOMAIN active
  OBVIOUS
<1>2. /\ phase = "feedback" /\ Len(replies) = Len(view) /\ phase' = "select" /\ mode' = mode
      /\ UNCHANGED <<task, ref, asked, served>>
  BY DEF Collect
<1>3. /\ heap' = Appended(view, messages)
      /\ turns' = [s \in Samples |-> IF s \in Range(active) THEN turns[s] + 1 ELSE turns[s]]
      /\ PerSample(truncated') /\ PerSample(terminated')
      /\ stops' = [s \in Samples |-> IF goes(s) THEN next(s).stops ELSE stops[s]]
      /\ info' = [s \in Samples |->
             IF goes(s) /\ next(s).info # <<>> THEN next(s).info[1] ELSE info[s]]
      /\ active' = [i \in 1 .. Cardinality(going) |->
             active[CHOOSE k \in going : Rank(k, going) = i]]
  <2>1. /\ heap' = Appended(view, messages)
        /\ turns' = [s \in Samples |-> IF s \in Range(active) THEN turns[s] + 1 ELSE turns[s]]
        /\ truncated' = [s \in Samples |->
             truncated[s] \/ (s \in Range(active) /\ over(place(s)))]
        /\ terminated' = [s \in Samples |->
             terminated[s] \/ (s \in Range(active) /\ ~goes(s))]
        /\ stops' = [s \in Samples |-> IF goes(s) THEN next(s).stops ELSE stops[s]]
        /\ info' = [s \in Samples |->
             IF goes(s) /\ next(s).info # <<>> THEN next(s).info[1] ELSE info[s]]
        /\ active' = [i \in 1 .. Cardinality(going) |->
             active[CHOOSE k \in going : Rank(k, going) = i]]
    BY Zenon DEF Collect
  <2>2. PerSample(truncated') /\ PerSample(terminated')
    BY <2>1 DEF PerSample
  <2>3. QED
    BY <2>1, <2>2
<1>4. PICK n \in Nat : n = Len(active)
  BY <1>2, RowsOwn DEF RolloutInv
<1>5. /\ DOMAIN active = 1 .. n /\ DOMAIN view = 1 .. n
      /\ \A k \in 1 .. n : active[k] \in Samples
      /\ \A j, k \in 1 .. n : active[j] = active[k] => j = k
  BY <1>2, <1>4, RowsOwn DEF RolloutInv
<1>6. \A s \in Samples, k \in 1 .. n : active[k] = s =>
        IsHeard(s) /\ said[k] = served[s][Len(served[s])].said
  BY <1>2, <1>4, AllHeard
<1>7. \A k \in 1 .. n : messages[k].role = "environment"
  BY <1>5 DEF Observation
<1> HIDE DEF messages, over, said
<1>8. ASSUME NEW s \in Samples, NEW k \in 1 .. n, active[k] = s
      PROVE  place(s) = k /\ s \in Range(active)
  BY <1>5, <1>8 DEF Range
<1> HIDE DEF place, going
<1>9. Samples' = Samples
  BY <1>2 DEF Samples
<1>10. /\ PerSample(heap)'
       /\ \A s \in Samples : Listing(heap'[s]) /\ Len(heap'[s]) >= 1 /\ heap'[s][1].of = s
       /\ \A s \in Samples, k \in 1 .. n : active[k] = s => heap'[s] = Append(heap[s], messages[k])
  BY <1>2, <1>3, <1>4, <1>9, HeapAppended DEF RolloutInv
<1>11. LogsInv'
  <2>1. PerSample(stops)' /\ PerSample(info)' /\ PerSample(turns)'
    BY <1>3, <1>9, Zenon DEF PerSample
  <2>2. PerSample(truncated)' /\ PerSample(terminated)'
    BY <1>3, <1>9 DEF PerSample
  <2>3. \A s \in Samples : turns'[s] \in Nat
    BY <1>3 DEF RolloutInv, LogsInv
  <2>4. QED
    BY <1>2, <1>9, <1>10, <2>1, <2>2, <2>3 DEF RolloutInv, LogsInv, PerSample
<1>12. SamplesInStep'
  BY <1>2, HistoryOf, <1>9 DEF RolloutInv
<1>13. ASSUME NEW s \in Samples, NEW k \in going, active[k] = s
       PROVE  AtRest(s)'
  <2>1. k \in 1 .. n /\ goes(s) /\ place(s) = k
    BY <1>1, <1>5, <1>8, <1>13
  <2>2. next(s) = said[k]
    BY <2>1 DEF Continuing
  <2>3. /\ stops'[s] = said[k].stops
        /\ info'[s] = IF said[k].info # <<>> THEN said[k].info[1] ELSE info[s]
    BY <1>3, <2>1, <2>2
  <2>4. IsHeard(s) /\ said[k] = served[s][Len(served[s])].said
    BY <1>6, <1>13, <2>1
  <2>5. heap'[s] = Append(heap[s], messages[k]) /\ messages[k].role # "assistant"
    BY <1>7, <1>10, <1>13, <2>1
  <2>6. Listing(heap[s]) /\ Listing(served[s])
    BY DEF RolloutInv, LogsInv
  <2>7. asked'[s] = asked[s] /\ served'[s] = served[s]
    BY <1>2
  <2>8. QED
    BY <2>3, <2>4, <2>5, <2>6, <2>7, AtRestNext
<1>14. /\ Listing(active')
       /\ \A i \in 1 .. Len(active') : \E k \in going : active'[i] = active[k]
       /\ \A i, j \in 1 .. Len(active') : active'[i] = active'[j] => i = j
  <2>1. active' = Taken(active, going)
    BY <1>3, Zenon DEF Taken
  <2>2. going \subseteq 1 .. n
    BY <1>1, <1>5
  <2>3. \A j, k \in 1 .. n : active[j] = active[k] => j = k
    BY <1>5
  <2>4. PICK rows, g : rows = active /\ g = going
    OBVIOUS
  <2>5. PICK taken : taken = Taken(rows, g)
    OBVIOUS
  <2>6. /\ Listing(taken)
        /\ \A i \in 1 .. Len(taken) : \E k \in g : taken[i] = rows[k]
        /\ \A i, j \in 1 .. Len(taken) : taken[i] = taken[j] => i = j
    <3>1. g \subseteq 1 .. n
      BY <2>2, <2>4
    <3>2. \A j, k \in 1 .. n : rows[j] = rows[k] => j = k
      BY <2>3, <2>4
    <3>3. n \in Nat
      OBVIOUS
    <3>4. /\ Listing(Taken(rows, g))
          /\ \A i \in 1 .. Len(Taken(rows, g)) : \E k \in g : Taken(rows, g)[i] = rows[k]
          /\ \A i, j \in 1 .. Len(Taken(rows, g)) : Taken(rows, g)[i] = Taken(rows, g)[j] => i = j
      BY <3>1, <3>2, <3>3, SurvivorsTaken, Zenon
    <3>5. QED
      BY <2>5, <3>4
  <2>7. active' = taken
    BY <2>1, <2>4, <2>5
  <2>8. QED
    BY <2>4, <2>6, <2>7
<1>15. SelectInv'
  BY <1>9, <1>13, <1>14 DEF SelectInv
<1>16. ActiveInv'
  <2>1. mode = "batch"
    BY <1>2 DEF RolloutInv, ActiveInv, InLoop
  <2>2. \A i \in 1 .. Len(active') : active'[i] \in Samples
    BY <1>1, <1>5, <1>14
  <2>3. QED
    BY <1>2, <1>9, <1>14, <2>1, <2>2 DEF ActiveInv
<1>17. PhaseInv' /\ ViewInv' /\ GenerateInv' /\ FeedbackInv' /\ AsyncInv'
  BY <1>2 DEF PhaseInv, ViewInv, GenerateInv, FeedbackInv, AsyncInv
<1>18. QED
  BY <1>11, <1>12, <1>15, <1>16, <1>17 DEF RolloutInv

-----------------------------------------------------------------------------
(***************************************************************************)
(* The coroutine of a sample: asked and told in one step, heard in the     *)
(* next.                                                                   *)
(***************************************************************************)
LEMMA IsToldAtOnce ==
  ASSUME NEW s, AtRest(s), Listing(asked[s]), Listing(heap[s]), NEW e, NEW m, m.role = "assistant",
         asked'[s] = Append(asked[s], e), heap'[s] = Append(heap[s], m),
         info'[s] = info[s], served'[s] = served[s]
  PROVE  IsTold(s)' /\ Len(asked'[s]) = Len(asked[s]) + 1
<1>1. Len(asked'[s]) = Len(asked[s]) + 1
  BY ListingAppend
<1>2. Turn(heap'[s]) = Turn(heap[s]) + 1
  BY TurnAppended
<1>3. QED
  BY <1>1, <1>2 DEF AtRest, IsTold, InfoFits

LEMMA AtRestAtOnce ==
  ASSUME NEW s, IsTold(s), Listing(heap[s]), Listing(served[s]), NEW e, NEW m, m.role # "assistant",
         served'[s] = Append(served[s], e), heap'[s] = Append(heap[s], m), asked'[s] = asked[s],
         e.said.stops \subseteq stops'[s],
         info'[s] = IF e.said.info # <<>> THEN e.said.info[1] ELSE info[s]
  PROVE  AtRest(s)'
<1>1. PICK v : v = served[s]
  OBVIOUS
<1>2. PICK n \in Nat : n = Len(v)
  BY <1>1, ListingDomain
<1>3. PICK w : w = Append(v, e)
  OBVIOUS
<1>4. Len(w) = n + 1 /\ w[n + 1] = e /\ \A u \in 1 .. n : w[u] = v[u]
  BY <1>1, <1>2, <1>3, ListingAppend
<1>5. Len(asked[s]) = n + 1 /\ Turn(heap[s]) = n + 1 /\ info[s] = GivenBefore(v, n + 1, s)
  BY <1>1, <1>2 DEF IsTold, InfoFits
<1>6. GivenBefore(w, n + 1, s) = GivenBefore(v, n + 1, s)
  <2>1. n + 1 \in Nat /\ \A u \in 1 .. (n + 1) - 1 : w[u] = v[u]
    BY <1>4
  <2>2. QED
    BY <2>1, GivenSame
<1>7. GivenBefore(w, (n + 1) + 1, s) =
        IF w[n + 1].said.info # <<>> THEN w[n + 1].said.info[1] ELSE GivenBefore(w, n + 1, s)
  <2>1. n + 1 \in Nat \ {0}
    OBVIOUS
  <2>2. QED
    BY <2>1, GivenNext
<1>8. info'[s] = GivenBefore(w, (n + 1) + 1, s)
  BY <1>4, <1>5, <1>6, <1>7
<1>9. Turn(heap'[s]) = Turn(heap[s])
  BY TurnAppended
<1>10. served'[s] = w
  BY <1>1, <1>3
<1>11. (IF (n + 1) + 1 = 1 THEN {<<s, 0>>} ELSE w[(n + 1) + 1 - 1].said.stops) \subseteq stops'[s]
  <2>1. (n + 1) + 1 # 1 /\ (n + 1) + 1 - 1 = n + 1
    OBVIOUS
  <2>2. QED
    BY <1>4, <2>1
<1>12. QED
  BY <1>4, <1>5, <1>8, <1>9, <1>10, <1>11 DEF AtRest, InfoFits, WantedBefore

(* A coroutine counts the turn it begins.                                  *)
LEMMA BeginKeeps ==
  ASSUME RolloutInv, NEW s \in Samples, Begin(s)
  PROVE  RolloutInv'
<1>1. /\ mode = "async" /\ phase = "concurrent" /\ outs = <<>> /\ ~Ended(s)
      /\ s \notin Range(arrived) /\ ~Pending(s)
      /\ turns' = [turns EXCEPT ![s] = @ + 1]
      /\ UNCHANGED <<mode, phase, outs>>
      /\ UNCHANGED <<task, ref, heap, stops, info, asked, served, terminated, truncated>>
  BY DEF Begin, Idle, loop
<1>2. Samples' = Samples
  BY <1>1 DEF Samples
<1>3. turns = [t \in Samples |-> turns[t]] /\ \A t \in Samples : turns[t] \in Nat /\ Len(asked[t]) \in Nat
  BY ListingDomain DEF RolloutInv, LogsInv, PerSample
<1>4. /\ turns'[s] = turns[s] + 1 /\ \A t \in Samples \ {s} : turns'[t] = turns[t]
      /\ turns' = [t \in Samples |-> turns'[t]] /\ \A t \in Samples : turns'[t] \in Nat
  BY <1>1, <1>3
<1>5. LogsInv'
  BY <1>1, <1>4, LogsKept DEF RolloutInv
<1>6. SamplesInStep'
  BY <1>1, HistoryKept DEF RolloutInv
<1>7. /\ \A t : AtRest(t) => AtRest(t)'
      /\ \A t : Ended(t)' <=> Ended(t)
  BY <1>1, SampleKept DEF Untouched, Ended
<1>8. turns[s] <= Len(asked[s])
  BY <1>1, <1>3 DEF Pending
<1>9. ASSUME NEW t \in Samples
      PROVE  /\ ~Ended(t)' => AtRest(t)'
             /\ Ended(t)' => turns'[t] <= Len(asked'[t])
             /\ turns'[t] <= Len(asked'[t]) + 1
  <2>1. outs # <<t>>
    BY <1>1
  <2>2. /\ ~Ended(t) => AtRest(t)
        /\ Ended(t) => turns[t] <= Len(asked[t])
        /\ turns[t] <= Len(asked[t]) + 1
    BY <1>1, <2>1 DEF RolloutInv, AsyncInv
  <2>3. asked'[t] = asked[t]
    BY <1>1
  <2>4. CASE t = s
    BY <1>1, <1>3, <1>4, <1>7, <1>8, <2>2, <2>3, <2>4
  <2>5. CASE t # s
    BY <1>4, <1>7, <2>2, <2>3, <2>5
  <2>6. QED
    BY <2>4, <2>5
<1>10. AsyncInv'
  <2>1. \A t \in Samples : outs' # <<t>>
    BY <1>1
  <2>2. QED
    BY <1>1, <1>2, <1>9, <2>1 DEF AsyncInv
<1>11. PhaseInv' /\ ActiveInv' /\ SelectInv' /\ GenerateInv' /\ FeedbackInv' /\ ViewInv'
  BY <1>1 DEF PhaseInv, ActiveInv, InLoop, SelectInv, GenerateInv, FeedbackInv, ViewInv
<1>12. QED
  BY <1>5, <1>6, <1>10, <1>11 DEF RolloutInv

(* The answer enters the coroutine's log.                                  *)
LEMMA ResumeKeeps ==
  ASSUME RolloutInv, NEW s \in Samples, Resume(s)
  PROVE  RolloutInv'
<1>1. /\ mode = "async" /\ phase = "concurrent" /\ outs = <<>> /\ Pending(s)
      /\ \E len \in Lengths(heap[ref[s]]) :
             heap' = [heap EXCEPT ![ref[s]] = Append(@, AnswerTo(heap[ref[s]], len))]
      /\ asked' = [asked EXCEPT ![Head(heap[ref[s]]).of] = Append(@, Merged({stops[s]}))]
      /\ outs' = <<s>>
      /\ UNCHANGED <<mode, phase>>
      /\ UNCHANGED <<task, ref, stops, info, served, turns, terminated, truncated>>
  BY DEF Resume, Idle
<1>2. Samples' = Samples
  BY <1>1 DEF Samples
<1>3. ref[s] = s /\ Head(heap[s]).of = s
  BY HeapOwn DEF RolloutInv
<1>4. PICK m : heap' = [heap EXCEPT ![s] = Append(@, m)] /\ m.role = "assistant"
  <2>1. PICK len : heap' = [heap EXCEPT ![s] = Append(@, AnswerTo(heap[s], len))]
    BY <1>1, <1>3
  <2>2. AnswerTo(heap[s], len).role = "assistant"
    BY DEF AnswerTo
  <2>3. QED
    BY <2>1, <2>2
<1>5. PICK e : e = Merged({stops[s]})
  OBVIOUS
<1>6. asked' = [asked EXCEPT ![s] = Append(@, e)] /\ stops[s] \subseteq e
  BY <1>1, <1>3, <1>5 DEF Merged
<1>7. /\ heap = [t \in Samples |-> heap[t]] /\ asked = [t \in Samples |-> asked[t]]
      /\ \A t \in Samples : /\ Listing(heap[t]) /\ Listing(asked[t]) /\ Listing(served[t])
                            /\ Len(heap[t]) >= 1 /\ heap[t][1].of = t
  BY DEF RolloutInv, LogsInv, PerSample
<1>8. /\ heap'[s] = Append(heap[s], m) /\ asked'[s] = Append(asked[s], e)
      /\ \A t \in Samples \ {s} : heap'[t] = heap[t] /\ asked'[t] = asked[t]
      /\ PerSample(heap)' /\ PerSample(asked)'
  BY <1>2, <1>4, <1>6, <1>7 DEF PerSample
<1>9. Listing(heap'[s]) /\ Len(heap'[s]) >= 1 /\ heap'[s][1].of = s /\ Listing(asked'[s])
  BY <1>7, <1>8, HeadOf, ListingAppend
<1>10. LogsInv'
  <2>1. \A t \in Samples : /\ Listing(heap'[t]) /\ Len(heap'[t]) >= 1 /\ heap'[t][1].of = t
                           /\ Listing(asked'[t])
    BY <1>7, <1>8, <1>9
  <2>2. QED
    BY <1>1, <1>2, <1>8, <2>1 DEF RolloutInv, LogsInv, PerSample
<1>11. turns[s] > Len(asked[s]) /\ Len(asked[s]) \in Nat /\ turns[s] \in Nat
  BY <1>1, ListingDomain DEF Pending, RolloutInv, LogsInv
<1>12. \A t \in Samples : /\ ~Ended(t) => AtRest(t)
                          /\ Ended(t) => turns[t] <= Len(asked[t])
                          /\ turns[t] <= Len(asked[t]) + 1
  <2>1. \A t \in Samples : outs # <<t>>
    BY <1>1
  <2>2. QED
    BY <1>1, <2>1 DEF RolloutInv, AsyncInv
<1>13. AtRest(s) /\ turns[s] <= Len(asked[s]) + 1
  BY <1>11, <1>12
<1>14. IsTold(s)' /\ Len(asked'[s]) = Len(asked[s]) + 1
  BY <1>1, <1>4, <1>7, <1>8, <1>13, IsToldAtOnce
<1>15. SamplesInStep'
  <2>1. \A t \in Samples : History(t, asked[t], served[t])
    BY HistoryOf DEF RolloutInv
  <2>2. History(s, Append(asked[s], e), served[s])
    <3>1. Len(asked[s]) = Len(served[s]) /\ Len(served[s]) \in Nat
      BY <1>7, <1>13, ListingDomain DEF AtRest
    <3>2. (IF Len(served[s]) + 1 = 1 THEN {<<s, 0>>} ELSE served[s][Len(served[s])].said.stops) \subseteq stops[s]
      <4>1. (IF Len(served[s]) + 1 = 1 THEN {<<s, 0>>} ELSE served[s][Len(served[s]) + 1 - 1].said.stops) \subseteq stops[s]
        BY <1>13 DEF AtRest, WantedBefore
      <4>2. Len(served[s]) + 1 - 1 = Len(served[s])
        BY <3>1
      <4>3. QED
        BY <4>1, <4>2
    <3>3. QED
      BY <1>6, <1>7, <2>1, <3>1, <3>2, HistoryAsked
  <2>3. \A t \in Samples : History(t, asked'[t], served'[t])
    BY <1>1, <1>8, <2>1, <2>2
  <2>4. QED
    BY <1>2, <2>3, HistoryOf
<1>16. \A t \in Samples \ {s} : AtRest(t) => AtRest(t)'
  BY <1>1, <1>8, SampleKept DEF Untouched
<1>17. \A t : Ended(t)' <=> Ended(t)
  BY <1>1 DEF Ended
<1>18. AsyncInv'
  <2>1. \A t \in Samples : outs' = <<t>> => t = s
    BY <1>1
  <2>2. turns'[s] <= Len(asked'[s])
    BY <1>1, <1>13, <1>14
  <2>3. ASSUME NEW t \in Samples, t # s
        PROVE  /\ ~Ended(t)' => AtRest(t)'
               /\ Ended(t)' => turns'[t] <= Len(asked'[t])
               /\ turns'[t] <= Len(asked'[t]) + 1
    BY <1>1, <1>8, <1>12, <1>16, <1>17, <2>3
  <2>4. QED
    BY <1>1, <1>2, <1>14, <2>1, <2>2, <2>3 DEF AsyncInv
<1>19. PhaseInv' /\ ActiveInv' /\ SelectInv' /\ GenerateInv' /\ FeedbackInv' /\ ViewInv'
  BY <1>1 DEF PhaseInv, ActiveInv, InLoop, SelectInv, GenerateInv, FeedbackInv, ViewInv
<1>20. QED
  BY <1>10, <1>15, <1>18, <1>19 DEF RolloutInv

(* The environment of the coroutine that holds the loop is heard.          *)
LEMMA StepOneKeeps ==
  ASSUME RolloutInv, StepOne
  PROVE  RolloutInv'
<1>1. /\ mode = "async" /\ phase = "concurrent" /\ outs # <<>> /\ outs' = <<>>
      /\ UNCHANGED <<mode, phase>>
      /\ UNCHANGED <<task, ref, turns, asked>>
  BY DEF StepOne
<1>2. PICK s \in Samples : outs = <<s>>
  BY <1>1 DEF RolloutInv, AsyncInv
<1>3. outs[1] = s /\ ref[s] = s /\ Head(heap[s]).of = s
  BY <1>2, HeapOwn DEF RolloutInv
<1>4. PICK r \in Replies :
        LET t == outs[1]
            messages == heap[ref[t]]
            said == Feedback(messages, info[t], r)
            over == Overflows(messages, said)
            goes == ~said.end /\ ~over
        IN /\ Record(messages, info[t], said)
           /\ heap' = [heap EXCEPT ![ref[t]] = Append(@, Observation(said, Cut(messages, said)))]
           /\ terminated' = [terminated EXCEPT ![t] = said.end]
           /\ truncated' = [truncated EXCEPT ![t] = over]
           /\ stops' = IF goes /\ said.stops # {} THEN [stops EXCEPT ![t] = said.stops] ELSE stops
           /\ info' = IF goes /\ said.info # <<>> THEN [info EXCEPT ![t] = said.info[1]] ELSE info
  BY Zenon DEF StepOne
<1>5. PICK said, over, m :
        /\ Record(heap[s], info[s], said)
        /\ heap' = [heap EXCEPT ![s] = Append(@, m)] /\ m.role # "assistant"
        /\ terminated' = [terminated EXCEPT ![s] = said.end]
        /\ truncated' = [truncated EXCEPT ![s] = over]
        /\ stops' = IF (~said.end /\ ~over) /\ said.stops # {}
                    THEN [stops EXCEPT ![s] = said.stops] ELSE stops
        /\ info' = IF (~said.end /\ ~over) /\ said.info # <<>>
                   THEN [info EXCEPT ![s] = said.info[1]] ELSE info
  <2> DEFINE fb == Feedback(heap[s], info[s], r)
             ov == Overflows(heap[s], fb)
             obs == Observation(fb, Cut(heap[s], fb))
  <2>1. /\ Record(heap[s], info[s], fb)
        /\ heap' = [heap EXCEPT ![s] = Append(@, obs)]
        /\ terminated' = [terminated EXCEPT ![s] = fb.end]
        /\ truncated' = [truncated EXCEPT ![s] = ov]
        /\ stops' = IF (~fb.end /\ ~ov) /\ fb.stops # {}
                    THEN [stops EXCEPT ![s] = fb.stops] ELSE stops
        /\ info' = IF (~fb.end /\ ~ov) /\ fb.info # <<>>
                   THEN [info EXCEPT ![s] = fb.info[1]] ELSE info
    BY <1>3, <1>4, Zenon
  <2>2. obs.role # "assistant"
    BY DEF Observation
  <2> HIDE DEF fb, ov, obs
  <2>3. QED
    BY <2>1, <2>2, Zenon
<1>6. Samples' = Samples
  BY <1>1 DEF Samples
<1>7. /\ heap = [t \in Samples |-> heap[t]] /\ served = [t \in Samples |-> served[t]]
      /\ stops = [t \in Samples |-> stops[t]] /\ info = [t \in Samples |-> info[t]]
      /\ terminated = [t \in Samples |-> terminated[t]] /\ truncated = [t \in Samples |-> truncated[t]]
      /\ \A t \in Samples : /\ Listing(heap[t]) /\ Listing(asked[t]) /\ Listing(served[t])
                            /\ Len(heap[t]) >= 1 /\ heap[t][1].of = t
  BY DEF RolloutInv, LogsInv, PerSample
<1>8. PICK e : e = [turn |-> Turn(heap[s]), given |-> info[s], said |-> said]
  OBVIOUS
<1>9. served' = [served EXCEPT ![s] = Append(@, e)]
  BY <1>3, <1>5, <1>8 DEF Record
<1>10. /\ heap'[s] = Append(heap[s], m) /\ served'[s] = Append(served[s], e)
       /\ terminated'[s] = said.end /\ truncated'[s] = over
       /\ (~said.end /\ ~over) =>
            /\ stops'[s] = (IF said.stops # {} THEN said.stops ELSE stops[s])
            /\ info'[s] = (IF said.info # <<>> THEN said.info[1] ELSE info[s])
  BY <1>5, <1>7, <1>9
<1>11. \A t \in Samples \ {s} : Untouched(t) /\ terminated'[t] = terminated[t] /\ truncated'[t] = truncated[t]
  <2> SUFFICES ASSUME NEW t \in Samples \ {s}
               PROVE  Untouched(t) /\ terminated'[t] = terminated[t] /\ truncated'[t] = truncated[t]
    OBVIOUS
  <2>1. /\ heap'[t] = heap[t] /\ served'[t] = served[t] /\ asked'[t] = asked[t]
        /\ terminated'[t] = terminated[t] /\ truncated'[t] = truncated[t]
    BY <1>1, <1>5, <1>7, <1>9
  <2>2. stops'[t] = stops[t]
    BY <1>5, <1>7
  <2>3. info'[t] = info[t]
    BY <1>5, <1>7
  <2>4. QED
    BY <2>1, <2>2, <2>3 DEF Untouched
<1>12. /\ PerSample(heap)' /\ PerSample(served)' /\ PerSample(terminated)' /\ PerSample(truncated)'
       /\ PerSample(stops)' /\ PerSample(info)'
  <2>1. PerSample(heap)' /\ PerSample(served)' /\ PerSample(terminated)' /\ PerSample(truncated)'
    BY <1>5, <1>6, <1>7, <1>9 DEF PerSample
  <2>2. PerSample(stops)'
    BY <1>5, <1>6, <1>7 DEF PerSample
  <2>3. PerSample(info)'
    BY <1>5, <1>6, <1>7 DEF PerSample
  <2>4. QED
    BY <2>1, <2>2, <2>3
<1>13. Listing(heap'[s]) /\ Len(heap'[s]) >= 1 /\ heap'[s][1].of = s /\ Listing(served'[s])
  BY <1>7, <1>10, HeadOf, ListingAppend
<1>14. LogsInv'
  <2>1. \A t \in Samples : /\ Listing(heap'[t]) /\ Len(heap'[t]) >= 1 /\ heap'[t][1].of = t
                           /\ Listing(served'[t])
    BY <1>7, <1>11, <1>13 DEF Untouched
  <2>2. QED
    BY <1>1, <1>6, <1>12, <2>1 DEF RolloutInv, LogsInv, PerSample
<1>15. IsTold(s) /\ turns[s] <= Len(asked[s])
  BY <1>1, <1>2 DEF RolloutInv, AsyncInv
<1>16. SamplesInStep'
  <2>1. \A t \in Samples : History(t, asked[t], served[t])
    BY HistoryOf DEF RolloutInv
  <2>2. /\ Len(asked[s]) = Len(served[s]) + 1 /\ Turn(heap[s]) = Len(served[s]) + 1
        /\ info[s] = GivenBefore(served[s], Len(served[s]) + 1, s)
    BY <1>15 DEF IsTold, InfoFits
  <2>3. e.turn = Len(served[s]) + 1 /\ e.given = GivenBefore(served[s], Len(served[s]) + 1, s)
    BY <1>8, <2>2
  <2>4. History(s, asked[s], Append(served[s], e))
    BY <1>7, <2>1, <2>2, <2>3, HistoryServed
  <2>5. \A t \in Samples : History(t, asked'[t], served'[t])
    BY <1>1, <1>10, <1>11, <2>1, <2>4 DEF Untouched
  <2>6. QED
    BY <1>6, <2>5, HistoryOf
<1>17. ~Ended(s)' => AtRest(s)'
  <2> SUFFICES ASSUME ~Ended(s)' PROVE AtRest(s)'
    OBVIOUS
  <2>1. ~said.end /\ ~over
    BY <1>10 DEF Ended
  <2>2. e.said = said
    BY <1>8
  <2>3. e.said.stops \subseteq stops'[s]
    BY <1>10, <2>1, <2>2
  <2>4. info'[s] = IF e.said.info # <<>> THEN e.said.info[1] ELSE info[s]
    BY <1>10, <2>1, <2>2
  <2>5. asked'[s] = asked[s]
    BY <1>1
  <2>6. QED
    BY <1>5, <1>7, <1>10, <1>15, <2>3, <2>4, <2>5, AtRestAtOnce
<1>18. ASSUME NEW t \in Samples, t # s
       PROVE  /\ ~Ended(t)' => AtRest(t)'
              /\ Ended(t)' => turns'[t] <= Len(asked'[t])
              /\ turns'[t] <= Len(asked'[t]) + 1
  <2>1. outs # <<t>>
    BY <1>2, <1>18
  <2>2. /\ ~Ended(t) => AtRest(t)
        /\ Ended(t) => turns[t] <= Len(asked[t])
        /\ turns[t] <= Len(asked[t]) + 1
    BY <1>1, <2>1 DEF RolloutInv, AsyncInv
  <2>3. AtRest(t) => AtRest(t)'
    BY <1>11, <1>18, SampleKept
  <2>4. Ended(t)' <=> Ended(t)
    BY <1>11, <1>18 DEF Ended
  <2>5. QED
    BY <1>1, <2>2, <2>3, <2>4
<1>19. AsyncInv'
  <2>1. \A t \in Samples : outs' # <<t>>
    BY <1>1
  <2>2. Len(asked[s]) \in Nat /\ turns[s] \in Nat
    BY ListingDomain DEF RolloutInv, LogsInv
  <2>3. turns'[s] <= Len(asked'[s]) /\ turns'[s] <= Len(asked'[s]) + 1
    BY <1>1, <1>15, <2>2
  <2>4. QED
    BY <1>1, <1>6, <1>17, <1>18, <2>1, <2>3 DEF AsyncInv
<1>20. PhaseInv' /\ ActiveInv' /\ SelectInv' /\ GenerateInv' /\ FeedbackInv' /\ ViewInv'
  BY <1>1 DEF PhaseInv, ActiveInv, InLoop, SelectInv, GenerateInv, FeedbackInv, ViewInv
<1>21. QED
  BY <1>14, <1>16, <1>19, <1>20 DEF RolloutInv

-----------------------------------------------------------------------------
(***************************************************************************)
(* Every step of the rollouts keeps the invariant.                         *)
(***************************************************************************)
LEMMA NextRollout == RolloutInv /\ [Next]_vars => RolloutInv'
<1> SUFFICES ASSUME RolloutInv, [Next]_vars PROVE RolloutInv'
  OBVIOUS
<1>1. CASE Select
  BY <1>1, SelectKeeps
<1>2. CASE Generate
  BY <1>2, GenerateKeeps
<1>3. CASE Respond
  BY <1>3, RespondKeeps
<1>4. CASE Step
  BY <1>4, StepKeeps
<1>5. CASE Collect
  BY <1>5, CollectKeeps
<1>6. CASE FinishBatch \/ FailBatch \/ FailRollout \/ Gather \/ GatherGym
  BY <1>6, QuietKeeps DEF FinishBatch, FailBatch, FailRollout, Gather, GatherGym, sample
<1>7. CASE \E s \in Samples : Begin(s)
  BY <1>7, BeginKeeps
<1>8. CASE \E s \in Samples : Resume(s)
  BY <1>8, ResumeKeeps
<1>9. CASE \E s \in Samples : EndOfLoop(s) \/ FailSample(s)
  BY <1>9, QuietKeeps DEF EndOfLoop, FailSample, Leave
<1>10. CASE StepOne
  BY <1>10, StepOneKeeps
<1>11. CASE \E s \in Samples : Complete(s) \/ Continue(s) \/ Arrive(s)
  <2>1. PICK s \in Samples : Complete(s) \/ Continue(s) \/ Arrive(s)
    BY <1>11
  <2>2. CASE Complete(s)
    BY <2>2, QuietKeeps DEF Complete, sample
  <2>3. CASE Continue(s)
    BY <2>3, QuietKeeps DEF Continue, sample
  <2>4. CASE Arrive(s)
    BY <2>4, QuietKeeps DEF Arrive, sample
  <2>5. QED
    BY <2>1, <2>2, <2>3, <2>4
<1>12. CASE Over \/ UNCHANGED vars
  BY <1>12, QuietKeeps DEF Over, vars, sample
<1>13. QED
  BY <1>1, <1>2, <1>3, <1>4, <1>5, <1>6, <1>7, <1>8, <1>9, <1>10, <1>11, <1>12
     DEF Next, Batch, Async, Gym

(* In every rollout, whatever samples have left the batch and in whatever  *)
(* order the coroutines run, an environment is handed the info it last     *)
(* returned for the same sample, and the stop strings it asked for are in  *)
(* the sample's next request.                                              *)
THEOREM SamplesStayInStep == Spec => []SamplesInStep
<1>1. RolloutInv => SamplesInStep
  BY DEF RolloutInv
<1>2. QED
  BY InitRollout, NextRollout, <1>1, PTL DEF Spec

-----------------------------------------------------------------------------
(***************************************************************************)
(* Sums over finite sets: the length of a log, the reward of a sample.     *)
(***************************************************************************)
One(T) == CHOOSE x \in T : TRUE
SumsTo(f, w, T) == IF T = {} THEN 0 ELSE w[One(T)] + f[T \ {One(T)}]
IsSum(f, w, S) == \A T \in SUBSET S : f[T] = SumsTo(f, w, T)
HasSums(w, S) == \E f : f = [T \in SUBSET S |-> SumsTo(f, w, T)]
Total(w, S) == (CHOOSE f : f = [T \in SUBSET S |-> SumsTo(f, w, T)])[S]

LEMMA OneOf == \A T : T # {} => One(T) \in T
BY Zenon DEF One

(* The recursion has a solution: for the sets of up to n elements, for     *)
(* every n.                                                                *)
LEMMA SumExists ==
  ASSUME NEW S, IsFiniteSet(S), NEW w
  PROVE  HasSums(w, S)
<1> DEFINE Upto(f, n) == f = [T \in SUBSET S |-> IF Cardinality(T) <= n THEN SumsTo(f, w, T) ELSE 0]
           wrong == {n \in Nat : ~ \E f : Upto(f, n)}
<1>1. \A T \in SUBSET S : IsFiniteSet(T) /\ Cardinality(T) \in Nat
  BY FS_Subset, FS_CardinalityType
<1>2. ASSUME NEW T \in SUBSET S, T # {}
      PROVE  T \ {One(T)} \in SUBSET S /\ Cardinality(T \ {One(T)}) = Cardinality(T) - 1
  <2>1. One(T) \in T /\ IsFiniteSet(T)
    BY <1>1, <1>2, OneOf
  <2>2. QED
    BY <2>1, FS_RemoveElement
<1>3. \E f : Upto(f, 0)
  <2> DEFINE f == [T \in SUBSET S |-> 0]
  <2>1. \A T \in SUBSET S : Cardinality(T) <= 0 => T = {}
    BY <1>1, FS_EmptySet
  <2>2. Upto(f, 0)
    BY <2>1 DEF SumsTo
  <2>3. QED
    BY <2>2
<1>4. ASSUME NEW n \in Nat, NEW f, Upto(f, n)
      PROVE  \E g : Upto(g, n + 1)
  <2> DEFINE g == [T \in SUBSET S |-> IF Cardinality(T) <= n + 1 THEN SumsTo(f, w, T) ELSE 0]
  <2>1. \A T \in SUBSET S : Cardinality(T) <= n => g[T] = f[T]
    <3> SUFFICES ASSUME NEW T \in SUBSET S, Cardinality(T) <= n PROVE g[T] = f[T]
      OBVIOUS
    <3>1. Cardinality(T) <= n + 1
      BY <1>1
    <3>2. f[T] = SumsTo(f, w, T)
      BY <1>4
    <3>3. QED
      BY <3>1, <3>2
  <2>2. ASSUME NEW T \in SUBSET S, Cardinality(T) <= n + 1
        PROVE  SumsTo(g, w, T) = SumsTo(f, w, T)
    <3>1. CASE T = {}
      BY <3>1 DEF SumsTo
    <3>2. CASE T # {}
      <4>1. T \ {One(T)} \in SUBSET S /\ Cardinality(T \ {One(T)}) <= n
        BY <1>1, <1>2, <2>2, <3>2
      <4>2. g[T \ {One(T)}] = f[T \ {One(T)}]
        BY <2>1, <4>1
      <4>3. QED
        BY <3>2, <4>2 DEF SumsTo
    <3>3. QED
      BY <3>1, <3>2
  <2>3. \A T \in SUBSET S : g[T] = IF Cardinality(T) <= n + 1 THEN SumsTo(g, w, T) ELSE 0
    BY <2>2
  <2>4. g = [T \in SUBSET S |-> g[T]]
    OBVIOUS
  <2>5. Upto(g, n + 1)
    <3> HIDE DEF g
    <3> QED
      BY <2>3, <2>4
  <2>6. QED
    BY <2>5
<1>5. wrong = {}
  <2> SUFFICES ASSUME wrong # {} PROVE FALSE
    OBVIOUS
  <2>1. wrong \subseteq Nat
    OBVIOUS
  <2>2. PICK m \in wrong : \A x \in wrong : m <= x
    <3> HIDE DEF wrong
    <3> QED
      BY <2>1, LeastOf
  <2> HIDE DEF Upto
  <2>3. m # 0
    BY <1>3
  <2>4. m - 1 \in Nat /\ m - 1 \notin wrong
    <3>1. m - 1 \in Nat /\ ~(m <= m - 1)
      BY <2>1, <2>3
    <3>2. QED
      BY <2>2, <3>1
  <2>5. PICK f : Upto(f, m - 1)
    BY <2>4
  <2>6. (m - 1) + 1 = m
    BY <2>4
  <2>7. \E g : Upto(g, (m - 1) + 1)
    BY <1>4, <2>4, <2>5
  <2>8. QED
    BY <2>6, <2>7
<1>6. PICK n \in Nat : n = Cardinality(S)
  BY FS_CardinalityType
<1>7. PICK f : Upto(f, n)
  BY <1>5
<1>8. \A T \in SUBSET S : Cardinality(T) <= n
  BY <1>6, FS_Subset
<1>9. f = [T \in SUBSET S |-> SumsTo(f, w, T)]
  BY <1>7, <1>8
<1>10. QED
  BY <1>9, Zenon DEF HasSums

(* The recursion has no other solution.                                    *)
LEMMA SumOnce ==
  ASSUME NEW S, IsFiniteSet(S), NEW w, NEW v, \A x \in S : w[x] = v[x],
         NEW f, NEW g, IsSum(f, w, S), IsSum(g, v, S)
  PROVE  f[S] = g[S]
<1>1. f[{}] = g[{}]
  BY DEF IsSum, SumsTo
<1>2. ASSUME NEW T \in SUBSET S, T # {}
      PROVE  \E x \in T : f[T \ {x}] = g[T \ {x}] => f[T] = g[T]
  <2>1. One(T) \in T /\ w[One(T)] = v[One(T)]
    BY <1>2, OneOf
  <2>2. f[T] = w[One(T)] + f[T \ {One(T)}] /\ g[T] = v[One(T)] + g[T \ {One(T)}]
    BY <1>2 DEF IsSum, SumsTo
  <2>3. QED
    BY <2>1, <2>2
<1>3. QED
  BY <1>1, <1>2, FoldUnique

(* The total of a finite set is that solution.                             *)
LEMMA TotalIs ==
  ASSUME NEW S, IsFiniteSet(S), NEW w
  PROVE  \E f : IsSum(f, w, S) /\ Total(w, S) = f[S]
<1>a. HasSums(w, S)
  BY SumExists
<1> DEFINE f == CHOOSE g : g = [T \in SUBSET S |-> SumsTo(g, w, T)]
<1>1. f = [T \in SUBSET S |-> SumsTo(f, w, T)]
  <2>1. \E g : g = [T \in SUBSET S |-> SumsTo(g, w, T)]
    BY <1>a, Zenon DEF HasSums
  <2>2. QED
    BY <2>1, Zenon
<1>2. Total(w, S) = f[S]
  BY Zenon DEF Total
<1> HIDE DEF f
<1>3. IsSum(f, w, S)
  BY <1>1 DEF IsSum
<1>4. QED
  BY <1>2, <1>3

(* A sum is an element and the sum of the others, whatever the order.      *)
LEMMA SumTakes ==
  ASSUME NEW S, IsFiniteSet(S), NEW w, \A x \in S : w[x] \in Int, NEW f, IsSum(f, w, S)
  PROVE  \A T \in SUBSET S : f[T] \in Int /\ \A y \in T : f[T] = w[y] + f[T \ {y}]
<1> DEFINE Good(T) == f[T] \in Int /\ \A y \in T : f[T] = w[y] + f[T \ {y}]
           wrong == {T \in SUBSET S : ~Good(T)}
           sizes == {Cardinality(T) : T \in wrong}
<1> SUFFICES ASSUME wrong # {} PROVE FALSE
  OBVIOUS
<1>1. \A T \in SUBSET S : IsFiniteSet(T) /\ Cardinality(T) \in Nat
  BY FS_Subset, FS_CardinalityType
<1>2. sizes \subseteq Nat /\ sizes # {}
  BY <1>1
<1>3. Min(sizes) \in sizes /\ \A x \in sizes : Min(sizes) <= x
  <2> HIDE DEF sizes
  <2> QED
    BY <1>2, LeastOf
<1>4. PICK T \in wrong : \A U \in wrong : Cardinality(T) <= Cardinality(U)
  BY <1>3
<1>5. \A y \in T : T \ {y} \in SUBSET S /\ Cardinality(T \ {y}) = Cardinality(T) - 1
  <2> SUFFICES ASSUME NEW y \in T PROVE T \ {y} \in SUBSET S /\ Cardinality(T \ {y}) = Cardinality(T) - 1
    OBVIOUS
  <2>1. IsFiniteSet(T)
    BY <1>1
  <2>2. QED
    BY <2>1, FS_RemoveElement
<1>6. \A y \in T : Good(T \ {y})
  <2> SUFFICES ASSUME NEW y \in T PROVE Good(T \ {y})
    OBVIOUS
  <2> HIDE DEF Good
  <2>1. Cardinality(T) \in Nat
    BY <1>1
  <2>2. ~(Cardinality(T) <= Cardinality(T \ {y}))
    BY <1>5, <2>1
  <2>3. T \ {y} \notin wrong
    BY <1>4, <2>2
  <2>4. QED
    BY <1>5, <2>3
<1>7. Good(T)
  <2>0. T \in SUBSET S
    OBVIOUS
  <2>1. CASE T = {}
    <3>1. f[T] = 0
      BY <2>0, <2>1 DEF IsSum, SumsTo
    <3>2. QED
      BY <2>1, <3>1
  <2>2. CASE T # {}
    <3>1. PICK z \in T : f[T] = w[z] + f[T \ {z}]
      BY <2>0, <2>2, OneOf DEF IsSum, SumsTo
    <3>2. f[T] \in Int
      <4>1. w[z] \in Int /\ f[T \ {z}] \in Int
        BY <1>6, <2>0
      <4>2. QED
        BY <3>1, <4>1
    <3>3. ASSUME NEW y \in T, y # z PROVE f[T] = w[y] + f[T \ {y}]
      <4>1. /\ f[T \ {z}] = w[y] + f[(T \ {z}) \ {y}]
            /\ f[T \ {y}] = w[z] + f[(T \ {y}) \ {z}]
        BY <1>6, <3>3
      <4>2. (T \ {z}) \ {y} = (T \ {y}) \ {z}
        OBVIOUS
      <4>3. w[y] \in Int /\ w[z] \in Int
        BY <2>0
      <4>4. f[(T \ {z}) \ {y}] \in Int
        <5>1. Good((T \ {z}) \ {y})
          <6> HIDE DEF Good
          <6>1. Cardinality(T) \in Nat /\ Cardinality(T \ {z}) = Cardinality(T) - 1 /\ T \ {z} \in SUBSET S
            BY <1>1, <1>5
          <6>2. IsFiniteSet(T \ {z}) /\ y \in T \ {z}
            BY <1>1, <3>3, <6>1
          <6>3. Cardinality((T \ {z}) \ {y}) = Cardinality(T \ {z}) - 1
            BY <6>2, FS_RemoveElement
          <6>4. ~(Cardinality(T) <= Cardinality((T \ {z}) \ {y}))
            BY <6>1, <6>3
          <6>5. (T \ {z}) \ {y} \notin wrong
            BY <1>4, <6>4
          <6>6. QED
            BY <6>1, <6>5
        <5>2. QED
          BY <5>1
      <4>5. PICK a \in Int, b \in Int, c \in Int :
              a = w[y] /\ b = w[z] /\ c = f[(T \ {z}) \ {y}]
        BY <4>3, <4>4
      <4>6. f[T \ {z}] = a + c /\ f[T \ {y}] = b + c
        BY <4>1, <4>2, <4>5
      <4>7. f[T] = b + (a + c)
        BY <3>1, <4>5, <4>6
      <4>8. b + (a + c) = a + (b + c)
        BY <4>5
      <4>9. QED
        BY <4>5, <4>6, <4>7, <4>8
    <3>4. QED
      BY <3>1, <3>2, <3>3
  <2>3. QED
    BY <2>1, <2>2
<1>8. QED
  BY <1>7

(* One element more.                                                       *)
Extends(v, w, S, x) == (\A y \in S : w[y] = v[y]) /\ \A y \in S \cup {x} : v[y] \in Int

(* One more element adds its value.                                        *)
LEMMA TotalGrows ==
  ASSUME NEW S, IsFiniteSet(S), NEW x, x \notin S, NEW w, NEW v, Extends(v, w, S, x)
  PROVE  Total(w, S) \in Int /\ Total(v, S \cup {x}) = Total(w, S) + v[x]
<1>0. (\A y \in S : w[y] = v[y]) /\ \A y \in S \cup {x} : v[y] \in Int
  BY DEF Extends
<1>1. PICK U : U = S \cup {x}
  OBVIOUS
<1>2. IsFiniteSet(U) /\ U \ {x} = S /\ S \in SUBSET U /\ U \in SUBSET U /\ x \in U
  BY <1>1, FS_AddElement
<1>3. PICK f : IsSum(f, w, S) /\ Total(w, S) = f[S]
  BY TotalIs
<1>4. PICK g : IsSum(g, v, U) /\ Total(v, U) = g[U]
  BY <1>2, TotalIs
<1>5. IsSum(g, v, S)
  BY <1>2, <1>4 DEF IsSum
<1>6. f[S] = g[S]
  BY <1>0, <1>3, <1>5, SumOnce
<1>7. \A T \in SUBSET U : g[T] \in Int /\ \A y \in T : g[T] = v[y] + g[T \ {y}]
  <2>1. \A y \in U : v[y] \in Int
    BY <1>0, <1>1
  <2>2. QED
    BY <1>2, <1>4, <2>1, SumTakes
<1>8. g[U] = v[x] + g[S] /\ g[S] \in Int /\ v[x] \in Int
  <2>1. v[x] \in Int
    BY <1>0
  <2>2. g[S] \in Int
    BY <1>2, <1>7
  <2>3. g[U] = v[x] + g[U \ {x}]
    BY <1>2, <1>7
  <2>4. QED
    BY <1>2, <2>1, <2>2, <2>3
<1>9. PICK a \in Int, b \in Int : a = v[x] /\ b = g[S]
  BY <1>8
<1>10. Total(w, S) = b
  BY <1>3, <1>6, <1>9
<1>11. Total(v, U) = a + b
  BY <1>2, <1>4, <1>8, <1>9
<1>12. Total(v, S \cup {x}) = b + a
  BY <1>1, <1>9, <1>11
<1>13. QED
  BY <1>9, <1>10, <1>12

(* So does one more place of a list.                                       *)
LEMMA TotalAppended ==
  ASSUME NEW n \in Nat, NEW w, NEW v, \A k \in 1 .. n + 1 : v[k] \in Int,
         \A k \in 1 .. n : w[k] = v[k]
  PROVE  Total(w, 1 .. n) \in Int /\ Total(v, 1 .. n + 1) = Total(w, 1 .. n) + v[n + 1]
<1>1. PICK S : S = 1 .. n
  OBVIOUS
<1>2. 1 .. n + 1 = S \cup {n + 1} /\ n + 1 \notin S
  BY <1>1
<1>3. IsFiniteSet(S)
  BY <1>1, FS_Interval
<1>4. (\A y \in S : w[y] = v[y]) /\ \A y \in S \cup {n + 1} : v[y] \in Int
  BY <1>1, <1>2
<1>5. PICK x : x = n + 1
  OBVIOUS
<1>6. Total(w, S) \in Int /\ Total(v, S \cup {x}) = Total(w, S) + v[x]
  <2>1. x \notin S
    BY <1>2, <1>5
  <2>2. \A y \in S \cup {x} : v[y] \in Int
    BY <1>4, <1>5
  <2>3. \A y \in S : w[y] = v[y]
    BY <1>4
  <2>4. Extends(v, w, S, x)
    BY <2>2, <2>3 DEF Extends
  <2>5. QED
    BY <1>3, <2>1, <2>4, TotalGrows
<1>7. QED
  BY <1>1, <1>2, <1>5, <1>6

(* The length of a log and the reward of its steps are such sums.          *)
LensOf(messages) == [k \in DOMAIN messages |-> messages[k].len]

LEMMA SizeIs ==
  ASSUME NEW messages, IsFiniteSet(DOMAIN messages)
  PROVE  Size(messages) = Total(LensOf(messages), DOMAIN messages)
<1> DEFINE D == DOMAIN messages
           w == LensOf(messages)
           Rest(f, s) ==
             IF s = {} THEN 0
             ELSE messages[CHOOSE x \in s : TRUE].len + f[s \ {CHOOSE x \in s : TRUE}]
           iter == CHOOSE f : f = [s \in SUBSET D |-> Rest(f, s)]
<1>1. Size(messages) = iter[D]
  BY Zenon DEF Size, MapThenSumSet, MapThenFoldSet
<1>2. \A f, s : s \in SUBSET D => Rest(f, s) = SumsTo(f, w, s)
  <2> SUFFICES ASSUME NEW f, NEW s \in SUBSET D PROVE Rest(f, s) = SumsTo(f, w, s)
    OBVIOUS
  <2>1. CASE s = {}
    BY <2>1 DEF SumsTo
  <2>2. CASE s # {}
    <3>1. One(s) \in s
      BY <2>2, OneOf
    <3>2. w[One(s)] = messages[One(s)].len
      BY <3>1 DEF LensOf
    <3>3. One(s) = CHOOSE x \in s : TRUE
      BY DEF One
    <3> HIDE DEF w
    <3>4. QED
      BY <2>2, <3>2, <3>3, Zenon DEF SumsTo
  <2>3. QED
    BY <2>1, <2>2
<1> HIDE DEF w, Rest
<1>3. \E f : f = [s \in SUBSET D |-> Rest(f, s)]
  <2>a. HasSums(w, D)
    BY SumExists
  <2>1. PICK f : f = [s \in SUBSET D |-> SumsTo(f, w, s)]
    BY <2>a, Zenon DEF HasSums
  <2>2. \A s \in SUBSET D : SumsTo(f, w, s) = Rest(f, s)
    BY <1>2
  <2>3. f = [s \in SUBSET D |-> Rest(f, s)]
    BY <2>1, <2>2
  <2>4. QED
    BY <2>3
<1>4. iter = [s \in SUBSET D |-> Rest(iter, s)]
  BY <1>3, Zenon
<1> HIDE DEF iter
<1>5. IsSum(iter, w, D)
  BY <1>2, <1>4 DEF IsSum
<1>6. PICK f : IsSum(f, w, D) /\ Total(w, D) = f[D]
  BY TotalIs
<1>7. iter[D] = f[D]
  BY <1>5, <1>6, SumOnce
<1>8. QED
  BY <1>1, <1>6, <1>7 DEF w

(* The abstract module measures a log alike.                               *)
LEMMA ESize == \A messages : E!Size(messages) = Size(messages) /\ E!Turns(messages) = Turn(messages)
<1> SUFFICES ASSUME NEW messages PROVE E!Size(messages) = Size(messages) /\ E!Turns(messages) = Turn(messages)
  OBVIOUS
<1>1. E!Turns(messages) = Turn(messages)
  BY Zenon DEF E!Turns, Turn, E!Cardinality, Cardinality
<1>2. E!Size(messages) = Size(messages)
  BY Zenon DEF E!Size, Size, E!MapThenSumSet, MapThenSumSet, E!MapThenFoldSet, MapThenFoldSet
<1>3. QED
  BY <1>1, <1>2

-----------------------------------------------------------------------------
(***************************************************************************)
(* The episodes.  Beside its place in the turn, a sample's log is within   *)
(* the context, its mark says how its log ends, and its reward is what was *)
(* said to it, or lacks what was said last.                                *)
(***************************************************************************)
RoleOfLast(messages) == messages[Len(messages)].role

RewardOf(steps) == MapThenSumSet(LAMBDA t : steps[t].said.reward, DOMAIN steps)

(* A log of messages with a length, within the context.                    *)
Sized(messages) ==
  (\A k \in 1 .. Len(messages) : messages[k].len \in Nat) /\ Size(messages) \in 0 .. MaxLen

Marked(s) == truncated[s] <=> RoleOfLast(heap[s]) = "environment" /\ Size(heap[s]) = MaxLen

PaidUp(s) == total[s] = RewardOf(served[s])
Owed(s) == total[s] + served[s][Len(served[s])].said.reward = RewardOf(served[s])

HasToPay(s) == phase = "feedback" /\ \E k \in Stepped : active[k] = s

SoundFor(s) ==
  /\ total[s] \in Int /\ truncated[s] \in BOOLEAN
  /\ \A t \in 1 .. Len(served[s]) : served[s][t].said.reward \in Int
  /\ Sized(heap[s]) /\ Marked(s)

OutcomeInv ==
  /\ PerSample(total)
  /\ \A s \in Samples :
       SoundFor(s) /\ (phase # "raised" => IF HasToPay(s) THEN Owed(s) ELSE PaidUp(s))

(* The rows of a selection go on, are in the same turn, and have one left. *)
Fresh(s) == ~Ended(s) /\ turns[s] = Turn(heap[s]) /\ RoleOfLast(heap[s]) # "assistant"
Spoken(s) == ~Ended(s) /\ turns[s] + 1 = Turn(heap[s]) /\ RoleOfLast(heap[s]) = "assistant"

TurnInv ==
  InLoop =>
    /\ arrived = <<>>
    /\ \A s \in Samples, k \in 1 .. Len(active) : active[k] = s =>
         IF phase = "feedback" THEN Spoken(s) ELSE Fresh(s)
    /\ \A j, k \in 1 .. Len(active) : turns[active[j]] = turns[active[k]]
    /\ phase # "select" => \A k \in 1 .. Len(active) : turns[active[k]] < MaxTurns

(* An answer and an observation are about the log they will enter.         *)
AnswersTo(m, messages) == \E len \in 0 .. MaxLen - Size(messages) : m = AnswerTo(messages, len)
SaidAbout(said, s) == said.of = s /\ said.turn = Turn(heap[s]) /\ said.obs \in Nat

OutsInv ==
  phase = "generate" =>
    \A s \in Samples, k \in 1 .. Len(outs) : active[k] = s => AnswersTo(outs[k], heap[s])

SaidInv ==
  phase = "feedback" =>
    \A s \in Samples, k \in Stepped : active[k] = s => SaidAbout(served[s][Len(served[s])].said, s)

(* A coroutine that goes on has not spoken, but the one whose environment  *)
(* is stepping has.                                                        *)
CoroutineInv ==
  /\ Listing(arrived)
  /\ mode = "async" /\ phase = "concurrent" =>
       \A s \in Samples :
         /\ turns[s] <= MaxTurns
         /\ IF outs = <<s>> 
            THEN ~Ended(s) /\ s \notin Range(arrived) /\ RoleOfLast(heap[s]) = "assistant"
            ELSE ~Ended(s) => RoleOfLast(heap[s]) # "assistant"

EpisodeInv == OutcomeInv /\ TurnInv /\ OutsInv /\ SaidInv /\ CoroutineInv

-----------------------------------------------------------------------------
RewardsIn(steps) == [t \in DOMAIN steps |-> steps[t].said.reward]

(* So is the reward of the steps of a sample.                              *)
LEMMA RewardIs ==
  ASSUME NEW steps, IsFiniteSet(DOMAIN steps)
  PROVE  RewardOf(steps) = Total(RewardsIn(steps), DOMAIN steps)
<1> DEFINE D == DOMAIN steps
           w == RewardsIn(steps)
           Rest(f, s) ==
             IF s = {} THEN 0
             ELSE steps[CHOOSE x \in s : TRUE].said.reward + f[s \ {CHOOSE x \in s : TRUE}]
           iter == CHOOSE f : f = [s \in SUBSET D |-> Rest(f, s)]
<1>1. RewardOf(steps) = iter[D]
  BY Zenon DEF RewardOf, MapThenSumSet, MapThenFoldSet
<1>2. \A f, s : s \in SUBSET D => Rest(f, s) = SumsTo(f, w, s)
  <2> SUFFICES ASSUME NEW f, NEW s \in SUBSET D PROVE Rest(f, s) = SumsTo(f, w, s)
    OBVIOUS
  <2>1. CASE s = {}
    BY <2>1 DEF SumsTo
  <2>2. CASE s # {}
    <3>1. One(s) \in s
      BY <2>2, OneOf
    <3>2. w[One(s)] = steps[One(s)].said.reward
      BY <3>1 DEF RewardsIn
    <3>3. One(s) = CHOOSE x \in s : TRUE
      BY DEF One
    <3> HIDE DEF w
    <3>4. QED
      BY <2>2, <3>2, <3>3, Zenon DEF SumsTo
  <2>3. QED
    BY <2>1, <2>2
<1> HIDE DEF w, Rest
<1>3. \E f : f = [s \in SUBSET D |-> Rest(f, s)]
  <2>a. HasSums(w, D)
    BY SumExists
  <2>1. PICK f : f = [s \in SUBSET D |-> SumsTo(f, w, s)]
    BY <2>a, Zenon DEF HasSums
  <2>2. \A s \in SUBSET D : SumsTo(f, w, s) = Rest(f, s)
    BY <1>2
  <2>3. f = [s \in SUBSET D |-> Rest(f, s)]
    BY <2>1, <2>2
  <2>4. QED
    BY <2>3
<1>4. iter = [s \in SUBSET D |-> Rest(iter, s)]
  BY <1>3, Zenon
<1> HIDE DEF iter
<1>5. IsSum(iter, w, D)
  BY <1>2, <1>4 DEF IsSum
<1>6. PICK f : IsSum(f, w, D) /\ Total(w, D) = f[D]
  BY TotalIs
<1>7. iter[D] = f[D]
  BY <1>5, <1>6, SumOnce
<1>8. QED
  BY <1>1, <1>6, <1>7 DEF w

(* A message adds its length, a step its reward.                           *)
LEMMA SizeAppended ==
  ASSUME NEW messages, Listing(messages), \A k \in 1 .. Len(messages) : messages[k].len \in Int,
         NEW m, m.len \in Int
  PROVE  Size(messages) \in Int /\ Size(Append(messages, m)) = Size(messages) + m.len
<1>1. PICK n \in Nat : n = Len(messages)
  BY ListingDomain
<1>2. PICK longer : longer = Append(messages, m)
  OBVIOUS
<1>3. /\ DOMAIN messages = 1 .. n /\ DOMAIN longer = 1 .. n + 1 /\ longer[n + 1] = m
      /\ \A k \in 1 .. n : longer[k] = messages[k]
  BY <1>1, <1>2, ListingAppend, ListingDomain
<1>4. PICK w, v : w = LensOf(messages) /\ v = LensOf(longer)
  OBVIOUS
<1>5. /\ \A k \in 1 .. n + 1 : v[k] \in Int
      /\ \A k \in 1 .. n : w[k] = v[k]
      /\ v[n + 1] = m.len
  <2>1. \A k \in 1 .. n : w[k] = messages[k].len /\ v[k] = messages[k].len
    BY <1>3, <1>4 DEF LensOf
  <2>2. v[n + 1] = m.len
    BY <1>3, <1>4 DEF LensOf
  <2>3. 1 .. n + 1 = (1 .. n) \cup {n + 1}
    OBVIOUS
  <2>4. QED
    BY <1>1, <2>1, <2>2, <2>3
<1>6. Total(w, 1 .. n) \in Int /\ Total(v, 1 .. n + 1) = Total(w, 1 .. n) + v[n + 1]
  BY <1>5, TotalAppended
<1>7. Size(messages) = Total(w, 1 .. n) /\ Size(longer) = Total(v, 1 .. n + 1)
  <2>1. IsFiniteSet(1 .. n) /\ IsFiniteSet(1 .. n + 1)
    BY FS_Interval
  <2>2. QED
    BY <1>3, <1>4, <2>1, SizeIs
<1>8. QED
  BY <1>2, <1>5, <1>6, <1>7

LEMMA RewardAppended ==
  ASSUME NEW steps, Listing(steps), \A t \in 1 .. Len(steps) : steps[t].said.reward \in Int,
         NEW e, e.said.reward \in Int
  PROVE  RewardOf(steps) \in Int /\ RewardOf(Append(steps, e)) = RewardOf(steps) + e.said.reward
<1>1. PICK n \in Nat : n = Len(steps)
  BY ListingDomain
<1>2. PICK longer : longer = Append(steps, e)
  OBVIOUS
<1>3. /\ DOMAIN steps = 1 .. n /\ DOMAIN longer = 1 .. n + 1 /\ longer[n + 1] = e
      /\ \A t \in 1 .. n : longer[t] = steps[t]
  BY <1>1, <1>2, ListingAppend, ListingDomain
<1>4. PICK w, v : w = RewardsIn(steps) /\ v = RewardsIn(longer)
  OBVIOUS
<1>5. /\ \A t \in 1 .. n + 1 : v[t] \in Int
      /\ \A t \in 1 .. n : w[t] = v[t]
      /\ v[n + 1] = e.said.reward
  <2>1. \A t \in 1 .. n : w[t] = steps[t].said.reward /\ v[t] = steps[t].said.reward
    BY <1>3, <1>4 DEF RewardsIn
  <2>2. v[n + 1] = e.said.reward
    BY <1>3, <1>4 DEF RewardsIn
  <2>3. 1 .. n + 1 = (1 .. n) \cup {n + 1}
    OBVIOUS
  <2>4. QED
    BY <1>1, <2>1, <2>2, <2>3
<1>6. Total(w, 1 .. n) \in Int /\ Total(v, 1 .. n + 1) = Total(w, 1 .. n) + v[n + 1]
  BY <1>5, TotalAppended
<1>7. RewardOf(steps) = Total(w, 1 .. n) /\ RewardOf(longer) = Total(v, 1 .. n + 1)
  <2>1. IsFiniteSet(1 .. n) /\ IsFiniteSet(1 .. n + 1)
    BY FS_Interval
  <2>2. QED
    BY <1>3, <1>4, <2>1, RewardIs
<1>8. QED
  BY <1>2, <1>5, <1>6, <1>7

(* A message that fits leaves the log within the context.                  *)
LEMMA SizedNext ==
  ASSUME NEW messages, Listing(messages), Sized(messages),
         NEW m, m.len \in 0 .. MaxLen - Size(messages)
  PROVE  /\ Sized(Append(messages, m)) /\ Size(Append(messages, m)) = Size(messages) + m.len
         /\ RoleOfLast(Append(messages, m)) = m.role
<1>1. PICK n \in Nat : n = Len(messages)
  BY ListingDomain
<1>2. PICK longer : longer = Append(messages, m)
  OBVIOUS
<1>3. Len(longer) = n + 1 /\ longer[n + 1] = m /\ \A k \in 1 .. n : longer[k] = messages[k]
  BY <1>1, <1>2, ListingAppend
<1>4. PICK size \in Nat : size = Size(messages) /\ size <= MaxLen
  BY DEF Sized
<1>5. MaxLen \in Nat
  BY RolloutAssumption
<1>6. m.len \in Nat /\ size + m.len <= MaxLen
  BY <1>4, <1>5
<1>7. Size(longer) = size + m.len
  <2>1. \A k \in 1 .. Len(messages) : messages[k].len \in Int
    BY DEF Sized
  <2>2. m.len \in Int
    BY <1>6
  <2>3. Size(Append(messages, m)) = Size(messages) + m.len
    BY <2>1, <2>2, SizeAppended
  <2>4. QED
    BY <1>2, <1>4, <2>3
<1>8. \A k \in 1 .. n + 1 : longer[k].len \in Nat
  <2>1. 1 .. n + 1 = (1 .. n) \cup {n + 1}
    OBVIOUS
  <2>2. QED
    BY <1>1, <1>3, <1>6, <2>1 DEF Sized
<1>9. Sized(longer)
  BY <1>3, <1>5, <1>6, <1>7, <1>8 DEF Sized
<1>10. RoleOfLast(longer) = m.role
  BY <1>3 DEF RoleOfLast
<1>11. QED
  BY <1>2, <1>4, <1>7, <1>9, <1>10

LEMMA MaxWithZero == \A x \in Nat : Max({0, x}) = x
<1> SUFFICES ASSUME NEW x \in Nat PROVE Max({0, x}) = x
  OBVIOUS
<1>1. {0, x} \subseteq Nat /\ x \in {0, x} /\ \A y \in {0, x} : y <= x
  OBVIOUS
<1>2. QED
  BY <1>1, GreatestIs, Zenon

(* An answer fits the model's context.                                     *)
LEMMA AnswerFits ==
  ASSUME NEW messages, Sized(messages), NEW len \in Lengths(messages)
  PROVE  len \in 0 .. MaxLen - Size(messages)
<1>1. PICK rest \in Nat : rest = MaxLen - Size(messages)
  BY RolloutAssumption DEF Sized
<1>2. PICK least : least = Min({MaxNew, rest})
  OBVIOUS
<1>3. least \in Nat /\ least <= rest
  <2>1. {MaxNew, rest} \subseteq Nat /\ {MaxNew, rest} # {}
    BY RolloutAssumption
  <2>2. Min({MaxNew, rest}) \in {MaxNew, rest} /\ \A x \in {MaxNew, rest} : Min({MaxNew, rest}) <= x
    BY <2>1, LeastOf
  <2>3. QED
    BY <1>2, <2>1, <2>2
<1>4. Room(messages) = least
  BY <1>1, <1>2, <1>3, MaxWithZero DEF Room
<1>5. len = 0 \/ len \in 1 .. least
  BY <1>4 DEF Lengths
<1>6. QED
  BY <1>1, <1>3, <1>5

(* What is left of an observation fits too, and fills the context exactly  *)
(* when it overflows.                                                      *)
LEMMA CutFits ==
  ASSUME NEW messages, Sized(messages), NEW said, said.obs \in Nat
  PROVE  /\ Cut(messages, said) \in 0 .. MaxLen - Size(messages)
         /\ Size(messages) + Cut(messages, said) = MaxLen <=> Overflows(messages, said)
<1>1. PICK size \in Nat : size = Size(messages) /\ size <= MaxLen
  BY DEF Sized
<1>2. PICK rest \in Nat : rest = MaxLen - Size(messages)
  BY RolloutAssumption DEF Sized
<1>3. MaxLen \in Nat
  BY RolloutAssumption
<1>4. Max({0, MaxLen - Size(messages)}) = rest
  BY <1>2, MaxWithZero
<1>5. PICK obs \in Nat : obs = said.obs
  OBVIOUS
<1>6. Overflows(messages, said) <=> size + obs >= MaxLen
  BY <1>1, <1>5 DEF Overflows
<1>7. CASE size + obs >= MaxLen
  <2>1. Cut(messages, said) = rest
    BY <1>4, <1>6, <1>7 DEF Cut
  <2>2. QED
    BY <1>1, <1>2, <1>3, <1>6, <1>7, <2>1
<1>8. CASE ~(size + obs >= MaxLen)
  <2>1. Cut(messages, said) = obs
    BY <1>5, <1>6, <1>8 DEF Cut
  <2>2. size + obs < MaxLen
    BY <1>1, <1>3, <1>5, <1>8
  <2>3. QED
    BY <1>1, <1>2, <1>3, <1>5, <1>6, <1>8, <2>1, <2>2
<1>9. QED
  BY <1>7, <1>8

-----------------------------------------------------------------------------
(***************************************************************************)
(* A sample in its episode: it answers, observes, stops or stays.          *)
(***************************************************************************)
Gone(s) == Ended(s) \/ s \in Range(arrived) \/ phase \in {"returned", "raised"}

Answers(s) ==
  /\ ~Gone(s) /\ RoleOfLast(heap[s]) # "assistant" /\ Turn(heap[s]) < MaxTurns
  /\ \E len \in 0 .. MaxLen - Size(heap[s]) :
       heap'[s] = Append(heap[s], [role |-> "assistant", of |-> s,
                                   turn |-> Turn(heap[s]) + 1, len |-> len])
  /\ ~Gone(s)'
Observes(s) ==
  /\ ~Gone(s) /\ RoleOfLast(heap[s]) = "assistant"
  /\ \E len \in 0 .. MaxLen - Size(heap[s]) :
       heap'[s] = Append(heap[s], [role |-> "environment", of |-> s,
                                   turn |-> Turn(heap[s]), len |-> len])
  /\ Size(heap'[s]) = MaxLen => Gone(s)'
StopsOrStays(s) == heap'[s] = heap[s] /\ (Gone(s) => Gone(s)')

InEpisode == \A s \in Samples : Answers(s) \/ Observes(s) \/ StopsOrStays(s)

(* What is left alone stays sound.                                         *)
LEMMA SoundKept ==
  ASSUME NEW s, heap'[s] = heap[s], served'[s] = served[s], total'[s] = total[s],
         truncated'[s] = truncated[s]
  PROVE  (SoundFor(s) => SoundFor(s)') /\ (PaidUp(s) => PaidUp(s)') /\ (Owed(s) => Owed(s)')
BY DEF SoundFor, Marked, PaidUp, Owed

(* A sample that answers within the room left stays sound.                 *)
LEMMA SoundAnswered ==
  ASSUME NEW s, SoundFor(s), Listing(heap[s]), ~truncated[s],
         NEW m, m.role = "assistant", m.len \in 0 .. MaxLen - Size(heap[s]),
         heap'[s] = Append(heap[s], m), served'[s] = served[s], total'[s] = total[s],
         truncated'[s] = truncated[s]
  PROVE  SoundFor(s)' /\ RoleOfLast(heap'[s]) = "assistant"
<1>1. PICK messages : messages = heap[s]
  OBVIOUS
<1>2. PICK longer : longer = Append(messages, m)
  OBVIOUS
<1>3. Sized(longer) /\ RoleOfLast(longer) = m.role
  BY <1>1, <1>2, SizedNext DEF SoundFor
<1>4. longer = heap'[s]
  BY <1>1, <1>2
<1>5. QED
  BY <1>3, <1>4 DEF SoundFor, Marked

(* An observation that was cut fits, and its mark is right.                *)
LEMMA SoundObserved ==
  ASSUME NEW s, SoundFor(s), Listing(heap[s]), NEW said, said.obs \in Nat,
         heap'[s] = Append(heap[s], Observation(said, Cut(heap[s], said))),
         truncated'[s] \in BOOLEAN, truncated'[s] <=> Overflows(heap[s], said),
         total'[s] \in Int, \A t \in 1 .. Len(served'[s]) : served'[s][t].said.reward \in Int
  PROVE  /\ SoundFor(s)' /\ RoleOfLast(heap'[s]) = "environment"
         /\ Size(heap'[s]) = MaxLen => truncated'[s]
<1>1. PICK messages : messages = heap[s]
  OBVIOUS
<1>2. PICK m : m = Observation(said, Cut(messages, said))
  OBVIOUS
<1>3. PICK longer : longer = Append(messages, m)
  OBVIOUS
<1>4. /\ m.role = "environment" /\ m.len = Cut(messages, said)
      /\ m.len \in 0 .. MaxLen - Size(messages)
      /\ Size(messages) + m.len = MaxLen <=> Overflows(messages, said)
  <2>1. m.role = "environment" /\ m.len = Cut(messages, said)
    BY <1>2 DEF Observation
  <2>2. Sized(messages)
    BY <1>1 DEF SoundFor
  <2>3. QED
    BY <2>1, <2>2, CutFits
<1>5. Sized(longer) /\ Size(longer) = Size(messages) + m.len /\ RoleOfLast(longer) = m.role
  BY <1>1, <1>3, <1>4, SizedNext DEF SoundFor
<1>6. longer = heap'[s]
  BY <1>1, <1>2, <1>3
<1>7. truncated'[s] <=> Size(longer) = MaxLen
  BY <1>1, <1>4, <1>5
<1>8. QED
  BY <1>4, <1>5, <1>6, <1>7 DEF SoundFor, Marked

-----------------------------------------------------------------------------
(***************************************************************************)
(* The actions that leave the logs alone.                                  *)
(***************************************************************************)
LEMMA QuietEpisode ==
  ASSUME EpisodeInv,
         UNCHANGED <<mode, task, heap, served, total, truncated, terminated, turns, loop>>,
         Listing(arrived'), Range(arrived) \subseteq Range(arrived'),
         \/ phase' = "raised"
         \/ phase' = "returned" /\ phase \in {"select", "concurrent"}
         \/ phase' = phase /\ arrived' = arrived
         \/ phase' = phase /\ phase = "concurrent" /\ (mode # "async" \/ outs = <<>>)
  PROVE  EpisodeInv' /\ InEpisode
<1>1. Samples' = Samples
  BY DEF Samples
<1>2. active' = active /\ view' = view /\ outs' = outs /\ replies' = replies /\ Stepped' = Stepped
  BY DEF loop, Stepped
<1>3. \A s : /\ SoundFor(s) => SoundFor(s)'
             /\ PaidUp(s) => PaidUp(s)'
             /\ Owed(s) => Owed(s)'
             /\ Ended(s)' <=> Ended(s)
  BY SoundKept DEF Ended
<1>4. OutcomeInv'
  <2>1. PerSample(total)'
    BY <1>1 DEF EpisodeInv, OutcomeInv, PerSample
  <2>2. ASSUME NEW s \in Samples, phase' # "raised"
        PROVE  IF HasToPay(s)' THEN Owed(s)' ELSE PaidUp(s)'
    <3>1. HasToPay(s)' <=> HasToPay(s)
      BY <1>2, <2>2 DEF HasToPay
    <3>2. phase # "raised"
      BY <2>2
    <3>3. IF HasToPay(s) THEN Owed(s) ELSE PaidUp(s)
      BY <3>2 DEF EpisodeInv, OutcomeInv
    <3>4. QED
      BY <1>3, <3>1, <3>3
  <2>3. \A s \in Samples : SoundFor(s)'
    BY <1>3 DEF EpisodeInv, OutcomeInv
  <2>4. QED
    BY <1>1, <2>1, <2>2, <2>3 DEF OutcomeInv
<1>5. TurnInv'
  BY <1>1, <1>2, <1>3 DEF EpisodeInv, TurnInv, InLoop, Fresh, Spoken
<1>6. OutsInv' /\ SaidInv'
  <2>1. OutsInv'
    BY <1>1, <1>2 DEF EpisodeInv, OutsInv
  <2>2. SaidInv'
    BY <1>1, <1>2 DEF EpisodeInv, SaidInv, SaidAbout
  <2>3. QED
    BY <2>1, <2>2
<1>7. CoroutineInv'
  <2> SUFFICES ASSUME mode' = "async", phase' = "concurrent", NEW s \in Samples
               PROVE  /\ turns'[s] <= MaxTurns
                      /\ IF outs' = <<s>>
                         THEN ~Ended(s)' /\ s \notin Range(arrived') /\ RoleOfLast(heap'[s]) = "assistant"
                         ELSE ~Ended(s)' => RoleOfLast(heap'[s]) # "assistant"
    BY <1>1 DEF CoroutineInv
  <2>1. /\ turns[s] <= MaxTurns
        /\ IF outs = <<s>>
           THEN ~Ended(s) /\ s \notin Range(arrived) /\ RoleOfLast(heap[s]) = "assistant"
           ELSE ~Ended(s) => RoleOfLast(heap[s]) # "assistant"
    BY DEF EpisodeInv, CoroutineInv
  <2>2. outs = <<s>> => arrived' = arrived
    OBVIOUS
  <2>3. QED
    BY <1>2, <1>3, <2>1, <2>2
<1>8. InEpisode
  <2>1. phase \in {"returned", "raised"} => phase' \in {"returned", "raised"}
    OBVIOUS
  <2>2. \A s \in Samples : Gone(s) => Gone(s)'
    BY <1>3, <2>1 DEF Gone
  <2>3. QED
    BY <2>2 DEF InEpisode, StopsOrStays
<1>9. QED
  BY <1>4, <1>5, <1>6, <1>7, <1>8 DEF EpisodeInv

(* A coroutine counts the turn it begins.                                  *)
LEMMA BeginEpisode ==
  ASSUME RolloutInv, EpisodeInv, NEW s \in Samples, Begin(s)
  PROVE  EpisodeInv' /\ InEpisode
<1>1. /\ mode = "async" /\ phase = "concurrent" /\ turns[s] < MaxTurns
      /\ turns' = [turns EXCEPT ![s] = @ + 1]
      /\ UNCHANGED <<mode, task, phase, heap, served, total, truncated, terminated, arrived>>
      /\ UNCHANGED <<active, outs, replies>>
  BY DEF Begin, Idle, loop, gym
<1>2. Samples' = Samples
  BY <1>1 DEF Samples
<1>3. \A t : /\ SoundFor(t) => SoundFor(t)'
             /\ PaidUp(t) => PaidUp(t)'
             /\ Ended(t)' <=> Ended(t)
             /\ ~HasToPay(t) /\ ~HasToPay(t)'
  BY <1>1, SoundKept DEF Ended, HasToPay
<1>4. OutcomeInv'
  BY <1>1, <1>2, <1>3 DEF EpisodeInv, OutcomeInv, PerSample
<1>5. TurnInv' /\ OutsInv' /\ SaidInv'
  BY <1>1 DEF TurnInv, OutsInv, SaidInv, InLoop
<1>6. CoroutineInv'
  <2>1. turns = [t \in Samples |-> turns[t]] /\ turns[s] \in Nat /\ MaxTurns \in Nat
    BY RolloutAssumption DEF RolloutInv, LogsInv, PerSample
  <2>2. ASSUME NEW t \in Samples
        PROVE  /\ turns'[t] <= MaxTurns
               /\ IF outs' = <<t>>
                  THEN ~Ended(t)' /\ t \notin Range(arrived') /\ RoleOfLast(heap'[t]) = "assistant"
                  ELSE ~Ended(t)' => RoleOfLast(heap'[t]) # "assistant"
    <3>1. /\ turns[t] <= MaxTurns
          /\ IF outs = <<t>>
             THEN ~Ended(t) /\ t \notin Range(arrived) /\ RoleOfLast(heap[t]) = "assistant"
             ELSE ~Ended(t) => RoleOfLast(heap[t]) # "assistant"
      BY <1>1 DEF EpisodeInv, CoroutineInv
    <3>2. turns'[t] <= MaxTurns
      BY <1>1, <2>1, <3>1
    <3>3. QED
      BY <1>1, <1>3, <3>1, <3>2
  <2>3. Listing(arrived')
    BY <1>1 DEF EpisodeInv, CoroutineInv
  <2>4. QED
    BY <1>2, <2>2, <2>3 DEF CoroutineInv
<1>7. InEpisode
  BY <1>1, <1>3 DEF InEpisode, StopsOrStays, Gone
<1>8. QED
  BY <1>4, <1>5, <1>6, <1>7 DEF EpisodeInv

-----------------------------------------------------------------------------
(***************************************************************************)
(* The steps of the batch.                                                 *)
(***************************************************************************)
LEMMA SelectEpisode ==
  ASSUME RolloutInv, EpisodeInv, Select
  PROVE  EpisodeInv' /\ InEpisode
<1>1. /\ phase = "select" /\ phase' = "generate" /\ MoreTurns /\ outs' = <<>>
      /\ UNCHANGED <<mode, task, heap, served, total, truncated, terminated, turns, arrived, active>>
  BY DEF Select, sample, gym
<1>2. Samples' = Samples
  BY <1>1 DEF Samples
<1>3. \A t : /\ SoundFor(t) => SoundFor(t)'
             /\ PaidUp(t) => PaidUp(t)'
             /\ Ended(t)' <=> Ended(t)
             /\ ~HasToPay(t) /\ ~HasToPay(t)'
  BY <1>1, SoundKept DEF Ended, HasToPay
<1>4. OutcomeInv'
  BY <1>1, <1>2, <1>3 DEF EpisodeInv, OutcomeInv, PerSample
<1>5. TurnInv'
  <2>1. /\ arrived = <<>>
        /\ \A s \in Samples, k \in 1 .. Len(active) : active[k] = s => Fresh(s)
        /\ \A j, k \in 1 .. Len(active) : turns[active[j]] = turns[active[k]]
    BY <1>1 DEF EpisodeInv, TurnInv, InLoop
  <2>2. \A s \in Samples : Fresh(s) => Fresh(s)'
    BY <1>1, <1>3 DEF Fresh
  <2>3. \A k \in 1 .. Len(active) : turns[active[k]] < MaxTurns
    <3>1. turns[active[1]] < MaxTurns
      BY <1>1 DEF MoreTurns
    <3>2. Len(active) \in Nat
      BY <1>1, ListingDomain DEF RolloutInv, ActiveInv, InLoop
    <3>3. \A k \in 1 .. Len(active) : 1 \in 1 .. Len(active)
      BY <3>2
    <3>4. QED
      BY <2>1, <3>1, <3>3
  <2>4. QED
    BY <1>1, <1>2, <2>1, <2>2, <2>3 DEF TurnInv
<1>6. OutsInv' /\ SaidInv'
  <2>1. \A k \in 1 .. Len(outs') : FALSE
    BY <1>1, EmptyListing
  <2>2. QED
    BY <1>1, <2>1 DEF OutsInv, SaidInv
<1>7. CoroutineInv'
  BY <1>1 DEF EpisodeInv, CoroutineInv
<1>8. InEpisode
  BY <1>1, <1>3 DEF InEpisode, StopsOrStays, Gone
<1>9. QED
  BY <1>4, <1>5, <1>6, <1>7, <1>8 DEF EpisodeInv

(* The engine answers a row within its room.                               *)
LEMMA GenerateEpisode ==
  ASSUME RolloutInv, EpisodeInv, Generate
  PROVE  EpisodeInv' /\ InEpisode
<1>0. PICK k : k = Len(outs) + 1
  OBVIOUS
<1>1. /\ phase = "generate" /\ phase' = phase /\ Len(outs) < Len(view)
      /\ \E len \in Lengths(heap[view[k].log]) : outs' = Append(outs, AnswerTo(heap[view[k].log], len))
      /\ UNCHANGED <<mode, task, heap, served, total, truncated, terminated, turns, arrived>>
      /\ UNCHANGED <<active, replies>>
  BY <1>0 DEF Generate, sample, gym
<1>2. Samples' = Samples
  BY <1>1 DEF Samples
<1>3. \A t : /\ SoundFor(t) => SoundFor(t)'
             /\ PaidUp(t) => PaidUp(t)'
             /\ Ended(t)' <=> Ended(t)
             /\ ~HasToPay(t) /\ ~HasToPay(t)'
  BY <1>1, SoundKept DEF Ended, HasToPay
<1>4. OutcomeInv'
  BY <1>1, <1>2, <1>3 DEF EpisodeInv, OutcomeInv, PerSample
<1>5. TurnInv'
  BY <1>1, <1>2, <1>3 DEF EpisodeInv, TurnInv, InLoop, Fresh
<1>6. OutsInv'
  <2>1. /\ Len(active) \in Nat /\ Len(view) = Len(active)
        /\ \A j \in 1 .. Len(active) : active[j] \in Samples /\ view[j].log = active[j]
    BY <1>1, RowsOwn DEF RolloutInv
  <2>2. Listing(outs) /\ Len(outs) \in Nat
    BY <1>1, ListingDomain DEF RolloutInv, GenerateInv
  <2>3. k \in 1 .. Len(active)
    BY <1>0, <1>1, <2>1, <2>2
  <2>4. PICK s \in Samples : s = active[k] /\ view[k].log = s
    BY <2>1, <2>3
  <2>5. PICK len \in Lengths(heap[s]) : outs' = Append(outs, AnswerTo(heap[s], len))
    BY <1>1, <2>4
  <2>6. len \in 0 .. MaxLen - Size(heap[s])
    <3>1. PICK messages : messages = heap[s]
      OBVIOUS
    <3>2. Sized(messages) /\ len \in Lengths(messages)
      BY <2>5, <3>1 DEF EpisodeInv, OutcomeInv, SoundFor
    <3>3. len \in 0 .. MaxLen - Size(messages)
      BY <3>2, AnswerFits
    <3>4. QED
      BY <3>1, <3>3
  <2>7. PICK m : m = AnswerTo(heap[s], len)
    OBVIOUS
  <2>8. AnswersTo(m, heap[s])
    BY <2>6, <2>7 DEF AnswersTo
  <2>9. Len(outs') = k /\ outs'[k] = m /\ \A j \in 1 .. Len(outs) : outs'[j] = outs[j]
    BY <1>0, <2>2, <2>5, <2>7, ListingAppend
  <2>10. ASSUME NEW t \in Samples, NEW j \in 1 .. k, active[j] = t
         PROVE  AnswersTo(outs'[j], heap[t])
    <3>1. CASE j = k
      BY <2>4, <2>8, <2>9, <2>10, <3>1
    <3>2. CASE j # k
      <4>1. j \in 1 .. Len(outs)
        BY <1>0, <2>2, <3>2
      <4>2. AnswersTo(outs[j], heap[t])
        BY <1>1, <2>10, <4>1 DEF EpisodeInv, OutsInv
      <4>3. QED
        BY <2>9, <4>1, <4>2
    <3>3. QED
      BY <3>1, <3>2
  <2>11. QED
    BY <1>1, <1>2, <2>9, <2>10 DEF OutsInv
<1>7. SaidInv' /\ CoroutineInv'
  BY <1>1 DEF SaidInv, EpisodeInv, CoroutineInv
<1>8. InEpisode
  BY <1>1, <1>3 DEF InEpisode, StopsOrStays, Gone
<1>9. QED
  BY <1>4, <1>5, <1>6, <1>7, <1>8 DEF EpisodeInv

(* The answers enter the logs of the rows they are for.                    *)
LEMMA RespondEpisode ==
  ASSUME RolloutInv, EpisodeInv, Respond
  PROVE  EpisodeInv' /\ InEpisode
<1>1. /\ phase = "generate" /\ Len(outs) = Len(view) /\ phase' = "feedback"
      /\ heap' = Appended(view, outs)
      /\ UNCHANGED <<mode, task, served, total, truncated, terminated, turns, arrived>>
      /\ UNCHANGED <<active, replies>>
  BY DEF Respond, loop, gym
<1>2. Samples' = Samples
  BY <1>1 DEF Samples
<1>3. /\ \A s \in Samples, k \in 1 .. Len(active) : active[k] = s => heap'[s] = Append(heap[s], outs[k])
      /\ \A s \in Samples : (\A k \in 1 .. Len(active) : active[k] # s) => heap'[s] = heap[s]
  BY <1>1, <1>2, HeapAppended DEF RolloutInv
<1>4. Len(outs) = Len(active)
  BY <1>1, RowsOwn DEF RolloutInv
<1>5. \A s : (Ended(s)' <=> Ended(s)) /\ ~HasToPay(s) /\ ~HasToPay(s)'
  <2>1. replies' = <<>> /\ Len(<<>>) = 0
    BY <1>1, EmptyListing DEF RolloutInv, GenerateInv
  <2>2. Stepped' = {}
    BY <2>1 DEF Stepped
  <2>3. QED
    BY <1>1, <2>2 DEF Ended, HasToPay
<1>6. ASSUME NEW s \in Samples, NEW k \in 1 .. Len(active), active[k] = s
      PROVE  SoundFor(s)' /\ Spoken(s)' /\ Answers(s)
  <2>1. Fresh(s) /\ turns[s] < MaxTurns /\ arrived = <<>>
    BY <1>1, <1>6 DEF EpisodeInv, TurnInv, InLoop
  <2>2. Listing(heap[s]) /\ Len(heap[s]) >= 1 /\ Head(heap[s]).of = s /\ SoundFor(s)
    BY HeapOwn DEF RolloutInv, LogsInv, EpisodeInv, OutcomeInv
  <2>3. AnswersTo(outs[k], heap[s])
    BY <1>1, <1>4, <1>6 DEF EpisodeInv, OutsInv
  <2>4. PICK len \in 0 .. MaxLen - Size(heap[s]) : outs[k] = AnswerTo(heap[s], len)
    BY <2>3 DEF AnswersTo
  <2>5. PICK m : m = [role |-> "assistant", of |-> s, turn |-> Turn(heap[s]) + 1, len |-> len]
    OBVIOUS
  <2>6. heap'[s] = Append(heap[s], m)
    BY <1>3, <1>6, <2>2, <2>4, <2>5 DEF AnswerTo
  <2>7. m.role = "assistant" /\ m.len \in 0 .. MaxLen - Size(heap[s])
    BY <2>4, <2>5
  <2>8. ~truncated[s]
    BY <2>1 DEF Fresh, Ended
  <2>9. SoundFor(s)' /\ RoleOfLast(heap'[s]) = "assistant"
    BY <1>1, <2>2, <2>6, <2>7, <2>8, SoundAnswered
  <2>10. Turn(heap'[s]) = Turn(heap[s]) + 1
    BY <2>2, <2>6, <2>7, TurnAppended
  <2>11. Spoken(s)'
    BY <1>1, <1>5, <2>1, <2>9, <2>10 DEF Fresh, Spoken
  <2>12. s \notin Range(arrived)
    BY <2>1 DEF Range
  <2>13. ~Gone(s) /\ ~Gone(s)'
    BY <1>1, <1>5, <2>1, <2>12 DEF Gone, Fresh
  <2>14. Answers(s)
    BY <2>1, <2>4, <2>5, <2>6, <2>13 DEF Answers, Fresh
  <2>15. QED
    BY <2>9, <2>11, <2>14
<1>7. ASSUME NEW s \in Samples, \A k \in 1 .. Len(active) : active[k] # s
      PROVE  SoundFor(s)' /\ StopsOrStays(s)
  <2>1. heap'[s] = heap[s]
    BY <1>3, <1>7
  <2>2. SoundFor(s)'
    BY <1>1, <2>1, SoundKept DEF EpisodeInv, OutcomeInv
  <2>3. QED
    BY <1>1, <1>5, <2>1, <2>2 DEF StopsOrStays, Gone
<1>8. OutcomeInv'
  <2>1. \A s \in Samples : SoundFor(s)'
    BY <1>6, <1>7
  <2>2. \A s \in Samples : PaidUp(s)'
    BY <1>1, <1>5 DEF EpisodeInv, OutcomeInv, PaidUp
  <2>3. QED
    BY <1>1, <1>2, <1>5, <2>1, <2>2 DEF EpisodeInv, OutcomeInv, PerSample
<1>9. TurnInv'
  BY <1>1, <1>2, <1>6 DEF EpisodeInv, TurnInv, InLoop
<1>10. OutsInv' /\ SaidInv' /\ CoroutineInv'
  <2>1. replies' = <<>> /\ Len(<<>>) = 0
    BY <1>1, EmptyListing DEF RolloutInv, GenerateInv
  <2>2. Stepped' = {}
    BY <2>1 DEF Stepped
  <2>3. QED
    BY <1>1, <2>2 DEF OutsInv, SaidInv, EpisodeInv, CoroutineInv
<1>11. InEpisode
  BY <1>6, <1>7 DEF InEpisode
<1>12. QED
  BY <1>8, <1>9, <1>10, <1>11 DEF EpisodeInv

(* A reward that was said is still to be paid.                             *)
LEMMA StepEpisode ==
  ASSUME RolloutInv, EpisodeInv, Step
  PROVE  EpisodeInv' /\ InEpisode
<1>1. /\ phase = "feedback" /\ Len(replies) < Len(view) /\ phase' = phase
      /\ UNCHANGED <<mode, task, heap, total, truncated, terminated, turns, arrived>>
      /\ UNCHANGED active
  BY DEF Step, sample, gym
<1>2. PICK k : k = NextGrouped(view, DOMAIN view \ {replies[i].index : i \in DOMAIN replies})
  OBVIOUS
<1>3. k \in 1 .. Len(active) /\ k \notin Stepped
  BY <1>1, <1>2, RowLeft
<1>4. PICK r \in Replies :
        LET feedback == Feedback(heap[view[k].log], view[k].info, r)
        IN /\ replies' = Append(replies, [index |-> k, said |-> feedback])
           /\ Record(heap[view[k].log], view[k].info, feedback)
  BY <1>2 DEF Step
<1>5. /\ \A j \in 1 .. Len(active) :
              /\ active[j] \in Samples /\ view[j].log = active[j] /\ view[j].info = info[active[j]]
              /\ Head(heap[view[j].log]).of = active[j]
      /\ \A i, j \in 1 .. Len(active) : active[i] = active[j] => i = j
  BY <1>1, RowsOwn DEF RolloutInv
<1>6. PICK a \in Samples : a = active[k]
  BY <1>3, <1>5
<1>7. PICK fb : fb = Feedback(heap[a], info[a], r)
  OBVIOUS
<1>8. PICK e : e = [turn |-> Turn(heap[a]), given |-> info[a], said |-> fb]
  OBVIOUS
<1>9. /\ replies' = Append(replies, [index |-> k, said |-> fb])
      /\ served' = [served EXCEPT ![a] = Append(@, e)]
  BY <1>3, <1>4, <1>5, <1>6, <1>7, <1>8 DEF Record
<1>10. fb.of = a /\ fb.turn = Turn(heap[a]) /\ fb.obs \in Nat /\ fb.reward \in Int
  <2>1. fb.of = Head(heap[a]).of /\ fb.turn = Turn(heap[a]) /\ fb.obs = r.obs /\ fb.reward = r.reward
    BY <1>7 DEF Feedback
  <2>2. Head(heap[a]).of = a
    BY <1>3, <1>5, <1>6
  <2>3. r.obs \in Nat /\ r.reward \in Int
    BY <1>4, RolloutAssumption
  <2>4. QED
    BY <2>1, <2>2, <2>3
<1>11. Samples' = Samples
  BY <1>1 DEF Samples
<1>12. DOMAIN served = Samples /\ Listing(served[a]) /\ Listing(replies)
  BY <1>1, HeapOwn DEF RolloutInv, LogsInv, FeedbackInv
<1>13. served'[a] = Append(served[a], e) /\ \A s \in Samples \ {a} : served'[s] = served[s]
  BY <1>9, <1>12
<1>14. PICK n \in Nat : n = Len(served[a])
  BY <1>12, ListingDomain
<1>15. Len(served'[a]) = n + 1 /\ served'[a][n + 1] = e /\ \A t \in 1 .. n : served'[a][t] = served[a][t]
  BY <1>12, <1>13, <1>14, ListingAppend
<1>16. Stepped' = Stepped \cup {k}
  <2>1. PICK m \in Nat : m = Len(replies)
    BY <1>12, ListingDomain
  <2>2. Len(replies') = m + 1 /\ replies'[m + 1].index = k /\ \A i \in 1 .. m : replies'[i] = replies[i]
    BY <1>9, <1>12, <2>1, ListingAppend
  <2>3. 1 .. m + 1 = (1 .. m) \cup {m + 1}
    OBVIOUS
  <2>4. QED
    BY <2>1, <2>2, <2>3 DEF Stepped
<1>17. Stepped \subseteq 1 .. Len(active)
  BY <1>1 DEF RolloutInv, FeedbackInv
<1>18. \A s \in Samples : HasToPay(s)' <=> HasToPay(s) \/ s = a
  BY <1>1, <1>6, <1>16 DEF HasToPay
<1>19. ~HasToPay(a)
  BY <1>3, <1>5, <1>6, <1>17 DEF HasToPay
<1>20. SoundFor(a)' /\ Owed(a)'
  <2>1. SoundFor(a) /\ PaidUp(a)
    BY <1>1, <1>19 DEF EpisodeInv, OutcomeInv
  <2>2. e.said.reward \in Int /\ e.said = fb
    BY <1>8, <1>10
  <2>3. \A t \in 1 .. n : served[a][t].said.reward \in Int
    BY <1>14, <2>1 DEF SoundFor
  <2>4. \A t \in 1 .. n + 1 : served'[a][t].said.reward \in Int
    <3>1. 1 .. n + 1 = (1 .. n) \cup {n + 1}
      OBVIOUS
    <3>2. QED
      BY <1>15, <2>2, <2>3, <3>1
  <2>5. SoundFor(a)'
    BY <1>1, <1>15, <2>1, <2>4 DEF SoundFor, Marked
  <2>6. PICK steps : steps = served[a]
    OBVIOUS
  <2>7. RewardOf(Append(steps, e)) = RewardOf(steps) + e.said.reward
    BY <1>12, <1>14, <2>2, <2>3, <2>6, RewardAppended
  <2>8. RewardOf(served'[a]) = total[a] + e.said.reward
    BY <1>13, <2>1, <2>6, <2>7 DEF PaidUp
  <2>9. Owed(a)'
    BY <1>1, <1>15, <2>8 DEF Owed
  <2>10. QED
    BY <2>5, <2>9
<1>21. ASSUME NEW s \in Samples, s # a
       PROVE  SoundFor(s)' /\ IF HasToPay(s)' THEN Owed(s)' ELSE PaidUp(s)'
  <2>1. SoundFor(s) /\ IF HasToPay(s) THEN Owed(s) ELSE PaidUp(s)
    BY <1>1 DEF EpisodeInv, OutcomeInv
  <2>2. (SoundFor(s) => SoundFor(s)') /\ (PaidUp(s) => PaidUp(s)') /\ (Owed(s) => Owed(s)')
    BY <1>1, <1>13, <1>21, SoundKept
  <2>3. QED
    BY <1>18, <1>21, <2>1, <2>2
<1>22. OutcomeInv'
  <2>1. PerSample(total)'
    BY <1>1, <1>11 DEF EpisodeInv, OutcomeInv, PerSample
  <2>2. QED
    BY <1>11, <1>18, <1>20, <1>21, <2>1 DEF OutcomeInv
<1>23. \A s : Ended(s)' <=> Ended(s)
  BY <1>1 DEF Ended
<1>24. TurnInv'
  <2>1. \A s \in Samples : Spoken(s) => Spoken(s)'
    BY <1>1, <1>23 DEF Spoken
  <2>2. QED
    BY <1>1, <1>11, <2>1 DEF EpisodeInv, TurnInv, InLoop
<1>25. SaidInv'
  <2> SUFFICES ASSUME NEW s \in Samples, NEW j \in Stepped', active[j] = s
               PROVE  SaidAbout(served[s][Len(served[s])].said, s)'
    BY <1>1, <1>11 DEF SaidInv
  <2>1. CASE s = a
    <3>1. served'[s][Len(served'[s])].said = fb
      BY <1>8, <1>15, <2>1
    <3>2. QED
      BY <1>1, <1>10, <2>1, <3>1 DEF SaidAbout
  <2>2. CASE s # a
    <3>1. j \in Stepped
      BY <1>6, <1>16, <2>2
    <3>2. SaidAbout(served[s][Len(served[s])].said, s)
      BY <1>1, <3>1 DEF EpisodeInv, SaidInv
    <3>3. served'[s] = served[s]
      BY <1>13, <2>2
    <3>4. QED
      BY <1>1, <3>2, <3>3 DEF SaidAbout
  <2>3. QED
    BY <2>1, <2>2
<1>26. OutsInv' /\ CoroutineInv'
  BY <1>1 DEF OutsInv, EpisodeInv, CoroutineInv
<1>27. InEpisode
  BY <1>1, <1>23 DEF InEpisode, StopsOrStays, Gone
<1>28. QED
  BY <1>22, <1>24, <1>25, <1>26, <1>27 DEF EpisodeInv

(* What is collected for a row is what its environment said last.          *)
LEMMA HeardStepped ==
  ASSUME RolloutInv, phase = "feedback", NEW s \in Samples, NEW k \in 1 .. Len(active),
         active[k] = s, IsHeard(s)
  PROVE  k \in Stepped
<1>1. k \in Stepped \/ IsTold(s)
  BY DEF RolloutInv, FeedbackInv
<1>2. Len(served[s]) \in Nat
  BY ListingDomain DEF RolloutInv, LogsInv
<1>3. ~IsTold(s)
  BY <1>2 DEF IsTold, IsHeard
<1>4. QED
  BY <1>1, <1>3

(* The turn ends: every row observes what was said about it, and is paid.  *)
LEMMA CollectEpisode ==
  ASSUME RolloutInv, EpisodeInv, Collect
  PROVE  EpisodeInv' /\ InEpisode
<1> DEFINE said == InOrder
           place(s) == CHOOSE k \in DOMAIN active : active[k] = s
           over(k) == Overflows(heap[ref[active[k]]], said[k])
           going == {k \in DOMAIN active : ~said[k].end /\ ~over(k)}
           messages == [k \in DOMAIN view |->
                          Observation(said[k], Cut(heap[ref[active[k]]], said[k]))]
           goes(s) == s \in Range(active) /\ place(s) \in going
<1>1. /\ phase = "feedback" /\ Len(replies) = Len(view) /\ phase' = "select"
      /\ UNCHANGED <<mode, task, served, arrived>>
  BY DEF Collect, gym
<1>2. /\ heap' = Appended(view, messages)
      /\ total' = [s \in Samples |->
             IF s \in Range(active) THEN total[s] + said[place(s)].reward ELSE total[s]]
      /\ turns' = [s \in Samples |-> IF s \in Range(active) THEN turns[s] + 1 ELSE turns[s]]
      /\ truncated' = [s \in Samples |->
             truncated[s] \/ (s \in Range(active) /\ over(place(s)))]
      /\ terminated' = [s \in Samples |->
             terminated[s] \/ (s \in Range(active) /\ ~goes(s))]
      /\ active' = Taken(active, going)
  BY Zenon DEF Collect, Taken
<1>3. PICK n \in Nat : n = Len(active)
  BY <1>1, RowsOwn DEF RolloutInv
<1>4. /\ DOMAIN active = 1 .. n /\ DOMAIN view = 1 .. n
      /\ \A k \in 1 .. n : active[k] \in Samples /\ ref[active[k]] = active[k]
      /\ \A j, k \in 1 .. n : active[j] = active[k] => j = k
  BY <1>1, <1>3, RowsOwn, HeapOwn DEF RolloutInv
<1>5. going \subseteq 1 .. n
  BY <1>4
<1>6. \A k \in 1 .. n : messages[k] = Observation(said[k], Cut(heap[active[k]], said[k]))
  BY <1>4
<1>7. \A k \in 1 .. n : over(k) <=> Overflows(heap[active[k]], said[k])
  BY <1>4
<1>8. \A k \in 1 .. n : k \in going <=> ~said[k].end /\ ~over(k)
  BY <1>4
<1>9. \A s \in Samples, k \in 1 .. n : active[k] = s =>
        IsHeard(s) /\ said[k] = served[s][Len(served[s])].said
  BY <1>1, <1>3, AllHeard
<1> HIDE DEF messages, over, said
<1>10. ASSUME NEW s \in Samples, NEW k \in 1 .. n, active[k] = s
       PROVE  place(s) = k /\ s \in Range(active)
  BY <1>4, <1>10 DEF Range
<1>11. ASSUME NEW s \in Samples, \A k \in 1 .. n : active[k] # s
       PROVE  s \notin Range(active)
  BY <1>4, <1>11 DEF Range
<1> HIDE DEF place, going
<1>12. Samples' = Samples
  BY <1>1 DEF Samples
<1>13. /\ \A s \in Samples, k \in 1 .. n : active[k] = s => heap'[s] = Append(heap[s], messages[k])
       /\ \A s \in Samples : (\A k \in 1 .. n : active[k] # s) => heap'[s] = heap[s]
  BY <1>1, <1>2, <1>3, <1>12, HeapAppended DEF RolloutInv
<1>14. ASSUME NEW s \in Samples, NEW k \in 1 .. n, active[k] = s
       PROVE  /\ SoundFor(s)' /\ PaidUp(s)' /\ Observes(s)
              /\ turns'[s] = turns[s] + 1
              /\ k \in going => Fresh(s)'
  <2>1. PICK fb : fb = said[k]
    OBVIOUS
  <2>2. IsHeard(s) /\ fb = served[s][Len(served[s])].said
    BY <1>9, <1>14, <2>1
  <2>3. k \in Stepped
    BY <1>1, <1>3, <1>14, <2>2, HeardStepped
  <2>4. SaidAbout(fb, s)
    BY <1>1, <1>14, <2>2, <2>3 DEF EpisodeInv, SaidInv
  <2>5. Spoken(s) /\ arrived = <<>>
    BY <1>1, <1>3, <1>14 DEF EpisodeInv, TurnInv, InLoop
  <2>6. SoundFor(s) /\ Owed(s)
    <3>1. HasToPay(s)
      BY <1>1, <1>14, <2>3 DEF HasToPay
    <3>2. QED
      BY <1>1, <3>1 DEF EpisodeInv, OutcomeInv
  <2>7. PICK m : m = Observation(fb, Cut(heap[s], fb))
    OBVIOUS
  <2>8. heap'[s] = Append(heap[s], m) /\ Listing(heap[s])
    BY <1>6, <1>13, <1>14, <2>1, <2>7 DEF RolloutInv, LogsInv
  <2>9. /\ total'[s] = total[s] + fb.reward /\ turns'[s] = turns[s] + 1
        /\ truncated'[s] <=> Overflows(heap[s], fb)
        /\ truncated'[s] \in BOOLEAN
        /\ k \in going => ~terminated'[s] /\ ~truncated'[s]
    <3>1. place(s) = k /\ s \in Range(active)
      BY <1>10, <1>14
    <3>2. over(k) <=> Overflows(heap[s], fb)
      BY <1>7, <1>14, <2>1
    <3>3. ~terminated[s] /\ ~truncated[s]
      BY <2>5 DEF Spoken, Ended
    <3>4. total'[s] = total[s] + fb.reward /\ turns'[s] = turns[s] + 1
      BY <1>2, <2>1, <3>1
    <3>5. truncated'[s] = (truncated[s] \/ over(k))
      BY <1>2, <3>1
    <3>6. terminated'[s] = (terminated[s] \/ ~(k \in going))
      BY <1>2, <3>1
    <3>7. truncated'[s] \in BOOLEAN /\ (truncated'[s] <=> over(k))
      BY <3>3, <3>5, Zenon
    <3>8. k \in going => ~terminated'[s]
      BY <3>3, <3>6, Zenon
    <3>9. k \in going => ~over(k)
      BY <1>8
    <3>10. QED
      BY <3>2, <3>4, <3>7, <3>8, <3>9
  <2>10. Len(served[s]) \in Nat /\ Len(served[s]) >= 1
    BY <2>2, ListingDomain DEF IsHeard, RolloutInv, LogsInv
  <2>11. total'[s] \in Int
    <3>1. total[s] \in Int /\ \A t \in 1 .. Len(served[s]) : served[s][t].said.reward \in Int
      BY <2>6 DEF SoundFor
    <3>2. fb.reward \in Int
      BY <2>2, <2>10, <3>1
    <3>3. QED
      BY <2>9, <3>1, <3>2
  <2>12. fb.obs \in Nat
    BY <2>4 DEF SaidAbout
  <2>13. /\ SoundFor(s)' /\ RoleOfLast(heap'[s]) = "environment"
         /\ Size(heap'[s]) = MaxLen => truncated'[s]
    <3>1. heap'[s] = Append(heap[s], Observation(fb, Cut(heap[s], fb)))
      BY <2>7, <2>8
    <3>2. \A t \in 1 .. Len(served'[s]) : served'[s][t].said.reward \in Int
      BY <1>1, <2>6 DEF SoundFor
    <3>3. QED
      BY <2>6, <2>8, <2>9, <2>11, <2>12, <3>1, <3>2, SoundObserved
  <2>14. PaidUp(s)'
    <3>1. total'[s] = RewardOf(served[s])
      BY <2>2, <2>6, <2>9 DEF Owed
    <3>2. QED
      BY <1>1, <3>1 DEF PaidUp
  <2>15. Observes(s)
    <3>1. PICK len : len = Cut(heap[s], fb)
      OBVIOUS
    <3>2. len \in 0 .. MaxLen - Size(heap[s])
      <4>1. PICK log : log = heap[s]
        OBVIOUS
      <4>2. Sized(log)
        BY <2>6, <4>1 DEF SoundFor
      <4>3. Cut(log, fb) \in 0 .. MaxLen - Size(log)
        BY <2>12, <4>2, CutFits
      <4>4. QED
        BY <3>1, <4>1, <4>3
    <3>3. m = [role |-> "environment", of |-> s, turn |-> Turn(heap[s]), len |-> len]
      BY <2>4, <2>7, <3>1 DEF SaidAbout, Observation
    <3>4. s \notin Range(arrived)
      BY <2>5 DEF Range
    <3>5. ~Gone(s) /\ RoleOfLast(heap[s]) = "assistant"
      BY <1>1, <2>5, <3>4 DEF Spoken, Gone
    <3>6. Size(heap'[s]) = MaxLen => Gone(s)'
      BY <2>13 DEF Gone, Ended
    <3>7. heap'[s] = Append(heap[s], [role |-> "environment", of |-> s,
                                   turn |-> Turn(heap[s]), len |-> len])
      BY <2>8, <3>3
    <3>8. QED
      BY <3>2, <3>5, <3>6, <3>7 DEF Observes
  <2>16. k \in going => Fresh(s)'
    <3>1. m.role # "assistant"
      BY <2>7 DEF Observation
    <3>2. Turn(heap'[s]) = Turn(heap[s])
      BY <2>8, <3>1, TurnAppended
    <3>3. turns'[s] = Turn(heap'[s])
      BY <2>5, <2>9, <3>2 DEF Spoken
    <3>4. QED
      BY <2>9, <2>13, <3>3 DEF Fresh, Ended
  <2>17. QED
    BY <2>9, <2>13, <2>14, <2>15, <2>16
<1>15. ASSUME NEW s \in Samples, \A k \in 1 .. n : active[k] # s
       PROVE  SoundFor(s)' /\ PaidUp(s)' /\ StopsOrStays(s)
  <2>1. s \notin Range(active)
    BY <1>11, <1>15
  <2>2. heap'[s] = heap[s] /\ total'[s] = total[s] /\ terminated'[s] = (terminated[s] \/ FALSE)
        /\ truncated'[s] = (truncated[s] \/ FALSE)
    BY <1>2, <1>13, <1>15, <2>1
  <2>3. SoundFor(s) /\ PaidUp(s)
    <3>1. Stepped \subseteq 1 .. n
      BY <1>1, <1>3 DEF RolloutInv, FeedbackInv
    <3>2. ~HasToPay(s)
      BY <1>15, <3>1 DEF HasToPay
    <3>3. QED
      BY <1>1, <3>2 DEF EpisodeInv, OutcomeInv
  <2>4. truncated[s] \in BOOLEAN
    BY <2>3 DEF SoundFor
  <2>5. truncated'[s] = truncated[s]
    BY <2>2, <2>4
  <2>6. SoundFor(s)' /\ PaidUp(s)'
    BY <1>1, <2>2, <2>3, <2>5, SoundKept
  <2>7. Gone(s) => Gone(s)'
    <3>1. terminated[s] => terminated'[s]
      BY <2>2, Zenon
    <3>2. QED
      BY <1>1, <2>5, <3>1 DEF Gone, Ended
  <2>8. QED
    BY <2>2, <2>6, <2>7 DEF StopsOrStays
<1>16. OutcomeInv'
  <2>1. PerSample(total)'
    BY <1>2, <1>12 DEF PerSample
  <2>2. \A s \in Samples : SoundFor(s)' /\ PaidUp(s)'
    BY <1>14, <1>15
  <2>3. \A s : ~HasToPay(s)'
    BY <1>1 DEF HasToPay
  <2>4. QED
    BY <1>12, <2>1, <2>2, <2>3 DEF OutcomeInv
<1>17. TurnInv'
  <2>1. \A i \in 1 .. Len(active') : \E k \in going : active'[i] = active[k]
    <3>1. PICK rows, g : rows = active /\ g = going
      OBVIOUS
    <3>2. g \subseteq 1 .. n /\ \A j, k \in 1 .. n : rows[j] = rows[k] => j = k
      BY <1>4, <1>5, <3>1
    <3>3. \A i \in 1 .. Len(Taken(rows, g)) : \E k \in g : Taken(rows, g)[i] = rows[k]
      BY <3>2, SurvivorsTaken, Zenon
    <3>4. PICK taken : taken = Taken(rows, g)
      OBVIOUS
    <3>5. \A i \in 1 .. Len(taken) : \E k \in g : taken[i] = rows[k]
      BY <3>3, <3>4
    <3>6. active' = taken
      BY <1>2, <3>1, <3>4
    <3>7. QED
      BY <3>1, <3>5, <3>6
  <2>2. arrived' = <<>>
    BY <1>1 DEF EpisodeInv, TurnInv, InLoop
  <2>3. ASSUME NEW s \in Samples, NEW i \in 1 .. Len(active'), active'[i] = s
        PROVE  Fresh(s)'
    <3>1. PICK k \in 1 .. n : k \in going /\ active[k] = s
      BY <1>5, <2>1, <2>3
    <3>2. QED
      BY <1>14, <3>1
  <2>4. \A j, k \in 1 .. n : turns[active[j]] = turns[active[k]]
    BY <1>1, <1>3 DEF EpisodeInv, TurnInv, InLoop
  <2>5. ASSUME NEW k \in 1 .. n
        PROVE  turns'[active[k]] = turns[active[k]] + 1
    <3>1. PICK s \in Samples : s = active[k]
      BY <1>4
    <3>2. turns'[s] = turns[s] + 1
      BY <1>14, <3>1
    <3>3. QED
      BY <3>1, <3>2
  <2>6. ASSUME NEW i \in 1 .. Len(active'), NEW j \in 1 .. Len(active')
        PROVE  turns'[active'[i]] = turns'[active'[j]]
    <3>1. PICK k \in 1 .. n : active'[i] = active[k]
      BY <1>5, <2>1
    <3>2. PICK l \in 1 .. n : active'[j] = active[l]
      BY <1>5, <2>1
    <3>3. turns[active[k]] = turns[active[l]]
      BY <2>4
    <3>4. QED
      BY <2>5, <3>1, <3>2, <3>3
  <2>7. QED
    BY <1>1, <1>12, <2>2, <2>3, <2>6 DEF TurnInv
<1>18. OutsInv' /\ SaidInv' /\ CoroutineInv'
  BY <1>1 DEF OutsInv, SaidInv, EpisodeInv, CoroutineInv
<1>19. InEpisode
  BY <1>14, <1>15 DEF InEpisode
<1>20. QED
  BY <1>16, <1>17, <1>18, <1>19 DEF EpisodeInv

-----------------------------------------------------------------------------
(***************************************************************************)
(* The steps of a coroutine.                                               *)
(***************************************************************************)
LEMMA ResumeEpisode ==
  ASSUME RolloutInv, EpisodeInv, NEW s \in Samples, Resume(s)
  PROVE  EpisodeInv' /\ InEpisode
<1>1. /\ mode = "async" /\ phase = "concurrent" /\ outs = <<>> /\ Pending(s) /\ outs' = <<s>>
      /\ \E len \in Lengths(heap[ref[s]]) :
             heap' = [heap EXCEPT ![ref[s]] = Append(@, AnswerTo(heap[ref[s]], len))]
      /\ UNCHANGED <<mode, task, phase, served, total, truncated, terminated, turns, arrived>>
  BY DEF Resume, Idle, gym
<1>2. Samples' = Samples
  BY <1>1 DEF Samples
<1>3. ref[s] = s /\ Head(heap[s]).of = s /\ DOMAIN heap = Samples
  BY HeapOwn DEF RolloutInv
<1>4. PICK len \in Lengths(heap[s]) : heap' = [heap EXCEPT ![s] = Append(@, AnswerTo(heap[s], len))]
  BY <1>1, <1>3
<1>5. PICK m : m = [role |-> "assistant", of |-> s, turn |-> Turn(heap[s]) + 1, len |-> len]
  OBVIOUS
<1>6. heap'[s] = Append(heap[s], m) /\ \A t \in Samples \ {s} : heap'[t] = heap[t]
  <2>1. AnswerTo(heap[s], len) = m
    BY <1>3, <1>5 DEF AnswerTo
  <2>2. QED
    BY <1>3, <1>4, <2>1
<1>7. Listing(heap[s]) /\ SoundFor(s)
  BY DEF RolloutInv, LogsInv, EpisodeInv, OutcomeInv
<1>8. len \in 0 .. MaxLen - Size(heap[s])
  <2>1. PICK messages : messages = heap[s]
    OBVIOUS
  <2>2. Sized(messages) /\ len \in Lengths(messages)
    BY <1>4, <1>7, <2>1 DEF SoundFor
  <2>3. len \in 0 .. MaxLen - Size(messages)
    BY <2>2, AnswerFits
  <2>4. QED
    BY <2>1, <2>3
<1>9. turns[s] > Len(asked[s]) /\ s \notin Range(arrived) /\ Len(asked[s]) \in Nat /\ turns[s] \in Nat
  BY <1>1, ListingDomain DEF Pending, RolloutInv, LogsInv
<1>10. \A t \in Samples : outs # <<t>>
  BY <1>1
<1>11. ~Ended(s) /\ AtRest(s)
  <2>1. (~Ended(s) => AtRest(s)) /\ (Ended(s) => turns[s] <= Len(asked[s]))
    BY <1>1, <1>10 DEF RolloutInv, AsyncInv
  <2>2. QED
    BY <1>9, <2>1
<1>12. turns[s] <= MaxTurns /\ RoleOfLast(heap[s]) # "assistant"
  BY <1>1, <1>10, <1>11 DEF EpisodeInv, CoroutineInv
<1>13. Turn(heap[s]) < MaxTurns
  <2>1. Turn(heap[s]) = Len(asked[s]) /\ MaxTurns \in Nat
    BY <1>11, RolloutAssumption DEF AtRest
  <2>2. QED
    BY <1>9, <1>12, <2>1
<1>14. \A t : (Ended(t)' <=> Ended(t)) /\ ~HasToPay(t) /\ ~HasToPay(t)' /\ (Gone(t)' <=> Gone(t))
  BY <1>1 DEF Ended, HasToPay, Gone
<1>15. SoundFor(s)' /\ RoleOfLast(heap'[s]) = "assistant"
  <2>1. m.role = "assistant" /\ m.len \in 0 .. MaxLen - Size(heap[s])
    BY <1>5, <1>8
  <2>2. ~truncated[s]
    BY <1>11 DEF Ended
  <2>3. QED
    BY <1>1, <1>6, <1>7, <2>1, <2>2, SoundAnswered
<1>16. Answers(s)
  <2>1. ~Gone(s)
    BY <1>1, <1>9, <1>11 DEF Gone
  <2>2. QED
    BY <1>5, <1>6, <1>8, <1>12, <1>13, <1>14, <2>1 DEF Answers
<1>17. OutcomeInv'
  <2>1. \A t \in Samples : SoundFor(t)'
    <3>1. \A t \in Samples \ {s} : SoundFor(t)'
      BY <1>1, <1>6, SoundKept DEF EpisodeInv, OutcomeInv
    <3>2. QED
      BY <1>15, <3>1
  <2>2. \A t \in Samples : PaidUp(t)'
    BY <1>1, <1>14 DEF EpisodeInv, OutcomeInv, PaidUp
  <2>3. QED
    BY <1>1, <1>2, <1>14, <2>1, <2>2 DEF EpisodeInv, OutcomeInv, PerSample
<1>18. CoroutineInv'
  <2>1. ASSUME NEW t \in Samples
        PROVE  /\ turns'[t] <= MaxTurns
               /\ IF outs' = <<t>>
                  THEN ~Ended(t)' /\ t \notin Range(arrived') /\ RoleOfLast(heap'[t]) = "assistant"
                  ELSE ~Ended(t)' => RoleOfLast(heap'[t]) # "assistant"
    <3>1. turns[t] <= MaxTurns /\ (~Ended(t) => RoleOfLast(heap[t]) # "assistant")
      BY <1>1, <1>10 DEF EpisodeInv, CoroutineInv
    <3>2. CASE t = s
      BY <1>1, <1>9, <1>11, <1>14, <1>15, <3>1, <3>2
    <3>3. CASE t # s
      <4>1. outs' # <<t>> /\ heap'[t] = heap[t]
        BY <1>1, <1>6, <3>3
      <4>2. QED
        BY <1>1, <1>14, <3>1, <4>1
    <3>4. QED
      BY <3>2, <3>3
  <2>2. Listing(arrived')
    BY <1>1 DEF EpisodeInv, CoroutineInv
  <2>3. QED
    BY <1>2, <2>1, <2>2 DEF CoroutineInv
<1>19. TurnInv' /\ OutsInv' /\ SaidInv'
  BY <1>1 DEF TurnInv, OutsInv, SaidInv, InLoop
<1>20. InEpisode
  <2>1. \A t \in Samples \ {s} : StopsOrStays(t)
    BY <1>6, <1>14 DEF StopsOrStays
  <2>2. QED
    BY <1>16, <2>1 DEF InEpisode
<1>21. QED
  BY <1>17, <1>18, <1>19, <1>20 DEF EpisodeInv

(* One coroutine's environment is heard, paid and cut.                     *)
LEMMA StepOneEpisode ==
  ASSUME RolloutInv, EpisodeInv, StepOne
  PROVE  EpisodeInv' /\ InEpisode
<1>1. /\ mode = "async" /\ phase = "concurrent" /\ outs # <<>> /\ outs' = <<>>
      /\ UNCHANGED <<mode, task, phase, turns, arrived>>
  BY DEF StepOne, gym
<1>2. PICK s \in Samples : outs = <<s>>
  BY <1>1 DEF RolloutInv, AsyncInv
<1>3. outs[1] = s /\ ref[s] = s /\ Head(heap[s]).of = s
  BY <1>2, HeapOwn DEF RolloutInv
<1>4. PICK r \in Replies :
        LET t == outs[1]
            messages == heap[ref[t]]
            said == Feedback(messages, info[t], r)
        IN /\ Record(messages, info[t], said)
           /\ heap' = [heap EXCEPT ![ref[t]] = Append(@, Observation(said, Cut(messages, said)))]
           /\ total' = [total EXCEPT ![t] = @ + said.reward]
           /\ terminated' = [terminated EXCEPT ![t] = said.end]
           /\ truncated' = [truncated EXCEPT ![t] = Overflows(messages, said)]
  BY Zenon DEF StepOne
<1>5. PICK said : said = Feedback(heap[s], info[s], r)
  OBVIOUS
<1>6. PICK e : e = [turn |-> Turn(heap[s]), given |-> info[s], said |-> said]
  OBVIOUS
<1>7. PICK m : m = Observation(said, Cut(heap[s], said))
  OBVIOUS
<1>8. /\ served' = [served EXCEPT ![s] = Append(@, e)]
      /\ heap' = [heap EXCEPT ![s] = Append(@, m)]
      /\ total' = [total EXCEPT ![s] = @ + said.reward]
      /\ terminated' = [terminated EXCEPT ![s] = said.end]
      /\ truncated' = [truncated EXCEPT ![s] = Overflows(heap[s], said)]
  BY <1>3, <1>4, <1>5, <1>6, <1>7 DEF Record
<1>9. said.of = s /\ said.turn = Turn(heap[s]) /\ said.obs \in Nat /\ said.reward \in Int
  <2>1. said.of = Head(heap[s]).of /\ said.turn = Turn(heap[s]) /\ said.obs = r.obs /\ said.reward = r.reward
    BY <1>5 DEF Feedback
  <2>2. r.obs \in Nat /\ r.reward \in Int
    BY <1>4, RolloutAssumption
  <2>3. QED
    BY <1>3, <2>1, <2>2
<1>10. Samples' = Samples
  BY <1>1 DEF Samples
<1>11. /\ DOMAIN heap = Samples /\ DOMAIN served = Samples /\ DOMAIN total = Samples
       /\ DOMAIN terminated = Samples /\ DOMAIN truncated = Samples
       /\ Listing(heap[s]) /\ Listing(served[s])
  BY HeapOwn DEF RolloutInv, LogsInv, EpisodeInv, OutcomeInv, PerSample
<1>12. /\ served'[s] = Append(served[s], e) /\ heap'[s] = Append(heap[s], m)
       /\ total'[s] = total[s] + said.reward /\ truncated'[s] = Overflows(heap[s], said)
  BY <1>8, <1>11
<1>13. \A t \in Samples \ {s} :
         /\ served'[t] = served[t] /\ heap'[t] = heap[t] /\ total'[t] = total[t]
         /\ truncated'[t] = truncated[t] /\ terminated'[t] = terminated[t]
  BY <1>8, <1>11
<1>14. ~Ended(s) /\ s \notin Range(arrived) /\ RoleOfLast(heap[s]) = "assistant"
  BY <1>1, <1>2 DEF EpisodeInv, CoroutineInv
<1>15. \A t : ~HasToPay(t) /\ ~HasToPay(t)'
  BY <1>1 DEF HasToPay
<1>16. SoundFor(s) /\ PaidUp(s)
  BY <1>1, <1>15 DEF EpisodeInv, OutcomeInv
<1>17. /\ \A t \in 1 .. Len(served'[s]) : served'[s][t].said.reward \in Int
       /\ PaidUp(s)'
  <2>1. PICK steps : steps = served[s]
    OBVIOUS
  <2>2. PICK n \in Nat : n = Len(steps)
    BY <1>11, <2>1, ListingDomain
  <2>3. \A t \in 1 .. n : steps[t].said.reward \in Int
    BY <1>16, <2>1, <2>2 DEF SoundFor
  <2>4. PICK longer : longer = Append(steps, e)
    OBVIOUS
  <2>5. Len(longer) = n + 1 /\ longer[n + 1] = e /\ \A t \in 1 .. n : longer[t] = steps[t]
    BY <1>11, <2>1, <2>2, <2>4, ListingAppend
  <2>6. e.said = said /\ e.said.reward \in Int
    BY <1>6, <1>9
  <2>7. RewardOf(longer) = RewardOf(steps) + e.said.reward
    BY <1>11, <2>1, <2>2, <2>3, <2>4, <2>6, RewardAppended
  <2>8. longer = served'[s]
    BY <1>12, <2>1, <2>4
  <2>9. PaidUp(s)'
    BY <1>12, <1>16, <2>1, <2>6, <2>7, <2>8 DEF PaidUp
  <2>10. \A t \in 1 .. n + 1 : longer[t].said.reward \in Int
    <3>1. 1 .. n + 1 = (1 .. n) \cup {n + 1}
      OBVIOUS
    <3>2. QED
      BY <2>3, <2>5, <2>6, <3>1
  <2>11. QED
    BY <2>5, <2>8, <2>9, <2>10
<1>18. /\ SoundFor(s)' /\ RoleOfLast(heap'[s]) = "environment"
       /\ Size(heap'[s]) = MaxLen => truncated'[s]
  <2>1. total'[s] \in Int
    BY <1>9, <1>12, <1>16 DEF SoundFor
  <2>2. truncated'[s] \in BOOLEAN /\ (truncated'[s] <=> Overflows(heap[s], said))
    <3>1. PICK over : over = Overflows(heap[s], said)
      OBVIOUS
    <3>2. over \in BOOLEAN
      BY <3>1 DEF Overflows
    <3>3. QED
      BY <1>12, <3>1, <3>2
  <2>3. heap'[s] = Append(heap[s], Observation(said, Cut(heap[s], said)))
    BY <1>7, <1>12
  <2>4. QED
    BY <1>9, <1>11, <1>16, <1>17, <2>1, <2>2, <2>3, SoundObserved
<1>19. Observes(s)
  <2>1. PICK len : len = Cut(heap[s], said)
    OBVIOUS
  <2>2. len \in 0 .. MaxLen - Size(heap[s])
    <3>1. PICK log : log = heap[s]
      OBVIOUS
    <3>2. Sized(log)
      BY <1>16, <3>1 DEF SoundFor
    <3>3. Cut(log, said) \in 0 .. MaxLen - Size(log)
      BY <1>9, <3>2, CutFits
    <3>4. QED
      BY <2>1, <3>1, <3>3
  <2>3. m = [role |-> "environment", of |-> s, turn |-> Turn(heap[s]), len |-> len]
    BY <1>7, <1>9, <2>1 DEF Observation
  <2>4. heap'[s] = Append(heap[s], [role |-> "environment", of |-> s, turn |-> Turn(heap[s]), len |-> len])
    BY <1>12, <2>3
  <2>5. ~Gone(s)
    BY <1>1, <1>14 DEF Gone
  <2>6. Size(heap'[s]) = MaxLen => Gone(s)'
    BY <1>18 DEF Gone, Ended
  <2>7. QED
    BY <1>14, <2>2, <2>4, <2>5, <2>6 DEF Observes
<1>20. \A t \in Samples \ {s} : /\ Ended(t)' <=> Ended(t)
                                /\ StopsOrStays(t)
  BY <1>1, <1>13 DEF Ended, StopsOrStays, Gone
<1>21. OutcomeInv'
  <2>1. PerSample(total)'
    BY <1>8, <1>10, <1>11 DEF PerSample, EpisodeInv, OutcomeInv
  <2>2. \A t \in Samples \ {s} : SoundFor(t)' /\ PaidUp(t)'
    BY <1>1, <1>13, <1>15, SoundKept DEF EpisodeInv, OutcomeInv
  <2>3. QED
    BY <1>10, <1>15, <1>17, <1>18, <2>1, <2>2 DEF OutcomeInv
<1>22. CoroutineInv'
  <2>1. ASSUME NEW t \in Samples
        PROVE  turns'[t] <= MaxTurns /\ outs' # <<t>> /\ (~Ended(t)' => RoleOfLast(heap'[t]) # "assistant")
    <3>1. turns'[t] <= MaxTurns /\ outs' # <<t>>
      BY <1>1 DEF EpisodeInv, CoroutineInv
    <3>2. CASE t = s
      BY <1>18, <3>1, <3>2
    <3>3. CASE t # s
      <4>1. outs # <<t>>
        BY <1>2, <3>3
      <4>2. ~Ended(t) => RoleOfLast(heap[t]) # "assistant"
        BY <1>1, <4>1 DEF EpisodeInv, CoroutineInv
      <4>3. QED
        BY <1>13, <1>20, <3>1, <3>3, <4>2
    <3>4. QED
      BY <3>2, <3>3
  <2>2. Listing(arrived')
    BY <1>1 DEF EpisodeInv, CoroutineInv
  <2>3. QED
    BY <1>10, <2>1, <2>2 DEF CoroutineInv
<1>23. TurnInv' /\ OutsInv' /\ SaidInv'
  BY <1>1 DEF TurnInv, OutsInv, SaidInv, InLoop
<1>24. InEpisode
  BY <1>19, <1>20 DEF InEpisode
<1>25. QED
  BY <1>21, <1>22, <1>23, <1>24 DEF EpisodeInv

-----------------------------------------------------------------------------
(***************************************************************************)
(* Every rollout starts with the prompts, and every step keeps both        *)
(* invariants.                                                             *)
(***************************************************************************)
LEMMA EmptySums == Size(<<>>) = 0 /\ RewardOf(<<>>) = 0
<1>1. DOMAIN <<>> = {} /\ IsFiniteSet({})
  BY FS_EmptySet
<1>2. \A w : Total(w, {}) = 0
  <2> SUFFICES ASSUME NEW w PROVE Total(w, {}) = 0
    OBVIOUS
  <2>1. PICK f : IsSum(f, w, {}) /\ Total(w, {}) = f[{}]
    BY <1>1, TotalIs
  <2>2. QED
    BY <2>1 DEF IsSum, SumsTo
<1>3. PICK empty : empty = <<>>
  OBVIOUS
<1>4. DOMAIN empty = {} /\ IsFiniteSet(DOMAIN empty)
  BY <1>1, <1>3
<1>5. Size(empty) = Total(LensOf(empty), DOMAIN empty) /\ RewardOf(empty) = Total(RewardsIn(empty), DOMAIN empty)
  BY <1>4, SizeIs, RewardIs
<1>6. QED
  BY <1>2, <1>3, <1>4, <1>5

LEMMA OneMessage ==
  ASSUME NEW m, m.len \in 0 .. MaxLen
  PROVE  Sized(<<m>>) /\ RoleOfLast(<<m>>) = m.role
<1>1. PICK empty : empty = <<>>
  OBVIOUS
<1>2. Listing(empty) /\ Len(empty) = 0 /\ Size(empty) = 0 /\ Append(empty, m) = <<m>>
  BY <1>1, EmptyListing, EmptySums
<1>3. MaxLen \in Nat
  BY RolloutAssumption
<1>4. Sized(empty) /\ m.len \in 0 .. MaxLen - Size(empty)
  BY <1>2, <1>3 DEF Sized
<1>5. Sized(Append(empty, m)) /\ RoleOfLast(Append(empty, m)) = m.role
  BY <1>2, <1>4, SizedNext
<1>6. QED
  BY <1>2, <1>5

LEMMA Divided ==
  ASSUME NEW a \in Nat, NEW g \in Nat \ {0}
  PROVE  a \div g \in Nat /\ (a \div g) * g <= a
<1>1. a \div g \in Nat /\ a % g \in 0 .. g - 1
  BY SMT
<1>2. a % g = a - g * (a \div g)
  BY SMT
<1>3. PICK q \in Nat : q = a \div g
  BY <1>1
<1>4. g * q \in Int /\ g * q = q * g
  OBVIOUS
<1>5. a - g * q >= 0
  BY <1>1, <1>2, <1>3
<1>6. q * g <= a
  BY <1>4, <1>5
<1>7. QED
  BY <1>3, <1>6

(* One of n prompts, each taken g times.                                   *)
LEMMA PromptIndex ==
  ASSUME NEW n \in Nat, NEW g \in Nat \ {0}, NEW s \in 1 .. n * g
  PROVE  ((s - 1) \div g) + 1 \in 1 .. n
<1>1. PICK all \in Nat : all = n * g
  <2>1. n * g \in Nat
    BY SMT
  <2>2. QED
    BY <2>1
<1>2. PICK a \in Nat : a = s - 1 /\ a < all
  <2>1. s \in 1 .. all
    BY <1>1
  <2>2. QED
    BY <2>1
<1>3. PICK q \in Nat : q = a \div g /\ q * g <= a
  BY Divided
<1>4. q < n
  <2> SUFFICES ASSUME n <= q PROVE FALSE
    OBVIOUS
  <2>1. PICK d \in Nat : q = n + d
    <3>1. q - n \in Nat /\ q = n + (q - n)
      OBVIOUS
    <3>2. QED
      BY <3>1
  <2>2. PICK x \in Nat : x = d * g
    <3>1. d * g \in Nat
      BY SMT
    <3>2. QED
      BY <3>1
  <2>3. q * g = all + x
    <3>1. (n + d) * g = n * g + d * g
      BY SMT
    <3>2. QED
      BY <1>1, <2>1, <2>2, <3>1
  <2>4. QED
    BY <1>2, <1>3, <2>2, <2>3
<1>5. QED
  BY <1>2, <1>3, <1>4

LEMMA PromptFits ==
  ASSUME NEW b, b.rows \in Seq(Range(b.rows)), b.gen \in Nat \ {0},
         \A i \in DOMAIN b.rows : b.rows[i].len \in 1 .. MaxLen,
         NEW s \in 1 .. Len(b.rows) * b.gen
  PROVE  PromptOf(b, s).len \in 1 .. MaxLen
<1>1. PICK n \in Nat, g \in Nat \ {0} : n = Len(b.rows) /\ g = b.gen
  OBVIOUS
<1>2. PICK i \in 1 .. n : i = ((s - 1) \div g) + 1
  <2>1. s \in 1 .. n * g
    BY <1>1
  <2>2. QED
    BY <2>1, PromptIndex
<1>3. i \in DOMAIN b.rows
  BY <1>1
<1>4. PromptOf(b, s) = b.rows[i]
  BY <1>1, <1>2, Zenon DEF PromptOf
<1>5. QED
  BY <1>3, <1>4

Prompted == \A s \in Samples : heap[s] = <<E!Prompt(s, heap[s][1].len)>> /\ ~Gone(s)

(* Every rollout starts with the prompts, within the context.              *)
LEMMA InitEpisode == Init => EpisodeInv /\ Prompted
<1> SUFFICES ASSUME Init PROVE EpisodeInv /\ Prompted
  OBVIOUS
<1>1. PICK m \in DOMAIN Batches : \E b \in Batches[m] :
        LET all == DOMAIN Copy(b)
        IN /\ mode = m
           /\ task = [s \in all |-> PromptOf(b, s).task]
           /\ heap = [s \in all |-> <<User(s, PromptOf(b, s).len)>>]
           /\ total = [s \in all |-> 0] /\ turns = [s \in all |-> 0]
           /\ terminated = [s \in all |-> FALSE] /\ truncated = [s \in all |-> FALSE]
           /\ phase = IF m = "batch" THEN "select" ELSE "concurrent"
           /\ active = [s \in all |-> s] /\ outs = <<>>
           /\ served = [s \in all |-> <<>>] /\ arrived = <<>>
  BY DEF Init
<1>2. PICK b \in Batches[m] :
        LET all == DOMAIN Copy(b)
        IN /\ mode = m
           /\ task = [s \in all |-> PromptOf(b, s).task]
           /\ heap = [s \in all |-> <<User(s, PromptOf(b, s).len)>>]
           /\ total = [s \in all |-> 0] /\ turns = [s \in all |-> 0]
           /\ terminated = [s \in all |-> FALSE] /\ truncated = [s \in all |-> FALSE]
           /\ phase = IF m = "batch" THEN "select" ELSE "concurrent"
           /\ active = [s \in all |-> s] /\ outs = <<>>
           /\ served = [s \in all |-> <<>>] /\ arrived = <<>>
  BY <1>1
<1>3. /\ b.rows \in Seq(Range(b.rows)) /\ b.gen \in Nat \ {0}
      /\ \A i \in DOMAIN b.rows : b.rows[i].len \in 1 .. MaxLen
  BY RolloutAssumption
<1>4. PICK n \in Nat : n = Len(b.rows) * b.gen
  <2>1. Len(b.rows) \in Nat
    BY <1>3
  <2>2. QED
    BY <1>3, <2>1
<1>5. DOMAIN Copy(b) = 1 .. n
  BY <1>4 DEF Copy
<1>6. Samples = 1 .. n
  BY <1>2, <1>5 DEF Samples
<1>7. ASSUME NEW s \in Samples
      PROVE  /\ \E len \in 0 .. MaxLen : heap[s] = <<User(s, len)>>
             /\ total[s] = 0 /\ turns[s] = 0 /\ served[s] = <<>>
             /\ ~terminated[s] /\ ~truncated[s] /\ truncated[s] \in BOOLEAN
  <2>1. PICK len : len = PromptOf(b, s).len
    OBVIOUS
  <2>2. len \in 1 .. MaxLen
    BY <1>3, <1>4, <1>6, <2>1, PromptFits
  <2>3. heap[s] = <<User(s, len)>>
    BY <1>2, <1>5, <1>6, <2>1
  <2>4. QED
    BY <1>2, <1>5, <1>6, <2>2, <2>3
<1>8. phase \in {"select", "concurrent"} /\ arrived = <<>> /\ outs = <<>>
  BY <1>2
<1>9. ASSUME NEW s \in Samples
      PROVE  SoundFor(s) /\ PaidUp(s) /\ Fresh(s) /\ ~Gone(s) /\ turns[s] <= MaxTurns
  <2>1. PICK len \in 0 .. MaxLen : heap[s] = <<User(s, len)>>
    BY <1>7
  <2>2. PICK u : u = User(s, len)
    OBVIOUS
  <2>3. u.role = "user" /\ u.len \in 0 .. MaxLen /\ heap[s] = <<u>>
    BY <2>1, <2>2 DEF User
  <2>4. Sized(heap[s]) /\ RoleOfLast(heap[s]) = "user"
    <3>1. Sized(<<u>>) /\ RoleOfLast(<<u>>) = u.role
      BY <2>3, OneMessage
    <3>2. QED
      BY <2>3, <3>1
  <2>5. Len(served[s]) = 0 /\ RewardOf(served[s]) = 0
    BY <1>7, EmptySums, EmptyListing
  <2>6. SoundFor(s) /\ PaidUp(s)
    BY <1>7, <2>4, <2>5 DEF SoundFor, Marked, PaidUp
  <2>7. Turn(heap[s]) = 0
    <3>1. {k \in DOMAIN heap[s] : heap[s][k].role = "assistant"} = {}
      BY <2>3
    <3>2. QED
      BY <3>1, FS_EmptySet DEF Turn
  <2>8. ~Ended(s)
    BY <1>7 DEF Ended
  <2>9. s \notin Range(arrived)
    BY <1>8 DEF Range
  <2>10. MaxTurns \in Nat
    BY RolloutAssumption
  <2>11. QED
    BY <1>7, <1>8, <2>4, <2>6, <2>7, <2>8, <2>9, <2>10 DEF Fresh, Gone
<1>10. OutcomeInv
  <2>1. PerSample(total)
    BY <1>2, <1>5, <1>6 DEF PerSample
  <2>2. \A s : ~HasToPay(s)
    BY <1>8 DEF HasToPay
  <2>3. QED
    BY <1>9, <2>1, <2>2 DEF OutcomeInv
<1>11. TurnInv
  <2>1. active = [s \in 1 .. n |-> s] /\ Len(active) = n
    BY <1>2, <1>5
  <2>2. \A j \in 1 .. n : turns[active[j]] = 0
    BY <1>6, <1>7, <2>1
  <2>3. QED
    BY <1>8, <1>9, <2>1, <2>2 DEF TurnInv, InLoop
<1>12. OutsInv /\ SaidInv
  BY <1>8 DEF OutsInv, SaidInv
<1>13. CoroutineInv
  <2>1. \A s \in Samples : outs # <<s>>
    BY <1>8
  <2>2. QED
    BY <1>8, <1>9, <2>1, EmptyListing DEF CoroutineInv, Fresh
<1>14. Prompted
  <2>1. ASSUME NEW s \in Samples
        PROVE  heap[s] = <<E!Prompt(s, heap[s][1].len)>>
    <3>1. PICK len : heap[s] = <<User(s, len)>>
      BY <1>7
    <3>2. heap[s][1].len = len
      BY <3>1 DEF User
    <3>3. QED
      BY <3>1, <3>2 DEF E!Prompt, User
  <2>2. QED
    BY <1>9, <2>1 DEF Prompted
<1>15. QED
  BY <1>10, <1>11, <1>12, <1>13, <1>14 DEF EpisodeInv

LEMMA ArrivedMore ==
  ASSUME NEW s, Listing(arrived), arrived' = Append(arrived, s)
  PROVE  Listing(arrived') /\ Range(arrived) \subseteq Range(arrived')
<1>1. PICK n \in Nat : n = Len(arrived)
  BY ListingDomain
<1>2. /\ Listing(arrived') /\ DOMAIN arrived = 1 .. n /\ DOMAIN arrived' = 1 .. n + 1
      /\ \A k \in 1 .. n : arrived'[k] = arrived[k]
  BY <1>1, ListingAppend, ListingDomain
<1>3. QED
  BY <1>2 DEF Range

(* Every step keeps the episodes, and is a step of every one.              *)
LEMMA NextEpisode ==
  ASSUME RolloutInv, EpisodeInv, [Next]_vars
  PROVE  EpisodeInv' /\ InEpisode
<1>0. Listing(arrived)
  BY DEF EpisodeInv, CoroutineInv
<1>1. CASE Select
  BY <1>1, SelectEpisode
<1>2. CASE Generate
  BY <1>2, GenerateEpisode
<1>3. CASE Respond
  BY <1>3, RespondEpisode
<1>4. CASE Step
  BY <1>4, StepEpisode
<1>5. CASE Collect
  BY <1>5, CollectEpisode
<1>6. CASE FinishBatch \/ FailBatch \/ FailRollout \/ Gather \/ GatherGym
  BY <1>0, <1>6, QuietEpisode DEF FinishBatch, FailBatch, FailRollout, Gather, GatherGym, Idle, sample, gym
<1>7. CASE \E s \in Samples : Begin(s)
  BY <1>7, BeginEpisode
<1>8. CASE \E s \in Samples : Resume(s)
  BY <1>8, ResumeEpisode
<1>9. CASE \E s \in Samples : EndOfLoop(s) \/ FailSample(s)
  <2>1. PICK s \in Samples : Idle /\ Leave(s)
    BY <1>9 DEF EndOfLoop, FailSample
  <2>2. Listing(arrived') /\ Range(arrived) \subseteq Range(arrived')
    BY <1>0, <2>1, ArrivedMore DEF Leave
  <2>3. QED
    BY <2>1, <2>2, QuietEpisode DEF Leave, Idle
<1>10. CASE StepOne
  BY <1>10, StepOneEpisode
<1>11. CASE \E s \in Samples : Complete(s) \/ Continue(s) \/ Arrive(s)
  <2>1. PICK s \in Samples : Complete(s) \/ Continue(s) \/ Arrive(s)
    BY <1>11
  <2>2. CASE Complete(s)
    BY <1>0, <2>2, QuietEpisode DEF Complete, sample
  <2>3. CASE Continue(s)
    BY <1>0, <2>3, QuietEpisode DEF Continue, sample
  <2>4. CASE Arrive(s)
    <3>1. Listing(arrived') /\ Range(arrived) \subseteq Range(arrived')
      BY <1>0, <2>4, ArrivedMore DEF Arrive
    <3>2. QED
      BY <2>4, <3>1, QuietEpisode DEF Arrive, Talking, sample
  <2>5. QED
    BY <2>1, <2>2, <2>3, <2>4
<1>12. CASE Over \/ UNCHANGED vars
  BY <1>0, <1>12, QuietEpisode DEF Over, vars, sample, gym
<1>13. QED
  BY <1>1, <1>2, <1>3, <1>4, <1>5, <1>6, <1>7, <1>8, <1>9, <1>10, <1>11, <1>12
     DEF Next, Batch, Async, Gym

-----------------------------------------------------------------------------
(***************************************************************************)
(* What the invariants say of a returned batch.                            *)
(***************************************************************************)
LEMMA OutcomesFollow ==
  ASSUME RolloutInv, EpisodeInv
  PROVE  OutcomesOwn
<1>1. RewardsOwn
  <2> SUFFICES ASSUME phase \in {"select", "returned"}, NEW s \in Samples
               PROVE  total[s] = RewardOf(served[s])
    BY Zenon DEF RewardsOwn, RewardOf
  <2>1. ~HasToPay(s) /\ phase # "raised"
    BY DEF HasToPay
  <2>2. QED
    BY <2>1 DEF EpisodeInv, OutcomeInv, PaidUp
<1>2. TruncationTold
  <2> SUFFICES ASSUME NEW s \in Samples
               PROVE  truncated[s] <=> Last(heap[ref[s]]).role = "environment"
                                       /\ Size(heap[ref[s]]) = MaxLen
    BY Zenon DEF TruncationTold
  <2>1. LogsInv
    BY DEF RolloutInv
  <2>2. ref[s] = s
    BY <2>1, HeapOwn
  <2>3. Marked(s)
    BY DEF EpisodeInv, OutcomeInv, SoundFor
  <2>4. Last(heap[s]).role = RoleOfLast(heap[s])
    BY DEF Last, RoleOfLast
  <2>5. QED
    BY <2>2, <2>3, <2>4 DEF Marked
<1>3. QED
  BY <1>1, <1>2 DEF OutcomesOwn

(* In every rollout, in lock step or by coroutines and whatever fails, a   *)
(* returned reward is the sum of what the environment gave for that        *)
(* sample, and a returned sample is marked truncated exactly when its last *)
(* observation filled the context.                                         *)
THEOREM OutcomesStayOwn == Spec => []OutcomesOwn
<1>1. Init => RolloutInv /\ EpisodeInv
  BY InitRollout, InitEpisode
<1>2. (RolloutInv /\ EpisodeInv) /\ [Next]_vars => (RolloutInv /\ EpisodeInv)'
  BY NextRollout, NextEpisode
<1>3. RolloutInv /\ EpisodeInv => OutcomesOwn
  BY OutcomesFollow
<1>4. QED
  BY <1>1, <1>2, <1>3, PTL DEF Spec

-----------------------------------------------------------------------------
(***************************************************************************)
(* The rollouts implement the episodes.                                    *)
(***************************************************************************)
LEMMA SameSamples == [Next]_vars => Samples' = Samples
<1> SUFFICES ASSUME [Next]_vars PROVE task' = task
  BY DEF Samples
<1>1. CASE Batch
  BY <1>1 DEF Batch, Select, Generate, Respond, Step, Collect, FinishBatch, FailBatch
<1>2. CASE Async
  BY <1>2 DEF Async, Begin, Resume, EndOfLoop, FailSample, Leave, StepOne, FailRollout, Gather
<1>3. CASE Gym
  BY <1>3 DEF Gym, Complete, Continue, Arrive, GatherGym
<1>4. CASE Over \/ UNCHANGED vars
  BY <1>4 DEF Over, vars
<1>5. QED
  BY <1>1, <1>2, <1>3, <1>4 DEF Next

Logs == [s \in Samples |-> heap[ref[s]]]
Finished == {s \in Samples : Ended(s) \/ s \in Range(arrived) \/ phase \in {"returned", "raised"}}

(* The mapping, sample by sample.                                          *)
LEMMA LogOf ==
  ASSUME LogsInv
  PROVE  DOMAIN Logs = Samples /\ \A s \in Samples : Logs[s] = heap[s] /\ (s \in Finished <=> Gone(s))
BY HeapOwn DEF Logs, Finished, Gone

(* The prompts are where the episodes start.                               *)
LEMMA EpisodeInit ==
  ASSUME RolloutInv, EpisodeInv, Prompted
  PROVE  E!Init
<1>1. LogsInv
  BY DEF RolloutInv
<1>2. DOMAIN Logs = Samples /\ \A s \in Samples : Logs[s] = heap[s] /\ (s \in Finished <=> Gone(s))
  BY <1>1, LogOf
<1>3. Finished = {}
  BY <1>2 DEF Prompted, Finished
<1>4. ASSUME NEW s \in Samples
      PROVE  Logs[s] = <<E!Prompt(s, Logs[s][1].len)>> /\ E!Size(Logs[s]) <= MaxLen
  <2>1. Logs[s] = <<E!Prompt(s, Logs[s][1].len)>>
    BY <1>2 DEF Prompted
  <2>2. Size(heap[s]) <= MaxLen
    BY RolloutAssumption DEF EpisodeInv, OutcomeInv, SoundFor, Sized
  <2>3. E!Size(Logs[s]) = Size(Logs[s])
    BY ESize
  <2>4. QED
    BY <1>2, <2>1, <2>2, <2>3
<1>5. QED
  BY <1>2, <1>3, <1>4 DEF E!Init, E!Samples, Logs, Finished

(* The samples' own steps make one of the abstract module.                 *)
LEMMA EpisodeStep ==
  ASSUME LogsInv, LogsInv', Samples' = Samples, InEpisode
  PROVE  E!Next
<1>1. /\ DOMAIN Logs = Samples
      /\ \A s \in Samples : Logs[s] = heap[s] /\ (s \in Finished <=> Gone(s))
  BY LogOf
<1>2. /\ DOMAIN Logs' = Samples
      /\ \A s \in Samples : Logs'[s] = heap'[s] /\ (s \in Finished' <=> Gone(s)')
  <2>1. /\ ref' = [s \in Samples |-> s] /\ heap' = [s \in Samples |-> heap'[s]]
    BY DEF LogsInv, PerSample
  <2>2. Logs' = [s \in Samples |-> heap'[ref'[s]]]
    BY DEF Logs
  <2>3. Finished' = {s \in Samples : Gone(s)'}
    BY DEF Finished, Gone
  <2>4. QED
    BY <2>1, <2>2, <2>3
<1>3. Finished' \subseteq Samples
  BY DEF Finished
<1>4. ASSUME NEW s \in Samples
      PROVE  \/ E!Answer(s) \/ E!Observe(s) \/ E!Stop(s) \/ E!Stay(s)
  <2>1. E!Size(heap[s]) = Size(heap[s]) /\ E!Turns(heap[s]) = Turn(heap[s]) /\ E!Size(heap'[s]) = Size(heap'[s])
    BY ESize
  <2>2. E!Waiting(s) <=> RoleOfLast(heap[s]) = "assistant"
    BY <1>1 DEF E!Waiting, RoleOfLast, Logs
  <2>3. CASE Answers(s)
    <3>1. E!Answer(s)
      BY <1>1, <1>2, <2>1, <2>2, <2>3 DEF Answers, E!Answer, Logs, Finished
    <3>2. QED
      BY <3>1
  <2>4. CASE Observes(s)
    <3>1. E!Observe(s)
      BY <1>1, <1>2, <2>1, <2>2, <2>4 DEF Observes, E!Observe, Logs, Finished
    <3>2. QED
      BY <3>1
  <2>5. CASE StopsOrStays(s)
    <3>1. E!Stop(s) \/ E!Stay(s)
      BY <1>1, <1>2, <2>5 DEF StopsOrStays, E!Stop, E!Stay, Logs, Finished
    <3>2. QED
      BY <3>1
  <2>6. QED
    BY <2>3, <2>4, <2>5 DEF InEpisode
<1>5. QED
  BY <1>1, <1>2, <1>3, <1>4 DEF E!Next, E!Samples, Logs, Finished

(* Every step of both rollouts, for all samples at once, is a step of      *)
(* their episodes: a sample's log gets the model's answers and its own     *)
(* environment's observations in turn, within the context and the turns,   *)
(* and does not change when the sample goes no further.                    *)
THEOREM EpisodesImplemented == Spec => Implements
<1>1. Init => RolloutInv /\ EpisodeInv
  BY InitRollout, InitEpisode
<1>2. (RolloutInv /\ EpisodeInv) /\ [Next]_vars => (RolloutInv /\ EpisodeInv)'
  BY NextRollout, NextEpisode
<1>3. Init => E!Init
  BY InitRollout, InitEpisode, EpisodeInit
<1>4. RolloutInv /\ EpisodeInv /\ RolloutInv' /\ [Next]_vars => E!Next
  <2> SUFFICES ASSUME RolloutInv, EpisodeInv, RolloutInv', [Next]_vars PROVE E!Next
    OBVIOUS
  <2>1. LogsInv /\ LogsInv'
    BY DEF RolloutInv
  <2>2. Samples' = Samples
    BY SameSamples
  <2>3. InEpisode
    BY NextEpisode
  <2>4. QED
    BY <2>1, <2>2, <2>3, EpisodeStep
<1>5. QED
  BY <1>1, <1>2, <1>3, <1>4, PTL DEF Spec, Implements, E!Spec

-----------------------------------------------------------------------------
(***************************************************************************)
(* Conversations: words, tokens, and the text of tokens.                   *)
(***************************************************************************)

(* The provers do not know a literal for a string. *)
Words == STRING \cup {"user", "assistant", "eos", "u", "t"}
Atoms == Seq(Words)
TokenLists == Seq(Atoms)

-----------------------------------------------------------------------------
(* The text of tokens, without special ones.                               *)
Kept(tokens, special) == [k \in DOMAIN tokens |-> IF tokens[k] \in special THEN <<>> ELSE tokens[k]]

LEMMA KeptTyped ==
  ASSUME NEW x \in TokenLists, NEW special
  PROVE  /\ Len(x) \in Nat /\ DOMAIN x = 1 .. Len(x)
         /\ Kept(x, special) \in [1 .. Len(x) -> Seq(Words)]
         /\ \A k \in 1 .. Len(x) : Kept(x, special)[k] = IF x[k] \in special THEN <<>> ELSE x[k]
<1>1. PICK V : V = Seq(Words)
  OBVIOUS
<1>2. x \in Seq(V) /\ <<>> \in V
  BY <1>1 DEF TokenLists, Atoms
<1>3. Len(x) \in Nat /\ DOMAIN x = 1 .. Len(x) /\ \A k \in 1 .. Len(x) : x[k] \in V
  BY <1>2
<1>4. QED
  BY <1>1, <1>2, <1>3 DEF Kept

WithoutAre(x, y, special) == Without(x \o y, special) = Without(x, special) \o Without(y, special)

LEMMA WithoutBoth ==
  ASSUME NEW x \in TokenLists, NEW y \in TokenLists, NEW special
  PROVE  /\ Without(x, special) \in Atoms /\ x \o y \in TokenLists
         /\ WithoutAre(x, y, special)
<1>1. x \o y \in TokenLists /\ Len(x \o y) = Len(x) + Len(y) /\
      \A i \in 1 .. Len(x) + Len(y) : (x \o y)[i] = IF i <= Len(x) THEN x[i] ELSE y[i - Len(x)]
  BY ConcatProperties DEF TokenLists
<1>2. PICK n \in Nat, m \in Nat : n = Len(x) /\ m = Len(y)
  BY KeptTyped
<1>3. PICK f : f = Kept(x, special)
  OBVIOUS
<1>4. PICK h : h = Kept(y, special)
  OBVIOUS
<1>5. PICK g : g = Kept(x \o y, special)
  OBVIOUS
<1>6. f \in [1 .. n -> Seq(Words)] /\ \A k \in 1 .. n : f[k] = IF x[k] \in special THEN <<>> ELSE x[k]
  BY <1>2, <1>3, KeptTyped
<1>7. h \in [1 .. m -> Seq(Words)] /\ \A k \in 1 .. m : h[k] = IF y[k] \in special THEN <<>> ELSE y[k]
  BY <1>2, <1>4, KeptTyped
<1>8. /\ g \in [1 .. n + m -> Seq(Words)]
      /\ \A k \in 1 .. n + m : g[k] = IF (x \o y)[k] \in special THEN <<>> ELSE (x \o y)[k]
  <2>1. PICK z \in TokenLists : z = x \o y
    BY <1>1
  <2>2. Len(z) = n + m /\ g = Kept(z, special)
    BY <1>1, <1>2, <1>5, <2>1
  <2>3. /\ g \in [1 .. n + m -> Seq(Words)]
        /\ \A k \in 1 .. n + m : g[k] = IF z[k] \in special THEN <<>> ELSE z[k]
    BY <2>2, KeptTyped
  <2>4. QED
    BY <2>1, <2>3
<1>9. \A k \in 1 .. n : g[k] = f[k]
  <2>1. \A k \in 1 .. n : k \in 1 .. n + m /\ (x \o y)[k] = x[k]
    BY <1>1, <1>2
  <2>2. QED
    BY <1>6, <1>8, <2>1
<1>10. \A k \in 1 .. m : g[n + k] = h[k]
  <2>1. ASSUME NEW k \in 1 .. m PROVE n + k \in 1 .. n + m /\ (x \o y)[n + k] = y[k]
    <3>1. n + k \in 1 .. n + m /\ ~(n + k <= n) /\ (n + k) - n = k
      OBVIOUS
    <3>2. QED
      BY <1>1, <1>2, <3>1
  <2>2. QED
    BY <1>7, <1>8, <2>1
<1>11. FlattenSeq(g) = FlattenSeq(f) \o FlattenSeq(h)
  <2>1. /\ Lists(f, n, Words) /\ Lists(h, m, Words) /\ Lists(g, n + m, Words)
        /\ Begins(g, f, n) /\ GoesOn(g, h, n, m)
    BY <1>6, <1>7, <1>8, <1>9, <1>10 DEF Lists, Begins, GoesOn
  <2>2. FlatAre(g, f, h)
    BY <1>2, <2>1, FlatBoth
  <2>3. QED
    BY <2>2, Zenon DEF FlatAre
<1>12. FlattenSeq(f) \in Seq(Words)
  <2>1. Lists(f, n, Words)
    BY <1>6 DEF Lists
  <2>2. QED
    BY <2>1, FlatTyped
<1>13. Without(x, special) = FlattenSeq(f) /\ Without(y, special) = FlattenSeq(h) /\ Without(x \o y, special) = FlattenSeq(g)
  BY <1>3, <1>4, <1>5 DEF Without, Kept
<1>14. WithoutAre(x, y, special)
  BY <1>11, <1>13, Zenon DEF WithoutAre
<1>15. QED
  BY <1>1, <1>12, <1>13, <1>14 DEF Atoms

LEMMA WithoutNone == \A special : Without(<<>>, special) = <<>>
<1> SUFFICES ASSUME NEW special PROVE Without(<<>>, special) = <<>>
  OBVIOUS
<1>1. [k \in DOMAIN <<>> |-> IF <<>>[k] \in special THEN <<>> ELSE <<>>[k]] = <<>>
  OBVIOUS
<1>2. QED
  BY <1>1, FlatNone DEF Without

(* One token by itself. *)
LEMMA WithoutOne ==
  ASSUME NEW a \in Atoms, NEW special
  PROVE  <<a>> \in TokenLists /\ Without(<<a>>, special) = IF a \in special THEN <<>> ELSE a
<1>1. PICK b \in Seq(Words) : b = IF a \in special THEN <<>> ELSE a
  <2>1. <<>> \in Seq(Words)
    OBVIOUS
  <2>2. QED
    BY <2>1 DEF Atoms
<1>2. [k \in DOMAIN <<a>> |-> IF <<a>>[k] \in special THEN <<>> ELSE <<a>>[k]] = <<b>>
  BY <1>1
<1>3. PICK g : g = <<b>>
  OBVIOUS
<1>4. g \in [1 .. 0 + 1 -> Seq(Words)] /\ g[0 + 1] = b
  BY <1>3
<1>5. PICK f : f = <<>>
  OBVIOUS
<1>6. f \in [1 .. 0 -> Seq(Words)] /\ \A k \in 1 .. 0 : g[k] = f[k]
  BY <1>5
<1>7. FlattenSeq(g) = FlattenSeq(f) \o b
  <2>1. PICK z \in Nat : z = 0
    OBVIOUS
  <2>2. Lists(f, z, Words) /\ Lists(g, z + 1, Words) /\ Begins(g, f, z)
    BY <1>4, <1>6, <2>1 DEF Lists, Begins
  <2>3. FlatIs(g, f, g[z + 1])
    BY <2>2, FlatNext
  <2>4. g[z + 1] = b
    BY <1>4, <2>1
  <2>5. QED
    BY <2>3, <2>4, Zenon DEF FlatIs
<1>8. <<>> \o b = b
  BY ConcatEmptySeq
<1>9. FlattenSeq(g) = b
  BY <1>5, <1>7, <1>8, FlatNone
<1>10. <<a>> \in TokenLists
  BY DEF TokenLists
<1>11. QED
  BY <1>1, <1>2, <1>3, <1>9, <1>10 DEF Without

(***************************************************************************)
(* The tokens of a text, of a message and of several.                      *)
(***************************************************************************)
LEMMA Short ==
  ASSUME NEW V, NEW a \in V
  PROVE  <<a>> \in Seq(V) /\ <<a, a>> \in Seq(V)
OBVIOUS

LEMMA MergeTyped ==
  ASSUME NEW x \in TokenLists, NEW a \in Words
  PROVE  Merge(x, a) \in TokenLists
<1>1. <<a>> \in Atoms /\ <<a, a>> \in Atoms
  BY Short DEF Atoms
<1>2. PICK V : V = Atoms
  OBVIOUS
<1>3. x \in Seq(V)
  BY <1>2 DEF TokenLists
<1>4. CASE x # <<>> /\ Last(x) = <<a>>
  <2>1. Front(x) \in Seq(V)
    <3>1. Len(x) \in Nat /\ Len(x) > 0 /\ \A i \in 1 .. Len(x) - 1 : x[i] \in V
      BY <1>3, <1>4
    <3>2. SubSeq(x, 1, Len(x) - 1) \in Seq(V)
      BY <3>1, SubSeqProperties
    <3>3. QED
      BY <3>2, Zenon DEF Front
  <2>2. Append(Front(x), <<a, a>>) \in Seq(V)
    BY <1>1, <1>2, <2>1
  <2>3. QED
    BY <1>2, <1>4, <2>2, Zenon DEF Merge, TokenLists
<1>5. CASE ~(x # <<>> /\ Last(x) = <<a>>)
  <2>1. Append(x, <<a>>) \in Seq(V)
    BY <1>1, <1>2, <1>3
  <2>2. QED
    BY <1>2, <1>5, <2>1, Zenon DEF Merge, TokenLists
<1>6. QED
  BY <1>4, <1>5

(* The fold of Tokenize. *)
MergeRuns(t, text, n) ==
  /\ t \in [0 .. n -> TokenLists] /\ t[0] = <<>>
  /\ \A k \in 1 .. n : t[k] = Merge(t[k - 1], text[k])

LEMMA MergeFold ==
  ASSUME NEW text \in Atoms
  PROVE  /\ Len(text) \in Nat
         /\ \E t : MergeRuns(t, text, Len(text)) /\ Tokenize(text) = t[Len(text)]
<1>1. PICK n \in Nat : n = Len(text)
  BY DEF Atoms
<1>2. DOMAIN text = 1 .. n /\ \A k \in 1 .. n : text[k] \in Words
  BY <1>1 DEF Atoms
<1>3. PICK V : V = TokenLists
  OBVIOUS
<1>4. <<>> \in V
  BY <1>3 DEF TokenLists
<1>5. \A a \in V, k \in 1 .. n : Merge(a, text[k]) \in V
  BY <1>2, <1>3, MergeTyped
<1> DEFINE G == [a \in V |-> [k \in 1 .. n |-> Merge(a, text[k])]]
           iter == CHOOSE f : f = [s \in SUBSET (1 .. n) |->
                     IF s = {} THEN <<>> ELSE Merge(f[s \ {Max(s)}], text[Max(s)])]
<1>6. \A a \in V, k \in 1 .. n : G[a][k] = Merge(a, text[k])
  OBVIOUS
<1>7. Steps(G, V, n)
  BY <1>5 DEF Steps
<1> HIDE DEF G
<1>8. Tokenize(text) = iter[1 .. n]
  <2>1. Tokenize(text) = (CHOOSE f : f = [s \in SUBSET DOMAIN text |->
           IF s = {} THEN <<>> ELSE Merge(f[s \ {Max(s)}], text[Max(s)])])[DOMAIN text]
    BY Zenon DEF Tokenize, FoldLeft, MapThenFoldSet
  <2>2. QED
    BY <1>2, <2>1, Zenon
<1>9. PICK g : Computes(g, V, n, <<>>, G)
  <2>1. PICK base \in V : base = <<>>
    BY <1>4
  <2>2. \E g : Computes(g, V, n, base, G)
    BY <1>7, FoldSolved
  <2>3. QED
    BY <2>1, <2>2
<1>10. g = [s \in SUBSET (1 .. n) |->
             IF s = {} THEN <<>> ELSE Merge(g[s \ {Max(s)}], text[Max(s)])]
  <2>1. \A s \in SUBSET (1 .. n) :
          g[s] = (IF s = {} THEN <<>> ELSE Merge(g[s \ {Max(s)}], text[Max(s)]))
    <3> SUFFICES ASSUME NEW s \in SUBSET (1 .. n), s # {}
                 PROVE  g[s] = Merge(g[s \ {Max(s)}], text[Max(s)])
      BY <1>9 DEF Computes
    <3>1. Max(s) \in 1 .. n
      BY TopOf
    <3>2. s \ {Max(s)} \in SUBSET (1 .. n)
      OBVIOUS
    <3>3. g[s \ {Max(s)}] \in V /\ g[s] = G[g[s \ {Max(s)}]][Max(s)]
      BY <1>9, <3>2 DEF Computes
    <3>4. QED
      BY <1>6, <3>1, <3>3, Zenon
  <2>2. g = [s \in SUBSET (1 .. n) |-> g[s]]
    BY <1>9 DEF Computes
  <2>3. QED
    BY <2>1, <2>2, Zenon
<1>11. iter = [s \in SUBSET (1 .. n) |->
                IF s = {} THEN <<>> ELSE Merge(iter[s \ {Max(s)}], text[Max(s)])]
  BY <1>10, Zenon
<1> HIDE DEF iter
<1>12. PICK it : it = iter
  OBVIOUS
<1>13. Folds(it, V, n, <<>>, G)
  <2>1. {} \in SUBSET (1 .. n)
    OBVIOUS
  <2>2. it[{}] = <<>>
    BY <1>11, <1>12, <2>1, Zenon
  <2>3. ASSUME NEW s \in SUBSET (1 .. n), s # {}, it[s \ {Max(s)}] \in V
        PROVE  it[s] = G[it[s \ {Max(s)}]][Max(s)]
    <3>1. Max(s) \in 1 .. n
      BY <2>3, TopOf
    <3>2. it[s] = Merge(it[s \ {Max(s)}], text[Max(s)])
      BY <1>11, <1>12, <2>3, Zenon
    <3>3. G[it[s \ {Max(s)}]][Max(s)] = Merge(it[s \ {Max(s)}], text[Max(s)])
      BY <1>6, <2>3, <3>1, Zenon
    <3>4. QED
      BY <3>2, <3>3, Zenon
  <2>4. QED
    BY <2>2, <2>3 DEF Folds
<1>14. PICK t : Trail(t, V, n, <<>>, G) /\ it[1 .. n] = t[n]
  <2>1. PICK base \in V : base = <<>>
    BY <1>4
  <2>2. Folds(it, V, n, base, G)
    BY <1>13, <2>1
  <2>3. \E t : Trail(t, V, n, base, G) /\ it[1 .. n] = t[n]
    BY <1>7, <2>2, FoldTrail
  <2>4. QED
    BY <2>1, <2>3
<1>15. MergeRuns(t, text, n)
  <2>1. t \in [0 .. n -> TokenLists] /\ t[0] = <<>>
    BY <1>3, <1>14 DEF Trail
  <2>2. ASSUME NEW k \in 1 .. n PROVE t[k] = Merge(t[k - 1], text[k])
    <3>1. k - 1 \in 0 .. n
      OBVIOUS
    <3>2. t[k - 1] \in V /\ t[k] = G[t[k - 1]][k]
      BY <1>14, <3>1 DEF Trail
    <3>3. QED
      BY <1>6, <3>2
  <2>3. QED
    BY <2>1, <2>2 DEF MergeRuns
<1>16. QED
  BY <1>1, <1>8, <1>12, <1>14, <1>15, Zenon

LEMMA TokenizeTyped ==
  ASSUME NEW text \in Atoms
  PROVE  Tokenize(text) \in TokenLists
<1>1. PICK t : MergeRuns(t, text, Len(text)) /\ Tokenize(text) = t[Len(text)]
  BY MergeFold
<1>2. Len(text) \in 0 .. Len(text)
  BY MergeFold
<1>3. QED
  BY <1>1, <1>2 DEF MergeRuns

(* One word is one token. *)
LEMMA TokenizeOne ==
  ASSUME NEW a \in Words
  PROVE  <<a>> \in Atoms /\ Tokenize(<<a>>) = << <<a>> >>
<1>1. PICK text \in Atoms : text = <<a>>
  BY Short DEF Atoms
<1>2. Len(text) = 1 /\ text[1] = a
  BY <1>1
<1>3. PICK t : MergeRuns(t, text, Len(text)) /\ Tokenize(text) = t[Len(text)]
  BY MergeFold
<1>4. 1 \in 1 .. 1 /\ 1 - 1 = 0
  OBVIOUS
<1>5. t[1] = Merge(<<>>, a)
  BY <1>2, <1>3, <1>4 DEF MergeRuns
<1>6. Merge(<<>>, a) = Append(<<>>, <<a>>)
  BY Zenon DEF Merge
<1>7. Append(<<>>, <<a>>) = << <<a>> >>
  OBVIOUS
<1>8. QED
  BY <1>1, <1>2, <1>3, <1>5, <1>6, <1>7

(***************************************************************************)
(* What the chat template makes of messages, and their texts.              *)
(***************************************************************************)
Messages == [role : {"user", "assistant"}, text : Atoms]
Texts(messages) == FlattenSeq([k \in DOMAIN messages |-> messages[k].text])

LEMMA RenderedOne ==
  ASSUME NEW m \in Messages
  PROVE  /\ RenderOne(m) \in TokenLists /\ Len(RenderOne(m)) > 0
         /\ RenderOne(m)[Len(RenderOne(m))] = Eos
<1>1. PICK V : V = Atoms
  OBVIOUS
<1>2. m.role \in Words /\ m.text \in Atoms
  <2>1. m.role \in {"user", "assistant"} /\ m.text \in Atoms
    BY DEF Messages
  <2>2. "user" \in Words /\ "assistant" \in Words
    BY DEF Words
  <2>3. QED
    BY <2>1, <2>2
<1>3. PICK h : h = <<Header(m.role)>>
  OBVIOUS
<1>4. PICK x : x = Tokenize(m.text)
  OBVIOUS
<1>5. PICK e : e = <<Eos>>
  OBVIOUS
<1>6. h \in Seq(V) /\ x \in Seq(V) /\ e \in Seq(V) /\ Len(e) = 1 /\ e[1] = Eos
  <2>1. Header(m.role) \in V /\ Eos \in V
    <3>1. "eos" \in Words
      BY DEF Words
    <3>2. <<m.role>> \in Seq(Words) /\ <<"eos">> \in Seq(Words)
      BY <1>2, <3>1, Short
    <3>3. QED
      BY <1>1, <3>2, Zenon DEF Atoms, Header, Eos
  <2>2. h \in Seq(V) /\ e \in Seq(V)
    BY <1>3, <1>5, <2>1, Short
  <2>3. x \in Seq(V)
    BY <1>1, <1>2, <1>4, TokenizeTyped DEF TokenLists
  <2>4. Len(e) = 1 /\ e[1] = Eos
    BY <1>5
  <2>5. QED
    BY <2>2, <2>3, <2>4
<1>7. PICK y : y = h \o x
  OBVIOUS
<1>8. y \in Seq(V) /\ Len(y) \in Nat
  BY <1>6, <1>7, ConcatProperties
<1>9. /\ y \o e \in Seq(V) /\ Len(y \o e) = Len(y) + 1
      /\ (y \o e)[Len(y) + 1] = Eos
  <2>1. /\ y \o e \in Seq(V) /\ Len(y \o e) = Len(y) + Len(e)
        /\ \A i \in 1 .. Len(y) + Len(e) : (y \o e)[i] = IF i <= Len(y) THEN y[i] ELSE e[i - Len(y)]
    BY <1>6, <1>8, ConcatProperties
  <2>2. Len(y) + 1 \in 1 .. Len(y) + Len(e) /\ ~(Len(y) + 1 <= Len(y)) /\ (Len(y) + 1) - Len(y) = 1
    BY <1>6, <1>8
  <2>3. (y \o e)[Len(y) + 1] = e[1]
    BY <2>1, <2>2
  <2>4. QED
    BY <1>6, <2>1, <2>3
<1>10. RenderOne(m) = y \o e
  BY <1>3, <1>4, <1>5, <1>7, Zenon DEF RenderOne
<1>11. PICK z : z = y \o e
  OBVIOUS
<1>12. z \in TokenLists /\ Len(z) > 0 /\ z[Len(z)] = Eos
  BY <1>1, <1>8, <1>9, <1>11 DEF TokenLists
<1>13. QED
  BY <1>10, <1>11, <1>12, Zenon

(* A message more. *)
LEMMA LongerBy ==
  ASSUME NEW S, NEW ms \in Seq(S), NEW m \in S
  PROVE  /\ Append(ms, m) \in Seq(S) /\ Len(ms) \in Nat /\ Len(Append(ms, m)) = Len(ms) + 1
         /\ DOMAIN ms = 1 .. Len(ms) /\ DOMAIN Append(ms, m) = 1 .. Len(ms) + 1
         /\ Append(ms, m)[Len(ms) + 1] = m
         /\ \A k \in 1 .. Len(ms) : Append(ms, m)[k] = ms[k] /\ ms[k] \in S
         /\ \A k \in 1 .. Len(ms) + 1 : Append(ms, m)[k] \in S
BY AppendProperties

LEMMA RenderNext ==
  ASSUME NEW ms \in Seq(Messages), NEW m \in Messages
  PROVE  /\ Render(ms) \in TokenLists
         /\ Render(Append(ms, m)) = Render(ms) \o RenderOne(m)
<1>1. PICK n \in Nat : n = Len(ms)
  OBVIOUS
<1>2. PICK f : f = [k \in 1 .. n |-> RenderOne(ms[k])]
  OBVIOUS
<1>3. PICK g : g = [k \in 1 .. n + 1 |-> RenderOne(Append(ms, m)[k])]
  OBVIOUS
<1>4. /\ DOMAIN ms = 1 .. n /\ DOMAIN Append(ms, m) = 1 .. n + 1
      /\ Append(ms, m)[n + 1] = m
      /\ \A k \in 1 .. n : Append(ms, m)[k] = ms[k] /\ ms[k] \in Messages
      /\ \A k \in 1 .. n + 1 : Append(ms, m)[k] \in Messages
  BY <1>1, LongerBy
<1>5. Render(ms) = FlattenSeq(f) /\ Render(Append(ms, m)) = FlattenSeq(g)
  BY <1>2, <1>3, <1>4, Zenon DEF Render
<1>6. \A x \in Messages : RenderOne(x) \in Seq(Atoms)
  BY RenderedOne DEF TokenLists
<1>7. Lists(f, n, Atoms) /\ Lists(g, n + 1, Atoms) /\ Begins(g, f, n)
  <2>1. f \in [1 .. n -> Seq(Atoms)]
    BY <1>2, <1>4, <1>6
  <2>2. g \in [1 .. n + 1 -> Seq(Atoms)]
    BY <1>3, <1>4, <1>6
  <2>3. ASSUME NEW k \in 1 .. n PROVE g[k] = f[k]
    <3>1. k \in 1 .. n + 1 /\ Append(ms, m)[k] = ms[k]
      BY <1>4
    <3>2. g[k] = RenderOne(Append(ms, m)[k]) /\ f[k] = RenderOne(ms[k])
      BY <1>2, <1>3, <3>1
    <3>3. QED
      BY <3>1, <3>2, Zenon
  <2>4. QED
    BY <2>1, <2>2, <2>3 DEF Lists, Begins
<1>8. FlattenSeq(f) \in Seq(Atoms) /\ FlatIs(g, f, g[n + 1])
  BY <1>1, <1>7, FlatNext
<1>9. g[n + 1] = RenderOne(m)
  BY <1>3, <1>4
<1>10. QED
  BY <1>5, <1>8, <1>9, Zenon DEF FlatIs, TokenLists

LEMMA TextsNext ==
  ASSUME NEW ms \in Seq(Messages), NEW m \in Messages
  PROVE  /\ Texts(ms) \in Atoms
         /\ Texts(Append(ms, m)) = Texts(ms) \o m.text
<1>1. PICK n \in Nat : n = Len(ms)
  OBVIOUS
<1>2. PICK f : f = [k \in 1 .. n |-> ms[k].text]
  OBVIOUS
<1>3. PICK g : g = [k \in 1 .. n + 1 |-> Append(ms, m)[k].text]
  OBVIOUS
<1>4. /\ DOMAIN ms = 1 .. n /\ DOMAIN Append(ms, m) = 1 .. n + 1
      /\ Append(ms, m)[n + 1] = m
      /\ \A k \in 1 .. n : Append(ms, m)[k] = ms[k] /\ ms[k] \in Messages
      /\ \A k \in 1 .. n + 1 : Append(ms, m)[k] \in Messages
  BY <1>1, LongerBy
<1>5. Texts(ms) = FlattenSeq(f) /\ Texts(Append(ms, m)) = FlattenSeq(g)
  BY <1>2, <1>3, <1>4, Zenon DEF Texts
<1>6. \A x \in Messages : x.text \in Seq(Words)
  BY DEF Messages, Atoms
<1>7. Lists(f, n, Words) /\ Lists(g, n + 1, Words) /\ Begins(g, f, n)
  <2>1. f \in [1 .. n -> Seq(Words)]
    BY <1>2, <1>4, <1>6
  <2>2. g \in [1 .. n + 1 -> Seq(Words)]
    BY <1>3, <1>4, <1>6
  <2>3. ASSUME NEW k \in 1 .. n PROVE g[k] = f[k]
    <3>1. k \in 1 .. n + 1 /\ Append(ms, m)[k] = ms[k]
      BY <1>4
    <3>2. g[k] = Append(ms, m)[k].text /\ f[k] = ms[k].text
      BY <1>2, <1>3, <3>1
    <3>3. QED
      BY <3>1, <3>2, Zenon
  <2>4. QED
    BY <2>1, <2>2, <2>3 DEF Lists, Begins
<1>8. FlattenSeq(f) \in Seq(Words) /\ FlatIs(g, f, g[n + 1])
  BY <1>1, <1>7, FlatNext
<1>9. g[n + 1] = m.text
  BY <1>3, <1>4
<1>10. QED
  BY <1>5, <1>8, <1>9, Zenon DEF FlatIs, Atoms

(* What is rendered ends with an end of message. *)
LEMMA RenderEnds ==
  ASSUME NEW ms \in Seq(Messages), Len(ms) > 0
  PROVE  /\ Render(ms) \in TokenLists /\ Len(Render(ms)) > 0
         /\ Render(ms)[Len(Render(ms))] = Eos
<1>1. ms # <<>>
  OBVIOUS
<1>2. PICK old \in Seq(Messages), m \in Messages : ms = Append(old, m)
  BY <1>1, SequenceEmptyOrAppend
<1>3. PICK x : x = Render(old)
  OBVIOUS
<1>4. PICK y : y = RenderOne(m)
  OBVIOUS
<1>5. x \in Seq(Atoms) /\ y \in Seq(Atoms) /\ Len(y) > 0 /\ y[Len(y)] = Eos /\ Render(ms) = x \o y
  BY <1>2, <1>3, <1>4, RenderNext, RenderedOne DEF TokenLists
<1>6. PICK z : z = x \o y
  OBVIOUS
<1>7. /\ z \in Seq(Atoms) /\ Len(z) = Len(x) + Len(y)
      /\ \A i \in 1 .. Len(x) + Len(y) : z[i] = IF i <= Len(x) THEN x[i] ELSE y[i - Len(x)]
  BY <1>5, <1>6, ConcatProperties
<1>8. Len(x) \in Nat /\ Len(y) \in Nat
  BY <1>5
<1>9. PICK p, q : p = Len(x) /\ q = Len(y) /\ p \in Nat /\ q \in Nat /\ q > 0
  BY <1>5, <1>8
<1>10. p + q \in 1 .. p + q /\ ~(p + q <= p) /\ (p + q) - p = q
  BY <1>9
<1>11. Len(z) > 0 /\ z[Len(z)] = Eos
  <2>1. Len(z) = p + q /\ p + q > 0
    BY <1>7, <1>9
  <2>2. z[p + q] = y[(p + q) - p]
    BY <1>7, <1>9, <1>10
  <2>3. z[p + q] = y[q]
    BY <1>10, <2>2
  <2>4. QED
    BY <1>5, <1>9, <2>1, <2>3
<1>12. QED
  BY <1>5, <1>6, <1>7, <1>11 DEF TokenLists

(***************************************************************************)
(* The prompt of a call goes on from what the model has seen.              *)
(***************************************************************************)
LEMMA ConcatAt ==
  ASSUME NEW S, NEW x \in Seq(S), NEW y \in Seq(S)
  PROVE  /\ x \o y \in Seq(S) /\ Len(x) \in Nat /\ Len(y) \in Nat
         /\ Len(x \o y) = Len(x) + Len(y)
         /\ \A i \in 1 .. Len(x) : (x \o y)[i] = x[i]
         /\ \A i \in 1 .. Len(y) : (x \o y)[Len(x) + i] = y[i]
<1>1. PICK z : z = x \o y
  OBVIOUS
<1>2. PICK p, q : p = Len(x) /\ q = Len(y) /\ p \in Nat /\ q \in Nat
  <2>1. Len(x) \in Nat /\ Len(y) \in Nat
    OBVIOUS
  <2>2. QED
    BY <2>1, Zenon
<1>3. /\ z \in Seq(S) /\ Len(z) = p + q
      /\ \A i \in 1 .. p + q : z[i] = IF i <= p THEN x[i] ELSE y[i - p]
  BY <1>1, <1>2, ConcatProperties
<1>4. \A i \in 1 .. p : z[i] = x[i]
  <2>1. \A i \in 1 .. p : i \in 1 .. p + q /\ i <= p
    BY <1>2
  <2>2. QED
    BY <1>3, <2>1
<1>5. ASSUME NEW i \in 1 .. q PROVE z[p + i] = y[i]
  <2>1. p + i \in 1 .. p + q /\ ~(p + i <= p) /\ (p + i) - p = i
    BY <1>2
  <2>2. z[p + i] = y[(p + i) - p]
    BY <1>3, <2>1
  <2>3. QED
    BY <2>1, <2>2
<1>6. QED
  BY <1>1, <1>2, <1>3, <1>4, <1>5

(* The last place of one list, and what is behind it in both. *)
LEMMA BehindLast ==
  ASSUME NEW S, NEW x \in Seq(S), Len(x) > 0, NEW y \in Seq(S)
  PROVE  /\ SubSeq(x \o y, Len(x), Len(x \o y)) = <<x[Len(x)]>> \o y
         /\ SubSeq(x \o y, Len(x) + 1, Len(x \o y)) = y
<1>1. PICK z : z = x \o y
  OBVIOUS
<1>2. PICK p, q : p = Len(x) /\ q = Len(y) /\ p \in Nat /\ q \in Nat /\ p > 0
  OBVIOUS
<1>3. /\ z \in Seq(S) /\ Len(z) = p + q
      /\ \A i \in 1 .. p : z[i] = x[i]
      /\ \A i \in 1 .. q : z[p + i] = y[i]
  BY <1>1, <1>2, ConcatAt
<1>4. SubSeq(z, p + 1, p + q) = y
  <2>1. PICK r : r = SubSeq(z, p + 1, p + q)
    OBVIOUS
  <2>2. \A i \in p + 1 .. p + q : z[i] \in S
    BY <1>2, <1>3
  <2>3. /\ r \in Seq(S) /\ Len(r) = IF p + 1 <= p + q THEN (p + q) - (p + 1) + 1 ELSE 0
        /\ \A i \in 1 .. (p + q) - (p + 1) + 1 : r[i] = z[(p + 1) + i - 1]
    <3>1. PICK a \in Int, b \in Int : a = p + 1 /\ b = p + q
      BY <1>2
    <3>2. \A i \in a .. b : z[i] \in S
      BY <2>2, <3>1
    <3>3. /\ SubSeq(z, a, b) \in Seq(S) /\ Len(SubSeq(z, a, b)) = IF a <= b THEN b - a + 1 ELSE 0
          /\ \A i \in 1 .. b - a + 1 : SubSeq(z, a, b)[i] = z[a + i - 1]
      BY <3>2, SubSeqProperties
    <3>4. QED
      BY <2>1, <3>1, <3>3
  <2>4. Len(r) = q
    BY <1>2, <2>3
  <2>5. ASSUME NEW i \in 1 .. q PROVE r[i] = y[i]
    <3>1. i \in 1 .. (p + q) - (p + 1) + 1 /\ (p + 1) + i - 1 = p + i
      BY <1>2
    <3>2. r[i] = z[p + i]
      BY <2>3, <3>1
    <3>3. QED
      BY <1>3, <3>2
  <2>6. r = y
    BY <1>2, <2>3, <2>4, <2>5, SeqEqual
  <2>7. QED
    BY <2>1, <2>6
<1>5. SubSeq(z, p, p + q) = <<z[p]>> \o SubSeq(z, p + 1, p + q)
  <2>1. p \in 1 .. Len(z) /\ p + q \in p .. Len(z)
    BY <1>2, <1>3
  <2>2. PICK b : b = p + q
    OBVIOUS
  <2>3. SubSeq(z, p, b) = <<z[p]>> \o SubSeq(z, p + 1, b)
    BY <1>3, <2>1, <2>2, SubSeqRecursiveFirst
  <2>4. QED
    BY <2>2, <2>3
<1>6. z[p] = x[p]
  <2>1. p \in 1 .. p
    BY <1>2
  <2>2. QED
    BY <1>3, <2>1
<1>7. Len(z) = p + q
  BY <1>3
<1>8. SubSeq(z, p, Len(z)) = <<x[p]>> \o y
  BY <1>4, <1>5, <1>6, <1>7, Zenon
<1>9. SubSeq(z, p + 1, Len(z)) = y
  BY <1>4, <1>7, Zenon
<1>10. QED
  BY <1>1, <1>2, <1>8, <1>9, Zenon

(* The first part of a list with one more. *)
LEMMA FrontLast ==
  ASSUME NEW S, NEW x \in Seq(S), x # <<>>
  PROVE  /\ Front(x) \in Seq(S) /\ Last(x) \in S /\ <<Last(x)>> \in Seq(S)
         /\ x = Front(x) \o <<Last(x)>>
<1>1. PICK n : n = Len(x) /\ n \in Nat /\ n > 0
  OBVIOUS
<1>2. n \in 1 .. Len(x) /\ 1 \in 1 .. Len(x) /\ n \in 1 .. Len(x)
  BY <1>1
<1>3. SubSeq(x, 1, n) = SubSeq(x, 1, n - 1) \o <<x[n]>>
  BY <1>2, SubSeqRecursiveSecond
<1>4. SubSeq(x, 1, n) = x
  BY <1>1, SubSeqFull
<1>5. \A i \in 1 .. n - 1 : x[i] \in S
  BY <1>1
<1>6. SubSeq(x, 1, n - 1) \in Seq(S)
  BY <1>1, <1>5, SubSeqProperties
<1>7. x[n] \in S
  BY <1>2
<1>8. Front(x) = SubSeq(x, 1, n - 1) /\ Last(x) = x[n]
  BY <1>1, Zenon DEF Front, Last
<1>9. <<x[n]>> \in Seq(S)
  BY <1>7, Short
<1>10. QED
  BY <1>3, <1>4, <1>6, <1>7, <1>8, <1>9, Zenon

(* _replace_prefix_tokens keeps what the model has seen, and goes on with  *)
(* the end of message the model left out or with what is behind it.        *)
LEMMA PrefixKept ==
  ASSUME NEW model \in TokenLists, model # <<>>, NEW prefix \in TokenLists, Len(prefix) > 0,
         prefix[Len(prefix)] = Eos, NEW rest \in TokenLists
  PROVE  \/ ReplacePrefix(model, prefix, prefix \o rest) = model \o rest
         \/ ReplacePrefix(model, prefix, prefix \o rest) = model \o (<<Eos>> \o rest)
<1>1. PICK V : V = Atoms
  OBVIOUS
<1>2. model \in Seq(V) /\ prefix \in Seq(V) /\ rest \in Seq(V)
  BY <1>1 DEF TokenLists
<1>3. PICK z : z = prefix \o rest
  OBVIOUS
<1>4. PICK p : p = Len(prefix) /\ p \in Nat /\ p > 0
  BY <1>2
<1>5. z[p] = Eos /\ prefix[p] = Eos /\ Eos \in V
  <2>1. p \in 1 .. Len(prefix)
    BY <1>4
  <2>2. (prefix \o rest)[p] = prefix[p]
    BY <1>2, <2>1, ConcatAt
  <2>3. prefix[p] \in V
    BY <1>2, <2>1
  <2>4. QED
    BY <1>3, <1>4, <2>2, <2>3
<1>6. LastEos(z, p) = p
  <2>1. PICK S : S = {0} \cup {k \in 1 .. p : z[k] = Eos}
    OBVIOUS
  <2>2. S \subseteq Nat /\ p \in S /\ \A k \in S : k <= p
    BY <1>4, <1>5, <2>1
  <2>3. Max(S) = p
    BY <2>2, GreatestIs
  <2>4. QED
    BY <2>1, <2>3, Zenon DEF LastEos
<1>7. SubSeq(z, p, Len(z)) = <<Eos>> \o rest
  <2>1. SubSeq(prefix \o rest, Len(prefix), Len(prefix \o rest)) = <<prefix[Len(prefix)]>> \o rest
    BY <1>2, BehindLast
  <2>2. QED
    BY <1>3, <1>4, <1>5, <2>1, Zenon
<1>8. ReplacePrefix(model, prefix, z)
        = (IF Last(model) = Eos THEN Front(model) ELSE model) \o (<<Eos>> \o rest)
  BY <1>4, <1>6, <1>7, Zenon DEF ReplacePrefix
<1>9. CASE Last(model) = Eos
  <2>1. Front(model) \in Seq(V) /\ <<Eos>> \in Seq(V) /\ model = Front(model) \o <<Eos>>
    BY <1>2, <1>9, FrontLast
  <2>2. PICK a \in Seq(V), b \in Seq(V), c \in Seq(V) : a = Front(model) /\ b = <<Eos>> /\ c = rest
    BY <1>2, <2>1
  <2>3. (a \o b) \o c = a \o (b \o c)
    BY ConcatAssociative
  <2>4. ReplacePrefix(model, prefix, z) = a \o (b \o c)
    BY <1>8, <1>9, <2>2, Zenon
  <2>5. model \o rest = (a \o b) \o c
    BY <2>1, <2>2, Zenon
  <2>6. QED
    BY <1>3, <2>3, <2>4, <2>5, Zenon
<1>10. CASE Last(model) # Eos
  BY <1>3, <1>8, <1>10, Zenon
<1>11. QED
  BY <1>9, <1>10

UserSays(a) == [role |-> "user", text |-> <<a>>]
Turning(a) == RenderOne(UserSays(a)) \o <<Header("assistant")>>

(* The tokens around a user's message have its text and no other.          *)
LEMMA TurningText ==
  ASSUME NEW a \in {"u", "t"}
  PROVE  /\ UserSays(a) \in Messages
         /\ Turning(a) \in TokenLists /\ Turning(a) # <<>>
         /\ Without(Turning(a), Special) = <<a>>
         /\ <<Eos>> \o Turning(a) \in TokenLists /\ <<Eos>> \o Turning(a) # <<>>
         /\ Without(<<Eos>> \o Turning(a), Special) = <<a>>
<1>1. a \in Words /\ "user" \in Words /\ "assistant" \in Words /\ "eos" \in Words
  BY DEF Words
<1>2. PICK w \in Atoms : w = <<a>>
  BY <1>1, Short DEF Atoms
<1>3. PICK u \in Atoms : u = Header("user")
  BY <1>1, Short DEF Atoms, Header
<1>4. PICK v \in Atoms : v = Header("assistant")
  BY <1>1, Short DEF Atoms, Header
<1>5. PICK e \in Atoms : e = Eos
  BY <1>1, Short DEF Atoms, Eos
<1>6. u \in Special /\ v \in Special /\ e \in Special
  BY <1>3, <1>4, <1>5 DEF Special
<1>7. w \notin Special
  <2>1. w[1] = a /\ Header("user")[1] = "user" /\ Header("assistant")[1] = "assistant" /\ Eos[1] = "eos"
    BY <1>2 DEF Header, Eos
  <2>2. a # "user" /\ a # "assistant" /\ a # "eos"
    OBVIOUS
  <2>3. w # Header("user") /\ w # Header("assistant") /\ w # Eos
    BY <2>1, <2>2
  <2>4. QED
    BY <2>3 DEF Special
<1>8. UserSays(a) \in Messages
  BY <1>2 DEF UserSays, Messages
<1>9. /\ <<u>> \in TokenLists /\ <<v>> \in TokenLists /\ <<e>> \in TokenLists /\ <<w>> \in TokenLists
      /\ Without(<<u>>, Special) = <<>> /\ Without(<<v>>, Special) = <<>>
      /\ Without(<<e>>, Special) = <<>> /\ Without(<<w>>, Special) = w
  <2>1. <<u>> \in TokenLists /\ Without(<<u>>, Special) = <<>>
    BY <1>6, WithoutOne
  <2>2. <<v>> \in TokenLists /\ Without(<<v>>, Special) = <<>>
    BY <1>6, WithoutOne
  <2>3. <<e>> \in TokenLists /\ Without(<<e>>, Special) = <<>>
    BY <1>6, WithoutOne
  <2>4. <<w>> \in TokenLists /\ Without(<<w>>, Special) = w
    BY <1>7, WithoutOne
  <2>5. QED
    BY <2>1, <2>2, <2>3, <2>4
<1>10. Turning(a) = ((<<u>> \o <<w>>) \o <<e>>) \o <<v>>
  <2>1. Tokenize(<<a>>) = <<w>>
    BY <1>1, <1>2, TokenizeOne
  <2>2. UserSays(a).role = "user" /\ UserSays(a).text = <<a>>
    BY DEF UserSays
  <2>3. RenderOne(UserSays(a)) = (<<u>> \o <<w>>) \o <<e>>
    BY <1>3, <1>5, <2>1, <2>2, Zenon DEF RenderOne
  <2>4. QED
    BY <1>4, <2>3, Zenon DEF Turning
<1>11. <<>> \o w = w /\ w \o <<>> = w
  BY ConcatEmptySeq DEF Atoms
<1>12. PICK x1 \in TokenLists : x1 = <<u>> \o <<w>> /\ Without(x1, Special) = w
  <2>1. <<u>> \o <<w>> \in TokenLists /\ WithoutAre(<<u>>, <<w>>, Special)
    BY <1>9, WithoutBoth
  <2>2. Without(<<u>> \o <<w>>, Special) = <<>> \o w
    BY <1>9, <2>1, Zenon DEF WithoutAre
  <2>3. QED
    BY <1>11, <2>1, <2>2, Zenon
<1>13. PICK x2 \in TokenLists : x2 = x1 \o <<e>> /\ Without(x2, Special) = w
  <2>1. x1 \o <<e>> \in TokenLists /\ WithoutAre(x1, <<e>>, Special)
    BY <1>9, <1>12, WithoutBoth
  <2>2. Without(x1 \o <<e>>, Special) = w \o <<>>
    BY <1>9, <1>12, <2>1, Zenon DEF WithoutAre
  <2>3. QED
    BY <1>11, <2>1, <2>2, Zenon
<1>14. PICK x3 \in TokenLists : x3 = x2 \o <<v>> /\ Without(x3, Special) = w
  <2>1. x2 \o <<v>> \in TokenLists /\ WithoutAre(x2, <<v>>, Special)
    BY <1>9, <1>13, WithoutBoth
  <2>2. Without(x2 \o <<v>>, Special) = w \o <<>>
    BY <1>9, <1>13, <2>1, Zenon DEF WithoutAre
  <2>3. QED
    BY <1>11, <2>1, <2>2, Zenon
<1>15. PICK x4 \in TokenLists : x4 = <<e>> \o x3 /\ Without(x4, Special) = w
  <2>1. <<e>> \o x3 \in TokenLists /\ WithoutAre(<<e>>, x3, Special)
    BY <1>9, <1>14, WithoutBoth
  <2>2. Without(<<e>> \o x3, Special) = <<>> \o w
    BY <1>9, <1>14, <2>1, Zenon DEF WithoutAre
  <2>3. QED
    BY <1>11, <2>1, <2>2, Zenon
<1>16. Turning(a) = x3
  BY <1>10, <1>12, <1>13, <1>14, Zenon
<1>17. <<Eos>> \o Turning(a) = x4
  BY <1>5, <1>15, <1>16, Zenon
<1>18. x3 # <<>> /\ x4 # <<>>
  <2>1. w # <<>>
    BY <1>2
  <2>2. QED
    BY <1>14, <1>15, <2>1, WithoutNone
<1>19. QED
  BY <1>2, <1>8, <1>14, <1>15, <1>16, <1>17, <1>18

(* The last answer before a user's message. *)
LEMMA LastAnswerIs ==
  ASSUME NEW old \in Seq(Messages), NEW m \in Messages, m.role = "user",
         Len(old) > 0, old[Len(old)].role = "assistant"
  PROVE  LastAnswer(Append(old, m)) = Len(old) /\ SubSeq(Append(old, m), 1, Len(old)) = old
<1>1. PICK n : n = Len(old) /\ n \in Nat /\ n > 0
  OBVIOUS
<1>2. PICK ms : ms = Append(old, m)
  OBVIOUS
<1>3. /\ ms \in Seq(Messages) /\ DOMAIN ms = 1 .. n + 1 /\ Len(ms) = n + 1
      /\ ms[n + 1] = m /\ \A k \in 1 .. n : ms[k] = old[k]
  BY <1>1, <1>2, LongerBy
<1>4. ms[n].role = "assistant" /\ ms[n + 1].role = "user"
  <2>1. n \in 1 .. n
    BY <1>1
  <2>2. QED
    BY <1>1, <1>3, <2>1
<1>5. PICK S : S = {0} \cup {k \in DOMAIN ms : ms[k].role = "assistant"}
  OBVIOUS
<1>6. S \subseteq Nat /\ n \in S /\ \A k \in S : k <= n
  <2>1. \A k \in 1 .. n + 1 : k \in Nat /\ (k <= n \/ k = n + 1)
    BY <1>1
  <2>2. n + 1 \notin S
    BY <1>1, <1>4, <1>5
  <2>3. n \in S
    BY <1>1, <1>3, <1>4, <1>5
  <2>4. \A k \in S : k \in Nat /\ k <= n
    <3> SUFFICES ASSUME NEW k \in S PROVE k \in Nat /\ k <= n
      OBVIOUS
    <3>1. k = 0 \/ k \in 1 .. n + 1
      BY <1>3, <1>5
    <3>2. k # n + 1
      BY <2>2
    <3>3. QED
      BY <1>1, <2>1, <3>1, <3>2
  <2>5. QED
    BY <2>3, <2>4
<1>7. Max(S) = n
  BY <1>6, GreatestIs
<1>8. LastAnswer(ms) = n
  BY <1>5, <1>7, Zenon DEF LastAnswer
<1>9. SubSeq(ms, 1, n) = old
  <2>1. PICK r : r = SubSeq(ms, 1, n)
    OBVIOUS
  <2>2. PICK a \in Int, b \in Int : a = 1 /\ b = n
    BY <1>1
  <2>3. \A i \in a .. b : ms[i] \in Messages
    BY <1>1, <1>3, <2>2
  <2>4. /\ SubSeq(ms, a, b) \in Seq(Messages) /\ Len(SubSeq(ms, a, b)) = IF a <= b THEN b - a + 1 ELSE 0
        /\ \A i \in 1 .. b - a + 1 : SubSeq(ms, a, b)[i] = ms[a + i - 1]
    BY <2>3, SubSeqProperties
  <2>5. r \in Seq(Messages) /\ Len(r) = n /\ \A i \in 1 .. n : r[i] = ms[i]
    <3>1. r \in Seq(Messages) /\ Len(r) = n
      BY <1>1, <2>1, <2>2, <2>4
    <3>2. ASSUME NEW i \in 1 .. n PROVE r[i] = ms[i]
      <4>1. i \in 1 .. b - a + 1 /\ a + i - 1 = i
        BY <1>1, <2>2
      <4>2. SubSeq(ms, a, b)[i] = ms[a + i - 1]
        BY <2>4, <4>1
      <4>3. QED
        BY <2>1, <2>2, <4>1, <4>2
    <3>3. QED
      BY <3>1, <3>2
  <2>6. \A i \in 1 .. Len(r) : r[i] = old[i]
    BY <1>3, <2>5
  <2>7. r = old
    BY <1>1, <2>5, <2>6, SeqEqual
  <2>8. QED
    BY <2>1, <2>7
<1>10. QED
  BY <1>1, <1>2, <1>8, <1>9, Zenon

(* The prompt of the next call: what the model has seen, and the user's    *)
(* message.                                                                *)
LEMMA NextPrompt ==
  ASSUME NEW old \in Seq(Messages), NEW seen \in TokenLists, NEW a \in {"u", "t"},
         IF seen = <<>> THEN old = <<>> ELSE Len(old) > 0 /\ old[Len(old)].role = "assistant"
  PROVE  \E more \in TokenLists :
           /\ more # <<>> /\ Without(more, Special) = <<a>>
           /\ PromptTokens(Append(old, UserSays(a)), seen) = seen \o more
<1>1. PICK ms : ms = Append(old, UserSays(a))
  OBVIOUS
<1>2. PICK rest : rest = Turning(a)
  OBVIOUS
<1>3. /\ UserSays(a) \in Messages /\ rest \in TokenLists /\ rest # <<>> /\ Without(rest, Special) = <<a>>
      /\ <<Eos>> \o rest \in TokenLists /\ <<Eos>> \o rest # <<>>
      /\ Without(<<Eos>> \o rest, Special) = <<a>>
  BY <1>2, TurningText
<1>4. PICK x : x = Render(old)
  OBVIOUS
<1>5. PICK y : y = RenderOne(UserSays(a))
  OBVIOUS
<1>6. PICK h : h = <<Header("assistant")>>
  OBVIOUS
<1>7. x \in Seq(Atoms) /\ y \in Seq(Atoms) /\ h \in Seq(Atoms) /\ Render(ms) = x \o y
  <2>1. x \in Seq(Atoms) /\ y \in Seq(Atoms) /\ Render(ms) = x \o y
    BY <1>1, <1>3, <1>4, <1>5, RenderNext, RenderedOne DEF TokenLists
  <2>2. "assistant" \in Words
    BY DEF Words
  <2>3. Header("assistant") \in Atoms
    BY <2>2, Short DEF Header, Atoms
  <2>4. h \in Seq(Atoms)
    BY <1>6, <2>3, Short
  <2>5. QED
    BY <2>1, <2>4
<1>8. Render(ms) \o <<Header("assistant")>> = x \o rest
  <2>1. (x \o y) \o h = x \o (y \o h)
    BY <1>7, ConcatAssociative
  <2>2. rest = y \o h
    BY <1>2, <1>5, <1>6, Zenon DEF Turning
  <2>3. QED
    BY <1>6, <1>7, <2>1, <2>2, Zenon
<1>9. CASE seen = <<>>
  <2>1. PromptTokens(ms, seen) = x \o rest
    BY <1>8, <1>9, Zenon DEF PromptTokens
  <2>2. x = <<>>
    <3>1. [k \in DOMAIN <<>> |-> RenderOne(<<>>[k])] = <<>>
      OBVIOUS
    <3>2. old = <<>>
      BY <1>9
    <3>3. QED
      BY <1>4, <3>1, <3>2, FlatNone, Zenon DEF Render
  <2>3. PromptTokens(ms, seen) = seen \o rest
    BY <1>9, <2>1, <2>2, Zenon
  <2>4. QED
    BY <1>1, <1>3, <2>3, Zenon
<1>10. CASE seen # <<>>
  <2>1. Len(old) > 0 /\ old[Len(old)].role = "assistant" /\ UserSays(a).role = "user"
    BY <1>10 DEF UserSays
  <2>2. LastAnswer(ms) = Len(old) /\ SubSeq(ms, 1, Len(old)) = old
    BY <1>1, <1>3, <2>1, LastAnswerIs
  <2>3. Len(old) # 0
    BY <2>1
  <2>4. PromptTokens(ms, seen) = ReplacePrefix(seen, x, x \o rest)
    BY <1>4, <1>8, <1>10, <2>2, <2>3, Zenon DEF PromptTokens
  <2>5. x \in TokenLists /\ Len(x) > 0 /\ x[Len(x)] = Eos
    BY <1>4, <2>1, RenderEnds
  <2>6. \/ ReplacePrefix(seen, x, x \o rest) = seen \o rest
        \/ ReplacePrefix(seen, x, x \o rest) = seen \o (<<Eos>> \o rest)
    BY <1>3, <1>10, <2>5, PrefixKept, Zenon
  <2>7. QED
    BY <1>1, <1>3, <2>4, <2>6, Zenon
<1>11. QED
  BY <1>9, <1>10

(***************************************************************************)
(* The calls of a conversation, and the log made of them.                  *)
(***************************************************************************)
Calls == [prompt : TokenLists, generation : TokenLists]
Entries == [role : {"user", "assistant"}, tokens : TokenLists]
Asks(tokens) == [role |-> "user", tokens |-> tokens]
Answered(tokens) == [role |-> "assistant", tokens |-> tokens]
LogTokens(log) == FlattenSeq([k \in DOMAIN log |-> log[k].tokens])

LEMMA SeenNext ==
  ASSUME NEW calls \in Seq(Calls), NEW c \in Calls
  PROVE  /\ Seen(calls) \in TokenLists
         /\ Append(calls, c) # <<>>
         /\ Seen(Append(calls, c)) = c.prompt \o c.generation
         /\ calls # <<>> => Seen(calls) = calls[Len(calls)].prompt \o calls[Len(calls)].generation
<1>1. PICK cs : cs = Append(calls, c)
  OBVIOUS
<1>2. cs \in Seq(Calls) /\ Len(cs) = Len(calls) + 1 /\ cs[Len(cs)] = c /\ Len(calls) \in Nat
  BY <1>1, LongerBy
<1>3. cs # <<>>
  BY <1>2
<1>4. Last(cs) = c
  BY <1>2, Zenon DEF Last
<1>5. Seen(cs) = c.prompt \o c.generation
  BY <1>3, <1>4, Zenon DEF Seen
<1>6. ASSUME calls # <<>>
      PROVE  /\ Seen(calls) = calls[Len(calls)].prompt \o calls[Len(calls)].generation
             /\ Seen(calls) \in TokenLists
  <2>1. Len(calls) \in 1 .. Len(calls)
    BY <1>2, <1>6
  <2>2. PICK d \in Calls : d = calls[Len(calls)]
    BY <2>1
  <2>3. Last(calls) = d
    BY <2>2, Zenon DEF Last
  <2>4. Seen(calls) = d.prompt \o d.generation
    BY <1>6, <2>3, Zenon DEF Seen
  <2>5. PICK p, g : p = d.prompt /\ g = d.generation /\ p \in Seq(Atoms) /\ g \in Seq(Atoms)
    BY DEF Calls, TokenLists
  <2>6. p \o g \in Seq(Atoms)
    BY <2>5, ConcatProperties
  <2>7. QED
    BY <2>2, <2>4, <2>5, <2>6, Zenon DEF TokenLists
<1>7. calls = <<>> => Seen(calls) \in TokenLists
  <2>1. <<>> \in TokenLists
    BY DEF TokenLists
  <2>2. QED
    BY <2>1, Zenon DEF Seen
<1>8. QED
  BY <1>1, <1>3, <1>5, <1>6, <1>7, Zenon

(* What a prompt adds to the tokens it begins with. *)
LEMMA AddedBehind ==
  ASSUME NEW x \in TokenLists, NEW y \in TokenLists
  PROVE  /\ SubSeq(x \o y, Len(x) + 1, Len(x \o y)) = y
         /\ IsPrefix(x, x \o y)
<1>1. PICK z : z = x \o y
  OBVIOUS
<1>2. /\ z \in Seq(Atoms) /\ Len(x) \in Nat /\ Len(y) \in Nat /\ Len(z) = Len(x) + Len(y)
      /\ \A i \in 1 .. Len(x) : z[i] = x[i]
  BY <1>1, ConcatAt DEF TokenLists
<1>3. CASE x = <<>>
  <2>1. Len(x) + 1 = 1
    BY <1>3
  <2>2. z = y
    BY <1>1, <1>3, ConcatEmptySeq DEF TokenLists
  <2>3. SubSeq(y, 1, Len(y)) = y
    BY SubSeqFull DEF TokenLists
  <2>4. Len(x) <= Len(z) /\ SubSeq(x, 1, Len(x)) = <<>> /\ SubSeq(z, 1, Len(x)) = <<>>
    <3>1. Len(x) = 0 /\ 0 <= Len(z) /\ 0 \in Int /\ 1 \in Int /\ 1 > 0
      BY <1>2, <1>3
    <3>2. SubSeq(x, 1, 0) = <<>> /\ SubSeq(z, 1, 0) = <<>>
      BY <1>2, <3>1, SubSeqEmpty DEF TokenLists
    <3>3. QED
      BY <3>1, <3>2
  <2>5. QED
    BY <1>1, <2>1, <2>2, <2>3, <2>4, Zenon DEF IsPrefix
<1>4. CASE x # <<>>
  <2>1. Len(x) > 0
    BY <1>2, <1>4 DEF TokenLists
  <2>2. SubSeq(x \o y, Len(x) + 1, Len(x \o y)) = y
    BY <2>1, BehindLast DEF TokenLists
  <2>3. PICK n \in Int : n = Len(x)
    BY <1>2
  <2>4. SubSeq(x, 1, n) = x
    BY <2>3, SubSeqFull DEF TokenLists
  <2>5. PICK a \in Int : a = 1
    OBVIOUS
  <2>6. \A i \in a .. n : z[i] \in Atoms
    <3>1. \A i \in 1 .. n : i \in 1 .. Len(z)
      BY <1>2, <2>3
    <3>2. QED
      BY <1>2, <2>5, <3>1
  <2>7. /\ SubSeq(z, a, n) \in Seq(Atoms) /\ Len(SubSeq(z, a, n)) = (IF a <= n THEN n - a + 1 ELSE 0)
        /\ \A i \in 1 .. n - a + 1 : SubSeq(z, a, n)[i] = z[a + i - 1]
    BY <2>6, SubSeqProperties
  <2>8. PICK s : s = SubSeq(z, a, n)
    OBVIOUS
  <2>9. s \in Seq(Atoms) /\ Len(s) = n /\ \A i \in 1 .. n : s[i] = x[i]
    <3>1. s \in Seq(Atoms) /\ Len(s) = n
      BY <2>1, <2>3, <2>5, <2>7, <2>8
    <3>2. ASSUME NEW i \in 1 .. n PROVE s[i] = x[i]
      <4>1. i \in 1 .. n - a + 1 /\ a + i - 1 = i /\ i \in 1 .. Len(x)
        BY <2>3, <2>5
      <4>2. SubSeq(z, a, n)[i] = z[a + i - 1]
        BY <2>7, <4>1
      <4>3. QED
        BY <1>2, <2>8, <4>1, <4>2
    <3>3. QED
      BY <3>1, <3>2
  <2>10. s = x
    BY <2>3, <2>9, SeqEqual DEF TokenLists
  <2>11. Len(x) <= Len(z) /\ SubSeq(x, 1, Len(x)) = SubSeq(z, 1, Len(x))
    <3>1. Len(x) <= Len(z)
      BY <1>2
    <3>2. QED
      BY <2>3, <2>4, <2>5, <2>8, <2>10, <3>1
  <2>12. QED
    BY <1>1, <2>2, <2>11, Zenon DEF IsPrefix
<1>5. QED
  BY <1>3, <1>4

(* The two entries a call adds. *)
LEMMA GymLogNext ==
  ASSUME NEW calls \in Seq(Calls), NEW c \in Calls, NEW more \in TokenLists,
         c.prompt = Seen(calls) \o more
  PROVE  /\ GymLog(calls) \in Seq(Entries)
         /\ GymLog(Append(calls, c)) = Append(Append(GymLog(calls), Asks(more)), Answered(c.generation))
<1>1. PICK n \in Nat : n = Len(calls)
  OBVIOUS
<1>2. PICK cs : cs = Append(calls, c)
  OBVIOUS
<1>3. /\ cs \in Seq(Calls) /\ DOMAIN calls = 1 .. n /\ DOMAIN cs = 1 .. n + 1
      /\ cs[n + 1] = c
      /\ \A k \in 1 .. n : cs[k] = calls[k] /\ calls[k] \in Calls
      /\ \A k \in 1 .. n + 1 : cs[k] \in Calls
  BY <1>1, <1>2, LongerBy
<1> DEFINE Before(list, k) == IF k = 1 THEN 0 ELSE Len(list[k - 1].prompt \o list[k - 1].generation)
           Pair(list, k) ==
             <<[role |-> "user", tokens |-> SubSeq(list[k].prompt, Before(list, k) + 1, Len(list[k].prompt))],
               [role |-> "assistant", tokens |-> list[k].generation]>>
<1>4. PICK f : f = [k \in 1 .. n |-> Pair(calls, k)]
  OBVIOUS
<1>5. PICK g : g = [k \in 1 .. n + 1 |-> Pair(cs, k)]
  OBVIOUS
<1>6. GymLog(calls) = FlattenSeq(f)
  BY <1>3, <1>4, Zenon DEF GymLog
<1>7. GymLog(cs) = FlattenSeq(g)
  BY <1>3, <1>5, Zenon DEF GymLog
<1>8. ASSUME NEW list \in Seq(Calls), NEW k \in 1 .. Len(list)
      PROVE  Pair(list, k) \in Seq(Entries)
  <2>1. PICK d \in Calls : d = list[k]
    OBVIOUS
  <2>2. Before(list, k) \in Nat
    <3>1. ASSUME k # 1
          PROVE  Len(list[k - 1].prompt \o list[k - 1].generation) \in Nat
      <4>1. k - 1 \in 1 .. Len(list)
        BY <3>1
      <4>2. PICK e \in Calls : e = list[k - 1]
        BY <4>1
      <4>3. PICK p, q : p = e.prompt /\ q = e.generation /\ p \in Seq(Atoms) /\ q \in Seq(Atoms)
        BY DEF Calls, TokenLists
      <4>4. p \o q \in Seq(Atoms)
        BY <4>3, ConcatProperties
      <4>5. Len(p \o q) \in Nat
        BY <4>4, LenProperties
      <4>6. QED
        BY <4>2, <4>3, <4>5, Zenon
    <3>2. 0 \in Nat
      OBVIOUS
    <3>3. QED
      BY <3>1, <3>2, Zenon
  <2>3. PICK a \in Int, b \in Int : a = Before(list, k) + 1 /\ b = Len(list[k].prompt) /\ a >= 1
    <3>1. d.prompt \in Seq(Atoms)
      BY DEF Calls, TokenLists
    <3>2. Len(d.prompt) \in Int
      BY <3>1
    <3>3. PICK z \in Nat : z = Before(list, k)
      BY <2>2
    <3>4. z + 1 \in Int /\ z + 1 >= 1
      OBVIOUS
    <3>5. QED
      BY <2>1, <3>2, <3>3, <3>4, Zenon
  <2>4. SubSeq(list[k].prompt, a, b) \in TokenLists
    <3>1. PICK p : p = d.prompt /\ p \in Seq(Atoms) /\ b = Len(p)
      BY <2>1, <2>3 DEF Calls, TokenLists
    <3>2. \A i \in a .. b : p[i] \in Atoms
      <4>1. a >= 1
        BY <2>3
      <4>2. \A i \in a .. b : i \in 1 .. Len(p)
        BY <3>1, <4>1
      <4>3. QED
        BY <3>1, <4>2
    <3>3. SubSeq(p, a, b) \in Seq(Atoms)
      BY <3>2, SubSeqProperties
    <3>4. QED
      BY <2>1, <3>1, <3>3, Zenon DEF TokenLists
  <2>5. PICK t : t = SubSeq(list[k].prompt, Before(list, k) + 1, Len(list[k].prompt)) /\ t \in TokenLists
    BY <2>3, <2>4, Zenon
  <2>6. PICK x : x = [role |-> "user", tokens |-> t]
    OBVIOUS
  <2>7. PICK y : y = [role |-> "assistant", tokens |-> list[k].generation]
    OBVIOUS
  <2>8. x \in Entries /\ y \in Entries
    <3>1. list[k].generation \in TokenLists
      BY <2>1 DEF Calls
    <3>2. QED
      BY <2>5, <2>6, <2>7, <3>1 DEF Entries
  <2>9. Pair(list, k) = <<x, y>>
    BY <2>5, <2>6, <2>7, Zenon
  <2>10. <<x, y>> \in Seq(Entries)
    BY <2>8
  <2>11. QED
    BY <2>9, <2>10, Zenon
<1>9. Lists(f, n, Entries) /\ Lists(g, n + 1, Entries) /\ Begins(g, f, n)
  <2>1. Len(cs) = n + 1
    BY <1>1, <1>2, LongerBy
  <2>2. f \in [1 .. n -> Seq(Entries)]
    <3>1. \A k \in 1 .. n : Pair(calls, k) \in Seq(Entries)
      BY <1>1, <1>8
    <3> HIDE DEF Pair
    <3>2. QED
      BY <1>4, <3>1
  <2>3. g \in [1 .. n + 1 -> Seq(Entries)]
    <3>1. \A k \in 1 .. n + 1 : Pair(cs, k) \in Seq(Entries)
      BY <1>3, <1>8, <2>1
    <3> HIDE DEF Pair
    <3>2. QED
      BY <1>5, <3>1
  <2>4. ASSUME NEW k \in 1 .. n PROVE g[k] = f[k]
    <3>1. k \in 1 .. n + 1 /\ (k = 1 \/ k - 1 \in 1 .. n)
      OBVIOUS
    <3>2. cs[k] = calls[k] /\ (k = 1 \/ cs[k - 1] = calls[k - 1])
      BY <1>3, <3>1
    <3>3. Pair(cs, k) = Pair(calls, k)
      BY <3>2, Zenon
    <3> HIDE DEF Pair
    <3>4. g[k] = Pair(cs, k) /\ f[k] = Pair(calls, k)
      BY <1>4, <1>5, <3>1
    <3>5. QED
      BY <3>3, <3>4
  <2>5. QED
    BY <2>2, <2>3, <2>4 DEF Lists, Begins
<1>10. FlattenSeq(f) \in Seq(Entries) /\ FlatIs(g, f, g[n + 1])
  BY <1>9, FlatNext
<1>11. Before(cs, n + 1) = Len(Seen(calls))
  <2>1. CASE n = 0
    <3>1. calls = <<>>
      <4>1. Len(calls) = 0
        BY <1>1, <2>1
      <4>2. QED
        BY <4>1, EmptySeq
    <3>2. Seen(calls) = <<>>
      BY <3>1, Zenon DEF Seen
    <3>3. n + 1 = 1 /\ Len(<<>>) = 0
      BY <2>1
    <3>4. QED
      BY <3>2, <3>3, Zenon
  <2>2. CASE n # 0
    <3>1. calls # <<>> /\ n \in 1 .. n /\ (n + 1) - 1 = n /\ n + 1 # 1
      BY <1>1, <2>2
    <3>2. Seen(calls) = calls[n].prompt \o calls[n].generation
      BY <1>1, <3>1, SeenNext
    <3>3. cs[n] = calls[n]
      BY <1>3, <3>1
    <3>4. Before(cs, n + 1) = Len(cs[n].prompt \o cs[n].generation)
      BY <3>1, Zenon
    <3>5. QED
      BY <3>2, <3>3, <3>4, Zenon
  <2>3. QED
    BY <2>1, <2>2
<1>12. SubSeq(c.prompt, Before(cs, n + 1) + 1, Len(c.prompt)) = more
  <2>1. Seen(calls) \in TokenLists
    BY SeenNext
  <2>2. SubSeq(Seen(calls) \o more, Len(Seen(calls)) + 1, Len(Seen(calls) \o more)) = more
    BY <2>1, AddedBehind
  <2>3. QED
    BY <1>11, <2>2, Zenon
<1>13. PICK x, y : x = Asks(more) /\ y = Answered(c.generation) /\ x \in Entries /\ y \in Entries
  <2>1. Asks(more) \in Entries
    BY DEF Asks, Entries
  <2>2. Answered(c.generation) \in Entries
    BY DEF Answered, Entries, Calls
  <2>3. QED
    BY <2>1, <2>2
<1>14. Pair(cs, n + 1) = <<x, y>>
  BY <1>3, <1>12, <1>13, Zenon DEF Asks, Answered
<1>15. g[n + 1] = <<x, y>>
  <2> HIDE DEF Pair
  <2>1. n + 1 \in 1 .. n + 1
    OBVIOUS
  <2>2. g[n + 1] = Pair(cs, n + 1)
    BY <1>5, <2>1
  <2>3. QED
    BY <1>14, <2>2
<1>16. PICK l \in Seq(Entries) : l = FlattenSeq(f)
  BY <1>10
<1>17. FlattenSeq(g) = l \o <<x, y>>
  BY <1>10, <1>15, <1>16, Zenon DEF FlatIs
<1>18. l \o <<x, y>> = Append(Append(l, x), y)
  BY <1>13
<1>19. QED
  BY <1>2, <1>6, <1>7, <1>10, <1>13, <1>16, <1>17, <1>18, Zenon

(* Their tokens. *)
LEMMA LogTokensNext ==
  ASSUME NEW log \in Seq(Entries), NEW e \in Entries
  PROVE  /\ LogTokens(log) \in TokenLists
         /\ LogTokens(Append(log, e)) = LogTokens(log) \o e.tokens
<1>1. PICK n \in Nat : n = Len(log)
  OBVIOUS
<1>2. PICK f : f = [k \in 1 .. n |-> log[k].tokens]
  OBVIOUS
<1>3. PICK g : g = [k \in 1 .. n + 1 |-> Append(log, e)[k].tokens]
  OBVIOUS
<1>4. /\ DOMAIN log = 1 .. n /\ DOMAIN Append(log, e) = 1 .. n + 1
      /\ Append(log, e)[n + 1] = e
      /\ \A k \in 1 .. n : Append(log, e)[k] = log[k] /\ log[k] \in Entries
      /\ \A k \in 1 .. n + 1 : Append(log, e)[k] \in Entries
  BY <1>1, LongerBy
<1>5. LogTokens(log) = FlattenSeq(f) /\ LogTokens(Append(log, e)) = FlattenSeq(g)
  BY <1>2, <1>3, <1>4, Zenon DEF LogTokens
<1>6. \A x \in Entries : x.tokens \in Seq(Atoms)
  BY DEF Entries, TokenLists
<1>7. Lists(f, n, Atoms) /\ Lists(g, n + 1, Atoms) /\ Begins(g, f, n)
  <2>1. f \in [1 .. n -> Seq(Atoms)]
    BY <1>2, <1>4, <1>6
  <2>2. g \in [1 .. n + 1 -> Seq(Atoms)]
    BY <1>3, <1>4, <1>6
  <2>3. ASSUME NEW k \in 1 .. n PROVE g[k] = f[k]
    <3>1. k \in 1 .. n + 1 /\ Append(log, e)[k] = log[k]
      BY <1>4
    <3>2. g[k] = Append(log, e)[k].tokens /\ f[k] = log[k].tokens
      BY <1>2, <1>3, <3>1
    <3>3. QED
      BY <3>1, <3>2, Zenon
  <2>4. QED
    BY <2>1, <2>2, <2>3 DEF Lists, Begins
<1>8. FlattenSeq(f) \in Seq(Atoms) /\ FlatIs(g, f, g[n + 1])
  BY <1>1, <1>7, FlatNext
<1>9. g[n + 1] = e.tokens
  BY <1>3, <1>4
<1>10. QED
  BY <1>5, <1>8, <1>9, Zenon DEF FlatIs, TokenLists

(***************************************************************************)
(* Messages and calls that belong together.                                *)
(***************************************************************************)
LogFits(log, calls) ==
  /\ log \in Seq(Entries) /\ Len(log) = 2 * Len(calls)
  /\ \A k \in DOMAIN calls : /\ log[2 * k - 1].role = "user"
                             /\ log[2 * k] = Answered(calls[k].generation)

Aligned(calls, old) ==
  /\ calls \in Seq(Calls) /\ old \in Seq(Messages)
  /\ IF Seen(calls) = <<>> THEN old = <<>> ELSE Len(old) > 0 /\ old[Len(old)].role = "assistant"
  /\ Contiguous(calls)
  /\ LogFits(GymLog(calls), calls)
  /\ LogTokens(GymLog(calls)) = Seen(calls)
  /\ Without(Seen(calls), Special) = Texts(old)

Says(generation) == [role |-> "assistant", text |-> Text(generation)]
CallAt(messages, calls, generation) ==
  [prompt |-> PromptTokens(messages, Seen(calls)), generation |-> generation]

LEMMA AlignedNone == Aligned(<<>>, <<>>)
<1>1. <<>> \in Seq(Calls) /\ <<>> \in Seq(Messages) /\ <<>> \in Seq(Entries) /\ Len(<<>>) = 0
  OBVIOUS
<1>2. Seen(<<>>) = <<>>
  BY Zenon DEF Seen
<1>3. Contiguous(<<>>)
  BY <1>1 DEF Contiguous
<1>4. GymLog(<<>>) = <<>>
  <2> DEFINE Body(k) ==
               <<[role |-> "user",
                  tokens |-> SubSeq(<<>>[k].prompt,
                                    (IF k = 1 THEN 0 ELSE Len(<<>>[k - 1].prompt \o <<>>[k - 1].generation)) + 1,
                                    Len(<<>>[k].prompt))],
                 [role |-> "assistant", tokens |-> <<>>[k].generation]>>
  <2>1. GymLog(<<>>) = FlattenSeq([k \in DOMAIN <<>> |-> Body(k)])
    BY Zenon DEF GymLog
  <2> HIDE DEF Body
  <2>2. [k \in DOMAIN <<>> |-> Body(k)] = <<>>
    OBVIOUS
  <2>3. QED
    BY <2>1, <2>2, FlatNone, Zenon
<1>5. LogFits(<<>>, <<>>)
  BY <1>1 DEF LogFits
<1>6. LogTokens(<<>>) = <<>>
  <2>1. [k \in DOMAIN <<>> |-> <<>>[k].tokens] = <<>>
    OBVIOUS
  <2>2. QED
    BY <2>1, FlatNone, Zenon DEF LogTokens
<1>7. Texts(<<>>) = <<>>
  <2>1. [k \in DOMAIN <<>> |-> <<>>[k].text] = <<>>
    OBVIOUS
  <2>2. QED
    BY <2>1, FlatNone, Zenon DEF Texts
<1>8. Without(<<>>, Special) = <<>>
  BY WithoutNone
<1>9. QED
  BY <1>1, <1>2, <1>3, <1>4, <1>5, <1>6, <1>7, <1>8, Zenon DEF Aligned

(* What the model may generate, and the text a client sees of it. *)
LEMMA GeneratedText ==
  ASSUME NEW g \in Generations
  PROVE  g \in TokenLists /\ Text(g) \in Atoms /\ Text(g) = Without(g, Special)
<1>1. g \in Seq(Seq(STRING)) /\ \A k \in DOMAIN g : g[k] \notin {Header("user"), Header("assistant")}
  BY RolloutAssumption
<1>2. g \in TokenLists
  <2>1. \A s \in Seq(STRING) : s \in Atoms
    <3> SUFFICES ASSUME NEW s \in Seq(STRING) PROVE s \in Atoms
      OBVIOUS
    <3>1. \A k \in 1 .. Len(s) : s[k] \in Words
      BY DEF Words
    <3>2. QED
      BY <3>1 DEF Atoms
  <2>2. \A k \in 1 .. Len(g) : g[k] \in Atoms
    BY <1>1, <2>1
  <2>3. QED
    BY <1>1, <2>2 DEF TokenLists
<1>3. \A k \in DOMAIN g : g[k] \in {Eos} <=> g[k] \in Special
  BY <1>1, Zenon DEF Special
<1>4. [k \in DOMAIN g |-> IF g[k] \in {Eos} THEN <<>> ELSE g[k]]
        = [k \in DOMAIN g |-> IF g[k] \in Special THEN <<>> ELSE g[k]]
  BY <1>3, Zenon
<1>5. Text(g) = Without(g, Special)
  BY <1>4, Zenon DEF Text, Without
<1>6. <<>> \in TokenLists
  BY DEF TokenLists
<1>7. Text(g) \in Atoms
  BY <1>2, <1>5, <1>6, WithoutBoth, Zenon
<1>8. QED
  BY <1>2, <1>5, <1>7

(* One more call on the messages so far and the user's. *)
LEMMA AlignedNext ==
  ASSUME NEW calls, NEW old, Aligned(calls, old), NEW a \in {"u", "t"}, NEW g \in Generations
  PROVE  Aligned(Append(calls, CallAt(Append(old, UserSays(a)), calls, g)),
                 Append(Append(old, UserSays(a)), Says(g)))
<1>1. calls \in Seq(Calls) /\ old \in Seq(Messages)
  BY DEF Aligned
<1>2. PICK seen \in TokenLists : seen = Seen(calls)
  <2>1. <<>> \in TokenLists
    BY DEF TokenLists
  <2>2. [prompt |-> <<>>, generation |-> <<>>] \in Calls
    BY <2>1 DEF Calls
  <2>3. QED
    BY <1>1, <2>2, SeenNext
<1>3. IF seen = <<>> THEN old = <<>> ELSE Len(old) > 0 /\ old[Len(old)].role = "assistant"
  BY <1>2, Zenon DEF Aligned
<1>4. PICK more \in TokenLists :
        /\ more # <<>> /\ Without(more, Special) = <<a>>
        /\ PromptTokens(Append(old, UserSays(a)), seen) = seen \o more
  BY <1>1, <1>3, NextPrompt
<1>5. g \in TokenLists /\ Text(g) \in Atoms /\ Text(g) = Without(g, Special)
  BY GeneratedText
<1>6. PICK prompt : prompt = seen \o more
  OBVIOUS
<1>7. prompt \in TokenLists /\ prompt # <<>> /\ Without(prompt, Special) = Without(seen, Special) \o <<a>>
  <2>1. seen \o more \in TokenLists /\ WithoutAre(seen, more, Special)
    BY WithoutBoth
  <2>2. Len(seen \o more) = Len(seen) + Len(more) /\ Len(seen) \in Nat /\ Len(more) \in Nat
    BY ConcatAt DEF TokenLists
  <2>3. Len(more) # 0
    BY <1>4, EmptySeq DEF TokenLists
  <2>4. Len(prompt) # 0
    BY <1>6, <2>2, <2>3
  <2>5. prompt # <<>>
    BY <2>4
  <2>6. QED
    BY <1>4, <1>6, <2>1, <2>5, Zenon DEF WithoutAre
<1>8. PICK whole : whole = prompt \o g
  OBVIOUS
<1>9. /\ whole \in TokenLists /\ whole # <<>>
      /\ Without(whole, Special) = (Without(seen, Special) \o <<a>>) \o Text(g)
  <2>1. prompt \o g \in TokenLists /\ WithoutAre(prompt, g, Special)
    BY <1>5, <1>7, WithoutBoth
  <2>2. Len(prompt \o g) = Len(prompt) + Len(g) /\ Len(prompt) \in Nat /\ Len(g) \in Nat
    BY <1>5, <1>7, ConcatAt DEF TokenLists
  <2>3. Len(prompt) # 0
    BY <1>7, EmptySeq DEF TokenLists
  <2>4. Len(whole) # 0
    BY <1>8, <2>2, <2>3
  <2>5. whole # <<>>
    BY <2>4
  <2>6. QED
    BY <1>5, <1>7, <1>8, <2>1, <2>5, Zenon DEF WithoutAre
<1>10. PICK c \in Calls : /\ c = CallAt(Append(old, UserSays(a)), calls, g)
                          /\ c.prompt = prompt /\ c.generation = g
  <2>1. CallAt(Append(old, UserSays(a)), calls, g) = [prompt |-> prompt, generation |-> g]
    BY <1>2, <1>4, <1>6, Zenon DEF CallAt
  <2>2. [prompt |-> prompt, generation |-> g] \in Calls
    BY <1>5, <1>7 DEF Calls
  <2>3. [prompt |-> prompt, generation |-> g].prompt = prompt
        /\ [prompt |-> prompt, generation |-> g].generation = g
    OBVIOUS
  <2>4. QED
    BY <2>1, <2>2, <2>3, Zenon
<1>11. PICK n \in Nat : n = Len(calls)
  BY <1>1
<1>12. PICK cs : cs = Append(calls, c)
  OBVIOUS
<1>13. /\ cs \in Seq(Calls) /\ Len(cs) = n + 1 /\ DOMAIN calls = 1 .. n /\ DOMAIN cs = 1 .. n + 1
       /\ cs[n + 1] = c /\ \A k \in 1 .. n : cs[k] = calls[k]
  BY <1>1, <1>11, <1>12, LongerBy
<1>14. Seen(cs) = whole
  BY <1>1, <1>8, <1>10, <1>12, SeenNext, Zenon
<1>15. /\ GymLog(calls) \in Seq(Entries)
       /\ GymLog(cs) = Append(Append(GymLog(calls), Asks(more)), Answered(g))
  <2>1. c.prompt = Seen(calls) \o more
    BY <1>2, <1>6, <1>10, Zenon
  <2>2. QED
    BY <1>1, <1>10, <1>12, <2>1, GymLogNext
<1>16. PICK x, y : /\ x \in Entries /\ y \in Entries /\ x = Asks(more) /\ y = Answered(g)
                   /\ x.tokens = more /\ y.tokens = g /\ x.role = "user"
  <2>1. Asks(more) \in Entries /\ Asks(more).tokens = more /\ Asks(more).role = "user"
    BY DEF Asks, Entries
  <2>2. Answered(g) \in Entries /\ Answered(g).tokens = g
    BY <1>5 DEF Answered, Entries
  <2>3. QED
    BY <2>1, <2>2
<1>17. PICK log \in Seq(Entries) : log = GymLog(calls)
  BY <1>15
<1>18. PICK half : half = Append(log, x)
  OBVIOUS
<1>19. PICK full : full = Append(half, y)
  OBVIOUS
<1>20. GymLog(cs) = full
  BY <1>15, <1>16, <1>17, <1>18, <1>19, Zenon
<1>21. half \in Seq(Entries) /\ full \in Seq(Entries)
  BY <1>16, <1>18, <1>19, LongerBy
<1>22. LogTokens(full) = whole
  <2>1. LogTokens(log) = seen
    BY <1>2, <1>17, Zenon DEF Aligned
  <2>2. LogTokens(half) = seen \o more
    BY <1>16, <1>18, <2>1, LogTokensNext
  <2>3. LogTokens(full) = LogTokens(half) \o g
    BY <1>16, <1>19, <1>21, LogTokensNext
  <2>4. QED
    BY <1>6, <1>8, <2>2, <2>3, Zenon
<1>23. LogFits(full, cs)
  <2>1. /\ Len(log) = 2 * n
        /\ \A k \in 1 .. n : log[2 * k - 1].role = "user" /\ log[2 * k] = Answered(calls[k].generation)
    BY <1>11, <1>13, <1>17 DEF Aligned, LogFits
  <2>2. PICK m \in Nat : m = 2 * n
    BY <1>11
  <2>3. Len(half) = m + 1 /\ half[m + 1] = x /\ \A k \in 1 .. m : half[k] = log[k]
    BY <1>16, <1>18, <2>1, <2>2, LongerBy
  <2>4. /\ Len(full) = (m + 1) + 1 /\ full[(m + 1) + 1] = y /\ \A k \in 1 .. m + 1 : full[k] = half[k]
    BY <1>16, <1>19, <1>21, <2>3, LongerBy
  <2>5. Len(full) = 2 * Len(cs)
    BY <1>11, <1>13, <2>2, <2>4
  <2>6. ASSUME NEW k \in 1 .. n + 1
        PROVE  full[2 * k - 1].role = "user" /\ full[2 * k] = Answered(cs[k].generation)
    <3>1. CASE k \in 1 .. n
      <4>1. PICK i, j : i = 2 * k - 1 /\ j = 2 * k /\ i \in 1 .. m /\ j \in 1 .. m
        BY <2>2, <3>1
      <4>2. i \in 1 .. m + 1 /\ j \in 1 .. m + 1
        BY <2>2, <4>1
      <4>3. full[i] = log[i] /\ full[j] = log[j]
        BY <2>3, <2>4, <4>1, <4>2
      <4>4. log[i].role = "user" /\ log[j] = Answered(calls[k].generation) /\ cs[k] = calls[k]
        BY <1>13, <2>1, <3>1, <4>1
      <4>5. QED
        BY <4>1, <4>3, <4>4, Zenon
    <3>2. CASE k = n + 1
      <4>1. 2 * k - 1 = m + 1 /\ 2 * k = (m + 1) + 1 /\ m + 1 \in 1 .. m + 1
        BY <2>2, <3>2
      <4>2. full[m + 1] = x /\ full[(m + 1) + 1] = y
        BY <2>3, <2>4, <4>1
      <4>3. cs[k].generation = g
        BY <1>10, <1>13, <3>2
      <4>4. QED
        BY <1>16, <4>1, <4>2, <4>3, Zenon
    <3>3. QED
      BY <1>11, <3>1, <3>2
  <2>7. QED
    BY <1>13, <1>21, <2>5, <2>6 DEF LogFits
<1>24. Contiguous(cs)
  <2> SUFFICES ASSUME NEW k \in 2 .. n + 1
               PROVE  IsPrefix(cs[k - 1].prompt \o cs[k - 1].generation, cs[k].prompt)
    BY <1>13, Zenon DEF Contiguous
  <2>1. CASE k \in 2 .. n
    <3>1. k \in 1 .. n /\ k - 1 \in 1 .. n
      BY <2>1
    <3>2. cs[k] = calls[k] /\ cs[k - 1] = calls[k - 1]
      BY <1>13, <3>1
    <3>3. IsPrefix(calls[k - 1].prompt \o calls[k - 1].generation, calls[k].prompt)
      BY <1>11, <2>1, Zenon DEF Aligned, Contiguous
    <3>4. QED
      BY <3>2, <3>3, Zenon
  <2>2. CASE k = n + 1
    <3>1. n \in 1 .. n /\ k - 1 = n
      BY <2>2
    <3>2. calls # <<>>
      BY <1>11, <3>1
    <3>3. seen = calls[n].prompt \o calls[n].generation
      BY <1>1, <1>2, <1>10, <1>11, <3>2, SeenNext
    <3>4. cs[k - 1] = calls[n] /\ cs[k] = c
      BY <1>13, <2>2, <3>1
    <3>5. IsPrefix(seen, seen \o more)
      BY AddedBehind
    <3>6. QED
      BY <1>6, <1>10, <3>3, <3>4, <3>5, Zenon
  <2>3. QED
    BY <1>11, <2>1, <2>2
<1>25. PICK u, v : /\ u = UserSays(a) /\ v = Says(g) /\ u \in Messages /\ v \in Messages
                   /\ u.text = <<a>> /\ v.text = Text(g) /\ v.role = "assistant"
  <2>1. UserSays(a) \in Messages /\ UserSays(a).text = <<a>>
    BY TurningText DEF UserSays
  <2>2. Says(g) \in Messages /\ Says(g).text = Text(g) /\ Says(g).role = "assistant"
    BY <1>5 DEF Says, Messages
  <2>3. QED
    BY <2>1, <2>2
<1>26. PICK heard : heard = Append(old, u)
  OBVIOUS
<1>27. PICK ms : ms = Append(heard, v)
  OBVIOUS
<1>28. heard \in Seq(Messages)
  BY <1>1, <1>25, <1>26, LongerBy
<1>29. /\ ms \in Seq(Messages) /\ Len(ms) = Len(heard) + 1 /\ Len(heard) \in Nat
       /\ ms[Len(heard) + 1] = v
  BY <1>25, <1>27, <1>28, LongerBy
<1>30. Len(ms) > 0 /\ ms[Len(ms)].role = "assistant"
  BY <1>25, <1>29
<1>31. Texts(ms) = (Texts(old) \o <<a>>) \o Text(g)
  <2>1. Texts(heard) = Texts(old) \o <<a>>
    BY <1>1, <1>25, <1>26, TextsNext
  <2>2. Texts(ms) = Texts(heard) \o Text(g)
    BY <1>25, <1>27, <1>28, TextsNext
  <2>3. QED
    BY <2>1, <2>2, Zenon
<1>32. Without(whole, Special) = Texts(ms)
  <2>1. Without(seen, Special) = Texts(old)
    BY <1>2, Zenon DEF Aligned
  <2>2. QED
    BY <1>9, <1>31, <2>1, Zenon
<1>33. Aligned(cs, ms)
  BY <1>9, <1>13, <1>14, <1>20, <1>22, <1>23, <1>24, <1>29, <1>30, <1>32, Zenon DEF Aligned
<1>34. QED
  BY <1>10, <1>12, <1>25, <1>26, <1>27, <1>33, Zenon

(***************************************************************************)
(* Conversations.                                                          *)
(***************************************************************************)
Talk(c) ==
  \/ /\ Aligned(c.calls, c.messages)
     /\ Len(c.messages) > 0 /\ c.messages[Len(c.messages)].role = "assistant"
  \/ \E old \in Seq(Messages), a \in {"u", "t"} :
       c.messages = Append(old, UserSays(a)) /\ Aligned(c.calls, old)

GymInv ==
  mode = "gym" =>
    /\ phase \in {"concurrent", "returned"}
    /\ chat = [s \in Samples |-> chat[s]]
    /\ \A s \in Samples : Talk(chat[s])
    /\ phase = "concurrent" =>
         /\ arrived \in Seq(Samples) /\ results \in Seq(Seq(Entries)) /\ Len(results) = Len(arrived)
         /\ \A k \in DOMAIN arrived :
              /\ Aligned(chat[arrived[k]].calls, chat[arrived[k]].messages)
              /\ results[k] = GymLog(chat[arrived[k]].calls)
    /\ phase = "returned" =>
         \A s \in Samples :
           Aligned(chat[s].calls, chat[s].messages) /\ results[s] = GymLog(chat[s].calls)

(* Who spoke last. *)
LEMMA TalkSpoken ==
  ASSUME NEW s, Talk(chat[s])
  PROVE  /\ Spoke(s) => Aligned(chat[s].calls, chat[s].messages)
         /\ ~Spoke(s) => \E old \in Seq(Messages), a \in {"u", "t"} :
                           chat[s].messages = Append(old, UserSays(a)) /\ Aligned(chat[s].calls, old)
<1>1. ASSUME NEW old \in Seq(Messages), NEW a \in {"u", "t"}, chat[s].messages = Append(old, UserSays(a))
      PROVE  ~Spoke(s)
  <2>1. UserSays(a) \in Messages /\ UserSays(a).role = "user"
    BY TurningText DEF UserSays
  <2>2. PICK m \in Messages : m = UserSays(a) /\ m.role = "user"
    BY <2>1
  <2>3. PICK ms : ms = Append(old, m)
    OBVIOUS
  <2>4. ms[Len(ms)] = m
    BY <2>3, LongerBy
  <2>5. Last(chat[s].messages) = m
    BY <1>1, <2>2, <2>3, <2>4, Zenon DEF Last
  <2>6. "user" # "assistant"
    OBVIOUS
  <2>7. QED
    BY <2>2, <2>5, <2>6, Zenon DEF Spoke
<1>2. ASSUME chat[s].messages[Len(chat[s].messages)].role = "assistant" PROVE Spoke(s)
  BY <1>2, Zenon DEF Spoke, Last
<1>3. QED
  BY <1>1, <1>2, Zenon DEF Talk

LEMMA GymInit == Init => GymInv
<1> SUFFICES ASSUME Init, mode = "gym" PROVE GymInv
  BY DEF GymInv
<1> DEFINE Starts(m, b) ==
             /\ mode = m
             /\ task = [s \in DOMAIN Copy(b) |-> PromptOf(b, s).task]
             /\ phase = IF m = "batch" THEN "select" ELSE "concurrent"
             /\ chat = [s \in DOMAIN Copy(b) |->
                          [messages |-> <<[role |-> "user", text |-> <<"u">>]>>, calls |-> <<>>]]
             /\ arrived = <<>> /\ results = <<>>
<1>0. PICK m : \E b : Starts(m, b)
  BY Zenon DEF Init
<1>1. PICK b : Starts(m, b)
  BY <1>0
<1>2. phase = "concurrent"
  BY <1>1
<1>3. PICK all : all = DOMAIN Copy(b)
  OBVIOUS
<1>4. Samples = all
  BY <1>1, <1>3 DEF Samples
<1>5. PICK c : c = [messages |-> <<[role |-> "user", text |-> <<"u">>]>>, calls |-> <<>>]
  OBVIOUS
<1>6. Talk(c)
  <2>1. <<>> \in Seq(Messages) /\ "u" \in {"u", "t"}
    OBVIOUS
  <2>2. <<UserSays("u")>> = Append(<<>>, UserSays("u"))
    OBVIOUS
  <2>3. c.messages = <<[role |-> "user", text |-> <<"u">>]>> /\ c.calls = <<>>
    BY <1>5
  <2>4. c.messages = Append(<<>>, UserSays("u"))
    BY <2>2, <2>3, Zenon DEF UserSays
  <2>5. Aligned(c.calls, <<>>)
    BY <2>3, AlignedNone, Zenon
  <2>6. QED
    BY <2>1, <2>4, <2>5, Zenon DEF Talk
<1>7. chat = [s \in all |-> c]
  BY <1>1, <1>3, <1>5, Zenon
<1>8. chat = [s \in Samples |-> chat[s]] /\ \A s \in Samples : chat[s] = c
  BY <1>4, <1>7
<1>9. \A s \in Samples : Talk(chat[s])
  BY <1>6, <1>8, Zenon
<1>10. /\ arrived \in Seq(Samples) /\ results \in Seq(Seq(Entries)) /\ Len(results) = Len(arrived)
       /\ DOMAIN arrived = {}
  BY <1>1
<1>11. QED
  BY <1>2, <1>8, <1>9, <1>10, Zenon DEF GymInv

(* A conversation that has not arrived goes on. *)
LEMMA GymGoesOn ==
  ASSUME GymInv, mode = "gym", phase = "concurrent", NEW s \in Samples, s \notin Range(arrived),
         NEW c, Talk(c), chat' = [chat EXCEPT ![s] = c],
         UNCHANGED <<mode, task, phase, arrived, results>>
  PROVE  GymInv'
<1>1. Samples' = Samples /\ mode' = "gym" /\ phase' = "concurrent" /\ arrived' = arrived /\ results' = results
  BY DEF Samples
<1>2. chat = [r \in Samples |-> chat[r]]
  BY Zenon DEF GymInv
<1>3. chat' = [r \in Samples |-> IF r = s THEN c ELSE chat[r]]
  BY <1>2
<1>4. chat' = [r \in Samples |-> chat'[r]] /\ \A r \in Samples : chat'[r] = IF r = s THEN c ELSE chat[r]
  BY <1>3
<1>5. \A r \in Samples : Talk(chat'[r])
  BY <1>4, Zenon DEF GymInv
<1>6. \A k \in DOMAIN arrived : chat'[arrived[k]] = chat[arrived[k]]
  <2> SUFFICES ASSUME NEW k \in DOMAIN arrived PROVE chat'[arrived[k]] = chat[arrived[k]]
    OBVIOUS
  <2>1. arrived \in Seq(Samples)
    BY DEF GymInv
  <2>2. arrived[k] \in Samples
    BY <2>1
  <2>3. arrived[k] # s
    BY DEF Range
  <2>4. QED
    BY <1>4, <2>2, <2>3
<1>7. \A k \in DOMAIN arrived :
        /\ Aligned(chat'[arrived[k]].calls, chat'[arrived[k]].messages)
        /\ results[k] = GymLog(chat'[arrived[k]].calls)
  BY <1>6, Zenon DEF GymInv
<1>8. arrived \in Seq(Samples) /\ results \in Seq(Seq(Entries)) /\ Len(results) = Len(arrived)
  BY DEF GymInv
<1>9. phase' # "returned"
  BY <1>1
<1>10. QED
  BY <1>1, <1>4, <1>5, <1>7, <1>8, <1>9, Zenon DEF GymInv

LEMMA GymComplete ==
  ASSUME GymInv, NEW s \in Samples, Complete(s)
  PROVE  GymInv'
<1>1. /\ mode = "gym" /\ phase = "concurrent" /\ s \notin Range(arrived) /\ ~Spoke(s)
      /\ UNCHANGED <<mode, task, phase, arrived, results>>
  BY DEF Complete, Talking, sample, loop
<1>2. PICK g \in Generations :
        chat' = [chat EXCEPT ![s] =
          [messages |-> Append(@.messages, [role |-> "assistant", text |-> Text(g)]),
           calls |-> Append(@.calls, [prompt |-> PromptTokens(@.messages, Seen(@.calls)),
                                      generation |-> g])]]
  BY Zenon DEF Complete
<1>3. PICK now : now = chat[s]
  OBVIOUS
<1>4. PICK c : c = [messages |-> Append(now.messages, Says(g)),
                    calls |-> Append(now.calls, CallAt(now.messages, now.calls, g))]
  OBVIOUS
<1>5. chat' = [chat EXCEPT ![s] = c]
  BY <1>2, <1>3, <1>4, Zenon DEF Says, CallAt
<1>6. PICK old \in Seq(Messages), a \in {"u", "t"} :
        now.messages = Append(old, UserSays(a)) /\ Aligned(now.calls, old)
  <2>1. Talk(chat[s])
    BY <1>1, Zenon DEF GymInv
  <2>2. QED
    BY <1>1, <1>3, <2>1, TalkSpoken, Zenon
<1>7. c.messages = Append(now.messages, Says(g))
      /\ c.calls = Append(now.calls, CallAt(now.messages, now.calls, g))
  BY <1>4
<1>8. Aligned(c.calls, c.messages)
  <2>1. Aligned(Append(now.calls, CallAt(Append(old, UserSays(a)), now.calls, g)),
                Append(Append(old, UserSays(a)), Says(g)))
    BY <1>6, AlignedNext
  <2>2. QED
    BY <1>6, <1>7, <2>1, Zenon
<1>9. Len(c.messages) > 0 /\ c.messages[Len(c.messages)].role = "assistant"
  <2>1. UserSays(a) \in Messages
    BY TurningText
  <2>2. PICK ms \in Seq(Messages) : ms = Append(old, UserSays(a))
    BY <2>1, LongerBy
  <2>3. PICK m \in Messages : m = Says(g) /\ m.role = "assistant"
    <3>1. Says(g) \in Messages /\ Says(g).role = "assistant"
      BY GeneratedText DEF Says, Messages
    <3>2. QED
      BY <3>1
  <2>4. PICK n \in Nat : n = Len(ms)
    OBVIOUS
  <2>5. Len(Append(ms, m)) = n + 1 /\ Append(ms, m)[n + 1] = m
    BY <2>4, LongerBy
  <2>6. c.messages = Append(ms, m)
    BY <1>6, <1>7, <2>2, <2>3, Zenon
  <2>7. n + 1 > 0
    OBVIOUS
  <2>8. QED
    BY <2>3, <2>5, <2>6, <2>7
<1>10. Talk(c)
  BY <1>8, <1>9, Zenon DEF Talk
<1>11. QED
  BY <1>1, <1>5, <1>10, GymGoesOn

LEMMA GymContinue ==
  ASSUME GymInv, NEW s \in Samples, Continue(s)
  PROVE  GymInv'
<1>1. /\ mode = "gym" /\ phase = "concurrent" /\ s \notin Range(arrived) /\ Spoke(s)
      /\ UNCHANGED <<mode, task, phase, arrived, results>>
      /\ chat' = [chat EXCEPT ![s].messages = Append(@, [role |-> "user", text |-> <<"t">>])]
  BY DEF Continue, Talking, sample, loop
<1>2. PICK now : now = chat[s]
  OBVIOUS
<1>3. PICK c : c = [now EXCEPT !.messages = Append(@, UserSays("t"))]
  OBVIOUS
<1>4. chat' = [chat EXCEPT ![s] = c]
  BY <1>1, <1>2, <1>3, Zenon DEF UserSays
<1>5. Aligned(now.calls, now.messages)
  <2>1. Talk(chat[s])
    BY <1>1, Zenon DEF GymInv
  <2>2. QED
    BY <1>1, <1>2, <2>1, TalkSpoken, Zenon
<1>6. now.messages \in Seq(Messages)
  BY <1>5, Zenon DEF Aligned
<1>7. Talk(c)
  BY <1>3, <1>5, <1>6 DEF Talk
<1>8. QED
  BY <1>1, <1>4, <1>7, GymGoesOn

LEMMA GymArrive ==
  ASSUME GymInv, NEW s \in Samples, Arrive(s)
  PROVE  GymInv'
<1>1. /\ mode = "gym" /\ phase = "concurrent" /\ s \notin Range(arrived) /\ Spoke(s)
      /\ UNCHANGED <<mode, task, chat>>
  BY DEF Arrive, Talking, sample, loop
<1>2. Aligned(chat[s].calls, chat[s].messages)
  <2>1. Talk(chat[s])
    BY <1>1, Zenon DEF GymInv
  <2>2. QED
    BY <1>1, <2>1, TalkSpoken, Zenon
<1>3. PICK log \in Seq(Entries) : log = GymLog(chat[s].calls)
  BY <1>2 DEF Aligned, LogFits
<1>4. results' = Append(results, log) /\ arrived' = Append(arrived, s) /\ phase' = phase
  <2>1. Contiguous(chat[s].calls)
    BY <1>2, Zenon DEF Aligned
  <2>2. QED
    BY <1>3, <2>1, Zenon DEF Arrive
<1>5. PICK n \in Nat : n = Len(arrived)
  BY <1>1 DEF GymInv
<1>6. /\ arrived \in Seq(Samples) /\ results \in Seq(Seq(Entries)) /\ Len(results) = n
      /\ \A k \in 1 .. n : /\ Aligned(chat[arrived[k]].calls, chat[arrived[k]].messages)
                           /\ results[k] = GymLog(chat[arrived[k]].calls)
  <2>1. /\ arrived \in Seq(Samples) /\ results \in Seq(Seq(Entries)) /\ Len(results) = n
        /\ \A k \in DOMAIN arrived : /\ Aligned(chat[arrived[k]].calls, chat[arrived[k]].messages)
                                     /\ results[k] = GymLog(chat[arrived[k]].calls)
    BY <1>1, <1>5, Zenon DEF GymInv
  <2>2. DOMAIN arrived = 1 .. n
    BY <1>5, <2>1
  <2>3. QED
    BY <2>1, <2>2, Zenon
<1>7. PICK here, there : here = Append(arrived, s) /\ there = Append(results, log)
  OBVIOUS
<1>8. /\ here \in Seq(Samples) /\ Len(here) = n + 1 /\ here[n + 1] = s
      /\ DOMAIN here = 1 .. n + 1 /\ \A k \in 1 .. n : here[k] = arrived[k]
  BY <1>5, <1>6, <1>7, LongerBy
<1>9. /\ there \in Seq(Seq(Entries)) /\ Len(there) = n + 1 /\ there[n + 1] = log
      /\ \A k \in 1 .. n : there[k] = results[k]
  BY <1>6, <1>7, LongerBy
<1>10. ASSUME NEW k \in DOMAIN here
       PROVE  /\ Aligned(chat[here[k]].calls, chat[here[k]].messages)
              /\ there[k] = GymLog(chat[here[k]].calls)
  <2>1. k \in 1 .. n \/ k = n + 1
    BY <1>8
  <2>2. CASE k \in 1 .. n
    <3>1. here[k] = arrived[k] /\ there[k] = results[k]
      BY <1>8, <1>9, <2>2
    <3>2. QED
      BY <1>6, <2>2, <3>1, Zenon
  <2>3. CASE k = n + 1
    BY <1>2, <1>3, <1>8, <1>9, <2>3, Zenon
  <2>4. QED
    BY <2>1, <2>2, <2>3
<1>11. chat = [r \in Samples |-> chat[r]] /\ \A r \in Samples : Talk(chat[r])
  BY <1>1, Zenon DEF GymInv
<1>12. Samples' = Samples /\ phase' = "concurrent" /\ phase' # "returned"
  BY <1>1, <1>4 DEF Samples
<1>13. arrived' = here /\ results' = there /\ chat' = chat /\ Len(there) = Len(here)
  BY <1>1, <1>4, <1>7, <1>8, <1>9
<1>14. QED
  BY <1>8, <1>9, <1>10, <1>11, <1>12, <1>13, Zenon DEF GymInv

LEMMA GymGather ==
  ASSUME GymInv, GatherGym
  PROVE  GymInv'
<1>1. /\ mode = "gym" /\ phase = "concurrent" /\ Range(arrived) = Samples
      /\ results' = ByRow /\ phase' = "returned" /\ UNCHANGED <<mode, task, chat, arrived>>
  BY DEF GatherGym, sample, loop
<1>2. Samples' = Samples
  BY <1>1 DEF Samples
<1>3. ASSUME NEW s \in Samples
      PROVE  Aligned(chat[s].calls, chat[s].messages) /\ results'[s] = GymLog(chat[s].calls)
  <2>1. \E k \in DOMAIN arrived : arrived[k] = s
    BY <1>1 DEF Range
  <2>2. PICK k : k = CHOOSE i \in DOMAIN arrived : arrived[i] = s
    OBVIOUS
  <2>3. k \in DOMAIN arrived /\ arrived[k] = s
    BY <2>1, <2>2
  <2>4. results'[s] = results[k]
    BY <1>1, <2>2 DEF ByRow
  <2>5. QED
    BY <1>1, <2>3, <2>4, Zenon DEF GymInv
<1>4. chat = [r \in Samples |-> chat[r]] /\ \A r \in Samples : Talk(chat[r])
  BY <1>1, Zenon DEF GymInv
<1>5. phase' # "concurrent" /\ chat' = chat
  BY <1>1
<1>6. QED
  BY <1>1, <1>2, <1>3, <1>4, <1>5, Zenon DEF GymInv

LEMMA GymNext == GymInv /\ [Next]_vars => GymInv'
<1> SUFFICES ASSUME GymInv, [Next]_vars PROVE GymInv'
  OBVIOUS
<1>1. CASE Over \/ UNCHANGED vars
  <2>1. UNCHANGED <<mode, task, phase, chat, arrived, results>>
    BY <1>1 DEF Over, vars, gym
  <2>2. Samples' = Samples
    BY <2>1 DEF Samples
  <2>3. QED
    BY <2>1, <2>2, Zenon DEF GymInv
<1>2. CASE mode # "gym"
  <2>1. mode' = mode
    <3>1. CASE Batch
      BY <3>1 DEF Batch, Select, Generate, Respond, Step, Collect, FinishBatch, FailBatch
    <3>2. CASE Async
      BY <3>2 DEF Async, Begin, Resume, EndOfLoop, FailSample, Leave, StepOne, FailRollout, Gather
    <3>3. CASE Gym
      BY <3>3 DEF Gym, Complete, Continue, Arrive, GatherGym
    <3>4. CASE Over \/ UNCHANGED vars
      BY <3>4 DEF Over, vars
    <3>5. QED
      BY <3>1, <3>2, <3>3, <3>4 DEF Next
  <2>2. QED
    BY <1>2, <2>1 DEF GymInv
<1>3. CASE mode = "gym"
  <2>1. phase \in {"concurrent", "returned"}
    BY <1>3 DEF GymInv
  <2>2. ~Batch
    BY <1>3, <2>1 DEF Batch, Select, Generate, Respond, Step, Collect, FinishBatch, FailBatch
  <2>3. ~Async
    BY <1>3 DEF Async, Begin, Resume, EndOfLoop, FailSample, StepOne, FailRollout, Gather, Idle
  <2>4. CASE Gym
    BY <2>4, GymComplete, GymContinue, GymArrive, GymGather DEF Gym
  <2>5. QED
    BY <1>1, <2>2, <2>3, <2>4 DEF Next
<1>4. QED
  BY <1>2, <1>3

(* Every NeMo-Gym result stands at its row, with the tokens the model      *)
(* generated and all the text that was said, and no conversation is        *)
(* refused for tokens that do not continue the ones before                 *)
(* (run_async_nemo_gym_rollout, _replace_prefix_tokens).                   *)
THEOREM ConversationsFaithful == Spec => []GymFaithful
<1>1. GymInv => GymFaithful
  <2> SUFFICES ASSUME GymInv, mode = "gym" PROVE GymFaithful
    BY DEF GymFaithful
  <2>1. phase # "raised"
    BY DEF GymInv
  <2>2. ASSUME phase = "returned", NEW s \in Samples
        PROVE  LET log == results[s]  calls == chat[s].calls  messages == chat[s].messages
               IN /\ Len(log) = 2 * Len(calls)
                  /\ \A k \in DOMAIN calls :
                       /\ log[2 * k - 1].role = "user"
                       /\ log[2 * k] = [role |-> "assistant", tokens |-> calls[k].generation]
                  /\ Without(FlattenSeq([k \in DOMAIN log |-> log[k].tokens]), Special)
                       = FlattenSeq([k \in DOMAIN messages |-> messages[k].text])
    <3>1. Aligned(chat[s].calls, chat[s].messages) /\ results[s] = GymLog(chat[s].calls)
      BY <2>2, Zenon DEF GymInv
    <3>2. LogFits(results[s], chat[s].calls)
      BY <3>1, Zenon DEF Aligned
    <3>3. Without(LogTokens(results[s]), Special) = Texts(chat[s].messages)
      BY <3>1, Zenon DEF Aligned
    <3>4. QED
      BY <3>2, <3>3, Zenon DEF LogFits, LogTokens, Texts, Answered
  <2>3. QED
    BY <2>1, <2>2, Zenon DEF GymFaithful
<1>2. QED
  BY GymInit, GymNext, <1>1, PTL DEF Spec

==============================================================================
