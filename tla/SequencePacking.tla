----------------------------- MODULE SequencePacking -----------------------------
(***************************************************************************)
(* The packers of nemo_rl/data/packing: each puts sequences into bins of a *)
(* capacity and returns the bins, a bin being a list of indices.  Here     *)
(* lens is the list of lengths, an index is a position in it, and a packer *)
(* is a fold over the sequences in the order the packer takes them.        *)
(***************************************************************************)
EXTENDS Integers, SequencesExt

Algorithms == {"concatenative", "first_fit_decreasing", "first_fit_shuffle",
               "modified_first_fit_decreasing"}

Load(bin, lens) == FoldLeft(LAMBDA sum, i : sum + lens[i], 0, bin)

Fits(bin, i, lens, capacity) == Load(bin, lens) + lens[i] <= capacity

(* A finite set as a list, in the strict order given as a set of pairs.    *)
Listed(S, before) ==
  [k \in 1 .. Cardinality(S) |->
     CHOOSE x \in S : Cardinality({y \in S : <<y, x>> \in before}) = k - 1]

(* sort(reverse=True) of (length, index) pairs, or of lengths alone, which *)
(* leaves equal lengths in the order they had.                             *)
Descending(items, lens) ==
  Listed(items, {p \in items \X items : \/ lens[p[1]] > lens[p[2]]
                                        \/ lens[p[1]] = lens[p[2]] /\ p[1] > p[2]})
StableDescending(items, lens) ==
  Listed(items, {p \in items \X items : \/ lens[p[1]] > lens[p[2]]
                                        \/ lens[p[1]] = lens[p[2]] /\ p[1] < p[2]})
StableAscending(items, lens) ==
  Listed(items, {p \in items \X items : \/ lens[p[1]] < lens[p[2]]
                                        \/ lens[p[1]] = lens[p[2]] /\ p[1] < p[2]})

PutInto(bins, b, i) == [bins EXCEPT ![b] = Append(@, i)]

Concatenate(lens, capacity) ==
  FoldLeft(LAMBDA bins, i :
             IF bins # <<>> /\ Fits(Last(bins), i, lens, capacity)
             THEN PutInto(bins, Len(bins), i)
             ELSE Append(bins, <<i>>),
           <<>>, [i \in DOMAIN lens |-> i])

FirstFit(order, lens, capacity) ==
  FoldLeft(LAMBDA bins, i :
             LET open == {b \in DOMAIN bins : Fits(bins[b], i, lens, capacity)}
             IN IF open = {} THEN Append(bins, <<i>>)
                ELSE PutInto(bins, Min(open), i),
           <<>>, order)

-----------------------------------------------------------------------------
(* Modified first fit decreasing (Johnson and Garey).                      *)

Large(i, lens, capacity) == 2 * lens[i] > capacity
Medium(i, lens, capacity) == ~Large(i, lens, capacity) /\ 3 * lens[i] > capacity
Small(i, lens, capacity) ==
  /\ ~Large(i, lens, capacity) /\ ~Medium(i, lens, capacity)
  /\ 6 * lens[i] > capacity
Tiny(i, lens, capacity) == 6 * lens[i] <= capacity

(* Each bin of a large item takes the largest medium item that still fits. *)
AddMedium(state, b, lens, capacity) ==
  LET fit == {i \in state.medium : Fits(state.bins[b], i, lens, capacity)}
      largest == StableDescending(fit, lens)[1]
  IN IF fit = {} THEN state
     ELSE [state EXCEPT !.bins = PutInto(@, b, largest), !.medium = @ \ {largest}]

(* From the last bin back, one without a medium item takes the smallest    *)
(* small item and the largest that fits beside it.                         *)
AddSmallPair(state, b, lens, capacity) ==
  LET bin == state.bins[b]
      small == StableAscending(state.small, lens)
      fit == {k \in 2 .. Len(small) :
                Load(bin, lens) + lens[small[1]] + lens[small[k]] <= capacity}
  IN IF (\E k \in DOMAIN bin : Medium(bin[k], lens, capacity)) \/ 2 \notin fit THEN state
     ELSE [state EXCEPT !.bins = PutInto(PutInto(@, b, small[1]), b, small[Max(fit)]),
                        !.small = @ \ {small[1], small[Max(fit)]}]

(* A bin takes the largest item left that fits, again and again.           *)
TopUp(state, b, lens, capacity) ==
  FoldLeft(LAMBDA s, i :
             IF Fits(s.bins[b], i, lens, capacity)
             THEN [s EXCEPT !.bins = PutInto(@, b, i), !.left = @ \ {i}]
             ELSE s,
           state, StableDescending(state.left, lens))

(* The items of one length are of one class, in the order of their         *)
(* indices, so sorting what is left of the classes leaves them so.         *)
ModifiedFirstFit(lens, capacity) ==
  LET items == DOMAIN lens
      large == StableDescending({i \in items : Large(i, lens, capacity)}, lens)
      order == [b \in DOMAIN large |-> b]
      start == [bins |-> FoldLeft(LAMBDA bins, i : Append(bins, <<i>>), <<>>, large),
                medium |-> {i \in items : Medium(i, lens, capacity)},
                small |-> {i \in items : Small(i, lens, capacity)},
                left |-> {}]
      mediums == FoldLeft(LAMBDA s, b : AddMedium(s, b, lens, capacity), start, order)
      smalls == FoldLeft(LAMBDA s, b : AddSmallPair(s, b, lens, capacity),
                         mediums, Reverse(order))
      tiny == {i \in items : Tiny(i, lens, capacity)}
      topped == FoldLeft(LAMBDA s, b : TopUp(s, b, lens, capacity),
                         [smalls EXCEPT !.left = smalls.medium \cup smalls.small \cup tiny],
                         order)
  IN topped.bins \o FirstFit(StableDescending(topped.left, lens), lens, capacity)

-----------------------------------------------------------------------------
(* One new bin, holding the last item of the fullest bin that has two;     *)
(* without one the code raises, and calls its own coming there a bug.      *)
MoveOne(bins, sources) ==
  LET many == {k \in DOMAIN sources : Len(bins[sources[k]]) > 1}
      from == sources[Min(many)]
  IN IF many = {} THEN bins
     ELSE Append([bins EXCEPT ![from] = Front(@)], <<Last(bins[from])>>)

(* The least multiple of the number of shards that holds the bins.         *)
Target(count, shards) == ((count + shards - 1) \div shards) * shards

Adjusted(bins, shards) ==
  LET missing == Target(Len(bins), shards) - Len(bins)
      sizes == [b \in DOMAIN bins |-> Len(bins[b])]
      sources == Descending(DOMAIN bins, sizes)
  IN FoldLeft(LAMBDA bs, k : MoveOne(bs, sources), bins, [k \in 1 .. missing |-> k])

(* What a packer may return: the shuffling one takes any order.            *)
Packings(algorithm, lens, capacity, shards) ==
  LET bins == CASE algorithm = "concatenative" -> {Concatenate(lens, capacity)}
                [] algorithm = "first_fit_decreasing" ->
                     {FirstFit(Descending(DOMAIN lens, lens), lens, capacity)}
                [] algorithm = "first_fit_shuffle" ->
                     {FirstFit(order, lens, capacity) : order \in SetToSeqs(DOMAIN lens)}
                [] algorithm = "modified_first_fit_decreasing" ->
                     {ModifiedFirstFit(lens, capacity)}
  IN {Adjusted(b, shards) : b \in bins}

(* A sequence over the capacity is refused by every packer.                *)
Packable(lens, capacity) == \A i \in DOMAIN lens : lens[i] <= capacity
=============================================================================
