------------------------- MODULE PolicyBatchProofs -------------------------
(***************************************************************************)
(* What a call of the policy does with a batch, for any numbers of rows,   *)
(* lengths, shards, replicas and microbatches, any packer and any backend: *)
(* no worker is left alone in a collective, every optimizer step has each  *)
(* row of its global batch once and divides by the tokens of all of them,  *)
(* and the caller gets back the answer to each row in its place.           *)
(***************************************************************************)
EXTENDS PolicyBatch, BatchShardingProofs, TLAPS

(* What every call is.                                                     *)
NoneEmpty(lens) == \A i \in 1 .. Len(lens) : lens[i] > 0
CallIs(c) ==
  /\ Len(c.lens) \in Nat /\ Len(c.lens) > 0 /\ Measured(c.lens, 1 .. Len(c.lens)) /\ NoneEmpty(c.lens)
  /\ c.size \in Nat /\ c.size > 0 /\ c.micro \in Nat /\ c.micro > 0
  /\ c.mode \in Modes /\ c.method \in Methods /\ c.backend \in Backends
  /\ c.method # "train" => c.size = Len(c.lens)
  /\ c.method = "score" => c.backend # "megatron"

(* Every call of Batches is such a call.                                   *)
LEMMA CallsAre ==
  ASSUME NEW c, c \in Batches, Sensible(c)
  PROVE  CallIs(c)
<1>1. /\ NumRows \in Nat /\ NumRows > 0 /\ Lengths \subseteq Nat /\ LongLengths \subseteq Nat
      /\ \A s \in BatchSizes : s \in Nat /\ s > 0
      /\ \A s \in MicroSizes : s \in Nat /\ s > 0
  BY BatchAssumption
<1>2. \E n \in Nat : n > 0 /\ c.lens \in [1 .. n -> Nat] /\ (c.method # "train" => n = NumRows)
  <2>1. CASE c \in [lens : [1 .. NumRows -> Lengths], backend : Backends, mode : Modes,
                    method : Methods, size : BatchSizes \cup {NumRows}, micro : MicroSizes]
    BY <1>1, <2>1
  <2>2. CASE c \in [lens : [1 .. 2 * NumRows -> LongLengths], backend : Backends,
                    mode : {"first_fit_decreasing"}, method : {"train"}, size : {NumRows}, micro : MicroSizes]
    <3>1. 2 * NumRows \in Nat /\ 2 * NumRows > 0
      BY <1>1
    <3>2. c.lens \in [1 .. 2 * NumRows -> Nat] /\ c.method = "train"
      BY <1>1, <2>2
    <3>3. QED
      BY <3>1, <3>2
  <2>3. QED
    BY <2>1, <2>2 DEF Batches
<1>3. PICK n \in Nat : n > 0 /\ c.lens \in [1 .. n -> Nat] /\ (c.method # "train" => n = NumRows)
  BY <1>2
<1>4. Len(c.lens) = n
  BY <1>3
<1>5. /\ c.size \in BatchSizes \cup {NumRows} /\ c.micro \in MicroSizes
      /\ c.mode \in Modes /\ c.method \in Methods /\ c.backend \in Backends
  <2>1. CASE c \in [lens : [1 .. NumRows -> Lengths], backend : Backends, mode : Modes,
                    method : Methods, size : BatchSizes \cup {NumRows}, micro : MicroSizes]
    BY <2>1
  <2>2. CASE c \in [lens : [1 .. 2 * NumRows -> LongLengths], backend : Backends,
                    mode : {"first_fit_decreasing"}, method : {"train"}, size : {NumRows}, micro : MicroSizes]
    BY <2>2 DEF Modes, Algorithms, Methods
  <2>3. QED
    BY <2>1, <2>2 DEF Batches
<1>6. c.size \in Nat /\ c.size > 0 /\ c.micro \in Nat /\ c.micro > 0
  BY <1>1, <1>5
<1>7. c.method # "train" => c.size = n
  BY <1>3 DEF Sensible
<1>8. c.method = "score" => c.backend # "megatron"
  BY DEF Sensible
<1>9. Measured(c.lens, 1 .. n)
  BY <1>3 DEF Measured
<1>10. NoneEmpty(c.lens)
  <2>1. \A x \in Lengths \cup LongLengths : x \in Nat /\ x > 0
    BY BatchAssumption
  <2>2. \A i \in 1 .. n : c.lens[i] \in Lengths \cup LongLengths
    <3>1. CASE c \in [lens : [1 .. NumRows -> Lengths], backend : Backends, mode : Modes,
                      method : Methods, size : BatchSizes \cup {NumRows}, micro : MicroSizes]
      BY <1>3, <3>1
    <3>2. CASE c \in [lens : [1 .. 2 * NumRows -> LongLengths], backend : Backends,
                      mode : {"first_fit_decreasing"}, method : {"train"}, size : {NumRows}, micro : MicroSizes]
      BY <1>3, <3>2
    <3>3. QED
      BY <3>1, <3>2 DEF Batches
  <2>3. QED
    BY <1>4, <2>1, <2>2 DEF NoneEmpty
<1>11. QED
  BY <1>3, <1>4, <1>5, <1>6, <1>7, <1>8, <1>9, <1>10 DEF CallIs

(* The global batches of a call.                                           *)
GlobalBatch(c) == Len(c.lens) \div c.size

(* The sizes of a call that is accepted.                                   *)
LEMMA CallSizes ==
  ASSUME CallIs(call), Accepted
  PROVE  /\ Sizes(Len(call.lens), GlobalBatch(call), call.size, NumShards, call.size \div NumShards)
         /\ GlobalBatch(call) >= 1
         /\ call.method # "train" => GlobalBatch(call) = 1
<1>1. PICK N, b : N = Len(call.lens) /\ b = call.size
  OBVIOUS
<1>2. N \in Nat /\ N > 0 /\ b \in Nat /\ b > 0 /\ (call.method # "train" => b = N)
  BY <1>1 DEF CallIs
<1>3. N % b = 0 /\ b % NumShards = 0
  BY <1>1 DEF Accepted, Divides
<1>4. NumShards \in Nat /\ NumShards > 0
  BY BatchAssumption
<1>5. Sizes(N, N \div b, b, NumShards, b \div NumShards)
  BY <1>2, <1>3, <1>4, SizesAre
<1>6. PICK G : G = N \div b
  OBVIOUS
<1>7. G \in Nat /\ N = G * b
  BY <1>5, <1>6 DEF Sizes
<1>8. G >= 1
  <2> SUFFICES ASSUME G = 0 PROVE FALSE
    BY <1>7
  <2>1. 0 * b = 0
    BY <1>2
  <2>2. QED
    BY <1>2, <1>7, <2>1
<1>9. ASSUME b = N PROVE G = 1
  <2>1. 1 \in Nat /\ 0 \in Nat /\ 0 < b /\ 1 * b + 0 = N
    BY <1>2, <1>9
  <2>2. (1 * b + 0) \div b = 1
    BY <1>2, <2>1, DivisionIs
  <2>3. QED
    BY <1>6, <2>1, <2>2, Zenon
<1>10. QED
  BY <1>1, <1>2, <1>5, <1>6, <1>8, <1>9 DEF GlobalBatch

-----------------------------------------------------------------------------
(* The rows P[s][g] of a shard and a global batch, and their microbatches. *)
Allotted(ss, P, c) ==
  /\ DOMAIN ss = 1 .. NumShards
  /\ Splits(ss, P, NumShards, GlobalBatch(c), 1 .. Len(c.lens))
  /\ Once(P, NumShards, GlobalBatch(c), c.size)
  /\ SameMicro(ss, NumShards, GlobalBatch(c))
  /\ c.mode \notin Algorithms => AllUncut(ss, P, NumShards, GlobalBatch(c), c.lens)
  /\ c.mode = "dynamic" => AllFrugal(ss, P, NumShards, GlobalBatch(c), Budget)
  /\ c.mode \in Algorithms =>
       AllFilled(ss, P, NumShards, GlobalBatch(c), Padded(c.lens, Multiple), Budget)

(* Plain sharding allots the rows.                                         *)
LEMMA PlainAllotted ==
  ASSUME CallIs(call), Accepted, call.mode = "plain",
         NEW ss, ss = PlainShards(call.lens, call.size, NumShards, call.micro)
  PROVE  \E P : /\ Allotted(ss, P, call)
                /\ P = [s \in 1 .. NumShards |->
                          Pieces(Rows(call.lens), s, GlobalBatch(call), call.size, call.size \div NumShards)]
<1>1. PICK N, G, b, q, mbs, lens : /\ N = Len(call.lens) /\ G = GlobalBatch(call) /\ b = call.size
                                   /\ q = b \div NumShards /\ mbs = call.micro /\ lens = call.lens
  OBVIOUS
<1>2. Sizes(N, G, b, NumShards, q)
  BY <1>1, CallSizes
<1>3. N \div b = G /\ b \div NumShards = q /\ N > 0 /\ Measured(lens, 1 .. N)
  BY <1>1 DEF GlobalBatch, CallIs
<1>4. mbs \in Nat /\ mbs > 0 /\ q % mbs = 0
  BY <1>1 DEF CallIs, Accepted
<1>5. ss = PlainShards(lens, b, NumShards, mbs)
  BY <1>1
<1>6. PICK P : P = [s \in 1 .. NumShards |-> Pieces(Rows(lens), s, G, b, q)]
  OBVIOUS
<1>7. /\ Splits(ss, P, NumShards, G, 1 .. N) /\ Once(P, NumShards, G, b) /\ SameMicro(ss, NumShards, G)
      /\ AllUncut(ss, P, NumShards, G, lens)
  BY <1>2, <1>3, <1>4, <1>5, <1>6, PlainSharded
<1>8. "plain" \notin Algorithms
  BY DEF Algorithms
<1>9. DOMAIN ss = 1 .. NumShards
  BY DEF PlainShards
<1>10. Allotted(ss, P, call)
  BY <1>1, <1>7, <1>8, <1>9, Zenon DEF Allotted
<1>11. QED
  BY <1>1, <1>6, <1>10, Zenon

(* Dynamic batching allots the rows.                                       *)
LEMMA DynamicAllotted ==
  ASSUME CallIs(call), Accepted, call.mode = "dynamic",
         NEW ss, ss = DynamicShards(call.lens, call.size, NumShards, Multiple, Budget)
  PROVE  \E P : /\ Allotted(ss, P, call)
                /\ P = [s \in 1 .. NumShards |->
                          Pieces(Sorted(call.lens, call.size, NumShards), s, GlobalBatch(call),
                                 call.size, call.size \div NumShards)]
<1>1. PICK N, G, b, q, lens : /\ N = Len(call.lens) /\ G = GlobalBatch(call) /\ b = call.size
                              /\ q = b \div NumShards /\ lens = call.lens
  OBVIOUS
<1>2. Sizes(N, G, b, NumShards, q)
  BY <1>1, CallSizes
<1>3. N \div b = G /\ b \div NumShards = q /\ N > 0 /\ Measured(lens, 1 .. N)
  BY <1>1 DEF GlobalBatch, CallIs
<1>4. /\ Multiple \in Nat /\ Multiple > 0 /\ Budget \in Nat /\ DynamicFits(lens, Multiple, Budget)
  BY <1>1, BatchAssumption DEF Accepted
<1>5. ss = DynamicShards(lens, b, NumShards, Multiple, Budget)
  BY <1>1
<1>6. PICK P : P = [s \in 1 .. NumShards |-> Pieces(Sorted(lens, b, NumShards), s, G, b, q)]
  OBVIOUS
<1>7. /\ Splits(ss, P, NumShards, G, 1 .. N) /\ Once(P, NumShards, G, b) /\ SameMicro(ss, NumShards, G)
      /\ AllUncut(ss, P, NumShards, G, lens) /\ AllFrugal(ss, P, NumShards, G, Budget)
  BY <1>2, <1>3, <1>4, <1>5, <1>6, DynamicSharded
<1>8. "dynamic" \notin Algorithms
  BY DEF Algorithms
<1>9. DOMAIN ss = 1 .. NumShards
  BY DEF DynamicShards
<1>10. Allotted(ss, P, call)
  BY <1>1, <1>7, <1>8, <1>9, Zenon DEF Allotted
<1>11. QED
  BY <1>1, <1>6, <1>10, Zenon

(* The bins made so far: those of the first chunks.                        *)
BinsMade(bs, c) ==
  /\ bs \in Seq(Seq(Seq(1 .. Len(c.lens)))) /\ Len(bs) <= GlobalBatch(c)
  /\ \A k \in 1 .. Len(bs) :
       Chunked(bs[k], Chunk(k, c.size), 1 .. Len(c.lens), Padded(c.lens, Multiple), Budget, NumShards)

(* Sequence packing allots the rows.                                       *)
LEMMA PackedAllotted ==
  ASSUME CallIs(call), Accepted, call.mode \in Algorithms, BinsMade(bins, call),
         Len(bins) = GlobalBatch(call),
         NEW ss, ss = PackedShards(bins, PaddedLens, NumShards)
  PROVE  \E P : Allotted(ss, P, call)
<1>1. PICK N, G, b, q, padded, bs : /\ N = Len(call.lens) /\ G = GlobalBatch(call) /\ b = call.size
                                    /\ q = b \div NumShards /\ padded = Padded(call.lens, Multiple) /\ bs = bins
  OBVIOUS
<1>2. Sizes(N, G, b, NumShards, q)
  BY <1>1, CallSizes
<1>3. Multiple \in Nat /\ Multiple > 0 /\ N \in Nat
  BY <1>1, BatchAssumption DEF CallIs
<1>4. Measured(padded, 1 .. N)
  BY <1>1, <1>3, PaddedIs DEF CallIs
<1>5. DOMAIN bs = 1 .. G /\ \A c \in 1 .. G : Chunked(bs[c], Chunk(c, b), 1 .. N, padded, Budget, NumShards)
  <2>1. PICK U : U = Seq(Seq(1 .. N))
    OBVIOUS
  <2>2. bs \in Seq(U) /\ Len(bs) = G
    BY <1>1, <2>1 DEF BinsMade
  <2>3. \A c \in 1 .. G : Chunked(bs[c], Chunk(c, b), 1 .. N, padded, Budget, NumShards)
    BY <1>1, <2>2, Zenon DEF BinsMade
  <2>4. QED
    BY <2>2, <2>3
<1>6. ss = PackedShards(bs, padded, NumShards)
  BY <1>1, Zenon DEF PaddedLens
<1>7. PICK P : P = [s \in 1 .. NumShards |-> FlatBins(bs, s, G, NumShards)]
  OBVIOUS
<1>8. /\ Splits(ss, P, NumShards, G, 1 .. N) /\ Once(P, NumShards, G, b) /\ SameMicro(ss, NumShards, G)
      /\ AllFilled(ss, P, NumShards, G, padded, Budget)
  BY <1>2, <1>4, <1>5, <1>6, <1>7, PackedSharded
<1>9. "dynamic" \notin Algorithms
  BY DEF Algorithms
<1>10. DOMAIN ss = 1 .. NumShards
  BY DEF PackedShards
<1>11. Allotted(ss, P, call)
  BY <1>1, <1>8, <1>9, <1>10, Zenon DEF Allotted
<1>12. QED
  BY <1>11

-----------------------------------------------------------------------------
(***************************************************************************)
(* The workers, who meets whom, and what every worker comes to.            *)
(***************************************************************************)
LEMMA WorkerIs ==
  ASSUME NEW w \in Workers
  PROVE  /\ w \in Nat /\ Shard(w) \in 0 .. NumShards - 1 /\ Replica(w) \in 0 .. NumReplicas - 1
         /\ call.backend = "megatron" => w = Replica(w) * NumShards + Shard(w)
         /\ call.backend # "megatron" => w = Shard(w) * NumReplicas + Replica(w)
<1>1. NumShards \in Nat /\ NumShards > 0 /\ NumReplicas \in Nat /\ NumReplicas > 0
  BY BatchAssumption
<1>2. PICK all \in Nat : all = NumShards * NumReplicas /\ all = NumReplicas * NumShards
  BY <1>1
<1>3. w \in Nat /\ w < all
  BY <1>2 DEF Workers
<1>4. ASSUME NEW a \in Nat, a > 0, NEW s \in Nat, s > 0, all = a * s
      PROVE  w \div s \in 0 .. a - 1 /\ w % s \in 0 .. s - 1 /\ w = (w \div s) * s + (w % s)
  <2>1. PICK q, r \in Nat : q = w \div s /\ r = w % s /\ r < s /\ w = q * s + r
    BY <1>3, <1>4, Division
  <2>2. q * s \in Nat
    BY <1>4, Multiples
  <2>3. q * s < a * s
    BY <1>3, <1>4, <2>1, <2>2
  <2>4. q < a
    BY <1>4, <2>3, Multiples
  <2>5. q \in 0 .. a - 1 /\ r \in 0 .. s - 1
    BY <1>4, <2>1, <2>4
  <2>6. QED
    BY <2>1, <2>5, Zenon
<1>5. /\ w \div NumReplicas \in 0 .. NumShards - 1 /\ w % NumReplicas \in 0 .. NumReplicas - 1
      /\ w = (w \div NumReplicas) * NumReplicas + (w % NumReplicas)
  BY <1>1, <1>2, <1>4, Zenon
<1>6. /\ w \div NumShards \in 0 .. NumReplicas - 1 /\ w % NumShards \in 0 .. NumShards - 1
      /\ w = (w \div NumShards) * NumShards + (w % NumShards)
  BY <1>1, <1>2, <1>4, Zenon
<1>7. CASE call.backend = "megatron"
  <2>1. Shard(w) = w % NumShards /\ Replica(w) = w \div NumShards
    BY <1>7, Zenon DEF Shard, Replica
  <2>2. Shard(w) \in 0 .. NumShards - 1 /\ Replica(w) \in 0 .. NumReplicas - 1
    BY <1>6, <2>1, Zenon
  <2>3. w = Replica(w) * NumShards + Shard(w)
    BY <1>6, <2>1, Zenon
  <2>4. QED
    BY <1>3, <1>7, <2>2, <2>3, Zenon
<1>8. CASE call.backend # "megatron"
  <2>1. Shard(w) = w \div NumReplicas /\ Replica(w) = w % NumReplicas
    BY <1>8, Zenon DEF Shard, Replica
  <2>2. Shard(w) \in 0 .. NumShards - 1 /\ Replica(w) \in 0 .. NumReplicas - 1
    BY <1>5, <2>1, Zenon
  <2>3. w = Shard(w) * NumReplicas + Replica(w)
    BY <1>5, <2>1, Zenon
  <2>4. QED
    BY <1>3, <1>8, <2>2, <2>3, Zenon
<1>9. QED
  BY <1>7, <1>8

(* The shard of a worker is one of the shards.                             *)
LEMMA OwnShard ==
  ASSUME NEW w \in Workers
  PROVE  Shard(w) + 1 \in 1 .. NumShards
<1>1. Shard(w) \in 0 .. NumShards - 1
  BY WorkerIs, Zenon
<1>2. NumShards \in Nat
  BY BatchAssumption
<1>3. QED
  BY <1>1, <1>2

(* Who meets: each worker is in one group of every kind.                   *)
LEMMA Groups ==
  ASSUME NEW op
  PROVE  /\ \A w : Group(w, op) \subseteq Workers
         /\ \A w \in Workers : w \in Group(w, op)
         /\ \A w, v \in Workers : v \in Group(w, op) => w \in Group(v, op)
         /\ \A w, u, v \in Workers : u \in Group(w, op) /\ v \in Group(u, op) => v \in Group(w, op)
<1>1. CASE op \in {"size", "tokens", "loss"}
  <2>1. \A w : Group(w, op) = {v \in Workers : Replica(v) = Replica(w)}
    BY <1>1 DEF Group
  <2>2. QED
    BY <2>1, Zenon
<1>2. CASE op \notin {"size", "tokens", "loss"} /\ op \in {"stages", "broadcast"}
  <2>1. \A w : Group(w, op) = {v \in Workers : Shard(v) = Shard(w)}
    BY <1>2 DEF Group
  <2>2. QED
    BY <2>1, Zenon
<1>3. CASE op \notin {"size", "tokens", "loss"} /\ op \notin {"stages", "broadcast"}
  <2>1. \A w : Group(w, op) = Workers
    BY <1>3 DEF Group
  <2>2. QED
    BY <2>1, Zenon
<1>4. QED
  BY <1>1, <1>2, <1>3, Zenon

(* The groups of a backend.                                                *)
Side(backend, w) == IF backend = "megatron" THEN w % NumShards ELSE w \div NumReplicas
Copy(backend, w) == IF backend = "megatron" THEN w \div NumShards ELSE w % NumReplicas
Party(backend, w, op) ==
  CASE op \in {"size", "tokens", "loss"} -> {v \in Workers : Copy(backend, v) = Copy(backend, w)}
    [] op \in {"stages", "broadcast"} -> {v \in Workers : Side(backend, v) = Side(backend, w)}
    [] OTHER -> Workers

(* A group is a party of the backend.                                      *)
LEMMA GroupIs ==
  ASSUME NEW w, NEW op
  PROVE  Group(w, op) = Party(call.backend, w, op)
BY Zenon DEF Group, Party, Shard, Replica, Side, Copy

Ops == [op : {"size", "count", "unshard", "loss", "tokens", "forward", "stages", "broadcast", "step"},
        gb : Nat, mb : Nat]

(* The parts of a collective.                                              *)
LEMMA OpIs ==
  ASSUME NEW op \in {"size", "count", "unshard", "loss", "tokens", "forward", "stages", "broadcast", "step"},
         NEW g \in Nat, NEW k \in Nat
  PROVE  Op(op, g, k) \in Ops /\ Op(op, g, k).op = op /\ Op(op, g, k).gb = g /\ Op(op, g, k).mb = k
BY DEF Op, Ops

(* The microbatches of a global batch.                                     *)
MicroCount(ss, g) == Len(ss[1].micro[g])

(* Every worker has as many microbatches.                                  *)
LEMMA OwnMicro ==
  ASSUME CallIs(call), NEW ss, NEW P, Allotted(ss, P, call), NEW w \in Workers
  PROVE  /\ GlobalBatches(ss, w) = 1 .. GlobalBatch(call)
         /\ \A g \in 1 .. GlobalBatch(call) :
              NumMicro(ss, w, g) = MicroCount(ss, g) /\ MicroCount(ss, g) \in Nat
<1>1. PICK s : s = Shard(w) + 1 /\ s \in 1 .. NumShards
  BY OwnShard
<1>2. 1 \in 1 .. NumShards
  BY BatchAssumption
<1>3. PICK G : G = GlobalBatch(call)
  OBVIOUS
<1>4. Splits(ss, P, NumShards, G, 1 .. Len(call.lens)) /\ SameMicro(ss, NumShards, G)
  BY <1>3, Zenon DEF Allotted
<1>5. Mine(ss, w) = ss[s]
  BY <1>1, Zenon DEF Mine
<1>6. Shape(ss[s], P[s], G, 1 .. Len(call.lens)) /\ Shape(ss[1], P[1], G, 1 .. Len(call.lens))
  BY <1>1, <1>2, <1>4, Zenon DEF Splits
<1>7. GlobalBatches(ss, w) = 1 .. G
  BY <1>5, <1>6, Zenon DEF GlobalBatches, Shape
<1>8. ASSUME NEW g \in 1 .. G PROVE NumMicro(ss, w, g) = MicroCount(ss, g) /\ MicroCount(ss, g) \in Nat
  <2>1. Len(ss[s].micro[g]) = Len(ss[1].micro[g])
    BY <1>1, <1>2, <1>4, Zenon DEF SameMicro
  <2>2. Tiled(ss[1].micro[g], Len(P[1][g]))
    BY <1>6, Zenon DEF Shape
  <2>3. Len(ss[1].micro[g]) \in Nat
    BY <2>2, TilesParts DEF Tiled
  <2>4. QED
    BY <1>5, <2>1, <2>3, Zenon DEF NumMicro, MicroCount
<1>9. QED
  BY <1>3, <1>7, <1>8

(* So no worker ever goes through one for nothing.                         *)
LEMMA OwnIterations ==
  ASSUME CallIs(call), NEW ss, NEW P, Allotted(ss, P, call), NEW w \in Workers,
         NEW g \in 1 .. GlobalBatch(call)
  PROVE  Iterations(ss, w, g) =
           IF call.mode \in Algorithms
           THEN <<Op("count", g, 0)>> \o [k \in 1 .. MicroCount(ss, g) |-> Op("forward", g, k)]
           ELSE [k \in 1 .. MicroCount(ss, g) |-> Op("forward", g, k)]
<1>1. PICK n \in Nat : n = MicroCount(ss, g) /\ \A v \in Workers : NumMicro(ss, v, g) = n
  BY OwnMicro, Zenon
<1>2. {NumMicro(ss, v, g) : v \in Workers} = {n}
  BY <1>1
<1>3. MostMicro(ss, g) = n
  <2>1. {n} \subseteq Nat /\ n \in {n} /\ \A x \in {n} : x <= n
    OBVIOUS
  <2>2. Max({n}) = n
    BY <2>1, GreatestIs
  <2>3. QED
    BY <1>2, <2>2 DEF MostMicro
<1>4. QED
  BY <1>1, <1>3, Zenon DEF Iterations

-----------------------------------------------------------------------------
(***************************************************************************)
(* What a worker's list of collectives takes it through.                   *)
(***************************************************************************)
(* Where a worker is: the optimizer steps taken, the global batch it works *)
(* on, how many of its microbatches are done, whether the answers are out. *)
Stations == [steps : Nat, at : Nat, done : Nat, sent : BOOLEAN]
Place(s, g, k, b) == [steps |-> s, at |-> g, done |-> k, sent |-> b]

(* A collective at the place it belongs to, and the place after it; n[g]   *)
(* microbatches in the global batch g of G.                                *)
Turn(x, o, y, train, n, G) ==
  \/ o.op \in {"size", "count", "unshard", "loss"} /\ y = x
  \/ /\ o.op = "tokens" /\ train /\ o.gb \in 1 .. G /\ x.steps = o.gb - 1
     /\ y = Place(x.steps, o.gb, 0, FALSE)
  \/ /\ o.op \in {"forward", "stages"} /\ x.at \in 1 .. G /\ o.gb = x.at
     /\ x.done < n[x.at] /\ o.mb = x.done + 1 /\ ~x.sent
     /\ y = Place(x.steps, x.at, x.done + 1, FALSE)
  \/ /\ o.op = "step" /\ train /\ x.at \in 1 .. G /\ x.at = x.steps + 1 /\ x.done = n[x.at]
     /\ y = Place(x.steps + 1, x.at, x.done, x.sent)
  \/ /\ o.op = "broadcast" /\ x.at \in 1 .. G /\ x.done = n[x.at]
     /\ y = Place(x.steps, x.at, x.done, TRUE)

(* The places of a list of collectives that leads from x to y.             *)
Trace(t, p, x, y, train, n, G) ==
  /\ p \in Seq(Ops) /\ t \in [1 .. Len(p) + 1 -> Stations] /\ t[1] = x /\ t[Len(p) + 1] = y
  /\ \A i \in 1 .. Len(p) : Turn(t[i], p[i], t[i + 1], train, n, G)
Leads(p, x, y, train, n, G) == \E t : Trace(t, p, x, y, train, n, G)

(* One collective leads to the place after it.                             *)
LEMMA LeadsOne ==
  ASSUME NEW x \in Stations, NEW y \in Stations, NEW o \in Ops, NEW train, NEW n, NEW G,
         Turn(x, o, y, train, n, G)
  PROVE  Leads(<<o>>, x, y, train, n, G)
<1>1. PICK p : p = <<o>>
  OBVIOUS
<1>2. p \in Seq(Ops) /\ Len(p) = 1 /\ p[1] = o
  BY <1>1
<1>3. PICK t : t = [i \in 1 .. 2 |-> IF i = 1 THEN x ELSE y]
  OBVIOUS
<1>4. t \in [1 .. 2 -> Stations] /\ t[1] = x /\ t[2] = y
  BY <1>3
<1>5. Len(p) + 1 = 2
  BY <1>2
<1>6. \A i \in 1 .. Len(p) : Turn(t[i], p[i], t[i + 1], train, n, G)
  <2>1. ASSUME NEW i \in 1 .. Len(p) PROVE Turn(t[i], p[i], t[i + 1], train, n, G)
    <3>1. i = 1 /\ i + 1 = 2
      BY <1>2
    <3>2. QED
      BY <1>2, <1>4, <3>1, Zenon
  <2>2. QED
    BY <2>1
<1>7. Trace(t, p, x, y, train, n, G)
  BY <1>2, <1>4, <1>5, <1>6, Zenon DEF Trace
<1>8. QED
  BY <1>1, <1>7, Zenon DEF Leads

(* Two ways, one after the other.                                          *)
LEMMA LeadsOn ==
  ASSUME NEW x, NEW y, NEW z, NEW p, NEW q, NEW train, NEW n, NEW G,
         Leads(p, x, y, train, n, G), Leads(q, y, z, train, n, G)
  PROVE  Leads(p \o q, x, z, train, n, G)
<1>1. PICK a : Trace(a, p, x, y, train, n, G)
  BY DEF Leads
<1>2. PICK b : Trace(b, q, y, z, train, n, G)
  BY DEF Leads
<1>3. p \in Seq(Ops) /\ q \in Seq(Ops)
  BY <1>1, <1>2, Zenon DEF Trace
<1>4. PICK k \in Nat, l \in Nat : k = Len(p) /\ l = Len(q)
  BY <1>3
<1>5. PICK r : r = p \o q
  OBVIOUS
<1>6. /\ r \in Seq(Ops) /\ Len(r) = k + l
      /\ \A i \in 1 .. k : r[i] = p[i]
      /\ \A i \in k + 1 .. k + l : r[i] = q[i - k]
  BY <1>3, <1>4, <1>5
<1>7. /\ a \in [1 .. k + 1 -> Stations] /\ a[1] = x /\ a[k + 1] = y
      /\ \A i \in 1 .. k : Turn(a[i], p[i], a[i + 1], train, n, G)
  BY <1>1, <1>4, Zenon DEF Trace
<1>8. /\ b \in [1 .. l + 1 -> Stations] /\ b[1] = y /\ b[l + 1] = z
      /\ \A i \in 1 .. l : Turn(b[i], q[i], b[i + 1], train, n, G)
  BY <1>2, <1>4, Zenon DEF Trace
<1>9. PICK t : t = [i \in 1 .. k + l + 1 |-> IF i <= k + 1 THEN a[i] ELSE b[i - k]]
  OBVIOUS
<1>10. /\ \A i \in 1 .. k + 1 : t[i] = a[i]
       /\ \A i \in k + 1 .. k + l + 1 : t[i] = b[i - k]
  <2>1. \A i \in 1 .. k + 1 : i \in 1 .. k + l + 1
    BY <1>4
  <2>2. \A i \in 1 .. k + 1 : t[i] = a[i]
    BY <1>4, <1>9, <2>1
  <2>3. ASSUME NEW i \in k + 1 .. k + l + 1 PROVE t[i] = b[i - k]
    <3>1. i \in 1 .. k + l + 1
      BY <1>4
    <3>2. CASE i = k + 1
      <4>1. i - k = 1 /\ i \in 1 .. k + 1
        BY <1>4, <3>2
      <4>2. t[i] = a[k + 1]
        BY <2>2, <3>2, <4>1
      <4>3. QED
        BY <1>7, <1>8, <4>1, <4>2
    <3>3. CASE i # k + 1
      BY <1>4, <1>9, <3>1, <3>3
    <3>4. QED
      BY <3>2, <3>3
  <2>4. QED
    BY <2>2, <2>3
<1>11. t \in [1 .. k + l + 1 -> Stations]
  <2>1. ASSUME NEW i \in 1 .. k + l + 1
        PROVE  (IF i <= k + 1 THEN a[i] ELSE b[i - k]) \in Stations
    <3>1. CASE i <= k + 1
      <4>1. i \in 1 .. k + 1
        BY <1>4, <3>1
      <4>2. QED
        BY <1>7, <3>1, <4>1
    <3>2. CASE ~(i <= k + 1)
      <4>1. i - k \in 1 .. l + 1
        BY <1>4, <3>2
      <4>2. QED
        BY <1>8, <3>2, <4>1
    <3>3. QED
      BY <3>1, <3>2
  <2>2. QED
    BY <1>9, <2>1, Zenon
<1>12. t[1] = x /\ t[k + l + 1] = z
  <2>1. 1 \in 1 .. k + 1 /\ k + l + 1 \in k + 1 .. k + l + 1 /\ k + l + 1 - k = l + 1
    BY <1>4
  <2>2. QED
    BY <1>7, <1>8, <1>10, <2>1
<1>13. ASSUME NEW i \in 1 .. k + l PROVE Turn(t[i], r[i], t[i + 1], train, n, G)
  <2>1. CASE i <= k
    <3>1. i \in 1 .. k /\ i \in 1 .. k + 1 /\ i + 1 \in 1 .. k + 1
      BY <1>4, <2>1
    <3>2. t[i] = a[i] /\ t[i + 1] = a[i + 1] /\ r[i] = p[i]
      BY <1>6, <1>10, <3>1
    <3>3. Turn(a[i], p[i], a[i + 1], train, n, G)
      BY <1>7, <3>1
    <3>4. QED
      BY <3>2, <3>3, Zenon
  <2>2. CASE ~(i <= k)
    <3>1. PICK j \in 1 .. l : j = i - k
      <4>1. i - k \in 1 .. l
        BY <1>4, <2>2
      <4>2. QED
        BY <4>1
    <3>2. /\ i \in k + 1 .. k + l + 1 /\ i + 1 \in k + 1 .. k + l + 1 /\ i + 1 - k = j + 1
          /\ i \in k + 1 .. k + l
      <4>1. k \in Nat /\ l \in Nat /\ i \in Nat /\ i >= k + 1 /\ i <= k + l /\ j = i - k
        BY <1>4, <2>2, <3>1
      <4>2. QED
        BY <4>1
    <3>3. t[i] = b[j] /\ t[i + 1] = b[j + 1] /\ r[i] = q[j]
      BY <1>6, <1>10, <3>1, <3>2
    <3>4. Turn(b[j], q[j], b[j + 1], train, n, G)
      BY <1>8, <3>1
    <3>5. QED
      BY <3>3, <3>4, Zenon
  <2>3. QED
    BY <2>1, <2>2
<1>14. Trace(t, r, x, z, train, n, G)
  BY <1>6, <1>11, <1>12, <1>13, Zenon DEF Trace
<1>15. QED
  BY <1>5, <1>14, Zenon DEF Leads

(* The parts of a place.                                                   *)
LEMMA PlaceIs ==
  ASSUME NEW s \in Nat, NEW g \in Nat, NEW k \in Nat, NEW b \in BOOLEAN
  PROVE  /\ Place(s, g, k, b) \in Stations
         /\ Place(s, g, k, b).steps = s /\ Place(s, g, k, b).at = g
         /\ Place(s, g, k, b).done = k /\ Place(s, g, k, b).sent = b
BY DEF Place, Stations

(* The parts of a place that has a name.                                   *)
LEMMA PlaceOf ==
  ASSUME NEW s \in Nat, NEW g \in Nat, NEW k \in Nat, NEW b \in BOOLEAN, NEW x, x = Place(s, g, k, b)
  PROVE  x \in Stations /\ x.steps = s /\ x.at = g /\ x.done = k /\ x.sent = b
BY PlaceIs

(* A place when they are.                                                  *)
LEMMA SentPlace ==
  ASSUME NEW s \in Nat, NEW g \in Nat, NEW k \in Nat, NEW x, x = Place(s, g, k, TRUE)
  PROVE  x \in Stations /\ x.steps = s /\ x.at = g /\ x.done = k /\ x.sent = TRUE
BY DEF Place, Stations

(* No collective leads nowhere.                                            *)
LEMMA LeadsNowhere ==
  ASSUME NEW x \in Stations, NEW train, NEW n, NEW G
  PROVE  Leads(<<>>, x, x, train, n, G)
<1>1. PICK p : p = <<>>
  OBVIOUS
<1>2. p \in Seq(Ops) /\ Len(p) = 0 /\ Len(p) + 1 = 1
  BY <1>1
<1>3. PICK t : t = [i \in 1 .. 1 |-> x]
  OBVIOUS
<1>4. t \in [1 .. 1 -> Stations] /\ t[1] = x
  BY <1>3
<1>5. \A i \in 1 .. Len(p) : Turn(t[i], p[i], t[i + 1], train, n, G)
  <2>1. 1 .. Len(p) = {}
    BY <1>2
  <2>2. QED
    BY <2>1, Zenon
<1>6. Trace(t, p, x, x, train, n, G)
  BY <1>2, <1>4, <1>5, Zenon DEF Trace
<1>7. QED
  BY <1>1, <1>6, Zenon DEF Leads

(* One microbatch after the other.                                         *)
Passes(op, g, c) == [k \in 1 .. c |-> Op(op, g, k)]

(* The microbatches of a global batch lead through it.                     *)
LEMMA LeadsPasses ==
  ASSUME NEW op \in {"forward", "stages"}, NEW G \in Nat, NEW g \in 1 .. G, NEW n,
         NEW c \in Nat, c = n[g], NEW s \in Nat, NEW train
  PROVE  Leads(Passes(op, g, c), Place(s, g, 0, FALSE), Place(s, g, c, FALSE), train, n, G)
<1>1. PICK p : p = Passes(op, g, c)
  OBVIOUS
<1>2. g \in Nat
  OBVIOUS
<1>3. ASSUME NEW k \in 1 .. c
      PROVE  p[k] \in Ops /\ p[k].op = op /\ p[k].gb = g /\ p[k].mb = k
  <2>1. p[k] = Op(op, g, k)
    BY <1>1 DEF Passes
  <2>2. k \in Nat
    OBVIOUS
  <2>3. op \in {"size", "count", "unshard", "loss", "tokens", "forward", "stages", "broadcast", "step"}
    OBVIOUS
  <2>4. Op(op, g, k) \in Ops /\ Op(op, g, k).op = op /\ Op(op, g, k).gb = g /\ Op(op, g, k).mb = k
    BY <1>2, <2>2, <2>3, OpIs
  <2>5. QED
    BY <2>1, <2>4
<1>4. p \in [1 .. c -> Ops]
  <2>1. p = [k \in 1 .. c |-> p[k]]
    BY <1>1 DEF Passes
  <2>2. QED
    BY <1>3, <2>1, Zenon
<1>5. p \in Seq(Ops) /\ Len(p) = c
  BY <1>4
<1>6. PICK t : t = [i \in 1 .. c + 1 |-> Place(s, g, i - 1, FALSE)]
  OBVIOUS
<1>7. ASSUME NEW i \in 1 .. c + 1 PROVE t[i] = Place(s, g, i - 1, FALSE) /\ t[i] \in Stations
  <2>1. i - 1 \in Nat
    OBVIOUS
  <2>2. Place(s, g, i - 1, FALSE) \in Stations
    BY <1>2, <2>1, PlaceIs
  <2>3. QED
    BY <1>6, <2>2, Zenon
<1>8. t \in [1 .. c + 1 -> Stations]
  <2>1. t = [i \in 1 .. c + 1 |-> t[i]]
    BY <1>6, Zenon
  <2>2. QED
    BY <1>7, <2>1, Zenon
<1>9. t[1] = Place(s, g, 0, FALSE) /\ t[c + 1] = Place(s, g, c, FALSE)
  <2>1. 1 \in 1 .. c + 1 /\ c + 1 \in 1 .. c + 1 /\ 1 - 1 = 0 /\ (c + 1) - 1 = c
    OBVIOUS
  <2>2. t[1] = Place(s, g, 1 - 1, FALSE) /\ t[c + 1] = Place(s, g, (c + 1) - 1, FALSE)
    BY <1>7, <2>1, Zenon
  <2>3. QED
    BY <2>1, <2>2, Zenon
<1>10. ASSUME NEW i \in 1 .. c PROVE Turn(t[i], p[i], t[i + 1], train, n, G)
  <2>1. PICK j \in Nat : j = i - 1
    OBVIOUS
  <2>2. i \in 1 .. c + 1 /\ i + 1 \in 1 .. c + 1 /\ (i + 1) - 1 = j + 1 /\ j < c /\ i = j + 1
    BY <2>1
  <2>3. t[i] = Place(s, g, j, FALSE)
    BY <1>7, <2>1, <2>2, Zenon
  <2>4. t[i + 1] = Place(s, g, j + 1, FALSE)
    BY <1>7, <2>2, Zenon
  <2>5. PICK x, y, o : x = t[i] /\ y = t[i + 1] /\ o = p[i]
    OBVIOUS
  <2>6. x.steps = s /\ x.at = g /\ x.done = j /\ x.sent = FALSE /\ y = Place(x.steps, x.at, x.done + 1, FALSE)
    <3>1. x = Place(s, g, j, FALSE) /\ y = Place(s, g, j + 1, FALSE)
      BY <2>3, <2>4, <2>5, Zenon
    <3>2. x.steps = s /\ x.at = g /\ x.done = j /\ x.sent = FALSE
      <4>1. /\ Place(s, g, j, FALSE).steps = s /\ Place(s, g, j, FALSE).at = g
            /\ Place(s, g, j, FALSE).done = j /\ Place(s, g, j, FALSE).sent = FALSE
        BY DEF Place
      <4>2. QED
        BY <3>1, <4>1, Zenon
    <3>3. QED
      BY <3>1, <3>2, Zenon
  <2>7. o.op \in {"forward", "stages"} /\ o.gb = g /\ o.mb = j + 1
    BY <1>3, <2>2, <2>5
  <2>8. x.done < n[x.at] /\ o.mb = x.done + 1
    <3>1. n[x.at] = c
      BY <2>6
    <3>2. QED
      BY <2>2, <2>6, <2>7, <3>1
  <2>9. x.at \in 1 .. G /\ o.gb = x.at /\ ~x.sent
    BY <2>6, <2>7
  <2>10. Turn(x, o, y, train, n, G)
    BY <2>6, <2>7, <2>8, <2>9, Zenon DEF Turn
  <2>11. QED
    BY <2>5, <2>10, Zenon
<1>11. Trace(t, p, Place(s, g, 0, FALSE), Place(s, g, c, FALSE), train, n, G)
  BY <1>5, <1>8, <1>9, <1>10, Zenon DEF Trace
<1>12. QED
  BY <1>1, <1>11, Zenon DEF Leads

(* A way is a list of collectives.                                         *)
LEMMA LeadsIn ==
  ASSUME NEW p, NEW x, NEW y, NEW train, NEW n, NEW G, Leads(p, x, y, train, n, G)
  PROVE  p \in Seq(Ops)
BY Zenon DEF Leads, Trace

(* One global batch after the other.                                       *)
LEMMA LeadsAll ==
  ASSUME NEW G \in Nat, NEW f, DOMAIN f = 1 .. G, f = [g \in 1 .. G |-> f[g]], NEW train, NEW n, NEW m,
         NEW X, X[0] \in Stations,
         \A g \in 1 .. G : Leads(f[g], X[g - 1], X[g], train, n, m)
  PROVE  Leads(FlattenSeq(f), X[0], X[G], train, n, m)
<1>1. PICK V : V = Seq(Ops)
  OBVIOUS
<1>2. \A g \in 1 .. G : f[g] \in V
  BY <1>1, LeadsIn, Zenon
<1>3. f \in [1 .. G -> V]
  BY <1>2, Zenon
<1>4. f \in Seq(V) /\ Len(f) = G
  BY <1>3
<1>5. PICK t : Joins(t, f, Len(f), Ops)
  BY <1>1, <1>4, JoinsIs
<1>6. FlattenSeq(f) = t[G]
  BY <1>1, <1>4, <1>5, Flat
<1>7. t[0] = <<>> /\ \A k \in 1 .. G : t[k] = t[k - 1] \o f[k]
  BY <1>4, <1>5, Zenon DEF Joins
<1>8. PICK W : W = {k \in 0 .. G : Leads(t[k], X[0], X[k], train, n, m)}
  OBVIOUS
<1>9. 0 \in W
  <2>1. Leads(t[0], X[0], X[0], train, n, m)
    BY <1>7, LeadsNowhere
  <2>2. 0 \in 0 .. G
    OBVIOUS
  <2>3. QED
    BY <1>8, <2>1, <2>2
<1>10. ASSUME NEW k \in 0 .. G - 1, k \in W PROVE k + 1 \in W
  <2>1. Leads(t[k], X[0], X[k], train, n, m)
    BY <1>8, <1>10, Zenon
  <2>2. k + 1 \in 1 .. G /\ k + 1 \in 0 .. G /\ (k + 1) - 1 = k
    OBVIOUS
  <2>3. Leads(f[k + 1], X[k], X[k + 1], train, n, m)
    BY <2>2
  <2>4. Leads(t[k] \o f[k + 1], X[0], X[k + 1], train, n, m)
    BY <2>1, <2>3, LeadsOn
  <2>5. t[k + 1] = t[k] \o f[k + 1]
    BY <1>7, <2>2
  <2>6. QED
    BY <1>8, <2>2, <2>4, <2>5
<1>11. \A k \in 0 .. G : k \in W
  BY <1>9, <1>10, Upward
<1>12. G \in W
  BY <1>11
<1>13. QED
  BY <1>6, <1>8, <1>12

-----------------------------------------------------------------------------
(* All workers come to the same collectives.                               *)
LEMMA SameBatches ==
  ASSUME CallIs(call), NEW ss, NEW P, Allotted(ss, P, call), NEW w \in Workers, NEW v \in Workers
  PROVE  /\ GlobalBatches(ss, w) = GlobalBatches(ss, v)
         /\ \A g \in GlobalBatches(ss, w) : /\ NumMicro(ss, w, g) = NumMicro(ss, v, g)
                                            /\ Iterations(ss, w, g) = Iterations(ss, v, g)
<1>1. GlobalBatches(ss, w) = 1 .. GlobalBatch(call) /\ GlobalBatches(ss, v) = 1 .. GlobalBatch(call)
  BY OwnMicro
<1>2. ASSUME NEW g \in 1 .. GlobalBatch(call)
      PROVE  NumMicro(ss, w, g) = NumMicro(ss, v, g) /\ Iterations(ss, w, g) = Iterations(ss, v, g)
  <2>1. NumMicro(ss, w, g) = NumMicro(ss, v, g)
    BY OwnMicro, Zenon
  <2>2. QED
    BY <2>1, Zenon DEF Iterations
<1>3. QED
  BY <1>1, <1>2

(* So the same collectives in training,                                    *)
LEMMA SameTrain ==
  ASSUME CallIs(call), NEW ss, NEW P, Allotted(ss, P, call), NEW w \in Workers, NEW v \in Workers
  PROVE  TrainOps(ss, w) = TrainOps(ss, v) /\ MegatronTrainOps(ss, w) = MegatronTrainOps(ss, v)
<1>1. PICK D : D = GlobalBatches(ss, w) /\ D = GlobalBatches(ss, v)
  BY SameBatches, Zenon
<1>2. \A g \in D : /\ NumMicro(ss, w, g) = NumMicro(ss, v, g)
                   /\ Iterations(ss, w, g) = Iterations(ss, v, g)
  BY <1>1, SameBatches, Zenon
<1>3. [g \in D |-> <<Op("tokens", g, 0)>> \o Iterations(ss, w, g) \o <<Op("step", g, 0)>>]
        = [g \in D |-> <<Op("tokens", g, 0)>> \o Iterations(ss, v, g) \o <<Op("step", g, 0)>>]
  BY <1>2, Zenon
<1>4. [g \in D |->
         <<Op("tokens", g, 0)>>
         \o [k \in 1 .. NumMicro(ss, w, g) |-> Op("stages", g, k)]
         \o <<Op("step", g, 0), Op("broadcast", g, 0)>>]
        = [g \in D |->
             <<Op("tokens", g, 0)>>
             \o [k \in 1 .. NumMicro(ss, v, g) |-> Op("stages", g, k)]
             \o <<Op("step", g, 0), Op("broadcast", g, 0)>>]
  BY <1>2, Zenon
<1>5. TrainOps(ss, w) = TrainOps(ss, v)
  BY <1>1, <1>3, Zenon DEF TrainOps
<1>6. MegatronTrainOps(ss, w) = MegatronTrainOps(ss, v)
  BY <1>1, <1>4, Zenon DEF MegatronTrainOps
<1>7. QED
  BY <1>5, <1>6

(* and in every method.                                                    *)
LEMMA SamePrograms ==
  ASSUME CallIs(call), Accepted, NEW ss, NEW P, Allotted(ss, P, call), NEW w \in Workers, NEW v \in Workers
  PROVE  Program(ss, w) = Program(ss, v)
<1>1. CASE call.method = "train"
  <2>1. TrainOps(ss, w) = TrainOps(ss, v) /\ MegatronTrainOps(ss, w) = MegatronTrainOps(ss, v)
    BY SameTrain
  <2>2. TrainOpsV1(ss, w) = TrainOpsV1(ss, v)
    BY <2>1, Zenon DEF TrainOpsV1
  <2>3. call.backend \in Backends
    BY DEF CallIs
  <2>4. QED
    BY <1>1, <2>1, <2>2, <2>3 DEF Program, Backends
<1>2. CASE call.method # "train"
  <2>1. 1 \in GlobalBatches(ss, w)
    <3>1. GlobalBatches(ss, w) = 1 .. GlobalBatch(call)
      BY OwnMicro
    <3>2. GlobalBatch(call) = 1
      BY <1>2, CallSizes
    <3>3. QED
      BY <3>1, <3>2
  <2>2. NumMicro(ss, w, 1) = NumMicro(ss, v, 1) /\ Iterations(ss, w, 1) = Iterations(ss, v, 1)
    BY <2>1, SameBatches, Zenon
  <2>3. LogprobOps(ss, w) = LogprobOps(ss, v) /\ ScoreOps(ss, w) = ScoreOps(ss, v) /\ TopkOps(ss, w) = TopkOps(ss, v)
    BY <2>2, Zenon DEF LogprobOps, ScoreOps, TopkOps
  <2>4. LogprobOpsV1(ss, w) = LogprobOpsV1(ss, v) /\ ScoreOpsV1(ss, w) = ScoreOpsV1(ss, v) /\ TopkOpsV1(ss, w) = TopkOpsV1(ss, v)
    BY <2>3, Zenon DEF LogprobOpsV1, ScoreOpsV1, TopkOpsV1
  <2>5. MegatronLogprobOps(ss, w) = MegatronLogprobOps(ss, v) /\ MegatronTopkOps(ss, w) = MegatronTopkOps(ss, v)
    BY <2>2, Zenon DEF MegatronLogprobOps, MegatronTopkOps
  <2>6. call.backend \in Backends /\ call.method \in Methods /\ (call.method = "score" => call.backend # "megatron")
    BY DEF CallIs
  <2>7. QED
    BY <1>2, <2>3, <2>4, <2>5, <2>6 DEF Program, Backends, Methods
<1>3. QED
  BY <1>1, <1>2

(* The number of microbatches of every global batch.                       *)
Counts(ss) == [g \in 1 .. GlobalBatch(call) |-> MicroCount(ss, g)]

(* The numbers of microbatches.                                            *)
LEMMA CountsAre ==
  ASSUME CallIs(call), NEW ss, NEW P, Allotted(ss, P, call), NEW g \in 1 .. GlobalBatch(call)
  PROVE  Counts(ss)[g] = MicroCount(ss, g) /\ Counts(ss)[g] \in Nat
<1>1. 0 \in 0 .. NumShards * NumReplicas - 1
  <2>1. NumShards \in Nat /\ NumShards > 0 /\ NumReplicas \in Nat /\ NumReplicas > 0
    BY BatchAssumption
  <2>2. NumShards * NumReplicas > 0
    BY <2>1
  <2>3. NumShards * NumReplicas \in Int
    BY <2>1
  <2>4. QED
    BY <2>2, <2>3
<1>2. MicroCount(ss, g) \in Nat
  BY <1>1, OwnMicro DEF Workers
<1>3. QED
  BY <1>2 DEF Counts

(* The iterations lead through a global batch.                             *)
LEMMA IterationsLead ==
  ASSUME CallIs(call), NEW ss, NEW P, Allotted(ss, P, call), NEW w \in Workers, NEW G \in Nat,
         G = GlobalBatch(call), NEW g \in 1 .. G, NEW n, n = Counts(ss), NEW s \in Nat, NEW train
  PROVE  Leads(Iterations(ss, w, g), Place(s, g, 0, FALSE), Place(s, g, n[g], FALSE), train, n, G)
<1>1. PICK c \in Nat : c = n[g] /\ c = MicroCount(ss, g)
  BY CountsAre
<1>2. PICK p : p = Passes("forward", g, c)
  OBVIOUS
<1>3. PICK x, y : x = Place(s, g, 0, FALSE) /\ y = Place(s, g, c, FALSE)
  OBVIOUS
<1>4. Leads(p, x, y, train, n, G)
  BY <1>1, <1>2, <1>3, LeadsPasses
<1>5. x \in Stations
  BY <1>3 DEF Place, Stations
<1>6. PICK o \in Ops : o = Op("count", g, 0) /\ o.op = "count"
  BY OpIs
<1>7. Turn(x, o, x, train, n, G)
  BY <1>6 DEF Turn
<1>8. Leads(<<o>>, x, x, train, n, G)
  BY <1>5, <1>7, LeadsOne
<1>9. Leads(<<o>> \o p, x, y, train, n, G)
  BY <1>4, <1>8, LeadsOn
<1>10. Iterations(ss, w, g) = IF call.mode \in Algorithms THEN <<o>> \o p ELSE p
  <2>1. g \in 1 .. GlobalBatch(call)
    OBVIOUS
  <2>2. Iterations(ss, w, g) =
           IF call.mode \in Algorithms
           THEN <<Op("count", g, 0)>> \o [k \in 1 .. MicroCount(ss, g) |-> Op("forward", g, k)]
           ELSE [k \in 1 .. MicroCount(ss, g) |-> Op("forward", g, k)]
    BY <2>1, OwnIterations
  <2>3. p = [k \in 1 .. MicroCount(ss, g) |-> Op("forward", g, k)]
    BY <1>1, <1>2, Zenon DEF Passes
  <2>4. QED
    BY <1>6, <2>2, <2>3, Zenon
<1>11. Leads(Iterations(ss, w, g), x, y, train, n, G)
  BY <1>4, <1>9, <1>10
<1>12. QED
  BY <1>1, <1>3, <1>11

(* One global batch of train: its tokens are counted, its microbatches are *)
(* done, the optimizer takes its step.                                     *)
LEMMA BatchLeads ==
  ASSUME NEW G \in Nat, NEW g \in 1 .. G, NEW n, NEW c \in Nat, c = n[g],
         NEW d \in Nat, NEW b \in BOOLEAN, NEW p, NEW j \in Nat, j = g - 1,
         Leads(p, Place(j, g, 0, FALSE), Place(j, g, c, FALSE), TRUE, n, G)
  PROVE  /\ Leads(<<Op("tokens", g, 0)>> \o p \o <<Op("step", g, 0)>>,
                  Place(j, j, d, b), Place(g, g, c, FALSE), TRUE, n, G)
         /\ Leads(<<Op("tokens", g, 0)>> \o p \o <<Op("step", g, 0), Op("broadcast", g, 0)>>,
                  Place(j, j, d, b), Place(g, g, c, TRUE), TRUE, n, G)
<1>1. g \in Nat /\ 0 \in Nat /\ FALSE \in BOOLEAN /\ TRUE \in BOOLEAN /\ g = j + 1
  OBVIOUS
<1>2. PICK x1, x2, x3, x4, x5 : /\ x1 = Place(j, j, d, b) /\ x2 = Place(j, g, 0, FALSE)
                                /\ x3 = Place(j, g, c, FALSE) /\ x4 = Place(g, g, c, FALSE)
                                /\ x5 = Place(g, g, c, TRUE)
  OBVIOUS
<1>3. x1 \in Stations /\ x1.steps = j /\ x1.at = j /\ x1.done = d /\ x1.sent = b
  BY <1>2, PlaceOf
<1>4. x2 \in Stations /\ x2.steps = j /\ x2.at = g /\ x2.done = 0 /\ x2.sent = FALSE
  BY <1>1, <1>2 DEF Place, Stations
<1>5. x3 \in Stations /\ x3.steps = j /\ x3.at = g /\ x3.done = c /\ x3.sent = FALSE
  BY <1>1, <1>2 DEF Place, Stations
<1>6. x4 \in Stations /\ x4.steps = g /\ x4.at = g /\ x4.done = c /\ x4.sent = FALSE
  BY <1>1, <1>2 DEF Place, Stations
<1>7. x5 \in Stations
  BY <1>1, <1>2, SentPlace
<1>8. PICK o1 \in Ops : o1 = Op("tokens", g, 0) /\ o1.op = "tokens" /\ o1.gb = g
  BY <1>1, OpIs
<1>9. PICK o2 \in Ops : o2 = Op("step", g, 0) /\ o2.op = "step" /\ o2.gb = g
  BY <1>1, OpIs
<1>10. PICK o3 \in Ops : o3 = Op("broadcast", g, 0) /\ o3.op = "broadcast" /\ o3.gb = g
  BY <1>1, OpIs
<1>11. Turn(x1, o1, x2, TRUE, n, G)
  <2>1. x1.steps = o1.gb - 1 /\ x2 = Place(x1.steps, o1.gb, 0, FALSE)
    BY <1>1, <1>2, <1>3, <1>8
  <2>2. QED
    BY <1>8, <2>1 DEF Turn
<1>12. Turn(x3, o2, x4, TRUE, n, G)
  <2>1. x3.at = x3.steps + 1 /\ x3.at \in 1 .. G /\ x3.done = n[x3.at]
    BY <1>1, <1>5
  <2>2. x4 = Place(x3.steps + 1, x3.at, x3.done, x3.sent)
    BY <1>1, <1>2, <1>5
  <2>3. QED
    BY <1>9, <2>1, <2>2 DEF Turn
<1>13. Turn(x4, o3, x5, TRUE, n, G)
  <2>1. x4.at \in 1 .. G /\ x4.done = n[x4.at]
    BY <1>6
  <2>2. x5 = Place(x4.steps, x4.at, x4.done, TRUE)
    BY <1>2, <1>6
  <2>3. QED
    BY <1>10, <2>1, <2>2 DEF Turn
<1>14. Leads(<<o1>>, x1, x2, TRUE, n, G) /\ Leads(<<o2>>, x3, x4, TRUE, n, G) /\ Leads(<<o3>>, x4, x5, TRUE, n, G)
  BY <1>3, <1>4, <1>5, <1>6, <1>7, <1>11, <1>12, <1>13, LeadsOne
<1>15. Leads(p, x2, x3, TRUE, n, G)
  BY <1>2
<1>16. Leads(<<o1>> \o p, x1, x3, TRUE, n, G)
  BY <1>14, <1>15, LeadsOn
<1>17. Leads(<<o1>> \o p \o <<o2>>, x1, x4, TRUE, n, G)
  BY <1>14, <1>16, LeadsOn
<1>18. Leads(<<o2>> \o <<o3>>, x3, x5, TRUE, n, G)
  BY <1>14, LeadsOn
<1>19. <<o2>> \o <<o3>> = <<o2, o3>>
  <2>1. PICK e, f : e = <<o2>> \o <<o3>> /\ f = <<o2, o3>>
    OBVIOUS
  <2>2. e \in Seq(Ops) /\ Len(e) = 2 /\ e[1] = o2 /\ e[2] = o3
    BY <2>1
  <2>3. f \in Seq(Ops) /\ Len(f) = 2 /\ f[1] = o2 /\ f[2] = o3
    BY <2>1
  <2>4. \A i \in 1 .. Len(e) : e[i] = f[i]
    BY <2>2, <2>3
  <2>5. QED
    BY <2>1, <2>2, <2>3, <2>4, SeqEqual
<1>20. Leads(<<o1>> \o p \o <<o2, o3>>, x1, x5, TRUE, n, G)
  BY <1>16, <1>18, <1>19, LeadsOn
<1>21. QED
  BY <1>2, <1>8, <1>9, <1>10, <1>17, <1>20, Zenon

(* The place after g global batches.                                       *)
After(n, g, sent) == IF g = 0 THEN Place(0, 0, 0, FALSE) ELSE Place(g, g, n[g], sent)

(* The place after a global batch.                                         *)
LEMMA AfterSome ==
  ASSUME NEW g, g # 0, NEW n, NEW sent
  PROVE  After(n, g, sent) = Place(g, g, n[g], sent)
BY Zenon DEF After

(* It is a place.                                                          *)
LEMMA AfterIs ==
  ASSUME NEW g \in Nat, NEW n, NEW sent \in BOOLEAN, g > 0 => n[g] \in Nat
  PROVE  \E d \in Nat, b \in BOOLEAN : After(n, g, sent) = Place(g, g, d, b)
<1>1. CASE g = 0
  <2>1. After(n, g, sent) = Place(g, g, 0, FALSE)
    BY <1>1 DEF After
  <2>2. 0 \in Nat /\ FALSE \in BOOLEAN
    OBVIOUS
  <2>3. QED
    BY <2>1, <2>2, Zenon
<1>2. CASE g > 0
  <2>1. After(n, g, sent) = Place(g, g, n[g], sent)
    BY <1>2, AfterSome
  <2>2. PICK d \in Nat : d = n[g]
    BY <1>2
  <2>3. After(n, g, sent) = Place(g, g, d, sent)
    BY <2>1, <2>2, Zenon
  <2>4. QED
    BY <2>3, Zenon
<1>3. QED
  BY <1>1, <1>2

(* Global batch after global batch, between the sizes and the losses.      *)
LEMMA BatchesLead ==
  ASSUME NEW G \in Nat, NEW n, \A g \in 1 .. G : n[g] \in Nat, NEW sent \in BOOLEAN,
         NEW f, f = [g \in 1 .. G |-> f[g]],
         \A g \in 1 .. G, d \in Nat, b \in BOOLEAN :
           Leads(f[g], Place(g - 1, g - 1, d, b), Place(g, g, n[g], sent), TRUE, n, G)
  PROVE  Leads(<<Op("size", 0, 0)>> \o FlattenSeq(f) \o <<Op("loss", 0, 0)>>,
               Place(0, 0, 0, FALSE), After(n, G, sent), TRUE, n, G)
<1>1. PICK X : X = [g \in 0 .. G |-> After(n, g, sent)]
  OBVIOUS
<1>2. \A g \in 0 .. G : X[g] = After(n, g, sent)
  BY <1>1
<1>3. ASSUME NEW g \in 1 .. G PROVE Leads(f[g], X[g - 1], X[g], TRUE, n, G)
  <2>1. PICK j \in Nat : j = g - 1 /\ j \in 0 .. G /\ g \in 0 .. G /\ g \in Nat /\ g > 0
    OBVIOUS
  <2>2. j > 0 => n[j] \in Nat
    <3>1. j > 0 => j \in 1 .. G
      BY <2>1
    <3>2. QED
      BY <3>1
  <2>3. PICK d \in Nat, b \in BOOLEAN : After(n, j, sent) = Place(j, j, d, b)
    BY <2>2, AfterIs
  <2>4. After(n, g, sent) = Place(g, g, n[g], sent)
    BY <2>1, AfterSome
  <2>5. Leads(f[g], Place(j, j, d, b), Place(g, g, n[g], sent), TRUE, n, G)
    BY <2>1, Zenon
  <2>6. X[g - 1] = Place(j, j, d, b) /\ X[g] = Place(g, g, n[g], sent)
    BY <1>2, <2>1, <2>3, <2>4, Zenon
  <2>7. QED
    BY <2>5, <2>6, Zenon
<1>4. X[0] = Place(0, 0, 0, FALSE) /\ X[G] = After(n, G, sent)
  <2>1. 0 \in 0 .. G /\ G \in 0 .. G /\ 0 \in Nat
    OBVIOUS
  <2>2. After(n, 0, sent) = Place(0, 0, 0, FALSE)
    BY DEF After
  <2>3. QED
    BY <1>2, <2>1, <2>2, Zenon
<1>5. PICK x, y : x = X[0] /\ y = X[G]
  OBVIOUS
<1>6. x \in Stations
  BY <1>4, <1>5 DEF Place, Stations
<1>7. y \in Stations
  <2>1. G > 0 => n[G] \in Nat
    OBVIOUS
  <2>2. PICK d \in Nat, b \in BOOLEAN : After(n, G, sent) = Place(G, G, d, b)
    BY <2>1, AfterIs
  <2>3. y = Place(G, G, d, b)
    BY <1>4, <1>5, <2>2, Zenon
  <2>4. QED
    BY <2>3, PlaceOf
<1>8. Leads(FlattenSeq(f), x, y, TRUE, n, G)
  <2>1. DOMAIN f = 1 .. G
    OBVIOUS
  <2>2. X[0] \in Stations
    BY <1>5, <1>6
  <2>3. Leads(FlattenSeq(f), X[0], X[G], TRUE, n, G)
    BY <1>3, <2>1, <2>2, LeadsAll
  <2>4. QED
    BY <1>5, <2>3
<1>9. PICK o1 \in Ops : o1 = Op("size", 0, 0) /\ o1.op = "size"
  BY OpIs
<1>10. PICK o2 \in Ops : o2 = Op("loss", 0, 0) /\ o2.op = "loss"
  BY OpIs
<1>11. Turn(x, o1, x, TRUE, n, G) /\ Turn(y, o2, y, TRUE, n, G)
  BY <1>9, <1>10 DEF Turn
<1>12. Leads(<<o1>>, x, x, TRUE, n, G) /\ Leads(<<o2>>, y, y, TRUE, n, G)
  BY <1>6, <1>7, <1>11, LeadsOne
<1>13. Leads(<<o1>> \o FlattenSeq(f), x, y, TRUE, n, G)
  BY <1>8, <1>12, LeadsOn
<1>14. Leads(<<o1>> \o FlattenSeq(f) \o <<o2>>, x, y, TRUE, n, G)
  BY <1>12, <1>13, LeadsOn
<1>15. QED
  BY <1>4, <1>5, <1>9, <1>10, <1>14, Zenon

(* A worker's whole way through a call.                                    *)
TrainCourse(p, n, G) == \E y : Leads(p, Place(0, 0, 0, FALSE), y, TRUE, n, G) /\ y.steps = G
AnswerCourse(p, n, G) ==
  \E y : /\ Leads(p, Place(0, 1, 0, FALSE), y, FALSE, n, G)
         /\ y.at = 1 /\ y.done = n[1] /\ (call.backend = "megatron" => y.sent = TRUE)
Course(p, n, G) == IF call.method = "train" THEN TrainCourse(p, n, G) ELSE AnswerCourse(p, n, G)

(* As many steps as global batches.                                        *)
LEMMA AfterSteps ==
  ASSUME NEW G, NEW n, NEW sent
  PROVE  After(n, G, sent).steps = G
<1>1. CASE G = 0
  <2>1. After(n, G, sent) = Place(0, 0, 0, FALSE)
    BY <1>1 DEF After
  <2>2. Place(0, 0, 0, FALSE).steps = 0
    BY DEF Place
  <2>3. QED
    BY <1>1, <2>1, <2>2
<1>2. CASE G # 0
  <2>1. After(n, G, sent) = Place(G, G, n[G], sent)
    BY <1>2, AfterSome
  <2>2. Place(G, G, n[G], sent).steps = G
    BY DEF Place
  <2>3. QED
    BY <2>1, <2>2
<1>3. QED
  BY <1>1, <1>2

(* Both trainings go through all global batches.                           *)
LEMMA TrainLeads ==
  ASSUME CallIs(call), Accepted, NEW ss, NEW P, Allotted(ss, P, call), NEW w \in Workers, NEW G,
         G = GlobalBatch(call), NEW n, n = Counts(ss)
  PROVE  TrainCourse(TrainOps(ss, w), n, G) /\ TrainCourse(MegatronTrainOps(ss, w), n, G)
<1>1. G \in Nat
  BY CallSizes DEF Sizes
<1>2. \A g \in 1 .. G : n[g] \in Nat /\ n[g] = MicroCount(ss, g) /\ NumMicro(ss, w, g) = n[g]
  BY CountsAre, OwnMicro, Zenon
<1>3. GlobalBatches(ss, w) = 1 .. G
  BY OwnMicro, Zenon
<1>4. PICK f : f = [g \in 1 .. G |-> <<Op("tokens", g, 0)>> \o Iterations(ss, w, g) \o <<Op("step", g, 0)>>]
  OBVIOUS
<1>5. PICK h : h = [g \in 1 .. G |-> <<Op("tokens", g, 0)>> \o Passes("stages", g, n[g])
                                      \o <<Op("step", g, 0), Op("broadcast", g, 0)>>]
  OBVIOUS
<1>6. ASSUME NEW g \in 1 .. G, NEW d \in Nat, NEW b \in BOOLEAN
      PROVE  /\ Leads(f[g], Place(g - 1, g - 1, d, b), Place(g, g, n[g], FALSE), TRUE, n, G)
             /\ Leads(h[g], Place(g - 1, g - 1, d, b), Place(g, g, n[g], TRUE), TRUE, n, G)
  <2>1. PICK j \in Nat : j = g - 1
    BY <1>1
  <2>2. PICK c \in Nat : c = n[g]
    BY <1>2
  <2>3. PICK p : p = Iterations(ss, w, g)
    OBVIOUS
  <2>4. Leads(p, Place(j, g, 0, FALSE), Place(j, g, c, FALSE), TRUE, n, G)
    BY <1>1, <2>2, <2>3, IterationsLead
  <2>5. Leads(<<Op("tokens", g, 0)>> \o p \o <<Op("step", g, 0)>>,
              Place(j, j, d, b), Place(g, g, c, FALSE), TRUE, n, G)
    BY <1>1, <2>1, <2>2, <2>4, BatchLeads
  <2>6. PICK r : r = Passes("stages", g, c)
    OBVIOUS
  <2>7. Leads(r, Place(j, g, 0, FALSE), Place(j, g, c, FALSE), TRUE, n, G)
    BY <1>1, <2>2, <2>6, LeadsPasses
  <2>8. Leads(<<Op("tokens", g, 0)>> \o r \o <<Op("step", g, 0), Op("broadcast", g, 0)>>,
              Place(j, j, d, b), Place(g, g, c, TRUE), TRUE, n, G)
    BY <1>1, <2>1, <2>2, <2>7, BatchLeads
  <2>9. f[g] = <<Op("tokens", g, 0)>> \o p \o <<Op("step", g, 0)>>
    BY <1>4, <2>3, Zenon
  <2>10. h[g] = <<Op("tokens", g, 0)>> \o r \o <<Op("step", g, 0), Op("broadcast", g, 0)>>
    BY <1>5, <2>2, <2>6, Zenon
  <2>11. QED
    BY <2>1, <2>2, <2>5, <2>8, <2>9, <2>10, Zenon
<1>7. f = [g \in 1 .. G |-> f[g]] /\ h = [g \in 1 .. G |-> h[g]]
  BY <1>4, <1>5, Zenon
<1>8. \A g \in 1 .. G : n[g] \in Nat
  BY <1>2
<1>9. Leads(<<Op("size", 0, 0)>> \o FlattenSeq(f) \o <<Op("loss", 0, 0)>>,
            Place(0, 0, 0, FALSE), After(n, G, FALSE), TRUE, n, G)
  <2>1. FALSE \in BOOLEAN
    OBVIOUS
  <2>2. \A g \in 1 .. G, d \in Nat, b \in BOOLEAN :
           Leads(f[g], Place(g - 1, g - 1, d, b), Place(g, g, n[g], FALSE), TRUE, n, G)
    BY <1>6, Zenon
  <2>3. QED
    BY <1>1, <1>7, <1>8, <2>1, <2>2, BatchesLead, Zenon
<1>10. Leads(<<Op("size", 0, 0)>> \o FlattenSeq(h) \o <<Op("loss", 0, 0)>>,
             Place(0, 0, 0, FALSE), After(n, G, TRUE), TRUE, n, G)
  <2>1. TRUE \in BOOLEAN
    OBVIOUS
  <2>2. \A g \in 1 .. G, d \in Nat, b \in BOOLEAN :
           Leads(h[g], Place(g - 1, g - 1, d, b), Place(g, g, n[g], TRUE), TRUE, n, G)
    BY <1>6, Zenon
  <2>3. QED
    BY <1>1, <1>7, <1>8, <2>1, <2>2, BatchesLead, Zenon
<1>11. TrainOps(ss, w) = <<Op("size", 0, 0)>> \o FlattenSeq(f) \o <<Op("loss", 0, 0)>>
  BY <1>3, <1>4 DEF TrainOps
<1>12. MegatronTrainOps(ss, w) = <<Op("size", 0, 0)>> \o FlattenSeq(h) \o <<Op("loss", 0, 0)>>
  <2>1. h = [g \in 1 .. G |->
               <<Op("tokens", g, 0)>>
               \o [k \in 1 .. NumMicro(ss, w, g) |-> Op("stages", g, k)]
               \o <<Op("step", g, 0), Op("broadcast", g, 0)>>]
    BY <1>2, <1>5, Zenon DEF Passes
  <2>2. QED
    BY <1>3, <2>1, Zenon DEF MegatronTrainOps
<1>13. After(n, G, FALSE).steps = G /\ After(n, G, TRUE).steps = G
  BY AfterSteps
<1>14. TrainCourse(TrainOps(ss, w), n, G)
  <2>1. Leads(TrainOps(ss, w), Place(0, 0, 0, FALSE), After(n, G, FALSE), TRUE, n, G)
    BY <1>9, <1>11
  <2>2. QED
    BY <1>13, <2>1, Zenon DEF TrainCourse
<1>15. TrainCourse(MegatronTrainOps(ss, w), n, G)
  <2>1. Leads(MegatronTrainOps(ss, w), Place(0, 0, 0, FALSE), After(n, G, TRUE), TRUE, n, G)
    BY <1>10, <1>12
  <2>2. QED
    BY <1>13, <2>1, Zenon DEF TrainCourse
<1>16. QED
  BY <1>14, <1>15

(* The older worker's list: the model is gathered first, and its passes    *)
(* are met by the tensor parallel peers only.                              *)
Met(o) == IF o.op = "forward" THEN [o EXCEPT !.op = "stages"] ELSE o

(* The collective that replaces a pass of the model.                       *)
LEMMA MetIs ==
  ASSUME NEW o \in Ops
  PROVE  /\ Met(o) \in Ops /\ Met(o).gb = o.gb /\ Met(o).mb = o.mb
         /\ o.op = "forward" => Met(o).op = "stages"
         /\ o.op # "forward" => Met(o) = o
<1>1. CASE o.op = "forward"
  <2>1. PICK z : z = [o EXCEPT !.op = "stages"]
    OBVIOUS
  <2>2. z \in Ops /\ z.op = "stages" /\ z.gb = o.gb /\ z.mb = o.mb
    BY <2>1 DEF Ops
  <2>3. Met(o) = z
    BY <1>1, <2>1, Zenon DEF Met
  <2>4. QED
    BY <1>1, <2>2, <2>3
<1>2. CASE o.op # "forward"
  <2>1. Met(o) = o
    BY <1>2, Zenon DEF Met
  <2>2. QED
    BY <1>2, <2>1
<1>3. QED
  BY <1>1, <1>2

(* It takes the same turn.                                                 *)
LEMMA TurnMet ==
  ASSUME NEW x, NEW o \in Ops, NEW y, NEW train, NEW n, NEW G, Turn(x, o, y, train, n, G)
  PROVE  Turn(x, Met(o), y, train, n, G)
<1>1. CASE o.op = "forward"
  <2>1. PICK z : z = Met(o) /\ z.op = "stages" /\ z.gb = o.gb /\ z.mb = o.mb
    BY <1>1, MetIs
  <2>2. /\ x.at \in 1 .. G /\ o.gb = x.at
        /\ x.done < n[x.at] /\ o.mb = x.done + 1 /\ ~x.sent
        /\ y = Place(x.steps, x.at, x.done + 1, FALSE)
    BY <1>1, Zenon DEF Turn
  <2>3. /\ z.op \in {"forward", "stages"} /\ x.at \in 1 .. G /\ z.gb = x.at
        /\ x.done < n[x.at] /\ z.mb = x.done + 1 /\ ~x.sent
        /\ y = Place(x.steps, x.at, x.done + 1, FALSE)
    BY <2>1, <2>2, Zenon
  <2>4. Turn(x, z, y, train, n, G)
    BY <2>3, Zenon DEF Turn
  <2>5. QED
    BY <2>1, <2>4
<1>2. CASE o.op # "forward"
  <2>1. Met(o) = o
    BY <1>2, MetIs
  <2>2. QED
    BY <2>1
<1>3. QED
  BY <1>1, <1>2

(* So the older worker's list leads as far.                                *)
LEMMA LeadsUnsharded ==
  ASSUME NEW ops, NEW x \in Stations, NEW y, NEW train, NEW n, NEW G, Leads(ops, x, y, train, n, G)
  PROVE  Leads(Unsharded(ops), x, y, train, n, G)
<1>1. PICK t : Trace(t, ops, x, y, train, n, G)
  BY DEF Leads
<1>2. ops \in Seq(Ops)
  BY <1>1, Zenon DEF Trace
<1>3. PICK k \in Nat : k = Len(ops) /\ DOMAIN ops = 1 .. k
  BY <1>2
<1>4. PICK met : met = [i \in 1 .. k |-> Met(ops[i])]
  OBVIOUS
<1>5. \A i \in 1 .. k : ops[i] \in Ops
  BY <1>2, <1>3
<1>6. \A i \in 1 .. k : Met(ops[i]) \in Ops
  BY <1>5, MetIs, Zenon
<1>7. met \in [1 .. k -> Ops]
  BY <1>4, <1>6, Zenon
<1>8. met \in Seq(Ops) /\ Len(met) = k /\ \A i \in 1 .. k : met[i] = Met(ops[i])
  BY <1>4, <1>7
<1>9. /\ t \in [1 .. k + 1 -> Stations] /\ t[1] = x /\ t[k + 1] = y
      /\ \A i \in 1 .. k : Turn(t[i], ops[i], t[i + 1], train, n, G)
  BY <1>1, <1>3, Zenon DEF Trace
<1>10. \A i \in 1 .. k : Turn(t[i], met[i], t[i + 1], train, n, G)
  BY <1>5, <1>8, <1>9, TurnMet, Zenon
<1>11. Trace(t, met, x, y, train, n, G)
  BY <1>8, <1>9, <1>10, Zenon DEF Trace
<1>12. Leads(met, x, y, train, n, G)
  BY <1>11, Zenon DEF Leads
<1>13. PICK o \in Ops : o = Op("unshard", 1, 0) /\ o.op = "unshard"
  BY OpIs
<1>14. Turn(x, o, x, train, n, G)
  BY <1>13 DEF Turn
<1>15. Leads(<<o>>, x, x, train, n, G)
  BY <1>14, LeadsOne
<1>16. Leads(<<o>> \o met, x, y, train, n, G)
  BY <1>12, <1>15, LeadsOn
<1>17. Unsharded(ops) = <<o>> \o met
  <2>1. met = [i \in DOMAIN ops |-> IF ops[i].op = "forward" THEN [ops[i] EXCEPT !.op = "stages"] ELSE ops[i]]
    BY <1>3, <1>4, Zenon DEF Met
  <2>2. QED
    BY <1>13, <2>1, Zenon DEF Unsharded
<1>18. QED
  BY <1>16, <1>17

(* The other methods go through the one global batch.                      *)
LEMMA AnswersLead ==
  ASSUME CallIs(call), Accepted, call.method # "train", NEW ss, NEW P, Allotted(ss, P, call),
         NEW w \in Workers, NEW G, G = GlobalBatch(call), NEW n, n = Counts(ss)
  PROVE  /\ call.backend # "megatron" =>
              AnswerCourse(Iterations(ss, w, 1), n, G) /\ AnswerCourse(Unsharded(Iterations(ss, w, 1)), n, G)
         /\ AnswerCourse(MegatronLogprobOps(ss, w), n, G) /\ AnswerCourse(MegatronTopkOps(ss, w), n, G)
<1>1. G = 1 /\ G \in Nat /\ 1 \in 1 .. G /\ 0 \in Nat
  BY CallSizes
<1>2. PICK c \in Nat : c = n[1] /\ NumMicro(ss, w, 1) = c
  <2>1. n[1] = MicroCount(ss, 1) /\ n[1] \in Nat
    BY <1>1, CountsAre, Zenon
  <2>2. NumMicro(ss, w, 1) = MicroCount(ss, 1)
    BY <1>1, OwnMicro, Zenon
  <2>3. QED
    BY <2>1, <2>2
<1>3. PICK x, y, z : x = Place(0, 1, 0, FALSE) /\ y = Place(0, 1, c, FALSE) /\ z = Place(0, 1, c, TRUE)
  OBVIOUS
<1>4. /\ x \in Stations /\ y \in Stations /\ z \in Stations
      /\ y.steps = 0 /\ y.at = 1 /\ y.done = c /\ z.steps = 0 /\ z.at = 1 /\ z.done = c /\ z.sent = TRUE
  BY <1>3 DEF Place, Stations
<1>5. Leads(Iterations(ss, w, 1), x, y, FALSE, n, G)
  BY <1>1, <1>2, <1>3, IterationsLead
<1>6. Leads(Unsharded(Iterations(ss, w, 1)), x, y, FALSE, n, G)
  BY <1>4, <1>5, LeadsUnsharded
<1>7. PICK p : p = Passes("stages", 1, c)
  OBVIOUS
<1>8. Leads(p, x, y, FALSE, n, G)
  BY <1>1, <1>2, <1>3, <1>7, LeadsPasses
<1>9. PICK o \in Ops : o = Op("broadcast", 1, 0) /\ o.op = "broadcast"
  BY OpIs
<1>10. Turn(y, o, z, FALSE, n, G) /\ Turn(z, o, z, FALSE, n, G)
  <2>1. /\ y.at \in 1 .. G /\ y.done = n[y.at] /\ z = Place(y.steps, y.at, y.done, TRUE)
    BY <1>1, <1>2, <1>3, <1>4
  <2>2. /\ z.at \in 1 .. G /\ z.done = n[z.at] /\ z = Place(z.steps, z.at, z.done, TRUE)
    BY <1>1, <1>2, <1>3, <1>4
  <2>3. QED
    BY <1>9, <2>1, <2>2 DEF Turn
<1>11. Leads(<<o>>, y, z, FALSE, n, G) /\ Leads(<<o>>, z, z, FALSE, n, G)
  BY <1>4, <1>10, LeadsOne
<1>12. Leads(p \o <<o>>, x, z, FALSE, n, G)
  BY <1>8, <1>11, LeadsOn
<1>13. Leads(<<o>> \o <<o>>, y, z, FALSE, n, G)
  BY <1>11, LeadsOn
<1>14. <<o>> \o <<o>> = <<o, o>>
  <2>1. PICK e, f : e = <<o>> \o <<o>> /\ f = <<o, o>>
    OBVIOUS
  <2>2. e \in Seq(Ops) /\ Len(e) = 2 /\ e[1] = o /\ e[2] = o
    BY <2>1
  <2>3. f \in Seq(Ops) /\ Len(f) = 2 /\ f[1] = o /\ f[2] = o
    BY <2>1
  <2>4. \A i \in 1 .. Len(e) : e[i] = f[i]
    BY <2>2, <2>3
  <2>5. QED
    BY <2>1, <2>2, <2>3, <2>4, SeqEqual
<1>15. Leads(p \o <<o, o>>, x, z, FALSE, n, G)
  BY <1>8, <1>13, <1>14, LeadsOn
<1>16. p = [k \in 1 .. NumMicro(ss, w, 1) |-> Op("stages", 1, k)]
  BY <1>2, <1>7 DEF Passes
<1>17. MegatronLogprobOps(ss, w) = p \o <<o>> /\ MegatronTopkOps(ss, w) = p \o <<o, o>>
  BY <1>9, <1>16 DEF MegatronLogprobOps, MegatronTopkOps
<1>18. ASSUME NEW r, Leads(r, x, z, FALSE, n, G) PROVE AnswerCourse(r, n, G)
  BY <1>2, <1>3, <1>4, <1>18, Zenon DEF AnswerCourse
<1>19. ASSUME call.backend # "megatron", NEW r, Leads(r, x, y, FALSE, n, G) PROVE AnswerCourse(r, n, G)
  BY <1>2, <1>3, <1>4, <1>19, Zenon DEF AnswerCourse
<1>20. QED
  BY <1>5, <1>6, <1>12, <1>15, <1>17, <1>18, <1>19, Zenon

(* Every worker's program takes it through the call.                       *)
LEMMA ProgramCourse ==
  ASSUME CallIs(call), Accepted, NEW ss, NEW P, Allotted(ss, P, call), NEW w \in Workers
  PROVE  Course(Program(ss, w), Counts(ss), GlobalBatch(call))
<1>1. PICK n, G : n = Counts(ss) /\ G = GlobalBatch(call)
  OBVIOUS
<1>2. call.backend \in Backends /\ call.method \in Methods /\ (call.method = "score" => call.backend # "megatron")
  BY DEF CallIs
<1>3. CASE call.method = "train"
  <2>1. TrainCourse(TrainOps(ss, w), n, G) /\ TrainCourse(MegatronTrainOps(ss, w), n, G)
    BY <1>1, TrainLeads
  <2>2. TrainCourse(TrainOpsV1(ss, w), n, G)
    BY <2>1 DEF TrainOpsV1
  <2>3. Program(ss, w) \in {TrainOps(ss, w), TrainOpsV1(ss, w), MegatronTrainOps(ss, w)}
    BY <1>2, <1>3 DEF Program, Backends
  <2>4. TrainCourse(Program(ss, w), n, G)
    BY <2>1, <2>2, <2>3
  <2>5. QED
    BY <1>1, <1>3, <2>4 DEF Course
<1>4. CASE call.method # "train" /\ call.backend = "megatron"
  <2>1. AnswerCourse(MegatronLogprobOps(ss, w), n, G) /\ AnswerCourse(MegatronTopkOps(ss, w), n, G)
    BY <1>1, <1>4, AnswersLead
  <2>2. Program(ss, w) \in {MegatronLogprobOps(ss, w), MegatronTopkOps(ss, w)}
    BY <1>2, <1>4 DEF Program, Methods
  <2>3. AnswerCourse(Program(ss, w), n, G)
    BY <2>1, <2>2
  <2>4. QED
    BY <1>1, <1>4, <2>3 DEF Course
<1>5. CASE call.method # "train" /\ call.backend # "megatron"
  <2>1. PICK i : i = Iterations(ss, w, 1)
    OBVIOUS
  <2>2. AnswerCourse(i, n, G) /\ AnswerCourse(Unsharded(i), n, G)
    BY <1>1, <1>5, <2>1, AnswersLead
  <2>3. /\ LogprobOps(ss, w) = i /\ ScoreOps(ss, w) = i /\ TopkOps(ss, w) = i /\ TopkOpsV1(ss, w) = i
        /\ LogprobOpsV1(ss, w) = Unsharded(i) /\ ScoreOpsV1(ss, w) = Unsharded(i)
    BY <2>1, Zenon DEF LogprobOps, ScoreOps, TopkOps, TopkOpsV1, LogprobOpsV1, ScoreOpsV1
  <2>4. Program(ss, w) \in {i, Unsharded(i)}
    BY <1>2, <1>5, <2>3 DEF Program, Methods, Backends
  <2>5. AnswerCourse(Program(ss, w), n, G)
    BY <2>2, <2>4
  <2>6. QED
    BY <1>1, <1>5, <2>5 DEF Course
<1>6. QED
  BY <1>3, <1>4, <1>5

-----------------------------------------------------------------------------
(***************************************************************************)
(* No worker is left alone.                                                *)
(***************************************************************************)
Prepared ==
  /\ Accepted /\ \E P : Allotted(shards, P, call)
  /\ \A w, v \in Workers : program[w] = program[v]
  /\ \A w \in Workers : Course(program[w], Counts(shards), GlobalBatch(call))

(* Of a collective, the members of a group are all before it or all past   *)
(* it.                                                                     *)
InStep ==
  \A w, v \in Workers : \A i \in 1 .. Len(program[w]) :
    v \in Party(call.backend, w, program[w][i].op) => (pc[w] <= i <=> pc[v] <= i)

StepInv ==
  /\ CallIs(call) /\ outcome \in {"called", "refused", "running", "returned"}
  /\ pc \in [Workers -> Nat] /\ \A w \in Workers : pc[w] >= 1
  /\ bins = <<>> \/ (Accepted /\ BinsMade(bins, call))
  /\ outcome = "called" => pc = [w \in Workers |-> 1]
  /\ outcome \in {"running", "returned"} => Prepared /\ InStep

(* There is a worker.                                                      *)
LEMMA SomeWorker == 0 \in Workers /\ Workers \subseteq Nat
<1>1. NumShards \in Nat /\ NumShards > 0 /\ NumReplicas \in Nat /\ NumReplicas > 0
  BY BatchAssumption
<1>2. NumShards * NumReplicas > 0 /\ NumShards * NumReplicas \in Int
  BY <1>1
<1>3. QED
  BY <1>2 DEF Workers

(* A course is a list of collectives.                                      *)
LEMMA CourseIn ==
  ASSUME NEW p, NEW n, NEW G, Course(p, n, G)
  PROVE  p \in Seq(Ops) /\ Len(p) \in Nat
<1>1. p \in Seq(Ops)
  <2>1. CASE call.method = "train"
    BY <2>1, LeadsIn, Zenon DEF Course, TrainCourse
  <2>2. CASE call.method # "train"
    BY <2>2, LeadsIn, Zenon DEF Course, AnswerCourse
  <2>3. QED
    BY <2>1, <2>2
<1>2. QED
  BY <1>1

(* The workers that meet are all at the same collective.                   *)
LEMMA MeetTogether ==
  ASSUME Prepared, InStep, pc \in [Workers -> Nat], \A w \in Workers : pc[w] >= 1,
         NEW u \in Workers, NEW ops, Meet(u, ops)
  PROVE  /\ u \in Peers(u) /\ Peers(u) \subseteq Workers
         /\ \A v \in Peers(u) : pc[v] = pc[u] /\ program[v] = program[u]
         /\ pc[u] \in 1 .. Len(program[u]) /\ pc[u] \in Nat /\ Len(program[u]) \in Nat
         /\ At(u).op \in ops /\ outcome = "running"
<1>1. PICK o : o = At(u).op
  OBVIOUS
<1>2. Running(u) /\ o \in ops /\ \A v \in Peers(u) : Running(v) /\ At(v).op = o
  BY <1>1, Zenon DEF Meet
<1>3. Peers(u) = Group(u, o)
  BY <1>1, Zenon DEF Peers
<1>4. u \in Peers(u) /\ Peers(u) \subseteq Workers
  <2>1. Group(u, o) \subseteq Workers /\ u \in Group(u, o)
    BY Groups
  <2>2. QED
    BY <1>3, <2>1
<1>5. \A v \in Workers : program[v] = program[u]
  BY Zenon DEF Prepared
<1>6. PICK p : p = program[u] /\ \A v \in Workers : program[v] = p
  BY <1>5, Zenon
<1>7. PICK l \in Nat : l = Len(p)
  BY <1>6, CourseIn DEF Prepared
<1>8. \A v \in Workers : pc[v] \in Nat /\ pc[v] >= 1
  OBVIOUS
<1>9. ASSUME NEW v \in Peers(u) PROVE pc[v] = pc[u]
  <2>1. v \in Workers /\ Running(v) /\ At(v).op = o
    BY <1>2, <1>4
  <2>2. PICK i, j \in Nat : i = pc[u] /\ j = pc[v] /\ i >= 1 /\ j >= 1
    BY <1>8, <2>1
  <2>3. i <= l /\ j <= l
    BY <1>2, <1>6, <1>7, <2>1, <2>2 DEF Running
  <2>4. i \in 1 .. Len(program[u]) /\ j \in 1 .. Len(program[v])
    BY <1>6, <1>7, <2>1, <2>2, <2>3
  <2>5. program[u][i].op = o /\ program[v][j].op = o
    BY <1>1, <2>1, <2>2 DEF At
  <2>6. v \in Party(call.backend, u, o) /\ u \in Party(call.backend, v, o)
    <3>1. v \in Group(u, o)
      BY <1>3
    <3>2. u \in Group(v, o)
      BY <2>1, <3>1, Groups
    <3>3. QED
      BY <3>1, <3>2, GroupIs
  <2>7. pc[u] <= i <=> pc[v] <= i
    <3>1. v \in Party(call.backend, u, program[u][i].op) => (pc[u] <= i <=> pc[v] <= i)
      BY <2>1, <2>4, Zenon DEF InStep
    <3>2. QED
      BY <2>5, <2>6, <3>1, Zenon
  <2>8. pc[v] <= j <=> pc[u] <= j
    <3>1. u \in Party(call.backend, v, program[v][j].op) => (pc[v] <= j <=> pc[u] <= j)
      BY <2>1, <2>4, Zenon DEF InStep
    <3>2. QED
      BY <2>5, <2>6, <3>1, Zenon
  <2>9. QED
    BY <2>2, <2>7, <2>8
<1>10. pc[u] \in 1 .. Len(program[u]) /\ pc[u] \in Nat /\ Len(program[u]) \in Nat /\ outcome = "running"
  <2>1. pc[u] <= l /\ outcome = "running"
    BY <1>2, <1>6, <1>7 DEF Running
  <2>2. QED
    BY <1>6, <1>7, <1>8, <2>1
<1>11. QED
  BY <1>1, <1>2, <1>4, <1>5, <1>9, <1>10, Zenon

(* A meeting leaves the workers in step.                                   *)
LEMMA MeetInStep ==
  ASSUME Prepared, InStep, pc \in [Workers -> Nat], \A w \in Workers : pc[w] >= 1,
         NEW u \in Workers, NEW ops, Meet(u, ops)
  PROVE  InStep' /\ pc' \in [Workers -> Nat] /\ \A w \in Workers : pc'[w] >= 1
<1>1. PICK A : A = Peers(u)
  OBVIOUS
<1>2. PICK i0 \in Nat : i0 = pc[u]
  OBVIOUS
<1>3. PICK p : p = program[u]
  OBVIOUS
<1>4. /\ A \subseteq Workers /\ \A v \in A : pc[v] = i0
      /\ i0 \in 1 .. Len(p)
  BY <1>1, <1>2, <1>3, MeetTogether, Zenon
<1>5. \A v \in Workers : program[v] = p
  BY <1>3, Zenon DEF Prepared
<1>6. A = Group(u, p[i0].op)
  BY <1>1, <1>2, <1>3, Zenon DEF Peers, At
<1>7. /\ pc' = [v \in Workers |-> IF v \in A THEN pc[v] + 1 ELSE pc[v]]
      /\ call' = call /\ program' = program
  BY <1>1, Zenon DEF Meet
<1>8. \A v \in Workers : pc[v] \in Nat /\ pc[v] >= 1
  OBVIOUS
<1>9. \A v \in Workers : (v \in A => pc'[v] = i0 + 1) /\ (v \notin A => pc'[v] = pc[v])
  BY <1>4, <1>7
<1>10. pc' \in [Workers -> Nat] /\ \A v \in Workers : pc'[v] >= 1
  <2>1. \A v \in Workers : pc'[v] \in Nat /\ pc'[v] >= 1
    BY <1>8, <1>9
  <2>2. pc' = [v \in Workers |-> pc'[v]]
    BY <1>7, Zenon
  <2>3. QED
    BY <2>1, <2>2, Zenon
<1>11. ASSUME NEW w \in Workers, NEW v \in Workers, NEW i \in 1 .. Len(p), v \in Group(w, p[i].op)
       PROVE  pc'[w] <= i <=> pc'[v] <= i
  <2>1. pc[w] <= i <=> pc[v] <= i
    BY <1>5, <1>11, GroupIs, Zenon DEF InStep
  <2>2. CASE w \in A <=> v \in A
    BY <1>9, <2>1, <2>2
  <2>3. ASSUME ~(w \in A <=> v \in A) PROVE i # i0
    <3> SUFFICES ASSUME i = i0 PROVE FALSE
      OBVIOUS
    <3>1. PICK o : o = p[i0].op
      OBVIOUS
    <3>2. v \in Group(w, o) /\ w \in Group(v, o) /\ A = Group(u, o)
      BY <1>6, <1>11, <3>1, Groups, Zenon
    <3>3. (w \in A => v \in A) /\ (v \in A => w \in A)
      BY <3>2, Groups, Zenon
    <3>4. QED
      BY <2>3, <3>3
  <2>4. ASSUME NEW e \in Workers, NEW f \in Workers, e \in A, f \notin A, i # i0,
               pc[e] <= i <=> pc[f] <= i
        PROVE  pc'[e] <= i <=> pc'[f] <= i
    <3>1. pc[e] = i0 /\ pc'[e] = i0 + 1 /\ pc'[f] = pc[f]
      BY <1>4, <1>9, <2>4, Zenon
    <3>2. i0 + 1 <= i <=> i0 <= i
      BY <1>2, <2>4
    <3>3. QED
      BY <2>4, <3>1, <3>2
  <2>5. CASE w \in A /\ v \notin A
    BY <2>1, <2>3, <2>4, <2>5
  <2>6. CASE w \notin A /\ v \in A
    BY <2>1, <2>3, <2>4, <2>6
  <2>7. QED
    BY <2>2, <2>5, <2>6
<1>12. InStep'
  <2>1. \A w \in Workers : program'[w] = p
    BY <1>5, <1>7
  <2>2. \A w, op : Party(call'.backend, w, op) = Group(w, op)
    BY <1>7, GroupIs, Zenon
  <2>3. \A w \in Workers, v \in Workers : \A i \in 1 .. Len(p) :
          v \in Group(w, p[i].op) => (pc'[w] <= i <=> pc'[v] <= i)
    BY <1>11, Zenon
  <2>4. \A w \in Workers, v \in Workers : \A i \in 1 .. Len(program'[w]) :
          v \in Party(call'.backend, w, program'[w][i].op) => (pc'[w] <= i <=> pc'[v] <= i)
    <3> SUFFICES ASSUME NEW w \in Workers, NEW v \in Workers, NEW i \in 1 .. Len(program'[w]),
                        v \in Party(call'.backend, w, program'[w][i].op)
                 PROVE  pc'[w] <= i <=> pc'[v] <= i
      BY Zenon
    <3>1. program'[w] = p
      BY <2>1
    <3>2. v \in Group(w, p[i].op) /\ i \in 1 .. Len(p)
      <4>1. Party(call'.backend, w, p[i].op) = Group(w, p[i].op)
        BY <2>2, Zenon
      <4>2. QED
        BY <3>1, <4>1
    <3>3. QED
      BY <2>3, <3>2, Zenon
  <2>5. QED
    BY <2>4, Zenon DEF InStep
<1>13. QED
  BY <1>10, <1>12

(* Whether a call is accepted depends on the call alone.                   *)
LEMMA AcceptedStays ==
  ASSUME call' = call
  PROVE  Accepted' = Accepted
BY Zenon DEF Accepted, PaddedLens

(* What is prepared stays prepared.                                        *)
LEMMA PreparedStays ==
  ASSUME Prepared, call' = call, shards' = shards, program' = program
  PROVE  Prepared'
<1>1. Accepted'
  BY AcceptedStays DEF Prepared
<1>2. /\ \E P : Allotted(shards, P, call)
      /\ \A w, v \in Workers : program[w] = program[v]
  BY DEF Prepared
<1>3. /\ \E P : Allotted(shards', P, call')
      /\ \A w, v \in Workers : program'[w] = program'[v]
  BY <1>2
<1>4. (\A w \in Workers : Course(program[w], Counts(shards), GlobalBatch(call)))'
  BY DEF Prepared, Course, AnswerCourse, Counts
<1>5. QED
  BY <1>1, <1>3, <1>4 DEF Prepared

(* A dispatched call is prepared, and its workers in step.                 *)
LEMMA DispatchedPrepared ==
  ASSUME CallIs(call), NEW ss, \E Q : Allotted(ss, Q, call), Dispatched(ss),
         pc = [w \in Workers |-> 1]
  PROVE  Prepared' /\ InStep' /\ call' = call /\ pc' = pc /\ bins' = bins /\ outcome' = "running"
<1>1. /\ Accepted /\ shards' = ss /\ call' = call /\ pc' = pc /\ bins' = bins /\ outcome' = "running"
      /\ program' = [w \in Workers |-> Program(ss, w)]
  BY DEF Dispatched
<1>2. PICK P : Allotted(ss, P, call)
  OBVIOUS
<1>3. \A w \in Workers : program'[w] = Program(ss, w)
  BY <1>1
<1>4. \A w, v \in Workers : program'[w] = program'[v]
  BY <1>1, <1>2, <1>3, SamePrograms, Zenon
<1>5. \A w \in Workers : Course(program'[w], Counts(ss), GlobalBatch(call))
  BY <1>1, <1>2, <1>3, ProgramCourse, Zenon
<1>6. (\A w \in Workers : Course(program[w], Counts(shards), GlobalBatch(call)))'
  BY <1>1, <1>5 DEF Course, AnswerCourse, Counts
<1>7. Accepted'
  BY <1>1, AcceptedStays
<1>8. (\E Q : Allotted(shards, Q, call))'
  BY <1>1, <1>2
<1>9. Prepared'
  BY <1>4, <1>6, <1>7, <1>8 DEF Prepared
<1>10. \A w \in Workers : pc'[w] = 1
  BY <1>1
<1>11. InStep'
  BY <1>10 DEF InStep
<1>12. QED
  BY <1>1, <1>9, <1>11

(* A call begins in step.                                                  *)
LEMMA StepInit == Init => StepInv
<1> SUFFICES ASSUME Init PROVE StepInv
  OBVIOUS
<1>1. call \in Batches /\ Sensible(call) /\ pc = [w \in Workers |-> 1] /\ outcome = "called" /\ bins = <<>>
  BY DEF Init
<1>2. CallIs(call)
  BY <1>1, CallsAre
<1>3. pc \in [Workers -> Nat] /\ \A w \in Workers : pc[w] >= 1
  BY <1>1
<1>4. QED
  BY <1>1, <1>2, <1>3 DEF StepInv

(* No chunk is packed at first.                                            *)
LEMMA NoBinsMade ==
  ASSUME CallIs(call), Accepted
  PROVE  BinsMade(<<>>, call)
<1>1. GlobalBatch(call) \in Nat
  BY CallSizes DEF Sizes
<1>2. PICK bs : bs = <<>>
  OBVIOUS
<1>3. bs \in Seq(Seq(Seq(1 .. Len(call.lens)))) /\ Len(bs) = 0
  BY <1>2
<1>4. 1 .. Len(bs) = {}
  BY <1>3
<1>5. \A k \in 1 .. Len(bs) :
       Chunked(bs[k], Chunk(k, call.size), 1 .. Len(call.lens), Padded(call.lens, Multiple), Budget, NumShards)
  BY <1>4, Zenon
<1>6. BinsMade(bs, call)
  BY <1>1, <1>3, <1>5 DEF BinsMade
<1>7. QED
  BY <1>2, <1>6

(* One chunk more is packed.                                               *)
LEMMA ChunkMade ==
  ASSUME CallIs(call), Accepted, BinsMade(bins, call), PackChunk
  PROVE  BinsMade(bins', call)
<1>1. PICK N, G, b, q, padded : /\ N = Len(call.lens) /\ G = GlobalBatch(call) /\ b = call.size
                                /\ q = b \div NumShards /\ padded = Padded(call.lens, Multiple)
  OBVIOUS
<1>2. Sizes(N, G, b, NumShards, q)
  BY <1>1, CallSizes
<1>3. call.mode \in Algorithms /\ Len(bins) < G
  BY <1>1 DEF PackChunk, GlobalBatch
<1>4. PICK x : /\ x \in ChunkPackings(call.mode, padded, Len(bins) + 1, b, Budget, NumShards)
               /\ bins' = Append(bins, x)
  BY <1>1, Zenon DEF PackChunk, PaddedLens
<1>5. PICK V : V = Seq(Seq(1 .. N))
  OBVIOUS
<1>6. bins \in Seq(V) /\ Len(bins) <= G
  BY <1>1, <1>5 DEF BinsMade
<1>7. G \in Nat
  BY <1>2 DEF Sizes
<1>8. PICK l \in Nat : l = Len(bins)
  BY <1>6
<1>9. l + 1 \in 1 .. G
  BY <1>3, <1>7, <1>8
<1>10. Chunked(x, Chunk(l + 1, b), 1 .. N, padded, Budget, NumShards)
  <2>1. Multiple \in Nat /\ Multiple > 0 /\ N \in Nat /\ Budget \in Nat
    BY <1>1, BatchAssumption DEF CallIs
  <2>2. Measured(padded, 1 .. N)
    BY <1>1, <2>1, PaddedIs DEF CallIs
  <2>3. Packable(padded, Budget)
    BY <1>1, <1>3 DEF Accepted, PaddedLens
  <2>4. PICK c : c = l + 1 /\ c \in 1 .. G
    BY <1>9
  <2>5. x \in ChunkPackings(call.mode, padded, c, b, Budget, NumShards)
    BY <1>4, <1>8, <2>4
  <2>6. Chunked(x, Chunk(c, b), 1 .. N, padded, Budget, NumShards)
    BY <1>2, <1>3, <2>1, <2>2, <2>3, <2>4, <2>5, ChunkBinsAre
  <2>7. QED
    BY <2>4, <2>6, Zenon
<1>11. x \in V
  BY <1>5, <1>10, Zenon DEF Chunked, Packed
<1>12. /\ bins' \in Seq(V) /\ Len(bins') = l + 1 /\ bins'[l + 1] = x
       /\ \A k \in 1 .. l : bins'[k] = bins[k]
  BY <1>4, <1>6, <1>8, <1>11
<1>13. \A k \in 1 .. l : Chunked(bins[k], Chunk(k, b), 1 .. N, padded, Budget, NumShards)
  BY <1>1, <1>8, Zenon DEF BinsMade
<1>14. ASSUME NEW k \in 1 .. l + 1
       PROVE  Chunked(bins'[k], Chunk(k, b), 1 .. N, padded, Budget, NumShards)
  <2>1. CASE k = l + 1
    BY <1>10, <1>12, <2>1, Zenon
  <2>2. CASE k # l + 1
    <3>1. k \in 1 .. l
      BY <1>8, <2>2
    <3>2. QED
      BY <1>12, <1>13, <3>1, Zenon
  <2>3. QED
    BY <2>1, <2>2
<1>15. \A k \in 1 .. Len(bins') : Chunked(bins'[k], Chunk(k, b), 1 .. N, padded, Budget, NumShards)
  BY <1>12, <1>14, Zenon
<1>16. Len(bins') <= G
  BY <1>9, <1>12
<1>17. QED
  BY <1>1, <1>5, <1>12, <1>15, <1>16, Zenon DEF BinsMade

(* Whatever a worker does it does in a meeting.                            *)
LEMMA WorkMeets ==
  ASSUME NEW w \in Workers, Work(w)
  PROVE  \E ops : Meet(w, ops)
BY Zenon DEF Work, Exchange, ValidTokens, Broadcast, Step, ForwardTrain, StagesTrain, ForwardAnswer, StagesAnswer

(* Dispatching establishes the invariant.                                  *)
LEMMA BeginStep ==
  ASSUME StepInv, NEW ss, \E Q : Allotted(ss, Q, call), Dispatched(ss)
  PROVE  StepInv'
<1>1. CallIs(call) /\ outcome = "called"
  BY DEF StepInv, Dispatched
<1>2. pc = [w \in Workers |-> 1] /\ (bins = <<>> \/ (Accepted /\ BinsMade(bins, call)))
  BY <1>1 DEF StepInv
<1>3. Prepared' /\ InStep' /\ call' = call /\ pc' = pc /\ bins' = bins /\ outcome' = "running"
  BY <1>1, <1>2, DispatchedPrepared
<1>4. CallIs(call')
  BY <1>1, <1>3
<1>5. pc' \in [Workers -> Nat] /\ \A w \in Workers : pc'[w] >= 1
  BY <1>2, <1>3
<1>6. Accepted' = Accepted
  BY <1>3, AcceptedStays
<1>7. bins' = <<>> \/ (Accepted' /\ BinsMade(bins', call'))
  BY <1>2, <1>3, <1>6
<1>8. QED
  BY <1>3, <1>4, <1>5, <1>7 DEF StepInv

(* What moves no worker keeps it.                                          *)
LEMMA StayStep ==
  ASSUME StepInv, call' = call, bins' = bins, shards' = shards, program' = program, pc' = pc,
         outcome' \in {"refused", "running", "returned"} \/ outcome' = outcome,
         outcome' \in {"running", "returned"} => outcome \in {"running", "returned"}
  PROVE  StepInv'
<1>1. CallIs(call') /\ outcome' \in {"called", "refused", "running", "returned"}
  BY DEF StepInv
<1>2. pc' \in [Workers -> Nat] /\ \A w \in Workers : pc'[w] >= 1
  BY DEF StepInv
<1>3. Accepted' = Accepted
  BY AcceptedStays
<1>4. bins' = <<>> \/ (Accepted' /\ BinsMade(bins', call'))
  BY <1>3 DEF StepInv
<1>5. outcome' = "called" => pc' = [w \in Workers |-> 1]
  BY DEF StepInv
<1>6. ASSUME outcome' \in {"running", "returned"} PROVE Prepared' /\ InStep'
  <2>1. Prepared /\ InStep
    BY <1>6 DEF StepInv
  <2>2. Prepared'
    BY <2>1, PreparedStays
  <2>3. InStep'
    BY <2>1 DEF InStep
  <2>4. QED
    BY <2>2, <2>3
<1>7. QED
  BY <1>1, <1>2, <1>4, <1>5, <1>6 DEF StepInv

(* Every step keeps it.                                                    *)
LEMMA StepNext == StepInv /\ [Next]_vars => StepInv'
<1> SUFFICES ASSUME StepInv, [Next]_vars PROVE StepInv'
  OBVIOUS
<1>1. CASE Refuse
  BY <1>1, StayStep DEF Refuse
<1>2. CASE ShardPlain
  <2>1. PICK ss : ss = PlainShards(call.lens, call.size, NumShards, call.micro) /\ Dispatched(ss) /\ call.mode = "plain"
    BY <1>2 DEF ShardPlain
  <2>2. CallIs(call) /\ Accepted
    BY <2>1 DEF StepInv, Dispatched
  <2>3. \E P : Allotted(ss, P, call)
    BY <2>1, <2>2, PlainAllotted, Zenon
  <2>4. QED
    BY <2>1, <2>3, BeginStep
<1>3. CASE ShardDynamic
  <2>1. PICK ss : /\ ss = DynamicShards(call.lens, call.size, NumShards, Multiple, Budget)
                  /\ Dispatched(ss) /\ call.mode = "dynamic"
    BY <1>3 DEF ShardDynamic
  <2>2. CallIs(call) /\ Accepted
    BY <2>1 DEF StepInv, Dispatched
  <2>3. \E P : Allotted(ss, P, call)
    BY <2>1, <2>2, DynamicAllotted, Zenon
  <2>4. QED
    BY <2>1, <2>3, BeginStep
<1>4. CASE PackChunk
  <2>1. /\ outcome = "called" /\ Accepted /\ call' = call /\ shards' = shards /\ program' = program
        /\ pc' = pc /\ outcome' = outcome
    BY <1>4 DEF PackChunk
  <2>2. CallIs(call) /\ BinsMade(bins, call)
    BY <2>1, NoBinsMade DEF StepInv
  <2>3. BinsMade(bins', call)
    BY <1>4, <2>1, <2>2, ChunkMade
  <2>4. Accepted' = Accepted
    BY <2>1, AcceptedStays
  <2>5. pc' \in [Workers -> Nat] /\ (\A w \in Workers : pc'[w] >= 1) /\ pc' = [w \in Workers |-> 1]
    BY <2>1 DEF StepInv
  <2>6. QED
    BY <2>1, <2>2, <2>3, <2>4, <2>5 DEF StepInv
<1>5. CASE ShardPacked
  <2>1. PICK ss : /\ ss = PackedShards(bins, PaddedLens, NumShards) /\ Dispatched(ss)
                  /\ call.mode \in Algorithms /\ Len(bins) = GlobalBatch(call)
    BY <1>5 DEF ShardPacked, GlobalBatch
  <2>2. CallIs(call) /\ Accepted
    BY <2>1 DEF StepInv, Dispatched
  <2>3. BinsMade(bins, call)
    BY <2>2, NoBinsMade DEF StepInv
  <2>4. \E P : Allotted(ss, P, call)
    BY <2>1, <2>2, <2>3, PackedAllotted
  <2>5. QED
    BY <2>1, <2>4, BeginStep
<1>6. CASE Return
  BY <1>6, StayStep DEF Return
<1>7. CASE UNCHANGED vars
  BY <1>7, StayStep DEF vars
<1>8. ASSUME NEW u \in Workers, Work(u) PROVE StepInv'
  <2>1. PICK ops : Meet(u, ops)
    BY <1>8, WorkMeets
  <2>2. /\ call' = call /\ bins' = bins /\ shards' = shards /\ program' = program /\ outcome' = outcome
        /\ outcome = "running"
    BY <2>1 DEF Meet, Running
  <2>3. Prepared /\ InStep /\ pc \in [Workers -> Nat] /\ (\A w \in Workers : pc[w] >= 1)
    BY <2>2 DEF StepInv
  <2>4. InStep' /\ pc' \in [Workers -> Nat] /\ \A w \in Workers : pc'[w] >= 1
    BY <2>1, <2>3, MeetInStep
  <2>5. Prepared'
    BY <2>2, <2>3, PreparedStays
  <2>6. Accepted' = Accepted
    BY <2>2, AcceptedStays
  <2>7. bins' = <<>> \/ (Accepted' /\ BinsMade(bins', call'))
    BY <2>2, <2>6 DEF StepInv
  <2>8. QED
    BY <2>2, <2>4, <2>5, <2>7 DEF StepInv
<1>9. QED
  BY <1>1, <1>2, <1>3, <1>4, <1>5, <1>6, <1>7, <1>8 DEF Next, Driver, Done

(* A worker that is not through, of those that are the least far, finds    *)
(* its group with it.                                                      *)
LEMMA StepGoesOn == StepInv => NoneStranded
<1> SUFFICES ASSUME StepInv, outcome = "running", NEW r \in Workers, Running(r)
             PROVE  \E w \in Workers : Running(w) /\ \A v \in Peers(w) : Running(v) /\ At(v).op = At(w).op
  BY DEF NoneStranded
<1>1. Prepared /\ InStep /\ pc \in [Workers -> Nat]
  BY DEF StepInv
<1>2. PICK p : \A v \in Workers : program[v] = p
  BY <1>1 DEF Prepared
<1>3. PICK l \in Nat : l = Len(p)
  BY <1>1, <1>2, CourseIn DEF Prepared
<1>4. PICK S : S = {pc[v] : v \in Workers}
  OBVIOUS
<1>5. S \subseteq Nat /\ S # {}
  BY <1>1, <1>4, SomeWorker
<1>6. Min(S) \in S /\ \A x \in S : Min(S) <= x
  BY <1>5, LeastOf
<1>7. PICK u \in Workers : pc[u] = Min(S)
  BY <1>4, <1>6
<1>8. PICK i \in Nat : i = pc[u] /\ \A v \in Workers : i <= pc[v]
  BY <1>1, <1>4, <1>6, <1>7
<1>9. i <= l
  <2>1. pc[r] <= l /\ pc[r] \in Nat
    BY <1>1, <1>2, <1>3 DEF Running
  <2>2. QED
    BY <1>8, <2>1
<1>10. Running(u)
  BY <1>2, <1>3, <1>8, <1>9 DEF Running
<1>11. i \in 1 .. l
  <2>1. pc[u] >= 1
    BY DEF StepInv
  <2>2. QED
    BY <1>8, <1>9, <2>1
<1>12. ASSUME NEW v \in Peers(u) PROVE Running(v) /\ At(v).op = At(u).op
  <2>1. PICK o : o = p[i].op
    OBVIOUS
  <2>2. At(u).op = o
    BY <1>2, <1>8, <2>1 DEF At
  <2>3. v \in Group(u, o)
    BY <2>2 DEF Peers
  <2>4. v \in Workers
    BY <2>3, Groups
  <2>5. v \in Party(call.backend, u, o)
    BY <2>3, GroupIs
  <2>6. pc[u] <= i <=> pc[v] <= i
    <3>1. i \in 1 .. Len(program[u]) /\ program[u][i].op = o
      BY <1>2, <1>3, <1>11, <2>1
    <3>2. v \in Party(call.backend, u, program[u][i].op) => (pc[u] <= i <=> pc[v] <= i)
      BY <1>1, <2>4, <3>1, Zenon DEF InStep
    <3>3. QED
      BY <2>5, <3>1, <3>2, Zenon
  <2>7. pc[v] = i
    <3>1. pc[v] \in Nat
      BY <1>1, <2>4
    <3>2. QED
      BY <1>8, <2>4, <2>6, <3>1
  <2>8. QED
    BY <1>2, <1>3, <1>9, <2>1, <2>2, <2>4, <2>7 DEF Running, At
<1>13. QED
  BY <1>10, <1>12

(* The workers of a running call stay in step: those that meet in a        *)
(* collective come to it together, a shard's worker with fewer microbatches*)
(* than another's making dummies of its own.                               *)
THEOREM StepAlways == Spec => []StepInv
<1>1. QED
  BY StepInit, StepNext, PTL DEF Spec

(* No worker is left alone in a collective, whatever the sharding and the  *)
(* packers made of the batch: while a call runs, some worker finds all     *)
(* those it meets at the same collective, or all workers are through.      *)
THEOREM NobodyStranded == Spec => []NoneStranded
<1>1. QED
  BY StepAlways, StepGoesOn, PTL

-----------------------------------------------------------------------------
(***************************************************************************)
(* The rows of a microbatch.                                               *)
(***************************************************************************)
AddedUp(L) == FoldLeft(LAMBDA a, b : a + b, 0, L)

(* Adding a list up by FoldLeft is its last sum.                           *)
LEMMA AddedSums ==
  ASSUME NEW n \in Nat, NEW L, Numbers(L, n)
  PROVE  \E r : Sums(L, n, r) /\ AddedUp(L) = r[n]
<1> DEFINE iter == CHOOSE f : f = [s \in SUBSET (1 .. n) |->
                     IF s = {} THEN 0 ELSE f[s \ {Max(s)}] + L[Max(s)]]
<1>1. DOMAIN L = 1 .. n
  BY DEF Numbers
<1>2. AddedUp(L) = iter[1 .. n]
  <2>1. AddedUp(L) = (CHOOSE f : f = [s \in SUBSET DOMAIN L |->
                     IF s = {} THEN 0 ELSE f[s \ {Max(s)}] + L[Max(s)]])[DOMAIN L]
    BY Zenon DEF AddedUp, FoldLeft, MapThenFoldSet
  <2>2. QED
    BY <1>1, <2>1, Zenon
<1>3. PICK g : g = [s \in SUBSET (1 .. n) |-> IF s = {} THEN 0 ELSE g[s \ {Max(s)}] + L[Max(s)]]
  BY SumSolved
<1>4. iter = [s \in SUBSET (1 .. n) |-> IF s = {} THEN 0 ELSE iter[s \ {Max(s)}] + L[Max(s)]]
  BY <1>3, Zenon
<1> HIDE DEF iter
<1>5. iter[{}] = 0
  <2>1. {} \in SUBSET (1 .. n)
    OBVIOUS
  <2>2. QED
    BY <1>4, <2>1
<1>6. \A s \in SUBSET (1 .. n) : s # {} => iter[s] = iter[s \ {Max(s)}] + L[Max(s)]
  BY <1>4
<1>7. PICK it : it = iter
  OBVIOUS
<1>8. Adds(it, n, L)
  BY <1>5, <1>6, <1>7 DEF Adds
<1>9. \E r : Sums(L, n, r) /\ it[1 .. n] = r[n]
  BY <1>8, SumTrail
<1>10. QED
  BY <1>2, <1>7, <1>9

(* What a worker takes for a global batch are the rows it was allotted.    *)
LEMMA BatchIs ==
  ASSUME NEW S, NEW G \in Nat, NEW shard, NEW p, Shape(shard, p, G, S), NEW g \in 1 .. G
  PROVE  BatchOf(shard, g) = p[g]
<1>1. /\ p \in Seq(Seq(S)) /\ Len(p) = G /\ DOMAIN p = 1 .. G /\ shard.rows = FlattenSeq(p)
      /\ DOMAIN shard.micro = 1 .. G /\ \A c \in 1 .. G : Tiled(shard.micro[c], Len(p[c]))
  BY DEF Shape, Slices
<1>2. PICK t : Joins(t, p, G, S)
  BY <1>1, JoinsIs
<1>3. FlattenSeq(p) = t[G]
  <2>1. Joins(t, p, Len(p), S)
    BY <1>1, <1>2
  <2>2. FlattenSeq(p) = t[Len(p)]
    BY <1>1, <2>1, Flat
  <2>3. QED
    BY <1>1, <2>2
<1>4. \A c \in 1 .. G : JoinsAt(t, p, c, S)
  BY <1>2, JoinsLen
<1>5. \A c \in 1 .. G : /\ Len(t[c]) \in Nat /\ Len(t[c - 1]) \in Nat /\ Len(p[c]) \in Nat
                        /\ Len(t[c]) = Len(t[c - 1]) + Len(p[c])
  BY <1>4, Zenon DEF JoinsAt
<1>6. PICK z : z = [c \in DOMAIN shard.micro |-> Last(shard.micro[c]).to]
  OBVIOUS
<1>7. \A c \in 1 .. G : Last(shard.micro[c]).to = Len(p[c])
  <2> SUFFICES ASSUME NEW c \in 1 .. G PROVE Last(shard.micro[c]).to = Len(p[c])
    OBVIOUS
  <2>1. PICK micro : micro = shard.micro[c]
    OBVIOUS
  <2>2. PICK l : Tiles(micro, l, Len(p[c]))
    BY <1>1, <2>1 DEF Tiled
  <2>3. Len(micro) = l /\ To(micro, l) = Len(p[c])
    BY <2>2 DEF Tiles
  <2>4. Last(micro).to = To(micro, l)
    BY <2>3, Zenon DEF Last, To
  <2>5. QED
    BY <2>1, <2>3, <2>4
<1>8. z = [c \in 1 .. G |-> Len(p[c])]
  BY <1>1, <1>6, <1>7, Zenon
<1>9. z \in [1 .. G -> Nat] /\ \A c \in 1 .. G : z[c] = Len(p[c])
  BY <1>5, <1>8
<1>10. PICK h : h = SubSeq(z, 1, g - 1)
  OBVIOUS
<1>11. Numbers(h, g - 1) /\ \A c \in 1 .. g - 1 : h[c] = Len(p[c])
  <2>1. z \in Seq(Nat)
    BY <1>9
  <2>2. \A i \in 1 .. g - 1 : z[i] \in Nat
    BY <1>9
  <2>3. 1 \in Int /\ g - 1 \in Int
    OBVIOUS
  <2>4. /\ h \in Seq(Nat) /\ Len(h) = IF 1 <= g - 1 THEN (g - 1) - 1 + 1 ELSE 0
        /\ \A i \in 1 .. (g - 1) - 1 + 1 : h[i] = z[1 + i - 1]
    BY <1>10, <2>2, <2>3, SubSeqProperties
  <2>5. Len(h) = g - 1 /\ \A i \in 1 .. g - 1 : h[i] = z[i]
    BY <2>4
  <2>6. h \in [1 .. g - 1 -> Nat]
    BY <2>4, <2>5
  <2>7. QED
    BY <1>9, <2>5, <2>6 DEF Numbers
<1>12. PICK r : Sums(h, g - 1, r) /\ AddedUp(h) = r[g - 1]
  BY <1>11, AddedSums
<1>13. PICK u : u = [c \in 0 .. g - 1 |-> Len(t[c])]
  OBVIOUS
<1>14. Sums(h, g - 1, u)
  <2>1. t \in [0 .. G -> Seq(S)] /\ t[0] = <<>>
    BY <1>2 DEF Joins
  <2>2. \A c \in 0 .. G : Len(t[c]) \in Nat
    BY <2>1
  <2>3. u \in [0 .. g - 1 -> Nat]
    BY <1>13, <2>2
  <2>4. Len(t[0]) = 0
    BY <2>1
  <2>5. u[0] = 0
    BY <1>13, <2>4
  <2>6. \A c \in 1 .. g - 1 : u[c] = u[c - 1] + h[c]
    <3> SUFFICES ASSUME NEW c \in 1 .. g - 1 PROVE u[c] = u[c - 1] + h[c]
      OBVIOUS
    <3>1. c \in 1 .. G /\ c \in 0 .. g - 1 /\ c - 1 \in 0 .. g - 1
      OBVIOUS
    <3>2. u[c] = Len(t[c]) /\ u[c - 1] = Len(t[c - 1]) /\ h[c] = Len(p[c])
      BY <1>11, <1>13, <3>1
    <3>3. QED
      BY <1>5, <3>1, <3>2
  <2>7. QED
    BY <2>3, <2>5, <2>6 DEF Sums
<1>15. AddedUp(h) = Len(t[g - 1])
  <2>1. g - 1 \in Nat
    OBVIOUS
  <2>2. r[g - 1] = u[g - 1]
    BY <1>12, <1>14, <2>1, SumsOnce
  <2>3. QED
    BY <1>12, <1>13, <2>2
<1>16. BatchOf(shard, g) = SubSeq(shard.rows, AddedUp(h) + 1, AddedUp(h) + z[g])
  BY <1>6, <1>10, Zenon DEF BatchOf, AddedUp
<1>17. AddedUp(h) + z[g] = Len(t[g])
  <2>1. Len(t[g]) = Len(t[g - 1]) + Len(p[g]) /\ z[g] = Len(p[g])
    BY <1>5, <1>9
  <2>2. QED
    BY <1>15, <2>1
<1>18. SubSeq(t[G], Len(t[g - 1]) + 1, Len(t[g])) = p[g]
  <2>1. Sliced(t, G, g, p[g])
    BY <1>2, JoinsSlice
  <2>2. QED
    BY <2>1, Zenon DEF Sliced
<1>19. QED
  BY <1>1, <1>3, <1>15, <1>16, <1>17, <1>18, Zenon

(* So the rows of a microbatch are cut from them.                          *)
LEMMA MicroRowsAre ==
  ASSUME NEW S, NEW G \in Nat, NEW shard, NEW p, Shape(shard, p, G, S), NEW g \in 1 .. G, NEW k
  PROVE  MicroRows(shard, g, k) = CutRows(p[g], shard.micro[g], k)
<1>1. BatchOf(shard, g) = p[g]
  BY BatchIs
<1>2. MicroRows(shard, g, k)
      = SubSeq(BatchOf(shard, g), shard.micro[g][k].from, shard.micro[g][k].to)
  BY Zenon DEF MicroRows
<1>3. QED
  BY <1>1, <1>2 DEF CutRows, From, To

-----------------------------------------------------------------------------
(***************************************************************************)
(* Sums over finite sets: the tokens of the workers' rows are added up in  *)
(* no order in particular.                                                 *)
(***************************************************************************)
One(T) == CHOOSE x \in T : TRUE
SetSums(f, w, T) == IF T = {} THEN 0 ELSE w[One(T)] + f[T \ {One(T)}]
IsSetSum(f, w, S) == \A T \in SUBSET S : f[T] = SetSums(f, w, T)
HasSetSums(w, S) == \E f : f = [T \in SUBSET S |-> SetSums(f, w, T)]
Total(w, S) == (CHOOSE f : f = [T \in SUBSET S |-> SetSums(f, w, T)])[S]

(* What CHOOSE takes from a set that has an element is one.                *)
LEMMA OneOf == \A T : T # {} => One(T) \in T
BY Zenon DEF One

(* The recursion has a solution: for the sets of up to n elements, for     *)
(* every n.                                                                *)
LEMMA SetSumExists ==
  ASSUME NEW S, IsFiniteSet(S), NEW w
  PROVE  HasSetSums(w, S)
<1> DEFINE Upto(f, n) == f = [T \in SUBSET S |-> IF Cardinality(T) <= n THEN SetSums(f, w, T) ELSE 0]
           wrong == {n \in Nat : ~ \E f : Upto(f, n)}
<1>1. \A T \in SUBSET S : IsFiniteSet(T) /\ Cardinality(T) \in Nat
  BY FS_Subset, FS_CardinalityType
<1>2. ASSUME NEW T \in SUBSET S, T # {}
      PROVE  T \ {One(T)} \in SUBSET S /\ Cardinality(T \ {One(T)}) = Cardinality(T) - 1
  <2>1. One(T) \in T /\ IsFiniteSet(T)
    BY <1>1, <1>2, OneOf
  <2>2. QED
    BY <2>1, FS_RemoveElement
<1>3. \E f : Upto(f, 0)
  <2> DEFINE f == [T \in SUBSET S |-> 0]
  <2>1. \A T \in SUBSET S : Cardinality(T) <= 0 => T = {}
    BY <1>1, FS_EmptySet
  <2>2. Upto(f, 0)
    BY <2>1 DEF SetSums
  <2>3. QED
    BY <2>2
<1>4. ASSUME NEW n \in Nat, NEW f, Upto(f, n)
      PROVE  \E g : Upto(g, n + 1)
  <2> DEFINE g == [T \in SUBSET S |-> IF Cardinality(T) <= n + 1 THEN SetSums(f, w, T) ELSE 0]
  <2>1. \A T \in SUBSET S : Cardinality(T) <= n => g[T] = f[T]
    <3> SUFFICES ASSUME NEW T \in SUBSET S, Cardinality(T) <= n PROVE g[T] = f[T]
      OBVIOUS
    <3>1. Cardinality(T) <= n + 1
      BY <1>1
    <3>2. f[T] = SetSums(f, w, T)
      BY <1>4
    <3>3. QED
      BY <3>1, <3>2
  <2>2. ASSUME NEW T \in SUBSET S, Cardinality(T) <= n + 1
        PROVE  SetSums(g, w, T) = SetSums(f, w, T)
    <3>1. CASE T = {}
      BY <3>1 DEF SetSums
    <3>2. CASE T # {}
      <4>1. T \ {One(T)} \in SUBSET S /\ Cardinality(T \ {One(T)}) <= n
        BY <1>1, <1>2, <2>2, <3>2
      <4>2. g[T \ {One(T)}] = f[T \ {One(T)}]
        BY <2>1, <4>1
      <4>3. QED
        BY <3>2, <4>2 DEF SetSums
    <3>3. QED
      BY <3>1, <3>2
  <2>3. \A T \in SUBSET S : g[T] = IF Cardinality(T) <= n + 1 THEN SetSums(g, w, T) ELSE 0
    BY <2>2
  <2>4. g = [T \in SUBSET S |-> g[T]]
    OBVIOUS
  <2>5. Upto(g, n + 1)
    <3> HIDE DEF g
    <3> QED
      BY <2>3, <2>4
  <2>6. QED
    BY <2>5
<1>5. wrong = {}
  <2> SUFFICES ASSUME wrong # {} PROVE FALSE
    OBVIOUS
  <2>1. wrong \subseteq Nat
    OBVIOUS
  <2>2. PICK m \in wrong : \A x \in wrong : m <= x
    <3> HIDE DEF wrong
    <3> QED
      BY <2>1, LeastOf
  <2> HIDE DEF Upto
  <2>3. m # 0
    BY <1>3
  <2>4. m - 1 \in Nat /\ m - 1 \notin wrong
    <3>1. m - 1 \in Nat /\ ~(m <= m - 1)
      BY <2>1, <2>3
    <3>2. QED
      BY <2>2, <3>1
  <2>5. PICK f : Upto(f, m - 1)
    BY <2>4
  <2>6. (m - 1) + 1 = m
    BY <2>4
  <2>7. \E g : Upto(g, (m - 1) + 1)
    BY <1>4, <2>4, <2>5
  <2>8. QED
    BY <2>6, <2>7
<1>6. PICK n \in Nat : n = Cardinality(S)
  BY FS_CardinalityType
<1>7. PICK f : Upto(f, n)
  BY <1>5
<1>8. \A T \in SUBSET S : Cardinality(T) <= n
  BY <1>6, FS_Subset
<1>9. f = [T \in SUBSET S |-> SetSums(f, w, T)]
  BY <1>7, <1>8
<1>10. QED
  BY <1>9, Zenon DEF HasSetSums

(* The recursion has no other solution.                                    *)
LEMMA SetSumOnce ==
  ASSUME NEW S, IsFiniteSet(S), NEW w, NEW v, \A x \in S : w[x] = v[x],
         NEW f, NEW g, IsSetSum(f, w, S), IsSetSum(g, v, S)
  PROVE  f[S] = g[S]
<1>1. f[{}] = g[{}]
  BY DEF IsSetSum, SetSums
<1>2. ASSUME NEW T \in SUBSET S, T # {}
      PROVE  \E x \in T : f[T \ {x}] = g[T \ {x}] => f[T] = g[T]
  <2>1. One(T) \in T /\ w[One(T)] = v[One(T)]
    BY <1>2, OneOf
  <2>2. f[T] = w[One(T)] + f[T \ {One(T)}] /\ g[T] = v[One(T)] + g[T \ {One(T)}]
    BY <1>2 DEF IsSetSum, SetSums
  <2>3. QED
    BY <2>1, <2>2
<1>3. QED
  BY <1>1, <1>2, FoldUnique

(* The total of a finite set is that solution.                             *)
LEMMA TotalIs ==
  ASSUME NEW S, IsFiniteSet(S), NEW w
  PROVE  \E f : IsSetSum(f, w, S) /\ Total(w, S) = f[S]
<1>a. HasSetSums(w, S)
  BY SetSumExists
<1> DEFINE f == CHOOSE g : g = [T \in SUBSET S |-> SetSums(g, w, T)]
<1>1. f = [T \in SUBSET S |-> SetSums(f, w, T)]
  <2>1. \E g : g = [T \in SUBSET S |-> SetSums(g, w, T)]
    BY <1>a, Zenon DEF HasSetSums
  <2>2. QED
    BY <2>1, Zenon
<1>2. Total(w, S) = f[S]
  BY Zenon DEF Total
<1> HIDE DEF f
<1>3. IsSetSum(f, w, S)
  BY <1>1 DEF IsSetSum
<1>4. QED
  BY <1>2, <1>3

(* A sum is an element and the sum of the others, whatever the order.      *)
LEMMA SetSumTakes ==
  ASSUME NEW S, IsFiniteSet(S), NEW w, \A x \in S : w[x] \in Int, NEW f, IsSetSum(f, w, S)
  PROVE  \A T \in SUBSET S : f[T] \in Int /\ \A y \in T : f[T] = w[y] + f[T \ {y}]
<1> DEFINE Good(T) == f[T] \in Int /\ \A y \in T : f[T] = w[y] + f[T \ {y}]
           wrong == {T \in SUBSET S : ~Good(T)}
           sizes == {Cardinality(T) : T \in wrong}
<1> SUFFICES ASSUME wrong # {} PROVE FALSE
  OBVIOUS
<1>1. \A T \in SUBSET S : IsFiniteSet(T) /\ Cardinality(T) \in Nat
  BY FS_Subset, FS_CardinalityType
<1>2. sizes \subseteq Nat /\ sizes # {}
  BY <1>1
<1>3. Min(sizes) \in sizes /\ \A x \in sizes : Min(sizes) <= x
  <2> HIDE DEF sizes
  <2> QED
    BY <1>2, LeastOf
<1>4. PICK T \in wrong : \A U \in wrong : Cardinality(T) <= Cardinality(U)
  BY <1>3
<1>5. \A y \in T : T \ {y} \in SUBSET S /\ Cardinality(T \ {y}) = Cardinality(T) - 1
  <2> SUFFICES ASSUME NEW y \in T PROVE T \ {y} \in SUBSET S /\ Cardinality(T \ {y}) = Cardinality(T) - 1
    OBVIOUS
  <2>1. IsFiniteSet(T)
    BY <1>1
  <2>2. QED
    BY <2>1, FS_RemoveElement
<1>6. \A y \in T : Good(T \ {y})
  <2> SUFFICES ASSUME NEW y \in T PROVE Good(T \ {y})
    OBVIOUS
  <2> HIDE DEF Good
  <2>1. Cardinality(T) \in Nat
    BY <1>1
  <2>2. ~(Cardinality(T) <= Cardinality(T \ {y}))
    BY <1>5, <2>1
  <2>3. T \ {y} \notin wrong
    BY <1>4, <2>2
  <2>4. QED
    BY <1>5, <2>3
<1>7. Good(T)
  <2>0. T \in SUBSET S
    OBVIOUS
  <2>1. CASE T = {}
    <3>1. f[T] = 0
      BY <2>0, <2>1 DEF IsSetSum, SetSums
    <3>2. QED
      BY <2>1, <3>1
  <2>2. CASE T # {}
    <3>1. PICK z \in T : f[T] = w[z] + f[T \ {z}]
      BY <2>0, <2>2, OneOf DEF IsSetSum, SetSums
    <3>2. f[T] \in Int
      <4>1. w[z] \in Int /\ f[T \ {z}] \in Int
        BY <1>6, <2>0
      <4>2. QED
        BY <3>1, <4>1
    <3>3. ASSUME NEW y \in T, y # z PROVE f[T] = w[y] + f[T \ {y}]
      <4>1. /\ f[T \ {z}] = w[y] + f[(T \ {z}) \ {y}]
            /\ f[T \ {y}] = w[z] + f[(T \ {y}) \ {z}]
        BY <1>6, <3>3
      <4>2. (T \ {z}) \ {y} = (T \ {y}) \ {z}
        OBVIOUS
      <4>3. w[y] \in Int /\ w[z] \in Int
        BY <2>0
      <4>4. f[(T \ {z}) \ {y}] \in Int
        <5>1. Good((T \ {z}) \ {y})
          <6> HIDE DEF Good
          <6>1. Cardinality(T) \in Nat /\ Cardinality(T \ {z}) = Cardinality(T) - 1 /\ T \ {z} \in SUBSET S
            BY <1>1, <1>5
          <6>2. IsFiniteSet(T \ {z}) /\ y \in T \ {z}
            BY <1>1, <3>3, <6>1
          <6>3. Cardinality((T \ {z}) \ {y}) = Cardinality(T \ {z}) - 1
            BY <6>2, FS_RemoveElement
          <6>4. ~(Cardinality(T) <= Cardinality((T \ {z}) \ {y}))
            BY <6>1, <6>3
          <6>5. (T \ {z}) \ {y} \notin wrong
            BY <1>4, <6>4
          <6>6. QED
            BY <6>1, <6>5
        <5>2. QED
          BY <5>1
      <4>5. PICK a \in Int, b \in Int, c \in Int :
              a = w[y] /\ b = w[z] /\ c = f[(T \ {z}) \ {y}]
        BY <4>3, <4>4
      <4>6. f[T \ {z}] = a + c /\ f[T \ {y}] = b + c
        BY <4>1, <4>2, <4>5
      <4>7. f[T] = b + (a + c)
        BY <3>1, <4>5, <4>6
      <4>8. b + (a + c) = a + (b + c)
        BY <4>5
      <4>9. QED
        BY <4>5, <4>6, <4>7, <4>8
    <3>4. QED
      BY <3>1, <3>2, <3>3
  <2>3. QED
    BY <2>1, <2>2
<1>8. QED
  BY <1>7

(* One element more.                                                       *)
Extends(v, w, S, x) == (\A y \in S : w[y] = v[y]) /\ \A y \in S \cup {x} : v[y] \in Int

(* One more element adds its value.                                        *)
LEMMA TotalGrows ==
  ASSUME NEW S, IsFiniteSet(S), NEW x, x \notin S, NEW w, NEW v, Extends(v, w, S, x)
  PROVE  Total(w, S) \in Int /\ Total(v, S \cup {x}) = Total(w, S) + v[x]
<1>0. (\A y \in S : w[y] = v[y]) /\ \A y \in S \cup {x} : v[y] \in Int
  BY DEF Extends
<1>1. PICK U : U = S \cup {x}
  OBVIOUS
<1>2. IsFiniteSet(U) /\ U \ {x} = S /\ S \in SUBSET U /\ U \in SUBSET U /\ x \in U
  BY <1>1, FS_AddElement
<1>3. PICK f : IsSetSum(f, w, S) /\ Total(w, S) = f[S]
  BY TotalIs
<1>4. PICK g : IsSetSum(g, v, U) /\ Total(v, U) = g[U]
  BY <1>2, TotalIs
<1>5. IsSetSum(g, v, S)
  BY <1>2, <1>4 DEF IsSetSum
<1>6. f[S] = g[S]
  BY <1>0, <1>3, <1>5, SetSumOnce
<1>7. \A T \in SUBSET U : g[T] \in Int /\ \A y \in T : g[T] = v[y] + g[T \ {y}]
  <2>1. \A y \in U : v[y] \in Int
    BY <1>0, <1>1
  <2>2. QED
    BY <1>2, <1>4, <2>1, SetSumTakes
<1>8. g[U] = v[x] + g[S] /\ g[S] \in Int /\ v[x] \in Int
  <2>1. v[x] \in Int
    BY <1>0
  <2>2. g[S] \in Int
    BY <1>2, <1>7
  <2>3. g[U] = v[x] + g[U \ {x}]
    BY <1>2, <1>7
  <2>4. QED
    BY <1>2, <2>1, <2>2, <2>3
<1>9. PICK a \in Int, b \in Int : a = v[x] /\ b = g[S]
  BY <1>8
<1>10. Total(w, S) = b
  BY <1>3, <1>6, <1>9
<1>11. Total(v, U) = a + b
  BY <1>2, <1>4, <1>8, <1>9
<1>12. Total(v, S \cup {x}) = b + a
  BY <1>1, <1>9, <1>11
<1>13. QED
  BY <1>9, <1>10, <1>12

(* An empty sum, and sums of equal values.                                 *)
LEMMA TotalNone ==
  ASSUME NEW w
  PROVE  Total(w, {}) = 0
<1>1. IsFiniteSet({})
  BY FS_EmptySet
<1>2. PICK f : IsSetSum(f, w, {}) /\ Total(w, {}) = f[{}]
  BY <1>1, TotalIs
<1>3. f[{}] = SetSums(f, w, {})
  BY <1>2 DEF IsSetSum
<1>4. QED
  BY <1>2, <1>3 DEF SetSums

(* A sum of integers is one.                                               *)
LEMMA TotalInt ==
  ASSUME NEW S, IsFiniteSet(S), NEW w, \A x \in S : w[x] \in Int
  PROVE  Total(w, S) \in Int
<1>1. PICK f : IsSetSum(f, w, S) /\ Total(w, S) = f[S]
  BY TotalIs
<1>2. \A T \in SUBSET S : f[T] \in Int
  BY <1>1, SetSumTakes
<1>3. QED
  BY <1>1, <1>2

(* The sum of a set and of one element more.                               *)
LEMMA TotalMore ==
  ASSUME NEW S, IsFiniteSet(S), NEW x, x \notin S, NEW w, \A y \in S \cup {x} : w[y] \in Int
  PROVE  Total(w, S) \in Int /\ Total(w, S \cup {x}) = Total(w, S) + w[x]
<1>1. Extends(w, w, S, x)
  BY DEF Extends
<1>2. QED
  BY <1>1, TotalGrows

(* The sum of two sets without a common element.                           *)
LEMMA TotalJoin ==
  ASSUME NEW A, IsFiniteSet(A), NEW B, IsFiniteSet(B), A \cap B = {},
         NEW w, \A x \in A \cup B : w[x] \in Int
  PROVE  Total(w, A \cup B) = Total(w, A) + Total(w, B)
<1> DEFINE f == [T \in SUBSET B |-> Total(w, A \cup T)]
           g == [T \in SUBSET B |-> Total(w, A) + Total(w, T)]
<1>1. Total(w, A) \in Int
  BY TotalInt
<1>2. f[{}] = g[{}]
  <2>1. A \cup {} = A /\ {} \in SUBSET B
    OBVIOUS
  <2>2. f[{}] = Total(w, A) /\ g[{}] = Total(w, A) + 0
    BY <2>1, TotalNone
  <2>3. QED
    BY <1>1, <2>2
<1>3. ASSUME NEW s \in SUBSET B, NEW x \in s, f[s \ {x}] = g[s \ {x}] PROVE f[s] = g[s]
  <2>1. PICK T : T = s \ {x}
    OBVIOUS
  <2>2. T \in SUBSET B /\ x \notin T /\ s = T \cup {x} /\ x \notin A /\ x \in B
    BY <2>1
  <2>3. IsFiniteSet(T) /\ IsFiniteSet(A \cup T)
    BY <2>2, FS_Subset, FS_Union
  <2>4. Total(w, T) \in Int /\ Total(w, T \cup {x}) = Total(w, T) + w[x]
    <3>1. \A y \in T \cup {x} : w[y] \in Int
      BY <2>2
    <3>2. QED
      BY <2>2, <2>3, <3>1, TotalMore
  <2>5. PICK U : U = A \cup T
    OBVIOUS
  <2>6. Total(w, U) \in Int /\ Total(w, U \cup {x}) = Total(w, U) + w[x]
    <3>1. \A y \in U \cup {x} : w[y] \in Int
      BY <2>2, <2>5
    <3>2. x \notin U
      BY <2>2, <2>5
    <3>3. QED
      BY <2>3, <2>5, <3>1, <3>2, TotalMore
  <2>7. A \cup s = U \cup {x}
    BY <2>2, <2>5
  <2>8. f[T] = g[T]
    BY <1>3, <2>1
  <2>9. f[T] = Total(w, U) /\ g[T] = Total(w, A) + Total(w, T)
    BY <2>2, <2>5
  <2>10. f[s] = Total(w, U \cup {x}) /\ g[s] = Total(w, A) + Total(w, T \cup {x})
    BY <2>2, <2>7
  <2>11. PICK a \in Int, b \in Int, c \in Int, d \in Int :
           a = Total(w, A) /\ b = Total(w, T) /\ c = Total(w, U) /\ d = w[x]
    BY <1>1, <2>2, <2>4, <2>6
  <2>12. c = a + b
    BY <2>8, <2>9, <2>11
  <2>13. f[s] = c + d /\ g[s] = a + (b + d)
    BY <2>4, <2>6, <2>10, <2>11
  <2>14. QED
    BY <2>11, <2>12, <2>13
<1> HIDE DEF f, g
<1>4. \A s \in SUBSET B : s # {} => \E x \in s : f[s \ {x}] = g[s \ {x}] => f[s] = g[s]
  BY <1>3
<1>5. f[B] = g[B]
  BY <1>2, <1>4, FoldUnique
<1>6. f[B] = Total(w, A \cup B) /\ g[B] = Total(w, A) + Total(w, B)
  BY DEF f, g
<1>7. QED
  BY <1>5, <1>6

(* The sets of a family have no common element.                            *)
Apart(W, R) == \A u, v \in W : \A x : x \in R[u] /\ x \in R[v] => u = v
Together(A, R) == UNION {R[v] : v \in A}

(* The sum of the sums of a family of sets is that of their union.         *)
LEMMA TotalFamily ==
  ASSUME NEW W, IsFiniteSet(W), NEW R, Apart(W, R), IsFiniteSet(Together(W, R)),
         NEW w, \A v \in W : \A x \in R[v] : w[x] \in Int,
         NEW own, \A v \in W : own[v] = Total(w, R[v])
  PROVE  Total(own, W) = Total(w, Together(W, R))
<1> DEFINE f == [T \in SUBSET W |-> Total(own, T)]
           g == [T \in SUBSET W |-> Total(w, Together(T, R))]
<1>1. f[{}] = g[{}]
  <2>1. Together({}, R) = {} /\ {} \in SUBSET W
    BY DEF Together
  <2>2. f[{}] = Total(own, {}) /\ g[{}] = Total(w, {})
    BY <2>1
  <2>3. QED
    BY <2>2, TotalNone
<1>2. ASSUME NEW s \in SUBSET W, NEW x \in s, f[s \ {x}] = g[s \ {x}] PROVE f[s] = g[s]
  <2>1. PICK T : T = s \ {x}
    OBVIOUS
  <2>2. T \in SUBSET W /\ x \notin T /\ s = T \cup {x} /\ x \in W
    BY <2>1
  <2>3. \A v \in W : own[v] \in Int /\ IsFiniteSet(R[v])
    <3> SUFFICES ASSUME NEW v \in W PROVE own[v] \in Int /\ IsFiniteSet(R[v])
      OBVIOUS
    <3>1. PICK S : S = R[v]
      OBVIOUS
    <3>2. S \subseteq Together(W, R)
      BY <3>1 DEF Together
    <3>3. IsFiniteSet(S)
      BY <3>2, FS_Subset
    <3>4. \A y \in S : w[y] \in Int
      BY <3>1
    <3>5. Total(w, S) \in Int
      BY <3>3, <3>4, TotalInt
    <3>6. QED
      BY <3>1, <3>3, <3>5
  <2>4. IsFiniteSet(T)
    BY <2>2, FS_Subset
  <2>5. Total(own, T) \in Int /\ Total(own, T \cup {x}) = Total(own, T) + own[x]
    <3>1. \A y \in T \cup {x} : own[y] \in Int
      BY <2>2, <2>3
    <3>2. QED
      BY <2>2, <2>4, <3>1, TotalMore
  <2>6. PICK U : U = Together(T, R)
    OBVIOUS
  <2>7. IsFiniteSet(U)
    <3>1. U \subseteq Together(W, R)
      BY <2>2, <2>6 DEF Together
    <3>2. QED
      BY <3>1, FS_Subset
  <2>8. U \cap R[x] = {}
    <3> SUFFICES ASSUME NEW y \in U, y \in R[x] PROVE FALSE
      OBVIOUS
    <3>1. PICK v \in T : y \in R[v]
      BY <2>6 DEF Together
    <3>2. v = x
      BY <2>2, <3>1 DEF Apart
    <3>3. QED
      BY <2>2, <3>2
  <2>9. Together(s, R) = U \cup R[x]
    BY <2>2, <2>6 DEF Together
  <2>10. \A y \in U \cup R[x] : w[y] \in Int
    BY <2>2, <2>6 DEF Together
  <2>11. Total(w, U \cup R[x]) = Total(w, U) + Total(w, R[x])
    BY <2>2, <2>3, <2>7, <2>8, <2>10, TotalJoin
  <2>12. f[T] = Total(own, T) /\ g[T] = Total(w, U) /\ f[T] = g[T]
    BY <1>2, <2>1, <2>2, <2>6
  <2>13. f[s] = Total(own, T) + own[x] /\ g[s] = Total(w, U) + Total(w, R[x])
    BY <2>2, <2>5, <2>9, <2>11
  <2>14. own[x] = Total(w, R[x])
    BY <2>2
  <2>15. QED
    BY <2>12, <2>13, <2>14
<1> HIDE DEF f, g
<1>3. \A s \in SUBSET W : s # {} => \E x \in s : f[s \ {x}] = g[s \ {x}] => f[s] = g[s]
  BY <1>2
<1>4. f[W] = g[W]
  BY <1>1, <1>3, FoldUnique
<1>5. f[W] = Total(own, W) /\ g[W] = Total(w, Together(W, R))
  BY DEF f, g
<1>6. QED
  BY <1>4, <1>5

(* The sum of a list's values is that of the set it lists.                 *)
Weighed(w, L, S, z) ==
  /\ Enumerates(L, S) /\ \A x \in S : w[x] \in Nat
  /\ Numbers(z, Len(L)) /\ \A k \in 1 .. Len(L) : z[k] = w[L[k]]

(* A total over a set is the sum down any list of it.                      *)
LEMMA TotalListed ==
  ASSUME NEW S, NEW L, NEW w, NEW z, Weighed(w, L, S, z), NEW r, Sums(z, Len(L), r)
  PROVE  Total(w, S) = r[Len(L)]
<1>0. /\ Enumerates(L, S) /\ \A x \in S : w[x] \in Nat
      /\ Numbers(z, Len(L)) /\ \A k \in 1 .. Len(L) : z[k] = w[L[k]]
  BY DEF Weighed
<1>1. PICK n \in Nat : n = Len(L)
  BY <1>0 DEF Enumerates
<1>2. /\ \A k \in 1 .. n : L[k] \in S
      /\ \A j, k \in 1 .. n : L[j] = L[k] => j = k
      /\ \A x \in S : \E k \in 1 .. n : L[k] = x
  BY <1>0, <1>1 DEF Enumerates
<1>3. r \in [0 .. n -> Nat] /\ r[0] = 0 /\ \A k \in 1 .. n : r[k] = r[k - 1] + w[L[k]]
  BY <1>0, <1>1 DEF Sums
<1> DEFINE first(k) == {L[j] : j \in 1 .. k}
           W == {k \in 0 .. n : IsFiniteSet(first(k)) /\ Total(w, first(k)) = r[k]}
<1>4. 0 \in W
  <2>1. first(0) = {}
    OBVIOUS
  <2>2. IsFiniteSet(first(0)) /\ Total(w, first(0)) = 0
    BY <2>1, FS_EmptySet, TotalNone
  <2>3. QED
    BY <1>1, <1>3, <2>2
<1>5. \A k \in 0 .. n - 1 : k \in W => k + 1 \in W
  <2> SUFFICES ASSUME NEW k \in 0 .. n - 1, k \in W PROVE k + 1 \in W
    OBVIOUS
  <2>1. PICK A, x : A = first(k) /\ x = L[k + 1]
    OBVIOUS
  <2>2. k + 1 \in 1 .. n /\ (k + 1) - 1 = k /\ k + 1 \in 0 .. n
    BY <1>1
  <2>3. \A j \in 1 .. k : j \in 1 .. n /\ j # k + 1
    BY <1>1
  <2>4. x \notin A /\ A \subseteq S /\ x \in S
    BY <1>2, <2>1, <2>2, <2>3
  <2>5. first(k + 1) = A \cup {x}
    <3>1. 1 .. k + 1 = (1 .. k) \cup {k + 1}
      OBVIOUS
    <3>2. QED
      BY <2>1, <3>1
  <2>6. IsFiniteSet(A) /\ Total(w, A) = r[k]
    BY <2>1
  <2>7. \A y \in A \cup {x} : w[y] \in Int
    BY <1>0, <2>4
  <2>8. Total(w, A \cup {x}) = Total(w, A) + w[x]
    BY <2>4, <2>6, <2>7, TotalMore
  <2>9. r[k + 1] = r[k] + w[x]
    BY <1>3, <2>1, <2>2
  <2>10. IsFiniteSet(A \cup {x})
    BY <2>6, FS_AddElement
  <2> HIDE DEF first
  <2>11. QED
    BY <2>2, <2>5, <2>6, <2>8, <2>9, <2>10
<1> HIDE DEF W
<1>6. n \in W
  <2>1. \A k \in 0 .. n : k \in W
    BY <1>1, <1>4, <1>5, Upward
  <2>2. QED
    BY <1>1, <2>1
<1>7. first(n) = S
  BY <1>2
<1>8. QED
  BY <1>1, <1>6, <1>7 DEF W

(* What the rows of a worker count for.                                    *)
Worth(c) == [i \in 1 .. Len(c.lens) |-> IF i \in Masked THEN 0 ELSE c.lens[i] - 1]

(* The loss tokens of a row, none when the loss mask leaves it out.        *)
LEMMA WorthIs ==
  ASSUME CallIs(call), NEW i \in 1 .. Len(call.lens)
  PROVE  /\ Worth(call)[i] \in Nat
         /\ Worth(call)[i] = (IF i \in Masked THEN 0 ELSE call.lens[i] - 1)
<1>1. call.lens[i] \in Nat /\ call.lens[i] > 0
  BY DEF CallIs, Measured, NoneEmpty
<1>2. QED
  BY <1>1 DEF Worth

(* They are added up by a fold.                                            *)
Price(i) == IF i \in Masked THEN 0 ELSE call.lens[i] - 1
Priced(w, L, n) == Numbers(w, n) /\ DOMAIN L = 1 .. n /\ \A k \in 1 .. n : w[k] = Price(L[k])

(* A fold over a list is the last of its partial sums.                     *)
LEMMA PriceSums ==
  ASSUME NEW n \in Nat, NEW L, NEW w, Priced(w, L, n)
  PROVE  \E r : Sums(w, n, r) /\ Tokens(L) = r[n]
<1> DEFINE iter == CHOOSE f : f = [s \in SUBSET (1 .. n) |->
                     IF s = {} THEN 0 ELSE f[s \ {Max(s)}] + Price(L[Max(s)])]
<1>1. Numbers(w, n) /\ DOMAIN L = 1 .. n /\ \A k \in 1 .. n : w[k] = Price(L[k])
  BY DEF Priced
<1>2. Tokens(L) = iter[1 .. n]
  <2>1. Tokens(L) = (CHOOSE f : f = [s \in SUBSET DOMAIN L |->
                     IF s = {} THEN 0 ELSE f[s \ {Max(s)}] + Price(L[Max(s)])])[DOMAIN L]
    BY Zenon DEF Tokens, FoldLeft, MapThenFoldSet, Price
  <2>2. QED
    BY <1>1, <2>1, Zenon
<1>3. Numbers(w, n)
  BY <1>1
<1>4. PICK g : g = [s \in SUBSET (1 .. n) |-> IF s = {} THEN 0 ELSE g[s \ {Max(s)}] + w[Max(s)]]
  BY <1>3, SumSolved
<1>5. \A s \in SUBSET (1 .. n) : s # {} => w[Max(s)] = Price(L[Max(s)])
  <2> SUFFICES ASSUME NEW s \in SUBSET (1 .. n), s # {} PROVE w[Max(s)] = Price(L[Max(s)])
    OBVIOUS
  <2>1. Max(s) \in 1 .. n
    BY TopOf
  <2>2. QED
    BY <1>1, <2>1, Zenon
<1>6. g = [s \in SUBSET (1 .. n) |-> IF s = {} THEN 0 ELSE g[s \ {Max(s)}] + Price(L[Max(s)])]
  <2>1. ASSUME NEW s \in SUBSET (1 .. n)
        PROVE  (IF s = {} THEN 0 ELSE g[s \ {Max(s)}] + w[Max(s)])
               = (IF s = {} THEN 0 ELSE g[s \ {Max(s)}] + Price(L[Max(s)]))
    <3>1. CASE s = {}
      BY <3>1, Zenon
    <3>2. CASE s # {}
      BY <1>5, <3>2, Zenon
    <3>3. QED
      BY <3>1, <3>2
  <2>2. QED
    BY <1>4, <2>1, Zenon
<1>7. iter = [s \in SUBSET (1 .. n) |-> IF s = {} THEN 0 ELSE iter[s \ {Max(s)}] + Price(L[Max(s)])]
  BY <1>6, Zenon
<1> HIDE DEF iter
<1>8. iter[{}] = 0
  <2>1. {} \in SUBSET (1 .. n)
    OBVIOUS
  <2>2. QED
    BY <1>7, <2>1
<1>9. \A s \in SUBSET (1 .. n) : s # {} => iter[s] = iter[s \ {Max(s)}] + w[Max(s)]
  <2> SUFFICES ASSUME NEW s \in SUBSET (1 .. n), s # {} PROVE iter[s] = iter[s \ {Max(s)}] + w[Max(s)]
    OBVIOUS
  <2>1. iter[s] = iter[s \ {Max(s)}] + Price(L[Max(s)])
    BY <1>7
  <2>2. w[Max(s)] = Price(L[Max(s)])
    BY <1>5, Zenon
  <2>3. QED
    BY <2>1, <2>2
<1>10. PICK it : it = iter
  OBVIOUS
<1>11. Adds(it, n, w)
  BY <1>8, <1>9, <1>10 DEF Adds
<1>12. \E r : Sums(w, n, r) /\ it[1 .. n] = r[n]
  BY <1>3, <1>11, SumTrail
<1>13. QED
  BY <1>2, <1>10, <1>12

(* The tokens of a list of rows are their worths, added up.                *)
LEMMA TokensSums ==
  ASSUME CallIs(call), NEW L, L \in Seq(1 .. Len(call.lens)), NEW n \in Nat, n = Len(L),
         NEW w, w = [k \in 1 .. n |-> Worth(call)[L[k]]]
  PROVE  Numbers(w, n) /\ \E r : Sums(w, n, r) /\ Tokens(L) = r[n]
<1>1. DOMAIN L = 1 .. n /\ \A k \in 1 .. n : L[k] \in 1 .. Len(call.lens)
  OBVIOUS
<1>2. \A k \in 1 .. n : w[k] \in Nat /\ w[k] = Price(L[k])
  <2> SUFFICES ASSUME NEW k \in 1 .. n PROVE w[k] \in Nat /\ w[k] = Price(L[k])
    OBVIOUS
  <2>1. PICK i \in 1 .. Len(call.lens) : i = L[k]
    BY <1>1
  <2>2. Worth(call)[i] \in Nat /\ Worth(call)[i] = Price(i)
    BY WorthIs DEF Price
  <2>3. QED
    BY <2>1, <2>2
<1>3. Numbers(w, n)
  BY <1>2 DEF Numbers
<1>4. Priced(w, L, n)
  BY <1>1, <1>2, <1>3 DEF Priced
<1>5. QED
  BY <1>3, <1>4, PriceSums

(* The tokens of rows that are all different.                              *)
LEMMA TokensAre ==
  ASSUME CallIs(call), NEW S, S \subseteq 1 .. Len(call.lens), NEW L, Enumerates(L, S)
  PROVE  Tokens(L) = Total(Worth(call), S)
<1>1. L \in Seq(1 .. Len(call.lens)) /\ Len(L) \in Nat /\ \A k \in 1 .. Len(L) : L[k] \in S
  <2>1. PICK I : I = 1 .. Len(call.lens)
    OBVIOUS
  <2>2. L \in Seq(S) /\ S \subseteq I
    BY <2>1 DEF Enumerates
  <2>3. Len(L) \in Nat /\ L \in [1 .. Len(L) -> S]
    BY <2>2
  <2>4. L \in [1 .. Len(L) -> I]
    BY <2>2, <2>3
  <2>5. L \in Seq(I)
    BY <2>3, <2>4
  <2>6. QED
    BY <2>1, <2>3, <2>5
<1>2. PICK n \in Nat : n = Len(L)
  BY <1>1
<1>a. PICK w : w = [k \in 1 .. n |-> Worth(call)[L[k]]]
  OBVIOUS
<1>3. Numbers(w, n) /\ \E r : Sums(w, n, r) /\ Tokens(L) = r[n]
  BY <1>1, <1>2, <1>a, TokensSums, Zenon
<1>4. PICK r : Sums(w, n, r) /\ Tokens(L) = r[n]
  BY <1>3
<1>5. \A x \in S : Worth(call)[x] \in Nat
  BY WorthIs
<1>6. \A k \in 1 .. Len(L) : w[k] = Worth(call)[L[k]]
  BY <1>2, <1>a
<1>b. Numbers(w, Len(L)) /\ Sums(w, Len(L), r)
  BY <1>2, <1>3, <1>4
<1>7. Total(Worth(call), S) = r[Len(L)]
  <2>1. Weighed(Worth(call), L, S, w)
    BY <1>5, <1>6, <1>b DEF Weighed
  <2>2. QED
    BY <1>b, <2>1, TotalListed, Zenon
<1>8. QED
  BY <1>2, <1>4, <1>7

-----------------------------------------------------------------------------
(***************************************************************************)
(* What the shards of a global batch hold together.                        *)
(***************************************************************************)
(* No item is in two of the lists, none twice in one.                      *)
Sundered(col, D) ==
  /\ \A s \in 1 .. Len(col) : Enumerates(col[s], Range(col[s])) /\ Range(col[s]) \subseteq D
  /\ \A r, s \in 1 .. Len(col) : \A x : x \in Range(col[r]) /\ x \in Range(col[s]) => r = s
  /\ \A x \in D : \E s \in 1 .. Len(col) : x \in Range(col[s])

(* Parts that hold a set between them have no row in common.               *)
LEMMA HeldApart ==
  ASSUME NEW I, NEW col, col \in Seq(Seq(I)), NEW D, Holds(col, D)
  PROVE  Sundered(col, D)
<1>1. PICK m \in Nat : m = Len(col)
  OBVIOUS
<1>2. ASSUME NEW s \in 1 .. m
      PROVE  col[s] \in Seq(I) /\ DOMAIN col[s] = 1 .. Len(col[s]) /\ Len(col[s]) \in Nat
  <2>1. PICK U : U = Seq(I)
    OBVIOUS
  <2>2. col[s] \in U
    BY <1>1, <2>1
  <2>3. QED
    BY <2>1, <2>2
<1>3. ASSUME NEW s \in 1 .. m, NEW x
      PROVE  x \in Range(col[s]) <=> \E k \in 1 .. Len(col[s]) : x = col[s][k]
  BY <1>2 DEF Range
<1>4. ASSUME NEW s \in 1 .. m, NEW k \in 1 .. Len(col[s])
      PROVE  Placed(col, s, k) /\ Item(col, s, k) = col[s][k]
  BY <1>1 DEF Placed, Item
<1>5. ASSUME NEW s \in 1 .. m
      PROVE  Enumerates(col[s], Range(col[s])) /\ Range(col[s]) \subseteq D
  <2>1. PICK L, n : L = col[s] /\ n = Len(L)
    OBVIOUS
  <2>2. \A j, k \in 1 .. n : L[j] = L[k] => j = k
    <3> SUFFICES ASSUME NEW j \in 1 .. n, NEW k \in 1 .. n, L[j] = L[k] PROVE j = k
      OBVIOUS
    <3>1. Placed(col, s, j) /\ Placed(col, s, k) /\ Item(col, s, j) = Item(col, s, k)
      BY <1>4, <2>1
    <3>2. QED
      BY <3>1, Zenon DEF Holds
  <2>3. \A k \in 1 .. n : L[k] \in Range(L) /\ L[k] \in D
    <3> SUFFICES ASSUME NEW k \in 1 .. n PROVE L[k] \in Range(L) /\ L[k] \in D
      OBVIOUS
    <3>1. Placed(col, s, k) /\ Item(col, s, k) = L[k]
      BY <1>4, <2>1
    <3>2. Item(col, s, k) \in D
      BY <3>1, Zenon DEF Holds
    <3>3. L[k] \in Range(L)
      BY <1>3, <2>1
    <3>4. QED
      BY <3>1, <3>2, <3>3
  <2>4. L \in Seq(Range(L))
    <3>1. PICK V : V = Range(L)
      OBVIOUS
    <3>2. L \in Seq(I) /\ \A k \in 1 .. Len(L) : L[k] \in V
      BY <1>2, <2>1, <2>3, <3>1
    <3>3. L \in Seq(V)
      BY <3>2
    <3>4. QED
      BY <3>1, <3>3
  <2>5. ASSUME NEW x \in Range(L) PROVE x \in D /\ \E k \in 1 .. Len(L) : L[k] = x
    <3>1. PICK k \in 1 .. n : x = L[k]
      BY <1>3, <2>1
    <3>2. QED
      BY <2>1, <2>3, <3>1
  <2>6. QED
    BY <2>1, <2>2, <2>4, <2>5 DEF Enumerates
<1>6. ASSUME NEW r \in 1 .. m, NEW s \in 1 .. m, NEW x, x \in Range(col[r]), x \in Range(col[s])
      PROVE  r = s
  <2>1. PICK j \in 1 .. Len(col[r]) : x = col[r][j]
    BY <1>3, <1>6
  <2>2. PICK k \in 1 .. Len(col[s]) : x = col[s][k]
    BY <1>3, <1>6
  <2>3. Placed(col, r, j) /\ Placed(col, s, k) /\ Item(col, r, j) = Item(col, s, k)
    BY <1>4, <2>1, <2>2
  <2>4. QED
    BY <2>3, Zenon DEF Holds
<1>7. ASSUME NEW x \in D PROVE \E s \in 1 .. m : x \in Range(col[s])
  <2>1. PICK s, k : Placed(col, s, k) /\ Item(col, s, k) = x
    BY DEF Holds
  <2>2. s \in 1 .. m /\ k \in 1 .. Len(col[s]) /\ col[s][k] = x
    BY <1>1, <2>1 DEF Placed, Item
  <2>3. QED
    BY <1>3, <2>2
<1>8. QED
  BY <1>1, <1>5, <1>6, <1>7, Zenon DEF Sundered

(* Joined, they list it.                                                   *)
LEMMA HeldFlat ==
  ASSUME NEW I, NEW col, col \in Seq(Seq(I)), NEW D, Holds(col, D)
  PROVE  Enumerates(FlattenSeq(col), D)
<1>1. PICK n \in Nat : n = Len(col)
  OBVIOUS
<1>2. PICK t : Joins(t, col, n, I)
  BY <1>1, JoinsIs
<1>3. FlattenSeq(col) = t[n] /\ FlattenSeq(col) \in Seq(I)
  <2>1. Joins(t, col, Len(col), I)
    BY <1>1, <1>2
  <2>2. QED
    BY <1>1, <2>1, Flat
<1>4. PICK F, l : F = t[n] /\ l = Len(F)
  OBVIOUS
<1>5. ASSUME NEW i \in 1 .. l, NEW k, NEW j, Spot(t, col, n, i, k, j)
      PROVE  Placed(col, k, j) /\ Item(col, k, j) = F[i]
  <2>1. SpotHolds(t, col, n, i, k, j)
    BY <1>2, <1>5, SpotIs
  <2>2. t[n][i] = col[k][j]
    BY <2>1 DEF SpotHolds
  <2>3. k \in 1 .. n /\ j \in 1 .. Len(col[k])
    BY <1>5 DEF Spot
  <2>4. QED
    BY <1>1, <1>4, <2>2, <2>3 DEF Placed, Item
<1>6. ASSUME NEW i \in 1 .. l PROVE \E k, j : Spot(t, col, n, i, k, j)
  BY <1>2, <1>4, SpotOf
<1>7. \A i \in 1 .. l : F[i] \in D
  <2> SUFFICES ASSUME NEW i \in 1 .. l PROVE F[i] \in D
    OBVIOUS
  <2>1. PICK k, j : Spot(t, col, n, i, k, j)
    BY <1>6
  <2>2. Placed(col, k, j) /\ Item(col, k, j) = F[i]
    BY <1>5, <2>1
  <2>3. Item(col, k, j) \in D
    BY <2>2, Zenon DEF Holds
  <2>4. QED
    BY <2>2, <2>3
<1>8. \A i, h \in 1 .. l : F[i] = F[h] => i = h
  <2> SUFFICES ASSUME NEW i \in 1 .. l, NEW h \in 1 .. l, F[i] = F[h] PROVE i = h
    OBVIOUS
  <2>1. PICK k, j : Spot(t, col, n, i, k, j)
    BY <1>6
  <2>2. PICK a, b : Spot(t, col, n, h, a, b)
    BY <1>6
  <2>3. /\ Placed(col, k, j) /\ Item(col, k, j) = F[i]
        /\ Placed(col, a, b) /\ Item(col, a, b) = F[h]
    BY <1>5, <2>1, <2>2
  <2>4. Item(col, k, j) = Item(col, a, b)
    BY <2>3
  <2>5. k = a /\ j = b
    BY <2>3, <2>4, Zenon DEF Holds
  <2>6. Spot(t, col, n, h, k, j)
    BY <2>2, <2>5
  <2>7. QED
    BY <2>1, <2>6, SpotSame
<1>9. \A x \in D : \E i \in 1 .. l : F[i] = x
  <2> SUFFICES ASSUME NEW x \in D PROVE \E i \in 1 .. l : F[i] = x
    OBVIOUS
  <2>1. PICK k, j : Placed(col, k, j) /\ Item(col, k, j) = x
    BY DEF Holds
  <2>2. PICK i : i = Len(t[k - 1]) + j
    OBVIOUS
  <2>3. Spot(t, col, n, i, k, j)
    BY <1>1, <2>1, <2>2 DEF Placed, Spot
  <2>4. SpotHolds(t, col, n, i, k, j)
    BY <1>2, <2>3, SpotIs
  <2>5. i \in 1 .. l /\ F[i] = col[k][j]
    BY <1>4, <2>4 DEF SpotHolds
  <2>6. QED
    BY <2>1, <2>5 DEF Item
<1>10. F \in Seq(D)
  <2>1. F \in Seq(I)
    BY <1>3, <1>4
  <2>2. l \in Nat /\ F \in [1 .. l -> I]
    BY <1>4, <2>1
  <2>3. F \in [1 .. l -> D]
    BY <1>7, <2>2
  <2>4. QED
    BY <2>2, <2>3
<1>11. Enumerates(F, D)
  BY <1>4, <1>8, <1>9, <1>10 DEF Enumerates
<1>12. QED
  BY <1>3, <1>4, <1>11

(* A sum over a function is the total of its values.                       *)
LEMMA SumFunctionIs ==
  ASSUME NEW w, NEW D, D = DOMAIN w, IsFiniteSet(D)
  PROVE  SumFunction(w) = Total(w, D)
<1> DEFINE Rest(f, s) ==
             IF s = {} THEN 0
             ELSE w[CHOOSE x \in s : TRUE] + f[s \ {CHOOSE x \in s : TRUE}]
           iter == CHOOSE f : f = [s \in SUBSET D |-> Rest(f, s)]
<1>1. SumFunction(w) = iter[D]
  <2>1. SumFunction(w) = (CHOOSE f : f = [s \in SUBSET DOMAIN w |-> Rest(f, s)])[DOMAIN w]
    BY Zenon DEF SumFunction, SumFunctionOnSet, FoldFunctionOnSet, MapThenFoldSet
  <2>2. QED
    BY <2>1, Zenon
<1>2. \A f, s : s \in SUBSET D => Rest(f, s) = SetSums(f, w, s)
  <2> SUFFICES ASSUME NEW f, NEW s \in SUBSET D PROVE Rest(f, s) = SetSums(f, w, s)
    OBVIOUS
  <2>1. One(s) = CHOOSE x \in s : TRUE
    BY DEF One
  <2>2. QED
    BY <2>1, Zenon DEF SetSums
<1> HIDE DEF Rest
<1>3. \E f : f = [s \in SUBSET D |-> Rest(f, s)]
  <2>a. HasSetSums(w, D)
    BY SetSumExists
  <2>1. PICK f : f = [s \in SUBSET D |-> SetSums(f, w, s)]
    BY <2>a, Zenon DEF HasSetSums
  <2>2. \A s \in SUBSET D : SetSums(f, w, s) = Rest(f, s)
    BY <1>2
  <2>3. f = [s \in SUBSET D |-> Rest(f, s)]
    BY <2>1, <2>2
  <2>4. QED
    BY <2>3
<1>4. iter = [s \in SUBSET D |-> Rest(iter, s)]
  BY <1>3, Zenon
<1> HIDE DEF iter
<1>5. IsSetSum(iter, w, D)
  BY <1>2, <1>4 DEF IsSetSum
<1>6. PICK f : IsSetSum(f, w, D) /\ Total(w, D) = f[D]
  BY TotalIs
<1>7. iter[D] = f[D]
  BY <1>5, <1>6, SetSumOnce
<1>8. QED
  BY <1>1, <1>6, <1>7

(* The one worker of a shard and a replica.                                *)
Works(w, s, r) == w \in Workers /\ Shard(w) = s /\ Replica(w) = r

(* A shard and a replica name one worker,                                  *)
LEMMA WorkerAlone ==
  ASSUME NEW w, NEW v, NEW s, NEW r, Works(w, s, r), Works(v, s, r)
  PROVE  w = v
<1>1. /\ call.backend = "megatron" => w = r * NumShards + s /\ v = r * NumShards + s
      /\ call.backend # "megatron" => w = s * NumReplicas + r /\ v = s * NumReplicas + r
  <2>1. /\ call.backend = "megatron" => w = Replica(w) * NumShards + Shard(w)
        /\ call.backend # "megatron" => w = Shard(w) * NumReplicas + Replica(w)
    BY WorkerIs, Zenon DEF Works
  <2>2. /\ call.backend = "megatron" => v = Replica(v) * NumShards + Shard(v)
        /\ call.backend # "megatron" => v = Shard(v) * NumReplicas + Replica(v)
    BY WorkerIs, Zenon DEF Works
  <2>3. QED
    BY <2>1, <2>2, Zenon DEF Works
<1>2. QED
  BY <1>1, Zenon

(* and every shard of every replica has its worker.                        *)
LEMMA WorkerAt ==
  ASSUME NEW s \in 0 .. NumShards - 1, NEW r \in 0 .. NumReplicas - 1
  PROVE  \E w : Works(w, s, r)
<1>1. NumShards \in Nat /\ NumShards > 0 /\ NumReplicas \in Nat /\ NumReplicas > 0
  BY BatchAssumption
<1>2. s \in Nat /\ r \in Nat /\ s < NumShards /\ r < NumReplicas
  BY <1>1
<1>3. PICK all \in Nat : all = NumShards * NumReplicas /\ all = NumReplicas * NumShards
  BY <1>1
<1>4. Workers = 0 .. all - 1
  BY <1>3 DEF Workers
<1>5. ASSUME NEW a \in Nat, NEW b \in Nat, b > 0, all = a * b, NEW x \in Nat, x < a, NEW y \in Nat, y < b
      PROVE  x * b + y \in Workers /\ (x * b + y) % b = y /\ (x * b + y) \div b = x
  <2>1. x * b \in Nat /\ (x + 1) * b <= a * b /\ (x + 1) * b = x * b + 1 * b /\ 1 * b = b
    BY <1>5, Multiples
  <2>2. PICK z \in Nat : z = x * b
    BY <2>1
  <2>3. z + b <= all
    BY <1>5, <2>1, <2>2
  <2>4. z + y \in Workers
    BY <1>4, <1>5, <2>3
  <2>5. QED
    BY <1>5, <2>2, <2>4, DivisionIs
<1>6. CASE call.backend = "megatron"
  <2>1. PICK w : w = r * NumShards + s
    OBVIOUS
  <2>a. all = NumReplicas * NumShards
    BY <1>3
  <2>b. /\ r * NumShards + s \in Workers /\ (r * NumShards + s) % NumShards = s
        /\ (r * NumShards + s) \div NumShards = r
    BY <1>1, <1>2, <2>a, <1>5, ZenonT(40)
  <2>2. w \in Workers /\ w % NumShards = s /\ w \div NumShards = r
    BY <2>1, <2>b, Zenon
  <2>3. QED
    BY <1>6, <2>2, Zenon DEF Works, Shard, Replica
<1>7. CASE call.backend # "megatron"
  <2>1. PICK w : w = s * NumReplicas + r
    OBVIOUS
  <2>a. all = NumShards * NumReplicas
    BY <1>3
  <2>b. /\ s * NumReplicas + r \in Workers /\ (s * NumReplicas + r) % NumReplicas = r
        /\ (s * NumReplicas + r) \div NumReplicas = s
    BY <1>1, <1>2, <2>a, <1>5, ZenonT(40)
  <2>2. w \in Workers /\ w % NumReplicas = r /\ w \div NumReplicas = s
    BY <2>1, <2>b, Zenon
  <2>3. QED
    BY <1>7, <2>2, Zenon DEF Works, Shard, Replica
<1>8. QED
  BY <1>6, <1>7

(* The shards' rows of a global batch.                                     *)
LEMMA ColumnIs ==
  ASSUME CallIs(call), Accepted, NEW ss, NEW P, Allotted(ss, P, call), NEW g \in 1 .. GlobalBatch(call),
         NEW col, col = Column(P, NumShards, g)
  PROVE  /\ col \in Seq(Seq(1 .. Len(call.lens))) /\ Len(col) = NumShards
         /\ \A s \in 1 .. NumShards : col[s] = P[s][g]
         /\ Holds(col, Chunk(g, call.size))
<1>1. PICK m, G, I : m = NumShards /\ G = GlobalBatch(call) /\ I = 1 .. Len(call.lens)
  OBVIOUS
<1>2. m \in Nat
  BY <1>1, BatchAssumption
<1>3. Splits(ss, P, m, G, I) /\ Once(P, m, G, call.size)
  BY <1>1, Zenon DEF Allotted
<1>4. col = [s \in 1 .. m |-> P[s][g]]
  BY <1>1 DEF Column
<1>5. PICK U : U = Seq(I)
  OBVIOUS
<1>6. ASSUME NEW s \in 1 .. m PROVE P[s][g] \in U
  <2>1. Slices(P[s], G, I)
    BY <1>3, Zenon DEF Splits, Shape
  <2>2. P[s] \in Seq(U) /\ Len(P[s]) = G
    BY <1>5, <2>1 DEF Slices
  <2>3. QED
    BY <1>1, <2>2
<1>7. col \in Seq(U) /\ Len(col) = m
  BY <1>2, <1>4, <1>6
<1>8. Holds(col, Chunk(g, call.size))
  BY <1>1, <1>3, Zenon DEF Once
<1>9. QED
  BY <1>1, <1>4, <1>5, <1>7, <1>8

(* The tokens of a global batch.                                           *)
Norm(g) == Tokens(Part(Rows(call.lens), g, call.size))
Siblings(r) == {v \in Workers : Replica(v) = r}

(* A global batch is a set of rows of the data.                            *)
LEMMA ChunkIn ==
  ASSUME CallIs(call), Accepted, NEW g \in 1 .. GlobalBatch(call)
  PROVE  /\ Chunk(g, call.size) \subseteq 1 .. Len(call.lens) /\ IsFiniteSet(Chunk(g, call.size))
         /\ Enumerates(Part(Rows(call.lens), g, call.size), Chunk(g, call.size))
         /\ Len(Part(Rows(call.lens), g, call.size)) = call.size
<1>1. PICK N, G, b, q, lens : /\ N = Len(call.lens) /\ G = GlobalBatch(call) /\ b = call.size
                              /\ q = b \div NumShards /\ lens = call.lens
  OBVIOUS
<1>2. Sizes(N, G, b, NumShards, q) /\ Measured(lens, 1 .. N)
  BY <1>1, CallSizes DEF CallIs
<1>3. N \in Nat /\ b \in Nat
  BY <1>2 DEF Sizes
<1>4. PICK o \in Nat : o + b <= N /\ Chunk(g, b) = o + 1 .. o + b
  BY <1>1, <1>2, ChunkAt, Zenon
<1>5. o + 1 .. o + b \subseteq 1 .. N
  BY <1>3, <1>4
<1>6. IsFiniteSet(o + 1 .. o + b)
  <2>1. o + 1 \in Int /\ o + b \in Int
    BY <1>3
  <2>2. QED
    BY <2>1, FS_Interval
<1>7. Enumerates(Part(Rows(lens), g, b), Chunk(g, b)) /\ Len(Part(Rows(lens), g, b)) = b
  BY <1>1, <1>2, ChunkListed
<1>8. QED
  BY <1>1, <1>4, <1>5, <1>6, <1>7

(* What the workers of one replica count together.                         *)
LEMMA NormIs ==
  ASSUME CallIs(call), Accepted, NEW ss, NEW P, Allotted(ss, P, call), NEW g \in 1 .. GlobalBatch(call),
         NEW r \in 0 .. NumReplicas - 1,
         NEW own, own = [v \in Siblings(r) |-> Tokens(P[Shard(v) + 1][g])]
  PROVE  SumFunction(own) = Norm(g)
<1>1. PICK col, D, I, W : /\ col = Column(P, NumShards, g) /\ D = Chunk(g, call.size)
                          /\ I = 1 .. Len(call.lens) /\ W = Siblings(r)
  OBVIOUS
<1>2. /\ col \in Seq(Seq(I)) /\ Len(col) = NumShards /\ Holds(col, D)
      /\ \A s \in 1 .. NumShards : col[s] = P[s][g]
  BY <1>1, ColumnIs
<1>3. Sundered(col, D)
  BY <1>2, HeldApart
<1>4. D \subseteq I /\ IsFiniteSet(D) /\ Enumerates(Part(Rows(call.lens), g, call.size), D)
  BY <1>1, ChunkIn
<1>5. \A v \in W : v \in Workers /\ Replica(v) = r /\ Shard(v) + 1 \in 1 .. NumShards
  BY <1>1, OwnShard DEF Siblings
<1>6. PICK R : R = [v \in W |-> Range(col[Shard(v) + 1])]
  OBVIOUS
<1>7. PICK w : w = Worth(call)
  OBVIOUS
<1>8. \A i \in I : w[i] \in Nat
  BY <1>1, <1>7, WorthIs
<1>9. ASSUME NEW v \in W
      PROVE  R[v] \subseteq D /\ own[v] = Total(w, R[v])
  <2>1. PICK s \in 1 .. NumShards : s = Shard(v) + 1
    BY <1>5
  <2>2. Enumerates(col[s], Range(col[s])) /\ Range(col[s]) \subseteq D
    BY <1>2, <1>3, Zenon DEF Sundered
  <2>3. PICK L, S : L = col[s] /\ S = Range(col[s])
    OBVIOUS
  <2>4. Enumerates(L, S) /\ S \subseteq 1 .. Len(call.lens)
    BY <1>1, <1>4, <2>2, <2>3
  <2>5. Tokens(L) = Total(Worth(call), S)
    BY <2>4, TokensAre
  <2>6. own[v] = Tokens(L)
    <3>1. own[v] = Tokens(P[Shard(v) + 1][g])
      BY <1>1
    <3>2. L = P[Shard(v) + 1][g]
      BY <1>2, <2>1, <2>3
    <3>3. QED
      BY <3>1, <3>2
  <2>7. R[v] = S
    BY <1>6, <2>1, <2>3
  <2>8. QED
    BY <1>7, <2>2, <2>3, <2>5, <2>6, <2>7
<1>10. Together(W, R) = D
  <2>1. ASSUME NEW x \in D PROVE x \in Together(W, R)
    <3>1. PICK s \in 1 .. NumShards : x \in Range(col[s])
      BY <1>2, <1>3, Zenon DEF Sundered
    <3>2. s - 1 \in 0 .. NumShards - 1 /\ (s - 1) + 1 = s
      BY BatchAssumption
    <3>3. PICK z : z = s - 1
      OBVIOUS
    <3>4. z \in 0 .. NumShards - 1
      BY <3>2, <3>3
    <3>5. PICK v : Works(v, z, r)
      BY <3>4, WorkerAt
    <3>6. v \in W /\ Shard(v) = z
      BY <1>1, <3>5 DEF Works, Siblings
    <3>7. Shard(v) + 1 = s
      BY <3>2, <3>3, <3>6
    <3>8. R[v] = Range(col[s])
      BY <1>6, <3>6, <3>7
    <3>9. QED
      BY <3>1, <3>6, <3>8 DEF Together
  <2>2. Together(W, R) \subseteq D
    BY <1>9 DEF Together
  <2>3. QED
    BY <2>1, <2>2
<1>11. Apart(W, R)
  <2> SUFFICES ASSUME NEW u \in W, NEW v \in W, NEW x, x \in R[u], x \in R[v] PROVE u = v
    BY DEF Apart
  <2>1. PICK a \in 1 .. NumShards, b \in 1 .. NumShards : a = Shard(u) + 1 /\ b = Shard(v) + 1
    BY <1>5
  <2>2. x \in Range(col[a]) /\ x \in Range(col[b])
    BY <1>6, <2>1
  <2>3. a = b
    BY <1>2, <1>3, <2>2, Zenon DEF Sundered
  <2>4. Shard(u) \in 0 .. NumShards - 1 /\ Shard(v) \in 0 .. NumShards - 1
    BY <1>5, WorkerIs
  <2>5. Shard(u) = Shard(v)
    BY <2>1, <2>3, <2>4
  <2>6. PICK s : s = Shard(u)
    OBVIOUS
  <2>7. Works(u, s, r) /\ Works(v, s, r)
    BY <1>5, <2>5, <2>6 DEF Works
  <2>8. QED
    BY <2>7, WorkerAlone
<1>12. IsFiniteSet(W) /\ DOMAIN own = W
  <2>1. NumShards * NumReplicas - 1 \in Int /\ 0 \in Int
    BY BatchAssumption
  <2>2. IsFiniteSet(Workers)
    BY <2>1, FS_Interval DEF Workers
  <2>3. W \subseteq Workers
    BY <1>5
  <2>4. QED
    BY <1>1, <2>2, <2>3, FS_Subset
<1>13. SumFunction(own) = Total(own, W)
  BY <1>12, SumFunctionIs
<1>14. Total(own, W) = Total(w, Together(W, R))
  <2>1. \A v \in W : \A x \in R[v] : w[x] \in Int
    BY <1>4, <1>8, <1>9
  <2>2. IsFiniteSet(Together(W, R))
    BY <1>4, <1>10
  <2>3. \A v \in W : own[v] = Total(w, R[v])
    BY <1>9
  <2>4. QED
    BY <1>11, <1>12, <2>1, <2>2, <2>3, TotalFamily
<1>15. Norm(g) = Total(w, D)
  <2>1. PICK L : L = Part(Rows(call.lens), g, call.size)
    OBVIOUS
  <2>2. Enumerates(L, D) /\ D \subseteq 1 .. Len(call.lens)
    BY <1>1, <1>4, <2>1
  <2>3. Tokens(L) = Total(Worth(call), D)
    BY <2>2, TokensAre
  <2>4. QED
    BY <1>7, <2>1, <2>3 DEF Norm
<1>16. QED
  BY <1>10, <1>13, <1>14, <1>15

-----------------------------------------------------------------------------
(***************************************************************************)
(* The rows of the first microbatches.                                     *)
(***************************************************************************)
Reached(micro, k) == IF k = 0 THEN 0 ELSE To(micro, k)
Progress(p, micro, k) == SubSeq(p, 1, Reached(micro, k))

(* After no microbatch a worker has seen no row,                           *)
LEMMA ProgressNone ==
  ASSUME NEW S, NEW p, p \in Seq(S), NEW micro
  PROVE  Progress(p, micro, 0) = <<>>
<1>1. PICK r : r = SubSeq(p, 1, 0)
  OBVIOUS
<1>2. 1 \in Int /\ 0 \in Int /\ \A i \in 1 .. 0 : p[i] \in S
  OBVIOUS
<1>3. r \in Seq(S) /\ Len(r) = IF 1 <= 0 THEN 0 - 1 + 1 ELSE 0
  BY <1>1, <1>2, SubSeqProperties
<1>4. r = <<>>
  BY <1>3
<1>5. QED
  BY <1>1, <1>4 DEF Progress, Reached

(* after all of them every row of its part.                                *)
LEMMA ProgressAll ==
  ASSUME NEW S, NEW n \in Nat, NEW p, ListOf(p, n, S), NEW micro, Tiled(micro, n)
  PROVE  Progress(p, micro, Len(micro)) = p
<1>1. PICK l : Tiles(micro, l, n)
  BY DEF Tiled
<1>2. Len(micro) = l /\ l > 0 /\ l \in Nat /\ To(micro, l) = n
  BY <1>1 DEF Tiles
<1>3. Reached(micro, Len(micro)) = n
  BY <1>2 DEF Reached
<1>4. p \in Seq(S) /\ Len(p) = n
  BY DEF ListOf
<1>5. SubSeq(p, 1, n) = p
  BY <1>4
<1>6. QED
  BY <1>3, <1>5 DEF Progress

(* How far a microbatch reaches.                                           *)
LEMMA ReachedIs ==
  ASSUME NEW n \in Nat, NEW micro, Tiled(micro, n), NEW k \in 0 .. Len(micro) - 1, Len(micro) \in Nat
  PROVE  \E t, u \in Nat : /\ t = Reached(micro, k) /\ u = Reached(micro, k + 1) /\ t <= u /\ u <= n
                           /\ From(micro, k + 1) = t + 1 /\ To(micro, k + 1) = u
<1>1. PICK l : Tiles(micro, l, n)
  BY DEF Tiled
<1>2. Len(micro) = l /\ l \in Nat /\ From(micro, 1) = 1 /\ k + 1 \in 1 .. l
  BY <1>1 DEF Tiles
<1>3. PICK f \in Nat, u \in Nat : f = From(micro, k + 1) /\ u = To(micro, k + 1) /\ f <= u + 1 /\ u <= n
  <2>1. PICK j \in 1 .. Len(micro) : j = k + 1
    BY <1>2
  <2>2. \E f, t \in Nat : f = From(micro, j) /\ t = To(micro, j) /\ f >= 1 /\ f <= t + 1 /\ t <= n
    BY <1>1, TilesBounds
  <2>3. QED
    BY <2>1, <2>2
<1>4. k + 1 # 0
  OBVIOUS
<1>5. Reached(micro, k + 1) = u
  BY <1>3, <1>4 DEF Reached
<1>6. CASE k = 0
  <2>1. Reached(micro, k) = 0 /\ f = 0 + 1
    BY <1>2, <1>3, <1>6 DEF Reached
  <2>2. QED
    BY <1>3, <1>5, <2>1
<1>7. CASE k # 0
  <2>1. PICK j \in 1 .. l - 1 : j = k
    BY <1>2, <1>7
  <2>2. From(micro, j + 1) = To(micro, j) + 1
    BY <1>1, <2>1 DEF Tiles
  <2>3. j \in 1 .. Len(micro)
    BY <1>2, <2>1
  <2>4. PICK t \in Nat : t = To(micro, j)
    BY <1>1, <2>3, TilesBounds
  <2>5. Reached(micro, k) = t /\ f = t + 1
    BY <1>3, <1>7, <2>1, <2>2, <2>4 DEF Reached
  <2>6. t <= u
    BY <1>3, <2>4, <2>5
  <2>7. QED
    BY <1>3, <1>5, <2>4, <2>5, <2>6
<1>8. QED
  BY <1>6, <1>7

(* One microbatch more.                                                    *)
LEMMA ProgressOn ==
  ASSUME NEW S, NEW n \in Nat, NEW p, ListOf(p, n, S), NEW micro, Tiled(micro, n),
         NEW k \in 0 .. Len(micro) - 1, Len(micro) \in Nat
  PROVE  Progress(p, micro, k) \o CutRows(p, micro, k + 1) = Progress(p, micro, k + 1)
<1>1. PICK t \in Nat, u \in Nat : /\ t = Reached(micro, k) /\ u = Reached(micro, k + 1) /\ t <= u /\ u <= n
                                  /\ From(micro, k + 1) = t + 1 /\ To(micro, k + 1) = u
  BY ReachedIs, SMTT(40)
<1>2. p \in Seq(S) /\ Len(p) = n /\ \A i \in 1 .. n : p[i] \in S
  BY DEF ListOf
<1>3. PICK a, b, c : a = SubSeq(p, 1, t) /\ b = SubSeq(p, t + 1, u) /\ c = SubSeq(p, 1, u)
  OBVIOUS
<1>4. a \in Seq(S) /\ Len(a) = t /\ \A i \in 1 .. t : a[i] = p[i]
  <2>1. 1 \in Int /\ t \in Int /\ \A i \in 1 .. t : p[i] \in S
    BY <1>1, <1>2
  <2>2. /\ a \in Seq(S) /\ Len(a) = IF 1 <= t THEN t - 1 + 1 ELSE 0
        /\ \A i \in 1 .. t - 1 + 1 : a[i] = p[1 + i - 1]
    BY <1>3, <2>1, <1>2, SubSeqProperties
  <2>3. QED
    BY <2>2
<1>5. c \in Seq(S) /\ Len(c) = u /\ \A i \in 1 .. u : c[i] = p[i]
  <2>1. 1 \in Int /\ u \in Int /\ \A i \in 1 .. u : p[i] \in S
    BY <1>1, <1>2
  <2>2. /\ c \in Seq(S) /\ Len(c) = IF 1 <= u THEN u - 1 + 1 ELSE 0
        /\ \A i \in 1 .. u - 1 + 1 : c[i] = p[1 + i - 1]
    BY <1>3, <2>1, <1>2, SubSeqProperties
  <2>3. QED
    BY <2>2
<1>6. b \in Seq(S) /\ Len(b) = u - t /\ \A i \in 1 .. u - t : b[i] = p[t + i]
  <2>1. t + 1 \in Int /\ u \in Int /\ \A i \in t + 1 .. u : p[i] \in S
    BY <1>1, <1>2
  <2>2. /\ b \in Seq(S) /\ Len(b) = IF t + 1 <= u THEN u - (t + 1) + 1 ELSE 0
        /\ \A i \in 1 .. u - (t + 1) + 1 : b[i] = p[t + 1 + i - 1]
    BY <1>3, <2>1, <1>2, SubSeqProperties
  <2>3. u - (t + 1) + 1 = u - t
    BY <1>1
  <2>4. Len(b) = u - t
    BY <1>1, <2>2, SMTT(40)
  <2>5. ASSUME NEW i \in 1 .. u - t PROVE b[i] = p[t + i]
    <3>1. i \in 1 .. u - (t + 1) + 1 /\ t + 1 + i - 1 = t + i
      BY <1>1, <2>3
    <3>2. QED
      BY <2>2, <3>1
  <2>6. QED
    BY <2>2, <2>4, <2>5
<1>7. PICK d : d = a \o b
  OBVIOUS
<1>8. /\ d \in Seq(S) /\ Len(d) = u
      /\ \A i \in 1 .. t : d[i] = a[i]
      /\ \A i \in 1 .. u - t : d[t + i] = b[i]
  <2>1. PICK e \in Nat : e = u - t /\ u = t + e
    BY <1>1
  <2>2. a \in Seq(S) /\ Len(a) = t /\ b \in Seq(S) /\ Len(b) = e
    BY <1>4, <1>6, <2>1
  <2>3. /\ d \in Seq(S) /\ Len(d) = t + e
        /\ \A i \in 1 .. t + e : d[i] = IF i <= t THEN a[i] ELSE b[i - t]
    BY <1>7, <2>2, ConcatProperties
  <2>7. \A i \in 1 .. t : d[i] = a[i]
    BY <2>1, <2>3
  <2>6. \A i \in t + 1 .. t + e : d[i] = b[i - t]
    BY <2>1, <2>3
  <2>4. ASSUME NEW i \in 1 .. e PROVE d[t + i] = b[i]
    <3>1. PICK l : l = t + i
      OBVIOUS
    <3>2. l \in t + 1 .. t + e /\ l - t = i
      BY <3>1
    <3>3. QED
      BY <2>6, <3>1, <3>2
  <2>5. QED
    BY <2>1, <2>3, <2>4, <2>7
<1>9. ASSUME NEW i \in 1 .. u PROVE d[i] = c[i]
  <2>1. CASE i <= t
    <3>1. i \in 1 .. t
      BY <2>1
    <3>2. QED
      BY <1>4, <1>5, <1>8, <3>1
  <2>2. CASE ~(i <= t)
    <3>1. PICK j \in 1 .. u - t : i = t + j
      <4>1. i - t \in 1 .. u - t /\ i = t + (i - t)
        BY <2>2
      <4>2. QED
        BY <4>1
    <3>2. d[i] = b[j] /\ b[j] = p[t + j] /\ c[i] = p[i]
      BY <1>5, <1>6, <1>8, <3>1
    <3>3. QED
      BY <3>1, <3>2
  <2>3. QED
    BY <2>1, <2>2
<1>10. d = c
  BY <1>5, <1>8, <1>9
<1>11. QED
  BY <1>1, <1>3, <1>7, <1>10 DEF Progress, CutRows

-----------------------------------------------------------------------------
(***************************************************************************)
(* The microbatches of a call: uncut, within the budget.                   *)
(***************************************************************************)
(* A length rounded up is no less.                                         *)
LEMMA PaddedMore ==
  ASSUME NEW N \in Nat, NEW lens, Measured(lens, 1 .. N), NEW multiple \in Nat, multiple > 0, NEW i \in 1 .. N
  PROVE  lens[i] \in Nat /\ Padded(lens, multiple)[i] \in Nat /\ lens[i] <= Padded(lens, multiple)[i]
<1>1. DOMAIN lens = 1 .. N /\ lens[i] \in Nat
  BY DEF Measured
<1>2. Padded(lens, multiple)[i] = RoundUp(lens[i], multiple)
  BY <1>1, Zenon DEF Padded
<1>3. PICK l \in Nat : l = lens[i]
  BY <1>1
<1>4. RoundUp(l, multiple) \in Nat /\ l <= RoundUp(l, multiple)
  BY RoundUpIs
<1>5. QED
  BY <1>2, <1>3, <1>4

(* What WithinBudget asks of one microbatch, given its rows and its width. *)
Fine(c, rows, width) ==
  /\ \A i \in Range(rows) : c.lens[i] <= width
  /\ c.mode = "dynamic" => Len(rows) * width <= Budget
  /\ c.mode \in Algorithms => Load(rows, Padded(c.lens, Multiple)) = width /\ width <= Budget

(* No microbatch of a shard exceeds what the worker may hold.              *)
LEMMA MicroFine ==
  ASSUME CallIs(call), NEW ss, NEW P, Allotted(ss, P, call), NEW s \in 1 .. NumShards,
         NEW g \in 1 .. GlobalBatch(call), NEW k \in 1 .. Len(ss[s].micro[g])
  PROVE  Fine(call, CutRows(P[s][g], ss[s].micro[g], k), Breadth(ss[s].micro[g], k))
<1>1. PICK p, micro, G, N : /\ p = P[s][g] /\ micro = ss[s].micro[g] /\ G = GlobalBatch(call)
                            /\ N = Len(call.lens)
  OBVIOUS
<1>2. PICK rows, width : rows = CutRows(p, micro, k) /\ width = Breadth(micro, k)
  OBVIOUS
<1>3. k \in 1 .. Len(micro) /\ g \in 1 .. G
  BY <1>1
<1>4. Shape(ss[s], P[s], G, 1 .. N)
  BY <1>1, Zenon DEF Allotted, Splits
<1>5. PICK n : n = Len(p)
  OBVIOUS
<1>6. p \in Seq(1 .. N) /\ Tiled(micro, n)
  <2>1. P[s] \in Seq(Seq(1 .. N)) /\ Len(P[s]) = G
    BY <1>4 DEF Shape, Slices
  <2>2. p \in Seq(1 .. N)
    BY <1>1, <1>3, <2>1
  <2>3. Tiled(ss[s].micro[g], Len(P[s][g]))
    BY <1>3, <1>4, Zenon DEF Shape
  <2>4. QED
    BY <1>1, <1>5, <2>2, <2>3
<1>7. n \in Nat /\ ListOf(p, n, 1 .. N)
  BY <1>5, <1>6 DEF ListOf
<1>8. ASSUME NEW i \in Range(rows) PROVE i \in 1 .. N
  BY <1>2, <1>3, <1>6, <1>7, <1>8, CutRowsIn
<1>9. CASE call.mode \in Algorithms
  <2>1. Filled(p, micro, Padded(call.lens, Multiple), Budget)
    BY <1>1, <1>3, <1>9, Zenon DEF Allotted, AllFilled
  <2>2. /\ Load(rows, Padded(call.lens, Multiple)) = width /\ width <= Budget
        /\ \A i \in Range(rows) : Padded(call.lens, Multiple)[i] <= width
    BY <1>2, <1>3, <2>1 DEF Filled
  <2>3. width \in Nat
    <3>1. Breadth(micro, k) \in Nat
      <4>1. PICK l : Tiles(micro, l, n)
        BY <1>6, Zenon DEF Tiled
      <4>2. QED
        BY <1>3, <4>1, TilesParts
    <3>2. QED
      BY <1>2, <3>1
  <2>4. Multiple \in Nat /\ Multiple > 0 /\ N \in Nat /\ Measured(call.lens, 1 .. N)
    BY <1>1, BatchAssumption DEF CallIs
  <2>5. ASSUME NEW i \in Range(rows) PROVE call.lens[i] <= width
    <3>1. i \in 1 .. N
      BY <1>8
    <3>2. PICK l \in Nat, u \in Nat : l = call.lens[i] /\ u = Padded(call.lens, Multiple)[i] /\ l <= u
      BY <2>4, <3>1, PaddedMore
    <3>3. QED
      BY <2>2, <2>3, <3>2
  <2>6. call.mode # "dynamic"
    BY <1>9 DEF Algorithms
  <2>7. QED
    BY <1>1, <1>2, <2>2, <2>5, <2>6 DEF Fine
<1>10. CASE call.mode \notin Algorithms
  <2>1. Uncut(p, micro, call.lens)
    BY <1>1, <1>3, <1>10, Zenon DEF Allotted, AllUncut
  <2>2. \A i \in Range(rows) : call.lens[i] <= width
    BY <1>2, <1>3, <2>1 DEF Uncut
  <2>3. call.mode = "dynamic" => Frugal(p, micro, Budget)
    BY <1>1, <1>3, Zenon DEF Allotted, AllFrugal
  <2>4. call.mode = "dynamic" => Len(rows) * width <= Budget
    BY <1>2, <1>3, <2>3 DEF Frugal
  <2>5. QED
    BY <1>1, <1>2, <1>10, <2>2, <2>4 DEF Fine
<1>11. QED
  BY <1>9, <1>10

(* So every sharding is within the budget.                                 *)
LEMMA AllottedWithin ==
  ASSUME CallIs(call), NEW P, Allotted(shards, P, call)
  PROVE  WithinBudget
<1> SUFFICES ASSUME NEW s \in DOMAIN shards, NEW g \in DOMAIN shards[s].micro,
                    NEW k \in DOMAIN shards[s].micro[g]
             PROVE  Fine(call, MicroRows(shards[s], g, k), shards[s].micro[g][k].width)
  BY Zenon DEF WithinBudget, Fine, PaddedLens
<1>1. PICK G, N : G = GlobalBatch(call) /\ N = Len(call.lens)
  OBVIOUS
<1>2. s \in 1 .. NumShards
  BY DEF Allotted
<1>3. Shape(shards[s], P[s], G, 1 .. N)
  BY <1>1, <1>2, Zenon DEF Allotted, Splits
<1>4. g \in 1 .. G /\ Tiled(shards[s].micro[g], Len(P[s][g]))
  BY <1>3 DEF Shape
<1>5. DOMAIN shards[s].micro[g] = 1 .. Len(shards[s].micro[g])
  BY <1>4 DEF Tiled, Tiles
<1>6. G \in Nat
  BY <1>3 DEF Shape, Slices
<1>7. MicroRows(shards[s], g, k) = CutRows(P[s][g], shards[s].micro[g], k)
  BY <1>3, <1>4, <1>6, MicroRowsAre
<1>8. Fine(call, CutRows(P[s][g], shards[s].micro[g], k), Breadth(shards[s].micro[g], k))
  BY <1>1, <1>2, <1>4, <1>5, MicroFine
<1>9. QED
  BY <1>7, <1>8, Zenon DEF Breadth

(* As are no shards at all.                                                *)
LEMMA NoShards ==
  ASSUME shards = <<>>
  PROVE  WithinBudget
BY DEF WithinBudget

-----------------------------------------------------------------------------
(***************************************************************************)
(* What the workers have, at every place of their way through a call.      *)
(***************************************************************************)
Start(c) == IF c.method = "train" THEN Place(0, 0, 0, FALSE) ELSE Place(0, 1, 0, FALSE)
Finish(c, n, y) ==
  IF c.method = "train" THEN y.steps = GlobalBatch(c)
  ELSE y.at = 1 /\ y.done = n[1] /\ (c.backend = "megatron" => y.sent = TRUE)
Route(c, n, p, t) ==
  \E y : Trace(t, p, Start(c), y, c.method = "train", n, GlobalBatch(c)) /\ Finish(c, n, y)

(* A worker's list of collectives is a way through the stations.           *)
LEMMA CourseRoute ==
  ASSUME NEW p, NEW n, Course(p, n, GlobalBatch(call))
  PROVE  \E t : Route(call, n, p, t)
<1>1. PICK G : G = GlobalBatch(call)
  OBVIOUS
<1>2. CASE call.method = "train"
  <2>1. PICK y : Leads(p, Place(0, 0, 0, FALSE), y, TRUE, n, G) /\ y.steps = G
    BY <1>1, <1>2, Zenon DEF Course, TrainCourse
  <2>2. PICK t : Trace(t, p, Place(0, 0, 0, FALSE), y, TRUE, n, G)
    BY <2>1, Zenon DEF Leads
  <2>3. (call.method = "train") = TRUE /\ Start(call) = Place(0, 0, 0, FALSE)
    BY <1>2 DEF Start
  <2>4. Trace(t, p, Start(call), y, call.method = "train", n, G)
    BY <2>2, <2>3
  <2>5. Finish(call, n, y)
    BY <1>1, <1>2, <2>1 DEF Finish
  <2>6. QED
    BY <1>1, <2>4, <2>5, Zenon DEF Route
<1>3. CASE call.method # "train"
  <2>1. PICK y : /\ Leads(p, Place(0, 1, 0, FALSE), y, FALSE, n, G)
                 /\ y.at = 1 /\ y.done = n[1] /\ (call.backend = "megatron" => y.sent = TRUE)
    BY <1>1, <1>3, Zenon DEF Course, AnswerCourse
  <2>2. PICK t : Trace(t, p, Place(0, 1, 0, FALSE), y, FALSE, n, G)
    BY <2>1, Zenon DEF Leads
  <2>3. (call.method = "train") = FALSE /\ Start(call) = Place(0, 1, 0, FALSE)
    BY <1>3 DEF Start
  <2>4. Trace(t, p, Start(call), y, call.method = "train", n, G)
    BY <2>2, <2>3
  <2>5. Finish(call, n, y)
    BY <1>1, <1>3, <2>1 DEF Finish
  <2>6. QED
    BY <1>1, <2>4, <2>5, Zenon DEF Route
<1>4. QED
  BY <1>2, <1>3

(* The rows of a worker in a global batch, its microbatches of them, the   *)
(* tokens of the global batch.                                             *)
Lot(c, P, w, g) == P[Side(c.backend, w) + 1][g]
Cuts(c, ss, w, g) == ss[Side(c.backend, w) + 1].micro[g]
Kept(c, ss, P, w, g, k) == Progress(Lot(c, P, w, g), Cuts(c, ss, w, g), k)
Due(c, g) == Total(Worth(c), Chunk(g, c.size))
Tally(c, ss) == [g \in 1 .. GlobalBatch(c) |-> MicroCount(ss, g)]
Speaks(c, w) == c.backend # "megatron" \/ Copy(c.backend, w) = NumReplicas - 1

(* A worker is on the side of its shard, as a copy.                        *)
LEMMA SideIs == ASSUME NEW w PROVE Side(call.backend, w) = Shard(w) /\ Copy(call.backend, w) = Replica(w)
BY DEF Side, Copy, Shard, Replica

(* The workers that contribute are those of the last stage.                *)
LEMMA SpeaksIs == ASSUME NEW w PROVE Speaks(call, w) <=> LastStage(w)
BY SideIs DEF Speaks, LastStage

(* The tokens due in a global batch are those of all its rows.             *)
LEMMA DueIs ==
  ASSUME CallIs(call), Accepted, NEW g \in 1 .. GlobalBatch(call)
  PROVE  Norm(g) = Due(call, g)
<1>1. /\ Chunk(g, call.size) \subseteq 1 .. Len(call.lens)
      /\ Enumerates(Part(Rows(call.lens), g, call.size), Chunk(g, call.size))
  BY ChunkIn
<1>2. Tokens(Part(Rows(call.lens), g, call.size)) = Total(Worth(call), Chunk(g, call.size))
  BY <1>1, TokensAre
<1>3. QED
  BY <1>2 DEF Norm, Due

(* A worker's rows and microbatches.                                       *)
Served(c, ss, P, w, g, n) ==
  /\ n \in Nat /\ ListOf(Lot(c, P, w, g), n, 1 .. Len(c.lens)) /\ Tiled(Cuts(c, ss, w, g), n)
  /\ Len(Cuts(c, ss, w, g)) = MicroCount(ss, g) /\ MicroCount(ss, g) \in Nat

(* What a worker is served: its rows in the cut of its shard.              *)
LEMMA ServedIs ==
  ASSUME CallIs(call), NEW ss, NEW P, Allotted(ss, P, call), NEW w \in Workers,
         NEW g \in 1 .. GlobalBatch(call)
  PROVE  /\ \E n : Served(call, ss, P, w, g, n)
         /\ BatchOf(Mine(ss, w), g) = Lot(call, P, w, g)
         /\ NumMicro(ss, w, g) = MicroCount(ss, g)
         /\ \A k : MicroRows(Mine(ss, w), g, k) = CutRows(Lot(call, P, w, g), Cuts(call, ss, w, g), k)
<1>1. PICK s, G, I : s = Shard(w) + 1 /\ G = GlobalBatch(call) /\ I = 1 .. Len(call.lens)
  OBVIOUS
<1>2. s \in 1 .. NumShards
  BY <1>1, OwnShard
<1>3. Shape(ss[s], P[s], G, I)
  BY <1>1, <1>2, Zenon DEF Allotted, Splits
<1>4. Lot(call, P, w, g) = P[s][g] /\ Cuts(call, ss, w, g) = ss[s].micro[g] /\ Mine(ss, w) = ss[s]
  BY <1>1, SideIs DEF Lot, Cuts, Mine
<1>5. NumMicro(ss, w, g) = MicroCount(ss, g) /\ MicroCount(ss, g) \in Nat
  BY OwnMicro
<1>6. Len(ss[s].micro[g]) = MicroCount(ss, g)
  BY <1>4, <1>5 DEF NumMicro
<1>7. G \in Nat /\ P[s] \in Seq(Seq(I)) /\ Len(P[s]) = G /\ g \in 1 .. G
  BY <1>1, <1>3 DEF Shape, Slices
<1>8. PICK p : p = P[s][g] /\ p \in Seq(I)
  BY <1>7
<1>9. ListOf(p, Len(p), I) /\ Len(p) \in Nat
  BY <1>8 DEF ListOf
<1>10. Tiled(ss[s].micro[g], Len(p))
  BY <1>3, <1>7, <1>8 DEF Shape
<1>11. Served(call, ss, P, w, g, Len(p))
  BY <1>1, <1>4, <1>5, <1>6, <1>8, <1>9, <1>10 DEF Served
<1>12. BatchOf(ss[s], g) = P[s][g]
  BY <1>3, <1>7, BatchIs
<1>13. \A k : MicroRows(ss[s], g, k) = CutRows(P[s][g], ss[s].micro[g], k)
  BY <1>3, <1>7, MicroRowsAre
<1>14. QED
  BY <1>4, <1>5, <1>11, <1>12, <1>13, Zenon

(* Nothing is kept before the first pass,                                  *)
LEMMA KeptNone ==
  ASSUME NEW c, NEW ss, NEW P, NEW w, NEW g, NEW n, Served(c, ss, P, w, g, n)
  PROVE  Kept(c, ss, P, w, g, 0) = <<>>
<1>1. Lot(c, P, w, g) \in Seq(1 .. Len(c.lens))
  BY DEF Served, ListOf
<1>2. QED
  BY <1>1, ProgressNone DEF Kept

(* the worker's whole part after the last,                                 *)
LEMMA KeptAll ==
  ASSUME NEW c, NEW ss, NEW P, NEW w, NEW g, NEW n, Served(c, ss, P, w, g, n), NEW k, k = MicroCount(ss, g)
  PROVE  Kept(c, ss, P, w, g, k) = Lot(c, P, w, g)
<1>1. /\ n \in Nat /\ ListOf(Lot(c, P, w, g), n, 1 .. Len(c.lens)) /\ Tiled(Cuts(c, ss, w, g), n)
      /\ Len(Cuts(c, ss, w, g)) = k
  BY DEF Served
<1>2. Progress(Lot(c, P, w, g), Cuts(c, ss, w, g), Len(Cuts(c, ss, w, g))) = Lot(c, P, w, g)
  BY <1>1, ProgressAll
<1>3. QED
  BY <1>1, <1>2 DEF Kept

(* and a pass adds the rows of its microbatch.                             *)
LEMMA KeptOn ==
  ASSUME NEW c, NEW ss, NEW P, NEW w, NEW g, NEW n, Served(c, ss, P, w, g, n), NEW k \in Nat,
         k < MicroCount(ss, g)
  PROVE  Kept(c, ss, P, w, g, k) \o CutRows(Lot(c, P, w, g), Cuts(c, ss, w, g), k + 1)
         = Kept(c, ss, P, w, g, k + 1)
<1>1. /\ n \in Nat /\ ListOf(Lot(c, P, w, g), n, 1 .. Len(c.lens)) /\ Tiled(Cuts(c, ss, w, g), n)
      /\ Len(Cuts(c, ss, w, g)) = MicroCount(ss, g) /\ MicroCount(ss, g) \in Nat
  BY DEF Served
<1>2. k \in 0 .. Len(Cuts(c, ss, w, g)) - 1 /\ Len(Cuts(c, ss, w, g)) \in Nat
  BY <1>1
<1>3. PICK p, micro, S : p = Lot(c, P, w, g) /\ micro = Cuts(c, ss, w, g) /\ S = 1 .. Len(c.lens)
  OBVIOUS
<1>4. Progress(p, micro, k) \o CutRows(p, micro, k + 1) = Progress(p, micro, k + 1)
  <2>1. n \in Nat /\ ListOf(p, n, S) /\ Tiled(micro, n) /\ k \in 0 .. Len(micro) - 1 /\ Len(micro) \in Nat
    BY <1>1, <1>2, <1>3
  <2>2. QED
    BY <2>1, ProgressOn, ZenonT(40)
<1>5. QED
  BY <1>3, <1>4, Zenon DEF Kept

(* What a worker has at place x of its way: in train the gradients of the  *)
(* microbatches done, and the tokens of the whole global batch; otherwise  *)
(* the answers of the microbatches done.                                   *)
Trained(c, ss, P, w, x, gr, va) ==
  x.at >= 1 => gr = Kept(c, ss, P, w, x.at, x.done) /\ va = Due(c, x.at)
Answered(c, ss, P, w, x, an) ==
  x.at = 1 /\ (Speaks(c, w) \/ x.sent => an = Kept(c, ss, P, w, 1, x.done))
Has(c, ss, P, w, x, gr, va, an) ==
  IF c.method = "train" THEN Trained(c, ss, P, w, x, gr, va) ELSE Answered(c, ss, P, w, x, an)
(* What an optimizer step was taken from.                                  *)
StepFrom(c, P, e, u, w) == e.rows[w] = Lot(c, P, w, u) /\ e.valid[w] = Due(c, u)
Recorded(c, P, ups) ==
  /\ Listing(ups) /\ Len(ups) <= GlobalBatch(c)
  /\ \A u \in 1 .. Len(ups), w \in Workers : StepFrom(c, P, ups[u], u, w)

(* The plan of a call is settled when it is dispatched.                    *)
Ordered(c, P, ord) == GlobalBatch(c) = 1 => ord = FlattenSeq(Column(P, NumShards, 1))
Plan(P, t) ==
  /\ Allotted(shards, P, call) /\ Ordered(call, P, order)
  /\ \A w \in Workers : Route(call, Tally(call, shards), program[w], t)
PastEnd == \A w \in Workers : pc[w] \in 1 .. Len(program[w]) + 1
Holdings(P, t) ==
  /\ \A w \in Workers : t[pc[w]].steps = Len(updates)
  /\ \A w \in Workers : Has(call, shards, P, w, t[pc[w]], grads[w], valid[w], answers[w])
Underway(P, t) == Plan(P, t) /\ PastEnd /\ Recorded(call, P, updates) /\ Holdings(P, t)

(* The plan depends on what no meeting changes.                            *)
LEMMA PlanStays ==
  ASSUME NEW P, NEW t, Plan(P, t),
         call' = call, shards' = shards, order' = order, program' = program
  PROVE  Plan(P, t)'
<1>1. /\ Allotted(shards', P, call') /\ Ordered(call', P, order')
      /\ \A w \in Workers : Route(call', Tally(call', shards'), program'[w], t)
  BY DEF Plan
<1>2. QED
  BY <1>1 DEF Plan

(* A step of the workers that meet: from x by o to y, the others stay.     *)
Turned(c, ss, x, o, y) == Turn(x, o, y, c.method = "train", Tally(c, ss), GlobalBatch(c))
Shift(t, u, x, o, y) ==
  /\ x \in Stations /\ y \in Stations /\ o \in Ops /\ Turned(call, shards, x, o, y)
  /\ u \in Peers(u) /\ Peers(u) \subseteq Workers /\ At(u) = o
  /\ \A v \in Peers(u) : At(v) = o /\ t[pc[v]] = x /\ t[pc'[v]] = y
  /\ \A v \in Workers : v \notin Peers(u) => pc'[v] = pc[v]

(* A meeting moves all its workers by one collective.                      *)
LEMMA MeetShifts ==
  ASSUME StepInv, NEW P, NEW t, Plan(P, t), PastEnd, NEW u \in Workers, NEW ops, Meet(u, ops)
  PROVE  /\ PastEnd' /\ call' = call /\ shards' = shards /\ order' = order /\ program' = program
         /\ \E x, o, y : Shift(t, u, x, o, y) /\ o.op \in ops
<1>1. /\ call' = call /\ shards' = shards /\ order' = order /\ program' = program /\ outcome = "running"
      /\ pc' = [v \in Workers |-> IF v \in Peers(u) THEN pc[v] + 1 ELSE pc[v]]
  BY DEF Meet, Running
<1>2. Prepared /\ InStep /\ pc \in [Workers -> Nat] /\ (\A w \in Workers : pc[w] >= 1)
  BY <1>1 DEF StepInv
<1>3. /\ u \in Peers(u) /\ Peers(u) \subseteq Workers
      /\ \A v \in Peers(u) : pc[v] = pc[u] /\ program[v] = program[u]
      /\ pc[u] \in 1 .. Len(program[u]) /\ pc[u] \in Nat /\ Len(program[u]) \in Nat
      /\ At(u).op \in ops
  BY <1>2, MeetTogether
<1>4. PICK i, p : i \in Nat /\ i = pc[u] /\ p = program[u] /\ i \in 1 .. Len(p) /\ Len(p) \in Nat
  BY <1>3
<1>5. \A v \in Peers(u) : pc'[v] = i + 1 /\ pc[v] = i /\ program[v] = p
  BY <1>1, <1>3, <1>4
<1>6. \A v \in Workers : v \notin Peers(u) => pc'[v] = pc[v]
  BY <1>1
<1>7. PastEnd'
  <2> SUFFICES ASSUME NEW v \in Workers PROVE pc'[v] \in 1 .. Len(program'[v]) + 1
    BY DEF PastEnd
  <2>1. CASE v \in Peers(u)
    <3>1. i + 1 \in 1 .. Len(p) + 1
      BY <1>4
    <3>2. QED
      BY <1>1, <1>5, <2>1, <3>1
  <2>2. CASE v \notin Peers(u)
    BY <1>1, <1>6, <2>2 DEF PastEnd
  <2>3. QED
    BY <2>1, <2>2
<1>8. Route(call, Tally(call, shards), p, t)
  BY <1>4 DEF Plan
<1>9. PICK z : Trace(t, p, Start(call), z, call.method = "train", Tally(call, shards), GlobalBatch(call))
  BY <1>8, Zenon DEF Route
<1>10. PICK x, o, y : x = t[i] /\ o = p[i] /\ y = t[i + 1]
  OBVIOUS
<1>11. Turned(call, shards, x, o, y)
  BY <1>4, <1>9, <1>10, Zenon DEF Trace, Turned
<1>12. x \in Stations /\ y \in Stations /\ o \in Ops
  <2>1. p \in Seq(Ops) /\ t \in [1 .. Len(p) + 1 -> Stations]
    BY <1>9, Zenon DEF Trace
  <2>2. i \in 1 .. Len(p) + 1 /\ i + 1 \in 1 .. Len(p) + 1
    BY <1>4
  <2>3. QED
    BY <1>4, <1>10, <2>1, <2>2
<1>13. \A v \in Peers(u) : At(v) = o /\ t[pc[v]] = x /\ t[pc'[v]] = y
  BY <1>5, <1>10 DEF At
<1>14. Shift(t, u, x, o, y)
  BY <1>3, <1>6, <1>11, <1>12, <1>13, Zenon DEF Shift
<1>15. o.op \in ops
  BY <1>3, <1>13
<1>16. QED
  BY <1>1, <1>7, <1>14, <1>15

(* What each worker that meets must come to have, for the step to keep     *)
(* what all have.                                                          *)
LEMMA HoldingsOn ==
  ASSUME NEW P, NEW t, Holdings(P, t), NEW u, NEW x, NEW o, NEW y, Shift(t, u, x, o, y),
         call' = call, shards' = shards, updates' = updates, y.steps = x.steps,
         \A v \in Workers : v \notin Peers(u) =>
           grads'[v] = grads[v] /\ valid'[v] = valid[v] /\ answers'[v] = answers[v],
         \A v \in Peers(u) :
           Has(call, shards, P, v, x, grads[v], valid[v], answers[v])
             => Has(call, shards, P, v, y, grads'[v], valid'[v], answers'[v])
  PROVE  Holdings(P, t)'
<1>1. ASSUME NEW v \in Workers
      PROVE  /\ t[pc'[v]].steps = Len(updates')
             /\ Has(call', shards', P, v, t[pc'[v]], grads'[v], valid'[v], answers'[v])
  <2>1. /\ t[pc[v]].steps = Len(updates)
        /\ Has(call, shards, P, v, t[pc[v]], grads[v], valid[v], answers[v])
    BY DEF Holdings
  <2>2. CASE v \in Peers(u)
    <3>1. t[pc[v]] = x /\ t[pc'[v]] = y
      BY <2>2 DEF Shift
    <3>2. Has(call, shards, P, v, y, grads'[v], valid'[v], answers'[v])
      BY <2>1, <2>2, <3>1
    <3>3. QED
      BY <2>1, <3>1, <3>2
  <2>3. CASE v \notin Peers(u)
    <3>1. pc'[v] = pc[v]
      BY <2>3 DEF Shift
    <3>2. grads'[v] = grads[v] /\ valid'[v] = valid[v] /\ answers'[v] = answers[v]
      BY <2>3
    <3>3. QED
      BY <2>1, <3>1, <3>2
  <2>4. QED
    BY <2>2, <2>3
<1>2. QED
  BY <1>1 DEF Holdings

(* What each kind of collective does to a worker's place.                  *)
LEMMA TurnedIdle ==
  ASSUME NEW c, NEW ss, NEW x, NEW o, NEW y, Turned(c, ss, x, o, y),
         o.op \in {"size", "count", "unshard", "loss"}
  PROVE  y = x
BY DEF Turned, Turn

(* summing the tokens opens a global batch,                                *)
LEMMA TurnedTokens ==
  ASSUME NEW c, NEW ss, NEW x \in Stations, NEW o, NEW y, Turned(c, ss, x, o, y), o.op = "tokens"
  PROVE  /\ c.method = "train" /\ o.gb \in 1 .. GlobalBatch(c)
         /\ y.steps = x.steps /\ y.at = o.gb /\ y.done = 0
<1>1. /\ c.method = "train" /\ o.gb \in 1 .. GlobalBatch(c) /\ y = Place(x.steps, o.gb, 0, FALSE)
  BY DEF Turned, Turn
<1>2. QED
  BY <1>1 DEF Place

(* which has as many passes as the shard's microbatches;                   *)
LEMMA TallyIs ==
  ASSUME NEW c, NEW ss, NEW g \in 1 .. GlobalBatch(c)
  PROVE  Tally(c, ss)[g] = MicroCount(ss, g)
BY DEF Tally

Passed(c, ss, x, o, y) ==
  /\ x.at \in 1 .. GlobalBatch(c) /\ o.gb = x.at /\ x.done < MicroCount(ss, x.at) /\ o.mb = x.done + 1
  /\ y.steps = x.steps /\ y.at = x.at /\ y.done = x.done + 1 /\ y.sent = FALSE

(* a pass goes one microbatch on,                                          *)
LEMMA TurnedPass ==
  ASSUME NEW c, NEW ss, NEW x \in Stations, NEW o, NEW y, Turned(c, ss, x, o, y),
         o.op \in {"forward", "stages"}
  PROVE  Passed(c, ss, x, o, y)
<1>1. /\ x.at \in 1 .. GlobalBatch(c) /\ o.gb = x.at /\ x.done < Tally(c, ss)[x.at] /\ o.mb = x.done + 1
      /\ y = Place(x.steps, x.at, x.done + 1, FALSE)
  BY DEF Turned, Turn
<1>2. Tally(c, ss)[x.at] = MicroCount(ss, x.at)
  BY <1>1, TallyIs
<1>3. y.steps = x.steps /\ y.at = x.at /\ y.done = x.done + 1 /\ y.sent = FALSE
  BY <1>1 DEF Place
<1>4. QED
  BY <1>1, <1>2, <1>3 DEF Passed

Stepped(c, ss, x, y) ==
  /\ c.method = "train" /\ x.at \in 1 .. GlobalBatch(c) /\ x.at = x.steps + 1
  /\ x.done = MicroCount(ss, x.at)
  /\ y.steps = x.steps + 1 /\ y.at = x.at /\ y.done = x.done

(* an optimizer step closes the global batch,                              *)
LEMMA TurnedStep ==
  ASSUME NEW c, NEW ss, NEW x \in Stations, NEW o, NEW y, Turned(c, ss, x, o, y), o.op = "step"
  PROVE  Stepped(c, ss, x, y)
<1>1. /\ c.method = "train" /\ x.at \in 1 .. GlobalBatch(c) /\ x.at = x.steps + 1
      /\ x.done = Tally(c, ss)[x.at] /\ y = Place(x.steps + 1, x.at, x.done, x.sent)
  BY DEF Turned, Turn
<1>2. Tally(c, ss)[x.at] = MicroCount(ss, x.at)
  BY <1>1, TallyIs
<1>3. y.steps = x.steps + 1 /\ y.at = x.at /\ y.done = x.done
  BY <1>1 DEF Place
<1>4. QED
  BY <1>1, <1>2, <1>3 DEF Stepped

(* and a broadcast stays where the last pass left off.                     *)
LEMMA TurnedBroadcast ==
  ASSUME NEW c, NEW ss, NEW x \in Stations, NEW o, NEW y, Turned(c, ss, x, o, y), o.op = "broadcast"
  PROVE  y.steps = x.steps /\ y.at = x.at /\ y.done = x.done
<1>1. y = Place(x.steps, x.at, x.done, TRUE)
  BY DEF Turned, Turn
<1>2. QED
  BY <1>1 DEF Place

(* A meeting keeps a worker's way when the holdings follow.                *)
LEMMA UnderwayOn ==
  ASSUME StepInv, NEW P, NEW t, Underway(P, t), NEW u \in Workers, NEW ops, Meet(u, ops),
         updates' = updates, Holdings(P, t)'
  PROVE  Underway(P, t)'
<1>1. Plan(P, t) /\ PastEnd /\ Recorded(call, P, updates)
  BY DEF Underway
<1>2. PastEnd' /\ call' = call /\ shards' = shards /\ order' = order /\ program' = program
  BY <1>1, MeetShifts
<1>3. Plan(P, t)'
  BY <1>1, <1>2, PlanStays
<1>4. Recorded(call', P, updates')
  BY <1>1, <1>2
<1>5. QED
  BY <1>2, <1>3, <1>4 DEF Underway

(* The collectives that change nothing modelled.                           *)
LEMMA ExchangeOn ==
  ASSUME StepInv, NEW P, NEW t, Underway(P, t), NEW u \in Workers, Exchange(u)
  PROVE  Underway(P, t)'
<1>1. PICK ops : ops = {"size", "count", "unshard", "loss"} /\ Meet(u, ops)
  BY DEF Exchange
<1>2. Plan(P, t) /\ PastEnd /\ Holdings(P, t)
  BY DEF Underway
<1>3. valid' = valid /\ grads' = grads /\ updates' = updates /\ answers' = answers
  BY DEF Exchange
<1>4. call' = call /\ shards' = shards
  BY <1>1, <1>2, MeetShifts
<1>5. PICK x, o, y : Shift(t, u, x, o, y) /\ o.op \in ops
  BY <1>1, <1>2, MeetShifts
<1>6. y = x
  BY <1>1, <1>5, TurnedIdle DEF Shift
<1>7. Holdings(P, t)'
  BY <1>2, <1>3, <1>4, <1>5, <1>6, HoldingsOn
<1>8. QED
  BY <1>1, <1>3, <1>7, UnderwayOn

(* The tokens of a global batch are counted over all shards.               *)
LEMMA PeersTokens ==
  ASSUME NEW u, At(u).op = "tokens"
  PROVE  Peers(u) = Siblings(Replica(u))
BY DEF Peers, Group, Siblings

(* The siblings sum the tokens of the whole global batch.                  *)
LEMMA TokensDue ==
  ASSUME StepInv, outcome = "running", NEW P, NEW t, Plan(P, t), NEW u \in Workers, NEW x, NEW o, NEW y,
         Shift(t, u, x, o, y), o.op = "tokens"
  PROVE  SumFunction([v \in Peers(u) |-> Tokens(BatchOf(Mine(shards, v), At(v).gb))]) = Due(call, o.gb)
<1>1. CallIs(call) /\ Accepted
  BY DEF StepInv, Prepared
<1>2. Allotted(shards, P, call)
  BY DEF Plan
<1>3. o.gb \in 1 .. GlobalBatch(call)
  BY TurnedTokens DEF Shift
<1>4. PICK g \in 1 .. GlobalBatch(call) : g = o.gb
  BY <1>3
<1>5. Peers(u) = Siblings(Replica(u))
  BY PeersTokens DEF Shift
<1>6. Replica(u) \in 0 .. NumReplicas - 1
  BY WorkerIs
<1>7. ASSUME NEW v \in Peers(u)
      PROVE  Tokens(BatchOf(Mine(shards, v), At(v).gb)) = Tokens(P[Shard(v) + 1][g])
  <2>1. v \in Workers /\ At(v) = o
    BY <1>7 DEF Shift
  <2>2. BatchOf(Mine(shards, v), g) = Lot(call, P, v, g)
    BY <1>1, <1>2, <2>1, ServedIs
  <2>3. Lot(call, P, v, g) = P[Shard(v) + 1][g]
    BY SideIs DEF Lot
  <2>4. BatchOf(Mine(shards, v), At(v).gb) = P[Shard(v) + 1][g]
    BY <1>4, <2>1, <2>2, <2>3
  <2>5. QED
    BY <2>4
<1>8. [v \in Peers(u) |-> Tokens(BatchOf(Mine(shards, v), At(v).gb))]
      = [v \in Siblings(Replica(u)) |-> Tokens(P[Shard(v) + 1][g])]
  BY <1>5, <1>7
<1>9. PICK own : own = [v \in Siblings(Replica(u)) |-> Tokens(P[Shard(v) + 1][g])]
  OBVIOUS
<1>10. SumFunction(own) = Norm(g)
  BY <1>1, <1>2, <1>6, <1>9, NormIs
<1>11. Norm(g) = Due(call, g)
  BY <1>1, DueIs
<1>12. QED
  BY <1>4, <1>8, <1>9, <1>10, <1>11

(* So the sum each of them gets is the one due.                            *)
LEMMA ValidTokensOn ==
  ASSUME StepInv, outcome = "running", NEW P, NEW t, Underway(P, t), NEW u \in Workers, ValidTokens(u)
  PROVE  Underway(P, t)'
<1>1. PICK ops : ops = {"tokens"} /\ Meet(u, ops)
  BY DEF ValidTokens
<1>2. Plan(P, t) /\ PastEnd /\ Holdings(P, t) /\ Allotted(shards, P, call)
  BY DEF Underway, Plan
<1>3. PICK own : own = [v \in Peers(u) |-> Tokens(BatchOf(Mine(shards, v), At(v).gb))]
  OBVIOUS
<1>4. /\ valid' = [v \in Workers |-> IF v \in Peers(u) THEN SumFunction(own) ELSE valid[v]]
      /\ grads' = [v \in Workers |-> IF v \in Peers(u) THEN <<>> ELSE grads[v]]
      /\ updates' = updates /\ answers' = answers
  BY <1>3 DEF ValidTokens
<1>5. call' = call /\ shards' = shards
  BY <1>1, <1>2, MeetShifts
<1>6. PICK x, o, y : Shift(t, u, x, o, y) /\ o.op \in ops
  BY <1>1, <1>2, MeetShifts
<1>7. o.op = "tokens" /\ Peers(u) \subseteq Workers
  BY <1>1, <1>6 DEF Shift
<1>8. /\ call.method = "train" /\ o.gb \in 1 .. GlobalBatch(call)
      /\ y.steps = x.steps /\ y.at = o.gb /\ y.done = 0
  BY <1>6, <1>7, TurnedTokens DEF Shift
<1>9. SumFunction(own) = Due(call, o.gb)
  BY <1>2, <1>3, <1>6, <1>7, TokensDue
<1>10. CallIs(call)
  BY DEF StepInv
<1>11. ASSUME NEW v \in Peers(u)
       PROVE  Has(call, shards, P, v, y, grads'[v], valid'[v], answers'[v])
  <2>1. v \in Workers
    BY <1>7, <1>11
  <2>2. grads'[v] = <<>> /\ valid'[v] = Due(call, y.at)
    BY <1>4, <1>8, <1>9, <1>11, <2>1
  <2>3. PICK n : Served(call, shards, P, v, o.gb, n)
    BY <1>2, <1>8, <1>10, <2>1, ServedIs
  <2>4. Kept(call, shards, P, v, o.gb, 0) = <<>>
    BY <2>3, KeptNone
  <2>5. Kept(call, shards, P, v, y.at, y.done) = <<>>
    BY <1>8, <2>4
  <2>6. QED
    BY <1>8, <2>2, <2>5 DEF Has, Trained
<1>12. \A v \in Workers : v \notin Peers(u) =>
         grads'[v] = grads[v] /\ valid'[v] = valid[v] /\ answers'[v] = answers[v]
  BY <1>4
<1>13. Holdings(P, t)'
  BY <1>2, <1>4, <1>5, <1>6, <1>8, <1>11, <1>12, HoldingsOn
<1>14. QED
  BY <1>1, <1>4, <1>13, UnderwayOn

(* A microbatch of a worker that has not done all of its own.              *)
LEMMA OwnPass ==
  ASSUME StepInv, outcome = "running", NEW P, NEW t, Plan(P, t), NEW u \in Workers, NEW x, NEW o, NEW y,
         Shift(t, u, x, o, y), Passed(call, shards, x, o, y), NEW v \in Peers(u)
  PROVE  /\ ~Dummy(v)
         /\ Kept(call, shards, P, v, x.at, x.done) \o MicroBatch(v) = Kept(call, shards, P, v, x.at, y.done)
<1>1. CallIs(call) /\ Allotted(shards, P, call)
  BY DEF StepInv, Plan
<1>2. v \in Workers /\ At(v) = o /\ x \in Stations
  BY DEF Shift
<1>3. /\ x.at \in 1 .. GlobalBatch(call) /\ o.gb = x.at /\ x.done < MicroCount(shards, x.at)
      /\ o.mb = x.done + 1 /\ y.done = x.done + 1
  BY DEF Passed
<1>4. PICK g \in 1 .. GlobalBatch(call), k \in Nat : g = x.at /\ k = x.done
  BY <1>2, <1>3 DEF Stations
<1>5. /\ NumMicro(shards, v, g) = MicroCount(shards, g)
      /\ \A j : MicroRows(Mine(shards, v), g, j) = CutRows(Lot(call, P, v, g), Cuts(call, shards, v, g), j)
      /\ \E n : Served(call, shards, P, v, g, n)
  BY <1>1, <1>2, ServedIs
<1>6. PICK n : Served(call, shards, P, v, g, n)
  BY <1>5
<1>7. PICK m \in Nat : m = MicroCount(shards, g) /\ k < m
  BY <1>3, <1>4, <1>6 DEF Served
<1>8. ~Dummy(v)
  BY <1>2, <1>3, <1>4, <1>5, <1>7 DEF Dummy
<1>9. (k % m) + 1 = k + 1
  BY <1>7
<1>10. MicroBatch(v) = MicroRows(Mine(shards, v), g, k + 1)
  <2>1. At(v).gb = g /\ At(v).mb = k + 1 /\ NumMicro(shards, v, g) = m
    BY <1>2, <1>3, <1>4, <1>5, <1>7
  <2>2. MicroBatch(v) = MicroRows(Mine(shards, v), At(v).gb,
                                  ((At(v).mb - 1) % NumMicro(shards, v, At(v).gb)) + 1)
    BY Zenon DEF MicroBatch
  <2>3. At(v).mb - 1 = k
    BY <1>4, <2>1
  <2>4. NumMicro(shards, v, At(v).gb) = m
    BY <2>1
  <2>5. ((At(v).mb - 1) % NumMicro(shards, v, At(v).gb)) + 1 = k + 1
    BY <1>9, <2>3, <2>4
  <2>6. QED
    BY <2>1, <2>2, <2>5
<1>11. Kept(call, shards, P, v, g, k) \o CutRows(Lot(call, P, v, g), Cuts(call, shards, v, g), k + 1)
       = Kept(call, shards, P, v, g, k + 1)
  BY <1>6, <1>7, KeptOn
<1>12. MicroBatch(v) = CutRows(Lot(call, P, v, g), Cuts(call, shards, v, g), k + 1)
  BY <1>5, <1>10
<1>13. QED
  BY <1>3, <1>4, <1>8, <1>11, <1>12

(* A microbatch more in the gradients of those that meet.                  *)
LEMMA ContributeOn ==
  ASSUME StepInv, outcome = "running", NEW P, NEW t, Underway(P, t), NEW u \in Workers,
         NEW ops, ops \subseteq {"forward", "stages"}, Meet(u, ops), Contribute(u)
  PROVE  Underway(P, t)'
<1>1. Plan(P, t) /\ PastEnd /\ Holdings(P, t)
  BY DEF Underway
<1>2. /\ grads' = [v \in Workers |->
            IF v \in Peers(u) /\ ~Dummy(v) THEN grads[v] \o MicroBatch(v) ELSE grads[v]]
      /\ valid' = valid /\ updates' = updates /\ answers' = answers /\ call.method = "train"
  BY Zenon DEF Contribute
<1>3. call' = call /\ shards' = shards
  BY <1>1, MeetShifts
<1>4. PICK x, o, y : Shift(t, u, x, o, y) /\ o.op \in ops
  BY <1>1, MeetShifts
<1>5. o.op \in {"forward", "stages"}
  BY <1>4
<1>6. Passed(call, shards, x, o, y)
  BY <1>4, <1>5, TurnedPass DEF Shift
<1>7. y.steps = x.steps /\ y.at = x.at /\ Peers(u) \subseteq Workers
  BY <1>4, <1>6 DEF Passed, Shift
<1>8. ASSUME NEW v \in Peers(u), Has(call, shards, P, v, x, grads[v], valid[v], answers[v])
      PROVE  Has(call, shards, P, v, y, grads'[v], valid'[v], answers'[v])
  <2>1. /\ ~Dummy(v)
        /\ Kept(call, shards, P, v, x.at, x.done) \o MicroBatch(v) = Kept(call, shards, P, v, x.at, y.done)
    BY <1>1, <1>4, <1>6, OwnPass
  <2>2. v \in Workers
    BY <1>7
  <2>3. grads'[v] = grads[v] \o MicroBatch(v)
    BY <1>2, <2>1, <2>2
  <2>4. x.at >= 1
    BY <1>6 DEF Passed
  <2>5. grads[v] = Kept(call, shards, P, v, x.at, x.done) /\ valid[v] = Due(call, x.at)
    BY <1>2, <1>8, <2>4 DEF Has, Trained
  <2>6. grads'[v] = Kept(call, shards, P, v, y.at, y.done) /\ valid'[v] = Due(call, y.at)
    BY <1>2, <1>7, <2>1, <2>3, <2>5
  <2>7. QED
    BY <1>2, <2>6 DEF Has, Trained
<1>9. \A v \in Workers : v \notin Peers(u) =>
        grads'[v] = grads[v] /\ valid'[v] = valid[v] /\ answers'[v] = answers[v]
  BY <1>2
<1>10. Holdings(P, t)'
  BY <1>1, <1>2, <1>3, <1>4, <1>7, <1>8, <1>9, HoldingsOn
<1>11. QED
  BY <1>2, <1>10, UnderwayOn

(* A microbatch more in the answers of those that meet.                    *)
LEMMA AnswerOn ==
  ASSUME StepInv, outcome = "running", NEW P, NEW t, Underway(P, t), NEW u \in Workers,
         NEW ops, ops \subseteq {"forward", "stages"}, Meet(u, ops), Answer(u)
  PROVE  Underway(P, t)'
<1>1. Plan(P, t) /\ PastEnd /\ Holdings(P, t)
  BY DEF Underway
<1>2. /\ answers' = [v \in Workers |->
            IF v \in Peers(u) /\ LastStage(v) /\ ~(call.method = "get_logprobs" /\ Dummy(v))
            THEN answers[v] \o MicroBatch(v) ELSE answers[v]]
      /\ valid' = valid /\ updates' = updates /\ grads' = grads /\ call.method # "train"
  BY Zenon DEF Answer
<1>3. call' = call /\ shards' = shards
  BY <1>1, MeetShifts
<1>4. PICK x, o, y : Shift(t, u, x, o, y) /\ o.op \in ops
  BY <1>1, MeetShifts
<1>5. o.op \in {"forward", "stages"}
  BY <1>4
<1>6. Passed(call, shards, x, o, y)
  BY <1>4, <1>5, TurnedPass DEF Shift
<1>7. y.steps = x.steps /\ y.at = x.at /\ y.sent = FALSE /\ Peers(u) \subseteq Workers
  BY <1>4, <1>6 DEF Passed, Shift
<1>8. ASSUME NEW v \in Peers(u), Has(call, shards, P, v, x, grads[v], valid[v], answers[v])
      PROVE  Has(call, shards, P, v, y, grads'[v], valid'[v], answers'[v])
  <2>1. /\ ~Dummy(v)
        /\ Kept(call, shards, P, v, x.at, x.done) \o MicroBatch(v) = Kept(call, shards, P, v, x.at, y.done)
    BY <1>1, <1>4, <1>6, OwnPass
  <2>2. v \in Workers
    BY <1>7
  <2>3. /\ x.at = 1
        /\ Speaks(call, v) \/ x.sent => answers[v] = Kept(call, shards, P, v, 1, x.done)
    BY <1>2, <1>8 DEF Has, Answered
  <2>4. CASE Speaks(call, v)
    <3>1. LastStage(v)
      BY <2>4, SpeaksIs
    <3>2. answers'[v] = answers[v] \o MicroBatch(v)
      BY <1>2, <2>1, <2>2, <3>1
    <3>3. answers'[v] = Kept(call, shards, P, v, 1, y.done)
      BY <2>1, <2>3, <2>4, <3>2
    <3>4. QED
      BY <1>2, <1>7, <2>3, <3>3 DEF Has, Answered
  <2>5. CASE ~Speaks(call, v)
    BY <1>2, <1>7, <2>3, <2>5 DEF Has, Answered
  <2>6. QED
    BY <2>4, <2>5
<1>9. \A v \in Workers : v \notin Peers(u) =>
        grads'[v] = grads[v] /\ valid'[v] = valid[v] /\ answers'[v] = answers[v]
  BY <1>2
<1>10. Holdings(P, t)'
  BY <1>1, <1>2, <1>3, <1>4, <1>7, <1>8, <1>9, HoldingsOn
<1>11. QED
  BY <1>2, <1>10, UnderwayOn

(* The last stage of a shard is one of those that meet.                    *)
LEMMA PeersBroadcast ==
  ASSUME NEW u \in Workers, At(u).op = "broadcast"
  PROVE  \E v \in Peers(u) : LastStage(v)
<1>1. Peers(u) = {v \in Workers : Shard(v) = Shard(u)}
  BY DEF Peers, Group
<1>2. Shard(u) \in 0 .. NumShards - 1
  BY WorkerIs
<1>3. NumReplicas - 1 \in 0 .. NumReplicas - 1
  BY BatchAssumption
<1>4. PICK v : Works(v, Shard(u), NumReplicas - 1)
  BY <1>2, <1>3, WorkerAt
<1>5. v \in Peers(u) /\ LastStage(v)
  BY <1>1, <1>4 DEF Works, LastStage
<1>6. QED
  BY <1>5

(* which the stages of one pipeline have in common;                        *)
LEMMA KeptTogether ==
  ASSUME NEW u, At(u).op = "broadcast", NEW v \in Peers(u), NEW w \in Peers(u), NEW ss, NEW P, NEW g, NEW k
  PROVE  Kept(call, ss, P, v, g, k) = Kept(call, ss, P, w, g, k)
<1>1. Shard(v) = Shard(w)
  BY DEF Peers, Group
<1>2. Side(call.backend, v) = Side(call.backend, w)
  BY <1>1, SideIs
<1>3. QED
  BY <1>2, Zenon DEF Kept, Lot, Cuts

(* The answers of the last stage are handed to those that meet.            *)
LEMMA BroadcastOn ==
  ASSUME StepInv, outcome = "running", NEW P, NEW t, Underway(P, t), NEW u \in Workers, Broadcast(u)
  PROVE  Underway(P, t)'
<1>1. PICK ops : ops = {"broadcast"} /\ Meet(u, ops)
  BY DEF Broadcast
<1>2. Plan(P, t) /\ PastEnd /\ Holdings(P, t)
  BY DEF Underway
<1>3. PICK last : last = CHOOSE v \in Peers(u) : LastStage(v)
  OBVIOUS
<1>4. /\ answers' = [v \in Workers |-> IF v \in Peers(u) THEN answers[last] ELSE answers[v]]
      /\ valid' = valid /\ updates' = updates /\ grads' = grads
  BY <1>3 DEF Broadcast
<1>5. call' = call /\ shards' = shards
  BY <1>1, <1>2, MeetShifts
<1>6. PICK x, o, y : Shift(t, u, x, o, y) /\ o.op \in ops
  BY <1>1, <1>2, MeetShifts
<1>7. o.op = "broadcast" /\ At(u) = o /\ Peers(u) \subseteq Workers
  BY <1>1, <1>6 DEF Shift
<1>8. y.steps = x.steps /\ y.at = x.at /\ y.done = x.done
  BY <1>6, <1>7, TurnedBroadcast DEF Shift
<1>9. last \in Peers(u) /\ LastStage(last)
  <2>1. \E v \in Peers(u) : LastStage(v)
    BY <1>7, PeersBroadcast
  <2>2. QED
    BY <1>3, <2>1, Zenon
<1>10. Has(call, shards, P, last, x, grads[last], valid[last], answers[last])
  BY <1>2, <1>6, <1>7, <1>9 DEF Holdings, Shift
<1>11. ASSUME NEW v \in Peers(u), Has(call, shards, P, v, x, grads[v], valid[v], answers[v])
       PROVE  Has(call, shards, P, v, y, grads'[v], valid'[v], answers'[v])
  <2>1. v \in Workers /\ answers'[v] = answers[last]
    BY <1>4, <1>7
  <2>2. CASE call.method = "train"
    BY <1>4, <1>8, <1>11, <2>2 DEF Has, Trained
  <2>3. CASE call.method # "train"
    <3>1. x.at = 1 /\ answers[last] = Kept(call, shards, P, last, 1, x.done)
      BY <1>9, <1>10, <2>3, SpeaksIs DEF Has, Answered
    <3>2. Kept(call, shards, P, last, 1, x.done) = Kept(call, shards, P, v, 1, x.done)
      BY <1>7, <1>9, KeptTogether
    <3>3. answers'[v] = Kept(call, shards, P, v, 1, y.done) /\ y.at = 1
      BY <1>8, <2>1, <3>1, <3>2
    <3>4. QED
      BY <2>3, <3>3 DEF Has, Answered
  <2>4. QED
    BY <2>2, <2>3
<1>12. \A v \in Workers : v \notin Peers(u) =>
        grads'[v] = grads[v] /\ valid'[v] = valid[v] /\ answers'[v] = answers[v]
  BY <1>4
<1>13. Holdings(P, t)'
  BY <1>2, <1>4, <1>5, <1>6, <1>8, <1>11, <1>12, HoldingsOn
<1>14. QED
  BY <1>1, <1>4, <1>13, UnderwayOn

(* All workers take the optimizer step together, each from the rows it was *)
(* allotted of the global batch.                                           *)
LEMMA StepOn ==
  ASSUME StepInv, outcome = "running", NEW P, NEW t, Underway(P, t), NEW u \in Workers, Step(u)
  PROVE  Underway(P, t)'
<1>1. PICK ops : ops = {"step"} /\ Meet(u, ops)
  BY DEF Step
<1>2. Plan(P, t) /\ PastEnd /\ Holdings(P, t) /\ Recorded(call, P, updates) /\ Allotted(shards, P, call)
  BY DEF Underway, Plan
<1>3. PICK e : e = [rows |-> grads, valid |-> valid]
  OBVIOUS
<1>4. updates' = Append(updates, e) /\ valid' = valid /\ grads' = grads /\ answers' = answers
  BY <1>3 DEF Step
<1>5. /\ PastEnd' /\ call' = call /\ shards' = shards /\ order' = order /\ program' = program
  BY <1>1, <1>2, MeetShifts
<1>6. PICK x, o, y : Shift(t, u, x, o, y) /\ o.op \in ops
  BY <1>1, <1>2, MeetShifts
<1>7. o.op = "step" /\ At(u) = o /\ x \in Stations
  BY <1>1, <1>6 DEF Shift
<1>8. Peers(u) = Workers
  BY <1>7 DEF Peers, Group
<1>9. Stepped(call, shards, x, y)
  BY <1>6, <1>7, TurnedStep DEF Shift
<1>10. /\ call.method = "train" /\ x.at \in 1 .. GlobalBatch(call) /\ x.at = x.steps + 1
       /\ x.done = MicroCount(shards, x.at)
       /\ y.steps = x.steps + 1 /\ y.at = x.at /\ y.done = x.done
  BY <1>9 DEF Stepped
<1>11. \A v \in Workers : t[pc[v]] = x /\ t[pc'[v]] = y
  BY <1>6, <1>8 DEF Shift
<1>12. PICK l \in Nat : l = Len(updates) /\ l = x.steps
  BY <1>2, <1>7, <1>11 DEF Holdings, Recorded, Listing
<1>13. CallIs(call)
  BY DEF StepInv
<1>14. ASSUME NEW v \in Workers PROVE StepFrom(call, P, e, l + 1, v)
  <2>1. Has(call, shards, P, v, x, grads[v], valid[v], answers[v])
    BY <1>2, <1>11 DEF Holdings
  <2>2. grads[v] = Kept(call, shards, P, v, x.at, x.done) /\ valid[v] = Due(call, x.at)
    BY <1>10, <2>1 DEF Has, Trained
  <2>3. PICK n : Served(call, shards, P, v, x.at, n)
    BY <1>2, <1>10, <1>13, ServedIs
  <2>4. Kept(call, shards, P, v, x.at, x.done) = Lot(call, P, v, x.at)
    BY <1>10, <2>3, KeptAll
  <2>5. x.at = l + 1
    BY <1>10, <1>12
  <2>6. QED
    BY <1>3, <2>2, <2>4, <2>5 DEF StepFrom
<1>15. /\ Listing(updates') /\ Len(updates') = l + 1
       /\ \A k \in 1 .. l : updates'[k] = updates[k]
       /\ updates'[l + 1] = e
  <2>1. Listing(updates)
    BY <1>2 DEF Recorded
  <2>2. /\ Listing(Append(updates, e)) /\ Len(Append(updates, e)) = Len(updates) + 1
        /\ \A k \in 1 .. Len(updates) : Append(updates, e)[k] = updates[k]
        /\ Append(updates, e)[Len(updates) + 1] = e
    BY <2>1, ListingAppend, Zenon
  <2>3. QED
    BY <1>4, <1>12, <2>2, Zenon
<1>16. Recorded(call, P, updates')
  <2>1. Len(updates') <= GlobalBatch(call)
    BY <1>10, <1>12, <1>15
  <2>2. ASSUME NEW k \in 1 .. Len(updates'), NEW v \in Workers PROVE StepFrom(call, P, updates'[k], k, v)
    <3>1. CASE k = l + 1
      BY <1>14, <1>15, <3>1
    <3>2. CASE k # l + 1
      <4>1. k \in 1 .. l
        BY <1>15, <3>2
      <4>2. StepFrom(call, P, updates[k], k, v)
        BY <1>2, <1>12, <4>1 DEF Recorded
      <4>3. QED
        BY <1>15, <4>1, <4>2
    <3>3. QED
      BY <3>1, <3>2
  <2>3. QED
    BY <1>15, <2>1, <2>2 DEF Recorded
<1>17. ASSUME NEW v \in Workers
       PROVE  /\ t[pc'[v]].steps = Len(updates')
              /\ Has(call', shards', P, v, t[pc'[v]], grads'[v], valid'[v], answers'[v])
  <2>1. Has(call, shards, P, v, x, grads[v], valid[v], answers[v])
    BY <1>2, <1>11 DEF Holdings
  <2>2. Has(call, shards, P, v, y, grads[v], valid[v], answers[v])
    BY <1>10, <2>1 DEF Has, Trained
  <2>3. QED
    BY <1>4, <1>5, <1>10, <1>11, <1>12, <1>15, <2>2
<1>18. Holdings(P, t)'
  BY <1>17 DEF Holdings
<1>19. Plan(P, t)'
  BY <1>2, <1>5, PlanStays
<1>20. QED
  BY <1>5, <1>16, <1>18, <1>19 DEF Underway

-----------------------------------------------------------------------------
(***************************************************************************)
(* The order the rows are dispatched in.                                   *)
(***************************************************************************)
LEMMA FlatOne ==
  ASSUME NEW S, NEW ss, ss \in Seq(Seq(S)), Len(ss) = 1
  PROVE  FlattenSeq(ss) = ss[1]
<1>1. PICK t : Joins(t, ss, 1, S)
  BY JoinsIs
<1>2. FlattenSeq(ss) = t[1]
  <2>1. Joins(t, ss, Len(ss), S)
    BY <1>1
  <2>2. FlattenSeq(ss) = t[Len(ss)]
    BY <2>1, Flat
  <2>3. QED
    BY <2>2
<1>3. t[0] = <<>> /\ t[1] = t[0] \o ss[1] /\ ss[1] \in Seq(S)
  <2>1. t[0] = <<>> /\ \A k \in 1 .. 1 : t[k] = t[k - 1] \o ss[k] /\ ss[k] \in Seq(S)
    BY <1>1, Zenon DEF Joins
  <2>2. 1 \in 1 .. 1 /\ 1 - 1 = 0
    OBVIOUS
  <2>3. t[1] = t[1 - 1] \o ss[1] /\ ss[1] \in Seq(S)
    BY <2>1, <2>2, Zenon
  <2>4. QED
    BY <2>1, <2>2, <2>3, Zenon
<1>4. PICK a \in Seq(S) : a = ss[1]
  BY <1>3
<1>5. <<>> \o a = a
  OBVIOUS
<1>6. t[1] = <<>> \o a
  BY <1>3, <1>4, Zenon
<1>7. QED
  BY <1>2, <1>4, <1>5, <1>6, Zenon

(* The pieces of a list, joined, are the list.                             *)
LEMMA PiecesJoin ==
  ASSUME NEW N, NEW G, NEW b, NEW m, NEW q, Sizes(N, G, b, m, q), G = 1,
         NEW S, NEW rows, ListOf(rows, N, S),
         NEW P, P = [s \in 1 .. m |-> Pieces(rows, s, G, b, q)]
  PROVE  FlattenSeq(Column(P, m, 1)) = rows
<1>1. /\ N \in Nat /\ m \in Nat /\ q \in Nat /\ b \in Nat /\ m > 0 /\ q > 0 /\ b > 0
      /\ b = m * q /\ N = b
  BY DEF Sizes
<1>2. PICK col : col = Column(P, m, 1)
  OBVIOUS
<1>3. col = [s \in 1 .. m |-> Piece(rows, 1, b, s, q)]
  <2>1. \A s \in 1 .. m : P[s][1] = Piece(rows, 1, b, s, q)
    BY DEF Pieces
  <2>2. QED
    BY <1>2, <2>1 DEF Column
<1>4. 1 \in 1 .. G
  OBVIOUS
<1>5. \A s \in 1 .. m : /\ ListOf(col[s], q, S)
                        /\ \A k \in 1 .. q : col[s][k] = Part(rows, 1, b)[Cell(s, k, q)]
  BY <1>3, <1>4, PieceIs
<1>6. SameLong(col, m, q, S)
  BY <1>1, <1>3, <1>5, SameLongIs
<1>7. PICK F : F = FlattenSeq(col)
  OBVIOUS
<1>8. ListOf(F, N, S) /\ \A k \in 1 .. m : Part(F, k, q) = col[k]
  BY <1>1, <1>6, <1>7, FlatCuttable DEF Cuttable
<1>9. \A i \in 1 .. N : Part(rows, 1, b)[i] = rows[i]
  <2>1. 0 \in Nat /\ 0 = 0 * b /\ 0 + b <= N /\ 0 + 1 = 1
    BY <1>1
  <2>2. CutOut(Part(rows, 0 + 1, b), rows, 0, b, S)
    BY <1>1, <2>1, PartIs
  <2>3. \A i \in 1 .. b : Part(rows, 1, b)[i] = rows[0 + i]
    BY <2>1, <2>2 DEF CutOut
  <2>4. QED
    BY <1>1, <2>3
<1>10. ASSUME NEW i \in 1 .. N PROVE F[i] = rows[i]
  <2>0. N = m * q /\ N \in Nat /\ m \in Nat /\ q \in Nat /\ q > 0
    BY <1>1
  <2>1. PICK s \in 1 .. m, k \in 1 .. q : i = Cell(s, k, q)
    BY <2>0, CellOf, ZenonT(40)
  <2>2. PICK o \in Nat : o = (s - 1) * q
    BY <1>1
  <2>3. o + q <= N
    <3>1. q \in 1 .. q
      BY <1>1
    <3>2. Cell(s, q, q) \in 1 .. N
      BY <1>1, <3>1, CellIs
    <3>3. Cell(s, q, q) = o + q
      BY <2>2 DEF Cell
    <3>4. QED
      BY <1>1, <3>2, <3>3
  <2>4. PICK c \in Nat : c = s - 1 /\ c + 1 = s
    OBVIOUS
  <2>5. CutOut(Part(F, c + 1, q), F, o, q, S)
    BY <1>1, <1>8, <2>2, <2>3, <2>4, PartIs
  <2>6. Part(F, s, q)[k] = F[o + k]
    BY <2>4, <2>5 DEF CutOut
  <2>7. o + k = i
    BY <2>1, <2>2 DEF Cell
  <2>8. Part(F, s, q)[k] = rows[i]
    BY <1>5, <1>8, <1>9, <2>1
  <2>9. QED
    BY <2>6, <2>7, <2>8
<1>11. F = rows
  BY <1>8, <1>10 DEF ListOf
<1>12. QED
  BY <1>2, <1>7, <1>11

(* The sharding keeps the order in which the rows go back: as is,          *)
LEMMA PlainOrdered ==
  ASSUME CallIs(call), Accepted, call.mode = "plain",
         NEW ss, ss = PlainShards(call.lens, call.size, NumShards, call.micro)
  PROVE  \E P : Allotted(ss, P, call) /\ Ordered(call, P, IndexOrder(ss))
<1>1. PICK N, G, b, q : /\ N = Len(call.lens) /\ G = GlobalBatch(call) /\ b = call.size
                        /\ q = b \div NumShards
  OBVIOUS
<1>2. Sizes(N, G, b, NumShards, q)
  BY <1>1, CallSizes
<1>3. PICK P : /\ Allotted(ss, P, call)
               /\ P = [s \in 1 .. NumShards |-> Pieces(Rows(call.lens), s, G, b, q)]
  BY <1>1, PlainAllotted, Zenon
<1>4. ListOf(Rows(call.lens), N, 1 .. N)
  BY <1>1, <1>2, RowsList DEF CallIs, Sizes
<1>5. G = 1 => FlattenSeq(Column(P, NumShards, 1)) = Rows(call.lens)
  BY <1>2, <1>3, <1>4, PiecesJoin
<1>6. IndexOrder(ss) = Rows(call.lens)
  BY DEF IndexOrder
<1>7. QED
  BY <1>1, <1>3, <1>5, <1>6, Zenon DEF Ordered

(* sorted by length,                                                       *)
LEMMA DynamicOrdered ==
  ASSUME CallIs(call), Accepted, call.mode = "dynamic",
         NEW ss, ss = DynamicShards(call.lens, call.size, NumShards, Multiple, Budget)
  PROVE  \E P : Allotted(ss, P, call) /\ Ordered(call, P, IndexOrder(ss))
<1>1. PICK N, G, b, q : /\ N = Len(call.lens) /\ G = GlobalBatch(call) /\ b = call.size
                        /\ q = b \div NumShards
  OBVIOUS
<1>2. Sizes(N, G, b, NumShards, q)
  BY <1>1, CallSizes
<1>3. PICK P : /\ Allotted(ss, P, call)
               /\ P = [s \in 1 .. NumShards |-> Pieces(Sorted(call.lens, b, NumShards), s, G, b, q)]
  BY <1>1, DynamicAllotted, Zenon
<1>4. ListOf(Sorted(call.lens, b, NumShards), N, 1 .. N)
  <2>1. N \div b = G /\ b \div NumShards = q /\ Measured(call.lens, 1 .. N)
    BY <1>1 DEF GlobalBatch, CallIs
  <2>2. QED
    BY <1>2, <2>1, SortedIs
<1>5. G = 1 => FlattenSeq(Column(P, NumShards, 1)) = Sorted(call.lens, b, NumShards)
  BY <1>2, <1>3, <1>4, PiecesJoin
<1>6. IndexOrder(ss) = Sorted(call.lens, b, NumShards)
  BY <1>1 DEF IndexOrder
<1>7. QED
  BY <1>1, <1>3, <1>5, <1>6, Zenon DEF Ordered

(* and packed.                                                             *)
LEMMA PackedOrdered ==
  ASSUME CallIs(call), Accepted, call.mode \in Algorithms, BinsMade(bins, call),
         Len(bins) = GlobalBatch(call),
         NEW ss, ss = PackedShards(bins, PaddedLens, NumShards)
  PROVE  \E P : Allotted(ss, P, call) /\ Ordered(call, P, IndexOrder(ss))
<1>1. PICK P : Allotted(ss, P, call)
  BY PackedAllotted
<1>2. DOMAIN ss = 1 .. NumShards
  BY <1>1 DEF Allotted
<1>3. ASSUME GlobalBatch(call) = 1, NEW s \in 1 .. NumShards PROVE ss[s].rows = P[s][1]
  <2>1. PICK I : I = 1 .. Len(call.lens)
    OBVIOUS
  <2>2. Shape(ss[s], P[s], 1, I)
    BY <1>1, <1>3, <2>1 DEF Allotted, Splits
  <2>3. P[s] \in Seq(Seq(I)) /\ Len(P[s]) = 1 /\ ss[s].rows = FlattenSeq(P[s])
    BY <2>2, Zenon DEF Shape, Slices
  <2>4. QED
    BY <2>3, FlatOne, Zenon
<1>4. ASSUME GlobalBatch(call) = 1
      PROVE  [s \in DOMAIN ss |-> ss[s].rows] = Column(P, NumShards, 1)
  <2>1. \A s \in 1 .. NumShards : ss[s].rows = P[s][1]
    BY <1>3, <1>4, Zenon
  <2>2. [s \in DOMAIN ss |-> ss[s].rows] = [s \in 1 .. NumShards |-> P[s][1]]
    BY <1>2, <2>1
  <2>3. QED
    BY <2>2, Zenon DEF Column
<1>5. IndexOrder(ss) = FlattenSeq([s \in DOMAIN ss |-> ss[s].rows])
  <2>1. call.mode # "plain" /\ call.mode # "dynamic"
    BY DEF Algorithms
  <2>2. QED
    BY <2>1, Zenon DEF IndexOrder
<1>6. QED
  BY <1>1, <1>4, <1>5, Zenon DEF Ordered

-----------------------------------------------------------------------------
(* Before a call is dispatched there are no shards, updates or answers;    *)
(* when it has returned, train has stepped over the whole batch and the    *)
(* others have the answers in its order.                                   *)
Fresh == shards = <<>> /\ updates = <<>> /\ \A w \in Workers : answers[w] = <<>>
Finished ==
  IF call.method = "train" THEN Len(updates) * call.size = Len(call.lens)
  ELSE result = Rows(call.lens)
ValueInv ==
  /\ outcome \in {"called", "refused"} => Fresh
  /\ outcome \in {"running", "returned"} => \E P, t : Underway(P, t)
  /\ outcome = "returned" => Finished

(* A dispatched call has every worker at the first station.                *)
LEMMA BeginUnderway ==
  ASSUME StepInv, Fresh, NEW ss, \E Q : Allotted(ss, Q, call) /\ Ordered(call, Q, IndexOrder(ss)), Dispatched(ss)
  PROVE  (\E P, t : Underway(P, t))'
<1>1. PICK P : Allotted(ss, P, call) /\ Ordered(call, P, IndexOrder(ss))
  OBVIOUS
<1>2. /\ Accepted /\ shards' = ss /\ call' = call /\ pc' = pc /\ order' = IndexOrder(ss)
      /\ updates' = updates /\ answers' = answers /\ outcome = "called"
      /\ program' = [w \in Workers |-> Program(ss, w)]
  <2>1. shards' = ss /\ order' = IndexOrder(shards')
    BY Zenon DEF Dispatched
  <2>2. order' = IndexOrder(ss)
    BY <2>1, Zenon
  <2>3. QED
    BY <2>1, <2>2 DEF Dispatched
<1>3. CallIs(call) /\ pc = [w \in Workers |-> 1]
  BY <1>2 DEF StepInv
<1>4. PICK p : \A w \in Workers : program'[w] = p
  <2>1. \A w \in Workers : Program(ss, w) = Program(ss, 0)
    BY <1>1, <1>2, <1>3, SomeWorker, SamePrograms, Zenon
  <2>2. QED
    BY <1>2, <2>1
<1>5. Course(p, Tally(call, ss), GlobalBatch(call))
  <2>1. 0 \in Workers
    BY SomeWorker
  <2>2. Course(Program(ss, 0), Counts(ss), GlobalBatch(call))
    BY <1>1, <1>2, <1>3, <2>1, ProgramCourse
  <2>3. p = Program(ss, 0)
    BY <1>2, <1>4, <2>1
  <2>4. Counts(ss) = Tally(call, ss)
    BY DEF Counts, Tally
  <2>5. QED
    BY <2>2, <2>3, <2>4, Zenon
<1>6. PICK t : Route(call, Tally(call, ss), p, t)
  BY <1>5, CourseRoute
<1>7. PICK x : x = Start(call)
  OBVIOUS
<1>8. t[1] = x /\ Len(p) \in Nat
  <2>1. t[1] = x
    BY <1>6, <1>7, Zenon DEF Route, Trace
  <2>2. Len(p) \in Nat
    BY <1>5, CourseIn
  <2>3. QED
    BY <2>1, <2>2
<1>9. Plan(P, t)'
  <2>1. /\ Allotted(shards', P, call') /\ Ordered(call', P, order')
        /\ \A w \in Workers : Route(call', Tally(call', shards'), program'[w], t)
    BY <1>1, <1>2, <1>4, <1>6
  <2>2. QED
    BY <2>1 DEF Plan
<1>10. \A w \in Workers : pc'[w] = 1
  BY <1>2, <1>3
<1>11. PastEnd'
  BY <1>4, <1>8, <1>10 DEF PastEnd
<1>12. updates' = <<>>
  BY <1>2 DEF Fresh
<1>13. GlobalBatch(call) \in Nat /\ GlobalBatch(call) >= 1
  BY <1>2, <1>3, CallSizes DEF Sizes
<1>14. Recorded(call', P, updates')
  <2>1. Listing(<<>>) /\ Len(<<>>) = 0
    BY DEF Listing
  <2>2. \A u \in 1 .. 0, w \in Workers : StepFrom(call, P, updates'[u], u, w)
    OBVIOUS
  <2>3. QED
    BY <1>2, <1>12, <1>13, <2>1, <2>2 DEF Recorded
<1>15. ASSUME NEW w \in Workers
       PROVE  /\ t[pc'[w]].steps = Len(updates')
              /\ Has(call', shards', P, w, t[pc'[w]], grads'[w], valid'[w], answers'[w])
  <2>1. t[pc'[w]] = x /\ Len(updates') = 0
    BY <1>8, <1>10, <1>12
  <2>2. CASE call.method = "train"
    <3>1. x = Place(0, 0, 0, FALSE)
      BY <1>7, <2>2 DEF Start
    <3>2. x.steps = 0 /\ x.at = 0
      BY <3>1 DEF Place
    <3>3. QED
      BY <1>2, <2>1, <2>2, <3>2 DEF Has, Trained
  <2>3. CASE call.method # "train"
    <3>1. x = Place(0, 1, 0, FALSE)
      BY <1>7, <2>3 DEF Start
    <3>2. x.steps = 0 /\ x.at = 1 /\ x.done = 0
      BY <3>1 DEF Place
    <3>3. 1 \in 1 .. GlobalBatch(call)
      BY <1>13
    <3>4. PICK n : Served(call, ss, P, w, 1, n)
      BY <1>1, <1>3, <3>3, ServedIs
    <3>5. Kept(call, ss, P, w, 1, 0) = <<>>
      BY <3>4, KeptNone
    <3>6. answers'[w] = <<>>
      BY <1>2 DEF Fresh
    <3>7. answers'[w] = Kept(call, ss, P, w, 1, x.done)
      BY <3>2, <3>5, <3>6
    <3>8. Has(call, ss, P, w, x, grads'[w], valid'[w], answers'[w])
      BY <2>3, <3>2, <3>7 DEF Has, Answered
    <3>9. QED
      BY <1>2, <2>1, <3>2, <3>8
  <2>4. QED
    BY <2>2, <2>3
<1>16. Holdings(P, t)'
  BY <1>15 DEF Holdings
<1>17. Underway(P, t)'
  BY <1>9, <1>11, <1>14, <1>16 DEF Underway
<1>18. QED
  BY <1>17

-----------------------------------------------------------------------------
(***************************************************************************)
(* The workers whose answers are taken.                                    *)
(***************************************************************************)
Onto(f, T, n) ==
  /\ f \in [T -> 0 .. n - 1]
  /\ \A x, y \in T : f[x] = f[y] => x = y
  /\ \A k \in 0 .. n - 1 : \E x \in T : f[x] = k

(* A set that maps one to one onto 0 .. n - 1 has n elements.              *)
LEMMA CountAs ==
  ASSUME NEW T, NEW n \in Nat, NEW f, Onto(f, T, n)
  PROVE  Cardinality(T) = n
<1>1. PICK U : U = 0 .. n - 1
  OBVIOUS
<1>2. PICK g : g = [k \in U |-> CHOOSE x \in T : f[x] = k]
  OBVIOUS
<1>3. ExistsBijection(U, T)
  <2>1. \A k \in U : g[k] \in T /\ f[g[k]] = k
    BY <1>1, <1>2, Zenon DEF Onto
  <2>2. \A x \in T : f[x] \in U /\ g[f[x]] = x
    BY <1>1, <2>1 DEF Onto
  <2>3. g \in [U -> T]
    BY <1>2, <2>1
  <2>4. g \in Bijection(U, T)
    BY <2>1, <2>2, <2>3 DEF Bijection, Injection, Surjection, IsInjective
  <2>5. QED
    BY <2>4 DEF ExistsBijection
<1>4. IsFiniteSet(U) /\ Cardinality(U) = n
  BY <1>1, FS_Interval
<1>5. QED
  BY <1>3, <1>4, FS_Bijection

FirstCopies == {w \in Workers : Replica(w) = 0}
Lower == {p \in Workers \X Workers : p[1] < p[2]}

(* The first copies are numbered by shard,                                 *)
LEMMA FirstBefore ==
  ASSUME NEW x \in FirstCopies, NEW y \in FirstCopies
  PROVE  y < x <=> Shard(y) < Shard(x)
<1>1. NumShards \in Nat /\ NumShards > 0 /\ NumReplicas \in Nat /\ NumReplicas > 0
  BY BatchAssumption
<1>2. x \in Workers /\ y \in Workers /\ Replica(x) = 0 /\ Replica(y) = 0
  BY DEF FirstCopies
<1>3. PICK i \in Nat, j \in Nat : i = Shard(x) /\ j = Shard(y)
  BY <1>1, <1>2, WorkerIs
<1>4. CASE call.backend = "megatron"
  <2>1. x = 0 * NumShards + i /\ y = 0 * NumShards + j
    BY <1>2, <1>3, <1>4, WorkerIs, Zenon
  <2>2. QED
    BY <1>1, <1>3, <2>1
<1>5. CASE call.backend # "megatron"
  <2>1. x = i * NumReplicas + 0 /\ y = j * NumReplicas + 0
    BY <1>2, <1>3, <1>5, WorkerIs, Zenon
  <2>2. PICK a \in Nat, b \in Nat : a = i * NumReplicas /\ b = j * NumReplicas
    BY <1>1
  <2>3. x = a /\ y = b
    BY <2>1, <2>2
  <2>4. CASE j < i
    <3>1. (j + 1) * NumReplicas <= i * NumReplicas /\ (j + 1) * NumReplicas = j * NumReplicas + 1 * NumReplicas
      BY <1>1, <2>4, Multiples
    <3>2. b < a
      BY <1>1, <2>2, <3>1
    <3>3. QED
      BY <1>3, <2>3, <2>4, <3>2
  <2>5. CASE i < j
    <3>1. (i + 1) * NumReplicas <= j * NumReplicas /\ (i + 1) * NumReplicas = i * NumReplicas + 1 * NumReplicas
      BY <1>1, <2>5, Multiples
    <3>2. a < b
      BY <1>1, <2>2, <3>1
    <3>3. QED
      BY <1>3, <2>3, <2>5, <3>2
  <2>6. CASE i = j
    BY <1>3, <2>2, <2>3, <2>6
  <2>7. QED
    BY <2>4, <2>5, <2>6
<1>6. QED
  BY <1>4, <1>5

(* every shard has one                                                     *)
LEMMA FirstAt ==
  ASSUME NEW s \in 0 .. NumShards - 1
  PROVE  \E w \in FirstCopies : Works(w, s, 0)
<1>1. 0 \in 0 .. NumReplicas - 1
  BY BatchAssumption
<1>2. PICK w : Works(w, s, 0)
  BY <1>1, WorkerAt
<1>3. QED
  BY <1>2 DEF Works, FirstCopies

(* and no two.                                                             *)
LEMMA FirstAlone ==
  ASSUME NEW x \in FirstCopies, NEW y \in FirstCopies, Shard(x) = Shard(y)
  PROVE  x = y
<1>1. Works(x, Shard(x), 0) /\ Works(y, Shard(x), 0)
  BY DEF Works, FirstCopies
<1>2. QED
  BY <1>1, WorkerAlone

(* So there are as many as shards,                                         *)
LEMMA FirstsCount == Cardinality(FirstCopies) = NumShards
<1>1. PICK f : f = [w \in FirstCopies |-> Shard(w)]
  OBVIOUS
<1>2. \A w \in FirstCopies : Shard(w) \in 0 .. NumShards - 1
  BY WorkerIs DEF FirstCopies
<1>3. \A k \in 0 .. NumShards - 1 : \E x \in FirstCopies : f[x] = k
  BY <1>1, FirstAt DEF Works
<1>4. Onto(f, FirstCopies, NumShards)
  BY <1>1, <1>2, <1>3, FirstAlone DEF Onto
<1>5. QED
  BY <1>4, BatchAssumption, CountAs

(* and a worker is preceded by the shards before its own.                  *)
LEMMA FirstRank ==
  ASSUME NEW x \in FirstCopies
  PROVE  Cardinality({y \in FirstCopies : <<y, x>> \in Lower}) = Shard(x)
<1>1. PICK T, n : T = {y \in FirstCopies : <<y, x>> \in Lower} /\ n = Shard(x)
  OBVIOUS
<1>2. NumShards \in Nat /\ n \in 0 .. NumShards - 1 /\ n \in Nat
  BY <1>1, WorkerIs, BatchAssumption DEF FirstCopies
<1>3. \A y \in FirstCopies : y \in T <=> Shard(y) < n
  <2>1. \A y \in FirstCopies : <<y, x>> \in Lower <=> y < x
    BY DEF FirstCopies, Lower
  <2>2. QED
    BY <1>1, <2>1, FirstBefore
<1>4. PICK f : f = [y \in T |-> Shard(y)]
  OBVIOUS
<1>5. \A y \in T : y \in FirstCopies /\ Shard(y) \in 0 .. n - 1
  <2>1. \A y \in T : y \in FirstCopies
    BY <1>1
  <2>2. \A y \in FirstCopies : Shard(y) \in 0 .. NumShards - 1
    BY WorkerIs DEF FirstCopies
  <2>3. QED
    BY <1>2, <1>3, <2>1, <2>2
<1>6. ASSUME NEW k \in 0 .. n - 1 PROVE \E y \in T : f[y] = k
  <2>1. k \in 0 .. NumShards - 1 /\ k < n
    BY <1>2
  <2>2. PICK y \in FirstCopies : Works(y, k, 0)
    BY <2>1, FirstAt
  <2>3. y \in T
    BY <1>3, <2>1, <2>2 DEF Works
  <2>4. QED
    BY <1>4, <2>2, <2>3 DEF Works
<1>7. Onto(f, T, n)
  BY <1>4, <1>5, <1>6, FirstAlone DEF Onto
<1>8. QED
  BY <1>1, <1>2, <1>7, CountAs

(* The driver takes the answers shard by shard.                            *)
LEMMA ReturnFromIs ==
  /\ DOMAIN ReturnFrom = 1 .. NumShards
  /\ \A s \in 1 .. NumShards : Works(ReturnFrom[s], s - 1, 0)
<1>1. ReturnFrom = [k \in 1 .. Cardinality(FirstCopies) |->
                      CHOOSE x \in FirstCopies : Cardinality({y \in FirstCopies : <<y, x>> \in Lower}) = k - 1]
  BY Zenon DEF ReturnFrom, Listed, FirstCopies, Lower
<1>2. Cardinality(FirstCopies) = NumShards
  BY FirstsCount
<1>3. ASSUME NEW s \in 1 .. NumShards PROVE Works(ReturnFrom[s], s - 1, 0)
  <2>1. ReturnFrom[s] = CHOOSE x \in FirstCopies : Cardinality({y \in FirstCopies : <<y, x>> \in Lower}) = s - 1
    BY <1>1, <1>2
  <2>2. s - 1 \in 0 .. NumShards - 1
    BY BatchAssumption
  <2>3. PICK w \in FirstCopies : Works(w, s - 1, 0)
    BY <2>2, FirstAt
  <2>4. Cardinality({y \in FirstCopies : <<y, w>> \in Lower}) = s - 1
    BY <2>3, FirstRank DEF Works
  <2>5. PICK x : x = ReturnFrom[s]
    OBVIOUS
  <2>6. x \in FirstCopies /\ Cardinality({y \in FirstCopies : <<y, x>> \in Lower}) = s - 1
    BY <2>1, <2>3, <2>4, <2>5, Zenon
  <2>7. Shard(x) = s - 1
    BY <2>6, FirstRank
  <2>8. QED
    BY <2>5, <2>6, <2>7 DEF Works, FirstCopies
<1>4. QED
  BY <1>1, <1>2, <1>3

(* Answers that come as their rows, put back by the order of the rows.     *)
LEMMA ReorderedSelf ==
  ASSUME NEW N \in Nat, NEW F, Enumerates(F, 1 .. N), Len(F) = N
  PROVE  Reordered(F, F) = [i \in 1 .. N |-> i]
<1>1. F \in Seq(1 .. N) /\ DOMAIN F = 1 .. N
  BY DEF Enumerates
<1>2. ASSUME NEW i \in 1 .. N PROVE F[CHOOSE k \in DOMAIN F : F[k] = i] = i
  <2>1. \E k \in DOMAIN F : F[k] = i
    BY <1>1 DEF Enumerates
  <2>2. QED
    BY <2>1, Zenon
<1>3. Reordered(F, F) = [i \in DOMAIN F |-> F[CHOOSE k \in DOMAIN F : F[k] = i]]
  BY Zenon DEF Reordered
<1>4. QED
  BY <1>1, <1>2, <1>3, Zenon

(* A worker that is through.                                               *)
LEMMA ThroughIs ==
  ASSUME StepInv, outcome = "running", NEW P, NEW t, Underway(P, t), NEW w \in Workers,
         pc[w] > Len(program[w])
  PROVE  /\ call.method = "train" => Len(updates) = GlobalBatch(call)
         /\ call.method # "train" => answers[w] = P[Shard(w) + 1][1]
<1>1. /\ Allotted(shards, P, call) /\ Route(call, Tally(call, shards), program[w], t)
      /\ t[pc[w]].steps = Len(updates)
      /\ Has(call, shards, P, w, t[pc[w]], grads[w], valid[w], answers[w])
      /\ pc[w] \in 1 .. Len(program[w]) + 1
  BY DEF Underway, Plan, Holdings, PastEnd
<1>2. CallIs(call) /\ Accepted /\ Len(program[w]) \in Nat
  BY CourseIn DEF StepInv, Prepared
<1>3. pc[w] = Len(program[w]) + 1
  BY <1>1, <1>2
<1>4. PICK y : /\ Trace(t, program[w], Start(call), y, call.method = "train", Tally(call, shards), GlobalBatch(call))
               /\ Finish(call, Tally(call, shards), y)
  BY <1>1, Zenon DEF Route
<1>5. t[pc[w]] = y
  BY <1>3, <1>4, Zenon DEF Trace
<1>6. CASE call.method = "train"
  BY <1>1, <1>4, <1>5, <1>6 DEF Finish
<1>7. CASE call.method # "train"
  <2>1. 1 \in 1 .. GlobalBatch(call)
    BY <1>2, CallSizes DEF Sizes
  <2>2. /\ y.done = Tally(call, shards)[1] /\ (call.backend = "megatron" => y.sent = TRUE)
    BY <1>4, <1>7 DEF Finish
  <2>3. y.done = MicroCount(shards, 1)
    BY <2>1, <2>2, TallyIs
  <2>4. Speaks(call, w) \/ y.sent
    BY <2>2 DEF Speaks
  <2>5. answers[w] = Kept(call, shards, P, w, 1, y.done)
    BY <1>1, <1>5, <1>7, <2>4 DEF Has, Answered
  <2>6. PICK n : Served(call, shards, P, w, 1, n)
    BY <1>1, <1>2, <2>1, ServedIs
  <2>7. answers[w] = Lot(call, P, w, 1)
    BY <2>3, <2>5, <2>6, KeptAll
  <2>8. Lot(call, P, w, 1) = P[Shard(w) + 1][1]
    BY SideIs DEF Lot
  <2>9. QED
    BY <1>7, <2>7, <2>8
<1>8. QED
  BY <1>6, <1>7

(* So the driver returns the rows in the order it was given.               *)
LEMMA ReturnFinished ==
  ASSUME StepInv, NEW P, NEW t, Underway(P, t), Return
  PROVE  Finished'
<1>1. /\ outcome = "running" /\ call' = call /\ updates' = updates
      /\ \A w \in Workers : pc[w] > Len(program[w])
  BY DEF Return
<1>2. CallIs(call) /\ Accepted /\ Allotted(shards, P, call) /\ Ordered(call, P, order)
  BY <1>1 DEF StepInv, Prepared, Underway, Plan
<1>3. PICK N, G, b : N = Len(call.lens) /\ G = GlobalBatch(call) /\ b = call.size
  OBVIOUS
<1>4. Sizes(N, G, b, NumShards, b \div NumShards)
  BY <1>2, <1>3, CallSizes
<1>5. CASE call.method = "train"
  <2>1. Len(updates) = G
    BY <1>1, <1>3, <1>5, SomeWorker, ThroughIs
  <2>2. G * b = N
    BY <1>4 DEF Sizes
  <2>3. QED
    BY <1>1, <1>3, <1>5, <2>1, <2>2 DEF Finished
<1>6. CASE call.method # "train"
  <2>1. G = 1 /\ b = N /\ N \in Nat /\ Measured(call.lens, 1 .. N)
    BY <1>2, <1>3, <1>6, CallSizes DEF CallIs
  <2>2. PICK col : col = Column(P, NumShards, 1)
    OBVIOUS
  <2>3. \A s \in 1 .. NumShards : answers[ReturnFrom[s]] = P[s][1]
    <3> SUFFICES ASSUME NEW s \in 1 .. NumShards PROVE answers[ReturnFrom[s]] = P[s][1]
      OBVIOUS
    <3>1. PICK w : w = ReturnFrom[s] /\ w \in Workers /\ Shard(w) = s - 1
      BY ReturnFromIs DEF Works
    <3>2. answers[w] = P[Shard(w) + 1][1]
      BY <1>1, <1>6, <3>1, ThroughIs
    <3>3. Shard(w) + 1 = s
      BY <3>1
    <3>4. QED
      BY <3>1, <3>2, <3>3
  <2>4. [k \in DOMAIN ReturnFrom |-> answers[ReturnFrom[k]]] = col
    <3>1. [k \in DOMAIN ReturnFrom |-> answers[ReturnFrom[k]]] = [s \in 1 .. NumShards |-> P[s][1]]
      BY <2>3, ReturnFromIs
    <3>2. QED
      BY <2>2, <3>1 DEF Column
  <2>5. PICK F : F = FlattenSeq(col)
    OBVIOUS
  <2>6. order = F
    BY <1>2, <1>3, <2>1, <2>2, <2>5 DEF Ordered
  <2>7. result' = Reordered(F, F)
    <3>1. result' = Reordered(FlattenSeq([k \in DOMAIN ReturnFrom |-> answers[ReturnFrom[k]]]), order)
      BY <1>6 DEF Return
    <3>2. QED
      BY <2>4, <2>5, <2>6, <3>1, Zenon
  <2>8. Enumerates(F, 1 .. N)
    <3>1. 1 \in 1 .. GlobalBatch(call)
      BY <1>3, <2>1
    <3>2. col \in Seq(Seq(1 .. N)) /\ Holds(col, Chunk(1, b))
      BY <1>2, <1>3, <2>2, <3>1, ColumnIs
    <3>3. Enumerates(F, Chunk(1, b))
      BY <2>5, <3>2, HeldFlat
    <3>4. Chunk(1, b) = 1 .. N
      <4>1. (1 - 1) * b = 0
        BY <2>1
      <4>2. QED
        BY <2>1, <4>1 DEF Chunk
    <3>5. QED
      BY <3>3, <3>4
  <2>9. Len(F) = N
    <3>1. Len(F) = Cardinality(1 .. N)
      BY <2>8, ListedSize
    <3>2. Cardinality(1 .. N) = N
      BY <2>1, FS_Interval
    <3>3. QED
      BY <3>1, <3>2
  <2>10. Reordered(F, F) = [i \in 1 .. N |-> i]
    BY <2>1, <2>8, <2>9, ReorderedSelf
  <2>11. Rows(call.lens) = [i \in 1 .. N |-> i]
    BY <2>1 DEF Rows, Measured
  <2>12. QED
    BY <1>1, <1>6, <2>7, <2>10, <2>11 DEF Finished
<1>7. QED
  BY <1>5, <1>6

(* What touches no worker keeps the ways.                                  *)
LEMMA UnderwayStays ==
  ASSUME NEW P, NEW t, Underway(P, t), call' = call, shards' = shards, order' = order,
         program' = program, pc' = pc, valid' = valid, grads' = grads, updates' = updates, answers' = answers
  PROVE  Underway(P, t)'
<1>1. Plan(P, t) /\ PastEnd /\ Recorded(call, P, updates) /\ Holdings(P, t)
  BY DEF Underway
<1>2. Plan(P, t)'
  BY <1>1, PlanStays
<1>3. PastEnd'
  BY <1>1 DEF PastEnd
<1>4. Recorded(call', P, updates')
  BY <1>1
<1>5. Holdings(P, t)'
  BY <1>1 DEF Holdings
<1>6. QED
  BY <1>2, <1>3, <1>4, <1>5 DEF Underway

(* Whatever a worker does keeps them.                                      *)
LEMMA WorkUnderway ==
  ASSUME StepInv, outcome = "running", NEW P, NEW t, Underway(P, t), NEW u \in Workers, Work(u)
  PROVE  Underway(P, t)'
<1>1. CASE Exchange(u)
  BY <1>1, ExchangeOn
<1>2. CASE ValidTokens(u)
  BY <1>2, ValidTokensOn
<1>3. CASE Broadcast(u)
  BY <1>3, BroadcastOn
<1>4. CASE Step(u)
  BY <1>4, StepOn
<1>5. PICK ops : ops = {"forward"} /\ ops \subseteq {"forward", "stages"}
  OBVIOUS
<1>6. PICK spo : spo = {"stages"} /\ spo \subseteq {"forward", "stages"}
  OBVIOUS
<1>7. CASE ForwardTrain(u)
  <2>1. Meet(u, ops) /\ Contribute(u)
    BY <1>5, <1>7, Zenon DEF ForwardTrain
  <2>2. QED
    BY <1>5, <2>1, ContributeOn
<1>8. CASE StagesTrain(u)
  <2>1. Meet(u, spo) /\ Contribute(u)
    BY <1>6, <1>8, Zenon DEF StagesTrain
  <2>2. QED
    BY <1>6, <2>1, ContributeOn
<1>9. CASE ForwardAnswer(u)
  <2>1. Meet(u, ops) /\ Answer(u)
    BY <1>5, <1>9, Zenon DEF ForwardAnswer
  <2>2. QED
    BY <1>5, <2>1, AnswerOn
<1>10. CASE StagesAnswer(u)
  <2>1. Meet(u, spo) /\ Answer(u)
    BY <1>6, <1>10, Zenon DEF StagesAnswer
  <2>2. QED
    BY <1>6, <2>1, AnswerOn
<1>11. QED
  BY <1>1, <1>2, <1>3, <1>4, <1>7, <1>8, <1>9, <1>10 DEF Work

(* Nothing is held before the first call.                                  *)
LEMMA ValueInit == Init => ValueInv
<1> SUFFICES ASSUME Init PROVE ValueInv
  OBVIOUS
<1>1. outcome = "called" /\ shards = <<>> /\ updates = <<>> /\ answers = [w \in Workers |-> <<>>]
  BY DEF Init
<1>2. Fresh
  BY <1>1 DEF Fresh
<1>3. QED
  BY <1>1, <1>2 DEF ValueInv

(* Nor until a call is dispatched.                                         *)
LEMMA FreshStays ==
  ASSUME Fresh, shards' = shards, updates' = updates, answers' = answers
  PROVE  Fresh'
BY DEF Fresh

(* Dispatching puts every worker on its way.                               *)
LEMMA BeginValue ==
  ASSUME StepInv, ValueInv, NEW ss, \E Q : Allotted(ss, Q, call) /\ Ordered(call, Q, IndexOrder(ss)),
         Dispatched(ss)
  PROVE  ValueInv'
<1>1. outcome = "called" /\ outcome' = "running"
  BY DEF Dispatched
<1>2. Fresh
  BY <1>1 DEF ValueInv
<1>3. (\E P, t : Underway(P, t))'
  BY <1>2, BeginUnderway
<1>4. outcome' \notin {"called", "refused"} /\ outcome' # "returned"
  BY <1>1
<1>5. QED
  BY <1>3, <1>4 DEF ValueInv

(* Every step keeps the invariant.                                         *)
LEMMA ValueNext == StepInv /\ ValueInv /\ [Next]_vars => ValueInv'
<1> SUFFICES ASSUME StepInv, ValueInv, [Next]_vars PROVE ValueInv'
  OBVIOUS
<1>1. CASE Refuse
  <2>1. /\ outcome = "called" /\ outcome' = "refused" /\ shards' = shards /\ updates' = updates
        /\ answers' = answers
    BY <1>1 DEF Refuse
  <2>2. Fresh'
    BY <2>1, FreshStays DEF ValueInv
  <2>3. QED
    BY <2>1, <2>2 DEF ValueInv
<1>2. CASE ShardPlain
  <2>1. PICK ss : ss = PlainShards(call.lens, call.size, NumShards, call.micro) /\ Dispatched(ss) /\ call.mode = "plain"
    BY <1>2 DEF ShardPlain
  <2>2. CallIs(call) /\ Accepted
    BY <2>1 DEF StepInv, Dispatched
  <2>3. \E P : Allotted(ss, P, call) /\ Ordered(call, P, IndexOrder(ss))
    BY <2>1, <2>2, PlainOrdered, Zenon
  <2>4. QED
    BY <2>1, <2>3, BeginValue
<1>3. CASE ShardDynamic
  <2>1. PICK ss : /\ ss = DynamicShards(call.lens, call.size, NumShards, Multiple, Budget)
                  /\ Dispatched(ss) /\ call.mode = "dynamic"
    BY <1>3 DEF ShardDynamic
  <2>2. CallIs(call) /\ Accepted
    BY <2>1 DEF StepInv, Dispatched
  <2>3. \E P : Allotted(ss, P, call) /\ Ordered(call, P, IndexOrder(ss))
    BY <2>1, <2>2, DynamicOrdered, Zenon
  <2>4. QED
    BY <2>1, <2>3, BeginValue
<1>4. CASE PackChunk
  <2>1. /\ outcome = "called" /\ outcome' = outcome /\ shards' = shards /\ updates' = updates
        /\ answers' = answers
    BY <1>4 DEF PackChunk
  <2>2. Fresh'
    BY <2>1, FreshStays DEF ValueInv
  <2>3. QED
    BY <2>1, <2>2 DEF ValueInv
<1>5. CASE ShardPacked
  <2>1. PICK ss : /\ ss = PackedShards(bins, PaddedLens, NumShards) /\ Dispatched(ss)
                  /\ call.mode \in Algorithms /\ Len(bins) = GlobalBatch(call)
    BY <1>5 DEF ShardPacked, GlobalBatch
  <2>2. CallIs(call) /\ Accepted
    BY <2>1 DEF StepInv, Dispatched
  <2>3. BinsMade(bins, call)
    BY <2>2, NoBinsMade DEF StepInv
  <2>4. \E P : Allotted(ss, P, call) /\ Ordered(call, P, IndexOrder(ss))
    BY <2>1, <2>2, <2>3, PackedOrdered
  <2>5. QED
    BY <2>1, <2>4, BeginValue
<1>6. CASE Return
  <2>1. /\ outcome = "running" /\ outcome' = "returned" /\ call' = call /\ shards' = shards /\ order' = order
        /\ program' = program /\ pc' = pc /\ valid' = valid /\ grads' = grads /\ updates' = updates
        /\ answers' = answers
    BY <1>6 DEF Return
  <2>2. PICK P, t : Underway(P, t)
    BY <2>1 DEF ValueInv
  <2>3. Finished'
    BY <1>6, <2>2, ReturnFinished
  <2>4. Underway(P, t)'
    BY <2>1, <2>2, UnderwayStays
  <2>5. (\E Q, z : Underway(Q, z))'
    BY <2>4
  <2>6. outcome' \notin {"called", "refused"}
    BY <2>1
  <2>7. QED
    BY <2>3, <2>5, <2>6 DEF ValueInv
<1>7. CASE UNCHANGED vars
  <2>1. /\ call' = call /\ shards' = shards /\ order' = order /\ program' = program /\ pc' = pc
        /\ valid' = valid /\ grads' = grads /\ updates' = updates /\ answers' = answers
        /\ outcome' = outcome /\ result' = result
    BY <1>7 DEF vars
  <2>2. outcome \in {"called", "refused"} => Fresh'
    BY <2>1, FreshStays DEF ValueInv
  <2>3. ASSUME outcome \in {"running", "returned"} PROVE (\E P, t : Underway(P, t))'
    <3>1. PICK P, t : Underway(P, t)
      BY <2>3 DEF ValueInv
    <3>2. Underway(P, t)'
      BY <2>1, <3>1, UnderwayStays
    <3>3. QED
      BY <3>2
  <2>4. outcome = "returned" => Finished'
    BY <2>1 DEF ValueInv, Finished
  <2>5. QED
    BY <2>1, <2>2, <2>3, <2>4 DEF ValueInv
<1>8. ASSUME NEW u \in Workers, Work(u) PROVE ValueInv'
  <2>1. PICK ops : Meet(u, ops)
    BY <1>8, WorkMeets
  <2>2. outcome' = outcome /\ outcome = "running"
    BY <2>1 DEF Meet, Running
  <2>3. PICK P, t : Underway(P, t)
    BY <2>2 DEF ValueInv
  <2>4. Underway(P, t)'
    BY <1>8, <2>2, <2>3, WorkUnderway
  <2>5. (\E Q, z : Underway(Q, z))'
    BY <2>4
  <2>6. outcome' \notin {"called", "refused"} /\ outcome' # "returned"
    BY <2>2
  <2>7. QED
    BY <2>5, <2>6 DEF ValueInv
<1>9. QED
  BY <1>1, <1>2, <1>3, <1>4, <1>5, <1>6, <1>7, <1>8 DEF Next, Driver, Done

(* What the updates were taken from.                                       *)
LEMMA UpdateIs ==
  ASSUME StepInv, ValueInv, NEW u \in DOMAIN updates
  PROVE  /\ CallIs(call) /\ Accepted /\ u \in 1 .. GlobalBatch(call)
         /\ \E P : Allotted(shards, P, call) /\ \A w \in Workers : StepFrom(call, P, updates[u], u, w)
<1>1. outcome \in {"running", "returned"}
  <2>1. updates = <<>> => FALSE
    OBVIOUS
  <2>2. outcome \in {"called", "refused"} => FALSE
    BY <2>1 DEF ValueInv, Fresh
  <2>3. QED
    BY <2>2 DEF StepInv
<1>2. PICK P, t : Underway(P, t)
  BY <1>1 DEF ValueInv
<1>3. CallIs(call) /\ Accepted
  BY <1>1 DEF StepInv, Prepared
<1>4. Allotted(shards, P, call) /\ Recorded(call, P, updates)
  BY <1>2 DEF Underway, Plan
<1>5. DOMAIN updates = 1 .. Len(updates) /\ Len(updates) \in Nat
  BY <1>4, ListingDomain DEF Recorded
<1>6. GlobalBatch(call) \in Nat
  BY <1>3, CallSizes DEF Sizes
<1>7. u \in 1 .. GlobalBatch(call)
  BY <1>4, <1>5, <1>6 DEF Recorded
<1>8. \A w \in Workers : StepFrom(call, P, updates[u], u, w)
  BY <1>4, <1>5 DEF Recorded
<1>9. QED
  BY <1>3, <1>4, <1>7, <1>8

(* Every update divides by the tokens of its whole batch.                  *)
LEMMA ValueNormal == StepInv /\ ValueInv => GlobalNormalizer
<1> SUFFICES ASSUME StepInv, ValueInv, NEW u \in DOMAIN updates, NEW w \in Workers
             PROVE  updates[u].valid[w] = Norm(u)
  BY DEF GlobalNormalizer, Norm
<1>1. CallIs(call) /\ Accepted /\ u \in 1 .. GlobalBatch(call)
  BY UpdateIs
<1>2. PICK P : \A v \in Workers : StepFrom(call, P, updates[u], u, v)
  BY UpdateIs
<1>3. updates[u].valid[w] = Due(call, u)
  BY <1>2 DEF StepFrom
<1>4. QED
  BY <1>1, <1>3, DueIs

(* The rows the workers of one replica took a step from.                   *)
Sole(s, r) == CHOOSE w \in Workers : Shard(w) = s - 1 /\ Replica(w) = r
RowsOf(u, r) == FlattenSeq([s \in 1 .. NumShards |-> updates[u].rows[Sole(s, r)]])

(* A replica's part of an update has each row of the batch once.           *)
LEMMA RowsOfAre ==
  ASSUME StepInv, ValueInv, NEW u \in DOMAIN updates, NEW r \in 0 .. NumReplicas - 1
  PROVE  Enumerates(RowsOf(u, r), Chunk(u, call.size))
<1>1. CallIs(call) /\ Accepted /\ u \in 1 .. GlobalBatch(call)
  BY UpdateIs
<1>2. PICK P : Allotted(shards, P, call) /\ \A v \in Workers : StepFrom(call, P, updates[u], u, v)
  BY UpdateIs
<1>3. ASSUME NEW s \in 1 .. NumShards PROVE updates[u].rows[Sole(s, r)] = P[s][u]
  <2>1. s - 1 \in 0 .. NumShards - 1
    BY BatchAssumption
  <2>2. PICK v : Works(v, s - 1, r)
    BY <2>1, WorkerAt
  <2>3. PICK w : w = Sole(s, r)
    OBVIOUS
  <2>4. w \in Workers /\ Shard(w) = s - 1
    BY <2>2, <2>3, Zenon DEF Sole, Works
  <2>5. updates[u].rows[w] = Lot(call, P, w, u)
    BY <1>2, <2>4 DEF StepFrom
  <2>6. Lot(call, P, w, u) = P[Shard(w) + 1][u]
    BY SideIs DEF Lot
  <2>7. Shard(w) + 1 = s
    BY <2>4
  <2>8. QED
    BY <2>3, <2>5, <2>6, <2>7
<1>4. PICK col : col = Column(P, NumShards, u)
  OBVIOUS
<1>5. [s \in 1 .. NumShards |-> updates[u].rows[Sole(s, r)]] = col
  <2>1. [s \in 1 .. NumShards |-> updates[u].rows[Sole(s, r)]] = [s \in 1 .. NumShards |-> P[s][u]]
    BY <1>3
  <2>2. QED
    BY <1>4, <2>1 DEF Column
<1>6. RowsOf(u, r) = FlattenSeq(col)
  BY <1>5, Zenon DEF RowsOf
<1>7. col \in Seq(Seq(1 .. Len(call.lens))) /\ Holds(col, Chunk(u, call.size))
  BY <1>1, <1>2, <1>4, ColumnIs
<1>8. QED
  BY <1>6, <1>7, HeldFlat

(* So every update has each row once per replica.                          *)
LEMMA ValueRows == StepInv /\ ValueInv => EachRowOnce
<1> SUFFICES ASSUME StepInv, ValueInv PROVE EachRowOnce
  OBVIOUS
<1>1. ASSUME NEW u \in DOMAIN updates, NEW r \in 0 .. NumReplicas - 1
      PROVE  /\ Len(RowsOf(u, r)) = call.size
             /\ Range(RowsOf(u, r)) = Range(Part(Rows(call.lens), u, call.size))
  <2>1. CallIs(call) /\ Accepted /\ u \in 1 .. GlobalBatch(call)
    BY UpdateIs
  <2>2. PICK D, part : D = Chunk(u, call.size) /\ part = Part(Rows(call.lens), u, call.size)
    OBVIOUS
  <2>3. Enumerates(part, D) /\ Len(part) = call.size
    BY <2>1, <2>2, ChunkIn
  <2>4. Enumerates(RowsOf(u, r), D)
    BY <2>2, RowsOfAre
  <2>5. Len(RowsOf(u, r)) = Cardinality(D) /\ Len(part) = Cardinality(D)
    BY <2>3, <2>4, ListedSize
  <2>6. Range(RowsOf(u, r)) = D /\ Range(part) = D
    BY <2>3, <2>4, RangeListed
  <2>7. QED
    BY <2>2, <2>3, <2>5, <2>6
<1>2. outcome = "returned" /\ call.method = "train" => Len(updates) * call.size = Len(call.lens)
  BY DEF ValueInv, Finished
<1>3. \A u \in DOMAIN updates, r \in 0 .. NumReplicas - 1 :
        LET rows == FlattenSeq([s \in 1 .. NumShards |->
                      updates[u].rows[CHOOSE w \in Workers : Shard(w) = s - 1 /\ Replica(w) = r]])
        IN Len(rows) = call.size /\ Range(rows) = Range(Part(Rows(call.lens), u, call.size))
  BY <1>1, Zenon DEF RowsOf, Sole
<1>4. QED
  BY <1>2, <1>3, Zenon DEF EachRowOnce

(* No microbatch exceeds the budget.                                       *)
LEMMA ValueWithin == StepInv /\ ValueInv => WithinBudget
<1> SUFFICES ASSUME StepInv, ValueInv PROVE WithinBudget
  OBVIOUS
<1>1. CASE outcome \in {"called", "refused"}
  BY <1>1, NoShards DEF ValueInv, Fresh
<1>2. CASE outcome \in {"running", "returned"}
  <2>1. PICK P, t : Underway(P, t)
    BY <1>2 DEF ValueInv
  <2>2. CallIs(call) /\ Allotted(shards, P, call)
    BY <2>1 DEF StepInv, Underway, Plan
  <2>3. QED
    BY <2>2, AllottedWithin
<1>3. QED
  BY <1>1, <1>2 DEF StepInv

(* What the caller gets back is the answer to each of its rows.            *)
LEMMA ValueOwn == StepInv /\ ValueInv => OwnResult
BY DEF ValueInv, Finished, OwnResult

(* The gradients and the answers of a worker are always those of the       *)
(* microbatches it is past, of the rows it was allotted; an optimizer step *)
(* is taken from all of them.                                              *)
THEOREM ValueAlways == Spec => [](StepInv /\ ValueInv)
<1>1. Init => StepInv /\ ValueInv
  BY StepInit, ValueInit
<1>2. StepInv /\ ValueInv /\ [Next]_vars => (StepInv /\ ValueInv)'
  BY StepNext, ValueNext
<1>3. QED
  BY <1>1, <1>2, PTL DEF Spec

(* Every optimizer step takes each row of its global batch once, in a      *)
(* microbatch that cuts no row short and is within the token budget, and a *)
(* train that returns has stepped over the whole batch.                    *)
THEOREM RowsWhole == Spec => []EachRowWhole
<1>1. StepInv /\ ValueInv => EachRowWhole
  BY ValueRows, ValueWithin DEF EachRowWhole
<1>2. QED
  BY <1>1, ValueAlways, PTL

(* Every worker steps with the loss normalised by the valid tokens of the  *)
(* whole global batch: the all_reduce of train adds up what the shards     *)
(* hold, whatever they hold.                                               *)
THEOREM NormalizedGlobally == Spec => []GlobalNormalizer
<1>1. QED
  BY ValueNormal, ValueAlways, PTL

(* The answer returned for a row is the one computed from it: sharding,    *)
(* packing, dummies, the pick of one replica and reorder_data cancel out.  *)
THEOREM ResultsOwn == Spec => []OwnResult
<1>1. QED
  BY ValueOwn, ValueAlways, PTL

=============================================================================
