------------------------------ MODULE BatchSharding ------------------------------
(***************************************************************************)
(* BatchedDataDict.shard_by_batch_size and the microbatches a worker takes *)
(* out of its shard.  A batch is the list of its rows' lengths; a shard is *)
(* the rows it holds, in order, and for every global batch the bounds of   *)
(* its microbatches, relative to the part of the shard that belongs to the *)
(* global batch, with the width of each.                                   *)
(***************************************************************************)
EXTENDS SequencePacking

RoundUp(n, multiple) == ((n + multiple - 1) \div multiple) * multiple

Chunks(lens, batchSize) == 1 .. Len(lens) \div batchSize

(* The c-th part of a list cut into parts of one size.                     *)
Part(list, c, size) == SubSeq(list, (c - 1) * size + 1, c * size)

Rows(lens) == [i \in DOMAIN lens |-> i]

(* The assertions of shard_by_batch_size.                                  *)
Divides(lens, batchSize, shards) ==
  Len(lens) % batchSize = 0 /\ batchSize % shards = 0

-----------------------------------------------------------------------------
(* Equal shards of every chunk, in order.                                  *)

EqualShards(rows, batchSize, shards) ==
  LET size == batchSize \div shards
  IN [s \in 1 .. shards |->
        FlattenSeq([c \in 1 .. Len(rows) \div batchSize |->
                      Part(Part(rows, c, batchSize), s, size)])]

(* allow_uneven_shards, as generate asks for: the last shards may be short *)
(* or empty.                                                               *)
UnevenShards(rows, shards) ==
  LET size == (Len(rows) + shards - 1) \div shards
  IN [s \in 1 .. shards |->
        SubSeq(rows, Min({(s - 1) * size, Len(rows)}) + 1, Min({s * size, Len(rows)}))]

-----------------------------------------------------------------------------
(* Dynamic batching: the rows of a chunk by length, dealt to the shards in *)
(* turn; a microbatch takes the next row of every shard as long as its     *)
(* widest row times its rows stays within the budget.                      *)

Dealt(rows, lens, shards) ==
  LET sorted == StableAscending(Range(rows), lens)
  IN FlattenSeq([s \in 1 .. shards |->
       [k \in 1 .. Len(rows) \div shards |-> sorted[s + (k - 1) * shards]]])

Sorted(lens, batchSize, shards) ==
  FlattenSeq([c \in Chunks(lens, batchSize) |->
                Dealt(Part(Rows(lens), c, batchSize), lens, shards)])

(* The width of the k-th row of a part: that of the longest among shards.  *)
Width(parts, k, lens, round) ==
  LET longest == Max({lens[parts[s][k]] : s \in DOMAIN parts})
  IN Min({RoundUp(longest, round), Max(Range(lens))})

(* Mutant: the new row is not counted. *)
ExtendLate(micro, k, w, budget) ==
  LET last == Last(micro)  widest == Max({last.width, w})
  IN IF (last.to - last.from + 1) * widest <= budget
     THEN [micro EXCEPT ![Len(micro)] = [@ EXCEPT !.to = k, !.width = widest]]
     ELSE Append(micro, [from |-> k, to |-> k, width |-> w])

Extend(micro, k, w, budget) ==
  LET last == Last(micro)  widest == Max({last.width, w})
  IN IF (last.to - last.from + 2) * widest <= budget
     THEN [micro EXCEPT ![Len(micro)] = [@ EXCEPT !.to = k, !.width = widest]]
     ELSE Append(micro, [from |-> k, to |-> k, width |-> w])

DynamicMicro(parts, lens, round, budget) ==
  FoldLeft(LAMBDA micro, k : Extend(micro, k, Width(parts, k, lens, round), budget),
           <<[from |-> 1, to |-> 0, width |-> 0]>>, [k \in DOMAIN parts[1] |-> k])

(* Mutant: every shard's microbatches are cut by its own lengths. *)
DynamicShardsOwn(lens, batchSize, shards, round, budget) ==
  LET rows == EqualShards(Sorted(lens, batchSize, shards), batchSize, shards)
      size == batchSize \div shards
  IN [s \in 1 .. shards |->
        [rows |-> rows[s],
         micro |-> [c \in Chunks(lens, batchSize) |->
                      DynamicMicro(<<Part(rows[s], c, size)>>, lens, round, budget)]]]

DynamicShards(lens, batchSize, shards, round, budget) ==
  LET rows == EqualShards(Sorted(lens, batchSize, shards), batchSize, shards)
      size == batchSize \div shards
      micro == [c \in Chunks(lens, batchSize) |->
                  DynamicMicro([s \in 1 .. shards |-> Part(rows[s], c, size)],
                               lens, round, budget)]
  IN [s \in 1 .. shards |-> [rows |-> rows[s], micro |-> micro]]

(* The assertion on the width of a row.                                    *)
DynamicFits(lens, round, budget) ==
  \A i \in DOMAIN lens : Min({RoundUp(lens[i], round), Max(Range(lens))}) <= budget

-----------------------------------------------------------------------------
(* Sequence packing: a bin is a microbatch, the bins of a chunk are dealt  *)
(* to the shards in turn.                                                  *)

Padded(lens, multiple) == [i \in DOMAIN lens |-> RoundUp(lens[i], multiple)]

BinsOf(bins, s, shards) ==
  [k \in 1 .. Cardinality({b \in DOMAIN bins : (b - 1) % shards = s - 1}) |->
     bins[(k - 1) * shards + s]]

Bounds(bins, padded) ==
  [k \in DOMAIN bins |->
     LET before == Len(FlattenSeq(SubSeq(bins, 1, k - 1)))
     IN [from |-> before + 1, to |-> before + Len(bins[k]),
         width |-> Load(bins[k], padded)]]

(* bins[c]: the bins of chunk c, as rows of the batch.                     *)
PackedShards(bins, padded, shards) ==
  [s \in 1 .. shards |->
     [rows |-> FlattenSeq([c \in DOMAIN bins |-> FlattenSeq(BinsOf(bins[c], s, shards))]),
      micro |-> [c \in DOMAIN bins |-> Bounds(BinsOf(bins[c], s, shards), padded)]]]

(* The bins each chunk may be given, as rows of the batch.                 *)
ChunkPackings(algorithm, padded, c, batchSize, capacity, shards) ==
  {[b \in DOMAIN bins |-> [k \in DOMAIN bins[b] |-> bins[b][k] + (c - 1) * batchSize]] :
     bins \in Packings(algorithm, Part(padded, c, batchSize), capacity, shards)}

-----------------------------------------------------------------------------
(* get_batch: the part of a shard that belongs to a global batch.          *)

BatchOf(shard, g) ==
  LET sizes == [c \in DOMAIN shard.micro |-> Last(shard.micro[c]).to]
      before == FoldLeft(LAMBDA a, b : a + b, 0, SubSeq(sizes, 1, g - 1))
  IN SubSeq(shard.rows, before + 1, before + sizes[g])

(* Plain microbatches of a fixed number of rows.                           *)
FixedMicro(size, mbs, width) ==
  [k \in 1 .. size \div mbs |-> [from |-> (k - 1) * mbs + 1, to |-> k * mbs, width |-> width]]

PlainShards(lens, batchSize, shards, mbs) ==
  LET rows == EqualShards(Rows(lens), batchSize, shards)
  IN [s \in 1 .. shards |->
        [rows |-> rows[s],
         micro |-> [c \in Chunks(lens, batchSize) |->
                      FixedMicro(batchSize \div shards, mbs, Max(Range(lens)))]]]

(* slice: the rows of a microbatch.                                        *)
MicroRows(shard, g, k) ==
  LET bound == shard.micro[g][k] IN SubSeq(BatchOf(shard, g), bound.from, bound.to)

-----------------------------------------------------------------------------
(* Mutant: the indices are applied, not inverted. *)
ReorderedForward(answers, order) == [i \in DOMAIN order |-> answers[order[i]]]

(* reorder_data: the answers come in the order of the shards; the answer   *)
(* at place k is that of row order[k].                                     *)
Reordered(answers, order) ==
  [i \in DOMAIN order |-> answers[CHOOSE k \in DOMAIN order : order[k] = i]]
=============================================================================
