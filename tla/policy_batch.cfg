\* Four rows over two shards of two workers each, in every mode: lengths that
\* reach every class of the modified packer, and one that fits no bin.
SPECIFICATION Spec
CONSTANTS
  NumRows = 4
  Lengths = {4, 8, 10, 19}
  LongLengths = {4, 10}
  Masked = {2}
  BatchSizes = {2, 4}
  MicroSizes = {1, 2}
  Budget = 18
  Multiple = 2
  NumShards = 2
  NumReplicas = 2
INVARIANTS EachRowWhole GlobalNormalizer OwnResult NoneStranded
