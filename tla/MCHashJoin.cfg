\* Children of up to two batches of one or two rows, max_batch_size_ = 2,
\* and two INT keys in one bucket: batches are cut, buffered and masked.
CONSTANTS
  RowKinds <- MCRowKinds
  HashOf <- MCHash
  Buckets <- MCBuckets
  MaxBatch = 2
  MaxBatches = 2
SPECIFICATION Spec
INVARIANT TypeOK
INVARIANT JoinSound
\* The consumer stops at the empty batch; that final state has no successor.
CHECK_DEADLOCK FALSE
