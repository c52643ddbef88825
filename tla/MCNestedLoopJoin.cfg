\* Children of up to two batches of one or two rows, max_batch_size_ = 2:
\* batches fill in the middle of a build batch and across probe rows.
CONSTANTS
  RowKinds <- MCRowKinds
  MaxBatch = 2
  MaxBatches = 2
SPECIFICATION Spec
INVARIANT TypeOK
INVARIANT JoinComplete
PROPERTY Terminates
\* The consumer stops at the empty batch; that final state has no successor.
CHECK_DEADLOCK FALSE
