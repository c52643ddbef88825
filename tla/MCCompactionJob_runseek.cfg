CONSTANTS
  Keys <- MCKeys
  MaxRecords = 5
  SstSize = 3
  BlockSize = 2
  KeyBytes = 1
  ValueSize = 2
  DeletionSize = 1

SPECIFICATION Spec
INVARIANT RunSeekComplete
\* Run returns after its last iteration: the job really stops.
CHECK_DEADLOCK FALSE
