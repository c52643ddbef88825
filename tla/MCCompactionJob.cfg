CONSTANTS
  Keys <- MCKeys
  MaxRecords = 6
  SstSize = 3
  BlockSize = 2
  KeyBytes = 1
  ValueSize = 2
  DeletionSize = 1

SPECIFICATION Spec
INVARIANT TypeOK
INVARIANT OutputSorted
INVARIANT NewestKept
INVARIANT SSTGetAgrees
INVARIANT SSTScanAgrees
INVARIANT RunScanAgrees
\* Run returns after its last iteration: the job really stops.
CHECK_DEADLOCK FALSE
