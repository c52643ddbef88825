\* Two keys, four writes, two immutable memtables, compaction of level 0
\* once it holds two runs, SSTables of two records.
CONSTANTS
  Keys <- MCKeys
  SstSize = 2
  ValueSize = 1
  DeletionSize = 1
  BlockSize = 1
  KeyBytes = 1
  MaxSeq = 4
  MaxImms = 2
  Level0Trigger = 1
  NoValue = NoValue

SPECIFICATION Spec

INVARIANT DeleteShadowsOlder

\* Once MaxSeq writes are done and nothing is left to flush or compact the
\* engine is idle: the bound on writes makes that state final.
CHECK_DEADLOCK FALSE
