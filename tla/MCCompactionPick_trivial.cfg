\* ratio 2, base 1 and trigger 1 make level 1 due at 2 bytes and level 2 at
\* 4, both reachable with the SSTable sizes above; fluid alpha 0.2 and 0.3
\* take both branches.
CONSTANTS
  LeveledVersions <- MCLeveledVersions
  TieredVersions <- MCTieredVersions
  Ratio = 2
  BaseLevelSize = 1
  Level0Trigger = 1
  Alphas = {2, 3}
SPECIFICATION Spec
INVARIANT LeveledTrivialWhenDisjoint
\* A picker is asked once; the final state has no successor.
CHECK_DEADLOCK FALSE
