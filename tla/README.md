# TLA+ models of the LSM storage engine and the vectorized join engine

This directory holds TLA+ models of the C++ code under `src/`, the TLC
configurations that check them, and `PROJECT.json`. `PROJECT.json` lists the
components, the runs, the mutants, the line map from each definition to the
source, the findings and the hazards.

## The system

The repository has two halves that share no state.

**The LSM storage engine** (`src/storage/lsm/`) stores a table as records
`(user key, seq, type ∈ {Value, Deletion})`.
- Writes go to the active memtable (DBImpl and memtable.cpp are not under
  `src/`). A full memtable is rotated into the list of immutable memtables.
- A flush writes the oldest immutable memtable through `CompactionJob::Run`
  (`compaction_job.hpp`) into a new level-0 sorted run.
- A compaction picker (`compaction_pick.cpp`) chooses runs to merge. The
  merge reads them through the iterator heap (`iterator_heap.hpp`) and
  writes through `CompactionJob::Run` again.
- Each result is installed into a new `Version` (`version.cpp`, `level.cpp`)
  and published in a `SuperVersion`.
- A point lookup goes `SuperVersion::Get` → memtables → `Version::Get` →
  `Level::Get` (runs newest first) → `SortedRun::Get` (binary search on SST
  ranges) → `SSTable::Get` (bloom filter, index search, block scan;
  `sst.cpp`, `block.cpp`).
- A range scan merges `MemTableIterator`s and `SortedRunIterator`s in a heap
  (`SuperVersionIterator`).

**The query engine** has three parts:
- the cost-based optimizer (`src/plan/cost_based_optimizer.cpp`): a gate
  (`CheckCondition`) decides whether the plan is a Project or Aggregate over
  joins of scans; if so, a DP over table subsets picks a join order from
  cardinality hints, rebuilding the joins from the SeqScans a DFS collects;
  a rule pass then rewrites joins to hash joins, and a PredicateTransfer
  node is put on top;
- the vectorized executors `JoinVecExecutor` (nested loop) and
  `HashJoinVecExecutor`, which pull batches from their children; an empty
  batch means end-of-stream;
- `BPlusTreeStorage`, which keeps table schemas and a name → meta-page map.

### Inventory

| Component | State | Operations | Hard behaviour |
|---|---|---|---|
| CompactionJob::Run | temp buffer, curr_size, written SSTs | one loop iteration per input record, final flush | dedup only against `temp.back()`; a cut happens before the dedup decision |
| Lookup path | immutable snapshot | Get at each layer | which results stop the search (kFound vs kDelete); binary search over SST ranges |
| Version / Level | levels of runs, oldest run first | Append | visit order must match seq order |
| Pickers | read-only on Version | Get (leveled, tiered, lazy-leveling, fluid) | L0 trigger overridden; `GetRuns()[0]` on an empty level |
| SSTable / block iterators | block id, block iterator | Seek, Next, SeekToFirst | `index_[-1]` on seek into the first block |
| Merge heap | priority queue of iterators | Push, Pop, Next | invalid iterators pushed and compared |
| DP optimizer | the plan, options, dp, choose, sz over subsets | CheckCondition, DFS, DP, GeneratePlan, Apply, Optimize | split enumeration, predicate placement, missing hints, scans the DFS does not collect |
| Nested-loop join | probe batch, probe/build/b indexes, pred_result_ | Init, InternalNext | resumption when the output batch is full |
| Predicate vector | elements with expression and bitsets | Create, GenExpr, GetLeft/RightTableName, IsEq | three-valued table-name result ("", a name, nullopt) across nested nodes |
| Hash join | hash table, overflow buffer_ | Init, InternalNext | an empty batch mid-stream; LIFO buffer |
| B+tree catalog | table map, schema blobs, data trees, free pages; schema_, cached_tables_ | Create, Drop, GetTable, Insert/Update/Delete, range iterators, Open | schema updated before an insert that can throw; lazy caching; cast by the first schema entry |

Properties per component: the seq order of the read path and the refinement
of a key-value store (LSM), sorted output that keeps the newest versions
(job), DP cost equal to the true optimum and a rewrite that keeps the query
(optimizer), output equal to the
relational join as a multiset (joins), and schema consistent with the map
(catalog).

## Modules

| Module | Models | Source |
|---|---|---|
| `LsmRecords` | records, internal-key order (`KeyLess`), `RecordSize`, `JobStep`/`JobFinish`/`JobRun` (the body and tail of `CompactionJob::Run`), the builder's smallest and largest keys | `compaction_job.hpp`, `sst.cpp` |
| `LsmRead` | `SSTGet`, `RunSearch` (RECURSIVE binary search), `RunGet`, `LevelGet`, `VersionGet`, `SuperVersionGet`, and `MemGet` (modelled from the spec) | `sst.cpp`, `level.cpp`, `version.cpp` |
| `KVStore` | the abstract store the LSM tree promises: Put and Delete on a map | spec §4.7 |
| `LsmTree` | variables `seq`, `mem`, `imms` (newest first), `levels`, `fileids` (each SSTable's file number, in the shape of `levels`) and `nextfile` (the file-name generator, from 0; `NewFileIds` numbers the SSTables a job writes); actions `Put`, `Delete`, `Rotate`, `Flush`, `Compact`; refinement mapping `View` to `KVStore`; `SVChildren`: the SuperVersionIterator over the current memtables and runs, each SSTable built into blocks | `version.cpp`, `compaction_pick.cpp`; DBImpl from the spec |
| `SSTable` | `SSTableBuilder::Append`/`Finish` as a fold (`BuilderAppend`: `BlockFits` is `BlockBuilder::Append`'s check, the ignored second append, the largest key as index key, bounds, count, bloom keys; `CutBlock`, shared by a cut in `Append` and by `Finish`, appends the block handle and advances `current_block_offset_`, `index_offset_` and `bloom_filter_offset_`). The file is the blocks back to back (`BlockBytes`, `BlockStart`); `OpenSST` is the `SSTable` constructor, whose index loop (`EntriesRead`) steps by the reader's entry size from `index_offset_` up to `bloom_filter_offset_`, and `ReadBlock` reads a block through its handle, so `BuildSST` is the file written and parsed back. `IndexSearch` (RECURSIVE), `SSTable::Get` (`BlockGet` with `ScanBlock` and `ScanPrevBlock`), `SSTableIterator::Seek` (`SSTSeek`, `BlockSeek`), `Valid`, `Next` and a full scan (`Scan`), built on `BlockIterator::Valid`, `Next` and `key`/`value` (`BlockValid`, `BlockNext`, `BlockAt`) | `sst.cpp`, `block.cpp` |
| `SortedRunIter` | `SortedRunIterator` over a run of SSTables, each built by `BuildSST` and read through the block-level SSTable iterator. The cursor is `[id, sst, p]`: `id` is `sst_id_` + 1, `sst` the SSTable `sst_it_` walks. `RunBegin` is `SortedRun::Begin` and `RunSeek` is `SortedRun::Seek`; both set `sst_id_` to the SSTable's file number (`fids`). `RunSeekToFirst` sets it to 0. `RunValid` and `RunNext` read `sst_id_` as a position, as the code does. `RunSeek` uses the user-key binary search `RunSearch` of `LsmRead`, the fallback to SSTable 0, and `SSTSeek` in the chosen SSTable. `RunScanFrom` is the scan loop of a reader | `level.cpp` |
| `MergeIter` | `IteratorHeap` as the set of child iterators it holds, with the least `key()` on top. `HeapNext` pops the top and pushes it back when it is still valid. `Ordered` holds when the comparator only reads a defined `key()` (`CKeyDefined`: a sorted-run iterator's `key()` is `sst_it_`'s, defined even when `sst_id_` makes it invalid), and `HeapValid` is the top's `Valid`. `SuperVersionIterator::SeekToFirst` is `SVSeekToFirst`, `Seek` is `SVSeek` with `SeekLoop`, and `Valid`, `key` and `Next` are `HeapScan`. Children are memtable iterators (modelled from the spec) or `SortedRunIter` iterators | `iterator_heap.hpp`, `version.cpp` |
| `CompactionJob` | `CompactionJob::Run` as a state machine over all sorted inputs, one step per loop iteration; every SSTable it writes is built with `BuildSST` and read back, and the SSTables written are read as one sorted run through `SortedRunIter` | `compaction_job.hpp` |
| `CompactionPick` | the four pickers as operators from a `Version` to the `Compaction` they return: `Overlaps` (the code's asymmetric test), `PickTable` (the SSTable of least overlap, stopping at the first SSTable beyond the target run), `Leveled`, `Tiered`, `LazyLeveling`, `Fluid`; one action `Pick` per policy and version | `compaction_pick.cpp`, `level.cpp` |
| `JoinOrderDP` | `DP` (hint lookup, singleton scans, the subset loop, the `T >= S/2` split enumeration, `can_hj` in both orientations, the cost formula, the `choose[S] == 0` sentinel) and `GeneratePlan` with predicate placement, as operators over `n` tables. Reference: every binary join tree (`TreesOf`) and its cost (`TreeCost`) | `cost_based_optimizer.cpp`, `plan_expr.hpp` |
| `CostBasedOptimizer` | `CostBasedOptimizer::Optimize` as the one action `Optimize`. State: the input plan, the options, the hints, the plan DP installs and its cost, and the returned plan. A plan node is `[type, tables, ch, preds]`. Covers `CheckCondition` with `GetTableNum`, `CheckIsAllJoin` and `CheckHasStat`, `DFS`, and `DP` with its early return without hints. `DP` crashes when the DFS found no SeqScan. Also covers `Apply` with `ConvertToHashJoinRule` (modelled from spec 4.9, since `src/plan/rules` is not in the repository) and the PredicateTransfer wrapper | `cost_based_optimizer.cpp`, `optimizeroptions.hpp` |
| `PredicateVec` | expression trees `[type, op, tid, name, ch0, ch1]`; `PredicateVec::Create` (`DivideIntoPredicateList` and `GetExprBitVector` from spec 4.11, `MakeElement` with the `expr != 0` wrapping), `GenExpr` (the AND chain), `GetTableNameInExpr` (RECURSIVE), `GetLeftTableName`/`GetRightTableName`, `IsEq`; `BoundedExprs`: every expression up to a depth. `MCJoinOrderDP` builds the planner's elements with `Create` | `plan_expr.hpp` |
| `JoinCommon` | rows `[id, key, valid]` of the children's batches, the join predicate on keys, and the reference join of the valid rows | — |
| `NestedLoopJoin` | `JoinVecExecutor`: `Open` (Init), and one action per iteration of `InternalNext`: `Pull`, `Row` (predicate evaluation at `b_index_ = 0`, append, the full-batch return saving `i, j, b+1`), `EndBuildBatch`, `EndProbeRow`; the consumer's `Call` | `join_vexecutor.hpp` |
| `HashJoin` | `HashJoinVecExecutor`: `Open` with `BuildHashTable`, `NextBuffered` (pop the back of `buffer_`), `NextProbe` (one probe batch: bucket lookup per valid row, cut full batches, mask them with the predicate, push them, return the last) | `hashjoin_vexecutor.hpp` |
| `CatalogSpec` | the catalog `BPlusTreeStorage` promises: tables by name with a key type and rows; `CreateTable`, `DropTable`, `InsertRow`, `UpdateRow`, `DeleteRow` | spec §4.7 |
| `Catalog` | `BPlusTreeStorage`: persistent `map`, `blobs`, `trees`, `free`; volatile `schema` (`schema_`), `cached` (`cached_tables_`), `crashed`. Actions `Create`, `Drop`, `Search` (any handle or iterator: `GetTable` plus the cast), `Insert` (with `ticks_`), `Update`, `Delete`, `Open` (restart). Range iteration as operators: `StartAt` (`GetRangeIterator`), `PastEnd` and `RangeFrom` (`RangeIterator::Next`). Refinement mapping `AbsTables` to `CatalogSpec` | `bplus-tree-storage.hpp`; BPlusTree, Blob, PageManager, DBSchema from their contracts |
| `MCCatalog`, `MCLsmTree`, `MCCompactionJob`, `MCCompactionPick`, `MCJoinOrderDP`, `MCNestedLoopJoin`, `MCHashJoin` | constants used by TLC | — |

The abstraction works as follows:
- A value is identified with the seq of the write that stored it, so "the
  newest value" can be compared by number.
- Key and value lengths are replaced by one record size per type
  (`ValueSize`, `DeletionSize`), which drives the job's size cut.
- In `LsmRead` an SSTable is the sequence of its records. Module `SSTable`
  adds the blocks and the index, and `job_core` checks on every SSTable the
  job writes that the two agree (`SSTGetAgrees`, `SSTScanAgrees`). A block
  is its sequence of records; a record takes `RecordSize` bytes of
  `BlockSize` (the code's check_size). The bloom filter is the set of
  appended user keys. On disk a record's key takes `KeyBytes` bytes,
  which sizes the index entries the reader steps over.
- ParsedKey's order is taken as `KeyLess`: user key, then seq descending.
  Its definition is in a header that is not in the repository; the record
  type never decides a comparison in the model.
- Flush and compaction merge their inputs through the iterator heap. Its
  output is modelled as the records sorted by `KeyLess` (`SortedRecords`).

Every flush, compaction and write is one atomic step, because the engine
installs each result with a single SuperVersion swap.

The catalog model makes these choices:
- **Atomic steps.** DDL runs under an exclusive lock (spec §5), so each
  operation is one step.
- **Persistent and volatile state.** The pages (`map`, `blobs`, `trees`,
  `free`) survive a restart. `schema_` and `cached_tables_` do not.
- **Crashes.** A `DB_ERR` sets `crashed`, which disables every operation
  except `Open`. `Open` rebuilds `schema_` from the map in name order, with
  the key type read from each blob, and empties the cache. `Open` may also
  happen after a clean close.
- **Wrong casts.** `ApplyFuncOnTable` casts a table to the comparator type
  of the first `schema_` entry of its name (`GetPKType`).
  - In a row operation, a cast to a type other than the table's is modelled
    as the process ending, like a `DB_ERR` (`MisCast`).
  - In `Drop`, the same cast is modelled as working. The lambda only
    compares page ids and calls `Destroy`, whose code is the same for every
    comparator.
- **External collaborators.** Their code is not in the repository, so they
  are modelled from their contracts:
  - `DBSchema` is the sequence of added tables. `AddTable` appends, and
    `Find` and `RemoveTable` take the first entry of the name.
  - `PageManager` hands out the least free pages.
  - A `BPlusTree` is a function from key to value.
- **Key types.** Two key types stand for the three comparators.
- **`ticks_`.** It starts at 0: the header uses designated initializers,
  so it is built as C++20, where a default-constructed `std::atomic` is
  value-initialized.
- **Which tables clients name.** Clients only name tables that `schema_`
  lists, because the planner resolves names against `GetDBSchema`.

## Runs

| Run | Config | Expect | What it shows |
|---|---|---|---|
| `lsm_core` | `MCLsmTree.cfg` | pass (12 625 states) | `TypeOK`; `ComponentsOrderedBySeq`: for every key, memtable, immutable memtables, L0 runs newest first and then L1 are visited in strictly decreasing seq; `KVRefinement`: every step refines `KVStore` under `View`. `MergedScanAgrees`: SeekToFirst and Next over the SuperVersionIterator yield every record of the tree once, in internal-key order. It is checked wherever the heap's comparisons are defined. `GetReturnsNewest`: a point lookup at the current seq (memtables, L0 runs newest first, each run's binary search, SSTable::Get) returns the newest value of each key whose newest record is a Value, and NotFound for a key never written |
| `lsm_tombstone` | `MCLsmTree_tombstone.cfg` | violation | `DeleteShadowsOlder` fails after Put k, Rotate, Delete k: `SuperVersion::Get` skips the kDelete and returns the old value |
| `job_core` | `MCCompactionJob.cfg` | pass (41 870 states) | `TypeOK` (the buffer never exceeds `SstSize`), `OutputSorted`, `NewestKept` on every sorted input of up to 6 records; `SSTGetAgrees`: every SSTable written, cut into blocks, laid out as a file and parsed back by the constructor of `BlockSize` and indexed, answers `SSTable::Get` for every key and snapshot as a scan of its records does; `SSTScanAgrees`: SeekToFirst and Next yield its records in order. `RunScanAgrees`: SeekToFirst (what `SuperVersionIterator::SeekToFirst` calls) and Next over the SSTables written, as one sorted run, yield every record |
| `job_overlap` | `MCCompactionJob_overlap.cfg` | violation | `RunNonOverlapping` fails with input (1,s3),(1,s2),(1,s1): the cut at s2 empties the buffer, s1 escapes dedup, and the two SSTables share key 1 |
| `job_seek` | `MCCompactionJob_seek.cfg` | violation | `SSTSeekAgrees` fails for a one-record SSTable sought at its own key: the index search returns -1 and `SSTableIterator::Seek` reads `index_[-1]` (shown as position `Oob`) |
| `dp_core` | `MCJoinOrderDP.cfg` | pass (140 544 states) | `TypeOK`: the plan DP installs is a join tree over all the tables. `DPOptimal`: for every hint assignment over 3 tables and every subset of 4 predicate elements, the plan's cost is the optimum over all binary trees and equals `plan->cost_`. `JoinPredicatesPlacedOnce`. The four elements are those `PredicateVec::Create` divides from an ON clause. `QueryPreserved`: over the five query shapes the whole rewrite returns the same root operator, every scan, every filter element and every two-table join element, and never crashes. `HashJoinConverted`: a join becomes a HashJoin exactly when its predicate holds a straddling equality. `GenExprRoundTrip`: for every expression of depth 2 over two tables, dividing `GenExpr`'s AND chain of `Create`'s elements gives the same elements and bitsets back |
| `nlj_core` | `MCNestedLoopJoin.cfg` | pass (627 337 states) | `TypeOK`; `JoinComplete`: every pair of the join is delivered once across full-batch resumptions; `Terminates` under weak fairness |
| `hj_core` | `MCHashJoin.cfg` | pass (135 679 states) | `TypeOK` (every buffered batch is full); `JoinSound`: with two keys in one bucket and LIFO buffering, only pairs of the join are delivered, none twice |
| `pick_core` | `MCCompactionPick.cfg` | pass (120 078 states) | `TypeOK` (no picker reads a run or level that does not exist); `CompactsWhenDue`: a level over its size or run limit always gets a compaction, and for the leveled and tiered pickers it is of a due level into the next one, with all its runs |
| `cat_core` | `MCCatalog.cfg` | pass (100 353 states) | `TypeOK` (`ticks_` within its bound). `PagesAccounted`: every page is free or is the blob or tree of exactly one table, also after failed Creates, Drops and crashes. `CacheAgreesWithMap`: every cached table is the map's table, on its data tree and with its blob's key type. `RangeScanExact`: for every table and every pair of endpoints (unbounded, closed, open), a range iterator yields exactly the keys between them. `CatalogRefinement`: every step refines `CatalogSpec` under `AbsTables` |
| `cat_schema` | `MCCatalog_schema.cfg` | violation | `SchemaMatchesMap` fails after Create(1, int); Create(1, int): the second Create throws but leaves a second `schema_` entry |
| `hj_early_end` | `MCHashJoin_early.cfg` | violation | `JoinComplete` fails: probe batch 1 holds only a deselected row, its empty output ends the stream, batch 2's match is lost |

Bounds:
- **LSM runs:** 2 keys, 4 writes, 2 immutable memtables, L0 trigger 1,
  SstSize 2, BlockSize 1 and KeyBytes 1. With BlockSize 1 every
  record is a block of its own, so scans and seeks cross blocks and
  SSTables. Four writes are enough to hold three
  versions of one key plus another key. Two immutable memtables allow flush
  to be out of step with rotation. Trigger 1 makes compaction fire after two
  flushes.
- **DP runs:** 3 tables, hints in {0, 1, 2} for every one of the 8 table
  sets, and every subset of four elements (two equality joins, one
  non-equality join, one single-table element). Three tables are the
  smallest number with splits of size 1+2, where the join order matters and
  the `T >= S/2` enumeration can miss a split; zero hints cover missing ones.
  The query shapes are five:
  - a left-deep join under Project and a right-deep one under Aggregate,
    which DP rebuilds;
  - a Filter between the root and the joins;
  - a values clause in a join;
  - an INSERT ... SELECT.
  The gate turns the last three away. The runs try both settings of
  `enable_cost_based` and of the hints' presence; predicate transfer is
  on. Where DP does not read the hints, they are fixed at "none".
  In every query the DFS meets the SeqScans in the order of their table
  bits, which `MCJoinOrderDP` states as an ASSUME. DP index i is then the
  table of bit i, as `table_set[1 << i] = bitsets_[i]` makes it.
  `PredicateVec` is checked over every expression of depth 2 on columns of
  two tables and a literal, with `=`, `<`, AND, `+` and negation: 7 140
  expressions. Depth 2 is the least at which a binary node has a binary
  child, where the table names of the two sides can disagree.
- **Join runs:** each child returns up to 2 non-empty batches of up to 2
  rows, drawn from three row kinds (two keys, one deselected row), and
  `max_batch_size_` is 2. Two rows matching one probe row fill a batch in
  the middle of a build batch, which exercises the saved indexes and
  `buffer_`. The hash join maps both keys to one bucket, so the predicate has
  to remove collisions.
- **Job runs:** every sorted stream of up to 6 records (5 in the overlap and seek runs) over 2 keys (1 and 3, so that a seek for 2 falls between two SSTables) and both
  record types, with ValueSize 2, DeletionSize 1 and SstSize 3. Cuts then
  happen both on kept and on dropped records. BlockSize 2 holds one Value
  or two Deletions, so an SSTable has up to three blocks and the index
  search has real choices. KeyBytes is 1: the index entry size only has
  to be the one builder and reader agree on. BlockSize is at least every record size, as the
  DB's options are; below that the builder loses records
  (`sst.cpp:334`) and both SSTable properties fail.
- **Picker runs:** keys 1..4, SSTable sizes 1 and 2, level 0 with up to two
  runs, up to two deeper levels with one run of up to two SSTables (leveled),
  and one to three tiered levels of up to two one-SSTable runs. Ratio 2,
  base level size 1, L0 trigger 1, and alpha 2 and 3 for fluid, so both of
  its delegations happen. Two SSTables per run are the least that let one
  SSTable's range contain another's.

- **Catalog runs:** 2 names, 2 keys, 2 values, 2 key types, 6 pages,
  and at most 3 `schema_` entries, i.e. 3 Creates without a restart. Each
  Create takes 2 pages, so 6 pages allow 3 live tables, and the page supply
  itself never blocks. Two names allow a second Create of one name next to
  another table. Three entries allow a failed Create followed by a Drop and
  a re-Create. `ticks_` is capped at 2 by the `MaxTicks` guard on
  successful inserts. Range endpoints take the values {1, 2}, and each
  endpoint can also be unbounded, so every endpoint sits on, between or
  beside the keys.

The LSM and job runs disable deadlock checking. Once the write bound is
reached and everything is flushed, the model has no further step, which is a
final state of a finite model. The job model stops when Run returns.

The DP, picker and hash-join runs disable deadlock checking too: Optimize and a pick run once, and
the hash join stops when the consumer has received the empty batch. The
nested-loop run disables it for the same reason and checks `Terminates`
instead.

`cat_core` keeps deadlock checking on. In the catalog model `Open` is always
enabled, as a real process can always be restarted, so that check cannot
fail.

Fairness: only `NestedLoopJoin` assumes any, weak fairness on `Next`. The
executor and its consumer are one thread, and the consumer calls `Next`
until it gets the empty batch, so an enabled step is eventually taken. The
LSM models assume no fairness, because the engine's background threads have
none the models could rely on without modelling the schedulers.

## Findings

Each of these is a run that TLC finds violated (see `PROJECT.json`).

1. **Tombstones do not shadow** (`version.cpp:11`, `version.cpp:39`). Only
   `kFound` ends the lookup, so a Delete is invisible whenever an older
   value sits in a later component.
2. **Compaction job writes overlapping SSTables** (`compaction_job.hpp:45`).
   The cut is decided before the record is known to be dropped, and `temp`
   is cleared, so the older version is kept in the next SSTable.
   Combined with this, the binary search in `SortedRun::Get`
   (`level.cpp:16`) can return an older value.
3. **Seek reads `index_[-1]`** (`sst.cpp:228`). `SSTableIterator::Seek`
   lacks the `i++` of `SSTable::Get`; any seek into an SSTable's first block
   indexes the index vector with -1.
4. **Create leaves a duplicate schema entry** (`bplus-tree-storage.hpp:314`).
   `schema_.AddTable` runs before the map insertion that throws when the
   name exists. After Create t, a failed Create t, and Drop t, `schema_`
   still lists t. TLC shows that the planner then accepts t, and the next
   access is `DB_ERR("no such table")`, which ends the process. With a
   different key type in the failed Create, `GetPKType` later casts a
   re-created table to the wrong comparator (`bplus-tree-storage.hpp:358`).
   This assumes that `DBSchema::AddTable`, which is not in the repository,
   does not reject duplicates.
5. **Hash join ends the stream early** (`hashjoin_vexecutor.hpp:285`). A
   probe batch with no match returns an empty batch.
Other issues found while modelling, with no run of their own (they are
hazards in `PROJECT.json`):
- **The nested-loop join joins deselected probe rows**
  (`join_vexecutor.hpp:56`). TLC reports `JoinSound` violated under
  `MCNestedLoopJoin_sound.cfg`.
- **The leveled picker misjudges overlap** (`compaction_pick.cpp:9`).
  `overlaps` misses a target SSTable strictly inside the candidate. TLC
  reports `LeveledPickMinOverlap` violated under
  `MCCompactionPick_overlap.cfg`: with level 1 = [1,1],[2,4] and level 2 =
  [1,1] (size 1),[3,3] (size 2), the picker takes [2,4].
- **`SortedRun::Seek` ends too early** (`level.cpp:75`, `level.cpp:81`).
  Spec 4.3 says Seek advances across SSTable boundaries, but the code
  seeks one SSTable only, and SSTable 0 when no SSTable's range holds the
  key. `CompactionJob` states the spec's claim as `RunSeekComplete`. TLC
  reports it violated under `MCCompactionJob_runseek.cfg` in two cases:
  - On the run [1],[3], Seek(2, s) yields nothing.
  - On the run [(1,s1)],[(3,s2)], Seek(1, snapshot 0) yields nothing.
  In both, the second SSTable is lost. The run numbers the SSTables from
  0, so the next defect plays no part.
- **Sorted-run iterators take a file number for a position**
  (`level.cpp:84`, `:90`). `SortedRun::Seek` and `SortedRun::Begin` set
  the iterator's `sst_id_` to the SSTable's file number (`SSTInfo`'s
  `sst_id_`, from `file_gen_->Generate()` at `compaction_job.hpp:47`).
  `Valid` (`level.cpp:117`) and `Next` (`:143-147`) read it as a position
  in `ssts_`. `LsmTree` states what `SuperVersionIterator::Seek` must yield
  as `MergedSeekAgrees`. TLC reports it violated under
  `MCLsmTree_seek.cfg`. Two flushes write files 0 and 1, and the
  compaction writes level 1's only SSTable as file 2. That run's iterator is invalid
  right after its seek, so its records never appear. Only `SeekToFirst`
  resets `sst_id_` to 0, so full scans are right (`MergedScanAgrees`).
  `SortedRun::Begin` has no caller in the repository.
- **The merge heap compares exhausted iterators**
  (`iterator_heap.hpp:21`, `version.cpp:117`). `SeekToFirst` pushes an
  empty memtable's iterator. `Seek` pushes back every child it sought,
  including those sought past their end. The comparator then reads
  `key()` of an invalid iterator, which for an SSTable means reading the
  block's offset array as a record. `MergeIter` reports such a heap as
  undefined. MCLsmTree reaches it right after a rotation, and after a
  Seek above a memtable's records. What the code then yields is not
  determined by the repository's code, so no run checks the outcome.
- **The optimizer drops range-scanned tables** (`cost_based_optimizer.cpp:47`,
  `:133`, `:101`). `CheckIsAllJoin` lets RangeScan leaves through the gate,
  but `DFS` collects only SeqScans and `GeneratePlan` rebuilds the joins
  from them. TLC reports `QueryPreserved` violated under
  `MCJoinOrderDP_range.cfg` in two cases:
  - `Project(Join(Join(S0, S1), R2))` comes back as a join of S0 and S1
    alone, without the join element over table 2.
  - `Project(R0)` leaves `n = 0`, and `GeneratePlan(0)` recurses without
    end.

  Spec 4.9 admits "Scans" at the gate but names only SeqScans in step 1.
- **`GetTableNameInExpr` names one table for a two-table operand**
  (`plan_expr.hpp:110`). For two children it returns the left child's
  result when that is "" (no column there) without looking at the right
  one. In `t0.a + (1 + t1.b)` the inner sum yields "", so
  `GetLeftTableName` names t0 alone, against the comment at line 75
  ("If the left expression only references one table"). TLC reports
  `TableNameSound` violated under `MCJoinOrderDP_tablename.cfg` (80
  elements of the depth-2 expressions). No code under `src/` calls
  `GetLeftTableName` or `GetRightTableName`.
- **The leveled picker merges a disjoint SSTable into the target run**
  (`compaction_pick.cpp:52`, `:69`). For a source level >= 1 the loop
  stops at the first SSTable outside the target run's range, but the
  compaction still names the target level's run 0 as `target_run`, with
  `is_trivial_move` false. Spec 4.5 says this candidate is moved "without
  a target" as a trivial move. `CompactionPick` states the spec's rule as
  `LeveledTrivialWhenDisjoint`; TLC reports it violated under
  `MCCompactionPick_trivial.cfg`, e.g. level 1 over its size with an
  SSTable outside level 2's key range picks `target_run = <<2, 0>>`.
- These seven have no run because the project keeps at most 12 runs. The
  two picker defects cost compaction work, not correctness.
- The nested-loop join pulls its probe child again after end-of-stream
  when the last call returned a partial batch (`join_vexecutor.hpp:48`).
  `NestedLoopJoin` states this as `NoPullAfterEnd`; adding it as an
  invariant to `MCNestedLoopJoin.cfg` makes TLC report it violated.
- The optimizer attaches an element whose sides lie in one table to no join
  (`cost_based_optimizer.cpp:115`); spec 4.9 step 5 gives the same rule.
- The hash join hashes FLOAT keys by their bits, so +0.0 and -0.0 do not
  meet (`hashjoin_vexecutor.hpp:342`); spec section 9 leaves float hashing
  open.

## Plan: what is left

In order:
1. **`PredicateVec::ApplyExpr`**: needs a model of `ApplyExprOnExpr`'s
   column substitution, which only the spec names.
2. **Pickers in the tree**: `CompactionPick` composed with `LsmTree` in
   place of `PickLevel0`, with a liveness property that a due level is
   eventually compacted.

## Not modelled

- Byte encodings below the record: a record's fields are sizes, not bytes,
  and the bloom filter's bits are not modelled. The filter has no false
  negatives, so it never changes an answer.
- Murmur hash (`murmurhash.cpp`): 64-bit multiplications, beyond TLC's
  32-bit integers. The hash join model takes the hash as any function of
  a key's bits and checks it with all keys in one bucket, which is harder
  than the code: for a fixed seed `Hash8` is a bijection (a product with an
  odd constant and xor-shifts modulo 2^64), so one INT column never
  collides.
- `executor.hpp` and `expr_executor.hpp`: interfaces and declarations with
  no bodies in the repository; predicate evaluation is a relation on rows
  in the join models.
- `PredicateVec::ApplyExpr` (its substitution is not in the repository),
  `clone`, the `Append` overloads and the expression-list copies (value
  copies), `GetLeftColId`/`GetRightColId` and `ToString`.
- File I/O and the aligned buffer.
- The parser, the result set, options and JIT memory: they hold no
  behaviour.
- The B+tree, Blob, PageManager and DBSchema, which are not under `src/`. The
  catalog model uses their contracts. `TupleNum`, `GetMaxKey` and `GetTicks` only read state.
- The memtable and DBImpl threads, which are not under `src/`. They are
  modelled from the spec, each installation as one atomic step.
