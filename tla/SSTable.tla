------------------------------- MODULE SSTable -------------------------------
(***************************************************************************)
(* The block layout of an SSTable and its reader (src/storage/lsm/block.cpp *)
(* and sst.cpp): SSTableBuilder::Append and Finish cut the records into    *)
(* blocks of at most BlockSize bytes and record the largest key so far as  *)
(* each block's index key; SSTable::Get, SSTableIterator::Seek and the     *)
(* SeekToFirst/Next scan read them back.                                   *)
(*                                                                         *)
(* A block is the sequence of its records, and a record takes RecordSize   *)
(* bytes of the block (check_size = key + value + 3 * 4, the record_size   *)
(* of the compaction job: its two length fields, its bytes and its entry  *)
(* in the block's offsets array).  The file is the blocks back to back,    *)
(* then the index, the bloom filter and the two bounding keys; the reader  *)
(* (the SSTable constructor) finds the index through the offsets the       *)
(* builder counted and the blocks through their BlockHandles, so a Get or  *)
(* a scan reads the SSTable as it is parsed from the file.  Key bytes are  *)
(* abstracted to one size, KeyBytes.  The bloom filter is the set of       *)
(* user keys appended: it has no false negatives, and a false positive     *)
(* only leads to a search that finds nothing.  Indexes into blocks and the *)
(* index are 0-based as in the code.                                       *)
(***************************************************************************)
EXTENDS LsmRead

CONSTANTS
  BlockSize,  \* block_size_
  KeyBytes    \* ParsedKey::size(): user key, seq and type

ASSUME BlockSize \in Nat \ {0} /\ KeyBytes \in Nat \ {0}

U32Bytes    == 4   \* sizeof(uint32_t)
OffsetBytes == 8   \* sizeof(offset_t)

(* An index entry as Finish writes it and as the reader steps over it:     *)
(* the key size field, the key, and offset, size and count of the block.   *)
EntryBytes == 3 * OffsetBytes + U32Bytes + KeyBytes

\* The default InternalKey the builder starts from: its empty user key
\* sorts before every key.
NoKey == Record(-1, 0, Value)

\* The ParsedKey (user_key, seq, Value) that Get and Seek search for.
Target(k, s) == Record(k, s, Value)

\* SSTableBuilder::Append's update of largest_key_.
Larger(l, r) == IF r.key > l.key \/ (r.key = l.key /\ l.seq > r.seq) THEN r ELSE l

(* BlockBuilder::Append accepts a record when its check_size still fits    *)
(* into block_size_, even into an empty block only then.                   *)
BlockFits(bytes, r) == bytes + RecordSize(r) <= BlockSize

(* The builder: finished blocks, their index keys and BlockHandles, the   *)
(* block being filled (cur, and its size() in bytes), the bounds, count_,  *)
(* the keys hashed, current_block_offset_ (off), index_offset_ (ioff) and  *)
(* bloom_filter_offset_ (boff).                                            *)
BuilderInit ==
  [blocks |-> <<>>, index |-> <<>>, handles |-> <<>>, cur |-> <<>>, bytes |-> 0,
   smallest |-> NoKey, largest |-> NoKey, count |-> 0, keys |-> {},
   off |-> 0, ioff |-> 0, boff |-> 0]

\* Mutant: the index entry's bytes are not counted into bloom_filter_offset_.
CutBlockNoEntry(st) ==
  [st EXCEPT !.blocks = Append(@, st.cur), !.index = Append(@, st.largest),
             !.handles = Append(@, [offset |-> st.off, size |-> st.bytes, count |-> Len(st.cur)]),
             !.off = @ + st.bytes, !.ioff = st.off + st.bytes, !.boff = @ + st.bytes]

(* A block is finished: its index entry is the largest key so far with the *)
(* handle [current_block_offset_, size(), count()], and the offsets move   *)
(* past the block and, for bloom_filter_offset_, past its index entry.     *)
CutBlock(st) ==
  [st EXCEPT !.blocks = Append(@, st.cur), !.index = Append(@, st.largest),
             !.handles = Append(@, [offset |-> st.off, size |-> st.bytes, count |-> Len(st.cur)]),
             !.off = @ + st.bytes, !.ioff = st.off + st.bytes, !.boff = @ + st.bytes + EntryBytes]

\* The first record appended sets both bounds.
FirstBounds(st, r) ==
  IF st.count = 0 THEN [st EXCEPT !.smallest = r, !.largest = r] ELSE st

(***************************************************************************)
(* SSTableBuilder::Append.  A record the block accepts is appended.  When  *)
(* it is rejected, the block is finished with the largest key so far as    *)
(* its index key, and the record is appended to the cleared block; that    *)
(* second BlockBuilder::Append's result is ignored, so a record larger     *)
(* than a block is lost although it is counted and hashed.                 *)
(***************************************************************************)
BuilderAppend(st, r) ==
  IF BlockFits(st.bytes, r)
  THEN LET s1 == FirstBounds(st, r)
       IN [s1 EXCEPT !.cur = Append(@, r), !.bytes = @ + RecordSize(r),
                     !.largest = Larger(s1.largest, r), !.count = @ + 1,
                     !.keys = @ \cup {r.key}]
  ELSE LET fits == BlockFits(0, r)
           s1 == [CutBlock(st) EXCEPT !.cur = IF fits THEN <<r>> ELSE <<>>,
                            !.bytes = IF fits THEN RecordSize(r) ELSE 0,
                            !.keys = @ \cup {r.key}]
           s2 == FirstBounds(s1, r)
       IN [s2 EXCEPT !.largest = Larger(s2.largest, r), !.count = @ + 1]

\* SSTableBuilder::Finish: the last block, empty or not, and its index key.
BuilderFinish(st) == [CutBlock(st) EXCEPT !.cur = <<>>, !.bytes = 0]

-----------------------------------------------------------------------------
(* The bytes a block takes in the file: BlockBuilder::Append writes each   *)
(* record's key size, key, value size and value, and Finish its offset.    *)
BlockBytes(b) == FoldLeft(LAMBDA acc, r : acc + RecordSize(r), 0, b)

\* Where block i really starts: the blocks are written back to back.
BlockStart(st, i) == FoldLeft(LAMBDA acc, b : acc + BlockBytes(b), 0, SubSeq(st.blocks, 1, i - 1))
DataBytes(st) == BlockStart(st, Len(st.blocks) + 1)

\* What a FileReader at a BlockHandle reads: the block written there, or
\* bytes of something else, read as a block of one garbage record.
Garbage == Record(-2, 0, Value)
ReadBlock(st, h) ==
  LET at == {i \in DOMAIN st.blocks : BlockStart(st, i) = h.offset
                                      /\ BlockBytes(st.blocks[i]) = h.size
                                      /\ Len(st.blocks[i]) = h.count}
  IN IF at = {} THEN <<Garbage>> ELSE st.blocks[Min(at)]

(* The entries the constructor's loop reads: reader_offset starts at       *)
(* index_offset_ and moves by one entry per iteration until it reaches     *)
(* bloom_filter_offset_ (one past the written entries: it reads on).       *)
EntriesRead(st) ==
  LET js == {j \in 0..Len(st.index) : st.ioff + j * EntryBytes >= st.boff}
  IN IF js = {} THEN Len(st.index) + 1 ELSE Min(js)

\* A file the reader misparses: nothing in it is found.
CorruptSST == [blocks |-> <<<<>>>>, index |-> <<NoKey>>, handles |-> <<>>, keys |-> {}, count |-> 0,
               smallest |-> NoKey, largest |-> NoKey]

(***************************************************************************)
(* The SSTable constructor: a FileReader from index_offset_ reads the      *)
(* index entries, then the bloom filter and the two bounding keys that     *)
(* follow them.  Only when index_offset_ is where the blocks end and the   *)
(* loop reads exactly the entries written do the later fields land where   *)
(* they were written; Get and the iterator then read each block through    *)
(* its handle.                                                             *)
(***************************************************************************)
OpenSST(st) ==
  IF st.ioff # DataBytes(st) \/ EntriesRead(st) # Len(st.index) THEN CorruptSST
  ELSE [blocks |-> [i \in DOMAIN st.handles |-> ReadBlock(st, st.handles[i])],
        index |-> st.index, handles |-> st.handles, keys |-> st.keys, count |-> st.count,
        smallest |-> st.smallest, largest |-> st.largest]

\* The SSTable the job's builder writes for a buffer of records, as read back.
BuildSST(records) == OpenSST(BuilderFinish(FoldLeft(BuilderAppend, BuilderInit, records)))

-----------------------------------------------------------------------------
(* The binary search of Get and Seek: the last index entry whose key is    *)
(* below t, or -1.                                                         *)
RECURSIVE IndexSearch(_, _, _, _, _)
IndexSearch(index, t, l, r, i) ==
  IF l > r THEN i
  ELSE LET m == l + (r - l) \div 2
       IN IF KeyLess(index[m + 1], t)
          THEN IndexSearch(index, t, m + 1, r, m)
          ELSE IndexSearch(index, t, l, m - 1, i)

Search(sst, t) == IndexSearch(sst.index, t, 0, Len(sst.index) - 1, -1)

\* Mutant: the scan does not skip records newer than the snapshot.
ScanBlockNoSnapshot(block, k, s) ==
  FoldLeft(LAMBDA acc, r :
             IF acc.kind = "Found" \/ r.key # k THEN acc
             ELSE IF r.type = Deletion
                  THEN IF acc = NotFound THEN Deleted ELSE acc
                  ELSE Found(r.seq),
           NotFound, block)

\* Get's scan of block i: the first visible Value returns, a visible
\* Deletion turns NotFound into Delete.
ScanBlock(block, k, s) ==
  FoldLeft(LAMBDA acc, r :
             IF acc.kind = "Found" \/ r.key # k \/ r.seq > s THEN acc
             ELSE IF r.type = Deletion
                  THEN IF acc = NotFound THEN Deleted ELSE acc
                  ELSE Found(r.seq),
           NotFound, block)

\* Get's probe of block i - 1: every visible Value overwrites the answer.
ScanPrevBlock(block, k, s, res) ==
  FoldLeft(LAMBDA acc, r :
             IF r.key # k \/ r.seq > s THEN acc
             ELSE IF r.type = Deletion
                  THEN IF acc = NotFound THEN Deleted ELSE acc
                  ELSE Found(r.seq),
           res, block)

(***************************************************************************)
(* SSTable::Get: bloom filter, index search, the block after the entry     *)
(* found, and the block before it when its index key has user key k.       *)
(***************************************************************************)
BlockGet(sst, k, s) ==
  LET t == Target(k, s)
      i == Search(sst, t) + 1
  IN IF k \notin sst.keys THEN NotFound
     ELSE IF i = 0 /\ KeyLess(sst.index[1], t) THEN NotFound
     ELSE IF i >= Len(sst.index) THEN NotFound
     ELSE LET res == ScanBlock(sst.blocks[i + 1], k, s)
          IN IF res.kind = "Found" THEN res
             ELSE IF i - 1 >= 0 /\ sst.index[i].key = k
                  THEN ScanPrevBlock(sst.blocks[i], k, s, res)
                  ELSE res

-----------------------------------------------------------------------------
(* The iterator's position is <<block_id_, j>>, j the 1-based record of    *)
(* the block; Oob is the read of index_[-1].                               *)
Oob == <<-1, 0>>
End == [key |-> "end"]

\* BlockIterator::Seek: from the first record, Next while below t.
BlockSeek(block, t) ==
  LET below == {j \in DOMAIN block : \A x \in 1..j : KeyLess(block[x], t)}
  IN IF below = {} THEN 1 ELSE Max(below) + 1

\* BlockIterator::Valid: the position is before the block's offset array.
BlockValid(block, j) == j <= Len(block)

\* BlockIterator::Next: past the key and the value, to the next record.
BlockNext(j) == j + 1

\* BlockIterator::key() and value(): the record at the position.
BlockAt(block, j) == block[j]

\* SSTableIterator::Valid: the block iterator is valid and block_id_ is
\* below the record count of the SSTInfo.
IterValid(sst, p) ==
  /\ 0 <= p[1] /\ p[1] < Len(sst.blocks) /\ p[1] < sst.count
  /\ BlockValid(sst.blocks[p[1] + 1], p[2])

(* SSTableIterator::Next: the block iterator's Next; when that leaves it   *)
(* invalid, the next block, from its first record.                         *)
IterNext(sst, p) ==
  LET j == BlockNext(p[2])
  IN IF BlockValid(sst.blocks[p[1] + 1], j) THEN <<p[1], j>> ELSE <<p[1] + 1, 1>>

(***************************************************************************)
(* SSTableIterator::Seek: block_id_ = the index search's result, which is  *)
(* -1 when t is not above the first index key; the block is sought, and    *)
(* when that leaves it invalid the next block is sought as well.           *)
(***************************************************************************)
SSTSeek(sst, k, s) ==
  LET t == Target(k, s)
      i == Search(sst, t)
      p == <<i, BlockSeek(sst.blocks[i + 1], t)>>
  IN IF i = -1 THEN Oob
     ELSE IF p[2] <= Len(sst.blocks[i + 1]) \/ i + 1 >= Len(sst.index) THEN p
     ELSE <<i + 1, BlockSeek(sst.blocks[i + 2], t)>>

\* The record an iterator at p yields, or End when it is not valid.
At(sst, p) == IF p # Oob /\ IterValid(sst, p) THEN BlockAt(sst.blocks[p[1] + 1], p[2]) ELSE End

\* SeekToFirst and Next until the iterator is invalid: the records read.
RECURSIVE ScanFrom(_, _, _)
ScanFrom(sst, p, fuel) ==
  IF fuel = 0 \/ ~IterValid(sst, p) THEN <<>>
  ELSE <<At(sst, p)>> \o ScanFrom(sst, IterNext(sst, p), fuel - 1)

Scan(sst) == ScanFrom(sst, <<0, 1>>, sst.count)

=============================================================================
