---------------------------- MODULE SortedRunIter ----------------------------
(***************************************************************************)
(* SortedRunIterator and SortedRun::Seek (src/storage/lsm/level.cpp) over  *)
(* the SSTables of one sorted run, each read through the block reader of   *)
(* module SSTable.  A run is the sequence of the SSTables' record          *)
(* sequences; bs is the same run built into blocks; fids holds each        *)
(* SSTable's file number, the sst_id_ of its SSTInfo (pair.second of       *)
(* file_gen_->Generate() at compaction_job.hpp:47 and 74).  The iterator's *)
(* state is [id, sst, p]: id is sst_id_ + 1, sst the position in the run   *)
(* of the SSTable sst_it_ walks, and p the position of sst_it_ in it.      *)
(* Valid and Next read sst_id_ as a position in ssts_, so id and sst       *)
(* agree only where the iterator set sst_id_ from a position.  When Next   *)
(* passes the last SSTable, sst_it_ stays where it is and only id moves    *)
(* on.  SSTable::Begin (its constructor is not in the repository)          *)
(* positions at the first record, as SeekToFirst does.                     *)
(***************************************************************************)
EXTENDS SSTable

\* The run's SSTables as SSTableBuilder writes them.
Built(run) == [i \in DOMAIN run |-> BuildSST(run[i])]

\* SortedRun::Begin: sst_it_ at ssts_[0]'s first record, sst_id_ its file number.
RunBegin(fids) == [id |-> fids[1] + 1, sst |-> 1, p |-> <<0, 1>>]

\* SortedRunIterator::SeekToFirst: sst_id_ = 0 and ssts_[0]->Begin().
RunSeekToFirst == [id |-> 1, sst |-> 1, p |-> <<0, 1>>]

\* SortedRunIterator::Valid: sst_it_ is valid and sst_id_ < ssts_.size().
RunValid(bs, q) == q.id <= Len(bs) /\ IterValid(bs[q.sst], q.p)

\* Mutant: at the end of an SSTable the id moves on but sst_it_ is kept.
RunNextNoBegin(bs, q) ==
  LET p2 == IterNext(bs[q.sst], q.p)
  IN IF IterValid(bs[q.sst], p2) THEN [q EXCEPT !.p = p2]
     ELSE [q EXCEPT !.id = @ + 1, !.p = p2]

(* SortedRunIterator::Next: the SSTable iterator's Next; when that leaves  *)
(* it invalid, sst_id_ moves on and, while below the SSTable count,        *)
(* sst_it_ becomes the Begin of ssts_[sst_id_].                            *)
RunNext(bs, q) ==
  LET p2 == IterNext(bs[q.sst], q.p)
  IN IF IterValid(bs[q.sst], p2) THEN [q EXCEPT !.p = p2]
     ELSE IF q.id + 1 <= Len(bs) THEN [id |-> q.id + 1, sst |-> q.id + 1, p |-> <<0, 1>>]
     ELSE [q EXCEPT !.id = @ + 1, !.p = p2]

(***************************************************************************)
(* SortedRun::Seek: the binary search of SortedRun::Get over the user-key  *)
(* ranges; when no SSTable's range holds k, SSTable 0 is taken; that       *)
(* SSTable's iterator is sought, and the SortedRunIterator gets the        *)
(* SSTable's file number as sst_id_.  It never moves on to the next        *)
(* SSTable.                                                                *)
(***************************************************************************)
RunSeek(run, bs, fids, k, s) ==
  LET i == RunSearch(run, k, 1, Len(run))
      j == IF i = 0 THEN 1 ELSE i
  IN [id |-> fids[j] + 1, sst |-> j, p |-> SSTSeek(bs[j], k, s)]

\* The records key() yields from q on, Next after Next, while Valid.
RECURSIVE RunScanFrom(_, _, _)
RunScanFrom(bs, q, fuel) ==
  IF fuel = 0 \/ ~RunValid(bs, q) THEN <<>>
  ELSE <<At(bs[q.sst], q.p)>> \o RunScanFrom(bs, RunNext(bs, q), fuel - 1)

=============================================================================
