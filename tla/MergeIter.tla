------------------------------ MODULE MergeIter ------------------------------
(***************************************************************************)
(* IteratorHeap (src/storage/lsm/iterator_heap.hpp) and                    *)
(* SuperVersionIterator (src/storage/lsm/version.cpp): a priority queue of *)
(* child iterators ordered by ParsedKey of key(), smallest on top.         *)
(*                                                                         *)
(* A child is a memtable iterator over the memtable's records in internal- *)
(* key order (MemTableIterator is not in the repository) or a              *)
(* SortedRunIterator over a run's SSTables.  Both have a cursor            *)
(* [id, sst, p]: a memtable iterator's record is id, a sorted-run         *)
(* iterator's is as in SortedRunIter.  The heap is the set of the children *)
(* it holds.                                                               *)
(* The comparator reads key() of both iterators.  A sorted-run iterator's *)
(* key() is sst_it_.key(), defined while sst_it_ is valid even when        *)
(* sst_id_ makes Valid false; key() of an exhausted SSTable iterator reads *)
(* the block's offset array as a record (undefined), so a heap that holds  *)
(* a child whose key() is undefined has no defined order: the operators    *)
(* then return ok = FALSE.                                                 *)
(***************************************************************************)
EXTENDS SortedRunIter

\* The children of a SuperVersionIterator: its mt_its_ and its sst_its_.
MemChild(recs) == [mt |-> TRUE, recs |-> recs, run |-> <<>>, bs |-> <<>>, fids |-> <<>>]
RunChild(run, bs, fids) == [mt |-> FALSE, recs |-> <<>>, run |-> run, bs |-> bs, fids |-> fids]

\* A memtable iterator's cursor at its record i.
MemAt(i) == [id |-> i, sst |-> 0, p |-> <<0, 1>>]

\* MemTableIterator::SeekToFirst and SortedRunIterator::SeekToFirst.
First(c) == IF c.mt THEN MemAt(1) ELSE RunSeekToFirst

\* Valid, key() and Next of a child.
CValid(c, q) == IF c.mt THEN q.id <= Len(c.recs) ELSE RunValid(c.bs, q)
CKey(c, q)   == IF c.mt THEN c.recs[q.id] ELSE At(c.bs[q.sst], q.p)
CNext(c, q)  == IF c.mt THEN [q EXCEPT !.id = @ + 1] ELSE RunNext(c.bs, q)

\* MemTableIterator::Seek: the first record not below the target.
MemSeek(recs, t) == Len(SelectSeq(recs, LAMBDA r : KeyLess(r, t))) + 1

\* The Seek of a child: MemTableIterator::Seek or SortedRunIterator::Seek.
CSeek(c, k, s) ==
  IF c.mt THEN MemAt(MemSeek(c.recs, Target(k, s)))
  ELSE RunSeek(c.run, c.bs, c.fids, k, s)

\* key() of a child reads a record: the memtable iterator's, or sst_it_'s.
CKeyDefined(c, q) == IF c.mt THEN q.id <= Len(c.recs) ELSE IterValid(c.bs[q.sst], q.p)

\* The comparator is defined on the heap while every child's key() is; a
\* heap of one child compares nothing.
Ordered(cs, H, cur) == Cardinality(H) <= 1 \/ \A u \in H : CKeyDefined(cs[u], cur[u])

\* it_.top(): the child of least key.
Top(cs, H, cur) ==
  CHOOSE t \in H : \A u \in H \ {t} : KeyLess(CKey(cs[t], cur[t]), CKey(cs[u], cur[u]))

\* IteratorHeap::Valid: the heap is not empty and its top is valid.
HeapValid(cs, H, cur) == H # {} /\ CValid(cs[Top(cs, H, cur)], cur[Top(cs, H, cur)])

\* Mutant: Next pops the top child even when it is still valid.
HeapNextDrop(cs, H, cur) ==
  LET t == Top(cs, H, cur)
  IN [H |-> H \ {t}, cur |-> [cur EXCEPT ![t] = CNext(cs[t], @)]]

(* IteratorHeap::Next: the top child moves on; it is popped, and pushed    *)
(* back when it is still valid.                                            *)
HeapNext(cs, H, cur) ==
  LET t  == Top(cs, H, cur)
      c2 == [cur EXCEPT ![t] = CNext(cs[t], @)]
  IN [H |-> IF CValid(cs[t], c2[t]) THEN H ELSE H \ {t}, cur |-> c2]

(* The keys the merged iterator yields, Next after Next, while Valid;     *)
(* not ok once the heap holds an invalid child among others.              *)
RECURSIVE HeapScan(_, _, _, _)
HeapScan(cs, H, cur, fuel) ==
  IF ~Ordered(cs, H, cur) THEN [ok |-> FALSE, keys |-> <<>>]
  ELSE IF fuel = 0 \/ ~HeapValid(cs, H, cur) THEN [ok |-> TRUE, keys |-> <<>>]
  ELSE LET t    == Top(cs, H, cur)
           nxt  == HeapNext(cs, H, cur)
           rest == HeapScan(cs, nxt.H, nxt.cur, fuel - 1)
       IN [rest EXCEPT !.keys = <<CKey(cs[t], cur[t])>> \o @]

\* SuperVersionIterator::SeekToFirst: every child sought to its first
\* record and pushed.
SVSeekToFirst(cs) == [ok |-> TRUE, H |-> DOMAIN cs, cur |-> [i \in DOMAIN cs |-> First(cs[i])]]

(***************************************************************************)
(* SuperVersionIterator::Seek: SeekToFirst, then while the heap is valid   *)
(* the top child is sought and popped; then the children popped are        *)
(* pushed back onto what is left.  A sorted-run seek that reads            *)
(* index_[-1] is undefined as well.                                        *)
(***************************************************************************)
RECURSIVE SeekLoop(_, _, _, _, _, _)
SeekLoop(cs, H, cur, k, s, popped) ==
  IF ~Ordered(cs, H, cur) THEN [ok |-> FALSE, H |-> H, cur |-> cur]
  ELSE IF ~HeapValid(cs, H, cur) THEN [ok |-> TRUE, H |-> H \cup popped, cur |-> cur]
  ELSE LET t == Top(cs, H, cur)
           q == CSeek(cs[t], k, s)
       IN IF q.p = Oob THEN [ok |-> FALSE, H |-> H, cur |-> cur]
          ELSE SeekLoop(cs, H \ {t}, [cur EXCEPT ![t] = q], k, s, popped \cup {t})

SVSeek(cs, k, s) ==
  LET st == SVSeekToFirst(cs)
  IN SeekLoop(cs, st.H, st.cur, k, s, {})

=============================================================================
