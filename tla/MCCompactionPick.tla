--------------------------- MODULE MCCompactionPick ---------------------------
(* Versions over internal-key ranks 1..4 and SSTable sizes 1 and 2.        *)
(* Leveled: level 0 with up to two runs, then up to two deeper levels of   *)
(* one run of one or two SSTables each.  Tiered: up to three levels of up  *)
(* to two one-SSTable runs, the deepest level non-empty.                   *)
EXTENDS CompactionPick

MCKeys  == 1..4
MCSizes == {1, 2}

MCSsts == {t \in [l : MCKeys, r : MCKeys, size : MCSizes] : t.l <= t.r}

\* The SSTables of a sorted run are ordered and disjoint.
MCRuns == {<<t>> : t \in MCSsts} \cup {p \in MCSsts \X MCSsts : p[1].r < p[2].l}

MCLevel0 == {<<>>, <<<<[l |-> 1, r |-> 4, size |-> 1]>>>>,
             <<<<[l |-> 1, r |-> 4, size |-> 1]>>, <<[l |-> 1, r |-> 4, size |-> 1]>>>>}

MCLeveledVersions ==
  {<<l0>> : l0 \in MCLevel0}
    \cup {<<l0, <<r1>>>> : l0 \in MCLevel0, r1 \in MCRuns}
    \cup {<<l0, <<r1>>, <<r2>>>> : l0 \in MCLevel0, r1, r2 \in MCRuns}

MCTieredLevels ==
  {<<>>} \cup {<<<<[l |-> 1, r |-> 1, size |-> s]>>>> : s \in MCSizes}
    \cup {<<<<[l |-> 1, r |-> 1, size |-> s]>>, <<[l |-> 1, r |-> 1, size |-> z]>>>> : s, z \in MCSizes}

MCTieredVersions ==
  {v \in UNION {[1..n -> MCTieredLevels] : n \in 1..3} : v[Len(v)] # <<>>}
=============================================================================
