---------------------------- MODULE CompactionPick ----------------------------
(***************************************************************************)
(* The compaction pickers of src/storage/lsm/compaction_pick.cpp: leveled, *)
(* tiered, lazy-leveling and fluid, as operators from a Version to the     *)
(* Compaction they return.  A version is a sequence of levels (v[1] is     *)
(* level 0), a level a sequence of sorted runs (oldest first), a run a     *)
(* sequence of SSTables, and an SSTable [l, r, size]: its smallest and     *)
(* largest internal key, abstracted to their rank in ParsedKey order, and  *)
(* its byte size.  Level::size() and SortedRun::size() are the sums of the *)
(* SSTable sizes.                                                          *)
(*                                                                         *)
(* A picker result is None, a Compaction, or Oob when the code indexes an  *)
(* empty vector (GetRuns()[0] or GetSSTs()[0]), which is undefined.        *)
(* Runs are named <<level, i>> and SSTables <<level, i, k>>, 0-based as in *)
(* the code; the null target_run is <<>>.                                  *)
(***************************************************************************)
EXTENDS Integers, Sequences, SequencesExt

CONSTANTS
  LeveledVersions, \* versions a leveled tree can have: one run per level >= 1
  TieredVersions,  \* versions a tiered tree can have: the deepest level non-empty
  Ratio,           \* ratio_
  BaseLevelSize,   \* base_level_size_
  Level0Trigger,   \* level0_compaction_trigger_
  Alphas           \* fluid alpha_, in tenths

ASSUME Ratio \in Nat \ {0} /\ BaseLevelSize \in Nat /\ Level0Trigger \in Nat
ASSUME Alphas \subseteq 0..10

None == [kind |-> "none"]
Oob  == [kind |-> "oob"]

Compaction(ssts, runs, src, target, trun, trivial) ==
  [kind |-> "compaction", inputs |-> ssts, runs |-> runs, src |-> src,
   target |-> target, target_run |-> trun, trivial |-> trivial]

SumSizes(s) == FoldLeft(LAMBDA acc, t : acc + t.size, 0, s)
RunSize(run) == SumSizes(run)
\* Level::size(): size_ grows by run->size() at every Append.
LevelSize(lv) == FoldLeft(LAMBDA acc, run : acc + RunSize(run), 0, lv)

\* The runs of level i (0-based) as the Compaction names them.
RunsOf(v, i) == {<<i, j>> : j \in 0..(Len(v[i + 1]) - 1)}

\* The level i exists and its run 0 exists.
HasRun0(v, i) == i < Len(v) /\ Len(v[i + 1]) > 0

\* overlaps(table1, table2): an end of table1 lies inside table2.
Overlaps(t1, t2) ==
  \/ t1.r <= t2.r /\ t1.r >= t2.l
  \/ t1.l <= t2.r /\ t1.l >= t2.l

(***************************************************************************)
(* The SSTable loop of the leveled picker for src level >= 1: the first    *)
(* SSTable outside the target run's range wins at once; otherwise the one  *)
(* with the least size of overlapping target SSTables, the first on ties.  *)
(***************************************************************************)
PickTable(curr, trun) ==
  LET tl == trun[1].l
      tr == Last(trun).r
      step(acc, k) ==
        IF acc.stop THEN acc
        ELSE IF tl > curr[k].r \/ curr[k].l > tr
             THEN [table |-> k, rsf |-> acc.rsf, stop |-> TRUE]
             ELSE LET c == SumSizes(SelectSeq(trun, LAMBDA t : Overlaps(curr[k], t)))
                  IN IF acc.rsf = -1 \/ c < acc.rsf
                     THEN [table |-> k, rsf |-> c, stop |-> FALSE]
                     ELSE acc
  IN FoldLeft(step, [table |-> 0, rsf |-> -1, stop |-> FALSE],
              [k \in 1..Len(curr) |-> k]).table

\* Mutant: the level loop stops one level early.
LeveledOverSkipLast(v, ratio, base) ==
  {l \in 1..(Len(v) - 2) : LevelSize(v[l + 1]) >= base * ratio^l}

\* The levels >= 1 the leveled picker finds over their size.
LeveledOver(v, ratio, base) ==
  {l \in 1..(Len(v) - 1) : LevelSize(v[l + 1]) >= base * ratio^l}

\* Mutant: the target level is read without checking that it exists.
LeveledNoTargetCheck(v, ratio, base, trigger) ==
  LET n     == Len(v)
      over  == LeveledOver(v, ratio, base)
      src   == IF over # {} THEN Min(over)
               ELSE IF n > 0 /\ Len(v[1]) > trigger THEN 0 ELSE -1
      tgt   == src + 1
  IN IF src = -1 THEN None
     ELSE IF ~HasRun0(v, tgt) \/ (src # 0 /\ ~HasRun0(v, src)) THEN Oob
     ELSE Compaction(IF src = 0 THEN {}
                     ELSE {<<src, 0, PickTable(v[src + 1][1], v[tgt + 1][1]) - 1>>},
                     RunsOf(v, src), src, tgt, <<tgt, 0>>, FALSE)

(***************************************************************************)
(* LeveledCompactionPicker::Get: level 0 over the trigger picks 0 -> 1,    *)
(* then the first level >= 1 over base * ratio^level overrides it.  With   *)
(* an existing target level, a src >= 1 picks one table and the target run *)
(* is the target level's run 0; without one the compaction is a trivial    *)
(* move of the src level's first SSTable.  Level 0 passes all its runs.    *)
(***************************************************************************)
Leveled(v, ratio, base, trigger) ==
  LET n     == Len(v)
      over  == LeveledOver(v, ratio, base)
      src   == IF over # {} THEN Min(over)
               ELSE IF n > 0 /\ Len(v[1]) > trigger THEN 0 ELSE -1
      tgt   == src + 1
  IN IF src = -1 THEN None
     ELSE IF tgt < n
     THEN IF ~HasRun0(v, tgt) \/ (src # 0 /\ ~HasRun0(v, src)) THEN Oob
          ELSE Compaction(IF src = 0 THEN {}
                          ELSE {<<src, 0, PickTable(v[src + 1][1], v[tgt + 1][1]) - 1>>},
                          RunsOf(v, src), src, tgt, <<tgt, 0>>, FALSE)
     ELSE IF ~HasRun0(v, src) \/ v[src + 1][1] = <<>> THEN Oob
     ELSE Compaction(IF src = 0 THEN {} ELSE {<<src, 0, 0>>},
                     RunsOf(v, src), src, tgt, <<>>, TRUE)

(***************************************************************************)
(* TieredCompactionPicker::Get: the deepest level with at least ratio runs *)
(* or at least ratio^i * base bytes passes all its runs to level i + 1:    *)
(* the deepest level as a trivial move with no target, the level above it  *)
(* (when there are more than two) into the deepest level's run 0, any      *)
(* other with no target.                                                   *)
(***************************************************************************)
TieredOver(v, ratio, base) ==
  {i \in 0..(Len(v) - 1) : Len(v[i + 1]) >= ratio \/ LevelSize(v[i + 1]) >= ratio^i * base}

Tiered(v, ratio, base) ==
  LET n    == Len(v)
      over == TieredOver(v, ratio, base)
      i    == Max(over)
  IN IF n = 0 \/ over = {} THEN None
     ELSE IF i = n - 1 THEN Compaction({}, RunsOf(v, i), i, i + 1, <<>>, TRUE)
     ELSE IF n > 2 /\ i = n - 2
          THEN IF ~HasRun0(v, n - 1) THEN Oob
               ELSE Compaction({}, RunsOf(v, i), i, i + 1, <<n - 1, 0>>, FALSE)
     ELSE Compaction({}, RunsOf(v, i), i, i + 1, <<>>, FALSE)

(***************************************************************************)
(* LazyLevelingCompactionPicker::Get: a lone level with at least trigger   *)
(* runs, or a deepest level of at least ratio^(n-1) * base bytes, moves to *)
(* a new level; otherwise the tiered picker with the same parameters.      *)
(***************************************************************************)
LazyLeveling(v, ratio, base, trigger) ==
  LET n == Len(v)
  IN IF n = 0 THEN None
     ELSE IF \/ n = 1 /\ Len(v[n]) >= trigger
             \/ LevelSize(v[n]) >= ratio^(n - 1) * base
          THEN Compaction({}, RunsOf(v, n - 1), n - 1, n, <<>>, TRUE)
     ELSE Tiered(v, ratio, base)

(***************************************************************************)
(* FluidCompactionPicker::Get: alpha >= 0.3 delegates to leveled with      *)
(* ratio int(36 * alpha) and trigger 1, otherwise to tiered with ratio 8   *)
(* and base (base / trigger) * 8 in integer arithmetic.                    *)
(***************************************************************************)
Fluid(v, alpha, ratio, base, trigger) ==
  IF alpha >= 3
  THEN Leveled(v, (36 * alpha) \div 10, base, 1)
  ELSE Tiered(v, 8, (base \div trigger) * 8)

-----------------------------------------------------------------------------
VARIABLES
  policy,    \* the picker the tree was opened with
  alpha,     \* the fluid picker's alpha_
  version,   \* the Version handed to the picker
  picked,    \* the Compaction it returned
  done       \* Get has returned

vars == <<policy, alpha, version, picked, done>>

Policies == {"leveled", "tiered", "lazy", "fluid"}

\* The versions a tree run under policy p (and alpha a) can be in.
VersionsOf(p, a) ==
  IF p = "leveled" \/ (p = "fluid" /\ a >= 3) THEN LeveledVersions ELSE TieredVersions

Init ==
  /\ policy \in Policies
  /\ alpha \in Alphas
  /\ version \in VersionsOf(policy, alpha)
  /\ picked = None
  /\ done = FALSE

\* CompactionPicker::Get of the tree's policy on the current version.
Pick ==
  /\ ~done
  /\ picked' = CASE policy = "leveled" -> Leveled(version, Ratio, BaseLevelSize, Level0Trigger)
                 [] policy = "tiered"  -> Tiered(version, Ratio, BaseLevelSize)
                 [] policy = "lazy"    -> LazyLeveling(version, Ratio, BaseLevelSize, Level0Trigger)
                 [] policy = "fluid"   -> Fluid(version, alpha, Ratio, BaseLevelSize, Level0Trigger)
  /\ done' = TRUE
  /\ UNCHANGED <<policy, alpha, version>>

Next == Pick

Spec == Init /\ [][Next]_vars

-----------------------------------------------------------------------------
CompactionRecords(v) ==
  {c \in [kind : {"compaction"}, inputs : SUBSET (Nat \X Nat \X Nat),
          runs : SUBSET (Nat \X Nat), src : Nat, target : Nat,
          target_run : {<<>>} \cup (Nat \X Nat), trivial : BOOLEAN] :
     c.src < Len(v)}

(* Types: the picker returns None or a Compaction of an existing source    *)
(* level, and never indexes an empty vector (Oob).                         *)
TypeOK ==
  /\ policy \in Policies /\ alpha \in Alphas /\ done \in BOOLEAN
  /\ picked \in {None} \cup CompactionRecords(version)

(* Spec 4.5: when a level is due under the policy, a compaction is picked, *)
(* and a picked compaction moves a due level to the level below it with   *)
(* all the runs of that level.  Leveled: level 0 is due with more than     *)
(* trigger runs, a level L >= 1 with size >= base * ratio^L.  Tiered: a    *)
(* level i with >= ratio runs or size >= base * ratio^i.  Lazy-leveling    *)
(* compacts whenever tiered would, and fluid behaves as the picker its     *)
(* alpha selects.                                                          *)
LeveledDue(v, ratio, base, trigger, i) ==
  IF i = 0 THEN Len(v[1]) > trigger ELSE LevelSize(v[i + 1]) >= base * ratio^i

TieredDue(v, ratio, base, i) ==
  Len(v[i + 1]) >= ratio \/ LevelSize(v[i + 1]) >= base * ratio^i

Due(i) ==
  CASE policy = "leveled" -> LeveledDue(version, Ratio, BaseLevelSize, Level0Trigger, i)
    [] policy = "fluid" /\ alpha >= 3 -> LeveledDue(version, (36 * alpha) \div 10, BaseLevelSize, 1, i)
    [] policy = "fluid" -> TieredDue(version, 8, (BaseLevelSize \div Level0Trigger) * 8, i)
    [] OTHER -> TieredDue(version, Ratio, BaseLevelSize, i)

CompactsWhenDue ==
  done =>
    /\ (\E i \in 0..(Len(version) - 1) : Due(i)) => picked # None
    /\ policy # "lazy" /\ picked # None =>
         /\ Due(picked.src)
         /\ picked.target = picked.src + 1
         /\ picked.runs = RunsOf(version, picked.src)

(* Spec 4.5, leveled: from a level L >= 1 the picker takes the SSTable     *)
(* whose overlapping SSTables in level L + 1 have the least total size.    *)
TrueOverlap(t, run) ==
  SumSizes(SelectSeq(run, LAMBDA u : ~(u.r < t.l \/ t.r < u.l)))

LeveledPickMinOverlap ==
  done /\ policy = "leveled" /\ picked # None /\ picked.src >= 1 /\ picked.target_run # <<>> =>
    LET curr == version[picked.src + 1][1]
        trun == version[picked.target + 1][1]
        k    == CHOOSE x \in picked.inputs : TRUE
    IN \A j \in DOMAIN curr : TrueOverlap(curr[k[3] + 1], trun) <= TrueOverlap(curr[j], trun)


(* Spec 4.5, leveled: from a level L >= 1 an SSTable that overlaps no     *)
(* SSTable of level L + 1 is moved down alone, as a trivial move without a *)
(* target run, instead of being merged into that run.                     *)
Disjoint(t, run) == run[1].l > t.r \/ t.l > Last(run).r

LeveledTrivialWhenDisjoint ==
  done /\ policy = "leveled" /\ picked # None /\ picked.src >= 1 /\ picked.target < Len(version) =>
    LET curr == version[picked.src + 1][1]
        trun == version[picked.target + 1][1]
    IN (\E j \in DOMAIN curr : Disjoint(curr[j], trun)) =>
         picked.trivial /\ picked.target_run = <<>>

=============================================================================
