----------------------------- MODULE JoinOrderDP -----------------------------
(***************************************************************************)
(* The join-order DP of the cost-based optimizer, DP and GeneratePlan in   *)
(* src/plan/cost_based_optimizer.cpp.  Base table i (the i-th SeqScan the  *)
(* DFS meets) is bit i of a table mask S; sz[S] is the true-cardinality    *)
(* hint of the table set S, or 0 when no hint names exactly that set.  A   *)
(* predicate element is [left, right, eq]: the table sets of its two sides *)
(* and whether its operator is EQ (plan_expr.hpp).                         *)
(*                                                                         *)
(* This module holds the DP as operators over n tables; module            *)
(* CostBasedOptimizer runs it from Optimize.                               *)
(***************************************************************************)
EXTENDS Integers, FiniteSets, SequencesExt, Bitwise

CONSTANTS
  N,              \* most base tables of a query (the code allows up to 20)
  ScanCost,       \* optimizer_options.scan_cost
  HashJoinCost,   \* optimizer_options.hash_join_cost
  Cards,          \* cardinalities a hint may give, 0 for "no hint"
  CandidatePreds, \* predicate elements a query may contain
  Huge            \* the 1e200 a subset's dp starts from

ASSUME N \in Nat \ {0} /\ ScanCost \in Nat /\ HashJoinCost \in Nat
ASSUME Cards \subseteq Nat /\ 0 \in Cards

Tables == 0..(N - 1)
FullOf(n) == 2^n - 1
Full      == FullOf(N)
Bits(S) == {i \in Tables : (S \div 2^i) % 2 = 1}
PopCount(S) == Cardinality(Bits(S))

\* PredicateElement::CheckLeft / CheckRight: v contains that side's tables.
CheckLeft(p, v)  == p.left \subseteq v
CheckRight(p, v) == p.right \subseteq v

\* Mutant: only the orientation left-in-T, right-in-U is recognised.
CanHJOneWay(ps, T, U) ==
  LET L == Bits(T)
      R == Bits(U)
  IN \E p \in ps :
       /\ p.eq
       /\ ~CheckRight(p, L) /\ ~CheckLeft(p, R) /\ CheckRight(p, R) /\ CheckLeft(p, L)

(* can_hj: an EQ element straddles the split (T, U) in either orientation. *)
CanHJ(ps, T, U) ==
  LET L == Bits(T)
      R == Bits(U)
  IN \E p \in ps :
       /\ p.eq
       /\ \/ ~CheckRight(p, L) /\ ~CheckLeft(p, R) /\ CheckRight(p, R) /\ CheckLeft(p, L)
          \/ ~CheckLeft(p, L) /\ ~CheckRight(p, R) /\ CheckRight(p, L) /\ CheckLeft(p, R)

\* The cost the split T of S adds on top of dp[T] + dp[S - T].
JoinCost(sz, ps, S, T) ==
  LET nl == ScanCost * sz[T] * sz[S - T]
      hj == HashJoinCost * (sz[T] + sz[S - T]) + ScanCost * sz[S]
  IN IF CanHJ(ps, T, S - T) THEN Min({nl, hj}) ELSE nl

(* for (T = (S - 1) & S; T >= S / 2; T = (T - 1) & S): the submasks of S  *)
(* in descending order down to S / 2.                                      *)
RECURSIVE SplitsFrom(_, _)
SplitsFrom(S, T) ==
  IF T >= S \div 2 THEN <<T>> \o SplitsFrom(S, (T - 1) & S) ELSE <<>>

Splits(S) == SplitsFrom(S, (S - 1) & S)

(* The loop state of DP is dp and choose over all masks (is_hj is recorded *)
(* by the code but never read, and is left out).  Singletons cost a scan.  *)
DPInit(n, sz) ==
  [dp     |-> [S \in 0..FullOf(n) |-> IF PopCount(S) = 1 THEN ScanCost * sz[S] ELSE 0],
   choose |-> [S \in 0..FullOf(n) |-> 0]]

\* One split: the first candidate (choose[S] = 0) or a cheaper one wins.
SplitStep(sz, ps, S, st, T) ==
  LET c == st.dp[T] + st.dp[S - T] + JoinCost(sz, ps, S, T)
  IN IF st.choose[S] = 0 \/ c < st.dp[S]
     THEN [dp |-> [st.dp EXCEPT ![S] = c], choose |-> [st.choose EXCEPT ![S] = T]]
     ELSE st

\* One subset S of at least two tables, in increasing order of S.
SubsetStep(sz, ps, st, S) ==
  IF PopCount(S) >= 2
  THEN FoldLeft(LAMBDA acc, T : SplitStep(sz, ps, S, acc, T),
                [st EXCEPT !.dp[S] = Huge], Splits(S))
  ELSE st

DPLoop(n, sz, ps) ==
  FoldLeft(LAMBDA acc, S : SubsetStep(sz, ps, acc, S),
           DPInit(n, sz), [i \in 1..(FullOf(n) + 1) |-> i - 1])

(***************************************************************************)
(* GeneratePlan: a plan node is its type, its table set (table_bitset_),   *)
(* its children and the predicate elements attached to it.  A leaf is the  *)
(* SeqScan DFS collected; a join gets the elements whose two sides lie in  *)
(* its tables but not both in one child.                                   *)
(***************************************************************************)
Node(S, ch, ps) ==
  [type |-> IF ch = <<>> THEN "SeqScan" ELSE "Join", tables |-> Bits(S), ch |-> ch, preds |-> ps]

\* Mutant: an element already inside the second child is attached again.
PlanPredsSkipCh2(ps, S, l, r) ==
  {p \in ps : /\ CheckLeft(p, Bits(S)) /\ CheckRight(p, Bits(S))
              /\ ~(CheckLeft(p, l.tables) /\ CheckRight(p, l.tables))}

PlanPreds(ps, S, l, r) ==
  {p \in ps : /\ CheckLeft(p, Bits(S)) /\ CheckRight(p, Bits(S))
              /\ ~(CheckLeft(p, l.tables) /\ CheckRight(p, l.tables))
              /\ ~(CheckLeft(p, r.tables) /\ CheckRight(p, r.tables))}

\* Mutant: both children are built from choose[S].
RECURSIVE GeneratePlanSameChild(_, _, _)
GeneratePlanSameChild(S, choose, ps) ==
  IF PopCount(S) = 1 THEN Node(S, <<>>, {})
  ELSE LET l == GeneratePlanSameChild(choose[S], choose, ps)
           r == GeneratePlanSameChild(choose[S], choose, ps)
       IN Node(S, <<l, r>>, PlanPreds(ps, S, l, r))

RECURSIVE GeneratePlan(_, _, _)
GeneratePlan(S, choose, ps) ==
  IF PopCount(S) = 1 THEN Node(S, <<>>, {})
  ELSE LET l == GeneratePlan(choose[S], choose, ps)
           r == GeneratePlan(S - choose[S], choose, ps)
       IN Node(S, <<l, r>>, PlanPreds(ps, S, l, r))

-----------------------------------------------------------------------------
(***************************************************************************)
(* The reference: every binary join tree over the table set S, and the     *)
(* cost of a tree under the cost model of the spec (section 4.9): scans    *)
(* cost ScanCost per row; a join of L and R costs ScanCost*|L|*|R|, or the *)
(* cheaper of that and HashJoinCost*(|L|+|R|)+ScanCost*|L u R| when an     *)
(* equality element has one side in L and the other in R.                 *)
(***************************************************************************)
RECURSIVE TreesOf(_)
TreesOf(S) ==
  IF PopCount(S) = 1 THEN {Node(S, <<>>, {})}
  ELSE UNION {{Node(S, <<a, b>>, {}) : a \in TreesOf(T), b \in TreesOf(S - T)} :
                T \in {T \in 1..(S - 1) : (T & S) = T}}

MaskOf(tables) == SumSet({2^i : i \in tables})

HashJoinable(ps, L, R) ==
  \E p \in ps :
    /\ p.eq
    /\ p.left # {} /\ p.right # {}
    /\ \/ p.left \subseteq L /\ p.right \subseteq R
       \/ p.left \subseteq R /\ p.right \subseteq L

RECURSIVE TreeCost(_, _, _)
TreeCost(card, ps, t) ==
  IF t.ch = <<>> THEN ScanCost * card[MaskOf(t.tables)]
  ELSE LET a == t.ch[1]
           b == t.ch[2]
           na == card[MaskOf(a.tables)]
           nb == card[MaskOf(b.tables)]
           nl == ScanCost * na * nb
           hj == HashJoinCost * (na + nb) + ScanCost * card[MaskOf(t.tables)]
       IN TreeCost(card, ps, a) + TreeCost(card, ps, b)
            + IF HashJoinable(ps, a.tables, b.tables) THEN Min({nl, hj}) ELSE nl

\* The plan without its predicates, to compare with the reference trees.
RECURSIVE Shape(_)
Shape(t) == [t EXCEPT !.ch = [i \in DOMAIN t.ch |-> Shape(t.ch[i])], !.preds = {}]

RECURSIVE PlanNodes(_)
PlanNodes(t) == {t} \cup UNION {PlanNodes(t.ch[i]) : i \in DOMAIN t.ch}

=============================================================================
