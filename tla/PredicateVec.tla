----------------------------- MODULE PredicateVec -----------------------------
(***************************************************************************)
(* PredicateElement and PredicateVec (src/plan/plan_expr.hpp): a WHERE or  *)
(* ON expression divided on AND into binary-condition elements, each with  *)
(* the table sets (bitvectors) of its two operands, and the table-name     *)
(* analysis of an operand.                                                 *)
(*                                                                         *)
(* An expression node is [type, op, tid, name, ch0, ch1]: its ExprType,    *)
(* its operator, for a column the id of its table (the bit that            *)
(* GetExprBitVector sets) and its table_name_, and its children, NullExpr  *)
(* where the pointer is null.  The collaborators that are not in the       *)
(* repository are modelled from spec 4.11: DivideIntoPredicateList splits  *)
(* on AND, GetExprBitVector collects the tables of the column references.  *)
(* clone is a deep copy, so values stand for the cloned trees.             *)
(***************************************************************************)
EXTENDS Integers, Sequences, SequencesExt, FiniteSets

CONSTANTS
  NullExpr,       \* a null child pointer
  Nullopt,        \* an empty std::optional<std::string>
  TableName(_),   \* table_name_ of the table with a given id
  ExprTables,     \* table ids the enumerated expressions reference
  ExprDepth       \* bound on the depth of the enumerated expressions

\* Expression nodes as the parser builds them.
ExprNode(type, op, a, b) == [type |-> type, op |-> op, tid |-> -1, name |-> "", ch0 |-> a, ch1 |-> b]
Column(t) == [type |-> "COLUMN", op |-> "none", tid |-> t, name |-> TableName(t), ch0 |-> NullExpr, ch1 |-> NullExpr]
Literal   == ExprNode("LITERAL", "none", NullExpr, NullExpr)
Cond(op, a, b) == ExprNode("BINCONDOP", op, a, b)

\* Spec 4.11: the tables a subtree's column references belong to.
RECURSIVE GetExprBitVector(_)
GetExprBitVector(e) ==
  IF e = NullExpr THEN {}
  ELSE IF e.type = "COLUMN" THEN {e.tid}
  ELSE GetExprBitVector(e.ch0) \cup GetExprBitVector(e.ch1)

\* Spec 4.11: the conjuncts of an expression, split on AND.
RECURSIVE DivideIntoPredicateList(_)
DivideIntoPredicateList(e) ==
  IF e.type = "BINCONDOP" /\ e.op = "AND"
  THEN DivideIntoPredicateList(e.ch0) \o DivideIntoPredicateList(e.ch1)
  ELSE <<e>>

\* Mutant: two operands naming different tables are not a conflict.
RECURSIVE GetTableNameInExprNoConflict(_)
GetTableNameInExprNoConflict(e) ==
  IF e = NullExpr THEN ""
  ELSE IF e.type = "COLUMN" THEN e.name
  ELSE IF e.ch0 # NullExpr /\ e.ch1 # NullExpr
  THEN LET r0 == GetTableNameInExprNoConflict(e.ch0)
           r1 == GetTableNameInExprNoConflict(e.ch1)
       IN IF r0 = Nullopt \/ r1 = Nullopt THEN Nullopt ELSE r0
  ELSE GetTableNameInExprNoConflict(e.ch0)

(* GetTableNameInExpr: "" for a null subtree, the column's table name, or  *)
(* for two children Nullopt on a conflict and otherwise the left result    *)
(* (also when that is "" and the right one names a table).                 *)
RECURSIVE GetTableNameInExpr(_)
GetTableNameInExpr(e) ==
  IF e = NullExpr THEN ""
  ELSE IF e.type = "COLUMN" THEN e.name
  ELSE IF e.ch0 # NullExpr /\ e.ch1 # NullExpr
  THEN LET r0 == GetTableNameInExpr(e.ch0)
           r1 == GetTableNameInExpr(e.ch1)
       IN IF r0 = Nullopt \/ r1 = Nullopt \/ (r0 # "" /\ r1 # "" /\ r0 # r1)
          THEN Nullopt ELSE r0
  ELSE GetTableNameInExpr(e.ch0)

\* GetLeftTableName and GetRightTableName: "" becomes Nullopt too.
OnlyTable(r) == IF r = Nullopt \/ r = "" THEN Nullopt ELSE r
GetLeftTableName(el)  == OnlyTable(GetTableNameInExpr(el.expr.ch0))
GetRightTableName(el) == OnlyTable(GetTableNameInExpr(el.expr.ch1))

IsEq(el) == el.expr.op = "EQ"

(* Create: a binary condition becomes an element with the tables of its    *)
(* operands; any other conjunct a is wrapped as a != 0, with no tables on  *)
(* the right.                                                              *)
MakeElement(a) ==
  IF a.type = "BINCONDOP"
  THEN [expr |-> a, left_bits_ |-> GetExprBitVector(a.ch0), right_bits_ |-> GetExprBitVector(a.ch1)]
  ELSE [expr |-> Cond("NEQ", a, Literal), left_bits_ |-> GetExprBitVector(a), right_bits_ |-> {}]

Create(e) ==
  IF e = NullExpr THEN <<>>
  ELSE LET list == DivideIntoPredicateList(e)
       IN [i \in DOMAIN list |-> MakeElement(list[i])]

\* Mutant: the loop starts at element 0, which is already the seed.
GenExprFromZero(vec) ==
  IF vec = <<>> THEN NullExpr
  ELSE FoldLeft(LAMBDA acc, el : Cond("AND", acc, el.expr), vec[1].expr, vec)

\* GenExpr: the elements' expressions joined by AND from the left.
GenExpr(vec) ==
  IF vec = <<>> THEN NullExpr
  ELSE FoldLeft(LAMBDA acc, el : Cond("AND", acc, el.expr), vec[1].expr, Tail(vec))

-----------------------------------------------------------------------------
\* Every expression of depth ExprDepth or less over columns of ExprTables
\* and a literal: comparisons, AND, an arithmetic operator and a negation.
RECURSIVE BoundedExprs(_)
BoundedExprs(d) ==
  IF d = 0 THEN {Column(t) : t \in ExprTables} \cup {Literal}
  ELSE LET sub == BoundedExprs(d - 1)
       IN sub \cup {ExprNode("UNARYOP", "NEG", a, NullExpr) : a \in sub}
              \cup {Cond(op, a, b) : op \in {"EQ", "LT", "AND"}, a \in sub, b \in sub}
              \cup {ExprNode("BINOP", "ADD", a, b) : a \in sub, b \in sub}

Exprs == BoundedExprs(ExprDepth)

(* GetLeftTableName and GetRightTableName name a table only when the       *)
(* operand references that table alone, through unary nodes, arithmetic,   *)
(* literals and nested conditions: a rule that takes the name for a        *)
(* single-table operand agrees with the element's bitsets.                 *)
TableNameSound ==
  \A e \in Exprs : \A el \in Range(Create(e)) :
    /\ GetLeftTableName(el) # Nullopt =>
         {TableName(t) : t \in el.left_bits_} = {GetLeftTableName(el)}
    /\ GetRightTableName(el) # Nullopt =>
         {TableName(t) : t \in el.right_bits_} = {GetRightTableName(el)}

\* Dividing GenExpr's AND chain again gives the elements of every bounded
\* expression back (used by the model-checking instance's invariant).
RoundTripAll ==
  \A e \in Exprs : Create(GenExpr(Create(e))) = Create(e)

=============================================================================
