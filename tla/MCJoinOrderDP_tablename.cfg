\* PredicateElement's table-name analysis over every expression of depth 2
\* or less on two tables; the planner's constants are those of
\* MCJoinOrderDP.cfg.
CONSTANTS
  N = 3
  ScanCost = 2
  HashJoinCost = 1
  Cards = {0, 1, 2}
  CandidatePreds <- MCPreds
  Huge = 1000000
  Queries <- MCQueries
  Stats <- MCStats
  EnablePT = TRUE
  NullExpr = NullExpr
  Nullopt = Nullopt
  TableName <- MCTableName
  ExprTables = {0, 1}
  ExprDepth = 2
SPECIFICATION Spec
INVARIANT TableNameSound
CHECK_DEADLOCK FALSE
