\* Queries with a RangeScan leaf: a join whose third table is range
\* scanned, and a range scan alone.
CONSTANTS
  N = 3
  ScanCost = 2
  HashJoinCost = 1
  Cards = {0, 1}
  CandidatePreds <- MCPreds
  Huge = 1000000
  Queries <- MCRangeQueries
  Stats <- MCStats
  EnablePT = TRUE
  NullExpr = NullExpr
  Nullopt = Nullopt
  TableName <- MCTableName
  ExprTables = {0, 1}
  ExprDepth = 2
SPECIFICATION Spec
INVARIANT QueryPreserved
\* Optimize runs once; the final state has no successor.
CHECK_DEADLOCK FALSE
