\* Two table names and two key types, so a name can be re-created with the
\* other type; two keys and two values; six pages, enough for two tables
\* and the two pages a failing Create allocates; schema_ of up to three
\* entries; ticks_ up to 2.
CONSTANTS
  Names <- MCNames
  PkTypes = {int, str}
  Keys <- MCKeys
  Vals = {a, b}
  NoValue = NoValue
  NoTable = NoTable
  Pages <- MCPages
  MaxSchemaLen = 3
  MaxTicks = 2
  BoundVals <- MCBoundVals

SPECIFICATION Spec
INVARIANT TypeOK
INVARIANT PagesAccounted
INVARIANT CacheAgreesWithMap
INVARIANT RangeScanExact
PROPERTY CatalogRefinement
