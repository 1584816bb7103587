CONSTANTS
  ColNames <- MCColNames
  IdxNames <- MCIdxNames
  TableNames <- MCTableNames
  DefaultValues <- MCDefaultValues
  InitTables <- MCInitTables
  MaxCols <- MCMaxCols
  MaxCons <- MCMaxCons
  MaxSpecs <- MCMaxSpecs
SPECIFICATION Spec
INVARIANT MergeAtomic
\* One call of mergeAlterToTable: the behaviour stops once it has returned.
CHECK_DEADLOCK FALSE
