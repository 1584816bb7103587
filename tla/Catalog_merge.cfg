CONSTANTS
  ColNames <- MCColNames
  IdxNames <- MCIdxNames
  TableNames <- MCTableNames
  DefaultValues <- MCDefaultValues
  InitTables <- MCInitTables
  MaxCols <- MCMaxCols
  MaxCons <- MCMaxCons
  MaxSpecs <- MCMaxSpecs
  MergedSchema <- MCMergedSchema
  OtherSchemaName <- MCOtherSchemaName
  OtherSchema <- MCOtherSchema
  QuerySchemas <- MCQuerySchemas
SPECIFICATION CatalogSpec
INVARIANT ResultMatchesGroupedFold
INVARIANT ColumnResolution
\* One call of mergeAlterToTable and the caller's add: the behaviour stops
\* once the catalog holds the result.
CHECK_DEADLOCK FALSE
