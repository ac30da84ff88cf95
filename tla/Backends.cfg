\* Every result of up to five rows against every limit up to four, and none;
\* listings of three keys in four calls; schemas of four tables, two of one name;
\* samples of three documents; scripts for Redis and sessions on MongoDB.
SPECIFICATION MCSpec
CONSTANTS
  Totals <- MCTotals
  Limits <- MCLimits
  OwnBatch = {0, 2}
  MaxBatch = 4
  Key = {1, 2, 3}
  ScanLimit = 4
  ScanBatch = 2
  Patience = 4
  Table = {1, 2, 3, 4}
  Name <- MCName
  Wanted = {{}, {"orders"}, {"orders", "items"}}
  MaxTables = {0, 1, 2}
  DefaultMaxSchemaTables = 3
  Field = {"_id", "name", "age"}
  ValueType = {"null", "string", "int"}
  MaxDocs = 3
  MaxElements = 4
INVARIANTS
  ListingsAreWhole
  DocumentsAsRows
PROPERTIES
  ScanIsWhole
  AnswersAreWhole
  CommandsAsTyped
  EverythingReturns
CHECK_DEADLOCK FALSE
