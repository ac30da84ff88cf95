\* Exports of every result of up to five rows, in batches of one to three,
\* against every limit up to four, and none; predicates of up to two leaves, and
\* of three of a few; statements wrapped and joined twice; texts of up to four
\* characters of every kind, and of up to eight of a few; SQL scripts of four
\* pieces and CQL ones of five.
SPECIFICATION MCSpec
CONSTANTS
  NULL = NULL
  Totals <- MCTotals
  Limits <- MCLimits
  Sizes <- MCSizes
INVARIANTS
  StatementsAddUp
  GatedAsItsWorst
  CutsAreTopLevel
  ScriptsAsTyped
PROPERTIES
  ExportIsWhole
  ExportComesBack
  PredicatesAsMeant
CHECK_DEADLOCK FALSE
