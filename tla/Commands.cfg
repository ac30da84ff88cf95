\* CQL statements and batches of up to four changes; Redis commands of up to
\* three arguments; MongoDB filters and commands built in three steps.
SPECIFICATION MCSpec
CONSTANTS
  Commands <- MCCommands
  Arguments <- MCArguments
  MaxArgs = 3
  CqlStatements <- MCCqlStatements
  CqlHeaders <- MCHeaders
  MaxCqlSteps = 4
  MaxMongoSteps = 3
  MaxDepth = 5
INVARIANTS
  BatchAsItsWorst
  RedisAsMeant
  GatedByReach
CHECK_DEADLOCK FALSE
