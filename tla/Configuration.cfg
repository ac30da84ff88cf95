\* Every setting of two pool blocks; two connections and up to two endpoints.
SPECIFICATION MCSpec
CONSTANTS
  Setting <- MCSetting
  DefaultPool <- MCDefaultPool
  Connection = {"books", "cli"}
  Text = {"", "safe-write", "other"}
  Path <- MCPath
  Allow = {{}, {"books"}}
  MaxEndpoints = 2
INVARIANTS
  WriteIsConfigured
  AnsweredAsWritten
PROPERTIES
  PoolsAsConfigured
CHECK_DEADLOCK FALSE
