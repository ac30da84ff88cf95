SPECIFICATION Spec
CONSTANTS
  k1 = k1
  k2 = k2
  books = books
  users = users
  cache = cache
  ghost = ghost
  nameless = nameless
  narrow = narrow
  wide = wide
  audit = audit
  shell = shell
  peek = peek
  put = put
  alter = alter
  NoCap = NoCap
  Empty = Empty
  Client = {k1, k2}
  Connection = {books, users, cache}
  Name = {books, users, cache, ghost, nameless}
  Unnamed = nameless
  Endpoint = {narrow, wide, audit, shell}
  Local = {shell}
  Language <- MCLanguage
  Grant <- MCGrant
  Cap <- MCCap
  Allow <- MCAllow
  Exports = {wide}
  MaxRows <- MCMaxRows
  DefaultMaxRows = 3
  MaxExportRows = 9
  Statement = {peek, put, alter}
  Verdict <- MCVerdict
  Requests <- MCRequests
SYMMETRY Symmetry
INVARIANTS
  UnseenIsUnknown
  LimitsAsAnnounced
  WriteToolCanSucceed
PROPERTIES
  ChangesAreAllowed
  Implements
CHECK_DEADLOCK FALSE
