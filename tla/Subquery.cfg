SPECIFICATION Spec
CONSTANTS
  w1 = w1
  w2 = w2
  f1 = f1
  fooUpper = fooUpper
  foo = foo
  bar = bar
  NoReport = NoReport
  Workers <- MCWorkers
  Flushers <- MCFlushers
  Urls <- MCUrls
  Requests <- MCRequests
  Lower <- MCLower
  CacheSlots = 1
  BackSlots = 1
  ChunkSize = 1
  MaxCut = 9
INVARIANTS TypeOK SemaBalance HonestStatus
PROPERTIES Progress KeysAskedOnce
CHECK_DEADLOCK FALSE
