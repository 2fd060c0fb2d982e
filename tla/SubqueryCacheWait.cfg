SPECIFICATION Spec
CONSTANTS
  w1 = w1
  w2 = w2
  f1 = f1
  fooUpper = fooUpper
  foo = foo
  bar = bar
  NoReport = NoReport
  Workers <- MCWorkers
  Flushers = {}
  Urls <- MCOneUrl
  Requests <- MCOneRequests
  Lower <- MCOneLower
  CacheSlots = 1
  BackSlots = 1
  ChunkSize = 1
  MaxCut = 9
PROPERTY CacheWaitEnds
CHECK_DEADLOCK FALSE
