SPECIFICATION ChannelSpec
CONSTANTS
  w1 = w1
  w2 = w2
  r1 = r1
  r2 = r2
  Workers <- MCWorkers
  Requests <- MCRequests
  MaxKeys = 2
  LatCap = 2
  PingLimit = 1
  QueryCap = 1
  QueryThreshold = 1
INVARIANTS ChannelTypeOK StaleLengthsSuffice NeverCountedTwice
PROPERTY TailsEnd
