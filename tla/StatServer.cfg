SPECIFICATION Spec
CONSTANTS
  Senders <- MCSenders
  Batches <- MCBatches
  Verbose = TRUE
  StatCap = 1
  CsvCap = 1
  RingLen = 2
  Warmup = 1
  HeapCap = 2
  MinTail = 1
  Tails <- MCTails
  Percentiles <- MCPercentiles
  CritRange <- MCCritRange
  MaxPosts <- MCMaxPosts
INVARIANTS TypeOK TailRight CopyRecent StatsRight
PROPERTY PutsStoredUnlessLost
