SPECIFICATION Spec
CONSTANTS
  Senders <- MCSenders
  Batches <- MCBatches
  Verbose = FALSE
  StatCap = 1
  CsvCap = 1
  RingLen = 2
  Warmup = 0
  HeapCap = 2
  MinTail = 1
  Tails <- MCTails
  Percentiles <- MCPercentiles
  CritRange <- MCCritRange
  MaxPosts <- MCTwoPosts
PROPERTY PutsAnswered
