SPECIFICATION Spec
CONSTANTS
  a = a
  b = b
  c = c
  Order <- MCOrder
  CacheSize <- MCSizes
  MinSize = 1
  StepNum = 1
  StepDen = 2
  Algorithms = {"crit_path", "crit_path_w_delta", "latency", "hit_ratio", "robinhood", "offline_opt"}
  MaxCount = 1
  Levels = 2
  Stages <- MCStages
  Specs <- MCSpecs
  MaxLimit = 4
  MaxDepth = 2
  MaxTotal = 7
  MaxOver = 1
  Attempts = 1
INVARIANTS TypeOK Repairable NeverAborted StagesKept
PROPERTIES Conserved NeverBelowMin RoundEnds
CHECK_DEADLOCK FALSE
