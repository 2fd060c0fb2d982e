SPECIFICATION LoadSpec
CONSTANTS
  Clients = 2
  Servers = {s1, s2}
  NuApps = 2
  MaxTries = 2
  Ahead = 1
  Traces <- MCTraces
PROPERTY WaitEnds
CHECK_DEADLOCK FALSE
