SPECIFICATION Spec
CONSTANTS
  c1 = c1
  c2 = c2
  c3 = c3
  s1 = s1
  Controllers <- MCControllers
  Servers <- MCServers
  Cap = 3
  MaxChanges = 1
  MaxCuts = 1
  MaxRestarts = 1
INVARIANTS TypeOK AnswerWhole
PROPERTY CapacitiesFollow
