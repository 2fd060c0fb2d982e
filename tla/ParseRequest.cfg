SPECIFICATION Spec
CONSTANTS
  a = a
  b = b
  unknown = unknown
  NoDep = NoDep
  NoOutcome = NoOutcome
  Subs <- MCSubs
  Names <- MCNames
  Plans <- MCPlans
  DoneCap = 2
  Timeout = 2
INVARIANTS TypeOK ResultsAccounted AgeBounded
PROPERTIES Reported Implements
CHECK_DEADLOCK FALSE
