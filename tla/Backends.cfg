SPECIFICATION Spec
CONSTANTS
  Deps <- MCDeps
  Kind <- MCKind
  BackSlots <- MCBackSlots
  Clients = 2
  Pings = 1
  MaxOpen = 2
  MaxFiles = 4
  Callers <- MCCallers
  MaxRows = 1
INVARIANTS TypeOK ClientsAccounted
PROPERTIES Started RequestsEnd
