SPECIFICATION Spec
CONSTANTS
  MaxRuns = 1
  MaxUpdates = 2
  MaxConnects = 1
  MaxPairings = 1
INVARIANTS
  TypeOK
  SetPrevails
PROPERTIES
  PresenceFollows
CHECK_DEADLOCK FALSE
