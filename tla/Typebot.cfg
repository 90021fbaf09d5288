SPECIFICATION Spec
CONSTANTS
  w1 = w1
  w2 = w2
  Workers <- MCWorkers
  Limit = 1
  MaxSessions = 2
  MaxMessages = 3
  MaxEdits = 2
SYMMETRY Symmetry
INVARIANTS
  TypeOK
  PauseHolds
  OneAfterTheOther
CHECK_DEADLOCK FALSE
