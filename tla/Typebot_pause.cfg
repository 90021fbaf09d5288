SPECIFICATION Spec
CONSTANTS
  w1 = w1
  w2 = w2
  Workers <- MCWorkers
  Limit = 1
  MaxSessions = 2
  MaxMessages = 4
  MaxEdits = 1
PROPERTY PauseStands
CHECK_DEADLOCK FALSE
