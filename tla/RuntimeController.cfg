SPECIFICATION MCSpec
CONSTANTS
  MaxSteps = 5
  MaxQueue = 2
  MaxStray = 1
CHECK_DEADLOCK FALSE
INVARIANTS
  OpenIsOutstanding
  StateIsHistory
PROPERTIES
  DeathIsFinal
  OnlyDeathFailsTheOthers
  EveryPromiseSettles
