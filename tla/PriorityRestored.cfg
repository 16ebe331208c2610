SPECIFICATION Spec
CONSTANTS
  Machines <- OneWindowsMachine
  IntBits = 4
  MaxWorkers = 2
  MaxRounds = 1
INVARIANT ClassRestored
