SPECIFICATION Spec
CONSTANTS
  Machines <- MCMachines
  IntBits = 4
  MaxWorkers = 3
  MaxRounds = 2
INVARIANTS
  WorkersSpreadOverNode
  WholeNodeIsMeasured
  ClassRestoredUnlessOverlapped
