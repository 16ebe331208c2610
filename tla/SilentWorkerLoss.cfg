SPECIFICATION Spec
CONSTANTS
  NumWorkers = 2
  MaxIterations = 1
  Kinds = {"Throughput"}
  WarmUp = 0
  LogExtended = FALSE
  TargetTicks = 2
  MinElapsedTicks = 2
  BatchTicks = {2}
  DummyTicks = {0}
  TickMod = 8
INVARIANT
  NoSilentWorkerLoss
