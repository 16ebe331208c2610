SPECIFICATION FairSpec
CONSTANTS
  NumWorkers = 2
  MaxIterations = 2
  Kinds = {"Throughput", "LatencyMatrix"}
  WarmUp = 0
  LogExtended = FALSE
  TargetTicks = 2
  MinElapsedTicks = 3
  BatchTicks = {1, 3}
  DummyTicks = {0, 3}
  TickMod = 8
INVARIANTS
  NoUseAfterFree
  CollectsOnlyFinishedWork
  UnflaggedMetricIsSound
  HasRunIsComplete
  AggregateIsExact
PROPERTIES
  MetricsAreFinal
  ImplementsForkJoin
  BenchmarkReturns
