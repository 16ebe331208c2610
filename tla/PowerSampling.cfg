SPECIFICATION FairSpec
CONSTANTS
  NumSockets = 2
  NumBenchmarks = 2
  MaxSamples = 3
INVARIANTS
  SamplersRunThroughout
  NoSamplerOutlivesBenchmark
  MetricsMatchTrace
  LastCollectionIsComplete
PROPERTIES
  AllBenchmarksReported
