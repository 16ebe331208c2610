SPECIFICATION Spec
CONSTANTS
  Values = {19, 20, 21, 40}
  MaxIterations = 8
  MaxRanked = 22
INVARIANTS
  StatisticsMatchMeasurements
  IntervalCoversMedian
  IntervalIsOfReportedMetrics
  StopsOnlyConverged
