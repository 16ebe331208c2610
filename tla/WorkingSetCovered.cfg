SPECIFICATION Spec
CONSTANTS
  PassBytes = 4096
  Choices <- PlainChoices
  Workers = 2
  RegionPages = {0, 3}
  PartPages = {1, 2, 3, 4}
  PassesPerBatch = 2
  MaxBatches = 2
INVARIANT
  WorkingSetIsCovered
