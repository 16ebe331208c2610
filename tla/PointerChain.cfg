SPECIFICATION Spec
CONSTANTS
  Setups <- MCSetups
  PassesPerBatch = 1
  MaxBatches = 2
INVARIANTS
  ChainIsPermutation
  StaysHome
  OneLongChase
  PassDoesWhatIsCounted
