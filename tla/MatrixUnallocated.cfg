SPECIFICATION Spec
CONSTANTS
  NumNodes = 2
  MachineNodes = 2
  NumCPUs = 3
  PageSize = 2
  PageKB = 2
  LargePageSize = 4
  Bases = {0, 7, 8, 12, 16}
  Builds = {"windows", "linux", "malloc"}
  Chunks = {32, 64}
  Strides = {1, 2}
  Extensions = {0}
  MaxDelay = 4
  MaxFailures = 1
  CommandLines <- MCCommandLines
  PackageOf <- MCPackageOf
INVARIANT
  MatrixMemoryIsAllocated
