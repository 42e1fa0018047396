SPECIFICATION HandoverSpec
CONSTANTS
  None = None
  Files <- MCFiles
  MapJunk <- MCJunk
  MALLOC_TOP = 950000
  E820_ENTRIES = 7
  Kernels <- MCKernels
  Junk = {0, 4660}
INVARIANTS
  RamApart
  KernelGetsMap
  UpperMatchesMap
  RegionsApart
  SetupWhole
  HeaderTrue
  StartInfoTrue
