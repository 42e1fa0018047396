SPECIFICATION Spec
CONSTANTS
  MALLOC_TOP = 950000
  E820_ENTRIES = 7
  Kernels <- MCKernels
  Junk = {0, 4660}
INVARIANTS
  ModuleHasNoCmdline
