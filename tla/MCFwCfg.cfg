SPECIFICATION Spec
CONSTANTS
  BASE = 4
  WORD = 2
  NAME = 3
  ID = 1
  FILE_DIR = 2
  MaxCalls = 2
  Machines <- MCMachines
  Names <- MCNames
  Lengths <- MCLengths
INVARIANTS
  QuietOutsideDma
  FileReadWhole
PROPERTIES
  ImplementsCursor
  CallsReturn
\* A behaviour ends after MaxCalls calls.
CHECK_DEADLOCK FALSE
