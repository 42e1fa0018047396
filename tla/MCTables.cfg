SPECIFICATION Spec
CONSTANTS
  EBDA = 654336
  EBDA_END = 654640
  MEM_END = 654720
  Cpus = {1, 4, 5}
  CpuIds <- MCCpuIds
  OldBytes = {0, 90, 255}
  STEXT = 16
  EDATA = 40
  HIGH_BASE = 8
  FSEG_END = 232
  ADDR_SPACE = 240
  Sizes <- MCSizes
  Aligns = {16}
  None = None
  Machines <- MCMachines
  Junk = 90
INVARIANTS
  ChecksumsHold
  EntriesTrue
  TableInEbda
  WritesInBlocks
  TableWhole
  AnchorTrue
