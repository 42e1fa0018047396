SPECIFICATION MCSpec
CONSTANTS
  STEXT = 16
  EDATA = 20
  HIGH_BASE = 8
  FSEG_END = 28
  ADDR_SPACE = 32
  MaxDemand = 8
  MaxCalls = 5
  Sizes <- MCSizes
  Aligns <- MCAligns
INVARIANTS
  AddressesRight
  BlocksInside
  BlocksApart
\* A behaviour ends when the firmware stops allocating.
CHECK_DEADLOCK FALSE
