SPECIFICATION LoaderSpec
CONSTANTS
  STEXT = 24
  EDATA = 32
  HIGH_BASE = 8
  FSEG_END = 40
  ADDR_SPACE = 64
  BASE = 8
  MIN_ALIGN = 2
  Sizes <- MCSizes
  Aligns <- MCAligns
  Blob <- MCBlob
  RsdpFiles = {"rsdp"}
  Commands <- MCCommands
INVARIANTS
  PointersPatched
  ChecksumsHold
  BytesKept
  RsdpFound
PROPERTIES
  AllocationsAreMalloc
\* A behaviour ends when extract_acpi returns or panics.
CHECK_DEADLOCK FALSE
