SPECIFICATION Spec
CONSTANTS
  NDev = 2
  NFunc = 2
  LAST_ROTATED = 0
  NBridge = 3
  NLeaf = 1
  Topologies <- MCTopologies
  BIOS32_ENTRY <- MCEntry
INVARIANTS
  RoutesUnique
  CyclesReachTarget
  WindowsExact
  LinesFollowPath
PROPERTIES
  Terminates
