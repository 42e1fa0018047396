SPECIFICATION BiosSpec
CONSTANTS
  Requests <- MCRequests
  Config <- MCConfig
  Top = 72
  MAX_BUS = 3
  NrMap = 3
  Deltas = {0, 4096}
  MaxCalls = 2
INVARIANTS
  CallerSees
  EffectsTrue
