SPECIFICATION MapSpec
CONSTANTS
  None = None
  Files <- MCFiles
  MapJunk <- MCJunk
INVARIANTS
  EntriesWritten
