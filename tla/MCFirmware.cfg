SPECIFICATION Spec
CONSTANTS
  Bytes <- MCBytes
  KernelPam <- MCKernelPam
  MaxResets = 2
INVARIANTS
  RunsImage
  ShadowRam
  InterruptsAgree
PROPERTIES
  WindowMovesClosed
