SPECIFICATION Spec
CONSTANTS
  Half = 8
  ImmHalf = 2
  Assigned <- MCAssigned
  Offsets <- MCOffsets
  Instructions <- MCInstructions
  Starts <- MCStarts
INVARIANTS Delivers Preserves
