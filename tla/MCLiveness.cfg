CONSTANTS
  NoValue = "none"
  Literals = {}
  Functions <- MCFunctions
SPECIFICATION LivenessSpec
INVARIANTS
  LivenessTypeOK
  LivenessCovers
  LivenessExact
PROPERTIES
  LivenessEnds
