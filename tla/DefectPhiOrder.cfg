CONSTANTS
  NoValue = "none"
  NoReg = "noreg"
  Literals = {"k"}
  TRegs <- MCTRegs
  ARegs <- MCARegs
  SRegs <- MCSRegs
  Functions <- Fibonacci
SPECIFICATION Spec
INVARIANT LivenessCovers
