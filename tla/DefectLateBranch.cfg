CONSTANTS
  NoValue = "none"
  NoReg = "noreg"
  Literals = {"k"}
  TRegs <- MCTRegs
  ARegs <- MCARegs
  SRegs <- MCSRegs
  Functions <- LateBranch
SPECIFICATION Spec
INVARIANT OperandsIntact
