CONSTANTS
  NoValue = "none"
  NoReg = "noreg"
  Literals = {"k"}
  TRegs <- MCTRegs
  ARegs <- MCARegs
  SRegs <- MCSRegs
  Functions <- OpenLoop
SPECIFICATION Spec
INVARIANT OpenBlockEnds
