CONSTANTS
  NoValue = "none"
  NoReg = "noreg"
  Literals = {"k"}
  TRegs <- MCTRegs
  ARegs <- MCARegs
  SRegs <- MCSRegs
  Functions <- ManyLive
SPECIFICATION Spec
INVARIANT NeighboursApart
