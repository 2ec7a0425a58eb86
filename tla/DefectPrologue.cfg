CONSTANTS
  NoValue = "none"
  NoReg = "noreg"
  Literals = {"k"}
  TRegs <- MCTRegs
  ARegs <- MCARegs
  SRegs <- MCSRegs
  Functions <- ShuffledParams
SPECIFICATION Spec
INVARIANT ParamsDelivered
