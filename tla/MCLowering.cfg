CONSTANTS
  NoValue = "none"
  NoReg = "noreg"
  Literals = {"k"}
  TRegs <- MCTRegs
  ARegs <- MCARegs
  SRegs <- MCSRegs
  Functions <- MCFunctions
SPECIFICATION Spec
INVARIANTS
  TypeOK
  NeighboursApart
  CachedLiteralsAlone
  OperandsIntact
  ParamsDelivered
  CalleeSeesArguments
  ReturnsCleanly
  FailuresKnown
