CONSTANTS
  NoValue = NoValue
  Literals <- MCLiterals
  Zero <- MCZero
  Functions <- MCFunctions
SPECIFICATION Spec
INVARIANTS
  TypeOK
  DominatorsExact
  FrontiersExact
  InSsaForm
  SameOperands
PROPERTIES
  PassEnds
