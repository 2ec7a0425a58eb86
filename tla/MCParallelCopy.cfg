CONSTANTS
  Regs = {r1, r2, r3, r4}
  Scratch = t2
  Memory = {m1}
SPECIFICATION Spec
INVARIANTS
  TypeOK
  SourcesIntact
  SettledRegisters
PROPERTIES
  ScratchIsFree
  Terminates
  ImplementsSimultaneousCopy
