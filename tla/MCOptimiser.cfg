SPECIFICATION Spec
CONSTANTS
  NoValue = NoValue
  Literals = {}
  Half = 8
  Modules <- MCModules
  Inputs <- MCInputs
  Initially <- MCInitially
  Fuel = 15
INVARIANTS TypeOK SameResult StaysSsa EntriesExact EndsAtFixpoint
PROPERTY Shrinks
