SPECIFICATION Spec
CONSTANTS
  NoValue = NoValue
  Literals <- MCLiterals
  Units <- MCUnits
  Others <- MCOthers
  Half = 4
  Answers = {0, 2}
INVARIANTS TypeOK ReadAsWritten SameEvents NeverFallsOff FailsOnlyOnDeadCode WellFormed
PROPERTY NeitherLeftBehind
