SPECIFICATION Spec
CONSTANTS
  NoValue = NoValue
  Literals <- MCLiterals
  Units <- DeadCode
  Others = {}
  Half = 4
  Answers = {0, 2}
INVARIANT AcceptedIsGenerated
