CONSTANTS
  Inputs <- MCInputs
  VIntWidth = 16
SPECIFICATION Spec
INVARIANT TypeOK
INVARIANT DecodedIsExpected
INVARIANT AcceptsWellFormed
PROPERTY ParseTerminates
CHECK_DEADLOCK FALSE
