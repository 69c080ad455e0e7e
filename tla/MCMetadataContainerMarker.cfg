CONSTANTS
  Inputs <- MCMarkerInputs
  Garbage <- MCGarbage
SPECIFICATION Spec
INVARIANT ExtractsFramedPayload
CHECK_DEADLOCK FALSE
