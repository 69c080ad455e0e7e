CONSTANTS
  Inputs <- MCInputs
  Garbage <- MCGarbage
SPECIFICATION Spec
INVARIANT ExtractsFramedPayload
INVARIANT CodecHeaderAsLucene
CHECK_DEADLOCK FALSE
