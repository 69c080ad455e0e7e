CONSTANTS
  Width = 4
  MaxLength = 5
  PartSizes = {2, 3, 5}
  ChunkSizes = {2, 3}
  MaxIoErrors = 1
SPECIFICATION Spec
INVARIANT TypeOK
INVARIANT NumPartsCoverLength
INVARIANT ResultIsFileSlice
INVARIANT WholeFileWithoutErrors
PROPERTY ReaderFinishes
CHECK_DEADLOCK FALSE
