CONSTANTS
  FileParentErr = "ENOENT"
  Threads = {t1}
  IndexOrder <- MCIndexOrder
  NumShards <- MCNumShards
  ShardDocs <- MCDocsPanic
  Written <- MCWritten
  Text <- MCText
  Width = 12
  Dispatch = "serial"
  LookupNames <- MCTreeLookupNames
  ReadOffsets = {0, 3}
  ReplyCap = 2
SPECIFICATION Spec
PROPERTY TreeSpec
