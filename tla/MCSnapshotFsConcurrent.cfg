CONSTANTS
  Threads = {t1, t2}
  IndexOrder <- MCIndexOrder
  NumShards <- MCNumShards
  ShardDocs <- MCDocsInvalid
  Written <- MCWritten
  Text <- MCText
  Width = 12
  Dispatch = "concurrent"
  LookupNames <- MCLookupNames
  ReadOffsets = {0, 3}
  ReplyCap = 2
SPECIFICATION Spec
INVARIANT LoadedShardListsItsFiles
VIEW MCView
