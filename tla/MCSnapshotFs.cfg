CONSTANTS
  Threads = {t1}
  IndexOrder <- MCIndexOrder
  NumShards <- MCNumShards
  ShardDocs <- MCDocsPanic
  Written <- MCWritten
  Text <- MCText
  Width = 12
  Dispatch = "serial"
  LookupNames <- MCLookupNames
  ReadOffsets = {0, 3}
  ReplyCap = 2
SPECIFICATION Spec
INVARIANT TypeOK
INVARIANT LoadedShardListsItsFiles
PROPERTY PagedListingComplete
PROPERTY ListingTerminates
VIEW MCView
