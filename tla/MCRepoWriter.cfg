CONSTANTS
  Repos <- MCWriterRepos
  SnapshotName <- MCSnapshotName
  NaN = NaN
  NoLookup = NoLookup
SPECIFICATION WSpec
INVARIANT ResolvesSnapshot
CHECK_DEADLOCK FALSE
