CONSTANTS
  Repos <- MCRepos
  SnapshotName <- MCSnapshotName
  NaN = NaN
  NoLookup = NoLookup
SPECIFICATION Spec
INVARIANT ResolvesSnapshot
CHECK_DEADLOCK FALSE
