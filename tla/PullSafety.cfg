SPECIFICATION Spec
CONSTANTS
  p1 = p1
  NoKey = NoKey
  Pullers = {p1}
  Shards <- MCShards
  Weights = 1
  Size <- MCSize
  Seed <- MCSeed
  Entries <- MCEntries
  Arch <- MCArch
  Architectures <- MCArchitectures
  MaxFaults = 2
  MaxEdits = 2
INVARIANTS
  TypeOK
  PullsAreTrue
PROPERTY RetriedPullCompletes
CHECK_DEADLOCK FALSE
