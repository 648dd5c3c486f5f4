SPECIFICATION FairSpec
CONSTANTS
  a = a
  b = b
  c = c
  z = z
  Ids = {a, b, c, z}
  Degenerate = {z}
  StaleNum = 2
  StaleDen = 1
  CompactAt = 1
  MaxLines = 3
  MaxFaults = 2
  MaxDbOps = 2
INVARIANT OnlyIndexable
INVARIANT MemCoversDisk
INVARIANT EnsureCovers
PROPERTY SettledSticks
PROPERTY StoreRefined
PROPERTY EventuallyCovered
