SPECIFICATION FairSpec
CONSTANTS
  g1 = g1
  g2 = g2
  None = None
  Gid = {g1, g2}
  Lossy = {g1}
INVARIANT TypeOK
PROPERTY DecidedBeforeFree
PROPERTY RowFreed
CHECK_DEADLOCK FALSE
