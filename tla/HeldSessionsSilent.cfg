\* Two transactions; a coordinator may fall silent.
SPECIFICATION SilentSpec
CONSTANTS
  Gid = {g1, g2}
  Lossy = {}
  None = None
PROPERTY RowFreed
CHECK_DEADLOCK FALSE
