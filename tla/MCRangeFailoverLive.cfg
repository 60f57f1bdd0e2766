\* A crash, abort races that fail: the gate opens, doubt ends.
SPECIFICATION FairSpec
CONSTANTS
  Node = {n1, n2}
  Txn <- TwoTxns
  Scenario <- RefusedRaces
  MaxMove = 0
  MaxCrash = 1
  None = None
PROPERTIES
  GateOpens
  
CHECK_DEADLOCK FALSE
