\* One change of leader, at most one crash, and two transactions on the row.
SPECIFICATION Spec
CONSTANTS
  Node = {n1, n2}
  Txn <- TwoTxns
  Scenario <- Scenarios
  MaxMove = 1
  MaxCrash = 1
  None = None
SYMMETRY NodeSymmetry
INVARIANTS
  TypeOK
  LiveIsComplete
  InDoubtLocked
  
  CommitIsEffective
PROPERTY LockOutlivesDoubt
CHECK_DEADLOCK FALSE
