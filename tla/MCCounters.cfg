SPECIFICATION Spec
CONSTANTS
  n1 = n1
  n2 = n2
  c1 = c1
  c2 = c2
  c3 = c3
  Node = {n1, n2}
  Call = {c1, c2}
  Workload = {"insert", "rollback"}
  MaxTerm = 2
  MaxRestart = 1
  None = None
SYMMETRY CountersSymmetry
CHECK_DEADLOCK FALSE
INVARIANTS  XidCovered 
