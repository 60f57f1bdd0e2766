SPECIFICATION Spec
CONSTANTS
  t1 = t1
  t2 = t2
  t3 = t3
  l1 = l1
  r1 = r1
  r2 = r2
  Xid = {t1, t2}
  InDoubtXid = {l1}
  Row = {r1, r2}
  Claim <- TwoClaims
  None = None
SYMMETRY XidSymmetry
INVARIANTS  NoLostWakeup
