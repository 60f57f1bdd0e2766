SPECIFICATION FairSpec
CONSTANTS
  t1 = t1
  t2 = t2
  t3 = t3
  l1 = l1
  r1 = r1
  r2 = r2
  Xid = {t1, t2, t3}
  InDoubtXid = {}
  Row = {r1, r2}
  Claim <- NoClaim
  None = None
INVARIANTS TypeOK MutualExclusion NoLostWakeup WaitForAcyclic
PROPERTY WaitersProgress
