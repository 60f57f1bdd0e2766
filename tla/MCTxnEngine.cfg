\* Two sessions; two rows, or one and another that may be inserted.
SPECIFICATION Spec
CONSTANTS
  s1 = s1
  s2 = s2
  Session = {s1, s2}
  MaxXid = 3
  InitRows = {1, 2}
  MaxRow = 2
  NoRow = NoRow
SYMMETRY SessionSymmetry
INVARIANTS  SnapshotExact XidNeverReused
PROPERTIES SnapshotStable ImplementsAtomicStore
