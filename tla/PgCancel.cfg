\* Two sessions on one row, a cancel request, batches that may fail.
SPECIFICATION FairSpec
CONSTANTS
  s1 = s1
  s2 = s2
  c1 = c1
  Session = {s1, s2}
  Canceller = {c1}
  MaxCall = 3
  Mode = "Replicated"
  Blocks = {s1}
  Autos = {s1, s2}
  None = None
  
PROPERTY CancelledEnds
CHECK_DEADLOCK FALSE
