\* One session whose autocommit UPDATE is cancelled while its batch is awaited.
SPECIFICATION Spec
CONSTANTS
  s1 = s1
  c1 = c1
  Session = {s1}
  Canceller = {c1}
  MaxCall = 3
  Mode = "Replicated"
  Blocks = {s1}
  Autos = {s1}
  None = None
INVARIANT DropSafe
CHECK_DEADLOCK FALSE
