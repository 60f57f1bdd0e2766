\* One client over two ranges: statements, gates and messages that fail, or
\* a change of leader.
SPECIFICATION Spec
CONSTANTS
  Client = {c1}
  Range <- TwoRanges
  Scenario = {{"gate", "begin", "run", "release"}, {"move"}}
  MaxWrite = 2
  MaxGid = 1
  Pool = Pool
  None = None
INVARIANTS TypeOK HeldUntilCommit TagIsOutcome OneDecision 
