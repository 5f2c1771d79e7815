CONSTANTS
  MaxPage = 3
  MaxFrame = 3
  MaxWrite = 3
  MaxCommit = 1
  MaxSalt = 2
  Scenarios <- SavepointScenario
SPECIFICATION Spec
INVARIANTS
  CommitsDurable
