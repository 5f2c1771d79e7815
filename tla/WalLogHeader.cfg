CONSTANTS
  MaxPage = 2
  MaxFrame = 2
  MaxWrite = 5
  MaxCommit = 3
  MaxSalt = 2
  Scenarios <- TornHeaderScenario
SPECIFICATION Spec
ACTION_CONSTRAINT TornHeader
INVARIANTS
  PowerLossDurable
