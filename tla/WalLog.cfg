CONSTANTS
  MaxPage = 2
  MaxFrame = 3
  MaxWrite = 3
  MaxCommit = 2
  MaxSalt = 2
  Scenarios <- MCScenarios
SPECIFICATION Spec
INVARIANTS
  TypeOK
  CommitsDurable
  PowerLossDurable
  HeaderMatchesLog
  ReadsOwnWrites
