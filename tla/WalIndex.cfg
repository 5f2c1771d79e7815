CONSTANTS
  a = a
  b = b
  Conn = {a, b}
  MaxPage = 2
  Scenarios <- MCScenarios
SPECIFICATION Spec
INVARIANTS
  TypeOK
  SnapshotIsolation
  CommitsSurvive
  CacheCoherent
PROPERTY
  SnapshotStable
SYMMETRY Symmetry
