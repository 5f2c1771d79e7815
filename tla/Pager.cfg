CONSTANTS
  c1 = c1
  c2 = c2
  Conn = {c1, c2}
  NPage = 3
  InitSize = 2
  MaxTxn = 2
  None = None
  Scenarios <- MCScenarios
SYMMETRY Symmetric
SPECIFICATION Spec
INVARIANTS
  TypeOK
  ReadersSeeCommitted
  CacheFresh
  CrashRecovers
