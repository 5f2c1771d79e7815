CONSTANTS
  p1 = p1
  p2 = p2
  f1 = f1
  f2 = f2
  g1 = g1
  Proc = {p1, p2}
  File = {f1, f2, g1}
  ProcOf <- MCProcOf
  IoErr = TRUE
SPECIFICATION Spec
INVARIANTS
  TypeOK
  ExclusiveExcludesAll
  OneWriter
  LocksBacked
  ReservedVisible
  ParkedFdsNeedLock
