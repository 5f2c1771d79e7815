CONSTANTS
  p1 = p1
  p2 = p2
  c1 = c1
  c2 = c2
  d1 = d1
  d2 = d2
  noFile = noFile
  noConn = noConn
  Proc = {p1, p2}
  Conn = {c1, c2, d1, d2}
  ProcOf <- MCProcOf
  NLock = 2
  File = {1, 2, 3}
  NoFile = noFile
  NoConn = noConn
SPECIFICATION Spec
INVARIANTS
  TypeOK
  LocksExclude
  MemoryKept
  OneMemory
  LocksBacked
PROPERTIES
  ImplementsWalLocks
