CONSTANTS
  p1 = p1
  p2 = p2
  f1 = f1
  f2 = f2
  g1 = g1
  Proc = {p1, p2}
  File = {f1, f2, g1}
  ProcOf <- MCProcOf
  IoErr = FALSE
SPECIFICATION LiveSpec
PROPERTIES
  ImplementsFileLock
  WriterNotStarvedBySolo
