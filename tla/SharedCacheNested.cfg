SPECIFICATION Spec
CONSTANTS
  c1 = c1
  c2 = c2
  c3 = c3
  NoConn = NoConn
  Conn <- Two
  Table <- Master
  ReadUncommit <- NoReader
  Budget <- BudgetsTwo
  MaxActive = 1
PROPERTY
  BlockingStepFinishes
