SPECIFICATION Spec
CONSTANTS
  c1 = c1
  c2 = c2
  c3 = c3
  NoConn = NoConn
  Conn <- Three
  Table <- Master
  ReadUncommit <- OneReader
  Budget <- Budgets
  MaxActive = 1
INVARIANTS
  TypeOK
  Isolation
  FlagsJustified
  BlockersLive
  WaitsAcyclic
  BlockedListExact
PROPERTY
  UnnestedProgramsFinish
