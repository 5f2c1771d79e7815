SPECIFICATION Spec
CONSTANTS
  b1 = b1
  b2 = b2
  Bk = {b1, b2}
  Scenarios <- MCScenarios
  PendingByte = 2
  MaxTxn = 2
INVARIANTS
  TypeOK
  CopiedPagesCurrent
  DestOldOrCopy
  DestHeaderCounts
PROPERTY
  BackupFinishes
