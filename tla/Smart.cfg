SPECIFICATION SmartSpec
CONSTANTS
  reallocatedWarnMax = 1
  commandTimeoutWarnMax = 1
  ssdPercentageUsedWarn = 1
  ssdPercentageUsedFail = 2
  MaxCount = 2
  Word = 4
  Phys = 2
INVARIANTS
  GateAnticipates
  PassHasEvidence
  WorseNeverBetter
  RowsMatchReasons
CHECK_DEADLOCK FALSE
