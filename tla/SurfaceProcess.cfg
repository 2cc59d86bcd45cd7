SPECIFICATION FairSpec
CONSTANTS
  MaxScans = 2
  WritePhases = 2
  Percents = {20, 60}
  PHASE_RESET_DROP_PCT = 25
  Sizes = {0, 32, 64}
  BlockFloor = 4
  BADBLOCKS_BLOCK_CEILING = 8
  MaxDoublings = 3
  MaxChunk = 2
INVARIANTS
  OneWriter
  ProgressAccountsForPhases
  BlocksFitCeiling
PROPERTIES
  NoStraySignal
  AbortSettles
  QuarantineEnds
CHECK_DEADLOCK FALSE
