\* One viewer; enough pieces for frames of an earlier Host, a compaction and a replay over the limit.
SPECIFICATION FairSpec
CONSTANTS
  Viewers = {v1}
  MaxRetained = 2
  MaxPieces = 5
  ReplayRecords = 2
  MaxRecoveries = 1
INVARIANTS ScreenCoherent NeverGap
PROPERTIES ViewSpec CaughtUp
CHECK_DEADLOCK FALSE
