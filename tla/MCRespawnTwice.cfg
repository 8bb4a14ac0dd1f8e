CONSTANTS
  None = None
  InvalidInput = 6
  HistoryCapacity = 3
  InvalidEpoch = 3
  MaxTick = 10
  MaxRespawns = 2
SPECIFICATION PredictionSpec
INVARIANTS FrontiersReconcile
CHECK_DEADLOCK FALSE
