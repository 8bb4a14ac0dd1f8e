CONSTANTS
  None = None
  InvalidInput = 6
  HistoryCapacity = 3
  InvalidEpoch = 3
  MaxTick = 10
  MaxRespawns = 2
SPECIFICATION PredictionSpec
INVARIANTS PredictionSound FailuresExplained
PROPERTIES CommandsRetained
CHECK_DEADLOCK FALSE
