CONSTANTS
  InvalidInput = 6
  Window = 3
  QueueCapacity = 4
  PacketSamples = 3
  Redundancy = TRUE
  OutboxCapacity = 3
  PauseThreshold = 2
  ResumeThreshold = 1
  PacketsPerFlush = 2
  MaxLosses = 3
SPECIFICATION FairFlowSpec
PROPERTIES PausesEnd
