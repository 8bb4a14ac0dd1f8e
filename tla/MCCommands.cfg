CONSTANTS
  InvalidInput = 6
  Window = 3
  QueueCapacity = 4
  PacketSamples = 3
  Redundancy = TRUE
  OutboxCapacity = 3
  PauseThreshold = 2
  ResumeThreshold = 1
  PacketsPerFlush = 2
  MaxLosses = 3
  TickTime = 2560
  FrameTime = 1280
  Drifts <- MCDrifts
  Latencies = {1, 6}
  FrameDelta = 19200
  FrameSteps = 5
  CatchUpTicks = 5
  Precision = 64
  RateUnit = 2560
  Target = 128
  DeadbandMin = 96
  DeadbandMax = 160
  Inertia = 8
  RateGain = 1
  SlowestRate = 2432
  FastestRate = 2688
  Prefilled = 2
  ReceiveWindow = 32
  PauseDepth = 8
  ResumeDepth = 2
  FlushLimit = 4
  ClientStalls = {12, 60}
  ServerStalls = {8, 90}
  StallStarts = {0, 3, 50}
SPECIFICATION CommandsSpec
INVARIANTS OutboxSound FlowAgrees
PROPERTIES AppliedInOrder PausesEndUnlessWindowLost QueueRecovers
