SPECIFICATION Spec
CONSTANTS
    own = own
    leaver = leaver
    comer = comer
    Entities <- MCEntities
    Own = own
    Lives <- MCLives
    LastTick = 6
    MaxTime = 8
    MaxFrame = 3
    TickTime = 2
    NormalRate = 2
    MinRate = 1
    MaxRate = 3
    Gain = 4
    Deadband = 1
    MaximumCursorError = 1
    DelayTicks = 2
    Capacity = 3
    LimitTicks = 1
    Velocity = 2
    Corrections <- MCCorrections
    Starts <- MCStarts
    Smoothing = 2
    Retention = 3
    AlphaSteps = 2
    HistoryCapacity = 2
    RecentCapacity = 2
    MaxTick = 2
    MaxSequence = 3
    MaxResyncs = 1
    MaxLives = 2
    MaxElapsed = 2
    Modes <- MCModes
    TrackSmoothing = 2
    Speed = 4
    Error = 4
    TrackAlphaSteps = 2
    Alphas <- MCAlphas
    TrailCapacity = 1
    TrailRetention = 2
    TrackMaxTick = 2
    MaxLead = 1
    TrackMaxElapsed = 1
    TrackMaxResyncs = 1
    StepTime = 20
    MaxFrameDelta = 60
    MaxSteps = 2
    RateUnit = 20
    SlowestRate = 19
    FastestRate = 21
    Prefill = 2
    PauseDepth = 4
    ResumeDepth = 1
    FlushLimit = 2
    FrameTimes <- MCFrameTimes
    LifeLimit = 2
    OutageLimit = 1
INVARIANTS RemoteSound LocalSound TracksSound RequestsCarriedOnce
PROPERTIES CursorNeverRewinds HandoffSeamless
CHECK_DEADLOCK FALSE
