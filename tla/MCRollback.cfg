CONSTANTS
  Capacity = 2
  MaxSequence = 2
  MaxEpoch = 1
  MaxTick = 2
  None = None
  Retain = "retain"
  Checkpoints <- MCCheckpoints
  States <- MCStates
  Scopes <- MCScopes
  Stimuli <- MCStimuli
  Events <- MCEvents
  Keys <- MCKeys
  Refreshes <- MCRefreshes
  AuthorityFrames <- MCAuthorityFrames
  EventTicks = {0, 1}
  Restore <- MCRestore
  Capture <- MCCapture
  Step <- MCStep
  EventKey <- MCEventKey
  Refresh <- MCRefresh
  Valueless = Valueless
  PredictOnce = {"ConsumeFlash", "SplitFlash"}
  ConfirmOnce = {"ConfirmedAbsorption"}
  PredictCancelable = {"ConsumeCollapse", "SplitLaunch", "FoodPop"}
  Subscription <- MCSubscription
  Alternative <- MCAlternative
  Batches <- MCBatches
SPECIFICATION RollbackSpec
INVARIANTS TypeOK HistorySound ReplayCoherent LedgerSound DeliveriesBalanced
PROPERTIES FrontiersMonotone EpochNamesScope CommandsKept ChangesExplainJournal
