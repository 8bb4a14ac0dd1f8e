CONSTANTS
  InvalidReceipt = 5
  PendingCapacity = 3
  PerSnapshot = 2
  EventsPerTick = 2
  Key = "key"
  Keys = {"key"}
  None = None
  Valueless = Valueless
  PredictOnce <- MCPredictOnce
  ConfirmOnce <- MCConfirmOnce
  PredictCancelable <- MCPredictCancelable
  Events <- MCEvents
  EventKey <- MCEventKey
  Subscription <- MCSubscription
  Alternative <- MCAlternative
  Batches <- NoBatches
  Duration = 2
  Cancellation = 1
  BatchCapacity = 3
  MaxServerTick = 3
  MaxHead = 3
  MaxToken = 5
SPECIFICATION ReceiptsSpec
INVARIANTS FrontiersAgree CuesSound EvidenceSettles
PROPERTIES ImplementsDelivery ReceiptsArrive FlashesJustified
CHECK_DEADLOCK FALSE
