SPECIFICATION SessionsSpec
CONSTANTS
  c1 = c1
  c2 = c2
  Connections = {c1, c2}
  InvalidEntity = 4
  InvalidOwner = 2
  MaxPieces = 2
  QueueCapacity = 1
  ReceiptCapacity = 2
  LivenessTimeout = 1
  HandshakeTimeout = 1
  InputHold = 0
  Cooldown = 1
  MaxEvents = 2
SYMMETRY ConnectionSymmetry
INVARIANTS SessionsSound
CHECK_DEADLOCK FALSE
