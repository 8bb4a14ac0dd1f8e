SPECIFICATION Spec
CONSTANTS
  Transports = {"native", "memory"}
  MaxQueued = 2
INVARIANTS ConnectionSound
PROPERTIES ImplementsLifecycle HandshakeEnds NoOrphans
