SPECIFICATION Spec
CONSTANTS
  CellSize = 4
  MinCell <- MCMinCell
  MaxCell = 3
  MaxCellsPerAxis = 3
  Owners = {1, 2}
  SpawnPoints <- MCSpawns
  FoodPoints = {4}
  CommandForms <- MCForms
  Mechanics <- MCMechanics
  InitialMass = 32
  FoodMass = 8
  MinSplitMass = 32
  MaxPieces = 3
  Speed = 1
  LaunchSpeed = 6
  LaunchDecay = 1
  Cohesion = 1
  SplitRecast = 1
  MergeDelay = 1
  RadiusForMass <- MCRadius
  LastEntity = 4
  LastTick = 3
  WireTick = 2
  WireCount = 3
  EditTick = 0
INVARIANTS StoreSound RestoreSound
PROPERTIES ReplicaFollows TickAccounted
