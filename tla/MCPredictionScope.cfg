SPECIFICATION ScopeSpec
CONSTANTS
  CellSize = 32
  MinCell <- MCMinCell
  MaxCell = 8
  MaxCellsPerAxis = 8
  Owners = {1, 2, 3}
  SpawnPoints = {}
  FoodPoints = {}
  CommandForms = {}
  Mechanics = {}
  InitialMass = 4
  FoodMass = 1
  MinSplitMass = 4
  MaxPieces = 3
  Speed = 1
  LaunchSpeed = 2
  LaunchDecay = 1
  Cohesion = 1
  SplitRecast = 2
  MergeDelay = 1
  RadiusForMass <- MCRadius
  LastEntity = 20
  LastTick = 3
  WireTick = 3
  WireCount = 20
  EditTick = 0
  Layouts <- MCLayouts
  Me = 1
  Requests <- MCRequests
  OwnForms <- MCOwnForms
  RemoteForms <- MCRemoteForms
  HorizonFloor = 1
  MaxHorizon = 8
  LastEpoch = 20
INVARIANTS PredictionHolds IslandAgrees
