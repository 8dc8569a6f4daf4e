SPECIFICATION Spec
CONSTANTS
  WanNames <- MCWanNames
  CellWan = "wan1"
  Losses = {0, 9}
  Modes = {"adaptive", "min_adaptive", "fixed"}
  BaseTable <- MCBase
  CellTable <- MCCell
  BaseUp = 2
  CellUp = 1
  BaseHold = 1
  CellHold = 2
  Dwell = 2
  FloorEntry <- MCFloor
  CellFloorEntry <- MCCellFloor
  RuntimeFloorEntry <- Unset
  FixedEntry <- Unusable
  BackoffRatio <- OffRatio
  CellSignalFloor <- MCSignalFloor
  PeerRatios <- MCPeers
INVARIANTS TypeOK LossAskedForIt CardTellsTheTruth ComesToWhatIsAsked
PROPERTIES DriverEarnsDwell
