SPECIFICATION FairSpec
CONSTANTS
  Modes = {vpn}
  LocalDirect = local_direct
  NoMode = NoMode
  Listed = 1
  StopOutlasts = TRUE
  MaxPages = 3
  MaxMoves = 1
  MaxRefusals = 1
  MaxRuns = 2
INVARIANTS TypeOK TrustedMeansTold
PROPERTIES KeepsRegister RestartStaysSilent CatchesUp
