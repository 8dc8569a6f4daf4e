SPECIFICATION LinkSpec
CONSTANTS
  Settings <- MCSettings
  First <- Lossy
  Known <- MCKnown
  Tables <- MCTables
  UpTicks <- MCUp
  DownHold <- MCHold
  SignalFloor <- MCSignal
  ClientTables <- MCClientTables
  StaleAfter = 1
  Slowest = 2
  LocalLosses <- MCLocal
  Calls = {c1, c2}
  MaxChanges = 1
  MaxFaults = 2
  MaxRestarts = 1
SYMMETRY MCSymmetry
INVARIANTS LinkTypeOK AckedMeansApplied FollowsInTime
