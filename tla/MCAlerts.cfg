SPECIFICATION Spec
CONSTANTS
  Wans = {wan1, wan2}
  NoWan = NoWan
  WanHold = 2
  SwitchHold = 3
INVARIANTS TypeOK PagesTellTheTruth
PROPERTIES SwitchesTold
