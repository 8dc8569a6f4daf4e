SPECIFICATION FairSpec
CONSTANTS
  Modes = {local_direct, relay_vpn, relay_backbone}
  LocalDirect = local_direct
  NoMode = NoMode
  Settle = 3
  Interval = 4
  FetchTime = 2
  RelayLag = 2
  MismatchChecks = 2
  ErrorChecks = 2
  MaxEvents = 4
INVARIANTS TypeOK NoFalseAlarm
PROPERTY TellsTheTruth
