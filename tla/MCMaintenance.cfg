SPECIFICATION FairSpec
CONSTANTS
  Runs = {timer, operator}
  NoRun = NoRun
  wan1 = wan1
  wan2 = wan2
  NoWan = NoWan
  RecoveryDeadline = 3
  SettleTime = 1
  WatchdogTimeout = 1
  GrpcCall = 1
  NotifyTimeout = 1
  WindowMargin = 1
  DropLag = 2
  Faults = {"path", "flap", "blind", "stall", "lost_answer", "kill", "hasty"}
  MaxEvents = 3
INVARIANTS TypeOK NeverBothDown WindowCovers
PROPERTIES QuietMeansUntouched RunEnds
