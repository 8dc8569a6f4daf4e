SPECIFICATION FairSpec
CONSTANTS
  Dwell = 2
  Grace = 2
  Holdoff = 3
  HealthyReset = 3
  StartupGrace = 1
  MaxReboots = 2
INVARIANTS TypeOK BudgetKept
PROPERTIES GraceKept KeepsTrying
