SPECIFICATION SystemSpec
CONSTANTS
  r1 = r1  r2 = r2  r3 = r3  p1 = p1  p2 = p2
  Reminds <- TwoReminds
  InitiallyKnown <- TwoReminds
  Time <- Second
  Width <- Mixed
  TicksPerMinute = 2
  CapPerMinute = 1
  Strategies = {"greedy", "bestfit", "priority"}
  Smoothings = {"passthrough"}
  SmoothingRadius = 1
  StrictWidth = 3
  Minutes = {0, 1, 2, 3, 4}
  Ranges <- NoRanges
  Planners = {p1, p2}
  Overlap = TRUE
  MaxFaults = 0
  Calls <- OnlyPlain
  PlanningWindow = 3
  ConfirmWindow = 1
  HasTokens <- TwoReminds
  Recorders = {"noop", "influxdb"}
  Deletable = {}
  LastMinute = 1
SYMMETRY PlannerSymmetry
INVARIANTS SystemTypeOK DueIsQueued RecordsMatchCounters PlannedWithinReach AvailableWithinCap
