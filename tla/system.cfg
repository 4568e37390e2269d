SPECIFICATION SystemSpec
CONSTANTS
  r1 = r1  r2 = r2  r3 = r3  p1 = p1  p2 = p2
  Reminds <- ThreeReminds
  InitiallyKnown <- TwoReminds
  Time <- Second
  Width <- Mixed
  TicksPerMinute = 2
  CapPerMinute = 1
  Strategies = {"bestfit"}
  Smoothings = {"triangular"}
  SmoothingRadius = 1
  StrictWidth = 3
  Minutes = {0, 1, 2, 3, 4, 5}
  Ranges <- NoRanges
  Planners = {p1}
  Overlap = FALSE
  MaxFaults = 1
  Calls <- WithBatch
  PlanningWindow = 3
  ConfirmWindow = 1
  HasTokens <- TwoReminds
  Recorders = {"bigquery"}
  Deletable <- OnlyR1
  LastMinute = 2
INVARIANTS DueIsQueued ForeignKeepsCap PlansKeepReminds NeverScheduledInPast RecordsMatchCounters
