SPECIFICATION Spec
CONSTANTS
  r1 = r1  r2 = r2  r3 = r3  p1 = p1
  Reminds <- ThreeReminds
  InitiallyKnown <- Nobody
  Time <- Crowded
  Width <- Mixed
  TicksPerMinute = 2
  CapPerMinute = 1
  Strategies = {"bestfit"}
  Smoothings = {"passthrough", "triangular"}
  SmoothingRadius = 1
  StrictWidth = 3
  Minutes = {0, 1, 2, 3}
  Ranges <- ThreeMinutes
  Planners = {p1}
  Overlap = FALSE
  MaxFaults = 0
INVARIANTS ReplannedIsExcluded
