SPECIFICATION Spec
CONSTANTS
  r1 = r1  r2 = r2  r3 = r3  r4 = r4  p1 = p1  p2 = p2  c1 = c1
  NoRemind = NoRemind
  Reminds <- BothReminds
  HasTokens <- BothReminds
  Time <- AtMinuteZero
  SlideMinutes <- SlideNone
  Minutes = {0}
  Windows <- WholeWindow
  InitialPlans <- Unplanned
  Requests = {p1, p2}
  Cancels = {}
  CancelIds <- NoCancels
  RequestCapPerMinute = 60
  MaxRetries = 2
  FlagAttempts = 2
  Backends = {"primind"}
  MaxFaults = 0
SYMMETRY RequestSymmetry
INVARIANTS AcceptedOnce
