SPECIFICATION Spec
CONSTANTS
  r1 = r1  r2 = r2  r3 = r3  r4 = r4  p1 = p1  p2 = p2  c1 = c1
  NoRemind = NoRemind
  Reminds <- FourReminds
  HasTokens <- ThreeReminds
  Time <- AtMinuteZero
  SlideMinutes <- SlideOne
  Minutes = {0, 1}
  Windows <- WholeWindow
  InitialPlans <- Unplanned
  Requests = {p1, p2}
  Cancels = {}
  CancelIds <- NoCancels
  RequestCapPerMinute = 1
  MaxRetries = 2
  FlagAttempts = 2
  Backends = {"none", "primind"}
  MaxFaults = 0
SYMMETRY RequestSymmetry
INVARIANTS OvershootBounded CountersMatchMarkers
