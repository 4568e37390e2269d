SPECIFICATION Spec
CONSTANTS
  r1 = r1  r2 = r2  r3 = r3  r4 = r4  p1 = p1  p2 = p2  c1 = c1
  NoRemind = NoRemind
  Reminds <- BothReminds
  HasTokens <- BothReminds
  Time <- AtMinuteZero
  SlideMinutes <- SlideNone
  Minutes = {0}
  Windows <- WholeWindow
  InitialPlans <- R1Planned
  Requests = {p1, p2}
  Cancels = {c1}
  CancelIds <- CancelR1
  RequestCapPerMinute = 60
  MaxRetries = 2
  FlagAttempts = 1
  Backends = {"primind", "gcloud"}
  MaxFaults = 1
SYMMETRY RequestSymmetry
INVARIANTS TypeOK HiddenIsHandedOver TwiceOnlyIfExposed SweptStaysOut OkAccountsForBatch
PROPERTIES PromiseKept
