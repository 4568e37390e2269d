SPECIFICATION FairSpec
CONSTANTS
  Reminds = {r1}
  Handlers = {p1, p2}
  MaxRetries = 2
  Backends = {"primind", "gcloud"}
  MaxStarts = 2
  MaxFaults = 2
INVARIANTS TypeOK ExitZeroIsClean TwiceOnlyIfExposed SweptStaysOut HiddenIsHandedOver
PROPERTIES StopEnds RequestEnds CancellationEnds
CHECK_DEADLOCK FALSE
