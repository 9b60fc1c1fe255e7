SPECIFICATION FairSpec
CONSTANTS
  Handlers = {h1}
  FailureThreshold = 2
  Window = 6
  OpenDuration = 3
  ProbeLimit = 2
  SuccessThreshold = 3
  Lull = 3
PROPERTIES ClosesAgain
