SPECIFICATION FairSpec
CONSTANTS
  Handlers = {h1, h2, h3}
  FailureThreshold = 3
  Window = 3
  OpenDuration = 2
  ProbeLimit = 2
  SuccessThreshold = 2
  Lull = 2
INVARIANTS CountersAreBacked ProbesBounded
PROPERTIES OpensOnEvidence ClosesOnEvidence ClosesAgain
