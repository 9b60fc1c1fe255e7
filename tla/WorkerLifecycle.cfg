SPECIFICATION FairSpec
CONSTANTS
  Prefetch = 2
  Interval = 2
  MaxRetries = 2
  Backoffs <- Doubling
  FailureThreshold = 2
  StaleAfter = 6
INVARIANTS GoneUnlessLate DrainedExit
PROPERTIES ShutsDown WorksAgain
