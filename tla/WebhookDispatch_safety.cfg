SPECIFICATION Spec
CONSTANTS
  d1 = d1
  d2 = d2
  e1 = e1
  e2 = e2
  None = None
  Deliveries = {d1, d2}
  Endpoints = {e1}
  EndpointOf <- OneEndpoint
  Workers = {w1, w2}
  MaxAttempts = 2
  DisableAfter = 2
  MaxClaims = 2
  Faults = {"db", "secret", "crash", "slow"}
SYMMETRY Symmetry
INVARIANTS LeaseMatchesStatus ActiveIsHealthy
PROPERTIES DisabledOnEvidence ResultsByHolder ImplementsContract
