SPECIFICATION FairSpec
CONSTANTS
  d1 = d1
  d2 = d2
  e1 = e1
  e2 = e2
  None = None
  Deliveries = {d1, d2}
  Endpoints = {e1, e2}
  EndpointOf <- TwoEndpoints
  Workers = {w1, w2}
  MaxAttempts = 2
  DisableAfter = 2
  MaxClaims = 3
  Faults = {"crash"}
PROPERTIES EveryDeliveryEnds
