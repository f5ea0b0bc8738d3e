CONSTANTS
  o1 = o1
  o2 = o2
  e1 = e1
  e2 = e2
  n1 = n1
  None = None
  Opens = {o1}
  Endpoints = {e1, e2}
  Owners = {n1}
  EndpointOf <- OneOwner
  MaxOpenAttempts = 2
  MaxPerEndpoint = 1
  MaxConnections = 2
SPECIFICATION LiveSpec
CHECK_DEADLOCK FALSE
INVARIANTS
  InFlightIsExact
  FailedOpenIsForgotten
PROPERTIES
  OpenEnds
  LossIsProcessed
