CONSTANTS
  o1 = o1  o2 = o2  e1 = e1  e2 = e2  e3 = e3  None = None
  Opens = {o1, o2}
  Endpoints = {e1, e2, e3}
  Capacity <- Triple
  InFlightTTL = 2  CacheTTL = 2  OpenTimeout = 1
  MaxRepeats = 1  MaxClock = 2
SPECIFICATION Spec
VIEW CurrentState
SYMMETRY OpenSymmetry
CHECK_DEADLOCK FALSE
INVARIANTS
  NoPhantomPlacement
  
  
PROPERTY
  NeverTheWorst
