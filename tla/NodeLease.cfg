\* Two processes, one renewal each, leases of two milliseconds.
SPECIFICATION Spec
CONSTANTS
  s1 = s1
  s2 = s2
  Sessions <- TwoSessions
  NoSession = NoSession
  TTL = 2
  TicksPerMs = 1
  ReadBacks = 1
  MaxTime = 4
  MaxGen = 1
SYMMETRY SessionSymmetry
VIEW View
INVARIANTS AtMostOneServing StaleLeaseMeansFenced
PROPERTIES LiveLeaseIsKept AuthorityIsHandedOver
CHECK_DEADLOCK FALSE
