\* Two nodes; delays, losses, lease expiry and crashes, no named disturbance.
SPECIFICATION Spec
CONSTANTS
  nA = nA
  nB = nB
  a1 = a1
  a2 = a2
  b1 = b1
  NoSession = NoSession
  Nodes <- TwoNodes
  Sessions <- Pair
  NodeOf <- NodesOf
  Rounds = 2
  ReadBacks = 1
  MaxEpoch = 2
  Env = {}
VIEW View
INVARIANTS ServedByOwner EpochNamesOneOwner LocalWasGranted
CHECK_DEADLOCK FALSE
