\* A node restarted after its process has gone; the resolution lock is contended
\* and the store may never answer.
SPECIFICATION FairSpec
CONSTANTS
  nA = nA
  nB = nB
  a1 = a1
  a2 = a2
  b1 = b1
  NoSession = NoSession
  Nodes <- TwoNodes
  Sessions <- Successors
  NodeOf <- NodesOf
  Rounds = 2
  ReadBacks = 1
  MaxEpoch = 2
  Env = {}
INVARIANTS ServedByOwner
PROPERTIES DeactivationEnds
CHECK_DEADLOCK FALSE
