\* A release PUT that takes effect after it was given up.
SPECIFICATION Spec
CONSTANTS
  nA = nA
  nB = nB
  a1 = a1
  a2 = a2
  b1 = b1
  NoSession = NoSession
  Nodes <- TwoNodes
  Sessions <- Pair
  NodeOf <- NodesOf
  Rounds = 1
  ReadBacks = 1
  MaxEpoch = 2
  Env = {"late_release"}
VIEW View
INVARIANT AtMostOneServing
CHECK_DEADLOCK FALSE
