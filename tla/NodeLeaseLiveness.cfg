\* One process with every retry, under the fairness of its timers and timeouts.
SPECIFICATION FairSpec
CONSTANTS
  s1 = s1
  s2 = s2
  Sessions <- OneSession
  NoSession = NoSession
  TTL = 2
  TicksPerMs = 1
  ReadBacks = 3
  MaxTime = 4
  MaxGen = 2
PROPERTIES LapsedServerFences ShutdownEnds
CHECK_DEADLOCK FALSE
