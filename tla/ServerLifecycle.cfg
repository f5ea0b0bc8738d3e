\* Two Actors and two connections; signal, self-fence and failures in any order.
SPECIFICATION LiveSpec
CONSTANTS
  a1 = a1  a2 = a2  c1 = c1  c2 = c2
  Actors = {a1, a2}
  Connections = {c1, c2}
INVARIANTS  FencedReleasesNothing 
 
CHECK_DEADLOCK FALSE
