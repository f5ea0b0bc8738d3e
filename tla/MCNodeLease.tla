---------------------------- MODULE MCNodeLease ----------------------------
(* Model values, symmetry and the view for NodeLease.                      *)
EXTENDS NodeLease, TLC

CONSTANTS s1, s2

OneSession == {s1}
TwoSessions == {s1, s2}
SessionSymmetry == Permutations(Sessions)

\* The local variables of s that some later step or some property still reads
\* at pc[s].  States that agree on the view behave alike from then on.
LiveLocals(s) ==
  LET auth == <<deadline[s], revision[s], status[s], stop[s]>>
  IN CASE pc[s] \in {"idle", "failed"} -> <<>>
       [] pc[s] = "read" -> <<started[s]>>
       [] pc[s] = "acquire" -> <<started[s], seen[s]>>
       [] pc[s] = "wait" -> <<auth, started[s], gen[s], content[s], answer[s]>>
       [] pc[s] = "confirm" -> <<auth, started[s], gen[s], tries[s]>>
       [] pc[s] = "check" -> <<auth, started[s], gen[s], tries[s], seen[s]>>
       [] pc[s] = "running" -> <<auth, gen[s]>>
       [] pc[s] = "renew" -> <<auth, started[s], gen[s]>>
       [] pc[s] = "exit" -> <<revision[s], status[s]>>
       [] pc[s] \in {"fencing", "fenced"} -> <<status[s], stop[s]>>
       [] pc[s] \in {"released", "crashed"} -> <<status[s]>>

View == <<now, wall, lease, sent, pc, [s \in Sessions |-> LiveLocals(s)]>>
=============================================================================
