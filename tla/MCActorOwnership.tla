-------------------------- MODULE MCActorOwnership --------------------------
(* Model values for ActorOwnership.                                        *)
EXTENDS ActorOwnership, TLC

CONSTANTS nA, nB, a1, a2, b1

TwoNodes == {nA, nB}
\* One process per node.
Pair == {a1, b1}
\* Two processes of one Node ID.
Successors == {a1, a2}
NodesOf == [s \in Sessions |-> IF s = b1 THEN nB ELSE nA]

\* The local variables of s that some later step still reads at op[s].
LiveLocals(s) ==
  CASE op[s] = "read" -> <<round[s]>>
    [] op[s] \in {"directory", "put"} -> <<round[s], seen[s]>>
    [] op[s] = "wait" -> <<round[s], seen[s], answer[s]>>
    [] op[s] = "confirm" -> <<round[s], seen[s], tries[s]>>
    [] op[s] \in {"rel_put", "local"} -> <<seen[s]>>
    [] OTHER -> <<>>

View == <<leaseVars, stage, storeVars, op, hostVars, [s \in Sessions |-> LiveLocals(s)]>>
=============================================================================
