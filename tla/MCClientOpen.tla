---------------------------- MODULE MCClientOpen ----------------------------
(* Instances of ClientOpen for TLC. *)
EXTENDS ClientOpen, TLC

CONSTANTS o1, o2, e1, e2, n1

OneOwner == n1 :> e1

OpenSymmetry == Permutations(Opens)

Over(o)    == pc[o] \in {"idle", "open", "dropped", "error"}
Aiming(o)  == pc[o] \notin {"idle", "resolve", "select", "error"}
Current(o) == [progress   |-> IF Over(o) THEN <<>>
                              ELSE <<attempts[o], excluded[o], failedOwner[o], expired[o]>>,
               target     |-> IF Aiming(o) THEN <<target[o]>> ELSE <<>>,
               connection |-> IF Using(o) THEN connection[o] ELSE 0,
               answer     |-> IF pc[o] = "wait" THEN answer[o] ELSE "none"]

\* States that differ in values no longer read are the same.
CurrentState ==
  <<pc, [o \in Opens |-> Current(o)], receivers, pending, inFlight, created, endpoint, bound,
    closed, loop, leaving,
    [c \in Connections |-> IF loop[c] = "receive" THEN requests[c] ELSE {}],
    pool, holder, stopped>>
=============================================================================
