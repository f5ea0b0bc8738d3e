----------------------------- MODULE MCPlacement -----------------------------
(* Instances of Placement for TLC. *)
EXTENDS Placement, TLC

CONSTANTS o1, o2, e1, e2, e3

Triple == e1 :> 1 @@ e2 :> 1 @@ e3 :> 2

OpenSymmetry == Permutations(Opens)

Current(o) ==
  <<IF Running(o) THEN <<started[o], excluded[o], repeats[o]>> ELSE <<>>,
    IF pc[o] \in {"list", "store", "pick"} THEN checked[o] ELSE 0,
    IF pc[o] \in {"store", "pick"} THEN <<view[o]>> ELSE <<>>>>

\* States that differ in values no longer read are the same.
CurrentState == <<clock, pc, [o \in Opens |-> Current(o)], decision, cache, inFlight>>
=============================================================================
