--------------------------- MODULE MCActorRuntime ---------------------------
(* Instances of ActorRuntime for TLC: the Sessions of one Actor.           *)
EXTENDS ActorRuntime

CONSTANTS a1, s1, s2

OneActor == [s \in SessionIds |-> a1]
=============================================================================
