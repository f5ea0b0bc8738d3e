--------------------------- MODULE NodeAuthority ---------------------------
(***************************************************************************)
(* What a Node Lease promises to everybody else: the abstract              *)
(* specification that NodeLease implements and ActorOwnership relies on.   *)
(*                                                                         *)
(* `holder' is the session that a reader of the Node Directory finds       *)
(* (read_node_lease, cluster/s3.rs: absent and expired records do not      *)
(* count); `held' are the sessions that act on their authority             *)
(* (NodeAuthority::is_valid, cluster/node.rs).  Authority is handed over   *)
(* only through a gap in which nobody holds it.                            *)
(***************************************************************************)
CONSTANTS Sessions, NoSession

VARIABLES holder, held

authorityVars == <<holder, held>>

Init == holder = NoSession /\ held = {}

\* A lease appears in the directory; nobody acts on it yet.
Acquire(s) ==
  /\ holder = NoSession
  /\ holder' = s
  /\ UNCHANGED held

\* The session whose lease is in the directory learns of it.
Gain(s) ==
  /\ holder = s
  /\ held' = held \cup {s}
  /\ UNCHANGED holder

\* A session gives up, fences, stops or dies.
Lose(s) ==
  /\ s \in held
  /\ held' = held \ {s}
  /\ UNCHANGED holder

\* The lease is released or expires: by then its session has no authority.
Vacate ==
  /\ holder # NoSession
  /\ holder' = NoSession
  /\ held' = held \ {holder}

Next == (\E s \in Sessions : Acquire(s) \/ Gain(s) \/ Lose(s)) \/ Vacate

Spec == Init /\ [][Next]_authorityVars
=============================================================================
