------------------------------ MODULE Placement ------------------------------
(***************************************************************************)
(* How a Client places an Actor nobody owns: the candidates it lists from  *)
(* the Node Directory and caches, the power-of-two-choices pick, and the   *)
(* In-flight Placement bookkeeping the pick reads and updates              *)
(* (cluster/placement.rs, and placement_candidates and                     *)
(* select_placement_candidate of client/mod.rs).                           *)
(*                                                                         *)
(* `Opens' are the open() calls running on one Client.  The Directory is   *)
(* external here (NodeLease models it): a listing returns any set of Nodes *)
(* that pass the hard filter, each with a load below its capacity.  What   *)
(* follows a decision (connecting, sending, retrying) is modelled in       *)
(* ClientOpen; here a decision succeeds or fails before the deadline.      *)
(***************************************************************************)
EXTENDS Integers, FiniteSets

CONSTANTS Opens,          \* the open() calls
          Endpoints,      \* the advertised endpoints
          Capacity,       \* max_actor_count of each
          InFlightTTL,    \* IN_FLIGHT_TTL, in ticks
          CacheTTL,       \* PLACEMENT_CACHE_TTL, in ticks
          OpenTimeout,    \* ClientBuilder::open_timeout, in ticks
          MaxRepeats,     \* bound: retries that exclude no endpoint
          MaxClock,       \* bound: ticks of a behaviour
          None

ASSUME PlacementAssumption ==
  /\ IsFiniteSet(Opens)
  /\ None \notin [endpoint : Endpoints, at : Nat] \cup [count : Nat, updated : Nat]
  /\ Capacity \in [Endpoints -> Nat \ {0}]
  /\ {InFlightTTL, CacheTTL, OpenTimeout} \subseteq Nat \ {0}

VARIABLES
  clock,
  pc,          \* where each open() is
  started,     \* when it began: its deadline is started + OpenTimeout
  checked,     \* `now' of its last placement_candidates call
  view,        \* the candidates it goes by: their loads, when they were read
  excluded,
  repeats,
  decision,    \* its last Placement that has not failed: where, when
  cache,       \* placement_cache
  inFlight     \* P2cPlacement::in_flight

opens == <<pc, started, checked, view, excluded, repeats, decision>>
vars  == <<clock, opens, cache, inFlight>>

-----------------------------------------------------------------------------
Pcs == {"idle", "check", "list", "store", "pick", "placing", "placed", "failed"}

Running(o) == pc[o] \notin {"idle", "placed", "failed"}

Decisions == [endpoint : Endpoints, at : Nat]
Entries   == [count : Nat, updated : Nat]

TypeOK ==
  /\ clock \in Nat
  /\ pc \in [Opens -> Pcs]
  /\ started \in [Opens -> Nat] /\ checked \in [Opens -> Nat] /\ repeats \in [Opens -> Nat]
  /\ DOMAIN view = Opens
  /\ excluded \in [Opens -> SUBSET Endpoints]
  /\ decision \in [Opens -> Decisions \cup {None}]
  /\ inFlight \in [Endpoints -> Entries \cup {None}]

Init ==
  /\ clock = 0
  /\ pc = [o \in Opens |-> "idle"]
  /\ started = [o \in Opens |-> 0]
  /\ checked = [o \in Opens |-> 0]
  /\ view = [o \in Opens |-> None]
  /\ excluded = [o \in Opens |-> {}]
  /\ repeats = [o \in Opens |-> 0]
  /\ decision = [o \in Opens |-> None]
  /\ cache = None
  /\ inFlight = [e \in Endpoints |-> None]

-----------------------------------------------------------------------------
(* Listing the candidates: placement_candidates.                           *)

Goto(o, l) == pc' = [pc EXCEPT ![o] = l]

\* open() finds that nobody owns the Actor.
BeginPlacement(o) ==
  /\ pc[o] = "idle"
  /\ started' = [started EXCEPT ![o] = clock]
  /\ Goto(o, "check")
  /\ UNCHANGED <<clock, checked, view, excluded, repeats, decision, cache, inFlight>>

\* A cached list young enough is taken as it is.
CheckCache(o) ==
  /\ pc[o] = "check"
  /\ checked' = [checked EXCEPT ![o] = clock]
  /\ IF cache # None /\ clock - cache.fetchedAt < CacheTTL
     THEN view' = [view EXCEPT ![o] = cache.list] /\ Goto(o, "pick")
     ELSE UNCHANGED view /\ Goto(o, "list")
  /\ UNCHANGED <<clock, started, excluded, repeats, decision, cache, inFlight>>

\* Nodes that are pressured, draining or full are filtered out.
ListNodes(o) ==
  /\ pc[o] = "list"
  /\ \E C \in SUBSET Endpoints :
       \E l \in [C -> UNION {0..Capacity[e] - 1 : e \in C}] :
         /\ \A e \in C : l[e] < Capacity[e]
         /\ view' = [view EXCEPT ![o] = [read |-> clock, load |-> l]]
  /\ Goto(o, "store")
  /\ UNCHANGED <<clock, started, checked, excluded, repeats, decision, cache, inFlight>>

ListFails(o) ==
  /\ pc[o] = "list"
  /\ Goto(o, "failed")
  /\ UNCHANGED <<clock, started, checked, view, excluded, repeats, decision, cache, inFlight>>

\* Seeded fault: the list is stamped with the time it is stored at.
StoreStampedLate(o) ==
  /\ pc[o] = "store"
  /\ cache' = [fetchedAt |-> clock, list |-> view[o]]
  /\ Goto(o, "pick")
  /\ UNCHANGED <<clock, started, checked, view, excluded, repeats, decision, inFlight>>

\* The list is stamped with the time its call began, not the time it was read.
StoreCache(o) ==
  /\ pc[o] = "store"
  /\ cache' = [fetchedAt |-> checked[o], list |-> view[o]]
  /\ Goto(o, "pick")
  /\ UNCHANGED <<clock, started, checked, view, excluded, repeats, decision, inFlight>>

-----------------------------------------------------------------------------
(* The pick: P2cPlacement.                                                 *)

\* The candidates this open() has not excluded.
Remaining(o) == DOMAIN view[o].load \ excluded[o]

\* in_flight.retain
Retained == [e \in Endpoints |-> IF inFlight[e] # None /\ clock - inFlight[e].updated < InFlightTTL
                                 THEN inFlight[e] ELSE None]

Count(flights, e) == IF flights[e] = None THEN 0 ELSE flights[e].count

\* Seeded fault: the comparison leaves the capacities out.
FewerActors(o, a, b) ==
  view[o].load[a] + Count(Retained, a) < view[o].load[b] + Count(Retained, b)

\* predicted_ratio of a is below that of b.
LowerRatio(o, a, b) ==
  (view[o].load[a] + Count(Retained, a)) * Capacity[b]
    < (view[o].load[b] + Count(Retained, b)) * Capacity[a]

\* Seeded fault: counting a Placement does not restart the entry's window.
CountedOnce(flights, e) ==
  [flights EXCEPT ![e] = IF @ = None THEN [count |-> 1, updated |-> clock]
                         ELSE [@ EXCEPT !.count = @ + 1]]

\* One more Placement at e: the entry's window restarts.
Counted(flights, e) ==
  [flights EXCEPT ![e] = [count |-> Count(flights, e) + 1, updated |-> clock]]

SelectFails(o) ==
  /\ pc[o] = "pick" /\ Remaining(o) = {}
  /\ Goto(o, "failed")
  /\ UNCHANGED <<clock, started, checked, view, excluded, repeats, decision, cache, inFlight>>

\* Two different candidates are drawn, if there are two; the one with the
\* lower predicted ratio is tried, and counted.
Pick(o) ==
  /\ pc[o] = "pick"
  /\ \E first, second \in Remaining(o) :
       /\ Cardinality(Remaining(o)) > 1 => first # second
       /\ LET e == IF LowerRatio(o, second, first) THEN second ELSE first IN
          /\ inFlight' = Counted(Retained, e)
          /\ decision' = [decision EXCEPT ![o] = [endpoint |-> e, at |-> clock]]
  /\ Goto(o, "placing")
  /\ UNCHANGED <<clock, started, checked, view, excluded, repeats, cache>>

-----------------------------------------------------------------------------
(* How the decision ends.                                                  *)

\* The Session opens: the count stays until its window is over.
PlacementSucceeds(o) ==
  /\ pc[o] = "placing"
  /\ Goto(o, "placed")
  /\ UNCHANGED <<clock, started, checked, view, excluded, repeats, decision, cache, inFlight>>

\* Seeded fault: a failed Placement stays counted.
KeepCount(e) == UNCHANGED inFlight

\* on_placement_failed: an entry that is there loses one, down to zero.
RollBack(e) ==
  IF inFlight[e] = None THEN UNCHANGED inFlight
  ELSE inFlight' = [inFlight EXCEPT ![e].count = IF @ = 0 THEN 0 ELSE @ - 1]

\* The count is taken back; open() then gives up, tries another endpoint, or
\* (NotOwner) looks again at all of them.
PlacementFails(o) ==
  LET e == decision[o].endpoint IN
  /\ pc[o] = "placing"
  /\ RollBack(e)
  /\ decision' = [decision EXCEPT ![o] = None]
  /\ \/ Goto(o, "failed") /\ UNCHANGED <<excluded, repeats>>
     \/ /\ Goto(o, "check")
        /\ excluded' = [excluded EXCEPT ![o] = @ \cup {e}]
        /\ UNCHANGED repeats
     \/ /\ Goto(o, "check")
        /\ repeats[o] < MaxRepeats
        /\ repeats' = [repeats EXCEPT ![o] = @ + 1]
        /\ UNCHANGED excluded
  /\ UNCHANGED <<clock, started, checked, view, cache>>

\* Time passes; an open() is over when its deadline has passed.
Tick ==
  /\ clock < MaxClock
  /\ \A o \in Opens : Running(o) => clock - started[o] < OpenTimeout
  /\ clock' = clock + 1
  /\ UNCHANGED <<opens, cache, inFlight>>

List(o)  == CheckCache(o) \/ ListNodes(o) \/ ListFails(o) \/ StoreCache(o)
Place(o) == SelectFails(o) \/ Pick(o) \/ PlacementSucceeds(o) \/ PlacementFails(o)

Next == Tick \/ \E o \in Opens : BeginPlacement(o) \/ List(o) \/ Place(o)

Spec == Init /\ [][Next]_vars

-----------------------------------------------------------------------------
\* A decision goes by a Directory listing read less than CacheTTL before it
\* asked for candidates, however long listings take and in whatever order
\* concurrent ones are stored (placement_candidates).
CandidatesAreFresh ==
  \A o \in Opens : pc[o] = "pick" => view[o].read > checked[o] - CacheTTL

Decided(e) == {o \in Opens : decision[o] # None /\ decision[o].endpoint = e}

\* The bookkeeping never holds more Placements at an endpoint than were
\* decided and did not fail (pick, on_placement_failed).
NoPhantomPlacement == \A e \in Endpoints : Count(inFlight, e) <= Cardinality(Decided(e))

\* While open() ends before a bookkeeping window does, every Placement
\* decided within the window and not failed is in the predicted load of its
\* endpoint, however many failed or expired around it (pick,
\* on_placement_failed).
WindowIsCounted ==
  \A e \in Endpoints :
    Cardinality({o \in Decided(e) : clock - decision[o].at < InFlightTTL}) <= Count(Retained, e)

\* With two candidates or more, the endpoint tried is never the one whose
\* predicted load ratio is above all others' (pick).
NeverTheWorst ==
  [][\A o \in Opens : pc[o] = "pick" /\ pc'[o] = "placing" /\ Cardinality(Remaining(o)) > 1 =>
       LET load(e) == view[o].load[e] + Count(Retained, e)
           chosen  == decision'[o].endpoint
       IN \E e \in Remaining(o) \ {chosen} :
            load(chosen) * Capacity[e] <= load(e) * Capacity[chosen]]_vars

-----------------------------------------------------------------------------
(* The inductive invariants from which PlacementProofs derives these.      *)

IsListing(list) ==
  /\ list.read \in Nat
  /\ \A e \in DOMAIN list.load : e \in Endpoints /\ list.load[e] \in Nat

\* A listing is stamped no later than it was read; a call goes by one it has.
ListInv ==
  /\ \A o \in Opens :
       /\ pc[o] \in {"list", "store"} => checked[o] <= clock
       /\ pc[o] \in {"store", "pick"} => IsListing(view[o])
       /\ pc[o] = "store" => view[o].read >= checked[o]
       /\ pc[o] = "pick" => view[o].read > checked[o] - CacheTTL
  /\ cache # None => /\ IsListing(cache.list) /\ cache.fetchedAt \in Nat
                     /\ cache.list.read >= cache.fetchedAt

\* A call has a decision exactly from its pick until it fails.
DecisionInv ==
  /\ \A o \in Opens : decision[o] # None <=> pc[o] \in {"placing", "placed"}
  /\ NoPhantomPlacement

Window(e) == {o \in Decided(e) : clock - decision[o].at < InFlightTTL}

\* A decision still under way was made within a window of now; an entry is no
\* older than the decisions it counts, and one that is gone counted none in the
\* window.
WindowInv ==
  /\ \A o \in Opens :
       /\ Running(o) => clock - started[o] \in 0..OpenTimeout
       /\ pc[o] = "placing" => started[o] <= decision[o].at
       /\ decision[o] # None =>
            LET entry == inFlight[decision[o].endpoint] IN
            /\ decision[o].at <= clock
            /\ IF entry = None THEN clock - decision[o].at >= InFlightTTL
               ELSE decision[o].at <= entry.updated
  /\ \A e \in Endpoints : inFlight[e] # None => Cardinality(Window(e)) <= inFlight[e].count
=============================================================================
