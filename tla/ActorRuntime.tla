---------------------------- MODULE ActorRuntime ----------------------------
(***************************************************************************)
(* The runtime of ONE Server process (runtime/core.rs, lifecycle.rs,       *)
(* route.rs, session.rs, shutdown.rs): the routes with their capacity      *)
(* permits, the tasks of the Active Actors with their mailboxes, the       *)
(* Session registry, the inbound tasks that open, use and close Sessions,  *)
(* and shutdown and fence, which may run at the same time.                 *)
(*                                                                         *)
(* A step is what a thread does between two points where another thread    *)
(* can be seen: an await, or the taking of a lock (actors, by_actor).      *)
(*                                                                         *)
(* A task is named by its generation.  The Route owns the capacity permit  *)
(* and the sender of the shutdown signal: both go when the route goes.     *)
(* Each Session is opened once and has a connection, hence an inbound      *)
(* task, of its own; `caller' is where that task stands.  Opens of one     *)
(* address are not serialised here as the resolution lock serialises them  *)
(* (ActorOwnership has the lock), so a Server without it is covered too.   *)
(*                                                                         *)
(* `Env' holds "straddle" when shutdown or fence may take the actors lock  *)
(* while a dispatch_message stands between its check of the status and     *)
(* its own taking of that lock.                                            *)
(***************************************************************************)
EXTENDS Integers, Sequences, FiniteSets, Functions

CONSTANTS
  Addresses,        \* Actor Addresses
  SessionIds,
  AddressOf,        \* the Actor of each Session
  MailboxCapacity,
  MaxActive,        \* max_active_actors
  MaxGen,           \* bound on next_generation
  Env

ASSUME RuntimeAssumption ==
  /\ AddressOf \in [SessionIds -> Addresses]
  /\ IsFiniteSet(Addresses) /\ Addresses # {} /\ IsFiniteSet(SessionIds)
  /\ MailboxCapacity \in Nat \ {0}
  /\ MaxActive \in Nat \ {0}
  /\ MaxGen \in Nat \ {0}
  /\ Env \subseteq {"straddle"}

VARIABLES
  status,     \* ServerInner.status
  route,      \* actors: per address the generation (0: no route) and its state
  spawned,    \* generations given out: next_generation - 1
  addr,       \* the address of each task
  pc,         \* where each task stands
  mailbox,    \* its queue
  current,    \* the message whose handler runs, as a sequence of one or none
  signalled,  \* tasks whose shutdown signal is true
  aborted,    \* tasks on which abort() was called
  opened,     \* Sessions of whose opening each Actor was told, and not of their close
  registry,   \* SessionRegistry: the Sessions registered
  caller,     \* where the inbound task of each Session stands
  answer,     \* the oneshot of its SessionOpened
  reserved,   \* Sessions whose open holds a capacity reservation
  killed,     \* Sessions whose inbound task abort_inbound_tasks has aborted
  shutdown,   \* where ServerInner::shutdown stands
  fence,      \* where ServerInner::fence stands
  awaited     \* the tasks that each of the two waits for

routeVars  == <<route, spawned, addr>>
queueVars  == <<mailbox, current>>
markVars   == <<signalled, aborted>>
callVars   == <<caller, reserved>>
stopVars   == <<killed, shutdown, fence, awaited>>
vars == <<status, routeVars, pc, queueVars, markVars, opened, registry, callVars,
          answer, stopVars>>

Gens     == 1..MaxGen
NoRoute  == [gen |-> 0, deactivating |-> FALSE]
Routes   == [gen : 0..MaxGen, deactivating : BOOLEAN]
Messages == [kind : {"Action", "SessionOpened", "SessionClosed"}, session : SessionIds]
Message(k, s) == [kind |-> k, session |-> s]

Pcs     == {"none", "activating", "failing", "failed", "loop", "busy", "idle",
            "deactivating", "draining", "drain_busy", "drained", "stopping", "ending", "done"}
Callers == {"none", "resolving", "opening", "waiting", "refused", "open", "acting",
            "closing", "ended"}

TypeOK ==
  /\ status \in {"RUNNING", "SHUTTING_DOWN", "STOPPED", "FENCED"}
  /\ route \in [Addresses -> Routes]
  /\ spawned \in 0..MaxGen
  /\ addr \in [Gens -> Addresses]
  /\ pc \in [Gens -> Pcs]
  /\ mailbox \in [Gens -> Seq(Messages)]
  /\ \A g \in Gens : Len(mailbox[g]) <= MailboxCapacity
  /\ current \in [Gens -> Seq(Messages)]
  /\ signalled \in SUBSET Gens /\ aborted \in SUBSET Gens
  /\ opened \in [Gens -> SUBSET SessionIds]
  /\ registry \in SUBSET SessionIds
  /\ caller \in [SessionIds -> Callers]
  /\ answer \in [SessionIds -> {"none", "ok", "error"}]
  /\ reserved \in SUBSET SessionIds /\ killed \in SUBSET SessionIds
  /\ shutdown \in {"no", "draining", "drained", "clearing", "cleared", "done", "timed_out",
                   "skipped"}
  /\ fence \in {"no", "waiting", "done"}
  /\ awaited \in [{"shutdown", "fence"} -> SUBSET Gens]

Init ==
  /\ status = "RUNNING"
  /\ route = [a \in Addresses |-> NoRoute]
  /\ spawned = 0
  /\ addr = [g \in Gens |-> CHOOSE a \in Addresses : TRUE]
  /\ pc = [g \in Gens |-> "none"]
  /\ mailbox = [g \in Gens |-> <<>>]
  /\ current = [g \in Gens |-> <<>>]
  /\ signalled = {} /\ aborted = {}
  /\ opened = [g \in Gens |-> {}]
  /\ registry = {}
  /\ caller = [s \in SessionIds |-> "none"]
  /\ answer = [s \in SessionIds |-> "none"]
  /\ reserved = {} /\ killed = {}
  /\ shutdown = "no" /\ fence = "no"
  /\ awaited = [w \in {"shutdown", "fence"} |-> {}]

-----------------------------------------------------------------------------
(* Routes, permits, the registry.                                          *)

\* What a task holds: the message in hand and those in the mailbox.
Held(g) == Range(current[g]) \cup Range(mailbox[g])

\* User code of the Actor can run: activate, handlers, deactivate.
Runs(g) == pc[g] \in {"activating", "loop", "busy", "idle", "deactivating",
                      "draining", "drain_busy", "drained"}

\* The receiver of the mailbox was closed or has gone: try_send gives Closed.
Closed(g) == pc[g] \in {"failing", "failed", "draining", "drain_busy", "drained", "done"}

Routed    == {a \in Addresses : route[a] # NoRoute}
IsRoute(g) == route[addr[g]].gen = g

\* The semaphore `capacity': a permit is in a Route or in a reservation.
Available == MaxActive - Cardinality(Routed) - Cardinality(reserved)

\* What update_capacity_sample writes into the lease.
Sample == [active    |-> MaxActive - Available,
           pressured |-> Available = 0,
           draining  |-> status # "RUNNING"]

\* Seeded fault: remove_route does not compare the generation.
RemoveAnyRoute(g) == route' = [route EXCEPT ![addr[g]] = NoRoute]

\* Seeded fault: a route that deactivates is left to the next dispatch.
RemoveActiveRoute(g) ==
  route' = IF route[addr[g]] = [gen |-> g, deactivating |-> FALSE]
           THEN [route EXCEPT ![addr[g]] = NoRoute]
           ELSE route

RemoveRoute(g) ==
  route' = IF IsRoute(g) THEN [route EXCEPT ![addr[g]] = NoRoute] ELSE route

TerminateAll(a) == registry' = {s \in registry : AddressOf[s] # a}

\* The completions of SessionOpened messages: an answer, or the drop of the sender.
Opens(msgs) == {s \in SessionIds : Message("SessionOpened", s) \in msgs}
Complete(msgs, result) ==
  answer' = [s \in SessionIds |-> IF s \in Opens(msgs) THEN result ELSE answer[s]]

Goto(g, l)       == pc' = [pc EXCEPT ![g] = l]
CallerGoto(s, l) == caller' = [caller EXCEPT ![s] = l]

\* The task returns or is dropped: ActorTaskGuard removes the route and reports
\* completion, the mailbox goes with the senders of the answers still owed.
EndTask(g) ==
  /\ Goto(g, "done")
  /\ RemoveRoute(g)
  /\ Complete(Held(g), "error")
  /\ mailbox' = [mailbox EXCEPT ![g] = <<>>]
  /\ current' = [current EXCEPT ![g] = <<>>]
  /\ signalled' = signalled \ {g}
  /\ aborted' = aborted \ {g}
  /\ opened' = [opened EXCEPT ![g] = {}]
  /\ UNCHANGED <<spawned, addr>>

-----------------------------------------------------------------------------
(* Inbound tasks: dispatch_inbound, one Envelope at a time.                *)

\* Requests stop where the bound on generations could be exceeded.
InFlight  == {s \in SessionIds : caller[s] \in {"resolving", "opening", "acting"}}
MayBegin  == spawned + Cardinality(InFlight) < MaxGen

\* SessionOpen: resolve() finds this node owner, or claims with a reservation.
Resolve(s) ==
  /\ caller[s] = "none" /\ MayBegin
  /\ CallerGoto(s, "resolving")
  /\ \/ UNCHANGED reserved
     \/ Available > 0 /\ reserved' = reserved \cup {s}
  /\ UNCHANGED <<status, routeVars, pc, queueVars, markVars, opened, registry, answer, stopVars>>

\* open_local_session registers the Session; dispatch_message finds the node
\* with authority and RUNNING.
Register(s) ==
  /\ caller[s] = "resolving"
  /\ status = "RUNNING"
  /\ registry' = registry \cup {s}
  /\ CallerGoto(s, "opening")
  /\ UNCHANGED <<status, routeVars, pc, queueVars, markVars, opened, reserved, answer, stopVars>>

\* It finds another status, or a lease that has lapsed (possible at any time):
\* the Session is unregistered and the open fails.
RegisterRefused(s) ==
  /\ caller[s] = "resolving"
  /\ CallerGoto(s, "refused")
  /\ reserved' = reserved \ {s}
  /\ UNCHANGED <<status, routeVars, pc, queueVars, markVars, opened, registry, answer, stopVars>>

\* Action: the Session is bound to this connection, the node is RUNNING.
BeginAction(s) ==
  /\ caller[s] = "open" /\ s \in registry /\ MayBegin
  /\ status = "RUNNING"
  /\ CallerGoto(s, "acting")
  /\ UNCHANGED <<status, routeVars, pc, queueVars, markVars, opened, registry, reserved,
                 answer, stopVars>>

Dispatching(s) == caller[s] \in {"opening", "acting"}
Request(s)     == Message(IF caller[s] = "opening" THEN "SessionOpened" ELSE "Action", s)
Accepted(s)    == CallerGoto(s, IF caller[s] = "opening" THEN "waiting" ELSE "open")

\* dispatch_message under the actors lock: an Active route with room.
DispatchDelivered(s) ==
  LET r == route[AddressOf[s]] IN
  /\ Dispatching(s)
  /\ r # NoRoute /\ ~r.deactivating /\ ~Closed(r.gen)
  /\ Len(mailbox[r.gen]) < MailboxCapacity
  /\ mailbox' = [mailbox EXCEPT ![r.gen] = Append(@, Request(s))]
  /\ Accepted(s)
  /\ reserved' = reserved \ {s}
  /\ UNCHANGED <<status, routeVars, pc, current, markVars, opened, registry, answer, stopVars>>

\* A route whose mailbox is closed is removed.  Its permit is free before
\* dispatch_message takes one, and resolve() takes permits without the actors
\* lock; this step lets in whoever wants that lock as well, which is more.
ClosedRouteReplaced(s) ==
  LET a == AddressOf[s] IN
  /\ Dispatching(s)
  /\ route[a] # NoRoute /\ ~route[a].deactivating /\ Closed(route[a].gen)
  /\ route' = [route EXCEPT ![a] = NoRoute]
  /\ UNCHANGED <<status, spawned, addr, pc, queueVars, markVars, opened, registry, callVars,
                 answer, stopVars>>

\* Seeded fault: a missing route is served without a permit.
DispatchUnpermitted(s) ==
  LET a == AddressOf[s]
      g == spawned + 1 IN
  /\ Dispatching(s)
  /\ route[a] = NoRoute
  /\ g \in Gens
  /\ spawned' = g
  /\ addr' = [addr EXCEPT ![g] = a]
  /\ route' = [route EXCEPT ![a] = [gen |-> g, deactivating |-> FALSE]]
  /\ Goto(g, "activating")
  /\ mailbox' = [mailbox EXCEPT ![g] = <<Request(s)>>]
  /\ Accepted(s)
  /\ reserved' = reserved \ {s}
  /\ UNCHANGED <<status, current, markVars, opened, registry, answer, stopVars>>

\* No route: a new task, with the reservation or a free permit.
DispatchSpawned(s) ==
  LET a == AddressOf[s]
      g == spawned + 1 IN
  /\ Dispatching(s)
  /\ route[a] = NoRoute
  /\ s \in reserved \/ Available > 0
  /\ g \in Gens
  /\ spawned' = g
  /\ addr' = [addr EXCEPT ![g] = a]
  /\ route' = [route EXCEPT ![a] = [gen |-> g, deactivating |-> FALSE]]
  /\ Goto(g, "activating")
  /\ mailbox' = [mailbox EXCEPT ![g] = <<Request(s)>>]
  /\ Accepted(s)
  /\ reserved' = reserved \ {s}
  /\ UNCHANGED <<status, current, markVars, opened, registry, answer, stopVars>>

\* MailboxFull, ActorDeactivating or RuntimeAtCapacity.  An open is taken back;
\* an Action is answered with a SessionError.
DispatchRefused(s) ==
  LET r == route[AddressOf[s]] IN
  /\ Dispatching(s)
  /\ \/ r = NoRoute /\ s \notin reserved /\ Available <= 0
     \/ r # NoRoute /\ r.deactivating
     \/ r # NoRoute /\ ~Closed(r.gen) /\ Len(mailbox[r.gen]) >= MailboxCapacity
  /\ IF caller[s] = "opening"
     THEN registry' = registry \ {s} /\ CallerGoto(s, "refused")
     ELSE CallerGoto(s, "open") /\ UNCHANGED registry
  /\ reserved' = reserved \ {s}
  /\ UNCHANGED <<status, routeVars, pc, queueVars, markVars, opened, answer, stopVars>>

\* Seeded fault: the sender dropped without an answer is not noticed.
OpenAnsweredOk(s) ==
  /\ caller[s] = "waiting" /\ answer[s] = "ok"
  /\ CallerGoto(s, "open")
  /\ UNCHANGED <<status, routeVars, pc, queueVars, markVars, opened, registry, reserved, answer,
                 stopVars>>

\* open_local_session receives the answer; an error unregisters the Session.
OpenAnswered(s) ==
  /\ caller[s] = "waiting" /\ answer[s] # "none"
  /\ IF answer[s] = "ok"
     THEN CallerGoto(s, "open") /\ UNCHANGED registry
     ELSE CallerGoto(s, "refused") /\ registry' = registry \ {s}
  /\ UNCHANGED <<status, routeVars, pc, queueVars, markVars, opened, reserved, answer, stopVars>>

\* SessionClose, or the end of the connection: close_local_session unregisters.
CloseSession(s) ==
  /\ caller[s] = "open"
  /\ CallerGoto(s, IF s \in registry THEN "closing" ELSE "ended")
  /\ registry' = registry \ {s}
  /\ UNCHANGED <<status, routeVars, pc, queueVars, markVars, opened, reserved, answer, stopVars>>

\* dispatch_message_if_active; its result is ignored.
NotifyClosed(s) ==
  LET r == route[AddressOf[s]] IN
  /\ caller[s] = "closing"
  /\ CallerGoto(s, "ended")
  /\ mailbox' = IF /\ r # NoRoute /\ ~r.deactivating /\ ~Closed(r.gen)
                   /\ Len(mailbox[r.gen]) < MailboxCapacity
                THEN [mailbox EXCEPT ![r.gen] = Append(@, Message("SessionClosed", s))]
                ELSE mailbox
  /\ UNCHANGED <<status, routeVars, pc, current, markVars, opened, registry, reserved, answer,
                 stopVars>>

\* An aborted inbound task is dropped at an await, with its reservation.
InboundDropped(s) ==
  /\ s \in killed /\ caller[s] \in {"resolving", "waiting", "open"}
  /\ CallerGoto(s, "ended")
  /\ reserved' = reserved \ {s}
  /\ UNCHANGED <<status, routeVars, pc, queueVars, markVars, opened, registry, answer, stopVars>>

-----------------------------------------------------------------------------
(* The task of an Active Actor: spawn_actor.                               *)

otherVars == <<status, registry, callVars, stopVars>>

Activated(g) ==
  /\ pc[g] = "activating"
  /\ Goto(g, "loop")
  /\ UNCHANGED <<routeVars, queueVars, markVars, opened, answer, otherVars>>

\* on_activate fails or panics: receiver.close() ...
ActivationFails(g) ==
  /\ pc[g] = "activating"
  /\ Goto(g, "failing")
  /\ UNCHANGED <<routeVars, queueVars, markVars, opened, answer, otherVars>>

\* ... remove_route, fail_pending ...
FailedUnroutes(g) ==
  /\ pc[g] = "failing"
  /\ RemoveRoute(g)
  /\ Complete(Range(mailbox[g]), "error")
  /\ mailbox' = [mailbox EXCEPT ![g] = <<>>]
  /\ Goto(g, "failed")
  /\ UNCHANGED <<spawned, addr, current, markVars, opened, otherVars>>

\* ... and terminate_all: whatever Sessions the address has by now.
FailedEnds(g) ==
  /\ pc[g] = "failed"
  /\ TerminateAll(addr[g])
  /\ EndTask(g)
  /\ UNCHANGED <<status, callVars, stopVars>>

\* The biased select: the shutdown signal first; with the route the sender of
\* the signal is gone and changed() returns an error for ever.
Receive(g) ==
  /\ pc[g] = "loop" /\ g \notin signalled /\ IsRoute(g)
  /\ mailbox[g] # <<>>
  /\ current' = [current EXCEPT ![g] = <<Head(mailbox[g])>>]
  /\ mailbox' = [mailbox EXCEPT ![g] = Tail(@)]
  /\ Goto(g, "busy")
  /\ UNCHANGED <<routeVars, markVars, opened, answer, otherVars>>

\* execute_message: the handler returns.
Handled(g) ==
  /\ pc[g] \in {"busy", "drain_busy"}
  /\ Complete(Range(current[g]), "ok")
  /\ LET m == Head(current[g]) IN
     opened' = [opened EXCEPT ![g] =
                  CASE m.kind = "SessionOpened" -> @ \cup {m.session}
                    [] m.kind = "SessionClosed" -> @ \ {m.session}
                    [] OTHER -> @]
  /\ current' = [current EXCEPT ![g] = <<>>]
  /\ Goto(g, IF pc[g] = "busy" THEN "loop" ELSE "draining")
  /\ UNCHANGED <<routeVars, mailbox, markVars, otherVars>>

\* The handler panics; an open it was for gets ActorStopped.
Panics(g) ==
  /\ pc[g] = "busy"
  /\ Complete(Range(current[g]), "error")
  /\ current' = [current EXCEPT ![g] = <<>>]
  /\ Goto(g, "stopping")
  /\ UNCHANGED <<routeVars, mailbox, markVars, opened, otherVars>>

\* terminate_all after a panic; the mailbox still takes messages ...
PanicTerminates(g) ==
  /\ pc[g] = "stopping"
  /\ TerminateAll(addr[g])
  /\ Goto(g, "ending")
  /\ UNCHANGED <<status, routeVars, queueVars, markVars, opened, callVars, answer, stopVars>>

\* ... until the task ends.
PanicEnds(g) ==
  /\ pc[g] = "ending"
  /\ EndTask(g)
  /\ UNCHANGED otherVars

\* Seeded fault: the idle timeout does not ask has_live_sessions.
IdleAnyway(g) ==
  /\ pc[g] = "loop" /\ g \notin signalled /\ IsRoute(g)
  /\ mailbox[g] = <<>>
  /\ Goto(g, "idle")
  /\ UNCHANGED <<routeVars, queueVars, markVars, opened, answer, otherVars>>

\* The idle timeout fires and has_live_sessions is false.
IdleCheck(g) ==
  /\ pc[g] = "loop" /\ g \notin signalled /\ IsRoute(g)
  /\ mailbox[g] = <<>>
  /\ \A s \in registry : AddressOf[s] # addr[g]
  /\ Goto(g, "idle")
  /\ UNCHANGED <<routeVars, queueVars, markVars, opened, answer, otherVars>>

\* Seeded fault: begin_deactivation does not look at the mailbox again.
BeginDeactivationBlind(g) ==
  /\ pc[g] = "idle"
  /\ IF IsRoute(g)
     THEN /\ route' = [route EXCEPT ![addr[g]].deactivating = TRUE]
          /\ Goto(g, "deactivating")
     ELSE Goto(g, "loop") /\ UNCHANGED route
  /\ UNCHANGED <<spawned, addr, queueVars, markVars, opened, answer, otherVars>>

\* begin_deactivation, under the actors lock.
BeginDeactivation(g) ==
  /\ pc[g] = "idle"
  /\ IF IsRoute(g) /\ mailbox[g] = <<>>
     THEN /\ route' = [route EXCEPT ![addr[g]].deactivating = TRUE]
          /\ Goto(g, "deactivating")
     ELSE Goto(g, "loop") /\ UNCHANGED route
  /\ UNCHANGED <<spawned, addr, queueVars, markVars, opened, answer, otherVars>>

\* on_deactivate ends or times out, the Actor is dropped, the ownership is
\* released, the route removed.
Passivated(g) ==
  /\ pc[g] = "deactivating"
  /\ EndTask(g)
  /\ UNCHANGED otherVars

\* The shutdown signal: receiver.close().
BeginDrain(g) ==
  /\ pc[g] = "loop" /\ g \in signalled
  /\ Goto(g, "draining")
  /\ UNCHANGED <<routeVars, queueVars, markVars, opened, answer, otherVars>>

DrainReceive(g) ==
  /\ pc[g] = "draining" /\ mailbox[g] # <<>>
  /\ current' = [current EXCEPT ![g] = <<Head(mailbox[g])>>]
  /\ mailbox' = [mailbox EXCEPT ![g] = Tail(@)]
  /\ Goto(g, "drain_busy")
  /\ UNCHANGED <<routeVars, markVars, opened, answer, otherVars>>

DrainPanics(g) ==
  /\ pc[g] = "drain_busy"
  /\ TerminateAll(addr[g])
  /\ EndTask(g)
  /\ UNCHANGED <<status, callVars, stopVars>>

DrainTerminates(g) ==
  /\ pc[g] = "draining" /\ mailbox[g] = <<>>
  /\ TerminateAll(addr[g])
  /\ Goto(g, "drained")
  /\ UNCHANGED <<status, routeVars, queueVars, markVars, opened, callVars, answer, stopVars>>

\* on_deactivate(Shutdown) has run.
DrainEnds(g) ==
  /\ pc[g] = "drained"
  /\ EndTask(g)
  /\ UNCHANGED otherVars

\* An aborted task is dropped at its next await.
Cancelled(g) ==
  /\ g \in aborted /\ pc[g] \notin {"none", "done"}
  /\ EndTask(g)
  /\ UNCHANGED otherVars

-----------------------------------------------------------------------------
(* shutdown and fence.                                                     *)

RoutedTasks   == {route[a].gen : a \in Routed}
NoneStraddles == "straddle" \notin Env => \A s \in SessionIds : ~Dispatching(s)

\* terminate_all_sessions, then abort_inbound_tasks.
EndSessions ==
  /\ registry' = {}
  /\ killed' = killed \cup {s \in SessionIds : caller[s] \notin {"none", "refused", "ended"}}

BeginShutdown ==
  /\ shutdown = "no" /\ NoneStraddles
  /\ IF status = "RUNNING"
     THEN /\ status' = "SHUTTING_DOWN"
          /\ shutdown' = "draining"
          /\ signalled' = signalled \cup RoutedTasks
          /\ awaited' = [awaited EXCEPT !["shutdown"] = RoutedTasks]
     ELSE shutdown' = "skipped" /\ UNCHANGED <<status, signalled, awaited>>
  /\ UNCHANGED <<routeVars, pc, queueVars, aborted, opened, registry, callVars, answer, killed, fence>>

ShutdownDrained ==
  /\ shutdown = "draining"
  /\ \A g \in awaited["shutdown"] : pc[g] = "done"
  /\ shutdown' = "drained"
  /\ UNCHANGED <<status, routeVars, pc, queueVars, markVars, opened, registry, callVars, answer,
                 killed, fence, awaited>>

\* shutdown_timeout: the tasks are aborted, not awaited ...
ShutdownTimesOut ==
  /\ shutdown = "draining"
  /\ \E g \in awaited["shutdown"] : pc[g] # "done"
  /\ shutdown' = "clearing"
  /\ aborted' = aborted \cup {g \in awaited["shutdown"] : pc[g] # "done"}
  /\ UNCHANGED <<status, routeVars, pc, queueVars, signalled, opened, registry, callVars, answer,
                 killed, fence, awaited>>

\* ... and the routes cleared.
ShutdownClears ==
  /\ shutdown = "clearing"
  /\ shutdown' = "cleared"
  /\ route' = [a \in Addresses |-> NoRoute]
  /\ UNCHANGED <<status, spawned, addr, pc, queueVars, markVars, opened, registry, callVars,
                 answer, killed, fence, awaited>>

EndShutdown ==
  /\ shutdown \in {"drained", "cleared"}
  /\ shutdown' = IF shutdown = "drained" THEN "done" ELSE "timed_out"
  /\ EndSessions
  /\ status' = "STOPPED"
  /\ UNCHANGED <<routeVars, pc, queueVars, markVars, opened, callVars, answer, fence, awaited>>

\* Seeded fault: the tasks are not aborted.
BeginFenceGently ==
  /\ fence = "no" /\ NoneStraddles
  /\ fence' = "waiting"
  /\ status' = "FENCED"
  /\ awaited' = [awaited EXCEPT !["fence"] = RoutedTasks]
  /\ UNCHANGED <<routeVars, pc, queueVars, markVars, opened, registry, callVars, answer, killed,
                 shutdown>>

BeginFence ==
  /\ fence = "no" /\ NoneStraddles
  /\ fence' = "waiting"
  /\ status' = "FENCED"
  /\ aborted' = aborted \cup RoutedTasks
  /\ awaited' = [awaited EXCEPT !["fence"] = RoutedTasks]
  /\ UNCHANGED <<routeVars, pc, queueVars, signalled, opened, registry, callVars, answer, killed,
                 shutdown>>

\* Seeded fault: the completions of the aborted tasks are not awaited.
EndFenceAtOnce ==
  /\ fence = "waiting"
  /\ fence' = "done"
  /\ route' = [a \in Addresses |-> NoRoute]
  /\ EndSessions
  /\ UNCHANGED <<status, spawned, addr, pc, queueVars, markVars, opened, callVars, answer,
                 shutdown, awaited>>

EndFence ==
  /\ fence = "waiting"
  /\ \A g \in awaited["fence"] : pc[g] = "done"
  /\ fence' = "done"
  /\ route' = [a \in Addresses |-> NoRoute]
  /\ EndSessions
  /\ UNCHANGED <<status, spawned, addr, pc, queueVars, markVars, opened, callVars, answer,
                 shutdown, awaited>>

-----------------------------------------------------------------------------
OpenStep(s) == RegisterRefused(s) \/ Register(s) \/ OpenAnswered(s)
Dispatch(s) == DispatchDelivered(s) \/ ClosedRouteReplaced(s) \/ DispatchSpawned(s)
                 \/ DispatchRefused(s)
Inbound(s)  == OpenStep(s) \/ Dispatch(s) \/ NotifyClosed(s) \/ InboundDropped(s)

Activation(g)  == Activated(g) \/ ActivationFails(g) \/ FailedUnroutes(g) \/ FailedEnds(g)
Work(g)        == Receive(g) \/ Handled(g) \/ Panics(g) \/ PanicTerminates(g) \/ PanicEnds(g)
Passivation(g) == IdleCheck(g) \/ BeginDeactivation(g) \/ Passivated(g)
Drain(g)       == BeginDrain(g) \/ DrainReceive(g) \/ DrainPanics(g) \/ DrainTerminates(g)
                    \/ DrainEnds(g)
Task(g)        == Activation(g) \/ Work(g) \/ Passivation(g) \/ Drain(g) \/ Cancelled(g)

ShutdownStep == ShutdownDrained \/ ShutdownTimesOut \/ ShutdownClears \/ EndShutdown

Next ==
  \/ \E s \in SessionIds : Resolve(s) \/ BeginAction(s) \/ CloseSession(s) \/ Inbound(s)
  \/ \E g \in Gens : Task(g)
  \/ BeginShutdown \/ ShutdownStep \/ BeginFence \/ EndFence

Spec == Init /\ [][Next]_vars

\* Handlers and lifecycle methods end (the user's part), timers fire, aborted
\* tasks reach an await, tokio polls every task that can go on.  Nobody is
\* obliged to open, to send, to close, to shut down or to fence.
LiveSpec ==
  /\ Spec
  /\ \A g \in Gens : WF_vars(Task(g))
  /\ \A s \in SessionIds : WF_vars(Inbound(s))
  /\ WF_vars(ShutdownStep) /\ WF_vars(EndFence)

-----------------------------------------------------------------------------
(* Properties.                                                             *)

\* CONTEXT.md: an Actor has one Active Actor after another.  Two tasks of one
\* address never both run code of the Actor: dispatch_message, remove_route,
\* begin_deactivation and the drain agree on which task an address has.
OneActorPerAddress ==
  \A g, h \in Gens : Runs(g) /\ Runs(h) /\ addr[g] = addr[h] => g = h

\* max_active_actors bounds the Actors that run together with the places that
\* resolve() has reserved, and the load that update_capacity_sample publishes
\* is never less than the Actors that run.
WithinCapacity ==
  status = "RUNNING" =>
    /\ Available >= 0
    /\ Cardinality({g \in Gens : Runs(g)}) + Cardinality(reserved) <= Sample.active

\* The route of the Session's Actor leads to a task that takes messages and that
\* was told of the Session.
HasActor(s) ==
  LET r == route[AddressOf[s]] IN
  /\ r # NoRoute /\ ~r.deactivating /\ ~Closed(r.gen) /\ s \in opened[r.gen]

\* docs/runtime.md: a live Session prevents idle passivation.  While the node is
\* RUNNING, a Session that was acknowledged and is registered has its Actor, the
\* one that ran on_session_opened for this very Session.
OpenSessionHasActor ==
  status = "RUNNING" =>
    \A s \in registry : caller[s] \in {"open", "acting"} => HasActor(s)

\* begin_deactivation looks at the mailbox and closes the route in one critical
\* section: no message that dispatch_message accepted is lost by passivation.
PassivationLosesNothing ==
  \A g \in Gens : pc[g] = "deactivating" => mailbox[g] = <<>> /\ current[g] = <<>>

\* shutdown.rs: once fence(), or a shutdown() that did not time out, has
\* returned, no Actor runs on this node.
QuietAfterStop ==
  (fence = "done" /\ shutdown \notin {"cleared", "timed_out"}) \/ shutdown = "done" =>
    \A g \in Gens : ~Runs(g)

-----------------------------------------------------------------------------
(* What makes the properties above inductive, when nobody straddles.       *)

Cleared == shutdown \in {"cleared", "timed_out"}

\* Who may still change what: once the status is not RUNNING no dispatch is on
\* its way, and only then are tasks signalled, aborted, drained or cleared.
StatusInv ==
  /\ status = "RUNNING" => /\ signalled = {} /\ aborted = {}
                           /\ shutdown = "no" /\ fence = "no" /\ killed = {}
                           /\ \A g \in Gens : pc[g] \notin {"draining", "drain_busy", "drained"}
  /\ status # "RUNNING" => \A s \in SessionIds : ~Dispatching(s)

\* An address and the task its route names know each other; a task that runs is
\* the one its address routes to, until a timed out shutdown clears the routes.
RouteLeads(a) ==
  LET g == route[a].gen IN
  /\ g \in 1..spawned /\ addr[g] = a /\ pc[g] \notin {"failed", "done"}
  /\ route[a].deactivating <=> pc[g] = "deactivating"

RouteInv ==
  /\ \A g \in Gens : pc[g] = "none" <=> g > spawned
  /\ \A a \in Addresses : route[a] # NoRoute => RouteLeads(a)
  /\ \A g \in Gens : Runs(g) => IsRoute(g) \/ Cleared

\* A task has a message in hand exactly while a handler runs.
QueueInv ==
  \A g \in Gens :
    /\ pc[g] \in {"busy", "drain_busy"} <=> current[g] # <<>>
    /\ Len(current[g]) <= 1

\* Whoever still runs is awaited by a shutdown or a fence under way.
AwaitedInv ==
  \A g \in Gens : Runs(g) =>
    /\ shutdown = "draining" => g \in awaited["shutdown"]
    /\ shutdown \notin {"drained", "done"}
    /\ fence = "waiting" /\ ~Cleared => g \in awaited["fence"]
    /\ fence = "done" => Cleared

RuntimeInv ==
  /\ TypeOK /\ StatusInv /\ RouteInv /\ QueueInv /\ AwaitedInv
  /\ OneActorPerAddress /\ PassivationLosesNothing

\* The caller has been, or is about to be, told that the Session is open.
Established(s) == \/ caller[s] \in {"open", "acting"}
                  \/ caller[s] = "waiting" /\ answer[s] = "ok"

\* Nobody has answered an open that was not dispatched yet.
AnswerInv ==
  \A s \in SessionIds : caller[s] \in {"none", "resolving", "opening"} => answer[s] = "none"

\* A message that a task holds is for its Actor and tells where the inbound task
\* of its Session stands.
MessageFits(g, m) ==
  /\ AddressOf[m.session] = addr[g]
  /\ m.kind = "SessionOpened" => caller[m.session] = "waiting" /\ answer[m.session] = "none"
  /\ m.kind = "SessionClosed" => caller[m.session] = "ended"

\* Among the messages of a task the open of a Session comes once.
OpenedOnce(g) ==
  /\ \A i, j \in DOMAIN mailbox[g] :
       mailbox[g][i].kind = "SessionOpened" /\ mailbox[g][i] = mailbox[g][j] => i = j
  /\ \A m \in Range(current[g]) \cap Range(mailbox[g]) : m.kind # "SessionOpened"

MessageInv ==
  /\ \A g \in Gens : \A m \in Held(g) : MessageFits(g, m)
  /\ \A g \in Gens : OpenedOnce(g)
  /\ \A g, h \in Gens : \A m \in Held(g) \cap Held(h) : m.kind = "SessionOpened" => g = h

\* A registered Session that is established has its Actor, and the task of that
\* Actor is not about to leave the address.
Attended(s) == HasActor(s) /\ pc[route[AddressOf[s]].gen] \notin {"activating", "idle", "ending"}
ActorInv    == \A s \in registry : Established(s) => Attended(s)

SessionInv == status = "RUNNING" => AnswerInv /\ MessageInv /\ ActorInv

-----------------------------------------------------------------------------
(* Liveness.                                                               *)

\* open_local_session: the oneshot of every SessionOpened is answered or dropped,
\* through activation failures, panics, passivation, shutdown and fence.
OpenIsAnswered ==
  \A s \in SessionIds :
    caller[s] \in {"resolving", "opening", "waiting"} ~> caller[s] \in {"open", "refused", "ended"}

\* fence waits, without a timeout, for the completion of every task it aborts,
\* and gets it; shutdown ends, drained or timed out, also when a fence overtakes
\* it and the two wait for the same tasks.
StopsEnd ==
  /\ fence = "waiting" ~> fence = "done"
  /\ shutdown = "draining" ~> shutdown \in {"done", "timed_out"}

\* The permit of an Actor without Sessions comes back: again and again an
\* address has no route or has a Session registered.
PermitComesBack ==
  \A a \in Addresses : []<>(a \notin Routed \/ \E s \in registry : AddressOf[s] = a)
=============================================================================
