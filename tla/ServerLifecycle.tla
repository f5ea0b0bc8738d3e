--------------------------- MODULE ServerLifecycle ---------------------------
(***************************************************************************)
(* One Server from serve() until it returns: the select of serve over      *)
(* wait() and the shutdown signal, the graceful shutdown, the renewal task *)
(* that may self-fence at any moment, the transport task and its inbound   *)
(* tasks, and the order in which they are stopped and the Node Lease is    *)
(* released (runtime.rs, cluster/node.rs, runtime/shutdown.rs).            *)
(*                                                                         *)
(* This composes what NodeLease (renewal, release) and ActorRuntime        *)
(* (Actors, shutdown and fence in detail) model apart.  A dispatch is one  *)
(* step here; ActorRuntime shows what happens when a stop overtakes one.   *)
(***************************************************************************)
EXTENDS FiniteSets

CONSTANTS Actors,       \* Active Actors
          Connections   \* inbound connections

VARIABLES
  main,        \* where serve() is
  result,      \* what wait() or the signal gave
  drained,     \* what ServerInner::shutdown returned
  signalled,   \* the shutdown signal has completed
  status,      \* ServerInner::status
  valid,       \* NodeAuthority::valid; the watch `fenced' is its negation
  renewal,     \* where the renewal task is
  lease,       \* the Node Lease, as far as this Server knows
  routes,      \* ServerInner::actors
  running,     \* Actors whose task has not ended
  aborted,     \* ... and has been told to
  awaited,     \* what shutdown waits for
  fenceAwaits, \* what fence waits for
  stop,        \* ClusterTasks::shutdown has asked the tasks to stop
  force,       \* ... and the transport task to leave at once
  transport,   \* where the transport task is
  queued,      \* streams in the accept queue
  inbound      \* connections with a running inbound task

actors == <<routes, running, aborted>>
net    == <<transport, queued, inbound>>
vars   == <<main, result, drained, signalled, status, valid, renewal, lease, actors, awaited,
            fenceAwaits, stop, force, net>>

-----------------------------------------------------------------------------
Mains == {"wait", "shutdown", "drain", "terminate", "stop", "join", "release", "force", "leave",
          "returned"}

TypeOK ==
  /\ main \in Mains
  /\ result \in {"none", "Ok", "Fenced", "ServiceStopped"}
  /\ drained \in {"none", "Ok", "ShutdownTimedOut"}
  /\ status \in {"RUNNING", "SHUTTING_DOWN", "STOPPED", "FENCED"}
  /\ renewal \in {"renewing", "fencing", "awaiting", "fenced", "stopped"}
  /\ lease \in {"held", "released"}
  /\ routes \subseteq running /\ running \subseteq Actors
  /\ awaited \cup fenceAwaits \cup aborted \subseteq Actors
  /\ transport \in {"accepting", "closing", "stopped"}
  /\ queued \cap inbound = {} /\ queued \cup inbound \subseteq Connections
  /\ main # "wait" => result # "none"
  /\ renewal # "renewing" => stop \/ ~valid

Init ==
  /\ main = "wait" /\ result = "none" /\ drained = "none"
  /\ signalled = FALSE
  /\ status = "RUNNING" /\ valid = TRUE
  /\ renewal = "renewing" /\ lease = "held"
  /\ routes = {} /\ running = {} /\ aborted = {}
  /\ awaited = {} /\ fenceAwaits = {}
  /\ stop = FALSE /\ force = FALSE
  /\ transport = "accepting" /\ queued = {} /\ inbound = {}

-----------------------------------------------------------------------------
(* Actors (ActorRuntime has the details).                                  *)

\* An open is dispatched by an inbound task.
Activate(a) ==
  /\ valid /\ status = "RUNNING" /\ inbound # {} /\ a \notin running
  /\ routes' = routes \cup {a} /\ running' = running \cup {a}
  /\ UNCHANGED <<main, result, drained, signalled, status, valid, renewal, lease, aborted, awaited,
                 fenceAwaits, stop, force, net>>

\* An Actor ends: idle, told to shut down, or aborted, at its next await.
ActorEnds(a) ==
  /\ a \in running
  /\ running' = running \ {a} /\ routes' = routes \ {a} /\ aborted' = aborted \ {a}
  /\ UNCHANGED <<main, result, drained, signalled, status, valid, renewal, lease, awaited,
                 fenceAwaits, stop, force, net>>

-----------------------------------------------------------------------------
(* The renewal task: spawn_lease_renewal.                                  *)

\* A Conflict, or the deadline passed: NodeAuthority::fence.
LoseAuthority ==
  /\ renewal = "renewing"
  /\ valid' = FALSE
  /\ renewal' = "fencing"
  /\ UNCHANGED <<main, result, drained, signalled, status, lease, actors, awaited, fenceAwaits,
                 stop, force, net>>

\* ServerInner::fence aborts every Actor that has a route ...
BeginFence ==
  /\ renewal = "fencing"
  /\ status' = "FENCED"
  /\ aborted' = aborted \cup routes
  /\ fenceAwaits' = routes
  /\ renewal' = "awaiting"
  /\ UNCHANGED <<main, result, drained, signalled, valid, lease, routes, running, awaited, stop,
                 force, net>>

\* Seeded fault: the fence does not wait for the Actors it aborted.
EndFenceAtOnce ==
  /\ renewal = "awaiting"
  /\ routes' = {} /\ inbound' = {}
  /\ renewal' = "fenced"
  /\ UNCHANGED <<main, result, drained, signalled, status, valid, lease, running, aborted, awaited,
                 fenceAwaits, stop, force, transport, queued>>

\* ... waits until they have ended, and aborts the inbound tasks.
EndFence ==
  /\ renewal = "awaiting" /\ fenceAwaits \cap running = {}
  /\ routes' = {} /\ inbound' = {}
  /\ renewal' = "fenced"
  /\ UNCHANGED <<main, result, drained, signalled, status, valid, lease, running, aborted, awaited,
                 fenceAwaits, stop, force, transport, queued>>

RenewalStops ==
  /\ renewal = "renewing" /\ stop
  /\ renewal' = "stopped"
  /\ UNCHANGED <<main, result, drained, signalled, status, valid, lease, actors, awaited,
                 fenceAwaits, stop, force, net>>

-----------------------------------------------------------------------------
(* The transport task and its inbound tasks: spawn_transport.              *)

ConnectionArrives(c) ==
  /\ transport = "accepting" /\ c \notin queued \cup inbound
  /\ queued' = queued \cup {c}
  /\ UNCHANGED <<main, result, drained, signalled, status, valid, renewal, lease, actors, awaited,
                 fenceAwaits, stop, force, transport, inbound>>

Accept(c) ==
  /\ transport # "stopped" /\ c \in queued
  /\ queued' = queued \ {c} /\ inbound' = inbound \cup {c}
  /\ UNCHANGED <<main, result, drained, signalled, status, valid, renewal, lease, actors, awaited,
                 fenceAwaits, stop, force, transport>>

\* The peer closes its connection.
InboundEnds(c) ==
  /\ c \in inbound
  /\ inbound' = inbound \ {c}
  /\ UNCHANGED <<main, result, drained, signalled, status, valid, renewal, lease, actors, awaited,
                 fenceAwaits, stop, force, transport, queued>>

\* The listener is told to stop accepting.
TransportCloses ==
  /\ transport = "accepting" /\ stop
  /\ transport' = "closing"
  /\ UNCHANGED <<main, result, drained, signalled, status, valid, renewal, lease, actors, awaited,
                 fenceAwaits, stop, force, queued, inbound>>

\* The loop is left when forced to, or when the listener is gone: it failed,
\* or it was told to stop and its last connection has ended.
TransportLeaves ==
  /\ transport # "stopped"
  /\ force \/ transport = "accepting" \/ inbound = {}
  /\ transport' = "stopped"
  /\ queued' = {}
  /\ UNCHANGED <<main, result, drained, signalled, status, valid, renewal, lease, actors, awaited,
                 fenceAwaits, stop, force, inbound>>

-----------------------------------------------------------------------------
(* serve().                                                                *)

Signal ==
  /\ ~signalled
  /\ signalled' = TRUE
  /\ UNCHANGED <<main, result, drained, status, valid, renewal, lease, actors, awaited, fenceAwaits,
                 stop, force, net>>

\* wait() is polled before the signal; it looks at `fenced' first.
WaitEnds ==
  /\ main = "wait"
  /\ ~valid \/ transport = "stopped" \/ signalled
  /\ result' = CASE ~valid                          -> "Fenced"
                 [] valid /\ transport = "stopped"  -> "ServiceStopped"
                 [] OTHER                           -> "Ok"
  /\ main' = "shutdown"
  /\ UNCHANGED <<drained, signalled, status, valid, renewal, lease, actors, awaited, fenceAwaits,
                 stop, force, net>>

\* Seeded fault: shutdown does not wait for the Actors.
BeginShutdownAtOnce ==
  /\ main = "shutdown"
  /\ IF status = "RUNNING"
     THEN status' = "SHUTTING_DOWN" /\ main' = "drain" /\ UNCHANGED <<awaited, drained>>
     ELSE main' = "stop" /\ drained' = "Ok" /\ UNCHANGED <<status, awaited>>
  /\ UNCHANGED <<result, signalled, valid, renewal, lease, actors, fenceAwaits, stop, force, net>>

\* ServerInner::shutdown: nothing to do when a fence came first.
BeginShutdown ==
  /\ main = "shutdown"
  /\ IF status = "RUNNING"
     THEN status' = "SHUTTING_DOWN" /\ main' = "drain" /\ awaited' = routes /\ UNCHANGED drained
     ELSE main' = "stop" /\ drained' = "Ok" /\ UNCHANGED <<status, awaited>>
  /\ UNCHANGED <<result, signalled, valid, renewal, lease, actors, fenceAwaits, stop, force, net>>

Drained ==
  /\ main = "drain" /\ awaited \cap running = {}
  /\ drained' = "Ok"
  /\ main' = "terminate"
  /\ UNCHANGED <<result, signalled, status, valid, renewal, lease, actors, awaited, fenceAwaits,
                 stop, force, net>>

\* The Actors left are aborted and their routes dropped; nobody waits for them.
DrainTimesOut ==
  /\ main = "drain" /\ awaited \cap running # {}
  /\ aborted' = aborted \cup (awaited \cap running)
  /\ routes' = {}
  /\ drained' = "ShutdownTimedOut"
  /\ main' = "terminate"
  /\ UNCHANGED <<result, signalled, status, valid, renewal, lease, running, awaited, fenceAwaits,
                 stop, force, net>>

TerminateSessions ==
  /\ main = "terminate"
  /\ inbound' = {}
  /\ status' = "STOPPED"
  /\ main' = "stop"
  /\ UNCHANGED <<result, drained, signalled, valid, renewal, lease, actors, awaited, fenceAwaits,
                 stop, force, transport, queued>>

\* ClusterTasks::shutdown
StopTasks ==
  /\ main = "stop"
  /\ stop' = TRUE
  /\ main' = "join"
  /\ UNCHANGED <<result, drained, signalled, status, valid, renewal, lease, actors, awaited,
                 fenceAwaits, force, net>>

\* Seeded fault: the lease is released however the renewal task ended.
JoinRenewalAndRelease ==
  /\ main = "join" /\ renewal \in {"stopped", "fenced"}
  /\ main' = "release"
  /\ UNCHANGED <<result, drained, signalled, status, valid, renewal, lease, actors, awaited,
                 fenceAwaits, stop, force, net>>

\* RenewalExit::release
JoinRenewal ==
  /\ main = "join" /\ renewal \in {"stopped", "fenced"}
  /\ main' = IF renewal = "stopped" THEN "release" ELSE "force"
  /\ UNCHANGED <<result, drained, signalled, status, valid, renewal, lease, actors, awaited,
                 fenceAwaits, stop, force, net>>

\* release_node; an error is ignored.
Release ==
  /\ main = "release"
  /\ lease' \in {"held", "released"}
  /\ main' = "force"
  /\ UNCHANGED <<result, drained, signalled, status, valid, renewal, actors, awaited, fenceAwaits,
                 stop, force, net>>

\* Seeded fault: the transport task is left to end by itself.
NeverForce ==
  /\ main = "force"
  /\ main' = "leave"
  /\ UNCHANGED <<result, drained, signalled, status, valid, renewal, lease, actors, awaited,
                 fenceAwaits, stop, force, net>>

ForceTransport ==
  /\ main = "force"
  /\ force' = TRUE
  /\ main' = "leave"
  /\ UNCHANGED <<result, drained, signalled, status, valid, renewal, lease, actors, awaited,
                 fenceAwaits, stop, net>>

Return ==
  /\ main = "leave" /\ transport = "stopped"
  /\ main' = "returned"
  /\ UNCHANGED <<result, drained, signalled, status, valid, renewal, lease, actors, awaited,
                 fenceAwaits, stop, force, net>>

-----------------------------------------------------------------------------
Renewal   == LoseAuthority \/ BeginFence \/ EndFence \/ RenewalStops
Transport == TransportCloses \/ TransportLeaves \/ \E c \in Connections : Accept(c)
Serve     == \/ WaitEnds \/ BeginShutdown \/ Drained \/ DrainTimesOut \/ TerminateSessions
             \/ StopTasks \/ JoinRenewal \/ Release \/ ForceTransport \/ Return

Next == \/ Renewal \/ Transport \/ Serve \/ Signal
        \/ \E a \in Actors : Activate(a) \/ ActorEnds(a)
        \/ \E c \in Connections : ConnectionArrives(c) \/ InboundEnds(c)

Spec == Init /\ [][Next]_vars

\* Tasks that can go on do, and an aborted Actor reaches an await.  The
\* listener fails or a lease is lost only by chance; the transport loop
\* picks `force' in the end however many connections come.
LiveSpec ==
  /\ Spec
  /\ WF_vars(Serve) /\ WF_vars(BeginFence) /\ WF_vars(EndFence) /\ WF_vars(RenewalStops)
  /\ SF_vars(force /\ TransportLeaves)
  /\ \A a \in Actors : WF_vars(a \in aborted /\ ActorEnds(a))

-----------------------------------------------------------------------------
\* After a shutdown that did not time out, the Node Lease is released only
\* when every Actor of this Server has ended, so that another Node that
\* takes over finds none running (Server::shutdown, ClusterTasks::shutdown).
GracefulReleaseIsQuiet ==
  lease = "released" /\ drained # "ShutdownTimedOut" => running = {}

\* A Server that has self-fenced never deletes the Node Lease, also when the
\* fence comes in the middle of its shutdown: the lease may be another's
\* (RenewalExit::release).
FencedReleasesNothing == ~valid => lease = "held"

\* When serve() returns, none of its tasks is left behind: no Actor runs
\* unless the drain timed out, renewal and transport have ended, however
\* fence and shutdown overlapped (Server::shutdown, ServerInner::fence).
ReturnedIsQuiet ==
  main = "returned" =>
    /\ drained # "ShutdownTimedOut" => running = {}
    /\ renewal \in {"fenced", "stopped"}
    /\ transport = "stopped"

\* serve() returns once it is signalled or the Server has lost its authority,
\* in whatever order the two come and whatever connections do (serve_with_state).
ServeEnds == (signalled \/ ~valid) ~> main = "returned"

-----------------------------------------------------------------------------
(* What makes the properties above inductive.                              *)

Stopping == {"stop", "join", "release", "force", "leave", "returned"}

\* How the three tasks and their results depend on each other.
StepInv ==
  /\ valid <=> renewal \in {"renewing", "stopped"}
  /\ renewal = "stopped" => stop
  /\ stop => main \in Stopping \ {"stop"}
  /\ main \in {"release", "force", "leave", "returned"} => renewal \in {"stopped", "fenced"}
  /\ main = "release" => renewal = "stopped"
  /\ lease = "released" => renewal = "stopped" /\ main \in {"force", "leave", "returned"}
  /\ main = "returned" => transport = "stopped"
  /\ drained = "none" <=> main \in {"wait", "shutdown", "drain"}
  /\ main \in {"wait", "shutdown"} => status \in {"RUNNING", "FENCED"}
  /\ status = "RUNNING" => main \in {"wait", "shutdown"} /\ renewal \notin {"awaiting", "fenced"}
  /\ status = "FENCED" => renewal \in {"awaiting", "fenced"}

\* While the drain has not timed out, an Actor that runs has a route, and
\* whoever stops the Server waits for it.
WaitInv ==
  drained # "ShutdownTimedOut" =>
    /\ running = routes
    /\ main = "drain" => running \subseteq awaited
    /\ renewal = "awaiting" => running \subseteq fenceAwaits
    /\ renewal = "fenced" => running = {}
    /\ drained = "Ok" => running = {} \/ renewal = "awaiting"

\* A running Actor is waited for by the shutdown or the fence that stops the
\* Server, until it has ended or the drain has timed out: the invariant the
\* safety properties above follow from (ServerInner::shutdown and fence).
LifecycleInv == TypeOK /\ StepInv /\ WaitInv
=============================================================================
