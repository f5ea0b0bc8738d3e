------------------------ MODULE ServerLifecycleProofs ------------------------
(***************************************************************************)
(* The safety of a Server's stop, for any Actors and any connections: each *)
(* step preserves LifecycleInv, from which the properties follow.          *)
(***************************************************************************)
EXTENDS ServerLifecycle, TLAPS

\* A Server starts with nothing running and nobody waiting.
LEMMA InitLifecycle == Init => LifecycleInv
  BY DEF Init, LifecycleInv, TypeOK, StepInv, WaitInv, Mains, Stopping

\* An Actor that starts or ends keeps the invariant.
LEMMA ActorStep ==
  ASSUME LifecycleInv, NEW a \in Actors, Activate(a) \/ ActorEnds(a)
  PROVE  LifecycleInv'
<1> USE DEF LifecycleInv, net, actors
<1>1. CASE Activate(a)
  <2>1. TypeOK' BY <1>1 DEF Activate, TypeOK, StepInv, Mains
  <2>2. StepInv' BY <1>1 DEF Activate, StepInv, TypeOK, Mains, Stopping
  <2>3. WaitInv' BY <1>1 DEF Activate, WaitInv, StepInv, TypeOK
  <2> QED BY <2>1, <2>2, <2>3
<1>2. CASE ActorEnds(a)
  <2>1. TypeOK' BY <1>2 DEF ActorEnds, TypeOK, StepInv, Mains
  <2>2. StepInv' BY <1>2 DEF ActorEnds, StepInv, TypeOK, Mains, Stopping
  <2>3. WaitInv' BY <1>2 DEF ActorEnds, WaitInv, StepInv, TypeOK
  <2> QED BY <2>1, <2>2, <2>3
<1> QED BY <1>1, <1>2

\* A step of the renewal task, a self-fence included, keeps the invariant.
LEMMA RenewalStep ==
  ASSUME LifecycleInv, LoseAuthority \/ BeginFence \/ EndFence \/ RenewalStops
  PROVE  LifecycleInv'
<1> USE DEF LifecycleInv, net, actors
<1>1. CASE LoseAuthority
  <2>1. TypeOK' BY <1>1 DEF LoseAuthority, TypeOK, StepInv, Mains
  <2>2. StepInv' BY <1>1 DEF LoseAuthority, StepInv, TypeOK, Mains, Stopping
  <2>3. WaitInv' BY <1>1 DEF LoseAuthority, WaitInv, StepInv, TypeOK
  <2> QED BY <2>1, <2>2, <2>3
<1>2. CASE BeginFence
  <2>1. TypeOK' BY <1>2 DEF BeginFence, TypeOK, StepInv, Mains
  <2>2. StepInv' BY <1>2 DEF BeginFence, StepInv, TypeOK, Mains, Stopping
  <2>3. WaitInv' BY <1>2 DEF BeginFence, WaitInv, StepInv, TypeOK
  <2> QED BY <2>1, <2>2, <2>3
<1>3. CASE EndFence
  <2>1. TypeOK' BY <1>3 DEF EndFence, TypeOK, StepInv, Mains
  <2>2. StepInv' BY <1>3 DEF EndFence, StepInv, TypeOK, Mains, Stopping
  <2>3. WaitInv' BY <1>3 DEF EndFence, WaitInv, StepInv, TypeOK
  <2> QED BY <2>1, <2>2, <2>3
<1>4. CASE RenewalStops
  <2>1. TypeOK' BY <1>4 DEF RenewalStops, TypeOK, StepInv, Mains
  <2>2. StepInv' BY <1>4 DEF RenewalStops, StepInv, TypeOK, Mains, Stopping
  <2>3. WaitInv' BY <1>4 DEF RenewalStops, WaitInv, StepInv, TypeOK
  <2> QED BY <2>1, <2>2, <2>3
<1> QED BY <1>1, <1>2, <1>3, <1>4

\* A step of the transport task keeps the invariant.
LEMMA TransportStep ==
  ASSUME LifecycleInv, TransportCloses \/ TransportLeaves
  PROVE  LifecycleInv'
<1> USE DEF LifecycleInv, net, actors
<1>1. CASE TransportCloses
  <2>1. TypeOK' BY <1>1 DEF TransportCloses, TypeOK, StepInv, Mains
  <2>2. StepInv' BY <1>1 DEF TransportCloses, StepInv, TypeOK, Mains, Stopping
  <2>3. WaitInv' BY <1>1 DEF TransportCloses, WaitInv, StepInv, TypeOK
  <2> QED BY <2>1, <2>2, <2>3
<1>2. CASE TransportLeaves
  <2>1. TypeOK' BY <1>2 DEF TransportLeaves, TypeOK, StepInv, Mains
  <2>2. StepInv' BY <1>2 DEF TransportLeaves, StepInv, TypeOK, Mains, Stopping
  <2>3. WaitInv' BY <1>2 DEF TransportLeaves, WaitInv, StepInv, TypeOK
  <2> QED BY <2>1, <2>2, <2>3
<1> QED BY <1>1, <1>2

\* A step of a connection keeps the invariant.
LEMMA ConnectionStep ==
  ASSUME LifecycleInv, NEW c \in Connections, Accept(c) \/ ConnectionArrives(c) \/ InboundEnds(c)
  PROVE  LifecycleInv'
<1> USE DEF LifecycleInv, net, actors
<1>1. CASE Accept(c)
  <2>1. TypeOK' BY <1>1 DEF Accept, TypeOK, StepInv, Mains
  <2>2. StepInv' BY <1>1 DEF Accept, StepInv, TypeOK, Mains, Stopping
  <2>3. WaitInv' BY <1>1 DEF Accept, WaitInv, StepInv, TypeOK
  <2> QED BY <2>1, <2>2, <2>3
<1>2. CASE ConnectionArrives(c)
  <2>1. TypeOK' BY <1>2 DEF ConnectionArrives, TypeOK, StepInv, Mains
  <2>2. StepInv' BY <1>2 DEF ConnectionArrives, StepInv, TypeOK, Mains, Stopping
  <2>3. WaitInv' BY <1>2 DEF ConnectionArrives, WaitInv, StepInv, TypeOK
  <2> QED BY <2>1, <2>2, <2>3
<1>3. CASE InboundEnds(c)
  <2>1. TypeOK' BY <1>3 DEF InboundEnds, TypeOK, StepInv, Mains
  <2>2. StepInv' BY <1>3 DEF InboundEnds, StepInv, TypeOK, Mains, Stopping
  <2>3. WaitInv' BY <1>3 DEF InboundEnds, WaitInv, StepInv, TypeOK
  <2> QED BY <2>1, <2>2, <2>3
<1> QED BY <1>1, <1>2, <1>3

\* A step of serve() up to the end of the drain keeps the invariant.
LEMMA DrainStep ==
  ASSUME LifecycleInv, Signal \/ WaitEnds \/ BeginShutdown \/ Drained \/ DrainTimesOut \/ TerminateSessions
  PROVE  LifecycleInv'
<1> USE DEF LifecycleInv, net, actors
<1>1. CASE Signal
  <2>1. TypeOK' BY <1>1 DEF Signal, TypeOK, StepInv, Mains
  <2>2. StepInv' BY <1>1 DEF Signal, StepInv, TypeOK, Mains, Stopping
  <2>3. WaitInv' BY <1>1 DEF Signal, WaitInv, StepInv, TypeOK
  <2> QED BY <2>1, <2>2, <2>3
<1>2. CASE WaitEnds
  <2>1. TypeOK' BY <1>2 DEF WaitEnds, TypeOK, StepInv, Mains
  <2>2. StepInv' BY <1>2 DEF WaitEnds, StepInv, TypeOK, Mains, Stopping
  <2>3. WaitInv' BY <1>2 DEF WaitEnds, WaitInv, StepInv, TypeOK
  <2> QED BY <2>1, <2>2, <2>3
<1>3. CASE BeginShutdown
  <2>1. TypeOK' BY <1>3 DEF BeginShutdown, TypeOK, StepInv, Mains
  <2>2. StepInv' BY <1>3 DEF BeginShutdown, StepInv, TypeOK, Mains, Stopping
  <2>3. WaitInv' BY <1>3 DEF BeginShutdown, WaitInv, StepInv, TypeOK
  <2> QED BY <2>1, <2>2, <2>3
<1>4. CASE Drained
  <2>1. TypeOK' BY <1>4 DEF Drained, TypeOK, StepInv, Mains
  <2>2. StepInv' BY <1>4 DEF Drained, StepInv, TypeOK, Mains, Stopping
  <2>3. WaitInv' BY <1>4 DEF Drained, WaitInv, StepInv, TypeOK
  <2> QED BY <2>1, <2>2, <2>3
<1>5. CASE DrainTimesOut
  <2>1. TypeOK' BY <1>5 DEF DrainTimesOut, TypeOK, StepInv, Mains
  <2>2. StepInv' BY <1>5 DEF DrainTimesOut, StepInv, TypeOK, Mains, Stopping
  <2>3. WaitInv' BY <1>5 DEF DrainTimesOut, WaitInv, StepInv, TypeOK
  <2> QED BY <2>1, <2>2, <2>3
<1>6. CASE TerminateSessions
  <2>1. TypeOK' BY <1>6 DEF TerminateSessions, TypeOK, StepInv, Mains
  <2>2. StepInv' BY <1>6 DEF TerminateSessions, StepInv, TypeOK, Mains, Stopping
  <2>3. WaitInv' BY <1>6 DEF TerminateSessions, WaitInv, StepInv, TypeOK
  <2> QED BY <2>1, <2>2, <2>3
<1> QED BY <1>1, <1>2, <1>3, <1>4, <1>5, <1>6

\* A step that stops the tasks or releases the lease keeps the invariant.
LEMMA StopStep ==
  ASSUME LifecycleInv, StopTasks \/ JoinRenewal \/ Release \/ ForceTransport \/ Return
  PROVE  LifecycleInv'
<1> USE DEF LifecycleInv, net, actors
<1>1. CASE StopTasks
  <2>1. TypeOK' BY <1>1 DEF StopTasks, TypeOK, StepInv, Mains
  <2>2. StepInv' BY <1>1 DEF StopTasks, StepInv, TypeOK, Mains, Stopping
  <2>3. WaitInv' BY <1>1 DEF StopTasks, WaitInv, StepInv, TypeOK
  <2> QED BY <2>1, <2>2, <2>3
<1>2. CASE JoinRenewal
  <2>1. TypeOK' BY <1>2 DEF JoinRenewal, TypeOK, StepInv, Mains
  <2>2. StepInv' BY <1>2 DEF JoinRenewal, StepInv, TypeOK, Mains, Stopping
  <2>3. WaitInv' BY <1>2 DEF JoinRenewal, WaitInv, StepInv, TypeOK
  <2> QED BY <2>1, <2>2, <2>3
<1>3. CASE Release
  <2>1. TypeOK' BY <1>3 DEF Release, TypeOK, StepInv, Mains
  <2>2. StepInv' BY <1>3 DEF Release, StepInv, TypeOK, Mains, Stopping
  <2>3. WaitInv' BY <1>3 DEF Release, WaitInv, StepInv, TypeOK
  <2> QED BY <2>1, <2>2, <2>3
<1>4. CASE ForceTransport
  <2>1. TypeOK' BY <1>4 DEF ForceTransport, TypeOK, StepInv, Mains
  <2>2. StepInv' BY <1>4 DEF ForceTransport, StepInv, TypeOK, Mains, Stopping
  <2>3. WaitInv' BY <1>4 DEF ForceTransport, WaitInv, StepInv, TypeOK
  <2> QED BY <2>1, <2>2, <2>3
<1>5. CASE Return
  <2>1. TypeOK' BY <1>5 DEF Return, TypeOK, StepInv, Mains
  <2>2. StepInv' BY <1>5 DEF Return, StepInv, TypeOK, Mains, Stopping
  <2>3. WaitInv' BY <1>5 DEF Return, WaitInv, StepInv, TypeOK
  <2> QED BY <2>1, <2>2, <2>3
<1> QED BY <1>1, <1>2, <1>3, <1>4, <1>5

\* Every step of the Server keeps the invariant.
LEMMA NextLifecycle == LifecycleInv /\ [Next]_vars => LifecycleInv'
<1> SUFFICES ASSUME LifecycleInv, [Next]_vars PROVE LifecycleInv'
  OBVIOUS
<1>1. CASE UNCHANGED vars
  <2>1. TypeOK' BY <1>1 DEF vars, actors, net, LifecycleInv, TypeOK
  <2>2. StepInv' BY <1>1 DEF vars, actors, net, LifecycleInv, StepInv
  <2>3. WaitInv' BY <1>1 DEF vars, actors, net, LifecycleInv, WaitInv
  <2> QED BY <2>1, <2>2, <2>3 DEF LifecycleInv
<1>2. CASE Renewal
  BY <1>2, RenewalStep DEF Renewal
<1>3. CASE Transport
  BY <1>3, TransportStep, ConnectionStep DEF Transport
<1>4. CASE Serve \/ Signal
  BY <1>4, DrainStep, StopStep DEF Serve
<1>5. CASE \E a \in Actors : Activate(a) \/ ActorEnds(a)
  BY <1>5, ActorStep
<1>6. CASE \E c \in Connections : ConnectionArrives(c) \/ InboundEnds(c)
  BY <1>6, ConnectionStep
<1> QED BY <1>1, <1>2, <1>3, <1>4, <1>5, <1>6 DEF Next

\* LifecycleInv holds throughout the life of a Server.
THEOREM LifecycleInvariance == Spec => []LifecycleInv
  BY InitLifecycle, NextLifecycle, PTL DEF Spec

\* A shutdown that did not time out releases the Node Lease only when every
\* Actor has ended (ClusterTasks::shutdown).
THEOREM GracefulReleaseSafe == Spec => []GracefulReleaseIsQuiet
<1>1. LifecycleInv => GracefulReleaseIsQuiet
  BY DEF LifecycleInv, TypeOK, StepInv, WaitInv, GracefulReleaseIsQuiet
<1> QED BY <1>1, LifecycleInvariance, PTL

\* A self-fenced Server never deletes the Node Lease (RenewalExit::release).
THEOREM FencedReleaseSafe == Spec => []FencedReleasesNothing
<1>1. LifecycleInv => FencedReleasesNothing
  BY DEF LifecycleInv, TypeOK, StepInv, FencedReleasesNothing
<1> QED BY <1>1, LifecycleInvariance, PTL

\* serve() leaves no task behind (Server::shutdown, ServerInner::fence).
THEOREM ReturnSafe == Spec => []ReturnedIsQuiet
<1>1. LifecycleInv => ReturnedIsQuiet
  BY DEF LifecycleInv, TypeOK, StepInv, WaitInv, ReturnedIsQuiet
<1> QED BY <1>1, LifecycleInvariance, PTL
=============================================================================
