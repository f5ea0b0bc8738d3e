------------------------- MODULE ActorRuntimeProofs -------------------------
(***************************************************************************)
(* RuntimeInv is an inductive invariant of ActorRuntime when no dispatch   *)
(* straddles the beginning of a stop, whatever the number of addresses,    *)
(* Sessions and generations.  The actions fall into three kinds: those of  *)
(* an inbound task, which leave routes and tasks alone (CallerStep), those *)
(* of an Actor's task, which change that task and its route (TaskStep),    *)
(* and the few that are dealt with one by one.                             *)
(***************************************************************************)
EXTENDS ActorRuntime, FiniteSetTheorems, TLAPS

\* Where a task stands once it has seen the shutdown signal.
DrainPcs == {"draining", "drain_busy", "drained"}

\* A step of an inbound task: it may post a message, never to a route that
\* deactivates, and begins to dispatch only while the node is RUNNING.
CallerStep ==
  /\ UNCHANGED <<status, routeVars, pc, current, markVars, stopVars>>
  /\ TypeOK'
  /\ \A s \in SessionIds : Dispatching(s)' => Dispatching(s) \/ status = "RUNNING"
  /\ \A g \in Gens : pc[g] = "deactivating" => mailbox'[g] = mailbox[g]

\* A step of the task of generation g, which concerns g and its own route.
TaskStep(g) ==
  /\ UNCHANGED <<status, spawned, addr, callVars, stopVars>>
  /\ TypeOK'
  /\ \A h \in Gens \ {g} : pc'[h] = pc[h] /\ mailbox'[h] = mailbox[h] /\ current'[h] = current[h]
  /\ pc[g] # "none" /\ pc'[g] # "none"
  /\ Runs(g)' => Runs(g)
  /\ signalled' \subseteq signalled /\ aborted' \subseteq aborted
  /\ pc'[g] \in DrainPcs => pc[g] \in DrainPcs \/ g \in signalled
  /\ pc'[g] \in {"busy", "drain_busy"} <=> current'[g] # <<>>
  /\ Len(current'[g]) <= 1
  /\ \/ /\ UNCHANGED route
        /\ pc[g] # "deactivating" /\ pc'[g] \notin {"failed", "done", "deactivating"}
     \/ RemoveRoute(g) /\ pc'[g] \in {"failed", "done"}
     \/ /\ IsRoute(g) /\ route' = [route EXCEPT ![addr[g]].deactivating = TRUE]
        /\ pc'[g] = "deactivating" /\ mailbox'[g] = <<>> /\ current'[g] = <<>>

\* A Server that has just started satisfies the invariant.
LEMMA InitRuntime == Init => RuntimeInv
<1> SUFFICES ASSUME Init PROVE RuntimeInv
  OBVIOUS
<1>0. \A a \in Addresses : route[a] = NoRoute
  BY Zenon DEF Init
<1>1. TypeOK
  BY RuntimeAssumption DEF Init, TypeOK, Gens, NoRoute, Routes, Pcs, Callers
<1>2. StatusInv /\ QueueInv /\ AwaitedInv /\ OneActorPerAddress /\ PassivationLosesNothing
  BY DEF Init, StatusInv, QueueInv, AwaitedInv, OneActorPerAddress, PassivationLosesNothing,
         Runs, Dispatching
<1>3. RouteInv
  BY <1>0, RuntimeAssumption DEF Init, RouteInv, Runs, Gens
<1> QED
  BY <1>1, <1>2, <1>3, Zenon DEF RuntimeInv

\* The steps of inbound tasks keep the invariant.
LEMMA CallerKeepsRuntime ==
  ASSUME RuntimeInv, CallerStep
  PROVE  RuntimeInv'
<1>0. /\ status' = status /\ route' = route /\ spawned' = spawned /\ addr' = addr
      /\ pc' = pc /\ current' = current /\ signalled' = signalled /\ aborted' = aborted
      /\ killed' = killed /\ shutdown' = shutdown /\ fence' = fence /\ awaited' = awaited
  BY Zenon DEF CallerStep, routeVars, markVars, stopVars
<1>1. StatusInv'
  BY <1>0, Zenon DEF RuntimeInv, CallerStep, StatusInv
<1>2. RouteInv'
  BY <1>0, Zenon DEF RuntimeInv, RouteInv, RouteLeads, Runs, IsRoute, Cleared
<1>3. OneActorPerAddress' /\ QueueInv' /\ AwaitedInv'
  BY <1>0, Zenon DEF RuntimeInv, OneActorPerAddress, QueueInv, AwaitedInv, Runs, Cleared
<1>4. PassivationLosesNothing'
  BY <1>0, Zenon DEF RuntimeInv, CallerStep, PassivationLosesNothing
<1> QED
  BY <1>1, <1>2, <1>3, <1>4, Zenon DEF RuntimeInv, CallerStep

\* The steps of Actor tasks keep the invariant.
LEMMA TaskKeepsRuntime ==
  ASSUME RuntimeInv, NEW g \in Gens, TaskStep(g)
  PROVE  RuntimeInv'
<1>0. /\ status' = status /\ spawned' = spawned /\ addr' = addr /\ caller' = caller
      /\ killed' = killed /\ shutdown' = shutdown /\ fence' = fence /\ awaited' = awaited
      /\ \A h \in Gens \ {g} : pc'[h] = pc[h]
  BY Zenon DEF TaskStep, callVars, stopVars
<1>1. StatusInv'
  BY <1>0, Zenon DEF RuntimeInv, TaskStep, StatusInv, Dispatching, DrainPcs
<1>2. \A h \in Gens : Runs(h)' => Runs(h)
  BY Zenon DEF TaskStep, Runs
<1>3. OneActorPerAddress' /\ AwaitedInv'
  BY <1>0, <1>2, Zenon DEF RuntimeInv, OneActorPerAddress, AwaitedInv, Cleared
<1>4. QueueInv'
  BY Zenon DEF RuntimeInv, QueueInv, TaskStep
<1>5. PassivationLosesNothing'
  BY Zenon DEF RuntimeInv, PassivationLosesNothing, TaskStep
<1>6. RouteInv'
  <2>0. \A a \in Addresses : route[a] # NoRoute => RouteLeads(a)
    BY Zenon DEF RuntimeInv, RouteInv
  <2>1. \A h \in Gens : Runs(h) => IsRoute(h) \/ Cleared
    BY Zenon DEF RuntimeInv, RouteInv
  <2>2. \A h \in Gens : pc'[h] = "none" <=> h > spawned'
    BY <1>0, Zenon DEF RuntimeInv, RouteInv, TaskStep
  <2>t. /\ route \in [Addresses -> Routes] /\ addr \in [Gens -> Addresses]
        /\ 1..spawned \subseteq Gens
    BY RuntimeAssumption DEF RuntimeInv, TypeOK, Gens
  <2>3. CASE UNCHANGED route /\ pc[g] # "deactivating"
             /\ pc'[g] \notin {"failed", "done", "deactivating"}
    <3>1. ASSUME NEW a \in Addresses, route'[a] # NoRoute PROVE RouteLeads(a)'
      BY <1>0, <2>0, <2>t, <2>3, <3>1 DEF RouteLeads
    <3>2. \A h \in Gens : Runs(h)' => IsRoute(h)' \/ Cleared'
      BY <1>0, <1>2, <2>1, <2>3, Zenon DEF IsRoute, Cleared
    <3> QED
      BY <2>2, <3>1, <3>2, Zenon DEF RouteInv
  <2>4. CASE RemoveRoute(g) /\ pc'[g] \in {"failed", "done"}
    <3>1. ASSUME NEW a \in Addresses, route'[a] # NoRoute
          PROVE  route'[a] = route[a] /\ route[a].gen # g
      BY <2>0, <2>t, <2>4, <3>1, Zenon DEF RemoveRoute, IsRoute, RouteLeads
    <3>2. ASSUME NEW a \in Addresses, route'[a] # NoRoute PROVE RouteLeads(a)'
      BY <1>0, <2>0, <2>t, <3>1, <3>2 DEF RouteLeads
    <3>3. ASSUME NEW h \in Gens, Runs(h)' PROVE IsRoute(h)' \/ Cleared'
      <4>1. h # g
        BY <2>4, <3>3, Zenon DEF Runs
      <4>2. IsRoute(h) => route'[addr[h]] = route[addr[h]]
        BY <2>t, <2>4, <4>1, Zenon DEF RemoveRoute, IsRoute
      <4> QED
        BY <1>0, <1>2, <2>1, <3>3, <4>2, Zenon DEF IsRoute, Cleared
    <3> QED
      BY <2>2, <3>2, <3>3, Zenon DEF RouteInv
  <2>5. CASE /\ IsRoute(g) /\ route' = [route EXCEPT ![addr[g]].deactivating = TRUE]
             /\ pc'[g] = "deactivating"
    <3>1. addr[g] \in Addresses /\ route[addr[g]] # NoRoute
      BY <2>t, <2>5 DEF IsRoute, NoRoute, Gens
    <3>2. \A a \in Addresses \ {addr[g]} : route'[a] = route[a]
      BY <2>t, <2>5, Zenon
    <3>3. route'[addr[g]].gen = g /\ route'[addr[g]].deactivating
      BY <2>t, <2>5, <3>1, Zenon DEF Routes, IsRoute
    <3>4. ASSUME NEW a \in Addresses, a # addr[g], route'[a] # NoRoute PROVE RouteLeads(a)'
      BY <1>0, <2>0, <2>t, <3>2, <3>4 DEF RouteLeads
    <3>5. RouteLeads(addr[g])'
      BY <1>0, <2>0, <2>5, <3>1, <3>3 DEF RouteLeads, IsRoute
    <3>6. ASSUME NEW h \in Gens, Runs(h)' PROVE IsRoute(h)' \/ Cleared'
      BY <1>0, <1>2, <2>1, <2>t, <2>5, <3>2, <3>3, <3>6 DEF IsRoute, Cleared
    <3> QED
      BY <1>0, <2>2, <3>4, <3>5, <3>6, Zenon DEF RouteInv
  <2> QED
    BY <2>3, <2>4, <2>5, Zenon DEF TaskStep
<1> QED
  BY <1>1, <1>3, <1>4, <1>5, <1>6, Zenon DEF RuntimeInv, TaskStep

\* An inbound task that posts nothing.
LEMMA CallerOnly ==
  ASSUME TypeOK,
         UNCHANGED <<status, routeVars, pc, queueVars, markVars, opened, answer, stopVars>>,
         registry' \in SUBSET SessionIds, reserved' \in SUBSET SessionIds,
         NEW s \in SessionIds, NEW l \in Callers, CallerGoto(s, l),
         l \in {"opening", "acting"} => status = "RUNNING"
  PROVE  CallerStep
<1>1. TypeOK'
  BY Zenon DEF TypeOK, CallerGoto, routeVars, queueVars, markVars, stopVars
<1>2. \A t \in SessionIds : Dispatching(t)' => Dispatching(t) \/ status = "RUNNING"
  BY Zenon DEF TypeOK, CallerGoto, Dispatching
<1> QED
  BY <1>1, <1>2, Zenon DEF CallerStep, queueVars

\* The types after a message was appended to the mailbox of one task.
LEMMA Posted ==
  ASSUME RuntimeInv, NEW a \in Addresses, NEW m \in Messages,
         route[a] # NoRoute, ~route[a].deactivating,
         Len(mailbox[route[a].gen]) < MailboxCapacity,
         mailbox' = [mailbox EXCEPT ![route[a].gen] = Append(@, m)]
  PROVE  /\ mailbox' \in [Gens -> Seq(Messages)]
         /\ \A g \in Gens : Len(mailbox'[g]) <= MailboxCapacity
         /\ \A g \in Gens : pc[g] = "deactivating" => mailbox'[g] = mailbox[g]
<1>1. RouteLeads(a)
  BY Zenon DEF RuntimeInv, RouteInv
<1>2. route[a].gen \in Gens /\ pc[route[a].gen] # "deactivating"
  BY <1>1, RuntimeAssumption DEF RouteLeads, RuntimeInv, TypeOK, Gens
<1>3. mailbox[route[a].gen] \in Seq(Messages) /\ MailboxCapacity \in Nat
  BY <1>2, RuntimeAssumption, Zenon DEF RuntimeInv, TypeOK
<1>4. /\ Append(mailbox[route[a].gen], m) \in Seq(Messages)
      /\ Len(Append(mailbox[route[a].gen], m)) <= MailboxCapacity
  BY <1>3
<1> QED
  BY <1>2, <1>4, Zenon DEF RuntimeInv, TypeOK

\* An inbound task that posts to an Active route.
LEMMA PostedStep ==
  ASSUME RuntimeInv,
         UNCHANGED <<status, routeVars, pc, current, markVars, opened, registry, answer, stopVars>>,
         reserved' \in SUBSET SessionIds,
         NEW s \in SessionIds, NEW l \in Callers \ {"opening", "acting"}, CallerGoto(s, l),
         mailbox' \in [Gens -> Seq(Messages)],
         \A g \in Gens : Len(mailbox'[g]) <= MailboxCapacity,
         \A g \in Gens : pc[g] = "deactivating" => mailbox'[g] = mailbox[g]
  PROVE  CallerStep
<1>1. TypeOK'
  BY Zenon DEF RuntimeInv, TypeOK, CallerGoto, routeVars, markVars, stopVars
<1>2. \A t \in SessionIds : Dispatching(t)' => Dispatching(t)
  BY Zenon DEF RuntimeInv, TypeOK, CallerGoto, Dispatching
<1> QED
  BY <1>1, <1>2, Zenon DEF CallerStep

\* All actions of inbound tasks but the two that change routes are CallerSteps.
LEMMA CallerActions ==
  ASSUME RuntimeInv, NEW s \in SessionIds
  PROVE  \/ Resolve(s) \/ Register(s) \/ RegisterRefused(s) \/ BeginAction(s)
         \/ DispatchDelivered(s) \/ DispatchRefused(s) \/ OpenAnswered(s)
         \/ CloseSession(s) \/ NotifyClosed(s) \/ InboundDropped(s)
         => CallerStep
<1>t. TypeOK /\ registry \in SUBSET SessionIds /\ reserved \in SUBSET SessionIds
      /\ AddressOf[s] \in Addresses
  BY RuntimeAssumption, Zenon DEF RuntimeInv, TypeOK
<1> USE <1>t
<1>1. ASSUME Resolve(s) PROVE CallerStep
  BY <1>1, CallerOnly, Zenon DEF Resolve, Callers, callVars
<1>2. ASSUME Register(s) PROVE CallerStep
  BY <1>2, CallerOnly, Zenon DEF Register, Callers
<1>3. ASSUME RegisterRefused(s) PROVE CallerStep
  BY <1>3, CallerOnly, Zenon DEF RegisterRefused, Callers
<1>4. ASSUME BeginAction(s) PROVE CallerStep
  BY <1>4, CallerOnly, Zenon DEF BeginAction, Callers
<1>5. ASSUME DispatchDelivered(s) PROVE CallerStep
  <2>1. Request(s) \in Messages
    BY Zenon DEF Request, Message, Messages
  <2>2. /\ mailbox' \in [Gens -> Seq(Messages)]
        /\ \A g \in Gens : Len(mailbox'[g]) <= MailboxCapacity
        /\ \A g \in Gens : pc[g] = "deactivating" => mailbox'[g] = mailbox[g]
    BY <1>5, <2>1, Posted, Zenon DEF DispatchDelivered
  <2> QED
    BY <1>5, <2>2, PostedStep, Zenon DEF DispatchDelivered, Accepted, Callers
<1>6. ASSUME DispatchRefused(s) PROVE CallerStep
  BY <1>6, CallerOnly, Zenon DEF DispatchRefused, Callers
<1>7. ASSUME OpenAnswered(s) PROVE CallerStep
  BY <1>7, CallerOnly, Zenon DEF OpenAnswered, Callers
<1>8. ASSUME CloseSession(s) PROVE CallerStep
  BY <1>8, CallerOnly, Zenon DEF CloseSession, Callers
<1>9. ASSUME NotifyClosed(s) PROVE CallerStep
  <2>1. Message("SessionClosed", s) \in Messages
    BY Zenon DEF Message, Messages
  <2>2. /\ mailbox' \in [Gens -> Seq(Messages)]
        /\ \A g \in Gens : Len(mailbox'[g]) <= MailboxCapacity
        /\ \A g \in Gens : pc[g] = "deactivating" => mailbox'[g] = mailbox[g]
    <3>1. CASE mailbox' = mailbox
      BY <3>1, Zenon DEF TypeOK
    <3>2. CASE mailbox' # mailbox
      BY <1>9, <2>1, <3>2, Posted, Zenon DEF NotifyClosed
    <3> QED
      BY <3>1, <3>2, Zenon
  <2> QED
    BY <1>9, <2>2, PostedStep, Zenon DEF NotifyClosed, Callers
<1>10. ASSUME InboundDropped(s) PROVE CallerStep
  BY <1>10, CallerOnly, Zenon DEF InboundDropped, Callers
<1> QED
  BY <1>1, <1>2, <1>3, <1>4, <1>5, <1>6, <1>7, <1>8, <1>9, <1>10, Zenon

(* A task keeps its route, changes place, and moves messages from its       *)
(* mailbox to its hands or out of them.                                     *)
\* A task that goes on, possibly with another message in hand.
LEMMA TaskMoves ==
  ASSUME RuntimeInv, NEW g \in Gens, NEW l \in Pcs, pc[g] # "none", Goto(g, l),
         UNCHANGED <<routeVars, markVars, status, callVars, stopVars>>,
         pc[g] # "deactivating", l \notin {"none", "failed", "done", "deactivating"},
         l \in {"loop", "busy", "idle", "activating"} \cup DrainPcs => Runs(g),
         l \in DrainPcs => pc[g] \in DrainPcs \/ g \in signalled,
         registry' \in SUBSET SessionIds, opened' \in [Gens -> SUBSET SessionIds],
         answer' \in [SessionIds -> {"none", "ok", "error"}],
         NEW q \in Seq(Messages), NEW c \in Seq(Messages),
         mailbox' = [mailbox EXCEPT ![g] = q], current' = [current EXCEPT ![g] = c],
         Len(q) <= MailboxCapacity, Len(c) <= 1,
         l \in {"busy", "drain_busy"} <=> c # <<>>
  PROVE  TaskStep(g)
<1>t. TypeOK
  BY Zenon DEF RuntimeInv
<1>1. TypeOK'
  BY <1>t, Zenon DEF TypeOK, Goto, routeVars, markVars, callVars, stopVars
<1>2. pc'[g] = l /\ mailbox'[g] = q /\ current'[g] = c
  BY <1>t, Zenon DEF TypeOK, Goto
<1>3. \A h \in Gens \ {g} : pc'[h] = pc[h] /\ mailbox'[h] = mailbox[h] /\ current'[h] = current[h]
  BY <1>t, Zenon DEF TypeOK, Goto
<1>4. Runs(g)' => Runs(g)
  BY <1>2, Zenon DEF Runs, DrainPcs
<1> QED
  BY <1>1, <1>2, <1>3, <1>4, Zenon DEF TaskStep, routeVars, markVars

\* A task that ends: ActorTaskGuard removes its route and no other.
LEMMA TaskEnds ==
  ASSUME RuntimeInv, NEW g \in Gens, pc[g] # "none", EndTask(g),
         UNCHANGED <<status, callVars, stopVars>>, registry' \in SUBSET SessionIds
  PROVE  TaskStep(g)
<1>t. TypeOK
  BY Zenon DEF RuntimeInv
<1>1. pc'[g] = "done" /\ mailbox'[g] = <<>> /\ current'[g] = <<>>
  BY <1>t, Zenon DEF TypeOK, EndTask, Goto
<1>2. \A h \in Gens \ {g} : pc'[h] = pc[h] /\ mailbox'[h] = mailbox[h] /\ current'[h] = current[h]
  BY <1>t, Zenon DEF TypeOK, EndTask, Goto
<1>3. route' \in [Addresses -> Routes]
  BY <1>t, RuntimeAssumption DEF TypeOK, EndTask, RemoveRoute, NoRoute, Routes
<1>4. answer' \in [SessionIds -> {"none", "ok", "error"}]
  BY <1>t, Zenon DEF TypeOK, EndTask, Complete
<1>5. TypeOK'
  BY <1>t, <1>3, <1>4, RuntimeAssumption DEF TypeOK, EndTask, Goto, Pcs, callVars, stopVars
<1> QED
  BY <1>1, <1>2, <1>5 DEF TaskStep, EndTask, Runs, DrainPcs

\* Every action of spawn_actor is a TaskStep.
LEMMA TaskActions ==
  ASSUME RuntimeInv, NEW g \in Gens, Task(g)
  PROVE  TaskStep(g)
<1>a. /\ mailbox \in [Gens -> Seq(Messages)] /\ Len(mailbox[g]) <= MailboxCapacity
      /\ current \in [Gens -> Seq(Messages)]
      /\ registry \in SUBSET SessionIds /\ opened \in [Gens -> SUBSET SessionIds]
      /\ answer \in [SessionIds -> {"none", "ok", "error"}]
  BY Zenon DEF RuntimeInv, TypeOK
<1>b. (pc[g] \in {"busy", "drain_busy"} <=> current[g] # <<>>) /\ Len(current[g]) <= 1
  BY Zenon DEF RuntimeInv, QueueInv
<1>d. mailbox = [mailbox EXCEPT ![g] = mailbox[g]]
  BY <1>a, Zenon
<1>f. current = [current EXCEPT ![g] = current[g]]
  BY <1>a, Zenon
<1>e. <<>> \in Seq(Messages) /\ Len(<<>>) = 0
  OBVIOUS
<1>t. /\ mailbox[g] \in Seq(Messages) /\ Len(mailbox[g]) <= MailboxCapacity
      /\ mailbox = [mailbox EXCEPT ![g] = mailbox[g]]
      /\ current[g] \in Seq(Messages) /\ Len(current[g]) <= 1
      /\ current = [current EXCEPT ![g] = current[g]]
      /\ pc[g] \in {"busy", "drain_busy"} <=> current[g] # <<>>
      /\ registry \in SUBSET SessionIds /\ opened \in [Gens -> SUBSET SessionIds]
      /\ answer \in [SessionIds -> {"none", "ok", "error"}]
      /\ <<>> \in Seq(Messages) /\ Len(<<>>) <= 1
  BY <1>a, <1>b, <1>d, <1>e, <1>f
<1>c. \A msgs : Complete(msgs, "ok") \/ Complete(msgs, "error")
        => answer' \in [SessionIds -> {"none", "ok", "error"}]
  BY <1>t, Zenon DEF Complete
<1>m. mailbox[g] # <<>> => /\ <<Head(mailbox[g])>> \in Seq(Messages)
                           /\ Len(<<Head(mailbox[g])>>) <= 1 /\ <<Head(mailbox[g])>> # <<>>
                           /\ Tail(mailbox[g]) \in Seq(Messages)
                           /\ Len(Tail(mailbox[g])) <= MailboxCapacity
  BY <1>t, RuntimeAssumption
<1>1. ASSUME Activated(g) PROVE TaskStep(g)
  BY <1>1, <1>t, TaskMoves, Zenon DEF Activated, Pcs, Runs, queueVars, otherVars, DrainPcs
<1>2. ASSUME ActivationFails(g) PROVE TaskStep(g)
  BY <1>2, <1>t, TaskMoves, Zenon DEF ActivationFails, Pcs, Runs, queueVars, otherVars, DrainPcs
<1>3. ASSUME FailedUnroutes(g) PROVE TaskStep(g)
  <2>1. pc'[g] = "failed" /\ mailbox'[g] = <<>> /\ current'[g] = current[g]
    BY <1>3, Zenon DEF FailedUnroutes, RuntimeInv, TypeOK, Goto
  <2>2. \A h \in Gens \ {g} : pc'[h] = pc[h] /\ mailbox'[h] = mailbox[h] /\ current'[h] = current[h]
    BY <1>3, Zenon DEF FailedUnroutes, RuntimeInv, TypeOK, Goto
  <2>3. route' \in [Addresses -> Routes]
    BY <1>3, RuntimeAssumption
    DEF FailedUnroutes, RuntimeInv, TypeOK, RemoveRoute, NoRoute, Routes
  <2>4. TypeOK'
    BY <1>3, <1>c, <1>t, <2>3, RuntimeAssumption
    DEF FailedUnroutes, RuntimeInv, TypeOK, Goto, Pcs, otherVars, markVars, callVars, stopVars
  <2> QED
    BY <1>3, <1>t, <2>1, <2>2, <2>4
   , Zenon DEF FailedUnroutes, TaskStep, Runs, DrainPcs, otherVars, markVars
<1>4. ASSUME FailedEnds(g) PROVE TaskStep(g)
  BY <1>4, <1>t, TaskEnds, Zenon DEF FailedEnds, TerminateAll
<1>5. ASSUME Receive(g) PROVE TaskStep(g)
  BY <1>5, <1>t, <1>m, TaskMoves, Zenon DEF Receive, Pcs, Runs, otherVars, DrainPcs
<1>6. ASSUME Handled(g) PROVE TaskStep(g)
  <2>1. opened' \in [Gens -> SUBSET SessionIds]
    <3>1. Head(current[g]) \in Messages
      BY <1>6, <1>t DEF Handled
    <3>2. Head(current[g]).session \in SessionIds
      BY <3>1, Zenon DEF Messages
    <3> QED
      BY <1>6, <1>t, <3>2, Zenon DEF Handled
  <2>2. CASE pc[g] = "busy"
    BY <1>6, <1>c, <1>t, <2>1, <2>2, TaskMoves, Zenon DEF Handled, Pcs, Runs, otherVars, DrainPcs
  <2>3. CASE pc[g] = "drain_busy"
    BY <1>6, <1>c, <1>t, <2>1, <2>3, TaskMoves, Zenon DEF Handled, Pcs, Runs, otherVars, DrainPcs
  <2> QED
    BY <1>6, <2>2, <2>3, Zenon DEF Handled
<1>7. ASSUME Panics(g) PROVE TaskStep(g)
  BY <1>7, <1>c, <1>t, TaskMoves, Zenon DEF Panics, Pcs, Runs, otherVars, DrainPcs
<1>8. ASSUME PanicTerminates(g) PROVE TaskStep(g)
  BY <1>8, <1>t, TaskMoves, Zenon DEF PanicTerminates, TerminateAll, Pcs, Runs, queueVars, DrainPcs
<1>9. ASSUME PanicEnds(g) \/ Passivated(g) \/ DrainEnds(g) \/ Cancelled(g) PROVE TaskStep(g)
  BY <1>9, <1>t, TaskEnds, Zenon DEF PanicEnds, Passivated, DrainEnds, Cancelled, otherVars
<1>10. ASSUME IdleCheck(g) PROVE TaskStep(g)
  BY <1>10, <1>t, TaskMoves, Zenon DEF IdleCheck, Pcs, Runs, queueVars, otherVars, DrainPcs
<1>11. ASSUME BeginDeactivation(g) PROVE TaskStep(g)
  <2>1. CASE IsRoute(g) /\ mailbox[g] = <<>>
    <3>1. pc'[g] = "deactivating" /\ \A h \in Gens \ {g} : pc'[h] = pc[h]
      BY <1>11, <2>1, Zenon DEF BeginDeactivation, RuntimeInv, TypeOK, Goto
    <3>2. route' = [route EXCEPT ![addr[g]].deactivating = TRUE] /\ route' \in [Addresses -> Routes]
      <4>1. route \in [Addresses -> Routes] /\ route[addr[g]] \in Routes
        BY Zenon DEF RuntimeInv, TypeOK
      <4>2. [route[addr[g]] EXCEPT !.deactivating = TRUE] \in Routes
        BY <4>1, Zenon DEF Routes
      <4> QED
        BY <1>11, <2>1, <4>1, <4>2, Zenon DEF BeginDeactivation
    <3>3. TypeOK'
      BY <1>11, <2>1, <3>2
     , Zenon DEF BeginDeactivation, RuntimeInv, TypeOK, Goto, Pcs, queueVars, otherVars, markVars,
          callVars, stopVars
    <3> QED
      BY <1>11, <1>t, <2>1, <3>1, <3>2, <3>3
     , Zenon DEF BeginDeactivation, TaskStep, Runs, DrainPcs, queueVars, otherVars, markVars
  <2>2. CASE ~(IsRoute(g) /\ mailbox[g] = <<>>)
    BY <1>11, <1>t, <2>2, TaskMoves
   , Zenon DEF BeginDeactivation, Pcs, Runs, routeVars, queueVars, otherVars, DrainPcs
  <2> QED
    BY <2>1, <2>2, Zenon
<1>12. ASSUME BeginDrain(g) PROVE TaskStep(g)
  BY <1>12, <1>t, TaskMoves, Zenon DEF BeginDrain, Pcs, Runs, queueVars, otherVars, DrainPcs
<1>13. ASSUME DrainReceive(g) PROVE TaskStep(g)
  BY <1>13, <1>t, <1>m, TaskMoves, Zenon DEF DrainReceive, Pcs, Runs, otherVars, DrainPcs
<1>14. ASSUME DrainPanics(g) PROVE TaskStep(g)
  BY <1>14, <1>t, TaskEnds, Zenon DEF DrainPanics, TerminateAll
<1>15. ASSUME DrainTerminates(g) PROVE TaskStep(g)
  BY <1>15, <1>t, TaskMoves, Zenon DEF DrainTerminates, TerminateAll, Pcs, Runs, queueVars, DrainPcs
<1> QED
  BY <1>1, <1>2, <1>3, <1>4, <1>5, <1>6, <1>7, <1>8, <1>9, <1>10, <1>11, <1>12, <1>13, <1>14,
     <1>15, Zenon DEF Task, Activation, Work, Passivation, Drain

\* shutdown and fence may remove routes, of tasks that no longer run.
LEMMA StopKeepsRuntime ==
  ASSUME RuntimeInv, UNCHANGED <<spawned, addr, pc, queueVars>>, TypeOK', StatusInv', AwaitedInv',
         \A a \in Addresses : route'[a] # NoRoute => route'[a] = route[a],
         \A g \in Gens : Runs(g) => IsRoute(g)' \/ Cleared'
  PROVE  RuntimeInv'
<1>1. RouteInv'
  BY DEF RuntimeInv, RouteInv, RouteLeads, Runs
<1>2. QueueInv' /\ OneActorPerAddress' /\ PassivationLosesNothing'
  BY Zenon DEF RuntimeInv, QueueInv, OneActorPerAddress, PassivationLosesNothing, Runs, queueVars
<1> QED
  BY <1>1, <1>2, Zenon DEF RuntimeInv

\* The route that dispatch_message removes leads to a task that no longer runs.
LEMMA ClosedRouteReplacedStep ==
  ASSUME RuntimeInv, NEW s \in SessionIds, ClosedRouteReplaced(s)
  PROVE  RuntimeInv'
<1> DEFINE a == AddressOf[s]
<1>t. TypeOK /\ StatusInv /\ RouteInv /\ AwaitedInv /\ a \in Addresses
  BY RuntimeAssumption, Zenon DEF RuntimeInv
<1>1. route[a] # NoRoute /\ RouteLeads(a) /\ status = "RUNNING" /\ shutdown = "no"
  BY <1>t, Zenon DEF ClosedRouteReplaced, RouteInv, StatusInv
<1>2. ~Runs(route[a].gen)
  <2>1. route[a].gen \in Gens
    BY <1>1, <1>t, RuntimeAssumption DEF RouteLeads, TypeOK, Gens
  <2> QED
    BY <1>1, <1>t, <2>1, Zenon DEF ClosedRouteReplaced, RouteLeads, StatusInv, Closed, Runs
<1>3. \A b \in Addresses : route'[b] = IF b = a THEN NoRoute ELSE route[b]
  BY <1>t, Zenon DEF ClosedRouteReplaced, TypeOK
<1>4. \A g \in Gens : Runs(g) => IsRoute(g)'
  BY <1>t, <1>1, <1>2, <1>3 DEF RouteInv, IsRoute, Cleared, ClosedRouteReplaced, TypeOK
<1>5. TypeOK'
  <2>1. route' \in [Addresses -> Routes]
    BY <1>t, RuntimeAssumption DEF ClosedRouteReplaced, TypeOK, NoRoute, Routes
  <2> QED
    BY <1>t, <2>1, Zenon DEF ClosedRouteReplaced, TypeOK, queueVars, markVars, callVars, stopVars
<1>6. StatusInv' /\ AwaitedInv'
  BY <1>t, Zenon DEF ClosedRouteReplaced, StatusInv, AwaitedInv, Dispatching, Runs, Cleared, markVars,
              callVars, stopVars
<1> QED
  BY <1>3, <1>4, <1>5, <1>6, StopKeepsRuntime, Zenon DEF ClosedRouteReplaced

\* What the actors lock shows to a stop: every task that runs has a route.
LEMMA TasksOfRoutes ==
  ASSUME RuntimeInv
  PROVE  /\ RoutedTasks \subseteq Gens
         /\ \A g \in Gens : Runs(g) /\ ~Cleared => g \in RoutedTasks
<1>1. RoutedTasks \subseteq Gens
  BY RuntimeAssumption DEF RuntimeInv, RouteInv, RouteLeads, RoutedTasks, Routed, TypeOK, Gens
<1>2. ASSUME NEW g \in Gens, Runs(g), ~Cleared PROVE g \in RoutedTasks
  <2>1. IsRoute(g) /\ addr[g] \in Addresses
    BY <1>2, Zenon DEF RuntimeInv, RouteInv, TypeOK
  <2>2. route[addr[g]] # NoRoute
    BY <2>1 DEF IsRoute, NoRoute, Gens
  <2> QED
    BY <2>1, <2>2, Zenon DEF RoutedTasks, Routed, IsRoute
<1> QED
  BY <1>1, <1>2, Zenon

\* Every step of shutdown and fence keeps the invariant.
LEMMA StopActions ==
  ASSUME RuntimeInv, Env = {}
  PROVE  \/ BeginShutdown \/ ShutdownDrained \/ ShutdownTimesOut \/ ShutdownClears
         \/ EndShutdown \/ BeginFence \/ EndFence
         => RuntimeInv'
<1>t. TypeOK /\ StatusInv /\ RouteInv /\ AwaitedInv
  BY Zenon DEF RuntimeInv
<1>r. \A g \in Gens : Runs(g) => IsRoute(g) \/ Cleared
  BY <1>t, Zenon DEF RouteInv
<1>n. NoneStraddles => \A s \in SessionIds : ~Dispatching(s)
  BY Zenon DEF NoneStraddles
<1>1. ASSUME BeginShutdown PROVE RuntimeInv'
  <2>1. TypeOK'
    BY <1>1, <1>t, TasksOfRoutes
    DEF BeginShutdown, TypeOK, routeVars, queueVars, callVars
  <2>2. StatusInv'
    BY <1>1, <1>t, <1>n, Zenon DEF BeginShutdown, StatusInv, Dispatching, callVars
  <2>3. AwaitedInv'
    BY <1>1, <1>t, TasksOfRoutes
   , Zenon DEF BeginShutdown, TypeOK, StatusInv, AwaitedInv, Runs, Cleared
  <2> QED
    BY <1>1, <1>r, <1>t, <2>1, <2>2, <2>3, StopKeepsRuntime
   , Zenon DEF BeginShutdown, StatusInv, IsRoute, Cleared, routeVars
<1>2. ASSUME ShutdownDrained PROVE RuntimeInv'
  <2>1. \A g \in Gens : ~Runs(g)
    BY <1>2, <1>t, Zenon DEF ShutdownDrained, AwaitedInv, Runs
  <2>2. TypeOK' /\ StatusInv'
    BY <1>2, <1>t, Zenon DEF ShutdownDrained, TypeOK, StatusInv, Dispatching, routeVars, queueVars,
                      markVars, callVars
  <2>3. AwaitedInv'
    BY <1>2, <2>1, Zenon DEF ShutdownDrained, AwaitedInv, Runs
  <2> QED
    BY <1>2, <2>1, <2>2, <2>3, StopKeepsRuntime, Zenon DEF ShutdownDrained, routeVars
<1>3. ASSUME ShutdownTimesOut PROVE RuntimeInv'
  <2>1. TypeOK' /\ StatusInv'
    BY <1>3, <1>t, Zenon DEF ShutdownTimesOut, TypeOK, StatusInv, Dispatching, routeVars, queueVars,
                      callVars
  <2>2. AwaitedInv'
    BY <1>3, <1>t, Zenon DEF ShutdownTimesOut, AwaitedInv, Runs, Cleared
  <2> QED
    BY <1>3, <1>r, <2>1, <2>2, StopKeepsRuntime, Zenon DEF ShutdownTimesOut, IsRoute, Cleared, routeVars
<1>4. ASSUME ShutdownClears PROVE RuntimeInv'
  <2>1. TypeOK' /\ StatusInv'
    BY <1>4, <1>t, RuntimeAssumption
    DEF ShutdownClears, TypeOK, StatusInv, Dispatching, NoRoute, Routes, queueVars, markVars,
        callVars
  <2>2. AwaitedInv'
    BY <1>4, <1>t, Zenon DEF ShutdownClears, AwaitedInv, Runs, Cleared
  <2> QED
    BY <1>4, <2>1, <2>2, StopKeepsRuntime, Zenon DEF ShutdownClears, Cleared
<1>5. ASSUME EndShutdown PROVE RuntimeInv'
  <2>1. TypeOK' /\ StatusInv'
    BY <1>5, <1>t, Zenon DEF EndShutdown, EndSessions, TypeOK, StatusInv, Dispatching, routeVars,
                      queueVars, markVars, callVars
  <2>2. AwaitedInv'
    BY <1>5, <1>t, Zenon DEF EndShutdown, AwaitedInv, Runs, Cleared
  <2> QED
    BY <1>5, <1>r, <2>1, <2>2, StopKeepsRuntime, Zenon DEF EndShutdown, IsRoute, Cleared, routeVars
<1>6. ASSUME BeginFence PROVE RuntimeInv'
  <2>1. TypeOK'
    BY <1>6, <1>t, TasksOfRoutes, Zenon DEF BeginFence, TypeOK, routeVars, queueVars, callVars
  <2>2. StatusInv'
    BY <1>6, <1>t, <1>n, Zenon DEF BeginFence, StatusInv, Dispatching, callVars
  <2>3. AwaitedInv'
    BY <1>6, <1>t, TasksOfRoutes, Zenon DEF BeginFence, TypeOK, AwaitedInv, Runs, Cleared
  <2> QED
    BY <1>6, <1>r, <2>1, <2>2, <2>3, StopKeepsRuntime, Zenon DEF BeginFence, IsRoute, Cleared, routeVars
<1>7. ASSUME EndFence PROVE RuntimeInv'
  <2>1. \A g \in Gens : Runs(g) => Cleared
    BY <1>7, <1>t, Zenon DEF EndFence, AwaitedInv, Runs
  <2>2. TypeOK' /\ StatusInv'
    BY <1>7, <1>t, RuntimeAssumption
    DEF EndFence, EndSessions, TypeOK, StatusInv, Dispatching, NoRoute, Routes, queueVars,
        markVars, callVars
  <2>3. AwaitedInv'
    BY <1>7, <1>t, <2>1, Zenon DEF EndFence, AwaitedInv, Runs, Cleared
  <2> QED
    BY <1>7, <2>1, <2>2, <2>3, StopKeepsRuntime, Zenon DEF EndFence, Cleared
<1> QED
  BY <1>1, <1>2, <1>3, <1>4, <1>5, <1>6, <1>7, Zenon

\* dispatch_message spawns a task only where no other runs.
LEMMA DispatchSpawnedStep ==
  ASSUME RuntimeInv, NEW s \in SessionIds, DispatchSpawned(s)
  PROVE  RuntimeInv'
<1> DEFINE a == AddressOf[s]
           g == spawned + 1
<1>t. /\ TypeOK /\ StatusInv /\ RouteInv /\ QueueInv /\ AwaitedInv /\ OneActorPerAddress
      /\ PassivationLosesNothing
  BY Zenon DEF RuntimeInv
<1>0. a \in Addresses /\ g \in Gens /\ spawned \in Nat /\ 1..spawned \subseteq Gens
  BY <1>t, RuntimeAssumption DEF DispatchSpawned, TypeOK, Gens
<1>1. /\ route[a] = NoRoute /\ spawned' = g
      /\ addr' = [addr EXCEPT ![g] = a] /\ pc' = [pc EXCEPT ![g] = "activating"]
      /\ route' = [route EXCEPT ![a] = [gen |-> g, deactivating |-> FALSE]]
      /\ mailbox' = [mailbox EXCEPT ![g] = <<Request(s)>>]
      /\ UNCHANGED <<status, current, signalled, aborted, opened, registry, answer, killed,
                     shutdown, fence, awaited>>
  BY Zenon DEF DispatchSpawned, Goto, markVars, stopVars
<1>2. status = "RUNNING" /\ shutdown = "no" /\ fence = "no"
  BY <1>t, Zenon DEF DispatchSpawned, StatusInv
<1>3. pc[g] = "none" /\ current[g] = <<>>
  BY <1>0, <1>t DEF RouteInv, QueueInv
<1>4. /\ pc'[g] = "activating" /\ addr'[g] = a
      /\ \A h \in Gens \ {g} : pc'[h] = pc[h] /\ addr'[h] = addr[h] /\ mailbox'[h] = mailbox[h]
  BY <1>0, <1>1, <1>t, Zenon DEF TypeOK
<1>5. \A b \in Addresses :
        route'[b] = IF b = a THEN [gen |-> g, deactivating |-> FALSE] ELSE route[b]
  BY <1>0, <1>1, <1>t, Zenon DEF TypeOK
<1>6. ASSUME NEW h \in Gens, h # g, Runs(h)' PROVE Runs(h) /\ IsRoute(h) /\ addr[h] # a
  <2>1. Runs(h) /\ IsRoute(h)
    BY <1>2, <1>4, <1>6, <1>t, Zenon DEF Runs, RouteInv, Cleared
  <2> QED
    BY <1>1, <2>1 DEF IsRoute, NoRoute, Gens
<1>7. TypeOK'
  <2>1. Request(s) \in Messages
    BY Zenon DEF Request, Message, Messages
  <2>2. mailbox' \in [Gens -> Seq(Messages)] /\ \A h \in Gens : Len(mailbox'[h]) <= MailboxCapacity
    BY <1>0, <1>1, <1>t, <2>1, RuntimeAssumption DEF TypeOK
  <2>3. caller' \in [SessionIds -> Callers] /\ reserved' \in SUBSET SessionIds
    BY <1>t, Zenon DEF DispatchSpawned, Accepted, CallerGoto, TypeOK, Callers
  <2>4. route' \in [Addresses -> Routes] /\ spawned' \in 0..MaxGen
    BY <1>0, <1>1, <1>t, RuntimeAssumption DEF TypeOK, Routes, Gens
  <2>5. addr' \in [Gens -> Addresses] /\ pc' \in [Gens -> Pcs]
    BY <1>0, <1>1, <1>t, Zenon DEF TypeOK, Pcs
  <2> QED
    BY <1>1, <1>t, <2>2, <2>3, <2>4, <2>5, Zenon DEF TypeOK
<1>8. StatusInv' /\ AwaitedInv'
  BY <1>1, <1>2, <1>4, <1>t, Zenon DEF StatusInv, AwaitedInv
<1>9. RouteInv'
  <2>1. \A h \in Gens : pc'[h] = "none" <=> h > spawned'
    BY <1>0, <1>1, <1>4, <1>t DEF RouteInv, Gens
  <2>2. ASSUME NEW b \in Addresses, route'[b] # NoRoute PROVE RouteLeads(b)'
    <3>1. CASE b = a
      BY <1>0, <1>1, <1>4, <1>5, <3>1 DEF RouteLeads
    <3>2. CASE b # a
      <4>1. route'[b] = route[b] /\ RouteLeads(b)
        BY <1>5, <1>t, <2>2, <3>2, Zenon DEF RouteInv
      <4>2. route[b].gen \in 1..spawned /\ route[b].gen \in Gens \ {g}
        BY <1>0, <4>1 DEF RouteLeads
      <4> QED
        BY <1>0, <1>1, <1>4, <4>1, <4>2 DEF RouteLeads
    <3> QED
      BY <3>1, <3>2, Zenon
  <2>3. ASSUME NEW h \in Gens, Runs(h)' PROVE IsRoute(h)'
    <3>1. CASE h = g
      BY <1>0, <1>4, <1>5, <3>1 DEF IsRoute
    <3>2. CASE h # g
      <4>1. addr'[h] = addr[h] /\ addr[h] \in Addresses \ {a} /\ route[addr[h]].gen = h
        BY <1>4, <1>6, <1>t, <2>3, <3>2, Zenon DEF IsRoute, TypeOK
      <4> QED
        BY <1>5, <4>1, Zenon DEF IsRoute
    <3> QED
      BY <3>1, <3>2, Zenon
  <2> QED
    BY <2>1, <2>2, <2>3, Zenon DEF RouteInv
<1>10. QueueInv' /\ PassivationLosesNothing'
  BY <1>1, <1>3, <1>4, <1>t, Zenon DEF QueueInv, PassivationLosesNothing
<1>11. OneActorPerAddress'
  BY <1>4, <1>6, <1>t, Zenon DEF OneActorPerAddress
<1> QED
  BY <1>7, <1>8, <1>9, <1>10, <1>11, Zenon DEF RuntimeInv

-----------------------------------------------------------------------------
\* Every step of the runtime keeps RuntimeInv, unless a dispatch straddles the
\* beginning of shutdown or fence.
LEMMA StepKeepsRuntime ==
  ASSUME Env = {}, RuntimeInv, [Next]_vars
  PROVE  RuntimeInv'
<1>1. CASE UNCHANGED vars
  <2>1. CallerStep
    BY <1>1, Zenon DEF vars, CallerStep, RuntimeInv, TypeOK, Dispatching, routeVars, queueVars, markVars,
                callVars, stopVars
  <2> QED
    BY <2>1, CallerKeepsRuntime, Zenon
<1>2. ASSUME NEW s \in SessionIds,
             Resolve(s) \/ BeginAction(s) \/ CloseSession(s) \/ Inbound(s)
      PROVE  RuntimeInv'
  <2>1. CASE ClosedRouteReplaced(s)
    BY <2>1, ClosedRouteReplacedStep, Zenon
  <2>2. CASE DispatchSpawned(s)
    BY <2>2, DispatchSpawnedStep, Zenon
  <2>3. CASE CallerStep
    BY <2>3, CallerKeepsRuntime, Zenon
  <2> QED
    BY <1>2, <2>1, <2>2, <2>3, CallerActions, Zenon DEF Inbound, OpenStep, Dispatch
<1>3. ASSUME NEW g \in Gens, Task(g) PROVE RuntimeInv'
  BY <1>3, TaskActions, TaskKeepsRuntime, Zenon
<1>4. CASE BeginShutdown \/ ShutdownStep \/ BeginFence \/ EndFence
  BY <1>4, StopActions, Zenon DEF ShutdownStep
<1> QED
  BY <1>1, <1>2, <1>3, <1>4, Zenon DEF Next

\* RuntimeInv is an invariant of every runtime, whatever the numbers of
\* addresses, Sessions, permits and generations and the mailbox capacity.
THEOREM RuntimeInvariance ==
  ASSUME Env = {}
  PROVE  Spec => []RuntimeInv
<1>1. RuntimeInv /\ [Next]_vars => RuntimeInv'
  BY StepKeepsRuntime, Zenon
<1> QED
  BY <1>1, InitRuntime, PTL DEF Spec

\* dispatch_message, remove_route, begin_deactivation and the drain never let
\* two tasks of an address run code of its Actor.
THEOREM OneActorSafe ==
  ASSUME Env = {}
  PROVE  Spec => []OneActorPerAddress
<1>1. RuntimeInv => OneActorPerAddress
  BY Zenon DEF RuntimeInv
<1> QED
  BY <1>1, RuntimeInvariance, PTL

\* No message that dispatch_message accepted is lost by passivation.
THEOREM PassivationSafe ==
  ASSUME Env = {}
  PROVE  Spec => []PassivationLosesNothing
<1>1. RuntimeInv => PassivationLosesNothing
  BY Zenon DEF RuntimeInv
<1> QED
  BY <1>1, RuntimeInvariance, PTL

\* Once fence(), or a shutdown() that did not time out, has returned, no Actor
\* runs on the node, however the two overlap.
THEOREM StopSafe ==
  ASSUME Env = {}
  PROVE  Spec => []QuietAfterStop
<1>1. RuntimeInv => QuietAfterStop
  BY Zenon DEF RuntimeInv, AwaitedInv, Cleared, QuietAfterStop
<1> QED
  BY <1>1, RuntimeInvariance, PTL

-----------------------------------------------------------------------------
(* The permits.                                                            *)

\* A permit is in a route or in a reservation, and there are max_active_actors.
CapacityInv == Cardinality(Routed) + Cardinality(reserved) <= MaxActive

\* Routes and reservations can be counted.
LEMMA PermitSetsFinite ==
  ASSUME TypeOK
  PROVE  /\ IsFiniteSet(Routed) /\ IsFiniteSet(reserved)
         /\ Cardinality(Routed) \in Nat /\ Cardinality(reserved) \in Nat
<1>1. Routed \in SUBSET Addresses /\ reserved \in SUBSET SessionIds
  BY Zenon DEF Routed, TypeOK
<1>2. IsFiniteSet(Routed) /\ IsFiniteSet(reserved)
  BY <1>1, FS_Subset, RuntimeAssumption, Zenon
<1> QED
  BY <1>2, FS_CardinalityType, Zenon

\* A step that takes no permit.
LEMMA PermitsReturn ==
  ASSUME TypeOK, TypeOK', CapacityInv, reserved' \subseteq reserved,
         \A a \in Addresses : route'[a] # NoRoute => route[a] # NoRoute
  PROVE  CapacityInv'
<1>1. Routed' \in SUBSET Routed /\ reserved' \in SUBSET reserved
  BY Zenon DEF Routed
<1>2. Cardinality(Routed') <= Cardinality(Routed) /\ Cardinality(reserved') <= Cardinality(reserved)
  BY <1>1, PermitSetsFinite, FS_Subset, Zenon
<1>3. /\ Cardinality(Routed) \in Nat /\ Cardinality(reserved) \in Nat
      /\ Cardinality(Routed') \in Nat /\ Cardinality(reserved') \in Nat
  <2>1. IsFiniteSet(Routed') /\ IsFiniteSet(reserved')
    BY <1>1, PermitSetsFinite, FS_Subset, Zenon
  <2> QED
    BY <2>1, PermitSetsFinite, FS_CardinalityType, Zenon
<1>4. MaxActive \in Nat
  BY RuntimeAssumption, Zenon
<1> QED
  BY <1>2, <1>3, <1>4 DEF CapacityInv

\* resolve() reserves a permit only when one is left.
LEMMA ResolvingKeepsCapacity ==
  ASSUME TypeOK, TypeOK', CapacityInv, NEW s \in SessionIds, Resolve(s)
  PROVE  CapacityInv'
<1>1. route' = route /\ (reserved' = reserved \/ (Available > 0 /\ reserved' = reserved \cup {s}))
  BY Zenon DEF Resolve, routeVars
<1>2. CASE reserved' = reserved
  BY <1>1, <1>2, PermitsReturn, Zenon
<1>3. CASE Available > 0 /\ reserved' = reserved \cup {s}
  <2>1. Routed' = Routed
    BY <1>1, Zenon DEF Routed
  <2>2. Cardinality(reserved \cup {s}) \in {Cardinality(reserved), Cardinality(reserved) + 1}
    BY PermitSetsFinite, FS_AddElement, Zenon
  <2>3. MaxActive - Cardinality(Routed) - Cardinality(reserved) > 0 /\ MaxActive \in Nat
    BY <1>3, RuntimeAssumption, Zenon DEF Available
  <2>4. Cardinality(Routed) + Cardinality(reserved \cup {s}) <= MaxActive
    BY <2>2, <2>3, PermitSetsFinite
  <2> QED
    BY <1>3, <2>1, <2>4, Zenon DEF CapacityInv
<1> QED
  BY <1>1, <1>2, <1>3, Zenon

\* A new route has the permit of the reservation, or a free one.
LEMMA SpawningKeepsCapacity ==
  ASSUME TypeOK, CapacityInv, NEW s \in SessionIds, DispatchSpawned(s)
  PROVE  CapacityInv'
<1> DEFINE a == AddressOf[s]
<1>1. /\ a \in Addresses /\ route[a] = NoRoute /\ (s \in reserved \/ Available > 0)
      /\ spawned + 1 \in Gens /\ reserved' = reserved \ {s}
      /\ route' = [route EXCEPT ![a] = [gen |-> spawned + 1, deactivating |-> FALSE]]
  BY RuntimeAssumption, Zenon DEF DispatchSpawned
<1>2. Routed' = Routed \cup {a} /\ a \notin Routed
  <2>1. [gen |-> spawned + 1, deactivating |-> FALSE] # NoRoute
    BY <1>1 DEF NoRoute, Gens
  <2> QED
    BY <1>1, <2>1, Zenon DEF Routed, TypeOK
<1>3. Cardinality(Routed \cup {a}) = Cardinality(Routed) + 1
  BY <1>2, PermitSetsFinite, FS_AddElement, Zenon
<1>4. Cardinality(reserved \ {s}) =
        IF s \in reserved THEN Cardinality(reserved) - 1 ELSE Cardinality(reserved)
  BY PermitSetsFinite, FS_RemoveElement, Zenon
<1>5. CASE s \in reserved
  BY <1>1, <1>2, <1>3, <1>4, <1>5, PermitSetsFinite, RuntimeAssumption DEF CapacityInv
<1>6. CASE s \notin reserved
  BY <1>1, <1>2, <1>3, <1>4, <1>6, PermitSetsFinite, RuntimeAssumption DEF CapacityInv, Available
<1> QED
  BY <1>5, <1>6, Zenon

\* No other step takes a permit.
LEMMA StepKeepsCapacity ==
  ASSUME TypeOK, TypeOK', CapacityInv, [Next]_vars
  PROVE  CapacityInv'
<1> DEFINE Returns == /\ reserved' \subseteq reserved
                      /\ \A a \in Addresses : route'[a] # NoRoute => route[a] # NoRoute
<1>r. Returns => CapacityInv'
  BY PermitsReturn, Zenon
<1>1. CASE UNCHANGED vars
  BY <1>1, <1>r, Zenon DEF vars, routeVars, callVars
<1>2. ASSUME NEW s \in SessionIds,
             Resolve(s) \/ BeginAction(s) \/ CloseSession(s) \/ Inbound(s)
      PROVE  CapacityInv'
  <2>1. BeginAction(s) \/ CloseSession(s) \/ OpenStep(s) \/ NotifyClosed(s) \/ InboundDropped(s)
          \/ DispatchDelivered(s) \/ DispatchRefused(s) => Returns
    BY Zenon DEF BeginAction, CloseSession, OpenStep, RegisterRefused, Register, OpenAnswered, NotifyClosed,
           InboundDropped, DispatchDelivered, DispatchRefused, routeVars
  <2>2. ClosedRouteReplaced(s) => Returns
    BY Zenon DEF ClosedRouteReplaced, callVars, TypeOK
  <2> QED
    BY <1>2, <1>r, <2>1, <2>2, ResolvingKeepsCapacity, SpawningKeepsCapacity, Zenon
    DEF Inbound, Dispatch
<1>3. ASSUME NEW g \in Gens, Task(g) PROVE CapacityInv'
  <2>1. EndTask(g) \/ RemoveRoute(g) => \A a \in Addresses : route'[a] # NoRoute => route[a] # NoRoute
    BY Zenon DEF EndTask, RemoveRoute, TypeOK
  <2>2. Activation(g) => Returns
    BY <2>1, Zenon DEF Activation, Activated, ActivationFails, FailedUnroutes, FailedEnds, otherVars,
                routeVars, callVars
  <2>3. Work(g) => Returns
    BY <2>1, Zenon DEF Work, Receive, Handled, Panics, PanicTerminates, PanicEnds, otherVars, routeVars,
                callVars
  <2>4. Passivation(g) => Returns
    <3>1. BeginDeactivation(g) => \A a \in Addresses : route'[a] # NoRoute => route[a] # NoRoute
      <4>1. IsRoute(g) => route[addr[g]] # NoRoute
        BY DEF IsRoute, NoRoute, Gens
      <4> QED
        BY <4>1, Zenon DEF BeginDeactivation, TypeOK
    <3> QED
      BY <2>1, <3>1, Zenon DEF Passivation, IdleCheck, Passivated, BeginDeactivation, otherVars, routeVars,
                        callVars
  <2>5. Drain(g) \/ Cancelled(g) => Returns
    BY <2>1, Zenon DEF Drain, BeginDrain, DrainReceive, DrainPanics, DrainTerminates, DrainEnds, Cancelled,
                otherVars, routeVars, callVars
  <2> QED
    BY <1>3, <1>r, <2>2, <2>3, <2>4, <2>5, Zenon DEF Task
<1>4. CASE BeginShutdown \/ ShutdownStep \/ BeginFence \/ EndFence
  BY <1>4, <1>r, Zenon DEF BeginShutdown, ShutdownStep, ShutdownDrained, ShutdownTimesOut, ShutdownClears,
                    EndShutdown, BeginFence, EndFence, routeVars, callVars
<1> QED
  BY <1>1, <1>2, <1>3, <1>4, Zenon DEF Next

\* While the node is RUNNING, a task that runs has the route of its address.
LEMMA RunningHasRoute ==
  ASSUME RuntimeInv, status = "RUNNING", NEW g \in Gens, Runs(g)
  PROVE  addr[g] \in Addresses /\ IsRoute(g) /\ route[addr[g]] # NoRoute
<1>1. addr[g] \in Addresses
  BY Zenon DEF RuntimeInv, TypeOK
<1>2. shutdown = "no"
  BY Zenon DEF RuntimeInv, StatusInv
<1>3. IsRoute(g) \/ Cleared
  BY Zenon DEF RuntimeInv, RouteInv
<1>4. IsRoute(g)
  BY <1>2, <1>3, Zenon DEF Cleared
<1>5. g # 0 /\ NoRoute.gen = 0
  BY DEF Gens, NoRoute
<1>6. route[addr[g]].gen = g
  BY <1>4, Zenon DEF IsRoute
<1> QED
  BY <1>1, <1>4, <1>5, <1>6, Zenon

\* Hence the tasks that run are no more than the routes.
LEMMA RunningAreRouted ==
  ASSUME RuntimeInv, status = "RUNNING"
  PROVE  LET R == {g \in Gens : Runs(g)}
         IN  Cardinality(R) <= Cardinality(Routed) /\ IsFiniteSet(R)
<1> DEFINE R == {g \in Gens : Runs(g)}
           f == [g \in R |-> addr[g]]
<1>t. TypeOK
  BY Zenon DEF RuntimeInv
<1>1. \A g \in R : addr[g] \in Routed
  BY RunningHasRoute, Zenon DEF Routed
<1>2. \A g, h \in R : addr[g] = addr[h] => g = h
  BY Zenon DEF RuntimeInv, OneActorPerAddress
<1>3. f \in Injection(R, Routed)
  BY <1>1, <1>2, Zenon DEF Injection, IsInjective
<1>4. IsFiniteSet(Routed)
  BY <1>t, PermitSetsFinite, Zenon
<1> QED
  BY <1>3, <1>4, FS_Injection, Zenon

\* The permits, for every max_active_actors and every number of addresses and
\* Sessions: the Actors that run and the places reserved are within the limit,
\* and the published load is never less than the Actors that run.
THEOREM CapacitySafe ==
  ASSUME Env = {}
  PROVE  Spec => []WithinCapacity
<1>1. Init => CapacityInv
  <2>1. Init => Routed = {} /\ reserved = {}
    BY DEF Init, Routed
  <2> QED
    BY <2>1, FS_EmptySet, RuntimeAssumption DEF CapacityInv
<1>2. RuntimeInv /\ RuntimeInv' /\ CapacityInv /\ [Next]_vars => CapacityInv'
  BY StepKeepsCapacity, Zenon DEF RuntimeInv
<1>3. RuntimeInv /\ CapacityInv => WithinCapacity
  <2> SUFFICES ASSUME RuntimeInv, CapacityInv, status = "RUNNING"
               PROVE  /\ Available >= 0
                      /\ Cardinality({g \in Gens : Runs(g)}) + Cardinality(reserved) <= Sample.active
    BY Zenon DEF WithinCapacity
  <2> DEFINE n == Cardinality({g \in Gens : Runs(g)})
  <2>1. /\ Cardinality(Routed) \in Nat /\ Cardinality(reserved) \in Nat /\ MaxActive \in Nat
        /\ n \in Nat /\ n <= Cardinality(Routed)
    BY RunningAreRouted, PermitSetsFinite, FS_CardinalityType, RuntimeAssumption, Zenon DEF RuntimeInv
  <2>2. Sample.active = MaxActive - Available
    BY Zenon DEF Sample
  <2> HIDE DEF n
  <2>3. Available >= 0 /\ n + Cardinality(reserved) <= Sample.active
    BY <2>1, <2>2 DEF Available, CapacityInv
  <2> QED
    BY <2>3, Zenon DEF n
<1> QED
  BY <1>1, <1>2, <1>3, RuntimeInvariance, PTL DEF Spec
=============================================================================
