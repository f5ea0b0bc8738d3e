------------------------- MODULE ActorSessionProofs -------------------------
(***************************************************************************)
(* SessionInv is inductive together with RuntimeInv: while the node runs,  *)
(* an acknowledged Session that is registered has the Actor that was told  *)
(* of it, for every number of addresses, Sessions and generations and      *)
(* every mailbox capacity.                                                 *)
(***************************************************************************)
EXTENDS ActorRuntimeProofs

\* SessionInv, on a node that is RUNNING.
SessionParts == AnswerInv /\ MessageInv /\ ActorInv

(* Ranges of the queues.                                                   *)
\* The messages of a mailbox after a send ...
LEMMA RangeOfAppend ==
  ASSUME NEW T, NEW q \in Seq(T), NEW m \in T
  PROVE  Range(Append(q, m)) = Range(q) \cup {m}
<1>1. /\ DOMAIN Append(q, m) = 1..(Len(q) + 1) /\ DOMAIN q = 1..Len(q) /\ Len(q) \in Nat
      /\ \A i \in 1..Len(q) : Append(q, m)[i] = q[i]
      /\ Append(q, m)[Len(q) + 1] = m
  OBVIOUS
<1>2. \A i \in 1..(Len(q) + 1) : i \in 1..Len(q) \/ i = Len(q) + 1
  BY <1>1
<1> QED
  BY <1>1, <1>2 DEF Range

\* ... after a receive ...
LEMMA RangeOfHead ==
  ASSUME NEW T, NEW q \in Seq(T), q # <<>>
  PROVE  /\ Range(<<Head(q)>>) = {Head(q)} /\ Head(q) \in Range(q)
         /\ Range(Tail(q)) \subseteq Range(q)
<1>1. /\ DOMAIN q = 1..Len(q) /\ Len(q) \in Nat \ {0} /\ Head(q) = q[1]
      /\ DOMAIN Tail(q) = 1..(Len(q) - 1) /\ \A i \in 1..(Len(q) - 1) : Tail(q)[i] = q[i + 1]
  OBVIOUS
<1>2. DOMAIN <<Head(q)>> = {1} /\ <<Head(q)>>[1] = Head(q)
  OBVIOUS
<1> QED
  BY <1>1, <1>2 DEF Range

\* ... and of an empty one.
LEMMA RangeOfEmpty == Range(<<>>) = {}
  BY DEF Range

\* A queue that is not empty has a length.
LEMMA LenOfNonempty ==
  ASSUME NEW T, NEW q \in Seq(T), q # <<>>
  PROVE  Len(q) \in Nat /\ Len(q) # 0
OBVIOUS

\* A task whose queue did not change.
LEMMA SameQueue ==
  ASSUME NEW h, mailbox'[h] = mailbox[h], current'[h] = current[h]
  PROVE  Held(h)' = Held(h) /\ (OpenedOnce(h) => OpenedOnce(h)')
<1>1. Held(h)' = Held(h)
  BY Zenon DEF Held
<1>2. OpenedOnce(h) => OpenedOnce(h)'
  BY Zenon DEF OpenedOnce
<1> QED
  BY <1>1, <1>2, Zenon

\* A task holds messages of Sessions.
LEMMA HeldTyped ==
  ASSUME RuntimeInv, NEW g \in Gens
  PROVE  Held(g) \subseteq Messages /\ \A m \in Held(g) : m.session \in SessionIds
<1>1. mailbox[g] \in Seq(Messages) /\ current[g] \in Seq(Messages)
  BY Zenon DEF RuntimeInv, TypeOK
<1>2. Range(mailbox[g]) \subseteq Messages /\ Range(current[g]) \subseteq Messages
  BY <1>1 DEF Range
<1> QED
  BY <1>2, Zenon DEF Held, Messages

-----------------------------------------------------------------------------
(* Inbound tasks.                                                          *)

\* An inbound task goes on without a message: the Session gets no more than it
\* has, and no message about its opening or its close is with a task.
LEMMA CallerKeepsSessions ==
  ASSUME RuntimeInv, SessionParts,
         UNCHANGED <<routeVars, pc, queueVars, opened, answer>>,
         NEW s \in SessionIds, NEW l \in Callers, CallerGoto(s, l),
         caller[s] # "ended", caller[s] = "waiting" => answer[s] # "none",
         l \in {"none", "resolving", "opening"} => answer[s] = "none",
         registry' \subseteq registry \cup {s},
         s \in registry' /\ Established(s)' => s \in registry /\ Established(s)
  PROVE  SessionParts'
<1>0. /\ route' = route /\ addr' = addr /\ pc' = pc /\ mailbox' = mailbox /\ current' = current
      /\ opened' = opened /\ answer' = answer
      /\ caller'[s] = l /\ \A t \in SessionIds \ {s} : caller'[t] = caller[t]
      /\ registry \in SUBSET SessionIds
  BY Zenon DEF routeVars, queueVars, CallerGoto, RuntimeInv, TypeOK
<1>1. AnswerInv'
  BY <1>0, Zenon DEF SessionParts, AnswerInv
<1>2. \A g \in Gens : Held(g)' = Held(g) /\ OpenedOnce(g)' = OpenedOnce(g)
  BY <1>0, Zenon DEF Held, OpenedOnce
<1>3. ASSUME NEW g \in Gens, NEW m \in Held(g) PROVE MessageFits(g, m)'
  <2>1. MessageFits(g, m) /\ m.session \in SessionIds
    BY <1>3, HeldTyped, Zenon DEF SessionParts, MessageInv
  <2> QED
    BY <1>0, <2>1, Zenon DEF MessageFits
<1>4. MessageInv'
  BY <1>2, <1>3 DEF SessionParts, MessageInv
<1>5. ASSUME NEW t \in registry', Established(t)' PROVE Attended(t)'
  <2>1. t \in registry /\ Established(t)
    BY <1>0, <1>5, Zenon DEF Established
  <2> QED
    BY <1>0, <2>1, Zenon DEF SessionParts, ActorInv, Attended, HasActor, Closed
<1> QED
  BY <1>1, <1>4, <1>5, Zenon DEF SessionParts, ActorInv

\* An inbound task puts a message into the mailbox of the Session's Actor.
LEMMA PostingKeepsSessions ==
  ASSUME RuntimeInv, SessionParts,
         UNCHANGED <<routeVars, pc, current, opened, answer, registry>>,
         NEW s \in SessionIds, NEW l \in Callers \ {"none", "resolving", "opening"},
         CallerGoto(s, l), caller[s] \notin {"waiting", "ended"},
         l = "waiting" => answer[s] = "none",
         l \in {"open", "acting"} => caller[s] \in {"open", "acting"},
         NEW g \in Gens, NEW m \in Messages, m.session = s, addr[g] = AddressOf[s],
         m.kind = "SessionOpened" => l = "waiting",
         m.kind = "SessionClosed" => l = "ended",
         mailbox' = [mailbox EXCEPT ![g] = Append(@, m)]
  PROVE  SessionParts'
<1>0. /\ route' = route /\ addr' = addr /\ pc' = pc /\ current' = current
      /\ opened' = opened /\ answer' = answer /\ registry' = registry
      /\ caller'[s] = l /\ \A t \in SessionIds \ {s} : caller'[t] = caller[t]
      /\ registry \in SUBSET SessionIds
  BY Zenon DEF routeVars, CallerGoto, RuntimeInv, TypeOK
<1>1. /\ mailbox'[g] = Append(mailbox[g], m) /\ mailbox[g] \in Seq(Messages)
      /\ \A h \in Gens \ {g} : mailbox'[h] = mailbox[h]
  BY Zenon DEF RuntimeInv, TypeOK
<1>2. AnswerInv'
  BY <1>0, Zenon DEF SessionParts, AnswerInv
<1>3. /\ Held(g)' = Held(g) \cup {m} /\ Range(mailbox'[g]) = Range(mailbox[g]) \cup {m}
      /\ \A h \in Gens \ {g} : Held(h)' = Held(h)
  BY <1>0, <1>1, RangeOfAppend DEF Held
<1>4. ASSUME NEW h \in Gens PROVE m \in Held(h) => m.kind # "SessionOpened"
  BY <1>4, Zenon DEF SessionParts, MessageInv, MessageFits
<1>5. ASSUME NEW h \in Gens, NEW n \in Held(h)' PROVE MessageFits(h, n)'
  <2>1. CASE n \in Held(h)
    <3>1. MessageFits(h, n) /\ n.session \in SessionIds
      BY <2>1, HeldTyped, Zenon DEF SessionParts, MessageInv
    <3> QED
      BY <1>0, <3>1, Zenon DEF MessageFits
  <2>2. CASE n = m /\ h = g
    BY <1>0, <2>2, Zenon DEF MessageFits
  <2> QED
    BY <1>3, <1>5, <2>1, <2>2, Zenon
<1>6. ASSUME NEW h \in Gens PROVE OpenedOnce(h)'
  <2>1. CASE h # g
    <3>1. mailbox'[h] = mailbox[h] /\ current'[h] = current[h]
      BY <1>0, <1>1, <2>1, Zenon
    <3> QED
      BY <3>1, SameQueue, Zenon DEF SessionParts, MessageInv
  <2>2. CASE h = g
    <3>1. OpenedOnce(g)
      BY Zenon DEF SessionParts, MessageInv
    <3>2. \A n \in Range(current[g]) \cap Range(mailbox'[g]) : n.kind # "SessionOpened"
      BY <1>3, <1>4, <3>1, Zenon DEF OpenedOnce, Held
    <3>3. /\ DOMAIN mailbox'[g] = 1..(Len(mailbox[g]) + 1) /\ DOMAIN mailbox[g] = 1..Len(mailbox[g])
          /\ Len(mailbox[g]) \in Nat
          /\ \A i \in 1..Len(mailbox[g]) : mailbox'[g][i] = mailbox[g][i]
          /\ mailbox'[g][Len(mailbox[g]) + 1] = m
      BY <1>1
    <3>4. \A i \in 1..Len(mailbox[g]) : mailbox[g][i] = m => m.kind # "SessionOpened"
      BY <1>4, <3>3, Zenon DEF Held, Range
    <3>5. \A i, j \in DOMAIN mailbox'[g] :
            mailbox'[g][i].kind = "SessionOpened" /\ mailbox'[g][i] = mailbox'[g][j] => i = j
      BY <3>1, <3>3, <3>4 DEF OpenedOnce
    <3> QED
      BY <1>0, <2>2, <3>2, <3>5 DEF OpenedOnce
  <2> QED
    BY <2>1, <2>2, Zenon
<1>7. MessageInv'
  BY <1>3, <1>4, <1>5, <1>6 DEF SessionParts, MessageInv
<1>8. ASSUME NEW t \in registry', Established(t)' PROVE Attended(t)'
  <2>1. t \in registry /\ Established(t)
    BY <1>0, <1>8, Zenon DEF Established
  <2> QED
    BY <1>0, <2>1, Zenon DEF SessionParts, ActorInv, Attended, HasActor, Closed
<1> QED
  BY <1>2, <1>7, <1>8, Zenon DEF SessionParts, ActorInv

\* The route of a Session leads to a task of its address.
LEMMA RouteOfSession ==
  ASSUME RuntimeInv, NEW s \in SessionIds, route[AddressOf[s]] # NoRoute
  PROVE  route[AddressOf[s]].gen \in Gens /\ addr[route[AddressOf[s]].gen] = AddressOf[s]
  BY RuntimeAssumption DEF RuntimeInv, RouteInv, RouteLeads, TypeOK, Gens

\* The actions of inbound tasks that leave the routes alone.
LEMMA InboundKeepsSessions ==
  ASSUME RuntimeInv, SessionParts, status = "RUNNING", NEW s \in SessionIds
  PROVE  \/ Resolve(s) \/ Register(s) \/ RegisterRefused(s) \/ BeginAction(s)
         \/ DispatchDelivered(s) \/ DispatchRefused(s) \/ OpenAnswered(s)
         \/ CloseSession(s) \/ NotifyClosed(s) \/ InboundDropped(s)
         => SessionParts'
<1>t. /\ registry \in SUBSET SessionIds /\ caller \in [SessionIds -> Callers]
      /\ answer \in [SessionIds -> {"none", "ok", "error"}]
  BY Zenon DEF RuntimeInv, TypeOK
<1>a. caller[s] \in {"none", "resolving", "opening"} => answer[s] = "none"
  BY Zenon DEF SessionParts, AnswerInv
<1>1. ASSUME Resolve(s) PROVE SessionParts'
  BY <1>1, <1>t, <1>a, CallerKeepsSessions, Zenon DEF Resolve, Callers, CallerGoto, Established
<1>2. ASSUME Register(s) PROVE SessionParts'
  BY <1>2, <1>t, <1>a, CallerKeepsSessions, Zenon DEF Register, Callers, CallerGoto, Established
<1>3. ASSUME RegisterRefused(s) PROVE SessionParts'
  BY <1>3, <1>t, <1>a, CallerKeepsSessions, Zenon DEF RegisterRefused, Callers, CallerGoto, Established
<1>4. ASSUME BeginAction(s) PROVE SessionParts'
  BY <1>4, <1>t, CallerKeepsSessions, Zenon DEF BeginAction, Callers, CallerGoto, Established
<1>5. ASSUME DispatchDelivered(s) PROVE SessionParts'
  <2>1. /\ route[AddressOf[s]].gen \in Gens /\ addr[route[AddressOf[s]].gen] = AddressOf[s]
        /\ mailbox' = [mailbox EXCEPT ![route[AddressOf[s]].gen] = Append(@, Request(s))]
        /\ UNCHANGED <<routeVars, pc, current, opened, answer, registry>>
    BY <1>5, RouteOfSession, Zenon DEF DispatchDelivered
  <2>2. {"waiting", "open"} \subseteq Callers \ {"none", "resolving", "opening"}
    BY Zenon DEF Callers
  <2>3. CASE caller[s] = "opening"
    <3>1. Request(s) \in Messages /\ Request(s).session = s /\ Request(s).kind = "SessionOpened"
      BY <2>3, Zenon DEF Request, Message, Messages
    <3>2. CallerGoto(s, "waiting") /\ answer[s] = "none"
      BY <1>5, <1>a, <2>3, Zenon DEF DispatchDelivered, Accepted
    <3> QED
      BY <2>1, <2>2, <2>3, <3>1, <3>2, PostingKeepsSessions, Zenon
  <2>4. CASE caller[s] = "acting"
    <3>1. Request(s) \in Messages /\ Request(s).session = s /\ Request(s).kind = "Action"
      BY <2>4, Zenon DEF Request, Message, Messages
    <3>2. CallerGoto(s, "open")
      BY <1>5, <2>4, Zenon DEF DispatchDelivered, Accepted
    <3> QED
      BY <2>1, <2>2, <2>4, <3>1, <3>2, PostingKeepsSessions, Zenon
  <2> QED
    BY <1>5, <2>3, <2>4, Zenon DEF DispatchDelivered, Dispatching
<1>6. ASSUME DispatchRefused(s) PROVE SessionParts'
  <2>1. CASE caller[s] = "opening"
    BY <1>6, <1>t, <2>1, CallerKeepsSessions, Zenon DEF DispatchRefused, Callers, CallerGoto, Established
  <2>2. CASE caller[s] = "acting"
    BY <1>6, <1>t, <2>2, CallerKeepsSessions, Zenon DEF DispatchRefused, Callers, CallerGoto, Established
  <2> QED
    BY <1>6, <2>1, <2>2, Zenon DEF DispatchRefused, Dispatching
<1>7. ASSUME OpenAnswered(s) PROVE SessionParts'
  <2>1. CASE answer[s] = "ok"
    BY <1>7, <1>t, <2>1, CallerKeepsSessions, Zenon DEF OpenAnswered, Callers, CallerGoto, Established
  <2>2. CASE answer[s] # "ok"
    BY <1>7, <1>t, <2>2, CallerKeepsSessions, Zenon DEF OpenAnswered, Callers, CallerGoto, Established
  <2> QED
    BY <2>1, <2>2, Zenon
<1>8. ASSUME CloseSession(s) PROVE SessionParts'
  BY <1>8, <1>t, CallerKeepsSessions, Zenon DEF CloseSession, Callers, CallerGoto, Established
<1>9. ASSUME NotifyClosed(s) PROVE SessionParts'
  <2>1. CASE mailbox' = mailbox
    BY <1>9, <1>t, <2>1, CallerKeepsSessions
   , Zenon DEF NotifyClosed, Callers, CallerGoto, Established, queueVars
  <2>2. CASE mailbox' # mailbox
    <3>1. /\ Message("SessionClosed", s) \in Messages /\ Message("SessionClosed", s).session = s
          /\ Message("SessionClosed", s).kind = "SessionClosed"
      BY Zenon DEF Message, Messages
    <3> QED
      BY <1>9, <2>2, <3>1, PostingKeepsSessions, RouteOfSession, Zenon DEF NotifyClosed, Callers
  <2> QED
    BY <2>1, <2>2, Zenon
<1>10. ASSUME InboundDropped(s) PROVE SessionParts'
  BY <1>10, Zenon DEF InboundDropped, RuntimeInv, StatusInv
<1> QED
  BY <1>1, <1>2, <1>3, <1>4, <1>5, <1>6, <1>7, <1>8, <1>9, <1>10, Zenon

\* A route that dispatch_message replaces was closed: it attended nobody.
LEMMA ReplacingKeepsSessions ==
  ASSUME RuntimeInv, SessionParts, NEW s \in SessionIds, ClosedRouteReplaced(s)
  PROVE  SessionParts'
<1>0. /\ addr' = addr /\ pc' = pc /\ mailbox' = mailbox /\ current' = current /\ opened' = opened
      /\ answer' = answer /\ caller' = caller /\ registry' = registry
      /\ registry \in SUBSET SessionIds
  BY Zenon DEF ClosedRouteReplaced, queueVars, callVars, RuntimeInv, TypeOK
<1>1. AnswerInv' /\ MessageInv'
  BY <1>0 DEF SessionParts, AnswerInv, MessageInv, MessageFits, OpenedOnce, Held
<1>2. ASSUME NEW t \in registry', Established(t)' PROVE Attended(t)'
  <2>1. t \in registry /\ Established(t) /\ Attended(t)
    BY <1>0, <1>2, Zenon DEF Established, SessionParts, ActorInv
  <2>2. AddressOf[t] # AddressOf[s]
    BY <2>1, Zenon DEF Attended, HasActor, ClosedRouteReplaced
  <2>3. route'[AddressOf[t]] = route[AddressOf[t]]
    BY <1>0, <2>2, RuntimeAssumption, Zenon DEF ClosedRouteReplaced, RuntimeInv, TypeOK
  <2> QED
    BY <1>0, <2>1, <2>3, Zenon DEF Attended, HasActor, Closed
<1> QED
  BY <1>1, <1>2, Zenon DEF SessionParts, ActorInv

\* A new task starts at an address without a route: nobody was attended there.
LEMMA SpawningKeepsSessions ==
  ASSUME RuntimeInv, SessionParts, NEW s \in SessionIds, DispatchSpawned(s)
  PROVE  SessionParts'
<1> DEFINE a == AddressOf[s]
<1> SUFFICES ASSUME NEW g \in Gens, g = spawned + 1
             PROVE  SessionParts'
  BY Zenon DEF DispatchSpawned
<1>t. /\ a \in Addresses /\ route \in [Addresses -> Routes]
      /\ addr \in [Gens -> Addresses] /\ pc \in [Gens -> Pcs]
      /\ mailbox \in [Gens -> Seq(Messages)] /\ caller \in [SessionIds -> Callers]
      /\ registry \in SUBSET SessionIds
  BY RuntimeAssumption, Zenon DEF DispatchSpawned, RuntimeInv, TypeOK
<1>0. /\ route[a] = NoRoute /\ Dispatching(s)
      /\ addr' = [addr EXCEPT ![g] = a] /\ pc' = [pc EXCEPT ![g] = "activating"]
      /\ route' = [route EXCEPT ![a] = [gen |-> g, deactivating |-> FALSE]]
      /\ mailbox' = [mailbox EXCEPT ![g] = <<Request(s)>>]
      /\ current' = current /\ opened' = opened /\ registry' = registry /\ answer' = answer
      /\ Accepted(s)
  BY Zenon DEF DispatchSpawned, Goto
<1>1. /\ addr'[g] = a /\ mailbox'[g] = <<Request(s)>>
      /\ \A h \in Gens \ {g} : addr'[h] = addr[h] /\ mailbox'[h] = mailbox[h] /\ pc'[h] = pc[h]
      /\ \A b \in Addresses \ {a} : route'[b] = route[b]
  BY <1>0, <1>t, Zenon
<1>2. /\ caller'[s] = IF caller[s] = "opening" THEN "waiting" ELSE "open"
      /\ \A t \in SessionIds \ {s} : caller'[t] = caller[t]
      /\ caller[s] \in {"opening", "acting"} /\ (caller[s] = "opening" => answer[s] = "none")
  BY <1>0, <1>t, Zenon DEF Accepted, CallerGoto, Dispatching, SessionParts, AnswerInv
<1>3. pc[g] = "none" /\ current[g] = <<>>
  BY <1>t DEF RuntimeInv, RouteInv, QueueInv, TypeOK, Gens
<1>4. AnswerInv'
  BY <1>0, <1>2, Zenon DEF SessionParts, AnswerInv
<1>5. Held(g)' = {Request(s)} /\ \A h \in Gens \ {g} : Held(h)' = Held(h)
  <2>1. Range(<<Request(s)>>) = {Request(s)} /\ Range(<<>>) = {}
    BY RangeOfEmpty DEF Range
  <2> QED
    BY <1>0, <1>1, <1>3, <2>1, Zenon DEF Held
<1>6. /\ Request(s).session = s
      /\ Request(s).kind = IF caller[s] = "opening" THEN "SessionOpened" ELSE "Action"
  BY Zenon DEF Request, Message
<1>7. ASSUME NEW h \in Gens, NEW m \in Held(h)' PROVE MessageFits(h, m)'
  <2>1. CASE h # g
    <3>1. MessageFits(h, m) /\ m.session \in SessionIds
      BY <1>5, <1>7, <2>1, HeldTyped, Zenon DEF SessionParts, MessageInv
    <3> QED
      BY <1>0, <1>1, <1>2, <2>1, <3>1, Zenon DEF MessageFits
  <2>2. CASE h = g
    BY <1>0, <1>1, <1>2, <1>5, <1>6, <1>7, <2>2, Zenon DEF MessageFits
  <2> QED
    BY <2>1, <2>2, Zenon
<1>8. ASSUME NEW h \in Gens PROVE OpenedOnce(h)'
  <2>1. CASE h # g
    <3>1. mailbox'[h] = mailbox[h] /\ current'[h] = current[h]
      BY <1>0, <1>1, <2>1, Zenon
    <3> QED
      BY <3>1, SameQueue, Zenon DEF SessionParts, MessageInv
  <2>2. CASE h = g
    <3>1. current'[h] = <<>> /\ mailbox'[h] = <<Request(s)>>
      BY <1>0, <1>1, <1>3, <2>2, Zenon
    <3>2. Range(current'[h]) = {}
      BY <3>1, RangeOfEmpty, Zenon
    <3>3. DOMAIN <<Request(s)>> = {1}
      OBVIOUS
    <3> QED
      BY <3>1, <3>2, <3>3 DEF OpenedOnce
  <2> QED
    BY <2>1, <2>2, Zenon
<1>9. \A h \in Gens \ {g} : Request(s) \in Held(h) => Request(s).kind # "SessionOpened"
  BY <1>2, <1>6 DEF SessionParts, MessageInv, MessageFits
<1>10. MessageInv'
  BY <1>5, <1>7, <1>8, <1>9 DEF SessionParts, MessageInv
<1>11. ASSUME NEW t \in registry', Established(t)' PROVE Attended(t)'
  <2>1. t \in registry /\ Established(t) /\ Attended(t)
    BY <1>0, <1>2, <1>11, <1>t, Zenon DEF Established, SessionParts, ActorInv
  <2>2. AddressOf[t] \in Addresses \ {a} /\ route[AddressOf[t]] # NoRoute
    BY <1>0, <1>t, <2>1, RuntimeAssumption, Zenon DEF Attended, HasActor
  <2>3. route[AddressOf[t]].gen \in Gens /\ pc[route[AddressOf[t]].gen] # "none"
    <3>1. RouteLeads(AddressOf[t]) /\ spawned \in 0..MaxGen /\ MaxGen \in Nat
      BY <2>2, RuntimeAssumption, Zenon DEF RuntimeInv, RouteInv, TypeOK
    <3>2. route[AddressOf[t]].gen \in 1..spawned
      BY <3>1, Zenon DEF RouteLeads
    <3>3. route[AddressOf[t]].gen \in Gens /\ ~(route[AddressOf[t]].gen > spawned)
      BY <3>1, <3>2 DEF Gens
    <3> QED
      BY <3>3, Zenon DEF RuntimeInv, RouteInv
  <2>4. /\ route'[AddressOf[t]] = route[AddressOf[t]]
        /\ pc'[route[AddressOf[t]].gen] = pc[route[AddressOf[t]].gen] /\ opened' = opened
    BY <1>0, <1>1, <1>3, <2>2, <2>3, Zenon
  <2> QED
    BY <2>1, <2>4, Zenon DEF Attended, HasActor, Closed
<1> QED
  BY <1>4, <1>10, <1>11, Zenon DEF SessionParts, ActorInv

-----------------------------------------------------------------------------
(* Tasks of Actors.                                                        *)

\* A task answers the opens among some of its messages and keeps others.
LEMMA AnsweringKeepsMessages ==
  ASSUME RuntimeInv, SessionParts, NEW g \in Gens, UNCHANGED <<addr, caller>>,
         NEW msgs \in SUBSET Held(g), NEW r,
         \A s \in SessionIds : answer'[s] = IF s \in Opens(msgs) THEN r ELSE answer[s],
         \A h \in Gens \ {g} : mailbox'[h] = mailbox[h] /\ current'[h] = current[h],
         Held(g)' \subseteq Held(g),
         \A m \in Held(g)' \cap msgs : m.kind # "SessionOpened",
         OpenedOnce(g)'
  PROVE  /\ AnswerInv' /\ MessageInv'
         /\ \A s \in SessionIds : Established(s)' =>
              Established(s) \/ (s \in Opens(msgs) /\ r = "ok")
<1>1. \A s \in Opens(msgs) : s \in SessionIds /\ caller[s] = "waiting" /\ answer[s] = "none"
  <2> TAKE s \in Opens(msgs)
  <2>1. s \in SessionIds /\ Message("SessionOpened", s) \in Held(g)
    BY Zenon DEF Opens
  <2>2. MessageFits(g, Message("SessionOpened", s))
    BY <2>1, Zenon DEF SessionParts, MessageInv
  <2> QED
    BY <2>1, <2>2, Zenon DEF MessageFits, Message
<1>2. AnswerInv'
  BY <1>1, Zenon DEF SessionParts, AnswerInv
<1>3. \A h \in Gens : Held(h)' \subseteq Held(h)
  BY Zenon DEF Held
<1>4. ASSUME NEW h \in Gens, NEW m \in Held(h)' PROVE MessageFits(h, m)'
  <2>1. m \in Held(h) /\ MessageFits(h, m) /\ m \in Messages /\ m.session \in SessionIds
    BY <1>3, <1>4, HeldTyped, Zenon DEF SessionParts, MessageInv
  <2>2. ASSUME m.kind = "SessionOpened" PROVE m.session \notin Opens(msgs)
    <3>1. m = Message("SessionOpened", m.session)
      BY <2>1, <2>2, Zenon DEF Messages, Message
    <3>2. m \in msgs => h = g
      BY <2>1, <2>2, Zenon DEF SessionParts, MessageInv
    <3> QED
      BY <1>4, <2>2, <3>1, <3>2, Zenon DEF Opens
  <2>3. /\ addr'[h] = addr[h] /\ caller'[m.session] = caller[m.session]
        /\ m.kind = "SessionOpened" => answer'[m.session] = answer[m.session]
    BY <2>1, <2>2, Zenon
  <2> QED
    BY <2>1, <2>3, Zenon DEF MessageFits
<1>5. \A h \in Gens : OpenedOnce(h)'
  BY SameQueue, Zenon DEF SessionParts, MessageInv
<1>6. MessageInv'
  BY <1>3, <1>4, <1>5, Zenon DEF SessionParts, MessageInv
<1>7. \A s \in SessionIds : Established(s)' =>
        Established(s) \/ (s \in Opens(msgs) /\ r = "ok")
  BY Zenon DEF Established
<1> QED
  BY <1>2, <1>6, <1>7, Zenon

\* A task may stop attending only where it attends nobody.
LEMMA TaskAttends ==
  ASSUME RuntimeInv, NEW g \in Gens, addr' = addr,
         \A b \in Addresses \ {addr[g]} : route'[b] = route[b],
         ~IsRoute(g) => route'[addr[g]] = route[addr[g]],
         \A h \in Gens \ {g} : pc'[h] = pc[h] /\ opened'[h] = opened[h],
         NEW t \in SessionIds, Attended(t),
         IsRoute(g) /\ AddressOf[t] = addr[g] =>
           /\ route'[addr[g]] = route[addr[g]] /\ (t \in opened[g] => t \in opened'[g])
           /\ ~Closed(g)' /\ pc'[g] \notin {"activating", "idle", "ending"}
  PROVE  Attended(t)'
<1> DEFINE a == AddressOf[t]
<1>1. a \in Addresses /\ route[a] # NoRoute /\ route[a].gen \in Gens /\ addr[route[a].gen] = a
  BY RouteOfSession, RuntimeAssumption, Zenon DEF Attended, HasActor
<1>2. CASE route[a].gen = g
  <2>1. IsRoute(g) /\ a = addr[g]
    BY <1>1, <1>2, Zenon DEF IsRoute
  <2> QED
    BY <1>1, <1>2, <2>1, Zenon DEF Attended, HasActor, Closed
<1>3. CASE route[a].gen # g
  <2>1. route'[a] = route[a]
    BY <1>1, <1>3, Zenon DEF IsRoute
  <2> QED
    BY <1>1, <1>3, <2>1, Zenon DEF Attended, HasActor, Closed
<1> QED
  BY <1>2, <1>3, Zenon

\* A task that ends where it attends nobody: the opens it still holds fail.
LEMMA EndingKeepsSessions ==
  ASSUME RuntimeInv, SessionParts, NEW g \in Gens, EndTask(g), UNCHANGED caller,
         registry' \subseteq registry,
         \A t \in registry' : IsRoute(g) /\ AddressOf[t] = addr[g] => ~Attended(t)
  PROVE  SessionParts'
<1>t. TypeOK
  BY Zenon DEF RuntimeInv
<1>1. /\ addr' = addr /\ mailbox'[g] = <<>> /\ current'[g] = <<>>
      /\ \A h \in Gens \ {g} : /\ mailbox'[h] = mailbox[h] /\ current'[h] = current[h]
                               /\ pc'[h] = pc[h] /\ opened'[h] = opened[h]
  BY <1>t, Zenon DEF EndTask, Goto, TypeOK
<1>2. Held(g)' = {} /\ OpenedOnce(g)'
  BY <1>1, RangeOfEmpty DEF Held, OpenedOnce
<1>3. \A s \in SessionIds : answer'[s] = IF s \in Opens(Held(g)) THEN "error" ELSE answer[s]
  BY Zenon DEF EndTask, Complete
<1>4. /\ AnswerInv' /\ MessageInv'
      /\ \A s \in SessionIds : Established(s)' => Established(s)
  BY <1>1, <1>2, <1>3, AnsweringKeepsMessages, Zenon
<1>5. /\ \A b \in Addresses \ {addr[g]} : route'[b] = route[b]
      /\ ~IsRoute(g) => route'[addr[g]] = route[addr[g]]
  BY <1>t, Zenon DEF EndTask, RemoveRoute, TypeOK
<1>6. ASSUME NEW t \in registry', Established(t)' PROVE Attended(t)'
  <2>1. t \in SessionIds /\ Attended(t)
    BY <1>4, <1>6, <1>t, Zenon DEF SessionParts, ActorInv, TypeOK
  <2> QED
    BY <1>1, <1>5, <2>1, TaskAttends, Zenon
<1> QED
  BY <1>4, <1>6, Zenon DEF SessionParts, ActorInv

\* A task that establishes no Session has to attend those it attended.
LEMMA TaskKeepsActors ==
  ASSUME RuntimeInv, SessionParts, NEW g \in Gens, NEW l \in Pcs, Goto(g, l), addr' = addr,
         registry' \subseteq registry,
         \A b \in Addresses \ {addr[g]} : route'[b] = route[b],
         ~IsRoute(g) => route'[addr[g]] = route[addr[g]],
         \A h \in Gens \ {g} : opened'[h] = opened[h],
         \A s \in SessionIds : Established(s)' => Established(s),
         \A t \in registry' : IsRoute(g) /\ AddressOf[t] = addr[g] /\ Attended(t) =>
           /\ route'[addr[g]] = route[addr[g]] /\ (t \in opened[g] => t \in opened'[g])
           /\ l \in {"loop", "busy", "stopping", "deactivating"}
  PROVE  ActorInv'
<1>t. TypeOK
  BY Zenon DEF RuntimeInv
<1>1. pc'[g] = l /\ \A h \in Gens \ {g} : pc'[h] = pc[h]
  BY <1>t, Zenon DEF Goto, TypeOK
<1>2. l \in {"loop", "busy", "stopping", "deactivating"} =>
        ~Closed(g)' /\ pc'[g] \notin {"activating", "idle", "ending"}
  BY <1>1, Zenon DEF Closed
<1>3. ASSUME NEW t \in registry', Established(t)' PROVE Attended(t)'
  <2>1. t \in SessionIds /\ Attended(t)
    BY <1>3, <1>t, Zenon DEF SessionParts, ActorInv, TypeOK
  <2>2. IsRoute(g) /\ AddressOf[t] = addr[g] =>
           /\ route'[addr[g]] = route[addr[g]] /\ (t \in opened[g] => t \in opened'[g])
           /\ ~Closed(g)' /\ pc'[g] \notin {"activating", "idle", "ending"}
    BY <2>1, <1>2, Zenon
  <2> QED
    BY <1>1, <2>1, <2>2, TaskAttends, Zenon
<1> QED
  BY <1>3, Zenon DEF ActorInv

\* A task that only moves keeps every message and every answer.
LEMMA MovingKeepsMessages ==
  ASSUME SessionParts, UNCHANGED <<addr, caller, answer, queueVars>>
  PROVE  /\ AnswerInv' /\ MessageInv'
         /\ \A s \in SessionIds : Established(s)' => Established(s)
<1>1. AnswerInv' /\ \A s \in SessionIds : Established(s)' => Established(s)
  BY Zenon DEF SessionParts, AnswerInv, Established
<1>2. MessageInv'
  BY DEF SessionParts, MessageInv, MessageFits, OpenedOnce, Held, queueVars
<1> QED
  BY <1>1, <1>2, Zenon

\* Whom a task attends: not while it activates, is idle or ends, nor when its
\* mailbox is closed or its route deactivates.
LEMMA AttendedByTask ==
  ASSUME RuntimeInv, NEW g \in Gens, IsRoute(g), NEW t \in SessionIds, AddressOf[t] = addr[g],
         Attended(t)
  PROVE  /\ pc[g] \notin {"activating", "idle", "ending", "deactivating"} /\ ~Closed(g)
         /\ t \in opened[g]
<1>1. addr[g] \in Addresses
  BY Zenon DEF RuntimeInv, TypeOK
<1> QED
  BY <1>1 DEF Attended, HasActor, IsRoute, RuntimeInv, RouteInv, RouteLeads

\* What the activation of an Actor does to Sessions.
LEMMA ActivationKeepsSessions ==
  ASSUME RuntimeInv, SessionParts, NEW g \in Gens, Activation(g)
  PROVE  SessionParts'
<1>t. TypeOK
  BY Zenon DEF RuntimeInv
<1>a. registry \subseteq SessionIds /\ {"loop", "failing", "failed"} \subseteq Pcs
  BY <1>t, Zenon DEF TypeOK, Pcs
<1>1. ASSUME Activated(g) \/ ActivationFails(g) PROVE SessionParts'
  <2>1. /\ UNCHANGED <<addr, caller, answer, queueVars, route, registry, opened>>
        /\ pc[g] = "activating"
    BY <1>1, Zenon DEF Activated, ActivationFails, routeVars, otherVars, callVars
  <2>2. PICK l \in {"loop", "failing"} : Goto(g, l)
    BY <1>1, Zenon DEF Activated, ActivationFails
  <2>3. \A t \in registry' : ~(IsRoute(g) /\ AddressOf[t] = addr[g] /\ Attended(t))
    BY <2>1, <1>a, AttendedByTask, Zenon
  <2>4. ActorInv'
    BY <2>1, <2>2, <2>3, <1>a, MovingKeepsMessages, TaskKeepsActors, Zenon
  <2> QED
    BY <2>1, <2>4, MovingKeepsMessages, Zenon DEF SessionParts
<1>2. ASSUME FailedUnroutes(g) PROVE SessionParts'
  <2>1. /\ addr' = addr /\ caller' = caller /\ registry' = registry /\ opened' = opened
        /\ pc[g] = "failing" /\ Goto(g, "failed") /\ mailbox'[g] = <<>> /\ current' = current
        /\ \A h \in Gens \ {g} : mailbox'[h] = mailbox[h]
        /\ \A b \in Addresses \ {addr[g]} : route'[b] = route[b]
        /\ ~IsRoute(g) => route'[addr[g]] = route[addr[g]]
    BY <1>2, <1>t, Zenon DEF FailedUnroutes, RemoveRoute, TypeOK, otherVars, callVars
  <2>2. current[g] = <<>>
    BY <2>1, Zenon DEF RuntimeInv, QueueInv
  <2>3. Held(g)' = {} /\ OpenedOnce(g)' /\ Held(g) = Range(mailbox[g])
    BY <2>1, <2>2, RangeOfEmpty DEF Held, OpenedOnce
  <2>4. \A s \in SessionIds : answer'[s] = IF s \in Opens(Held(g)) THEN "error" ELSE answer[s]
    BY <1>2, <2>3, Zenon DEF FailedUnroutes, Complete
  <2>5. /\ AnswerInv' /\ MessageInv'
        /\ \A s \in SessionIds : Established(s)' => Established(s)
    BY <2>1, <2>3, <2>4, AnsweringKeepsMessages
  <2>6. \A t \in registry' : ~(IsRoute(g) /\ AddressOf[t] = addr[g] /\ Attended(t))
    BY <2>1, <1>a, AttendedByTask, Zenon DEF Closed
  <2>7. ActorInv'
    BY <2>1, <2>5, <2>6, <1>a, TaskKeepsActors, Zenon
  <2> QED
    BY <2>5, <2>7, Zenon DEF SessionParts
<1>3. ASSUME FailedEnds(g) PROVE SessionParts'
  BY <1>3, EndingKeepsSessions, Zenon DEF FailedEnds, TerminateAll, callVars
<1> QED
  BY <1>1, <1>2, <1>3, Zenon DEF Activation

\* Idle passivation concerns only an Actor that attends nobody.
LEMMA PassivationKeepsSessions ==
  ASSUME RuntimeInv, SessionParts, NEW g \in Gens, Passivation(g)
  PROVE  SessionParts'
<1>t. TypeOK
  BY DEF RuntimeInv
<1>a. registry \subseteq SessionIds /\ {"loop", "idle", "deactivating"} \subseteq Pcs
  BY <1>t, Zenon DEF TypeOK, Pcs
<1>1. ASSUME IdleCheck(g) PROVE SessionParts'
  <2>1. /\ UNCHANGED <<addr, caller, answer, queueVars, route, registry, opened>>
        /\ Goto(g, "idle") /\ \A t \in registry' : AddressOf[t] # addr[g]
    BY <1>1, Zenon DEF IdleCheck, routeVars, otherVars, callVars
  <2>2. ActorInv'
    BY <2>1, <1>a, MovingKeepsMessages, TaskKeepsActors, Zenon
  <2> QED
    BY <2>1, <2>2, MovingKeepsMessages, Zenon DEF SessionParts
<1>2. ASSUME BeginDeactivation(g) PROVE SessionParts'
  <2>1. /\ UNCHANGED <<addr, caller, answer, queueVars, registry, opened>> /\ pc[g] = "idle"
        /\ \A b \in Addresses \ {addr[g]} : route'[b] = route[b]
        /\ ~IsRoute(g) => route'[addr[g]] = route[addr[g]]
    BY <1>2, <1>t, Zenon DEF BeginDeactivation, otherVars, callVars, TypeOK
  <2>2. PICK l \in {"loop", "deactivating"} : Goto(g, l)
    BY <1>2, Zenon DEF BeginDeactivation
  <2>3. \A t \in registry' : ~(IsRoute(g) /\ AddressOf[t] = addr[g] /\ Attended(t))
    BY <2>1, <1>a, AttendedByTask, Zenon
  <2>4. ActorInv'
    BY <2>1, <2>2, <2>3, <1>a, MovingKeepsMessages, TaskKeepsActors
  <2> QED
    BY <2>1, <2>4, MovingKeepsMessages, Zenon DEF SessionParts
<1>3. ASSUME Passivated(g) PROVE SessionParts'
  <2>1. pc[g] = "deactivating" /\ EndTask(g) /\ caller' = caller /\ registry' = registry
    BY <1>3, Zenon DEF Passivated, otherVars, callVars
  <2>2. \A t \in registry' : IsRoute(g) /\ AddressOf[t] = addr[g] => ~Attended(t)
    BY <2>1, <1>a, AttendedByTask, Zenon
  <2> QED
    BY <2>1, <2>2, EndingKeepsSessions, Zenon
<1> QED
  BY <1>1, <1>2, <1>3, Zenon DEF Passivation

\* Taking the next message: the open of a Session is held once, before and after.
LEMMA ReceivingKeepsSessions ==
  ASSUME RuntimeInv, SessionParts, NEW g \in Gens, Receive(g)
  PROVE  SessionParts'
<1>t. TypeOK
  BY DEF RuntimeInv
<1>a. registry \subseteq SessionIds /\ "busy" \in Pcs
  BY <1>t, Zenon DEF TypeOK, Pcs
<1>1. /\ UNCHANGED <<addr, caller, answer, route, registry, opened>> /\ Goto(g, "busy")
      /\ pc[g] = "loop" /\ mailbox[g] # <<>>
      /\ current'[g] = <<Head(mailbox[g])>> /\ mailbox'[g] = Tail(mailbox[g])
      /\ \A h \in Gens \ {g} : mailbox'[h] = mailbox[h] /\ current'[h] = current[h]
  BY <1>t, Zenon DEF Receive, TypeOK, routeVars, otherVars, callVars
<1>2. mailbox[g] \in Seq(Messages) /\ current[g] = <<>>
  BY <1>1, <1>t DEF RuntimeInv, QueueInv, TypeOK
<1>3. /\ Range(mailbox'[g]) \subseteq Range(mailbox[g])
      /\ Range(current'[g]) = {Head(mailbox[g])} /\ Head(mailbox[g]) \in Range(mailbox[g])
  BY <1>1, <1>2, RangeOfHead, Zenon
<1>4. Held(g)' \subseteq Held(g)
  BY <1>3 DEF Held
<1>5. OpenedOnce(g)'
  <2> DEFINE q == mailbox[g]
  <2>1. OpenedOnce(g)
    BY Zenon DEF SessionParts, MessageInv
  <2>2. \A i \in DOMAIN Tail(q) : i + 1 \in DOMAIN q /\ Tail(q)[i] = q[i + 1] /\ i \in Nat \ {0}
    BY <1>1, <1>2
  <2>3. \A i, j \in DOMAIN Tail(q) :
          Tail(q)[i].kind = "SessionOpened" /\ Tail(q)[i] = Tail(q)[j] => i = j
    BY <2>1, <2>2 DEF OpenedOnce
  <2>4. ASSUME NEW m \in {Head(q)} \cap Range(Tail(q)) PROVE m.kind # "SessionOpened"
    <3>1. PICK i \in DOMAIN Tail(q) : m = Tail(q)[i]
      BY Zenon DEF Range
    <3>2. m = q[i + 1] /\ i + 1 \in DOMAIN q /\ i \in Nat \ {0}
      BY <2>2, <3>1, Zenon
    <3>3. m = q[1] /\ 1 \in DOMAIN q
      <4>1. Head(q) = q[1] /\ 1 \in DOMAIN q
        BY <1>1, <1>2
      <4> QED
        BY <2>4, <4>1, Zenon
    <3>4. i + 1 # 1
      BY <3>2
    <3> QED
      BY <2>1, <3>2, <3>3, <3>4, Zenon DEF OpenedOnce
  <2> QED
    BY <1>1, <1>3, <2>3, <2>4, Zenon DEF OpenedOnce
<1>6. \A s \in SessionIds : answer'[s] = IF s \in Opens({}) THEN "error" ELSE answer[s]
  BY <1>1, Zenon DEF Opens
<1>7. /\ AnswerInv' /\ MessageInv'
      /\ \A s \in SessionIds : Established(s)' => Established(s)
  <2>1. {} \in SUBSET Held(g) /\ \A m \in Held(g)' \cap {} : m.kind # "SessionOpened"
    OBVIOUS
  <2> QED
    BY <1>1, <1>4, <1>5, <1>6, <2>1, AnsweringKeepsMessages, Zenon
<1>8. ActorInv'
  BY <1>1, <1>7, <1>a, TaskKeepsActors, Zenon
<1> QED
  BY <1>7, <1>8 DEF SessionParts

\* A busy task has exactly one message in hand.
LEMMA OneInHand ==
  ASSUME RuntimeInv, NEW g \in Gens, pc[g] = "busy"
  PROVE  current[g] \in Seq(Messages) /\ Len(current[g]) = 1 /\ current[g] # <<>>
<1>1. current[g] \in Seq(Messages)
  BY Zenon DEF RuntimeInv, TypeOK
<1>2. current[g] # <<>> /\ Len(current[g]) <= 1
  BY Zenon DEF RuntimeInv, QueueInv
<1>3. Len(current[g]) \in Nat /\ Len(current[g]) # 0
  BY <1>1, <1>2, LenOfNonempty, Zenon
<1>4. \A n \in Nat : n # 0 /\ n <= 1 => n = 1
  OBVIOUS
<1> QED
  BY <1>1, <1>2, <1>3, <1>4, Zenon

\* The handler of the message in hand has ended, well or not: the message is gone.
LEMMA MessageDone ==
  ASSUME RuntimeInv, SessionParts, NEW g \in Gens, pc[g] = "busy", UNCHANGED <<addr, caller, mailbox>>,
         NEW r, Complete(Range(current[g]), r), current' = [current EXCEPT ![g] = <<>>]
  PROVE  /\ AnswerInv' /\ MessageInv'
         /\ \A s \in SessionIds : Established(s)' =>
              Established(s) \/ (Message("SessionOpened", s) = Head(current[g]) /\ r = "ok")
<1>t. TypeOK
  BY Zenon DEF RuntimeInv
<1>1. /\ current'[g] = <<>> /\ \A h \in Gens \ {g} : current'[h] = current[h]
      /\ current[g] \in Seq(Messages) /\ Len(current[g]) = 1
  BY <1>t, OneInHand, Zenon DEF TypeOK
<1>2. Range(current[g]) = {Head(current[g])}
  BY <1>1 DEF Range
<1>3. /\ Range(current[g]) \in SUBSET Held(g) /\ Held(g)' = Range(mailbox[g])
      /\ Held(g)' \subseteq Held(g)
  BY <1>1, RangeOfEmpty, Zenon DEF Held
<1>4. OpenedOnce(g)
  BY Zenon DEF SessionParts, MessageInv
<1>5. OpenedOnce(g)' /\ \A m \in Held(g)' \cap Range(current[g]) : m.kind # "SessionOpened"
  BY <1>1, <1>3, <1>4, RangeOfEmpty, Zenon DEF OpenedOnce
<1>6. \A s \in SessionIds : answer'[s] = IF s \in Opens(Range(current[g])) THEN r ELSE answer[s]
  BY Zenon DEF Complete
<1>7. /\ AnswerInv' /\ MessageInv'
      /\ \A s \in SessionIds : Established(s)' =>
           Established(s) \/ (s \in Opens(Range(current[g])) /\ r = "ok")
  BY <1>1, <1>3, <1>5, <1>6, AnsweringKeepsMessages
<1>8. \A s \in Opens(Range(current[g])) : Message("SessionOpened", s) = Head(current[g])
  BY <1>2, Zenon DEF Opens
<1> QED
  BY <1>7, <1>8, Zenon

\* A handler that returns: on_session_opened establishes the Session at the Actor
\* the address routes to, on_session_closed concerns a Session that has ended.
LEMMA HandlingKeepsSessions ==
  ASSUME RuntimeInv, SessionParts, status = "RUNNING", NEW g \in Gens, Handled(g)
  PROVE  SessionParts'
<1>t. TypeOK /\ registry \subseteq SessionIds /\ "loop" \in Pcs
  BY DEF RuntimeInv, TypeOK, Pcs
<1> DEFINE m == Head(current[g])
<1>1. /\ pc[g] = "busy" /\ Goto(g, "loop") /\ pc'[g] = "loop"
      /\ UNCHANGED <<addr, caller, mailbox, route, registry>>
      /\ Complete(Range(current[g]), "ok") /\ current' = [current EXCEPT ![g] = <<>>]
      /\ \A h \in Gens \ {g} : opened'[h] = opened[h] /\ pc'[h] = pc[h]
  BY <1>t, Zenon DEF Handled, RuntimeInv, StatusInv, Goto, TypeOK, routeVars, otherVars, callVars
<1>2. opened'[g] = CASE m.kind = "SessionOpened" -> opened[g] \cup {m.session}
                     [] m.kind = "SessionClosed" -> opened[g] \ {m.session}
                     [] OTHER -> opened[g]
  BY <1>t, Zenon DEF Handled, TypeOK
<1>3. /\ AnswerInv' /\ MessageInv'
      /\ \A s \in SessionIds : Established(s)' =>
           Established(s) \/ Message("SessionOpened", s) = m
  BY <1>1, MessageDone, Zenon
<1>4. current[g] \in Seq(Messages) /\ Len(current[g]) = 1 /\ current[g] # <<>>
  BY <1>1, OneInHand, Zenon
<1>5. m \in Held(g) /\ m \in Messages /\ MessageFits(g, m)
  <2>2. m \in Held(g)
    BY <1>4, RangeOfHead, Zenon DEF Held
  <2> QED
    BY <2>2, HeldTyped, Zenon DEF SessionParts, MessageInv
<1>6. IsRoute(g) /\ route[addr[g]] # NoRoute /\ ~route[addr[g]].deactivating /\ addr[g] \in Addresses
  <2>1. IsRoute(g) /\ addr[g] \in Addresses /\ route[addr[g]] # NoRoute
    BY <1>1, RunningHasRoute, Zenon DEF Runs
  <2>2. RouteLeads(addr[g])
    BY <2>1, Zenon DEF RuntimeInv, RouteInv
  <2> QED
    BY <1>1, <2>1, <2>2, Zenon DEF RouteLeads, IsRoute
<1>7. ASSUME NEW t \in registry', Established(t)' PROVE Attended(t)'
  <2>0. t \in SessionIds
    BY <1>1, <1>t, Zenon
  <2>1. CASE Message("SessionOpened", t) = m
    <3>1. m.kind = "SessionOpened" /\ m.session = t
      BY <2>1 DEF Message
    <3>2. t \in opened'[g] /\ AddressOf[t] = addr[g]
      BY <3>1, <1>2, <1>5, Zenon DEF MessageFits
    <3> QED
      BY <1>1, <1>6, <3>2, Zenon DEF Attended, HasActor, IsRoute, Closed
  <2>2. CASE Established(t)
    <3>1. Attended(t)
      BY <2>2, <1>1, Zenon DEF SessionParts, ActorInv
    <3>2. m.kind = "SessionClosed" => m.session # t
      BY <2>2, <1>5, Zenon DEF MessageFits, Established
    <3>3. t \in opened[g] => t \in opened'[g]
      BY <3>2, <1>2, Zenon
    <3> QED
      BY <1>1, <2>0, <3>1, <3>3, TaskAttends DEF Closed
  <2> QED
    BY <1>3, <1>7, <2>0, <2>1, <2>2
<1> QED
  BY <1>3, <1>7, Zenon DEF SessionParts, ActorInv

\* A handler that panics: terminate_all runs before the task leaves the address.
LEMMA PanickingKeepsSessions ==
  ASSUME RuntimeInv, SessionParts, NEW g \in Gens,
         Panics(g) \/ PanicTerminates(g) \/ PanicEnds(g)
  PROVE  SessionParts'
<1>t. TypeOK /\ registry \subseteq SessionIds /\ {"stopping", "ending"} \subseteq Pcs
  BY Zenon DEF RuntimeInv, TypeOK, Pcs
<1>1. ASSUME Panics(g) PROVE SessionParts'
  <2>1. /\ pc[g] = "busy" /\ Goto(g, "stopping")
        /\ UNCHANGED <<addr, caller, mailbox, route, registry, opened>>
        /\ Complete(Range(current[g]), "error") /\ current' = [current EXCEPT ![g] = <<>>]
    BY <1>1, Zenon DEF Panics, routeVars, otherVars, callVars
  <2>e. /\ AnswerInv' /\ MessageInv'
        /\ \A s \in SessionIds : Established(s)' =>
             Established(s) \/ (Message("SessionOpened", s) = Head(current[g]) /\ "error" = "ok")
    BY <2>1, MessageDone, Zenon
  <2>2. /\ AnswerInv' /\ MessageInv'
        /\ \A s \in SessionIds : Established(s)' => Established(s)
    BY <2>e, Zenon
  <2>3. ActorInv'
    BY <2>1, <2>2, <1>t, TaskKeepsActors
  <2> QED
    BY <2>2, <2>3, Zenon DEF SessionParts
<1>2. ASSUME PanicTerminates(g) PROVE SessionParts'
  <2>1. /\ Goto(g, "ending") /\ UNCHANGED <<addr, caller, answer, queueVars, route, opened>>
        /\ registry' \subseteq registry /\ \A t \in registry' : AddressOf[t] # addr[g]
    BY <1>2, Zenon DEF PanicTerminates, TerminateAll, routeVars, callVars
  <2>2. ActorInv'
    BY <2>1, <1>t, MovingKeepsMessages, TaskKeepsActors, Zenon
  <2> QED
    BY <2>1, <2>2, MovingKeepsMessages, Zenon DEF SessionParts
<1>3. ASSUME PanicEnds(g) PROVE SessionParts'
  <2>1. pc[g] = "ending" /\ EndTask(g) /\ caller' = caller /\ registry' = registry
    BY <1>3, Zenon DEF PanicEnds, otherVars, callVars
  <2>2. \A t \in registry' : IsRoute(g) /\ AddressOf[t] = addr[g] => ~Attended(t)
    BY <2>1, <1>t, AttendedByTask
  <2> QED
    BY <2>1, <2>2, EndingKeepsSessions, Zenon
<1> QED
  BY <1>1, <1>2, <1>3

\* While the node is RUNNING nobody drains or aborts a task.
LEMMA TaskKeepsSessions ==
  ASSUME RuntimeInv, SessionParts, status = "RUNNING", NEW g \in Gens, Task(g)
  PROVE  SessionParts'
<1>1. ~Drain(g) /\ ~Cancelled(g)
  BY Zenon DEF RuntimeInv, StatusInv, Drain, BeginDrain, DrainReceive, DrainPanics, DrainTerminates,
         DrainEnds, Cancelled
<1>2. Work(g) => SessionParts'
  BY ReceivingKeepsSessions, HandlingKeepsSessions, PanickingKeepsSessions, Zenon DEF Work
<1> QED
  BY <1>1, <1>2, ActivationKeepsSessions, PassivationKeepsSessions, Zenon DEF Task

-----------------------------------------------------------------------------
(* Every step, and the theorems.                                           *)

\* A Server that has just started has no Session.
LEMMA InitSessions == Init => SessionInv
<1> SUFFICES ASSUME Init PROVE SessionInv
  OBVIOUS
<1>1. \A g \in Gens : Held(g) = {} /\ mailbox[g] = <<>> /\ current[g] = <<>>
  BY RangeOfEmpty, Zenon DEF Init, Held
<1>2. \A g \in Gens : OpenedOnce(g)
  BY <1>1, RangeOfEmpty DEF OpenedOnce
<1> QED
  BY <1>1, <1>2, Zenon DEF Init, SessionInv, AnswerInv, MessageInv, ActorInv

\* shutdown and fence end RUNNING, or have begun and it has ended already.
LEMMA StopsEndRunning ==
  ASSUME RuntimeInv, BeginShutdown \/ ShutdownStep \/ BeginFence \/ EndFence
  PROVE  status' # "RUNNING"
BY Zenon DEF RuntimeInv, StatusInv, BeginShutdown, ShutdownStep, ShutdownDrained, ShutdownTimesOut,
       ShutdownClears, EndShutdown, BeginFence, EndFence

\* Every step keeps SessionInv.
LEMMA StepKeepsSessions ==
  ASSUME RuntimeInv, SessionInv, [Next]_vars
  PROVE  SessionInv'
<1>1. CASE UNCHANGED vars
  <2>1. /\ status' = status /\ route' = route /\ addr' = addr /\ pc' = pc /\ mailbox' = mailbox
        /\ current' = current /\ opened' = opened /\ registry' = registry /\ caller' = caller
        /\ answer' = answer
    BY <1>1, Zenon DEF vars, routeVars, queueVars, callVars
  <2>2. ASSUME SessionParts PROVE SessionParts'
    <3>1. AnswerInv' /\ MessageInv'
      BY <2>1, <2>2, MovingKeepsMessages, Zenon DEF queueVars
    <3>2. ActorInv => ActorInv'
      BY <2>1, Zenon DEF ActorInv, Established, Attended, HasActor, Closed
    <3> QED
      BY <2>2, <3>1, <3>2, Zenon DEF SessionParts
  <2> QED
    BY <2>1, <2>2, Zenon DEF SessionInv, SessionParts
<1>2. ASSUME NEW s \in SessionIds,
             Resolve(s) \/ BeginAction(s) \/ CloseSession(s) \/ Inbound(s)
      PROVE  SessionInv'
  <2>1. status' = status
    BY <1>2 DEF Resolve, BeginAction, CloseSession, Inbound, OpenStep, RegisterRefused, Register,
                OpenAnswered, Dispatch, DispatchDelivered, ClosedRouteReplaced, DispatchSpawned,
                DispatchRefused, NotifyClosed, InboundDropped
  <2>2. ASSUME status = "RUNNING" PROVE SessionParts'
    <3>1. SessionParts
      BY <2>2, Zenon DEF SessionInv, SessionParts
    <3> QED
      BY <1>2, <2>2, <3>1, InboundKeepsSessions, ReplacingKeepsSessions, SpawningKeepsSessions, Zenon
      DEF Inbound, OpenStep, Dispatch
  <2> QED
    BY <2>1, <2>2, Zenon DEF SessionInv, SessionParts
<1>3. ASSUME NEW g \in Gens, Task(g) PROVE SessionInv'
  <2>1. status' = status
    BY <1>3, Zenon DEF Task, Activation, Activated, ActivationFails, FailedUnroutes, FailedEnds, Work, Receive,
                Handled, Panics, PanicTerminates, PanicEnds, Passivation, IdleCheck,
                BeginDeactivation, Passivated, Drain, BeginDrain, DrainReceive, DrainPanics,
                DrainTerminates, DrainEnds, Cancelled, otherVars
  <2>2. ASSUME status = "RUNNING" PROVE SessionParts'
    <3>1. SessionParts
      BY <2>2, Zenon DEF SessionInv, SessionParts
    <3> QED
      BY <1>3, <2>2, <3>1, TaskKeepsSessions, Zenon
  <2> QED
    BY <2>1, <2>2, Zenon DEF SessionInv, SessionParts
<1>4. CASE BeginShutdown \/ ShutdownStep \/ BeginFence \/ EndFence
  BY <1>4, StopsEndRunning, Zenon DEF SessionInv
<1> QED
  BY <1>1, <1>2, <1>3, <1>4, Zenon DEF Next

\* SessionInv is an invariant of every runtime: what open_local_session, the
\* mailboxes and the registry know of a Session agree while the node is RUNNING.
THEOREM SessionInvariance ==
  ASSUME Env = {}
  PROVE  Spec => [](RuntimeInv /\ SessionInv)
<1>1. RuntimeInv /\ SessionInv /\ [Next]_vars => (RuntimeInv /\ SessionInv)'
  BY StepKeepsRuntime, StepKeepsSessions, Zenon
<1> QED
  BY <1>1, InitRuntime, InitSessions, PTL DEF Spec

\* While the node is RUNNING every acknowledged Session has the Actor that ran
\* on_session_opened for it: neither passivation, nor a failed activation, nor a
\* panic, nor the replacement of a route takes it away.
THEOREM SessionSafe ==
  ASSUME Env = {}
  PROVE  Spec => []OpenSessionHasActor
<1>1. SessionInv => OpenSessionHasActor
  BY Zenon DEF SessionInv, ActorInv, OpenSessionHasActor, Established, Attended
<1> QED
  BY <1>1, SessionInvariance, PTL
=============================================================================
