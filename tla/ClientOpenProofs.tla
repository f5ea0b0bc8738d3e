-------------------------- MODULE ClientOpenProofs --------------------------
(***************************************************************************)
(* Proofs about ClientOpen, for any number of open() calls, endpoints and  *)
(* connections, any limits and any number of attempts: each step preserves *)
(* ClientInv, conjunct by conjunct, and the invariants follow.             *)
(***************************************************************************)
EXTENDS ClientOpen, FiniteSetTheorems, TLAPS

\* The places of an open() whose Placement is counted.
Counting == {"lock", "connect", "bound", "send", "wait", "open", "dropped"}

\* The Placements counted at an endpoint, as InFlightIsExact counts them.
Counted(e) == {o \in Opens : /\ Placing(o) /\ target[o].endpoint = e
                             /\ pc[o] \in Counting}

\* Counting is what the invariant counts, and it is finite.
LEMMA CountedFacts ==
  ASSUME NEW e \in Endpoints
  PROVE  /\ IsFiniteSet(Counted(e)) /\ Cardinality(Counted(e)) \in Nat
         /\ InFlightIsExact => inFlight[e] = Cardinality(Counted(e))
<1>1. Counted(e) \in SUBSET Opens
  BY Zenon DEF Counted
<1>2. IsFiniteSet(Counted(e))
  BY <1>1, ClientAssumption, FS_Subset, Zenon
<1> QED
  BY <1>2, FS_CardinalityType, Zenon DEF InFlightIsExact, Counted, Counting

\* The Placement of an attempt under way is in the count that RollBack takes it from.
LEMMA PlacingIsCounted ==
  ASSUME TypeOK, InFlightIsExact, NEW o \in Opens, Placing(o), pc[o] \in Counting
  PROVE  inFlight[target[o].endpoint] \in Nat \ {0}
<1> DEFINE e == target[o].endpoint
<1>1. e \in Endpoints
  BY Zenon DEF TypeOK, OpenTypes
<1>2. o \in Counted(e)
  BY Zenon DEF Counted
<1>3. Cardinality(Counted(e)) # 0
  BY <1>1, <1>2, CountedFacts, FS_EmptySet, Zenon
<1> QED
  BY <1>1, <1>3, CountedFacts, Zenon

\* What an attempt that fails does to the count keeps its type.
LEMMA RollBackType ==
  ASSUME TypeOK, InFlightIsExact, NEW o \in Opens, pc[o] \in Counting, RollBack(o)
  PROVE  inFlight' \in [Endpoints -> Nat]
<1>1. CASE Placing(o)
  <2>1. inFlight \in [Endpoints -> Nat] /\ inFlight[target[o].endpoint] - 1 \in Nat
    BY <1>1, PlacingIsCounted DEF TypeOK
  <2> QED
    BY <1>1, <2>1, Zenon DEF RollBack
<1>2. CASE ~Placing(o)
  BY <1>2, Zenon DEF RollBack, TypeOK
<1> QED
  BY <1>1, <1>2, Zenon

\* A call that gives up, and one that tries again, keep the types.
LEMMA FailTypes ==
  ASSUME TypeOK, NEW o \in Opens, Fail(o)
  PROVE  pc' \in [Opens -> Pcs] /\ pending' \in [Opens -> 0..MaxConnections] /\ receivers' \subseteq Opens
  BY ClientAssumption DEF TypeOK, OpenTypes, SharedTypes, Fail, Goto, Pcs

\* Going round again keeps the types: an endpoint is excluded or an Owner remembered.
LEMMA RetryTypes ==
  ASSUME TypeOK, NEW o \in Opens, Retry(o)
  PROVE  /\ pc' \in [Opens -> Pcs] /\ excluded' \in [Opens -> SUBSET Endpoints]
         /\ failedOwner' \in [Opens -> Owners \cup {None}]
<1>1. pc' \in [Opens -> Pcs]
  BY Zenon DEF TypeOK, OpenTypes, Retry, Goto, Pcs
<1>2. target[o].endpoint \in Endpoints /\ target[o].owner \in Owners \cup {None}
  BY Zenon DEF TypeOK, OpenTypes
<1>3. excluded' \in [Opens -> SUBSET Endpoints]
  BY <1>2 DEF TypeOK, OpenTypes, Retry
<1>4. failedOwner' \in [Opens -> Owners \cup {None}]
  BY <1>2, Zenon DEF TypeOK, OpenTypes, Retry
<1> QED BY <1>1, <1>3, <1>4

\* unbind keeps the type of the bindings.
LEMMA UnbindType ==
  ASSUME TypeOK, NEW o \in Opens, connection[o] \in Connections, Unbind(o)
  PROVE  bound' \in [Connections -> SUBSET Opens]
  BY Zenon DEF TypeOK, SharedTypes, Unbind

\* An attempt that fails keeps the types.
LEMMA AttemptFailsTypes ==
  ASSUME TypeOK, InFlightIsExact, NEW o \in Opens, NEW err, AttemptFails(o, err), connection[o] \in Connections,
         pc[o] \in {"send", "wait"}
  PROVE  TypeOK'
<1>1. pc' \in [Opens -> Pcs] /\ pending' \in [Opens -> 0..MaxConnections] /\ receivers' \subseteq Opens
  <2>1. CASE Again(err, o) /\ err = "NotOwner"
    <3>1. /\ pc' = [pc EXCEPT ![o] = "resolve"] /\ pending' = [pending EXCEPT ![o] = 0]
          /\ receivers' = receivers
      BY <2>1, Zenon DEF AttemptFails, Goto
    <3> QED
      BY <3>1, ClientAssumption DEF TypeOK, OpenTypes, SharedTypes, Pcs
  <2>2. CASE Again(err, o) /\ err # "NotOwner"
    <3>1. Retry(o) /\ pending' = [pending EXCEPT ![o] = 0] /\ receivers' = receivers
      BY <2>2, Zenon DEF AttemptFails
    <3> QED
      BY <3>1, RetryTypes, ClientAssumption DEF TypeOK, OpenTypes, SharedTypes
  <2>3. CASE ~Again(err, o)
    BY <2>3, FailTypes, Zenon DEF AttemptFails
  <2> QED BY <2>1, <2>2, <2>3
<1>2. excluded' \in [Opens -> SUBSET Endpoints] /\ failedOwner' \in [Opens -> Owners \cup {None}]
  BY RetryTypes, Zenon DEF AttemptFails, TypeOK, OpenTypes
<1>3. bound' \in [Connections -> SUBSET Opens]
  BY UnbindType, Zenon DEF AttemptFails
<1>4. inFlight' \in [Endpoints -> Nat]
  BY RollBackType, Zenon DEF AttemptFails, Counting
<1> QED
  BY <1>1, <1>2, <1>3, <1>4, Zenon DEF AttemptFails, TypeOK, OpenTypes, SharedTypes, connVars

\* The connection of an attempt or of a Session has been made.
LEMMA UsedConnection ==
  ASSUME ClientInv, NEW o \in Opens, Using(o)
  PROVE  connection[o] \in 1..created /\ connection[o] \in Connections
<1>1. created \in 0..MaxConnections /\ connection[o] \in 1..created
  BY Zenon DEF ClientInv, TypeOK, SharedTypes, BindInv
<1> QED
  BY <1>1, ClientAssumption DEF Connections

-----------------------------------------------------------------------------
(* Steps of one call that neither bind it nor touch a pool.                *)

\* Nothing of another call changes.
OthersKeep(o) ==
  \A p \in Opens \ {o} :
    /\ pc'[p] = pc[p] /\ target'[p] = target[p] /\ connection'[p] = connection[p]
    /\ pending'[p] = pending[p] /\ answer'[p] = answer[p] /\ attempts'[p] = attempts[p]
    /\ p \in receivers' => p \in receivers

\* A step in which the call o goes on, or leaves its connection.
CallStep(o) ==
  /\ OthersKeep(o) /\ TypeOK' /\ InFlightIsExact' /\ AnswerInv(o)' /\ ReceiverInv(o)'
  /\ UNCHANGED <<connection, created, endpoint, closed, loop, leaving, pool, holder, stopped>>
  /\ pc[o] = "connect" \/ pc'[o] = "connect" => UNCHANGED <<pc, target>>
  /\ \/ UNCHANGED bound /\ (Using(o)' <=> Using(o))
     \/ Unbind(o) /\ Using(o) /\ ~Using(o)'

\* Such a step keeps the invariant.
LEMMA CallKeepsInv ==
  ASSUME ClientInv, NEW o \in Opens, CallStep(o)
  PROVE  ClientInv'
<1>0. /\ connection' = connection /\ created' = created /\ endpoint' = endpoint
      /\ closed' = closed /\ loop' = loop /\ leaving' = leaving /\ pool' = pool
      /\ holder' = holder /\ stopped' = stopped /\ OthersKeep(o)
  BY Zenon DEF CallStep
<1>t. TypeOK
  BY Zenon DEF ClientInv
<1>1. LoopInv'
  BY <1>0, Zenon DEF ClientInv, LoopInv
<1>2. PoolInv'
  <2>1. CASE pc[o] = "connect" \/ pc'[o] = "connect"
    BY <1>0, <2>1 DEF ClientInv, PoolInv, CallStep
  <2>2. CASE pc[o] # "connect" /\ pc'[o] # "connect"
    <3>1. \A p \in Opens : pc'[p] = "connect" => pc[p] = "connect" /\ target'[p] = target[p]
      BY <2>2, <1>0, Zenon DEF OthersKeep
    <3>2. \A p \in Opens : pc[p] = "connect" => pc'[p] = "connect" /\ target'[p] = target[p]
      BY <2>2, <1>0, Zenon DEF OthersKeep
    <3>3. \A e \in Endpoints : holder[e] # None => holder[e] \in Opens
      BY <1>t, Zenon DEF TypeOK, SharedTypes
    <3> QED
      BY <1>0, <3>1, <3>2, <3>3 DEF ClientInv, PoolInv
  <2> QED
    BY <2>1, <2>2, Zenon
<1>3. BindInv'
  <2>1. \A p \in Opens \ {o} : Using(p)' <=> Using(p)
    BY <1>0, Zenon DEF OthersKeep, Using
  <2>2. CASE UNCHANGED bound /\ (Using(o)' <=> Using(o))
    BY <1>0, <2>1, <2>2 DEF ClientInv, BindInv
  <2>3. CASE Unbind(o) /\ Using(o) /\ ~Using(o)'
    BY <1>0, <1>t, <2>1, <2>3 DEF ClientInv, BindInv, Unbind, TypeOK, SharedTypes
  <2> QED
    BY <2>2, <2>3, Zenon DEF CallStep
<1>4. ASSUME NEW p \in Opens PROVE AnswerInv(p)' /\ ReceiverInv(p)'
  BY <1>0 DEF ClientInv, CallStep, OthersKeep, AnswerInv, ReceiverInv, Attended, Settled
<1> QED
  BY <1>1, <1>2, <1>3, <1>4, Zenon DEF ClientInv, CallStep

\* The count of a call that neither begins nor ends a Placement.
LEMMA CountKept ==
  ASSUME InFlightIsExact, NEW o \in Opens, OthersKeep(o), UNCHANGED inFlight,
         \A e \in Endpoints : o \in Counted(e)' <=> o \in Counted(e)
  PROVE  InFlightIsExact'
<1> SUFFICES ASSUME NEW e \in Endpoints PROVE inFlight'[e] = Cardinality(Counted(e)')
  BY Zenon DEF InFlightIsExact, Counted, Counting
<1>1. Counted(e)' = Counted(e)
  BY Zenon DEF Counted, OthersKeep, Placing
<1> QED
  BY <1>1, CountedFacts, Zenon

\* The count of a Placement that failed.
LEMMA CountRolledBack ==
  ASSUME TypeOK, InFlightIsExact, NEW o \in Opens, OthersKeep(o), RollBack(o),
         pc[o] \in Counting, pc'[o] \notin Counting
  PROVE  InFlightIsExact'
<1> SUFFICES ASSUME NEW e \in Endpoints PROVE inFlight'[e] = Cardinality(Counted(e)')
  BY Zenon DEF InFlightIsExact, Counted, Counting
<1>1. Counted(e)' = Counted(e) \ {o}
  BY DEF Counted, OthersKeep, Placing
<1>2. Cardinality(Counted(e) \ {o}) =
        IF o \in Counted(e) THEN Cardinality(Counted(e)) - 1 ELSE Cardinality(Counted(e))
  BY CountedFacts, FS_RemoveElement, Zenon
<1>3. o \in Counted(e) <=> Placing(o) /\ target[o].endpoint = e
  BY Zenon DEF Counted
<1>4. inFlight \in [Endpoints -> Nat] /\ target[o].endpoint \in Endpoints
  BY Zenon DEF TypeOK, OpenTypes
<1>5. inFlight[e] = Cardinality(Counted(e))
  BY CountedFacts, Zenon
<1>6. CASE Placing(o)
  <2>1. inFlight'[e] = IF target[o].endpoint = e THEN inFlight[e] - 1 ELSE inFlight[e]
    BY <1>4, <1>6, Zenon DEF RollBack
  <2> QED
    BY <1>1, <1>2, <1>3, <1>5, <1>6, <2>1, Zenon
<1>7. CASE ~Placing(o)
  <2>1. inFlight'[e] = inFlight[e]
    BY <1>7, Zenon DEF RollBack
  <2> QED
    BY <1>1, <1>2, <1>3, <1>5, <1>7, <2>1, Zenon
<1> QED
  BY <1>6, <1>7, Zenon
-----------------------------------------------------------------------------
(* The steps of open() that are such steps.                               *)

\* Beginning, finding no Owner, giving up before an attempt, being answered.
LEMMA PlainCallSteps ==
  ASSUME ClientInv, NEW o \in Opens,
         \/ BeginOpen(o) \/ DeadlinePasses(o) \/ ResolveFails(o) \/ ResolveUnowned(o)
         \/ SelectFails(o) \/ OpenAnswered(o)
  PROVE  CallStep(o)
<1>t. TypeOK /\ OpenTypes /\ SharedTypes
  BY Zenon DEF ClientInv, TypeOK
<1>a. AnswerInv(o) /\ ReceiverInv(o) /\ InFlightIsExact
  BY Zenon DEF ClientInv
<1> USE DEF Goto, openVars, connVars
<1>1. CASE BeginOpen(o)
  <2>1. TypeOK'
    BY <1>1, <1>t, Zenon DEF BeginOpen, TypeOK, OpenTypes, SharedTypes, Pcs
  <2>2. OthersKeep(o)
    BY <1>1, <1>t, Zenon DEF BeginOpen, OthersKeep, OpenTypes
  <2>3. InFlightIsExact'
    BY <1>1, <1>t, <1>a, <2>2, CountKept, Zenon DEF BeginOpen, Counted, Counting, Placing, OpenTypes
  <2>4. AnswerInv(o)' /\ ReceiverInv(o)'
    BY <1>1, <1>t, <1>a, Zenon DEF BeginOpen, AnswerInv, ReceiverInv, Attended, Settled, OpenTypes
  <2> QED
    BY <1>1, <1>t, <2>1, <2>2, <2>3, <2>4, Zenon DEF BeginOpen, CallStep, Using, OpenTypes
<1>2. CASE DeadlinePasses(o)
  <2>1. TypeOK'
    BY <1>2, <1>t, Zenon DEF DeadlinePasses, TypeOK, OpenTypes, SharedTypes, Pcs
  <2>2. OthersKeep(o)
    BY <1>2, <1>t, Zenon DEF DeadlinePasses, OthersKeep, OpenTypes
  <2>3. InFlightIsExact'
    BY <1>2, <1>t, <1>a, <2>2, CountKept, Zenon DEF DeadlinePasses, Counted, Counting, Placing, OpenTypes
  <2>4. AnswerInv(o)' /\ ReceiverInv(o)'
    BY <1>2, <1>t, <1>a, Zenon DEF DeadlinePasses, AnswerInv, ReceiverInv, Attended, Settled, OpenTypes
  <2> QED
    BY <1>2, <1>t, <2>1, <2>2, <2>3, <2>4, Zenon DEF DeadlinePasses, CallStep, Using, OpenTypes
<1>3. CASE ResolveFails(o)
  <2>1. TypeOK'
    BY <1>3, <1>t, FailTypes, Zenon DEF ResolveFails, TypeOK, OpenTypes, SharedTypes, Pcs
  <2>2. OthersKeep(o)
    BY <1>3, <1>t, Zenon DEF ResolveFails, Fail, OthersKeep, OpenTypes
  <2>3. InFlightIsExact'
    BY <1>3, <1>t, <1>a, <2>2, CountKept, Zenon DEF ResolveFails, Fail, Counted, Counting, Placing, OpenTypes
  <2>4. AnswerInv(o)' /\ ReceiverInv(o)'
    BY <1>3, <1>t, <1>a, Zenon DEF ResolveFails, Fail, AnswerInv, ReceiverInv, Attended, Settled, OpenTypes
  <2> QED
    BY <1>3, <1>t, <2>1, <2>2, <2>3, <2>4, Zenon DEF ResolveFails, Fail, CallStep, Using, OpenTypes
<1>4. CASE ResolveUnowned(o)
  <2>1. TypeOK'
    BY <1>4, <1>t, Zenon DEF ResolveUnowned, TypeOK, OpenTypes, SharedTypes, Pcs
  <2>2. OthersKeep(o)
    BY <1>4, <1>t, Zenon DEF ResolveUnowned, OthersKeep, OpenTypes
  <2>3. InFlightIsExact'
    BY <1>4, <1>t, <1>a, <2>2, CountKept, Zenon DEF ResolveUnowned, Counted, Counting, Placing, OpenTypes
  <2>4. AnswerInv(o)' /\ ReceiverInv(o)'
    BY <1>4, <1>t, <1>a, Zenon DEF ResolveUnowned, AnswerInv, ReceiverInv, Attended, Settled, OpenTypes
  <2> QED
    BY <1>4, <1>t, <2>1, <2>2, <2>3, <2>4, Zenon DEF ResolveUnowned, CallStep, Using, OpenTypes
<1>5. CASE SelectFails(o)
  <2>1. TypeOK'
    BY <1>5, <1>t, FailTypes, Zenon DEF SelectFails, TypeOK, OpenTypes, SharedTypes, Pcs
  <2>2. OthersKeep(o)
    BY <1>5, <1>t, Zenon DEF SelectFails, Fail, OthersKeep, OpenTypes
  <2>3. InFlightIsExact'
    BY <1>5, <1>t, <1>a, <2>2, CountKept, Zenon DEF SelectFails, Fail, Counted, Counting, Placing, OpenTypes
  <2>4. AnswerInv(o)' /\ ReceiverInv(o)'
    BY <1>5, <1>t, <1>a, Zenon DEF SelectFails, Fail, AnswerInv, ReceiverInv, Attended, Settled, OpenTypes
  <2> QED
    BY <1>5, <1>t, <2>1, <2>2, <2>3, <2>4, Zenon DEF SelectFails, Fail, CallStep, Using, OpenTypes
<1>6. CASE OpenAnswered(o)
  <2>1. TypeOK'
    BY <1>6, <1>t, Zenon DEF OpenAnswered, TypeOK, OpenTypes, SharedTypes, Pcs
  <2>2. OthersKeep(o)
    BY <1>6, <1>t, Zenon DEF OpenAnswered, OthersKeep, OpenTypes
  <2>3. InFlightIsExact'
    BY <1>6, <1>t, <1>a, <2>2, CountKept, Zenon DEF OpenAnswered, Counted, Counting, Placing, OpenTypes
  <2>4. AnswerInv(o)' /\ ReceiverInv(o)'
    BY <1>6, <1>t, <1>a, Zenon DEF OpenAnswered, AnswerInv, ReceiverInv, Attended, Settled, OpenTypes
  <2> QED
    BY <1>6, <1>t, <2>1, <2>2, <2>3, <2>4, Zenon DEF OpenAnswered, CallStep, Using, OpenTypes
<1> QED
  BY <1>1, <1>2, <1>3, <1>4, <1>5, <1>6, Zenon
\* A live Owner is found, and it is not the one that has just failed, or it is.
LEMMA ResolveLiveStep ==
  ASSUME ClientInv, NEW o \in Opens, NEW n \in Owners, ResolveLive(o, n)
  PROVE  CallStep(o)
<1>t. TypeOK /\ OpenTypes /\ SharedTypes
  BY Zenon DEF ClientInv, TypeOK
<1>a. AnswerInv(o) /\ ReceiverInv(o) /\ InFlightIsExact
  BY Zenon DEF ClientInv
<1>u. /\ pc[o] = "resolve"
      /\ UNCHANGED <<attempts, excluded, failedOwner, expired, connection, answer, inFlight,
                     connVars, bound, pool, holder, stopped>>
  BY Zenon DEF ResolveLive
<1> USE DEF Goto, connVars
<1>1. CASE failedOwner[o] = n
  <2>0. Fail(o) /\ UNCHANGED target
    BY <1>1, Zenon DEF ResolveLive
  <2>1. TypeOK'
    BY <2>0, <1>t, <1>u, FailTypes, Zenon DEF TypeOK, OpenTypes, SharedTypes
  <2>2. OthersKeep(o)
    BY <2>0, <1>t, <1>u, Zenon DEF Fail, OthersKeep, OpenTypes
  <2>3. InFlightIsExact'
    BY <2>0, <1>t, <1>a, <1>u, <2>2, CountKept, Zenon DEF Fail, Counted, Counting, Placing, OpenTypes
  <2>4. AnswerInv(o)' /\ ReceiverInv(o)'
    BY <2>0, <1>t, <1>a, <1>u, Zenon DEF Fail, AnswerInv, ReceiverInv, Settled, OpenTypes
  <2> QED
    BY <2>0, <1>t, <1>u, <2>1, <2>2, <2>3, <2>4, Zenon DEF Fail, CallStep, Using, OpenTypes
<1>2. CASE failedOwner[o] # n
  <2>0. /\ target' = [target EXCEPT ![o] = [endpoint |-> EndpointOf[n], owner |-> n]]
        /\ pc' = [pc EXCEPT ![o] = "lock"] /\ receivers' = receivers /\ pending' = pending
    BY <1>2, Zenon DEF ResolveLive
  <2>1. TypeOK'
    <3>1. target' \in [Opens -> [endpoint : Endpoints, owner : Owners \cup {None}]]
      BY <2>0, <1>t, ClientAssumption, Zenon DEF OpenTypes
    <3> QED
      BY <2>0, <3>1, <1>t, <1>u, Zenon DEF TypeOK, OpenTypes, SharedTypes, Pcs
  <2>2. OthersKeep(o)
    BY <2>0, <1>t, <1>u, Zenon DEF OthersKeep, OpenTypes
  <2>3. InFlightIsExact'
    <3>1. target'[o].owner = n /\ n # None
      BY <2>0, <1>t, ClientAssumption, Zenon DEF OpenTypes
    <3> QED
      BY <3>1, <1>t, <1>a, <1>u, <2>2, CountKept, Zenon DEF Counted, Counting, Placing
  <2>4. AnswerInv(o)' /\ ReceiverInv(o)'
    BY <2>0, <1>t, <1>a, <1>u, Zenon DEF AnswerInv, ReceiverInv, Settled, OpenTypes
  <2> QED
    BY <2>0, <1>t, <1>u, <2>1, <2>2, <2>3, <2>4, Zenon DEF CallStep, Using, OpenTypes
<1> QED
  BY <1>1, <1>2, Zenon

\* A Placement begins, and is counted.
LEMMA SelectStep ==
  ASSUME ClientInv, NEW o \in Opens, NEW e \in Endpoints, Select(o, e)
  PROVE  CallStep(o)
<1>t. TypeOK /\ OpenTypes /\ SharedTypes /\ inFlight \in [Endpoints -> Nat]
  BY Zenon DEF ClientInv, TypeOK
<1>a. AnswerInv(o) /\ ReceiverInv(o) /\ InFlightIsExact
  BY DEF ClientInv
<1>0. /\ pc[o] = "select" /\ pc' = [pc EXCEPT ![o] = "lock"]
      /\ target' = [target EXCEPT ![o] = [endpoint |-> e, owner |-> None]]
      /\ inFlight' = [inFlight EXCEPT ![e] = @ + 1]
      /\ UNCHANGED <<attempts, excluded, failedOwner, expired, connection, receivers, pending,
                     answer, connVars, bound, pool, holder, stopped>>
  BY Zenon DEF Select, Goto
<1> USE DEF connVars
<1>1. TypeOK'
  <2>1. target' \in [Opens -> [endpoint : Endpoints, owner : Owners \cup {None}]]
    BY <1>0, <1>t, Zenon DEF OpenTypes
  <2> QED
    BY <1>0, <2>1, <1>t DEF TypeOK, OpenTypes, SharedTypes, Pcs
<1>2. OthersKeep(o)
  BY <1>0, <1>t, Zenon DEF OthersKeep, OpenTypes
<1>3. InFlightIsExact'
  <2> SUFFICES ASSUME NEW d \in Endpoints PROVE inFlight'[d] = Cardinality(Counted(d)')
    BY Zenon DEF InFlightIsExact, Counted, Counting
  <2>1. target'[o].owner = None /\ target'[o].endpoint = e /\ pc'[o] \in Counting
    BY <1>0, <1>t, Zenon DEF OpenTypes, Counting
  <2>2. o \notin Counted(d)
    BY <1>0, Zenon DEF Counted, Counting
  <2>3. Counted(d)' = IF d = e THEN Counted(d) \cup {o} ELSE Counted(d)
    BY <1>2, <2>1, <2>2 DEF Counted, OthersKeep, Placing
  <2>4. Cardinality(Counted(d) \cup {o}) = Cardinality(Counted(d)) + 1
    BY <2>2, CountedFacts, FS_AddElement, Zenon
  <2>5. inFlight[d] = Cardinality(Counted(d)) /\ inFlight'[d] = IF d = e THEN inFlight[d] + 1 ELSE inFlight[d]
    BY <1>0, <1>a, <1>t, CountedFacts, Zenon
  <2> QED
    BY <2>3, <2>4, <2>5, Zenon
<1>4. AnswerInv(o)' /\ ReceiverInv(o)'
  BY <1>0, <1>t, <1>a, Zenon DEF AnswerInv, ReceiverInv, Settled, OpenTypes
<1> QED
  BY <1>0, <1>t, <1>1, <1>2, <1>3, <1>4, Zenon DEF CallStep, Using, OpenTypes

\* The lock of the pool is not had in time: the Placement is taken back.
LEMMA LockTimesOutStep ==
  ASSUME ClientInv, NEW o \in Opens, LockTimesOut(o)
  PROVE  CallStep(o)
<1>t. TypeOK /\ OpenTypes /\ SharedTypes
  BY Zenon DEF ClientInv, TypeOK
<1>a. AnswerInv(o) /\ ReceiverInv(o) /\ InFlightIsExact
  BY Zenon DEF ClientInv
<1>0. /\ pc[o] = "lock" /\ Retry(o) /\ RollBack(o)
      /\ UNCHANGED <<attempts, target, expired, connection, receivers, pending, answer, connVars,
                     bound, pool, holder, stopped>>
  BY Zenon DEF LockTimesOut
<1>p. pc' = [pc EXCEPT ![o] = "resolve"]
  BY <1>0, Zenon DEF Retry, Goto
<1> USE DEF connVars
<1>1. TypeOK'
  BY <1>0, <1>a, <1>t, RetryTypes, RollBackType, Zenon DEF TypeOK, OpenTypes, SharedTypes, Counting
<1>2. OthersKeep(o)
  BY <1>0, <1>p, <1>t, Zenon DEF OthersKeep, OpenTypes
<1>3. InFlightIsExact'
  BY <1>0, <1>p, <1>a, <1>t, <1>2, CountRolledBack, Zenon DEF Counting, OpenTypes
<1>4. AnswerInv(o)' /\ ReceiverInv(o)'
  BY <1>0, <1>p, <1>t, <1>a, Zenon DEF AnswerInv, ReceiverInv, Settled, OpenTypes
<1> QED
  BY <1>0, <1>p, <1>t, <1>1, <1>2, <1>3, <1>4, Zenon DEF CallStep, Using, OpenTypes

\* The pending entry of an attempt is made, or none is left to make.
LEMMA InsertPendingStep ==
  ASSUME ClientInv, NEW o \in Opens, InsertPending(o)
  PROVE  CallStep(o)
<1>t. TypeOK /\ OpenTypes /\ SharedTypes
  BY DEF ClientInv, TypeOK
<1>a. AnswerInv(o) /\ ReceiverInv(o) /\ InFlightIsExact
  BY DEF ClientInv
<1>u. pc[o] = "bound" /\ UNCHANGED <<openVars, connection, connVars, pool, holder, stopped>>
  BY Zenon DEF InsertPending
<1>c. connection[o] \in Connections
  BY <1>u, UsedConnection, Zenon DEF Using
<1> USE DEF openVars, connVars
<1>1. CASE attempts[o] >= MaxOpenAttempts
  <2>0. Unbind(o) /\ RollBack(o) /\ Fail(o) /\ answer' = answer
    BY <1>1, Zenon DEF InsertPending
  <2>p. /\ pc' = [pc EXCEPT ![o] = "error"] /\ receivers' = receivers \ {o}
        /\ pending' = [pending EXCEPT ![o] = 0]
    BY <2>0, Zenon DEF Fail, Goto
  <2>1. TypeOK'
    <3>1. bound' \in [Connections -> SUBSET Opens] /\ inFlight' \in [Endpoints -> Nat]
      BY <2>0, <1>a, <1>c, <1>t, <1>u, UnbindType, RollBackType, Zenon DEF Counting
    <3> QED
      BY <2>0, <3>1, <1>t, <1>u, FailTypes, Zenon DEF TypeOK, OpenTypes, SharedTypes
  <2>2. OthersKeep(o)
    BY <2>0, <2>p, <1>t, <1>u, Zenon DEF OthersKeep, OpenTypes
  <2>3. InFlightIsExact'
    BY <2>0, <2>p, <1>a, <1>t, <1>u, <2>2, CountRolledBack, Zenon DEF Counting, OpenTypes
  <2>4. AnswerInv(o)' /\ ReceiverInv(o)'
    BY <2>p, <1>t, <1>a, <1>u, Zenon DEF AnswerInv, ReceiverInv, Settled, OpenTypes
  <2> QED
    BY <2>0, <2>p, <1>t, <1>u, <2>1, <2>2, <2>3, <2>4, Zenon DEF CallStep, Using, OpenTypes
<1>2. CASE ~(attempts[o] >= MaxOpenAttempts)
  <2>0. /\ pending' = [pending EXCEPT ![o] = connection[o]]
        /\ answer' = [answer EXCEPT ![o] = "none"] /\ pc' = [pc EXCEPT ![o] = "send"]
        /\ UNCHANGED <<receivers, inFlight, bound>>
    BY <1>2, Zenon DEF InsertPending, Goto
  <2>1. TypeOK'
    <3>1. /\ pending' \in [Opens -> 0..MaxConnections] /\ pc' \in [Opens -> Pcs]
          /\ answer' \in [Opens -> Answers \cup {"none"}]
      BY <2>0, <1>t, Zenon DEF OpenTypes, Pcs
    <3> QED
      BY <2>0, <3>1, <1>t, <1>u, Zenon DEF TypeOK, OpenTypes, SharedTypes
  <2>2. OthersKeep(o)
    BY <2>0, <1>t, <1>u, Zenon DEF OthersKeep, OpenTypes
  <2>3. InFlightIsExact'
    BY <2>0, <1>t, <1>a, <1>u, <2>2, CountKept, Zenon DEF Counted, Counting, Placing, OpenTypes
  <2>4. attempts[o] < MaxOpenAttempts
    BY <1>2, <1>t, ClientAssumption DEF OpenTypes
  <2>5. AnswerInv(o)' /\ ReceiverInv(o)'
    BY <2>0, <2>4, <1>t, <1>a, <1>u, Zenon DEF AnswerInv, ReceiverInv, Settled, OpenTypes
  <2> QED
    BY <2>0, <1>t, <1>u, <2>1, <2>2, <2>3, <2>5, Zenon DEF CallStep, Using, OpenTypes
<1> QED
  BY <1>1, <1>2, Zenon

\* The SessionOpen is sent: `closed' was not set, so the receive loop runs.
LEMMA SendOpenStep ==
  ASSUME ClientInv, NEW o \in Opens, SendOpen(o)
  PROVE  CallStep(o)
<1>t. TypeOK /\ OpenTypes /\ SharedTypes
  BY DEF ClientInv, TypeOK
<1>a. AnswerInv(o) /\ ReceiverInv(o) /\ InFlightIsExact
  BY DEF ClientInv
<1>0. /\ pc[o] = "send" /\ connection[o] \notin closed /\ pc' = [pc EXCEPT ![o] = "wait"]
      /\ attempts' = [attempts EXCEPT ![o] = @ + 1]
      /\ requests' = [requests EXCEPT ![connection[o]] = @ \cup {o}]
      /\ UNCHANGED <<excluded, failedOwner, target, expired, connection, receivers, pending, answer,
                     inFlight, created, endpoint, closed, loop, leaving, bound, pool, holder,
                     stopped>>
  BY Zenon DEF SendOpen, Goto
<1>c. connection[o] \in 1..created /\ connection[o] \in Connections
  BY <1>0, UsedConnection, Zenon DEF Using
<1>1. TypeOK'
  <2>1. attempts' \in [Opens -> 0..MaxOpenAttempts]
    BY <1>0, <1>a, <1>t, ClientAssumption DEF AnswerInv, OpenTypes
  <2>2. requests' \in [Connections -> SUBSET Opens] /\ pc' \in [Opens -> Pcs]
    BY <1>0, <1>c, <1>t, Zenon DEF SharedTypes, OpenTypes, Pcs
  <2> QED
    BY <1>0, <2>1, <2>2, <1>t, Zenon DEF TypeOK, OpenTypes, SharedTypes
<1>2. OthersKeep(o)
  BY <1>0, <1>t, Zenon DEF OthersKeep, OpenTypes
<1>3. InFlightIsExact'
  BY <1>0, <1>t, <1>a, <1>2, CountKept, Zenon DEF Counted, Counting, Placing, OpenTypes
<1>4. loop[connection[o]] = "receive"
  BY <1>0, <1>c, <1>t DEF ClientInv, LoopInv, SharedTypes
<1>5. AnswerInv(o)' /\ ReceiverInv(o)'
  BY <1>0, <1>4, <1>t, <1>a, Zenon DEF AnswerInv, ReceiverInv, Attended, Settled, OpenTypes
<1> QED
  BY <1>0, <1>t, <1>1, <1>2, <1>3, <1>5, Zenon DEF CallStep, Using, OpenTypes

\* An attempt that could not be sent, was refused or was not answered in time.
LEMMA AttemptFailsStep ==
  ASSUME ClientInv, NEW o \in Opens, SendFails(o) \/ OpenRefused(o) \/ AnswerTimesOut(o)
  PROVE  CallStep(o)
<1>t. TypeOK /\ OpenTypes /\ SharedTypes
  BY Zenon DEF ClientInv, TypeOK
<1>a. AnswerInv(o) /\ ReceiverInv(o) /\ InFlightIsExact
  BY Zenon DEF ClientInv
<1>1. PICK err : AttemptFails(o, err) /\ pc[o] \in {"send", "wait"}
  BY Zenon DEF SendFails, OpenRefused, AnswerTimesOut
<1>c. connection[o] \in Connections
  BY <1>1, UsedConnection, Zenon DEF Using
<1>0. /\ Unbind(o) /\ RollBack(o)
      /\ UNCHANGED <<attempts, target, expired, connection, answer, connVars, pool, holder,
                     stopped>>
  BY <1>1, Zenon DEF AttemptFails
<1>2. /\ pending' = [pending EXCEPT ![o] = 0]
      /\ \/ pc' = [pc EXCEPT ![o] = "resolve"] /\ receivers' = receivers
         \/ pc' = [pc EXCEPT ![o] = "error"] /\ receivers' = receivers \ {o}
  BY <1>1, Zenon DEF AttemptFails, Fail, Retry, Goto
<1> USE DEF connVars
<1>3. TypeOK'
  BY <1>1, <1>a, <1>c, <1>t, AttemptFailsTypes, Zenon
<1>4. OthersKeep(o)
  BY <1>0, <1>2, <1>t, Zenon DEF OthersKeep, OpenTypes
<1>5. pc'[o] \in {"resolve", "error"}
  BY <1>2, <1>t, Zenon DEF OpenTypes
<1>6. InFlightIsExact'
  BY <1>0, <1>1, <1>5, <1>a, <1>t, <1>4, CountRolledBack, Zenon DEF Counting
<1>7. AnswerInv(o)' /\ ReceiverInv(o)'
  BY <1>0, <1>1, <1>2, <1>t, <1>a, Zenon DEF AnswerInv, ReceiverInv, Settled, OpenTypes
<1> QED
  BY <1>0, <1>1, <1>3, <1>4, <1>5, <1>6, <1>7, Zenon DEF CallStep, Using

\* Session::drop.
LEMMA DropSessionStep ==
  ASSUME ClientInv, NEW o \in Opens, DropSession(o)
  PROVE  CallStep(o)
<1>t. TypeOK /\ OpenTypes /\ SharedTypes
  BY DEF ClientInv, TypeOK
<1>a. AnswerInv(o) /\ ReceiverInv(o) /\ InFlightIsExact
  BY DEF ClientInv
<1>0. /\ pc[o] = "open" /\ pc' = [pc EXCEPT ![o] = "dropped"] /\ Unbind(o)
      /\ receivers' = receivers \ {o}
      /\ UNCHANGED <<openVars, connection, pending, answer, inFlight, connVars, pool, holder,
                     stopped>>
  BY Zenon DEF DropSession, Goto
<1>c. connection[o] \in Connections
  BY <1>0, UsedConnection, Zenon DEF Using
<1> USE DEF openVars, connVars
<1>1. TypeOK'
  <2>1. bound' \in [Connections -> SUBSET Opens]
    BY <1>0, <1>c, <1>t, UnbindType, Zenon
  <2> QED
    BY <1>0, <2>1, <1>t, Zenon DEF TypeOK, OpenTypes, SharedTypes, Pcs
<1>2. OthersKeep(o)
  BY <1>0, <1>t, Zenon DEF OthersKeep, OpenTypes
<1>3. InFlightIsExact'
  BY <1>0, <1>t, <1>a, <1>2, CountKept, Zenon DEF Counted, Counting, Placing, OpenTypes
<1>4. AnswerInv(o)' /\ ReceiverInv(o)'
  BY <1>0, <1>t, <1>a, Zenon DEF AnswerInv, ReceiverInv, Settled, OpenTypes
<1> QED
  BY <1>0, <1>t, <1>1, <1>2, <1>3, <1>4, Zenon DEF CallStep, Using, OpenTypes

-----------------------------------------------------------------------------
(* Steps that touch a pool or a connection.                                *)

\* Pools are finite, and pruning a pool makes it no larger.
LEMMA PoolFacts ==
  ASSUME TypeOK, NEW e \in Endpoints
  PROVE  /\ IsFiniteSet(pool[e]) /\ Cardinality(pool[e]) \in Nat
         /\ Open(e) \subseteq pool[e] /\ pool[e] \subseteq Connections
         /\ IsFiniteSet(Open(e)) /\ Cardinality(Open(e)) \in Nat
         /\ Cardinality(Open(e)) <= Cardinality(pool[e])
<1>1. pool[e] \in SUBSET Connections /\ Open(e) \in SUBSET pool[e]
  BY Zenon DEF TypeOK, SharedTypes, Open
<1>2. IsFiniteSet(Connections)
  BY ClientAssumption, FS_Interval DEF Connections
<1>3. IsFiniteSet(pool[e])
  BY <1>1, <1>2, FS_Subset, Zenon
<1>4. IsFiniteSet(Open(e)) /\ Cardinality(Open(e)) <= Cardinality(pool[e])
  BY <1>1, <1>3, FS_Subset, Zenon
<1> QED
  BY <1>1, <1>3, <1>4, FS_CardinalityType, Zenon

\* The lock of a pool is taken: for a connect, or to share a connection.
LEMMA LockPoolStep ==
  ASSUME ClientInv, NEW o \in Opens, LockPool(o)
  PROVE  ClientInv'
<1> DEFINE e == target[o].endpoint
<1>t. /\ TypeOK /\ OpenTypes /\ SharedTypes /\ e \in Endpoints
  BY Zenon DEF ClientInv, TypeOK, OpenTypes
<1>i. LoopInv /\ PoolInv /\ BindInv /\ InFlightIsExact /\ \A p \in Opens : AnswerInv(p) /\ ReceiverInv(p)
  BY Zenon DEF ClientInv
<1>0. /\ pc[o] = "lock" /\ holder[e] = None /\ pool' = [pool EXCEPT ![e] = Open(e)]
      /\ UNCHANGED <<openVars, receivers, pending, answer, inFlight, connVars, stopped>>
  BY Zenon DEF LockPool
<1>f. /\ Open(e) \subseteq pool[e] /\ pool[e] \subseteq Connections
      /\ Cardinality(Open(e)) \in Nat /\ Cardinality(pool[e]) \in Nat
      /\ Cardinality(Open(e)) <= Cardinality(pool[e])
  BY <1>t, PoolFacts, Zenon
<1>p. pool' \in [Endpoints -> SUBSET Connections] /\ pool'[e] = Open(e)
      /\ \A d \in Endpoints \ {e} : pool'[d] = pool[d]
  BY <1>0, <1>f, <1>t, Zenon DEF SharedTypes
<1> USE DEF openVars, connVars
<1>1. CASE /\ Cardinality(Open(e)) < MaxPerEndpoint /\ holder' = [holder EXCEPT ![e] = o]
           /\ pc' = [pc EXCEPT ![o] = "connect"] /\ UNCHANGED <<connection, bound>>
  <2>1. TypeOK'
    <3>1. pc' \in [Opens -> Pcs] /\ holder' \in [Endpoints -> Opens \cup {None}]
      BY <1>1, <1>t, Zenon DEF OpenTypes, SharedTypes, Pcs
    <3> QED
      BY <1>0, <1>1, <1>p, <3>1, <1>t, Zenon DEF TypeOK, OpenTypes, SharedTypes
  <2>2. LoopInv'
    BY <1>0, <1>i, Zenon DEF LoopInv
  <2>3. OthersKeep(o)
    BY <1>0, <1>1, <1>t, Zenon DEF OthersKeep, OpenTypes
  <2>4. PoolInv'
    <3>1. ASSUME NEW d \in Endpoints
          PROVE  /\ Cardinality(pool'[d]) <= MaxPerEndpoint
                 /\ \A c \in pool'[d] : c <= created /\ endpoint[c] = d
                 /\ holder'[d] # None => /\ pc'[holder'[d]] = "connect"
                                         /\ target[holder'[d]].endpoint = d
                                         /\ Cardinality(pool'[d]) < MaxPerEndpoint
      <4>1. CASE d = e
        BY <1>1, <1>f, <1>p, <1>i, <1>t, <4>1, ClientAssumption DEF PoolInv, OpenTypes, SharedTypes
      <4>2. CASE d # e
        <5>1. pool'[d] = pool[d] /\ holder'[d] = holder[d]
          BY <1>1, <1>p, <1>t, <4>2, Zenon DEF SharedTypes
        <5>2. holder[d] # None => holder[d] # o /\ holder[d] \in Opens
          BY <1>0, <1>i, <1>t DEF PoolInv, SharedTypes
        <5> QED
          BY <1>i, <2>3, <5>1, <5>2 DEF PoolInv, OthersKeep
      <4> QED
        BY <4>1, <4>2, Zenon
    <3>2. \A c \in Connections : c <= created /\ c \notin closed => c \in pool'[endpoint[c]]
      BY <1>i, <1>p, <1>t DEF PoolInv, Open, SharedTypes
    <3>3. ASSUME NEW p \in Opens, pc'[p] = "connect" PROVE holder'[target[p].endpoint] = p
      <4>1. CASE p = o
        BY <1>1, <1>t, <4>1, Zenon DEF SharedTypes
      <4>2. CASE p # o
        <5>1. holder[target[p].endpoint] = p /\ target[p].endpoint \in Endpoints
          BY <1>i, <1>t, <2>3, <3>3, <4>2, Zenon DEF PoolInv, OthersKeep, OpenTypes
        <5> QED
          BY <1>0, <1>1, <1>t, <5>1, ClientAssumption, Zenon DEF SharedTypes
      <4> QED
        BY <4>1, <4>2, Zenon
    <3> QED
      BY <1>0, <3>1, <3>2, <3>3, Zenon DEF PoolInv
  <2>5. BindInv'
    BY <1>0, <1>1, <1>i, <1>t, <2>3 DEF BindInv, Using, OthersKeep, OpenTypes
  <2>6. InFlightIsExact'
    BY <1>0, <1>1, <1>t, <1>i, <2>3, CountKept, Zenon DEF Counted, Counting, Placing, OpenTypes
  <2>7. ASSUME NEW p \in Opens PROVE AnswerInv(p)' /\ ReceiverInv(p)'
    BY <1>0, <1>1, <1>t, <1>i, <2>3 DEF AnswerInv, ReceiverInv, Attended, Settled, OthersKeep, OpenTypes
  <2> QED
    BY <2>1, <2>2, <2>4, <2>5, <2>6, <2>7, Zenon DEF ClientInv
<1>2. ASSUME NEW c \in Open(e), bound' = [bound EXCEPT ![c] = @ \cup {o}],
             connection' = [connection EXCEPT ![o] = c], pc' = [pc EXCEPT ![o] = "bound"],
             UNCHANGED holder
      PROVE  ClientInv'
  <2>0. c \in Connections /\ c \in 1..created
    BY <1>f, <1>i, <1>t DEF PoolInv, Connections
  <2>1. TypeOK'
    <3>1. /\ pc' \in [Opens -> Pcs] /\ bound' \in [Connections -> SUBSET Opens]
          /\ connection' \in [Opens -> 0..MaxConnections]
      <4>1. pc' \in [Opens -> Pcs]
        BY <1>2, <1>t, Zenon DEF OpenTypes, Pcs
      <4>2. bound' \in [Connections -> SUBSET Opens]
        BY <1>2, <2>0, <1>t, Zenon DEF SharedTypes
      <4>3. connection' \in [Opens -> 0..MaxConnections]
        <5>1. c \in 0..MaxConnections
          BY <2>0, ClientAssumption DEF Connections
        <5> QED
          BY <1>2, <1>t, <5>1, Zenon DEF OpenTypes
      <4> QED
        BY <4>1, <4>2, <4>3, Zenon
    <3> QED
      BY <1>0, <1>2, <1>p, <3>1, <1>t, Zenon DEF TypeOK, OpenTypes, SharedTypes
  <2>2. LoopInv'
    BY <1>0, <1>i, Zenon DEF LoopInv
  <2>3. OthersKeep(o)
    BY <1>0, <1>2, <1>t, Zenon DEF OthersKeep, OpenTypes
  <2>4. PoolInv'
    <3>1. \A p \in Opens : pc'[p] = "connect" <=> pc[p] = "connect"
      BY <1>0, <1>2, <1>t, Zenon DEF OpenTypes
    <3>2. ASSUME NEW d \in Endpoints
          PROVE  /\ pool'[d] \subseteq pool[d]
                 /\ Cardinality(pool'[d]) <= Cardinality(pool[d])
                 /\ Cardinality(pool'[d]) \in Nat /\ Cardinality(pool[d]) \in Nat
      BY <1>f, <1>p, <1>t, PoolFacts
    <3>3. \A d \in Endpoints : holder[d] # None => d # e /\ holder[d] \in Opens
      BY <1>0, <1>t, Zenon DEF SharedTypes
    <3>4. \A d \in Connections : d <= created /\ d \notin closed => d \in pool'[endpoint[d]]
      BY <1>i, <1>p, <1>t DEF PoolInv, Open, SharedTypes
    <3> QED
      BY <1>0, <1>2, <1>i, <1>p, <3>1, <3>2, <3>3, <3>4, ClientAssumption DEF PoolInv
  <2>5. BindInv'
    <3>1. Using(o)' /\ connection'[o] = c /\ \A p \in Opens \ {o} : Using(p)' <=> Using(p)
      BY <1>2, <1>t, <2>3, Zenon DEF Using, OpenTypes, OthersKeep
    <3>2. ~Using(o)
      BY <1>0, Zenon DEF Using
    <3>3. \A d \in Connections : bound'[d] = IF d = c THEN bound[d] \cup {o} ELSE bound[d]
      BY <1>2, <1>t, Zenon DEF SharedTypes
    <3> QED
      <4>1. ASSUME NEW d \in Connections, NEW p \in Opens, p \in bound'[d]
            PROVE  Using(p)' /\ connection'[p] = d
        <5>1. CASE p = o
          <6>1. p \notin bound[d]
            BY <1>i, <3>2, <5>1, Zenon DEF BindInv
          <6> QED
            BY <3>1, <3>3, <4>1, <5>1, <6>1, Zenon
        <5>2. CASE p # o
          <6>1. p \in bound[d]
            BY <3>3, <4>1, <5>2, Zenon
          <6>2. Using(p) /\ connection[p] = d
            BY <1>i, <6>1, Zenon DEF BindInv
          <6> QED
            BY <2>3, <3>1, <5>2, <6>2, Zenon DEF OthersKeep
        <5> QED
          BY <5>1, <5>2, Zenon
      <4>2. ASSUME NEW p \in Opens, Using(p)'
            PROVE  /\ connection'[p] \in 1..created
                   /\ loop[connection'[p]] \in {"receive", "closed", "removed"}
                        => p \in bound'[connection'[p]]
        <5>1. CASE p = o
          BY <2>0, <3>1, <3>3, <5>1, Zenon
        <5>2. CASE p # o
          <6>1. Using(p) /\ connection'[p] = connection[p] /\ connection[p] \in Connections
            BY <2>3, <3>1, <4>2, <5>2, UsedConnection, Zenon DEF OthersKeep
          <6> QED
            BY <1>i, <3>3, <6>1 DEF BindInv
        <5> QED
          BY <5>1, <5>2, Zenon
      <4> QED
        BY <1>0, <4>1, <4>2, Zenon DEF BindInv
  <2>6. InFlightIsExact'
    BY <1>0, <1>2, <1>t, <1>i, <2>3, CountKept DEF Counted, Counting, Placing, OpenTypes
  <2>7. ASSUME NEW p \in Opens PROVE AnswerInv(p)' /\ ReceiverInv(p)'
    BY <1>0, <1>2, <1>t, <1>i, <2>3 DEF AnswerInv, ReceiverInv, Attended, Settled, OthersKeep, OpenTypes
  <2> QED
    BY <2>1, <2>2, <2>4, <2>5, <2>6, <2>7, Zenon DEF ClientInv
<1> QED
  BY <1>1, <1>2, Zenon DEF LockPool, Goto

\* A connect succeeds: the new connection is pooled, bound and served.
LEMMA ConnectStep ==
  ASSUME ClientInv, NEW o \in Opens, Connect(o)
  PROVE  ClientInv'
<1> DEFINE e == target[o].endpoint
           c == created + 1
<1>t. TypeOK /\ OpenTypes /\ SharedTypes /\ inFlight \in [Endpoints -> Nat] /\ e \in Endpoints
  BY Zenon DEF ClientInv, TypeOK, OpenTypes
<1>i. LoopInv /\ PoolInv /\ BindInv /\ InFlightIsExact /\ \A p \in Opens : AnswerInv(p) /\ ReceiverInv(p)
  BY DEF ClientInv
<1>0. /\ pc[o] = "connect" /\ c \in Connections /\ created' = c
      /\ endpoint' = [endpoint EXCEPT ![c] = e] /\ loop' = [loop EXCEPT ![c] = "receive"]
      /\ pool' = [pool EXCEPT ![e] = @ \cup {c}] /\ bound' = [bound EXCEPT ![c] = {o}]
      /\ connection' = [connection EXCEPT ![o] = c] /\ holder' = [holder EXCEPT ![e] = None]
      /\ pc' = [pc EXCEPT ![o] = "bound"]
      /\ UNCHANGED <<attempts, excluded, failedOwner, target, expired>>
      /\ UNCHANGED <<receivers, pending, answer, inFlight, closed, leaving, requests, stopped>>
  BY Zenon DEF Connect, Goto, openVars
<1>n. created \in Nat /\ c \in Nat /\ c > created /\ Connections \subseteq Nat /\ c \in 0..MaxConnections
  BY <1>0, <1>t, ClientAssumption DEF SharedTypes, Connections
<1>1. TypeOK'
  <2>1. pc' \in [Opens -> Pcs]
    BY <1>0, <1>t, Zenon DEF OpenTypes, Pcs
  <2>2. connection' \in [Opens -> 0..MaxConnections]
    BY <1>0, <1>n, <1>t, Zenon DEF OpenTypes
  <2>3. OpenTypes'
    BY <1>0, <1>t, <2>1, <2>2, Zenon DEF OpenTypes
  <2>4. endpoint' \in [Connections -> Endpoints] /\ bound' \in [Connections -> SUBSET Opens]
    BY <1>0, <1>t, Zenon DEF SharedTypes
  <2>5. loop' \in [Connections -> {"none", "receive", "closed", "removed", "notify", "ended", "aborted"}]
    BY <1>0, <1>t, Zenon DEF SharedTypes
  <2>6. pool' \in [Endpoints -> SUBSET Connections]
    BY <1>0, <1>t, Zenon DEF SharedTypes
  <2>7. holder' \in [Endpoints -> Opens \cup {None}]
    BY <1>0, <1>t, Zenon DEF SharedTypes
  <2> QED
    BY <1>0, <1>n, <1>t, <2>3, <2>4, <2>5, <2>6, <2>7, Zenon DEF TypeOK, SharedTypes
<1>2. /\ \A d \in Connections \ {c} : /\ loop'[d] = loop[d] /\ endpoint'[d] = endpoint[d]
                                      /\ bound'[d] = bound[d]
      /\ loop'[c] = "receive" /\ endpoint'[c] = e /\ bound'[c] = {o}
  BY <1>0, <1>t, Zenon DEF SharedTypes
<1>3. OthersKeep(o)
  BY <1>0, <1>t, Zenon DEF OthersKeep, OpenTypes
<1>4. LoopInv'
  <2>1. ASSUME NEW d \in Connections
        PROVE  /\ loop'[d] = "none" <=> d > c
               /\ loop'[d] = "receive" <=> d <= c /\ d \notin closed
               /\ d \in closed => d <= c
               /\ loop'[d] = "aborted" => stopped
    <3>1. CASE d = c
      BY <1>2, <1>i, <1>n, <3>1 DEF LoopInv
    <3>2. CASE d # c
      <4>1. d \in Nat /\ (d > c <=> d > created) /\ (d <= c <=> d <= created)
        BY <1>n, <3>2
      <4> QED
        BY <1>2, <1>i, <3>2, <4>1, Zenon DEF LoopInv
    <3> QED
      BY <3>1, <3>2, Zenon
  <2> QED
    BY <1>0, <2>1, Zenon DEF LoopInv
<1>5. PoolInv'
  <2>1. holder[e] = o /\ Cardinality(pool[e]) < MaxPerEndpoint
    BY <1>0, <1>i, <1>t, ClientAssumption DEF PoolInv
  <2>2. /\ pool'[e] = pool[e] \cup {c} /\ holder'[e] = None
        /\ \A d \in Endpoints \ {e} : pool'[d] = pool[d] /\ holder'[d] = holder[d]
    BY <1>0, <1>t, Zenon DEF SharedTypes
  <2>3. ASSUME NEW d \in Endpoints
        PROVE  /\ Cardinality(pool'[d]) <= MaxPerEndpoint
               /\ \A x \in pool'[d] : x <= c /\ endpoint'[x] = d
               /\ holder'[d] # None => /\ pc'[holder'[d]] = "connect"
                                       /\ target[holder'[d]].endpoint = d
                                       /\ Cardinality(pool'[d]) < MaxPerEndpoint
    <3>1. \A x \in pool[d] : x \in Connections /\ x <= created /\ endpoint[x] = d
      BY <1>i, <1>t, Zenon DEF PoolInv, SharedTypes
    <3>2. \A x \in pool[d] : x # c /\ x <= c /\ endpoint'[x] = d
      <4> SUFFICES ASSUME NEW x \in pool[d] PROVE x # c /\ x <= c /\ endpoint'[x] = d
        OBVIOUS
      <4>1. x \in Connections /\ x \in Nat /\ x <= created /\ endpoint[x] = d
        BY <1>n, <3>1, Zenon
      <4>2. x # c /\ x <= c
        BY <1>n, <4>1
      <4> QED
        BY <1>2, <4>1, <4>2, Zenon
    <3>3. CASE d = e
      <4>1. IsFiniteSet(pool[e]) /\ Cardinality(pool[e]) \in Nat
        BY <1>t, PoolFacts, Zenon
      <4>2. Cardinality(pool[e] \cup {c}) = Cardinality(pool[e]) + 1
        BY <3>2, <3>3, <4>1, FS_AddElement, Zenon
      <4>3. Cardinality(pool'[d]) <= MaxPerEndpoint
        <5>1. pool'[d] = pool[e] \cup {c}
          BY <2>2, <3>3, Zenon
        <5>2. Cardinality(pool'[d]) = Cardinality(pool[e]) + 1
          BY <4>2, <5>1, Zenon
        <5>3. Cardinality(pool[e]) < MaxPerEndpoint /\ MaxPerEndpoint \in Nat
          BY <2>1, ClientAssumption, Zenon
        <5> QED
          BY <4>1, <5>2, <5>3
      <4>4. \A x \in pool'[d] : x <= c /\ endpoint'[x] = d
        BY <1>2, <1>n, <2>2, <3>2, <3>3
      <4> QED
        BY <2>2, <3>3, <4>3, <4>4, Zenon
    <3>4. CASE d # e
      <4>1. holder[d] # None => holder[d] \in Opens \ {o}
        BY <1>i, <1>t, <3>4 DEF PoolInv, SharedTypes
      <4> QED
        BY <1>3, <1>i, <2>2, <3>2, <3>4, <4>1 DEF PoolInv, OthersKeep
    <3> QED
      BY <3>3, <3>4, Zenon
  <2>4. ASSUME NEW d \in Connections, d <= c, d \notin closed PROVE d \in pool'[endpoint'[d]]
    <3>1. CASE d = c
      BY <1>2, <2>2, <3>1, Zenon
    <3>2. CASE d # c
      <4>1. d <= created /\ endpoint'[d] = endpoint[d] /\ endpoint[d] \in Endpoints
        BY <1>2, <1>n, <1>t, <2>4, <3>2 DEF SharedTypes
      <4> QED
        BY <1>i, <2>2, <2>4, <4>1 DEF PoolInv
    <3> QED
      BY <3>1, <3>2, Zenon
  <2>5. ASSUME NEW p \in Opens, pc'[p] = "connect" PROVE holder'[target[p].endpoint] = p
    <3>1. p # o /\ pc[p] = "connect"
      BY <1>0, <1>3, <1>t, <2>5, Zenon DEF OthersKeep, OpenTypes
    <3>2. holder[target[p].endpoint] = p /\ target[p].endpoint \in Endpoints
      BY <1>i, <1>t, <3>1 DEF PoolInv, OpenTypes
    <3> QED
      BY <2>1, <2>2, <3>1, <3>2, Zenon
  <2> QED
    BY <1>0, <2>3, <2>4, <2>5, Zenon DEF PoolInv
<1>6. \A p \in Opens \ {o} : Using(p) => connection[p] \in Connections \ {c}
  <2> SUFFICES ASSUME NEW p \in Opens, Using(p) PROVE connection[p] \in Connections \ {c}
    OBVIOUS
  <2>1. connection[p] \in Connections /\ connection[p] \in 1..created
    BY UsedConnection, Zenon
  <2> QED
    BY <1>n, <2>1
<1>7. BindInv'
  <2>1. Using(o)' /\ connection'[o] = c /\ \A p \in Opens \ {o} : Using(p)' <=> Using(p)
    BY <1>0, <1>t, <1>3, Zenon DEF Using, OpenTypes, OthersKeep
  <2>2. ~Using(o)
    BY <1>0, Zenon DEF Using
  <2>3. ASSUME NEW d \in Connections, NEW p \in Opens, p \in bound'[d]
        PROVE  Using(p)' /\ connection'[p] = d
    <3>1. CASE d = c
      BY <1>2, <2>1, <2>3, <3>1, Zenon
    <3>2. CASE d # c
      <4>1. p \in bound[d]
        BY <1>2, <2>3, <3>2, Zenon
      <4>2. Using(p) /\ connection[p] = d
        BY <1>i, <4>1, Zenon DEF BindInv
      <4> QED
        BY <1>3, <2>1, <2>2, <4>2, Zenon DEF OthersKeep
    <3> QED
      BY <3>1, <3>2, Zenon
  <2>4. ASSUME NEW p \in Opens, Using(p)'
        PROVE  /\ connection'[p] \in 1..c
               /\ loop'[connection'[p]] \in {"receive", "closed", "removed"}
                    => p \in bound'[connection'[p]]
    <3>1. CASE p = o
      BY <1>2, <1>n, <2>1, <3>1
    <3>2. CASE p # o
      <4>1. Using(p) /\ connection'[p] = connection[p] /\ connection[p] \in Connections \ {c}
        BY <1>3, <1>6, <2>1, <2>4, <3>2, Zenon DEF OthersKeep
      <4>2. connection[p] \in 1..created
        BY <4>1, UsedConnection, Zenon
      <4> QED
        BY <1>2, <1>i, <1>n, <4>1, <4>2 DEF BindInv
    <3> QED
      BY <3>1, <3>2, Zenon
  <2> QED
    BY <1>0, <2>3, <2>4, Zenon DEF BindInv
<1>8. InFlightIsExact'
  BY <1>0, <1>t, <1>i, <1>3, CountKept, Zenon DEF Counted, Counting, Placing, OpenTypes
<1>9. ASSUME NEW p \in Opens PROVE AnswerInv(p)' /\ ReceiverInv(p)'
  <2>1. CASE p = o
    BY <1>0, <1>t, <1>i, <2>1, Zenon DEF AnswerInv, ReceiverInv, Settled, OpenTypes
  <2>2. CASE p # o
    <3>1. Using(p) => (Attended(p)' <=> Attended(p))
      BY <1>0, <1>2, <1>3, <1>6, <2>2 DEF Attended, OthersKeep
    <3>2. pc'[p] = pc[p] /\ connection'[p] = connection[p]
      BY <1>3, <2>2, Zenon DEF OthersKeep
    <3> QED
      BY <1>0, <1>i, <3>1, <3>2, Zenon DEF AnswerInv, ReceiverInv, Settled, Using
  <2> QED
    BY <2>1, <2>2, Zenon
<1> QED
  BY <1>1, <1>4, <1>5, <1>7, <1>8, <1>9 DEF ClientInv

\* A connect fails: the lock is given back and the Placement taken back.
LEMMA ConnectFailsStep ==
  ASSUME ClientInv, NEW o \in Opens, ConnectFails(o)
  PROVE  ClientInv'
<1> DEFINE e == target[o].endpoint
<1>t. TypeOK /\ OpenTypes /\ SharedTypes /\ e \in Endpoints
  BY Zenon DEF ClientInv, TypeOK, OpenTypes
<1>i. LoopInv /\ PoolInv /\ BindInv /\ InFlightIsExact /\ \A p \in Opens : AnswerInv(p) /\ ReceiverInv(p)
  BY DEF ClientInv
<1>0. /\ pc[o] = "connect" /\ Retry(o) /\ RollBack(o)
      /\ holder' = [holder EXCEPT ![e] = None] /\ pc' = [pc EXCEPT ![o] = "resolve"]
      /\ UNCHANGED <<attempts, target, expired, connection, receivers, pending, answer>>
      /\ UNCHANGED <<created, endpoint, closed, loop, leaving, requests, bound, pool, stopped>>
  BY Zenon DEF ConnectFails, Retry, Goto, connVars
<1>1. TypeOK'
  <2>1. /\ pc' \in [Opens -> Pcs] /\ excluded' \in [Opens -> SUBSET Endpoints]
        /\ failedOwner' \in [Opens -> Owners \cup {None}]
    BY <1>0, <1>t, RetryTypes, Zenon
  <2>2. inFlight' \in [Endpoints -> Nat]
    BY <1>0, <1>t, <1>i, RollBackType, Zenon DEF Counting
  <2>3. holder' \in [Endpoints -> Opens \cup {None}]
    BY <1>0, <1>t, Zenon DEF SharedTypes
  <2> QED
    BY <1>0, <1>t, <2>1, <2>2, <2>3, Zenon DEF TypeOK, OpenTypes, SharedTypes
<1>2. OthersKeep(o)
  BY <1>0, <1>t, Zenon DEF OthersKeep, OpenTypes
<1>3. LoopInv'
  BY <1>0, <1>i, Zenon DEF LoopInv
<1>4. PoolInv'
  <2>1. holder[e] = o /\ holder'[e] = None /\ \A d \in Endpoints \ {e} : holder'[d] = holder[d]
    BY <1>0, <1>i, <1>t DEF PoolInv, SharedTypes
  <2>2. ASSUME NEW d \in Endpoints, holder'[d] # None
        PROVE  /\ pc'[holder'[d]] = "connect" /\ target[holder'[d]].endpoint = d
               /\ Cardinality(pool[d]) < MaxPerEndpoint
    <3>1. d # e /\ holder'[d] = holder[d]
      BY <2>1, <2>2, Zenon
    <3>2. holder[d] \in Opens \ {o}
      BY <1>i, <1>t, <2>2, <3>1 DEF PoolInv, SharedTypes
    <3> QED
      BY <1>2, <1>i, <2>2, <3>1, <3>2 DEF PoolInv, OthersKeep
  <2>3. ASSUME NEW p \in Opens, pc'[p] = "connect" PROVE holder'[target[p].endpoint] = p
    <3>1. p # o /\ pc[p] = "connect"
      BY <1>0, <1>2, <1>t, <2>3, Zenon DEF OthersKeep, OpenTypes
    <3>2. holder[target[p].endpoint] = p /\ target[p].endpoint \in Endpoints
      BY <1>i, <1>t, <3>1 DEF PoolInv, OpenTypes
    <3> QED
      BY <2>1, <3>1, <3>2, Zenon
  <2> QED
    BY <1>0, <1>i, <2>2, <2>3 DEF PoolInv
<1>5. BindInv'
  BY <1>0, <1>i, <1>t, <1>2 DEF BindInv, Using, OthersKeep, OpenTypes
<1>6. InFlightIsExact'
  BY <1>0, <1>t, <1>i, <1>2, CountRolledBack, Zenon DEF Counting, OpenTypes
<1>7. ASSUME NEW p \in Opens PROVE AnswerInv(p)' /\ ReceiverInv(p)'
  BY <1>0, <1>t, <1>i, <1>2 DEF AnswerInv, ReceiverInv, Attended, Settled, OthersKeep, OpenTypes
<1> QED
  BY <1>1, <1>3, <1>4, <1>5, <1>6, <1>7 DEF ClientInv

-----------------------------------------------------------------------------
(* Steps of a receive loop, and shutdown: every call stays where it is.    *)

\* An answer goes to the call that waits for it on this connection.
LEMMA AcknowledgeStep ==
  ASSUME ClientInv, NEW c \in Connections, NEW o \in Opens, NEW r \in Answers, Acknowledge(c, o, r)
  PROVE  ClientInv'
<1>t. TypeOK /\ OpenTypes /\ SharedTypes
  BY Zenon DEF ClientInv, TypeOK
<1>i. LoopInv /\ PoolInv /\ BindInv /\ InFlightIsExact /\ \A p \in Opens : AnswerInv(p) /\ ReceiverInv(p)
  BY Zenon DEF ClientInv
<1>0. /\ loop[c] = "receive" /\ requests' = [requests EXCEPT ![c] = @ \ {o}]
      /\ UNCHANGED <<pc, attempts, excluded, failedOwner, target, expired, connection, receivers>>
      /\ UNCHANGED <<inFlight, created, endpoint, closed, loop, leaving, bound, pool, holder, stopped>>
  BY Zenon DEF Acknowledge, openVars
<1>1. \/ UNCHANGED <<pending, answer>>
      \/ /\ pending[o] = c /\ pending' = [pending EXCEPT ![o] = 0]
         /\ answer' = [answer EXCEPT ![o] = r]
  BY Zenon DEF Acknowledge
<1>2. requests' \in [Connections -> SUBSET Opens]
  BY <1>0, <1>t, Zenon DEF SharedTypes
<1>3. pending' \in [Opens -> 0..MaxConnections] /\ answer' \in [Opens -> Answers \cup {"none"}]
  <2>1. 0 \in 0..MaxConnections /\ r \in Answers \cup {"none"}
    BY ClientAssumption
  <2>2. pending' \in [Opens -> 0..MaxConnections]
    BY <1>1, <1>t, <2>1, Zenon DEF OpenTypes
  <2>3. answer' \in [Opens -> Answers \cup {"none"}]
    BY <1>1, <1>t, <2>1, Zenon DEF OpenTypes
  <2> QED
    BY <2>2, <2>3, Zenon
<1>4. TypeOK'
  BY <1>0, <1>2, <1>3, <1>t, Zenon DEF ClientInv, TypeOK, OpenTypes, SharedTypes
<1>5. LoopInv' /\ PoolInv' /\ BindInv'
  <2>1. LoopInv'
    BY <1>0, <1>i, Zenon DEF LoopInv
  <2>2. PoolInv'
    BY <1>0, <1>i, Zenon DEF PoolInv
  <2>3. BindInv'
    BY <1>0, <1>i, Zenon DEF BindInv, Using
  <2> QED
    BY <2>1, <2>2, <2>3, Zenon
<1>6. InFlightIsExact'
  BY <1>0, <1>i, Zenon DEF InFlightIsExact, Placing
<1>7. ASSUME NEW p \in Opens PROVE AnswerInv(p)' /\ ReceiverInv(p)'
  <2>1. ReceiverInv(p)' /\ (Attended(p)' <=> Attended(p))
    BY <1>0, <1>i, Zenon DEF ReceiverInv, Settled, Attended
  <2>2. CASE p = o /\ pending[o] = c /\ pending' = [pending EXCEPT ![o] = 0]
             /\ answer' = [answer EXCEPT ![o] = r]
    <3>1. c # 0 /\ r # "none"
      BY ClientAssumption DEF Connections, Answers
    <3>2. pc[o] \in {"send", "wait"} /\ connection[o] = c
      BY <1>i, <2>2, <3>1, Zenon DEF AnswerInv
    <3>3. Attended(o) /\ pending'[o] = 0 /\ answer'[o] = r
      BY <1>0, <1>t, <2>2, <3>2, Zenon DEF Attended, OpenTypes
    <3> QED
      BY <1>0, <1>i, <2>1, <2>2, <3>1, <3>2, <3>3, Zenon DEF AnswerInv
  <2>3. CASE pending'[p] = pending[p] /\ answer'[p] = answer[p]
    BY <1>0, <1>i, <2>1, <2>3, Zenon DEF AnswerInv
  <2> QED
    BY <1>1, <1>t, <2>2, <2>3, Zenon DEF OpenTypes
<1> QED
  BY <1>4, <1>5, <1>6, <1>7, Zenon DEF ClientInv

\* What every step of the loop of a lost connection leaves alone.
LossKeeps ==
  /\ UNCHANGED <<pc, attempts, excluded, failedOwner, target, expired, connection>>
  /\ UNCHANGED <<inFlight, created, endpoint, requests, holder, stopped>>

\* The stream of a connection ends: `closed' is set.
LEMMA ConnectionLostStep ==
  ASSUME ClientInv, NEW c \in Connections, ConnectionLost(c)
  PROVE  ClientInv'
<1>t. TypeOK /\ OpenTypes /\ SharedTypes
  BY Zenon DEF ClientInv, TypeOK
<1>i. LoopInv /\ PoolInv /\ BindInv /\ InFlightIsExact /\ \A p \in Opens : AnswerInv(p) /\ ReceiverInv(p)
  BY Zenon DEF ClientInv
<1>0. /\ loop[c] = "receive" /\ loop' = [loop EXCEPT ![c] = "closed"] /\ closed' = closed \cup {c}
      /\ LossKeeps /\ UNCHANGED <<receivers, pending, answer, leaving, bound, pool>>
  BY Zenon DEF ConnectionLost, openVars, LossKeeps
<1>1. /\ loop' \in [Connections -> {"none", "receive", "closed", "removed", "notify", "ended", "aborted"}]
      /\ loop'[c] = "closed" /\ \A d \in Connections \ {c} : loop'[d] = loop[d]
  BY <1>0, <1>t, Zenon DEF SharedTypes
<1>2. TypeOK'
  BY <1>0, <1>1, <1>t, Zenon DEF ClientInv, TypeOK, OpenTypes, SharedTypes, LossKeeps
<1>3. LoopInv'
  BY <1>0, <1>1, <1>i, Zenon DEF LoopInv, LossKeeps
<1>4. PoolInv'
  BY <1>0, <1>i, Zenon DEF PoolInv, LossKeeps
<1>5. BindInv'
  <2>1. \A p \in Opens : Using(p) => connection[p] \in Connections
    BY UsedConnection, Zenon
  <2> QED
    BY <1>0, <1>1, <1>i, <2>1 DEF BindInv, Using, LossKeeps
<1>6. InFlightIsExact'
  BY <1>0, <1>i, Zenon DEF InFlightIsExact, Placing, LossKeeps
<1>7. ASSUME NEW p \in Opens PROVE AnswerInv(p)' /\ ReceiverInv(p)'
  <2>1. Using(p) => connection[p] \in Connections
    BY UsedConnection, Zenon
  <2>2. Using(p) /\ Attended(p) => Attended(p)'
    BY <1>0, <1>1, <2>1, Zenon DEF Attended, LossKeeps
  <2> QED
    BY <1>0, <1>i, <2>2, Zenon DEF AnswerInv, ReceiverInv, Settled, Using, LossKeeps
<1> QED
  BY <1>2, <1>3, <1>4, <1>5, <1>6, <1>7, Zenon DEF ClientInv

\* The lost connection leaves its pool.
LEMMA LeavePoolStep ==
  ASSUME ClientInv, NEW c \in Connections, LeavePool(c)
  PROVE  ClientInv'
<1> DEFINE e == endpoint[c]
<1>t. TypeOK /\ OpenTypes /\ SharedTypes /\ e \in Endpoints
  BY Zenon DEF ClientInv, TypeOK, SharedTypes
<1>i. LoopInv /\ PoolInv /\ BindInv /\ InFlightIsExact /\ \A p \in Opens : AnswerInv(p) /\ ReceiverInv(p)
  BY DEF ClientInv
<1>0. /\ loop[c] = "closed" /\ holder[e] = None /\ loop' = [loop EXCEPT ![c] = "removed"]
      /\ pool' = [pool EXCEPT ![e] = @ \ {c}]
      /\ LossKeeps /\ UNCHANGED <<receivers, pending, answer, closed, leaving, bound>>
  BY Zenon DEF LeavePool, openVars, LossKeeps
<1>1. /\ loop' \in [Connections -> {"none", "receive", "closed", "removed", "notify", "ended", "aborted"}]
      /\ loop'[c] = "removed" /\ \A d \in Connections \ {c} : loop'[d] = loop[d]
  BY <1>0, <1>t, Zenon DEF SharedTypes
<1>p. /\ pool' \in [Endpoints -> SUBSET Connections] /\ pool'[e] = pool[e] \ {c}
      /\ \A d \in Endpoints \ {e} : pool'[d] = pool[d]
  BY <1>0, <1>t, Zenon DEF SharedTypes
<1>2. TypeOK'
  BY <1>0, <1>1, <1>p, <1>t, Zenon DEF ClientInv, TypeOK, OpenTypes, SharedTypes, LossKeeps
<1>3. LoopInv'
  BY <1>0, <1>1, <1>i, Zenon DEF LoopInv, LossKeeps
<1>4. PoolInv'
  <2>1. c \in closed
    <3>1. c \in Nat /\ created \in Nat
      BY <1>t, ClientAssumption DEF Connections, SharedTypes
    <3> QED
      BY <1>0, <1>i, <3>1 DEF LoopInv
  <2>2. ASSUME NEW d \in Endpoints
        PROVE  /\ pool'[d] \subseteq pool[d]
               /\ Cardinality(pool'[d]) <= Cardinality(pool[d])
               /\ Cardinality(pool'[d]) \in Nat /\ Cardinality(pool[d]) \in Nat
    <3>1. pool'[d] \in SUBSET pool[d]
      BY <1>p, Zenon
    <3>2. IsFiniteSet(pool[d]) /\ Cardinality(pool[d]) \in Nat
      BY <1>t, PoolFacts, Zenon
    <3> QED
      BY <3>1, <3>2, FS_Subset, FS_CardinalityType, Zenon
  <2>3. ASSUME NEW d \in Endpoints
        PROVE  /\ Cardinality(pool'[d]) <= MaxPerEndpoint
               /\ \A x \in pool'[d] : x <= created /\ endpoint[x] = d
               /\ holder[d] # None => /\ pc[holder[d]] = "connect" /\ target[holder[d]].endpoint = d
                                      /\ Cardinality(pool'[d]) < MaxPerEndpoint
    BY <1>i, <2>2, ClientAssumption DEF PoolInv
  <2>4. \A d \in Connections : d <= created /\ d \notin closed => d \in pool'[endpoint[d]]
    BY <1>i, <1>p, <1>t, <2>1 DEF PoolInv, SharedTypes
  <2> QED
    BY <1>0, <1>i, <2>3, <2>4, Zenon DEF PoolInv, LossKeeps
<1>5. BindInv'
  <2>1. \A p \in Opens : Using(p) => connection[p] \in Connections
    BY UsedConnection
  <2> QED
    BY <1>0, <1>1, <1>i, <2>1 DEF BindInv, Using, LossKeeps
<1>6. InFlightIsExact'
  BY <1>0, <1>i, Zenon DEF InFlightIsExact, Placing, LossKeeps
<1>7. ASSUME NEW p \in Opens PROVE AnswerInv(p)' /\ ReceiverInv(p)'
  <2>1. Using(p) => connection[p] \in Connections
    BY UsedConnection
  <2>2. Using(p) /\ Attended(p) => Attended(p)'
    BY <1>0, <1>1, <2>1, Zenon DEF Attended, LossKeeps
  <2> QED
    BY <1>0, <1>i, <2>2, Zenon DEF AnswerInv, ReceiverInv, Settled, Using, LossKeeps
<1> QED
  BY <1>2, <1>3, <1>4, <1>5, <1>6, <1>7 DEF ClientInv

\* The Sessions bound to a lost connection are drained.
LEMMA DrainSessionsStep ==
  ASSUME ClientInv, NEW c \in Connections, DrainSessions(c)
  PROVE  ClientInv'
<1>t. TypeOK /\ OpenTypes /\ SharedTypes
  BY DEF ClientInv, TypeOK
<1>i. LoopInv /\ PoolInv /\ BindInv /\ InFlightIsExact /\ \A p \in Opens : AnswerInv(p) /\ ReceiverInv(p)
  BY DEF ClientInv
<1>0. /\ loop[c] = "removed" /\ leaving' = [leaving EXCEPT ![c] = bound[c]]
      /\ loop' = [loop EXCEPT ![c] = IF bound[c] = {} THEN "ended" ELSE "notify"]
      /\ bound' = [bound EXCEPT ![c] = {}]
      /\ LossKeeps /\ UNCHANGED <<receivers, pending, answer, closed, pool>>
  BY Zenon DEF DrainSessions, openVars, LossKeeps
<1>1. /\ loop' \in [Connections -> {"none", "receive", "closed", "removed", "notify", "ended", "aborted"}]
      /\ loop'[c] = (IF bound[c] = {} THEN "ended" ELSE "notify")
      /\ \A d \in Connections \ {c} : loop'[d] = loop[d]
  BY <1>0, <1>t, Zenon DEF SharedTypes
<1>b. /\ leaving' \in [Connections -> SUBSET Opens] /\ leaving'[c] = bound[c]
      /\ bound' \in [Connections -> SUBSET Opens] /\ bound'[c] = {}
      /\ \A d \in Connections \ {c} : leaving'[d] = leaving[d] /\ bound'[d] = bound[d]
  BY <1>0, <1>t, Zenon DEF SharedTypes
<1>2. TypeOK'
  BY <1>0, <1>1, <1>b, <1>t, Zenon DEF ClientInv, TypeOK, OpenTypes, SharedTypes, LossKeeps
<1>3. LoopInv'
  <2>1. loop'[c] \in {"ended", "notify"}
    BY <1>1, Zenon
  <2> QED
    BY <1>0, <1>1, <1>i, <2>1, Zenon DEF LoopInv, LossKeeps
<1>4. PoolInv'
  BY <1>0, <1>i, Zenon DEF PoolInv, LossKeeps
<1>5. BindInv'
  <2>1. \A p \in Opens : Using(p) => connection[p] \in Connections
    BY UsedConnection
  <2>2. loop'[c] \in {"ended", "notify"}
    BY <1>1
  <2> QED
    BY <1>0, <1>1, <1>b, <1>i, <2>1, <2>2 DEF BindInv, Using, LossKeeps
<1>6. InFlightIsExact'
  BY <1>0, <1>i, Zenon DEF InFlightIsExact, Placing, LossKeeps
<1>7. ASSUME NEW p \in Opens PROVE AnswerInv(p)' /\ ReceiverInv(p)'
  <2>2. ASSUME Using(p), Attended(p) PROVE Attended(p)'
    <3>1. connection[p] \in Connections /\ connection' = connection
      BY <1>0, <2>2, UsedConnection, Zenon DEF LossKeeps
    <3>2. CASE connection[p] = c
      <4>1. p \in bound[c]
        BY <1>0, <1>i, <2>2, <3>2, Zenon DEF BindInv
      <4> QED
        BY <1>1, <1>b, <3>1, <3>2, <4>1, Zenon DEF Attended
    <3>3. CASE connection[p] # c
      BY <1>1, <1>b, <2>2, <3>1, <3>3, Zenon DEF Attended
    <3> QED
      BY <3>2, <3>3, Zenon
  <2> QED
    BY <1>0, <1>i, <2>2, Zenon DEF AnswerInv, ReceiverInv, Settled, Using, LossKeeps
<1> QED
  BY <1>2, <1>3, <1>4, <1>5, <1>6, <1>7 DEF ClientInv

\* A drained Session is answered if it is pending here, or loses its receiver.
LEMMA NotifyLostStep ==
  ASSUME ClientInv, NEW c \in Connections, NEW o \in Opens, NotifyLost(c, o)
  PROVE  ClientInv'
<1>t. TypeOK /\ OpenTypes /\ SharedTypes
  BY Zenon DEF ClientInv, TypeOK
<1>i. LoopInv /\ PoolInv /\ BindInv /\ InFlightIsExact /\ \A p \in Opens : AnswerInv(p) /\ ReceiverInv(p)
  BY Zenon DEF ClientInv
<1>0. /\ loop[c] = "notify" /\ o \in leaving[c] /\ leaving' = [leaving EXCEPT ![c] = @ \ {o}]
      /\ loop' = [loop EXCEPT ![c] = IF leaving[c] = {o} THEN "ended" ELSE "notify"]
      /\ LossKeeps /\ UNCHANGED <<closed, bound, pool>>
  BY Zenon DEF NotifyLost, openVars, LossKeeps
<1>a. \/ /\ pending[o] = c /\ pending' = [pending EXCEPT ![o] = 0]
         /\ answer' = [answer EXCEPT ![o] = "Unavailable"] /\ receivers' = receivers
      \/ /\ pending[o] # c /\ receivers' = receivers \ {o} /\ UNCHANGED <<pending, answer>>
  BY Zenon DEF NotifyLost
<1>1. /\ loop' \in [Connections -> {"none", "receive", "closed", "removed", "notify", "ended", "aborted"}]
      /\ loop'[c] = (IF leaving[c] = {o} THEN "ended" ELSE "notify")
      /\ \A d \in Connections \ {c} : loop'[d] = loop[d]
  BY <1>0, <1>t, Zenon DEF SharedTypes
<1>b. /\ leaving' \in [Connections -> SUBSET Opens] /\ leaving'[c] = leaving[c] \ {o}
      /\ \A d \in Connections \ {c} : leaving'[d] = leaving[d]
  BY <1>0, <1>t, Zenon DEF SharedTypes
<1>c. /\ pending' \in [Opens -> 0..MaxConnections] /\ answer' \in [Opens -> Answers \cup {"none"}]
      /\ receivers' \subseteq Opens
  <2>1. 0 \in 0..MaxConnections /\ "Unavailable" \in Answers \cup {"none"}
    BY ClientAssumption DEF Answers
  <2>2. pending' \in [Opens -> 0..MaxConnections]
    BY <1>a, <1>t, <2>1, Zenon DEF OpenTypes
  <2>3. answer' \in [Opens -> Answers \cup {"none"}]
    BY <1>a, <1>t, <2>1, Zenon DEF OpenTypes
  <2> QED
    BY <1>a, <1>t, <2>2, <2>3, Zenon DEF SharedTypes
<1>2. TypeOK'
  BY <1>0, <1>1, <1>b, <1>c, <1>t, Zenon DEF ClientInv, TypeOK, OpenTypes, SharedTypes, LossKeeps
<1>l. loop'[c] \in {"ended", "notify"}
  BY <1>1, Zenon
<1>3. LoopInv'
  BY <1>0, <1>1, <1>i, <1>l, Zenon DEF LoopInv, LossKeeps
<1>4. PoolInv'
  BY <1>0, <1>i, Zenon DEF PoolInv, LossKeeps
<1>5. BindInv'
  <2>1. \A p \in Opens : Using(p) => connection[p] \in Connections
    BY UsedConnection, Zenon
  <2> QED
    BY <1>0, <1>1, <1>i, <1>l, <2>1, Zenon DEF BindInv, Using, LossKeeps
<1>6. InFlightIsExact'
  BY <1>0, <1>i, Zenon DEF InFlightIsExact, Placing, LossKeeps
<1>7. ASSUME NEW p \in Opens PROVE AnswerInv(p)' /\ ReceiverInv(p)'
  <2>0. ReceiverInv(p)' /\ pc' = pc /\ connection' = connection /\ attempts' = attempts
    BY <1>0, <1>a, <1>i, Zenon DEF ReceiverInv, Settled, LossKeeps
  <2>1. ASSUME Using(p), Attended(p), p # o \/ connection[p] # c PROVE Attended(p)'
    <3>1. connection[p] \in Connections
      BY <2>1, UsedConnection, Zenon
    <3>2. CASE connection[p] = c
      <4>1. p # o /\ p \in leaving[c]
        BY <1>0, <2>1, <3>2, Zenon DEF Attended
      <4> QED
        BY <1>1, <1>b, <2>0, <3>2, <4>1, Zenon DEF Attended
    <3>3. CASE connection[p] # c
      BY <1>1, <1>b, <2>0, <2>1, <3>1, <3>3, Zenon DEF Attended
    <3> QED
      BY <3>2, <3>3, Zenon
  <2>2. CASE p # o
    <3>1. pending'[p] = pending[p] /\ answer'[p] = answer[p] /\ (p \in receivers' <=> p \in receivers)
      BY <1>a, <1>t, <2>2, Zenon DEF OpenTypes
    <3> QED
      BY <1>i, <2>0, <2>1, <2>2, <3>1, Zenon DEF AnswerInv, Using
  <2>3. CASE p = o /\ pending[o] = c
    <3>1. c # 0
      BY ClientAssumption DEF Connections
    <3>2. pc[o] \in {"send", "wait"} /\ answer'[o] = "Unavailable" /\ pending'[o] = 0
      BY <1>a, <1>i, <1>t, <2>3, <3>1, Zenon DEF AnswerInv, OpenTypes
    <3> QED
      BY <1>i, <2>0, <2>3, <3>2, Zenon DEF AnswerInv
  <2>4. CASE p = o /\ pending[o] # c
    <3>1. o \notin receivers' /\ pending' = pending /\ answer' = answer
      BY <1>a, <2>4, Zenon
    <3>2. pc[o] = "wait" /\ answer[o] = "none" => connection[o] # c
      BY <1>i, <2>4, Zenon DEF AnswerInv
    <3> QED
      BY <1>i, <2>0, <2>1, <2>4, <3>1, <3>2, Zenon DEF AnswerInv, Using
  <2> QED
    BY <2>0, <2>2, <2>3, <2>4, Zenon
<1> QED
  BY <1>2, <1>3, <1>4, <1>5, <1>6, <1>7, Zenon DEF ClientInv

\* Shutdown: no call is under way, every pool is emptied, every receiver told.
LEMMA ShutdownStep ==
  ASSUME ClientInv, Shutdown
  PROVE  ClientInv'
<1>t. TypeOK /\ OpenTypes /\ SharedTypes
  BY Zenon DEF ClientInv, TypeOK
<1>i. LoopInv /\ PoolInv /\ BindInv /\ InFlightIsExact /\ \A p \in Opens : AnswerInv(p) /\ ReceiverInv(p)
  BY Zenon DEF ClientInv
<1>0. /\ \A o \in Opens : Settled(o)
      /\ stopped' = TRUE /\ closed' = closed \cup UNION {pool[e] : e \in Endpoints}
      /\ pool' = [e \in Endpoints |-> {}] /\ pending' = [o \in Opens |-> 0] /\ receivers' = {}
      /\ loop' = [c \in Connections |-> IF loop[c] \in {"receive", "closed"} THEN "aborted" ELSE loop[c]]
      /\ UNCHANGED <<pc, attempts, excluded, failedOwner, target, expired, connection, answer>>
      /\ UNCHANGED <<inFlight, created, endpoint, leaving, requests, bound, holder>>
  BY Zenon DEF Shutdown, openVars, Settled
<1>1. /\ loop' \in [Connections -> {"none", "receive", "closed", "removed", "notify", "ended", "aborted"}]
      /\ \A c \in Connections : loop'[c] = IF loop[c] \in {"receive", "closed"} THEN "aborted" ELSE loop[c]
  BY <1>0, <1>t DEF SharedTypes
<1>2. TypeOK'
  <2>1. closed' \subseteq Connections /\ pool' \in [Endpoints -> SUBSET Connections]
    BY <1>0, <1>t DEF SharedTypes
  <2>2. pending' \in [Opens -> 0..MaxConnections]
    BY <1>0, ClientAssumption
  <2> QED
    BY <1>0, <1>1, <1>t, <2>1, <2>2, Zenon DEF ClientInv, TypeOK, OpenTypes, SharedTypes
<1>3. LoopInv'
  <2>1. ASSUME NEW c \in Connections
        PROVE  /\ loop'[c] = "none" <=> c > created
               /\ loop'[c] = "receive" <=> c <= created /\ c \notin closed'
               /\ c \in closed' => c <= created
               /\ loop'[c] = "aborted" => stopped'
    <3>1. loop'[c] # "receive" /\ (loop'[c] = "none" <=> loop[c] = "none")
      BY <1>1, Zenon
    <3>2. c <= created => c \in closed'
      BY <1>0, <1>i, <1>t DEF PoolInv, SharedTypes
    <3>3. c \in closed' => c <= created
      BY <1>0, <1>i DEF PoolInv, LoopInv
    <3> QED
      BY <1>0, <1>i, <3>1, <3>2, <3>3, Zenon DEF LoopInv
  <2> QED
    BY <1>0, <2>1, Zenon DEF LoopInv
<1>4. PoolInv'
  <2>1. Cardinality({}) = 0 /\ 0 <= MaxPerEndpoint
    BY FS_EmptySet, ClientAssumption
  <2>2. \A e \in Endpoints : holder[e] = None
    BY <1>0, <1>i, <1>t DEF PoolInv, Settled, SharedTypes
  <2>3. \A c \in Connections : c <= created => c \in closed'
    BY <1>0, <1>i, <1>t DEF PoolInv, SharedTypes
  <2>4. \A e \in Endpoints : pool'[e] = {}
    BY <1>0, Zenon
  <2> QED
    BY <1>0, <2>1, <2>2, <2>3, <2>4, Zenon DEF PoolInv, Settled
<1>5. BindInv'
  <2>1. \A p \in Opens : Using(p) => connection[p] \in Connections
    BY UsedConnection, Zenon
  <2> QED
    BY <1>0, <1>1, <1>i, <2>1, Zenon DEF BindInv, Using
<1>6. InFlightIsExact'
  BY <1>0, <1>i, Zenon DEF InFlightIsExact, Placing
<1>7. ASSUME NEW p \in Opens PROVE AnswerInv(p)' /\ ReceiverInv(p)'
  BY <1>0, <1>i, Zenon DEF AnswerInv, ReceiverInv, Settled
<1> QED
  BY <1>2, <1>3, <1>4, <1>5, <1>6, <1>7, Zenon DEF ClientInv

-----------------------------------------------------------------------------
(* The invariant.                                                          *)

\* A Client that has just been built satisfies the invariant.
LEMMA InitClient ==
  Init => ClientInv
<1> SUFFICES ASSUME Init PROVE ClientInv
  OBVIOUS
<1>0. (CHOOSE e \in Endpoints : TRUE) \in Endpoints
  BY ClientAssumption, Zenon
<1>1. OpenTypes
  <2>1. /\ pc \in [Opens -> Pcs] /\ excluded \in [Opens -> SUBSET Endpoints]
        /\ failedOwner \in [Opens -> Owners \cup {None}] /\ expired \in [Opens -> BOOLEAN]
        /\ answer \in [Opens -> Answers \cup {"none"}]
    BY Zenon DEF Init, Pcs
  <2>2. /\ attempts \in [Opens -> 0..MaxOpenAttempts] /\ connection \in [Opens -> 0..MaxConnections]
        /\ pending \in [Opens -> 0..MaxConnections]
    BY ClientAssumption DEF Init
  <2>3. target \in [Opens -> [endpoint : Endpoints, owner : Owners \cup {None}]]
    BY <1>0, Zenon DEF Init
  <2> QED
    BY <2>1, <2>2, <2>3, Zenon DEF OpenTypes
<1>2. SharedTypes
  <2>1. receivers \subseteq Opens /\ closed \subseteq Connections /\ stopped \in BOOLEAN
    BY Zenon DEF Init
  <2>2. created \in 0..MaxConnections
    BY ClientAssumption DEF Init
  <2>3. /\ endpoint \in [Connections -> Endpoints] /\ bound \in [Connections -> SUBSET Opens]
        /\ leaving \in [Connections -> SUBSET Opens] /\ requests \in [Connections -> SUBSET Opens]
    BY <1>0, Zenon DEF Init
  <2>4. loop \in [Connections -> {"none", "receive", "closed", "removed", "notify", "ended", "aborted"}]
    BY Zenon DEF Init
  <2>5. pool \in [Endpoints -> SUBSET Connections] /\ holder \in [Endpoints -> Opens \cup {None}]
    BY Zenon DEF Init
  <2> QED
    BY <2>1, <2>2, <2>3, <2>4, <2>5, Zenon DEF SharedTypes
<1>3. TypeOK
  BY <1>1, <1>2, Zenon DEF Init, TypeOK
<1>4. LoopInv
  BY ClientAssumption DEF Init, LoopInv, Connections
<1>5. PoolInv
  <2>1. Cardinality({}) = 0
    BY FS_EmptySet, Zenon
  <2>2. \A c \in Connections : ~(c <= 0)
    BY DEF Connections
  <2> QED
    BY <2>1, <2>2, ClientAssumption DEF Init, PoolInv
<1>6. BindInv
  BY Zenon DEF Init, BindInv, Using
<1>7. InFlightIsExact
  <2> SUFFICES ASSUME NEW e \in Endpoints PROVE Counted(e) = {} /\ inFlight[e] = 0
    BY FS_EmptySet, Zenon DEF InFlightIsExact, Counted, Counting
  <2> QED
    BY Zenon DEF Init, Counted, Counting
<1>8. \A o \in Opens : AnswerInv(o) /\ ReceiverInv(o)
  BY Zenon DEF Init, AnswerInv, ReceiverInv
<1> QED
  BY <1>3, <1>4, <1>5, <1>6, <1>7, <1>8, Zenon DEF ClientInv

\* Every step of the Client keeps the invariant.
LEMMA ClientInvStep ==
  ClientInv /\ [Next]_vars => ClientInv'
<1> SUFFICES ASSUME ClientInv, [Next]_vars PROVE ClientInv'
  OBVIOUS
<1>1. CASE Shutdown
  BY <1>1, ShutdownStep, Zenon
<1>2. ASSUME NEW o \in Opens, BeginOpen(o) \/ DeadlinePasses(o) \/ OpenStep(o) \/ DropSession(o)
      PROVE  ClientInv'
  <2>1. CASE BeginOpen(o) \/ DeadlinePasses(o) \/ ResolveFails(o) \/ ResolveUnowned(o)
             \/ SelectFails(o) \/ OpenAnswered(o)
    BY <2>1, PlainCallSteps, CallKeepsInv, Zenon
  <2>2. CASE DropSession(o)
    BY <2>2, DropSessionStep, CallKeepsInv, Zenon
  <2>3. CASE \E n \in Owners : ResolveLive(o, n)
    BY <2>3, ResolveLiveStep, CallKeepsInv, Zenon
  <2>4. CASE \E e \in Endpoints : Select(o, e)
    BY <2>4, SelectStep, CallKeepsInv, Zenon
  <2>5. CASE LockPool(o)
    BY <2>5, LockPoolStep, Zenon
  <2>6. CASE LockTimesOut(o)
    BY <2>6, LockTimesOutStep, CallKeepsInv
  <2>7. CASE Connect(o)
    BY <2>7, ConnectStep, Zenon
  <2>8. CASE ConnectFails(o)
    BY <2>8, ConnectFailsStep, Zenon
  <2>9. CASE InsertPending(o)
    BY <2>9, InsertPendingStep, CallKeepsInv
  <2>10. CASE SendOpen(o)
    BY <2>10, SendOpenStep, CallKeepsInv
  <2>11. CASE SendFails(o) \/ OpenRefused(o) \/ AnswerTimesOut(o)
    BY <2>11, AttemptFailsStep, CallKeepsInv, Zenon
  <2> QED
    BY <1>2, <2>1, <2>2, <2>3, <2>4, <2>5, <2>6, <2>7, <2>8, <2>9, <2>10, <2>11
   , Zenon DEF OpenStep, Resolve, Place, Acquire, Attempt
<1>3. ASSUME NEW c \in Connections, ConnectionLost(c) PROVE ClientInv'
  BY <1>3, ConnectionLostStep, Zenon
<1>4. ASSUME NEW c \in Connections, LossStep(c) PROVE ClientInv'
  BY <1>4, LeavePoolStep, DrainSessionsStep, NotifyLostStep, Zenon DEF LossStep
<1>5. ASSUME NEW c \in Connections, NEW o \in Opens, NEW r \in Answers \ {"Unavailable"},
             Acknowledge(c, o, r)
      PROVE  ClientInv'
  BY <1>5, AcknowledgeStep, Zenon
<1>6. CASE UNCHANGED vars
  <2>1. /\ UNCHANGED <<pc, attempts, excluded, failedOwner, target, expired, connection, receivers>>
        /\ UNCHANGED <<pending, answer, inFlight, created, endpoint, closed, loop, leaving>>
        /\ UNCHANGED <<requests, bound, pool, holder, stopped>>
    BY <1>6, Zenon DEF vars, openVars, connVars
  <2>2. TypeOK'
    BY <2>1, Zenon DEF ClientInv, TypeOK, OpenTypes, SharedTypes
  <2>3. LoopInv' /\ BindInv'
    BY <2>1, Zenon DEF ClientInv, LoopInv, BindInv, Using
  <2>4. PoolInv'
    BY <2>1, Zenon DEF ClientInv, PoolInv
  <2>5. InFlightIsExact'
    BY <2>1, Zenon DEF ClientInv, InFlightIsExact, Placing
  <2>6. \A o \in Opens : AnswerInv(o)' /\ ReceiverInv(o)'
    BY <2>1, Zenon DEF ClientInv, AnswerInv, ReceiverInv, Attended, Settled
  <2> QED
    BY <2>2, <2>3, <2>4, <2>5, <2>6, Zenon DEF ClientInv
<1> QED
  BY <1>1, <1>2, <1>3, <1>4, <1>5, <1>6, Zenon DEF Next

\* The receive loops, the pools, the bindings, the pending entries and the
\* receivers of a Client fit together in every state it reaches.
THEOREM ClientInvariance ==
  Spec => []ClientInv
<1> QED
  BY InitClient, ClientInvStep, PTL DEF Spec

\* bind and unbind (client/mod.rs) neither forget a Session nor keep one that is
\* gone, for any number of opens, endpoints and connections.
THEOREM SpecBoundIsUsed ==
  Spec => []BoundIsUsed
<1>1. ClientInv => BoundIsUsed
  <2> SUFFICES ASSUME ClientInv, NEW c \in Connections, loop[c] \in {"receive", "closed", "removed"}
               PROVE  bound[c] = {o \in Opens : Using(o) /\ connection[o] = c}
    BY Zenon DEF BoundIsUsed
  <2>1. bound[c] \subseteq Opens
    BY Zenon DEF ClientInv, TypeOK, SharedTypes
  <2> QED
    BY <2>1, Zenon DEF ClientInv, BindInv
<1> QED
  BY <1>1, ClientInvariance, PTL

\* acquire_connection never lets an endpoint have more open connections than
\* max_connections_per_endpoint, and every open one is in its pool.
THEOREM SpecPoolIsBounded ==
  Spec => []PoolIsBounded
<1>1. ClientInv => PoolIsBounded
  <2> SUFFICES ASSUME ClientInv, NEW e \in Endpoints
               PROVE  LET open == {c \in 1..created : endpoint[c] = e /\ c \notin closed} IN
                      open \subseteq pool[e] /\ Cardinality(open) <= MaxPerEndpoint
    BY Zenon DEF PoolIsBounded
  <2> DEFINE open == {c \in 1..created : endpoint[c] = e /\ c \notin closed}
  <2>t. created \in 0..MaxConnections /\ PoolInv /\ TypeOK
    BY Zenon DEF ClientInv, TypeOK, SharedTypes
  <2>0. \A c \in 1..created : c \in Connections /\ c <= created
    BY <2>t, ClientAssumption DEF Connections
  <2>1. open \in SUBSET pool[e]
    BY <2>t, <2>0, Zenon DEF PoolInv
  <2>2. IsFiniteSet(pool[e]) /\ Cardinality(pool[e]) \in Nat /\ Cardinality(pool[e]) <= MaxPerEndpoint
    BY <2>t, PoolFacts, Zenon DEF PoolInv
  <2>3. IsFiniteSet(open) /\ Cardinality(open) <= Cardinality(pool[e])
    BY <2>1, <2>2, FS_Subset, Zenon
  <2>4. Cardinality(open) \in Nat
    BY <2>3, FS_CardinalityType, Zenon
  <2> QED
    BY <2>1, <2>2, <2>3, <2>4, ClientAssumption
<1> QED
  BY <1>1, ClientInvariance, PTL

\* An open that waits for its answer is on a connection whose receive loop has
\* still to answer it or to drain it.
THEOREM SpecNobodyWaitsOnTheDead ==
  Spec => []NobodyWaitsOnTheDead
<1>1. ClientInv => NobodyWaitsOnTheDead
  BY Zenon DEF ClientInv, AnswerInv, Attended, NobodyWaitsOnTheDead
<1> QED
  BY <1>1, ClientInvariance, PTL

\* on_placement_failed is called exactly once for every Placement that does not
\* succeed, on every path of open() that abandons it.
THEOREM SpecInFlightIsExact ==
  Spec => []InFlightIsExact
<1>1. ClientInv => InFlightIsExact
  BY Zenon DEF ClientInv
<1> QED
  BY <1>1, ClientInvariance, PTL

\* An open() that returned an error keeps no receiver, pending entry, binding or
\* pool lock.
THEOREM SpecFailedOpenIsForgotten ==
  Spec => []FailedOpenIsForgotten
<1>1. ClientInv => FailedOpenIsForgotten
  <2> SUFFICES ASSUME ClientInv, NEW o \in Opens, pc[o] = "error"
               PROVE  /\ o \notin receivers /\ pending[o] = 0
                      /\ \A c \in Connections : o \notin bound[c]
                      /\ \A e \in Endpoints : holder[e] # o
    BY Zenon DEF FailedOpenIsForgotten
  <2>1. o \notin receivers /\ pending[o] = 0
    BY Zenon DEF ClientInv, AnswerInv, ReceiverInv
  <2>2. \A c \in Connections : o \notin bound[c]
    BY Zenon DEF ClientInv, BindInv, Using
  <2>3. \A e \in Endpoints : holder[e] # o
    BY ClientAssumption DEF ClientInv, PoolInv
  <2> QED
    BY <2>1, <2>2, <2>3, Zenon
<1> QED
  BY <1>1, ClientInvariance, PTL

\* A Session whose connection has ended, or that shutdown has ended, has no
\* receiver left to wait on.
THEOREM SpecLossIsTold ==
  Spec => []LossIsTold
<1>1. ClientInv => LossIsTold
  BY Zenon DEF ClientInv, AnswerInv, Attended, LossIsTold
<1> QED
  BY <1>1, ClientInvariance, PTL

=============================================================================
