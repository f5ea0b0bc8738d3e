----------------------------- MODULE ClientOpen -----------------------------
(***************************************************************************)
(* One Client (client/mod.rs, client/session.rs): concurrent open() calls, *)
(* the connection pools they share, the receive loop of every connection,  *)
(* the registries of Session receivers and of pending opens, and the       *)
(* In-flight Placement accounting around each attempt.                     *)
(*                                                                         *)
(* An open() is named by the Session ID it draws.  What it meets is        *)
(* arbitrary: the Owner it reads, the candidates it may choose from, the   *)
(* outcome of a connect, of a send, the answer, the loss of a connection.  *)
(* The deadline passes once and for all; after it no read, list or connect *)
(* succeeds, because none is ready at the first poll of timeout_at.        *)
(*                                                                         *)
(* A step is what a thread does between two points where another thread    *)
(* can be seen: an await, a lock, the atomic `closed'.                     *)
(***************************************************************************)
EXTENDS Integers, FiniteSets

CONSTANTS
  Opens,            \* calls of open(), by Session ID
  Endpoints,
  Owners,           \* identities of live Owners: (node_id, session_id)
  EndpointOf,       \* where each is reached
  MaxOpenAttempts,
  MaxPerEndpoint,   \* max_connections_per_endpoint
  MaxConnections,   \* bound on next_connection_id
  None

ASSUME ClientAssumption ==
  /\ IsFiniteSet(Opens) /\ Endpoints # {}
  /\ EndpointOf \in [Owners -> Endpoints]
  /\ None \notin Opens \cup Owners
  /\ MaxOpenAttempts \in Nat \ {0}
  /\ MaxPerEndpoint \in Nat \ {0}
  /\ MaxConnections \in Nat \ {0}

VARIABLES
  pc,           \* where each open() stands
  attempts,     \* SessionOpen messages it has sent
  excluded,     \* endpoints it no longer tries
  failedOwner,  \* failed_live_owner
  target,       \* the endpoint of the attempt, and the Owner, None for Placement
  connection,   \* the connection of the attempt or of the Session, 0 for none
  expired,      \* its deadline has passed
  receivers,    \* CallerRegistry: Sessions with a receiver
  pending,      \* pending_opens: the connection an answer is expected on, 0 for none
  answer,       \* the oneshot of the attempt
  inFlight,     \* In-flight Placement, per endpoint
  created,      \* connections made so far
  endpoint,     \* the endpoint of each connection
  bound,        \* its bound Sessions
  closed,       \* connections whose `closed' is set
  loop,         \* where its receive loop stands
  leaving,      \* drained Sessions that the loop has still to deal with
  requests,     \* SessionOpens sent on it and not answered
  pool,         \* the connections pooled for each endpoint
  holder,       \* the open() that holds the lock of the pool across its connect
  stopped       \* shutdown() has been called

openVars == <<attempts, excluded, failedOwner, target, expired>>
connVars == <<created, endpoint, closed, loop, leaving, requests>>
vars == <<pc, openVars, connection, receivers, pending, answer, inFlight, connVars, bound,
          pool, holder, stopped>>

Connections == 1..MaxConnections
Answers     == {"ok", "NotOwner", "AtCapacity", "Unavailable", "other"}
Pcs         == {"idle", "resolve", "select", "lock", "connect", "bound", "send", "wait", "open",
                "dropped", "error"}

OpenTypes ==
  /\ pc \in [Opens -> Pcs]
  /\ attempts \in [Opens -> 0..MaxOpenAttempts]
  /\ excluded \in [Opens -> SUBSET Endpoints]
  /\ failedOwner \in [Opens -> Owners \cup {None}]
  /\ target \in [Opens -> [endpoint : Endpoints, owner : Owners \cup {None}]]
  /\ connection \in [Opens -> 0..MaxConnections]
  /\ expired \in [Opens -> BOOLEAN]
  /\ pending \in [Opens -> 0..MaxConnections]
  /\ answer \in [Opens -> Answers \cup {"none"}]

SharedTypes ==
  /\ receivers \subseteq Opens
  /\ created \in 0..MaxConnections
  /\ endpoint \in [Connections -> Endpoints]
  /\ bound \in [Connections -> SUBSET Opens]
  /\ closed \subseteq Connections
  /\ loop \in [Connections -> {"none", "receive", "closed", "removed", "notify", "ended",
                               "aborted"}]
  /\ leaving \in [Connections -> SUBSET Opens]
  /\ requests \in [Connections -> SUBSET Opens]
  /\ pool \in [Endpoints -> SUBSET Connections]
  /\ holder \in [Endpoints -> Opens \cup {None}]
  /\ stopped \in BOOLEAN

TypeOK == OpenTypes /\ SharedTypes /\ inFlight \in [Endpoints -> Nat]

Init ==
  /\ pc = [o \in Opens |-> "idle"]
  /\ attempts = [o \in Opens |-> 0]
  /\ excluded = [o \in Opens |-> {}]
  /\ failedOwner = [o \in Opens |-> None]
  /\ target = [o \in Opens |-> [endpoint |-> CHOOSE e \in Endpoints : TRUE, owner |-> None]]
  /\ connection = [o \in Opens |-> 0]
  /\ expired = [o \in Opens |-> FALSE]
  /\ receivers = {}
  /\ pending = [o \in Opens |-> 0]
  /\ answer = [o \in Opens |-> "none"]
  /\ inFlight = [e \in Endpoints |-> 0]
  /\ created = 0
  /\ endpoint = [c \in Connections |-> CHOOSE e \in Endpoints : TRUE]
  /\ bound = [c \in Connections |-> {}]
  /\ closed = {}
  /\ loop = [c \in Connections |-> "none"]
  /\ leaving = [c \in Connections |-> {}]
  /\ requests = [c \in Connections |-> {}]
  /\ pool = [e \in Endpoints |-> {}]
  /\ holder = [e \in Endpoints |-> None]
  /\ stopped = FALSE

-----------------------------------------------------------------------------
(* open(): the loop over attempts.                                         *)

Goto(o, l) == pc' = [pc EXCEPT ![o] = l]

Placing(o) == target[o].owner = None

\* on_placement_failed, when the attempt was a Placement.
RollBack(o) ==
  inFlight' = IF Placing(o) THEN [inFlight EXCEPT ![target[o].endpoint] = @ - 1] ELSE inFlight

\* Seeded fault: a failed attempt and a dropped Session stay bound.
UnbindNothing(o) == UNCHANGED bound

Unbind(o) == bound' = [bound EXCEPT ![connection[o]] = @ \ {o}]

\* Seeded fault: the receiver of a failed open() stays registered.
FailQuietly(o) ==
  /\ Goto(o, "error")
  /\ pending' = [pending EXCEPT ![o] = 0]
  /\ UNCHANGED receivers

\* break Err: the pending entry and the receiver go.
Fail(o) ==
  /\ Goto(o, "error")
  /\ receivers' = receivers \ {o}
  /\ pending' = [pending EXCEPT ![o] = 0]

\* continue, with the endpoint excluded or the live Owner remembered.
Retry(o) ==
  /\ Goto(o, "resolve")
  /\ IF Placing(o)
     THEN /\ excluded' = [excluded EXCEPT ![o] = @ \cup {target[o].endpoint}]
          /\ UNCHANGED failedOwner
     ELSE /\ failedOwner' = [failedOwner EXCEPT ![o] = target[o].owner]
          /\ UNCHANGED excluded

BeginOpen(o) ==
  /\ pc[o] = "idle" /\ ~stopped
  /\ Goto(o, "resolve")
  /\ receivers' = receivers \cup {o}
  /\ UNCHANGED <<openVars, connection, pending, answer, inFlight, connVars, bound, pool,
                 holder, stopped>>

DeadlinePasses(o) ==
  /\ pc[o] \notin {"idle", "open", "dropped", "error"} /\ ~expired[o]
  /\ expired' = [expired EXCEPT ![o] = TRUE]
  /\ UNCHANGED <<pc, attempts, excluded, failedOwner, target, connection, receivers, pending,
                 answer, inFlight, connVars, bound, pool, holder, stopped>>

\* resolve_owner: a store does not answer in time, or the record cannot be used.
ResolveFails(o) ==
  /\ pc[o] = "resolve"
  /\ Fail(o)
  /\ UNCHANGED <<openVars, connection, answer, inFlight, connVars, bound, pool, holder, stopped>>

\* A live Owner: given up when it is the one that just failed.
ResolveLive(o, n) ==
  /\ pc[o] = "resolve" /\ ~expired[o]
  /\ IF failedOwner[o] = n
     THEN Fail(o) /\ UNCHANGED target
     ELSE /\ target' = [target EXCEPT ![o] = [endpoint |-> EndpointOf[n], owner |-> n]]
          /\ Goto(o, "lock")
          /\ UNCHANGED <<receivers, pending>>
  /\ UNCHANGED <<attempts, excluded, failedOwner, expired, connection, answer, inFlight, connVars,
                 bound, pool, holder, stopped>>

ResolveUnowned(o) ==
  /\ pc[o] = "resolve" /\ ~expired[o]
  /\ Goto(o, "select")
  /\ UNCHANGED <<openVars, connection, receivers, pending, answer, inFlight, connVars, bound,
                 pool, holder, stopped>>

\* select_placement_candidate: the strategy chooses and counts the Placement.
Select(o, e) ==
  /\ pc[o] = "select" /\ e \notin excluded[o]
  /\ target' = [target EXCEPT ![o] = [endpoint |-> e, owner |-> None]]
  /\ inFlight' = [inFlight EXCEPT ![e] = @ + 1]
  /\ Goto(o, "lock")
  /\ UNCHANGED <<attempts, excluded, failedOwner, expired, connection, receivers, pending, answer,
                 connVars, bound, pool, holder, stopped>>

\* No candidate is left, or the directory does not answer in time.
SelectFails(o) ==
  /\ pc[o] = "select"
  /\ Fail(o)
  /\ UNCHANGED <<openVars, connection, answer, inFlight, connVars, bound, pool, holder, stopped>>

-----------------------------------------------------------------------------
(* acquire_connection: the lock of the pool is held across the connect.    *)

Open(e) == pool[e] \ closed

\* Of a full pool a connection with the fewest Sessions is taken.
LeastBound(c, cs) == \A d \in cs : Cardinality(bound[c]) <= Cardinality(bound[d])

\* Seeded fault: the lock is given back before the connect.
LockPoolBriefly(o) ==
  LET e == target[o].endpoint IN
  /\ pc[o] = "lock" /\ holder[e] = None
  /\ Cardinality(Open(e)) < MaxPerEndpoint
  /\ pool' = [pool EXCEPT ![e] = Open(e)]
  /\ Goto(o, "connect")
  /\ UNCHANGED <<openVars, connection, receivers, pending, answer, inFlight, connVars, bound,
                 holder, stopped>>

LockPool(o) ==
  LET e == target[o].endpoint IN
  /\ pc[o] = "lock" /\ holder[e] = None
  /\ pool' = [pool EXCEPT ![e] = Open(e)]
  /\ \/ /\ Cardinality(Open(e)) < MaxPerEndpoint
        /\ holder' = [holder EXCEPT ![e] = o]
        /\ Goto(o, "connect")
        /\ UNCHANGED <<connection, bound>>
     \/ /\ Cardinality(Open(e)) >= MaxPerEndpoint
        /\ \E c \in Open(e) :
             /\ LeastBound(c, Open(e))
             /\ bound' = [bound EXCEPT ![c] = @ \cup {o}]
             /\ connection' = [connection EXCEPT ![o] = c]
        /\ Goto(o, "bound")
        /\ UNCHANGED holder
  /\ UNCHANGED <<openVars, receivers, pending, answer, inFlight, connVars, stopped>>

\* The lock is not had before the deadline.
LockTimesOut(o) ==
  /\ pc[o] = "lock" /\ expired[o]
  /\ Retry(o) /\ RollBack(o)
  /\ UNCHANGED <<attempts, target, expired, connection, receivers, pending, answer, connVars,
                 bound, pool, holder, stopped>>

\* The connection is pooled and bound, its receive loop spawned, the lock given back.
Connect(o) ==
  LET e == target[o].endpoint
      c == created + 1 IN
  /\ pc[o] = "connect" /\ ~expired[o] /\ c \in Connections
  /\ created' = c
  /\ endpoint' = [endpoint EXCEPT ![c] = e]
  /\ loop' = [loop EXCEPT ![c] = "receive"]
  /\ pool' = [pool EXCEPT ![e] = @ \cup {c}]
  /\ bound' = [bound EXCEPT ![c] = {o}]
  /\ connection' = [connection EXCEPT ![o] = c]
  /\ holder' = [holder EXCEPT ![e] = None]
  /\ Goto(o, "bound")
  /\ UNCHANGED <<openVars, receivers, pending, answer, inFlight, closed, leaving, requests,
                 stopped>>

\* Seeded fault: a failed connect does not take the Placement back.
ConnectFailsUncounted(o) ==
  /\ pc[o] = "connect"
  /\ holder' = [holder EXCEPT ![target[o].endpoint] = None]
  /\ Retry(o)
  /\ UNCHANGED <<attempts, target, expired, connection, receivers, pending, answer, inFlight,
                 connVars, bound, pool, stopped>>

\* Seeded fault: a failed connect keeps the lock of the pool.
ConnectFailsLocked(o) ==
  /\ pc[o] = "connect"
  /\ Retry(o) /\ RollBack(o)
  /\ UNCHANGED <<attempts, target, expired, connection, receivers, pending, answer, connVars,
                 bound, pool, holder, stopped>>

ConnectFails(o) ==
  /\ pc[o] = "connect"
  /\ holder' = [holder EXCEPT ![target[o].endpoint] = None]
  /\ Retry(o) /\ RollBack(o)
  /\ UNCHANGED <<attempts, target, expired, connection, receivers, pending, answer, connVars,
                 bound, pool, stopped>>

-----------------------------------------------------------------------------
(* send_session_open, and what open() makes of its outcome.                *)

\* An open() with no attempt left gives up; any other makes its pending entry.
InsertPending(o) ==
  /\ pc[o] = "bound"
  /\ IF attempts[o] >= MaxOpenAttempts
     THEN Unbind(o) /\ RollBack(o) /\ Fail(o) /\ UNCHANGED answer
     ELSE /\ pending' = [pending EXCEPT ![o] = connection[o]]
          /\ answer' = [answer EXCEPT ![o] = "none"]
          /\ Goto(o, "send")
          /\ UNCHANGED <<receivers, inFlight, bound>>
  /\ UNCHANGED <<openVars, connection, connVars, pool, holder, stopped>>

\* Seeded fault: try_send does not look at `closed'.
SendOpenBlind(o) ==
  /\ pc[o] = "send"
  /\ attempts' = [attempts EXCEPT ![o] = @ + 1]
  /\ requests' = [requests EXCEPT ![connection[o]] = @ \cup {o}]
  /\ Goto(o, "wait")
  /\ UNCHANGED <<excluded, failedOwner, target, expired, connection, receivers, pending, answer,
                 inFlight, created, endpoint, closed, loop, leaving, bound, pool, holder, stopped>>

\* try_send looks at `closed' and finds room in the queue.
SendOpen(o) ==
  /\ pc[o] = "send" /\ connection[o] \notin closed
  /\ attempts' = [attempts EXCEPT ![o] = @ + 1]
  /\ requests' = [requests EXCEPT ![connection[o]] = @ \cup {o}]
  /\ Goto(o, "wait")
  /\ UNCHANGED <<excluded, failedOwner, target, expired, connection, receivers, pending, answer,
                 inFlight, created, endpoint, closed, loop, leaving, bound, pool, holder, stopped>>

Again(err, o) ==
  /\ err \in {"NotOwner", "Unavailable"} \/ (err = "AtCapacity" /\ Placing(o))
  /\ attempts[o] < MaxOpenAttempts

\* An attempt that failed is unbound and its pending entry removed (a SessionClose
\* is sent if it can); NotOwner resolves afresh, the others also exclude.
AttemptFails(o, err) ==
  /\ Unbind(o) /\ RollBack(o)
  /\ IF Again(err, o)
     THEN /\ pending' = [pending EXCEPT ![o] = 0]
          /\ UNCHANGED receivers
          /\ IF err = "NotOwner"
             THEN Goto(o, "resolve") /\ UNCHANGED <<excluded, failedOwner>>
             ELSE Retry(o)
     ELSE Fail(o) /\ UNCHANGED <<excluded, failedOwner>>
  /\ UNCHANGED <<attempts, target, expired, connection, answer, connVars, pool, holder, stopped>>

\* The connection is closed, or its queue full: nothing was sent.
SendFails(o) ==
  /\ pc[o] = "send"
  /\ AttemptFails(o, "Unavailable")

OpenAnswered(o) ==
  /\ pc[o] = "wait" /\ answer[o] = "ok"
  /\ Goto(o, "open")
  /\ UNCHANGED <<openVars, connection, receivers, pending, answer, inFlight, connVars, bound,
                 pool, holder, stopped>>

OpenRefused(o) ==
  /\ pc[o] = "wait" /\ answer[o] \notin {"none", "ok"}
  /\ AttemptFails(o, answer[o])

\* Seeded fault: the answer is awaited without the deadline.
AnswerAwaited(o) ==
  /\ pc[o] = "wait" /\ answer[o] = "Unavailable" /\ expired[o]
  /\ AttemptFails(o, "Unavailable")

AnswerTimesOut(o) ==
  /\ pc[o] = "wait" /\ answer[o] = "none" /\ expired[o]
  /\ AttemptFails(o, "Unavailable")

\* Session::drop.
DropSession(o) ==
  /\ pc[o] = "open"
  /\ Goto(o, "dropped")
  /\ receivers' = receivers \ {o}
  /\ Unbind(o)
  /\ UNCHANGED <<openVars, connection, pending, answer, inFlight, connVars, pool, holder, stopped>>

-----------------------------------------------------------------------------
(* The receive loop of a connection.                                       *)

\* handle_envelope, SessionOpenedAck: only for the open pending on this connection.
Acknowledge(c, o, result) ==
  /\ loop[c] = "receive" /\ o \in requests[c]
  /\ requests' = [requests EXCEPT ![c] = @ \ {o}]
  /\ IF pending[o] = c
     THEN /\ pending' = [pending EXCEPT ![o] = 0]
          /\ answer' = [answer EXCEPT ![o] = result]
     ELSE UNCHANGED <<pending, answer>>
  /\ UNCHANGED <<pc, openVars, connection, receivers, inFlight, created, endpoint, closed, loop,
                 leaving, bound, pool, holder, stopped>>

\* The stream ends: first `closed' is set ...
ConnectionLost(c) ==
  /\ loop[c] = "receive"
  /\ loop' = [loop EXCEPT ![c] = "closed"]
  /\ closed' = closed \cup {c}
  /\ UNCHANGED <<pc, openVars, connection, receivers, pending, answer, inFlight, created, endpoint,
                 leaving, requests, bound, pool, holder, stopped>>

\* ... then the connection leaves its pool, under the lock ...
LeavePool(c) ==
  /\ loop[c] = "closed" /\ holder[endpoint[c]] = None
  /\ loop' = [loop EXCEPT ![c] = "removed"]
  /\ pool' = [pool EXCEPT ![endpoint[c]] = @ \ {c}]
  /\ UNCHANGED <<pc, openVars, connection, receivers, pending, answer, inFlight, created, endpoint,
                 closed, leaving, requests, bound, holder, stopped>>

\* ... then its Sessions are drained ...
DrainSessions(c) ==
  /\ loop[c] = "removed"
  /\ loop' = [loop EXCEPT ![c] = IF bound[c] = {} THEN "ended" ELSE "notify"]
  /\ leaving' = [leaving EXCEPT ![c] = bound[c]]
  /\ bound' = [bound EXCEPT ![c] = {}]
  /\ UNCHANGED <<pc, openVars, connection, receivers, pending, answer, inFlight, created, endpoint,
                 closed, requests, pool, holder, stopped>>

\* Seeded fault: only pending opens are told.
NotifyPendingOnly(c, o) ==
  /\ loop[c] = "notify" /\ o \in leaving[c]
  /\ leaving' = [leaving EXCEPT ![c] = @ \ {o}]
  /\ loop' = [loop EXCEPT ![c] = IF leaving[c] = {o} THEN "ended" ELSE "notify"]
  /\ IF pending[o] = c
     THEN /\ pending' = [pending EXCEPT ![o] = 0]
          /\ answer' = [answer EXCEPT ![o] = "Unavailable"]
     ELSE UNCHANGED <<pending, answer>>
  /\ UNCHANGED <<pc, openVars, connection, receivers, inFlight, created, endpoint, closed, requests,
                 bound, pool, holder, stopped>>

\* ... and each is answered if it is pending here, or else loses its receiver.
NotifyLost(c, o) ==
  /\ loop[c] = "notify" /\ o \in leaving[c]
  /\ leaving' = [leaving EXCEPT ![c] = @ \ {o}]
  /\ loop' = [loop EXCEPT ![c] = IF leaving[c] = {o} THEN "ended" ELSE "notify"]
  /\ IF pending[o] = c
     THEN /\ pending' = [pending EXCEPT ![o] = 0]
          /\ answer' = [answer EXCEPT ![o] = "Unavailable"]
          /\ UNCHANGED receivers
     ELSE /\ receivers' = receivers \ {o}
          /\ UNCHANGED <<pending, answer>>
  /\ UNCHANGED <<pc, openVars, connection, inFlight, created, endpoint, closed, requests, bound,
                 pool, holder, stopped>>

\* Client::shutdown consumes the Client, so no open() is under way: pooled
\* connections are closed, receive loops aborted at their await, receivers told.
Shutdown ==
  /\ ~stopped
  /\ \A o \in Opens : pc[o] \in {"idle", "open", "dropped", "error"}
  /\ stopped' = TRUE
  /\ closed' = closed \cup UNION {pool[e] : e \in Endpoints}
  /\ pool' = [e \in Endpoints |-> {}]
  /\ loop' = [c \in Connections |-> IF loop[c] \in {"receive", "closed"} THEN "aborted" ELSE loop[c]]
  /\ pending' = [o \in Opens |-> 0]
  /\ receivers' = {}
  /\ UNCHANGED <<pc, openVars, connection, answer, inFlight, created, endpoint, leaving, requests,
                 bound, holder>>

-----------------------------------------------------------------------------
Resolve(o) == \/ ResolveFails(o) \/ ResolveUnowned(o)
              \/ \E n \in Owners : ResolveLive(o, n)
Place(o)   == SelectFails(o) \/ \E e \in Endpoints : Select(o, e)
Acquire(o) == LockPool(o) \/ LockTimesOut(o) \/ Connect(o) \/ ConnectFails(o)
Attempt(o) == \/ InsertPending(o) \/ SendOpen(o) \/ SendFails(o)
              \/ OpenAnswered(o) \/ OpenRefused(o) \/ AnswerTimesOut(o)
OpenStep(o) == Resolve(o) \/ Place(o) \/ Acquire(o) \/ Attempt(o)

LossStep(c) == LeavePool(c) \/ DrainSessions(c) \/ \E o \in Opens : NotifyLost(c, o)

Next ==
  \/ Shutdown
  \/ \E o \in Opens : BeginOpen(o) \/ DeadlinePasses(o) \/ OpenStep(o) \/ DropSession(o)
  \/ \E c \in Connections :
       \/ ConnectionLost(c) \/ LossStep(c)
       \/ \E o \in Opens, r \in Answers \ {"Unavailable"} : Acknowledge(c, o, r)

Spec == Init /\ [][Next]_vars

\* Deadlines pass and tokio polls every open() and every receive loop that can go
\* on; the lock of a pool is FIFO.  No Server is obliged to answer, no caller to
\* open or to drop.
LiveSpec ==
  /\ Spec
  /\ \A o \in Opens : WF_vars(DeadlinePasses(o)) /\ WF_vars(OpenStep(o))
  /\ \A c \in Connections : SF_vars(LossStep(c))

-----------------------------------------------------------------------------
(* Properties.                                                             *)

\* The attempt of o is on its connection, or the Session is.
Using(o) == pc[o] \in {"bound", "send", "wait", "open"}

\* docs/runtime.md: a Session is bound to one connection from open through close.
\* Until a connection is drained its bound Sessions are exactly those of the
\* opens and Sessions on it: bind under the pool lock, unbind on every way out
\* and the drain together neither forget one nor keep one that is gone.
BoundIsUsed ==
  \A c \in Connections :
    loop[c] \in {"receive", "closed", "removed"} =>
      bound[c] = {o \in Opens : Using(o) /\ connection[o] = c}

\* Pools bound the connections: of those an endpoint has, at most
\* max_connections_per_endpoint are not closed, and each of them is in the pool,
\* so that shutdown finds it.
PoolIsBounded ==
  \A e \in Endpoints :
    LET open == {c \in 1..created : endpoint[c] = e /\ c \notin closed} IN
    open \subseteq pool[e] /\ Cardinality(open) <= MaxPerEndpoint

\* An open that waits is answered by the loss of its connection: the pending
\* entry is made before `closed' is read, and `closed' is set before the drain.
NobodyWaitsOnTheDead ==
  \A o \in Opens : pc[o] = "wait" /\ answer[o] = "none" =>
    loop[connection[o]] # "ended"

\* In-flight Placement counts the Placements under way and those that succeeded;
\* every other outcome of an attempt has taken its count back, once.
InFlightIsExact ==
  \A e \in Endpoints :
    inFlight[e] = Cardinality({o \in Opens :
      /\ Placing(o) /\ target[o].endpoint = e
      /\ pc[o] \in {"lock", "connect", "bound", "send", "wait", "open", "dropped"}})

\* A finished open() leaves nothing behind: no receiver, no pending entry, no
\* binding, no pool lock.
FailedOpenIsForgotten ==
  \A o \in Opens : pc[o] = "error" =>
    /\ o \notin receivers /\ pending[o] = 0
    /\ \A c \in Connections : o \notin bound[c]
    /\ \A e \in Endpoints : holder[e] # o

\* Once the receive loop of its connection has ended, or shutdown has aborted it,
\* a Session has been told: its receiver is closed, recv() does not wait for ever.
LossIsTold ==
  \A o \in Opens :
    pc[o] = "open" /\ loop[connection[o]] \in {"ended", "aborted"} => o \notin receivers

-----------------------------------------------------------------------------
(* The inductive invariant from which ClientOpenProofs derives the         *)
(* invariants above.                                                       *)

Settled(o) == pc[o] \in {"idle", "open", "dropped", "error"}

\* The receive loop of a connection and its `closed'.
LoopInv ==
  \A c \in Connections :
    /\ loop[c] = "none" <=> c > created
    /\ loop[c] = "receive" <=> c <= created /\ c \notin closed
    /\ c \in closed => c <= created
    /\ loop[c] = "aborted" => stopped

\* A pool keeps its own connections, all that are not closed among them; while its
\* lock is held across a connect there is room for one more.
PoolInv ==
  /\ \A e \in Endpoints :
       /\ Cardinality(pool[e]) <= MaxPerEndpoint
       /\ \A c \in pool[e] : c <= created /\ endpoint[c] = e
       /\ holder[e] # None => /\ pc[holder[e]] = "connect" /\ target[holder[e]].endpoint = e
                              /\ Cardinality(pool[e]) < MaxPerEndpoint
  /\ \A c \in Connections : c <= created /\ c \notin closed => c \in pool[endpoint[c]]
  /\ \A o \in Opens : pc[o] = "connect" => holder[target[o].endpoint] = o

\* Whoever is bound uses the connection; whoever uses it is bound until the drain.
BindInv ==
  /\ \A c \in Connections, o \in Opens : o \in bound[c] => Using(o) /\ connection[o] = c
  /\ \A o \in Opens : Using(o) =>
       /\ connection[o] \in 1..created
       /\ loop[connection[o]] \in {"receive", "closed", "removed"} => o \in bound[connection[o]]

\* The receive loop of its connection has still to deal with o.
Attended(o) ==
  \/ loop[connection[o]] \in {"receive", "closed", "removed"}
  \/ loop[connection[o]] = "notify" /\ o \in leaving[connection[o]]

\* An attempt has its pending entry until it has its answer, and someone to give
\* it; a Session with a receiver has someone to close it.
AnswerInv(o) ==
  /\ pending[o] = IF pc[o] \in {"send", "wait"} /\ answer[o] = "none"
                  THEN connection[o] ELSE 0
  /\ pc[o] = "send" => attempts[o] < MaxOpenAttempts
  /\ pc[o] = "wait" /\ answer[o] = "none" => Attended(o)
  /\ pc[o] = "wait" /\ answer[o] = "ok" /\ o \in receivers => Attended(o)
  /\ pc[o] = "open" /\ o \in receivers => Attended(o)

ReceiverInv(o) ==
  /\ pc[o] \in {"idle", "dropped", "error"} => o \notin receivers
  /\ stopped => o \notin receivers /\ Settled(o)

ClientInv ==
  /\ TypeOK /\ LoopInv /\ PoolInv /\ BindInv /\ InFlightIsExact
  /\ \A o \in Opens : AnswerInv(o) /\ ReceiverInv(o)

-----------------------------------------------------------------------------
\* open_timeout bounds open(), whatever the stores, the Servers and the pool do.
OpenEnds ==
  \A o \in Opens : pc[o] = "resolve" ~> pc[o] \in {"open", "dropped", "error"}

\* The receive loop of a lost connection gets the pool lock and drains.
LossIsProcessed == \A c \in Connections : loop[c] = "closed" ~> loop[c] \in {"ended", "aborted"}
=============================================================================
