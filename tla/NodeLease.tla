----------------------------- MODULE NodeLease -----------------------------
(***************************************************************************)
(* The Node Lease of ONE Node ID: the lease object in the Coordination     *)
(* Store (cluster/s3.rs), the processes that start a Server under that     *)
(* Node ID (ServerStarter::start, cluster/authority.rs), the renewal loop  *)
(* of each (spawn_lease_renewal, cluster/node.rs), its self-fence and its  *)
(* graceful shutdown.                                                      *)
(*                                                                         *)
(* A process is named by the Node Session ID it generates.  Processes run  *)
(* concurrently, crash, and pause for any time between two steps.          *)
(*                                                                         *)
(* Time.  `now' counts clock ticks.  `wall' is what wall_time_millis()     *)
(* returns, as the tick at which the current millisecond began: every      *)
(* timestamp the store holds is a whole number of milliseconds, while the  *)
(* local deadline is an Instant.  Clocks of different processes agree      *)
(* (ADR-0002 assumes ordinary clock synchronisation).                      *)
(*                                                                         *)
(* The store.  A revision is an ETag, a function of the content, so a      *)
(* revision IS the content it names and a conditional request is the pair  *)
(* of the content it expects and the content it leaves.  A request that    *)
(* was sent can take effect at any later time, more than once (the SDK     *)
(* resends) or never, whatever happened to its sender.                     *)
(***************************************************************************)
EXTENDS Integers, FiniteSets

CONSTANTS
  Sessions,     \* Node Session IDs, one per process start
  NoSession,    \* the "session" of an absent lease object
  TTL,          \* node_lease_ttl, in ticks
  TicksPerMs,   \* clock ticks per millisecond
  ReadBacks,    \* read-backs of confirm_node_lease (3 in the code)
  MaxTime,      \* bound on the clock
  MaxGen        \* bound on lease_generation

ASSUME ConstantsAssumption ==
  /\ NoSession \notin Sessions
  /\ TTL \in Nat \ {0}
  /\ TicksPerMs \in Nat \ {0}
  /\ ReadBacks \in Nat
  /\ MaxTime \in Nat
  /\ MaxGen \in Nat

VARIABLES
  now,       \* the clock, in ticks
  wall,      \* the tick at which the current millisecond began
  lease,     \* the lease object of the Node ID, or NoLease
  sent,      \* conditional requests sent to the store
  pc,        \* where start() or the renewal task of each process stands
  started,   \* authority_started / operation_started of the current operation
  deadline,  \* NodeAuthority.deadline
  valid,     \* NodeAuthority.valid
  gen,       \* node.lease_generation
  content,   \* the lease written by the current operation
  revision,  \* the revision the renewal task holds
  seen,      \* the lease object last read
  tries,     \* read-backs done by confirm_node_lease
  answer,    \* the store's answer to the current operation, if it arrived
  status,    \* ServerInner.status
  stop       \* progress of Server::shutdown

storeVars == <<lease, sent>>
clockVars == <<now, wall>>
opVars    == <<started, gen, content, answer>>
authVars  == <<deadline, valid, revision>>
readVars  == <<seen, tries>>
hostVars  == <<status, stop>>
vars      == <<clockVars, storeVars, pc, opVars, authVars, readVars, hostVars>>

NoLease  == [session |-> NoSession, gen |-> 0, expires |-> 0]
Leases   == [session : Sessions, gen : Nat, expires : Nat]
Objects  == Leases \cup {NoLease}
Requests == [by : Sessions, match : Objects, new : Objects]

Pcs == {"idle", "read", "acquire", "wait", "confirm", "check", "running",
        "renew", "fencing", "fenced", "exit", "released", "failed", "crashed"}
Statuses == {"RUNNING", "SHUTTING_DOWN", "STOPPED", "FENCED"}

TypeOK ==
  /\ now \in Nat /\ wall \in Nat
  /\ lease \in Objects
  /\ sent \in SUBSET Requests
  /\ pc \in [Sessions -> Pcs]
  /\ started \in [Sessions -> Nat]
  /\ deadline \in [Sessions -> Nat]
  /\ valid \in [Sessions -> BOOLEAN]
  /\ gen \in [Sessions -> Nat]
  /\ content \in [Sessions -> Objects]
  /\ revision \in [Sessions -> Objects]
  /\ seen \in [Sessions -> Objects]
  /\ tries \in [Sessions -> 0..ReadBacks]
  /\ answer \in [Sessions -> {"none", "applied", "conflict"}]
  /\ status \in [Sessions -> Statuses]
  /\ stop \in [Sessions -> {"no", "draining", "signalled"}]

Init ==
  /\ now = 0 /\ wall = 0
  /\ lease = NoLease
  /\ sent = {}
  /\ pc = [s \in Sessions |-> "idle"]
  /\ started = [s \in Sessions |-> 0]
  /\ deadline = [s \in Sessions |-> 0]
  /\ valid = [s \in Sessions |-> TRUE]
  /\ gen = [s \in Sessions |-> 0]
  /\ content = [s \in Sessions |-> NoLease]
  /\ revision = [s \in Sessions |-> NoLease]
  /\ seen = [s \in Sessions |-> NoLease]
  /\ tries = [s \in Sessions |-> 0]
  /\ answer = [s \in Sessions |-> "none"]
  /\ status = [s \in Sessions |-> "RUNNING"]
  /\ stop = [s \in Sessions |-> "no"]

Goto(s, l) == pc' = [pc EXCEPT ![s] = l]

-----------------------------------------------------------------------------
(* NodeAuthority, and where a process stands.                              *)

\* NodeAuthority::is_valid.
IsValid(s) == valid[s] /\ now < deadline[s]

\* start() has returned Ok and the renewal task has not returned.
Established(s) ==
  \/ pc[s] \in {"running", "renew", "fencing", "exit"}
  \/ pc[s] \in {"wait", "confirm", "check"} /\ gen[s] > 0

\* authority.fence() at every exit of the renewal loop that gives authority up.
Fence(s) ==
  /\ valid' = [valid EXCEPT ![s] = FALSE]
  /\ Goto(s, "fencing")

-----------------------------------------------------------------------------
(* S3CoordinationStore.                                                    *)

\* lease.expires_at_unix_ms <= wall_time_millis()
Expired(l) == l.expires <= wall

\* put_node: the expiry is computed from the wall clock just before the send.
PutNode(s, match) ==
  /\ content' = [content EXCEPT ![s] =
                   [session |-> s, gen |-> gen[s], expires |-> wall + TTL]]
  /\ sent' = sent \cup {[by |-> s, match |-> match, new |-> content'[s]]}
  /\ answer' = [answer EXCEPT ![s] = "none"]

\* The store serves one request it was sent: 200 when the object is the one
\* If-Match / If-None-Match expects, 412 otherwise; the answer may be lost.
\* If-Match on an absent object is a 404, an error like any other (RenewFails).
StoreServes(r) ==
  /\ lease' = IF lease = r.match THEN r.new ELSE lease
  /\ \/ UNCHANGED answer
     \/ /\ pc[r.by] = "wait" /\ r.new = content[r.by]
        /\ lease = r.match \/ lease # NoLease
        /\ answer' = [answer EXCEPT ![r.by] =
                        IF lease = r.match THEN "applied" ELSE "conflict"]
  /\ UNCHANGED <<clockVars, sent, pc, started, gen, content, authVars, readVars,
                 hostVars>>

-----------------------------------------------------------------------------
(* ServerStarter::start.                                                   *)

\* A process starts: a fresh Node Session ID, authority_started is taken.
Start(s) ==
  /\ pc[s] = "idle"
  /\ started' = [started EXCEPT ![s] = now]
  /\ deadline' = [deadline EXCEPT ![s] = now + TTL]
  /\ Goto(s, "read")
  /\ UNCHANGED <<clockVars, storeVars, gen, content, answer, valid, revision,
                 readVars, hostVars>>

\* acquire_node reads the lease object, expired or not.
AcquireRead(s) ==
  /\ pc[s] = "read"
  /\ seen' = [seen EXCEPT ![s] = lease]
  /\ Goto(s, "acquire")
  /\ UNCHANGED <<clockVars, storeVars, opVars, authVars, tries, hostVars>>

\* Seeded fault: a lease that is still live is overwritten too.
GreedyAcquirePut(s) ==
  /\ pc[s] = "acquire"
  /\ PutNode(s, seen[s])
  /\ Goto(s, "wait")
  /\ UNCHANGED <<clockVars, lease, started, gen, authVars, readVars, hostVars>>

\* acquire_node finds no object, or an expired one, and PUTs its own.
AcquirePut(s) ==
  /\ pc[s] = "acquire"
  /\ seen[s] = NoLease \/ Expired(seen[s])
  /\ PutNode(s, seen[s])
  /\ Goto(s, "wait")
  /\ UNCHANGED <<clockVars, lease, started, gen, authVars, readVars, hostVars>>

\* acquire_node finds a live lease: MutationOutcome::Conflict, LeaseConflict.
AcquireRefused(s) ==
  /\ pc[s] = "acquire"
  /\ seen[s] # NoLease /\ ~Expired(seen[s])
  /\ Goto(s, "failed")
  /\ UNCHANGED <<clockVars, storeVars, opVars, authVars, readVars, hostVars>>

\* The read or the PUT of acquire_node fails or exceeds its timeout, or the
\* PUT is refused with 412: start() returns an error.
StartFails(s) ==
  /\ \/ pc[s] = "read"
     \/ pc[s] = "wait" /\ gen[s] = 0
  /\ Goto(s, "failed")
  /\ UNCHANGED <<clockVars, storeVars, opVars, authVars, readVars, hostVars>>

-----------------------------------------------------------------------------
(* Outcomes of acquire_node and renew_node.                                *)

\* Seeded fault: the deadline runs from the arrival of the answer.
LateConfirmed(s, rev) ==
  /\ revision' = [revision EXCEPT ![s] = rev]
  /\ deadline' = [deadline EXCEPT ![s] = now + TTL]
  /\ Goto(s, "running")

\* The lease write of s is known to have been applied with revision rev.
\* authority.renew(operation_started); start() also checks is_valid.
Confirmed(s, rev) ==
  /\ revision' = [revision EXCEPT ![s] = rev]
  /\ deadline' = [deadline EXCEPT ![s] = started[s] + TTL]
  /\ Goto(s, IF gen[s] = 0 /\ ~(now < started[s] + TTL) THEN "failed" ELSE "running")

\* MutationOutcome::Applied, also when it is polled after the old deadline.
OpApplied(s) ==
  /\ pc[s] = "wait" /\ answer[s] = "applied"
  /\ Confirmed(s, content[s])
  /\ UNCHANGED <<clockVars, storeVars, opVars, valid, readVars, hostVars>>

\* MutationOutcome::Conflict of a renewal.
RenewConflict(s) ==
  /\ pc[s] = "wait" /\ gen[s] > 0 /\ answer[s] = "conflict"
  /\ Fence(s)
  /\ UNCHANGED <<clockVars, storeVars, opVars, deadline, revision, readVars, hostVars>>

\* A renewal ends with an error or its timeout: the loop goes on with the
\* revision it had while its authority is valid, and fences otherwise.
RenewFails(s) ==
  /\ pc[s] = "wait" /\ gen[s] > 0
  /\ IF IsValid(s) THEN Goto(s, "running") /\ UNCHANGED valid ELSE Fence(s)
  /\ UNCHANGED <<clockVars, storeVars, opVars, deadline, revision, readVars, hostVars>>

\* MutationOutcome::Indeterminate: confirm_node_lease begins.
OpIndeterminate(s) ==
  /\ pc[s] = "wait"
  /\ tries' = [tries EXCEPT ![s] = 0]
  /\ Goto(s, "confirm")
  /\ UNCHANGED <<clockVars, storeVars, opVars, authVars, seen, hostVars>>

\* confirm_node_lease: one of the bounded read-backs, not after the deadline.
ConfirmRead(s) ==
  /\ pc[s] = "confirm" /\ tries[s] < ReadBacks /\ now <= deadline[s]
  /\ seen' = [seen EXCEPT ![s] = lease]
  /\ tries' = [tries EXCEPT ![s] = @ + 1]
  /\ Goto(s, "check")
  /\ UNCHANGED <<clockVars, storeVars, opVars, authVars, hostVars>>

\* Seeded fault: any live record of the session counts as the expected one.
AnyOwnExpected(s) ==
  /\ ~Expired(seen[s])
  /\ seen[s].session = s

\* node == *expected: the record read is the one written, generation included.
IsExpected(s) ==
  /\ ~Expired(seen[s])
  /\ seen[s].session = s /\ seen[s].gen = gen[s]

\* The read-back shows the expected record.
ConfirmOk(s) ==
  /\ pc[s] = "check" /\ IsExpected(s)
  /\ Confirmed(s, seen[s])
  /\ UNCHANGED <<clockVars, storeVars, opVars, valid, readVars, hostVars>>

\* The read-back failed, timed out or showed something else.
ConfirmRetry(s) ==
  /\ pc[s] = "check"
  /\ Goto(s, "confirm")
  /\ UNCHANGED <<clockVars, storeVars, opVars, authVars, readVars, hostVars>>

\* Seeded fault: the confirmation does not end at the deadline.
EndlessConfirmFails(s) ==
  /\ pc[s] = "confirm"
  /\ tries[s] = ReadBacks
  /\ IF gen[s] = 0 THEN Goto(s, "failed") /\ UNCHANGED valid ELSE Fence(s)
  /\ UNCHANGED <<clockVars, storeVars, opVars, deadline, revision, readVars, hostVars>>

\* No read-back is left or the deadline has passed.
ConfirmFails(s) ==
  /\ pc[s] = "confirm"
  /\ tries[s] = ReadBacks \/ now > deadline[s]
  /\ IF gen[s] = 0 THEN Goto(s, "failed") /\ UNCHANGED valid ELSE Fence(s)
  /\ UNCHANGED <<clockVars, storeVars, opVars, deadline, revision, readVars, hostVars>>

-----------------------------------------------------------------------------
(* The renewal loop.                                                       *)

\* The loop wakes, at a jittered time or at the deadline, with authority.
BeginRenewal(s) ==
  /\ pc[s] = "running" /\ IsValid(s)
  /\ gen[s] < MaxGen
  /\ started' = [started EXCEPT ![s] = now]
  /\ gen' = [gen EXCEPT ![s] = @ + 1]
  /\ Goto(s, "renew")
  /\ UNCHANGED <<clockVars, storeVars, content, answer, authVars, readVars, hostVars>>

\* renew_node, when some of the lease remains.
RenewPut(s) ==
  /\ pc[s] = "renew" /\ now <= deadline[s]
  /\ PutNode(s, revision[s])
  /\ Goto(s, "wait")
  /\ UNCHANGED <<clockVars, lease, started, gen, authVars, readVars, hostVars>>

\* The loop finds its deadline passed, on waking or before the PUT.
LeaseLapsed(s) ==
  /\ \/ pc[s] = "running" /\ ~IsValid(s)
     \/ pc[s] = "renew" /\ now > deadline[s]
  /\ Fence(s)
  /\ UNCHANGED <<clockVars, storeVars, opVars, deadline, revision, readVars, hostVars>>

\* runtime.fence() has run; the renewal task returns with release: false.
RuntimeFence(s) ==
  /\ pc[s] = "fencing"
  /\ status' = [status EXCEPT ![s] = "FENCED"]
  /\ Goto(s, "fenced")
  /\ UNCHANGED <<clockVars, storeVars, opVars, authVars, readVars, stop>>

-----------------------------------------------------------------------------
(* Server::shutdown: ServerInner::shutdown, then ClusterTasks::shutdown.   *)

\* The host asks for a shutdown; a runtime that is fenced is not drained.
BeginShutdown(s) ==
  /\ Established(s) \/ pc[s] = "fenced"
  /\ stop[s] = "no"
  /\ IF status[s] = "RUNNING"
       THEN /\ status' = [status EXCEPT ![s] = "SHUTTING_DOWN"]
            /\ stop' = [stop EXCEPT ![s] = "draining"]
       ELSE /\ UNCHANGED status
            /\ stop' = [stop EXCEPT ![s] = "signalled"]
  /\ UNCHANGED <<clockVars, storeVars, pc, opVars, authVars, readVars>>

\* Seeded fault: the renewal task is not signalled.
SilentFinishDrain(s) ==
  /\ Established(s) \/ pc[s] = "fenced"
  /\ stop[s] = "draining"
  /\ status' = [status EXCEPT ![s] = "STOPPED"]
  /\ UNCHANGED stop
  /\ UNCHANGED <<clockVars, storeVars, pc, opVars, authVars, readVars>>

\* Actors drained or aborted; STOPPED is stored and the renewal task signalled.
FinishDrain(s) ==
  /\ Established(s) \/ pc[s] = "fenced"
  /\ stop[s] = "draining"
  /\ status' = [status EXCEPT ![s] = "STOPPED"]
  /\ stop' = [stop EXCEPT ![s] = "signalled"]
  /\ UNCHANGED <<clockVars, storeVars, pc, opVars, authVars, readVars>>

\* Seeded fault: the renewal task may leave before the runtime has drained.
EarlyRenewalStop(s) ==
  /\ pc[s] = "running" /\ stop[s] # "no"
  /\ Goto(s, "exit")
  /\ UNCHANGED <<clockVars, storeVars, opVars, authVars, readVars, hostVars>>

\* The loop, while it sleeps, takes the shutdown signal: release: true.
RenewalStop(s) ==
  /\ pc[s] = "running" /\ stop[s] = "signalled"
  /\ Goto(s, "exit")
  /\ UNCHANGED <<clockVars, storeVars, opVars, authVars, readVars, hostVars>>

\* release_node: DELETE If-Match the revision held; its outcome is ignored.
ReleaseNode(s) ==
  /\ pc[s] = "exit"
  /\ sent' = sent \cup {[by |-> s, match |-> revision[s], new |-> NoLease]}
  /\ Goto(s, "released")
  /\ UNCHANGED <<clockVars, lease, opVars, authVars, readVars, hostVars>>

-----------------------------------------------------------------------------
(* The environment.                                                        *)

\* The process dies; what it sent stays on its way.
Crash(s) ==
  /\ pc[s] \notin {"idle", "failed", "crashed"}
  /\ Goto(s, "crashed")
  /\ UNCHANGED <<clockVars, storeVars, opVars, authVars, readVars, hostVars>>

Tick ==
  /\ now < MaxTime
  /\ now' = now + 1
  /\ wall' = IF now' = wall + TicksPerMs THEN now' ELSE wall
  /\ UNCHANGED <<storeVars, pc, opVars, authVars, readVars, hostVars>>

Starting(s) == Start(s) \/ AcquireRead(s) \/ AcquirePut(s) \/ AcquireRefused(s)
                 \/ StartFails(s)
Outcome(s)  == OpApplied(s) \/ RenewConflict(s) \/ RenewFails(s) \/ OpIndeterminate(s)
Confirm(s)  == ConfirmRead(s) \/ ConfirmOk(s) \/ ConfirmRetry(s) \/ ConfirmFails(s)
Renewal(s)  == BeginRenewal(s) \/ RenewPut(s) \/ LeaseLapsed(s) \/ RuntimeFence(s)
Shutdown(s) == BeginShutdown(s) \/ FinishDrain(s) \/ RenewalStop(s) \/ ReleaseNode(s)

Next ==
  \/ \E s \in Sessions :
       Starting(s) \/ Outcome(s) \/ Confirm(s) \/ Renewal(s) \/ Shutdown(s) \/ Crash(s)
  \/ \E r \in sent : StoreServes(r)
  \/ Tick

Spec == Init /\ [][Next]_vars

\* Every storage call ends (it is wrapped in a timeout), timers fire, drains
\* end (shutdown_timeout) and time passes.  A loop that comes back to its
\* select! takes a signal that is already there: strong fairness.
Fairness ==
  /\ WF_vars(Tick)
  /\ \A s \in Sessions :
       /\ WF_vars(Outcome(s)) /\ WF_vars(Confirm(s))
       /\ WF_vars(RenewPut(s)) /\ WF_vars(LeaseLapsed(s)) /\ WF_vars(RuntimeFence(s))
       /\ WF_vars(FinishDrain(s)) /\ SF_vars(RenewalStop(s)) /\ WF_vars(ReleaseNode(s))

FairSpec == Spec /\ Fairness

-----------------------------------------------------------------------------
(* Properties.                                                             *)

\* The process may run Actor handlers: dispatch_message accepts or the
\* shutdown drain is under way (runtime/core.rs:76-88).
Serving(s) ==
  /\ Established(s)
  /\ IsValid(s)
  /\ status[s] \in {"RUNNING", "SHUTTING_DOWN"}

\* Serving, with more than the rounding of one millisecond left of its lease.
ServingSafely(s) == Serving(s) /\ now + (TicksPerMs - 1) < deadline[s]

\* Two processes under one Node ID never both hold authority, whatever the
\* delays, losses, duplicates and crashes: CONTEXT.md:103-104 (at most one
\* valid Node Session per Node ID).  Exact when a tick is a millisecond;
\* otherwise it leaves out the last, partial millisecond of a lease.
AtMostOneServing ==
  \A s, t \in Sessions : ServingSafely(s) /\ ServingSafely(t) => s = t

\* Whoever reads the Node Directory and finds the session of an Owner absent,
\* replaced or expired may take its Actors over (cluster/routing.rs:94-112):
\* by then that session has no authority left.
StaleLeaseMeansFenced ==
  \A s \in Sessions :
    ServingSafely(s) => lease.session = s /\ ~Expired(lease)

\* A live lease object is overwritten only by its own session, and deleted
\* only once the runtime of that session has stopped (release_node comes
\* after ServerInner::shutdown); a fenced process deletes nothing.
LiveLeaseIsKept ==
  [][lease # NoLease /\ ~Expired(lease) /\ lease' # lease =>
       \/ lease'.session = lease.session
       \/ lease' = NoLease /\ status[lease.session] \in {"STOPPED", "FENCED"}]_vars

\* docs/runtime.md:35: a Server whose deadline passes renews late or
\* self-fences; it does not stay established without authority.
LapsedServerFences ==
  \A s \in Sessions :
    Established(s) /\ ~IsValid(s)
      ~> pc[s] \in {"fenced", "released", "crashed"} \/ IsValid(s)

\* A shutdown that was requested ends: the lease is released, or the process
\* has fenced or died (ClusterTasks::shutdown awaits the renewal task).
ShutdownEnds ==
  \A s \in Sessions :
    stop[s] # "no" ~> pc[s] \in {"fenced", "released", "crashed"}

\* What the rest of the system sees of the lease: NodeLease implements
\* NodeAuthority, where authority passes on only through a gap.
Authority == INSTANCE NodeAuthority
  WITH holder <- IF Expired(lease) THEN NoSession ELSE lease.session,
       held   <- {s \in Sessions : ServingSafely(s)}
AuthorityIsHandedOver == Authority!Spec

-----------------------------------------------------------------------------
(* The inductive invariant behind AtMostOneServing.                        *)

Waiting == {"wait", "confirm", "check"}

ClockInv == wall <= now /\ now < wall + TicksPerMs

\* e is the expiry of a lease that s is known to have stored: while it lies
\* ahead, the object belongs to s and expires no earlier.
Holds(s, e) == e > wall => lease.session = s /\ lease.expires >= e

\* l is an object that may be in the store, or was: absent, or written by its
\* session, which has not passed the generation of l without a newer write.
Written(l) ==
  l # NoLease =>
    /\ l.expires <= wall + TTL
    /\ pc[l.session] \notin {"idle", "read", "acquire"}
    /\ l.gen <= gen[l.session]
    /\ pc[l.session] = "renew" => l.gen < gen[l.session]
    /\ pc[l.session] \in Waiting /\ l.gen = gen[l.session] => l = content[l.session]

\* A DELETE comes from a process that has stopped.  A PUT replaces an object of
\* its own session by a later one, or an object that had expired when it was sent.
RequestInv(r) ==
  /\ Written(r.new)
  /\ r.new = NoLease =>
       /\ r.match.session = r.by
       /\ pc[r.by] \in {"released", "crashed"}
       /\ status[r.by] \in {"STOPPED", "FENCED"}
  /\ r.new # NoLease =>
       /\ r.new.session = r.by
       /\ \/ r.match.session = r.by /\ r.match.expires <= r.new.expires
          \/ Expired(r.match)

\* The write under way outlives the authority it would give, up to rounding.
OperationInv(s) ==
  /\ started[s] <= now
  /\ pc[s] \in {"idle", "read", "acquire"} => gen[s] = 0
  /\ pc[s] \in Waiting =>
       /\ content[s].session = s /\ content[s].gen = gen[s]
       /\ content[s].expires <= wall + TTL
       /\ started[s] + TTL <= content[s].expires + (TicksPerMs - 1)
  /\ pc[s] = "wait" /\ answer[s] = "applied" => Holds(s, content[s].expires)

\* The lease held outlives the local deadline, up to rounding.
AuthorityInv(s) ==
  Established(s) =>
    /\ revision[s].session = s
    /\ Written(revision[s])
    /\ deadline[s] <= revision[s].expires + (TicksPerMs - 1)
    /\ Holds(s, revision[s].expires)

ReadInv(s) ==
  /\ Written(seen[s])
  /\ pc[s] = "check" /\ seen[s].session = s => Holds(s, seen[s].expires)

ShutdownInv(s) ==
  /\ stop[s] = "no" => status[s] \in {"RUNNING", "FENCED"}
  /\ stop[s] = "signalled" => status[s] \in {"STOPPED", "FENCED"}
  /\ pc[s] = "exit" => stop[s] = "signalled"

\* What every step preserves: a session that counts on a lease has it in the
\* store, because a foreign PUT needs an expired object and a DELETE a
\* stopped owner (put_node, acquire_node, release_node).
LeaseInv ==
  /\ TypeOK
  /\ ClockInv
  /\ Written(lease)
  /\ \A r \in sent : RequestInv(r)
  /\ \A s \in Sessions :
       OperationInv(s) /\ AuthorityInv(s) /\ ReadInv(s) /\ ShutdownInv(s)
=============================================================================
