--------------------------- MODULE ActorOwnership ---------------------------
(***************************************************************************)
(* The ownership of ONE Actor Address: its Actor Owner Record in the       *)
(* Coordination Store, the router of every process (ClusterRouter,         *)
(* cluster/routing.rs) that claims and releases it, and the Active Actor   *)
(* that each process may run on the strength of it (runtime/core.rs,       *)
(* runtime/lifecycle.rs).                                                  *)
(*                                                                         *)
(* Node Leases are what NodeAuthority says of them, for every Node ID.     *)
(*                                                                         *)
(* A router runs one resolve or release of an address at a time            *)
(* (resolution_lock), so `op' is where the lock's owner stands.  As in     *)
(* NodeLease a revision is the content it names, and a request that was    *)
(* sent can take effect at any later time, more than once or never.        *)
(*                                                                         *)
(* `Env' names the things that the environment may do to the protocol:     *)
(*   "late_release"  a release PUT takes effect after release_local_owner  *)
(*                   has given it up                                       *)
(*   "revival"       an expired lease comes back: a delayed renewal PUT of *)
(*                   the same session takes effect                         *)
(*   "overlap"       a process starts under a Node ID whose previous       *)
(*                   process has lost its lease but still runs             *)
(***************************************************************************)
EXTENDS Integers, FiniteSets

CONSTANTS
  Nodes,        \* Node IDs
  Sessions,     \* Node Session IDs
  NodeOf,       \* the Node ID of each session
  NoSession,    \* no owner, no holder
  Rounds,       \* attempts of resolve (3 in the code)
  ReadBacks,    \* read-backs after an indeterminate claim (3 in the code)
  MaxEpoch,     \* bound on ownership_epoch
  Env           \* what the environment may do

ASSUME OwnershipAssumption ==
  /\ NoSession \notin Sessions
  /\ NodeOf \in [Sessions -> Nodes]
  /\ Rounds \in Nat \ {0}
  /\ ReadBacks \in Nat \ {0}
  /\ MaxEpoch \in Nat
  /\ Env \subseteq {"late_release", "revival", "overlap"}

VARIABLES
  holder,   \* per Node ID, the session a directory reader finds, or NoSession
  held,     \* the sessions whose NodeAuthority is valid
  stage,    \* life of each process: new, starting, running, draining, stopped, gone
  record,   \* the Actor Owner Record
  sent,     \* conditional PUTs of the record sent to the store
  history,  \* every record the store ever held
  op,       \* where the resolve or release under the resolution lock stands
  seen,     \* the record it read
  round,    \* rounds of resolve begun
  tries,    \* read-backs done
  answer,   \* the store's answer to its PUT, if it arrived
  actor,    \* the route of the Actor: none, active, deactivating, released
  bound     \* a Session of the Actor is registered

leaseVars == <<holder, held>>
storeVars == <<record, sent, history>>
opVars    == <<seen, round, tries, answer>>
hostVars  == <<actor, bound>>
vars      == <<leaseVars, stage, storeVars, op, opVars, hostVars>>

\* ActorOwnerRecord.  No object is the unowned record of epoch 0.
Records  == [owner : Sessions \cup {NoSession}, epoch : Nat]
NoRecord == [owner |-> NoSession, epoch |-> 0]
Requests == [by : Sessions, match : Records, new : Records]

Ops    == {"idle", "read", "directory", "put", "wait", "confirm", "local",
           "rel_read", "rel_put", "rel_wait"}
Stages == {"new", "starting", "running", "draining", "stopped", "gone"}

TypeOK ==
  /\ holder \in [Nodes -> Sessions \cup {NoSession}]
  /\ held \in SUBSET Sessions
  /\ stage \in [Sessions -> Stages]
  /\ record \in Records
  /\ sent \in SUBSET Requests
  /\ history \in SUBSET Records
  /\ op \in [Sessions -> Ops]
  /\ seen \in [Sessions -> Records]
  /\ round \in [Sessions -> 0..Rounds]
  /\ tries \in [Sessions -> 0..ReadBacks]
  /\ answer \in [Sessions -> {"none", "applied", "conflict"}]
  /\ actor \in [Sessions -> {"none", "active", "deactivating", "released"}]
  /\ bound \in [Sessions -> BOOLEAN]

Init ==
  /\ holder = [n \in Nodes |-> NoSession]
  /\ held = {}
  /\ stage = [s \in Sessions |-> "new"]
  /\ record = NoRecord
  /\ sent = {}
  /\ history = {NoRecord}
  /\ op = [s \in Sessions |-> "idle"]
  /\ seen = [s \in Sessions |-> NoRecord]
  /\ round = [s \in Sessions |-> 0]
  /\ tries = [s \in Sessions |-> 0]
  /\ answer = [s \in Sessions |-> "none"]
  /\ actor = [s \in Sessions |-> "none"]
  /\ bound = [s \in Sessions |-> FALSE]

Goto(s, l) == op' = [op EXCEPT ![s] = l]

\* The transport of the process accepts connections: it does so until
\* ClusterTasks::shutdown, after the runtime was fenced or stopped too.
Up(s) == stage[s] \in {"running", "draining", "stopped"}

-----------------------------------------------------------------------------
(* Node Leases and processes: the actions of NodeAuthority, per Node ID.   *)

\* A start, or the late renewal of a lease that had expired, writes a lease.
Acquire(s) ==
  /\ holder[NodeOf[s]] = NoSession
  /\ \/ /\ stage[s] = "new"
        /\ "overlap" \in Env
             \/ \A t \in Sessions \ {s} :
                  NodeOf[t] = NodeOf[s] => stage[t] \in {"new", "gone"}
     \/ stage[s] # "new" /\ "revival" \in Env
  /\ holder' = [holder EXCEPT ![NodeOf[s]] = s]
  /\ stage' = [stage EXCEPT ![s] = IF @ = "new" THEN "starting" ELSE @]
  /\ UNCHANGED <<held, storeVars, op, opVars, hostVars>>

\* The lease write is confirmed: start() returns, or authority.renew().
Gain(s) ==
  /\ holder[NodeOf[s]] = s
  /\ stage[s] \in {"starting", "running", "draining"}
  /\ held' = held \cup {s}
  /\ stage' = [stage EXCEPT ![s] = IF @ = "starting" THEN "running" ELSE @]
  /\ UNCHANGED <<holder, storeVars, op, opVars, hostVars>>

\* The local deadline passes.
Lose(s) ==
  /\ s \in held
  /\ held' = held \ {s}
  /\ UNCHANGED <<holder, stage, storeVars, op, opVars, hostVars>>

\* The lease expires or is released: no authority is left by then.
Vacate(n) ==
  /\ holder[n] # NoSession
  /\ holder[n] \notin held
  /\ holder' = [holder EXCEPT ![n] = NoSession]
  /\ UNCHANGED <<held, stage, storeVars, op, opVars, hostVars>>

\* ServerInner::shutdown begins: dispatch_message refuses from now on.
BeginShutdown(s) ==
  /\ stage[s] = "running"
  /\ stage' = [stage EXCEPT ![s] = "draining"]
  /\ UNCHANGED <<leaseVars, storeVars, op, opVars, hostVars>>

\* The Actor, its Sessions and the inbound tasks of s end.
Abort(s) ==
  /\ held' = held \ {s}
  /\ actor' = [actor EXCEPT ![s] = "none"]
  /\ bound' = [bound EXCEPT ![s] = FALSE]
  /\ Goto(s, "idle")
  /\ UNCHANGED <<holder, storeVars, opVars>>

\* ServerInner::fence or ServerInner::shutdown has run to its end.
Stop(s) ==
  /\ stage[s] \in {"running", "draining"}
  /\ stage' = [stage EXCEPT ![s] = "stopped"]
  /\ Abort(s)

\* The process exits or is killed, or its start() fails.
Exit(s) ==
  /\ stage[s] \notin {"new", "gone"}
  /\ stage' = [stage EXCEPT ![s] = "gone"]
  /\ Abort(s)

-----------------------------------------------------------------------------
(* compare_exchange_actor_owner.                                           *)

Put(s, new) ==
  /\ sent' = sent \cup {[by |-> s, match |-> seen[s], new |-> new]}
  /\ answer' = [answer EXCEPT ![s] = "none"]

\* release_actor_owner keeps the epoch; its sender waits for it in rel_wait.
IsRelease(r) == r.new.owner = NoSession

StoreServes(r) ==
  /\ \/ ~IsRelease(r)
     \/ op[r.by] = "rel_wait" \/ stage[r.by] \in {"stopped", "gone"}
     \/ "late_release" \in Env
  /\ record' = IF record = r.match THEN r.new ELSE record
  /\ history' = history \cup {record'}
  /\ \/ UNCHANGED answer
     \/ /\ op[r.by] = "wait" /\ ~IsRelease(r) /\ r.match = seen[r.by]
        /\ answer' = [answer EXCEPT ![r.by] =
                        IF record = r.match THEN "applied" ELSE "conflict"]
  /\ UNCHANGED <<leaseVars, stage, sent, op, seen, round, tries, hostVars>>

-----------------------------------------------------------------------------
(* ClusterRouter::resolve.                                                 *)

IsLocalOwner(s, rec) == rec.owner = s

\* local_claim(epoch + 1)
LocalClaim(s) == [owner |-> s, epoch |-> seen[s].epoch + 1]

\* The early return of resolve into claim(): the record names another session
\* of the same Node ID.
SameNode(s) == seen[s].owner # NoSession /\ NodeOf[seen[s].owner] = NodeOf[s]

\* A SessionOpen arrives and gets the resolution lock.
BeginResolve(s) ==
  /\ Up(s) /\ op[s] = "idle"
  /\ round' = [round EXCEPT ![s] = 1]
  /\ Goto(s, "read")
  /\ UNCHANGED <<leaseVars, stage, storeVars, seen, tries, answer, hostVars>>

\* read_actor_owner, and what resolve does next with the record.
ResolveRead(s) ==
  /\ op[s] = "read"
  /\ seen' = [seen EXCEPT ![s] = record]
  /\ Goto(s, IF IsLocalOwner(s, record) THEN "local"
             ELSE IF record.owner # NoSession /\ NodeOf[record.owner] # NodeOf[s]
                    THEN "directory"
                    ELSE "put")
  /\ UNCHANGED <<leaseVars, stage, storeVars, round, tries, answer, hostVars>>

\* Seeded fault: the directory is not asked; any foreign owner is overtaken.
BlindResolveDirectory(s) ==
  /\ op[s] = "directory"
  /\ Goto(s, "put")
  /\ UNCHANGED <<leaseVars, stage, storeVars, opVars, hostVars>>

\* read_node: the owner's session is live, ResolvedOwner::Remote; or takeover.
ResolveDirectory(s) ==
  /\ op[s] = "directory"
  /\ Goto(s, IF holder[NodeOf[seen[s].owner]] = seen[s].owner THEN "idle" ELSE "put")
  /\ UNCHANGED <<leaseVars, stage, storeVars, opVars, hostVars>>

\* Seeded fault: the claim keeps the epoch it read.
SameEpochClaimPut(s) ==
  /\ op[s] = "put"
  /\ seen[s].epoch < MaxEpoch
  /\ Put(s, [owner |-> s, epoch |-> seen[s].epoch])
  /\ Goto(s, "wait")
  /\ UNCHANGED <<leaseVars, stage, record, history, seen, round, tries, hostVars>>

\* With a capacity permit in hand, the claim is sent.
ClaimPut(s) ==
  /\ op[s] = "put"
  /\ seen[s].epoch < MaxEpoch
  /\ Put(s, LocalClaim(s))
  /\ Goto(s, "wait")
  /\ UNCHANGED <<leaseVars, stage, record, history, seen, round, tries, hostVars>>

\* MutationOutcome::Applied.
ClaimApplied(s) ==
  /\ op[s] = "wait" /\ answer[s] = "applied"
  /\ Goto(s, "local")
  /\ UNCHANGED <<leaseVars, stage, storeVars, opVars, hostVars>>

\* `continue' of resolve's loop: another round, or Remote when none is left.
Again(s) ==
  IF round[s] < Rounds
    THEN round' = [round EXCEPT ![s] = @ + 1] /\ Goto(s, "read")
    ELSE UNCHANGED round /\ Goto(s, "idle")

\* MutationOutcome::Conflict: claim() gives up, resolve goes round.
ClaimConflict(s) ==
  /\ op[s] = "wait" /\ answer[s] = "conflict"
  /\ IF SameNode(s) THEN UNCHANGED round /\ Goto(s, "idle") ELSE Again(s)
  /\ UNCHANGED <<leaseVars, stage, storeVars, seen, tries, answer, hostVars>>

\* A read fails, no permit is free, or the PUT fails or exceeds its timeout.
ResolveFails(s) ==
  /\ op[s] \in {"read", "directory", "put", "wait"}
  /\ Goto(s, "idle")
  /\ UNCHANGED <<leaseVars, stage, storeVars, opVars, hostVars>>

\* MutationOutcome::Indeterminate: the answer to the PUT is lost.
ClaimIndeterminate(s) ==
  /\ op[s] = "wait"
  /\ tries' = [tries EXCEPT ![s] = 0]
  /\ Goto(s, "confirm")
  /\ UNCHANGED <<leaseVars, stage, storeVars, seen, round, answer, hostVars>>

\* Read-backs allowed: one in claim(), ReadBacks in resolve.
Limit(s) == IF SameNode(s) THEN 1 ELSE ReadBacks

\* A read-back fails or shows the unowned record: the next one, or an error.
ConfirmOther(s) ==
  /\ op[s] = "confirm" /\ tries[s] < Limit(s)
  /\ tries' = [tries EXCEPT ![s] = @ + 1]
  /\ Goto(s, IF tries[s] + 1 < Limit(s) THEN "confirm" ELSE "idle")
  /\ UNCHANGED <<leaseVars, stage, storeVars, seen, round, answer, hostVars>>

\* Seeded fault: any owned record passes for the claim.
AnyConfirmClaim(s) ==
  /\ op[s] = "confirm"
  /\ record.owner # NoSession
  /\ Goto(s, "local")
  /\ UNCHANGED <<leaseVars, stage, storeVars, opVars, hostVars>>

\* A read-back shows the claim.
ConfirmClaim(s) ==
  /\ op[s] = "confirm"
  /\ record = LocalClaim(s)
  /\ Goto(s, "local")
  /\ UNCHANGED <<leaseVars, stage, storeVars, opVars, hostVars>>

\* A read-back shows another owner: resolve goes round, claim() fails.
ConfirmTaken(s) ==
  /\ op[s] = "confirm"
  /\ record # LocalClaim(s) /\ record.owner # NoSession
  /\ IF SameNode(s) THEN UNCHANGED round /\ Goto(s, "idle") ELSE Again(s)
  /\ UNCHANGED <<leaseVars, stage, storeVars, seen, tries, answer, hostVars>>

-----------------------------------------------------------------------------
(* The runtime of each process, as far as one Actor goes.                  *)

\* dispatch_message admits: authority, then status.
Admits(s) == s \in held /\ stage[s] = "running"

\* open_local_session with the lock still held: the Session is registered and
\* SessionOpened dispatched, to a new Active Actor if there is no route; or it
\* is refused (no authority, stopping, deactivating, mailbox full, no permit).
DispatchOpen(s) ==
  /\ op[s] = "local"
  /\ \/ /\ Admits(s) /\ actor[s] \in {"none", "active"}
        /\ actor' = [actor EXCEPT ![s] = "active"]
        /\ bound' = [bound EXCEPT ![s] = TRUE]
     \/ UNCHANGED hostVars
  /\ Goto(s, "idle")
  /\ UNCHANGED <<leaseVars, stage, storeVars, opVars>>

\* An Action of a registered Session activates the Actor again when its route
\* is gone, without asking for the owner (dispatch_remote_message).
DispatchAction(s) ==
  /\ Up(s) /\ bound[s] /\ Admits(s) /\ actor[s] = "none"
  /\ actor' = [actor EXCEPT ![s] = "active"]
  /\ UNCHANGED <<leaseVars, stage, storeVars, op, opVars, bound>>

\* The Sessions are closed, or terminated by the Actor's task.
SessionsEnd(s) ==
  /\ bound[s]
  /\ bound' = [bound EXCEPT ![s] = FALSE]
  /\ UNCHANGED <<leaseVars, stage, storeVars, op, opVars, actor>>

\* The task of the Actor ends without a release: activation fails, a handler
\* panics, or the shutdown drain is over.  A failed activation removes the
\* route first and terminates the Sessions later (SessionsEnd).
ActorEnds(s) ==
  /\ actor[s] = "active"
  /\ actor' = [actor EXCEPT ![s] = "none"]
  /\ UNCHANGED bound \/ bound' = [bound EXCEPT ![s] = FALSE]
  /\ UNCHANGED <<leaseVars, stage, storeVars, op, opVars>>

\* The idle timeout finds no live Session: begin_deactivation.
BeginDeactivation(s) ==
  /\ actor[s] = "active" /\ ~bound[s]
  /\ actor' = [actor EXCEPT ![s] = "deactivating"]
  /\ UNCHANGED <<leaseVars, stage, storeVars, op, opVars, bound>>

\* Seeded fault: ownership is released before the Actor is dropped.
EagerBeginRelease(s) ==
  /\ actor[s] \in {"active", "deactivating"} /\ op[s] = "idle"
  /\ Goto(s, "rel_read")
  /\ UNCHANGED <<leaseVars, stage, storeVars, opVars, hostVars>>

\* on_deactivate has run and the Actor is dropped; release_local_owner gets the
\* lock.
BeginRelease(s) ==
  /\ actor[s] = "deactivating" /\ op[s] = "idle"
  /\ actor' = [actor EXCEPT ![s] = "released"]
  /\ Goto(s, "rel_read")
  /\ UNCHANGED <<leaseVars, stage, storeVars, opVars, bound>>

\* release_local_owner reads the record and stops unless it is the owner.
ReleaseRead(s) ==
  /\ op[s] = "rel_read"
  /\ seen' = [seen EXCEPT ![s] = record]
  /\ Goto(s, IF IsLocalOwner(s, record) THEN "rel_put" ELSE "idle")
  /\ UNCHANGED <<leaseVars, stage, storeVars, round, tries, answer, hostVars>>

\* release_actor_owner: the unowned record of the same epoch.
ReleasePut(s) ==
  /\ op[s] = "rel_put"
  /\ Put(s, [owner |-> NoSession, epoch |-> seen[s].epoch])
  /\ Goto(s, "rel_wait")
  /\ UNCHANGED <<leaseVars, stage, record, history, seen, round, tries, hostVars>>

\* The release ends in any way: applied, refused, failed, timed out or read
\* back; its result is only logged (lifecycle.rs:203-212).
ReleaseEnds(s) ==
  /\ op[s] \in {"rel_read", "rel_wait"}
  /\ Goto(s, "idle")
  /\ UNCHANGED <<leaseVars, stage, storeVars, opVars, hostVars>>

\* Seeded fault: the route is removed only after a release that was applied.
RemoveReleasedRoute(s) ==
  /\ actor[s] = "released" /\ op[s] \notin {"rel_read", "rel_put", "rel_wait"}
  /\ answer[s] = "applied"
  /\ actor' = [actor EXCEPT ![s] = "none"]
  /\ UNCHANGED <<leaseVars, stage, storeVars, op, opVars, bound>>

\* remove_route, once the release has ended.
RemoveRoute(s) ==
  /\ actor[s] = "released" /\ op[s] \notin {"rel_read", "rel_put", "rel_wait"}
  /\ actor' = [actor EXCEPT ![s] = "none"]
  /\ UNCHANGED <<leaseVars, stage, storeVars, op, opVars, bound>>

-----------------------------------------------------------------------------
Process(s) == Acquire(s) \/ Gain(s) \/ Lose(s) \/ BeginShutdown(s) \/ Stop(s)
                \/ Exit(s)
Resolve(s) == ResolveRead(s) \/ ResolveDirectory(s) \/ ClaimPut(s) \/ ClaimApplied(s)
                \/ ClaimConflict(s) \/ ResolveFails(s) \/ ClaimIndeterminate(s)
                \/ ConfirmOther(s) \/ ConfirmClaim(s) \/ ConfirmTaken(s) \/ DispatchOpen(s)
Activity(s) == BeginResolve(s) \/ DispatchAction(s) \/ SessionsEnd(s) \/ ActorEnds(s)
                 \/ BeginDeactivation(s)
Release(s) == ReleaseRead(s) \/ ReleasePut(s) \/ ReleaseEnds(s)

Next ==
  \/ \E s \in Sessions : Process(s) \/ Resolve(s) \/ Activity(s) \/ Release(s)
                           \/ BeginRelease(s) \/ RemoveRoute(s)
  \/ \E n \in Nodes : Vacate(n)
  \/ \E r \in sent : StoreServes(r)

Spec == Init /\ [][Next]_vars

\* Every storage call ends in its timeout, tasks run, and the resolution lock
\* (a tokio Mutex) is granted in FIFO order: strong fairness to BeginRelease.
Fairness ==
  \A s \in Sessions :
    /\ WF_vars(Resolve(s)) /\ WF_vars(Release(s))
    /\ SF_vars(BeginRelease(s)) /\ SF_vars(RemoveRoute(s))

FairSpec == Spec /\ Fairness

-----------------------------------------------------------------------------
(* Properties.                                                             *)

\* s runs handlers or lifecycle methods of the Actor, with authority.
Serving(s) == s \in held /\ actor[s] \in {"active", "deactivating"}

\* docs/runtime.md:37, "CoActor allows only the current Owner to serve an
\* Actor": whatever claims, releases and read-backs are under way, who serves
\* is who the record names.
ServedByOwner == \A s \in Sessions : Serving(s) => record.owner = s

\* docs/runtime.md:37, "A takeover fences the previous Owner before the
\* replacement begins serving it."
AtMostOneServing == \A s, t \in Sessions : Serving(s) /\ Serving(t) => s = t

\* CONTEXT.md:63-65: the Ownership Epoch tells successive grants apart.  Over
\* the whole history of the record an epoch names one owner, whatever claims
\* race, arrive late or twice (If-Match on content that never recurs).
EpochNamesOneOwner ==
  \A a, b \in history :
    a.epoch = b.epoch /\ a.owner # NoSession /\ b.owner # NoSession => a = b

\* The record is claimed with the next epoch or released by its owner with the
\* same one, and never changes in any other way.
EpochNeverFalls ==
  [][record' # record =>
       \/ record'.epoch = record.epoch + 1 /\ record'.owner # NoSession
       \/ /\ record'.epoch = record.epoch
          /\ record.owner # NoSession /\ record'.owner = NoSession]_vars

\* A resolve that returns Local rests on a grant that the store has made: the
\* record it read, or the very claim it sent, never a claim that lost
\* (routing.rs: Applied, and the read-back that compares the whole record).
LocalWasGranted ==
  \A s \in Sessions :
    op[s] = "local" =>
      \/ seen[s] \in history /\ seen[s].owner = s
      \/ LocalClaim(s) \in history

\* An idle Actor that began to deactivate goes away although resolves compete
\* for the lock and the store answers or not.
DeactivationEnds ==
  \A s \in Sessions : actor[s] = "deactivating" ~> actor[s] = "none"

-----------------------------------------------------------------------------
(* The inductive invariants.                                               *)

\* A request claims the next epoch for its sender, or releases what its sender
\* owned.
GrantInv(r) ==
  \/ r.new = [owner |-> r.by, epoch |-> r.match.epoch + 1]
  \/ r.new = [owner |-> NoSession, epoch |-> r.match.epoch] /\ r.match.owner = r.by

\* Whatever the environment does: the record has the highest epoch of its
\* history, so that every claim that is applied makes a record never seen
\* before (epoch.saturating_add(1) under If-Match, routing.rs:115-128).
EpochInv ==
  /\ TypeOK
  /\ record \in history
  /\ \A h \in history : h.epoch <= record.epoch
  /\ EpochNamesOneOwner
  /\ \A r \in sent : GrantInv(r)
  /\ \A s \in Sessions :
       /\ op[s] = "rel_put" => seen[s].owner = s
       /\ op[s] = "wait" /\ answer[s] = "applied" => LocalClaim(s) \in history
  /\ LocalWasGranted

\* t has had a lease and will not have one again (no "revival").
Dead(t) == stage[t] # "new" /\ (holder[NodeOf[t]] # t \/ stage[t] = "gone")

\* s runs and has its lease.
Live(s) == holder[NodeOf[s]] = s /\ stage[s] \in {"running", "draining"}

\* Authority comes with the lease; processes of one Node ID do not overlap.
HolderInv ==
  /\ \A s \in held : Live(s)
  /\ \A s \in Sessions : ~Up(s) => op[s] = "idle" /\ actor[s] = "none" /\ ~bound[s]
  /\ \A s, t \in Sessions :
       s # t /\ NodeOf[s] = NodeOf[t] =>
         stage[s] \in {"new", "gone"} \/ stage[t] \in {"new", "gone"}

\* A claim that is under way, or still on its way to the store, overtakes only
\* the dead.
ClaimInv ==
  /\ record.owner # NoSession => stage[record.owner] # "new"
  /\ \A s \in Sessions :
       /\ seen[s].owner # NoSession => stage[seen[s].owner] # "new"
       /\ op[s] = "put" /\ seen[s].owner # NoSession => Dead(seen[s].owner)
  /\ \A r \in sent :
       /\ stage[r.by] # "new"
       /\ ~IsRelease(r) /\ r.match.owner # NoSession => Dead(r.match.owner)

\* What s does on the strength of owning the Actor.
Relies(s) ==
  \/ op[s] = "local"
  \/ op[s] = "wait" /\ answer[s] = "applied"
  \/ actor[s] \in {"active", "deactivating"}
  \/ bound[s]

ServiceInv(s) ==
  /\ actor[s] \in {"deactivating", "released"} => ~bound[s]
  /\ op[s] \in {"rel_read", "rel_put", "rel_wait"} => actor[s] = "released"
  /\ Live(s) /\ Relies(s) => record.owner = s

\* What every step preserves when Env is empty: a live session that relies on
\* its ownership has it, because claims overtake only the dead and its own
\* release is served only while it serves nothing (lifecycle.rs:201-213).
OwnerInv ==
  /\ EpochInv
  /\ HolderInv
  /\ ClaimInv
  /\ \A s \in Sessions : ServiceInv(s)
=============================================================================
