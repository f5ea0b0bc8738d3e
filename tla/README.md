# A TLA+ model of CoActor

CoActor (`src/coactor`) is an embedded, distributed actor runtime. Servers share
nothing but a Coordination Store (S3 with conditional writes); Clients find the
Owner of an Actor there and open Sessions directly to it. This directory holds
TLA+ modules translated from the Rust source, TLC runs that check them on small
instances, and proofs that TLAPS checks for every value of the constants.
`PROJECT.json` maps every definition to the lines it models and lists the runs,
the hazards, the seeded faults each property catches, and the theorems.

## The system and its modules

| Part | Code | Module | What makes it correct |
|---|---|---|---|
| Node Lease | `cluster/authority.rs`, `cluster/node.rs`, `cluster/s3.rs` | `NodeLease` | one session of a Node ID has authority; an expired lease means a fenced session |
| Directory, as others see it | | `NodeAuthority` (abstract) | authority passes on only through a gap |
| Actor ownership | `cluster/routing.rs` | `ActorOwnership` | only the recorded owner serves; epochs tell grants apart |
| Actor runtime, Session registry, shutdown and fence | `runtime/core.rs`, `lifecycle.rs`, `route.rs`, `session.rs`, `shutdown.rs` | `ActorRuntime` | one task per address; permits; an open Session has its Actor; a stop leaves nothing running |
| A Server as a whole | `runtime.rs`, `cluster/node.rs` | `ServerLifecycle` | tasks stop in an order in which the lease outlives the Actors |
| Client | `client/mod.rs` | `ClientOpen` | bindings, pools and pending opens are exact; every open ends |
| Placement | `cluster/placement.rs`, `client/mod.rs` | `Placement` | in-flight accounting; never the most loaded |
| Sessions over a connection | `client/session.rs`, `runtime/session.rs`, `runtime/core.rs`, `transport/` | `SessionStream` | what is given up is closed; answers and ends are told |
| One direction of a Session | | `LossyFifo` (abstract) | in order, at most once |

How they interact. A Server acquires its Node Lease and renews it for as long as
it runs. A Client resolves the Owner of an Actor, or places an unowned one, takes
a pooled connection and sends `SessionOpen`. The Server's inbound task runs
`resolve`, which reads the record, asks the directory about a foreign owner and
claims with If-Match; then `open_local_session` registers the Session and
dispatches to the Actor's task. An Actor that is idle and has no Session is
deactivated, dropped, its record released and its route removed. A lost lease
fences the runtime; a shutdown drains it and then releases the lease.

The models are joined at three seams. `NodeLease` is shown to implement
`NodeAuthority`, and `ActorOwnership` takes its leases from the actions of
`NodeAuthority`. `ActorOwnership` also carries the route of its Actor, so that
ownership and activation are checked together. `ServerLifecycle` composes the
renewal of `NodeLease` with the stops of `ActorRuntime`, each in a few states.
`ClientOpen` and `Placement` share the in-flight count, `ClientOpen` and
`SessionStream` the open: each leaves to the other what is named in its header.

`MC*` modules instantiate these for TLC (model values, symmetry, `VIEW`).
Operators marked "Seeded fault" are altered copies of the operator that follows
them; no specification uses them.

### NodeLease

One `Sessions` element is one process start (a fresh Node Session ID). `pc` is
the place in `ServerStarter::start` and then in `spawn_lease_renewal`: `read,
acquire, wait, confirm, check` (storage calls), `running` (the sleep in
`select!`), `renew` (woken, before the PUT), `fencing, fenced, exit, released`.

* The store. A revision is an ETag, a function of the content, so the model uses
  the content itself. Requests stay in `sent` for ever: the store may serve any
  of them at any time, also twice, also after the sender died; an answer reaches
  the sender or not.
* Time. `now` counts ticks, `wall` is what `wall_time_millis()` gives; expiries
  come from `wall`, deadlines from `now`, as in the code. With `TicksPerMs = 1`
  the two agree; the proofs are for every `TicksPerMs`.
* `started` is `operation_started`, taken before the PUT. `status` and `stop` are
  `ServerInner.status` and the progress of `Server::shutdown`.
* Protocol version, capacity sample and endpoint of a `NodeRecord` are left out.
  Two records of one session differ in their generation, which is what
  `confirm_node_lease` compares.

`NodeAuthority`: `holder` is the session a directory reader finds, `held` the
sessions with authority. The refinement maps `holder` to the session of the lease
object unless it has expired.

### ActorOwnership

One address; `Nodes`, and `Sessions` with their Node IDs. `op` is where the holder
of the resolution lock stands, with `seen`, `round`, `tries` and `answer` for its
local variables. `actor` is the route (`none`, `active`, `deactivating`, and
`released` from `drop(actor)` to `remove_route`), `bound` whether a Session is
registered. A fenced or stopped process still accepts connections until
`ClusterTasks::shutdown` (stage `stopped`). Delays, losses and duplicates of
claims, crashes, restarts and lease expiry are always possible. `Env` names three
more things, which the protocol does not survive:

* `late_release`: a release PUT is applied after `release_local_owner` gave up;
* `revival`: an expired lease comes back through a delayed renewal;
* `overlap`: a process starts while the previous one of its Node ID, which has
  lost the lease, still runs.

### ActorRuntime

One Server. A step is what a thread does between two awaits or locks. A task is
named by its generation; `pc[g]` is the place in `spawn_actor`, `mailbox[g]` and
`current[g]` the queue and the message in hand. `caller[s]` is the place of the
inbound task in `dispatch_inbound`, `open_local_session`, `dispatch_message` and
`close_local_session`; `answer[s]` is the oneshot of its open. A permit is in a
route or in `reserved`. `shutdown` and `fence` are separate and may overlap;
`awaited` holds the completions each waits for. Opens of one address are not
serialised here, so the results do not depend on the resolution lock. With
`"straddle"` in `Env` a stop may take the `actors` lock while a `dispatch_message`
stands between its check of the status and that lock.

### ServerLifecycle

`main` is the place in `serve()` (wait, shutdown, drain, stop, join, release,
force, leave, returned), `renewal` and `transport` those of the two background
tasks, `drained` what `ServerInner::shutdown` returned. `BeginFence` may come at
any time; the signal, a failed listener and new connections too.

### ClientOpen, Placement

`pc[o]` is the place in `Client::open`, `loop[c]` that in the receive loop of a
connection. `pool`, `bound`, `pending`, `receivers`, `closed` and `inFlight` are
the shared structures; `holder` is the pool lock, held across `connect()`. The
deadline is a step (`DeadlinePasses`); reads, lists and connects after it fail.
`Placement` has the listing cache, the exclusions, the two random candidates
(any two) and the in-flight window with a clock. Ratios are compared by
cross-multiplication, which is exact; the code's `f64` quotients agree with it
for the small integers involved.

### SessionStream

`up`, `out` and `inbox` are the bounded channels of the two `TransportSender`s and
of the Session's receiver, `wire` what the network carries; `try_send` drops what
does not fit. `serving` is the open that the connection's single inbound task
waits for. `terminating` are the Sessions that `terminate_all` has collected.
Events and Actions carry numbers; `eventsSent/Got` and `actionsSent/Got` are the
two instances of `LossyFifo`. The gRPC Server's channel has one place, hence
`OutCapacity = 1`.

## Runs

| Run | Instance | Shows |
|---|---|---|
| `node_lease` | 2 processes, TTL 2, 4 ticks, 1 renewal, 1 read-back | authority of one process at a time, expired means fenced, live leases are kept, `NodeAuthority` is implemented |
| `node_lease_liveness` | 1 process, 2 renewals, 3 read-backs, fairness | a lapsed Server renews or fences; a shutdown ends |
| `ownership` | 2 nodes, 2 rounds, epochs to 2 | only the recorded owner serves; an epoch names one owner; `Local` rests on a grant |
| `ownership_restart` | 2 processes of one Node ID, fairness | the first of these across a restart; a deactivation ends |
| `ownership_late_release` | 2 nodes, `late_release` | *violation*: two nodes serve one Actor |
| `runtime` | 1 address, 2 Sessions, 3 generations, mailbox 1, 1 permit, fairness | one Actor per address, an open Session has its Actor, passivation loses nothing, a stop is quiet, permits; opens are answered, stops end, permits come back |
| `runtime_fence_race` | the same, `straddle` | *violation*: an Actor runs after `fence()` has returned |
| `lifecycle` | 2 Actors, 2 connections, fairness | the lease is released when nothing runs; a fenced Server releases nothing; `serve()` leaves nothing behind and returns |
| `client` | 2 opens, 1 endpoint, 2 attempts, 2 connections | bindings and pools are exact; nobody waits on a dead connection; a loss is told |
| `client_retry` | 1 open, 2 endpoints and a live Owner, fairness | in-flight counts are exact; a failed open leaves nothing; opens end; losses are processed |
| `placement` | 2 opens, 3 endpoints of capacity 1, 1 and 2, windows of 2 ticks | counts are neither phantom nor missing; candidates are fresh; never the most loaded |
| `stream` | 1 Session opened twice, channels of 2, 1 and 1, 3 Events, 2 Actions, fairness | given up means closed; opened means answered; an end is told; both directions are lossy FIFOs; a loss reaches both sides |

Each property of a passing run is violated when one mapped operator is replaced by
its seeded fault (`mutants` in `PROJECT.json`): a guard dropped, an order swapped, a
reset forgotten.

Bounds. Two processes and a TTL of two in four ticks let a lease be taken, expire
and be overtaken while a delayed write of the first owner is still to come; one
renewal gives two generations, so an old write of the same session exists. Two
epochs allow claim, release and claim again with an old claim in flight; two rounds
let `resolve` go round after a conflict. Three generations give an address a task
that ends late, its successor and one more; a mailbox of one is full at once; one
permit makes reservations and routes compete. Two connections let an open lose one
and finish on the other. Two opens and three endpoints of unequal capacity make
p2c choose with a count that the other open has just changed. The stream instance
has one Session because every property there speaks of one Session and its own
traffic already fills the channels; the other Sessions of a connection would only
fill them sooner; the proofs are for any number of them. Counters are bounded in guards named `Max...`; `MayBegin` stops
requests where `MaxGen` could be exceeded. `VIEW` hides local variables that no later
step reads; it is used, like symmetry, only in runs without fairness.
CHECK_DEADLOCK is off throughout: processes, opens and Servers stop for good.

Fairness. Storage calls are wrapped in `tokio::time::timeout`, so each ends in some
outcome; timers fire, deadlines pass, and tokio polls every task that can go on
(weak fairness). Handlers and lifecycle methods return and an aborted task reaches an
await: this is the user's part, and a handler that never yields defeats `fence()`,
which has no timeout. Strong fairness is used for locks and signals: tokio's `Mutex`
is FIFO (the resolution lock before a release, the pool lock before a drain), the
renewal loop returns again and again to a `select!` where the shutdown signal waits,
and the transport loop to one where `force` does. No request is assumed to be served
by the store, no Server to answer, no caller to open, send or close, and no one to
shut down.

## Proofs

All proofs are for every value of the constants that satisfies the named assumption
of the module; none uses the bounds of the runs. The assumptions say that capacities,
limits and periods are natural numbers (positive where the code needs one), that the
opens of a Client are finitely many where they are counted, and that `None` is none of
the values it stands beside.

`NodeLeaseProofs`. `AtMostOneServing` is not inductive.
`LeaseInv` adds: what a session counts on is in the store (`Holds(s, e)`: while
expiry `e` lies ahead, the object belongs to `s` and expires no earlier); a PUT in
flight replaces an object of its own session or one that was expired when it was
sent, a DELETE comes from a process that has stopped (`RequestInv`); an expiry is
computed after the start of the operation, so a deadline exceeds it by less than a
millisecond (`OperationInv`, `AuthorityInv`); a generation has one write
(`Written`), which is why a read-back that matches session and generation shows the
write itself. From it: `MutualExclusion`, `StaleLeaseSafe`, `LiveLeaseSafe` (an
action property) and `ImplementsAuthority` (the refinement).

`ActorOwnershipProofs`, first for every `Env`. `EpochInv`: the record has the highest
epoch of its history, and a request claims the next epoch for its sender or releases
what its sender owned; so an applied claim makes a record that never existed.
`EpochsAreUnique`, `LocalIsGranted`, `EpochsAdvance`. Then for `Env = {}`. `OwnerInv`: claims under way or in flight
overtake only sessions that are `Dead`, which is stable; a live session that relies
on its ownership (`Relies`) is in the record; a release of its own is served only
while it serves nothing. `OnlyOwnerServes`.

`ActorRuntimeProofs`, for `Env = {}`. `RuntimeInv`: once the status is not RUNNING
no dispatch is on its way, and only then is anybody signalled, aborted or drained
(`StatusInv`); a route and its task know each other, and a task that runs is the one
its address routes to until a timed out shutdown clears the routes (`RouteInv`); a
message is in hand exactly while a handler runs (`QueueInv`); whoever still runs is
awaited by the stop under way (`AwaitedInv`). The actions fall into steps of inbound
tasks, which leave routes alone, steps of an Actor's task, which concern that task
and its own route, and a few treated singly. `OneActorSafe`, `PassivationSafe`,
`StopSafe`; `CapacitySafe` counts: a permit is in a route or in a reservation
(`CapacityInv`), and tasks that run are mapped one to one into the routes.

`ActorSessionProofs`, for `Env = {}`. `OpenSessionHasActor` needs to know what is in
the mailboxes. `SessionInv`, while the node is RUNNING: an open not yet dispatched
has no answer (`AnswerInv`); a message that a task holds is for its address and
tells where the inbound task of its Session stands, and the open of a Session is held
once by one task (`MessageInv`); so when `on_session_opened` returns, the Session
becomes established at the task the address routes to, and only a task that attends
nobody goes idle or leaves the address without `terminate_all` (`ActorInv`).
`SessionSafe`.

`ServerLifecycleProofs`. `LifecycleInv`: until the drain times out, an Actor that
runs has a route and whoever stops the Server waits for it (`WaitInv`), and the places
of the three tasks imply each other (`StepInv`). `GracefulReleaseSafe`,
`FencedReleaseSafe`, `ReturnSafe`.

`ClientOpenProofs`. `ClientInv`: a connection is received from exactly while it is made
and not closed (`LoopInv`); a pool has its own connections only, all that are not closed
among them, and whoever holds its lock across a connect has room for one more
(`PoolInv`); whoever is bound uses the connection, and whoever uses it is bound
until the drain (`BindInv`); an open that waits, and a Session with a receiver, is still
to be attended by the receive loop of its connection (`AnswerInv`, `ReceiverInv`).
`SpecBoundIsUsed`, `SpecPoolIsBounded`, `SpecNobodyWaitsOnTheDead`, `SpecLossIsTold`,
`SpecInFlightIsExact`, `SpecFailedOpenIsForgotten`.

`PlacementProofs`. `ListInv`: a listing, in the cache or in hand, was read no earlier
than the moment it is stamped with. `DecisionInv`: a call has a decision exactly from its
pick until it fails. They give `SpecCandidatesAreFresh` and `SpecNoPhantomPlacement`;
`SpecNeverTheWorst` is an action property and needs the types only. `WindowInv`: a call
that may still fail decided less than a window ago, an entry is at least as recent as the
decisions it counts, and an entry that is gone counted none within the window; so what
`on_placement_failed` takes back is a count that is there. `SpecWindowIsCounted` assumes
`OpenTimeout < InFlightTTL`, and is false without it.

`SessionStreamProofs`. The two queues of the way down are read as one, `Down`.
`StreamInv` is one invariant per Session: a `SessionOpen` of a Session given up is
followed by its `SessionClose` (`CloseInv`); the open a caller waits for is in one place,
on its way up, being served, or answered by the only answer on its way down, and no
`SessionClose` comes behind it (`AnswerInv`); a Session that ended since its open was
served has its error on its way, in the receiver, or received (`EndInv`); numbers rise
along each queue, from what was received to what was sent (`EventInv`, `ActionInv`).
The lemmas on queues say what putting and taking a message keeps. A step of one Session
leaves the invariant of every other alone (`Frame`), which is why the number of Sessions
does not matter. `SpecGivenUpIsClosed`, `SpecOpenedIsAnswered`, `SpecEndIsTold`, and the
refinement `SpecTrafficInOrder`: every step sends or receives one message of `LossyFifo`,
or none, in each direction.

`ClientInv`, the invariants of `Placement` and `StreamInv` were checked by TLC on the
instances of the runs before they were proved.

Only model-checked: all liveness (fairness and ENABLED are beyond this prover) and the
violations. That `ActorOwnership` uses the actions of
`NodeAuthority` is by construction, and that the steps of `ServerLifecycle` are those
of `NodeLease` and `ActorRuntime` in short is by translation from the same lines, not
by a refinement.

## Where code and documents differ

Two disagreements have a run and an entry under `findings`.

* `ownership_late_release`. `release_local_owner` treats a timed out release PUT as
  an error and does not read back (`routing.rs:236`). The record still names this
  node, so the next open activates the Actor again; then the delayed PUT is applied
  and another node claims it. `docs/runtime.md:37`: "CoActor allows only the current
  Owner to serve an Actor."
* `runtime_fence_race`. `dispatch_message` checks authority and status before it takes
  the `actors` lock (`core.rs:76-89`). A fence that collects its tasks in between knows
  nothing of the Actor that the dispatch then spawns. `docs/runtime.md:35`: "it
  self-fences and stops serving Actors."

The models show more places where the code does less than a document may suggest. They
follow from the modules as they stand, and are why some properties above carry an
exception or an assumption.

* With `Env = {"revival"}` in `ActorOwnership`, a takeover decided on one read of an
  expired lease is overtaken by a delayed renewal of that lease, and both nodes serve;
  the renewal loop takes `Applied` without looking at the old deadline
  (`node.rs:205`). With `{"overlap"}`, an outlived process claims the record of its
  successor, because a record of its own Node ID is claimed without asking the
  directory (`routing.rs:84`).
* With `TicksPerMs > 1` in `NodeLease`, the local deadline may lie up to one
  millisecond after the stored expiry (`authority.rs:432`, `s3.rs:152`): this is the
  margin in `ServingSafely`.
* With `Env = {"straddle"}` in `ActorRuntime`, a dispatch that read RUNNING may find
  the mailbox of a draining Actor closed, remove its route and spawn a second task
  while the first still runs its handlers (`core.rs:100`).
* A shutdown that times out aborts its tasks and does not await them
  (`shutdown.rs:72`); `QuietAfterStop`, `GracefulReleaseIsQuiet` and `ReturnedIsQuiet`
  except that case. The lease is released all the same (`node.rs:90`).
* `SessionClosed` is sent with `dispatch_message_if_active` and its result ignored
  (`core.rs:179`): a full mailbox or a passivation under way loses it.
* An Event pushed from `on_session_opened` fills the gRPC Server's one-place channel
  and the acknowledgement behind it is dropped (`grpc.rs:115`); a `SessionError` can be
  lost in the same way (`session.rs:178`). `OpenedIsAnswered` and `EndIsTold` except
  what did not fit (`overflowed`), `GivenUpIsClosed` a `SessionClose` that did not
  (`unclosed`).
* A connection that is lost between `bind` and the insertion of the pending open
  removes the receiver of an open that may go on to succeed elsewhere
  (`client/mod.rs:617`); its caller then sees the end of the stream at once.
* Each Placement restarts the window of the whole count of its endpoint
  (`placement.rs:112`), so counts expire only after a pause. `WindowIsCounted` holds
  while an open() ends within a window of its decision. The defaults of `open_timeout`
  and of the window are equal (3 s), so the margin is only the time that passes
  between the start of open() and its decision; with a longer `open_timeout` a late
  failure takes back the count of a newer Placement.
* The transport task may accept a connection after `abort_inbound_tasks`; its inbound
  task ends with the connection, not with `serve()` (`node.rs:123`).

## Not modelled

* Errors, their wire forms and the address syntax (`actor.rs`, parts of
  `transport/mod.rs`); builders, registration and configuration checks (`runtime.rs`,
  `runtime/actor.rs`): stateless or single-threaded, before any concurrency. What they
  admit are the assumptions on the constants.
* The procedural macros and the test support.
* Inside tonic and the S3 SDK: HTTP/2 flow control, reconnection, retries. They appear
  as requests that may be delayed, repeated or lost, and as connections that may end.
* Contents of messages and of user code: a handler returns, fails or panics.
* A future of `open()` that its caller drops half-way: the API promises nothing about
  it. The attempts check at the head of the loop (`client/mod.rs:319-325`) cannot fail
  there, since the paths that reach it have compared the count before.
* Clocks that disagree between nodes. `docs/adr/0002` assumes ordinary
  synchronisation, and the directory compares wall times of different nodes.
* Unequal or changing configuration (TTL, intervals, capacities) among nodes.
