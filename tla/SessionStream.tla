---------------------------- MODULE SessionStream ----------------------------
(***************************************************************************)
(* The traffic of the Sessions that share one Transport Connection, from   *)
(* the caller's Session to the Server's registry and back:                 *)
(*                                                                         *)
(*   Client --- up --> inbound task of the Server --- Actor's mailbox      *)
(*   Client <-- wire --- (transport) <-- out --- Actor, inbound task       *)
(*                                                                         *)
(* `up' and `out' are the bounded channels behind the two TransportSenders *)
(* (try_send drops what does not fit); the transport moves `out' to the    *)
(* network, `wire', by itself.  The Server reads a connection in ONE task, *)
(* which waits for each SessionOpen to be served before it reads on.       *)
(* All Sessions are with one Actor.  Resolution, activation and the        *)
(* mailbox are in ActorOwnership and ActorRuntime: here an open or an      *)
(* Action is accepted or refused.  How an open() picks its connection is   *)
(* in ClientOpen.                                                          *)
(***************************************************************************)
EXTENDS Naturals, Sequences, FiniteSets, Functions

CONSTANTS Sessions,
          UpCapacity,     \* Client's outbound channel (1024)
          OutCapacity,    \* Server's outbound channel (gRPC 1, in-memory 1024)
          InboxCapacity,  \* SESSION_RECEIVER_CAPACITY (64)
          MaxOpens,       \* bound: SessionOpens of one Session
          MaxActions,     \* bound: Actions of one Session
          MaxEvents,      \* bound: Events of one Session
          MaxEnds,        \* bound: ends of the Actor
          None

ASSUME StreamAssumption ==
  /\ {UpCapacity, OutCapacity, InboxCapacity} \subseteq Nat \ {0}
  /\ None \notin Sessions

VARIABLES
  connected,    \* the network between the two sides works
  up, out, wire,
  overflowed,   \* Sessions with an answer or an error that did not fit
  \* Client
  noticed,      \* TransportConnection::closed, and the receive loop is over
  phase,        \* of each Session, as its caller sees it
  opens,
  inbox,        \* what Session::recv will return
  told,         \* the Sessions whose recv() has returned an error
  unclosed,     \* ... whose SessionClose did not fit in the channel
  actionsSent, eventsGot,
  \* Server
  reading,      \* the inbound task of the connection runs
  serving,      \* the Session whose open it waits for
  registered,   \* SessionRegistry
  terminating,  \* what terminate_all has still to terminate
  ends,
  actionsGot, eventsSent

queues == <<up, out, wire, overflowed>>
caller == <<noticed, phase, opens, inbox, told, unclosed, actionsSent, eventsGot>>
server == <<reading, serving, registered, terminating, ends, actionsGot, eventsSent>>
vars   == <<connected, queues, caller, server>>

-----------------------------------------------------------------------------
\* Envelopes; n numbers the Actions and the Events of a Session.
UpEnvelopes   == [kind : {"SessionOpen", "SessionClose"}, session : Sessions, n : {0}]
                   \cup [kind : {"Action"}, session : Sessions, n : Nat]
DownEnvelopes == [kind : {"Opened", "Refused", "SessionError"}, session : Sessions, n : {0}]
                   \cup [kind : {"Event"}, session : Sessions, n : Nat]

Envelope(kind, s)     == [kind |-> kind, session |-> s, n |-> 0]
Numbered(kind, s, n)  == [kind |-> kind, session |-> s, n |-> n]

Phases == {"none", "opening", "open", "refused", "failed", "dropped"}

QueueTypes ==
  /\ up \in Seq(UpEnvelopes) /\ Len(up) <= UpCapacity
  /\ out \in Seq(DownEnvelopes) /\ Len(out) <= OutCapacity
  /\ wire \in Seq(DownEnvelopes)
  /\ inbox \in [Sessions -> Seq(DownEnvelopes)]
  /\ \A s \in Sessions : Len(inbox[s]) <= InboxCapacity

TypeOK ==
  /\ QueueTypes
  /\ connected \in BOOLEAN /\ noticed \in BOOLEAN /\ reading \in BOOLEAN
  /\ phase \in [Sessions -> Phases]
  /\ {opens, actionsSent, actionsGot, eventsSent, eventsGot} \subseteq [Sessions -> Nat]
  /\ overflowed \subseteq Sessions /\ told \subseteq Sessions /\ unclosed \subseteq Sessions
  /\ serving \in Sessions \cup {None}
  /\ registered \subseteq Sessions /\ terminating \subseteq Sessions

Init ==
  /\ connected = TRUE
  /\ up = <<>> /\ out = <<>> /\ wire = <<>> /\ overflowed = {}
  /\ noticed = FALSE
  /\ phase = [s \in Sessions |-> "none"]
  /\ opens = [s \in Sessions |-> 0]
  /\ inbox = [s \in Sessions |-> <<>>]
  /\ told = {} /\ unclosed = {}
  /\ actionsSent = [s \in Sessions |-> 0]
  /\ eventsGot = [s \in Sessions |-> 0]
  /\ reading = TRUE
  /\ serving = None
  /\ registered = {} /\ terminating = {}
  /\ ends = 0
  /\ actionsGot = [s \in Sessions |-> 0]
  /\ eventsSent = [s \in Sessions |-> 0]

-----------------------------------------------------------------------------
(* TransportSender::try_send of the two sides.                             *)

CanSend == ~noticed /\ Len(up) < UpCapacity

PutUp(m) == up' = IF CanSend THEN Append(up, m) ELSE up

\* An Envelope for the caller is dropped.
Overflow(m) ==
  overflowed' = IF m.kind = "Event" THEN overflowed ELSE overflowed \cup {m.session}

PutOut(m) ==
  IF Len(out) < OutCapacity
  THEN out' = Append(out, m) /\ UNCHANGED overflowed
  ELSE Overflow(m) /\ UNCHANGED out

\* The transport takes Envelopes from the Server's channel.
Flush ==
  /\ out # <<>>
  /\ out' = Tail(out) /\ wire' = Append(wire, Head(out))
  /\ UNCHANGED <<connected, up, overflowed, caller, server>>

-----------------------------------------------------------------------------
(* The Client: open(), Session and handle_envelope.                        *)

Bound(s) == phase[s] \in {"opening", "open"} /\ ~noticed

SendOpen(s) ==
  /\ phase[s] \in {"none", "refused"} /\ opens[s] < MaxOpens /\ CanSend
  /\ PutUp(Envelope("SessionOpen", s))
  /\ phase' = [phase EXCEPT ![s] = "opening"]
  /\ opens' = [opens EXCEPT ![s] = @ + 1]
  /\ unclosed' = unclosed \ {s}
  /\ UNCHANGED <<connected, out, overflowed, wire, noticed, inbox, told, actionsSent, eventsGot,
                 server>>

\* Seeded fault: a Session given up is not closed at the Server.
GiveUpQuietly(s, p) ==
  /\ phase' = [phase EXCEPT ![s] = p]
  /\ inbox' = [inbox EXCEPT ![s] = IF p = "refused" THEN @ ELSE <<>>]
  /\ UNCHANGED <<up, unclosed>>

\* The Session is gone for the caller; its SessionClose is sent if it fits.
GiveUp(s, p) ==
  /\ phase' = [phase EXCEPT ![s] = p]
  /\ PutUp(Envelope("SessionClose", s))
  /\ unclosed' = IF CanSend THEN unclosed ELSE unclosed \cup {s}
  /\ inbox' = [inbox EXCEPT ![s] = IF p = "refused" THEN @ ELSE <<>>]

\* The deadline of open() passes without an answer.
OpenTimesOut(s) ==
  /\ phase[s] = "opening"
  /\ GiveUp(s, "failed")
  /\ UNCHANGED <<connected, out, overflowed, wire, noticed, opens, told, actionsSent, eventsGot,
                 server>>

\* Drop of the Session.
DropSession(s) ==
  /\ phase[s] = "open"
  /\ GiveUp(s, "dropped")
  /\ UNCHANGED <<connected, out, overflowed, wire, noticed, opens, told, actionsSent, eventsGot,
                 server>>

\* Session::send, where try_send does not refuse.
SendAction(s) ==
  /\ phase[s] = "open" /\ actionsSent[s] < MaxActions /\ CanSend
  /\ actionsSent' = [actionsSent EXCEPT ![s] = @ + 1]
  /\ PutUp(Numbered("Action", s, actionsSent[s] + 1))
  /\ UNCHANGED <<connected, out, overflowed, wire, noticed, phase, opens, inbox, told, unclosed,
                 eventsGot, server>>

\* The next Envelope the receive loop takes.
Arrives(m) == ~noticed /\ wire # <<>> /\ m = Head(wire) /\ wire' = Tail(wire)

\* An Event or an error goes to the receiver of a Session bound to this
\* connection, if it has room.
ReceiveForSession(s) ==
  \E m \in Range(wire) :
    /\ m.kind \in {"Event", "SessionError"} /\ m.session = s
    /\ Arrives(m)
    /\ CASE ~Bound(s) -> UNCHANGED <<inbox, overflowed>>
         [] Bound(s) /\ Len(inbox[s]) < InboxCapacity ->
              inbox' = [inbox EXCEPT ![s] = Append(@, m)] /\ UNCHANGED overflowed
         [] OTHER -> Overflow(m) /\ UNCHANGED inbox
    /\ UNCHANGED <<connected, up, out, noticed, phase, opens, told, unclosed, actionsSent,
                   eventsGot, server>>

\* SessionOpenedAck: an open() that no longer waits is left alone; a refused
\* one closes its Session, and may send another SessionOpen (NotOwner).
ReceiveAck(s) ==
  \E m \in Range(wire) :
    /\ m.kind \in {"Opened", "Refused"} /\ m.session = s
    /\ Arrives(m)
    /\ CASE phase[s] # "opening" -> UNCHANGED <<up, phase, unclosed, inbox>>
         [] phase[s] = "opening" /\ m.kind = "Opened" ->
              phase' = [phase EXCEPT ![s] = "open"] /\ UNCHANGED <<up, unclosed, inbox>>
         [] OTHER -> \E p \in {"refused", "failed"} : GiveUp(s, p)
    /\ UNCHANGED <<connected, out, overflowed, noticed, opens, told, actionsSent, eventsGot,
                   server>>

\* Session::recv
Recv(s) ==
  /\ phase[s] = "open" /\ inbox[s] # <<>>
  /\ inbox' = [inbox EXCEPT ![s] = Tail(@)]
  /\ LET m == Head(inbox[s]) IN
     IF m.kind = "Event"
     THEN eventsGot' = [eventsGot EXCEPT ![s] = m.n] /\ UNCHANGED told
     ELSE told' = told \cup {s} /\ UNCHANGED eventsGot
  /\ UNCHANGED <<connected, queues, noticed, phase, opens, unclosed, actionsSent, server>>

-----------------------------------------------------------------------------
(* The Server: dispatch_inbound.                                           *)

\* Seeded fault: Envelopes are handled as they come, not one after the other.
InboundInAnyOrder(m) ==
  /\ reading /\ serving = None
  /\ \E i \in DOMAIN up : m = up[i] /\ up' = SubSeq(up, 1, i - 1) \o SubSeq(up, i + 1, Len(up))

\* The next Envelope the inbound task takes.
Inbound(m) == reading /\ serving = None /\ up # <<>> /\ m = Head(up) /\ up' = Tail(up)

\* The Session is registered and SessionOpened is in the mailbox, or the
\* open is refused at once (not the Owner, no capacity, already registered).
ServeOpen(s) ==
  /\ Inbound(Envelope("SessionOpen", s))
  /\ \/ /\ s \notin registered
        /\ registered' = registered \cup {s}
        /\ serving' = s
        /\ UNCHANGED <<out, overflowed>>
     \/ /\ PutOut(Envelope("Refused", s))
        /\ UNCHANGED <<registered, serving>>
  /\ UNCHANGED <<connected, wire, caller, reading, terminating, ends, actionsGot, eventsSent>>

\* Seeded fault: an open that succeeds is not answered.
OpenServedQuietly(s) ==
  /\ serving = s
  /\ \/ UNCHANGED <<out, overflowed, registered>>
     \/ PutOut(Envelope("Refused", s)) /\ registered' = registered \ {s}
  /\ serving' = None
  /\ UNCHANGED <<connected, up, wire, caller, reading, terminating, ends, actionsGot, eventsSent>>

\* The Actor answers, or is gone; only then the answer is sent.
OpenServed(s) ==
  /\ serving = s
  /\ \/ PutOut(Envelope("Opened", s)) /\ UNCHANGED registered
     \/ PutOut(Envelope("Refused", s)) /\ registered' = registered \ {s}
  /\ serving' = None
  /\ UNCHANGED <<connected, up, wire, caller, reading, terminating, ends, actionsGot, eventsSent>>

\* An Action of a registered Session goes to the mailbox; it is answered with
\* an error when the Session is not registered or the mailbox refuses it.
ServeAction(s) ==
  \E m \in Range(up) :
    /\ m.kind = "Action" /\ m.session = s
    /\ Inbound(m)
    /\ \/ /\ s \in registered
          /\ actionsGot' = [actionsGot EXCEPT ![s] = m.n]
          /\ UNCHANGED <<out, overflowed>>
       \/ PutOut(Envelope("SessionError", s)) /\ UNCHANGED actionsGot
    /\ UNCHANGED <<connected, wire, caller, reading, serving, registered, terminating, ends,
                   eventsSent>>

\* close_local_session, for a Session bound to this connection.
ServeClose(s) ==
  /\ Inbound(Envelope("SessionClose", s))
  /\ registered' = registered \ {s}
  /\ UNCHANGED <<connected, out, overflowed, wire, caller, reading, serving, terminating, ends,
                 actionsGot, eventsSent>>

\* SessionHandle::send and each delivery of broadcast_event: from
\* on_session_opened on, while the Session is registered.
ActorSends(s) ==
  /\ s \in registered /\ eventsSent[s] < MaxEvents
  /\ eventsSent' = [eventsSent EXCEPT ![s] = @ + 1]
  /\ PutOut(Numbered("Event", s, eventsSent[s] + 1))
  /\ UNCHANGED <<connected, up, wire, caller, reading, serving, registered, terminating, ends,
                 actionsGot>>

\* The Active Actor ends: terminate_all takes a snapshot of its Sessions ...
ActorEnds ==
  /\ registered # {} /\ terminating = {} /\ ends < MaxEnds
  /\ terminating' = registered
  /\ ends' = ends + 1
  /\ UNCHANGED <<connected, queues, caller, reading, serving, registered, actionsGot, eventsSent>>

\* Seeded fault: the Session is looked up after it is unregistered.
TerminateUntold(s) ==
  /\ s \in terminating
  /\ terminating' = terminating \ {s}
  /\ registered' = registered \ {s}
  /\ IF s \in registered' THEN PutOut(Envelope("SessionError", s))
                          ELSE UNCHANGED <<out, overflowed>>
  /\ UNCHANGED <<connected, up, wire, caller, reading, serving, ends, actionsGot, eventsSent>>

\* ... and terminates them one by one.
Terminate(s) ==
  /\ s \in terminating
  /\ terminating' = terminating \ {s}
  /\ registered' = registered \ {s}
  /\ IF s \in registered THEN PutOut(Envelope("SessionError", s))
                         ELSE UNCHANGED <<out, overflowed>>
  /\ UNCHANGED <<connected, up, wire, caller, reading, serving, ends, actionsGot, eventsSent>>

-----------------------------------------------------------------------------
(* The connection is lost; each side notices when its stream ends, and     *)
(* what is still on its way is lost then.                                  *)

ConnectionLost ==
  /\ connected
  /\ connected' = FALSE
  /\ UNCHANGED <<queues, caller, server>>

\* spawn_receive_loop: an open() fails, a Session gets an error.
ClientNoticesLoss ==
  /\ ~connected /\ ~noticed
  /\ noticed' = TRUE
  /\ phase' = [s \in Sessions |-> IF phase[s] = "opening" THEN "failed" ELSE phase[s]]
  /\ inbox' = [s \in Sessions |->
                 CASE phase[s] = "opening" -> <<>>
                   [] phase[s] = "open" /\ Len(inbox[s]) < InboxCapacity ->
                        Append(inbox[s], Envelope("SessionError", s))
                   [] OTHER -> inbox[s]]
  /\ UNCHANGED <<connected, queues, opens, told, unclosed, actionsSent, eventsGot, server>>

\* Seeded fault: a Session whose open is being served is overlooked.
ServerNoticesLossEarly ==
  /\ ~connected /\ reading
  /\ reading' = FALSE
  /\ registered' = registered \cap {serving}
  /\ UNCHANGED <<connected, queues, caller, serving, terminating, ends, actionsGot, eventsSent>>

\* close_sessions_for_sender, when the inbound task is at its recv().
ServerNoticesLoss ==
  /\ ~connected /\ reading /\ serving = None
  /\ reading' = FALSE
  /\ registered' = {}
  /\ UNCHANGED <<connected, queues, caller, serving, terminating, ends, actionsGot, eventsSent>>

-----------------------------------------------------------------------------
Receive(s) == ReceiveForSession(s) \/ ReceiveAck(s)
Serve(s)   == ServeOpen(s) \/ OpenServed(s) \/ ServeAction(s) \/ ServeClose(s)

Next ==
  \/ Flush \/ ActorEnds
  \/ ConnectionLost \/ ClientNoticesLoss \/ ServerNoticesLoss
  \/ \E s \in Sessions :
       SendOpen(s) \/ OpenTimesOut(s) \/ DropSession(s) \/ SendAction(s) \/ Recv(s)
  \/ \E s \in Sessions : Receive(s) \/ Serve(s) \/ ActorSends(s) \/ Terminate(s)

Spec == Init /\ [][Next]_vars

\* Tasks that can go on do; open() has a deadline; handlers of the Actor return.
LiveSpec ==
  /\ Spec
  /\ WF_vars(Flush) /\ WF_vars(ClientNoticesLoss) /\ WF_vars(ServerNoticesLoss)
  /\ \A s \in Sessions : /\ WF_vars(Receive(s)) /\ WF_vars(Serve(s)) /\ WF_vars(Terminate(s))
                         /\ WF_vars(OpenTimesOut(s))

-----------------------------------------------------------------------------
Events  == INSTANCE LossyFifo WITH Channels <- Sessions, sent <- eventsSent, got <- eventsGot
Actions == INSTANCE LossyFifo WITH Channels <- Sessions, sent <- actionsSent, got <- actionsGot

\* The Events a caller receives on a Session are Events the Actor sent on it,
\* in that order, none twice, through full channels, retried opens and loss
\* of the connection (deliver_event, handle_envelope, Session::recv); so are
\* the Actions that reach the Actor's mailbox (Session::send, dispatch_inbound).
TrafficInOrder == Events!Spec /\ Actions!Spec

\* A Session its caller has given up, by a failed open() or by dropping it,
\* stays registered at the Server (and keeps its Actor from passivation) only
\* while its SessionClose is on its way: also when the open is served after
\* open() timed out.  The exception is a SessionClose that found the channel
\* full (Client::open, Session::drop, dispatch_inbound).
GivenUpIsClosed ==
  \A s \in registered :
    phase[s] \in {"refused", "failed", "dropped"} /\ connected /\ s \notin unclosed
      => Envelope("SessionClose", s) \in Range(up)

OnTheWay(kind, s) == Envelope(kind, s) \in Range(out) \cup Range(wire)

\* A Session the Server has opened, and the caller still waits for, has its
\* answer on the way, through retried opens and the end of its Actor.  The
\* exception is an answer that found the channel full: on the gRPC
\* Server an Event pushed from on_session_opened takes its only place
\* (dispatch_inbound).
OpenedIsAnswered ==
  \A s \in registered \ ({serving} \cup overflowed) :
    phase[s] = "opening" /\ connected => OnTheWay("Opened", s)

\* The caller of an open Session that ended at the Server has received an
\* error, or will, unless the error found a channel or the receiver full
\* (SessionRegistry::terminate, handle_envelope).
EndIsTold ==
  \A s \in Sessions \ (registered \cup overflowed) :
    phase[s] = "open" /\ connected =>
      s \in told \/ OnTheWay("SessionError", s) \/ Envelope("SessionError", s) \in Range(inbox[s])

-----------------------------------------------------------------------------
(* The inductive invariant from which SessionStreamProofs derives these.   *)

\* What is on its way to the caller.
Down == wire \o out

Open(s)  == Envelope("SessionOpen", s)
Close(s) == Envelope("SessionClose", s)
Error(s) == Envelope("SessionError", s)
Acks(s)  == {Envelope("Opened", s), Envelope("Refused", s)}

\* In a queue nothing of B comes after something of A.
Avoids(q, A, B) == \A i, j \in DOMAIN q : i < j /\ q[i] \in A => q[j] \notin B

\* In a queue every a is followed by some b.
Followed(q, a, b) == \A i \in DOMAIN q : q[i] = a => \E j \in DOMAIN q : i < j /\ q[j] = b

\* In a queue the numbers of K rise.
Rising(q, K) == \A i, j \in DOMAIN q : i < j /\ q[i] \in K /\ q[j] \in K => q[i].n < q[j].n

\* A SessionOpen of a Session given up is on its way only before a SessionClose.
CloseInv(s) ==
  connected /\ phase[s] \in {"refused", "failed", "dropped"} /\ s \notin unclosed =>
    /\ s \in registered => Close(s) \in Range(up)
    /\ Followed(up, Open(s), Close(s))

\* The open a caller waits for is in one place: on its way as a SessionOpen, being
\* served, or answered; a SessionClose on its way is of an earlier one.
AnswerInv(s) ==
  connected /\ s \notin overflowed =>
    /\ phase[s] \in {"none", "refused"} =>
         s \notin registered /\ serving # s /\ Open(s) \notin Range(up) /\ Range(Down) \cap Acks(s) = {}
    /\ phase[s] = "opening" =>
         /\ Avoids(up, {Open(s)}, {Open(s), Close(s)}) /\ Avoids(Down, Acks(s), Acks(s))
         /\ \/ /\ Open(s) \in Range(up) /\ s \notin registered /\ serving # s
               /\ Range(Down) \cap Acks(s) = {}
            \/ /\ Range(up) \cap {Open(s), Close(s)} = {} /\ serving = s
               /\ Range(Down) \cap Acks(s) = {}
            \/ /\ Range(up) \cap {Open(s), Close(s)} = {} /\ serving # s
               /\ Range(Down) \cap Acks(s) # {}
               /\ Envelope("Refused", s) \in Range(Down) => s \notin registered
    /\ phase[s] = "open" =>
         /\ Range(up) \cap {Open(s), Close(s)} = {} /\ serving # s
         /\ Range(Down) \cap Acks(s) = {}

\* A Session that ended at the Server since its open was served has its error.
EndInv(s) ==
  /\ connected /\ s \notin overflowed /\ s \notin registered
  /\ \/ phase[s] = "open"
     \/ phase[s] = "opening" /\ (serving = s \/ Envelope("Opened", s) \in Range(Down))
  => s \in told \/ Error(s) \in Range(Down) \/ Error(s) \in Range(inbox[s])

EventsOf(s)  == [kind : {"Event"}, session : {s}, n : Nat]
ActionsOf(s) == [kind : {"Action"}, session : {s}, n : Nat]

\* Events on their way and in the receiver are in order and not received yet.
EventInv(s) ==
  /\ eventsGot[s] <= eventsSent[s]
  /\ \A m \in Range(inbox[s]) : m.session = s
  /\ \A m \in Range(inbox[s]) \cup Range(Down) :
       m \in EventsOf(s) => eventsGot[s] < m.n /\ m.n <= eventsSent[s]
  /\ Rising(inbox[s], EventsOf(s)) /\ Rising(Down, EventsOf(s))
  /\ \A m \in Range(inbox[s]), d \in Range(Down) :
       m \in EventsOf(s) /\ d \in EventsOf(s) => m.n < d.n

ActionInv(s) ==
  /\ actionsGot[s] <= actionsSent[s]
  /\ \A m \in Range(up) : m \in ActionsOf(s) => actionsGot[s] < m.n /\ m.n <= actionsSent[s]
  /\ Rising(up, ActionsOf(s))

SessionInv(s) == CloseInv(s) /\ AnswerInv(s) /\ EndInv(s) /\ EventInv(s) /\ ActionInv(s)

StreamInv == TypeOK /\ \A s \in Sessions : SessionInv(s)

-----------------------------------------------------------------------------
\* When the connection is lost, both sides let go of its Sessions for good:
\* no open() keeps waiting and no Session stays registered, also when the
\* loss finds the inbound task waiting for an open (spawn_receive_loop,
\* close_sessions_for_sender).
LossReachesBothSides ==
  ~connected ~> [](registered = {} /\ \A s \in Sessions : phase[s] # "opening")
=============================================================================
