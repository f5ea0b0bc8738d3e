--------------------------- MODULE NodeLeaseProofs ---------------------------
(***************************************************************************)
(* The theorems about NodeLease, for any number of processes, any TTL and  *)
(* any clock resolution.  The lemmas come first: what every step keeps of  *)
(* the lease object and of the requests on their way to it, then of each   *)
(* process, and so of the whole inductive invariant LeaseInv.              *)
(***************************************************************************)
EXTENDS NodeLease, TLAPS

(* The types, the lease object and the conditional requests.               *)

\* The absent lease object is no session's lease and has always expired.
LEMMA NoLeaseFacts ==
  /\ NoLease \in Objects
  /\ NoLease.session = NoSession /\ NoLease.gen = 0 /\ NoLease.expires = 0
  /\ \A l \in Objects : l # NoLease => l \in Leases /\ l.session \in Sessions
  /\ \A l \in Objects : l.gen \in Nat /\ l.expires \in Nat
  /\ \A l \in Objects : l.session \in Sessions => l # NoLease
  BY ConstantsAssumption DEF NoLease, Objects, Leases

\* The inductive invariant holds before any process has started.
LEMMA InitLeaseInv == Init => LeaseInv
<1> SUFFICES ASSUME Init PROVE LeaseInv
  OBVIOUS
<1>1. TypeOK
  BY NoLeaseFacts, ConstantsAssumption DEF Init, TypeOK, Pcs, Statuses
<1>2. ClockInv
  BY ConstantsAssumption DEF Init, ClockInv
<1>3. Written(NoLease)
  BY Zenon DEF Written
<1>4. ASSUME NEW s \in Sessions
      PROVE OperationInv(s) /\ AuthorityInv(s) /\ ReadInv(s) /\ ShutdownInv(s)
  BY <1>3, ConstantsAssumption DEF Init, OperationInv, AuthorityInv, ReadInv,
     ShutdownInv, Established, Waiting
<1> QED
  BY <1>1, <1>2, <1>3, <1>4, Zenon DEF LeaseInv, Init

\* The type invariant, over every action.
LEMMA TypeStep == TypeOK /\ [Next]_vars => TypeOK'
<1> SUFFICES ASSUME TypeOK, [Next]_vars PROVE TypeOK'
  OBVIOUS
<1> USE DEF TypeOK, Goto, Pcs, Statuses,
      clockVars, storeVars, opVars, authVars, readVars, hostVars
<1>1. ASSUME NEW s \in Sessions, Start(s) PROVE TypeOK'
  BY <1>1, ConstantsAssumption, NoLeaseFacts DEF Start
<1>2. ASSUME NEW s \in Sessions, AcquireRead(s) PROVE TypeOK'
  BY <1>2, Zenon DEF AcquireRead
<1>3. ASSUME NEW s \in Sessions, AcquirePut(s) PROVE TypeOK'
  BY <1>3, ConstantsAssumption, NoLeaseFacts DEF AcquirePut, PutNode, Leases, Objects, Requests
<1>4. ASSUME NEW s \in Sessions, AcquireRefused(s) PROVE TypeOK'
  BY <1>4, Zenon DEF AcquireRefused
<1>5. ASSUME NEW s \in Sessions, StartFails(s) PROVE TypeOK'
  BY <1>5, Zenon DEF StartFails
<1>6. ASSUME NEW s \in Sessions, OpApplied(s) PROVE TypeOK'
  BY <1>6, ConstantsAssumption, NoLeaseFacts DEF OpApplied, Confirmed
<1>7. ASSUME NEW s \in Sessions, RenewConflict(s) PROVE TypeOK'
  BY <1>7, Zenon DEF RenewConflict, Fence
<1>8. ASSUME NEW s \in Sessions, RenewFails(s) PROVE TypeOK'
  BY Zenon, <1>8 DEF RenewFails, Fence
<1>9. ASSUME NEW s \in Sessions, OpIndeterminate(s) PROVE TypeOK'
  BY <1>9, ConstantsAssumption, NoLeaseFacts DEF OpIndeterminate
<1>10. ASSUME NEW s \in Sessions, ConfirmRead(s) PROVE TypeOK'
  BY <1>10, ConstantsAssumption, NoLeaseFacts DEF ConfirmRead
<1>11. ASSUME NEW s \in Sessions, ConfirmOk(s) PROVE TypeOK'
  BY <1>11, ConstantsAssumption, NoLeaseFacts DEF ConfirmOk, Confirmed
<1>12. ASSUME NEW s \in Sessions, ConfirmRetry(s) PROVE TypeOK'
  BY <1>12, Zenon DEF ConfirmRetry
<1>13. ASSUME NEW s \in Sessions, ConfirmFails(s) PROVE TypeOK'
  BY Zenon, <1>13 DEF ConfirmFails, Fence
<1>14. ASSUME NEW s \in Sessions, BeginRenewal(s) PROVE TypeOK'
  BY <1>14 DEF BeginRenewal
<1>15. ASSUME NEW s \in Sessions, RenewPut(s) PROVE TypeOK'
  BY <1>15, ConstantsAssumption, NoLeaseFacts DEF RenewPut, PutNode, Leases, Objects, Requests
<1>16. ASSUME NEW s \in Sessions, LeaseLapsed(s) PROVE TypeOK'
  BY <1>16, Zenon DEF LeaseLapsed, Fence
<1>17. ASSUME NEW s \in Sessions, RuntimeFence(s) PROVE TypeOK'
  BY <1>17, Zenon DEF RuntimeFence
<1>18. ASSUME NEW s \in Sessions, BeginShutdown(s) PROVE TypeOK'
  BY <1>18, Zenon DEF BeginShutdown
<1>19. ASSUME NEW s \in Sessions, FinishDrain(s) PROVE TypeOK'
  BY <1>19, Zenon DEF FinishDrain
<1>20. ASSUME NEW s \in Sessions, RenewalStop(s) PROVE TypeOK'
  BY <1>20, Zenon DEF RenewalStop
<1>21. ASSUME NEW s \in Sessions, ReleaseNode(s) PROVE TypeOK'
  BY <1>21, ConstantsAssumption, NoLeaseFacts DEF ReleaseNode, Requests
<1>22. ASSUME NEW s \in Sessions, Crash(s) PROVE TypeOK'
  BY <1>22, Zenon DEF Crash
<1>23. ASSUME NEW r \in sent, StoreServes(r) PROVE TypeOK'
  BY <1>23, Zenon DEF StoreServes, Requests
<1>24. CASE Tick
  BY <1>24 DEF Tick
<1>25. CASE UNCHANGED vars
  BY <1>25, Zenon DEF vars
<1> QED
  BY <1>1, <1>2, <1>3, <1>4, <1>5, <1>6, <1>7, <1>8, <1>9, <1>10, <1>11, <1>12, <1>13, <1>14, <1>15,
     <1>16, <1>17, <1>18, <1>19, <1>20, <1>21, <1>22, <1>23, <1>24, <1>25, Zenon
     DEF Next, Starting, Outcome, Confirm, Renewal, Shutdown

\* An object that may be in the store stays so accounted for: a session writes
\* each generation at most once.
LEMMA WrittenKept ==
  ASSUME LeaseInv, [Next]_vars, NEW l \in Objects, Written(l)
  PROVE  Written(l)'
<1>t. TypeOK
  BY Zenon DEF LeaseInv
<1>l. l /= NoLease => l.session \in Sessions /\ l.gen \in Nat /\ l.expires \in Nat
  BY NoLeaseFacts, Zenon
<1> USE <1>t, <1>l DEF TypeOK, Goto, Written, Waiting,
      clockVars, storeVars, opVars, authVars, readVars, hostVars
<1>1. ASSUME NEW s \in Sessions, Start(s) PROVE Written(l)'
  BY <1>1, Zenon DEF Start
<1>2. ASSUME NEW s \in Sessions, AcquireRead(s) PROVE Written(l)'
  BY <1>2, Zenon DEF AcquireRead
<1>3. ASSUME NEW s \in Sessions, AcquirePut(s) PROVE Written(l)'
  BY <1>3, Zenon DEF AcquirePut, PutNode
<1>4. ASSUME NEW s \in Sessions, AcquireRefused(s) PROVE Written(l)'
  BY <1>4, Zenon DEF AcquireRefused
<1>5. ASSUME NEW s \in Sessions, StartFails(s) PROVE Written(l)'
  BY <1>5, Zenon DEF StartFails
<1>6. ASSUME NEW s \in Sessions, OpApplied(s) PROVE Written(l)'
  BY <1>6, Zenon DEF OpApplied, Confirmed
<1>7. ASSUME NEW s \in Sessions, RenewConflict(s) PROVE Written(l)'
  BY <1>7, Zenon DEF RenewConflict, Fence
<1>8. ASSUME NEW s \in Sessions, RenewFails(s) PROVE Written(l)'
  BY <1>8, Zenon DEF RenewFails, Fence
<1>9. ASSUME NEW s \in Sessions, OpIndeterminate(s) PROVE Written(l)'
  BY <1>9, Zenon DEF OpIndeterminate
<1>10. ASSUME NEW s \in Sessions, ConfirmRead(s) PROVE Written(l)'
  BY <1>10, Zenon DEF ConfirmRead
<1>11. ASSUME NEW s \in Sessions, ConfirmOk(s) PROVE Written(l)'
  BY <1>11, Zenon DEF ConfirmOk, Confirmed
<1>12. ASSUME NEW s \in Sessions, ConfirmRetry(s) PROVE Written(l)'
  BY <1>12, Zenon DEF ConfirmRetry
<1>13. ASSUME NEW s \in Sessions, ConfirmFails(s) PROVE Written(l)'
  BY <1>13 DEF ConfirmFails, Fence
<1>14. ASSUME NEW s \in Sessions, BeginRenewal(s) PROVE Written(l)'
  BY <1>14 DEF BeginRenewal
<1>15. ASSUME NEW s \in Sessions, RenewPut(s) PROVE Written(l)'
  BY <1>15 DEF RenewPut, PutNode
<1>16. ASSUME NEW s \in Sessions, LeaseLapsed(s) PROVE Written(l)'
  BY <1>16, Zenon DEF LeaseLapsed, Fence
<1>17. ASSUME NEW s \in Sessions, RuntimeFence(s) PROVE Written(l)'
  BY <1>17, Zenon DEF RuntimeFence
<1>18. ASSUME NEW s \in Sessions, BeginShutdown(s) PROVE Written(l)'
  BY <1>18, Zenon DEF BeginShutdown
<1>19. ASSUME NEW s \in Sessions, FinishDrain(s) PROVE Written(l)'
  BY <1>19, Zenon DEF FinishDrain
<1>20. ASSUME NEW s \in Sessions, RenewalStop(s) PROVE Written(l)'
  BY <1>20, Zenon DEF RenewalStop
<1>21. ASSUME NEW s \in Sessions, ReleaseNode(s) PROVE Written(l)'
  BY <1>21, Zenon DEF ReleaseNode
<1>22. ASSUME NEW s \in Sessions, Crash(s) PROVE Written(l)'
  BY <1>22, Zenon DEF Crash
<1>23. ASSUME NEW r \in sent, StoreServes(r) PROVE Written(l)'
  BY <1>23, Zenon DEF StoreServes
<1>24. CASE Tick
  BY <1>24, ConstantsAssumption, NoLeaseFacts DEF Tick
<1>25. CASE UNCHANGED vars
  BY <1>25, Zenon DEF vars
<1> QED
  BY <1>1, <1>2, <1>3, <1>4, <1>5, <1>6, <1>7, <1>8, <1>9, <1>10, <1>11, <1>12, <1>13, <1>14, <1>15,
     <1>16, <1>17, <1>18, <1>19, <1>20, <1>21, <1>22, <1>23, <1>24, <1>25, Zenon
     DEF Next, Starting, Outcome, Confirm, Renewal, Shutdown

\* A lease that a session counts on stays in the store until it expires or
\* the session has stopped.
LEMMA HoldsKept ==
  ASSUME LeaseInv, [Next]_vars, NEW t \in Sessions, NEW e \in Nat, Holds(t, e),
         pc[t] \notin {"released", "crashed"}
  PROVE  Holds(t, e)'
<1> USE DEF Holds, clockVars, storeVars
<1>1. ASSUME NEW s \in Sessions, Start(s) PROVE Holds(t, e)'
  BY <1>1, Zenon DEF Start
<1>2. ASSUME NEW s \in Sessions, AcquireRead(s) PROVE Holds(t, e)'
  BY <1>2, Zenon DEF AcquireRead
<1>3. ASSUME NEW s \in Sessions, AcquirePut(s) PROVE Holds(t, e)'
  BY <1>3, Zenon DEF AcquirePut, PutNode
<1>4. ASSUME NEW s \in Sessions, AcquireRefused(s) PROVE Holds(t, e)'
  BY <1>4, Zenon DEF AcquireRefused
<1>5. ASSUME NEW s \in Sessions, StartFails(s) PROVE Holds(t, e)'
  BY <1>5, Zenon DEF StartFails
<1>6. ASSUME NEW s \in Sessions, OpApplied(s) PROVE Holds(t, e)'
  BY <1>6, Zenon DEF OpApplied, Confirmed
<1>7. ASSUME NEW s \in Sessions, RenewConflict(s) PROVE Holds(t, e)'
  BY <1>7, Zenon DEF RenewConflict, Fence
<1>8. ASSUME NEW s \in Sessions, RenewFails(s) PROVE Holds(t, e)'
  BY <1>8, Zenon DEF RenewFails, Fence
<1>9. ASSUME NEW s \in Sessions, OpIndeterminate(s) PROVE Holds(t, e)'
  BY <1>9, Zenon DEF OpIndeterminate
<1>10. ASSUME NEW s \in Sessions, ConfirmRead(s) PROVE Holds(t, e)'
  BY <1>10, Zenon DEF ConfirmRead
<1>11. ASSUME NEW s \in Sessions, ConfirmOk(s) PROVE Holds(t, e)'
  BY <1>11, Zenon DEF ConfirmOk, Confirmed
<1>12. ASSUME NEW s \in Sessions, ConfirmRetry(s) PROVE Holds(t, e)'
  BY <1>12, Zenon DEF ConfirmRetry
<1>13. ASSUME NEW s \in Sessions, ConfirmFails(s) PROVE Holds(t, e)'
  BY <1>13, Zenon DEF ConfirmFails, Fence
<1>14. ASSUME NEW s \in Sessions, BeginRenewal(s) PROVE Holds(t, e)'
  BY <1>14, Zenon DEF BeginRenewal
<1>15. ASSUME NEW s \in Sessions, RenewPut(s) PROVE Holds(t, e)'
  BY <1>15, Zenon DEF RenewPut, PutNode
<1>16. ASSUME NEW s \in Sessions, LeaseLapsed(s) PROVE Holds(t, e)'
  BY <1>16, Zenon DEF LeaseLapsed, Fence
<1>17. ASSUME NEW s \in Sessions, RuntimeFence(s) PROVE Holds(t, e)'
  BY <1>17, Zenon DEF RuntimeFence
<1>18. ASSUME NEW s \in Sessions, BeginShutdown(s) PROVE Holds(t, e)'
  BY <1>18, Zenon DEF BeginShutdown
<1>19. ASSUME NEW s \in Sessions, FinishDrain(s) PROVE Holds(t, e)'
  BY <1>19, Zenon DEF FinishDrain
<1>20. ASSUME NEW s \in Sessions, RenewalStop(s) PROVE Holds(t, e)'
  BY <1>20, Zenon DEF RenewalStop
<1>21. ASSUME NEW s \in Sessions, ReleaseNode(s) PROVE Holds(t, e)'
  BY <1>21, Zenon DEF ReleaseNode
<1>22. ASSUME NEW s \in Sessions, Crash(s) PROVE Holds(t, e)'
  BY <1>22, Zenon DEF Crash
<1>23. ASSUME NEW r \in sent, StoreServes(r) PROVE Holds(t, e)'
  BY <1>23, ConstantsAssumption, NoLeaseFacts
     DEF StoreServes, RequestInv, Expired, Requests, LeaseInv, TypeOK
<1>24. CASE Tick
  BY <1>24, ConstantsAssumption, NoLeaseFacts DEF Tick, LeaseInv, TypeOK, ClockInv
<1>25. CASE UNCHANGED vars
  BY <1>25, Zenon DEF vars
<1> QED
  BY <1>1, <1>2, <1>3, <1>4, <1>5, <1>6, <1>7, <1>8, <1>9, <1>10, <1>11, <1>12, <1>13, <1>14, <1>15,
     <1>16, <1>17, <1>18, <1>19, <1>20, <1>21, <1>22, <1>23, <1>24, <1>25, Zenon
     DEF Next, Starting, Outcome, Confirm, Renewal, Shutdown

\* Time never runs backwards, and a process that is gone, its runtime stopped
\* or fenced, stays so.
LEMMA StopIsFinal ==
  ASSUME TypeOK, ClockInv, [Next]_vars
  PROVE  /\ wall <= wall'
         /\ \A t \in Sessions :
              pc[t] \in {"released", "crashed"} /\ status[t] \in {"STOPPED", "FENCED"} =>
                pc'[t] \in {"released", "crashed"} /\ status'[t] \in {"STOPPED", "FENCED"}
<1> DEFINE Gone(t) == pc[t] \in {"released", "crashed"} /\ status[t] \in {"STOPPED", "FENCED"}
           Final == wall <= wall' /\ \A t \in Sessions : Gone(t) => Gone(t)'
<1>t. wall \in Nat /\ now \in Nat /\ wall <= now
      /\ pc \in [Sessions -> Pcs] /\ status \in [Sessions -> Statuses]
  BY Zenon DEF TypeOK, ClockInv
<1> USE <1>t DEF Goto, clockVars, hostVars
<1>1. ASSUME NEW s \in Sessions, Starting(s) PROVE Final
  BY <1>1 DEF Starting, Start, AcquireRead, AcquirePut, AcquireRefused, StartFails
<1>2. ASSUME NEW s \in Sessions, Outcome(s) PROVE Final
  BY <1>2 DEF Outcome, OpApplied, Confirmed, RenewConflict, RenewFails, OpIndeterminate, Fence
<1>3. ASSUME NEW s \in Sessions, Confirm(s) PROVE Final
  BY <1>3 DEF Confirm, ConfirmRead, ConfirmOk, Confirmed, ConfirmRetry, ConfirmFails, Fence
<1>4. ASSUME NEW s \in Sessions, Renewal(s) PROVE Final
  BY <1>4 DEF Renewal, BeginRenewal, RenewPut, LeaseLapsed, RuntimeFence, Fence
<1>5. ASSUME NEW s \in Sessions, Shutdown(s) PROVE Final
  BY <1>5 DEF Shutdown, BeginShutdown, FinishDrain, RenewalStop, ReleaseNode
<1>6. ASSUME NEW s \in Sessions, Crash(s) PROVE Final
  BY <1>6 DEF Crash
<1>7. ASSUME NEW r \in sent, StoreServes(r) PROVE Final
  BY <1>7 DEF StoreServes
<1>8. CASE Tick
  BY <1>8 DEF Tick
<1>9. CASE UNCHANGED vars
  BY <1>9 DEF vars
<1> QED
  BY <1>1, <1>2, <1>3, <1>4, <1>5, <1>6, <1>7, <1>8, <1>9, Zenon DEF Next

\* Only put_node and release_node send a conditional request.
LEMMA SenderStep ==
  ASSUME [Next]_vars
  PROVE  \/ sent' = sent
         \/ \E s \in Sessions : AcquirePut(s) \/ RenewPut(s) \/ ReleaseNode(s)
  BY Zenon DEF Next, vars, storeVars, Starting, Outcome, Confirm, Renewal, Shutdown, Start,
         AcquireRead, AcquireRefused, StartFails, OpApplied, RenewConflict, RenewFails,
         OpIndeterminate, ConfirmRead, ConfirmOk, ConfirmRetry, ConfirmFails, BeginRenewal,
         LeaseLapsed, RuntimeFence, BeginShutdown, FinishDrain, RenewalStop, Crash,
         StoreServes, Tick

\* put_node sends one request and no other.
LEMMA OnlySent ==
  ASSUME NEW s, NEW match, PutNode(s, match), NEW q \in sent', q \notin sent
  PROVE  q = [by |-> s, match |-> match, new |-> content'[s]]
  BY Zenon DEF PutNode

\* What the requests on their way satisfy.
LEMMA RequestStep ==
  ASSUME LeaseInv, [Next]_vars, NEW q \in sent'
  PROVE  RequestInv(q)'
<1>t. TypeOK /\ ClockInv
  BY Zenon DEF LeaseInv
<1>1. CASE q \in sent
  <2>1. q \in Requests /\ RequestInv(q)
    BY <1>1, <1>t, Zenon DEF LeaseInv, TypeOK
  <2>2. q.by \in Sessions /\ q.new \in Objects /\ q.match.expires \in Nat /\ wall \in Nat
        /\ wall' \in Nat
    BY <2>1, <1>t, NoLeaseFacts, TypeStep, Zenon DEF Requests, TypeOK
  <2>3. Written(q.new)'
    BY <2>1, <2>2, WrittenKept, Zenon DEF RequestInv
  <2>4. Expired(q.match) => Expired(q.match)'
    BY <1>t, <2>2, StopIsFinal DEF Expired
  <2>5. q.new = NoLease =>
          pc'[q.by] \in {"released", "crashed"} /\ status'[q.by] \in {"STOPPED", "FENCED"}
    BY <1>t, <2>1, <2>2, StopIsFinal, Zenon DEF RequestInv
  <2> QED
    BY <2>1, <2>3, <2>4, <2>5, Zenon DEF RequestInv
<1>2. ASSUME NEW s \in Sessions, AcquirePut(s) \/ RenewPut(s), q \notin sent PROVE RequestInv(q)'
  <2> DEFINE new == [session |-> s, gen |-> gen[s], expires |-> wall + TTL]
  <2> DEFINE request(match) == [by |-> s, match |-> match, new |-> content'[s]]
  <2>a. /\ content \in [Sessions -> Objects] /\ content' = [content EXCEPT ![s] = new]
        /\ pc \in [Sessions -> Pcs] /\ pc' = [pc EXCEPT ![s] = "wait"]
        /\ gen' = gen /\ wall' = wall
    BY <1>t, <1>2, Zenon DEF AcquirePut, RenewPut, PutNode, Goto, TypeOK, clockVars
  <2>b. \E match : PutNode(s, match)
    BY <1>2, Zenon DEF AcquirePut, RenewPut
  <2>c. \E match : q = request(match) /\ sent' = sent \cup {request(match)}
    BY <1>2, <2>b, OnlySent, Zenon DEF PutNode
  <2>d. content'[s] = new
    BY <2>a, Zenon
  <2>e. q.by = s /\ q.new = content'[s]
    BY <2>c
  <2>1. content \in [Sessions -> Objects] /\ content' = [content EXCEPT ![s] = new]
        /\ pc \in [Sessions -> Pcs] /\ pc' = [pc EXCEPT ![s] = "wait"]
        /\ gen' = gen /\ wall' = wall
    BY <2>a, Zenon
  <2>2. q.by = s /\ q.new = new /\ q.new.session = s /\ q.new # NoLease
    BY <2>d, <2>e, ConstantsAssumption DEF NoLease
  <2>3. wall \in Nat /\ TTL \in Nat /\ gen[s] \in Nat
    BY <1>t, ConstantsAssumption, Zenon DEF TypeOK
  <2>4. content'[s] = new /\ pc'[s] = "wait"
    BY <2>1, Zenon
  <2>5. Written(q.new)'
    BY <2>1, <2>2, <2>3, <2>4 DEF Written, Waiting
  <2>6. (q.match.session = s /\ q.match.expires <= q.new.expires) \/ Expired(q.match)
    <3>1. CASE AcquirePut(s)
      <4>1. seen[s] = NoLease \/ Expired(seen[s])
        BY <3>1, Zenon DEF AcquirePut
      <4>2. q = [by |-> s, match |-> seen[s], new |-> content'[s]]
        BY <1>2, <3>1, OnlySent, Zenon DEF AcquirePut
      <4>3. q.match = seen[s]
        BY <4>2, Zenon
      <4> QED
        BY <2>3, <4>1, <4>3, NoLeaseFacts DEF Expired
    <3>2. CASE RenewPut(s)
      <4>1. Established(s)
        BY <3>2, Zenon DEF RenewPut, Established
      <4>4. q = [by |-> s, match |-> revision[s], new |-> content'[s]]
        BY <1>2, <3>2, OnlySent, Zenon DEF RenewPut
      <4>3. q.match = revision[s]
        BY <4>4
      <4>2. revision[s].session = s /\ Written(revision[s]) /\ revision[s] # NoLease
        BY <4>1, NoLeaseFacts, ConstantsAssumption, Zenon DEF LeaseInv, AuthorityInv
      <4> QED
        BY <2>2, <4>2, <4>3 DEF Written
    <3> QED
      BY <1>2, <3>1, <3>2, Zenon
  <2>7. Expired(q.match) => Expired(q.match)'
    BY <2>1, Zenon DEF Expired
  <2> QED
    BY <2>2, <2>5, <2>6, <2>7, Zenon DEF RequestInv
<1>3. ASSUME NEW s \in Sessions, ReleaseNode(s), q \notin sent PROVE RequestInv(q)'
  <2>1. /\ q = [by |-> s, match |-> revision[s], new |-> NoLease]
        /\ pc'[s] = "released" /\ status' = status
    BY <1>t, <1>3, Zenon DEF ReleaseNode, Goto, hostVars, TypeOK
  <2>2. revision[s].session = s /\ status[s] \in {"STOPPED", "FENCED"}
    BY <1>3, Zenon DEF ReleaseNode, LeaseInv, AuthorityInv, ShutdownInv, Established
  <2>3. Written(NoLease)'
    BY Zenon DEF Written
  <2> QED
    BY <2>1, <2>2, <2>3, Zenon DEF RequestInv
<1> QED
  BY <1>1, <1>2, <1>3, SenderStep, Zenon

-----------------------------------------------------------------------------
(* Each process, and the inductive invariant.                              *)

\* What the operation of each process satisfies.
LEMMA OperationStep ==
  ASSUME LeaseInv, [Next]_vars, NEW t \in Sessions
  PROVE  OperationInv(t)'
<1>t. TypeOK
  BY Zenon DEF LeaseInv
<1>f. /\ OperationInv(t) /\ ClockInv
      /\ content[t] \in Objects /\ content[t].expires \in Nat
      /\ now \in Nat /\ wall \in Nat /\ TTL \in Nat /\ TicksPerMs \in Nat \ {0}
  BY <1>t, NoLeaseFacts, ConstantsAssumption, Zenon DEF LeaseInv, TypeOK
<1>k. \A e \in Nat : Holds(t, e) /\ pc[t] \notin {"released", "crashed"} => Holds(t, e)'
  BY HoldsKept, Zenon
<1> USE <1>t, <1>f DEF TypeOK, ClockInv, Goto, OperationInv, Waiting,
      clockVars, storeVars, opVars, authVars, readVars, hostVars
<1>1. ASSUME NEW s \in Sessions, Start(s) PROVE OperationInv(t)'
  <2>1. CASE t = s
    BY <1>1, <2>1, <1>f DEF Start
  <2>2. CASE t /= s
    BY <1>1, <2>2, <1>f, <1>k, Zenon DEF Start
  <2> QED
    BY <2>1, <2>2, Zenon
<1>2. ASSUME NEW s \in Sessions, AcquireRead(s) PROVE OperationInv(t)'
  BY <1>2, <1>k, Zenon DEF AcquireRead
<1>3. ASSUME NEW s \in Sessions, AcquirePut(s) PROVE OperationInv(t)'
  <2>1. CASE t = s
    BY <1>3, <2>1, <1>f DEF AcquirePut, PutNode, Leases, Objects
  <2>2. CASE t /= s
    BY <1>3, <2>2, <1>f, <1>k, Zenon DEF AcquirePut, PutNode
  <2> QED
    BY <2>1, <2>2
<1>4. ASSUME NEW s \in Sessions, AcquireRefused(s) PROVE OperationInv(t)'
  BY <1>4, <1>k, Zenon DEF AcquireRefused
<1>5. ASSUME NEW s \in Sessions, StartFails(s) PROVE OperationInv(t)'
  BY <1>5, <1>k, Zenon DEF StartFails
<1>6. ASSUME NEW s \in Sessions, OpApplied(s) PROVE OperationInv(t)'
  BY <1>6, <1>k, Zenon DEF OpApplied, Confirmed
<1>7. ASSUME NEW s \in Sessions, RenewConflict(s) PROVE OperationInv(t)'
  BY <1>7, <1>k, Zenon DEF RenewConflict, Fence
<1>8. ASSUME NEW s \in Sessions, RenewFails(s) PROVE OperationInv(t)'
  <2>1. CASE t = s
    BY <1>8, <2>1, <1>f, Zenon DEF RenewFails, Fence
  <2>2. CASE t /= s
    BY <1>8, <2>2, <1>f, <1>k, Zenon DEF RenewFails, Fence
  <2> QED
    BY <2>1, <2>2
<1>9. ASSUME NEW s \in Sessions, OpIndeterminate(s) PROVE OperationInv(t)'
  BY <1>9, <1>k, Zenon DEF OpIndeterminate
<1>10. ASSUME NEW s \in Sessions, ConfirmRead(s) PROVE OperationInv(t)'
  BY <1>10, <1>k, Zenon DEF ConfirmRead
<1>11. ASSUME NEW s \in Sessions, ConfirmOk(s) PROVE OperationInv(t)'
  BY <1>11, <1>k, Zenon DEF ConfirmOk, Confirmed
<1>12. ASSUME NEW s \in Sessions, ConfirmRetry(s) PROVE OperationInv(t)'
  BY <1>12, <1>k, Zenon DEF ConfirmRetry
<1>13. ASSUME NEW s \in Sessions, ConfirmFails(s) PROVE OperationInv(t)'
  BY <1>13, <1>k, Zenon DEF ConfirmFails, Fence
<1>14. ASSUME NEW s \in Sessions, BeginRenewal(s) PROVE OperationInv(t)'
  <2>1. CASE t = s
    BY <1>14, <2>1, <1>f DEF BeginRenewal
  <2>2. CASE t /= s
    BY <1>14, <2>2, <1>f, <1>k, Zenon DEF BeginRenewal
  <2> QED
    BY <2>1, <2>2
<1>15. ASSUME NEW s \in Sessions, RenewPut(s) PROVE OperationInv(t)'
  <2>1. CASE t = s
    BY <1>15, <2>1, <1>f DEF RenewPut, PutNode, Leases, Objects
  <2>2. CASE t /= s
    BY <1>15, <2>2, <1>f, <1>k, Zenon DEF RenewPut, PutNode
  <2> QED
    BY <2>1, <2>2
<1>16. ASSUME NEW s \in Sessions, LeaseLapsed(s) PROVE OperationInv(t)'
  BY <1>16, <1>k, Zenon DEF LeaseLapsed, Fence
<1>17. ASSUME NEW s \in Sessions, RuntimeFence(s) PROVE OperationInv(t)'
  BY <1>17, <1>k, Zenon DEF RuntimeFence
<1>18. ASSUME NEW s \in Sessions, BeginShutdown(s) PROVE OperationInv(t)'
  BY <1>18, <1>k, Zenon DEF BeginShutdown
<1>19. ASSUME NEW s \in Sessions, FinishDrain(s) PROVE OperationInv(t)'
  BY <1>19, <1>k, Zenon DEF FinishDrain
<1>20. ASSUME NEW s \in Sessions, RenewalStop(s) PROVE OperationInv(t)'
  BY <1>20, <1>k, Zenon DEF RenewalStop
<1>21. ASSUME NEW s \in Sessions, ReleaseNode(s) PROVE OperationInv(t)'
  BY <1>21, <1>k, Zenon DEF ReleaseNode
<1>22. ASSUME NEW s \in Sessions, Crash(s) PROVE OperationInv(t)'
  BY <1>22, <1>k, Zenon DEF Crash
<1>23. ASSUME NEW r \in sent, StoreServes(r) PROVE OperationInv(t)'
  <2>1. pc'[t] = pc[t] /\ content'[t] = content[t] /\ gen'[t] = gen[t] /\ started'[t] = started[t]
          /\ now' = now /\ wall' = wall
    BY <1>23, Zenon DEF StoreServes
  <2>2. ASSUME pc[t] = "wait", answer'[t] = "applied" PROVE Holds(t, content[t].expires)'
    <3>1. CASE answer' = answer
      BY <1>23, <1>f, <1>k, <2>1, <2>2, <3>1, Zenon
    <3>2. CASE answer' # answer /\ t # r.by
      BY <1>23, <1>f, <1>k, <2>2, <3>2, Zenon DEF StoreServes
    <3>3. CASE answer' # answer /\ t = r.by
      BY <1>23, <1>f, <2>2, <3>3 DEF StoreServes, Holds
    <3> QED
      BY <3>1, <3>2, <3>3, Zenon
  <2> QED
    BY <1>f, <2>1, <2>2, Zenon
<1>24. CASE Tick
  BY <1>24, <1>f, <1>k, ConstantsAssumption DEF Tick, Holds
<1>25. CASE UNCHANGED vars
  BY <1>25, <1>k, Zenon DEF vars
<1> QED
  BY <1>1, <1>2, <1>3, <1>4, <1>5, <1>6, <1>7, <1>8, <1>9, <1>10, <1>11, <1>12, <1>13, <1>14, <1>15,
     <1>16, <1>17, <1>18, <1>19, <1>20, <1>21, <1>22, <1>23, <1>24, <1>25, Zenon
     DEF Next, Starting, Outcome, Confirm, Renewal, Shutdown

\* What the authority of each process satisfies.
LEMMA AuthorityStep ==
  ASSUME LeaseInv, [Next]_vars, NEW t \in Sessions
  PROVE  AuthorityInv(t)'
<1>t. TypeOK
  BY DEF LeaseInv
<1>f. revision[t] \in Objects /\ revision[t].expires \in Nat /\ AuthorityInv(t)
  BY <1>t, NoLeaseFacts, ConstantsAssumption, Zenon DEF LeaseInv, TypeOK
<1>k. \A e \in Nat : Holds(t, e) /\ pc[t] \notin {"released", "crashed"} => Holds(t, e)'
  BY HoldsKept
<1>w. \A l \in Objects : Written(l) => Written(l)'
  BY WrittenKept, Zenon
<1>i. \A s \in Sessions :
        /\ OperationInv(s) /\ ReadInv(s)
        /\ seen[s] \in Objects /\ seen[s].expires \in Nat
        /\ content[s] \in Objects /\ content[s].expires \in Nat
        /\ s # NoSession
  BY <1>t, NoLeaseFacts, ConstantsAssumption, Zenon DEF LeaseInv, TypeOK
<1> USE <1>t, <1>f DEF TypeOK, Goto, AuthorityInv, Established,
      clockVars, storeVars, opVars, authVars, readVars, hostVars
<1>1. ASSUME NEW s \in Sessions, Start(s) PROVE AuthorityInv(t)'
  BY <1>1, <1>k, <1>w, Zenon DEF Start
<1>2. ASSUME NEW s \in Sessions, AcquireRead(s) PROVE AuthorityInv(t)'
  BY <1>2, <1>k, <1>w, Zenon DEF AcquireRead
<1>3. ASSUME NEW s \in Sessions, AcquirePut(s) PROVE AuthorityInv(t)'
  <2>1. CASE t = s
    BY <1>3, <2>1, <1>i
       DEF AcquirePut, PutNode, OperationInv
  <2>2. CASE t /= s
    BY <1>3, <2>2, <1>f, <1>k, <1>w, Zenon DEF AcquirePut, PutNode
  <2> QED
    BY <2>1, <2>2, Zenon
<1>4. ASSUME NEW s \in Sessions, AcquireRefused(s) PROVE AuthorityInv(t)'
  BY <1>4, <1>k, <1>w, Zenon DEF AcquireRefused
<1>5. ASSUME NEW s \in Sessions, StartFails(s) PROVE AuthorityInv(t)'
  BY <1>5, <1>k, <1>w, Zenon DEF StartFails
<1>6. ASSUME NEW s \in Sessions, OpApplied(s) PROVE AuthorityInv(t)'
  <2>1. CASE t = s
    <3>1. content[s].session = s /\ content[s].gen = gen[s] /\ content[s].expires <= wall + TTL
          /\ started[s] + TTL <= content[s].expires + (TicksPerMs - 1)
          /\ Holds(s, content[s].expires)
      BY <1>6, <1>i, Zenon DEF OpApplied, OperationInv, Waiting
    <3>2. content[s] \in Objects /\ content[s].expires \in Nat
      BY <1>6, <1>i, Zenon
    <3>3. Written(content[s])
      BY <1>6, <3>1, <3>2 DEF OpApplied, Written, Waiting
    <3> QED
      BY <1>6, <2>1, <3>1, <3>2, <3>3, <1>k, <1>w, Zenon DEF OpApplied, Confirmed
  <2>2. CASE t /= s
    BY <1>6, <2>2, <1>f, <1>k, <1>w, Zenon DEF OpApplied, Confirmed
  <2> QED
    BY <2>1, <2>2
<1>7. ASSUME NEW s \in Sessions, RenewConflict(s) PROVE AuthorityInv(t)'
  BY <1>7, <1>k, <1>w, Zenon DEF RenewConflict, Fence
<1>8. ASSUME NEW s \in Sessions, RenewFails(s) PROVE AuthorityInv(t)'
  BY <1>8, <1>k, <1>w, Zenon DEF RenewFails, Fence
<1>9. ASSUME NEW s \in Sessions, OpIndeterminate(s) PROVE AuthorityInv(t)'
  BY <1>9, <1>k, <1>w, Zenon DEF OpIndeterminate
<1>10. ASSUME NEW s \in Sessions, ConfirmRead(s) PROVE AuthorityInv(t)'
  BY <1>10, <1>k, <1>w, Zenon DEF ConfirmRead
<1>11. ASSUME NEW s \in Sessions, ConfirmOk(s) PROVE AuthorityInv(t)'
  <2>1. CASE t = s
    <3>1. seen[s] \in Objects /\ seen[s].expires \in Nat /\ seen[s].session = s /\ Written(seen[s])
          /\ Holds(s, seen[s].expires)
      BY <1>11, <1>i, Zenon DEF ConfirmOk, IsExpected, ReadInv
    <3>2. seen[s] = content[s]
      BY <1>11, <3>1, <1>i
         DEF ConfirmOk, IsExpected, Written, Waiting, NoLease
    <3>3. started[s] + TTL <= seen[s].expires + (TicksPerMs - 1)
      BY <1>11, <3>2, <1>i
        , Zenon DEF ConfirmOk, OperationInv, Waiting
    <3> QED
      BY <1>11, <2>1, <3>1, <3>3, <1>k, <1>w, Zenon DEF ConfirmOk, Confirmed
  <2>2. CASE t /= s
    BY <1>11, <2>2, <1>f, <1>k, <1>w, Zenon DEF ConfirmOk, Confirmed
  <2> QED
    BY <2>1, <2>2
<1>12. ASSUME NEW s \in Sessions, ConfirmRetry(s) PROVE AuthorityInv(t)'
  BY <1>12, <1>k, <1>w, Zenon DEF ConfirmRetry
<1>13. ASSUME NEW s \in Sessions, ConfirmFails(s) PROVE AuthorityInv(t)'
  BY <1>13, <1>k, <1>w DEF ConfirmFails, Fence
<1>14. ASSUME NEW s \in Sessions, BeginRenewal(s) PROVE AuthorityInv(t)'
  BY <1>14, <1>k, <1>w, Zenon DEF BeginRenewal
<1>15. ASSUME NEW s \in Sessions, RenewPut(s) PROVE AuthorityInv(t)'
  BY <1>15, <1>k, <1>w, Zenon DEF RenewPut, PutNode
<1>16. ASSUME NEW s \in Sessions, LeaseLapsed(s) PROVE AuthorityInv(t)'
  BY <1>16, <1>k, <1>w, Zenon DEF LeaseLapsed, Fence
<1>17. ASSUME NEW s \in Sessions, RuntimeFence(s) PROVE AuthorityInv(t)'
  BY <1>17, <1>k, <1>w, Zenon DEF RuntimeFence
<1>18. ASSUME NEW s \in Sessions, BeginShutdown(s) PROVE AuthorityInv(t)'
  BY <1>18, <1>k, <1>w, Zenon DEF BeginShutdown
<1>19. ASSUME NEW s \in Sessions, FinishDrain(s) PROVE AuthorityInv(t)'
  BY <1>19, <1>k, <1>w, Zenon DEF FinishDrain
<1>20. ASSUME NEW s \in Sessions, RenewalStop(s) PROVE AuthorityInv(t)'
  BY <1>20, <1>k, <1>w, Zenon DEF RenewalStop
<1>21. ASSUME NEW s \in Sessions, ReleaseNode(s) PROVE AuthorityInv(t)'
  BY <1>21, <1>k, <1>w, Zenon DEF ReleaseNode
<1>22. ASSUME NEW s \in Sessions, Crash(s) PROVE AuthorityInv(t)'
  BY <1>22, <1>k, <1>w, Zenon DEF Crash
<1>23. ASSUME NEW r \in sent, StoreServes(r) PROVE AuthorityInv(t)'
  BY <1>23, <1>k, <1>w, Zenon DEF StoreServes
<1>24. CASE Tick
  BY <1>24, <1>k, <1>w, Zenon DEF Tick
<1>25. CASE UNCHANGED vars
  BY <1>25, <1>k, <1>w, Zenon DEF vars
<1> QED
  BY <1>1, <1>2, <1>3, <1>4, <1>5, <1>6, <1>7, <1>8, <1>9, <1>10, <1>11, <1>12, <1>13, <1>14, <1>15,
     <1>16, <1>17, <1>18, <1>19, <1>20, <1>21, <1>22, <1>23, <1>24, <1>25, Zenon
     DEF Next, Starting, Outcome, Confirm, Renewal, Shutdown

\* What each process has read.
LEMMA ReadStep ==
  ASSUME LeaseInv, [Next]_vars, NEW t \in Sessions
  PROVE  ReadInv(t)'
<1>t. TypeOK /\ ReadInv(t) /\ seen[t] \in Objects /\ seen[t].expires \in Nat
  BY NoLeaseFacts, Zenon DEF LeaseInv, TypeOK
<1>k. \A e \in Nat : Holds(t, e) /\ pc[t] \notin {"released", "crashed"} => Holds(t, e)'
  BY HoldsKept
<1>w. \A l \in Objects : Written(l) => Written(l)'
  BY WrittenKept
<1>l. Written(lease) /\ lease \in Objects /\ lease.expires \in Nat
  BY NoLeaseFacts, Zenon DEF LeaseInv, TypeOK
<1> USE <1>t DEF TypeOK, Goto, ReadInv,
      clockVars, storeVars, opVars, authVars, readVars, hostVars
<1>1. ASSUME NEW s \in Sessions, Start(s) PROVE ReadInv(t)'
  BY <1>1, <1>k, <1>w, Zenon DEF Start
<1>2. ASSUME NEW s \in Sessions, AcquireRead(s) PROVE ReadInv(t)'
  BY <1>2, <1>k, <1>w, <1>l, Zenon DEF AcquireRead
<1>3. ASSUME NEW s \in Sessions, AcquirePut(s) PROVE ReadInv(t)'
  BY <1>3, <1>k, <1>w, Zenon DEF AcquirePut, PutNode
<1>4. ASSUME NEW s \in Sessions, AcquireRefused(s) PROVE ReadInv(t)'
  BY <1>4, <1>k, <1>w, Zenon DEF AcquireRefused
<1>5. ASSUME NEW s \in Sessions, StartFails(s) PROVE ReadInv(t)'
  BY <1>5, <1>k, <1>w, Zenon DEF StartFails
<1>6. ASSUME NEW s \in Sessions, OpApplied(s) PROVE ReadInv(t)'
  BY <1>6, <1>k, <1>w, Zenon DEF OpApplied, Confirmed
<1>7. ASSUME NEW s \in Sessions, RenewConflict(s) PROVE ReadInv(t)'
  BY <1>7, <1>k, <1>w, Zenon DEF RenewConflict, Fence
<1>8. ASSUME NEW s \in Sessions, RenewFails(s) PROVE ReadInv(t)'
  BY <1>8, <1>k, <1>w, Zenon DEF RenewFails, Fence
<1>9. ASSUME NEW s \in Sessions, OpIndeterminate(s) PROVE ReadInv(t)'
  BY <1>9, <1>k, <1>w, Zenon DEF OpIndeterminate
<1>10. ASSUME NEW s \in Sessions, ConfirmRead(s) PROVE ReadInv(t)'
  BY <1>10, <1>k, <1>w, <1>l DEF ConfirmRead, Holds
<1>11. ASSUME NEW s \in Sessions, ConfirmOk(s) PROVE ReadInv(t)'
  BY <1>11, <1>k, <1>w, Zenon DEF ConfirmOk, Confirmed
<1>12. ASSUME NEW s \in Sessions, ConfirmRetry(s) PROVE ReadInv(t)'
  BY <1>12, <1>k, <1>w, Zenon DEF ConfirmRetry
<1>13. ASSUME NEW s \in Sessions, ConfirmFails(s) PROVE ReadInv(t)'
  BY <1>13, <1>k, <1>w, Zenon DEF ConfirmFails, Fence
<1>14. ASSUME NEW s \in Sessions, BeginRenewal(s) PROVE ReadInv(t)'
  BY <1>14, <1>k, <1>w, Zenon DEF BeginRenewal
<1>15. ASSUME NEW s \in Sessions, RenewPut(s) PROVE ReadInv(t)'
  BY <1>15, <1>k, <1>w, Zenon DEF RenewPut, PutNode
<1>16. ASSUME NEW s \in Sessions, LeaseLapsed(s) PROVE ReadInv(t)'
  BY <1>16, <1>k, <1>w, Zenon DEF LeaseLapsed, Fence
<1>17. ASSUME NEW s \in Sessions, RuntimeFence(s) PROVE ReadInv(t)'
  BY <1>17, <1>k, <1>w, Zenon DEF RuntimeFence
<1>18. ASSUME NEW s \in Sessions, BeginShutdown(s) PROVE ReadInv(t)'
  BY <1>18, <1>k, <1>w, Zenon DEF BeginShutdown
<1>19. ASSUME NEW s \in Sessions, FinishDrain(s) PROVE ReadInv(t)'
  BY <1>19, <1>k, <1>w, Zenon DEF FinishDrain
<1>20. ASSUME NEW s \in Sessions, RenewalStop(s) PROVE ReadInv(t)'
  BY <1>20, <1>k, <1>w, Zenon DEF RenewalStop
<1>21. ASSUME NEW s \in Sessions, ReleaseNode(s) PROVE ReadInv(t)'
  BY <1>21, <1>k, <1>w, Zenon DEF ReleaseNode
<1>22. ASSUME NEW s \in Sessions, Crash(s) PROVE ReadInv(t)'
  BY <1>22, <1>k, <1>w, Zenon DEF Crash
<1>23. ASSUME NEW r \in sent, StoreServes(r) PROVE ReadInv(t)'
  BY <1>23, <1>k, <1>w, Zenon DEF StoreServes
<1>24. CASE Tick
  BY <1>24, <1>k, <1>w, Zenon DEF Tick
<1>25. CASE UNCHANGED vars
  BY <1>25, <1>k, <1>w, Zenon DEF vars
<1> QED
  BY <1>1, <1>2, <1>3, <1>4, <1>5, <1>6, <1>7, <1>8, <1>9, <1>10, <1>11, <1>12, <1>13, <1>14, <1>15,
     <1>16, <1>17, <1>18, <1>19, <1>20, <1>21, <1>22, <1>23, <1>24, <1>25, Zenon
     DEF Next, Starting, Outcome, Confirm, Renewal, Shutdown

\* How far the shutdown of each process has come.
LEMMA ShutdownStep ==
  ASSUME LeaseInv, [Next]_vars, NEW t \in Sessions
  PROVE  ShutdownInv(t)'
<1>t. TypeOK /\ ShutdownInv(t)
  BY Zenon DEF LeaseInv
<1> USE <1>t DEF TypeOK, Goto, ShutdownInv,
      clockVars, storeVars, opVars, authVars, readVars, hostVars
<1>1. ASSUME NEW s \in Sessions, Start(s) PROVE ShutdownInv(t)'
  BY <1>1, Zenon DEF Start
<1>2. ASSUME NEW s \in Sessions, AcquireRead(s) PROVE ShutdownInv(t)'
  BY <1>2, Zenon DEF AcquireRead
<1>3. ASSUME NEW s \in Sessions, AcquirePut(s) PROVE ShutdownInv(t)'
  BY <1>3, Zenon DEF AcquirePut, PutNode
<1>4. ASSUME NEW s \in Sessions, AcquireRefused(s) PROVE ShutdownInv(t)'
  BY <1>4, Zenon DEF AcquireRefused
<1>5. ASSUME NEW s \in Sessions, StartFails(s) PROVE ShutdownInv(t)'
  BY <1>5, Zenon DEF StartFails
<1>6. ASSUME NEW s \in Sessions, OpApplied(s) PROVE ShutdownInv(t)'
  BY <1>6, Zenon DEF OpApplied, Confirmed
<1>7. ASSUME NEW s \in Sessions, RenewConflict(s) PROVE ShutdownInv(t)'
  BY <1>7, Zenon DEF RenewConflict, Fence
<1>8. ASSUME NEW s \in Sessions, RenewFails(s) PROVE ShutdownInv(t)'
  BY <1>8, Zenon DEF RenewFails, Fence
<1>9. ASSUME NEW s \in Sessions, OpIndeterminate(s) PROVE ShutdownInv(t)'
  BY <1>9, Zenon DEF OpIndeterminate
<1>10. ASSUME NEW s \in Sessions, ConfirmRead(s) PROVE ShutdownInv(t)'
  BY <1>10, Zenon DEF ConfirmRead
<1>11. ASSUME NEW s \in Sessions, ConfirmOk(s) PROVE ShutdownInv(t)'
  BY <1>11, Zenon DEF ConfirmOk, Confirmed
<1>12. ASSUME NEW s \in Sessions, ConfirmRetry(s) PROVE ShutdownInv(t)'
  BY <1>12, Zenon DEF ConfirmRetry
<1>13. ASSUME NEW s \in Sessions, ConfirmFails(s) PROVE ShutdownInv(t)'
  BY <1>13, Zenon DEF ConfirmFails, Fence
<1>14. ASSUME NEW s \in Sessions, BeginRenewal(s) PROVE ShutdownInv(t)'
  BY <1>14, Zenon DEF BeginRenewal
<1>15. ASSUME NEW s \in Sessions, RenewPut(s) PROVE ShutdownInv(t)'
  BY <1>15, Zenon DEF RenewPut, PutNode
<1>16. ASSUME NEW s \in Sessions, LeaseLapsed(s) PROVE ShutdownInv(t)'
  BY <1>16, Zenon DEF LeaseLapsed, Fence
<1>17. ASSUME NEW s \in Sessions, RuntimeFence(s) PROVE ShutdownInv(t)'
  BY <1>17, Zenon DEF RuntimeFence
<1>18. ASSUME NEW s \in Sessions, BeginShutdown(s) PROVE ShutdownInv(t)'
  BY <1>18 DEF BeginShutdown
<1>19. ASSUME NEW s \in Sessions, FinishDrain(s) PROVE ShutdownInv(t)'
  BY <1>19, Zenon DEF FinishDrain
<1>20. ASSUME NEW s \in Sessions, RenewalStop(s) PROVE ShutdownInv(t)'
  BY <1>20, Zenon DEF RenewalStop
<1>21. ASSUME NEW s \in Sessions, ReleaseNode(s) PROVE ShutdownInv(t)'
  BY <1>21, Zenon DEF ReleaseNode
<1>22. ASSUME NEW s \in Sessions, Crash(s) PROVE ShutdownInv(t)'
  BY <1>22, Zenon DEF Crash
<1>23. ASSUME NEW r \in sent, StoreServes(r) PROVE ShutdownInv(t)'
  BY <1>23, Zenon DEF StoreServes
<1>24. CASE Tick
  BY <1>24, Zenon DEF Tick
<1>25. CASE UNCHANGED vars
  BY <1>25, Zenon DEF vars
<1> QED
  BY <1>1, <1>2, <1>3, <1>4, <1>5, <1>6, <1>7, <1>8, <1>9, <1>10, <1>11, <1>12, <1>13, <1>14, <1>15,
     <1>16, <1>17, <1>18, <1>19, <1>20, <1>21, <1>22, <1>23, <1>24, <1>25, Zenon
     DEF Next, Starting, Outcome, Confirm, Renewal, Shutdown

\* Every step preserves the inductive invariant.
LEMMA LeaseInvStep == LeaseInv /\ [Next]_vars => LeaseInv'
<1> SUFFICES ASSUME LeaseInv, [Next]_vars PROVE LeaseInv'
  OBVIOUS
<1>1. TypeOK'
  BY TypeStep, Zenon DEF LeaseInv
<1>2. ClockInv'
  <2>1. CASE Tick
    BY <2>1, ConstantsAssumption DEF Tick, LeaseInv, TypeOK, ClockInv
  <2>2. CASE UNCHANGED clockVars
    BY <2>2, Zenon DEF clockVars, LeaseInv, ClockInv
  <2>3. Tick \/ UNCHANGED clockVars
    BY Zenon DEF Next, vars, Starting, Outcome, Confirm, Renewal, Shutdown, Start, AcquireRead,
           AcquirePut, AcquireRefused, StartFails, OpApplied, RenewConflict, RenewFails,
           OpIndeterminate, ConfirmRead, ConfirmOk, ConfirmRetry, ConfirmFails, BeginRenewal,
           RenewPut, LeaseLapsed, RuntimeFence, BeginShutdown, FinishDrain, RenewalStop,
           ReleaseNode, Crash, StoreServes
  <2> QED
    BY <2>1, <2>2, <2>3, Zenon
<1>3. Written(lease)'
  <2>1. PICK l \in Objects : Written(l) /\ l = lease'
    <3>1. CASE UNCHANGED lease
      BY <3>1, Zenon DEF LeaseInv, TypeOK
    <3>2. ASSUME NEW r \in sent, StoreServes(r) PROVE \E l \in Objects : Written(l) /\ l = lease'
      BY <3>2, Zenon DEF StoreServes, LeaseInv, RequestInv, TypeOK, Requests
    <3>3. (\E r \in sent : StoreServes(r)) \/ UNCHANGED lease
      BY Zenon DEF Next, vars, storeVars, Starting, Outcome, Confirm, Renewal, Shutdown, Start,
             AcquireRead, AcquirePut, AcquireRefused, StartFails, OpApplied, RenewConflict,
             RenewFails, OpIndeterminate, ConfirmRead, ConfirmOk, ConfirmRetry, ConfirmFails,
             BeginRenewal, RenewPut, LeaseLapsed, RuntimeFence, BeginShutdown, FinishDrain,
             RenewalStop, ReleaseNode, Crash, Tick
    <3> QED
      BY <3>1, <3>2, <3>3, Zenon
  <2>2. Written(l)'
    BY <2>1, WrittenKept, Zenon
  <2> QED
    BY <2>1, <2>2, Zenon DEF Written
<1>4. \A q \in sent' : RequestInv(q)'
  BY RequestStep, Zenon
<1>5. \A t \in Sessions : OperationInv(t)' /\ AuthorityInv(t)' /\ ReadInv(t)' /\ ShutdownInv(t)'
  BY OperationStep, AuthorityStep, ReadStep, ShutdownStep, Zenon
<1> QED
  BY <1>1, <1>2, <1>3, <1>4, <1>5, Zenon DEF LeaseInv

-----------------------------------------------------------------------------
(* The theorems.                                                           *)

\* The variables keep their types: pcs, statuses, bounded read-backs of
\* confirm_node_lease (cluster/authority.rs:410-430).
THEOREM TypeCorrect == Spec => []TypeOK
<1>1. Init => TypeOK
  BY InitLeaseInv, Zenon DEF LeaseInv
<1> QED
  BY <1>1, TypeStep, PTL DEF Spec

\* The inductive invariant holds throughout: whoever counts on a lease has it
\* in the store (put_node, acquire_node, renew_node, release_node).
THEOREM LeaseInvariance == Spec => []LeaseInv
  BY InitLeaseInv, LeaseInvStep, PTL DEF Spec

\* A session with authority has its live lease in the store.
LEMMA ServingHasLease ==
  ASSUME LeaseInv, NEW s \in Sessions, ServingSafely(s)
  PROVE  lease.session = s /\ ~Expired(lease)
<1>1. /\ wall \in Nat /\ now \in Nat /\ wall <= now /\ deadline[s] \in Nat
      /\ lease.expires \in Nat /\ revision[s].expires \in Nat
      /\ TicksPerMs \in Nat \ {0}
  BY NoLeaseFacts, ConstantsAssumption, Zenon DEF LeaseInv, TypeOK, ClockInv
<1>2. deadline[s] <= revision[s].expires + (TicksPerMs - 1) /\ Holds(s, revision[s].expires)
  BY Zenon DEF LeaseInv, AuthorityInv, ServingSafely, Serving
<1>3. now + (TicksPerMs - 1) < deadline[s]
  BY Zenon DEF ServingSafely
<1> QED
  BY <1>1, <1>2, <1>3 DEF Holds, Expired

\* Whoever finds the lease of a Node Session absent, replaced or expired may
\* take its Actors over: for every number of processes, every TTL and every
\* clock resolution, that session has no authority left.
THEOREM StaleLeaseSafe == Spec => []StaleLeaseMeansFenced
<1>1. LeaseInv => StaleLeaseMeansFenced
  BY ServingHasLease, Zenon DEF StaleLeaseMeansFenced
<1> QED
  BY <1>1, LeaseInvariance, PTL

\* Two processes under one Node ID never both serve (CONTEXT.md:103-104), up
\* to the millisecond that wall_time_millis rounds away.
THEOREM MutualExclusion == Spec => []AtMostOneServing
<1>1. LeaseInv => AtMostOneServing
  BY ServingHasLease, Zenon DEF AtMostOneServing
<1> QED
  BY <1>1, LeaseInvariance, PTL

\* A live lease object is replaced only by its own session, and deleted only
\* after the runtime of that session has stopped (release_node).
THEOREM LiveLeaseSafe == Spec => LiveLeaseIsKept
<1> DEFINE Kept == lease # NoLease /\ ~Expired(lease) /\ lease' # lease =>
                     \/ lease'.session = lease.session
                     \/ lease' = NoLease /\ status[lease.session] \in {"STOPPED", "FENCED"}
<1>1. LeaseInv /\ [Next]_vars => [Kept]_vars
  <2> SUFFICES ASSUME LeaseInv, Next PROVE Kept
    OBVIOUS
  <2>1. ASSUME NEW r \in sent, StoreServes(r) PROVE Kept
    <3>1. RequestInv(r) /\ r \in Requests
      BY Zenon DEF LeaseInv, TypeOK
    <3> QED
      BY <2>1, <3>1, Zenon DEF StoreServes, RequestInv, Expired
  <2>2. CASE UNCHANGED lease
    BY <2>2, Zenon
  <2>3. (\E r \in sent : StoreServes(r)) \/ UNCHANGED lease
    BY ZenonT(40) DEF Next, storeVars, Starting, Outcome, Confirm, Renewal, Shutdown, Start,
           AcquireRead, AcquirePut, AcquireRefused, StartFails, OpApplied, RenewConflict,
           RenewFails, OpIndeterminate, ConfirmRead, ConfirmOk, ConfirmRetry, ConfirmFails,
           BeginRenewal, RenewPut, LeaseLapsed, RuntimeFence, BeginShutdown, FinishDrain,
           RenewalStop, ReleaseNode, Crash, Tick
  <2> QED
    BY <2>1, <2>2, <2>3, Zenon
<1> QED
  BY <1>1, LeaseInvariance, PTL DEF Spec, LiveLeaseIsKept

\* The lease that a directory reader sees changes only from or to "none", and
\* only in steps of the store and of the clock.
LEMMA HolderStep ==
  ASSUME LeaseInv, [Next]_vars
  PROVE  \/ UNCHANGED <<lease, wall>>
         \/ \E r \in sent : StoreServes(r)
         \/ Tick
  BY ZenonT(40) DEF Next, vars, storeVars, clockVars, Starting, Outcome, Confirm, Renewal, Shutdown, Start,
         AcquireRead, AcquirePut, AcquireRefused, StartFails, OpApplied, RenewConflict,
         RenewFails, OpIndeterminate, ConfirmRead, ConfirmOk, ConfirmRetry, ConfirmFails,
         BeginRenewal, RenewPut, LeaseLapsed, RuntimeFence, BeginShutdown, FinishDrain,
         RenewalStop, ReleaseNode, Crash

\* NodeLease implements NodeAuthority: a directory reader never sees a Node ID
\* pass from one session to another without a gap, and no session acts on its
\* authority in that gap or before its lease is there (put_node, is_valid).
THEOREM ImplementsAuthority == Spec => AuthorityIsHandedOver
<1> DEFINE h == IF Expired(lease) THEN NoSession ELSE lease.session
           H == {s \in Sessions : ServingSafely(s)}
<1>1. Init => Authority!Init
  BY NoLeaseFacts, ConstantsAssumption
    , Zenon DEF Init, Authority!Init, Expired, ServingSafely, Serving, Established
<1>2. LeaseInv => \A s \in H : h = s
  BY ServingHasLease, Zenon
<1>3. ASSUME LeaseInv, LeaseInv', [Next]_vars
      PROVE  [Authority!Next]_(Authority!authorityVars)
  <2>1. \A s \in H : h = s
    BY <1>2, <1>3, Zenon
  <2>2. \A s \in H' : h' = s
    <3>1. (LeaseInv => \A s \in H : h = s)'
      BY <1>2, PTL
    <3> QED
      BY <1>3, <3>1, Zenon
  <2>3. NoSession \notin Sessions /\ H \subseteq Sessions /\ H' \subseteq Sessions
    BY ConstantsAssumption, Zenon
  <2>4. h \in Sessions \cup {NoSession} /\ h' \in Sessions \cup {NoSession}
    BY <1>3, NoLeaseFacts, Zenon DEF LeaseInv, TypeOK
  <2> HIDE DEF h, H
  <2>5. CASE h' = h
    <3>1. CASE H' = H
      BY <2>5, <3>1, Zenon DEF Authority!authorityVars, h, H
    <3>2. CASE H = {} /\ H' # {}
      <4>1. H' = {h} /\ h \in Sessions
        BY <2>2, <2>3, <2>5, <3>2, Zenon
      <4> QED
        BY <2>5, <3>2, <4>1, Zenon DEF Authority!Next, Authority!Gain, h, H
    <3>3. CASE H # {} /\ H' = {}
      <4>1. H = {h} /\ h \in Sessions
        BY <2>1, <2>3, <3>3, Zenon
      <4> QED
        BY <2>5, <3>3, <4>1, Zenon DEF Authority!Next, Authority!Lose, h, H
    <3>4. H # {} /\ H' # {} => H' = H
      BY <2>1, <2>2, <2>5
    <3> QED
      BY <3>1, <3>2, <3>3, <3>4, Zenon
  <2>6. CASE h' = NoSession /\ h # NoSession
    <3>1. H' = {}
      BY <2>2, <2>3, <2>6, Zenon
    <3>2. H' = H \ {h}
      BY <2>1, <3>1, Zenon
    <3> QED
      BY <2>6, <3>2, Zenon DEF Authority!Next, Authority!Vacate, h, H
  <2>7. CASE h' # h /\ h' # NoSession
    <3>1. PICK r \in sent : StoreServes(r)
      <4>1. CASE UNCHANGED <<lease, wall>>
        BY <2>7, <4>1, Zenon DEF h, Expired
      <4>2. CASE Tick
        <5>1. lease' = lease /\ wall \in Nat /\ wall' \in Nat /\ wall' >= wall /\ lease.expires \in Nat
          BY <1>3, <4>2, NoLeaseFacts DEF Tick, storeVars, LeaseInv, TypeOK, ClockInv
        <5> QED
          BY <2>7, <5>1 DEF h, Expired
      <4> QED
        BY <1>3, <4>1, <4>2, HolderStep, Zenon
    <3>2. h = NoSession
      <4>1. RequestInv(r) /\ r \in Requests
        BY <1>3, Zenon DEF LeaseInv, TypeOK
      <4>2. lease = r.match /\ lease' = r.new /\ wall' = wall
        BY <2>7, <3>1, Zenon DEF StoreServes, clockVars, h, Expired
      <4> QED
        BY <2>7, <4>1, <4>2, NoLeaseFacts, Zenon DEF h, RequestInv, Expired
    <3>3. H' = H
      BY <3>1, Zenon DEF H, StoreServes, ServingSafely, Serving, Established, IsValid, clockVars,
                  authVars, hostVars
    <3> QED
      BY <2>4, <2>7, <3>2, <3>3, Zenon DEF Authority!Next, Authority!Acquire, h, H
  <2> QED
    BY <2>5, <2>6, <2>7, Zenon
<1> QED
  BY <1>1, <1>3, LeaseInvariance, PTL DEF Spec, AuthorityIsHandedOver, Authority!Spec
=============================================================================
