------------------------ MODULE ActorOwnershipProofs ------------------------
(***************************************************************************)
(* Proofs about ActorOwnership, for any number of nodes and processes:     *)
(* the epochs of the Actor Owner Record, in every environment; then who    *)
(* serves the Actor when the environment does none of the things that Env  *)
(* names.                                                                  *)
(***************************************************************************)
EXTENDS ActorOwnership, TLAPS

(* The epochs of the record.                                               *)

\* No object is a record without an owner.
LEMMA NoRecordFacts ==
  /\ NoRecord \in Records /\ NoRecord.owner = NoSession /\ NoRecord.epoch = 0
  /\ NoSession \notin Sessions
  BY OwnershipAssumption DEF NoRecord, Records

\* The type invariant, over every action.
LEMMA TypeStep == TypeOK /\ [Next]_vars => TypeOK'
<1> SUFFICES ASSUME TypeOK, [Next]_vars PROVE TypeOK'
  OBVIOUS
<1> USE OwnershipAssumption, NoRecordFacts
      DEF TypeOK, Goto, Ops, Stages, leaseVars, storeVars, opVars, hostVars
<1>1. ASSUME NEW s \in Sessions, Acquire(s) PROVE TypeOK'
  BY <1>1, Zenon DEF Acquire
<1>2. ASSUME NEW s \in Sessions, Gain(s) PROVE TypeOK'
  BY <1>2, Zenon DEF Gain
<1>3. ASSUME NEW s \in Sessions, Lose(s) PROVE TypeOK'
  BY <1>3, Zenon DEF Lose
<1>4. ASSUME NEW s \in Sessions, BeginShutdown(s) PROVE TypeOK'
  BY <1>4, Zenon DEF BeginShutdown
<1>5. ASSUME NEW s \in Sessions, Stop(s) PROVE TypeOK'
  BY <1>5, Zenon DEF Stop, Abort
<1>6. ASSUME NEW s \in Sessions, Exit(s) PROVE TypeOK'
  BY <1>6, Zenon DEF Exit, Abort
<1>7. ASSUME NEW s \in Sessions, ResolveRead(s) PROVE TypeOK'
  BY <1>7, Zenon DEF ResolveRead
<1>8. ASSUME NEW s \in Sessions, ResolveDirectory(s) PROVE TypeOK'
  BY <1>8, Zenon DEF ResolveDirectory
<1>9. ASSUME NEW s \in Sessions, ClaimPut(s) PROVE TypeOK'
  BY <1>9 DEF ClaimPut, Put, LocalClaim, Records, Requests
<1>10. ASSUME NEW s \in Sessions, ClaimApplied(s) PROVE TypeOK'
  BY <1>10, Zenon DEF ClaimApplied
<1>11. ASSUME NEW s \in Sessions, ClaimConflict(s) PROVE TypeOK'
  BY <1>11 DEF ClaimConflict, Again
<1>12. ASSUME NEW s \in Sessions, ResolveFails(s) PROVE TypeOK'
  BY <1>12, Zenon DEF ResolveFails
<1>13. ASSUME NEW s \in Sessions, ClaimIndeterminate(s) PROVE TypeOK'
  BY <1>13 DEF ClaimIndeterminate
<1>14. ASSUME NEW s \in Sessions, ConfirmOther(s) PROVE TypeOK'
  BY <1>14 DEF ConfirmOther, Limit
<1>15. ASSUME NEW s \in Sessions, ConfirmClaim(s) PROVE TypeOK'
  BY <1>15, Zenon DEF ConfirmClaim
<1>16. ASSUME NEW s \in Sessions, ConfirmTaken(s) PROVE TypeOK'
  BY <1>16 DEF ConfirmTaken, Again
<1>17. ASSUME NEW s \in Sessions, DispatchOpen(s) PROVE TypeOK'
  BY <1>17, Zenon DEF DispatchOpen
<1>18. ASSUME NEW s \in Sessions, BeginResolve(s) PROVE TypeOK'
  BY <1>18 DEF BeginResolve
<1>19. ASSUME NEW s \in Sessions, DispatchAction(s) PROVE TypeOK'
  BY <1>19, Zenon DEF DispatchAction
<1>20. ASSUME NEW s \in Sessions, SessionsEnd(s) PROVE TypeOK'
  BY <1>20, Zenon DEF SessionsEnd
<1>21. ASSUME NEW s \in Sessions, ActorEnds(s) PROVE TypeOK'
  BY <1>21, Zenon DEF ActorEnds
<1>22. ASSUME NEW s \in Sessions, BeginDeactivation(s) PROVE TypeOK'
  BY <1>22, Zenon DEF BeginDeactivation
<1>23. ASSUME NEW s \in Sessions, ReleaseRead(s) PROVE TypeOK'
  BY <1>23, Zenon DEF ReleaseRead
<1>24. ASSUME NEW s \in Sessions, ReleasePut(s) PROVE TypeOK'
  BY <1>24 DEF ReleasePut, Put, Records, Requests
<1>25. ASSUME NEW s \in Sessions, ReleaseEnds(s) PROVE TypeOK'
  BY <1>25, Zenon DEF ReleaseEnds
<1>26. ASSUME NEW s \in Sessions, BeginRelease(s) PROVE TypeOK'
  BY <1>26, Zenon DEF BeginRelease
<1>27. ASSUME NEW s \in Sessions, RemoveRoute(s) PROVE TypeOK'
  BY <1>27, Zenon DEF RemoveRoute
<1>28. ASSUME NEW n \in Nodes, Vacate(n) PROVE TypeOK'
  BY <1>28, Zenon DEF Vacate
<1>29. ASSUME NEW r \in sent, StoreServes(r) PROVE TypeOK'
  BY <1>29 DEF StoreServes, Requests
<1>30. CASE UNCHANGED vars
  BY <1>30, Zenon DEF vars
<1> QED
  BY <1>1, <1>2, <1>3, <1>4, <1>5, <1>6, <1>7, <1>8, <1>9, <1>10, <1>11, <1>12, <1>13, <1>14, <1>15,
     <1>16, <1>17, <1>18, <1>19, <1>20, <1>21, <1>22, <1>23, <1>24, <1>25, <1>26, <1>27, <1>28, <1>29, <1>30, Zenon
     DEF Next, Process, Resolve, Activity, Release

\* Every request grants the next epoch or releases its sender's own.
LEMMA GrantStep ==
  ASSUME EpochInv, [Next]_vars
  PROVE  /\ \A r \in sent' : GrantInv(r)
         /\ \A s \in Sessions : (op[s] = "rel_put" => seen[s].owner = s)'
<1> USE OwnershipAssumption, NoRecordFacts
      DEF TypeOK, EpochInv, GrantInv, Goto, leaseVars, storeVars, opVars, hostVars
<1> DEFINE Good == /\ \A r \in sent' : GrantInv(r)
                   /\ \A s \in Sessions : (op[s] = "rel_put" => seen[s].owner = s)'
<1>1. ASSUME NEW s \in Sessions, Acquire(s) PROVE Good
  BY <1>1, Zenon DEF Acquire
<1>2. ASSUME NEW s \in Sessions, Gain(s) PROVE Good
  BY <1>2, Zenon DEF Gain
<1>3. ASSUME NEW s \in Sessions, Lose(s) PROVE Good
  BY <1>3, Zenon DEF Lose
<1>4. ASSUME NEW s \in Sessions, BeginShutdown(s) PROVE Good
  BY <1>4, Zenon DEF BeginShutdown
<1>5. ASSUME NEW s \in Sessions, Stop(s) PROVE Good
  BY <1>5, Zenon DEF Stop, Abort
<1>6. ASSUME NEW s \in Sessions, Exit(s) PROVE Good
  BY <1>6, Zenon DEF Exit, Abort
<1>7. ASSUME NEW s \in Sessions, ResolveRead(s) PROVE Good
  BY <1>7, Zenon DEF ResolveRead, IsLocalOwner
<1>8. ASSUME NEW s \in Sessions, ResolveDirectory(s) PROVE Good
  BY <1>8, Zenon DEF ResolveDirectory
<1>9. ASSUME NEW s \in Sessions, ClaimPut(s) PROVE Good
  <2>1. sent' = sent \cup 
                       {[by |-> s, match |-> seen[s], new |-> [owner |-> s, epoch |-> seen[s].epoch + 1]]}
    BY <1>9, Zenon DEF ClaimPut, Put, LocalClaim
  <2>2. ASSUME NEW r \in sent' PROVE GrantInv(r)
    <3>1. CASE r \in sent
      BY <3>1, Zenon
    <3>2. CASE r \notin sent
      <4>1. r.by = s /\ r.match = seen[s] /\ r.new = [owner |-> s, epoch |-> seen[s].epoch + 1]
        BY <2>1, <3>2
      <4> QED
        BY <4>1, Zenon
    <3> QED
      BY <3>1, <3>2, Zenon
  <2>3. op'[s] # "rel_put" /\ seen' = seen /\ \A t \in Sessions : t # s => op'[t] = op[t]
    BY <1>9, Zenon DEF ClaimPut, Put, LocalClaim
  <2> QED
    BY <2>2, <2>3, Zenon
<1>10. ASSUME NEW s \in Sessions, ClaimApplied(s) PROVE Good
  BY <1>10, Zenon DEF ClaimApplied
<1>11. ASSUME NEW s \in Sessions, ClaimConflict(s) PROVE Good
  BY <1>11 DEF ClaimConflict, Again
<1>12. ASSUME NEW s \in Sessions, ResolveFails(s) PROVE Good
  BY <1>12, Zenon DEF ResolveFails
<1>13. ASSUME NEW s \in Sessions, ClaimIndeterminate(s) PROVE Good
  BY <1>13, Zenon DEF ClaimIndeterminate
<1>14. ASSUME NEW s \in Sessions, ConfirmOther(s) PROVE Good
  BY <1>14, Zenon DEF ConfirmOther, Limit
<1>15. ASSUME NEW s \in Sessions, ConfirmClaim(s) PROVE Good
  BY <1>15, Zenon DEF ConfirmClaim
<1>16. ASSUME NEW s \in Sessions, ConfirmTaken(s) PROVE Good
  BY <1>16 DEF ConfirmTaken, Again
<1>17. ASSUME NEW s \in Sessions, DispatchOpen(s) PROVE Good
  BY <1>17, Zenon DEF DispatchOpen
<1>18. ASSUME NEW s \in Sessions, BeginResolve(s) PROVE Good
  BY <1>18, Zenon DEF BeginResolve
<1>19. ASSUME NEW s \in Sessions, DispatchAction(s) PROVE Good
  BY <1>19, Zenon DEF DispatchAction
<1>20. ASSUME NEW s \in Sessions, SessionsEnd(s) PROVE Good
  BY <1>20, Zenon DEF SessionsEnd
<1>21. ASSUME NEW s \in Sessions, ActorEnds(s) PROVE Good
  BY <1>21, Zenon DEF ActorEnds
<1>22. ASSUME NEW s \in Sessions, BeginDeactivation(s) PROVE Good
  BY <1>22, Zenon DEF BeginDeactivation
<1>23. ASSUME NEW s \in Sessions, ReleaseRead(s) PROVE Good
  BY <1>23, Zenon DEF ReleaseRead, IsLocalOwner
<1>24. ASSUME NEW s \in Sessions, ReleasePut(s) PROVE Good
  BY <1>24 DEF ReleasePut, Put
<1>25. ASSUME NEW s \in Sessions, ReleaseEnds(s) PROVE Good
  BY <1>25, Zenon DEF ReleaseEnds
<1>26. ASSUME NEW s \in Sessions, BeginRelease(s) PROVE Good
  BY <1>26, Zenon DEF BeginRelease
<1>27. ASSUME NEW s \in Sessions, RemoveRoute(s) PROVE Good
  BY <1>27, Zenon DEF RemoveRoute
<1>28. ASSUME NEW n \in Nodes, Vacate(n) PROVE Good
  BY <1>28, Zenon DEF Vacate
<1>29. ASSUME NEW r \in sent, StoreServes(r) PROVE Good
  BY <1>29, Zenon DEF StoreServes
<1>30. CASE UNCHANGED vars
  BY <1>30, Zenon DEF vars
<1> QED
  BY <1>1, <1>2, <1>3, <1>4, <1>5, <1>6, <1>7, <1>8, <1>9, <1>10, <1>11, <1>12, <1>13, <1>14, <1>15,
     <1>16, <1>17, <1>18, <1>19, <1>20, <1>21, <1>22, <1>23, <1>24, <1>25, <1>26, <1>27, <1>28, <1>29, <1>30, Zenon
     DEF Next, Process, Resolve, Activity, Release

\* The record is claimed for the next epoch, released, or left alone.
LEMMA RecordStep ==
  ASSUME EpochInv, [Next]_vars, record' # record
  PROVE  \/ record'.epoch = record.epoch + 1 /\ record'.owner # NoSession
         \/ /\ record'.epoch = record.epoch
            /\ record.owner # NoSession /\ record'.owner = NoSession
<1> USE OwnershipAssumption, NoRecordFacts
      DEF TypeOK, EpochInv, GrantInv, Records, Requests, leaseVars, storeVars, opVars, hostVars
<1> DEFINE Good == \/ record'.epoch = record.epoch + 1 /\ record'.owner # NoSession
                   \/ /\ record'.epoch = record.epoch
                      /\ record.owner # NoSession /\ record'.owner = NoSession
<1>1. ASSUME NEW s \in Sessions, Acquire(s) PROVE Good
  BY <1>1, Zenon DEF Acquire
<1>2. ASSUME NEW s \in Sessions, Gain(s) PROVE Good
  BY <1>2, Zenon DEF Gain
<1>3. ASSUME NEW s \in Sessions, Lose(s) PROVE Good
  BY <1>3, Zenon DEF Lose
<1>4. ASSUME NEW s \in Sessions, BeginShutdown(s) PROVE Good
  BY <1>4, Zenon DEF BeginShutdown
<1>5. ASSUME NEW s \in Sessions, Stop(s) PROVE Good
  BY <1>5, Zenon DEF Stop, Abort
<1>6. ASSUME NEW s \in Sessions, Exit(s) PROVE Good
  BY <1>6, Zenon DEF Exit, Abort
<1>7. ASSUME NEW s \in Sessions, ResolveRead(s) PROVE Good
  BY <1>7, Zenon DEF ResolveRead
<1>8. ASSUME NEW s \in Sessions, ResolveDirectory(s) PROVE Good
  BY <1>8, Zenon DEF ResolveDirectory
<1>9. ASSUME NEW s \in Sessions, ClaimPut(s) PROVE Good
  BY <1>9, Zenon DEF ClaimPut, Put, LocalClaim
<1>10. ASSUME NEW s \in Sessions, ClaimApplied(s) PROVE Good
  BY <1>10, Zenon DEF ClaimApplied
<1>11. ASSUME NEW s \in Sessions, ClaimConflict(s) PROVE Good
  BY <1>11, Zenon DEF ClaimConflict, Again
<1>12. ASSUME NEW s \in Sessions, ResolveFails(s) PROVE Good
  BY <1>12, Zenon DEF ResolveFails
<1>13. ASSUME NEW s \in Sessions, ClaimIndeterminate(s) PROVE Good
  BY <1>13, Zenon DEF ClaimIndeterminate
<1>14. ASSUME NEW s \in Sessions, ConfirmOther(s) PROVE Good
  BY <1>14, Zenon DEF ConfirmOther, Limit
<1>15. ASSUME NEW s \in Sessions, ConfirmClaim(s) PROVE Good
  BY <1>15, Zenon DEF ConfirmClaim
<1>16. ASSUME NEW s \in Sessions, ConfirmTaken(s) PROVE Good
  BY <1>16, Zenon DEF ConfirmTaken, Again
<1>17. ASSUME NEW s \in Sessions, DispatchOpen(s) PROVE Good
  BY <1>17, Zenon DEF DispatchOpen
<1>18. ASSUME NEW s \in Sessions, BeginResolve(s) PROVE Good
  BY <1>18, Zenon DEF BeginResolve
<1>19. ASSUME NEW s \in Sessions, DispatchAction(s) PROVE Good
  BY <1>19, Zenon DEF DispatchAction
<1>20. ASSUME NEW s \in Sessions, SessionsEnd(s) PROVE Good
  BY <1>20, Zenon DEF SessionsEnd
<1>21. ASSUME NEW s \in Sessions, ActorEnds(s) PROVE Good
  BY <1>21, Zenon DEF ActorEnds
<1>22. ASSUME NEW s \in Sessions, BeginDeactivation(s) PROVE Good
  BY <1>22, Zenon DEF BeginDeactivation
<1>23. ASSUME NEW s \in Sessions, ReleaseRead(s) PROVE Good
  BY <1>23, Zenon DEF ReleaseRead
<1>24. ASSUME NEW s \in Sessions, ReleasePut(s) PROVE Good
  BY <1>24, Zenon DEF ReleasePut, Put
<1>25. ASSUME NEW s \in Sessions, ReleaseEnds(s) PROVE Good
  BY <1>25, Zenon DEF ReleaseEnds
<1>26. ASSUME NEW s \in Sessions, BeginRelease(s) PROVE Good
  BY <1>26, Zenon DEF BeginRelease
<1>27. ASSUME NEW s \in Sessions, RemoveRoute(s) PROVE Good
  BY <1>27, Zenon DEF RemoveRoute
<1>28. ASSUME NEW n \in Nodes, Vacate(n) PROVE Good
  BY <1>28, Zenon DEF Vacate
<1>29. ASSUME NEW r \in sent, StoreServes(r) PROVE Good
  <2>1. record = r.match /\ record' = r.new
    BY <1>29, Zenon DEF StoreServes
  <2>2. r.by \in Sessions /\ r.match.epoch \in Nat /\ GrantInv(r)
    BY Zenon DEF GrantInv
  <2> HIDE DEF EpochInv, TypeOK
  <2>3. CASE r.new = [owner |-> r.by, epoch |-> r.match.epoch + 1]
    BY <2>1, <2>2, <2>3
  <2>4. CASE r.new = [owner |-> NoSession, epoch |-> r.match.epoch] /\ r.match.owner = r.by
    BY <2>1, <2>2, <2>4
  <2> QED
    BY <2>2, <2>3, <2>4, Zenon
<1>30. CASE UNCHANGED vars
  BY <1>30, Zenon DEF vars
<1> QED
  BY <1>1, <1>2, <1>3, <1>4, <1>5, <1>6, <1>7, <1>8, <1>9, <1>10, <1>11, <1>12, <1>13, <1>14, <1>15,
     <1>16, <1>17, <1>18, <1>19, <1>20, <1>21, <1>22, <1>23, <1>24, <1>25, <1>26, <1>27, <1>28, <1>29, <1>30, Zenon
     DEF Next, Process, Resolve, Activity, Release

\* The record stays at the top of its history.
LEMMA HistoryStep ==
  ASSUME EpochInv, [Next]_vars
  PROVE  /\ history \subseteq history' /\ record' \in history'
         /\ \A h \in history' : h.epoch <= record'.epoch
         /\ EpochNamesOneOwner'
<1>1. CASE record' = record /\ history' = history
  BY <1>1, Zenon DEF EpochInv, EpochNamesOneOwner
<1>2. CASE ~(record' = record /\ history' = history)
  <2>1. history' = history \cup {record'}
    BY <1>2, ZenonT(40)
       DEF Next, Process, Resolve, Activity, Release, vars, Acquire, Gain, Lose, BeginShutdown, Stop,
           Exit, ResolveRead, ResolveDirectory, ClaimPut, ClaimApplied, ClaimConflict, ResolveFails, ClaimIndeterminate,
           ConfirmOther, ConfirmClaim, ConfirmTaken, DispatchOpen, BeginResolve,
           DispatchAction, SessionsEnd, ActorEnds, BeginDeactivation, ReleaseRead,
           ReleasePut, ReleaseEnds, BeginRelease, RemoveRoute, Vacate, StoreServes,
           Abort, Put, leaseVars, storeVars, opVars, hostVars
  <2>2. record' # record
    BY <1>2, <2>1, Zenon DEF EpochInv
  <2>3. record.epoch \in Nat /\ record'.epoch \in Nat /\ \A h \in history : h.epoch \in Nat
    BY TypeStep, Zenon DEF EpochInv, TypeOK, Records
  <2> QED
    BY <2>1, <2>2, <2>3, RecordStep DEF EpochInv, EpochNamesOneOwner
<1> QED
  BY <1>1, <1>2, Zenon

\* A local resolution rests on a grant in the history.
LEMMA GrantedStep ==
  ASSUME EpochInv, [Next]_vars
  PROVE  /\ \A t \in Sessions :
              (op[t] = "wait" /\ answer[t] = "applied" => LocalClaim(t) \in history)'
         /\ LocalWasGranted'
<1> USE OwnershipAssumption, NoRecordFacts, HistoryStep
      DEF TypeOK, EpochInv, LocalWasGranted, LocalClaim, Goto, leaseVars, storeVars, opVars, hostVars
<1> DEFINE Good == /\ \A t \in Sessions :
                        (op[t] = "wait" /\ answer[t] = "applied" => LocalClaim(t) \in history)'
                   /\ LocalWasGranted'
<1>1. ASSUME NEW s \in Sessions, Acquire(s) PROVE Good
  BY <1>1, Zenon DEF Acquire
<1>2. ASSUME NEW s \in Sessions, Gain(s) PROVE Good
  BY <1>2, Zenon DEF Gain
<1>3. ASSUME NEW s \in Sessions, Lose(s) PROVE Good
  BY <1>3, Zenon DEF Lose
<1>4. ASSUME NEW s \in Sessions, BeginShutdown(s) PROVE Good
  BY <1>4, Zenon DEF BeginShutdown
<1>5. ASSUME NEW s \in Sessions, Stop(s) PROVE Good
  BY <1>5, Zenon DEF Stop, Abort
<1>6. ASSUME NEW s \in Sessions, Exit(s) PROVE Good
  BY <1>6, Zenon DEF Exit, Abort
<1>7. ASSUME NEW s \in Sessions, ResolveRead(s) PROVE Good
  BY <1>7, Zenon DEF ResolveRead, IsLocalOwner
<1>8. ASSUME NEW s \in Sessions, ResolveDirectory(s) PROVE Good
  BY <1>8, Zenon DEF ResolveDirectory
<1>9. ASSUME NEW s \in Sessions, ClaimPut(s) PROVE Good
  BY <1>9, Zenon DEF ClaimPut, Put, LocalClaim
<1>10. ASSUME NEW s \in Sessions, ClaimApplied(s) PROVE Good
  BY <1>10, Zenon DEF ClaimApplied
<1>11. ASSUME NEW s \in Sessions, ClaimConflict(s) PROVE Good
  BY <1>11 DEF ClaimConflict, Again
<1>12. ASSUME NEW s \in Sessions, ResolveFails(s) PROVE Good
  BY <1>12 DEF ResolveFails
<1>13. ASSUME NEW s \in Sessions, ClaimIndeterminate(s) PROVE Good
  BY <1>13, Zenon DEF ClaimIndeterminate
<1>14. ASSUME NEW s \in Sessions, ConfirmOther(s) PROVE Good
  BY <1>14, Zenon DEF ConfirmOther, Limit
<1>15. ASSUME NEW s \in Sessions, ConfirmClaim(s) PROVE Good
  BY <1>15, Zenon DEF ConfirmClaim
<1>16. ASSUME NEW s \in Sessions, ConfirmTaken(s) PROVE Good
  BY <1>16 DEF ConfirmTaken, Again
<1>17. ASSUME NEW s \in Sessions, DispatchOpen(s) PROVE Good
  BY <1>17, Zenon DEF DispatchOpen
<1>18. ASSUME NEW s \in Sessions, BeginResolve(s) PROVE Good
  BY <1>18, Zenon DEF BeginResolve
<1>19. ASSUME NEW s \in Sessions, DispatchAction(s) PROVE Good
  BY <1>19, Zenon DEF DispatchAction
<1>20. ASSUME NEW s \in Sessions, SessionsEnd(s) PROVE Good
  BY <1>20, Zenon DEF SessionsEnd
<1>21. ASSUME NEW s \in Sessions, ActorEnds(s) PROVE Good
  BY <1>21, Zenon DEF ActorEnds
<1>22. ASSUME NEW s \in Sessions, BeginDeactivation(s) PROVE Good
  BY <1>22, Zenon DEF BeginDeactivation
<1>23. ASSUME NEW s \in Sessions, ReleaseRead(s) PROVE Good
  BY <1>23, Zenon DEF ReleaseRead
<1>24. ASSUME NEW s \in Sessions, ReleasePut(s) PROVE Good
  BY <1>24, Zenon DEF ReleasePut, Put
<1>25. ASSUME NEW s \in Sessions, ReleaseEnds(s) PROVE Good
  BY <1>25, Zenon DEF ReleaseEnds
<1>26. ASSUME NEW s \in Sessions, BeginRelease(s) PROVE Good
  BY <1>26, Zenon DEF BeginRelease
<1>27. ASSUME NEW s \in Sessions, RemoveRoute(s) PROVE Good
  BY <1>27, Zenon DEF RemoveRoute
<1>28. ASSUME NEW n \in Nodes, Vacate(n) PROVE Good
  BY <1>28, Zenon DEF Vacate
<1>29. ASSUME NEW r \in sent, StoreServes(r) PROVE Good
  <2>1. op' = op /\ seen' = seen
    BY <1>29, Zenon DEF StoreServes
  <2>2. ASSUME NEW t \in Sessions, op[t] = "wait", answer'[t] = "applied"
        PROVE  LocalClaim(t)' \in history'
    <3>1. CASE answer'[t] = answer[t]
      BY <2>1, <2>2, <3>1, Zenon
    <3>2. CASE answer'[t] # answer[t]
      <4>1. r.by = t /\ ~IsRelease(r) /\ r.match = seen[t] /\ record' = r.new
        BY <1>29, <2>2, <3>2 DEF StoreServes, Requests
      <4>2. r.new = [owner |-> t, epoch |-> seen[t].epoch + 1]
        <5>1. GrantInv(r)
          OBVIOUS
        <5> HIDE DEF EpochInv, TypeOK
        <5> QED
          BY <4>1, <5>1 DEF GrantInv, IsRelease
      <4> QED
        BY <2>1, <4>1, <4>2, Zenon
    <3> QED
      BY <3>1, <3>2, Zenon
  <2> QED
    BY <2>1, <2>2, Zenon
<1>30. CASE UNCHANGED vars
  BY <1>30, Zenon DEF vars
<1> QED
  BY <1>1, <1>2, <1>3, <1>4, <1>5, <1>6, <1>7, <1>8, <1>9, <1>10, <1>11, <1>12, <1>13, <1>14, <1>15,
     <1>16, <1>17, <1>18, <1>19, <1>20, <1>21, <1>22, <1>23, <1>24, <1>25, <1>26, <1>27, <1>28, <1>29, <1>30, Zenon
     DEF Next, Process, Resolve, Activity, Release

\* The inductive invariant that holds whatever the environment does.
LEMMA EpochInvStep == EpochInv /\ [Next]_vars => EpochInv'
<1> SUFFICES ASSUME EpochInv, [Next]_vars PROVE EpochInv'
  OBVIOUS
<1>1. TypeOK'
  BY TypeStep, Zenon DEF EpochInv
<1>2. \A r \in sent' : GrantInv(r)'
  BY GrantStep, Zenon DEF GrantInv
<1> QED
  BY <1>1, <1>2, GrantStep, HistoryStep, GrantedStep, Zenon DEF EpochInv

\* The inductive invariant holds when nothing has been written.
LEMMA InitEpochInv == Init => EpochInv
  BY OwnershipAssumption, NoRecordFacts
     DEF Init, EpochInv, TypeOK, EpochNamesOneOwner, LocalWasGranted, Ops, Stages

\* The inductive invariant of the epochs is an invariant (routing.rs: resolve,
\* claim and release_local_owner), in every environment.
THEOREM EpochInvariance == Spec => []EpochInv
<1>1. Init => EpochInv
  BY InitEpochInv, Zenon
<1>2. EpochInv /\ [Next]_vars => EpochInv'
  BY EpochInvStep, Zenon
<1> QED
  BY <1>1, <1>2, PTL DEF Spec

\* Over the whole history of the record an epoch names one owner, whatever
\* late or repeated claims and releases do (compare_exchange_actor_owner).
THEOREM EpochsAreUnique == Spec => []EpochNamesOneOwner
<1>1. EpochInv => EpochNamesOneOwner
  BY Zenon DEF EpochInv
<1> QED
  BY <1>1, EpochInvariance, PTL

\* A resolve that returns Local rests on a grant (resolve, claim).
THEOREM LocalIsGranted == Spec => []LocalWasGranted
<1>1. EpochInv => LocalWasGranted
  BY Zenon DEF EpochInv
<1> QED
  BY <1>1, EpochInvariance, PTL

\* The record is claimed with the next epoch or released with the same one.
THEOREM EpochsAdvance == Spec => EpochNeverFalls
<1> DEFINE Step == record' # record =>
                     \/ record'.epoch = record.epoch + 1 /\ record'.owner # NoSession
                     \/ /\ record'.epoch = record.epoch
                        /\ record.owner # NoSession /\ record'.owner = NoSession
<1>1. EpochInv /\ [Next]_vars => [Step]_vars
  BY RecordStep, Zenon
<1> HIDE DEF Step
<1>2. Spec => [][Step]_vars
  BY <1>1, EpochInvariance, PTL DEF Spec
<1> QED
  BY <1>2, Zenon DEF EpochNeverFalls, Step

\* Every variable keeps its type; resolve's rounds and read-backs are bounded.
THEOREM TypeCorrect == Spec => []TypeOK
<1>1. EpochInv => TypeOK
  BY Zenon DEF EpochInv
<1> QED
  BY <1>1, EpochInvariance, PTL

-----------------------------------------------------------------------------
(* The owner, without the disturbances of Env.                             *)

\* The dead stay dead: no lease comes back and no process starts twice.
LEMMA DeadStays ==
  ASSUME OwnerInv, Env = {}, [Next]_vars, NEW t \in Sessions
  PROVE  /\ stage[t] # "new" => stage'[t] # "new"
         /\ Dead(t) => Dead(t)'
<1> USE OwnershipAssumption, NoRecordFacts
      DEF TypeOK, EpochInv, OwnerInv, Goto, leaseVars, storeVars, opVars, 
          hostVars, Dead
<1> DEFINE Good == /\ stage[t] # "new" => stage'[t] # "new"
                   /\ Dead(t) => Dead(t)'
<1>1. ASSUME NEW s \in Sessions, Acquire(s) PROVE Good
  BY <1>1 DEF Acquire
<1>2. ASSUME NEW s \in Sessions, Gain(s) PROVE Good
  BY <1>2, Zenon DEF Gain
<1>3. ASSUME NEW s \in Sessions, Lose(s) PROVE Good
  BY <1>3, Zenon DEF Lose
<1>4. ASSUME NEW s \in Sessions, BeginShutdown(s) PROVE Good
  BY <1>4, Zenon DEF BeginShutdown
<1>5. ASSUME NEW s \in Sessions, Stop(s) PROVE Good
  BY <1>5, Zenon DEF Stop, Abort
<1>6. ASSUME NEW s \in Sessions, Exit(s) PROVE Good
  BY <1>6, Zenon DEF Exit, Abort
<1>7. ASSUME NEW s \in Sessions, ResolveRead(s) PROVE Good
  BY <1>7, Zenon DEF ResolveRead
<1>8. ASSUME NEW s \in Sessions, ResolveDirectory(s) PROVE Good
  BY <1>8, Zenon DEF ResolveDirectory
<1>9. ASSUME NEW s \in Sessions, ClaimPut(s) PROVE Good
  BY <1>9, Zenon DEF ClaimPut, Put, LocalClaim
<1>10. ASSUME NEW s \in Sessions, ClaimApplied(s) PROVE Good
  BY <1>10, Zenon DEF ClaimApplied
<1>11. ASSUME NEW s \in Sessions, ClaimConflict(s) PROVE Good
  BY <1>11, Zenon DEF ClaimConflict, Again
<1>12. ASSUME NEW s \in Sessions, ResolveFails(s) PROVE Good
  BY <1>12, Zenon DEF ResolveFails
<1>13. ASSUME NEW s \in Sessions, ClaimIndeterminate(s) PROVE Good
  BY <1>13, Zenon DEF ClaimIndeterminate
<1>14. ASSUME NEW s \in Sessions, ConfirmOther(s) PROVE Good
  BY <1>14, Zenon DEF ConfirmOther, Limit
<1>15. ASSUME NEW s \in Sessions, ConfirmClaim(s) PROVE Good
  BY <1>15, Zenon DEF ConfirmClaim
<1>16. ASSUME NEW s \in Sessions, ConfirmTaken(s) PROVE Good
  BY <1>16, Zenon DEF ConfirmTaken, Again
<1>17. ASSUME NEW s \in Sessions, DispatchOpen(s) PROVE Good
  BY <1>17, Zenon DEF DispatchOpen
<1>18. ASSUME NEW s \in Sessions, BeginResolve(s) PROVE Good
  BY <1>18, Zenon DEF BeginResolve
<1>19. ASSUME NEW s \in Sessions, DispatchAction(s) PROVE Good
  BY <1>19, Zenon DEF DispatchAction
<1>20. ASSUME NEW s \in Sessions, SessionsEnd(s) PROVE Good
  BY <1>20, Zenon DEF SessionsEnd
<1>21. ASSUME NEW s \in Sessions, ActorEnds(s) PROVE Good
  BY <1>21, Zenon DEF ActorEnds
<1>22. ASSUME NEW s \in Sessions, BeginDeactivation(s) PROVE Good
  BY <1>22, Zenon DEF BeginDeactivation
<1>23. ASSUME NEW s \in Sessions, ReleaseRead(s) PROVE Good
  BY <1>23, Zenon DEF ReleaseRead
<1>24. ASSUME NEW s \in Sessions, ReleasePut(s) PROVE Good
  BY <1>24, Zenon DEF ReleasePut, Put
<1>25. ASSUME NEW s \in Sessions, ReleaseEnds(s) PROVE Good
  BY <1>25, Zenon DEF ReleaseEnds
<1>26. ASSUME NEW s \in Sessions, BeginRelease(s) PROVE Good
  BY <1>26, Zenon DEF BeginRelease
<1>27. ASSUME NEW s \in Sessions, RemoveRoute(s) PROVE Good
  BY <1>27, Zenon DEF RemoveRoute
<1>28. ASSUME NEW n \in Nodes, Vacate(n) PROVE Good
  BY <1>28, Zenon DEF Vacate
<1>29. ASSUME NEW r \in sent, StoreServes(r) PROVE Good
  BY <1>29, Zenon DEF StoreServes
<1>30. CASE UNCHANGED vars
  BY <1>30 DEF vars
<1> QED
  BY <1>1, <1>2, <1>3, <1>4, <1>5, <1>6, <1>7, <1>8, <1>9, <1>10, <1>11, <1>12, <1>13, <1>14, <1>15,
     <1>16, <1>17, <1>18, <1>19, <1>20, <1>21, <1>22, <1>23, <1>24, <1>25, <1>26, <1>27, <1>28, <1>29, <1>30, Zenon
     DEF Next, Process, Resolve, Activity, Release

\* Authority comes with the lease, and processes of a node do not overlap.
LEMMA HolderStep ==
  ASSUME OwnerInv, Env = {}, [Next]_vars
  PROVE  HolderInv'
<1> USE OwnershipAssumption, NoRecordFacts
      DEF TypeOK, EpochInv, OwnerInv, Goto, leaseVars, storeVars, opVars, 
          hostVars, HolderInv, Live, Up, Stages
<1>1. ASSUME NEW s \in Sessions, Acquire(s) PROVE HolderInv'
  BY <1>1 DEF Acquire
<1>2. ASSUME NEW s \in Sessions, Gain(s) PROVE HolderInv'
  BY <1>2 DEF Gain
<1>3. ASSUME NEW s \in Sessions, Lose(s) PROVE HolderInv'
  BY <1>3, Zenon DEF Lose
<1>4. ASSUME NEW s \in Sessions, BeginShutdown(s) PROVE HolderInv'
  BY <1>4 DEF BeginShutdown
<1>5. ASSUME NEW s \in Sessions, Stop(s) PROVE HolderInv'
  BY <1>5 DEF Stop, Abort
<1>6. ASSUME NEW s \in Sessions, Exit(s) PROVE HolderInv'
  BY <1>6 DEF Exit, Abort
<1>7. ASSUME NEW s \in Sessions, ResolveRead(s) PROVE HolderInv'
  BY <1>7 DEF ResolveRead
<1>8. ASSUME NEW s \in Sessions, ResolveDirectory(s) PROVE HolderInv'
  BY <1>8 DEF ResolveDirectory
<1>9. ASSUME NEW s \in Sessions, ClaimPut(s) PROVE HolderInv'
  BY <1>9 DEF ClaimPut, Put, LocalClaim
<1>10. ASSUME NEW s \in Sessions, ClaimApplied(s) PROVE HolderInv'
  BY <1>10 DEF ClaimApplied
<1>11. ASSUME NEW s \in Sessions, ClaimConflict(s) PROVE HolderInv'
  BY <1>11 DEF ClaimConflict, Again
<1>12. ASSUME NEW s \in Sessions, ResolveFails(s) PROVE HolderInv'
  BY <1>12 DEF ResolveFails
<1>13. ASSUME NEW s \in Sessions, ClaimIndeterminate(s) PROVE HolderInv'
  BY <1>13 DEF ClaimIndeterminate
<1>14. ASSUME NEW s \in Sessions, ConfirmOther(s) PROVE HolderInv'
  BY <1>14 DEF ConfirmOther, Limit
<1>15. ASSUME NEW s \in Sessions, ConfirmClaim(s) PROVE HolderInv'
  BY <1>15 DEF ConfirmClaim
<1>16. ASSUME NEW s \in Sessions, ConfirmTaken(s) PROVE HolderInv'
  BY <1>16 DEF ConfirmTaken, Again
<1>17. ASSUME NEW s \in Sessions, DispatchOpen(s) PROVE HolderInv'
  BY <1>17 DEF DispatchOpen
<1>18. ASSUME NEW s \in Sessions, BeginResolve(s) PROVE HolderInv'
  BY <1>18 DEF BeginResolve
<1>19. ASSUME NEW s \in Sessions, DispatchAction(s) PROVE HolderInv'
  BY <1>19 DEF DispatchAction
<1>20. ASSUME NEW s \in Sessions, SessionsEnd(s) PROVE HolderInv'
  BY <1>20 DEF SessionsEnd
<1>21. ASSUME NEW s \in Sessions, ActorEnds(s) PROVE HolderInv'
  BY <1>21 DEF ActorEnds
<1>22. ASSUME NEW s \in Sessions, BeginDeactivation(s) PROVE HolderInv'
  BY <1>22 DEF BeginDeactivation
<1>23. ASSUME NEW s \in Sessions, ReleaseRead(s) PROVE HolderInv'
  BY <1>23 DEF ReleaseRead
<1>24. ASSUME NEW s \in Sessions, ReleasePut(s) PROVE HolderInv'
  BY <1>24 DEF ReleasePut, Put
<1>25. ASSUME NEW s \in Sessions, ReleaseEnds(s) PROVE HolderInv'
  BY <1>25 DEF ReleaseEnds
<1>26. ASSUME NEW s \in Sessions, BeginRelease(s) PROVE HolderInv'
  BY <1>26 DEF BeginRelease
<1>27. ASSUME NEW s \in Sessions, RemoveRoute(s) PROVE HolderInv'
  BY <1>27 DEF RemoveRoute
<1>28. ASSUME NEW n \in Nodes, Vacate(n) PROVE HolderInv'
  BY <1>28 DEF Vacate
<1>29. ASSUME NEW r \in sent, StoreServes(r) PROVE HolderInv'
  BY <1>29, Zenon DEF StoreServes
<1>30. CASE UNCHANGED vars
  BY <1>30, Zenon DEF vars
<1> QED
  BY <1>1, <1>2, <1>3, <1>4, <1>5, <1>6, <1>7, <1>8, <1>9, <1>10, <1>11, <1>12, <1>13, <1>14, <1>15,
     <1>16, <1>17, <1>18, <1>19, <1>20, <1>21, <1>22, <1>23, <1>24, <1>25, <1>26, <1>27, <1>28, <1>29, <1>30, Zenon
     DEF Next, Process, Resolve, Activity, Release

\* Claims overtake only the dead.
LEMMA ClaimStep ==
  ASSUME OwnerInv, Env = {}, [Next]_vars
  PROVE  ClaimInv'
<1> DEFINE Seen(t) ==
      /\ seen[t].owner # NoSession => stage[seen[t].owner] # "new"
      /\ op[t] = "put" /\ seen[t].owner # NoSession => Dead(seen[t].owner)
<1> DEFINE Sent(r) ==
      /\ stage[r.by] # "new"
      /\ ~IsRelease(r) /\ r.match.owner # NoSession => Dead(r.match.owner)
<1>a. \A t \in Sessions : (stage[t] # "new" => stage'[t] # "new") /\ (Dead(t) => Dead(t)')
  BY DeadStays, Zenon
<1>b. TypeOK /\ HolderInv /\ ClaimInv
  BY Zenon DEF OwnerInv, EpochInv
<1> DEFINE Plain == /\ UNCHANGED <<record, seen, sent>>
                    /\ \A t \in Sessions : op'[t] = "put" => op[t] = "put"
<1> USE OwnershipAssumption, NoRecordFacts, <1>a, <1>b
      DEF TypeOK, Records, Requests, Goto, leaseVars, storeVars, opVars, hostVars
<1>c. ASSUME NEW s \in Sessions, Process(s) PROVE Plain
  BY <1>c DEF Process, Acquire, Gain, Lose, BeginShutdown, Stop, Exit, Abort
<1>d. ASSUME NEW s \in Sessions, Resolve(s) \/ BeginResolve(s)
      PROVE  Plain \/ ResolveRead(s) \/ ResolveDirectory(s) \/ ClaimPut(s)
  BY <1>d DEF Resolve, BeginResolve, ClaimApplied, ClaimConflict, ResolveFails,
     ClaimIndeterminate, ConfirmOther, ConfirmClaim, ConfirmTaken, DispatchOpen, Again
<1>e. ASSUME NEW s \in Sessions, Activity(s)
      PROVE  Plain \/ BeginResolve(s)
  BY <1>e, Zenon DEF Activity, DispatchAction, SessionsEnd, ActorEnds, BeginDeactivation
<1>f. ASSUME NEW s \in Sessions, Release(s) \/ BeginRelease(s) \/ RemoveRoute(s)
      PROVE  Plain \/ ReleaseRead(s) \/ ReleasePut(s)
  BY <1>f, Zenon DEF Release, ReleaseEnds, BeginRelease, RemoveRoute
<1>g. ASSUME NEW n \in Nodes, Vacate(n) PROVE Plain
  BY <1>g, Zenon DEF Vacate
<1>h. UNCHANGED vars => Plain
  BY Zenon DEF vars
<1>1. CASE Plain
  BY <1>1 DEF ClaimInv, IsRelease
<1>2. ASSUME NEW s \in Sessions, ResolveRead(s) PROVE ClaimInv'
  <2>1. op' \in [Sessions -> Ops] /\ record' = record /\ sent' = sent /\ stage' = stage
    BY <1>2, TypeStep, Zenon DEF ResolveRead
  <2>2. ASSUME NEW t \in Sessions, t # s PROVE Seen(t)'
    BY <1>2, <2>2, Zenon DEF ResolveRead, ClaimInv
  <2>3. seen'[s] = record /\ Up(s)
    BY <1>2, Zenon DEF ResolveRead, HolderInv
  <2>4. ASSUME op'[s] = "put", record.owner # NoSession PROVE Dead(record.owner)'
    <3>1. record.owner \in Sessions /\ record.owner # s /\ NodeOf[record.owner] = NodeOf[s]
      BY <1>2, <2>4, Zenon DEF ResolveRead, IsLocalOwner
    <3>2. stage[record.owner] = "gone"
      BY <2>3, <2>4, <3>1, Zenon DEF HolderInv, ClaimInv, Up
    <3> QED
      BY <2>1, <3>1, <3>2, Zenon DEF Dead
  <2>5. Seen(s)'
    BY <2>1, <2>3, <2>4, Zenon DEF ClaimInv
  <2> QED
    BY <2>1, <2>2, <2>5, Zenon DEF ClaimInv, IsRelease
<1>3. ASSUME NEW s \in Sessions, ResolveDirectory(s) PROVE ClaimInv'
  <2>1. record' = record /\ sent' = sent /\ stage' = stage /\ seen' = seen /\ holder' = holder
    BY <1>3, Zenon DEF ResolveDirectory
  <2>2. ASSUME NEW t \in Sessions, t # s PROVE Seen(t)'
    BY <1>3, <2>2, Zenon DEF ResolveDirectory, ClaimInv
  <2>3. Seen(s)'
    BY <1>3, <2>1 DEF ResolveDirectory, ClaimInv, Dead
  <2> QED
    BY <2>1, <2>2, <2>3, Zenon DEF ClaimInv, IsRelease
<1>4. ASSUME NEW s \in Sessions, ReleaseRead(s) PROVE ClaimInv'
  <2>1. record' = record /\ sent' = sent /\ stage' = stage
    BY <1>4, Zenon DEF ReleaseRead
  <2>2. ASSUME NEW t \in Sessions PROVE Seen(t)'
    BY <1>4, <2>2, Zenon DEF ReleaseRead, ClaimInv
  <2> QED
    BY <2>1, <2>2, Zenon DEF ClaimInv, IsRelease
<1>5. ASSUME NEW s \in Sessions, ClaimPut(s) \/ ReleasePut(s) PROVE ClaimInv'
  <2>1. /\ record' = record /\ stage' = stage /\ seen' = seen /\ holder' = holder
        /\ \A t \in Sessions : op'[t] = "put" => op[t] = "put"
        /\ op[s] # "idle"
    BY <1>5, Zenon DEF ClaimPut, ReleasePut, Put
  <2>2. ASSUME NEW t \in Sessions PROVE Seen(t)'
    BY <2>1, <2>2, Zenon DEF ClaimInv, Dead
  <2>3. ASSUME NEW r \in sent', r \notin sent PROVE Sent(r)'
    <3>1. r.by = s /\ r.match = seen[s] /\ (ClaimPut(s) \/ IsRelease(r))
      BY <1>5, <2>3 DEF ClaimPut, ReleasePut, Put, IsRelease
    <3>2. stage[s] # "new"
      BY <2>1, Zenon DEF HolderInv, Up
    <3> QED
      BY <2>1, <3>1, <3>2 DEF ClaimPut, ClaimInv, Dead, IsRelease
  <2>4. ASSUME NEW r \in sent PROVE Sent(r)'
    BY <2>1, <2>4, Zenon DEF ClaimInv, IsRelease
  <2> QED
    BY <2>1, <2>2, <2>3, <2>4, Zenon DEF ClaimInv
<1>6. ASSUME NEW r \in sent, StoreServes(r) PROVE ClaimInv'
  <2>1. sent' = sent /\ stage' = stage /\ seen' = seen /\ op' = op /\ holder' = holder
    BY <1>6, Zenon DEF StoreServes
  <2>2. record'.owner # NoSession => stage[record'.owner] # "new"
    <3>1. r.new.owner = NoSession \/ r.new.owner = r.by
      <4>1. GrantInv(r)
        BY Zenon DEF OwnerInv, EpochInv
      <4> HIDE DEF TypeOK
      <4> QED
        BY <4>1 DEF GrantInv
    <3> QED
      BY <1>6, <3>1 DEF StoreServes, ClaimInv
  <2> QED
    BY <2>1, <2>2, Zenon DEF ClaimInv, Dead, IsRelease
<1> QED
  BY <1>c, <1>d, <1>e, <1>f, <1>g, <1>h, <1>1, <1>2, <1>3, <1>4, <1>5, <1>6, Zenon DEF Next

\* What a request makes of the record it matches.
LEMMA GrantOwner ==
  ASSUME OwnerInv, NEW r \in sent
  PROVE  /\ IsRelease(r) => r.match.owner = r.by
         /\ ~IsRelease(r) => r.new.owner = r.by
<1>1. GrantInv(r) /\ r.by \in Sessions
  BY Zenon DEF OwnerInv, EpochInv, TypeOK, Requests
<1>2. CASE r.new = [owner |-> r.by, epoch |-> r.match.epoch + 1]
  BY <1>1, <1>2, OwnershipAssumption DEF IsRelease
<1>3. CASE r.new = [owner |-> NoSession, epoch |-> r.match.epoch] /\ r.match.owner = r.by
  BY <1>3 DEF IsRelease
<1> QED
  BY <1>1, <1>2, <1>3, Zenon DEF GrantInv

\* A live session that relies on owning the Actor owns it.
LEMMA ServiceStep ==
  ASSUME OwnerInv, Env = {}, [Next]_vars, NEW t \in Sessions
  PROVE  ServiceInv(t)'
<1> USE OwnershipAssumption, NoRecordFacts
      DEF TypeOK, EpochInv, OwnerInv, ServiceInv, Relies, Live, Goto, leaseVars, storeVars,
          opVars, hostVars
<1>1. ASSUME NEW s \in Sessions, Acquire(s) PROVE ServiceInv(t)'
  BY <1>1 DEF Acquire
<1>2. ASSUME NEW s \in Sessions, Gain(s) PROVE ServiceInv(t)'
  BY <1>2 DEF Gain, HolderInv, Up
<1>3. ASSUME NEW s \in Sessions, Lose(s) PROVE ServiceInv(t)'
  BY <1>3, Zenon DEF Lose
<1>4. ASSUME NEW s \in Sessions, BeginShutdown(s) PROVE ServiceInv(t)'
  BY <1>4, Zenon DEF BeginShutdown
<1>5. ASSUME NEW s \in Sessions, Stop(s) PROVE ServiceInv(t)'
  BY <1>5, Zenon DEF Stop, Abort
<1>6. ASSUME NEW s \in Sessions, Exit(s) PROVE ServiceInv(t)'
  BY <1>6, Zenon DEF Exit, Abort
<1>7. ASSUME NEW s \in Sessions, ResolveRead(s) PROVE ServiceInv(t)'
  BY <1>7, Zenon DEF ResolveRead, IsLocalOwner
<1>8. ASSUME NEW s \in Sessions, ResolveDirectory(s) PROVE ServiceInv(t)'
  BY <1>8, Zenon DEF ResolveDirectory
<1>9. ASSUME NEW s \in Sessions, ClaimPut(s) PROVE ServiceInv(t)'
  BY <1>9, Zenon DEF ClaimPut, Put, LocalClaim
<1>10. ASSUME NEW s \in Sessions, ClaimApplied(s) PROVE ServiceInv(t)'
  BY <1>10, Zenon DEF ClaimApplied
<1>11. ASSUME NEW s \in Sessions, ClaimConflict(s) PROVE ServiceInv(t)'
  BY <1>11 DEF ClaimConflict, Again
<1>12. ASSUME NEW s \in Sessions, ResolveFails(s) PROVE ServiceInv(t)'
  BY <1>12, Zenon DEF ResolveFails
<1>13. ASSUME NEW s \in Sessions, ClaimIndeterminate(s) PROVE ServiceInv(t)'
  BY <1>13, Zenon DEF ClaimIndeterminate
<1>14. ASSUME NEW s \in Sessions, ConfirmOther(s) PROVE ServiceInv(t)'
  BY <1>14, Zenon DEF ConfirmOther, Limit
<1>15. ASSUME NEW s \in Sessions, ConfirmClaim(s) PROVE ServiceInv(t)'
  BY <1>15, Zenon DEF ConfirmClaim, LocalClaim
<1>16. ASSUME NEW s \in Sessions, ConfirmTaken(s) PROVE ServiceInv(t)'
  BY <1>16 DEF ConfirmTaken, Again
<1>17. ASSUME NEW s \in Sessions, DispatchOpen(s) PROVE ServiceInv(t)'
  BY <1>17 DEF DispatchOpen
<1>18. ASSUME NEW s \in Sessions, BeginResolve(s) PROVE ServiceInv(t)'
  BY <1>18, Zenon DEF BeginResolve
<1>19. ASSUME NEW s \in Sessions, DispatchAction(s) PROVE ServiceInv(t)'
  BY <1>19, Zenon DEF DispatchAction
<1>20. ASSUME NEW s \in Sessions, SessionsEnd(s) PROVE ServiceInv(t)'
  BY <1>20, Zenon DEF SessionsEnd
<1>21. ASSUME NEW s \in Sessions, ActorEnds(s) PROVE ServiceInv(t)'
  BY <1>21 DEF ActorEnds
<1>22. ASSUME NEW s \in Sessions, BeginDeactivation(s) PROVE ServiceInv(t)'
  BY <1>22, Zenon DEF BeginDeactivation
<1>23. ASSUME NEW s \in Sessions, ReleaseRead(s) PROVE ServiceInv(t)'
  BY <1>23, Zenon DEF ReleaseRead
<1>24. ASSUME NEW s \in Sessions, ReleasePut(s) PROVE ServiceInv(t)'
  BY <1>24, Zenon DEF ReleasePut, Put
<1>25. ASSUME NEW s \in Sessions, ReleaseEnds(s) PROVE ServiceInv(t)'
  BY <1>25, Zenon DEF ReleaseEnds
<1>26. ASSUME NEW s \in Sessions, BeginRelease(s) PROVE ServiceInv(t)'
  BY <1>26, Zenon DEF BeginRelease
<1>27. ASSUME NEW s \in Sessions, RemoveRoute(s) PROVE ServiceInv(t)'
  BY <1>27, Zenon DEF RemoveRoute
<1>28. ASSUME NEW n \in Nodes, Vacate(n) PROVE ServiceInv(t)'
  BY <1>28, Zenon DEF Vacate
<1>29. ASSUME NEW r \in sent, StoreServes(r) PROVE ServiceInv(t)'
  <2>1. UNCHANGED <<holder, held, stage, op, actor, bound>>
    BY <1>29, Zenon DEF StoreServes
  <2>2. CASE record' = record /\ answer'[t] = answer[t]
    BY <2>1, <2>2, Zenon
  <2>3. CASE answer'[t] # answer[t] /\ record' = record
    <3>1. CASE answer'[t] = "conflict"
      BY <2>1, <2>3, <3>1, Zenon
    <3>2. CASE answer'[t] # "conflict"
      <4>1. r.by = t /\ record = r.match /\ record' = r.new /\ ~IsRelease(r)
        BY <1>29, <2>3, <3>2 DEF StoreServes, Requests
      <4>2. r.new.owner = t
        BY <4>1, GrantOwner, Zenon DEF IsRelease
      <4> QED
        BY <2>1, <2>3, <4>1, <4>2, Zenon
    <3> QED
      BY <3>1, <3>2, Zenon
  <2>4. CASE record' # record
    <3>1. record = r.match /\ record' = r.new /\ r.by \in Sessions
      BY <1>29, <2>4, Zenon DEF StoreServes, Requests
    <3>2. CASE IsRelease(r)
      <4>1. record.owner = r.by
        BY <3>1, <3>2, GrantOwner, Zenon
      <4>2. op[r.by] = "rel_wait" \/ stage[r.by] \in {"stopped", "gone"}
        BY <1>29, <3>2, Zenon DEF StoreServes
      <4> QED
        BY <1>29, <2>1, <3>2, <4>1, <4>2 DEF StoreServes
    <3>3. CASE ~IsRelease(r)
      <4>1. record'.owner = r.by
        BY <3>1, <3>3, GrantOwner, Zenon
      <4>2. record.owner # NoSession => Dead(record.owner)
        BY <3>1, <3>3, Zenon DEF ClaimInv
      <4>3. CASE t = r.by
        BY <2>1, <4>1, <4>3, Zenon
      <4>4. CASE t # r.by
        <5>1. answer'[t] = answer[t]
          BY <1>29, <4>4 DEF StoreServes, Requests
        <5>2. Live(t) => record.owner # t
          BY <4>2, Zenon DEF Dead
        <5> QED
          BY <2>1, <5>1, <5>2, Zenon
      <4> QED
        BY <4>3, <4>4, Zenon
    <3> QED
      BY <3>2, <3>3, Zenon
  <2> QED
    BY <2>2, <2>3, <2>4, Zenon
<1>30. CASE UNCHANGED vars
  BY <1>30, Zenon DEF vars
<1> QED
  BY <1>1, <1>2, <1>3, <1>4, <1>5, <1>6, <1>7, <1>8, <1>9, <1>10, <1>11, <1>12, <1>13, <1>14, <1>15,
     <1>16, <1>17, <1>18, <1>19, <1>20, <1>21, <1>22, <1>23, <1>24, <1>25, <1>26, <1>27, <1>28, <1>29, <1>30, Zenon
     DEF Next, Process, Resolve, Activity, Release

\* The inductive invariant of ownership, when Env is empty.
LEMMA OwnerInvStep == Env = {} /\ OwnerInv /\ [Next]_vars => OwnerInv'
<1> SUFFICES ASSUME Env = {}, OwnerInv, [Next]_vars PROVE OwnerInv'
  OBVIOUS
<1>1. EpochInv'
  BY EpochInvStep, Zenon DEF OwnerInv
<1> QED
  BY <1>1, HolderStep, ClaimStep, ServiceStep, Zenon DEF OwnerInv

\* It holds initially.
LEMMA InitOwnerInv == Init => OwnerInv
<1> SUFFICES ASSUME Init PROVE OwnerInv
  OBVIOUS
<1>1. EpochInv
  BY InitEpochInv, Zenon
<1>2. \A s \in Sessions : ServiceInv(s)
  BY Zenon DEF Init, ServiceInv, Relies, Live
<1> QED
  BY <1>1, <1>2, NoRecordFacts, Zenon DEF Init, OwnerInv, HolderInv, ClaimInv, Up

\* When releases are not late, leases do not come back and processes of a Node
\* ID do not overlap, OwnerInv is an invariant.
THEOREM OwnerInvariance == Env = {} => (Spec => []OwnerInv)
<1> SUFFICES ASSUME Env = {} PROVE Spec => []OwnerInv
  OBVIOUS
<1>1. Init => OwnerInv
  BY InitOwnerInv, Zenon
<1>2. OwnerInv /\ [Next]_vars => OwnerInv'
  BY OwnerInvStep, Zenon
<1> QED
  BY <1>1, <1>2, PTL DEF Spec

\* docs/runtime.md:37: in such an environment only the recorded owner serves
\* the Actor (dispatch_message, resolve, claim, release_local_owner).
THEOREM OnlyOwnerServes == Env = {} => (Spec => []ServedByOwner)
<1> SUFFICES ASSUME Env = {} PROVE Spec => []ServedByOwner
  OBVIOUS
<1>1. OwnerInv => ServedByOwner
  BY Zenon DEF OwnerInv, HolderInv, ServiceInv, Relies, ServedByOwner, Serving
<1>2. Spec => []OwnerInv
  BY OwnerInvariance, Zenon
<1> QED
  BY <1>1, <1>2, PTL
=============================================================================
