--------------------------- MODULE PlacementProofs ---------------------------
(***************************************************************************)
(* Proofs about Placement: the candidates are fresh, no Placement is       *)
(* counted that was not made, none of the window is missing, and the pick  *)
(* never takes the worst candidate.                                        *)
(***************************************************************************)
EXTENDS Placement, FiniteSetTheorems, TLAPS

\* What a step of one call leaves alone.
OthersKeep(o) ==
  \A p \in Opens \ {o} : pc'[p] = pc[p] /\ started'[p] = started[p] /\ checked'[p] = checked[p]
                         /\ view'[p] = view[p] /\ decision'[p] = decision[p]

\* The effects of each step, call by call.
LEMMA StepEffects ==
  ASSUME TypeOK, NEW o \in Opens, BeginPlacement(o) \/ List(o) \/ Place(o)
  PROVE  OthersKeep(o) /\ UNCHANGED clock
  BY Zenon DEF TypeOK, OthersKeep, List, Place, BeginPlacement, CheckCache, ListNodes, ListFails, StoreCache,
         SelectFails, Pick, PlacementSucceeds, PlacementFails, Goto

-----------------------------------------------------------------------------
(* Types.                                                                  *)

\* An entry that is retained is the entry; a count is a natural number.
LEMMA CountFacts ==
  ASSUME TypeOK, NEW e \in Endpoints
  PROVE  /\ Count(inFlight, e) \in Nat /\ Count(Retained, e) \in Nat
         /\ Count(Retained, e) <= Count(inFlight, e)
         /\ Retained[e] \in Entries \cup {None}
         /\ Retained \in [Endpoints -> Entries \cup {None}]
<1>1. inFlight \in [Endpoints -> Entries \cup {None}]
  BY Zenon DEF TypeOK
<1>2. Retained \in [Endpoints -> Entries \cup {None}]
  BY <1>1, Zenon DEF Retained
<1>3. Retained[e] = inFlight[e] \/ Retained[e] = None
  BY Zenon DEF Retained
<1> QED
  BY <1>1, <1>2, <1>3 DEF Count, Entries

\* Counting a Placement keeps the type of the bookkeeping.
LEMMA CountedFacts ==
  ASSUME TypeOK, NEW e \in Endpoints
  PROVE  /\ Counted(Retained, e) \in [Endpoints -> Entries \cup {None}]
         /\ Counted(Retained, e)[e] = [count |-> Count(Retained, e) + 1, updated |-> clock]
         /\ Counted(Retained, e)[e] # None
         /\ Count(Counted(Retained, e), e) = Count(Retained, e) + 1
         /\ \A f \in Endpoints \ {e} : /\ Counted(Retained, e)[f] = Retained[f]
                                       /\ Count(Counted(Retained, e), f) = Count(Retained, f)
<1> DEFINE new == [count |-> Count(Retained, e) + 1, updated |-> clock]
<1>1. Retained \in [Endpoints -> Entries \cup {None}] /\ Count(Retained, e) \in Nat
  BY CountFacts, Zenon
<1>2. new \in Entries /\ new # None
  BY <1>1, PlacementAssumption DEF TypeOK, Entries
<1>3. Counted(Retained, e) = [Retained EXCEPT ![e] = new]
  BY Zenon DEF Counted
<1> QED
  BY <1>1, <1>2, <1>3 DEF Count

\* Taking a Placement back keeps the type of the bookkeeping.
LEMMA RollBackFacts ==
  ASSUME TypeOK, NEW e \in Endpoints, RollBack(e)
  PROVE  /\ inFlight' \in [Endpoints -> Entries \cup {None}]
         /\ inFlight[e] = None => inFlight'[e] = None
         /\ inFlight[e] # None =>
              /\ inFlight'[e] # None
              /\ inFlight'[e].updated = inFlight[e].updated
              /\ inFlight'[e].count = IF inFlight[e].count = 0 THEN 0 ELSE inFlight[e].count - 1
         /\ \A f \in Endpoints \ {e} : inFlight'[f] = inFlight[f]
<1>1. inFlight \in [Endpoints -> Entries \cup {None}]
  BY Zenon DEF TypeOK
<1>2. CASE inFlight[e] = None
  BY <1>1, <1>2, Zenon DEF RollBack
<1>3. CASE inFlight[e] # None
  <2> DEFINE n   == IF inFlight[e].count = 0 THEN 0 ELSE inFlight[e].count - 1
             new == [count |-> n, updated |-> inFlight[e].updated]
  <2>1. inFlight[e] \in Entries
    BY <1>1, <1>3, Zenon
  <2>2. n \in Nat /\ inFlight[e].updated \in Nat
    BY <2>1 DEF Entries
  <2>3. new \in Entries /\ new # None
    BY <2>2, PlacementAssumption DEF Entries
  <2>4. inFlight' = [inFlight EXCEPT ![e].count = n]
    BY <1>3, Zenon DEF RollBack
  <2>5. inFlight' = [inFlight EXCEPT ![e] = new]
    <3>1. [inFlight[e] EXCEPT !.count = n] = new
      BY <2>1 DEF Entries
    <3>2. inFlight' = [inFlight EXCEPT ![e] = [inFlight[e] EXCEPT !.count = n]]
      BY <2>4, Zenon
    <3> QED
      BY <3>1, <3>2, Zenon
  <2> QED
    BY <1>1, <1>3, <2>3, <2>5, Zenon
<1> QED
  BY <1>2, <1>3, Zenon

\* A pick decides for an endpoint and counts it there.
LEMMA PickEffects ==
  ASSUME TypeOK, ListInv, NEW o \in Opens, Pick(o)
  PROVE  \E e \in Endpoints :
           /\ inFlight' = Counted(Retained, e)
           /\ decision' = [decision EXCEPT ![o] = [endpoint |-> e, at |-> clock]]
           /\ [endpoint |-> e, at |-> clock] \in Decisions
           /\ [endpoint |-> e, at |-> clock] # None
<1>1. Remaining(o) \subseteq Endpoints
  BY Zenon DEF Pick, ListInv, IsListing, Remaining
<1>2. PICK e \in Endpoints : /\ inFlight' = Counted(Retained, e)
                             /\ decision' = [decision EXCEPT ![o] = [endpoint |-> e, at |-> clock]]
  <2>1. PICK first \in Remaining(o), second \in Remaining(o) :
          LET e == IF LowerRatio(o, second, first) THEN second ELSE first IN
          /\ inFlight' = Counted(Retained, e)
          /\ decision' = [decision EXCEPT ![o] = [endpoint |-> e, at |-> clock]]
    BY Zenon DEF Pick
  <2> DEFINE e == IF LowerRatio(o, second, first) THEN second ELSE first
  <2>2. e \in Endpoints
    BY <1>1, Zenon
  <2>3. /\ inFlight' = Counted(Retained, e)
        /\ decision' = [decision EXCEPT ![o] = [endpoint |-> e, at |-> clock]]
    BY <2>1, Zenon
  <2> HIDE DEF e
  <2> QED
    BY <2>2, <2>3, Zenon
<1>3. [endpoint |-> e, at |-> clock] \in Decisions
  BY Zenon DEF TypeOK, Decisions
<1>4. None \notin Decisions
  BY PlacementAssumption, Zenon DEF Decisions
<1> QED
  BY <1>2, <1>3, <1>4, Zenon

\* A call that has a decision has it at an endpoint.
LEMMA DecisionType ==
  ASSUME TypeOK, NEW o \in Opens, decision[o] # None
  PROVE  decision[o].endpoint \in Endpoints /\ decision[o].at \in Nat
  BY Zenon DEF TypeOK, Decisions

\* Every step keeps the types.
LEMMA TypeStep ==
  ASSUME TypeOK, ListInv, DecisionInv, [Next]_vars
  PROVE  TypeOK'
<1>1. CASE UNCHANGED vars
  BY <1>1, Zenon DEF TypeOK, vars, opens
<1>2. CASE Tick
  BY <1>2 DEF TypeOK, Tick, opens
<1>3. ASSUME NEW o \in Opens, BeginPlacement(o) \/ CheckCache(o) \/ ListNodes(o) \/ ListFails(o)
                              \/ StoreCache(o) \/ SelectFails(o) \/ PlacementSucceeds(o)
      PROVE  TypeOK'
  BY <1>3 DEF TypeOK, BeginPlacement, CheckCache, ListNodes, ListFails, StoreCache, SelectFails,
              PlacementSucceeds, Goto, Pcs
<1>4. ASSUME NEW o \in Opens, Pick(o) PROVE TypeOK'
  <2>1. PICK e \in Endpoints :
          /\ inFlight' = Counted(Retained, e)
          /\ decision' = [decision EXCEPT ![o] = [endpoint |-> e, at |-> clock]]
          /\ [endpoint |-> e, at |-> clock] \in Decisions
    BY <1>4, PickEffects, Zenon
  <2>2. inFlight' \in [Endpoints -> Entries \cup {None}]
    BY <2>1, CountedFacts, Zenon
  <2>3. decision' \in [Opens -> Decisions \cup {None}]
    BY <2>1, Zenon DEF TypeOK
  <2> QED
    BY <1>4, <2>2, <2>3, Zenon DEF TypeOK, Pick, Goto, Pcs
<1>5. ASSUME NEW o \in Opens, PlacementFails(o) PROVE TypeOK'
  <2>1. decision[o].endpoint \in Endpoints
    BY <1>5, DecisionType, Zenon DEF PlacementFails, DecisionInv
  <2>2. inFlight' \in [Endpoints -> Entries \cup {None}]
    BY <1>5, <2>1, RollBackFacts, Zenon DEF PlacementFails
  <2>3. decision' \in [Opens -> Decisions \cup {None}]
    BY <1>5, Zenon DEF TypeOK, PlacementFails
  <2>4. excluded' \in [Opens -> SUBSET Endpoints] /\ repeats' \in [Opens -> Nat]
    BY <1>5, <2>1 DEF TypeOK, PlacementFails
  <2>5. pc' \in [Opens -> Pcs]
    BY <1>5, Zenon DEF TypeOK, PlacementFails, Goto, Pcs
  <2> QED
    BY <1>5, <2>2, <2>3, <2>4, <2>5, Zenon DEF TypeOK, PlacementFails
<1> QED
  BY <1>1, <1>2, <1>3, <1>4, <1>5, Zenon DEF Next, List, Place

\* Every step keeps the listings and their stamps in order.
LEMMA ListStep ==
  ASSUME TypeOK, ListInv, [Next]_vars
  PROVE  ListInv'
<1>n. clock \in Nat /\ CacheTTL \in Nat \ {0} /\ \A o \in Opens : checked[o] \in Nat
  BY PlacementAssumption, Zenon DEF TypeOK
<1>1. CASE UNCHANGED vars
  BY <1>1, Zenon DEF ListInv, vars, opens
<1>2. CASE Tick
  BY <1>2, <1>n DEF ListInv, Tick, opens
<1>3. ASSUME NEW o \in Opens, BeginPlacement(o) \/ ListFails(o) \/ SelectFails(o)
                              \/ PlacementSucceeds(o) \/ Pick(o) \/ PlacementFails(o)
      PROVE  ListInv'
  <2>1. /\ UNCHANGED <<clock, checked, view, cache>>
        /\ \A p \in Opens : pc'[p] \in {"list", "store", "pick"} => pc'[p] = pc[p]
    BY <1>3, Zenon DEF TypeOK, BeginPlacement, ListFails, SelectFails, PlacementSucceeds, Pick,
                PlacementFails, Goto
  <2> QED
    BY <2>1, Zenon DEF ListInv
<1>4. ASSUME NEW o \in Opens, CheckCache(o) PROVE ListInv'
  <2>0. /\ checked' = [checked EXCEPT ![o] = clock] /\ UNCHANGED <<clock, cache>> /\ OthersKeep(o)
    BY <1>4, StepEffects, Zenon DEF CheckCache, List
  <2>1. checked'[o] = clock
    BY <2>0, Zenon DEF TypeOK
  <2>2. CASE cache # None /\ clock - cache.fetchedAt < CacheTTL
    <3>1. view'[o] = cache.list /\ pc'[o] = "pick"
      BY <1>4, <2>2, Zenon DEF TypeOK, CheckCache, Goto
    <3>2. IsListing(cache.list) /\ cache.list.read > clock - CacheTTL
      BY <1>n, <2>2 DEF ListInv, IsListing
    <3> QED
      BY <2>0, <2>1, <3>1, <3>2, Zenon DEF ListInv, OthersKeep
  <2>3. CASE ~(cache # None /\ clock - cache.fetchedAt < CacheTTL)
    <3>1. view'[o] = view[o] /\ pc'[o] = "list"
      BY <1>4, <2>3, Zenon DEF TypeOK, CheckCache, Goto
    <3> QED
      BY <1>n, <2>0, <2>1, <3>1 DEF ListInv, OthersKeep
  <2> QED
    BY <2>2, <2>3, Zenon
<1>5. ASSUME NEW o \in Opens, ListNodes(o) PROVE ListInv'
  <2>0. UNCHANGED <<clock, checked, cache>> /\ OthersKeep(o) /\ pc[o] = "list" /\ pc'[o] = "store"
    BY <1>5, StepEffects, Zenon DEF TypeOK, ListNodes, List, Goto
  <2>1. PICK C \in SUBSET Endpoints : \E l \in [C -> UNION {0..Capacity[e] - 1 : e \in C}] :
          view' = [view EXCEPT ![o] = [read |-> clock, load |-> l]]
    BY <1>5, Zenon DEF ListNodes
  <2>2. PICK l \in [C -> UNION {0..Capacity[e] - 1 : e \in C}] :
          view' = [view EXCEPT ![o] = [read |-> clock, load |-> l]]
    BY <2>1, Zenon
  <2>3. \A e \in C : l[e] \in Nat
    BY PlacementAssumption
  <2>4. view'[o] = [read |-> clock, load |-> l]
    BY <2>2, Zenon DEF TypeOK
  <2>5. IsListing(view'[o]) /\ view'[o].read = clock
    BY <1>n, <2>3, <2>4 DEF IsListing
  <2> QED
    BY <1>n, <2>0, <2>5, Zenon DEF ListInv, OthersKeep
<1>6. ASSUME NEW o \in Opens, StoreCache(o) PROVE ListInv'
  <2>0. /\ UNCHANGED <<clock, checked, view>> /\ OthersKeep(o) /\ pc[o] = "store" /\ pc'[o] = "pick"
        /\ cache' = [fetchedAt |-> checked[o], list |-> view[o]]
    BY <1>6, StepEffects, Zenon DEF TypeOK, StoreCache, List, Goto
  <2>1. IsListing(view[o]) /\ view[o].read >= checked[o] /\ view[o].read \in Nat
    BY <2>0, Zenon DEF ListInv, IsListing
  <2>2. view[o].read > checked[o] - CacheTTL
    BY <1>n, <2>1
  <2>3. cache'.list = view[o] /\ cache'.fetchedAt = checked[o]
    BY <2>0, Zenon
  <2> QED
    BY <1>n, <2>0, <2>1, <2>2, <2>3, Zenon DEF ListInv, OthersKeep
<1> QED
  BY <1>1, <1>2, <1>3, <1>4, <1>5, <1>6, Zenon DEF Next, List, Place

-----------------------------------------------------------------------------
(* What the bookkeeping counts.                                            *)

\* The Placements decided at an endpoint are finitely many.
LEMMA DecidedFinite ==
  ASSUME NEW e \in Endpoints
  PROVE  IsFiniteSet(Decided(e)) /\ Cardinality(Decided(e)) \in Nat
<1>1. Decided(e) \in SUBSET Opens
  BY Zenon DEF Decided
<1> QED
  BY <1>1, PlacementAssumption, FS_Subset, FS_CardinalityType, Zenon

\* Every step keeps the decisions, and what is counted of them.
LEMMA DecisionStep ==
  ASSUME TypeOK, ListInv, DecisionInv, [Next]_vars
  PROVE  DecisionInv'
<1>1. CASE UNCHANGED vars
  BY <1>1, Zenon DEF DecisionInv, NoPhantomPlacement, Count, Decided, vars, opens
<1>2. CASE Tick
  BY <1>2, Zenon DEF DecisionInv, NoPhantomPlacement, Count, Decided, Tick, opens
<1>3. ASSUME NEW o \in Opens, BeginPlacement(o) \/ CheckCache(o) \/ ListNodes(o) \/ ListFails(o)
                              \/ StoreCache(o) \/ SelectFails(o) \/ PlacementSucceeds(o)
      PROVE  DecisionInv'
  <2>1. /\ UNCHANGED <<decision, inFlight>>
        /\ \A p \in Opens : pc'[p] \in {"placing", "placed"} <=> pc[p] \in {"placing", "placed"}
    BY <1>3, Zenon DEF TypeOK, BeginPlacement, CheckCache, ListNodes, ListFails, StoreCache, SelectFails,
                PlacementSucceeds, Goto
  <2> QED
    BY <2>1, Zenon DEF DecisionInv, NoPhantomPlacement, Count, Decided
<1>4. ASSUME NEW o \in Opens, Pick(o) PROVE DecisionInv'
  <2>1. PICK e \in Endpoints :
          /\ inFlight' = Counted(Retained, e)
          /\ decision' = [decision EXCEPT ![o] = [endpoint |-> e, at |-> clock]]
          /\ [endpoint |-> e, at |-> clock] # None
    BY <1>4, PickEffects, Zenon
  <2>2. OthersKeep(o) /\ pc[o] = "pick" /\ pc'[o] = "placing"
    BY <1>4, StepEffects, Zenon DEF TypeOK, Pick, Place, Goto
  <2>3. decision'[o] # None /\ decision'[o].endpoint = e /\ decision[o] = None
    BY <2>1, <2>2, Zenon DEF TypeOK, DecisionInv
  <2>4. ASSUME NEW f \in Endpoints PROVE Count(inFlight, f)' <= Cardinality(Decided(f)')
    <3>1. /\ Count(inFlight, f) \in Nat /\ Count(Retained, f) \in Nat
          /\ Count(Retained, f) <= Count(inFlight, f) /\ Count(inFlight, f) <= Cardinality(Decided(f))
          /\ IsFiniteSet(Decided(f)) /\ Cardinality(Decided(f)) \in Nat
      BY CountFacts, DecidedFinite, Zenon DEF DecisionInv, NoPhantomPlacement
    <3>2. CASE f = e
      <4>1. Decided(f)' = Decided(f) \cup {o} /\ o \notin Decided(f)
        BY <2>2, <2>3, <3>2, Zenon DEF Decided, OthersKeep
      <4>2. Cardinality(Decided(f)') = Cardinality(Decided(f)) + 1
        BY <3>1, <4>1, FS_AddElement, Zenon
      <4>3. Count(inFlight, f)' = Count(Retained, f) + 1
        BY <2>1, <3>2, CountedFacts, Zenon DEF Count
      <4> QED
        BY <3>1, <4>2, <4>3
    <3>3. CASE f # e
      <4>1. Decided(f)' = Decided(f)
        BY <2>2, <2>3, <3>3, Zenon DEF Decided, OthersKeep
      <4>2. Count(inFlight, f)' = Count(Retained, f)
        BY <2>1, <3>3, CountedFacts, Zenon DEF Count
      <4> QED
        BY <3>1, <4>1, <4>2
    <3> QED
      BY <3>2, <3>3, Zenon
  <2> QED
    BY <2>2, <2>3, <2>4, Zenon DEF DecisionInv, NoPhantomPlacement, OthersKeep
<1>5. ASSUME NEW o \in Opens, PlacementFails(o) PROVE DecisionInv'
  <2> DEFINE e == decision[o].endpoint
  <2>0. pc[o] = "placing" /\ RollBack(e) /\ decision' = [decision EXCEPT ![o] = None]
    BY <1>5, Zenon DEF PlacementFails
  <2>1. decision[o] # None /\ e \in Endpoints /\ decision'[o] = None
    BY <2>0, DecisionType, Zenon DEF TypeOK, DecisionInv
  <2>2. OthersKeep(o) /\ pc'[o] \in {"failed", "check"}
    BY <1>5, StepEffects, Zenon DEF TypeOK, PlacementFails, Place, Goto
  <2>3. ASSUME NEW f \in Endpoints PROVE Count(inFlight, f)' <= Cardinality(Decided(f)')
    <3>1. /\ Count(inFlight, f) \in Nat /\ Count(inFlight, f) <= Cardinality(Decided(f))
          /\ IsFiniteSet(Decided(f)) /\ Cardinality(Decided(f)) \in Nat
      BY CountFacts, DecidedFinite, Zenon DEF DecisionInv, NoPhantomPlacement
    <3>2. CASE f = e
      <4>1. Decided(f)' = Decided(f) \ {o} /\ o \in Decided(f)
        BY <2>1, <2>2, <3>2, Zenon DEF Decided, OthersKeep
      <4>2. Cardinality(Decided(f)') = Cardinality(Decided(f)) - 1
        BY <3>1, <4>1, FS_RemoveElement, Zenon
      <4>3. Cardinality(Decided(f)') \in Nat
        BY <3>1, <4>1, FS_RemoveElement, FS_CardinalityType, Zenon
      <4>4. Count(inFlight, f)' = IF Count(inFlight, f) = 0 THEN 0 ELSE Count(inFlight, f) - 1
        BY <2>0, <2>1, <3>2, RollBackFacts, Zenon DEF Count
      <4> QED
        BY <3>1, <4>2, <4>3, <4>4
    <3>3. CASE f # e
      <4>1. Decided(f)' = Decided(f)
        BY <2>1, <2>2, <3>3 DEF Decided, OthersKeep
      <4>2. Count(inFlight, f)' = Count(inFlight, f)
        BY <2>0, <2>1, <3>3, RollBackFacts, Zenon DEF Count
      <4> QED
        BY <3>1, <4>1, <4>2, Zenon
    <3> QED
      BY <3>2, <3>3, Zenon
  <2> QED
    BY <2>1, <2>2, <2>3, Zenon DEF DecisionInv, NoPhantomPlacement, OthersKeep
<1> QED
  BY <1>1, <1>2, <1>3, <1>4, <1>5, Zenon DEF Next, List, Place

\* A Client that has placed nothing satisfies the invariants.
LEMMA InitPlacement ==
  Init => TypeOK /\ ListInv /\ DecisionInv /\ WindowInv
<1> SUFFICES ASSUME Init PROVE TypeOK /\ ListInv /\ DecisionInv /\ WindowInv
  OBVIOUS
<1>1. TypeOK
  BY Zenon DEF Init, TypeOK, Pcs
<1>2. ListInv
  BY Zenon DEF Init, ListInv
<1>3. DecisionInv
  <2>1. \A e \in Endpoints : Count(inFlight, e) = 0
    BY Zenon DEF Init, Count
  <2>2. \A e \in Endpoints : Cardinality(Decided(e)) \in Nat
    BY DecidedFinite, Zenon
  <2> QED
    BY <2>1, <2>2 DEF Init, DecisionInv, NoPhantomPlacement
<1>4. WindowInv
  BY Zenon DEF Init, WindowInv, Running
<1> QED
  BY <1>1, <1>2, <1>3, <1>4, Zenon

\* Listings, decisions and counts fit together in every state.
THEOREM PlacementInvariance ==
  Spec => [](TypeOK /\ ListInv /\ DecisionInv)
<1>1. TypeOK /\ ListInv /\ DecisionInv /\ [Next]_vars => (TypeOK /\ ListInv /\ DecisionInv)'
  BY TypeStep, ListStep, DecisionStep, Zenon
<1> QED
  BY <1>1, InitPlacement, PTL DEF Spec

\* placement_candidates never hands out a listing read CacheTTL or more before
\* it was called, however long listings take and in whatever order they are stored.
THEOREM SpecCandidatesAreFresh ==
  Spec => []CandidatesAreFresh
<1>1. ListInv => CandidatesAreFresh
  BY Zenon DEF ListInv, CandidatesAreFresh
<1> QED
  BY <1>1, PlacementInvariance, PTL

\* pick and on_placement_failed never leave an endpoint with more Placements
\* counted than were decided for it and did not fail.
THEOREM SpecNoPhantomPlacement ==
  Spec => []NoPhantomPlacement
<1>1. DecisionInv => NoPhantomPlacement
  BY Zenon DEF DecisionInv
<1> QED
  BY <1>1, PlacementInvariance, PTL

-----------------------------------------------------------------------------
(* The window.                                                             *)

\* The decisions of a window are finitely many.
LEMMA WindowFinite ==
  ASSUME NEW e \in Endpoints
  PROVE  IsFiniteSet(Window(e)) /\ Cardinality(Window(e)) \in Nat
<1>1. Window(e) \in SUBSET Decided(e)
  BY Zenon DEF Window
<1> QED
  BY <1>1, DecidedFinite, FS_Subset, FS_CardinalityType, Zenon

\* What the retained entry of an endpoint counts covers its window.
LEMMA WindowCovered ==
  ASSUME TypeOK, DecisionInv, WindowInv, NEW e \in Endpoints
  PROVE  Cardinality(Window(e)) <= Count(Retained, e)
<1>n. clock \in Nat /\ InFlightTTL \in Nat
  BY PlacementAssumption, Zenon DEF TypeOK
<1>1. CASE Retained[e] # None
  <2>1. inFlight[e] # None /\ Retained[e] = inFlight[e]
    BY <1>1, Zenon DEF Retained
  <2> QED
    BY <1>1, <2>1, Zenon DEF WindowInv, Count
<1>2. CASE Retained[e] = None
  <2>1. inFlight[e] = None \/ clock - inFlight[e].updated >= InFlightTTL
    <3>1. inFlight[e] # None => inFlight[e].updated \in Nat
      BY Zenon DEF TypeOK, Entries
    <3> QED
      BY <1>2, <1>n, <3>1 DEF Retained
  <2>2. ASSUME NEW o \in Decided(e) PROVE clock - decision[o].at >= InFlightTTL
    <3>1. o \in Opens /\ decision[o] # None /\ decision[o].endpoint = e
      BY Zenon DEF Decided
    <3>2. decision[o].at \in Nat
      BY <3>1, DecisionType, Zenon
    <3>3. CASE inFlight[e] = None
      BY <3>1, <3>3, Zenon DEF WindowInv
    <3>4. CASE inFlight[e] # None
      <4>1. inFlight[e].updated \in Nat /\ decision[o].at <= inFlight[e].updated
        BY <3>1, <3>4, Zenon DEF WindowInv, TypeOK, Entries
      <4> QED
        BY <1>n, <2>1, <3>2, <3>4, <4>1
    <3> QED
      BY <3>3, <3>4, Zenon
  <2>3. Window(e) = {}
    <3>1. ASSUME NEW o \in Window(e) PROVE FALSE
      <4>1. o \in Decided(e) /\ o \in Opens /\ decision[o] # None
            /\ clock - decision[o].at < InFlightTTL
        BY Zenon DEF Window, Decided
      <4>2. decision[o].at \in Nat
        BY <4>1, DecisionType, Zenon
      <4> QED
        BY <1>n, <2>2, <4>1, <4>2
    <3> QED
      BY <3>1, Zenon
  <2> QED
    BY <1>2, <2>3, FS_EmptySet DEF Count
<1> QED
  BY <1>1, <1>2, Zenon

\* While open() ends before a window does, every step keeps the window counted.
LEMMA WindowStep ==
  ASSUME OpenTimeout < InFlightTTL, TypeOK, ListInv, DecisionInv, WindowInv, [Next]_vars
  PROVE  WindowInv'
<1>n. /\ clock \in Nat /\ InFlightTTL \in Nat /\ OpenTimeout \in Nat
      /\ \A o \in Opens : started[o] \in Nat
  BY PlacementAssumption, Zenon DEF TypeOK
<1>d. \A o \in Opens : decision[o] # None => decision[o].at \in Nat /\ decision[o].endpoint \in Endpoints
  BY DecisionType, Zenon
<1>1. CASE UNCHANGED vars
  BY <1>1, Zenon DEF WindowInv, Window, Decided, Running, vars, opens
<1>2. CASE Tick
  <2>0. /\ clock' = clock + 1 /\ \A o \in Opens : Running(o) => clock - started[o] < OpenTimeout
        /\ UNCHANGED <<pc, started, decision, inFlight>>
    BY <1>2, Zenon DEF Tick, opens
  <2>1. ASSUME NEW o \in Opens
        PROVE  /\ Running(o) => clock' - started[o] \in 0..OpenTimeout
               /\ pc[o] = "placing" => started[o] <= decision[o].at
               /\ decision[o] # None =>
                    LET entry == inFlight[decision[o].endpoint] IN
                    /\ decision[o].at <= clock'
                    /\ IF entry = None THEN clock' - decision[o].at >= InFlightTTL
                       ELSE decision[o].at <= entry.updated
    <3>1. Running(o) => clock' - started[o] \in 0..OpenTimeout
      BY <1>n, <2>0 DEF WindowInv
    <3> QED
      BY <1>n, <1>d, <2>0, <3>1 DEF WindowInv
  <2>2. ASSUME NEW e \in Endpoints, inFlight[e] # None
        PROVE  Cardinality(Window(e)') <= inFlight[e].count
    <3>1. Window(e)' \in SUBSET Window(e)
      BY <1>n, <1>d, <2>0 DEF Window, Decided
    <3>2. Cardinality(Window(e)') <= Cardinality(Window(e)) /\ Cardinality(Window(e)') \in Nat
      BY <3>1, WindowFinite, FS_Subset, FS_CardinalityType, Zenon
    <3>3. Cardinality(Window(e)) \in Nat /\ inFlight[e].count \in Nat
      BY <2>2, WindowFinite, Zenon DEF TypeOK, Entries
    <3> QED
      BY <2>2, <3>2, <3>3 DEF WindowInv
  <2> QED
    BY <2>0, <2>1, <2>2, Zenon DEF WindowInv, Running
<1>3. ASSUME NEW o \in Opens, BeginPlacement(o) \/ CheckCache(o) \/ ListNodes(o) \/ ListFails(o)
                              \/ StoreCache(o) \/ SelectFails(o) \/ PlacementSucceeds(o)
      PROVE  WindowInv'
  <2>1. /\ UNCHANGED <<clock, decision, inFlight>>
        /\ \A p \in Opens : pc'[p] = "placing" => pc[p] = "placing" /\ started'[p] = started[p]
    BY <1>3, Zenon DEF TypeOK, BeginPlacement, CheckCache, ListNodes, ListFails, StoreCache, SelectFails,
                PlacementSucceeds, Goto
  <2>2. \A p \in Opens : Running(p)' => started'[p] = clock \/ (Running(p) /\ started'[p] = started[p])
    BY <1>3 DEF TypeOK, BeginPlacement, CheckCache, ListNodes, ListFails, StoreCache, SelectFails,
                PlacementSucceeds, Goto, Running
  <2>3. clock - clock \in 0..OpenTimeout
    BY <1>n
  <2>4. \A p \in Opens : Running(p)' => clock - started'[p] \in 0..OpenTimeout
    BY <2>2, <2>3, Zenon DEF WindowInv
  <2> QED
    BY <2>1, <2>4, Zenon DEF WindowInv, Window, Decided
<1>4. ASSUME NEW o \in Opens, Pick(o) PROVE WindowInv'
  <2>1. PICK e \in Endpoints :
          /\ inFlight' = Counted(Retained, e)
          /\ decision' = [decision EXCEPT ![o] = [endpoint |-> e, at |-> clock]]
          /\ [endpoint |-> e, at |-> clock] # None
    BY <1>4, PickEffects, Zenon
  <2>2. /\ OthersKeep(o) /\ pc[o] = "pick" /\ pc'[o] = "placing"
        /\ clock' = clock /\ started' = started
    BY <1>4, StepEffects, Zenon DEF TypeOK, Pick, Place, Goto
  <2>3. /\ decision'[o] # None /\ decision'[o].endpoint = e /\ decision'[o].at = clock
        /\ decision[o] = None
    BY <2>1, <2>2, Zenon DEF TypeOK, DecisionInv
  <2>4. /\ inFlight'[e] # None /\ inFlight'[e].updated = clock
        /\ inFlight'[e].count = Count(Retained, e) + 1
        /\ \A f \in Endpoints \ {e} : inFlight'[f] = Retained[f]
    <3>1. /\ inFlight'[e] = [count |-> Count(Retained, e) + 1, updated |-> clock]
          /\ inFlight'[e] # None /\ \A f \in Endpoints \ {e} : inFlight'[f] = Retained[f]
      BY <2>1, CountedFacts, Zenon
    <3> QED
      BY <3>1
  <2>5. ASSUME NEW p \in Opens
        PROVE  /\ Running(p)' => clock - started[p] \in 0..OpenTimeout
               /\ pc'[p] = "placing" => started[p] <= decision'[p].at
               /\ decision'[p] # None =>
                    LET entry == inFlight'[decision'[p].endpoint] IN
                    /\ decision'[p].at <= clock
                    /\ IF entry = None THEN clock - decision'[p].at >= InFlightTTL
                       ELSE decision'[p].at <= entry.updated
    <3>1. CASE p = o
      <4>1. Running(o)
        BY <2>2, Zenon DEF Running
      <4>2. clock - started[o] \in 0..OpenTimeout /\ started[o] <= clock
        BY <1>n, <4>1 DEF WindowInv
      <4> QED
        BY <1>n, <2>3, <2>4, <3>1, <4>2
    <3>2. CASE p # o
      <4>0. pc'[p] = pc[p] /\ decision'[p] = decision[p]
        BY <2>2, <3>2, Zenon DEF OthersKeep
      <4>1. Running(p)' <=> Running(p)
        BY <4>0, Zenon DEF Running
      <4>2. ASSUME decision[p] # None
            PROVE  LET entry == inFlight'[decision[p].endpoint] IN
                   IF entry = None THEN clock - decision[p].at >= InFlightTTL
                   ELSE decision[p].at <= entry.updated
        <5> DEFINE f == decision[p].endpoint
        <5>0. f \in Endpoints /\ decision[p].at \in Nat /\ decision[p].at <= clock
          BY <1>d, <4>2, Zenon DEF WindowInv
        <5>1. CASE f = e
          BY <2>4, <5>0, <5>1, Zenon
        <5>2. CASE f # e
          <6>1. inFlight'[f] = Retained[f]
            BY <2>4, <5>0, <5>2, Zenon
          <6>2. CASE Retained[f] = None /\ inFlight[f] # None
            <7>1. inFlight[f].updated \in Nat /\ decision[p].at <= inFlight[f].updated
              BY <4>2, <5>0, <6>2, Zenon DEF WindowInv, TypeOK, Entries
            <7>2. clock - inFlight[f].updated >= InFlightTTL
              BY <1>n, <5>0, <6>2, <7>1 DEF Retained
            <7> QED
              BY <1>n, <5>0, <6>1, <6>2, <7>1, <7>2
          <6>3. CASE Retained[f] = inFlight[f]
            BY <4>2, <6>1, <6>3, Zenon DEF WindowInv
          <6> QED
            BY <5>0, <6>2, <6>3, Zenon DEF Retained
        <5> QED
          BY <5>1, <5>2, Zenon
      <4> QED
        BY <4>0, <4>1, <4>2, Zenon DEF WindowInv
    <3> QED
      BY <3>1, <3>2, Zenon
  <2>6. ASSUME NEW f \in Endpoints, inFlight'[f] # None
        PROVE  Cardinality(Window(f)') <= inFlight'[f].count
    <3>1. /\ Cardinality(Window(f)) <= Count(Retained, f) /\ Count(Retained, f) \in Nat
          /\ IsFiniteSet(Window(f)) /\ Cardinality(Window(f)) \in Nat
      BY WindowCovered, WindowFinite, CountFacts, Zenon
    <3>2. CASE f = e
      <4>1. Window(f)' = Window(f) \cup {o} /\ o \notin Window(f)
        <5>1. o \in Window(f)'
          <6>1. clock - clock < InFlightTTL
            BY <1>n, PlacementAssumption
          <6> QED
            BY <2>2, <2>3, <3>2, <6>1, Zenon DEF Window, Decided
        <5>2. o \notin Window(f)
          BY <2>3, Zenon DEF Window, Decided
        <5>3. \A p \in Opens \ {o} : p \in Window(f)' <=> p \in Window(f)
          BY <2>2, Zenon DEF Window, Decided, OthersKeep
        <5> QED
          BY <5>1, <5>2, <5>3, Zenon DEF Window, Decided
      <4>2. Cardinality(Window(f)') = Cardinality(Window(f)) + 1
        BY <3>1, <4>1, FS_AddElement, Zenon
      <4> QED
        BY <2>4, <3>1, <3>2, <4>2
    <3>3. CASE f # e
      <4>1. Window(f)' = Window(f)
        <5>1. o \notin Window(f)' /\ o \notin Window(f)
          BY <2>3, <3>3, Zenon DEF Window, Decided
        <5>2. \A p \in Opens \ {o} : p \in Window(f)' <=> p \in Window(f)
          BY <2>2 DEF Window, Decided, OthersKeep
        <5> QED
          BY <5>1, <5>2, Zenon DEF Window, Decided
      <4>2. inFlight'[f].count = Count(Retained, f)
        BY <2>4, <2>6, <3>3, Zenon DEF Count
      <4> QED
        BY <3>1, <4>1, <4>2, Zenon
    <3> QED
      BY <3>2, <3>3, Zenon
  <2> QED
    BY <2>2, <2>5, <2>6, Zenon DEF WindowInv
<1>5. ASSUME NEW o \in Opens, PlacementFails(o) PROVE WindowInv'
  <2> DEFINE e == decision[o].endpoint
  <2>0. /\ pc[o] = "placing" /\ RollBack(e) /\ decision' = [decision EXCEPT ![o] = None]
        /\ clock' = clock /\ started' = started
    BY <1>5, Zenon DEF PlacementFails
  <2>1. decision[o] # None /\ e \in Endpoints /\ decision'[o] = None
    BY <2>0, DecisionType, Zenon DEF TypeOK, DecisionInv
  <2>2. OthersKeep(o) /\ pc'[o] \in {"failed", "check"}
    BY <1>5, StepEffects, Zenon DEF TypeOK, PlacementFails, Place, Goto
  <2>3. clock - decision[o].at < InFlightTTL
    <3>1. clock - started[o] \in 0..OpenTimeout /\ started[o] <= decision[o].at
      BY <2>0, Zenon DEF WindowInv, Running
    <3> QED
      BY <1>n, <1>d, <2>1, <3>1
  <2>4. inFlight[e] # None /\ o \in Window(e)
    BY <1>n, <1>d, <2>1, <2>3 DEF WindowInv, Window, Decided
  <2>5. /\ inFlight'[e] # None /\ inFlight'[e].updated = inFlight[e].updated
        /\ inFlight'[e].count = IF inFlight[e].count = 0 THEN 0 ELSE inFlight[e].count - 1
        /\ \A f \in Endpoints \ {e} : inFlight'[f] = inFlight[f]
    BY <2>0, <2>1, <2>4, RollBackFacts, Zenon
  <2>6. ASSUME NEW p \in Opens
        PROVE  /\ Running(p)' => clock - started[p] \in 0..OpenTimeout
               /\ pc'[p] = "placing" => started[p] <= decision'[p].at
               /\ decision'[p] # None =>
                    LET entry == inFlight'[decision'[p].endpoint] IN
                    /\ decision'[p].at <= clock
                    /\ IF entry = None THEN clock - decision'[p].at >= InFlightTTL
                       ELSE decision'[p].at <= entry.updated
    <3>1. CASE p = o
      BY <2>0, <2>1, <2>2, <3>1, Zenon DEF WindowInv, Running
    <3>2. CASE p # o
      <4>0. pc'[p] = pc[p] /\ decision'[p] = decision[p] /\ (Running(p)' <=> Running(p))
        BY <2>2, <3>2, Zenon DEF OthersKeep, Running
      <4>1. CASE decision[p] = None
        BY <4>0, <4>1, Zenon DEF WindowInv, DecisionInv
      <4>2. CASE decision[p] # None /\ decision[p].endpoint = e
        BY <2>4, <2>5, <4>0, <4>2, Zenon DEF WindowInv
      <4>3. CASE decision[p] # None /\ decision[p].endpoint # e
        <5>1. inFlight'[decision[p].endpoint] = inFlight[decision[p].endpoint]
          BY <1>d, <2>5, <4>3, Zenon
        <5> QED
          BY <4>0, <4>3, <5>1, Zenon DEF WindowInv
      <4> QED
        BY <4>1, <4>2, <4>3, Zenon
    <3> QED
      BY <3>1, <3>2, Zenon
  <2>7. ASSUME NEW f \in Endpoints, inFlight'[f] # None
        PROVE  Cardinality(Window(f)') <= inFlight'[f].count
    <3>0. IsFiniteSet(Window(f)) /\ Cardinality(Window(f)) \in Nat
      BY WindowFinite, Zenon
    <3>1. \A p \in Opens \ {o} : p \in Window(f)' <=> p \in Window(f)
      BY <2>0, <2>2, Zenon DEF Window, Decided, OthersKeep
    <3>2. o \notin Window(f)'
      BY <2>1, Zenon DEF Window, Decided
    <3>3. CASE f = e
      <4>1. Window(f)' = Window(f) \ {o} /\ o \in Window(f)
        BY <2>4, <3>1, <3>2, <3>3, Zenon DEF Window, Decided
      <4>2. Cardinality(Window(f)') = Cardinality(Window(f)) - 1
        BY <3>0, <4>1, FS_RemoveElement, Zenon
      <4>3. Cardinality(Window(f)) <= inFlight[f].count /\ inFlight[f].count \in Nat
        BY <2>4, <3>3, Zenon DEF WindowInv, TypeOK, Entries
      <4>4. Cardinality(Window(f)') \in Nat
        BY <3>0, <4>1, FS_RemoveElement, FS_CardinalityType, Zenon
      <4> QED
        BY <2>5, <3>0, <3>3, <4>2, <4>3, <4>4
    <3>4. CASE f # e
      <4>1. Window(f)' = Window(f)
        <5>1. o \notin Window(f)
          BY <3>4, Zenon DEF Window, Decided
        <5> QED
          BY <3>1, <3>2, <5>1, Zenon DEF Window, Decided
      <4> QED
        BY <2>5, <2>7, <3>4, <4>1, Zenon DEF WindowInv
    <3> QED
      BY <3>3, <3>4, Zenon
  <2> QED
    BY <2>0, <2>6, <2>7, Zenon DEF WindowInv
<1> QED
  BY <1>1, <1>2, <1>3, <1>4, <1>5, Zenon DEF Next, List, Place

\* pick and on_placement_failed keep every Placement of the window in the
\* predicted load of its endpoint, provided open_timeout is shorter than the window.
THEOREM SpecWindowIsCounted ==
  ASSUME OpenTimeout < InFlightTTL
  PROVE  Spec => []WindowIsCounted
<1>1. TypeOK /\ ListInv /\ DecisionInv /\ WindowInv /\ [Next]_vars
        => (TypeOK /\ ListInv /\ DecisionInv /\ WindowInv)'
  BY TypeStep, ListStep, DecisionStep, WindowStep, Zenon
<1>2. TypeOK /\ DecisionInv /\ WindowInv => WindowIsCounted
  BY WindowCovered, Zenon DEF WindowIsCounted, Window
<1> QED
  BY <1>1, <1>2, InitPlacement, PTL DEF Spec

-----------------------------------------------------------------------------
(* The pick.                                                               *)

\* Loads and counts are natural numbers, so their products compare.
LEMMA RatioFacts ==
  ASSUME TypeOK, ListInv, NEW o \in Opens, pc[o] = "pick", NEW a \in Remaining(o), NEW b \in Remaining(o)
  PROVE  (view[o].load[a] + Count(Retained, a)) * Capacity[b] \in Nat
<1>1. /\ a \in Endpoints /\ b \in Endpoints /\ view[o].load[a] \in Nat
  BY Zenon DEF ListInv, IsListing, Remaining
<1>2. Count(Retained, a) \in Nat /\ Capacity[b] \in Nat
  BY <1>1, CountFacts, PlacementAssumption, Zenon
<1>3. \A x, y \in Nat : x * y \in Nat
  OBVIOUS
<1>4. view[o].load[a] + Count(Retained, a) \in Nat
  BY <1>1, <1>2
<1> QED
  BY <1>2, <1>3, <1>4, Zenon

\* Of two candidates or more, pick never takes the one whose predicted ratio is
\* above all the others'.
THEOREM SpecNeverTheWorst ==
  Spec => NeverTheWorst
<1> DEFINE Better(o) ==
      LET load(e) == view[o].load[e] + Count(Retained, e)
          chosen  == decision'[o].endpoint
      IN \E e \in Remaining(o) \ {chosen} : load(chosen) * Capacity[e] <= load(e) * Capacity[chosen]
    Step == \A o \in Opens :
      pc[o] = "pick" /\ pc'[o] = "placing" /\ Cardinality(Remaining(o)) > 1 => Better(o)
<1>1. TypeOK /\ ListInv /\ [Next]_vars => Step
  <2> SUFFICES ASSUME TypeOK, ListInv, [Next]_vars, NEW o \in Opens,
                      pc[o] = "pick", pc'[o] = "placing", Cardinality(Remaining(o)) > 1
               PROVE  Better(o)
    OBVIOUS
  <2>1. Pick(o)
    <3>1. ~ UNCHANGED vars /\ ~Tick
      BY Zenon DEF vars, opens, Tick
    <3>2. PICK p \in Opens : BeginPlacement(p) \/ List(p) \/ Place(p)
      BY <3>1, Zenon DEF Next
    <3>3. p = o
      BY <3>2, StepEffects, Zenon DEF OthersKeep
    <3> QED
      BY <3>2, <3>3, Zenon DEF TypeOK, List, Place, BeginPlacement, CheckCache, ListNodes, ListFails, StoreCache,
                        SelectFails, PlacementSucceeds, PlacementFails, Goto
  <2>2. PICK first \in Remaining(o), second \in Remaining(o) :
          /\ first # second
          /\ decision' = [decision EXCEPT
               ![o] = [endpoint |-> IF LowerRatio(o, second, first) THEN second ELSE first, at |-> clock]]
    BY <2>1, Zenon DEF Pick
  <2>3. decision'[o].endpoint = IF LowerRatio(o, second, first) THEN second ELSE first
    BY <2>2, Zenon DEF TypeOK
  <2> DEFINE load(e) == view[o].load[e] + Count(Retained, e)
  <2>4. load(first) * Capacity[second] \in Nat /\ load(second) * Capacity[first] \in Nat
    BY RatioFacts, Zenon
  <2>5. CASE LowerRatio(o, second, first)
    <3>1. load(second) * Capacity[first] < load(first) * Capacity[second]
      BY <2>5, Zenon DEF LowerRatio
    <3>2. load(second) * Capacity[first] <= load(first) * Capacity[second]
      BY <2>4, <3>1
    <3>3. decision'[o].endpoint = second /\ first \in Remaining(o) \ {second}
      BY <2>2, <2>3, <2>5, Zenon
    <3> QED
      BY <3>2, <3>3, Zenon
  <2>6. CASE ~LowerRatio(o, second, first)
    <3>1. ~(load(second) * Capacity[first] < load(first) * Capacity[second])
      BY <2>6, Zenon DEF LowerRatio
    <3>2. load(first) * Capacity[second] <= load(second) * Capacity[first]
      BY <2>4, <3>1
    <3>3. decision'[o].endpoint = first /\ second \in Remaining(o) \ {first}
      BY <2>2, <2>3, <2>6, Zenon
    <3> QED
      BY <3>2, <3>3, Zenon
  <2> QED
    BY <2>5, <2>6, Zenon
<1> QED
  BY <1>1, PlacementInvariance, PTL DEF Spec, NeverTheWorst
=============================================================================
