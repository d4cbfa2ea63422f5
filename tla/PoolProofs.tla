----------------------------- MODULE PoolProofs -----------------------------
(***************************************************************************)
(* Proofs about Pool, for any pool size and any number of routes, dead     *)
(* routes, rotations, refused creations and failing writes: its types,     *)
(* that the record names the pool between updates, and that the receiver   *)
(* never takes down a route it advertises.                                 *)
(***************************************************************************)
EXTENDS Pool, FiniteSetTheorems, WellFoundedInduction, TLAPS

USE DEF entries, rendezvous

\* Every route anything refers to was created.
Created == routes \cup retiring \cup record \cup up \cup news \subseteq 1 .. created

\* The pool has room while it is filled, and is empty only then or at the end.
Filled ==
  /\ phase \in {"build", "top_up"} => Cardinality(routes) < Want
  /\ routes = {} => phase \in {"build", "top_up", "stopped"}

\* A retired route is not one of the pool's, ...
Retired == routes \cap retiring = {}

\* ... and the pool's own are answered, or their death waits to be handled.
Works == routes \subseteq up \cup news

\* A rotation under way has an idle route to retire.
CanRotate == phase = "rotate" => routes \ hot # {}

\* What the record names, outside the steps that are about to write it.
Advertised ==
  /\ phase \in {"build", "open"} => ~ has_record
  /\ ~ has_record => record = {} /\ phase # "publish"
  /\ phase \in {"loop", "rotate"} /\ has_record /\ ~ stale => record = routes

PoolInv ==
  /\ TypeOK /\ Created /\ Filled /\ Retired
  /\ Works /\ CanRotate /\ Advertised

-----------------------------------------------------------------------------
(* Sets of routes.                                                         *)

LEMMA RoutesFinite ==
  ASSUME NEW S \in SUBSET RouteIds
  PROVE  IsFiniteSet(S) /\ Cardinality(S) \in Nat
<1>1. IsFiniteSet(1 .. MaxRoutes)
  BY PoolAssumption, FS_Interval
<1> QED
  BY <1>1, FS_Subset, FS_CardinalityType DEF RouteIds

\* The oldest of some routes is one of them.
LEMMA OldestIsOne ==
  ASSUME NEW S \in SUBSET RouteIds, S # {}
  PROVE  Oldest(S) \in S
<1>1. S \subseteq Nat
  BY PoolAssumption DEF RouteIds
<1>2. PICK m \in S : \A j \in S : ~ (<<j, m>> \in OpToRel(<, Nat))
  BY <1>1, NatLessThanWellFounded, WFMin
<1>3. \A j \in S : ~ (j < m)
  BY <1>1, <1>2 DEF OpToRel
<1>4. \A j \in S : m <= j
  BY <1>1, <1>3
<1> QED
  BY <1>4 DEF Oldest

\* A new route is none of those there are.
LEMMA FreshRoute ==
  ASSUME PoolInv, created < MaxRoutes
  PROVE  /\ Fresh \in RouteIds /\ Fresh \in 0 .. MaxRoutes
         /\ Fresh \notin routes \cup retiring \cup record \cup up \cup news
         /\ Fresh \in 1 .. Fresh
         /\ 1 .. created \subseteq 1 .. Fresh
         /\ Cardinality(routes \cup {Fresh}) = Cardinality(routes) + 1
<1>1. created \in Nat /\ MaxRoutes \in Nat /\ Fresh = created + 1
  BY PoolAssumption DEF PoolInv, TypeOK, Fresh
<1>2. /\ Fresh \in RouteIds /\ Fresh \in 0 .. MaxRoutes /\ Fresh \in 1 .. Fresh
      /\ 1 .. created \subseteq 1 .. Fresh /\ Fresh \notin 1 .. created
  BY <1>1 DEF RouteIds
<1>3. Fresh \notin routes \cup retiring \cup record \cup up \cup news
  BY <1>2 DEF PoolInv, Created
<1>4. IsFiniteSet(routes)
  BY RoutesFinite DEF PoolInv, TypeOK
<1>5. Cardinality(routes \cup {Fresh}) = Cardinality(routes) + 1
  BY <1>3, <1>4, FS_AddElement
<1> QED
  BY <1>2, <1>3, <1>5

-----------------------------------------------------------------------------
(* The invariant.                                                          *)

LEMMA PoolInit == Init => PoolInv
<1> SUFFICES ASSUME Init PROVE PoolInv
  OBVIOUS
<1>1. Cardinality({}) = 0 /\ MaxRoutes \in Nat /\ Want \in Nat /\ Want # 0
  BY PoolAssumption, FS_EmptySet
<1>2. TypeOK
  <2>1. Cardinality(routes) = 0 /\ created \in 0 .. MaxRoutes /\ 0 <= Want
    BY <1>1 DEF Init
  <2> QED
    BY <2>1 DEF Init, TypeOK
<1>3. Filled
  BY <1>1 DEF Init, Filled
<1>4. Created /\ Retired /\ Works /\ CanRotate /\ Advertised
  BY DEF Init, Created, Retired, Works, CanRotate, Advertised
<1> QED
  BY <1>2, <1>3, <1>4 DEF PoolInv

\* A route that joins the pool, in building it or in topping it up; the phase
\* that follows has the pool filled or not.
LEMMA Joins ==
  ASSUME PoolInv, Creates, phase \in {"build", "top_up"},
         routes' = routes \cup {Fresh},
         phase' \in {"build", "open", "top_up", "publish", "stopped"},
         phase' \in {"build", "top_up"} => Cardinality(routes') < Want,
         phase' = "publish" => has_record,
         phase' \in {"build", "open"} => phase = "build",
         UNCHANGED <<retiring, expired, hot, unread, news, rendezvous>>
  PROVE  PoolInv'
<1>1. /\ created < MaxRoutes /\ created' = Fresh /\ up' = up \cup {Fresh}
  BY DEF Creates
<1>2. Cardinality(routes) \in Nat /\ Want \in Nat
  BY RoutesFinite, PoolAssumption DEF PoolInv, TypeOK
<1>3. Cardinality(routes') <= Want
  <2>1. Cardinality(routes') = Cardinality(routes) + 1
    BY <1>1, FreshRoute
  <2> QED
    BY <1>2, <2>1 DEF PoolInv, Filled
<1>4. TypeOK'
  BY <1>1, <1>3, FreshRoute DEF PoolInv, TypeOK
<1>5. Created'
  BY <1>1, FreshRoute DEF PoolInv, Created
<1>6. Filled' /\ Retired' /\ Works'
  BY <1>1, FreshRoute DEF PoolInv, Filled, Retired, Works
<1>7. CanRotate' /\ Advertised'
  BY DEF PoolInv, CanRotate, Advertised
<1> QED
  BY <1>4, <1>5, <1>6, <1>7 DEF PoolInv

LEMMA BuildKeeps == ASSUME PoolInv, BuildOne PROVE PoolInv'
<1>1. CASE Creates
           /\ routes' = routes \cup {Fresh}
           /\ phase' = IF Cardinality(routes') < Want THEN "build" ELSE "open"
  BY <1>1, Joins DEF BuildOne
<1>2. CASE Refuses /\ routes # {} /\ phase' = "open" /\ UNCHANGED routes
  BY <1>2 DEF BuildOne, Refuses, PoolInv, TypeOK, Created, Filled, Retired, Works,
              CanRotate, Advertised
<1>3. CASE Refuses /\ routes = {} /\ phase' = "stopped" /\ UNCHANGED routes
  BY <1>3 DEF BuildOne, Refuses, PoolInv, TypeOK, Created, Filled, Retired, Works,
              CanRotate, Advertised
<1> QED
  BY <1>1, <1>2, <1>3 DEF BuildOne

LEMMA TopUpKeeps == ASSUME PoolInv, TopUp PROVE PoolInv'
<1>1. CASE Creates
           /\ routes' = routes \cup {Fresh}
           /\ phase' = IF Cardinality(routes') < Want THEN "top_up" ELSE AfterTopUp(routes')
  BY <1>1, Joins DEF TopUp, AfterTopUp
<1>2. CASE Refuses /\ phase' = AfterTopUp(routes) /\ UNCHANGED routes
  BY <1>2 DEF TopUp, AfterTopUp, Refuses, PoolInv, TypeOK, Created, Filled, Retired,
              Works, CanRotate, Advertised
<1> QED
  BY <1>1, <1>2 DEF TopUp

LEMMA RecordKeeps == ASSUME PoolInv, OpenRecord \/ Publish PROVE PoolInv'
<1>1. TypeOK' /\ Created' /\ Filled' /\ Retired' /\ Works' /\ CanRotate'
  BY DEF OpenRecord, Publish, PoolInv, TypeOK, Created, Filled, Retired, Works, CanRotate
<1>2. ASSUME OpenRecord PROVE Advertised'
  BY <1>2 DEF OpenRecord, PoolInv, Advertised
<1>3. ASSUME Publish PROVE Advertised'
  BY <1>3 DEF Publish, PoolInv, Advertised
<1>4. Advertised'
  BY <1>2, <1>3
<1> QED
  BY <1>1, <1>4 DEF PoolInv

LEMMA RouteChangeKeeps ==
  ASSUME PoolInv, NEW dead \in SUBSET news, RouteChange(dead)
  PROVE  PoolInv'
<1>1. /\ routes' = routes \ dead /\ routes' \subseteq routes /\ news' = news \ dead
      /\ UNCHANGED <<retiring, expired, unread, up, rendezvous, created>>
      /\ phase = "loop" /\ hot' = hot \ dead
      /\ phase' = IF dead \cap routes = {} THEN "loop" ELSE "top_up"
  BY DEF RouteChange
<1>2. IsFiniteSet(routes) /\ Cardinality(routes) \in Nat /\ Want \in Nat
      /\ Cardinality(routes) <= Want
  BY RoutesFinite, PoolAssumption DEF PoolInv, TypeOK
<1>3. Cardinality(routes') <= Cardinality(routes) /\ Cardinality(routes') \in Nat
  BY <1>1, <1>2, FS_Subset, FS_CardinalityType
<1>4. routes' # routes => Cardinality(routes') < Want
  <2>1. routes' # routes => Cardinality(routes') # Cardinality(routes)
    BY <1>1, <1>2, FS_Subset
  <2> QED
    BY <1>2, <1>3, <2>1
<1>5. TypeOK'
  BY <1>1, <1>2, <1>3 DEF PoolInv, TypeOK
<1>6. Filled' /\ CanRotate' /\ Advertised'
  BY <1>1, <1>4 DEF PoolInv, Filled, CanRotate, Advertised
<1>7. Created' /\ Retired' /\ Works'
  BY <1>1 DEF PoolInv, Created, Retired, Works
<1> QED
  BY <1>5, <1>6, <1>7 DEF PoolInv

LEMMA TickKeeps == ASSUME PoolInv, RotateTick PROVE PoolInv'
BY DEF RotateTick, PoolInv, TypeOK, Created, Filled, Retired, Works, CanRotate, Advertised

LEMMA RotateKeeps == ASSUME PoolInv, Rotate PROVE PoolInv'
<1> DEFINE old == Oldest(routes \ hot)
<1>1. CASE /\ Creates
           /\ routes' = (routes \cup {Fresh}) \ {old}
           /\ retiring' = retiring \cup {old}
           /\ phase' = IF has_record THEN "publish" ELSE "loop"
  <2>1. routes \ hot \in SUBSET RouteIds /\ routes \ hot # {}
    BY DEF Rotate, PoolInv, TypeOK, CanRotate
  <2>2. old \in routes \ hot
    BY <2>1, OldestIsOne
  <2> HIDE DEF old
  <2>3. /\ created < MaxRoutes /\ created' = Fresh /\ up' = up \cup {Fresh}
        /\ UNCHANGED <<expired, hot, unread, news, rendezvous>>
    BY <1>1 DEF Creates, Rotate
  <2>4. /\ Fresh # old /\ Fresh \in routes' /\ old \in RouteIds
        /\ old \in 1 .. created
    BY <1>1, <2>1, <2>2, <2>3, FreshRoute DEF PoolInv, Created
  <2>5. Cardinality(routes') <= Want
    <3>1. IsFiniteSet(routes \cup {Fresh}) /\ Cardinality(routes \cup {Fresh}) \in Nat
      BY <2>3, FreshRoute, RoutesFinite DEF PoolInv, TypeOK
    <3>2. Cardinality(routes') = Cardinality(routes \cup {Fresh}) - 1
      BY <1>1, <2>2, <3>1, FS_RemoveElement
    <3>3. Cardinality(routes) <= Want /\ Cardinality(routes) \in Nat /\ Want \in Nat
      BY RoutesFinite, PoolAssumption DEF PoolInv, TypeOK
    <3> QED
      BY <2>3, <3>2, <3>3, FreshRoute
  <2>6. TypeOK'
    BY <1>1, <2>3, <2>4, <2>5, FreshRoute DEF PoolInv, TypeOK
  <2>7. Created' /\ Retired' /\ Works'
    BY <1>1, <2>3, <2>4, FreshRoute DEF PoolInv, Created, Retired, Works
  <2>8. Filled' /\ CanRotate' /\ Advertised'
    BY <1>1, <2>3, <2>4 DEF PoolInv, Filled, CanRotate, Advertised
  <2> QED
    BY <2>6, <2>7, <2>8 DEF PoolInv
<1>2. CASE Refuses /\ phase' = "loop" /\ UNCHANGED <<routes, retiring>>
  BY <1>2 DEF Rotate, Refuses, PoolInv, TypeOK, Created, Filled, Retired, Works,
              CanRotate, Advertised
<1> QED
  BY <1>1, <1>2 DEF Rotate

\* What the network, the clock and a message do to the pool.
LEMMA OutsideKeeps ==
  ASSUME PoolInv, NEW r \in RouteIds,
         HandleMessage(r) \/ Arrives(r) \/ RouteDies(r) \/ Cool(r) \/ GraceEnds(r)
  PROVE  PoolInv'
<1>1. CASE HandleMessage(r)
  BY <1>1 DEF HandleMessage, PoolInv, TypeOK, Created, Filled, Retired, Works, CanRotate,
              Advertised
<1>2. CASE Arrives(r) \/ RouteDies(r)
  BY <1>2 DEF Arrives, RouteDies, PoolInv, TypeOK, Created, Filled, Retired, Works,
              CanRotate, Advertised
<1>3. CASE Cool(r) \/ GraceEnds(r)
  BY <1>3 DEF Cool, GraceEnds, PoolInv, TypeOK, Created, Filled, Retired, Works,
              CanRotate, Advertised
<1> QED
  BY <1>1, <1>2, <1>3

LEMMA PoolStep == PoolInv /\ [Next]_poolvars => PoolInv'
<1> SUFFICES ASSUME PoolInv, [Next]_poolvars PROVE PoolInv'
  OBVIOUS
<1>1. CASE Step
  BY <1>1, BuildKeeps, RecordKeeps, TopUpKeeps, RotateKeeps DEF Step
<1>2. CASE RotateTick
  BY <1>2, TickKeeps
<1>3. CASE Stop
  BY <1>3 DEF Stop, PoolInv, TypeOK, Created, Filled, Retired, Works, CanRotate, Advertised
<1>4. CASE UNCHANGED poolvars
  BY <1>4 DEF poolvars, PoolInv, TypeOK, Created, Filled, Retired, Works, CanRotate,
              Advertised
<1>5. ASSUME NEW r \in RouteIds,
             HandleMessage(r) \/ Arrives(r) \/ RouteDies(r) \/ Cool(r) \/ GraceEnds(r)
      PROVE  PoolInv'
  BY <1>5, OutsideKeeps
<1>6. ASSUME NEW dead \in SUBSET news, RouteChange(dead) PROVE PoolInv'
  BY <1>6, RouteChangeKeeps
<1> QED
  BY <1>1, <1>2, <1>3, <1>4, <1>5, <1>6, Zenon DEF Next, Ended

-----------------------------------------------------------------------------
(* The theorems.                                                           *)

\* The inductive invariant holds in every state.
THEOREM PoolInvariant == Spec => []PoolInv
<1> QED
  BY PoolInit, PoolStep, PTL DEF Spec

\* Types: in particular a pool never holds more than cfg.pool routes.
THEOREM PoolTypeCorrect == Spec => []TypeOK
<1>1. PoolInv => TypeOK
  BY DEF PoolInv
<1> QED
  BY <1>1, PoolInvariant, PTL

\* Between updates the pool is not empty, each of its routes works or its death
\* waits to be handled, and the record names it unless the last write failed.
THEOREM RecordIsThePoolTheorem == Spec => []RecordIsThePool
<1>1. PoolInv => RecordIsThePool
  BY DEF PoolInv, Filled, Works, Advertised, RecordIsThePool
<1> QED
  BY <1>1, PoolInvariant, PTL

\* Unless the last write failed, an advertised route stops being answered only by
\* dying: rotation retires a route a grace period before it is released, and by
\* then the record no longer names it.
THEOREM NeverDropsAdvertisedTheorem == Spec => NeverDropsAdvertised
<1>1. ASSUME PoolInv, [Next]_poolvars
      PROVE  [~ stale => \A r \in record \cap up : r \in up' \cup news']_poolvars
  <2> SUFFICES ASSUME ~ stale, NEW r \in record, r \in up PROVE r \in up' \cup news'
    OBVIOUS
  <2>1. CASE RotateTick
    BY <1>1, <2>1 DEF RotateTick, PoolInv, TypeOK, Retired, Advertised
  <2>2. CASE Step
    BY <2>2 DEF Step, BuildOne, OpenRecord, TopUp, Publish, Rotate, Creates, Refuses
  <2>3. CASE Stop \/ UNCHANGED poolvars
    BY <2>3 DEF Stop, poolvars
  <2>4. ASSUME NEW s \in RouteIds,
               HandleMessage(s) \/ Arrives(s) \/ RouteDies(s) \/ Cool(s) \/ GraceEnds(s)
        PROVE  r \in up' \cup news'
    BY <2>4 DEF HandleMessage, Arrives, RouteDies, Cool, GraceEnds
  <2>5. ASSUME NEW dead \in SUBSET news, RouteChange(dead)
        PROVE  r \in up' \cup news'
    BY <2>5 DEF RouteChange
  <2> QED
    BY <1>1, <2>1, <2>2, <2>3, <2>4, <2>5, Zenon DEF Next, Ended
<1> QED
  BY <1>1, PoolInvariant, PTL DEF Spec, NeverDropsAdvertised

=============================================================================
