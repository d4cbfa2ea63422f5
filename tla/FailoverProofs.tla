--------------------------- MODULE FailoverProofs ---------------------------
(***************************************************************************)
(* Failover's invariants, for any routes, files, pool size and limit, and  *)
(* a receiver that does as it likes.                                       *)
(***************************************************************************)
EXTENDS Failover, TLAPS

\* What a step of send() preserves: where it is in its list of routes, and how
\* many attempts the lists read so far account for.
FailoverInv == TypeOK /\ AlwaysARoute /\ Counted /\ BoundedTries

\* A list holds no more routes than a record can.
LEMMA ListLength ==
  ASSUME NEW l \in Lists
  PROVE  /\ l \in Seq(Routes)
         /\ Len(l) \in 0 .. PoolSize
         /\ l # << >> => Len(l) >= 1
<1> USE FailoverAssumption
<1>1. PICK n \in 0 .. PoolSize : l \in [1 .. n -> Routes]
  BY DEF Lists
<1>2. l \in Seq(Routes) /\ Len(l) = n
  BY <1>1
<1> QED
  BY <1>1, <1>2

LEMMA FailoverInit == Init => FailoverInv
<1> SUFFICES ASSUME Init PROVE FailoverInv
  OBVIOUS
<1> USE FailoverAssumption DEF Init, SenderInit, EnvInit
<1>1. << >> \in Lists
  <2>1. << >> \in [1 .. 0 -> Routes] /\ 0 \in 0 .. PoolSize
    OBVIOUS
  <2> QED
    BY <2>1 DEF Lists
<1>2. PoolSize * (MaxPoolRefreshes + 1) \in Nat /\ refreshes * PoolSize = 0
  OBVIOUS
<1>3. TypeOK
  BY <1>1 DEF TypeOK
<1> QED
  BY <1>2, <1>3 DEF FailoverInv, AlwaysARoute, Counted, BoundedTries

LEMMA FailoverStep == FailoverInv /\ [Next]_allvars => FailoverInv'
<1> SUFFICES ASSUME FailoverInv, [Next]_allvars PROVE FailoverInv'
  OBVIOUS
<1> USE FailoverAssumption
<1> USE DEF FailoverInv, TypeOK, AlwaysARoute, Counted, BoundedTries, Ends, Errors
<1>1. Len(routes) \in 0 .. PoolSize
  BY ListLength
<1>2. CASE Import
  <2>1. routes' \in Lists /\ routes' # << >>
    BY <1>2 DEF Import, Imported
  <2>2. Len(routes') \in 1 .. PoolSize
    BY <2>1, ListLength
  <2> QED
    BY <1>2, <2>1, <2>2 DEF Import, envvars
<1>3. CASE ImportFails
  BY <1>3 DEF ImportFails, envvars
<1>4. CASE Deliver
  <2>1. refreshes' * PoolSize = 0 /\ PoolSize * (MaxPoolRefreshes + 1) \in Nat
    BY <1>4 DEF Deliver
  <2> QED
    BY <1>4, <2>1 DEF Deliver, envvars
<1>5. CASE RouteUnusable
  <2> DEFINE R == refreshes * PoolSize
             Limit == PoolSize * (MaxPoolRefreshes + 1)
  <2>1. /\ R \in Nat
        /\ (refreshes + 1) * PoolSize = R + PoolSize
        /\ R + PoolSize <= Limit
    <3>1. refreshes \in 0 .. MaxPoolRefreshes
      BY <1>5 DEF RouteUnusable
    <3>2. (refreshes + 1) * PoolSize = R + PoolSize
      BY <3>1
    <3>3. \A a, b, c \in Nat : a <= b => a * c <= b * c
      OBVIOUS
    <3> QED
      BY <3>1, <3>2, <3>3
  <2>2. tries + 1 <= current + R /\ current <= PoolSize /\ current \in Nat
    BY <1>1, <1>5 DEF RouteUnusable
  <2>3. tries + 1 <= R + PoolSize
    BY <2>1, <2>2
  <2> HIDE DEF R, Limit
  <2>4. BoundedTries'
    BY <1>5, <2>1, <2>3 DEF RouteUnusable, R, Limit
  <2>5. CASE Spare
    BY <1>1, <1>5, <2>1, <2>2, <2>4, <2>5 DEF RouteUnusable, Spare, envvars, R
  <2>6. CASE ~ Spare
    <3>1. CASE source = "blob"
      BY <1>5, <2>2, <2>4, <2>6, <3>1 DEF RouteUnusable, envvars
    <3>2. CASE source = "rendezvous"
      <4>1. refreshes' * PoolSize = R + PoolSize
        BY <1>5, <2>1, <2>6, <3>2 DEF RouteUnusable
      <4> QED
        BY <1>5, <2>2, <2>3, <2>4, <2>6, <3>2, <4>1 DEF RouteUnusable, Gone, envvars
    <3> QED
      BY <3>1, <3>2
  <2> QED
    BY <2>5, <2>6
<1>6. CASE Interrupted
  BY <1>6 DEF Interrupted, envvars
<1>7. CASE Fatal
  BY <1>7 DEF Fatal, envvars
<1>8. CASE Republish
  BY <1>8 DEF Republish, fovars
<1>9. CASE RouteChanges
  BY <1>9 DEF RouteChanges, fovars
<1>10. CASE ReadyChanges
  BY <1>10 DEF ReadyChanges, fovars
<1>11. CASE UNCHANGED allvars
  BY <1>11 DEF allvars, fovars, envvars
<1> QED
  BY <1>2, <1>3, <1>4, <1>5, <1>6, <1>7, <1>8, <1>9, <1>10, <1>11 DEF Next, SenderStep, Ended

\* The invariant the theorems below follow from holds of every run: the loop of
\* send() keeps its place in the list, and its count of attempts is what the
\* lists it has read allow.
THEOREM FailoverInvariant == Spec => []FailoverInv
<1> QED
  BY FailoverInit, FailoverStep, PTL DEF Spec

\* Every attempt is on a route that was imported, whatever ended the one before:
\* send() never indexes past the list.
THEOREM AlwaysARouteTheorem == Spec => []AlwaysARoute
<1>1. FailoverInv => AlwaysARoute
  BY DEF FailoverInv
<1> QED
  BY FailoverInvariant, <1>1, PTL

\* Whatever the receiver's routes and record do, a file costs at most one
\* attempt for each route of each list send() is willing to read.
THEOREM BoundedTriesTheorem == Spec => []BoundedTries
<1>1. FailoverInv => BoundedTries
  BY DEF FailoverInv
<1> QED
  BY FailoverInvariant, <1>1, PTL

=============================================================================
