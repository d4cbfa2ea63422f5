-------------------------------- MODULE Pool --------------------------------
(***************************************************************************)
(* The receiver's private routes and the record it publishes them in: the  *)
(* Pool, the Rendezvous, and the RouteChange and rotation arms of recv().  *)
(*                                                                         *)
(* Routes are numbered in the order they are created, so a smaller number  *)
(* is an older route, and a Vec of entries is the set of its routes: new   *)
(* ones are only ever pushed at the end.  Time is abstracted to what the   *)
(* code asks of it: whether a route carried a message within HOT_WINDOW,   *)
(* and whether a retired one has had its ROTATION_GRACE.                   *)
(***************************************************************************)
EXTENDS Integers, FiniteSets

CONSTANTS
  MaxRoutes,       \* bound: routes the receiver ever creates
  Want,            \* cfg.pool, at least 1
  Rotates,         \* whether cfg.rotate_secs is not 0
  CreateMayFail    \* whether veilid can refuse to create a route

ASSUME PoolAssumption ==
  /\ MaxRoutes \in Nat \ {0}
  /\ Want \in Nat \ {0}
  /\ {Rotates, CreateMayFail} \subseteq BOOLEAN

VARIABLES
  routes,      \* pool.routes
  retiring,    \* pool.retiring
  expired,     \* those of them whose grace has run out
  hot,         \* routes the pool counts as carrying traffic
  unread,      \* routes with a message still in the updates channel
  up,          \* routes of this node the network still answers
  news,        \* dead routes the node has not handled the RouteChange of
  record,      \* the routes subkey 0 of the DHT record names
  has_record,  \* `rendezvous` is Some
  stale,       \* history: the last write of the record failed
  created,     \* routes created so far
  phase        \* where recv() is

entries == <<routes, retiring, expired, hot>>
rendezvous == <<record, has_record, stale>>
poolvars == <<entries, unread, up, news, rendezvous, created, phase>>

RouteIds == 1 .. MaxRoutes

Init ==
  /\ routes = {} /\ retiring = {} /\ expired = {}
  /\ hot = {} /\ unread = {} /\ up = {} /\ news = {}
  /\ record = {}
  /\ has_record = FALSE /\ stale = FALSE
  /\ created = 0
  /\ phase = "build"

-----------------------------------------------------------------------------
(* create_route: a new route, or an error.                                 *)

Fresh == created + 1

Creates ==
  /\ created < MaxRoutes
  /\ created' = Fresh
  /\ up' = up \cup {Fresh}

Refuses == (CreateMayFail \/ created = MaxRoutes) /\ UNCHANGED <<created, up>>

-----------------------------------------------------------------------------
(* Starting up: Pool::build, Rendezvous::open and the first publish.       *)

\* Without a first route the run ends; the others are best effort.
BuildOne ==
  /\ phase = "build"
  /\ \/ /\ Creates
        /\ routes' = routes \cup {Fresh}
        /\ phase' = IF Cardinality(routes') < Want THEN "build" ELSE "open"
     \/ /\ Refuses
        /\ phase' = IF routes = {} THEN "stopped" ELSE "open"
        /\ UNCHANGED routes
  /\ UNCHANGED <<retiring, expired, hot, unread, news, rendezvous>>

\* Without a record the run goes on, with the blob it prints.
OpenRecord ==
  /\ phase = "open"
  /\ \/ record' = routes /\ has_record' = TRUE
     \/ UNCHANGED <<record, has_record>>
  /\ phase' = "loop"
  /\ UNCHANGED <<entries, unread, up, news, stale, created>>

-----------------------------------------------------------------------------
(* The select! loop.                                                       *)

\* A message that arrived is handled.  note_traffic marks an entry of the pool
\* only; a retiring route is not one.
HandleMessage(r) ==
  /\ phase = "loop"
  /\ r \in unread
  /\ unread' = unread \ {r}
  /\ hot' = IF r \in routes THEN hot \cup {r} ELSE hot
  /\ UNCHANGED <<routes, retiring, expired, up, news, rendezvous, created, phase>>

\* Mutant: the topped-up pool is not published.
AfterTopUpQuiet(pool) == IF pool = {} \/ ~ has_record THEN "stopped" ELSE "loop"

\* After a dead route is dropped and the pool topped up: a pool that is empty,
\* or that cannot be published, ends the run.
AfterTopUp(pool) == IF pool = {} \/ ~ has_record THEN "stopped" ELSE "publish"

\* A RouteChange names some dead routes.  Only those the pool holds count.
RouteChange(dead) ==
  /\ phase = "loop"
  /\ dead # {} /\ dead \subseteq news
  /\ news' = news \ dead
  /\ routes' = routes \ dead
  /\ hot' = hot \ dead
  /\ phase' = IF dead \cap routes = {} THEN "loop" ELSE "top_up"
  /\ UNCHANGED <<retiring, expired, unread, up, rendezvous, created>>

\* One turn of replace_dead's loop.
TopUp ==
  /\ phase = "top_up"
  /\ \/ /\ Creates
        /\ routes' = routes \cup {Fresh}
        /\ phase' = IF Cardinality(routes') < Want THEN "top_up" ELSE AfterTopUp(routes')
     \/ /\ Refuses
        /\ phase' = AfterTopUp(routes)
        /\ UNCHANGED routes
  /\ UNCHANGED <<retiring, expired, hot, unread, news, rendezvous>>

\* The write either replaces the record or fails, and is not tried again.
Publish ==
  /\ phase = "publish"
  /\ \/ record' = routes /\ stale' = FALSE
     \/ stale' = TRUE /\ UNCHANGED record
  /\ phase' = "loop"
  /\ UNCHANGED <<entries, unread, up, news, has_record, created>>

\* The rotation timer: release what has had its grace, then leave a pool that
\* is all busy alone or start a replacement.
RotateTick ==
  /\ Rotates
  /\ phase = "loop"
  /\ up' = up \ expired
  /\ retiring' = retiring \ expired
  /\ expired' = {}
  /\ phase' = IF routes \subseteq hot THEN "loop" ELSE "rotate"
  /\ UNCHANGED <<routes, hot, unread, news, rendezvous, created>>

\* The oldest idle route makes room for the new one.
Oldest(idle) == CHOOSE r \in idle : \A s \in idle : r <= s

\* Mutant: break before make, the old route is released at once.
RotateBreaksFirst ==
  /\ phase = "rotate"
  /\ created < MaxRoutes
  /\ created' = Fresh
  /\ LET old == Oldest(routes \ hot) IN
       /\ routes' = (routes \cup {Fresh}) \ {old}
       /\ up' = (up \cup {Fresh}) \ {old}
  /\ phase' = IF has_record THEN "publish" ELSE "loop"
  /\ UNCHANGED <<retiring, expired, hot, unread, news, rendezvous>>

Rotate ==
  /\ phase = "rotate"
  /\ \/ /\ Creates
        /\ LET old == Oldest(routes \ hot) IN
             /\ routes' = (routes \cup {Fresh}) \ {old}
             /\ retiring' = retiring \cup {old}
        /\ phase' = IF has_record THEN "publish" ELSE "loop"
     \/ /\ Refuses
        /\ phase' = "loop"
        /\ UNCHANGED <<routes, retiring>>
  /\ UNCHANGED <<expired, hot, unread, news, rendezvous>>

-----------------------------------------------------------------------------
(* The network and the clock.                                              *)

\* A message arrives, wherever the loop is.
Arrives(r) ==
  /\ r \in up
  /\ unread' = unread \cup {r}
  /\ UNCHANGED <<entries, up, news, rendezvous, created, phase>>

RouteDies(r) ==
  /\ r \in up
  /\ up' = up \ {r}
  /\ news' = news \cup {r}
  /\ UNCHANGED <<entries, unread, rendezvous, created, phase>>

\* HOT_WINDOW has passed since the last message the pool took note of.
Cool(r) ==
  /\ r \in hot
  /\ hot' = hot \ {r}
  /\ UNCHANGED <<routes, retiring, expired, unread, up, news, rendezvous, created, phase>>

\* ROTATION_GRACE has passed since the route was retired.
GraceEnds(r) ==
  /\ r \in retiring \ expired
  /\ expired' = expired \cup {r}
  /\ UNCHANGED <<routes, retiring, hot, unread, up, news, rendezvous, created, phase>>

\* Ctrl-C, or the node shutting down.
Stop ==
  /\ phase = "loop"
  /\ phase' = "interrupted"
  /\ UNCHANGED <<entries, unread, up, news, rendezvous, created>>

Ended == phase \in {"stopped", "interrupted"} /\ UNCHANGED poolvars

Step == BuildOne \/ OpenRecord \/ TopUp \/ Publish \/ Rotate

Next ==
  \/ Step \/ RotateTick \/ Stop \/ Ended
  \/ \E r \in RouteIds :
       HandleMessage(r) \/ Arrives(r) \/ RouteDies(r) \/ Cool(r) \/ GraceEnds(r)
  \/ \E dead \in SUBSET news : RouteChange(dead)

Spec == Init /\ [][Next]_poolvars

\* recv() finishes what it has begun and handles every RouteChange; the clock,
\* the timer and the network owe nothing.
FairSpec ==
  /\ Spec
  /\ WF_poolvars(Step)
  /\ \A r \in RouteIds : SF_poolvars(r \in news /\ RouteChange({r}))

-----------------------------------------------------------------------------
(* Properties.                                                             *)

\* Every variable has its type; a pool never grows past what was asked for.
TypeOK ==
  /\ routes \subseteq RouteIds /\ Cardinality(routes) <= Want
  /\ retiring \subseteq RouteIds
  /\ expired \subseteq retiring
  /\ hot \subseteq RouteIds
  /\ unread \subseteq RouteIds
  /\ up \subseteq RouteIds
  /\ news \subseteq RouteIds
  /\ record \subseteq RouteIds
  /\ has_record \in BOOLEAN /\ stale \in BOOLEAN
  /\ created \in 0 .. MaxRoutes
  /\ phase \in {"build", "open", "loop", "top_up", "publish", "rotate", "stopped",
                "interrupted"}

\* Between updates the pool is not empty and is what works: each of its routes is
\* answered, or its death is waiting to be handled.  And the record names it,
\* unless the last write failed: so the first thing a sender that reads it then
\* can find wrong is a death not yet reported.
RecordIsThePool ==
  phase = "loop" =>
    /\ routes # {}
    /\ routes \subseteq up \cup news
    /\ has_record /\ ~ stale => record = routes

\* "Never a moment with fewer live routes than advertised": unless the last write
\* failed, a route the record names stops being answered by dying, never by the
\* receiver's own doing.
NeverDropsAdvertised ==
  [][~ stale => \A r \in record \cap up : r \in up' \cup news']_poolvars

\* A dead route does not stay advertised: it leaves the record, or a write of the
\* record fails, or the receiver has stopped.
DeadIsUnpublished ==
  \A r \in RouteIds :
    r \in record \ up ~> r \notin record \/ stale \/ phase \in {"stopped", "interrupted"}

=============================================================================
