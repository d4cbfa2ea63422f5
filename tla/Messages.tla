------------------------------ MODULE Messages ------------------------------
(***************************************************************************)
(* Direct messages: browsers' tasks run send_dm() against the route list a *)
(* peer publishes, and the peer's update loop takes calls and dead routes  *)
(* off one queue, in order.  While the loop rebuilds its pool, calls wait. *)
(*                                                                         *)
(* An app_call can be lost on its way, arrive after its caller has given   *)
(* up, or be handled with the answer lost: the caller sees one error for   *)
(* all of them, and goes on to the next route.                             *)
(***************************************************************************)
EXTENDS Integers, Sequences, FiniteSets

CONSTANTS
  DMs,          \* messages, each sent once by a task of its own
  Want,         \* cfg.pool.max(1)
  MaxRoutes,    \* bound: routes created
  MaxDeaths,    \* bound: routes that die
  MaxFails,     \* bound: failed route creations and DHT writes
  MaxEdits,     \* bound: profile edits on the peer
  MaxRestarts,  \* bound: restarts of the peer
  None

ASSUME MessagesAssumption ==
  /\ IsFiniteSet(DMs)
  /\ Want \in Nat \ {0}
  /\ {MaxDeaths, MaxFails, MaxEdits, MaxRestarts} \subseteq Nat
  /\ MaxRoutes \in Nat /\ MaxRoutes >= Want * (1 + MaxRestarts) + MaxDeaths
  /\ None \notin DMs

VARIABLES
  routes,   \* st.routes, and with it the list in st.profile.routes
  record,   \* the route list in subkey 0 of the peer's record
  live,     \* routes that are up
  queue,    \* updates waiting for the loop: calls, and deaths of routes
  loop,     \* the update loop: serving, creating routes, publishing
  editor,   \* a browser's task on the peer that publishes an edited profile
  inbox,    \* how many copies of each message are in st.inbox
  pushed,   \* messages that were ever in an inbox, over all runs of the peer
  snd,      \* the task that sends each message
  net,      \* calls under way
  created, deaths, fails, edits, restarts

peer == <<routes, loop, editor, inbox, pushed>>
counts == <<created, deaths, fails, edits, restarts>>
vars == <<peer, record, live, queue, snd, net, counts>>

Routes == 1 .. MaxRoutes
NewRoutes(n) == [i \in 1 .. n |-> created + i]
InUse(list) == {list[i] : i \in DOMAIN list}
Without(list, dead) == SelectSeq(list, LAMBDA x : x \notin dead)

\* An entry of the queue: a call, or, without a message, the death of some routes.
Call(d, r) == [dm |-> d, route |-> r]
RouteChange(dead) == [dm |-> None, dead |-> dead]

Serving == [at |-> "serve", list |-> << >>]
Idle == [at |-> "idle", list |-> << >>]
NotSent == [pc |-> "idle", whole |-> FALSE, list |-> << >>, i |-> 1]

MayFail == fails < MaxFails /\ fails' = fails + 1

\* The first route is tried for until it is there; the others may fail.
Init ==
  /\ created \in 1 .. Want
  /\ routes = [i \in 1 .. created |-> i]
  /\ record = routes
  /\ live = InUse(routes)
  /\ queue = << >>
  /\ loop = Serving /\ editor = Idle
  /\ inbox = [d \in DMs |-> 0] /\ pushed = {}
  /\ snd = [d \in DMs |-> NotSent]
  /\ net = {}
  /\ deaths = 0 /\ fails = 0 /\ edits = 0 /\ restarts = 0

-----------------------------------------------------------------------------
(* send_dm().                                                              *)

Goes(d, pc) == snd' = [snd EXCEPT ![d].pc = pc]
OnRoute(d) == snd[d].list[snd[d].i]
OnToNext(s) == [s EXCEPT !.pc = "try", !.i = @ + 1]

\* The peer's record is opened and its profile read, past the local cache.  The
\* JSON of the message fits one app_message whole, or encode() cuts it off.
ReadPeer(d) ==
  /\ snd[d].pc = "idle"
  /\ \/ Goes(d, "no_profile")
     \/ record = << >> /\ Goes(d, "no_route")
     \/ record # << >> /\ \E w \in BOOLEAN :
          snd' = [snd EXCEPT ![d] = [pc |-> "try", whole |-> w, list |-> record, i |-> 1]]
  /\ UNCHANGED <<peer, record, live, queue, net, counts>>

\* The blob is bad, or the route is not taken in: on to the next.
ImportFails(d) ==
  /\ snd[d].pc = "try"
  /\ snd[d].i <= Len(snd[d].list)
  /\ snd' = [snd EXCEPT ![d] = OnToNext(@)]
  /\ UNCHANGED <<peer, record, live, queue, net, counts>>

CallRoute(d) ==
  /\ snd[d].pc = "try"
  /\ snd[d].i <= Len(snd[d].list)
  /\ Goes(d, "wait")
  /\ net' = net \cup {Call(d, OnRoute(d))}
  /\ UNCHANGED <<peer, record, live, queue, counts>>

\* Mutant: the same route is tried again.
CallErrsAgain(d) ==
  /\ snd[d].pc = "wait"
  /\ snd' = [snd EXCEPT ![d].pc = "try"]
  /\ UNCHANGED <<peer, record, live, queue, net, counts>>

\* No answer in time, or an error at once.  The call itself may still arrive.
CallErrs(d) ==
  /\ snd[d].pc = "wait"
  /\ snd' = [snd EXCEPT ![d] = OnToNext(@)]
  /\ UNCHANGED <<peer, record, live, queue, net, counts>>

GiveUp(d) ==
  /\ snd[d].pc = "try"
  /\ snd[d].i > Len(snd[d].list)
  /\ Goes(d, "unreachable")
  /\ UNCHANGED <<peer, record, live, queue, net, counts>>

-----------------------------------------------------------------------------
(* The network.                                                            *)

\* A call under way may arrive as long as its route is up, and need not ever.
Arrive(c) ==
  /\ c \in net /\ c.route \in live
  /\ net' = net \ {c}
  /\ queue' = Append(queue, c)
  /\ UNCHANGED <<peer, record, live, snd, counts>>

\* Routes of the peer's die, one or several at once, and veilid tells the peer.
Die(dead) ==
  /\ deaths' = deaths + Cardinality(dead) /\ deaths' <= MaxDeaths
  /\ live' = live \ dead
  /\ queue' = Append(queue, RouteChange(dead))
  /\ UNCHANGED <<peer, record, snd, net, created, fails, edits, restarts>>

-----------------------------------------------------------------------------
(* The peer's update loop.                                                 *)

Taken == loop.at = "serve" /\ queue # << >> /\ queue' = Tail(queue)

\* The answer reaches a caller that is still waiting for it on this route.
Answered(c) ==
  \/ /\ snd[c.dm].pc = "wait" /\ OnRoute(c.dm) = c.route
     /\ Goes(c.dm, "ok")
  \/ UNCHANGED snd

\* Mutant: whatever is called is a message, and is answered unread.
HandleCallUnread(c) ==
  /\ Taken /\ c = Head(queue) /\ c.dm # None
  /\ Answered(c)
  /\ UNCHANGED <<peer, record, live, net, counts>>

\* handle_social and app_call_reply.  What does not parse is answered "unknown",
\* and the caller takes any answer for success.
HandleCall(c) ==
  /\ Taken /\ c = Head(queue) /\ c.dm # None
  /\ IF snd[c.dm].whole
     THEN inbox' = [inbox EXCEPT ![c.dm] = @ + 1] /\ pushed' = pushed \cup {c.dm}
     ELSE UNCHANGED <<inbox, pushed>>
  /\ Answered(c)
  /\ UNCHANGED <<routes, loop, editor, record, live, net, counts>>

\* Those of a RouteChange that are in the pool.
OurDead == Head(queue).dead \cap InUse(routes)

\* Routes of someone else, or already replaced.
HandleForeign ==
  /\ Taken /\ Head(queue).dm = None
  /\ OurDead = {}
  /\ UNCHANGED <<peer, record, live, snd, net, counts>>

\* Some of ours: the others are kept, and creation is asked for the rest.
HandleDeath ==
  /\ Taken /\ Head(queue).dm = None
  /\ OurDead # {}
  /\ loop' = [at |-> "create", list |-> Without(routes, OurDead)]
  /\ UNCHANGED <<routes, editor, inbox, pushed, record, live, snd, net, counts>>

Create ==
  /\ loop.at = "create" /\ Len(loop.list) < Want
  /\ created < MaxRoutes /\ created' = created + 1
  /\ live' = live \cup {created'}
  /\ loop' = [loop EXCEPT !.list = Append(@, created')]
  /\ UNCHANGED <<routes, editor, inbox, pushed, record, queue, snd, net, deaths, fails, edits, restarts>>

\* Mutant: with the pool full again, nothing more is done.
SetRoutesOnly ==
  /\ loop.at = "create"
  /\ Len(loop.list) = Want /\ UNCHANGED fails
  /\ routes' = loop.list
  /\ loop' = Serving
  /\ UNCHANGED <<editor, inbox, pushed, record, live, queue, snd, net, created, deaths, edits, restarts>>

\* set_routes: the pool is full, or a creation failed and the rest is left.
SetRoutes ==
  /\ loop.at = "create"
  /\ \/ Len(loop.list) = Want /\ UNCHANGED fails
     \/ Len(loop.list) < Want /\ MayFail
  /\ routes' = loop.list
  /\ loop' = [at |-> "publish", list |-> << >>]
  /\ UNCHANGED <<editor, inbox, pushed, record, live, queue, snd, net, created, deaths, edits, restarts>>

\* publish_profile: a copy under the mutex, ...
LoopCopies ==
  /\ loop.at = "publish"
  /\ loop' = [at |-> "put", list |-> routes]
  /\ UNCHANGED <<routes, editor, inbox, pushed, record, live, queue, snd, net, counts>>

\* ... then put without it.  A failure is printed.
LoopPuts ==
  /\ loop.at = "put"
  /\ \/ record' = loop.list /\ UNCHANGED fails
     \/ MayFail /\ UNCHANGED record
  /\ loop' = Serving
  /\ UNCHANGED <<routes, editor, inbox, pushed, live, queue, snd, net, created, deaths, edits, restarts>>

-----------------------------------------------------------------------------
(* POST /api/profile on the peer, whose copy holds the routes too.         *)

EditorCopies ==
  /\ editor.at = "idle"
  /\ edits < MaxEdits /\ edits' = edits + 1
  /\ editor' = [at |-> "put", list |-> routes]
  /\ UNCHANGED <<routes, loop, inbox, pushed, record, live, queue, snd, net, created, deaths, fails, restarts>>

EditorPuts ==
  /\ editor.at = "put"
  /\ \/ record' = editor.list /\ UNCHANGED fails
     \/ MayFail /\ UNCHANGED record
  /\ editor' = Idle
  /\ UNCHANGED <<routes, loop, inbox, pushed, live, queue, snd, net, created, deaths, edits, restarts>>

\* The peer is run again: new routes, published before it serves, and an empty
\* inbox.
Restart ==
  /\ restarts < MaxRestarts /\ restarts' = restarts + 1
  /\ \E n \in 1 .. Want :
       created + n <= MaxRoutes /\ created' = created + n /\ routes' = NewRoutes(n)
  /\ record' = routes' /\ live' = InUse(routes')
  /\ queue' = << >> /\ loop' = Serving /\ editor' = Idle
  /\ inbox' = [d \in DMs |-> 0]
  /\ UNCHANGED <<pushed, snd, net, deaths, fails, edits>>

-----------------------------------------------------------------------------
SenderStep(d) == ImportFails(d) \/ CallRoute(d) \/ CallErrs(d) \/ GiveUp(d)

LoopStep ==
  \/ \E d \in DMs, r \in Routes : HandleCall(Call(d, r))
  \/ HandleForeign \/ HandleDeath \/ Create \/ SetRoutes \/ LoopCopies \/ LoopPuts

\* Every message was sent or is not sent, and nothing waits for the peer.
AtRest ==
  /\ \A d \in DMs : snd[d].pc \notin {"try", "wait"}
  /\ queue = << >> /\ loop = Serving /\ editor = Idle
  /\ UNCHANGED vars

Next ==
  \/ \E d \in DMs : ReadPeer(d) \/ SenderStep(d)
  \/ \E c \in net : Arrive(c)
  \/ \E dead \in SUBSET live \ {{}} : Die(dead)
  \/ LoopStep \/ EditorCopies \/ EditorPuts \/ Restart \/ AtRest

Spec == Init /\ [][Next]_vars

\* The peer's loop and tasks keep running: a DHT write and a route creation end
\* by succeeding or failing.  Senders and the network owe nothing.
Fairness == WF_vars(LoopStep) /\ WF_vars(EditorPuts)

-----------------------------------------------------------------------------
(* Properties.                                                             *)

\* A sender told "ok" is not lied to: a message that fits one app_message has
\* been in the peer's inbox, whichever of its copies the answer was to.
OkIsReceived == \A d \in DMs : snd[d].whole /\ snd[d].pc = "ok" => d \in pushed

\* How many routes a sender has called, or passed over, so far.
Tries(d) == IF snd[d].pc \in {"wait", "ok"} THEN snd[d].i ELSE snd[d].i - 1

Copies(d) ==
  inbox[d] + Cardinality({c \in net : c.dm = d})
           + Cardinality({k \in DOMAIN queue : queue[k].dm = d})

\* Nothing tells copies of a message apart, so what keeps them few is that each
\* route is tried once: no more copies exist than routes were tried, in the
\* inbox, in the queue and in the network together.
CopiesAreTries == \A d \in DMs : Copies(d) <= Tries(d)

=============================================================================
