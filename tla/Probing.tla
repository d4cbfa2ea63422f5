------------------------------ MODULE Probing ------------------------------
(***************************************************************************)
(* A measurement: probe() on one node, listen() on the other.  The prober  *)
(* tells the listener in a Hello which route to echo on, then sends a      *)
(* numbered probe at every tick; the listener echoes each.  Every send is  *)
(* a task of its own that holds one of a bounded number of permits: the    *)
(* message leaves while the task awaits app_message, so it may be heard    *)
(* and answered before the task resumes, reports its result over a channel *)
(* and gives the permit back.  All of them are app_messages: lost without  *)
(* notice, delivered in any order and sometimes twice.                     *)
(***************************************************************************)
EXTENDS Arrivals

CONSTANTS
  MaxProbes,     \* bound: probes scheduled
  MaxRoutes,     \* bound: return routes the prober creates
  MaxFaults,     \* bound: messages delivered twice and return routes dying, in all
  ProbePermits,  \* permits of the prober's semaphore
  EchoPermits,   \* permits of the listener's
  None           \* no return route known yet

ASSUME ProbingAssumption ==
  /\ {MaxProbes, MaxFaults} \subseteq Nat
  /\ {MaxRoutes, ProbePermits, EchoPermits} \subseteq Nat \ {0}
  /\ None \notin Nat

VARIABLES
  phase,      \* the prober: "hello", "probing", "drain", "reported", "failed"
  my_route,   \* its return route; they are numbered as they are created
  route_up,   \* whether that one is still answered
  seq,        \* the next sequence number
  sending,    \* numbers whose send task has not reported its result
  away,       \* those of them whose probe has left, app_message still awaited
  closing,    \* how many tasks have reported and still hold their permit
  results,    \* results waiting in the channel: how many ok, how many not
  run,        \* its Run: sent, send_errors, send_dropped
  got,        \* its Arrivals: the echoes
  listening,  \* whether the listener runs, its route answered
  return_route, \* where it echoes to
  echoing,    \* its send tasks
  echo_away,  \* those whose echo has left
  heard,      \* its Arrivals: the probes
  net,        \* messages in flight, those that will never arrive among them
  faults      \* messages delivered twice and return routes dead so far

tasks == <<sending, away, closing>>
pvars == <<phase, my_route, route_up, seq, tasks, results, run, got>>
lvars == <<listening, return_route, echoing, echo_away, heard>>
vars == <<pvars, lvars, net, faults>>

Seqs == 0 .. MaxProbes - 1
RouteIds == 1 .. MaxRoutes

Hello(r) == [kind |-> "hello", route |-> r]
Probe(s) == [kind |-> "probe", seq |-> s]

\* `at` tells apart the echoes of a probe that arrived twice, as t1 does.
Echo(s, r, at) == [kind |-> "echo", seq |-> s, route |-> r, at |-> at]

Init ==
  /\ phase = "hello"
  /\ my_route = 1 /\ route_up = TRUE
  /\ seq = 0
  /\ sending = {} /\ away = {} /\ closing = 0
  /\ results = [ok |-> 0, err |-> 0]
  /\ run = [sent |-> 0, send_errors |-> 0, send_dropped |-> 0]
  /\ got = NoArrivals
  /\ listening = TRUE
  /\ return_route = None
  /\ echoing = {} /\ echo_away = {}
  /\ heard = NoArrivals
  /\ net = {} /\ faults = 0

-----------------------------------------------------------------------------
(* app_message.                                                            *)

\* The node took the message, which says nothing of its arrival: any message may
\* stay in flight for ever, which is how one is lost.
Leaves(m) == net' = net \cup {m}

\* A message arrives; another copy of it may still follow.
Arrives(m) ==
  /\ m \in net
  /\ \/ net' = net \ {m} /\ UNCHANGED faults
     \/ faults < MaxFaults /\ faults' = faults + 1 /\ UNCHANGED net

-----------------------------------------------------------------------------
(* The prober.                                                             *)

\* The first Hello: repeated while the node says TryAgain, then sent once.
SayHello ==
  /\ phase = "hello"
  /\ \/ Leaves(Hello(my_route)) /\ phase' = "probing"
     \/ phase' = "failed" /\ UNCHANGED net
  /\ UNCHANGED <<my_route, route_up, seq, tasks, results, run, got, lvars, faults>>

\* Mutant: a probe without a permit is not recorded.
SendTickSilent ==
  /\ phase = "probing"
  /\ seq < MaxProbes
  /\ seq' = seq + 1
  /\ sending' = IF Cardinality(sending) < ProbePermits THEN sending \cup {seq} ELSE sending
  /\ UNCHANGED <<phase, my_route, route_up, away, closing, results, run, got, lvars,
                 net, faults>>

PermitFree == Cardinality(sending) + closing < ProbePermits

\* A number is used up whether or not there is a permit to send it.
SendTick ==
  /\ phase = "probing"
  /\ seq < MaxProbes
  /\ seq' = seq + 1
  /\ IF PermitFree
     THEN sending' = sending \cup {seq} /\ UNCHANGED run
     ELSE run' = [run EXCEPT !.send_dropped = @ + 1] /\ UNCHANGED sending
  /\ UNCHANGED <<phase, my_route, route_up, away, closing, results, got, lvars, net, faults>>

\* Inside app_message: from here on the probe can be heard.
ProbeLeaves(s) ==
  /\ s \in sending \ away
  /\ Leaves(Probe(s))
  /\ away' = away \cup {s}
  /\ UNCHANGED <<phase, my_route, route_up, seq, sending, closing, results, run, got,
                 lvars, faults>>

\* Mutant: what app_message returned is swapped.
ProbeReportsSwapped(s) ==
  /\ s \in sending
  /\ sending' = sending \ {s}
  /\ away' = away \ {s}
  /\ closing' = closing + 1
  /\ results' = IF s \in away THEN [results EXCEPT !.err = @ + 1]
                ELSE [results EXCEPT !.ok = @ + 1]
  /\ UNCHANGED <<phase, my_route, route_up, seq, run, got, lvars, net, faults>>

\* app_message returns and the task reports: ok when the probe left, an error
\* when the node refused it.
ProbeReports(s) ==
  /\ s \in sending
  /\ sending' = sending \ {s}
  /\ away' = away \ {s}
  /\ closing' = closing + 1
  /\ results' = IF s \in away THEN [results EXCEPT !.ok = @ + 1]
                ELSE [results EXCEPT !.err = @ + 1]
  /\ UNCHANGED <<phase, my_route, route_up, seq, run, got, lvars, net, faults>>

\* The task ends, and its permit with it.
PermitReleased ==
  /\ closing > 0
  /\ closing' = closing - 1
  /\ UNCHANGED <<phase, my_route, route_up, seq, sending, away, results, run, got,
                 lvars, net, faults>>

CountResult ==
  /\ phase \in {"probing", "drain"}
  /\ \/ /\ results.ok > 0
        /\ results' = [results EXCEPT !.ok = @ - 1]
        /\ run' = [run EXCEPT !.sent = @ + 1]
     \/ /\ results.err > 0
        /\ results' = [results EXCEPT !.err = @ - 1]
        /\ run' = [run EXCEPT !.send_errors = @ + 1]
  /\ UNCHANGED <<phase, my_route, route_up, seq, tasks, got, lvars, net, faults>>

\* An echo on the present return route, its death not handled yet: what was
\* queued before the RouteChange still counts.
RecvEcho(m) ==
  /\ phase \in {"probing", "drain"}
  /\ m.kind = "echo"
  /\ m.route = my_route
  /\ Arrives(m)
  /\ got' = Record(got, m.seq)
  /\ UNCHANGED <<phase, my_route, route_up, seq, tasks, results, run, lvars>>

\* The return route died: a new one, and one Hello that names it; without a
\* new one the run ends.
Rebuild ==
  /\ phase = "probing"
  /\ ~ route_up
  /\ \/ /\ my_route < MaxRoutes
        /\ my_route' = my_route + 1
        /\ route_up' = TRUE
        /\ Leaves(Hello(my_route + 1)) \/ UNCHANGED net
        /\ UNCHANGED phase
     \/ /\ phase' = "drain"
        /\ UNCHANGED <<my_route, route_up, net>>
  /\ UNCHANGED <<seq, tasks, results, run, got, lvars, faults>>

\* The deadline, Ctrl-C, the node shutting down, or the remote route's death.
StopProbing ==
  /\ phase = "probing"
  /\ phase' = "drain"
  /\ UNCHANGED <<my_route, route_up, seq, tasks, results, run, got, lvars,
                 net, faults>>

\* Three seconds later the report is made of what has been counted by then.
Report ==
  /\ phase = "drain"
  /\ phase' = "reported"
  /\ UNCHANGED <<my_route, route_up, seq, tasks, results, run, got, lvars,
                 net, faults>>

-----------------------------------------------------------------------------
(* The listener.                                                           *)

\* A Hello that names a route that cannot be imported changes nothing, like one
\* that is lost.
HearHello(m) ==
  /\ listening
  /\ m.kind = "hello"
  /\ Arrives(m)
  /\ return_route' = m.route
  /\ UNCHANGED <<pvars, listening, echoing, echo_away, heard>>

\* Mutant: the echo is numbered by arrival.
EchoNumbered(m) == Echo(heard.received, return_route, heard.received)

EchoOf(m) == Echo(m.seq, return_route, Record(heard, m.seq).duplicates)

MayEcho == return_route # None /\ Cardinality(echoing) < EchoPermits

\* Every probe is recorded; it is echoed when there is somewhere to echo to and
\* a permit for it.  A refused permit is counted, and never reported.
HearProbe(m) ==
  /\ listening
  /\ m.kind = "probe"
  /\ Arrives(m)
  /\ heard' = Record(heard, m.seq)
  /\ echoing' = IF MayEcho THEN echoing \cup {EchoOf(m)} ELSE echoing
  /\ UNCHANGED <<pvars, listening, return_route, echo_away>>

EchoLeaves(m) ==
  /\ m \in echoing \ echo_away
  /\ Leaves(m)
  /\ echo_away' = echo_away \cup {m}
  /\ UNCHANGED <<pvars, listening, return_route, echoing, heard, faults>>

\* The task ends, its echo sent or refused by the node, and its permit with it.
EchoEnds(m) ==
  /\ m \in echoing
  /\ echoing' = echoing \ {m}
  /\ echo_away' = echo_away \ {m}
  /\ UNCHANGED <<pvars, listening, return_route, heard, net, faults>>

\* Its own route died (nothing is heard from then on, and the RouteChange ends
\* the loop), Ctrl-C, or the node shutting down.
StopListening ==
  /\ listening
  /\ listening' = FALSE
  /\ UNCHANGED <<pvars, return_route, echoing, echo_away, heard, net, faults>>

-----------------------------------------------------------------------------
(* The network.                                                            *)

ReturnRouteDies ==
  /\ phase \in {"hello", "probing", "drain"}
  /\ route_up
  /\ route_up' = FALSE
  /\ faults < MaxFaults /\ faults' = faults + 1
  /\ UNCHANGED <<phase, my_route, seq, tasks, results, run, got, lvars, net>>

Over == phase \in {"reported", "failed"} /\ UNCHANGED vars

Prober ==
  \/ SayHello \/ SendTick \/ CountResult \/ Rebuild \/ StopProbing \/ Report
  \/ (\E s \in sending : ProbeLeaves(s) \/ ProbeReports(s)) \/ PermitReleased
  \/ (\E m \in net : RecvEcho(m))

Listener ==
  \/ (\E m \in net : HearHello(m) \/ HearProbe(m))
  \/ (\E m \in echoing : EchoLeaves(m) \/ EchoEnds(m)) \/ StopListening

Next == Prober \/ Listener \/ ReturnRouteDies \/ Over

Spec == Init /\ [][Next]_vars

-----------------------------------------------------------------------------
(* Properties.                                                             *)

Messages ==
  [kind : {"hello"}, route : RouteIds] \cup [kind : {"probe"}, seq : Nat]
    \cup [kind : {"echo"}, seq : Nat, route : RouteIds, at : Nat]

Sound(a) == a \in Tallies /\ IsFiniteSet(a.seen) /\ Balanced(a) /\ Bounded(a)

\* Both ends' tallies are sound: what they report received, duplicate and lost
\* adds up, in whatever order and however often messages arrive.
TalliesSound == Sound(got) /\ Sound(heard)

\* Inferred loss is what it says at both ends: the count of numbers inside the
\* range observed that did not arrive, whatever order the others came in.
LossesAreGaps == LossIsGaps(got) /\ LossIsGaps(heard)

\* Every number the pacing loop used up is accounted for: sent, refused by the
\* node, dropped for want of a permit, or under way.
Accounted ==
  seq = run.sent + run.send_errors + run.send_dropped
        + Cardinality(sending) + results.ok + results.err

\* The numbers used up whose task, if it still runs, has let its probe go.
Left == (0 .. seq - 1) \ (sending \ away)

\* Delivery is never over-reported: what came back was heard, what was heard
\* has left, and the prober has counted it, or its task has yet to resume: a
\* probe heard and echoed before app_message returns is still counted later.
EchoedWasSent ==
  /\ got.seen \subseteq heard.seen
  /\ heard.seen \subseteq Left
  /\ Unique(heard) <= run.sent + results.ok + Cardinality(away)

\* What the three rest on, inductively: the shapes of messages and counters; an
\* echo exists only of a probe that was heard; and the probes that were heard or
\* are in flight are as many as the sends that succeeded or will.
Shapes ==
  /\ my_route \in RouteIds /\ return_route \in RouteIds \cup {None}
  /\ seq \in 0 .. MaxProbes
  /\ sending \subseteq 0 .. seq - 1 /\ IsFiniteSet(sending)
  /\ away \subseteq sending /\ closing \in Nat
  /\ results \in [ok : Nat, err : Nat]
  /\ run \in [sent : Nat, send_errors : Nat, send_dropped : Nat]
  /\ net \subseteq Messages
  /\ echoing \subseteq [kind : {"echo"}, seq : Nat, route : RouteIds, at : Nat]
  /\ echo_away \subseteq echoing

Departed == heard.seen \cup {s \in 0 .. seq - 1 : Probe(s) \in net}

Causes ==
  /\ got.seen \subseteq heard.seen
  /\ heard.seen \subseteq Left
  /\ \A m \in net \cup echoing : m.kind = "echo" => m.seq \in heard.seen
  /\ \A m \in net : m.kind = "probe" => m.seq \in Left
  /\ away \subseteq Departed
  /\ Cardinality(Departed) = run.sent + results.ok + Cardinality(away)

ProbingInv == Shapes /\ TalliesSound /\ Accounted /\ Causes

\* What the listener infers to be lost is explained: a number missing from its
\* range is in flight or lost, has yet to leave its task, or was used up without
\* leaving the prober, for want of a permit or because the node refused it.  The
\* under-estimate inferred_loss is documented as needs the last two to be none.
InferredIsExplained ==
  InferredLoss(heard) <=
    Cardinality({s \in Seqs : Probe(s) \in net}) + Cardinality(sending \ away)
    + run.send_dropped + run.send_errors + results.err

=============================================================================
