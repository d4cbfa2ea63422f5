------------------------------ MODULE Failover ------------------------------
(***************************************************************************)
(* The sender's way from one route to the next: the outer loop of send(),  *)
(* import_routes() and watch_remote().  What happens on one route is one   *)
(* attempt, send_one(), which ends by delivering the file, by finding the  *)
(* route unusable or by a fatal error; Transfer models its inside.         *)
(*                                                                         *)
(* The receiver is what the sender can see of it: the routes that are up   *)
(* and the list its record holds.  Here it changes both as it likes.  And  *)
(* the node may answer every request with TryAgain, for any length of      *)
(* time: the sender then waits and asks again, without a limit.            *)
(***************************************************************************)
EXTENDS Integers, Sequences, FiniteSets

CONSTANTS
  Routes,             \* every route there could be
  Files,              \* how many files are sent, one after the other
  MaxPoolRefreshes,   \* MAX_POOL_REFRESHES
  PoolSize            \* the longest list a record holds

VARIABLES
  live,        \* routes that are answered
  published,   \* the list in the record, best first
  ready,       \* whether the node answers anything but TryAgain
  source,      \* RouteSource: "blob" or "rendezvous"
  routes,      \* the routes imported last, best first
  current,     \* index of the one in use
  refreshes,   \* how often this file went back to the record
  left,        \* files not delivered yet, the one under way included
  tries,       \* attempts at this file
  pc           \* "import", "try", "done", "interrupted", or why send() returned an error

fovars == <<routes, current, refreshes, left, tries, pc>>
envvars == <<live, published, ready, source>>
allvars == <<fovars, envvars>>

ASSUME FailoverAssumption ==
  /\ IsFiniteSet(Routes) /\ Routes # {}
  /\ Files \in Nat \ {0}
  /\ MaxPoolRefreshes \in Nat
  /\ PoolSize \in Nat \ {0}

\* Lists of up to PoolSize routes, each named once.
Lists ==
  UNION {{l \in [1 .. n -> Routes] : \A i, j \in 1 .. n : l[i] = l[j] => i = j} :
           n \in 0 .. PoolSize}

Ends == {"done", "interrupted"}

Errors == {"import_failed", "fatal", "no_record", "gone"}

SenderInit ==
  /\ source \in {"blob", "rendezvous"}
  /\ routes = << >>
  /\ current = 1
  /\ refreshes = 0
  /\ left = Files
  /\ tries = 0
  /\ pc = "import"

-----------------------------------------------------------------------------
(* import_routes().                                                        *)

\* k is what is left of l, in its order, when some of its routes do not import.
Kept(k, l) ==
  \E f \in [DOMAIN k -> DOMAIN l] :
    \A i, j \in DOMAIN k : k[i] = l[f[i]] /\ (i < j => f[i] < f[j])

\* When none imports, the first is tried again for as long as the node says
\* TryAgain, until it does import or fails for another reason.
Imported(l) == {k \in Lists \ {<< >>} : Kept(k, l)}

Import ==
  /\ pc = "import"
  /\ ready
  /\ published # << >>
  /\ \E l \in Imported(IF source = "blob" THEN <<published[1]>> ELSE published) : routes' = l
  /\ current' = 1
  /\ pc' = "try"
  /\ UNCHANGED <<refreshes, left, tries, envvars>>

\* Mutant: an empty record is waited for.
ImportFailsWaits == pc = "import" /\ UNCHANGED allvars

\* The read fails, the record is empty, or no route imports.  Neither this nor
\* Import happens while the node says TryAgain: the sender waits in "import", and
\* Ctrl-C is not listened to there.
ImportFails ==
  /\ pc = "import"
  /\ ready
  /\ pc' = "import_failed"
  /\ UNCHANGED <<routes, current, refreshes, left, tries, envvars>>

-----------------------------------------------------------------------------
(* One attempt, and what follows it.                                       *)

\* The file is delivered; the next starts on the same route with its own count
\* of refreshes.
Deliver ==
  /\ pc = "try"
  /\ ready
  /\ routes[current] \in live
  /\ left' = left - 1
  /\ IF left = 1 THEN pc' = "done" ELSE UNCHANGED pc
  /\ refreshes' = 0
  /\ tries' = 0
  /\ UNCHANGED <<routes, current, envvars>>

\* Mutant: one past the end of the list.
SparePastEnd == current <= Len(routes)

Spare == current < Len(routes)

\* Mutant: there is no limit.
NeverGone(n) == FALSE

Gone(n) == n > MaxPoolRefreshes

\* The route died, which the sender is told of even while it waits for an answer,
\* or calls on it keep failing: a spare if there is one, then
\* the record, at most MaxPoolRefreshes times a file.
RouteUnusable ==
  /\ pc = "try"
  /\ tries' = tries + 1
  /\ current' = current + 1
  /\ \/ /\ Spare
        /\ UNCHANGED <<refreshes, pc>>
     \/ /\ ~ Spare
        /\ source = "blob"
        /\ pc' = "no_record"
        /\ UNCHANGED refreshes
     \/ /\ ~ Spare
        /\ source = "rendezvous"
        /\ refreshes' = refreshes + 1
        /\ pc' = IF Gone(refreshes') THEN "gone" ELSE "import"
  /\ UNCHANGED <<routes, left, envvars>>

\* done.recv() returns, raced against the attempt alone: send() ends without an error.
Interrupted ==
  /\ pc = "try"
  /\ pc' = "interrupted"
  /\ UNCHANGED <<routes, current, refreshes, left, tries, envvars>>

\* The file cannot be read or has too many chunks, or the receiver refuses it or
\* keeps falling short of it, on a route that may have died since.
Fatal ==
  /\ pc = "try"
  /\ pc' = "fatal"
  /\ UNCHANGED <<routes, current, refreshes, left, tries, envvars>>

SenderStep == Import \/ ImportFails \/ Deliver \/ RouteUnusable \/ Fatal \/ Interrupted

-----------------------------------------------------------------------------
(* A receiver that does as it likes.                                       *)

EnvInit ==
  /\ published \in Lists
  /\ live \in SUBSET Routes
  /\ ready \in BOOLEAN

Republish ==
  /\ published' \in Lists
  /\ UNCHANGED <<fovars, live, ready, source>>

RouteChanges ==
  /\ \E r \in Routes : live' \in {live \cup {r}, live \ {r}}
  /\ UNCHANGED <<fovars, published, ready, source>>

\* It loses its hold on the network, or finds it.
ReadyChanges ==
  /\ ready' = ~ ready
  /\ UNCHANGED <<fovars, live, published, source>>

Ended == pc \in Errors \cup Ends /\ UNCHANGED allvars

Init == SenderInit /\ EnvInit

Next == SenderStep \/ Republish \/ RouteChanges \/ ReadyChanges \/ Ended

Spec == Init /\ [][Next]_allvars

\* While the node answers, an import ends and so does an attempt, one way or the
\* other: its calls and rounds are bounded, but for the waits for TryAgain to end,
\* which nothing bounds.  Nobody need press Ctrl-C.
Fairness ==
  WF_allvars(ready /\ (Import \/ ImportFails \/ Deliver \/ RouteUnusable \/ Fatal))

FairSpec == Spec /\ Fairness

-----------------------------------------------------------------------------
(* Properties.                                                             *)

\* Every variable has its type.
TypeOK ==
  /\ live \subseteq Routes
  /\ published \in Lists
  /\ ready \in BOOLEAN
  /\ source \in {"blob", "rendezvous"}
  /\ routes \in Lists
  /\ current \in 1 .. PoolSize + 1
  /\ refreshes \in 0 .. MaxPoolRefreshes + 1
  /\ left \in 0 .. Files
  /\ tries \in Nat
  /\ pc \in {"import", "try"} \cup Ends \cup Errors

\* An attempt is always on a route that was imported: routes[current] is there
\* whatever route ended the attempt before, and on which file.
AlwaysARoute == pc = "try" => current \in 1 .. Len(routes)

\* A file costs a bounded number of attempts, whatever the routes do: no dead
\* receiver keeps a sender busy for ever.  (Transfer's MaxTries.)
BoundedTries == tries <= PoolSize * (MaxPoolRefreshes + 1)

\* What both rest on, inductively: a sender still at work has been through the
\* record no more often than the limit says, has used up one whole list each
\* time, and of the list it holds the routes before the current one.
Counted ==
  /\ pc \in {"import", "try"} => refreshes <= MaxPoolRefreshes /\ left >= 1
  /\ pc = "import" => tries <= refreshes * PoolSize
  /\ pc = "try" => tries <= (current - 1) + refreshes * PoolSize

\* send() returns, once the node has stopped answering TryAgain for good: every
\* file delivered, an error, or interrupted.
SendReturns == <>[]ready => <>(pc \in Errors \cup Ends)

=============================================================================
