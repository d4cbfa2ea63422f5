-------------------------------- MODULE Web --------------------------------
(***************************************************************************)
(* The browser's side of the social node: connections, each read and       *)
(* served once by a task of its own, and the list of follows that two of   *)
(* the requests change, in memory under a mutex and in a file after it.    *)
(*                                                                         *)
(* A request is a number of bytes that come in pieces of any size: a head  *)
(* up to the blank line, then a body that may share a piece with the head. *)
(* What the bytes say matters only where the code looks at it.             *)
(***************************************************************************)
EXTENDS Integers, Sequences, FiniteSets, SequencesExt

CONSTANTS
  Conns,       \* connections, each made at most once
  Asks,        \* what the client of each connection can send
  MaxHeaders,  \* MAX_HEADERS
  HeadChunk,   \* the size of a read in the head
  BodyChunk,   \* the size of a read in the body
  MaxBody,     \* MAX_BODY
  Keys,        \* keys of other nodes
  Own,         \* the node's own key
  NoKey,       \* anything that does not parse as a key
  MaxFails,    \* bound: failed writes of the file
  MaxRestarts  \* bound: restarts of the node

\* An ask: the length of its head, blank line included; whether that has a
\* method and a target; the content-length it declares; how long its JSON is,
\* and the key that names; how many bytes are sent in all; whether the client
\* closes its side then; whether the connection breaks before they are all read.
AskShape ==
  [op : {"follow", "unfollow"}, key : Keys \cup {Own, NoKey}, head : Nat \ {0},
   parses : BOOLEAN, clen : Nat, json : Nat, sent : Nat, closes : BOOLEAN, breaks : BOOLEAN]

ASSUME WebAssumption ==
  /\ IsFiniteSet(Conns) /\ Asks \in [Conns -> SUBSET AskShape]
  /\ {MaxHeaders, MaxBody, MaxFails, MaxRestarts} \subseteq Nat
  /\ {HeadChunk, BodyChunk} \subseteq Nat \ {0}
  /\ Own \notin Keys /\ NoKey \notin Keys \cup {Own}

VARIABLES
  conn,      \* each connection: how far its task is
  follows,   \* st.follows
  file,      \* the lines of follows_file
  fails,     \* writes of the file that failed
  restarts

listvars == <<follows, file, fails, restarts>>
vars == <<conn, listvars>>

NotMade == [at |-> "none"]
Made(a) == [at |-> "head", ask |-> a, got |-> 0, list |-> << >>]

Init ==
  /\ conn = [c \in Conns |-> NotMade]
  /\ follows = << >> /\ file = << >>
  /\ fails = 0 /\ restarts = 0

At(c, at) == conn[c].at = at
Goes(c, at) == conn' = [conn EXCEPT ![c].at = at]

Connect(c, a) ==
  /\ At(c, "none")
  /\ conn' = [conn EXCEPT ![c] = Made(a)]
  /\ UNCHANGED listvars

-----------------------------------------------------------------------------
(* read_request().                                                         *)

Lesser(a, b) == IF a < b THEN a ELSE b

Unread(c) == conn[c].ask.sent - conn[c].got
Closed(c) == Unread(c) = 0 /\ conn[c].ask.closes

\* Where a task goes once it has got that much: the head is looked at as soon
\* as the blank line is in.
AfterRead(k) ==
  IF k.got < k.ask.head THEN "head"
  ELSE IF k.ask.parses /\ k.ask.clen <= MaxBody THEN "body" ELSE "rejected"

ReadHead(c) ==
  /\ At(c, "head") /\ conn[c].got <= MaxHeaders
  /\ \E n \in 1 .. Lesser(HeadChunk, Unread(c)) :
       LET k == [conn[c] EXCEPT !.got = @ + n]
       IN  conn' = [conn EXCEPT ![c] = [k EXCEPT !.at = AfterRead(k)]]
  /\ UNCHANGED listvars

\* Too much without a blank line, or the client closed before one.
HeadRejected(c) ==
  /\ At(c, "head")
  /\ conn[c].got > MaxHeaders \/ Closed(c)
  /\ Goes(c, "rejected")
  /\ UNCHANGED listvars

\* How much of the body is in: what followed the head, and what was read since.
BodyLen(c) == conn[c].got - conn[c].ask.head

\* A read returns an error, in the head or in the body.
ReadFails(c) ==
  /\ At(c, "head") \/ (At(c, "body") /\ BodyLen(c) < conn[c].ask.clen)
  /\ conn[c].ask.breaks
  /\ Goes(c, "rejected")
  /\ UNCHANGED listvars

ReadBody(c) ==
  /\ At(c, "body") /\ BodyLen(c) < conn[c].ask.clen
  /\ \E n \in 1 .. Lesser(BodyChunk, Unread(c)) :
       conn' = [conn EXCEPT ![c].got = @ + n]
  /\ UNCHANGED listvars

\* Mutant: no truncate.
BodyUncut(c) == BodyLen(c)

\* body.truncate(content_length).
Body(c) == Lesser(BodyLen(c), conn[c].ask.clen)

\* Mutant: one byte more is waited for.
BodyInLate(c) == BodyLen(c) > conn[c].ask.clen \/ Closed(c)

\* The body is all there, or the client closed early, which passes for the end.
BodyIn(c) == BodyLen(c) >= conn[c].ask.clen \/ Closed(c)

-----------------------------------------------------------------------------
(* POST /api/follow and /api/unfollow.                                     *)

\* req.field("key"): a body that is not the JSON, all of it and nothing more,
\* reads as one without the field.
Field(c) == IF Body(c) = conn[c].ask.json THEN conn[c].ask.key ELSE NoKey

Asked(c, op) == At(c, "body") /\ BodyIn(c) /\ conn[c].ask.op = op

\* The list that was asked for is copied under the mutex, to be saved after it.
Changed(c, list) ==
  /\ follows' = list
  /\ conn' = [conn EXCEPT ![c].at = "truncate", ![c].list = list]
  /\ UNCHANGED <<file, fails, restarts>>

\* Mutant: no look whether the key is there.
FollowTwice(c) ==
  /\ Asked(c, "follow") /\ Field(c) \in Keys
  /\ Changed(c, Append(follows, Field(c)))

Follow(c) ==
  /\ Asked(c, "follow") /\ Field(c) \in Keys
  /\ Changed(c, IF Contains(follows, Field(c)) THEN follows ELSE Append(follows, Field(c)))

\* 400: not a key, or our own.
FollowRefused(c) ==
  /\ Asked(c, "follow") /\ Field(c) \notin Keys
  /\ Goes(c, "refused")
  /\ UNCHANGED listvars

\* retain(|k| k != key).
Without(list, key) ==
  LET kept[n \in 0 .. Len(list)] ==
        IF n = 0 THEN << >>
        ELSE IF list[n] = key THEN kept[n - 1] ELSE Append(kept[n - 1], list[n])
  IN  kept[Len(list)]

Unfollow(c) ==
  /\ Asked(c, "unfollow")
  /\ Changed(c, Without(follows, Field(c)))

\* save_follows: fs::write empties the file, ...
Truncate(c) ==
  /\ At(c, "truncate")
  /\ file' = << >>
  /\ Goes(c, "write")
  /\ UNCHANGED <<follows, fails, restarts>>

\* ... and writes the copy from its start.  Keys are equally long, so what
\* another task has written in between is overwritten line by line, and stays
\* where it was longer.
Write(c) ==
  /\ At(c, "write")
  /\ file' = conn[c].list \o SubSeq(file, Len(conn[c].list) + 1, Len(file))
  /\ Goes(c, "answered")
  /\ UNCHANGED <<follows, fails, restarts>>

\* Neither failure is looked at: the answer is the same.
SaveFails(c) ==
  /\ At(c, "truncate") \/ At(c, "write")
  /\ fails < MaxFails /\ fails' = fails + 1
  /\ Goes(c, "answered")
  /\ UNCHANGED <<follows, file, restarts>>

\* The node is run again, with load_follows; its connections are gone.
Restart ==
  /\ restarts < MaxRestarts /\ restarts' = restarts + 1
  /\ follows' = file
  /\ conn' = [c \in Conns |-> IF At(c, "none") THEN NotMade ELSE [at |-> "dropped"]]
  /\ UNCHANGED <<file, fails>>

-----------------------------------------------------------------------------
Over(c) == conn[c].at \in {"answered", "refused", "rejected", "dropped"}

\* A client that neither goes on nor closes is waited for, without a limit.
Idle(c) == ~ Over(c) /\ ~ At(c, "none") /\ Unread(c) = 0
           /\ ~ conn[c].ask.closes /\ ~ conn[c].ask.breaks

AtRest == (\A c \in Conns : Over(c) \/ Idle(c)) /\ UNCHANGED vars

Serve(c) ==
  \/ ReadHead(c) \/ HeadRejected(c) \/ ReadBody(c) \/ ReadFails(c)
  \/ Follow(c) \/ FollowRefused(c) \/ Unfollow(c)
  \/ Truncate(c) \/ Write(c) \/ SaveFails(c)

Next ==
  \/ \E c \in Conns : Serve(c) \/ \E a \in Asks[c] : Connect(c, a)
  \/ Restart \/ AtRest

Spec == Init /\ [][Next]_vars

\* Every task runs, and what a client sent arrives.
Fairness == \A c \in Conns : WF_vars(Serve(c))

-----------------------------------------------------------------------------
(* Properties.                                                             *)

\* A request that can be served: it parses, keeps to both limits and comes whole.
Servable(a) ==
  a.parses /\ ~ a.breaks /\ a.head <= a.sent /\ a.head <= MaxHeaders /\ a.clen <= MaxBody

Served(c) == conn[c].at \in {"truncate", "write", "answered", "refused"}

\* How a request is cut into reads does not show: one that keeps to the limits
\* is never rejected, one that is far over them never served; and what is served
\* has as much of the body as was declared and sent.
CutsDoNotShow ==
  \A c \in Conns :
    /\ At(c, "rejected") => ~ Servable(conn[c].ask)
    /\ Served(c) =>
         /\ conn[c].ask.parses /\ conn[c].ask.clen <= MaxBody
         /\ conn[c].ask.head <= MaxHeaders + HeadChunk
         /\ Body(c) = Lesser(conn[c].ask.clen, conn[c].ask.sent - conn[c].ask.head)

\* A client that sends all it declares, or closes, or whose connection breaks, is
\* done with, unless the node is restarted: no order of reads leaves it waiting.
ClientsAreAnswered ==
  \A c \in Conns :
    (/\ conn[c].at \notin {"none", "dropped"}
     /\ \/ conn[c].ask.closes
        \/ conn[c].ask.breaks
        \/ conn[c].ask.sent >= conn[c].ask.head + conn[c].ask.clen)
      ~> Over(c)

=============================================================================
