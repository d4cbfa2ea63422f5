------------------------------- MODULE MCWeb -------------------------------
(***************************************************************************)
(* Web with the clients to try it on, and two history variables: the keys  *)
(* followed and not unfollowed since, in the order of the mutex, and       *)
(* `calm`: so far no two tasks have been saving at once, no save has       *)
(* failed, and no restart has interrupted one.                             *)
(***************************************************************************)
EXTENDS Web

CONSTANTS k1, k2, c1, c2

VARIABLES wanted, calm

mcvars == <<vars, wanted, calm>>

Ask(op, key, head, clen, sent) ==
  [op |-> op, key |-> key, head |-> head, parses |-> TRUE, clen |-> clen, json |-> 2,
   sent |-> sent, closes |-> FALSE, breaks |-> FALSE]

\* Both keys in requests that fit, as short as can be.
Fitting ==
  {[Ask(op, key, 1, 1, 2) EXCEPT !.json = 1] : op \in {"follow", "unfollow"}, key \in {k1, k2}}

\* Our own key and no key; one that sends more than it declares; one that
\* declares less than its JSON; one that closes before its body is over, one
\* before its head is; one that may break before its end; one that stops and does
\* not close; heads at the limit, at the last length that can be found and past
\* that; a request line without a target; a body over the limit.
Odd ==
  {Ask("follow", Own, 2, 2, 4), Ask("follow", NoKey, 2, 2, 4),
   Ask("follow", k1, 2, 2, 6), Ask("follow", k1, 2, 1, 4),
   [Ask("unfollow", k1, 2, 2, 3) EXCEPT !.closes = TRUE],
   [Ask("follow", k1, 2, 2, 1) EXCEPT !.closes = TRUE],
   [Ask("follow", k1, 2, 2, 4) EXCEPT !.breaks = TRUE],
   Ask("follow", k1, 2, 2, 3),
   Ask("follow", k2, MaxHeaders, 2, MaxHeaders + 2),
   Ask("follow", k2, MaxHeaders + HeadChunk, 2, MaxHeaders + HeadChunk + 2),
   Ask("follow", k2, MaxHeaders + HeadChunk + 1, 2, MaxHeaders + HeadChunk + 3),
   [Ask("follow", k1, 2, 2, 4) EXCEPT !.parses = FALSE],
   Ask("follow", k1, 2, MaxBody + 1, MaxBody + 3)}

\* One connection brings anything odd, one anything that fits, and the others
\* one of two requests.
MCAsks ==
  [c \in Conns |-> CASE c = c1 -> Odd
                     [] c = c2 -> Fitting
                     [] OTHER  -> {a \in Fitting : a.op = "follow" <=> a.key = k2}]

Saving(c) == At(c, "truncate") \/ At(c, "write")
Savers == {c \in Conns : Saving(c)}

\* The connections whose request changes the list in this step.
Changing(op) == {c \in Conns : Asked(c, op) /\ Saving(c)'}

Fields(cs) == {Field(c) : c \in cs}

MCInit == Init /\ wanted = {} /\ calm = TRUE

MCNext ==
  /\ Next
  /\ wanted' = (wanted \ Fields(Changing("unfollow"))) \cup Fields(Changing("follow"))
  /\ calm' = (/\ calm /\ fails' = fails
              /\ Cardinality(Savers') <= 1
              /\ restarts' # restarts => Savers = {})

MCSpec == MCInit /\ [][MCNext]_mcvars /\ Fairness

\* "Following someone is remembering their record key": as long as it is calm,
\* the list is the keys followed and not unfollowed since, over restarts too,
\* each once and never our own; and whenever no save is under way, the file
\* says the same.
CalmFollowsKept ==
  calm =>
    /\ ToSet(follows) = wanted /\ Cardinality(wanted) = Len(follows)
    /\ Own \notin wanted
    /\ Savers = {} => file = follows

=============================================================================
