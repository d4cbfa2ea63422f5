-------------------------------- MODULE Feed --------------------------------
(***************************************************************************)
(* A follower's feed of the wall: feed() reads the profile past the local  *)
(* cache, then each of the newest posts it advertises, one subkey after    *)
(* the other, through the cache, while the author goes on writing.         *)
(*                                                                         *)
(* The cache is veilid's own store of records opened: a subkey that was    *)
(* read once is there from then on, unless a read is forced.               *)
(***************************************************************************)
EXTENDS Wall

CONSTANTS
  PerAuthor,      \* how many posts of a wall are read: 20
  GetMayFail      \* whether a read over the network can fail

ASSUME FeedAssumption == PerAuthor \in Nat \ {0} /\ GetMayFail \in BOOLEAN

VARIABLES
  cache,   \* what the follower's node holds of the wall's slots
  feed     \* the refresh under way, or the last one

feedvars == <<cache, feed>>

\* A refresh: the profile it read, how many posts it has looked at, those it has
\* found, and whether every read has been answered.
NoFeed == [at |-> "idle", next_seq |-> 0, looked |-> 0, items |-> {}, clean |-> TRUE]

NothingCached == [n \in 1 .. PostSlots |-> NoPost]

FeedInit == cache = NothingCached /\ feed = NoFeed

Lesser(a, b) == IF a < b THEN a ELSE b

\* live_seqs(...).take(20), newest first.
ToRead(next_seq) == Lesser(Cardinality(live_seqs(next_seq)), PerAuthor)

\* Mutant: the number to come is looked for, not the last one.
LookingPast(f) == f.next_seq - f.looked

\* The number looked for: newest first.
Looking(f) == f.next_seq - 1 - f.looked

After(f) == [f EXCEPT !.at = IF f.looked < ToRead(f.next_seq) THEN "posts" ELSE "shown"]

\* GET /api/feed: read_profile, forced.  A failed read skips the wall.
ReadProfile ==
  /\ feed.at \in {"idle", "shown"}
  /\ \/ feed' = After([NoFeed EXCEPT !.next_seq = wall.next_seq])
     \/ GetMayFail /\ feed' = [NoFeed EXCEPT !.at = "shown", !.clean = FALSE]
  /\ UNCHANGED <<vars, cache>>

\* get_dht_value without force: what was read once is not read again.
Got(n) == IF cache[n] # NoPost THEN cache[n] ELSE slots[n]

\* read_post: an older or a newer post in the slot is not the one asked for.
ReadPost ==
  /\ feed.at = "posts"
  /\ LET s == Looking(feed)
         post == Got(slot_for(s))
     IN  /\ cache' = [cache EXCEPT ![slot_for(s)] = post]
         /\ feed' = After([feed EXCEPT !.looked = @ + 1,
                             !.items = @ \cup (IF post # NoPost /\ post.seq = s THEN {post} ELSE {})])
  /\ UNCHANGED vars

ReadPostFails ==
  /\ GetMayFail
  /\ feed.at = "posts" /\ cache[slot_for(Looking(feed))] = NoPost
  /\ feed' = After([feed EXCEPT !.looked = @ + 1, !.clean = FALSE])
  /\ UNCHANGED <<vars, cache>>

FeedStep == ReadProfile \/ ReadPost \/ ReadPostFails

-----------------------------------------------------------------------------
(* Properties.                                                             *)

\* The newest posts that the wall both advertises and holds.
Newest ==
  {p \in {slots[n] : n \in 1 .. PostSlots} \ {NoPost} :
     p.seq \in live_seqs(wall.next_seq) /\ p.seq >= wall.next_seq - PerAuthor}

\* A refresh that every read of succeeded, of a wall that is as it was when the
\* refresh began.
Fresh == feed.at = "shown" /\ feed.clean /\ feed.next_seq = wall.next_seq

\* "Everything we can see": a refresh shows each of the newest posts that the
\* wall both advertises and holds.
FeedIsWhole == Fresh => Newest \subseteq feed.items

=============================================================================
