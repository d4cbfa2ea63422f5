-------------------------------- MODULE Wall --------------------------------
(***************************************************************************)
(* The social node's wall: the State behind the mutex, the DHT record that *)
(* mirrors it, the browser's requests, which each run in a task of their   *)
(* own, and the update loop that rebuilds dead routes.  A request holds    *)
(* the mutex only to change or copy the state; the DHT writes come after,  *)
(* and another task may run between any two of them.                       *)
(***************************************************************************)
EXTENDS Integers, FiniteSets

CONSTANTS
  Requests,      \* tasks that can be serving a request at once
  PostSlots,     \* POST_SLOTS
  Want,          \* cfg.pool
  MaxPosts,      \* bound: posts written
  MaxEdits,      \* bound: profile edits
  MaxRoutes,     \* bound: routes created
  MaxRestarts,   \* bound: restarts of the node
  PutMayFail,    \* whether a DHT write can fail
  ReadMayFail,   \* whether reading our own profile at startup can fail
  NoPost         \* an empty slot

ASSUME WallAssumption ==
  /\ IsFiniteSet(Requests)
  /\ {PostSlots, Want, MaxRoutes} \subseteq Nat \ {0}
  /\ Want <= MaxRoutes
  /\ {MaxPosts, MaxEdits, MaxRestarts} \subseteq Nat
  /\ {PutMayFail, ReadMayFail} \subseteq BOOLEAN

VARIABLES
  profile,      \* st.profile: its name (a version number), next_seq and routes
  posts,        \* st.posts, the posts of this run
  wall,         \* subkey 0 of the record: the profile others read
  slots,        \* its other subkeys: the post in each slot of the ring
  task,         \* the request each task serves and how far it is
  loop,         \* the update loop: serving, or publishing new routes
  answered,     \* posts whose author was answered "ok"
  written,      \* posts written so far, over all runs
  edits,        \* profile edits so far
  created,      \* routes created so far
  restarts

vars == <<profile, posts, wall, slots, task, loop, answered, written, edits, created, restarts>>

Profiles == [name : 0 .. MaxEdits, next_seq : 0 .. MaxPosts, routes : SUBSET (1 .. MaxRoutes)]
Posts == [seq : 0 .. MaxPosts, id : 1 .. MaxPosts]

ASSUME NoPostAssumption == NoPost \notin Posts

\* Where a task is: idle, about to put a post, to copy the profile (publish), or
\* to put the copy.  `post` is the post it serves, or NoPost.
Tasks ==
  [at : {"idle", "put_post", "publish", "put_profile"}, post : Posts \cup {NoPost},
   copy : Profiles]

slot_for(seq) == 1 + (seq % PostSlots)

\* Mutant: the next number is taken for readable.
LiveSeqsInclusive(next_seq) == {s \in 0 .. next_seq : s >= next_seq - PostSlots}

\* The sequence numbers a reader of a profile takes for readable.
live_seqs(next_seq) == {s \in 0 .. next_seq - 1 : s >= next_seq - PostSlots}

NewRoutes(n) == created + 1 .. created + n

EmptyProfile == [name |-> 0, next_seq |-> 0, routes |-> {}]
Idle == [at |-> "idle", post |-> NoPost, copy |-> EmptyProfile]

Init ==
  /\ created = Want
  /\ profile = [EmptyProfile EXCEPT !.routes = 1 .. Want]
  /\ posts = {}
  /\ wall = profile
  /\ slots = [n \in 1 .. PostSlots |-> NoPost]
  /\ task = [r \in Requests |-> Idle]
  /\ loop = Idle
  /\ answered = {}
  /\ written = 0 /\ edits = 0 /\ restarts = 0

-----------------------------------------------------------------------------
(* publish_profile: copy the profile under the mutex, then put the copy.   *)

Copied(t) == [t EXCEPT !.at = "put_profile", !.copy = profile]

-----------------------------------------------------------------------------
(* Requests that change the wall.                                          *)

\* POST /api/profile
EditProfile(r) ==
  /\ task[r].at = "idle"
  /\ edits < MaxEdits
  /\ edits' = edits + 1
  /\ profile' = [profile EXCEPT !.name = edits + 1]
  /\ task' = [task EXCEPT ![r].at = "publish"]
  /\ UNCHANGED <<posts, wall, slots, loop, answered, written, created, restarts>>

\* Mutant: the number is the one last published.
NewPostStale(r) ==
  /\ task[r].at = "idle"
  /\ written < MaxPosts
  /\ written' = written + 1
  /\ LET post == [seq |-> wall.next_seq, id |-> written + 1] IN
       /\ posts' = posts \cup {post}
       /\ task' = [task EXCEPT ![r].at = "put_post", ![r].post = post]
  /\ profile' = [profile EXCEPT !.next_seq = wall.next_seq + 1]
  /\ UNCHANGED <<wall, slots, loop, answered, edits, created, restarts>>

\* POST /api/post: the number is taken under the mutex, the post is put first,
\* the profile that advertises it after.
NewPost(r) ==
  /\ task[r].at = "idle"
  /\ written < MaxPosts
  /\ written' = written + 1
  /\ LET post == [seq |-> profile.next_seq, id |-> written + 1] IN
       /\ posts' = posts \cup {post}
       /\ task' = [task EXCEPT ![r].at = "put_post", ![r].post = post]
  /\ profile' = [profile EXCEPT !.next_seq = @ + 1]
  /\ UNCHANGED <<wall, slots, loop, answered, edits, created, restarts>>

\* Mutant: the profile is not published after the post.
PutPostOnly(r) ==
  /\ task[r].at = "put_post"
  /\ slots' = [slots EXCEPT ![slot_for(task[r].post.seq)] = task[r].post]
  /\ task' = [task EXCEPT ![r] = Idle]
  /\ UNCHANGED <<profile, posts, wall, loop, answered, written, edits, created, restarts>>

PutPost(r) ==
  /\ task[r].at = "put_post"
  /\ slots' = [slots EXCEPT ![slot_for(task[r].post.seq)] = task[r].post]
  /\ task' = [task EXCEPT ![r].at = "publish"]
  /\ UNCHANGED <<profile, posts, wall, loop, answered, written, edits, created, restarts>>

CopyProfile(r) ==
  /\ task[r].at = "publish"
  /\ task' = [task EXCEPT ![r] = Copied(@)]
  /\ UNCHANGED <<profile, posts, wall, slots, loop, answered, written, edits, created, restarts>>

Publish(r) ==
  /\ task[r].at = "put_profile"
  /\ wall' = task[r].copy
  /\ answered' = answered \cup ({task[r].post} \ {NoPost})
  /\ task' = [task EXCEPT ![r] = Idle]
  /\ UNCHANGED <<profile, posts, slots, loop, written, edits, created, restarts>>

\* A write that fails ends the request with an error.  The number of a post that
\* was not put stays taken, and the local mirror keeps the post.
PutFails(r) ==
  /\ PutMayFail
  /\ task[r].at \in {"put_post", "put_profile"}
  /\ task' = [task EXCEPT ![r] = Idle]
  /\ UNCHANGED <<profile, posts, wall, slots, loop, answered, written, edits, created, restarts>>

-----------------------------------------------------------------------------
(* The update loop.                                                        *)

\* How many routes creation may succeed for.
ToCreate(kept) == 0 .. Want - Cardinality(kept)

\* Some of our routes died: as many new ones as can be created, up to the pool,
\* take their place in the state, and the profile is published.
RouteChange(dead) ==
  /\ loop.at = "idle"
  /\ dead # {} /\ dead \subseteq profile.routes
  /\ LET kept == profile.routes \ dead IN
       \E n \in ToCreate(kept) :
         /\ created + n <= MaxRoutes
         /\ created' = created + n
         /\ profile' = [profile EXCEPT !.routes = kept \cup NewRoutes(n)]
  /\ loop' = [loop EXCEPT !.at = "publish"]
  /\ UNCHANGED <<posts, wall, slots, task, answered, written, edits, restarts>>

LoopCopies ==
  /\ loop.at = "publish"
  /\ loop' = Copied(loop)
  /\ UNCHANGED <<profile, posts, wall, slots, task, answered, written, edits, created, restarts>>

LoopPublishes ==
  /\ loop.at = "put_profile"
  /\ wall' = loop.copy
  /\ loop' = Idle
  /\ UNCHANGED <<profile, posts, slots, task, answered, written, edits, created, restarts>>

\* Printed, and not tried again.
LoopPutFails ==
  /\ PutMayFail
  /\ loop.at = "put_profile"
  /\ loop' = Idle
  /\ UNCHANGED <<profile, posts, wall, slots, task, answered, written, edits, created, restarts>>

\* The node is killed and run again: new routes, the profile p, no posts in the
\* local mirror.  It serves once its profile is published; a failed publish ends
\* it again.
RestartWith(p) ==
  /\ restarts < MaxRestarts
  /\ restarts' = restarts + 1
  /\ \E n \in 1 .. Want :
       /\ created + n <= MaxRoutes
       /\ created' = created + n
       /\ profile' = [p EXCEPT !.routes = NewRoutes(n)]
  /\ wall' = profile'
  /\ posts' = {}
  /\ task' = [r \in Requests |-> Idle]
  /\ loop' = Idle
  /\ UNCHANGED <<slots, answered, written, edits>>

\* Mutant: the published profile is not read back.
RestartBlank == RestartWith(EmptyProfile)

\* The profile is the one read back from the record, ...
Restart == RestartWith(wall)

\* ... or a blank one when that read fails.
RestartUnread == ReadMayFail /\ RestartWith(EmptyProfile)

Quiet == loop.at = "idle" /\ \A r \in Requests : task[r].at = "idle"

\* Nothing is asked of the node any more.
AtRest == Quiet /\ UNCHANGED vars

Next ==
  \/ \E r \in Requests :
       EditProfile(r) \/ NewPost(r) \/ PutPost(r) \/ CopyProfile(r) \/ Publish(r) \/ PutFails(r)
  \/ \E dead \in SUBSET profile.routes : RouteChange(dead)
  \/ LoopCopies \/ LoopPublishes \/ LoopPutFails \/ Restart \/ RestartUnread \/ AtRest

Spec == Init /\ [][Next]_vars

-----------------------------------------------------------------------------
(* Properties.                                                             *)

\* Every variable has its type; a pool never grows past what was asked for.
TypeOK ==
  /\ Cardinality(profile.routes) <= Want
  /\ profile \in Profiles /\ wall \in Profiles
  /\ posts \subseteq Posts /\ answered \subseteq Posts
  /\ slots \in [1 .. PostSlots -> Posts \cup {NoPost}]
  /\ task \in [Requests -> Tasks] /\ loop \in Tasks
  /\ written \in 0 .. MaxPosts /\ edits \in 0 .. MaxEdits
  /\ created \in 0 .. MaxRoutes /\ restarts \in 0 .. MaxRestarts

\* "A profile advertising a post that is not there yet reads as a gap": every
\* number the published profile makes readers look for is in its slot, unless
\* a newer post has taken the slot.
AdvertisedIsThere ==
  \A s \in live_seqs(wall.next_seq) :
    slots[slot_for(s)] # NoPost /\ slots[slot_for(s)].seq >= s

\* "A stale profile means nobody can send you a message": when nothing is under
\* way, what is published is the profile as it is.
QuietIsPublished == Quiet => wall = profile

\* A post whose author was told "ok" is advertised, and stays in its slot until
\* the ring comes round: only a post with a higher number takes the slot, from the
\* moment it is put, advertised or not.  Neither another request nor a restart
\* puts a different post under the same number.
AnsweredIsKept ==
  \A p \in answered :
    /\ p.seq < wall.next_seq
    /\ p.seq \in live_seqs(wall.next_seq) =>
         slots[slot_for(p.seq)] = p \/ slots[slot_for(p.seq)].seq > p.seq

\* Two posts of one run never share a number.
OneNumberEach == \A p, q \in posts : p.seq = q.seq => p = q
=============================================================================
