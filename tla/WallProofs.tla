----------------------------- MODULE WallProofs -----------------------------
(***************************************************************************)
(* Proofs about Wall and MCWall, for any number of requests, posts, slots, *)
(* route changes, failing writes and restarts: the wall's types, and that  *)
(* two posts of one run never share a number; and, while it is calm, that  *)
(* what is advertised is there, what was answered is kept, the quiet node  *)
(* is published, and the feed of an unwrapped ring is whole.               *)
(***************************************************************************)
EXTENDS MCWall, FiniteSetTheorems, TLAPS

\* No profile counts more posts than were written; ...
NumbersAreWritten ==
  /\ profile.next_seq <= written
  /\ wall.next_seq <= written
  /\ \A r \in Requests : task[r].copy.next_seq <= written
  /\ loop.copy.next_seq <= written

\* ... and the posts of this run have numbers below the next one.
PostsAreNumbered == \A p \in posts : p.seq < profile.next_seq

WallInv == TypeOK /\ NumbersAreWritten /\ PostsAreNumbered /\ OneNumberEach

\* A writer of the record while it is calm.  The post it serves is the next one
\* the wall is to advertise, and is in its slot once put; the profile it has
\* copied is still the profile.
Serves(t) ==
  /\ t.at = "idle" => t.post = NoPost
  /\ t.at = "put_post" => t.post # NoPost
  /\ t.at = "put_profile" => t.copy = profile
  /\ t.at # "idle" =>
       profile.next_seq = IF t.post = NoPost THEN wall.next_seq ELSE wall.next_seq + 1
  /\ t.post # NoPost =>
       /\ t.post.seq = wall.next_seq
       /\ t.at # "put_post" => slots[slot_for(t.post.seq)] = t.post

\* No slot holds another slot's post, or one past the next to be advertised.
SlotsSound ==
  \A n \in 1 .. PostSlots : slots[n] # NoPost =>
    slot_for(slots[n].seq) = n /\ slots[n].seq <= wall.next_seq

CalmInv ==
  /\ Alone
  /\ \A r \in Requests : Serves(task[r])
  /\ Serves(loop) /\ loop.post = NoPost
  /\ SlotsSound
  /\ AdvertisedIsThere /\ AnsweredIsKept /\ QuietIsPublished

Refreshes ==
  [at : {"idle", "posts", "shown"}, next_seq : Nat, looked : Nat, items : SUBSET Posts,
   clean : BOOLEAN]

\* The follower's types, and how far its refresh is.
FeedTypes ==
  /\ cache \in [1 .. PostSlots -> Posts \cup {NoPost}]
  /\ feed \in Refreshes
  /\ feed.next_seq <= wall.next_seq
  /\ feed.at = "posts" => feed.looked < ToRead(feed.next_seq)
  /\ feed.at = "shown" /\ feed.clean => feed.looked >= ToRead(feed.next_seq)

\* Until the ring wraps, nothing is cached of slots that are not advertised, and
\* of the others what is in them.
CacheSound ==
  \A n \in 1 .. PostSlots : cache[n] # NoPost =>
    /\ n <= wall.next_seq
    /\ slots[n].seq < wall.next_seq => cache[n] = slots[n]

\* A refresh that nothing went wrong with has found every post it has looked for.
FoundSoFar ==
  (feed.at # "idle" /\ feed.clean /\ feed.next_seq = wall.next_seq) =>
    \A p \in Newest : p.seq >= wall.next_seq - feed.looked => p \in feed.items

FeedInv == FeedTypes /\ (wall.next_seq <= PostSlots => CacheSound /\ FoundSoFar)

MCWallInv == WallInv /\ (calm => CalmInv /\ FeedInv)

-----------------------------------------------------------------------------
(* Routes.                                                                 *)

LEMMA NewRoutesCount ==
  ASSUME NEW n \in Nat, created \in Nat, created + n <= MaxRoutes
  PROVE  /\ NewRoutes(n) \subseteq 1 .. MaxRoutes
         /\ IsFiniteSet(NewRoutes(n))
         /\ Cardinality(NewRoutes(n)) = n
<1>1. created + 1 \in Int /\ created + n \in Int /\ MaxRoutes \in Nat
  BY WallAssumption
<1>2. Cardinality(created + 1 .. created + n)
        = IF created + 1 > created + n THEN 0 ELSE created + n - (created + 1) + 1
  BY <1>1, FS_Interval
<1>3. IsFiniteSet(created + 1 .. created + n)
  BY <1>1, FS_Interval
<1> QED
  BY <1>1, <1>2, <1>3 DEF NewRoutes

\* What is kept of a pool, topped up to what was asked for.
LEMMA ToppedUp ==
  ASSUME TypeOK, NEW dead \in SUBSET profile.routes,
         NEW n \in ToCreate(profile.routes \ dead), created + n <= MaxRoutes
  PROVE  LET pool == (profile.routes \ dead) \cup NewRoutes(n)
         IN  /\ n \in Nat /\ created + n \in 0 .. MaxRoutes
             /\ pool \subseteq 1 .. MaxRoutes
             /\ Cardinality(pool) <= Want
<1> DEFINE kept == profile.routes \ dead
<1>1. /\ profile.routes \subseteq 1 .. MaxRoutes /\ created \in Nat
      /\ MaxRoutes \in Nat /\ Want \in Nat
  BY WallAssumption DEF TypeOK, Profiles
<1>2. IsFiniteSet(1 .. MaxRoutes)
  BY <1>1, FS_Interval
<1>3. IsFiniteSet(kept) /\ kept \subseteq 1 .. MaxRoutes
  BY <1>1, <1>2, FS_Subset
<1>4. Cardinality(kept) \in Nat
  BY <1>3, FS_CardinalityType
<1>5. n \in 0 .. Want - Cardinality(kept)
  BY DEF ToCreate
<1>6. n \in Nat /\ Cardinality(kept) + n <= Want
  BY <1>1, <1>4, <1>5
<1>7. /\ NewRoutes(n) \subseteq 1 .. MaxRoutes
      /\ IsFiniteSet(NewRoutes(n)) /\ Cardinality(NewRoutes(n)) = n
  BY <1>1, <1>6, NewRoutesCount
<1>8. /\ Cardinality(kept \cap NewRoutes(n)) \in Nat
      /\ Cardinality(kept \cup NewRoutes(n))
           = Cardinality(kept) + Cardinality(NewRoutes(n)) - Cardinality(kept \cap NewRoutes(n))
  BY <1>3, <1>7, FS_Union, FS_Intersection, FS_CardinalityType
<1>9. Cardinality(kept \cup NewRoutes(n)) <= Want
  BY <1>1, <1>4, <1>6, <1>7, <1>8
<1> QED
  BY <1>1, <1>3, <1>6, <1>7, <1>9

-----------------------------------------------------------------------------
(* The invariant.                                                          *)

LEMMA BlankTypes ==
  /\ EmptyProfile \in Profiles /\ EmptyProfile.next_seq = 0
  /\ Idle \in Tasks /\ Idle.copy.next_seq = 0
<1>1. MaxEdits \in Nat /\ MaxPosts \in Nat
  BY WallAssumption
<1>2. EmptyProfile \in Profiles
  BY <1>1 DEF EmptyProfile, Profiles
<1> QED
  BY <1>1, <1>2 DEF EmptyProfile, Idle, Tasks

LEMMA WallInit == Init => WallInv
<1> SUFFICES ASSUME Init PROVE WallInv
  OBVIOUS
<1>1. /\ MaxEdits \in Nat /\ MaxPosts \in Nat /\ MaxRestarts \in Nat /\ MaxRoutes \in Nat
      /\ Want \in Nat /\ Want <= MaxRoutes
  BY WallAssumption
<1>2. Cardinality(1 .. Want) = Want
  BY <1>1, FS_Interval
<1>3. profile \in Profiles /\ profile.next_seq = 0 /\ profile.routes = 1 .. Want
  BY <1>1, BlankTypes DEF Init, Profiles, EmptyProfile
<1>4. TypeOK
  BY <1>1, <1>2, <1>3, BlankTypes DEF Init, TypeOK
<1>5. NumbersAreWritten
  BY <1>3, BlankTypes DEF Init, NumbersAreWritten
<1>6. PostsAreNumbered /\ OneNumberEach
  BY DEF Init, PostsAreNumbered, OneNumberEach
<1> QED
  BY <1>4, <1>5, <1>6 DEF WallInv

\* A step that moves one task, to a state in which it holds no copy but one it had
\* or the profile's, and leaves the profile and its posts alone.
LEMMA TaskMoves ==
  ASSUME WallInv, NEW r \in Requests, NEW t \in Tasks, t.copy.next_seq <= written,
         task' = [task EXCEPT ![r] = t], wall' \in Profiles, wall'.next_seq <= written,
         answered' \subseteq Posts, slots' \in [1 .. PostSlots -> Posts \cup {NoPost}],
         UNCHANGED <<profile, posts, loop, written, edits, created, restarts>>
  PROVE  WallInv'
<1>1. TypeOK'
  BY DEF WallInv, TypeOK
<1>2. NumbersAreWritten'
  BY DEF WallInv, TypeOK, NumbersAreWritten
<1>3. PostsAreNumbered' /\ OneNumberEach'
  BY DEF WallInv, PostsAreNumbered, OneNumberEach
<1> QED
  BY <1>1, <1>2, <1>3 DEF WallInv

\* The same for the update loop.
LEMMA LoopMoves ==
  ASSUME WallInv, loop' \in Tasks, loop'.copy.next_seq <= written,
         wall' \in Profiles, wall'.next_seq <= written,
         UNCHANGED <<profile, posts, task, slots, answered, written, edits, created, restarts>>
  PROVE  WallInv'
<1>1. TypeOK'
  BY DEF WallInv, TypeOK
<1>2. NumbersAreWritten'
  BY DEF WallInv, NumbersAreWritten
<1>3. PostsAreNumbered' /\ OneNumberEach'
  BY DEF WallInv, PostsAreNumbered, OneNumberEach
<1> QED
  BY <1>1, <1>2, <1>3 DEF WallInv

LEMMA EditProfileKeeps ==
  ASSUME WallInv, NEW r \in Requests, EditProfile(r)
  PROVE  WallInv'
<1> DEFINE t == [task[r] EXCEPT !.at = "publish"]
<1>0. /\ task[r] \in Tasks /\ profile \in Profiles /\ edits \in 0 .. MaxEdits
      /\ MaxEdits \in Nat /\ edits < MaxEdits
  BY WallAssumption DEF EditProfile, WallInv, TypeOK
<1>1. edits + 1 \in 0 .. MaxEdits
  BY <1>0
<1>2. t \in Tasks /\ t.copy = task[r].copy
  BY <1>0 DEF Tasks
<1>3. task' = [task EXCEPT ![r] = t]
  BY DEF EditProfile
<1>4. profile' \in Profiles /\ profile'.next_seq = profile.next_seq
      /\ profile'.routes = profile.routes
  BY <1>0, <1>1 DEF EditProfile, Profiles
<1> HIDE DEF t
<1>5. TypeOK'
  BY <1>1, <1>2, <1>3, <1>4 DEF EditProfile, WallInv, TypeOK
<1>6. NumbersAreWritten'
  BY <1>2, <1>3, <1>4 DEF EditProfile, WallInv, TypeOK, NumbersAreWritten
<1>7. PostsAreNumbered' /\ OneNumberEach'
  BY <1>4 DEF EditProfile, WallInv, PostsAreNumbered, OneNumberEach
<1> QED
  BY <1>5, <1>6, <1>7 DEF WallInv

LEMMA NewPostKeeps ==
  ASSUME WallInv, NEW r \in Requests, NewPost(r)
  PROVE  WallInv'
<1> DEFINE post == [seq |-> profile.next_seq, id |-> written + 1]
           t == [task[r] EXCEPT !.at = "put_post", !.post = post]
<1>0. /\ task[r] \in Tasks /\ profile \in Profiles /\ written \in 0 .. MaxPosts
      /\ MaxPosts \in Nat /\ written < MaxPosts /\ profile.next_seq <= written
  BY WallAssumption DEF NewPost, WallInv, TypeOK, NumbersAreWritten
<1>1. profile.next_seq \in 0 .. MaxPosts
  BY <1>0 DEF Profiles
<1>2. /\ written + 1 \in 1 .. MaxPosts /\ profile.next_seq + 1 \in 0 .. MaxPosts
      /\ profile.next_seq + 1 <= written + 1
  BY <1>0, <1>1
<1>3. post \in Posts /\ post.seq = profile.next_seq
  BY <1>1, <1>2 DEF Posts
<1>4. /\ posts' = posts \cup {post} /\ task' = [task EXCEPT ![r] = t]
      /\ written' = written + 1
      /\ UNCHANGED <<wall, slots, loop, answered, edits, created, restarts>>
  BY DEF NewPost
<1> HIDE DEF post
<1>5. t \in Tasks /\ t.copy = task[r].copy
  BY <1>0, <1>3 DEF Tasks
<1> HIDE DEF t
<1>6. /\ profile' \in Profiles /\ profile'.next_seq = profile.next_seq + 1
      /\ profile'.routes = profile.routes
  BY <1>0, <1>2 DEF NewPost, Profiles
<1>7. TypeOK'
  BY <1>2, <1>3, <1>4, <1>5, <1>6 DEF WallInv, TypeOK
<1>8. NumbersAreWritten'
  <2>1. \A q \in Profiles : q.next_seq <= written => q.next_seq <= written + 1
    BY <1>0 DEF Profiles
  <2>2. \A s \in Requests : task[s].copy \in Profiles /\ task[s].copy.next_seq <= written
    BY DEF WallInv, TypeOK, Tasks, NumbersAreWritten
  <2>3. \A s \in Requests : task'[s].copy = task[s].copy
    BY <1>4, <1>5 DEF WallInv, TypeOK
  <2>4. wall \in Profiles /\ wall.next_seq <= written
        /\ loop.copy \in Profiles /\ loop.copy.next_seq <= written
    BY DEF WallInv, TypeOK, Tasks, NumbersAreWritten
  <2> QED
    BY <1>2, <1>4, <1>6, <2>1, <2>2, <2>3, <2>4 DEF NumbersAreWritten
<1>9. ASSUME NEW p \in posts
      PROVE  p.seq < profile.next_seq /\ p.seq \in Nat /\ p.seq # post.seq
  <2>1. p.seq \in Nat /\ p.seq < profile.next_seq
    BY DEF WallInv, TypeOK, Posts, PostsAreNumbered
  <2> QED
    BY <1>1, <1>3, <2>1
<1>10. PostsAreNumbered'
  BY <1>1, <1>3, <1>4, <1>6, <1>9 DEF PostsAreNumbered
<1>11. OneNumberEach'
  BY <1>4, <1>9 DEF WallInv, OneNumberEach
<1> QED
  BY <1>7, <1>8, <1>10, <1>11 DEF WallInv

LEMMA RequestKeeps ==
  ASSUME WallInv, NEW r \in Requests, PutPost(r) \/ CopyProfile(r) \/ Publish(r) \/ PutFails(r)
  PROVE  WallInv'
<1>0. /\ task[r] \in Tasks /\ profile \in Profiles /\ wall \in Profiles
      /\ task[r].copy.next_seq <= written /\ profile.next_seq <= written
      /\ wall.next_seq <= written /\ answered \subseteq Posts /\ 0 <= written
      /\ slots \in [1 .. PostSlots -> Posts \cup {NoPost}]
      /\ task[r].copy \in Profiles /\ task[r].post \in Posts \cup {NoPost}
  BY WallAssumption DEF WallInv, TypeOK, NumbersAreWritten, Tasks
<1>1. CASE PutPost(r)
  <2> DEFINE t == [task[r] EXCEPT !.at = "publish"]
  <2>1. t \in Tasks /\ t.copy = task[r].copy
    BY <1>0 DEF Tasks
  <2>2. task' = [task EXCEPT ![r] = t] /\ slots' \in [1 .. PostSlots -> Posts \cup {NoPost}]
    BY <1>0, <1>1 DEF PutPost
  <2> HIDE DEF t
  <2> QED
    BY <1>0, <1>1, <2>1, <2>2, TaskMoves DEF PutPost
<1>2. CASE CopyProfile(r)
  <2>1. Copied(task[r]) \in Tasks /\ Copied(task[r]).copy = profile
    BY <1>0 DEF Copied, Tasks
  <2> QED
    BY <1>0, <1>2, <2>1, TaskMoves DEF CopyProfile
<1>3. CASE Publish(r)
  BY <1>0, <1>3, TaskMoves, BlankTypes DEF Publish
<1>4. CASE PutFails(r)
  BY <1>0, <1>4, TaskMoves, BlankTypes DEF PutFails
<1> QED
  BY <1>1, <1>2, <1>3, <1>4

LEMMA LoopKeeps ==
  ASSUME WallInv, LoopCopies \/ LoopPublishes \/ LoopPutFails
  PROVE  WallInv'
<1>0. /\ loop \in Tasks /\ profile \in Profiles /\ wall \in Profiles
      /\ loop.copy.next_seq <= written /\ profile.next_seq <= written
      /\ wall.next_seq <= written /\ 0 <= written /\ loop.copy \in Profiles
  BY WallAssumption DEF WallInv, TypeOK, NumbersAreWritten, Tasks
<1>1. CASE LoopCopies
  <2>1. Copied(loop) \in Tasks /\ Copied(loop).copy = profile
    BY <1>0 DEF Copied, Tasks
  <2> QED
    BY <1>0, <1>1, <2>1, LoopMoves DEF LoopCopies
<1>2. CASE LoopPublishes
  BY <1>0, <1>2, LoopMoves, BlankTypes DEF LoopPublishes
<1>3. CASE LoopPutFails
  BY <1>0, <1>3, LoopMoves, BlankTypes DEF LoopPutFails
<1> QED
  BY <1>1, <1>2, <1>3

LEMMA RouteChangeKeeps ==
  ASSUME WallInv, NEW dead \in SUBSET profile.routes, RouteChange(dead)
  PROVE  WallInv'
<1>0. /\ profile \in Profiles /\ loop \in Tasks /\ TypeOK
      /\ MaxRoutes \in Nat /\ Want \in Nat
  BY WallAssumption DEF WallInv, TypeOK
<1>1. PICK n \in ToCreate(profile.routes \ dead) :
        /\ created + n <= MaxRoutes
        /\ created' = created + n
        /\ profile' = [profile EXCEPT !.routes = (profile.routes \ dead) \cup NewRoutes(n)]
  BY Zenon DEF RouteChange
<1> DEFINE pool == (profile.routes \ dead) \cup NewRoutes(n)
<1>2. /\ created' \in 0 .. MaxRoutes
      /\ pool \subseteq 1 .. MaxRoutes
      /\ Cardinality(pool) <= Want
  BY <1>0, <1>1, ToppedUp
<1>3. profile' = [profile EXCEPT !.routes = pool]
  BY <1>1
<1> HIDE DEF pool
<1>4. /\ profile' \in Profiles /\ profile'.routes = pool
      /\ profile'.next_seq = profile.next_seq
  BY <1>0, <1>2, <1>3 DEF Profiles
<1>5. loop' \in Tasks /\ loop'.copy = loop.copy
  <2>1. loop' = [loop EXCEPT !.at = "publish"]
    BY DEF RouteChange
  <2> QED
    BY <1>0, <2>1 DEF Tasks
<1>6. UNCHANGED <<posts, wall, slots, task, answered, written, edits, restarts>>
  BY DEF RouteChange
<1>7. TypeOK'
  BY <1>2, <1>4, <1>5, <1>6 DEF WallInv, TypeOK
<1>8. NumbersAreWritten'
  BY <1>4, <1>5, <1>6 DEF WallInv, NumbersAreWritten
<1>9. PostsAreNumbered' /\ OneNumberEach'
  BY <1>4, <1>6 DEF WallInv, PostsAreNumbered, OneNumberEach
<1> QED
  BY <1>7, <1>8, <1>9 DEF WallInv

LEMMA RestartKeeps ==
  ASSUME WallInv, NEW p \in Profiles, p.next_seq <= written, RestartWith(p)
  PROVE  WallInv'
<1>0. /\ created \in Nat /\ MaxRoutes \in Nat /\ Want \in Nat
      /\ restarts \in 0 .. MaxRestarts /\ MaxRestarts \in Nat
      /\ restarts < MaxRestarts /\ restarts' = restarts + 1 /\ written \in Nat
  BY WallAssumption DEF WallInv, TypeOK, RestartWith
<1>1. PICK n \in 1 .. Want :
        /\ created + n <= MaxRoutes
        /\ created' = created + n
        /\ profile' = [p EXCEPT !.routes = NewRoutes(n)]
  BY DEF RestartWith
<1>2. n \in Nat /\ n <= Want /\ created' \in 0 .. MaxRoutes /\ restarts' \in 0 .. MaxRestarts
  BY <1>0, <1>1
<1>3. NewRoutes(n) \subseteq 1 .. MaxRoutes /\ Cardinality(NewRoutes(n)) <= Want
  BY <1>0, <1>1, <1>2, NewRoutesCount
<1>4. /\ profile' \in Profiles /\ profile'.routes = NewRoutes(n)
      /\ profile'.next_seq = p.next_seq
  BY <1>1, <1>3 DEF Profiles
<1>5. /\ wall' = profile' /\ posts' = {} /\ loop' = Idle
      /\ task' = [r \in Requests |-> Idle]
      /\ UNCHANGED <<slots, answered, written, edits>>
  BY DEF RestartWith
<1>6. TypeOK'
  BY <1>2, <1>3, <1>4, <1>5, BlankTypes DEF WallInv, TypeOK
<1>7. NumbersAreWritten'
  BY <1>0, <1>4, <1>5, BlankTypes DEF NumbersAreWritten
<1>8. PostsAreNumbered' /\ OneNumberEach'
  BY <1>5 DEF PostsAreNumbered, OneNumberEach
<1> QED
  BY <1>6, <1>7, <1>8 DEF WallInv

LEMMA WallStep == WallInv /\ [Next]_vars => WallInv'
<1> SUFFICES ASSUME WallInv, [Next]_vars PROVE WallInv'
  OBVIOUS
<1>1. ASSUME NEW r \in Requests,
             EditProfile(r) \/ NewPost(r) \/ PutPost(r) \/ CopyProfile(r) \/ Publish(r)
               \/ PutFails(r)
      PROVE  WallInv'
  BY <1>1, EditProfileKeeps, NewPostKeeps, RequestKeeps
<1>2. ASSUME NEW dead \in SUBSET profile.routes, RouteChange(dead) PROVE WallInv'
  BY <1>2, RouteChangeKeeps
<1>3. CASE LoopCopies \/ LoopPublishes \/ LoopPutFails
  BY <1>3, LoopKeeps
<1>4. CASE Restart
  <2>1. wall \in Profiles /\ wall.next_seq <= written
    BY DEF WallInv, TypeOK, NumbersAreWritten
  <2> QED
    BY <1>4, <2>1, RestartKeeps DEF Restart
<1>5. CASE RestartUnread
  <2>1. EmptyProfile \in Profiles /\ EmptyProfile.next_seq <= written
    BY BlankTypes, WallAssumption DEF WallInv, TypeOK
  <2> QED
    BY <1>5, <2>1, RestartKeeps DEF RestartUnread
<1>6. CASE UNCHANGED vars
  BY <1>6 DEF vars, WallInv, TypeOK, NumbersAreWritten, PostsAreNumbered, OneNumberEach
<1> QED
  BY <1>1, <1>2, <1>3, <1>4, <1>5, <1>6, Zenon DEF Next, AtRest

-----------------------------------------------------------------------------
(* A calm wall.                                                            *)

LEMMA SlotOf ==
  ASSUME NEW s \in Nat
  PROVE  slot_for(s) \in 1 .. PostSlots /\ (s < PostSlots => slot_for(s) = 1 + s)
<1>1. PostSlots \in Nat /\ PostSlots > 0
  BY WallAssumption
<1>2. s % PostSlots \in 0 .. PostSlots - 1
  BY <1>1
<1>3. s < PostSlots => s % PostSlots = s
  BY <1>1
<1> QED
  BY <1>1, <1>2, <1>3 DEF slot_for

\* The writers under way, at most one of them.
LEMMA OnlyOne ==
  ASSUME NEW S, IsFiniteSet(S), NEW busy \in {0, 1}, Cardinality(S) + busy <= 1
  PROVE  /\ \A r, s \in S : r = s
         /\ S # {} => busy = 0
<1>1. Cardinality(S) \in Nat
  BY FS_CardinalityType
<1>2. CASE S = {}
  BY <1>2
<1>3. ASSUME NEW r \in S PROVE busy = 0 /\ \A s \in S : r = s
  <2>1. IsFiniteSet(S \ {r}) /\ Cardinality(S \ {r}) = Cardinality(S) - 1
    BY FS_RemoveElement
  <2>2. Cardinality(S \ {r}) \in Nat
    BY <2>1, FS_CardinalityType
  <2>3. Cardinality(S \ {r}) = 0 /\ busy = 0
    BY <1>1, <2>1, <2>2
  <2>4. S \ {r} = {}
    BY <2>1, <2>3, FS_EmptySet
  <2> QED
    BY <2>3, <2>4
<1> QED
  BY <1>2, <1>3

\* The loop, and every request but r, are idle.
OthersIdle(r) == loop.at = "idle" /\ \A s \in Requests \ {r} : task[s].at = "idle"

LEMMA AloneMeans ==
  /\ Alone => /\ \A r \in Requests : task[r].at # "idle" => OthersIdle(r)
              /\ loop.at # "idle" => \A r \in Requests : task[r].at = "idle"
  /\ Alone' => /\ \A r \in Requests : task'[r].at # "idle" => OthersIdle(r)'
               /\ loop'.at # "idle" => \A r \in Requests : task'[r].at = "idle"
<1>1. IsFiniteSet(Requests)
  BY WallAssumption
<1>2. ASSUME NEW t, NEW l, LET S == {r \in Requests : t[r].at # "idle"}
                           IN  Cardinality(S) + (IF l.at = "idle" THEN 0 ELSE 1) <= 1
      PROVE  /\ \A r \in Requests : t[r].at # "idle" =>
                  l.at = "idle" /\ \A s \in Requests \ {r} : t[s].at = "idle"
             /\ l.at # "idle" => \A r \in Requests : t[r].at = "idle"
  <2> DEFINE S == {r \in Requests : t[r].at # "idle"}
             busy == IF l.at = "idle" THEN 0 ELSE 1
  <2>1. IsFiniteSet(S)
    BY <1>1, FS_Subset
  <2>2. busy \in {0, 1} /\ (busy = 0 <=> l.at = "idle")
    OBVIOUS
  <2>3. Cardinality(S) + busy <= 1
    BY <1>2
  <2>4. \A r \in Requests : r \in S <=> t[r].at # "idle"
    OBVIOUS
  <2> HIDE DEF S, busy
  <2>5. (\A r, s \in S : r = s) /\ (S # {} => busy = 0)
    BY <2>1, <2>2, <2>3, OnlyOne
  <2> QED
    BY <2>2, <2>4, <2>5
<1>3. Alone => /\ \A r \in Requests : task[r].at # "idle" => OthersIdle(r)
               /\ loop.at # "idle" => \A r \in Requests : task[r].at = "idle"
  BY <1>2 DEF Alone, OthersIdle
<1>4. Alone' => /\ \A r \in Requests : task'[r].at # "idle" => OthersIdle(r)'
                /\ loop'.at # "idle" => \A r \in Requests : task'[r].at = "idle"
  BY <1>2 DEF Alone, OthersIdle
<1> QED
  BY <1>3, <1>4

\* A step that starts no writer leaves at most one under way.
LEMMA AloneStays ==
  ASSUME Alone, \A r \in Requests : task[r].at = "idle" => task'[r].at = "idle",
         loop.at = "idle" => loop'.at = "idle"
  PROVE  Alone'
<1> DEFINE S == {r \in Requests : task[r].at # "idle"}
           T == {r \in Requests : task'[r].at # "idle"}
<1>1. IsFiniteSet(S) /\ T \subseteq S
  BY WallAssumption, FS_Subset
<1>2. IsFiniteSet(T) /\ Cardinality(T) <= Cardinality(S)
  BY <1>1, FS_Subset
<1>3. Cardinality(S) \in Nat /\ Cardinality(T) \in Nat
  BY <1>1, <1>2, FS_CardinalityType
<1>4. Cardinality(S) + (IF loop.at = "idle" THEN 0 ELSE 1) <= 1
  BY DEF Alone
<1> HIDE DEF S, T
<1>5. Cardinality(T) + (IF loop'.at = "idle" THEN 0 ELSE 1) <= 1
  BY <1>2, <1>3, <1>4
<1> QED
  BY <1>5 DEF T, Alone

LEMMA CalmInitially == Init => CalmInv
<1> SUFFICES ASSUME Init PROVE CalmInv
  OBVIOUS
<1>1. /\ wall = profile /\ wall.next_seq = 0 /\ PostSlots \in Nat
      /\ \A n \in 1 .. PostSlots : slots[n] = NoPost
      /\ \A r \in Requests : task[r] = Idle
      /\ loop = Idle /\ answered = {}
  BY WallAssumption DEF Init, EmptyProfile
<1>2. Idle.at = "idle" /\ Idle.post = NoPost
  BY DEF Idle
<1>3. Alone
  <2>1. {r \in Requests : task[r].at # "idle"} = {}
    BY <1>1, <1>2
  <2>2. Cardinality({r \in Requests : task[r].at # "idle"}) = 0
    BY <2>1, FS_EmptySet
  <2>3. loop.at = "idle"
    BY <1>1, <1>2
  <2> QED
    BY <2>2, <2>3 DEF Alone
<1>4. (\A r \in Requests : Serves(task[r])) /\ Serves(loop) /\ loop.post = NoPost
  BY <1>1, <1>2 DEF Serves
<1>5. AdvertisedIsThere
  BY <1>1 DEF AdvertisedIsThere, live_seqs
<1> QED
  BY <1>1, <1>3, <1>4, <1>5 DEF CalmInv, SlotsSound, AnsweredIsKept, QuietIsPublished

\* A step that leaves the record alone leaves alone what is said of it.
LEMMA RecordStays ==
  ASSUME CalmInv, UNCHANGED <<wall, slots, answered>>
  PROVE  SlotsSound' /\ AdvertisedIsThere' /\ AnsweredIsKept'
BY DEF CalmInv, SlotsSound, AdvertisedIsThere, AnsweredIsKept

\* A request that begins, alone, with the next post or none.
LEMMA RequestBegins ==
  ASSUME WallInv, CalmInv, Alone', NEW r \in Requests, EditProfile(r) \/ NewPost(r)
  PROVE  CalmInv'
<1>0. /\ task \in [Requests -> Tasks] /\ task[r] \in Tasks /\ task[r].at = "idle"
      /\ task[r].post = NoPost
      /\ profile \in Profiles /\ wall.next_seq \in Nat
  BY DEF EditProfile, NewPost, WallInv, TypeOK, Profiles, CalmInv, Serves
<1>1. /\ UNCHANGED <<wall, slots, loop, answered>>
      /\ \A s \in Requests \ {r} : task'[s] = task[s]
  BY <1>0 DEF EditProfile, NewPost
<1>2. /\ task'[r].at \in {"publish", "put_post"}
      /\ EditProfile(r) => task'[r].at = "publish" /\ task'[r].post = NoPost
                           /\ profile'.next_seq = profile.next_seq
      /\ NewPost(r) => /\ task'[r].at = "put_post"
                       /\ task'[r].post = [seq |-> profile.next_seq, id |-> written + 1]
                       /\ profile'.next_seq = profile.next_seq + 1
  BY <1>0 DEF EditProfile, NewPost, Tasks, Profiles
<1>3. OthersIdle(r)'
  BY <1>2, AloneMeans
<1>4. loop.at = "idle" /\ \A s \in Requests : task[s].at = "idle"
  BY <1>0, <1>1, <1>3 DEF OthersIdle
<1>5. wall = profile
  BY <1>4 DEF CalmInv, QuietIsPublished, Quiet
<1>6. ASSUME NewPost(r)
      PROVE  task'[r].post # NoPost /\ task'[r].post.seq = wall.next_seq
  <2>1. written + 1 \in 1 .. MaxPosts /\ profile.next_seq \in 0 .. MaxPosts
    <3>1. profile.next_seq \in 0 .. MaxPosts /\ written \in 0 .. MaxPosts
      BY DEF WallInv, TypeOK, Profiles
    <3>2. written < MaxPosts
      BY <1>6 DEF NewPost
    <3> QED
      BY <3>1, <3>2, WallAssumption
  <2>2. task'[r].post \in Posts
    BY <1>2, <1>6, <2>1 DEF Posts
  <2> QED
    BY <1>2, <1>5, <1>6, <2>2, NoPostAssumption
<1>7. Serves(task[r])'
  BY <1>1, <1>2, <1>5, <1>6 DEF Serves
<1>8. ASSUME NEW s \in Requests \ {r} PROVE Serves(task[s])'
  BY <1>1, <1>4 DEF Serves, CalmInv
<1>9. Serves(loop)' /\ loop'.post = NoPost
  BY <1>1, <1>4 DEF Serves, CalmInv
<1>10. ~ Quiet'
  BY <1>2 DEF Quiet
<1> QED
  BY <1>1, <1>7, <1>8, <1>9, <1>10, RecordStays DEF CalmInv, QuietIsPublished

\* The loop begins, alone.
LEMMA LoopBegins ==
  ASSUME WallInv, CalmInv, Alone', NEW dead \in SUBSET profile.routes, RouteChange(dead)
  PROVE  CalmInv'
<1>1. /\ UNCHANGED <<wall, slots, task, answered>>
      /\ loop' = [loop EXCEPT !.at = "publish"] /\ loop \in Tasks /\ loop.at = "idle"
      /\ profile'.next_seq = profile.next_seq
  BY DEF RouteChange, WallInv, TypeOK, Profiles
<1>2. loop'.at = "publish" /\ loop'.post = loop.post
  BY <1>1 DEF Tasks
<1>3. \A s \in Requests : task[s].at = "idle"
  BY <1>1, <1>2, AloneMeans
<1>4. wall = profile
  BY <1>1, <1>3 DEF CalmInv, QuietIsPublished, Quiet
<1>5. Serves(loop)' /\ loop'.post = NoPost
  BY <1>1, <1>2, <1>4 DEF Serves, CalmInv
<1>6. ASSUME NEW s \in Requests PROVE Serves(task[s])'
  BY <1>1, <1>3 DEF Serves, CalmInv
<1>7. ~ Quiet'
  BY <1>2 DEF Quiet
<1> QED
  BY <1>1, <1>5, <1>6, <1>7, RecordStays DEF CalmInv, QuietIsPublished

\* A post is put: newer than whatever its slot held.
LEMMA PutPostCalm ==
  ASSUME WallInv, CalmInv, NEW r \in Requests, PutPost(r)
  PROVE  CalmInv'
<1> DEFINE post == task[r].post
           n == slot_for(post.seq)
<1>0. /\ task \in [Requests -> Tasks] /\ task[r] \in Tasks /\ task[r].at = "put_post"
      /\ slots \in [1 .. PostSlots -> Posts \cup {NoPost}]
      /\ post # NoPost /\ post.seq = wall.next_seq /\ wall.next_seq \in Nat
      /\ profile.next_seq = wall.next_seq + 1
      /\ answered \subseteq Posts
  BY DEF PutPost, WallInv, TypeOK, Profiles, CalmInv, Serves
<1>1. n \in 1 .. PostSlots
  BY <1>0, SlotOf
<1>2. /\ UNCHANGED <<profile, wall, loop, answered>>
      /\ \A s \in Requests \ {r} : task'[s] = task[s]
      /\ task'[r].at = "publish" /\ task'[r].post = post
      /\ slots'[n] = post
      /\ \A m \in 1 .. PostSlots : m # n => slots'[m] = slots[m]
  BY <1>0, <1>1 DEF PutPost, Tasks
<1>3. OthersIdle(r)
  BY <1>0, AloneMeans DEF CalmInv
<1>4. Alone'
  BY <1>0, <1>2, AloneStays DEF CalmInv
<1> HIDE DEF n, post
<1>5. SlotsSound'
  BY <1>0, <1>1, <1>2 DEF CalmInv, SlotsSound, n
<1>6. AdvertisedIsThere'
  <2> SUFFICES ASSUME NEW s \in live_seqs(wall.next_seq)
               PROVE  slots'[slot_for(s)] # NoPost /\ slots'[slot_for(s)].seq >= s
    BY <1>2 DEF AdvertisedIsThere
  <2>1. s \in Nat /\ s < wall.next_seq
    BY <1>0 DEF live_seqs
  <2>2. slot_for(s) \in 1 .. PostSlots
    BY <2>1, SlotOf
  <2> QED
    BY <1>0, <1>2, <2>1, <2>2 DEF CalmInv, AdvertisedIsThere
<1>7. AnsweredIsKept'
  <2> SUFFICES ASSUME NEW p \in answered
               PROVE  /\ p.seq < wall.next_seq
                      /\ p.seq \in live_seqs(wall.next_seq) =>
                           slots'[slot_for(p.seq)] = p \/ slots'[slot_for(p.seq)].seq > p.seq
    BY <1>2 DEF AnsweredIsKept
  <2>1. p.seq \in Nat /\ p.seq < wall.next_seq
    BY <1>0 DEF Posts, CalmInv, AnsweredIsKept
  <2>2. slot_for(p.seq) \in 1 .. PostSlots
    BY <2>1, SlotOf
  <2> QED
    BY <1>0, <1>2, <2>1, <2>2 DEF CalmInv, AnsweredIsKept
<1>8. Serves(task[r])'
  BY <1>0, <1>2 DEF Serves, n
<1>9. ASSUME NEW s \in Requests \ {r} PROVE Serves(task[s])'
  BY <1>2, <1>3 DEF Serves, CalmInv, OthersIdle
<1>10. Serves(loop)' /\ loop'.post = NoPost
  BY <1>2, <1>3 DEF Serves, CalmInv, OthersIdle
<1>11. ~ Quiet'
  BY <1>2 DEF Quiet
<1> QED
  BY <1>4, <1>5, <1>6, <1>7, <1>8, <1>9, <1>10, <1>11 DEF CalmInv, QuietIsPublished

\* The profile is copied, by the one writer there is.
LEMMA CopyCalm ==
  ASSUME WallInv, CalmInv, (\E r \in Requests : CopyProfile(r)) \/ LoopCopies
  PROVE  CalmInv'
<1>0. /\ task \in [Requests -> Tasks] /\ loop \in Tasks
      /\ UNCHANGED <<profile, wall, slots, answered>>
  BY DEF CopyProfile, LoopCopies, WallInv, TypeOK
<1>1. \A t \in Tasks : /\ Copied(t).at = "put_profile" /\ Copied(t).post = t.post
                       /\ Copied(t).copy = profile
  BY DEF Copied, Tasks
<1>2. ASSUME NEW r \in Requests, CopyProfile(r) PROVE CalmInv'
  <2>1. /\ loop' = loop /\ task[r] \in Tasks /\ task[r].at = "publish"
        /\ task'[r] = Copied(task[r]) /\ \A s \in Requests \ {r} : task'[s] = task[s]
    BY <1>0, <1>2 DEF CopyProfile
  <2>2. Alone'
    BY <1>1, <2>1, AloneStays DEF CalmInv
  <2>3. Serves(task[r])'
    BY <1>0, <1>1, <2>1 DEF CalmInv, Serves
  <2>4. ASSUME NEW s \in Requests \ {r} PROVE Serves(task[s])'
    BY <1>0, <2>1 DEF CalmInv, Serves
  <2>5. Serves(loop)' /\ loop'.post = NoPost
    BY <1>0, <2>1 DEF CalmInv, Serves
  <2>6. ~ Quiet'
    BY <1>1, <2>1 DEF Quiet
  <2> QED
    BY <1>0, <2>2, <2>3, <2>4, <2>5, <2>6, RecordStays DEF CalmInv, QuietIsPublished
<1>3. ASSUME LoopCopies PROVE CalmInv'
  <2>1. task' = task /\ loop.at = "publish" /\ loop' = Copied(loop)
    BY <1>3 DEF LoopCopies
  <2>2. Alone'
    BY <1>1, <2>1, AloneStays DEF CalmInv
  <2>3. Serves(loop)' /\ loop'.post = NoPost
    BY <1>0, <1>1, <2>1 DEF CalmInv, Serves
  <2>4. ASSUME NEW s \in Requests PROVE Serves(task[s])'
    BY <1>0, <2>1 DEF CalmInv, Serves
  <2>5. ~ Quiet'
    BY <1>0, <1>1, <2>1 DEF Quiet
  <2> QED
    BY <1>0, <2>2, <2>3, <2>4, <2>5, RecordStays DEF CalmInv, QuietIsPublished
<1> QED
  BY <1>2, <1>3

\* What is advertised and answered stays so when the profile put counts one post
\* more, the one in its slot, or none.
LEMMA Advertised ==
  ASSUME WallInv, CalmInv, UNCHANGED slots, wall' \in Profiles,
         \/ wall'.next_seq = wall.next_seq /\ answered' = answered
         \/ \E p \in Posts :
              /\ wall'.next_seq = wall.next_seq + 1 /\ answered' = answered \cup {p}
              /\ p.seq = wall.next_seq /\ slots[slot_for(p.seq)] = p
  PROVE  SlotsSound' /\ AdvertisedIsThere' /\ AnsweredIsKept'
<1>0. /\ slots \in [1 .. PostSlots -> Posts \cup {NoPost}] /\ answered \subseteq Posts
      /\ wall.next_seq \in Nat /\ wall'.next_seq \in Nat
      /\ wall'.next_seq >= wall.next_seq /\ PostSlots \in Nat
  <2>1. /\ slots \in [1 .. PostSlots -> Posts \cup {NoPost}] /\ answered \subseteq Posts
        /\ wall.next_seq \in Nat
    BY DEF WallInv, TypeOK, Profiles
  <2>2. wall'.next_seq \in Nat /\ PostSlots \in Nat
    BY WallAssumption DEF Profiles
  <2> QED
    BY <2>1, <2>2
<1>1. SlotsSound'
  BY <1>0 DEF CalmInv, SlotsSound, Posts
<1>2. CASE wall'.next_seq = wall.next_seq /\ answered' = answered
  BY <1>1, <1>2 DEF CalmInv, AdvertisedIsThere, AnsweredIsKept
<1>3. ASSUME NEW p \in Posts,
             wall'.next_seq = wall.next_seq + 1, answered' = answered \cup {p},
             p.seq = wall.next_seq, slots[slot_for(p.seq)] = p
      PROVE  AdvertisedIsThere' /\ AnsweredIsKept'
  <2>1. \A s \in live_seqs(wall'.next_seq) :
          s \in Nat /\ (s = wall.next_seq \/ s \in live_seqs(wall.next_seq))
    BY <1>0, <1>3 DEF live_seqs
  <2>2. AdvertisedIsThere'
    BY <1>0, <1>3, <2>1, NoPostAssumption DEF CalmInv, AdvertisedIsThere
  <2>3. ASSUME NEW q \in answered, q.seq \in live_seqs(wall'.next_seq)
        PROVE  slots[slot_for(q.seq)] = q \/ slots[slot_for(q.seq)].seq > q.seq
    <3>1. q.seq # wall.next_seq
      BY <1>0 DEF CalmInv, AnsweredIsKept, Posts
    <3> QED
      BY <2>1, <2>3, <3>1 DEF CalmInv, AnsweredIsKept
  <2>4. \A q \in answered : q.seq < wall'.next_seq
    BY <1>0, <1>3 DEF CalmInv, AnsweredIsKept, Posts
  <2>5. AnsweredIsKept'
    BY <1>0, <1>3, <2>3, <2>4 DEF AnsweredIsKept
  <2> QED
    BY <2>2, <2>5
<1> QED
  BY <1>1, <1>2, <1>3

\* The copy is put: it is the profile, and the post it counts is in its slot.
LEMMA PublishCalm ==
  ASSUME WallInv, CalmInv, (\E r \in Requests : Publish(r)) \/ LoopPublishes
  PROVE  CalmInv'
<1>0. /\ task \in [Requests -> Tasks] /\ loop \in Tasks
      /\ UNCHANGED <<profile, slots>> /\ profile \in Profiles
      /\ Idle.at = "idle" /\ Idle.post = NoPost
  BY DEF Publish, LoopPublishes, WallInv, TypeOK, Idle
<1>1. ASSUME NEW r \in Requests, Publish(r) PROVE CalmInv'
  <2>1. /\ loop' = loop /\ task[r] \in Tasks /\ task[r].at = "put_profile"
        /\ task'[r] = Idle /\ \A s \in Requests \ {r} : task'[s] = task[s]
        /\ wall' = task[r].copy /\ answered' = answered \cup ({task[r].post} \ {NoPost})
    BY <1>0, <1>1 DEF Publish
  <2>2. OthersIdle(r)
    BY <2>1, AloneMeans DEF CalmInv
  <2>3. wall' = profile /\ task[r].post \in Posts \cup {NoPost} /\ Serves(task[r])
    BY <2>1 DEF CalmInv, Serves, Tasks
  <2>4. SlotsSound' /\ AdvertisedIsThere' /\ AnsweredIsKept'
    <3>1. CASE task[r].post = NoPost
      <4>1. wall'.next_seq = wall.next_seq /\ answered' = answered
        BY <2>1, <2>3, <3>1 DEF Serves
      <4> QED
        BY <1>0, <2>3, <4>1, Advertised
    <3>2. CASE task[r].post # NoPost
      <4> DEFINE p == task[r].post
      <4>1. /\ p \in Posts /\ wall'.next_seq = wall.next_seq + 1
            /\ answered' = answered \cup {p}
            /\ p.seq = wall.next_seq /\ slots[slot_for(p.seq)] = p
        BY <2>1, <2>3, <3>2 DEF Serves
      <4> QED
        BY <1>0, <2>3, <4>1, Advertised
    <3> QED
      BY <3>1, <3>2
  <2>5. Alone'
    BY <1>0, <2>1, AloneStays DEF CalmInv
  <2>6. \A s \in Requests : Serves(task[s])'
    BY <1>0, <2>1, <2>2 DEF CalmInv, Serves, OthersIdle
  <2>7. Serves(loop)' /\ loop'.post = NoPost
    BY <2>1, <2>2 DEF CalmInv, Serves, OthersIdle
  <2>8. QuietIsPublished'
    BY <1>0, <2>3 DEF QuietIsPublished
  <2> QED
    BY <2>4, <2>5, <2>6, <2>7, <2>8 DEF CalmInv
<1>2. ASSUME LoopPublishes PROVE CalmInv'
  <2>1. /\ UNCHANGED <<task, answered>> /\ loop.at = "put_profile" /\ loop' = Idle
        /\ wall' = loop.copy
    BY <1>2 DEF LoopPublishes
  <2>2. wall' = profile /\ wall'.next_seq = wall.next_seq
    BY <2>1 DEF CalmInv, Serves
  <2>3. SlotsSound' /\ AdvertisedIsThere' /\ AnsweredIsKept'
    BY <1>0, <2>1, <2>2, Advertised
  <2>4. Alone'
    BY <1>0, <2>1, AloneStays DEF CalmInv
  <2>5. \A s \in Requests : task[s].at = "idle"
    BY <2>1, AloneMeans DEF CalmInv
  <2>6. \A s \in Requests : Serves(task[s])'
    BY <1>0, <2>1, <2>5 DEF CalmInv, Serves
  <2>7. Serves(loop)' /\ loop'.post = NoPost
    BY <1>0, <2>1 DEF Serves
  <2>8. QuietIsPublished'
    BY <1>0, <2>2 DEF QuietIsPublished
  <2> QED
    BY <2>3, <2>4, <2>6, <2>7, <2>8 DEF CalmInv
<1> QED
  BY <1>1, <1>2

\* A restart takes up the number the record has, whatever was under way.
LEMMA RestartCalm ==
  ASSUME WallInv, CalmInv, Restart
  PROVE  CalmInv'
<1>0. Idle.at = "idle" /\ Idle.post = NoPost
  BY DEF Idle
<1>1. /\ wall' = profile' /\ loop' = Idle /\ \A r \in Requests : task'[r] = Idle
      /\ UNCHANGED <<slots, answered>>
      /\ wall \in Profiles
  BY DEF Restart, RestartWith, WallInv, TypeOK
<1>2. PICK n \in 1 .. Want : profile' = [wall EXCEPT !.routes = NewRoutes(n)]
  BY DEF Restart, RestartWith
<1>3. wall'.next_seq = wall.next_seq
  BY <1>1, <1>2 DEF Profiles
<1>4. wall' \in Profiles
  BY RestartKeeps DEF Restart, WallInv, TypeOK, NumbersAreWritten
<1>5. SlotsSound' /\ AdvertisedIsThere' /\ AnsweredIsKept'
  BY <1>1, <1>3, <1>4, Advertised
<1>6. Alone'
  BY <1>0, <1>1, AloneStays DEF CalmInv
<1>7. (\A r \in Requests : Serves(task[r])') /\ Serves(loop)' /\ loop'.post = NoPost
  BY <1>0, <1>1 DEF Serves
<1> QED
  BY <1>1, <1>5, <1>6, <1>7 DEF CalmInv, QuietIsPublished

-----------------------------------------------------------------------------
(* A follower of a calm wall.                                              *)

\* The numbers a profile makes readable, and how many of them a refresh reads.
LEMMA LiveSeqs ==
  ASSUME NEW n \in Nat
  PROVE  /\ live_seqs(n) = (IF n <= PostSlots THEN 0 ELSE n - PostSlots) .. n - 1
         /\ ToRead(n) \in Nat /\ ToRead(n) <= n /\ ToRead(n) <= PostSlots
         /\ \A s \in Nat : s < n /\ s < n - ToRead(n) => s < n - PostSlots \/ s < n - PerAuthor
<1>1. PostSlots \in Nat /\ PerAuthor \in Nat
  BY WallAssumption, FeedAssumption
<1> DEFINE from == IF n <= PostSlots THEN 0 ELSE n - PostSlots
<1>2. from \in Nat /\ from <= n /\ n - from <= PostSlots
      /\ (n <= PostSlots => from = 0) /\ (n > PostSlots => from = n - PostSlots)
  BY <1>1
<1>3. live_seqs(n) = from .. n - 1
  BY <1>1 DEF live_seqs
<1> HIDE DEF from
<1>4. Cardinality(live_seqs(n)) = n - from
  <2>1. Cardinality(from .. n - 1) = IF from > n - 1 THEN 0 ELSE n - 1 - from + 1
    BY <1>2, FS_Interval
  <2> QED
    BY <1>2, <1>3, <2>1
<1>5. ToRead(n) = IF n - from < PerAuthor THEN n - from ELSE PerAuthor
  BY <1>4 DEF ToRead, Lesser
<1>6. ToRead(n) \in Nat /\ ToRead(n) <= n /\ ToRead(n) <= PostSlots
  BY <1>1, <1>2, <1>5
<1>7. ASSUME NEW s \in Nat, s < n, s < n - ToRead(n)
      PROVE  s < n - PostSlots \/ s < n - PerAuthor
  BY <1>1, <1>2, <1>5, <1>7
<1> QED
  BY <1>3, <1>6, <1>7 DEF from

LEMMA FeedInitially == Init /\ FeedInit => FeedInv
<1> SUFFICES ASSUME Init, FeedInit PROVE FeedInv
  OBVIOUS
<1>1. wall.next_seq = 0 /\ feed = NoFeed /\ cache = NothingCached
  BY DEF Init, FeedInit, EmptyProfile
<1>2. FeedTypes
  BY <1>1 DEF FeedTypes, Refreshes, NoFeed, NothingCached
<1>3. CacheSound
  BY <1>1 DEF CacheSound, NothingCached
<1>4. FoundSoFar
  BY <1>1 DEF FoundSoFar, NoFeed
<1> QED
  BY <1>2, <1>3, <1>4 DEF FeedInv

\* The author's steps: a post is put in a slot, with the next number, or the next
\* number is advertised, or neither.
LEMMA AuthorKeepsFeed ==
  ASSUME WallInv, CalmInv, FeedInv, UNCHANGED feedvars, WallInv',
         \/ UNCHANGED slots /\ wall'.next_seq \in {wall.next_seq, wall.next_seq + 1}
         \/ /\ wall'.next_seq = wall.next_seq
            /\ \E p \in Posts : p.seq = wall.next_seq /\ slots' = [slots EXCEPT ![slot_for(p.seq)] = p]
  PROVE  FeedInv'
<1>a. /\ slots \in [1 .. PostSlots -> Posts \cup {NoPost}]
      /\ wall.next_seq \in Nat /\ wall'.next_seq \in Nat
  BY DEF WallInv, TypeOK, Profiles
<1>b. wall'.next_seq >= wall.next_seq
  BY <1>a
<1>0. /\ slots \in [1 .. PostSlots -> Posts \cup {NoPost}]
      /\ wall.next_seq \in Nat /\ wall'.next_seq \in Nat
      /\ wall'.next_seq >= wall.next_seq /\ PostSlots \in Nat
      /\ feed' = feed /\ cache' = cache
  BY <1>a, <1>b, WallAssumption DEF feedvars
<1>1. FeedTypes'
  BY <1>0 DEF FeedInv, FeedTypes, Refreshes, ToRead, live_seqs, Lesser
<1> SUFFICES ASSUME wall'.next_seq <= PostSlots PROVE CacheSound' /\ FoundSoFar'
  BY <1>1 DEF FeedInv
<1>2. wall.next_seq <= PostSlots /\ CacheSound /\ FoundSoFar
  BY <1>0 DEF FeedInv
<1>3. \A n \in 1 .. PostSlots : slots[n] # NoPost =>
        slots[n] \in Posts /\ slots[n].seq \in Nat /\ slots[n].seq <= wall.next_seq
        /\ slot_for(slots[n].seq) = n
  BY <1>0 DEF CalmInv, SlotsSound, Posts
<1>4. ASSUME NEW n \in 1 .. PostSlots, cache[n] # NoPost
      PROVE  /\ n <= wall.next_seq /\ n \in Nat
             /\ slots[n] \in Posts /\ slots[n].seq \in Nat /\ slots[n].seq <= wall.next_seq
             /\ slots[n].seq < wall.next_seq => cache[n] = slots[n]
             /\ slots[n].seq = wall.next_seq => wall.next_seq = PostSlots
  <2>1. n \in Nat /\ n >= 1 /\ n - 1 \in Nat /\ n - 1 < PostSlots
    BY <1>0
  <2>2. n <= wall.next_seq /\ (slots[n].seq < wall.next_seq => cache[n] = slots[n])
    BY <1>2, <1>4 DEF CacheSound
  <2>3. n - 1 \in live_seqs(wall.next_seq)
    <3>1. live_seqs(wall.next_seq) = 0 .. wall.next_seq - 1
      BY <1>0, <1>2, LiveSeqs
    <3> QED
      BY <1>0, <2>1, <2>2, <3>1
  <2>4. slot_for(n - 1) = n
    BY <1>0, <2>1, SlotOf
  <2>5. slots[n] # NoPost
    BY <2>3, <2>4 DEF CalmInv, AdvertisedIsThere
  <2>6. slots[n].seq = wall.next_seq /\ wall.next_seq < PostSlots => n = 1 + wall.next_seq
    BY <1>0, <1>3, <2>5, SlotOf
  <2> QED
    BY <1>0, <1>2, <1>3, <2>1, <2>2, <2>5, <2>6
<1>5. CASE UNCHANGED slots /\ wall'.next_seq \in {wall.next_seq, wall.next_seq + 1}
  <2>1. CacheSound'
    <3> SUFFICES ASSUME NEW n \in 1 .. PostSlots, cache[n] # NoPost
                 PROVE  /\ n <= wall'.next_seq
                        /\ slots[n].seq < wall'.next_seq => cache[n] = slots[n]
      BY <1>0, <1>5 DEF CacheSound
    <3> QED
      BY <1>0, <1>4, <1>5
  <2>2. FoundSoFar'
    <3> SUFFICES ASSUME feed.next_seq = wall'.next_seq PROVE FoundSoFar'
      BY <1>0 DEF FoundSoFar
    <3>1. feed.next_seq \in Nat /\ feed.next_seq <= wall.next_seq
      BY DEF FeedInv, FeedTypes, Refreshes
    <3>2. wall'.next_seq = wall.next_seq
      BY <1>0, <1>5, <3>1
    <3>3. Newest' = Newest
      BY <1>5, <3>2 DEF Newest
    <3> QED
      BY <1>0, <1>2, <3>2, <3>3 DEF FoundSoFar
  <2> QED
    BY <2>1, <2>2
<1>6. ASSUME NEW p \in Posts, p.seq = wall.next_seq, wall'.next_seq = wall.next_seq,
             slots' = [slots EXCEPT ![slot_for(p.seq)] = p]
      PROVE  CacheSound' /\ FoundSoFar'
  <2> DEFINE k == slot_for(p.seq)
  <2>1. k \in 1 .. PostSlots
    BY <1>0, <1>6, SlotOf
  <2>2. slots'[k] = p /\ \A n \in 1 .. PostSlots : n # k => slots'[n] = slots[n]
    BY <1>0, <1>6, <2>1
  <2> HIDE DEF k
  <2>3. CacheSound'
    <3> SUFFICES ASSUME NEW n \in 1 .. PostSlots, cache[n] # NoPost
                 PROVE  /\ n <= wall.next_seq
                        /\ slots'[n].seq < wall.next_seq => cache[n] = slots'[n]
      BY <1>0, <1>6 DEF CacheSound
    <3> QED
      BY <1>0, <1>4, <1>6, <2>1, <2>2
  <2>4. \A q \in Newest' : q \in Newest
    <3> SUFFICES ASSUME NEW q \in Newest' PROVE q \in Newest
      OBVIOUS
    <3>1. q.seq \in live_seqs(wall.next_seq) /\ q.seq >= wall.next_seq - PerAuthor /\ q # NoPost
      BY <1>6 DEF Newest
    <3>2. q.seq < wall.next_seq
      BY <1>0, <3>1 DEF live_seqs
    <3>3. PICK m \in 1 .. PostSlots : q = slots'[m]
      BY DEF Newest
    <3>4. q = slots[m]
      BY <1>0, <1>6, <2>2, <3>2, <3>3
    <3> QED
      BY <3>1, <3>4 DEF Newest
  <2>5. FoundSoFar'
    BY <1>0, <1>2, <1>6, <2>4 DEF FoundSoFar
  <2> QED
    BY <2>3, <2>5
<1> QED
  BY <1>5, <1>6

\* What a refresh is that has looked at all it can, or has yet to go on.
LEMMA AfterIs ==
  ASSUME NEW f \in Refreshes
  PROVE  /\ After(f) \in Refreshes
         /\ After(f).at = "posts" => After(f).looked < ToRead(After(f).next_seq)
         /\ After(f).at = "shown" => After(f).looked >= ToRead(After(f).next_seq)
         /\ After(f).next_seq = f.next_seq /\ After(f).looked = f.looked
         /\ After(f).items = f.items /\ After(f).clean = f.clean
<1>1. f.next_seq \in Nat /\ f.looked \in Nat
  BY DEF Refreshes
<1>2. ToRead(f.next_seq) \in Nat
  BY <1>1, LiveSeqs
<1> DEFINE at == IF f.looked < ToRead(f.next_seq) THEN "posts" ELSE "shown"
<1>3. /\ at \in {"posts", "shown"}
      /\ at = "posts" => f.looked < ToRead(f.next_seq)
      /\ at = "shown" => f.looked >= ToRead(f.next_seq)
  BY <1>1, <1>2
<1>4. After(f) = [f EXCEPT !.at = at]
  BY DEF After
<1> HIDE DEF at
<1> QED
  BY <1>3, <1>4 DEF Refreshes

LEMMA OneMore ==
  ASSUME NEW g \in Refreshes, NEW found \in SUBSET Posts
  PROVE  /\ LET f == [g EXCEPT !.looked = @ + 1, !.items = @ \cup found]
            IN  /\ f \in Refreshes /\ f.next_seq = g.next_seq /\ f.looked = g.looked + 1
                /\ f.items = g.items \cup found /\ f.clean = g.clean
         /\ LET f == [g EXCEPT !.looked = @ + 1, !.clean = FALSE]
            IN  f \in Refreshes /\ f.next_seq = g.next_seq /\ f.clean = FALSE
<1>1. /\ g.at \in {"idle", "posts", "shown"} /\ g.next_seq \in Nat
      /\ g.items \cup found \in SUBSET Posts /\ g.items \in SUBSET Posts
      /\ g.clean \in BOOLEAN
      /\ g = [at |-> g.at, next_seq |-> g.next_seq, looked |-> g.looked, items |-> g.items,
              clean |-> g.clean]
  BY DEF Refreshes
<1>2. PICK k \in Nat : k = g.looked + 1
  BY DEF Refreshes
<1>3. [g EXCEPT !.looked = k, !.items = @ \cup found] \in Refreshes
  BY <1>1 DEF Refreshes
<1>4. [g EXCEPT !.looked = k, !.clean = FALSE] \in Refreshes
  BY <1>1 DEF Refreshes
<1> QED
  BY <1>1, <1>2, <1>3, <1>4

LEMMA FollowerKeepsFeed ==
  ASSUME WallInv, CalmInv, FeedInv, FeedStep
  PROVE  FeedInv'
<1>0. /\ slots \in [1 .. PostSlots -> Posts \cup {NoPost}] /\ slots' = slots
      /\ wall.next_seq \in Nat /\ wall' = wall /\ PostSlots \in Nat
      /\ cache \in [1 .. PostSlots -> Posts \cup {NoPost}] /\ feed \in Refreshes
  BY WallAssumption
     DEF WallInv, TypeOK, Profiles, FeedInv, FeedTypes, Refreshes, FeedStep, ReadProfile,
         ReadPost, ReadPostFails, vars
<1>1. Newest' = Newest /\ \A p \in Newest : p.seq \in Nat /\ p.seq < wall.next_seq
  BY <1>0 DEF Newest, live_seqs, Posts
<1>p. ToRead(feed.next_seq)' = ToRead(feed'.next_seq)
  BY DEF ToRead, live_seqs, Lesser
<1>2. CASE ReadProfile
  <2>1. cache' = cache
    BY <1>2 DEF ReadProfile
  <2>2. CASE feed' = After([NoFeed EXCEPT !.next_seq = wall.next_seq])
    <3> DEFINE f == [NoFeed EXCEPT !.next_seq = wall.next_seq]
    <3>1. f \in Refreshes /\ f.next_seq = wall.next_seq /\ f.looked = 0
      BY <1>0 DEF NoFeed, Refreshes
    <3> HIDE DEF f
    <3>2. feed' = After(f)
      BY <2>2 DEF f
    <3>3. FeedTypes'
      BY <1>0, <1>p, <2>1, <3>1, <3>2, AfterIs DEF FeedTypes, Refreshes
    <3>4. FoundSoFar'
      BY <1>0, <1>1, <3>1, <3>2, AfterIs DEF FoundSoFar
    <3> QED
      BY <1>0, <2>1, <3>3, <3>4 DEF FeedInv, CacheSound
  <2>3. CASE feed' = [NoFeed EXCEPT !.at = "shown", !.clean = FALSE]
    <3>a. feed' = [at |-> "shown", next_seq |-> 0, looked |-> 0, items |-> {}, clean |-> FALSE]
      BY <2>3 DEF NoFeed
    <3>1. FeedTypes'
      BY <1>0, <2>1, <3>a DEF FeedTypes, Refreshes
    <3>2. FoundSoFar'
      BY <2>3 DEF FoundSoFar, NoFeed
    <3> QED
      BY <1>0, <2>1, <3>1, <3>2 DEF FeedInv, CacheSound
  <2> QED
    BY <1>2, <2>2, <2>3 DEF ReadProfile
<1>3. ASSUME feed.at = "posts"
      PROVE  /\ Looking(feed) \in Nat /\ Looking(feed) < feed.next_seq
             /\ feed.next_seq \in Nat /\ feed.next_seq <= wall.next_seq
             /\ slot_for(Looking(feed)) \in 1 .. PostSlots
             /\ feed.looked \in Nat /\ Looking(feed) = feed.next_seq - 1 - feed.looked
             /\ feed.items \subseteq Posts /\ feed.clean \in BOOLEAN
  <2>1. /\ feed.next_seq \in Nat /\ feed.looked \in Nat /\ feed.looked < ToRead(feed.next_seq)
        /\ feed.next_seq <= wall.next_seq /\ feed.items \subseteq Posts /\ feed.clean \in BOOLEAN
    BY <1>0, <1>3 DEF FeedInv, FeedTypes, Refreshes
  <2>2. ToRead(feed.next_seq) \in Nat /\ ToRead(feed.next_seq) <= feed.next_seq
    BY <2>1, LiveSeqs
  <2>3. Looking(feed) \in Nat /\ Looking(feed) < feed.next_seq
        /\ Looking(feed) = feed.next_seq - 1 - feed.looked
    BY <2>1, <2>2 DEF Looking
  <2> QED
    BY <2>1, <2>3, SlotOf
<1>4. CASE ReadPost
  <2> DEFINE s == Looking(feed)
             n == slot_for(s)
             post == Got(n)
             found == IF post # NoPost /\ post.seq = s THEN {post} ELSE {}
             f == [feed EXCEPT !.looked = @ + 1, !.items = @ \cup found]
  <2>1. feed.at = "posts" /\ cache' = [cache EXCEPT ![n] = post] /\ feed' = After(f)
    BY <1>4 DEF ReadPost
  <2>2. /\ s \in Nat /\ s < feed.next_seq /\ feed.next_seq <= wall.next_seq
        /\ n \in 1 .. PostSlots /\ feed.looked \in Nat /\ s = feed.next_seq - 1 - feed.looked
        /\ feed.items \subseteq Posts /\ feed.next_seq \in Nat
    BY <1>3, <2>1
  <2>3. post \in Posts \cup {NoPost} /\ (cache[n] # NoPost => post = cache[n])
        /\ (cache[n] = NoPost => post = slots[n])
    BY <1>0, <2>2 DEF Got
  <2> HIDE DEF s, n, post, found
  <2>4. f \in Refreshes /\ f.looked = feed.looked + 1 /\ f.next_seq = feed.next_seq
        /\ f.items = feed.items \cup found /\ f.clean = feed.clean
    <3>1. found \in SUBSET Posts
      BY <2>3 DEF found
    <3> QED
      BY <1>0, <3>1, OneMore
  <2> HIDE DEF f
  <2>5. /\ feed' \in Refreshes /\ feed'.next_seq = feed.next_seq
        /\ feed'.looked = feed.looked + 1 /\ feed'.items = feed.items \cup found
        /\ feed'.clean = feed.clean
        /\ feed'.at = "posts" => feed'.looked < ToRead(feed'.next_seq)
        /\ feed'.at = "shown" => feed'.looked >= ToRead(feed'.next_seq)
    BY <2>1, <2>4, AfterIs
  <2>6. cache' \in [1 .. PostSlots -> Posts \cup {NoPost}]
    BY <1>0, <2>1, <2>3
  <2>7. FeedTypes'
    BY <1>0, <1>p, <2>2, <2>5, <2>6 DEF FeedTypes, Refreshes
  <2>8. ASSUME wall.next_seq <= PostSlots
        PROVE  CacheSound' /\ FoundSoFar'
    <3>1. CacheSound /\ FoundSoFar /\ n = 1 + s /\ n <= wall.next_seq
      <4>1. s < PostSlots
        BY <1>0, <2>2, <2>8
      <4>2. n = 1 + s
        BY <2>2, <4>1, SlotOf DEF n
      <4>3. CacheSound /\ FoundSoFar
        BY <2>8 DEF FeedInv
      <4> QED
        BY <1>0, <2>2, <4>2, <4>3
    <3>2. \A m \in 1 .. PostSlots : m # n => cache'[m] = cache[m]
      BY <1>0, <2>1, <2>2
    <3>3. cache'[n] = post
      BY <1>0, <2>1, <2>2
    <3>4. slots[n].seq < wall.next_seq => post = slots[n]
      BY <2>2, <2>3, <3>1 DEF CacheSound
    <3>5. CacheSound'
      BY <1>0, <3>1, <3>2, <3>3, <3>4 DEF CacheSound
    <3>6. FoundSoFar'
      <4> SUFFICES ASSUME feed.clean, feed.next_seq = wall.next_seq, NEW p \in Newest,
                          p.seq >= wall.next_seq - (feed.looked + 1)
                   PROVE  p \in feed.items \cup found
        BY <1>0, <1>1, <2>5 DEF FoundSoFar
      <4>1. p.seq \in Nat /\ p.seq < wall.next_seq
        BY <1>1
      <4>2. CASE p.seq >= wall.next_seq - feed.looked
        BY <2>1, <3>1, <4>2 DEF FoundSoFar
      <4>3. CASE p.seq = s
        <5>1. PICK m \in 1 .. PostSlots : p = slots[m] /\ p # NoPost
          BY DEF Newest
        <5>2. slot_for(p.seq) = m
          BY <5>1 DEF CalmInv, SlotsSound
        <5>3. m = n
          BY <4>3, <5>2 DEF n
        <5>4. post = p
          BY <3>4, <4>1, <5>1, <5>3
        <5> QED
          BY <4>3, <5>1, <5>4 DEF found
      <4>4. p.seq >= wall.next_seq - feed.looked \/ p.seq = s
        BY <1>0, <2>2, <4>1, SMTT(20)
      <4> QED
        BY <4>2, <4>3, <4>4
    <3> QED
      BY <3>5, <3>6
  <2> QED
    BY <1>0, <2>7, <2>8 DEF FeedInv
<1>5. CASE ReadPostFails
  <2> DEFINE f == [feed EXCEPT !.looked = @ + 1, !.clean = FALSE]
  <2>1. feed.at = "posts" /\ cache' = cache /\ feed' = After(f)
    BY <1>5 DEF ReadPostFails
  <2>2. f \in Refreshes /\ f.next_seq = feed.next_seq /\ f.clean = FALSE
    BY <1>0, <1>3, <2>1, OneMore
  <2> HIDE DEF f
  <2>3. /\ feed' \in Refreshes /\ feed'.next_seq = feed.next_seq /\ feed'.clean = FALSE
        /\ feed'.at = "posts" => feed'.looked < ToRead(feed'.next_seq)
    BY <2>1, <2>2, AfterIs
  <2>4. feed.next_seq <= wall.next_seq
    BY DEF FeedInv, FeedTypes
  <2>5. FeedTypes'
    BY <1>0, <1>p, <2>1, <2>3, <2>4 DEF FeedTypes, Refreshes
  <2>6. FoundSoFar'
    BY <2>3 DEF FoundSoFar
  <2> QED
    BY <1>0, <2>1, <2>5, <2>6 DEF FeedInv, CacheSound
<1> QED
  BY <1>2, <1>4, <1>5 DEF FeedStep

-----------------------------------------------------------------------------
(* The wall and its follower.                                              *)

\* Every step of the author is one of the wall's.
LEMMA AuthorIsNext == AuthorNext => [Next]_vars
BY Zenon DEF AuthorNext, Next

LEMMA AuthorKeepsCalm ==
  ASSUME WallInv, CalmInv, calm, AuthorNext, calm'
  PROVE  CalmInv'
<1>1. ASSUME NEW r \in Requests, EditProfile(r) \/ NewPost(r), calm' = (calm /\ Alone')
      PROVE  CalmInv'
  <2>1. Alone'
    BY <1>1, Zenon
  <2> QED
    BY <1>1, <2>1, RequestBegins
<1>2. ASSUME NEW dead \in SUBSET profile.routes, RouteChange(dead), calm' = (calm /\ Alone')
      PROVE  CalmInv'
  <2>1. Alone'
    BY <1>2, Zenon
  <2> QED
    BY <1>2, <2>1, LoopBegins
<1>3. ASSUME NEW r \in Requests, PutPost(r) PROVE CalmInv'
  BY <1>3, PutPostCalm
<1>4. CASE (\E r \in Requests : CopyProfile(r)) \/ LoopCopies
  BY <1>4, CopyCalm
<1>5. CASE (\E r \in Requests : Publish(r)) \/ LoopPublishes
  BY <1>5, PublishCalm
<1>6. CASE Restart
  BY <1>6, RestartCalm
<1>7. CASE AtRest
  BY <1>7 DEF AtRest, vars, CalmInv, Alone, Serves, SlotsSound, AdvertisedIsThere,
              AnsweredIsKept, QuietIsPublished, Quiet
<1> QED
  BY <1>1, <1>2, <1>3, <1>4, <1>5, <1>6, <1>7, Zenon DEF AuthorNext

\* What the author's steps may do to the record.
LEMMA AuthorOnFeed ==
  ASSUME WallInv, CalmInv, calm, AuthorNext, calm'
  PROVE  \/ UNCHANGED slots /\ wall'.next_seq \in {wall.next_seq, wall.next_seq + 1}
         \/ /\ wall'.next_seq = wall.next_seq
            /\ \E p \in Posts : p.seq = wall.next_seq /\ slots' = [slots EXCEPT ![slot_for(p.seq)] = p]
<1>1. ASSUME NEW r \in Requests, EditProfile(r) \/ NewPost(r) \/ CopyProfile(r)
      PROVE  UNCHANGED slots /\ wall' = wall
  BY <1>1 DEF EditProfile, NewPost, CopyProfile
<1>2. ASSUME NEW dead, RouteChange(dead) PROVE UNCHANGED slots /\ wall' = wall
  BY <1>2 DEF RouteChange
<1>3. CASE LoopCopies \/ AtRest
  BY <1>3 DEF LoopCopies, AtRest, vars
<1>4. ASSUME NEW r \in Requests, Publish(r)
      PROVE  UNCHANGED slots /\ wall'.next_seq \in {wall.next_seq, wall.next_seq + 1}
  BY <1>4 DEF Publish, CalmInv, Serves
<1>5. CASE LoopPublishes
  BY <1>5 DEF LoopPublishes, CalmInv, Serves
<1>6. CASE Restart
  <2>1. wall \in Profiles
    BY DEF WallInv, TypeOK
  <2> QED
    BY <1>6, <2>1 DEF Restart, RestartWith, Profiles
<1>7. ASSUME NEW r \in Requests, PutPost(r)
      PROVE  /\ wall'.next_seq = wall.next_seq
             /\ \E p \in Posts : p.seq = wall.next_seq /\ slots' = [slots EXCEPT ![slot_for(p.seq)] = p]
  BY <1>7 DEF PutPost, WallInv, TypeOK, Tasks, CalmInv, Serves
<1> QED
  BY <1>1, <1>2, <1>3, <1>4, <1>5, <1>6, <1>7 DEF AuthorNext

LEMMA MCWallInit == MCInit => MCWallInv
BY WallInit, CalmInitially, FeedInitially DEF MCInit, MCWallInv

LEMMA MCWallStep == MCWallInv /\ [MCNext]_mcvars => MCWallInv'
<1> SUFFICES ASSUME MCWallInv, [MCNext]_mcvars PROVE MCWallInv'
  OBVIOUS
<1>0. WallInv /\ (calm => CalmInv /\ FeedInv)
  BY DEF MCWallInv
<1>1. CASE AuthorNext /\ IF calm' THEN UNCHANGED feedvars ELSE cache' = NothingCached /\ feed' = NoFeed
  <2>1. WallInv'
    BY <1>0, <1>1, AuthorIsNext, WallStep
  <2>2. ASSUME calm' PROVE CalmInv' /\ FeedInv'
    <3>1. calm
      BY <1>1, <2>2, Zenon DEF AuthorNext
    <3>2. CalmInv'
      BY <1>0, <1>1, <2>2, <3>1, AuthorKeepsCalm
    <3>3. UNCHANGED feedvars
      BY <1>1, <2>2
    <3>4. FeedInv'
      BY <1>0, <1>1, <2>1, <2>2, <3>1, <3>3, AuthorOnFeed, AuthorKeepsFeed
    <3> QED
      BY <3>2, <3>4
  <2> QED
    BY <2>1, <2>2, Zenon DEF MCWallInv
<1>2. CASE calm /\ FeedStep /\ UNCHANGED calm
  <2>1. UNCHANGED vars
    BY <1>2 DEF FeedStep, ReadProfile, ReadPost, ReadPostFails
  <2>2. WallInv'
    BY <1>0, <2>1, WallStep
  <2>3. CalmInv'
    BY <1>0, <1>2, <2>1 DEF vars, CalmInv, Alone, Serves, SlotsSound, AdvertisedIsThere,
                            AnsweredIsKept, QuietIsPublished, Quiet
  <2>4. FeedInv'
    BY <1>0, <1>2, FollowerKeepsFeed
  <2> QED
    BY <2>2, <2>3, <2>4 DEF MCWallInv
<1>3. CASE UNCHANGED mcvars
  <2>1. UNCHANGED vars /\ UNCHANGED feedvars /\ calm' = calm
    BY <1>3 DEF mcvars
  <2>2. WallInv'
    BY <1>0, <2>1, WallStep
  <2>3. ASSUME calm PROVE CalmInv' /\ FeedInv'
    <3>1. CalmInv'
      BY <1>0, <2>1, <2>3 DEF vars, CalmInv, Alone, Serves, SlotsSound, AdvertisedIsThere,
                              AnsweredIsKept, QuietIsPublished, Quiet
    <3>2. UNCHANGED slots /\ wall'.next_seq \in {wall.next_seq, wall.next_seq + 1}
      BY <2>1 DEF vars
    <3> QED
      BY <1>0, <2>1, <2>2, <2>3, <3>1, <3>2, AuthorKeepsFeed
  <2> QED
    BY <2>1, <2>2, <2>3, Zenon DEF MCWallInv
<1> QED
  BY <1>1, <1>2, <1>3, Zenon DEF MCNext

-----------------------------------------------------------------------------
(* The theorems.                                                           *)

\* The inductive invariant holds in every state: put_post takes the number and
\* counts on under one lock of the mutex, and whatever profile a restart reads
\* back, or fails to, counts no further than the posts written.
THEOREM WallInvariant == Spec => []WallInv
<1> QED
  BY WallInit, WallStep, PTL DEF Spec

\* Types: a pool holds at most cfg.pool routes, whichever died and however many
\* of the new ones could be created.
THEOREM WallTypeCorrect == Spec => []TypeOK
<1>1. WallInv => TypeOK
  BY DEF WallInv
<1> QED
  BY <1>1, WallInvariant, PTL

\* Two posts of one run never share a number, however many requests run at once.
THEOREM OneNumberEachTheorem == Spec => []OneNumberEach
<1>1. WallInv => OneNumberEach
  BY DEF WallInv
<1> QED
  BY <1>1, WallInvariant, PTL

\* The wall and its follower together: while no two writers have overlapped, no
\* write has failed and no restart has misread the profile, at most one writer is
\* under way, it serves the next number, and the follower has found what it has
\* looked for.
THEOREM MCWallInvariant == MCSpec => []MCWallInv
<1> QED
  BY MCWallInit, MCWallStep, PTL DEF MCSpec

\* While it is calm, every number advertised is in its slot, whatever restarts
\* come between a post and the profile that counts it, and however often the ring
\* has wrapped.
THEOREM CalmAdvertisedIsThereTheorem == MCSpec => []CalmAdvertisedIsThere
<1>1. MCWallInv => CalmAdvertisedIsThere
  BY Zenon DEF MCWallInv, CalmInv, CalmAdvertisedIsThere
<1> QED
  BY <1>1, MCWallInvariant, PTL

\* While it is calm, a post answered "ok" keeps its number and its slot until the
\* ring has come round.
THEOREM CalmAnsweredIsKeptTheorem == MCSpec => []CalmAnsweredIsKept
<1>1. MCWallInv => CalmAnsweredIsKept
  BY Zenon DEF MCWallInv, CalmInv, CalmAnsweredIsKept
<1> QED
  BY <1>1, MCWallInvariant, PTL

\* While it is calm, a node with nothing under way has published its profile as it
\* is, new routes included.
THEOREM CalmQuietIsPublishedTheorem == MCSpec => []CalmQuietIsPublished
<1>1. MCWallInv => CalmQuietIsPublished
  BY Zenon DEF MCWallInv, CalmInv, CalmQuietIsPublished
<1> QED
  BY <1>1, MCWallInvariant, PTL

\* Until the ring wraps, a refresh that was answered throughout shows each of the
\* newest posts, although the posts are read through a cache that never forgets.
THEOREM CalmFeedIsWholeTheorem == MCSpec => []CalmFeedIsWhole
<1>1. ASSUME MCWallInv, calm, wall.next_seq <= PostSlots PROVE FeedIsWhole
  <2> SUFFICES ASSUME Fresh, NEW p \in Newest PROVE p \in feed.items
    BY DEF FeedIsWhole
  <2>1. WallInv /\ FeedTypes /\ FoundSoFar
    BY <1>1 DEF MCWallInv, FeedInv
  <2>2. /\ wall.next_seq \in Nat /\ PostSlots \in Nat /\ PerAuthor \in Nat
        /\ slots \in [1 .. PostSlots -> Posts \cup {NoPost}] /\ feed.looked \in Nat
    BY <2>1, WallAssumption, FeedAssumption
       DEF WallInv, TypeOK, Profiles, FeedTypes, Refreshes
  <2>3. feed.at = "shown" /\ feed.clean /\ feed.next_seq = wall.next_seq
    BY DEF Fresh
  <2>4. feed.looked >= ToRead(wall.next_seq) /\ ToRead(wall.next_seq) \in Nat
    BY <2>1, <2>2, <2>3, LiveSeqs DEF FeedTypes
  <2>5. p.seq \in live_seqs(wall.next_seq) /\ p.seq >= wall.next_seq - PerAuthor
    BY DEF Newest
  <2>6. /\ p.seq \in Nat /\ p.seq < wall.next_seq /\ p.seq >= wall.next_seq - PostSlots
    BY <2>2, <2>5 DEF live_seqs
  <2>7. ~ (p.seq < wall.next_seq - ToRead(wall.next_seq))
    <3>1. p.seq < wall.next_seq - ToRead(wall.next_seq) =>
            p.seq < wall.next_seq - PostSlots \/ p.seq < wall.next_seq - PerAuthor
      BY <2>2, <2>6, LiveSeqs
    <3> QED
      BY <2>2, <2>5, <2>6, <3>1
  <2>8. p.seq >= wall.next_seq - feed.looked
    BY <2>2, <2>4, <2>6, <2>7
  <2> QED
    BY <2>1, <2>3, <2>8 DEF FoundSoFar
<1>2. MCWallInv => CalmFeedIsWhole
  BY <1>1, Zenon DEF CalmFeedIsWhole
<1> QED
  BY <1>2, MCWallInvariant, PTL

=============================================================================
