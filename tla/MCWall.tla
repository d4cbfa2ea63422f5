------------------------------- MODULE MCWall -------------------------------
(***************************************************************************)
(* Wall and a follower's feed of it, with a history variable, `calm`: so   *)
(* far no two writers of the record have been under way at once, no write  *)
(* has failed and no restart has misread the profile.  What the wall's     *)
(* comments promise holds as long as that lasts; without it only           *)
(* OneNumberEach does.  The follower is left out once it is over.          *)
(***************************************************************************)
EXTENDS Feed

VARIABLE calm

mcvars == <<vars, feedvars, calm>>

\* At most one request or the update loop is between its first step and its last.
Alone ==
  Cardinality({r \in Requests : task[r].at # "idle"}) + (IF loop.at = "idle" THEN 0 ELSE 1) <= 1

MCInit == Init /\ FeedInit /\ calm = TRUE

AuthorNext ==
  \/ \E r \in Requests :
       \/ (EditProfile(r) \/ NewPost(r)) /\ calm' = (calm /\ Alone')
       \/ (PutPost(r) \/ CopyProfile(r) \/ Publish(r)) /\ UNCHANGED calm
       \/ PutFails(r) /\ calm' = FALSE
  \/ \E dead \in SUBSET profile.routes : RouteChange(dead) /\ calm' = (calm /\ Alone')
  \/ (LoopCopies \/ LoopPublishes \/ Restart \/ AtRest) /\ UNCHANGED calm
  \/ (LoopPutFails \/ RestartUnread) /\ calm' = FALSE

MCNext ==
  \/ /\ AuthorNext
     /\ IF calm' THEN UNCHANGED feedvars ELSE cache' = NothingCached /\ feed' = NoFeed
  \/ calm /\ FeedStep /\ UNCHANGED calm

MCSpec == MCInit /\ [][MCNext]_mcvars

\* As long as it is calm, restarts and a ring that wraps included: every number
\* the wall advertises is there, ...
CalmAdvertisedIsThere == calm => AdvertisedIsThere

\* ... a post answered "ok" keeps its number, ...
CalmAnsweredIsKept == calm => AnsweredIsKept

\* ... and the published profile is the current one whenever the node is quiet.
CalmQuietIsPublished == calm => QuietIsPublished

\* Until the ring wraps, a refresh shows the newest posts the wall advertises, as
\* many as it reads, wherever between the author's writes its own reads come.
CalmFeedIsWhole == calm /\ wall.next_seq <= PostSlots => FeedIsWhole

\* "Skips the local cache, which is what you want when refreshing a feed": so it
\* does when the ring has wrapped.
CalmFeedIsFresh == calm => FeedIsWhole

=============================================================================
