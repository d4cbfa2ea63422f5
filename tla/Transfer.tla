------------------------------ MODULE Transfer ------------------------------
(***************************************************************************)
(* A whole file transfer: one sender per transfer id running send_one()    *)
(* under send()'s outer loop, the network between, and the Receiver.       *)
(*                                                                         *)
(* A control call is one app_call and its answer.  It can fail before or   *)
(* after the receiver has acted on it, and a request the caller has given  *)
(* up on can still arrive later.  Chunks are app_messages: unordered, lost *)
(* without notice, still in flight when the next pass starts.  Which route *)
(* carries a message does not matter here: losing the route ends the       *)
(* attempt, and Failover models which route comes next.                    *)
(***************************************************************************)
EXTENDS Receiver

CONSTANTS
  FileLen,       \* length of each content
  ChunkSize,     \* cfg.chunk, clamped
  MaxRounds,     \* cfg.max_rounds
  Attempts,      \* ATTEMPTS in call()
  MaxTries,      \* bound: routes the outer loop gets to try for one file
  MaxLost,       \* bound: messages the network fails to deliver
  MaxLate,       \* bound: abandoned requests in the network at once
  MaxCopies,     \* bound: copies of one chunk in flight at once
  MaxEdits,      \* bound: times a file changes on the sender's disk
  MaxRestarts    \* bound: restarts of the receiver

VARIABLES
  file,     \* what is on the sender's disk under each transfer's path
  snd,      \* the sender of each transfer
  call,     \* its app_call: not waiting, sent, or answered
  late,     \* requests abandoned by their caller, still in the network
  flight,   \* how many copies of each chunk message are in flight
  lost,     \* messages lost so far
  edits     \* file changes so far

svars == <<file, snd, call, late, flight, lost, edits>>
vars == <<rvars, svars>>

Count(v) == DivCeil(FileLen[v], ChunkSize)

ManifestOf(v) ==
  [total_len |-> FileLen[v], chunk_size |-> ChunkSize, chunk_count |-> Count(v), crc |-> v]

\* bytes[start..end] of the payload for chunk i.
ChunkOf(v, i) ==
  LET end == i * ChunkSize + ChunkSize
  IN  [index |-> i, content |-> v,
       len |-> (IF end <= FileLen[v] THEN end ELSE FileLen[v]) - i * ChunkSize]

ASSUME TransferAssumption ==
  /\ FileLen \in [Contents -> Nat]
  /\ ChunkSize \in 1 .. MaxChunkData
  /\ {MaxRounds, MaxLost, MaxLate, MaxCopies, MaxEdits, MaxRestarts} \subseteq Nat
  /\ {Attempts, MaxTries} \subseteq Nat \ {0}
  /\ \A v \in Contents :
       /\ ManifestOf(v) \in Manifests
       /\ \A i \in Slots : i * ChunkSize <= FileLen[v] => ChunkOf(v, i) \in Chunks

-----------------------------------------------------------------------------
(* The sender's state.                                                     *)

Calling == {"open", "reopen", "ask"}
Working == Calling \cup {"start", "blast", "settle"}

StatusReplies ==
  [state : {"complete", "in_progress", "unknown"}, missing_total : Nat, missing : SUBSET Slots]

Replies == [accepted : BOOLEAN] \cup StatusReplies

Senders ==
  [pc : Working \cup {"done", "failed"},
   why : {"", "refused", "forgotten", "unnamed", "short", "panic", "no_route"},
   content : Contents, round : Nat, attempt : Nat, tries : Nat,
   missing_total : Nat, missing : SUBSET Slots, to_send : SUBSET Slots,
   first_pass_missing : Nat \cup {None}, repairs : Nat]

Requests == [xfer : Xfers, kind : {"manifest", "status"}, content : Contents]

NewSender(v) ==
  [pc |-> "start", why |-> "", content |-> v, round |-> 0, attempt |-> 0, tries |-> 1,
   missing_total |-> 0, missing |-> {}, to_send |-> {}, first_pass_missing |-> None,
   repairs |-> 0]

NoCall == [st |-> "none", reply |-> None]
SentCall == [st |-> "sent", reply |-> None]
Answer(r) == [st |-> "answered", reply |-> r]

\* The request a sender in a calling state is waiting for.
Request(x) ==
  [xfer |-> x, content |-> snd[x].content,
   kind |-> IF snd[x].pc = "ask" THEN "status" ELSE "manifest"]

Fail(s, why) ==
  [s EXCEPT !.pc = "failed", !.why = why, !.to_send = {}, !.missing = {}, !.missing_total = 0]

\* send()'s outer loop after a lost route: another attempt if there is another
\* route to try.  What was read, asked and counted in send_one goes with it;
\* FileStats stays.
NextRoute(s) ==
  IF s.tries < MaxTries
  THEN [s EXCEPT !.pc = "start", !.tries = @ + 1, !.round = 0, !.attempt = 0,
                 !.to_send = {}, !.missing = {}, !.missing_total = 0]
  ELSE Fail(s, "no_route")

Enter(s, pc) == [s EXCEPT !.pc = pc, !.attempt = 1]

TransferInit ==
  /\ Init
  /\ file \in [Xfers -> Contents]
  /\ snd = [x \in Xfers |-> NewSender(file[x])]
  /\ call = [x \in Xfers |-> NoCall]
  /\ late = {}
  /\ flight = [x \in Xfers |-> [c \in Chunks |-> 0]]
  /\ lost = 0
  /\ edits = 0

-----------------------------------------------------------------------------
(* send_one().                                                             *)

\* Read the file and ask the receiver to open the transfer.  Giving up because the
\* file cannot be read, or makes too many chunks, is left to Failover's Fatal.
Start(x) ==
  /\ snd[x].pc = "start"
  /\ snd' = [snd EXCEPT ![x] = Enter([@ EXCEPT !.content = file[x]], "open")]
  /\ call' = [call EXCEPT ![x] = SentCall]
  /\ UNCHANGED <<rvars, file, late, flight, lost, edits>>

Answered(x) == snd[x].pc \in Calling /\ call[x].st = "answered"

\* open_transfer succeeds.  After a reopening, one more round is used up.
Accepted(x) ==
  /\ Answered(x)
  /\ snd[x].pc # "ask"
  /\ call[x].reply.accepted
  /\ LET round == IF snd[x].pc = "reopen" THEN snd[x].round + 1 ELSE 0
         s == [snd[x] EXCEPT !.round = round]
     IN  IF snd[x].pc = "reopen" /\ round > MaxRounds
         THEN /\ snd' = [snd EXCEPT ![x] = Fail(s, "forgotten")]
              /\ call' = [call EXCEPT ![x] = NoCall]
         ELSE /\ snd' = [snd EXCEPT ![x] = Enter(s, "ask")]
              /\ call' = [call EXCEPT ![x] = SentCall]
  /\ UNCHANGED <<rvars, file, late, flight, lost, edits>>

Refused(x) ==
  /\ Answered(x)
  /\ snd[x].pc # "ask"
  /\ ~ call[x].reply.accepted
  /\ snd' = [snd EXCEPT ![x] = Fail(@, "refused")]
  /\ call' = [call EXCEPT ![x] = NoCall]
  /\ UNCHANGED <<rvars, file, late, flight, lost, edits>>

\* Every status answer: round 1's is kept as the first pass's loss.
Told(x, state) ==
  /\ Answered(x)
  /\ snd[x].pc = "ask"
  /\ call[x].reply.state = state
  /\ UNCHANGED <<rvars, file, late, flight, lost, edits>>

\* Mutant: round 0's answer is kept, the starting position.
NotedAtOnce(x) ==
  IF snd[x].round = 0 /\ snd[x].first_pass_missing = None
  THEN [snd[x] EXCEPT !.first_pass_missing = call[x].reply.missing_total]
  ELSE snd[x]

Noted(x) ==
  IF snd[x].round = 1 /\ snd[x].first_pass_missing = None
  THEN [snd[x] EXCEPT !.first_pass_missing = call[x].reply.missing_total]
  ELSE snd[x]

ToldComplete(x) ==
  /\ Told(x, "complete")
  /\ snd' = [snd EXCEPT ![x] = [Noted(x) EXCEPT !.pc = "done"]]
  /\ call' = [call EXCEPT ![x] = NoCall]

ToldUnknown(x) ==
  /\ Told(x, "unknown")
  /\ snd' = [snd EXCEPT ![x] = Enter(Noted(x), "reopen")]
  /\ call' = [call EXCEPT ![x] = SentCall]

\* In the first round, a total above the file's own chunk count underflows
\* `already`: a debug build panics, a release build prints a wrong number.
ToldMissing(x) ==
  /\ Told(x, "in_progress")
  /\ LET r == call[x].reply
         s == [Noted(x) EXCEPT !.pc = "blast", !.missing_total = r.missing_total,
                               !.missing = r.missing, !.to_send = r.missing]
     IN  snd' = [snd EXCEPT ![x] = IF r.missing = {} THEN Fail(Noted(x), "unnamed") ELSE s]
  /\ call' = [call EXCEPT ![x] = NoCall]

UnderflowPanic(x) ==
  /\ Told(x, "in_progress")
  /\ snd[x].round = 0
  /\ call[x].reply.missing # {}
  /\ call[x].reply.missing_total > Count(snd[x].content)
  /\ snd' = [snd EXCEPT ![x] = Fail(Noted(x), "panic")]
  /\ call' = [call EXCEPT ![x] = NoCall]

\* blast(): any chunk still to send may be the next to leave, since up to
\* MAX_INFLIGHT sends run at once.  One that starts past the end of the file
\* panics in the slice.
SendChunk(x, i) ==
  /\ snd[x].pc = "blast"
  /\ i \in snd[x].to_send
  /\ i * ChunkSize <= FileLen[snd[x].content]
  /\ LET c == ChunkOf(snd[x].content, i) IN
       \/ /\ flight[x][c] < MaxCopies
          /\ flight' = [flight EXCEPT ![x][c] = @ + 1]
          /\ UNCHANGED lost
       \/ /\ lost < MaxLost
          /\ lost' = lost + 1
          /\ UNCHANGED flight
  /\ LET rest == snd[x].to_send \ {i}
     IN  snd' = [snd EXCEPT ![x].to_send = rest,
                            ![x].pc = IF rest = {} THEN "settle" ELSE "blast"]
  /\ UNCHANGED <<rvars, file, call, late, edits>>

SlicePanic(x, i) ==
  /\ snd[x].pc = "blast"
  /\ i \in snd[x].to_send
  /\ i * ChunkSize > FileLen[snd[x].content]
  /\ snd' = [snd EXCEPT ![x] = Fail(@, "panic")]
  /\ UNCHANGED <<rvars, file, call, late, flight, lost, edits>>

\* What follows a pass: it is counted, and the sender asks again or gives up.
Repaired(s) ==
  [s EXCEPT !.repairs = IF s.round > 0 THEN @ + 1 ELSE @, !.round = @ + 1]

\* Mutant: one repair pass fewer.
OutOfRoundsEarly(s) == s.round >= MaxRounds

OutOfRounds(s) == s.round > MaxRounds

\* The settling pause is over and the pass is counted; past max_rounds the
\* sender stops without asking again.
Settled(x) ==
  /\ snd[x].pc = "settle"
  /\ LET s == Repaired(snd[x])
     IN  IF OutOfRounds(s)
         THEN snd' = [snd EXCEPT ![x] = Fail(s, "short")] /\ UNCHANGED call
         ELSE /\ snd' = [snd EXCEPT ![x] =
                           Enter([s EXCEPT !.missing = {}, !.missing_total = 0], "ask")]
              /\ call' = [call EXCEPT ![x] = SentCall]
  /\ UNCHANGED <<rvars, file, late, flight, lost, edits>>

-----------------------------------------------------------------------------
(* The network and the outer loop.                                         *)

\* The request of a call that is given up on either never arrives or arrives
\* later; one already answered was delivered.
Abandon(x) ==
  \/ UNCHANGED late
  \/ /\ call[x].st = "sent"
     /\ Cardinality(late) < MaxLate
     /\ late' = late \cup {Request(x)}

\* Mutant: a retry waits without sending the request again.
CallFailsWaits(x) ==
  /\ snd[x].pc \in Calling
  /\ lost < MaxLost
  /\ lost' = lost + 1
  /\ Abandon(x)
  /\ call' = [call EXCEPT ![x] = NoCall]
  /\ snd' = [snd EXCEPT ![x] = IF @.attempt < Attempts THEN [@ EXCEPT !.attempt = @ + 1]
                               ELSE NextRoute(@)]
  /\ UNCHANGED <<rvars, file, flight, edits>>

\* One app_call fails or times out: call() repeats it, up to ATTEMPTS times,
\* and then the route counts as unusable.
CallFails(x) ==
  /\ snd[x].pc \in Calling
  /\ lost < MaxLost
  /\ lost' = lost + 1
  /\ Abandon(x)
  /\ IF snd[x].attempt < Attempts
     THEN /\ snd' = [snd EXCEPT ![x].attempt = @ + 1]
          /\ call' = [call EXCEPT ![x] = SentCall]
     ELSE /\ snd' = [snd EXCEPT ![x] = NextRoute(@)]
          /\ call' = [call EXCEPT ![x] = NoCall]
  /\ UNCHANGED <<rvars, file, flight, edits>>

\* watch_remote() returns while send_one is anywhere: the attempt is dropped.
RouteDies(x) ==
  /\ snd[x].pc \in Working
  /\ snd[x].tries < MaxTries
  /\ snd' = [snd EXCEPT ![x] = NextRoute(@)]
  /\ call' = [call EXCEPT ![x] = NoCall]
  /\ Abandon(x)
  /\ UNCHANGED <<rvars, file, flight, lost, edits>>

\* A request reaches the receiver: what it changes, and what it is told.
Handle(r) ==
  IF r.kind = "status" THEN RecvStatus(r.xfer) ELSE RecvManifest(r.xfer, ManifestOf(r.content))

ReplyTo(r) ==
  IF r.kind = "status" THEN StatusReply(r.xfer)
  ELSE [accepted |-> ManifestOk(r.xfer, ManifestOf(r.content))]

ReceiveCall(x) ==
  /\ snd[x].pc \in Calling
  /\ call[x].st = "sent"
  /\ Handle(Request(x))
  /\ call' = [call EXCEPT ![x] = Answer(ReplyTo(Request(x)))]
  /\ UNCHANGED <<file, snd, late, flight, lost, edits>>

ReceiveLate(r) ==
  /\ r \in late
  /\ Handle(r)
  /\ late' = late \ {r}
  /\ UNCHANGED <<file, snd, call, flight, lost, edits>>

ReceiveChunk(x, c) ==
  /\ flight[x][c] > 0
  /\ RecvChunk(x, c)
  /\ flight' = [flight EXCEPT ![x][c] = @ - 1]
  /\ UNCHANGED <<file, snd, call, late, lost, edits>>

LoseChunk(x, c) ==
  /\ flight[x][c] > 0
  /\ lost < MaxLost
  /\ flight' = [flight EXCEPT ![x][c] = @ - 1]
  /\ lost' = lost + 1
  /\ UNCHANGED <<rvars, file, snd, call, late, edits>>

WriteFile(x) == FinishOne(x) /\ UNCHANGED svars

ReceiverRestarts == restarts < MaxRestarts /\ Restart /\ UNCHANGED svars

\* The file under the path changes while the transfer is going on.
EditFile(x, v) ==
  /\ edits < MaxEdits
  /\ snd[x].pc \in Working
  /\ v # file[x]
  /\ file' = [file EXCEPT ![x] = v]
  /\ edits' = edits + 1
  /\ UNCHANGED <<rvars, snd, call, late, flight, lost>>

SenderStep(x) ==
  \/ Start(x) \/ Accepted(x) \/ Refused(x)
  \/ ToldComplete(x) \/ ToldUnknown(x) \/ ToldMissing(x) \/ UnderflowPanic(x)
  \/ (\E i \in Slots : SendChunk(x, i) \/ SlicePanic(x, i)) \/ Settled(x)

\* Every file has been delivered or given up, and the receiver waits for more.
Over ==
  /\ \A x \in Xfers : snd[x].pc \in {"done", "failed"}
  /\ phase = "loop"
  /\ UNCHANGED vars

TransferNext ==
  \/ \E x \in Xfers :
       \/ SenderStep(x) \/ CallFails(x) \/ RouteDies(x)
       \/ ReceiveCall(x) \/ WriteFile(x)
       \/ \E c \in Chunks : ReceiveChunk(x, c) \/ LoseChunk(x, c)
       \/ \E v \in Contents : EditFile(x, v)
  \/ \E r \in late : ReceiveLate(r)
  \/ ReceiverRestarts
  \/ Over

TransferSpec == TransferInit /\ [][TransferNext]_vars

\* Both programs keep running their own steps, and a message that is not lost
\* arrives.  Nothing fails because it must: losses, route deaths, restarts and
\* edits have no fairness.  A call waits without limit while the sender's node says
\* TryAgain (try_again_loop): that the node stops saying so is part of what the
\* fairness of ReceiveCall assumes.
Fairness ==
  \A x \in Xfers :
    /\ WF_vars(SenderStep(x))
    /\ WF_vars(ReceiveCall(x))
    /\ WF_vars(WriteFile(x))
    /\ \A c \in Chunks : WF_vars(ReceiveChunk(x, c))

FairSpec == TransferSpec /\ Fairness

-----------------------------------------------------------------------------
(* Properties.                                                             *)

\* Every variable has its type.
TransferTypeOK ==
  /\ TypeOK
  /\ file \in [Xfers -> Contents]
  /\ snd \in [Xfers -> Senders]
  /\ call \in [Xfers -> {NoCall, SentCall} \cup [st : {"answered"}, reply : Replies]]
  /\ late \subseteq Requests
  /\ flight \in [Xfers -> [Chunks -> 0 .. MaxCopies]]
  /\ lost \in 0 .. MaxLost
  /\ edits \in 0 .. MaxEdits

\* inc is the whole of content v.
IsWhole(inc, v) ==
  /\ inc.crc = v
  /\ inc.chunk_count = Count(v)
  /\ \A i \in 0 .. Count(v) - 1 : inc.data[i] = v

OnDisk(x, v) == \E k \in DOMAIN disk[x] : IsWhole(disk[x][k], v)

\* When the sender reports "delivered", the receiver has the very bytes that
\* were sent: every chunk of them, waiting to be written or on disk.  However
\* calls and chunks were lost, late, repeated or moved to other routes.
DeliveredIsHeld ==
  \A x \in Xfers :
    snd[x].pc = "done" =>
      \/ transfers[x] # Absent /\ IsWhole(transfers[x], snd[x].content)
      \/ OnDisk(x, snd[x].content)

\* "Afterwards both ends agree on what complete means" (the module's doc): what
\* a sender reports delivered is, once written, the content that it sent.
WrittenIsWhatWasSent ==
  \A x \in Xfers : \A k \in DOMAIN disk[x] :
    snd[x].pc = "done" => IsWhole(disk[x][k], snd[x].content)

\* The least that asks for: what is on disk of a transfer reported delivered is one
\* content, no mix of the pieces of several.
WrittenIsOneFile ==
  \A x \in Xfers : \A k \in DOMAIN disk[x] :
    snd[x].pc = "done" =>
      \E v \in Contents : \A i \in 0 .. disk[x][k].chunk_count - 1 : disk[x][k].data[i] = v

\* A sender acting on a status answer leaves no chunk behind: what the receiver
\* still lacks is in the list it was given, unless the list was full.
NothingForgotten ==
  \A x \in Xfers :
    (/\ snd[x].pc \in {"blast", "settle"}
     /\ transfers[x] # Absent
     /\ Cardinality(snd[x].missing) < MaxListed)
      => Lacking(transfers[x]) \subseteq snd[x].missing

\* Whenever the receiver calls a transfer short it names a chunk, so the sender
\* never gives up for want of something to send.
AlwaysNamesOne == \A x \in Xfers : snd[x].why # "unnamed"

\* Every sender ends: with as many restarts, lost messages and dead routes as
\* the bounds allow, it delivers the file or gives it up.
SenderEnds == \A x \in Xfers : <>(snd[x].pc \in {"done", "failed"})

\* A file the sender reports delivered is written to disk.
DeliveredIsWritten ==
  \A x \in Xfers : snd[x].pc = "done" ~> disk[x] # << >>

-----------------------------------------------------------------------------
(* Transfer implements Delivery.                                           *)

PieceSet(v) == 0 .. Count(v) - 1

Promise == INSTANCE Delivery WITH
  Files   <- Xfers,
  need    <- [x \in Xfers |-> PieceSet(file[x])],
  held    <- [x \in Xfers |-> IF transfers[x] # Absent THEN transfers[x].have
                              ELSE IF x \in completed THEN PieceSet(file[x]) ELSE {}],
  stored  <- [x \in Xfers |-> Len(disk[x])],
  verdict <- [x \in Xfers |-> CASE snd[x].pc = "done"   -> "delivered"
                                [] snd[x].pc = "failed" -> "given_up"
                                [] OTHER                -> "nothing"]

\* A transfer to a receiver that is not restarted, of files nobody edits, does
\* what Delivery promises: lossy network, late requests and lost routes never
\* show in what is stored and reported.
ImplementsDelivery == Promise!Spec

=============================================================================
