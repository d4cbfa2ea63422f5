# A formal model of veilid-vc

veilid-vc sends messages over the Veilid network: it measures how well a
private route delivers, transfers files to a receiver whose routes keep dying,
and serves a small social wall from a DHT record. What it has to get right is
mostly a matter of order: chunks that arrive late or twice, calls that time out
after they were answered, routes that die while a replacement is being built,
requests that publish over each other. These modules model that, TLC checks
them on small instances, and TLAPS proves the most important properties for
every value of the constants.

All paths of the form `transfer.rs` are relative to `src/src/`. `PROJECT.json`
maps every definition to the lines it stands for.

## The system

| component | state it keeps | operations | model |
|---|---|---|---|
| file receiver (`transfer.rs`: `recv`, `answer`, `Incoming`, `finish_completed`) | `transfers`, `completed`, files in `--out` | manifest, status, chunk, writing out | `Receiver` |
| file sender (`send_one`, `open_transfer`, `call`, `blast`) | one transfer's round, list of missing chunks, `FileStats` | manifest, status, passes of chunks, settling, repair, retries | `Transfer` |
| receiver's routes (`Pool`, `Rendezvous`, arms of `recv`) | `routes`, `retiring`, the DHT record | build, top up, publish, rotate, reap | `Pool` |
| sender's routes (`send`'s outer loop, `import_routes`) | `routes`, `current`, `refreshes` | next spare, re-read the record, give up | `Failover` |
| wall (`node.rs`, `social.rs`) | `State` behind a mutex, the DHT record | profile edit, post, route change, start | `Wall` |
| feed (`feed`, `read_profile`, `read_post`) | veilid's local cache of records | refresh | `Feed` |
| direct messages (`send_dm`, `handle_social`, the update loop of `serve`) | the peer's routes, record and inbox | send over each route, handle a call, replace a route | `Messages` |
| follows (`follow`, `unfollow`, `save_follows`, `load_follows`) and the requests that ask for them (`web.rs`: `read_request`) | `follows`, its file, one buffer per connection | read head and body, change the list, save it | `Web` |
| wire format (`proto.rs`: `encode`, `decode`) | none | encode, decode | `Codec` |
| measurement (`roles.rs`: `probe`, `listen`) | sequence number, permits, tallies, return route | Hello, probe, echo, rebuild, report | `Probing` |
| tallies (`stats.rs`: `Arrivals`) | seen, lowest, highest, counters | `record`, `inferred_loss` | `Arrivals` |
| `Latency`, `Jitter`, reports, verdict (`stats.rs`) | floating-point aggregates | - | not modelled |
| `crc32`, command line, start-up (`main.rs`), file names, page (`app.html`) | none | - | not modelled |

How they interact. A file sender reads the receiver's rendezvous record (or is
given a blob) and imports routes (`Failover` reads what `Pool` publishes); over
one of them it makes `app_call`s, each answered by `answer()`, and sends chunks
as `app_message`s, which nobody acknowledges (`Transfer`). `recv` is one loop:
packets, route changes, the rotation timer and Ctrl-C are its arms, so a packet
is handled whole, but a route can die while an arm awaits a new route or a DHT
write. The social node is different: each browser connection is a task (`Web`),
and a task holds the mutex only while it changes or copies the state, never
across a DHT write (`Wall`) or a write of the follows file (`Web`). Calls from
other nodes and the deaths of its own routes come to one update loop, which
handles neither while it rebuilds and publishes its routes (`Messages`). What a
node publishes another one reads at any moment: its profile and posts (`Feed`),
its list of routes (`Messages`). A measurement is two processes that share only
messages. Every packet of a transfer, a measurement or a message is bytes made
and read by the wire format; `Codec` models that, and the other modules take
packets as records.

What is hard about it, and so what the properties are about (every one is listed
with its line under `hazards` in `PROJECT.json`):

- a repaired file: duplicates must not be counted, no chunk may be forgotten
  although one answer names at most `MAX_MISSING_LISTED`, and a retried manifest
  must neither restart a transfer nor open a written one again;
- the two ends' idea of "complete", when calls are late, routes are lost, the
  receiver restarts or the file is edited between attempts;
- routes that are advertised and not answered, or answered and not advertised;
- a sender that never stops, or stops too early, when routes keep failing;
- two requests that each publish the whole profile, and a reader in between;
- a message that is handled while its caller already tries another route;
- a list saved after the mutex that guards it is released;
- a request, or a packet, that comes in pieces, is cut, or says more than is so;
- what a figure in a report means when messages overtake each other.

## Modules

| module | role |
|---|---|
| `Receiver` | the receiver against an arbitrary environment |
| `MCReceiver` | its instance: packets well-formed and not |
| `Transfer` | senders + network, EXTENDS `Receiver` (composition) |
| `Delivery` | what a transfer promises, without messages |
| `MCTransfer` | instances of `Transfer` |
| `MCDrained` | `MCTransfer` with a history variable: has every pause outlasted its chunks? |
| `Pool`, `Failover` | one component each, with its environment |
| `Wall` | the author's side of the wall |
| `Feed` | a follower's side, EXTENDS `Wall` (composition) |
| `MCWall` | both, with a history variable: has it been calm so far? |
| `Messages` | senders, network and a peer |
| `MCMessages` | `Messages` with such a variable |
| `Web` | connections, requests and the list of follows |
| `MCWeb` | the clients to try it on, and two history variables |
| `Codec` | encode and decode, over any base and widths |
| `MCCodec` | the packets to try it on |
| `Arrivals` | the tally as a pure record and operators on it |
| `Probing` | both ends of a measurement, EXTENDS `Arrivals` |
| `TransferProofs` | theorems and proofs about `Receiver`, `Transfer`, the refinement of `Delivery`, and `MCDrained` |
| `PoolProofs`, `FailoverProofs`, `WallProofs`, `MessagesProofs`, `ProbingProofs`, `WebProofs`, `CodecProofs` | theorems and proofs about `Pool`, `Failover`, `MCWall`, `Messages`, `Probing`, `MCWeb` and `Codec`, and about what each of these extends |

An operator marked *Mutant* stands before the definition it varies. It is a
plausible mistake in that line of code; replacing the definition by it makes the
property it is paired with (`mutants` in `PROJECT.json`) fail.

### Receiver

`transfers` and `completed` are the maps of `recv()`. A file's content is one
value of `Contents`, which also stands for its crc32; chunk `i` of content `v`
carries `v`, and a slot of the buffer holds the content its bytes came from, or
`Zero`. That keeps what matters (which bytes of which version went where) and
drops the bytes. `RecvManifest`, `RecvStatus` and `RecvChunk` are the three
packets `answer()` and the chunk arm handle; the first two end in
`finish_completed`, whose loop is the action `FinishOne`, one per file, during
which `phase` is `"finish"` and no packet is handled. `RecvChunk` does not reach
it: that is how the code is. `Restart` loses both maps, which live in memory.

### Transfer

One sender per transfer id, at a program counter for each place `send_one`
awaits: `start`, `open`, `ask`, `reopen`, `blast`, `settle`. `call` is the
`app_call` it waits for. `CallFails` loses a request or an answer or lets it
time out, leaving the request in `late` or not; `call()` repeats it `ATTEMPTS`
times, then the route is unusable (`NextRoute`). `RouteDies` is `watch_remote`
winning the `select!`: the attempt is dropped wherever it is, and what is in
flight stays in flight. `flight` counts copies of each chunk message; they
arrive in any order. `blast` sends up to `MAX_INFLIGHT` at once, so any chunk
still to send may be next. `EditFile` changes the file on disk: each attempt
reads it again. The two ways the sender panics then (`UnderflowPanic`, for
`chunk_count - missing_total`, and `SlicePanic`, for `bytes[start..end]`) are
actions. The two other fatal ends of an attempt that come before the first
call (an unreadable file, too many chunks) are left to `Failover`'s `Fatal`: they
touch nothing of a transfer. How long `settle_ms` is compared to the network is left open: a pause
may end with chunks still in flight. `drained`, in `MCDrained`, records whether
every pause so far outlasted its chunks.

### Delivery

Pieces of a file reach the receiver and stay; a file is stored once, only when
whole; the sender reports delivered only what is held. `Transfer` is shown to
implement it (`ImplementsDelivery`) through the mapping at the end of
`Transfer`: `held` is `have` of the entry, or everything once the id is in
`completed`; `verdict` is how `send_one` ended. It holds for a receiver that
keeps running, a disk that works and a file nobody edits.

### Pool

Routes are numbered as they are created. `routes`, `retiring` and `record` are
those of the code; `up` is what the network answers and `news` the deaths whose
`RouteChange` has not been handled. Each await of `recv`'s arms is a `phase`:
`build`, `open`, `top_up`, `publish`, `rotate`. Time is what the code asks of
it: `hot` (a message noted within `HOT_WINDOW`), `expired` (`ROTATION_GRACE` is
over). `HandleMessage` is the `note_traffic` a message gets when the loop reads
it, which may be later than its arrival. Opening a saved record, or creating
one, is one step that gives a record or none. A publish may fail at any time; the
code prints the error and does not repeat the write, and `stale` records that
the last one failed.

### Failover

The list imported last, the index in use, and the refreshes of this file. One
attempt on one route is an abstract step with the outcomes `send_one` has
(delivered, unusable, fatal, interrupted). The receiver's record and routes
change arbitrarily, which includes everything `Pool` does. So does `ready`,
whether the sender's own node answers anything but `TryAgain`:
`try_again_loop` (`roles.rs:73-103`) repeats a request for as long as it does not,
and both `import_routes` and `call` are built on it. An import waits until
`ready`, and Ctrl-C is not heard meanwhile, since `import_routes` is awaited
outside the `select!` (`transfer.rs:866`): `Interrupted` is an action of an attempt
only.

### Wall

`profile` and `posts` are the state behind the mutex, `wall` and `slots` the
record. A request is a task whose steps are the pieces between DHT writes:
take a number, put the post, copy the profile, put the copy. The update loop
copies and publishes in the same way. A write that fails is an action of its own
(`PutFails`, `LoopPutFails`). `Restart` re-reads the published profile;
`RestartUnread` starts from a blank one, when that read fails.

### Feed

A refresh (`feed`) reads the profile past the local cache and then, one step
each, the newest posts it advertises, between any two of the author's steps.
`cache` is what veilid keeps of a record that was opened: `Got` answers from it
whenever a slot was read before, since `read_post` is called without `force`. A
post whose number is not the one looked for is dropped, as `read_post` does.

### Messages

A sender reads the peer's `record` once and calls the routes of that list in
order (`snd`). A call is in `net`, in the peer's `queue`, or answered; the caller
can hear an error wherever it is (`CallErrs`). `queue` is the channel of updates:
calls, and `RouteChange`s that name one dead route or several, taken one at a
time, only while `loop` serves.
`HandleDeath`, `Create`, `SetRoutes`, `LoopCopies` and `LoopPuts` are the awaits
of the loop's `RouteChange` arm, in order. `editor` is a browser's task that
publishes an edited profile, whose copy holds the routes as well. `whole` says
whether a message fits one `app_message`: one that does not is cut by `encode`,
does not parse, is answered "unknown", and the caller reports success.

### Web

A connection is a number of bytes in pieces of any size; what they say matters
only where the code looks at it (where the head ends, the declared length, the
length of the JSON and the key it names). `ReadHead`, `HeadRejected`, `ReadBody`
are the reads of `read_request`, and `ReadFails` is one that returns an error, in
the head or in the body: the request is rejected. `Follow`, `FollowRefused` and `Unfollow` the
change under the mutex, with a copy of the list; `Truncate` and `Write` the two
halves of `fs::write`, after it. Keys are equally long, so a write over what
another task has written meanwhile replaces lines and leaves the rest.

### Codec

`Encode` and `Decode` for all ten kinds, byte by byte; a byte is a digit of base
`Base` and integers are `W16`, `W32` and `W64` digits wide, so that the limits
of a count, of a `usize` and of a message can be reached. `Cut` and `Spoil` are
what can become of the bytes on the way; they also stand for messages that
something else sent. Three things decode does not keep as they came
(`Rewritten`): bytes of a string that are no UTF-8, the value of a byte that says
"accepted", and what a list of missing chunks has beyond what `encode` would put
into one message (decode takes it, so encoding it again cuts it).

### Arrivals and Probing

`Record`, `Unique` and `InferredLoss` are `Arrivals`' methods. In `Probing` each
send is a task with a permit (`sending`, `echoing`), its result comes back over
a channel (`results`), and `net` holds messages in flight, delivered in any
order, possibly twice. A send task (`roles.rs:338-346`) has three steps. Its probe
leaves (`ProbeLeaves`) inside `app_message().await`, from where on the far end may
hear it and its echo come back; the await returns and the task reports
(`ProbeReports`); the task ends and its permit is free (`PermitReleased`). `away`
has the numbers between the first two, `closing` counts the tasks between the
last two. An `app_message` that returns an error is taken not to have sent
anything. The listener's tasks are split in the same way (`EchoLeaves`,
`EchoEnds`); what they report goes to its own send counters, which are left out.
`Report` comes after the drain, whatever is still under way. An echo that was
queued before the `RouteChange` of its route is still counted (`RecvEcho`).

## What is checked

Passing runs:

| run | shows | bounds |
|---|---|---|
| `Receiver` | no file with holes (`NoHoles`), at most one copy per run (`WrittenOncePerRun`), the spans of an accepted manifest partition the buffer (`SpansCoverFile`), no chunk is un-received (`NeverLosesProgress`), and the invariant the proofs use (`ReceiverInv`) | 2 ids, 2 contents, 6 packets, 1 restart, failing disk, 7 shapes of manifest |
| `TransferLossy` | what is reported delivered is held (`DeliveredIsHeld`) and in the end written (`DeliveredIsWritten`); no missing chunk is left out of a list that had room (`NothingForgotten`); `Transfer` implements `Delivery`. Where the pauses outlast the chunks: the first pass's figure, of a file one answer can name, is no more than was lost (`FirstPassLossIsLoss`), nothing is sent twice on one route (`NothingSentTwice`), fewer losses than rounds are repaired (`FewLossesAreRepaired`) | a file of 2 chunks, an empty one or one over the receiver's limit; 2 losses, 2 rounds, 2 attempts per call, 2 routes, 1 late request, 2 copies of a chunk |
| `TransferFaults` | the receiver is killed and run again and the file changes to one with another number of chunks, or to one over the limit: the sender ends (`SenderEnds`), a short receiver always names a chunk (`AlwaysNamesOne`) | 1 restart, 1 edit, 1 loss, 1 round, 2 routes, 1 late request |
| `Pool` | between updates the pool works and, unless the last write failed, the record names it (`RecordIsThePool`); then a route is never dropped while advertised (`NeverDropsAdvertised`); a dead route leaves the record, or a write fails, or the run ends (`DeadIsUnpublished`) | 3 routes created, pool of 2, failing creations and writes |
| `Failover` | an attempt always has a route (`AlwaysARoute`), a file costs at most `PoolSize * (MaxPoolRefreshes + 1)` attempts (`BoundedTries`), `send()` returns once `TryAgain` has stopped for good (`SendReturns`) | 2 routes, 2 files, 3 refreshes |
| `Wall` | two posts of one run never share a number (`OneNumberEach`), whatever overlaps and fails. As long as no two writers overlap and no write fails, restarts and a ring that wraps included: what is advertised is there, what was answered "ok" is kept, a quiet node is published (`CalmAdvertisedIsThere`, `CalmAnsweredIsKept`, `CalmQuietIsPublished`); and until the ring wraps a refresh shows the newest posts advertised, as many as it reads (`CalmFeedIsWhole`) | 2 requests, 4 posts in a ring of 3, 1 edit, 2 routes, 1 restart, feeds of 2 posts, failing reads and writes |
| `Messages` | a sender told "ok" of a message that fits was heard (`OkIsReceived`); no more copies of a message than routes it was tried on (`CopiesAreTries`); while no two tasks publish at once and nothing fails, the published list ends up the current one, not empty, all of it up (`CalmEndsCurrent`) | 1 message, pool of 2, 6 routes, 2 deaths, 1 failure, 1 edit, 1 restart |
| `Web` | how a request is cut into reads does not show (`CutsDoNotShow`); a client that sends all it declares, or closes, or whose connection breaks, is answered (`ClientsAreAnswered`); the list of follows is what was asked for, in memory and, when quiet, in the file, as long as no two saves overlap or fail (`CalmFollowsKept`) | 3 connections, 2 keys, heads up to 3, reads of 2 and 3, bodies up to 4, 1 failed save, 1 restart |
| `Codec` | what arrives whole is decoded to what was sent, cut to what can be counted or carried (`RoundTrip`); what is cut short is dropped (`CutIsDropped`); whatever the bytes, a decoded packet is made of bytes that are there (`DecodedIsThere`) | bytes of base 12, widths 1, 2 and 3, messages up to 17, every cut, every change of one byte |
| `Probing` | `TalliesSound`, `LossesAreGaps`, `Accounted`, delivery never over-reported (`EchoedWasSent`), inferred loss explained (`InferredIsExplained`), and the invariant the proofs use | 3 probes, 2 return routes, 1 permit each, any losses, 1 message doubled or return route dead |

Why the bounds are enough. The interesting cases need few of each thing: a lost
and a received chunk (two chunks), a duplicate that arrives in a later pass (two
copies), a call that fails for good and one that is retried (two attempts), a
request that is handled after its retry (one late request), a spare and a
refresh (two routes), a list that is shorter than what is missing
(`MaxListed = 1` with two chunks, in `Receiver` and `TransferFaults`), a ring that wraps (more posts
than slots), a second death while the first is replaced (two deaths), a head at
the limit and one past it, a body that shares a piece with its head, two saves
that overlap and a third list, a gap between two probes received in either order
(three probes), an echo counted while the task that sent its probe has not resumed
(one permit), a number inside a gap that was refused for want of a permit (one
permit, three probes). With more permits several send tasks overlap; what
`ProbingInvariant` and the theorems on it say has no bounds. Every bound is a
CONSTANT with `bound:` in its comment.
`MCReceiver` stops when its packets run out and `MCCodec` when its bytes were
cut or changed, so their configurations turn the deadlock check off; every
other run checks it, with a stuttering action for the ends that are meant
(`Over`, `Ended`, `AtRest`).

The history variables `calm` and `drained` say under which circumstances a
promise of a comment or of the README is kept; they only watch. The cases
outside them are in the runs as well, and are what the next section lists.

### Disagreements between the code and what the repository says

Each of these runs checks one property, which a comment or the README states and
TLC finds violated. The quotes are in `findings`.

| run | what the counterexample shows |
|---|---|
| `VWrittenIsOneFile` | the manifest of one version is accepted and a chunk of it sent and received; the route dies; the file is edited, its length the same; the next attempt sends the manifest and the remaining chunk of the new version. `answer()` keeps the first manifest under the same transfer id, the file is complete, the sender reports it delivered, and what is written has a chunk of each version. `WrittenIsWhatWasSentTheorem` shows that without restarts, edits and failing writes this cannot happen |
| `VFeedIsFresh` | a follower has read a slot of the ring, the author wraps it, and `feed()` asks for the new number without `force`: veilid answers from what it has, `read_post` drops the old post, and the newest post is not shown, though the doc of `force` calls skipping the cache what a feed's refresh wants |

The models contain other behaviour worth knowing of, for which no run is kept:

- a sender that has done its last pass gives up without asking again, and so
  reports chunks short of a file that may be whole;
- a publish that fails after a rotation is not repeated: the retired route is
  released at the end of its grace while the record still names it, and a dead
  route may stay advertised until another change of the pool (`stale`);
- the update loop has copied the profile, a post is put, published and answered
  "ok", then the loop puts its older copy: the post is not advertised any more,
  and after a restart its number goes to another;
- in the same way a profile edit that was copied before the routes died can put
  back a list none of which is up (`CalmEndsCurrent` needs `calm`);
- a call that was handled while its caller timed out is repeated on the next
  route, and the message is in the inbox twice: nothing tells copies apart;
- two overlapping saves of the follows list can leave the older one in the file,
  or lines of both; a save that is interrupted leaves it empty;
- a route lost with chunks in flight: they are reported missing on the next
  route and sent again;
- a file of more chunks than an answer can name (`MAX_MISSING_LISTED`): what the
  first answer leaves out is not sent in the first pass, and yet counts as lost
  in it (`FirstPassLossIsLoss` is about files that fit, `FitsOneAnswer`);
- a receiver that restarts before round 1's answer makes the whole file count
  as first-pass loss, and the receiver's own first-pass figure is taken at the
  first status query, which comes before any chunk;
- `FinishOne` adds the id to `completed` whether or not the disk took the file;
- a file whose last chunk arrives after the sender's last call stays in memory:
  `RecvChunk` does not reach `finish_completed`;
- without a record, the death of any route of the pool ends the run, and
  rotation retires routes before it says that it skips rotation;
- `refreshes` is not reset by progress on the same file, and one failed re-read
  of the record ends `send()` (`ImportFails`);
- a Hello the network loses is not repeated, and an older Hello that arrives
  later replaces a newer one.

### Fairness

- `Transfer`: weak fairness of each sender's own steps, of a call reaching the
  receiver, of `finish_completed`, and of each chunk in flight. Tokio keeps
  polling a task that is ready, and a message that is not lost arrives. Losses,
  failing calls, dying routes, restarts and edits have no fairness: nothing
  good depends on something failing. `Settled` is a timer, which fires. `call()`
  too is built on `try_again_loop`: that an attempt of it ends, in an answer or an
  error, assumes that the sender's node stops answering `TryAgain`.
- `Pool`: weak fairness of the loop's own steps (each await returns), strong
  fairness of handling a route's `RouteChange`: the loop leaves its select and
  comes back any number of times, and a `select!` with a ready arm picks it
  eventually. Timer, traffic and deaths owe nothing.
- `Failover`: weak fairness of the sender's steps but Ctrl-C, while `ready`. An
  attempt then ends because its calls and rounds are bounded, which `SenderEnds`
  shows of `Transfer`. Nothing bounds the waits for `TryAgain` to end, so
  `SendReturns` assumes that it does (`<>[]ready`); without that it fails, and
  `send()` waits for ever.
- `Messages`: weak fairness of the peer's update loop and of its browser's task:
  a creation or a DHT write ends by succeeding or failing. Senders and the
  network owe nothing.
- `Web`: weak fairness of each connection's task, which includes that bytes a
  client has sent arrive.
- `Wall`, `Feed`, `Codec` and `Probing`: safety only.

## What is proved

For every value of the constants, under the assumptions the modules name
(`ReceiverAssumption`, `AbsentAssumption`, `NeverAssumption`,
`TransferAssumption`, `PoolAssumption`, `FailoverAssumption`, `WallAssumption`,
`NoPostAssumption`, `MessagesAssumption`, `WebAssumption`, `ProbingAssumption`,
`CodecAssumption`, `PacketAssumption`; TLC evaluates them in the runs):

| theorem | says |
|---|---|
| `ReceiverInvariant` | `Spec => []ReceiverInv` |
| `NoHolesTheorem`, `WrittenOnceTheorem`, `SpansCoverFileTheorem`, `ProgressTheorem` | the properties of run `Receiver`, for any sets of ids, contents, manifests and chunks |
| `TransferInvariant`, `TransferTypeCorrect`, `AlwaysNamesOneTheorem` | the senders' invariant beside the receiver's, with any losses, copies, late requests, edits and restarts |
| `TransferImplementsReceiver`, `TransferNoHoles`, `TransferWrittenOnce` | every run of `Transfer` is one of `Receiver` for the receiver's part, so what is proved of it carries over |
| `NothingForgottenTheorem` | with `MaxRestarts = 0` |
| `HonestInvariant`, `DeliveredIsHeldTheorem`, `WrittenIsWhatWasSentTheorem`, `ImplementsDeliveryTheorem` | without restarts, edits and failing writes |
| `SentOnceInvariant`, `NothingSentTwiceTheorem` | with any losses, edits and restarts |
| `LossInvariant`, `FirstPassLossIsLossTheorem` | without restarts and edits |
| `PoolInvariant`, `PoolTypeCorrect`, `RecordIsThePoolTheorem`, `NeverDropsAdvertisedTheorem` | for any pool size and number of routes, whatever fails |
| `FailoverInvariant`, `AlwaysARouteTheorem`, `BoundedTriesTheorem` | for any lists, files and limit of refreshes |
| `WallInvariant`, `WallTypeCorrect`, `OneNumberEachTheorem` | for any number of requests, posts, slots, failures and restarts |
| `MCWallInvariant`, `CalmAdvertisedIsThereTheorem`, `CalmAnsweredIsKeptTheorem`, `CalmQuietIsPublishedTheorem`, `CalmFeedIsWholeTheorem` | the same, and for any limit of a feed |
| `MessagesInvariant`, `OkIsReceivedTheorem`, `CopiesAreTriesTheorem` | for any messages, lists, deaths, failures and restarts |
| `WebInvariant`, `CutsDoNotShowTheorem` | for any clients, limits and sizes of reads, failed saves and restarts |
| `CalmInvariant`, `CalmFollowsKeptTheorem` | for any number of connections, keys and restarts |
| `ProbingInvariant`, `TalliesSoundTheorem`, `LossesAreGapsTheorem`, `AccountedTheorem`, `EchoedWasSentTheorem`, `InferredIsExplainedTheorem` | for any number of probes, routes, duplicates and permits, whatever is lost |
| `WireInvariant`, `RoundTripTheorem`, `CutIsDroppedTheorem`, `DecodedIsThereTheorem` | for any base above the largest kind byte, any widths and message limit, and any packets whose bytes a `usize` can count; wherever a message is cut, and for the last one whatever bytes are changed |

The receiver. `NoHoles` is not inductive: a file is written when a *counter*
equals the number of chunks, so the invariant has to tie the counter to the set
of chunks held (`CountIsHave`), that set to the buffer (`SlotsMatchHave`), and
to bound both by the manifest, in memory (`TransfersSound`) and on disk
(`DiskSound`). A set of `n` numbers below `n` is all of them: that is the step
from `have_count = chunk_count` to "no hole". `WrittenOncePerRun` needs that an
id in `completed` has no entry (`OneCopyPerRun`); without it a second file of
that id could be completing already. `SpansCoverFile` is arithmetic from
`chunk_count = DivCeil(total_len, chunk_size)`, which `answer()` insists on.
`ProgressTheorem` is an action property and uses only that `Store` never writes
to a slot that is held.

The transfer. Each of the senders' steps leaves the receiver alone, and each
step of the network is a receiver's step or none, so the receiver's invariant
and the senders' (`SenderInv`) are one induction. `AlwaysNamesOne` follows: the
reply of a receiver that is short names the first of its missing chunks.
`NothingForgotten` relates three places, the receiver's `have`, the answer under
way and the sender's list: without restarts `have` only grows (`Steadfast`), so
a list that had room when it was made still has every missing chunk in it
(`InformedOf`). `DeliveredIsHeld` and the refinement need that whatever is on
its way, in an entry or on disk is of the one content of that id
(`MessagesFromFile`, `EntryFromFile`) and that an answer "complete" was true
when given (`Trusted`). Each action is then shown to be a step of `Delivery`
or a stutter under the mapping (`HeldOf`, `VerdictOf`).

Pauses that outlast their chunks. `NothingSentTwice` is about the sender's list
and the receiver's `have`, which meet only in an answer. Between them are the
chunks in flight, and they are why the property needs `drained`: `Unsent` says
that while a call is waited for on the first route nothing is in flight, so that
what the answer names as missing cannot arrive any more except by being sent,
and that what is still on the list has neither arrived nor left. Late requests
cannot disturb it: on the first route they are all this sender's own and of the
content it sends, and so is the entry they open (`OnFirst`). `FirstPassLossIsLoss` follows a number through four places: the chunks
gone (lacking, neither to be sent nor in flight) during the first pass and its pause, all that
the receiver lacks when the pause has drained, the total in its answer, and what the
sender keeps (`Bounded`); in each it is at most `lost`. It needs that a receiver
is not asked to open a file a second time (`OpenedOnce`), which restarts break.

The pool. `RecordIsThePool` needs, beyond itself, that the routes of the pool
were created and never number more than asked for, that a retired route is no
longer in the pool (`Retired`: releasing it cannot take down a current one), that
each route of the pool is up or its death is waiting (`Works`), that a rotation
has an idle route to retire (`CanRotate`), and that while a rotation is under way
the record is the pool, unless the last write failed, and there is nothing to
publish to without a record (`Advertised`).

The sender's routes. `BoundedTries` counts attempts; the invariant ties them to
the lists read: attempts are no more than `PoolSize` times the lists used up plus
the place in the present one.

The wall. `OneNumberEach` rests on this: the node's profile, the copies that tasks and
the loop have of it, and the published one never count more posts than have been written
(`NumbersAreWritten`), and the posts of this run have numbers from where the run
began to below the next (`PostsAreNumbered`).

The calm wall. The properties that begin with `Calm` hold between writes; the
invariant (`CalmInv`) says what holds in the middle of one. There is one writer
at most (`Alone`). It serves the number the wall will advertise next, its post is
in the slot once put, and its copy of the profile is still the profile
(`Serves`). A slot holds only posts that belong in it, none past the next
(`SlotsSound`): so the post about to be advertised takes only the slot of one
that stops being advertised with it. For the follower (`FeedInv`): what the cache
has of a slot is what the slot holds, as long as the ring has not wrapped (`CacheSound`),
and a refresh in which nothing was amiss has found all it looked for so far
(`FoundSoFar`). `NoPostAssumption` says that the absence of a post is not a post.

The messages. `CopiesAreTries` counts copies in three places, one of them a set
and one a queue. The invariant says that a sender has a list and a place
in it wherever it uses them (`SendersSound`) and that what is counted is finite
(`CallsSound`); lemmas about counting say what adding or taking one element does,
so that each step can be weighed: a call makes a copy and a try, an arrival moves
a copy, only a call answered or given up lets the next one be made.

The web server. `CutsDoNotShow` needs, at each await of `read_request`, what has
been read of the request: never more than was sent; while the head is not whole,
at most one read past its limit; and a task past the body has all of it that was
declared, or all that was sent (`ReadSoFar`).
The follows: while it is calm the list in memory has no repeats and is what was
asked for, a task that saves has a copy of that list in front of an empty file,
and without one the file is that list (`CalmLists`). Removing a key is `Without`, a
recursive function over the list; that it keeps the order, loses that key and no
other is shown by taking the least position up to which it would be false
(`KeptExists`, `Kept`, `WithoutIs`), which needs no induction theorem.

The measurement. `TalliesSound` says that `lowest` and `highest` are tight
bounds and that the counters add up; from it `LossesAreGaps` follows by counting
an interval. `EchoedWasSent` needs `Causes`: an echo in flight is of a probe that
was heard, a probe in flight is of a number that was used and is not still waiting in
its task to leave (`Left`), and the numbers heard or in flight (`Departed`) are
as many as the sends counted, reported and not counted, or in a task that still
awaits `app_message` (`away`). The last of these is what an early echo needs: its
probe is in none of the counters yet. `InferredIsExplained` is a count over the
same numbers: the gaps of the listener's range are in flight, lost, or among the
numbers below `seq` that have not departed, and those are the ones dropped,
refused or still in their task.

The wire format. `PacketAssumption` says that the fields of a packet have the
types `proto.rs` gives them and that its bytes can be counted. `WireInv`, the
invariant, says that until a byte is changed the wire holds a beginning of what
was sent, so the theorems are about what `Decode` makes of a beginning. `Lies(s,
buf, off)` says that the bytes `s` are in `buf` behind `off`; for each kind one
lemma (`HelloPayload` to `SocialPayload`) says which fields lie where in its
payload, one (`HelloBack` to `SocialBack`) that what is read there is what was
written, and one (`HelloThere` to `SocialThere`) that what is read there,
encoded, lies there. Under them is `PutGet`: a number below `Base ^ w`, written in
`w` digits, is read as it was. `Power`, `Put`, `Get`, the list of
routes and the library's `FlattenSeq` are recursive functions; what they compute is
shown by taking the least number at which it would be false
(`SmallestExists`, `Induction`, for a set in the place of a property), which needs
no induction theorem.

Only model-checked is liveness (`DeliveredIsWritten`, `FewLossesAreRepaired`,
`SenderEnds`, `DeadIsUnpublished`, `SendReturns`, `CalmEndsCurrent`,
`ClientsAreAnswered`), which under fairness is out of the prover's reach.

## What is not modelled, and why

- Latency, jitter, percentages, the verdict and every report's wording: pure
  functions of floating-point samples, unit-tested, without influence on the
  protocol. Clocks are reduced to the order of events.
- `crc32`: a pure function; a content is its own checksum.
- `MAX_INFLIGHT` and pacing of a blast: abstracted to any order.
- In a feed: several walls, read one after the other in the way one is, the
  node's own posts, and the sort by time.
- In the web server: the query string, percent-decoding, the table of routes and
  the writing of responses. That `percent_decode` panics inside a character is
  listed under `hazards`.
- The command line, key storage, file names, the page: input, output and strings.
- Veilid itself: a route is up or not, an `app_message` arrives, is lost, late
  or doubled, an `app_call` is answered or fails, a DHT write takes effect or
  fails, a read is answered from the cache unless it is forced.

- Some of what the modelled parts do, where no property depends on it. `Wall`: an identity
  file that does not open the record makes a fresh one (`social.rs:127-143`).
  `Codec`: characters are single bytes, so `put_str` does not cut inside one
  (`proto.rs:171-173`); bytes that are no UTF-8 come from `Spoil` only. `Web`: a
  head whose end lies between `MaxHeaders` and `MaxHeaders + HeadChunk` may be
  found or rejected, depending on the pieces, and `CutsDoNotShow` leaves it open.
- `TransferLossy` has answers that can name every chunk. A list that overflows is
  met in `Receiver` and `TransferFaults` (`MaxListed = 1`), and by
  `NothingForgottenTheorem`.

## Plan

1. `Pool` and `Failover` composed through the record, to bound how long a sender
   uses a list that is no longer published. What `Failover` checks already holds
   for every receiver; the composition would say more only of a receiver that
   keeps running.
2. The listener's own send counters in `Probing`.
