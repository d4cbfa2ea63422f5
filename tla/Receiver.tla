------------------------------ MODULE Receiver ------------------------------
(***************************************************************************)
(* The receiving half of file transfer: the `transfers` and `completed`    *)
(* maps of recv(), and what each packet and each completed file does to    *)
(* them.  The environment sends any packet at any time; Transfer replaces  *)
(* it by real senders and a real network.                                  *)
(*                                                                         *)
(* A file's contents are one value of Contents, which also stands for its  *)
(* crc32: chunk i of content v is the pair <<i, v>>, and a slot of the     *)
(* buffer holds the content its bytes came from, or Zero while it still    *)
(* holds the zeroes it was allocated with.                                 *)
(***************************************************************************)
EXTENDS Integers, FiniteSets, Sequences

CONSTANTS
  Xfers,         \* transfer ids
  Contents,      \* contents a file can have
  Manifests,     \* manifests a caller can send
  Chunks,        \* chunk messages a caller can send
  MaxBytes,      \* cfg.max_bytes
  MaxChunkData,  \* MAX_CHUNK_DATA
  MaxListed,     \* MAX_MISSING_LISTED
  WriteMayFail,  \* whether the disk can refuse a file
  Absent,        \* no entry under this id in `transfers`
  Zero,          \* a slot nothing was copied into
  None           \* Option::None

VARIABLES
  transfers,     \* HashMap<u64, Incoming>: Absent, or the file being assembled
  completed,     \* HashSet<u64>: ids finish_completed has dealt with
  disk,          \* the files written out for each id, oldest first
  phase,         \* "loop": at the select!; "finish": inside finish_completed
  restarts       \* how often the receiver has been killed and run again

rvars == <<transfers, completed, disk, phase, restarts>>

ManifestShape == [total_len : Nat, chunk_size : Nat, chunk_count : Nat, crc : Contents]
ChunkShape == [index : Nat, len : Nat, content : Contents]

ASSUME ReceiverAssumption ==
  /\ MaxBytes \in Nat
  /\ MaxChunkData \in Nat \ {0}
  /\ MaxListed \in Nat \ {0}
  /\ WriteMayFail \in BOOLEAN
  /\ Manifests \subseteq ManifestShape
  /\ Chunks \subseteq ChunkShape
  /\ Zero \notin Contents
  /\ None \notin Nat

-----------------------------------------------------------------------------
(* One file being assembled: struct Incoming and its methods.              *)

Slots == 0 .. MaxBytes

Incoming ==
  [total_len : 0 .. MaxBytes, chunk_size : 1 .. MaxChunkData, chunk_count : Nat,
   crc : Contents, data : [Slots -> Contents \cup {Zero}], have : SUBSET Slots,
   have_count : Nat, duplicates : Nat, first_pass_missing : Nat \cup {None},
   repair_rounds : Nat]

ASSUME AbsentAssumption == Absent \notin Incoming

NewIncoming(m) ==
  [total_len |-> m.total_len, chunk_size |-> m.chunk_size,
   chunk_count |-> m.chunk_count, crc |-> m.crc, data |-> [i \in Slots |-> Zero],
   have |-> {}, have_count |-> 0, duplicates |-> 0,
   first_pass_missing |-> None, repair_rounds |-> 0]

Complete(inc) == inc.have_count = inc.chunk_count

SpanStart(inc, i) == i * inc.chunk_size

SpanEnd(inc, i) ==
  LET end == i * inc.chunk_size + inc.chunk_size
  IN  IF end <= inc.total_len THEN end ELSE inc.total_len

\* A chunk that is one of this file's and has the length the manifest promised.
Belongs(inc, c) ==
  /\ c.index < inc.chunk_count
  /\ c.len = SpanEnd(inc, c.index) - SpanStart(inc, c.index)

\* Mutant: a duplicate is counted as one more chunk.
StoreRecounts(inc, c) ==
  IF ~ Belongs(inc, c) THEN inc
  ELSE [inc EXCEPT !.data[c.index] = c.content,
                   !.have = @ \cup {c.index},
                   !.have_count = @ + 1]

Store(inc, c) ==
  IF ~ Belongs(inc, c) THEN inc
  ELSE IF c.index \in inc.have
       THEN [inc EXCEPT !.duplicates = @ + 1]
       ELSE [inc EXCEPT !.data[c.index] = c.content,
                        !.have = @ \cup {c.index},
                        !.have_count = @ + 1]

Lacking(inc) == {i \in Slots : i < inc.chunk_count /\ i \notin inc.have}

\* Mutant: an off-by-one in the enumeration.
MissingSkipsLast(inc) ==
  [total  |-> inc.chunk_count - inc.have_count,
   listed |-> {i \in Lacking(inc) : i + 1 < inc.chunk_count}]

\* Mutant: chunks are named whether they are missing or not.
MissingAll(inc) ==
  [total  |-> inc.chunk_count - inc.have_count,
   listed |-> {i \in Slots : i < inc.chunk_count}]

\* Incoming::missing: the honest total, and as many of the lowest indices as
\* one answer can name.
Missing(inc) ==
  [total  |-> inc.chunk_count - inc.have_count,
   listed |-> {i \in Lacking(inc) :
                 Cardinality({j \in Lacking(inc) : j < i}) < MaxListed}]

-----------------------------------------------------------------------------
(* answer(): what one app_call is told, and what it changes.               *)

DivCeil(a, b) == (a + b - 1) \div b

\* Mutant: the three numbers need not agree.
FitsUnchecked(m) ==
  m.total_len <= MaxBytes /\ m.chunk_size # 0 /\ m.chunk_size <= MaxChunkData

\* The manifests answer() opens a transfer for; the others it refuses.
Fits(m) ==
  /\ m.total_len <= MaxBytes
  /\ m.chunk_size # 0
  /\ m.chunk_size <= MaxChunkData
  /\ DivCeil(m.total_len, m.chunk_size) = m.chunk_count

\* Mutants: only one of the two maps is consulted.
KnownWhileOpen(x) == transfers[x] # Absent
KnownOnceWritten(x) == x \in completed

Known(x) == x \in completed \/ transfers[x] # Absent

ManifestOk(x, m) == Known(x) \/ Fits(m)

StatusReply(x) ==
  IF transfers[x] = Absent
  THEN [state |-> IF x \in completed THEN "complete" ELSE "unknown",
        missing_total |-> 0, missing |-> {}]
  ELSE [state |-> IF Complete(transfers[x]) THEN "complete" ELSE "in_progress",
        missing_total |-> Missing(transfers[x]).total,
        missing |-> Missing(transfers[x]).listed]

\* A status query is counted in the transfer it is about.
Asked(inc) ==
  IF inc.first_pass_missing = None
  THEN [inc EXCEPT !.first_pass_missing = Missing(inc).total]
  ELSE [inc EXCEPT !.repair_rounds = @ + 1]

Finished(x) == transfers[x] # Absent /\ Complete(transfers[x])

-----------------------------------------------------------------------------
Init ==
  /\ transfers = [x \in Xfers |-> Absent]
  /\ completed = {}
  /\ disk = [x \in Xfers |-> << >>]
  /\ phase = "loop"
  /\ restarts = 0

\* Mutant: answering a call does not look for finished transfers.
AfterAnswerSkips == phase' = "loop"

\* Every answered call ends in finish_completed, which has something to do
\* when some transfer has all its chunks.
AfterAnswer ==
  phase' = IF \E x \in Xfers : transfers'[x] # Absent /\ Complete(transfers'[x])
           THEN "finish" ELSE "loop"

RecvManifest(x, m) ==
  /\ phase = "loop"
  /\ transfers' = IF ~ Known(x) /\ Fits(m)
                  THEN [transfers EXCEPT ![x] = NewIncoming(m)]
                  ELSE transfers
  /\ AfterAnswer
  /\ UNCHANGED <<completed, disk, restarts>>

RecvStatus(x) ==
  /\ phase = "loop"
  /\ transfers' = IF transfers[x] = Absent THEN transfers
                  ELSE [transfers EXCEPT ![x] = Asked(@)]
  /\ AfterAnswer
  /\ UNCHANGED <<completed, disk, restarts>>

\* An app_message is never answered, and does not reach finish_completed.
RecvChunk(x, c) ==
  /\ phase = "loop"
  /\ transfers' = IF transfers[x] = Absent THEN transfers
                  ELSE [transfers EXCEPT ![x] = Store(@, c)]
  /\ UNCHANGED <<completed, disk, phase, restarts>>

\* Mutant: the written id is not remembered.
FinishOneForgets(x) ==
  /\ phase = "finish"
  /\ Finished(x)
  /\ transfers' = [transfers EXCEPT ![x] = Absent]
  /\ disk' = [disk EXCEPT ![x] = Append(@, transfers[x])]
  /\ phase' = IF \E y \in Xfers \ {x} : Finished(y) THEN "finish" ELSE "loop"
  /\ UNCHANGED <<completed, restarts>>

\* One turn of finish_completed's loop: the entry goes, the file is written if
\* the disk takes it, and the id counts as completed either way.
FinishOne(x) ==
  /\ phase = "finish"
  /\ Finished(x)
  /\ transfers' = [transfers EXCEPT ![x] = Absent]
  /\ completed' = completed \cup {x}
  /\ \/ disk' = [disk EXCEPT ![x] = Append(@, transfers[x])]
     \/ WriteMayFail /\ UNCHANGED disk
  /\ phase' = IF \E y \in Xfers \ {x} : Finished(y) THEN "finish" ELSE "loop"
  /\ UNCHANGED restarts

\* The process ends and is run again: both maps lived in its memory.
Restart ==
  /\ transfers' = [x \in Xfers |-> Absent]
  /\ completed' = {}
  /\ phase' = "loop"
  /\ restarts' = restarts + 1
  /\ UNCHANGED disk

Next ==
  \/ \E x \in Xfers :
       \/ \E m \in Manifests : RecvManifest(x, m)
       \/ RecvStatus(x)
       \/ \E c \in Chunks : RecvChunk(x, c)
       \/ FinishOne(x)
  \/ Restart

Spec == Init /\ [][Next]_rvars

-----------------------------------------------------------------------------
(* Properties.                                                             *)

\* Every variable has its type.
TypeOK ==
  /\ transfers \in [Xfers -> Incoming \cup {Absent}]
  /\ completed \subseteq Xfers
  /\ disk \in [Xfers -> Seq(Incoming)]
  /\ phase \in {"loop", "finish"}
  /\ restarts \in Nat

\* Counting is sound: the counter complete() compares is the number of chunks
\* marked present, each of them a chunk of the file, whatever order chunks
\* come in, and however often.
CountIsHave(inc) ==
  /\ inc.have \subseteq 0 .. inc.chunk_count - 1
  /\ inc.have_count = Cardinality(inc.have)

\* The buffer of a file: a chunk's slot holds bytes exactly when it is marked.
SlotsMatchHave(inc) == \A i \in Slots : i \in inc.have <=> inc.data[i] # Zero

Sound(inc) ==
  /\ inc.chunk_count = DivCeil(inc.total_len, inc.chunk_size)
  /\ CountIsHave(inc)
  /\ SlotsMatchHave(inc)

\* Every transfer being assembled is sound.
TransfersSound == \A x \in Xfers : transfers[x] # Absent => Sound(transfers[x])

\* The three numbers of a manifest agree: the spans of a transfer's chunks are
\* inside its buffer and every byte of the buffer belongs to exactly one.
SpansCoverFile ==
  \A x \in Xfers :
    LET inc == transfers[x] IN
    inc # Absent =>
      /\ \A i \in 0 .. inc.chunk_count - 1 :
           SpanStart(inc, i) < SpanEnd(inc, i) /\ SpanEnd(inc, i) <= inc.total_len
      /\ \A b \in 0 .. inc.total_len - 1 :
           \E i \in 0 .. inc.chunk_count - 1 :
             /\ SpanStart(inc, i) <= b /\ b < SpanEnd(inc, i)
             /\ \A j \in 0 .. inc.chunk_count - 1 :
                  SpanStart(inc, j) <= b /\ b < SpanEnd(inc, j) => j = i

\* No file on disk has a hole: when finish_completed lets a file go, every one
\* of its chunks has been copied in, so counting to chunk_count really did
\* mean having them all.
NoHoles ==
  \A x \in Xfers : \A k \in DOMAIN disk[x] :
    \A i \in 0 .. disk[x][k].chunk_count - 1 : disk[x][k].data[i] # Zero

\* One run of the receiver writes a transfer at most once, however often its
\* manifest is repeated: unique_path would keep both copies.
WrittenOncePerRun == \A x \in Xfers : Len(disk[x]) <= restarts + 1

\* What the others rest on, inductively: a file on disk was sound and complete
\* when it was let go, and a run of the receiver that has written an id has it
\* in `completed`, where it keeps new manifests from opening it again.
DiskSound ==
  \A x \in Xfers : \A k \in DOMAIN disk[x] : Sound(disk[x][k]) /\ Complete(disk[x][k])

OneCopyPerRun ==
  \A x \in Xfers :
    /\ Len(disk[x]) <= restarts + (IF x \in completed THEN 1 ELSE 0)
    /\ x \in completed => transfers[x] = Absent

ReceiverInv == TypeOK /\ TransfersSound /\ DiskSound /\ OneCopyPerRun

\* A transfer never goes backwards: short of a restart, a chunk once held stays
\* held with the bytes it came with, until the file is finished.
NeverLosesProgress ==
  [][\A x \in Xfers :
       restarts' = restarts /\ transfers[x] # Absent =>
         IF transfers'[x] = Absent
         THEN x \in completed' /\ Complete(transfers[x])
         ELSE \A i \in transfers[x].have :
                i \in transfers'[x].have /\ transfers'[x].data[i] = transfers[x].data[i]]_rvars

=============================================================================
