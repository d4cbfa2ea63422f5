--------------------------- MODULE TransferProofs ---------------------------
(***************************************************************************)
(* Proofs about Receiver, Transfer and MCDrained, in four parts.           *)
(*                                                                         *)
(* Receiver alone, for every set of transfers, manifests and chunks.       *)
(*                                                                         *)
(* Transfer, for any senders, contents, losses, restarts and edits: its    *)
(* types, and that its receiver is the Receiver, so that what is proved of *)
(* the one holds of the other.                                             *)
(*                                                                         *)
(* Transfer when the faults that break its promise are out: a receiver     *)
(* that is not restarted, and for what is delivered also files that nobody *)
(* edits and a disk that takes every file.  Messages are lost, late and    *)
(* repeated, and routes die, as in the second part.                        *)
(*                                                                         *)
(* MCDrained: what the README says of a pass, as long as the pauses        *)
(* between the passes drain the network.  That nothing is sent twice holds *)
(* whatever is lost, late, restarted or edited; that the first pass's      *)
(* figure is a loss needs a receiver that keeps running and files that     *)
(* stay as they are.                                                       *)
(***************************************************************************)
EXTENDS MCDrained, FiniteSetTheorems, WellFoundedInduction, TLAPS

-----------------------------------------------------------------------------
(* First part: the Receiver.                                               *)

LEMMA Division ==
  ASSUME NEW a \in Int, NEW b \in Nat \ {0}
  PROVE  /\ a \div b \in Int
         /\ (a \div b) * b <= a
         /\ a < (a \div b) * b + b
BY SMT

LEMMA DivCeilIsCeiling ==
  ASSUME NEW a \in Nat, NEW b \in Nat \ {0}
  PROVE  /\ DivCeil(a, b) \in Nat
         /\ DivCeil(a, b) <= a
         /\ a <= DivCeil(a, b) * b
         /\ DivCeil(a, b) * b < a + b
<1> DEFINE q == (a + b - 1) \div b
<1>1. q \in Int /\ q * b <= a + b - 1 /\ a + b - 1 < q * b + b
  BY Division, SMT
<1>2. q >= 0
  <2> SUFFICES ASSUME q <= -1 PROVE FALSE
    BY <1>1
  <2>1. q * b <= (-1) * b
    BY <1>1, SMT
  <2> QED
    BY <1>1, <2>1, SMT
<1>3. q <= a
  <2> SUFFICES ASSUME q >= a + 1 PROVE FALSE
    BY <1>1, SMT
  <2>1. q * b >= (a + 1) * b
    BY <1>1, SMT
  <2>2. a * b >= a
    BY SMT
  <2>3. (a + 1) * b = a * b + b
    BY SMT
  <2> QED
    BY <1>1, <2>1, <2>2, <2>3, SMT
<1> QED
  BY <1>1, <1>2, <1>3, SMT DEF DivCeil

-----------------------------------------------------------------------------
(* Chunks and counts of one file.                                          *)

\* A chunk count the manifest agrees on never exceeds the slots there are.
LEMMA SlotsSuffice ==
  ASSUME NEW inc \in Incoming, Sound(inc)
  PROVE  /\ inc.chunk_count \in Nat
         /\ 0 .. inc.chunk_count - 1 \subseteq Slots
         /\ inc.have \subseteq 0 .. inc.chunk_count - 1
         /\ IsFiniteSet(inc.have)
         /\ Cardinality(inc.have) \in Nat
<1>1. /\ inc.total_len \in Nat /\ inc.chunk_size \in Nat \ {0}
      /\ inc.total_len <= MaxBytes /\ inc.chunk_count \in Nat
  BY ReceiverAssumption DEF Incoming
<1>2. inc.chunk_count <= inc.total_len
  BY <1>1, DivCeilIsCeiling DEF Sound
<1>3. 0 .. inc.chunk_count - 1 \subseteq Slots
  BY <1>1, <1>2, ReceiverAssumption DEF Slots
<1>4. inc.have \subseteq 0 .. inc.chunk_count - 1
  BY DEF Sound, CountIsHave
<1>5. IsFiniteSet(0 .. inc.chunk_count - 1)
  BY <1>1, FS_Interval
<1>6. IsFiniteSet(inc.have)
  BY <1>4, <1>5, FS_Subset
<1>7. Cardinality(inc.have) \in Nat
  BY <1>6, FS_CardinalityType
<1> QED
  BY <1>1, <1>3, <1>4, <1>6, <1>7

\* A file never has more chunks than it counts on, and having as many as it
\* counts on is having them all.
LEMMA CountedIsHeld ==
  ASSUME NEW inc \in Incoming, Sound(inc)
  PROVE  /\ inc.have_count <= inc.chunk_count
         /\ Complete(inc) => inc.have = 0 .. inc.chunk_count - 1
<1> DEFINE all == 0 .. inc.chunk_count - 1
<1>1. inc.chunk_count \in Nat /\ inc.have \subseteq all
  BY SlotsSuffice
<1>2. IsFiniteSet(all) /\ Cardinality(all) = inc.chunk_count
  <2>1. 0 \in Int /\ inc.chunk_count - 1 \in Int
    BY <1>1
  <2>2. /\ IsFiniteSet(all)
        /\ Cardinality(all) = IF 0 > inc.chunk_count - 1 THEN 0
                              ELSE (inc.chunk_count - 1) - 0 + 1
    BY <2>1, FS_Interval, Zenon
  <2> QED
    BY <1>1, <2>2
<1>3. /\ Cardinality(inc.have) <= Cardinality(all)
      /\ Cardinality(inc.have) = Cardinality(all) => inc.have = all
  BY <1>1, <1>2, FS_Subset
<1> QED
  BY <1>2, <1>3 DEF Sound, CountIsHave, Complete

LEMMA NewIsSound ==
  ASSUME NEW m \in ManifestShape, Fits(m)
  PROVE  NewIncoming(m) \in Incoming /\ Sound(NewIncoming(m))
<1>1. NewIncoming(m) \in Incoming
  BY ReceiverAssumption DEF NewIncoming, Incoming, ManifestShape, Fits
<1>2. Cardinality({}) = 0
  BY FS_EmptySet
<1>3. SlotsMatchHave(NewIncoming(m))
  BY DEF NewIncoming, SlotsMatchHave
<1>4. CountIsHave(NewIncoming(m))
  BY <1>2 DEF NewIncoming, CountIsHave
<1> QED
  BY <1>1, <1>3, <1>4 DEF NewIncoming, Sound, Fits

LEMMA StoreIsSound ==
  ASSUME NEW inc \in Incoming, Sound(inc), NEW c \in ChunkShape
  PROVE  Store(inc, c) \in Incoming /\ Sound(Store(inc, c))
<1>1. CASE ~ Belongs(inc, c)
  BY <1>1 DEF Store
<1>2. CASE Belongs(inc, c) /\ c.index \in inc.have
  <2>1. Store(inc, c) = [inc EXCEPT !.duplicates = @ + 1]
    BY <1>2 DEF Store
  <2>2. Store(inc, c) \in Incoming
    BY <2>1 DEF Incoming
  <2>3. Sound([inc EXCEPT !.duplicates = @ + 1])
    BY DEF Incoming, Sound, CountIsHave, SlotsMatchHave
  <2> QED
    BY <2>1, <2>2, <2>3
<1>3. CASE Belongs(inc, c) /\ c.index \notin inc.have
  <2> DEFINE i == c.index
             new == Store(inc, c)
  <2>1. i \in 0 .. inc.chunk_count - 1 /\ i \in Slots
    BY <1>3, SlotsSuffice DEF Belongs, ChunkShape
  <2>2. new = [inc EXCEPT !.data[i] = c.content, !.have = @ \cup {i},
                          !.have_count = @ + 1]
    BY <1>3 DEF Store
  <2>3. /\ new \in Incoming
        /\ new.total_len = inc.total_len /\ new.chunk_size = inc.chunk_size
        /\ new.chunk_count = inc.chunk_count
        /\ new.have = inc.have \cup {i}
        /\ new.have_count = inc.have_count + 1
        /\ new.data = [inc.data EXCEPT ![i] = c.content]
    <3> DEFINE d == [inc.data EXCEPT ![i] = c.content]
               h == inc.have \cup {i}
    <3>1. c.content \in Contents
      BY DEF ChunkShape
    <3>2. d \in [Slots -> Contents \cup {Zero}]
      BY <3>1 DEF Incoming
    <3>3. h \in SUBSET Slots
      BY <2>1 DEF Incoming
    <3>4. new = [inc EXCEPT !.data = d, !.have = h, !.have_count = inc.have_count + 1]
      BY <2>2, Zenon
    <3> HIDE DEF d, h, new
    <3>5. new \in Incoming
      <4> DEFINE r == [inc EXCEPT !.data = d]
                 t == [r EXCEPT !.have = h]
      <4>1. r \in Incoming
        BY <3>2 DEF Incoming
      <4> HIDE DEF r
      <4>2. t \in Incoming
        BY <4>1, <3>3 DEF Incoming
      <4>3. t.have_count = inc.have_count /\ inc.have_count \in Nat
        BY DEF r, Incoming
      <4>4. new = [t EXCEPT !.have_count = inc.have_count + 1]
        BY <3>4, Zenon DEF r
      <4> HIDE DEF t
      <4> QED
        BY <4>2, <4>3, <4>4 DEF Incoming
    <3>6. /\ new.total_len = inc.total_len /\ new.chunk_size = inc.chunk_size
          /\ new.chunk_count = inc.chunk_count /\ new.have = h
          /\ new.have_count = inc.have_count + 1 /\ new.data = d
      BY <3>4 DEF Incoming
    <3> QED
      BY <3>5, <3>6 DEF d, h
  <2>4. Cardinality(inc.have \cup {i}) = Cardinality(inc.have) + 1
    BY <1>3, SlotsSuffice, FS_AddElement
  <2>5. CountIsHave(new)
    BY <2>1, <2>3, <2>4, SlotsSuffice DEF Sound, CountIsHave
  <2>6. inc.data \in [Slots -> Contents \cup {Zero}] /\ c.content # Zero
    BY ReceiverAssumption DEF Incoming, ChunkShape
  <2>7. SlotsMatchHave(new)
    BY <2>1, <2>3, <2>6 DEF Sound, SlotsMatchHave
  <2> QED
    BY <2>3, <2>5, <2>7 DEF Sound
<1> QED
  BY <1>1, <1>2, <1>3

LEMMA AskedIsSound ==
  ASSUME NEW inc \in Incoming, Sound(inc)
  PROVE  Asked(inc) \in Incoming /\ Sound(Asked(inc))
<1>1. Missing(inc).total \in Nat
  BY CountedIsHeld DEF Missing, Incoming
<1>2. CASE inc.first_pass_missing = None
  <2>1. Asked(inc) = [inc EXCEPT !.first_pass_missing = Missing(inc).total]
    BY <1>2 DEF Asked
  <2> QED
    BY <1>1, <2>1 DEF Incoming, Sound, CountIsHave, SlotsMatchHave
<1>3. CASE inc.first_pass_missing # None
  <2>1. Asked(inc) = [inc EXCEPT !.repair_rounds = @ + 1]
    BY <1>3 DEF Asked
  <2> QED
    BY <2>1 DEF Incoming, Sound, CountIsHave, SlotsMatchHave
<1> QED
  BY <1>2, <1>3

-----------------------------------------------------------------------------
(* The inductive invariant.                                                *)

LEMMA InitInv == Init => ReceiverInv
<1> SUFFICES ASSUME Init PROVE ReceiverInv
  OBVIOUS
<1>1. << >> \in Seq(Incoming) /\ Len(<< >>) = 0
  OBVIOUS
<1>2. TypeOK
  BY <1>1 DEF Init, TypeOK
<1>3. TransfersSound /\ DiskSound
  BY <1>1 DEF Init, TransfersSound, DiskSound
<1>4. OneCopyPerRun
  BY <1>1 DEF Init, OneCopyPerRun
<1> QED
  BY <1>2, <1>3, <1>4 DEF ReceiverInv

\* An entry changed in place by one packet: the invariant only asks that what
\* it becomes is sound, and that a new entry is not of a completed id.
LEMMA EntryChange ==
  ASSUME ReceiverInv, NEW x \in Xfers, NEW inc \in Incoming, Sound(inc),
         x \notin completed,
         transfers' = [transfers EXCEPT ![x] = inc],
         phase' \in {"loop", "finish"},
         UNCHANGED <<completed, disk, restarts>>
  PROVE  ReceiverInv'
<1> USE DEF ReceiverInv
<1>1. TypeOK'
  BY DEF TypeOK
<1>2. TransfersSound'
  BY DEF TypeOK, TransfersSound
<1>3. DiskSound'
  BY DEF DiskSound
<1>4. OneCopyPerRun'
  BY DEF TypeOK, OneCopyPerRun
<1> QED
  BY <1>1, <1>2, <1>3, <1>4

LEMMA NoEntryChange ==
  ASSUME ReceiverInv, transfers' = transfers, phase' \in {"loop", "finish"},
         UNCHANGED <<completed, disk, restarts>>
  PROVE  ReceiverInv'
BY DEF ReceiverInv, TypeOK, TransfersSound, DiskSound, OneCopyPerRun

LEMMA ManifestInv ==
  ASSUME ReceiverInv, NEW x \in Xfers, NEW m \in Manifests, RecvManifest(x, m)
  PROVE  ReceiverInv'
<1>1. phase' \in {"loop", "finish"} /\ UNCHANGED <<completed, disk, restarts>>
  BY DEF RecvManifest, AfterAnswer
<1>2. CASE ~ Known(x) /\ Fits(m)
  <2>1. NewIncoming(m) \in Incoming /\ Sound(NewIncoming(m))
    BY <1>2, NewIsSound, ReceiverAssumption
  <2>2. transfers' = [transfers EXCEPT ![x] = NewIncoming(m)] /\ x \notin completed
    BY <1>2 DEF RecvManifest, Known
  <2> QED
    BY <1>1, <2>1, <2>2, EntryChange
<1>3. CASE ~ (~ Known(x) /\ Fits(m))
  BY <1>1, <1>3, NoEntryChange DEF RecvManifest
<1> QED
  BY <1>2, <1>3

LEMMA StatusInv ==
  ASSUME ReceiverInv, NEW x \in Xfers, RecvStatus(x)
  PROVE  ReceiverInv'
<1>1. phase' \in {"loop", "finish"} /\ UNCHANGED <<completed, disk, restarts>>
  BY DEF RecvStatus, AfterAnswer
<1>2. CASE transfers[x] # Absent
  <2>1. transfers[x] \in Incoming /\ Sound(transfers[x]) /\ x \notin completed
    BY <1>2 DEF ReceiverInv, TypeOK, TransfersSound, OneCopyPerRun
  <2>2. transfers' = [transfers EXCEPT ![x] = Asked(transfers[x])]
    BY <1>2 DEF RecvStatus
  <2> QED
    BY <1>1, <2>1, <2>2, AskedIsSound, EntryChange
<1>3. CASE transfers[x] = Absent
  BY <1>1, <1>3, NoEntryChange DEF RecvStatus
<1> QED
  BY <1>2, <1>3

LEMMA ChunkInv ==
  ASSUME ReceiverInv, NEW x \in Xfers, NEW c \in Chunks, RecvChunk(x, c)
  PROVE  ReceiverInv'
<1>1. phase' \in {"loop", "finish"} /\ UNCHANGED <<completed, disk, restarts>>
  BY DEF RecvChunk, ReceiverInv, TypeOK
<1>2. CASE transfers[x] # Absent
  <2>1. transfers[x] \in Incoming /\ Sound(transfers[x]) /\ x \notin completed
    BY <1>2 DEF ReceiverInv, TypeOK, TransfersSound, OneCopyPerRun
  <2>2. transfers' = [transfers EXCEPT ![x] = Store(transfers[x], c)]
    BY <1>2 DEF RecvChunk
  <2>3. c \in ChunkShape
    BY ReceiverAssumption
  <2> QED
    BY <1>1, <2>1, <2>2, <2>3, StoreIsSound, EntryChange
<1>3. CASE transfers[x] = Absent
  BY <1>1, <1>3, NoEntryChange DEF RecvChunk
<1> QED
  BY <1>2, <1>3

LEMMA FinishInv ==
  ASSUME ReceiverInv, NEW x \in Xfers, FinishOne(x)
  PROVE  ReceiverInv'
<1> DEFINE inc == transfers[x]
<1>1. inc \in Incoming /\ Sound(inc) /\ Complete(inc) /\ x \notin completed
  BY DEF FinishOne, Finished, ReceiverInv, TypeOK, TransfersSound, OneCopyPerRun
<1>2. disk[x] \in Seq(Incoming) /\ Len(disk[x]) <= restarts /\ restarts \in Nat
  BY <1>1 DEF ReceiverInv, TypeOK, OneCopyPerRun
<1>3. /\ transfers' = [transfers EXCEPT ![x] = Absent]
      /\ completed' = completed \cup {x}
      /\ restarts' = restarts
      /\ phase' \in {"loop", "finish"}
      /\ disk' = [disk EXCEPT ![x] = Append(disk[x], inc)] \/ disk' = disk
  BY DEF FinishOne
<1> HIDE DEF inc
<1>4. /\ Append(disk[x], inc) \in Seq(Incoming)
      /\ Len(Append(disk[x], inc)) = Len(disk[x]) + 1
      /\ \A k \in DOMAIN Append(disk[x], inc) :
           Append(disk[x], inc)[k] = IF k = Len(disk[x]) + 1 THEN inc ELSE disk[x][k]
      /\ \A k \in DOMAIN Append(disk[x], inc) :
           k # Len(disk[x]) + 1 => k \in DOMAIN disk[x]
  BY <1>1, <1>2
<1>5. TypeOK'
  BY <1>3, <1>4 DEF ReceiverInv, TypeOK
<1>6. TransfersSound'
  BY <1>3 DEF ReceiverInv, TypeOK, TransfersSound
<1>7. DiskSound'
  <2> SUFFICES ASSUME NEW y \in Xfers, NEW k \in DOMAIN disk'[y]
               PROVE  Sound(disk'[y][k]) /\ Complete(disk'[y][k])
    BY DEF DiskSound
  <2>1. CASE y = x /\ disk'[x] = Append(disk[x], inc)
    BY <1>1, <1>4, <2>1 DEF ReceiverInv, DiskSound
  <2>2. CASE disk'[y] = disk[y]
    BY <2>2 DEF ReceiverInv, DiskSound
  <2> QED
    BY <1>3, <2>1, <2>2 DEF ReceiverInv, TypeOK
<1>8. OneCopyPerRun'
  <2> SUFFICES ASSUME NEW y \in Xfers
               PROVE  /\ Len(disk'[y]) <= restarts' + (IF y \in completed' THEN 1 ELSE 0)
                      /\ y \in completed' => transfers'[y] = Absent
    BY DEF OneCopyPerRun
  <2>1. CASE y = x
    <3>1. Len(disk'[x]) <= restarts + 1
      BY <1>2, <1>3, <1>4 DEF ReceiverInv, TypeOK
    <3> QED
      BY <2>1, <3>1, <1>3 DEF ReceiverInv, TypeOK
  <2>2. CASE y # x
    BY <2>2, <1>3 DEF ReceiverInv, TypeOK, OneCopyPerRun
  <2> QED
    BY <2>1, <2>2
<1> QED
  BY <1>5, <1>6, <1>7, <1>8 DEF ReceiverInv

LEMMA RestartInv ==
  ASSUME ReceiverInv, Restart
  PROVE  ReceiverInv'
<1> USE DEF Restart, ReceiverInv
<1>1. TypeOK' /\ TransfersSound' /\ DiskSound'
  BY DEF TypeOK, TransfersSound, DiskSound
<1>2. \A x \in Xfers : Len(disk[x]) \in Nat
  BY DEF TypeOK
<1>3. OneCopyPerRun'
  BY <1>2 DEF TypeOK, OneCopyPerRun
<1> QED
  BY <1>1, <1>3

LEMMA StepInv == ReceiverInv /\ [Next]_rvars => ReceiverInv'
<1> SUFFICES ASSUME ReceiverInv, [Next]_rvars PROVE ReceiverInv'
  OBVIOUS
<1>1. ASSUME NEW x \in Xfers, NEW m \in Manifests, RecvManifest(x, m) PROVE ReceiverInv'
  BY <1>1, ManifestInv
<1>2. ASSUME NEW x \in Xfers, RecvStatus(x) PROVE ReceiverInv'
  BY <1>2, StatusInv
<1>3. ASSUME NEW x \in Xfers, NEW c \in Chunks, RecvChunk(x, c) PROVE ReceiverInv'
  BY <1>3, ChunkInv
<1>4. ASSUME NEW x \in Xfers, FinishOne(x) PROVE ReceiverInv'
  BY <1>4, FinishInv
<1>5. CASE Restart
  BY <1>5, RestartInv
<1>6. CASE UNCHANGED rvars
  BY <1>6, NoEntryChange DEF rvars, ReceiverInv, TypeOK
<1> QED
  BY <1>1, <1>2, <1>3, <1>4, <1>5, <1>6 DEF Next

\* The receiver's inductive invariant holds whatever packets it is sent.
THEOREM ReceiverInvariant == Spec => []ReceiverInv
<1>1. Init => ReceiverInv
  BY InitInv
<1>2. ReceiverInv /\ [Next]_rvars => ReceiverInv'
  BY StepInv
<1> QED
  BY <1>1, <1>2, PTL DEF Spec

-----------------------------------------------------------------------------
(* What follows from it.                                                   *)

\* No file on disk has a hole: complete() counts, and counting to chunk_count
\* is having every chunk.
THEOREM NoHolesTheorem == Spec => []NoHoles
<1>1. ReceiverInv => NoHoles
  <2> SUFFICES ASSUME ReceiverInv, NEW x \in Xfers, NEW k \in DOMAIN disk[x],
                      NEW i \in 0 .. disk[x][k].chunk_count - 1
               PROVE  disk[x][k].data[i] # Zero
    BY DEF NoHoles
  <2> DEFINE inc == disk[x][k]
  <2>1. inc \in Incoming
    BY DEF ReceiverInv, TypeOK
  <2>2. Sound(inc) /\ Complete(inc)
    BY DEF ReceiverInv, DiskSound
  <2>3. i \in inc.have /\ i \in Slots
    BY <2>1, <2>2, CountedIsHeld, SlotsSuffice
  <2> QED
    BY <2>2, <2>3 DEF Sound, SlotsMatchHave
<1> QED
  BY <1>1, ReceiverInvariant, PTL

\* One run of the receiver writes a transfer at most once.
THEOREM WrittenOnceTheorem == Spec => []WrittenOncePerRun
<1>1. ReceiverInv => WrittenOncePerRun
  <2> SUFFICES ASSUME ReceiverInv, NEW x \in Xfers PROVE Len(disk[x]) <= restarts + 1
    BY DEF WrittenOncePerRun
  <2>1. disk[x] \in Seq(Incoming) /\ restarts \in Nat
    BY DEF ReceiverInv, TypeOK
  <2>2. Len(disk[x]) <= restarts + (IF x \in completed THEN 1 ELSE 0)
    BY DEF ReceiverInv, OneCopyPerRun
  <2> QED
    BY <2>1, <2>2
<1> QED
  BY <1>1, ReceiverInvariant, PTL

\* The spans of an accepted manifest tile the buffer.
LEMMA SpansTile ==
  ASSUME NEW inc \in Incoming, Sound(inc)
  PROVE  /\ \A i \in 0 .. inc.chunk_count - 1 :
              SpanStart(inc, i) < SpanEnd(inc, i) /\ SpanEnd(inc, i) <= inc.total_len
         /\ \A b \in 0 .. inc.total_len - 1 :
              \E i \in 0 .. inc.chunk_count - 1 :
                /\ SpanStart(inc, i) <= b /\ b < SpanEnd(inc, i)
                /\ \A j \in 0 .. inc.chunk_count - 1 :
                     SpanStart(inc, j) <= b /\ b < SpanEnd(inc, j) => j = i
<1> DEFINE len == inc.total_len
           size == inc.chunk_size
           count == inc.chunk_count
<1>1. len \in Nat /\ size \in Nat \ {0} /\ count \in Nat
  BY ReceiverAssumption DEF Incoming
<1>2. len <= count * size /\ count * size < len + size
  BY <1>1, DivCeilIsCeiling DEF Sound
<1>3. \A i : /\ SpanStart(inc, i) = i * size
             /\ SpanEnd(inc, i) = IF i * size + size <= len THEN i * size + size ELSE len
  BY DEF SpanStart, SpanEnd
<1> HIDE DEF len, size, count
<1>4. \A i \in Int : i * size \in Int
  BY <1>1
<1>5. ASSUME NEW i \in Int, NEW j \in Int, i <= j PROVE i * size <= j * size
  BY <1>1, <1>5, SMT
<1>6. \A i \in Int : (i + 1) * size = i * size + size
  BY <1>1, SMT
<1>7. ASSUME NEW i \in 0 .. count - 1
      PROVE  SpanStart(inc, i) < SpanEnd(inc, i) /\ SpanEnd(inc, i) <= len
  <2>1. (i + 1) * size <= count * size
    BY <1>1, <1>5
  <2>2. i * size < len
    BY <1>1, <1>2, <1>4, <1>6, <2>1
  <2> QED
    BY <1>1, <1>3, <1>4, <2>2
<1>8. ASSUME NEW b \in 0 .. len - 1
      PROVE  \E i \in 0 .. count - 1 :
               /\ SpanStart(inc, i) <= b /\ b < SpanEnd(inc, i)
               /\ \A j \in 0 .. count - 1 :
                    SpanStart(inc, j) <= b /\ b < SpanEnd(inc, j) => j = i
  <2> DEFINE q == b \div size
  <2>1. q \in Int /\ q * size <= b /\ b < q * size + size
    BY <1>1, Division
  <2> HIDE DEF q
  <2>2. q >= 0
    <3> SUFFICES ASSUME q <= -1 PROVE FALSE
      BY <2>1
    <3>1. (q + 1) * size <= 0 * size
      BY <1>5, <2>1
    <3> QED
      BY <1>1, <1>6, <2>1, <3>1
  <2>3. q <= count - 1
    <3> SUFFICES ASSUME count <= q PROVE FALSE
      BY <1>1, <2>1
    <3>1. count * size <= q * size
      BY <1>1, <1>5, <2>1
    <3> QED
      BY <1>1, <1>2, <1>4, <2>1, <3>1
  <2>4. SpanStart(inc, q) <= b /\ b < SpanEnd(inc, q)
    BY <1>1, <1>3, <1>4, <2>1
  <2>5. ASSUME NEW j \in 0 .. count - 1, SpanStart(inc, j) <= b, b < SpanEnd(inc, j)
        PROVE  j = q
    <3>1. j * size <= b /\ b < j * size + size
      BY <1>1, <1>3, <1>4, <2>5
    <3>2. CASE j <= q - 1
      <4>1. (j + 1) * size <= q * size
        BY <1>5, <2>1, <3>2
      <4> QED
        BY <1>1, <1>4, <1>6, <2>1, <3>1, <4>1
    <3>3. CASE q <= j - 1
      <4>1. (q + 1) * size <= j * size
        BY <1>5, <2>1, <3>3
      <4> QED
        BY <1>1, <1>4, <1>6, <2>1, <3>1, <4>1
    <3> QED
      BY <1>1, <2>1, <3>2, <3>3
  <2> QED
    BY <1>1, <2>1, <2>2, <2>3, <2>4, <2>5
<1> QED
  BY <1>7, <1>8 DEF len, count

\* The spans of every open transfer tile its buffer, so copying chunks in
\* stays inside it and fills all of it.
THEOREM SpansCoverFileTheorem == Spec => []SpansCoverFile
<1>1. ReceiverInv => SpansCoverFile
  <2> SUFFICES ASSUME ReceiverInv, NEW x \in Xfers, transfers[x] # Absent
               PROVE  transfers[x] \in Incoming /\ Sound(transfers[x])
    BY SpansTile DEF SpansCoverFile
  <2> QED
    BY DEF ReceiverInv, TypeOK, TransfersSound
<1> QED
  BY <1>1, ReceiverInvariant, PTL

\* A chunk once stored stays stored until its file is finished.
THEOREM ProgressTheorem == Spec => NeverLosesProgress
<1> DEFINE Kept(x) ==
      restarts' = restarts /\ transfers[x] # Absent =>
        IF transfers'[x] = Absent
        THEN x \in completed' /\ Complete(transfers[x])
        ELSE \A i \in transfers[x].have :
               i \in transfers'[x].have /\ transfers'[x].data[i] = transfers[x].data[i]
<1>1. ASSUME ReceiverInv, NEW x \in Xfers, transfers' = transfers PROVE Kept(x)
  BY <1>1
<1>2. ASSUME ReceiverInv, NEW x \in Xfers, NEW y \in Xfers, NEW inc,
             transfers' = [transfers EXCEPT ![y] = inc], y # x
      PROVE  Kept(x)
  BY <1>2 DEF ReceiverInv, TypeOK
<1>3. ASSUME ReceiverInv, [Next]_rvars, NEW x \in Xfers PROVE Kept(x)
  <2> USE <1>3
  <2>1. ASSUME NEW y \in Xfers, NEW m \in Manifests, RecvManifest(y, m) PROVE Kept(x)
    <3>1. CASE y = x /\ transfers[x] # Absent
      BY <2>1, <3>1, <1>1 DEF RecvManifest, Known
    <3>2. CASE y # x
      BY <2>1, <3>2, <1>1, <1>2 DEF RecvManifest
    <3> QED
      BY <3>1, <3>2
  <2>2. ASSUME NEW y \in Xfers, RecvStatus(y) PROVE Kept(x)
    <3>1. CASE y = x /\ transfers[x] # Absent
      <4>1. transfers'[x] = Asked(transfers[x]) /\ transfers[x] \in Incoming
        BY <2>2, <3>1 DEF RecvStatus, ReceiverInv, TypeOK
      <4>2. /\ Asked(transfers[x]).have = transfers[x].have
            /\ Asked(transfers[x]).data = transfers[x].data
        BY <4>1 DEF Asked, Incoming
      <4>3. transfers'[x] # Absent
        BY <3>1, <4>1, AskedIsSound, AbsentAssumption
             DEF ReceiverInv, TransfersSound
      <4> QED
        BY <4>1, <4>2, <4>3
    <3>2. CASE y # x
      BY <2>2, <3>2, <1>1, <1>2 DEF RecvStatus
    <3> QED
      BY <3>1, <3>2
  <2>3. ASSUME NEW y \in Xfers, NEW c \in Chunks, RecvChunk(y, c) PROVE Kept(x)
    <3>1. CASE y = x /\ transfers[x] # Absent
      <4>1. /\ transfers'[x] = Store(transfers[x], c)
            /\ transfers[x] \in Incoming /\ Sound(transfers[x])
        BY <2>3, <3>1 DEF RecvChunk, ReceiverInv, TypeOK, TransfersSound
      <4>2. \A i \in transfers[x].have :
              /\ i \in Store(transfers[x], c).have
              /\ Store(transfers[x], c).data[i] = transfers[x].data[i]
        BY <4>1 DEF Store, Incoming
      <4>3. transfers'[x] # Absent
        BY <4>1, StoreIsSound, ReceiverAssumption, AbsentAssumption
      <4> QED
        BY <4>1, <4>2, <4>3
    <3>2. CASE y # x
      BY <2>3, <3>2, <1>1, <1>2 DEF RecvChunk
    <3> QED
      BY <3>1, <3>2
  <2>4. ASSUME NEW y \in Xfers, FinishOne(y) PROVE Kept(x)
    <3>1. CASE y = x
      BY <2>4, <3>1 DEF FinishOne, Finished, ReceiverInv, TypeOK
    <3>2. CASE y # x
      BY <2>4, <3>2, <1>2 DEF FinishOne
    <3> QED
      BY <3>1, <3>2
  <2>5. CASE Restart
    BY <2>5 DEF Restart, ReceiverInv, TypeOK
  <2>6. CASE UNCHANGED rvars
    BY <2>6, <1>1 DEF rvars
  <2> QED
    BY <2>1, <2>2, <2>3, <2>4, <2>5, <2>6 DEF Next
<1>4. ReceiverInv /\ [Next]_rvars => [\A x \in Xfers : Kept(x)]_rvars
  BY <1>3
<1> QED
  BY <1>4, ReceiverInvariant, PTL DEF NeverLosesProgress, Spec

-----------------------------------------------------------------------------
(* Second part: Transfer, with every fault.                                *)

\* What Transfer adds to the receiver's state has its types.
SenderTypes ==
  /\ file \in [Xfers -> Contents]
  /\ snd \in [Xfers -> Senders]
  /\ late \subseteq Requests

\* The file of every content is one a manifest can describe.
LEMMA ManifestsOfContents ==
  ASSUME NEW v \in Contents
  PROVE  ManifestOf(v) \in Manifests
BY TransferAssumption

-----------------------------------------------------------------------------
(* Which chunks an answer names.                                           *)

LEMMA SmallestExists ==
  ASSUME NEW S \in SUBSET Nat, S # {}
  PROVE  \E m \in S : \A j \in S : m <= j
<1>1. PICK m \in S : \A j \in S : ~ (<<j, m>> \in OpToRel(<, Nat))
  BY NatLessThanWellFounded, WFMin
<1>2. \A j \in S : ~ (j < m)
  BY <1>1 DEF OpToRel
<1> QED
  BY <1>2

\* As long as a chunk is lacking, the lowest of them is named; and an answer that
\* is not full names all of them.
LEMMA MissingNames ==
  ASSUME NEW inc \in Incoming, Sound(inc)
  PROVE  /\ Missing(inc).listed \subseteq Slots
         /\ Missing(inc).total \in Nat
         /\ ~ Complete(inc) => Missing(inc).listed # {}
         /\ Cardinality(Missing(inc).listed) < MaxListed
              => Lacking(inc) \subseteq Missing(inc).listed
<1> DEFINE L == Lacking(inc)
           Below(i) == {j \in L : j < i}
           N == Missing(inc).listed
<1>1. N = {i \in L : Cardinality(Below(i)) < MaxListed}
  BY DEF Missing
<1>2. L \subseteq Slots /\ L \subseteq Nat /\ N \subseteq L
  BY <1>1, ReceiverAssumption DEF Lacking, Slots
<1>3. IsFiniteSet(L)
  <2>1. IsFiniteSet(Slots)
    BY ReceiverAssumption, FS_Interval DEF Slots
  <2> QED
    BY <1>2, <2>1, FS_Subset
<1>4. Missing(inc).total \in Nat
  BY CountedIsHeld DEF Missing, Incoming
<1>5. ASSUME ~ Complete(inc)
      PROVE  N # {}
  <2>1. L # {}
    <3> SUFFICES ASSUME L = {} PROVE FALSE
      OBVIOUS
    <3>1. inc.have = 0 .. inc.chunk_count - 1
      <4>1. /\ inc.chunk_count \in Nat /\ 0 .. inc.chunk_count - 1 \subseteq Slots
            /\ inc.have \subseteq 0 .. inc.chunk_count - 1
        BY SlotsSuffice
      <4>2. ASSUME NEW i \in 0 .. inc.chunk_count - 1 PROVE i \in inc.have
        <5>1. i \in Slots /\ i < inc.chunk_count
          BY <4>1
        <5> QED
          BY <5>1 DEF Lacking
      <4> QED
        BY <4>1, <4>2
    <3>2. Cardinality(0 .. inc.chunk_count - 1) = inc.chunk_count
      <4>1. inc.chunk_count \in Nat /\ inc.chunk_count - 1 \in Int /\ 0 \in Int
        BY SlotsSuffice
      <4>2. Cardinality(0 .. inc.chunk_count - 1)
              = IF 0 > inc.chunk_count - 1 THEN 0 ELSE inc.chunk_count - 1 - 0 + 1
        BY <4>1, FS_Interval
      <4> QED
        BY <4>1, <4>2
    <3> QED
      BY <1>5, <3>1, <3>2 DEF Sound, CountIsHave, Complete
  <2>2. PICK m \in L : \A j \in L : m <= j
    BY <1>2, <2>1, SmallestExists
  <2>3. Below(m) = {}
    BY <1>2, <2>2
  <2>4. Cardinality(Below(m)) = 0
    BY <2>3, FS_EmptySet
  <2> QED
    BY <1>1, <2>2, <2>4, ReceiverAssumption
<1>6. ASSUME Cardinality(N) < MaxListed, L \ N # {}
      PROVE  FALSE
  <2>1. PICK m \in L \ N : \A j \in L \ N : m <= j
    BY <1>2, <1>6, SmallestExists
  <2>2. Below(m) \subseteq N
    BY <1>2, <2>1
  <2>3. IsFiniteSet(N) /\ Cardinality(N) \in Nat
    BY <1>2, <1>3, FS_Subset, FS_CardinalityType
  <2>4. Cardinality(Below(m)) <= Cardinality(N) /\ Cardinality(Below(m)) \in Nat
    BY <2>2, <2>3, FS_Subset, FS_CardinalityType
  <2> QED
    BY <1>1, <1>6, <2>1, <2>3, <2>4, ReceiverAssumption
<1> QED
  BY <1>2, <1>4, <1>5, <1>6

-----------------------------------------------------------------------------
(* The sender's record keeps its type through each of its updates.         *)

LEMMA NewSenderType ==
  ASSUME NEW v \in Contents
  PROVE  NewSender(v) \in Senders
BY DEF NewSender, Senders, Working, Calling

LEMMA FailType ==
  ASSUME NEW s \in Senders,
         NEW why \in {"", "refused", "forgotten", "unnamed", "short", "panic", "no_route"}
  PROVE  /\ Fail(s, why) \in Senders
         /\ Fail(s, why).why = why /\ Fail(s, why).pc = "failed"
         /\ Fail(s, why).content = s.content
BY DEF Fail, Senders

LEMMA NextRouteType ==
  ASSUME NEW s \in Senders
  PROVE  /\ NextRoute(s) \in Senders
         /\ NextRoute(s).pc \in {"start", "failed"}
         /\ NextRoute(s).content = s.content
         /\ NextRoute(s).why \in {s.why, "no_route"}
<1>1. CASE s.tries < MaxTries
  <2> DEFINE a == [s EXCEPT !.pc = "start", !.tries = s.tries + 1, !.round = 0]
             b == [a EXCEPT !.attempt = 0, !.to_send = {}, !.missing = {}, !.missing_total = 0]
  <2>1. s.tries \in Nat
    BY DEF Senders
  <2>2. s.tries + 1 \in Nat
    BY <2>1
  <2>3. "start" \in Working
    BY DEF Working
  <2>4. /\ a \in Senders /\ a.pc = "start" /\ a.content = s.content /\ a.why = s.why
    BY <2>2, <2>3 DEF Senders
  <2>5. NextRoute(s) = b
    BY <1>1, Zenon DEF NextRoute
  <2> HIDE DEF a
  <2>6. b \in Senders /\ b.pc = "start" /\ b.content = a.content /\ b.why = a.why
    BY <2>4 DEF Senders
  <2> QED
    BY <2>4, <2>5, <2>6
<1>2. CASE ~ (s.tries < MaxTries)
  BY <1>2, FailType DEF NextRoute
<1> QED
  BY <1>1, <1>2

LEMMA EnterType ==
  ASSUME NEW s \in Senders, NEW pc \in Working
  PROVE  /\ Enter(s, pc) \in Senders
         /\ Enter(s, pc).pc = pc
         /\ Enter(s, pc).content = s.content
         /\ Enter(s, pc).why = s.why
BY DEF Enter, Senders

LEMMA RepairedType ==
  ASSUME NEW s \in Senders
  PROVE  /\ Repaired(s) \in Senders
         /\ Repaired(s).content = s.content
         /\ Repaired(s).why = s.why
<1> DEFINE n == IF s.round > 0 THEN s.repairs + 1 ELSE s.repairs
<1>0. s.round \in Nat /\ s.repairs \in Nat
  BY DEF Senders
<1>1. n \in Nat /\ s.round + 1 \in Nat
  BY <1>0
<1>2. Repaired(s) = [s EXCEPT !.repairs = n, !.round = s.round + 1]
  BY Zenon DEF Repaired
<1> HIDE DEF n
<1> QED
  BY <1>1, <1>2 DEF Senders

LEMMA NotedType ==
  ASSUME NEW x \in Xfers, snd[x] \in Senders, call[x].reply \in StatusReplies
  PROVE  /\ Noted(x) \in Senders
         /\ Noted(x).content = snd[x].content
         /\ Noted(x).why = snd[x].why
BY DEF Noted, Senders, StatusReplies

-----------------------------------------------------------------------------
(* The invariant that holds with every fault: types, and a receiver that   *)
(* calls a file short names a chunk of it.                                 *)

\* What a sender has been told is an answer to what it asked.
AnswerTypes ==
  \A x \in Xfers :
    call[x].st = "answered" =>
      IF snd[x].pc = "ask"
      THEN /\ call[x].reply \in StatusReplies
           /\ call[x].reply.state = "in_progress" => call[x].reply.missing # {}
      ELSE call[x].reply \in [accepted : BOOLEAN]

SenderInv ==
  /\ SenderTypes
  /\ call \in [Xfers -> {NoCall, SentCall} \cup [st : {"answered"}, reply : Replies]]
  /\ AnswerTypes
  /\ AlwaysNamesOne

LEMMA SenderInit == TransferInit => SenderInv
<1> SUFFICES ASSUME TransferInit PROVE SenderInv
  OBVIOUS
<1>1. SenderTypes
  BY NewSenderType DEF TransferInit, SenderTypes
<1>2. call \in [Xfers -> {NoCall, SentCall} \cup [st : {"answered"}, reply : Replies]]
  BY DEF TransferInit
<1>3. AnswerTypes
  BY DEF TransferInit, AnswerTypes, NoCall
<1>4. AlwaysNamesOne
  BY DEF TransferInit, AlwaysNamesOne, NewSender
<1> QED
  BY <1>1, <1>2, <1>3, <1>4 DEF SenderInv

\* A step that leaves its sender without an answer.
LEMMA WithoutAnswer ==
  ASSUME SenderInv, NEW x \in Xfers, NEW s \in Senders, s.why # "unnamed",
         NEW c \in {NoCall, SentCall},
         snd' = [snd EXCEPT ![x] = s], call' = [call EXCEPT ![x] = c],
         file' = file, late' \subseteq Requests
  PROVE  SenderInv'
<1>1. SenderTypes'
  BY DEF SenderInv, SenderTypes
<1>2. call' \in [Xfers -> {NoCall, SentCall} \cup [st : {"answered"}, reply : Replies]]
  BY DEF SenderInv
<1>3. c.st # "answered"
  BY DEF NoCall, SentCall
<1>4. AnswerTypes'
  BY <1>3 DEF SenderInv, SenderTypes, AnswerTypes
<1>5. AlwaysNamesOne'
  BY DEF SenderInv, SenderTypes, AlwaysNamesOne
<1> QED
  BY <1>1, <1>2, <1>4, <1>5 DEF SenderInv

\* A step that leaves its sender in a state where no answer is looked at.
LEMMA AnswerKept ==
  ASSUME SenderInv, NEW x \in Xfers, NEW s \in Senders, s.why # "unnamed",
         snd[x].pc # "ask", s.pc # "ask",
         snd' = [snd EXCEPT ![x] = s], UNCHANGED <<file, call, late>>
  PROVE  SenderInv'
<1>1. SenderTypes'
  BY DEF SenderInv, SenderTypes
<1>2. call' \in [Xfers -> {NoCall, SentCall} \cup [st : {"answered"}, reply : Replies]]
  BY DEF SenderInv
<1>3. AnswerTypes'
  BY DEF SenderInv, SenderTypes, AnswerTypes
<1>4. AlwaysNamesOne'
  BY DEF SenderInv, SenderTypes, AlwaysNamesOne
<1> QED
  BY <1>1, <1>2, <1>3, <1>4 DEF SenderInv

\* A request that is made is one of those there are, ...
LEMMA RequestType ==
  ASSUME SenderTypes, NEW x \in Xfers
  PROVE  Request(x) \in Requests
BY DEF SenderTypes, Request, Requests, Senders

\* ... and reaches the receiver as a packet it takes.
LEMMA HandleIsReceiving ==
  ASSUME NEW r \in Requests, Handle(r)
  PROVE  Next
<1>1. r.xfer \in Xfers /\ r.content \in Contents
  BY DEF Requests
<1>2. CASE r.kind = "status"
  BY <1>1, <1>2 DEF Handle, Next
<1>3. CASE r.kind # "status"
  BY <1>1, <1>3, ManifestsOfContents DEF Handle, Next
<1> QED
  BY <1>2, <1>3

\* What the receiver says of a transfer is a status answer, and one that says
\* "in progress" names a chunk.
LEMMA StatusReplyType ==
  ASSUME ReceiverInv, NEW x \in Xfers
  PROVE  /\ StatusReply(x) \in StatusReplies
         /\ StatusReply(x).state = "in_progress" =>
              StatusReply(x).missing # {} /\ transfers[x] # Absent
<1>1. CASE transfers[x] = Absent
  BY <1>1 DEF StatusReply, StatusReplies
<1>2. CASE transfers[x] # Absent
  <2>1. transfers[x] \in Incoming /\ Sound(transfers[x])
    BY <1>2 DEF ReceiverInv, TypeOK, TransfersSound
  <2>2. /\ Missing(transfers[x]).total \in Nat
        /\ Missing(transfers[x]).listed \in SUBSET Slots
        /\ ~ Complete(transfers[x]) => Missing(transfers[x]).listed # {}
    BY <2>1, MissingNames
  <2> QED
    BY <1>2, <2>2 DEF StatusReply, StatusReplies
<1> QED
  BY <1>1, <1>2

\* The states that wait for an answer, and what the answer is to.
LEMMA ReceiveCallKeeps ==
  ASSUME ReceiverInv, SenderInv, NEW x \in Xfers, ReceiveCall(x)
  PROVE  SenderInv'
<1> DEFINE r == ReplyTo(Request(x))
<1>1. snd[x].pc = "ask" => r = StatusReply(x)
  BY DEF ReplyTo, Request
<1>2. snd[x].pc # "ask" => r \in [accepted : BOOLEAN]
  <2>1. \A m : ManifestOk(x, m) \in BOOLEAN
    BY DEF ManifestOk, Known, Fits
  <2> QED
    BY <2>1 DEF ReplyTo, Request
<1>3. r \in Replies
  BY <1>1, <1>2, StatusReplyType DEF Replies
<1>4. /\ call' = [call EXCEPT ![x] = Answer(r)]
      /\ UNCHANGED <<file, snd, late>>
  BY DEF ReceiveCall
<1>5. Answer(r).st = "answered" /\ Answer(r).reply = r
      /\ Answer(r) \in [st : {"answered"}, reply : Replies]
  BY <1>3 DEF Answer
<1> HIDE DEF r
<1>6. SenderTypes' /\ AlwaysNamesOne'
  BY <1>4 DEF SenderInv, SenderTypes, AlwaysNamesOne
<1>7. call' \in [Xfers -> {NoCall, SentCall} \cup [st : {"answered"}, reply : Replies]]
  BY <1>4, <1>5 DEF SenderInv
<1>8. AnswerTypes'
  BY <1>1, <1>2, <1>4, <1>5, StatusReplyType DEF SenderInv, AnswerTypes
<1> QED
  BY <1>6, <1>7, <1>8 DEF SenderInv

LEMMA SenderStepKeeps ==
  ASSUME SenderInv, NEW x \in Xfers, SenderStep(x)
  PROVE  SenderInv'
<1>0. /\ snd[x] \in Senders /\ snd[x].why # "unnamed" /\ file[x] \in Contents
      /\ late \subseteq Requests
  BY DEF SenderInv, SenderTypes, AlwaysNamesOne
<1>1. CASE Start(x)
  <2> DEFINE s == [snd[x] EXCEPT !.content = file[x]]
  <2>1. s \in Senders /\ s.why = snd[x].why
    BY <1>0 DEF Senders
  <2>2. snd' = [snd EXCEPT ![x] = Enter(s, "open")]
    BY <1>1 DEF Start
  <2> HIDE DEF s
  <2>3. Enter(s, "open") \in Senders /\ Enter(s, "open").why # "unnamed"
    BY <1>0, <2>1, EnterType DEF Working, Calling
  <2> QED
    BY <1>0, <1>1, <2>2, <2>3, WithoutAnswer DEF Start
<1>2. CASE Accepted(x)
  <2> DEFINE n == IF snd[x].pc = "reopen" THEN snd[x].round + 1 ELSE 0
             s == [snd[x] EXCEPT !.round = n]
  <2>1. n \in Nat
    <3>1. snd[x].round \in Nat
      BY <1>0 DEF Senders
    <3> QED
      BY <3>1
  <2>2. s \in Senders /\ s.why = snd[x].why
    <3> HIDE DEF n
    <3> QED
      BY <1>0, <2>1 DEF Senders
  <2>3. \/ /\ snd' = [snd EXCEPT ![x] = Fail(s, "forgotten")]
           /\ call' = [call EXCEPT ![x] = NoCall]
        \/ /\ snd' = [snd EXCEPT ![x] = Enter(s, "ask")]
           /\ call' = [call EXCEPT ![x] = SentCall]
    BY <1>2, Zenon DEF Accepted
  <2>4. UNCHANGED <<file, late>>
    BY <1>2 DEF Accepted
  <2> HIDE DEF s
  <2>5. /\ Enter(s, "ask") \in Senders /\ Enter(s, "ask").why # "unnamed"
        /\ Fail(s, "forgotten") \in Senders /\ Fail(s, "forgotten").why # "unnamed"
    <3>1. "ask" \in Working
      BY DEF Working, Calling
    <3>2. s \in Senders /\ s.why # "unnamed"
      BY <1>0, <2>2
    <3>3. Enter(s, "ask") \in Senders /\ Enter(s, "ask").why # "unnamed"
      BY <3>1, <3>2, EnterType
    <3>4. Fail(s, "forgotten") \in Senders /\ Fail(s, "forgotten").why # "unnamed"
      BY <3>2, FailType
    <3> QED
      BY <3>3, <3>4
  <2> QED
    BY <1>0, <2>3, <2>4, <2>5, WithoutAnswer
<1>3. CASE Refused(x)
  <2>1. Fail(snd[x], "refused") \in Senders /\ Fail(snd[x], "refused").why # "unnamed"
    BY <1>0, FailType
  <2> QED
    BY <1>0, <1>3, <2>1, WithoutAnswer DEF Refused
<1>4. ASSUME NEW state, Told(x, state)
      PROVE  /\ Noted(x) \in Senders /\ Noted(x).why # "unnamed"
             /\ call[x].reply \in StatusReplies /\ call[x].reply.state = state
             /\ state = "in_progress" => call[x].reply.missing # {}
             /\ UNCHANGED <<file, late>>
  <2>1. /\ call[x].reply \in StatusReplies /\ call[x].reply.state = state
        /\ state = "in_progress" => call[x].reply.missing # {}
    BY <1>4 DEF Told, Answered, SenderInv, AnswerTypes
  <2> QED
    BY <1>0, <1>4, <2>1, NotedType DEF Told
<1>5. CASE ToldComplete(x)
  <2> DEFINE s == [Noted(x) EXCEPT !.pc = "done"]
  <2>1. s \in Senders /\ s.why = Noted(x).why
    BY <1>4, <1>5 DEF ToldComplete, Senders
  <2> QED
    BY <1>0, <1>4, <1>5, <2>1, WithoutAnswer DEF ToldComplete
<1>6. CASE ToldUnknown(x)
  <2>1. Enter(Noted(x), "reopen") \in Senders /\ Enter(Noted(x), "reopen").why # "unnamed"
    BY <1>4, <1>6, EnterType DEF ToldUnknown, Working, Calling
  <2> QED
    BY <1>0, <1>4, <1>6, <2>1, WithoutAnswer DEF ToldUnknown
<1>7. CASE ToldMissing(x)
  <2> DEFINE r == call[x].reply
             s == [Noted(x) EXCEPT !.pc = "blast", !.missing_total = r.missing_total,
                                   !.missing = r.missing, !.to_send = r.missing]
  <2>1. r \in StatusReplies /\ r.missing # {} /\ UNCHANGED <<file, late>>
    BY <1>4, <1>7 DEF ToldMissing
  <2>2. s \in Senders /\ s.why # "unnamed"
    <3>1. Noted(x) \in Senders /\ Noted(x).why # "unnamed"
      BY <1>4, <1>7 DEF ToldMissing
    <3>2. r.missing_total \in Nat /\ r.missing \in SUBSET Slots
      BY <2>1 DEF StatusReplies
    <3>3. "blast" \in Working
      BY DEF Working
    <3> QED
      BY <3>1, <3>2, <3>3 DEF Senders
  <2>3. snd' = [snd EXCEPT ![x] = s] /\ call' = [call EXCEPT ![x] = NoCall]
    BY <1>7, <2>1 DEF ToldMissing
  <2> HIDE DEF s
  <2> QED
    BY <1>0, <2>1, <2>2, <2>3, WithoutAnswer
<1>8. CASE UnderflowPanic(x)
  <2>1. Fail(Noted(x), "panic") \in Senders /\ Fail(Noted(x), "panic").why # "unnamed"
    BY <1>4, <1>8, FailType DEF UnderflowPanic
  <2> QED
    BY <1>0, <1>4, <1>8, <2>1, WithoutAnswer DEF UnderflowPanic
<1>9. ASSUME NEW i \in Slots, SendChunk(x, i)
      PROVE  SenderInv'
  <2> DEFINE rest == snd[x].to_send \ {i}
             pc == IF rest = {} THEN "settle" ELSE "blast"
             s == [snd[x] EXCEPT !.to_send = rest, !.pc = pc]
  <2>1. rest \in SUBSET Slots /\ pc \in Working /\ pc # "ask"
    BY <1>0 DEF Senders, Working
  <2>2. snd' = [snd EXCEPT ![x] = s] /\ snd[x].pc # "ask" /\ UNCHANGED <<file, call, late>>
    BY <1>9 DEF SendChunk
  <2> HIDE DEF rest, pc
  <2>3. s \in Senders /\ s.why # "unnamed" /\ s.pc = pc
    BY <1>0, <2>1 DEF Senders
  <2> HIDE DEF s
  <2> QED
    BY <2>1, <2>2, <2>3, AnswerKept
<1>10. ASSUME NEW i \in Slots, SlicePanic(x, i)
       PROVE  SenderInv'
  <2>1. /\ Fail(snd[x], "panic") \in Senders /\ Fail(snd[x], "panic").why # "unnamed"
        /\ Fail(snd[x], "panic").pc # "ask"
    BY <1>0, FailType
  <2> QED
    BY <1>10, <2>1, AnswerKept DEF SlicePanic
<1>11. CASE Settled(x)
  <2> DEFINE s == Repaired(snd[x])
             t == [s EXCEPT !.missing = {}, !.missing_total = 0]
  <2>1. s \in Senders /\ s.why # "unnamed"
    BY <1>0, RepairedType
  <2>2. \/ snd' = [snd EXCEPT ![x] = Fail(s, "short")] /\ UNCHANGED call
        \/ /\ snd' = [snd EXCEPT ![x] = Enter(t, "ask")]
           /\ call' = [call EXCEPT ![x] = SentCall]
    BY <1>11, Zenon DEF Settled
  <2>3. snd[x].pc # "ask" /\ UNCHANGED <<file, late>>
    BY <1>11 DEF Settled
  <2> HIDE DEF s
  <2>4. t \in Senders /\ t.why = s.why
    BY <2>1 DEF Senders
  <2> HIDE DEF t
  <2>5. Enter(t, "ask") \in Senders /\ Enter(t, "ask").why # "unnamed"
    BY <2>1, <2>4, EnterType DEF Working, Calling
  <2>6. /\ Fail(s, "short") \in Senders /\ Fail(s, "short").why # "unnamed"
        /\ Fail(s, "short").pc # "ask"
    BY <2>1, FailType
  <2> QED
    BY <1>0, <2>2, <2>3, <2>5, <2>6, WithoutAnswer, AnswerKept
<1> QED
  BY <1>1, <1>2, <1>3, <1>5, <1>6, <1>7, <1>8, <1>9, <1>10, <1>11 DEF SenderStep

LEMMA CallFailsKeeps ==
  ASSUME SenderInv, NEW x \in Xfers, CallFails(x) \/ RouteDies(x)
  PROVE  SenderInv'
<1>0. /\ snd[x] \in Senders /\ snd[x].why # "unnamed"
      /\ late \subseteq Requests /\ file' = file
  BY DEF SenderInv, SenderTypes, AlwaysNamesOne, CallFails, RouteDies
<1>1. Request(x) \in Requests
  BY RequestType DEF SenderInv
<1>2. late' \subseteq Requests
  BY <1>0, <1>1 DEF CallFails, RouteDies, Abandon
<1>3. NextRoute(snd[x]) \in Senders /\ NextRoute(snd[x]).why # "unnamed"
  BY <1>0, NextRouteType
<1> DEFINE n == snd[x].attempt + 1
           s == [snd[x] EXCEPT !.attempt = n]
<1>4. s \in Senders /\ s.why = snd[x].why
  <2>1. snd[x].attempt \in Nat
    BY <1>0 DEF Senders
  <2>2. n \in Nat
    BY <2>1
  <2> HIDE DEF n
  <2> QED
    BY <1>0, <2>2 DEF Senders
<1>5. \/ /\ snd' = [snd EXCEPT ![x] = s]
         /\ call' = [call EXCEPT ![x] = SentCall]
      \/ /\ snd' = [snd EXCEPT ![x] = NextRoute(snd[x])]
         /\ call' = [call EXCEPT ![x] = NoCall]
  BY Zenon DEF CallFails, RouteDies
<1> HIDE DEF s
<1> QED
  BY <1>0, <1>2, <1>3, <1>4, <1>5, WithoutAnswer

\* The steps that change nothing of the senders and their calls.
LEMMA OtherStepsKeep ==
  ASSUME SenderInv, UNCHANGED <<snd, call>>, late' \subseteq late,
         file' \in [Xfers -> Contents]
  PROVE  SenderInv'
BY DEF SenderInv, SenderTypes, AnswerTypes, AlwaysNamesOne

-----------------------------------------------------------------------------
(* The receiver of a Transfer is a Receiver.                               *)

LEMMA ReceiverStep ==
  ASSUME SenderInv, [TransferNext]_vars
  PROVE  [Next]_rvars
<1>1. CASE UNCHANGED vars
  BY <1>1 DEF vars
<1>2. ASSUME NEW x \in Xfers, SenderStep(x) \/ CallFails(x) \/ RouteDies(x)
      PROVE  UNCHANGED rvars
  BY <1>2 DEF SenderStep, Start, Accepted, Refused, ToldComplete, ToldUnknown, ToldMissing,
              UnderflowPanic, Told, SendChunk, SlicePanic, Settled, CallFails, RouteDies
<1>3. ASSUME NEW x \in Xfers, ReceiveCall(x)
      PROVE  Next
  BY <1>3, RequestType, HandleIsReceiving DEF ReceiveCall, SenderInv
<1>4. ASSUME NEW x \in Xfers, WriteFile(x)
      PROVE  Next
  BY <1>4 DEF WriteFile, Next
<1>5. ASSUME NEW x \in Xfers, NEW c \in Chunks, ReceiveChunk(x, c)
      PROVE  Next
  BY <1>5 DEF ReceiveChunk, Next
<1>6. ASSUME NEW x \in Xfers, NEW c \in Chunks, LoseChunk(x, c)
      PROVE  UNCHANGED rvars
  BY <1>6 DEF LoseChunk
<1>7. ASSUME NEW x \in Xfers, NEW v \in Contents, EditFile(x, v)
      PROVE  UNCHANGED rvars
  BY <1>7 DEF EditFile
<1>8. ASSUME NEW r \in late, ReceiveLate(r)
      PROVE  Next
  BY <1>8, HandleIsReceiving DEF ReceiveLate, SenderInv, SenderTypes
<1>9. CASE ReceiverRestarts
  BY <1>9 DEF ReceiverRestarts, Next
<1>10. CASE Over
  BY <1>10 DEF Over, vars
<1> QED
  BY <1>1, <1>2, <1>3, <1>4, <1>5, <1>6, <1>7, <1>8, <1>9, <1>10 DEF TransferNext

LEMMA SenderInvStep ==
  ASSUME ReceiverInv, SenderInv, [TransferNext]_vars
  PROVE  SenderInv'
<1>0. file \in [Xfers -> Contents]
  BY DEF SenderInv, SenderTypes
<1>1. CASE UNCHANGED vars
  BY <1>0, <1>1, OtherStepsKeep DEF vars, svars
<1>2. ASSUME NEW x \in Xfers, SenderStep(x)
      PROVE  SenderInv'
  BY <1>2, SenderStepKeeps
<1>3. ASSUME NEW x \in Xfers, CallFails(x) \/ RouteDies(x)
      PROVE  SenderInv'
  BY <1>3, CallFailsKeeps
<1>4. ASSUME NEW x \in Xfers, ReceiveCall(x)
      PROVE  SenderInv'
  BY <1>4, ReceiveCallKeeps
<1>5. ASSUME NEW x \in Xfers, WriteFile(x)
      PROVE  SenderInv'
  BY <1>0, <1>5, OtherStepsKeep DEF WriteFile, svars
<1>6. ASSUME NEW x \in Xfers, NEW c \in Chunks, ReceiveChunk(x, c) \/ LoseChunk(x, c)
      PROVE  SenderInv'
  BY <1>0, <1>6, OtherStepsKeep DEF ReceiveChunk, LoseChunk
<1>7. ASSUME NEW x \in Xfers, NEW v \in Contents, EditFile(x, v)
      PROVE  SenderInv'
  BY <1>0, <1>7, OtherStepsKeep DEF EditFile
<1>8. ASSUME NEW r \in late, ReceiveLate(r)
      PROVE  SenderInv'
  BY <1>0, <1>8, OtherStepsKeep DEF ReceiveLate
<1>9. CASE ReceiverRestarts
  BY <1>0, <1>9, OtherStepsKeep DEF ReceiverRestarts, svars
<1>10. CASE Over
  BY <1>0, <1>10, OtherStepsKeep DEF Over, vars, svars
<1> QED
  BY <1>1, <1>2, <1>3, <1>4, <1>5, <1>6, <1>7, <1>8, <1>9, <1>10 DEF TransferNext

-----------------------------------------------------------------------------
(* The types of everything.                                                *)

NetworkTypes ==
  /\ flight \in [Xfers -> [Chunks -> 0 .. MaxCopies]]
  /\ lost \in 0 .. MaxLost
  /\ edits \in 0 .. MaxEdits

LEMMA NetworkInit == TransferInit => NetworkTypes
BY TransferAssumption DEF TransferInit, NetworkTypes

\* A number of copies is changed by one, within its bounds.
LEMMA FlightType ==
  ASSUME NetworkTypes, NEW x \in Xfers, NEW c \in Chunks, NEW n \in 0 .. MaxCopies,
         flight' = [flight EXCEPT ![x][c] = n]
  PROVE  flight' \in [Xfers -> [Chunks -> 0 .. MaxCopies]]
<1>1. flight[x] \in [Chunks -> 0 .. MaxCopies]
  BY DEF NetworkTypes
<1>2. [flight[x] EXCEPT ![c] = n] \in [Chunks -> 0 .. MaxCopies]
  BY <1>1
<1>3. flight' = [flight EXCEPT ![x] = [flight[x] EXCEPT ![c] = n]]
  OBVIOUS
<1> QED
  BY <1>2, <1>3 DEF NetworkTypes

LEMMA LostType ==
  ASSUME NetworkTypes, lost < MaxLost, lost' = lost + 1
  PROVE  lost' \in 0 .. MaxLost
BY TransferAssumption DEF NetworkTypes

LEMMA CopiesType ==
  ASSUME NetworkTypes, NEW x \in Xfers, NEW c \in Chunks
  PROVE  /\ flight[x][c] < MaxCopies => flight[x][c] + 1 \in 0 .. MaxCopies
         /\ flight[x][c] > 0 => flight[x][c] - 1 \in 0 .. MaxCopies
<1>1. flight[x][c] \in 0 .. MaxCopies /\ MaxCopies \in Nat
  BY TransferAssumption DEF NetworkTypes
<1> QED
  BY <1>1

LEMMA NetworkStep ==
  ASSUME SenderInv, NetworkTypes, [TransferNext]_vars
  PROVE  NetworkTypes'
<1>1. CASE UNCHANGED <<flight, lost, edits>>
  BY <1>1 DEF NetworkTypes
<1>2. ASSUME NEW x \in Xfers, NEW i \in Slots, SendChunk(x, i)
      PROVE  NetworkTypes'
  <2> DEFINE c == ChunkOf(snd[x].content, i)
  <2>1. snd[x].content \in Contents /\ i * ChunkSize <= FileLen[snd[x].content]
    BY <1>2 DEF SendChunk, SenderInv, SenderTypes, Senders
  <2>2. c \in Chunks
    BY <2>1, TransferAssumption
  <2>3. \/ /\ flight[x][c] < MaxCopies
           /\ flight' = [flight EXCEPT ![x][c] = flight[x][c] + 1]
           /\ lost' = lost
        \/ lost < MaxLost /\ lost' = lost + 1 /\ flight' = flight
    BY <1>2, Zenon DEF SendChunk
  <2>4. edits' = edits
    BY <1>2 DEF SendChunk
  <2> HIDE DEF c
  <2>5. flight' \in [Xfers -> [Chunks -> 0 .. MaxCopies]]
    BY <2>2, <2>3, FlightType, CopiesType DEF NetworkTypes
  <2>6. lost' \in 0 .. MaxLost
    BY <2>3, LostType DEF NetworkTypes
  <2> QED
    BY <2>4, <2>5, <2>6 DEF NetworkTypes
<1>3. ASSUME NEW x \in Xfers, NEW c \in Chunks, ReceiveChunk(x, c) \/ LoseChunk(x, c)
      PROVE  NetworkTypes'
  <2>1. /\ flight[x][c] > 0
        /\ flight' = [flight EXCEPT ![x][c] = flight[x][c] - 1]
        /\ lost' = lost \/ (lost < MaxLost /\ lost' = lost + 1)
        /\ edits' = edits
    BY <1>3, Zenon DEF ReceiveChunk, LoseChunk
  <2>2. flight' \in [Xfers -> [Chunks -> 0 .. MaxCopies]]
    BY <2>1, FlightType, CopiesType
  <2>3. lost' \in 0 .. MaxLost
    BY <2>1, LostType DEF NetworkTypes
  <2> QED
    BY <2>1, <2>2, <2>3 DEF NetworkTypes
<1>4. ASSUME NEW x \in Xfers, CallFails(x)
      PROVE  NetworkTypes'
  BY <1>4, LostType DEF CallFails, NetworkTypes
<1>5. ASSUME NEW x \in Xfers, NEW v \in Contents, EditFile(x, v)
      PROVE  NetworkTypes'
  BY <1>5, TransferAssumption DEF EditFile, NetworkTypes
<1>6. ASSUME NEW x \in Xfers, SenderStep(x), \A i \in Slots : ~ SendChunk(x, i)
      PROVE  UNCHANGED <<flight, lost, edits>>
  BY <1>6 DEF SenderStep, Start, Accepted, Refused, ToldComplete, ToldUnknown, ToldMissing,
              UnderflowPanic, Told, SlicePanic, Settled
<1>7. ASSUME NEW x \in Xfers, RouteDies(x) \/ ReceiveCall(x) \/ WriteFile(x)
      PROVE  UNCHANGED <<flight, lost, edits>>
  BY <1>7 DEF RouteDies, ReceiveCall, WriteFile, svars
<1>8. ASSUME (\E r \in late : ReceiveLate(r)) \/ ReceiverRestarts \/ Over \/ UNCHANGED vars
      PROVE  UNCHANGED <<flight, lost, edits>>
  BY <1>8 DEF ReceiveLate, ReceiverRestarts, Over, vars, svars
<1> QED
  BY <1>1, <1>2, <1>3, <1>4, <1>5, <1>6, <1>7, <1>8 DEF TransferNext

-----------------------------------------------------------------------------
\* In every run of senders, network and receiver, with any faults, the receiver's
\* invariant and the senders' hold together.
THEOREM TransferInvariant == TransferSpec => [](ReceiverInv /\ SenderInv)
<1>1. TransferInit => ReceiverInv /\ SenderInv
  BY InitInv, SenderInit DEF TransferInit
<1>2. (ReceiverInv /\ SenderInv) /\ [TransferNext]_vars => (ReceiverInv /\ SenderInv)'
  BY ReceiverStep, SenderInvStep, StepInv
<1> QED
  BY <1>1, <1>2, PTL DEF TransferSpec

\* What the receiver does in a transfer is what Receiver does of packets of its
\* own choice: every property of Receiver's runs is one of Transfer's.
THEOREM TransferImplementsReceiver == TransferSpec => Spec
<1>1. TransferInit => Init
  BY DEF TransferInit
<1>2. SenderInv /\ [TransferNext]_vars => [Next]_rvars
  BY ReceiverStep
<1> QED
  BY <1>1, <1>2, TransferInvariant, PTL DEF TransferSpec, Spec

\* No file a transfer writes has a hole, whatever is lost, late, edited or
\* restarted.
THEOREM TransferNoHoles == TransferSpec => []NoHoles
BY TransferImplementsReceiver, NoHolesTheorem, PTL

\* One run of the receiver writes a transferred file at most once.
THEOREM TransferWrittenOnce == TransferSpec => []WrittenOncePerRun
BY TransferImplementsReceiver, WrittenOnceTheorem, PTL

\* A receiver that calls a file short names a chunk of it, so no sender gives up
\* for want of something to send: with any restarts, edits and losses.
THEOREM AlwaysNamesOneTheorem == TransferSpec => []AlwaysNamesOne
<1>1. SenderInv => AlwaysNamesOne
  BY DEF SenderInv
<1> QED
  BY <1>1, TransferInvariant, PTL

\* Every variable has its type, in every run.
THEOREM TransferTypeCorrect == TransferSpec => []TransferTypeOK
<1>1. TransferInit => NetworkTypes
  BY NetworkInit
<1>2. SenderInv /\ NetworkTypes /\ [TransferNext]_vars => NetworkTypes'
  BY NetworkStep
<1>3. ReceiverInv /\ SenderInv /\ NetworkTypes => TransferTypeOK
  BY DEF ReceiverInv, SenderInv, SenderTypes, NetworkTypes, TransferTypeOK
<1> QED
  BY <1>1, <1>2, <1>3, TransferInvariant, PTL DEF TransferSpec

-----------------------------------------------------------------------------
(* Third part: Transfer with fewer faults.                                 *)

-----------------------------------------------------------------------------
(* How a step of the receiver changes what it keeps of one transfer.       *)

DiskKept(x) == disk'[x] = disk[x] /\ (x \in completed' <=> x \in completed)

Untouched(x) == transfers'[x] = transfers[x] /\ DiskKept(x)

Opens(x, m) == ~ Known(x) /\ Fits(m) /\ transfers'[x] = NewIncoming(m) /\ DiskKept(x)

Counts(x) == transfers[x] # Absent /\ transfers'[x] = Asked(transfers[x]) /\ DiskKept(x)

Stores(x, c) == transfers[x] # Absent /\ transfers'[x] = Store(transfers[x], c) /\ DiskKept(x)

Finishes(x) ==
  /\ Finished(x)
  /\ transfers'[x] = Absent
  /\ x \in completed'
  /\ WriteMayFail \/ disk'[x] = Append(disk[x], transfers[x])

LEMMA ManifestMoves ==
  ASSUME ReceiverInv, NEW y \in Xfers, NEW m \in Manifests, RecvManifest(y, m)
  PROVE  /\ Untouched(y) \/ Opens(y, m)
         /\ \A x \in Xfers \ {y} : Untouched(x)
BY DEF RecvManifest, Untouched, Opens, DiskKept, ReceiverInv, TypeOK

LEMMA StatusMoves ==
  ASSUME ReceiverInv, NEW y \in Xfers, RecvStatus(y)
  PROVE  /\ Untouched(y) \/ Counts(y)
         /\ \A x \in Xfers \ {y} : Untouched(x)
BY DEF RecvStatus, Untouched, Counts, DiskKept, ReceiverInv, TypeOK

LEMMA ChunkMoves ==
  ASSUME ReceiverInv, NEW y \in Xfers, NEW c \in Chunks, RecvChunk(y, c)
  PROVE  /\ Untouched(y) \/ Stores(y, c)
         /\ \A x \in Xfers \ {y} : Untouched(x)
BY DEF RecvChunk, Untouched, Stores, DiskKept, ReceiverInv, TypeOK

LEMMA FinishMoves ==
  ASSUME ReceiverInv, NEW y \in Xfers, FinishOne(y)
  PROVE  /\ Finishes(y)
         /\ \A x \in Xfers \ {y} : Untouched(x)
BY DEF FinishOne, Untouched, Finishes, DiskKept, ReceiverInv, TypeOK

\* Each of these keeps the numbers of a file, and only adds to its chunks.
LEMMA AskedKeeps ==
  ASSUME NEW inc \in Incoming
  PROVE  /\ Asked(inc).chunk_count = inc.chunk_count
         /\ Asked(inc).have = inc.have
         /\ Asked(inc).have_count = inc.have_count
         /\ Asked(inc).data = inc.data
         /\ Asked(inc).crc = inc.crc
BY DEF Asked, Incoming

LEMMA StoreKeeps ==
  ASSUME NEW inc \in Incoming, NEW c \in ChunkShape
  PROVE  /\ Store(inc, c).chunk_count = inc.chunk_count
         /\ Store(inc, c).crc = inc.crc
         /\ inc.have \subseteq Store(inc, c).have
         /\ \/ /\ Store(inc, c).have = inc.have /\ Store(inc, c).data = inc.data
               /\ Store(inc, c).have_count = inc.have_count
            \/ /\ c.index \notin inc.have /\ c.index < inc.chunk_count
               /\ Store(inc, c).have = inc.have \cup {c.index}
               /\ Store(inc, c).data = [inc.data EXCEPT ![c.index] = c.content]
BY DEF Store, Belongs, Incoming

-----------------------------------------------------------------------------
(* Nothing is forgotten.                                                   *)

\* Once known, a transfer stays known, and lacks no chunk it did not lack before.
LEMMA KnownStays ==
  ASSUME ReceiverInv, [Next]_rvars, restarts' = restarts, NEW x \in Xfers, Known(x)
  PROVE  /\ Known(x)'
         /\ transfers'[x] # Absent =>
              transfers[x] # Absent /\ Lacking(transfers'[x]) \subseteq Lacking(transfers[x])
<1> DEFINE Goal ==
      /\ Known(x)'
      /\ transfers'[x] # Absent =>
           transfers[x] # Absent /\ Lacking(transfers'[x]) \subseteq Lacking(transfers[x])
<1>0. transfers[x] # Absent => transfers[x] \in Incoming /\ Sound(transfers[x])
  BY DEF ReceiverInv, TypeOK, TransfersSound
<1>1. ASSUME Untouched(x) PROVE Goal
  BY <1>1 DEF Untouched, DiskKept, Known
<1>2. ASSUME Counts(x) PROVE Goal
  <2>1. transfers'[x] = Asked(transfers[x]) /\ transfers[x] \in Incoming /\ transfers[x] # Absent
        /\ Asked(transfers[x]) # Absent
    BY <1>0, <1>2, AskedIsSound, AbsentAssumption DEF Counts
  <2>2. Lacking(Asked(transfers[x])) = Lacking(transfers[x])
    BY <2>1, AskedKeeps DEF Lacking
  <2> QED
    BY <2>1, <2>2 DEF Known
<1>3. ASSUME NEW c \in Chunks, Stores(x, c) PROVE Goal
  <2>1. transfers'[x] = Store(transfers[x], c) /\ transfers[x] \in Incoming
        /\ transfers[x] # Absent /\ Store(transfers[x], c) # Absent /\ c \in ChunkShape
    BY <1>0, <1>3, StoreIsSound, AbsentAssumption, ReceiverAssumption DEF Stores
  <2>2. Lacking(Store(transfers[x], c)) \subseteq Lacking(transfers[x])
    BY <2>1, StoreKeeps DEF Lacking
  <2> QED
    BY <2>1, <2>2 DEF Known
<1>4. ASSUME Finishes(x) PROVE Goal
  BY <1>4 DEF Finishes, Known
<1>5. ASSUME NEW m \in Manifests, Opens(x, m) PROVE Goal
  BY <1>5 DEF Opens
<1>6. ASSUME NEW y \in Xfers, NEW m \in Manifests, RecvManifest(y, m) PROVE Goal
  BY <1>1, <1>5, <1>6, ManifestMoves
<1>7. ASSUME NEW y \in Xfers, RecvStatus(y) PROVE Goal
  BY <1>1, <1>2, <1>7, StatusMoves
<1>8. ASSUME NEW y \in Xfers, NEW c \in Chunks, RecvChunk(y, c) PROVE Goal
  BY <1>1, <1>3, <1>8, ChunkMoves
<1>9. ASSUME NEW y \in Xfers, FinishOne(y) PROVE Goal
  BY <1>1, <1>4, <1>9, FinishMoves
<1>10. CASE Restart
  <2>1. restarts' = restarts + 1 /\ restarts \in Nat
    BY <1>10 DEF Restart, ReceiverInv, TypeOK
  <2> QED
    BY <2>1
<1>11. CASE UNCHANGED rvars
  BY <1>1, <1>11 DEF rvars, Untouched, DiskKept
<1> QED
  BY <1>6, <1>7, <1>8, <1>9, <1>10, <1>11 DEF Next


\* S names all that x still lacks, unless S is as long as an answer can be.
Names(x, S) ==
  /\ Known(x)
  /\ transfers[x] # Absent /\ Cardinality(S) < MaxListed => Lacking(transfers[x]) \subseteq S

\* A list holds what it should from the moment it is put into an answer to the
\* end of the pass that works through it.
InformedOf(x) ==
  /\ (/\ call[x].st = "answered"
      /\ snd[x].pc = "ask"
      /\ call[x].reply.state = "in_progress") => Names(x, call[x].reply.missing)
  /\ snd[x].pc \in {"blast", "settle"} => Names(x, snd[x].missing)

Steadfast == restarts = 0 /\ \A x \in Xfers : InformedOf(x)

LEMMA NamesStays ==
  ASSUME ReceiverInv, [Next]_rvars, restarts' = restarts, NEW x \in Xfers, NEW S, Names(x, S)
  PROVE  /\ Known(x)'
         /\ transfers'[x] # Absent /\ Cardinality(S) < MaxListed
              => Lacking(transfers'[x]) \subseteq S
<1>1. Known(x) /\ Known(x)'
  BY KnownStays DEF Names
<1>2. transfers'[x] # Absent =>
        transfers[x] # Absent /\ Lacking(transfers'[x]) \subseteq Lacking(transfers[x])
  BY <1>1, KnownStays
<1> QED
  BY <1>1, <1>2 DEF Names

\* A step that does not change a sender, and a step after which nothing is to be
\* said of it.
LEMMA InformedKept ==
  ASSUME ReceiverInv, [Next]_rvars, restarts' = restarts, NEW x \in Xfers, InformedOf(x),
         snd'[x] = snd[x], call'[x] = call[x]
  PROVE  InformedOf(x)'
<1>1. ASSUME snd[x].pc \in {"blast", "settle"} PROVE Names(x, snd[x].missing)'
  <2>1. Names(x, snd[x].missing)
    BY <1>1 DEF InformedOf
  <2> QED
    BY <2>1, NamesStays DEF Names
<1>2. ASSUME call[x].st = "answered", snd[x].pc = "ask", call[x].reply.state = "in_progress"
      PROVE  Names(x, call[x].reply.missing)'
  <2>1. Names(x, call[x].reply.missing)
    BY <1>2 DEF InformedOf
  <2> QED
    BY <2>1, NamesStays DEF Names
<1> QED
  BY <1>1, <1>2 DEF InformedOf

LEMMA InformedSilent ==
  ASSUME NEW x \in Xfers, snd'[x].pc \notin {"blast", "settle"},
         call'[x].st # "answered" \/ snd'[x].pc # "ask"
  PROVE  InformedOf(x)'
BY DEF InformedOf

\* What a sender's own step does to it.
LEMMA SenderStepInforms ==
  ASSUME SenderInv, NEW x \in Xfers, InformedOf(x), SenderStep(x)
  PROVE  InformedOf(x)'
<1>0. /\ snd \in [Xfers -> Senders] /\ snd[x] \in Senders /\ x \in DOMAIN call
      /\ NoCall.st # "answered" /\ SentCall.st # "answered"
  BY DEF SenderInv, SenderTypes, NoCall, SentCall
<1>1. CASE Start(x)
  <2>1. snd'[x].pc = "open"
    BY <1>0, <1>1 DEF Start, Enter, Senders
  <2> QED
    BY <2>1, InformedSilent
<1>2. CASE Accepted(x)
  <2>1. /\ call'[x].st # "answered"
        /\ snd'[x].pc \in {"failed", "ask"}
    <3> DEFINE n == IF snd[x].pc = "reopen" THEN snd[x].round + 1 ELSE 0
               s == [snd[x] EXCEPT !.round = n]
    <3>1. \/ snd' = [snd EXCEPT ![x] = Fail(s, "forgotten")]
             /\ call' = [call EXCEPT ![x] = NoCall]
          \/ snd' = [snd EXCEPT ![x] = Enter(s, "ask")]
             /\ call' = [call EXCEPT ![x] = SentCall]
      BY <1>2, Zenon DEF Accepted
    <3>2. Fail(s, "forgotten").pc = "failed" /\ Enter(s, "ask").pc = "ask"
      <4> HIDE DEF n
      <4> QED
        BY <1>0 DEF Fail, Enter, Senders
    <3> HIDE DEF s
    <3> QED
      BY <1>0, <3>1, <3>2
  <2> QED
    BY <2>1, InformedSilent
<1>3. CASE Refused(x)
  <2>1. snd'[x].pc = "failed"
    BY <1>0, <1>3 DEF Refused, Fail, Senders
  <2> QED
    BY <2>1, InformedSilent
<1>4. ASSUME NEW state, Told(x, state)
      PROVE  /\ Noted(x) \in Senders
             /\ snd[x].pc = "ask" /\ call[x].st = "answered" /\ call[x].reply.state = state
             /\ UNCHANGED rvars
  BY <1>0, <1>4, NotedType DEF Told, Answered, SenderInv, AnswerTypes
<1>5. CASE ToldComplete(x)
  <2>1. snd'[x].pc = "done"
    BY <1>0, <1>4, <1>5 DEF ToldComplete, Senders
  <2> QED
    BY <2>1, InformedSilent
<1>6. CASE ToldUnknown(x)
  <2>1. snd'[x].pc = "reopen"
    BY <1>0, <1>4, <1>6 DEF ToldUnknown, Enter, Senders
  <2> QED
    BY <2>1, InformedSilent
<1>7. CASE ToldMissing(x)
  <2> DEFINE r == call[x].reply
             s == [Noted(x) EXCEPT !.pc = "blast", !.missing_total = r.missing_total,
                                   !.missing = r.missing, !.to_send = r.missing]
  <2>1. Noted(x) \in Senders /\ Names(x, r.missing) /\ UNCHANGED rvars
    BY <1>4, <1>7 DEF ToldMissing, InformedOf
  <2>2. snd'[x] \in {Fail(Noted(x), "unnamed"), s}
    BY <1>0, <1>7, Zenon DEF ToldMissing
  <2>3. call'[x].st # "answered"
    BY <1>0, <1>7 DEF ToldMissing
  <2>4. Fail(Noted(x), "unnamed").pc = "failed" /\ s.pc = "blast" /\ s.missing = r.missing
    BY <2>1 DEF Fail, Senders
  <2> HIDE DEF s
  <2> QED
    BY <2>1, <2>2, <2>3, <2>4 DEF InformedOf, Names, Known, rvars
<1>8. CASE UnderflowPanic(x)
  <2>1. snd'[x].pc = "failed"
    BY <1>0, <1>4, <1>8 DEF UnderflowPanic, Fail, Senders
  <2> QED
    BY <2>1, InformedSilent
<1>9. ASSUME NEW i \in Slots, SendChunk(x, i)
      PROVE  InformedOf(x)'
  <2> DEFINE rest == snd[x].to_send \ {i}
             pc == IF rest = {} THEN "settle" ELSE "blast"
             s == [snd[x] EXCEPT !.to_send = rest, !.pc = pc]
  <2>1. snd' = [snd EXCEPT ![x] = s] /\ snd[x].pc = "blast" /\ UNCHANGED rvars
    BY <1>9 DEF SendChunk
  <2>2. pc \in {"settle", "blast"}
    OBVIOUS
  <2> HIDE DEF rest, pc
  <2>3. s.pc = pc /\ s.missing = snd[x].missing
    BY <1>0 DEF Senders
  <2>4. snd'[x] = s
    BY <1>0, <2>1
  <2> HIDE DEF s
  <2> QED
    BY <2>1, <2>2, <2>3, <2>4 DEF InformedOf, Names, Known, rvars
<1>10. ASSUME NEW i \in Slots, SlicePanic(x, i)
       PROVE  InformedOf(x)'
  <2>1. snd'[x].pc = "failed"
    BY <1>0, <1>10 DEF SlicePanic, Fail, Senders
  <2> QED
    BY <2>1, InformedSilent
<1>11. CASE Settled(x)
  <2> DEFINE s == Repaired(snd[x])
             t == [s EXCEPT !.missing = {}, !.missing_total = 0]
  <2>1. \/ snd' = [snd EXCEPT ![x] = Fail(s, "short")]
        \/ /\ snd' = [snd EXCEPT ![x] = Enter(t, "ask")]
           /\ call' = [call EXCEPT ![x] = SentCall]
    BY <1>11, Zenon DEF Settled
  <2>2. s \in Senders
    BY <1>0, RepairedType
  <2> HIDE DEF s
  <2>3. Fail(s, "short").pc = "failed" /\ Enter(t, "ask").pc = "ask"
    BY <2>2 DEF Fail, Enter, Senders
  <2> HIDE DEF t
  <2>4. snd'[x].pc = "failed" \/ (snd'[x].pc = "ask" /\ call'[x].st # "answered")
    BY <1>0, <2>1, <2>3
  <2> QED
    BY <2>4, InformedSilent
<1> QED
  BY <1>1, <1>2, <1>3, <1>5, <1>6, <1>7, <1>8, <1>9, <1>10, <1>11 DEF SenderStep

\* What other steps do to a sender.
LEMMA CallFailsInforms ==
  ASSUME SenderInv, NEW x \in Xfers, CallFails(x) \/ RouteDies(x)
  PROVE  InformedOf(x)'
<1>0. /\ snd \in [Xfers -> Senders] /\ snd[x] \in Senders /\ x \in DOMAIN call
      /\ NoCall.st # "answered" /\ SentCall.st # "answered"
  BY DEF SenderInv, SenderTypes, NoCall, SentCall
<1> DEFINE n == snd[x].attempt + 1
           s == [snd[x] EXCEPT !.attempt = n]
<1>1. \/ /\ snd' = [snd EXCEPT ![x] = s] /\ snd[x].pc \in Calling
         /\ call' = [call EXCEPT ![x] = SentCall]
      \/ /\ snd' = [snd EXCEPT ![x] = NextRoute(snd[x])]
         /\ call' = [call EXCEPT ![x] = NoCall]
  BY Zenon DEF CallFails, RouteDies
<1> HIDE DEF n
<1>2. s.pc = snd[x].pc
  BY <1>0 DEF Senders
<1> HIDE DEF s
<1>3. NextRoute(snd[x]).pc \in {"start", "failed"}
  BY <1>0, NextRouteType
<1>4. snd'[x].pc \notin {"blast", "settle"} /\ call'[x].st # "answered"
  BY <1>0, <1>1, <1>2, <1>3 DEF Calling
<1> QED
  BY <1>4, InformedSilent

LEMMA ReceiveCallInforms ==
  ASSUME ReceiverInv, SenderInv, NEW x \in Xfers, ReceiveCall(x)
  PROVE  InformedOf(x)'
<1>1. snd[x].pc \in Calling /\ snd'[x] = snd[x]
  BY DEF ReceiveCall
<1>2. CASE snd[x].pc # "ask"
  BY <1>1, <1>2, InformedSilent DEF Calling
<1>3. CASE snd[x].pc = "ask"
  <2>1. Request(x).kind = "status" /\ Request(x).xfer = x
    BY <1>3 DEF Request
  <2>2. RecvStatus(x) /\ call' = [call EXCEPT ![x] = Answer(StatusReply(x))]
    BY <2>1 DEF ReceiveCall, Handle, ReplyTo
  <2>3. call'[x].reply = StatusReply(x)
    BY <2>2 DEF SenderInv, Answer
  <2>4. ASSUME StatusReply(x).state = "in_progress"
        PROVE  /\ Known(x)'
               /\ Cardinality(StatusReply(x).missing) < MaxListed
                    => Lacking(transfers'[x]) \subseteq StatusReply(x).missing
    <3> DEFINE inc == transfers[x]
    <3>1. /\ inc # Absent /\ inc \in Incoming /\ Sound(inc)
          /\ StatusReply(x).missing = Missing(inc).listed
      BY <2>4 DEF StatusReply, ReceiverInv, TypeOK, TransfersSound
    <3>2. transfers'[x] = Asked(inc)
      BY <2>2, <3>1 DEF RecvStatus, ReceiverInv, TypeOK
    <3>3. Asked(inc) # Absent /\ Lacking(Asked(inc)) = Lacking(inc)
      BY <3>1, AskedIsSound, AskedKeeps, AbsentAssumption DEF Lacking
    <3>4. Cardinality(Missing(inc).listed) < MaxListed => Lacking(inc) \subseteq Missing(inc).listed
      BY <3>1, MissingNames
    <3> QED
      BY <3>1, <3>2, <3>3, <3>4 DEF Known
  <2>5. snd'[x].pc = "ask"
    BY <1>1, <1>3
  <2> QED
    BY <2>3, <2>4, <2>5 DEF InformedOf, Names
<1> QED
  BY <1>2, <1>3

LEMMA NoRestart ==
  ASSUME MaxRestarts = 0, restarts = 0, [TransferNext]_vars
  PROVE  restarts' = restarts
<1>1. ~ ReceiverRestarts
  BY DEF ReceiverRestarts
<1>2. ASSUME [Next]_rvars, ~ Restart PROVE restarts' = restarts
  BY <1>2 DEF Next, RecvManifest, RecvStatus, RecvChunk, FinishOne, rvars
<1>3. ASSUME NEW x \in Xfers, SenderStep(x) PROVE restarts' = restarts
  BY <1>3 DEF SenderStep, Start, Accepted, Refused, ToldComplete, ToldUnknown, ToldMissing,
              UnderflowPanic, Told, SendChunk, SlicePanic, Settled, rvars
<1>4. ASSUME NEW r, Handle(r) PROVE restarts' = restarts
  BY <1>4 DEF Handle, RecvStatus, RecvManifest
<1> QED
  BY <1>1, <1>3, <1>4 DEF TransferNext, CallFails, RouteDies, ReceiveCall, WriteFile,
     ReceiveChunk, LoseChunk, EditFile, ReceiveLate, Over, RecvChunk, FinishOne, rvars, vars

\* Every other step leaves every sender and its call as they are; the sender of a
\* step leaves the others.
LEMMA InformedStep ==
  ASSUME MaxRestarts = 0, ReceiverInv, SenderInv, Steadfast, [TransferNext]_vars
  PROVE  Steadfast'
<1>0. snd \in [Xfers -> Senders] /\ DOMAIN call = Xfers
  BY DEF SenderInv, SenderTypes
<1>1. restarts' = restarts
  BY NoRestart DEF Steadfast
<1>2. [Next]_rvars
  BY ReceiverStep
<1>3. ASSUME NEW x \in Xfers, snd'[x] = snd[x], call'[x] = call[x]
      PROVE  InformedOf(x)'
  BY <1>1, <1>2, <1>3, InformedKept DEF Steadfast
<1>4. ASSUME NEW x \in Xfers,
             SenderStep(x) \/ CallFails(x) \/ RouteDies(x) \/ ReceiveCall(x),
             NEW y \in Xfers \ {x}
      PROVE  snd'[y] = snd[y] /\ call'[y] = call[y]
  BY <1>0, <1>4 DEF SenderStep, Start, Accepted, Refused, ToldComplete, ToldUnknown, ToldMissing,
     UnderflowPanic, Told, SendChunk, SlicePanic, Settled, CallFails, RouteDies, ReceiveCall
<1>5. ASSUME NEW x \in Xfers,
             SenderStep(x) \/ CallFails(x) \/ RouteDies(x) \/ ReceiveCall(x)
      PROVE  \A y \in Xfers : InformedOf(y)'
  <2>1. InformedOf(x)'
    BY <1>5, SenderStepInforms, CallFailsInforms, ReceiveCallInforms DEF Steadfast
  <2> QED
    BY <1>3, <1>4, <1>5, <2>1
<1>6. ASSUME UNCHANGED <<snd, call>> PROVE \A y \in Xfers : InformedOf(y)'
  BY <1>3, <1>6
<1>7. \/ \E x \in Xfers : SenderStep(x) \/ CallFails(x) \/ RouteDies(x) \/ ReceiveCall(x)
      \/ UNCHANGED <<snd, call>>
  BY DEF TransferNext, WriteFile, ReceiveChunk, LoseChunk, EditFile, ReceiveLate,
         ReceiverRestarts, Over, vars, svars
<1>8. \A y \in Xfers : InformedOf(y)'
  BY <1>5, <1>6, <1>7
<1>9. restarts' = 0
  BY <1>1 DEF Steadfast
<1> QED
  BY <1>8, <1>9 DEF Steadfast

\* A sender acting on a status answer leaves no chunk behind, for as long as the
\* receiver is not restarted: also when files change under it, the disk refuses
\* some, and its calls are repeated, late or answered after it moved on.
THEOREM NothingForgottenTheorem ==
  ASSUME MaxRestarts = 0
  PROVE  TransferSpec => []NothingForgotten
<1>1. TransferInit => Steadfast
  <2> SUFFICES ASSUME TransferInit PROVE Steadfast
    OBVIOUS
  <2>1. ASSUME NEW x \in Xfers PROVE snd[x].pc = "start" /\ call[x].st = "none"
    BY DEF TransferInit, NoCall, NewSender
  <2> QED
    BY <2>1 DEF TransferInit, Init, Steadfast, InformedOf
<1>2. ReceiverInv /\ SenderInv /\ Steadfast /\ [TransferNext]_vars => Steadfast'
  BY InformedStep
<1>3. Steadfast => NothingForgotten
  BY DEF Steadfast, InformedOf, Names, NothingForgotten
<1> QED
  BY <1>1, <1>2, <1>3, TransferInvariant, PTL DEF TransferSpec

-----------------------------------------------------------------------------
(* What is delivered.                                                      *)

\* No fault but those of the network, and of the receiver's disk.
Undisturbed == MaxRestarts = 0 /\ MaxEdits = 0

\* No fault but those of the network.
Steady == Undisturbed /\ WriteMayFail = FALSE

\* What one step of a sender can do to it: it keeps the content it sends, or reads
\* it again, and it is done only if it was told so.
SenderMoves(x) ==
  /\ UNCHANGED <<rvars, file>>
  /\ \A y \in Xfers \ {x} : snd'[y] = snd[y] /\ call'[y] = call[y]
  /\ snd[x].pc \in Working
  /\ snd'[x].content \in {snd[x].content, file[x]}
  /\ snd'[x].pc = "done" =>
       snd[x].pc = "ask" /\ call[x].st = "answered" /\ call[x].reply.state = "complete"
  /\ snd'[x].pc = "ask" => call'[x].st # "answered"

\* The shape all of those steps have.
LEMMA MoveTo ==
  ASSUME SenderInv, NEW x \in Xfers, snd[x].pc \in Working,
         NEW s, NEW c, snd' = [snd EXCEPT ![x] = s],
         s.content \in {snd[x].content, file[x]},
         \/ call' = call /\ s.pc # "ask"
         \/ call' = [call EXCEPT ![x] = c] /\ c \in {NoCall, SentCall},
         s.pc = "done" =>
           snd[x].pc = "ask" /\ call[x].st = "answered" /\ call[x].reply.state = "complete",
         UNCHANGED <<rvars, file>>
  PROVE  SenderMoves(x)
<1>1. snd \in [Xfers -> Senders] /\ DOMAIN call = Xfers
  BY DEF SenderInv, SenderTypes
<1>2. snd'[x] = s /\ \A y \in Xfers \ {x} : snd'[y] = snd[y]
  BY <1>1
<1>3. s.pc = "ask" => call'[x].st # "answered"
  BY <1>1 DEF NoCall, SentCall
<1>4. \A y \in Xfers \ {x} : call'[y] = call[y]
  BY <1>1
<1> QED
  BY <1>2, <1>3, <1>4 DEF SenderMoves

LEMMA SenderStepMoves ==
  ASSUME SenderInv, NEW x \in Xfers, SenderStep(x)
  PROVE  SenderMoves(x)
<1>0. /\ snd[x] \in Senders /\ file[x] \in Contents
      /\ {"start", "blast", "settle", "ask", "open", "reopen"} \subseteq Working
      /\ Calling \subseteq Working
  BY DEF SenderInv, SenderTypes, Working, Calling
<1>1. CASE Start(x)
  <2> DEFINE s == [snd[x] EXCEPT !.content = file[x]]
  <2>1. s \in Senders /\ s.content = file[x]
    BY <1>0 DEF Senders
  <2>2. snd' = [snd EXCEPT ![x] = Enter(s, "open")]
    BY <1>1 DEF Start
  <2> HIDE DEF s
  <2>3. Enter(s, "open").pc = "open" /\ Enter(s, "open").content = file[x]
    BY <1>0, <2>1, EnterType
  <2> QED
    BY <1>0, <1>1, <2>2, <2>3, MoveTo DEF Start
<1>2. CASE Accepted(x)
  <2> DEFINE n == IF snd[x].pc = "reopen" THEN snd[x].round + 1 ELSE 0
             s == [snd[x] EXCEPT !.round = n]
  <2>1. n \in Nat
    <3>1. snd[x].round \in Nat
      BY <1>0 DEF Senders
    <3> QED
      BY <3>1
  <2>2. s \in Senders /\ s.content = snd[x].content
    <3> HIDE DEF n
    <3> QED
      BY <1>0, <2>1 DEF Senders
  <2>3. \/ /\ snd' = [snd EXCEPT ![x] = Fail(s, "forgotten")]
           /\ call' = [call EXCEPT ![x] = NoCall]
        \/ /\ snd' = [snd EXCEPT ![x] = Enter(s, "ask")]
           /\ call' = [call EXCEPT ![x] = SentCall]
    BY <1>2, Zenon DEF Accepted
  <2>4. snd[x].pc \in Working /\ UNCHANGED <<rvars, file>>
    BY <1>0, <1>2 DEF Accepted, Answered
  <2> HIDE DEF s
  <2>5. Fail(s, "forgotten").pc = "failed" /\ Fail(s, "forgotten").content = snd[x].content
    BY <2>2, FailType
  <2>6. Enter(s, "ask").pc = "ask" /\ Enter(s, "ask").content = snd[x].content
    BY <1>0, <2>2, EnterType
  <2> QED
    BY <2>3, <2>4, <2>5, <2>6, MoveTo
<1>3. CASE Refused(x)
  <2>1. Fail(snd[x], "refused").pc = "failed" /\ Fail(snd[x], "refused").content = snd[x].content
    BY <1>0, FailType
  <2> QED
    BY <1>0, <1>3, <2>1, MoveTo DEF Refused, Answered
<1>4. ASSUME NEW state, Told(x, state)
      PROVE  /\ Noted(x) \in Senders /\ Noted(x).content = snd[x].content
             /\ snd[x].pc = "ask" /\ snd[x].pc \in Working
             /\ call[x].st = "answered" /\ call[x].reply.state = state
             /\ UNCHANGED <<rvars, file>>
  BY <1>0, <1>4, NotedType DEF Told, Answered, SenderInv, AnswerTypes
<1>5. CASE ToldComplete(x)
  <2>1. /\ [Noted(x) EXCEPT !.pc = "done"].content = snd[x].content
        /\ [Noted(x) EXCEPT !.pc = "done"].pc = "done"
    BY <1>4, <1>5 DEF ToldComplete, Senders
  <2> QED
    BY <1>4, <1>5, <2>1, MoveTo DEF ToldComplete
<1>6. CASE ToldUnknown(x)
  <2>1. /\ Enter(Noted(x), "reopen").pc = "reopen"
        /\ Enter(Noted(x), "reopen").content = snd[x].content
    BY <1>0, <1>4, <1>6, EnterType DEF ToldUnknown
  <2> QED
    BY <1>4, <1>6, <2>1, MoveTo DEF ToldUnknown
<1>7. CASE ToldMissing(x)
  <2> DEFINE r == call[x].reply
             s == [Noted(x) EXCEPT !.pc = "blast", !.missing_total = r.missing_total,
                                   !.missing = r.missing, !.to_send = r.missing]
             t == IF r.missing = {} THEN Fail(Noted(x), "unnamed") ELSE s
  <2>1. s.pc = "blast" /\ s.content = snd[x].content
    BY <1>4, <1>7 DEF ToldMissing, Senders
  <2>2. Noted(x) \in Senders /\ Noted(x).content = snd[x].content
    BY <1>4, <1>7 DEF ToldMissing
  <2>3. /\ Fail(Noted(x), "unnamed").pc = "failed"
        /\ Fail(Noted(x), "unnamed").content = snd[x].content
    BY <2>2, FailType
  <2>4. snd' = [snd EXCEPT ![x] = t] /\ call' = [call EXCEPT ![x] = NoCall]
    BY <1>7, Zenon DEF ToldMissing
  <2> HIDE DEF s
  <2>5. t.pc # "done" /\ t.content = snd[x].content
    BY <2>1, <2>3
  <2> HIDE DEF t
  <2> QED
    BY <1>4, <1>7, <2>4, <2>5, MoveTo DEF ToldMissing
<1>8. CASE UnderflowPanic(x)
  <2>1. Noted(x) \in Senders /\ Noted(x).content = snd[x].content
    BY <1>4, <1>8 DEF UnderflowPanic
  <2>2. Fail(Noted(x), "panic").pc = "failed" /\ Fail(Noted(x), "panic").content = snd[x].content
    BY <2>1, FailType
  <2> QED
    BY <1>4, <1>8, <2>2, MoveTo DEF UnderflowPanic
<1>9. ASSUME NEW i \in Slots, SendChunk(x, i)
      PROVE  SenderMoves(x)
  <2> DEFINE rest == snd[x].to_send \ {i}
             pc == IF rest = {} THEN "settle" ELSE "blast"
             s == [snd[x] EXCEPT !.to_send = rest, !.pc = pc]
  <2>1. pc \in {"settle", "blast"}
    OBVIOUS
  <2>2. /\ snd' = [snd EXCEPT ![x] = s] /\ snd[x].pc = "blast"
        /\ UNCHANGED <<call, rvars, file>>
    BY <1>9 DEF SendChunk
  <2> HIDE DEF rest, pc
  <2>3. s.content = snd[x].content /\ s.pc = pc
    BY <1>0 DEF Senders
  <2> HIDE DEF s
  <2> QED
    BY <1>0, <2>1, <2>2, <2>3, MoveTo
<1>10. ASSUME NEW i \in Slots, SlicePanic(x, i)
       PROVE  SenderMoves(x)
  <2>1. Fail(snd[x], "panic").pc = "failed" /\ Fail(snd[x], "panic").content = snd[x].content
    BY <1>0, FailType
  <2> QED
    BY <1>0, <1>10, <2>1, MoveTo DEF SlicePanic
<1>11. CASE Settled(x)
  <2> DEFINE s == Repaired(snd[x])
             t == [s EXCEPT !.missing = {}, !.missing_total = 0]
  <2>1. s \in Senders /\ s.content = snd[x].content
    BY <1>0, RepairedType
  <2>2. \/ snd' = [snd EXCEPT ![x] = Fail(s, "short")] /\ UNCHANGED call
        \/ /\ snd' = [snd EXCEPT ![x] = Enter(t, "ask")]
           /\ call' = [call EXCEPT ![x] = SentCall]
    BY <1>11, Zenon DEF Settled
  <2>3. snd[x].pc \in Working /\ UNCHANGED <<rvars, file>>
    BY <1>0, <1>11 DEF Settled
  <2> HIDE DEF s
  <2>4. t \in Senders /\ t.content = s.content
    BY <2>1 DEF Senders
  <2> HIDE DEF t
  <2>5. Enter(t, "ask").pc = "ask" /\ Enter(t, "ask").content = snd[x].content
    BY <1>0, <2>1, <2>4, EnterType
  <2>6. Fail(s, "short").pc = "failed" /\ Fail(s, "short").content = snd[x].content
    BY <2>1, FailType
  <2> QED
    BY <2>2, <2>3, <2>5, <2>6, MoveTo
<1> QED
  BY <1>1, <1>2, <1>3, <1>5, <1>6, <1>7, <1>8, <1>9, <1>10, <1>11 DEF SenderStep

LEMMA CallFailsMoves ==
  ASSUME SenderInv, NEW x \in Xfers, CallFails(x) \/ RouteDies(x)
  PROVE  SenderMoves(x)
<1>0. snd[x] \in Senders /\ snd[x].pc \in Working /\ UNCHANGED <<rvars, file>>
  BY DEF SenderInv, SenderTypes, CallFails, RouteDies, Working
<1> DEFINE n == snd[x].attempt + 1
           s == [snd[x] EXCEPT !.attempt = n]
<1>1. \/ /\ snd' = [snd EXCEPT ![x] = s] /\ snd[x].pc \in Calling
         /\ call' = [call EXCEPT ![x] = SentCall]
      \/ /\ snd' = [snd EXCEPT ![x] = NextRoute(snd[x])]
         /\ call' = [call EXCEPT ![x] = NoCall]
  BY Zenon DEF CallFails, RouteDies
<1> HIDE DEF n
<1>2. s.content = snd[x].content /\ s.pc = snd[x].pc
  BY <1>0 DEF Senders
<1> HIDE DEF s
<1>3. /\ NextRoute(snd[x]).pc \in {"start", "failed"}
      /\ NextRoute(snd[x]).content = snd[x].content
  BY <1>0, NextRouteType
<1>4. "done" \notin Calling
  BY DEF Calling
<1> QED
  BY <1>0, <1>1, <1>2, <1>3, <1>4, MoveTo

\* What the receiver does to a transfer whose requests and chunks all come from
\* one content.
Moves(x) ==
  \/ Untouched(x)
  \/ Opens(x, ManifestOf(file[x]))
  \/ Counts(x)
  \/ \E c \in Chunks : c.content = file[x] /\ Stores(x, c)
  \/ Finishes(x)

\* inc has nothing but pieces of v.
Copied(inc, v) ==
  /\ inc.crc = v
  /\ inc.chunk_count = Count(v)
  /\ \A i \in inc.have : inc.data[i] = v

\* What the receiver has of x comes from the file under x, and an id it calls
\* completed is on its disk.
EntryFromFile(x) ==
  /\ transfers[x] # Absent => Copied(transfers[x], file[x])
  /\ \A k \in DOMAIN disk[x] : Copied(disk[x][k], file[x])
  /\ x \in completed => disk[x] # << >>

\* So does what its sender holds and what is in the network.
MessagesFromFile ==
  /\ \A x \in Xfers : snd[x].content = file[x]
  /\ \A r \in late : r.content = file[r.xfer]
  /\ \A x \in Xfers, c \in Chunks : flight[x][c] > 0 => c.content = file[x]

LEMMA HandleMoves ==
  ASSUME ReceiverInv, NEW r \in Requests, r.content = file[r.xfer], Handle(r)
  PROVE  /\ Moves(r.xfer)
         /\ \A y \in Xfers \ {r.xfer} : Untouched(y)
<1>1. r.xfer \in Xfers /\ r.content \in Contents
  BY DEF Requests
<1>2. CASE r.kind = "status"
  BY <1>1, <1>2, StatusMoves DEF Handle, Moves
<1>3. CASE r.kind # "status"
  BY <1>1, <1>3, ManifestMoves, ManifestsOfContents DEF Handle, Moves
<1> QED
  BY <1>2, <1>3

LEMMA EntryStays ==
  ASSUME ReceiverInv, Steady, file \in [Xfers -> Contents], NEW x \in Xfers, EntryFromFile(x),
         Moves(x), file'[x] = file[x]
  PROVE  EntryFromFile(x)'
<1>0. transfers[x] # Absent =>
        /\ transfers[x] \in Incoming /\ Sound(transfers[x]) /\ x \notin completed
        /\ Copied(transfers[x], file[x])
  BY DEF ReceiverInv, TypeOK, TransfersSound, OneCopyPerRun, EntryFromFile
<1>1. CASE Untouched(x)
  BY <1>1 DEF Untouched, DiskKept, EntryFromFile
<1>2. CASE Opens(x, ManifestOf(file[x]))
  <2>1. Copied(NewIncoming(ManifestOf(file[x])), file[x])
    BY DEF NewIncoming, ManifestOf, Copied
  <2> QED
    BY <1>2, <2>1 DEF Opens, DiskKept, EntryFromFile
<1>3. CASE Counts(x)
  <2>1. transfers[x] # Absent /\ transfers'[x] = Asked(transfers[x])
    BY <1>3 DEF Counts
  <2>2. Copied(Asked(transfers[x]), file[x])
    BY <1>0, <2>1, AskedKeeps DEF Copied
  <2> QED
    BY <1>3, <2>1, <2>2 DEF Counts, DiskKept, EntryFromFile
<1>4. ASSUME NEW c \in Chunks, c.content = file[x], Stores(x, c)
      PROVE  EntryFromFile(x)'
  <2> DEFINE inc == transfers[x]
  <2>1. inc # Absent /\ transfers'[x] = Store(inc, c) /\ c \in ChunkShape
    BY <1>4, ReceiverAssumption DEF Stores
  <2>2. inc \in Incoming /\ Sound(inc) /\ Copied(inc, file[x])
    BY <1>0, <2>1
  <2>3. Store(inc, c).crc = file[x] /\ Store(inc, c).chunk_count = Count(file[x])
    BY <2>1, <2>2, StoreKeeps DEF Copied
  <2>4. ASSUME NEW i \in Store(inc, c).have
        PROVE  Store(inc, c).data[i] = file[x]
    <3>1. CASE Store(inc, c).have = inc.have /\ Store(inc, c).data = inc.data
      BY <2>2, <2>4, <3>1 DEF Copied
    <3>2. CASE /\ c.index < inc.chunk_count
               /\ Store(inc, c).have = inc.have \cup {c.index}
               /\ Store(inc, c).data = [inc.data EXCEPT ![c.index] = c.content]
      <4>1. c.index \in 0 .. inc.chunk_count - 1
        BY <2>1, <2>2, <3>2, SlotsSuffice DEF ChunkShape
      <4>2. c.index \in Slots /\ inc.data \in [Slots -> Contents \cup {Zero}]
        BY <2>2, <4>1, SlotsSuffice DEF Incoming
      <4> QED
        BY <1>4, <2>2, <2>4, <3>2, <4>2 DEF Copied
    <3> QED
      BY <2>1, <2>2, <3>1, <3>2, StoreKeeps
  <2>5. Copied(Store(inc, c), file[x])
    BY <2>3, <2>4 DEF Copied
  <2> QED
    BY <1>4, <2>1, <2>5 DEF Stores, DiskKept, EntryFromFile
<1>5. CASE Finishes(x)
  <2>1. /\ transfers'[x] = Absent /\ disk'[x] = Append(disk[x], transfers[x])
        /\ transfers[x] # Absent
    BY <1>5 DEF Finishes, Finished, Steady
  <2>2. disk[x] \in Seq(Incoming) /\ transfers[x] \in Incoming /\ Copied(transfers[x], file[x])
    BY <1>0, <2>1 DEF ReceiverInv, TypeOK
  <2>3. \A k \in DOMAIN disk[x] : Copied(disk[x][k], file[x])
    BY DEF EntryFromFile
  <2>4. ASSUME NEW k \in DOMAIN Append(disk[x], transfers[x])
        PROVE  Copied(Append(disk[x], transfers[x])[k], file[x])
    <3>1. CASE k = Len(disk[x]) + 1
      <4>1. Append(disk[x], transfers[x])[k] = transfers[x]
        BY <2>2, <3>1
      <4> QED
        BY <2>2, <4>1
    <3>2. CASE k # Len(disk[x]) + 1
      <4>1. k \in DOMAIN disk[x] /\ Append(disk[x], transfers[x])[k] = disk[x][k]
        BY <2>2, <2>4, <3>2
      <4> QED
        BY <2>3, <4>1
    <3> QED
      BY <3>1, <3>2
  <2>5. Append(disk[x], transfers[x]) # << >>
    BY <2>2
  <2> QED
    BY <2>1, <2>4, <2>5 DEF EntryFromFile
<1> QED
  BY <1>1, <1>2, <1>3, <1>4, <1>5 DEF Moves

\* The receiver has the whole of x.
Held(x) == x \in completed \/ Finished(x)

LEMMA HeldStays ==
  ASSUME ReceiverInv, NEW x \in Xfers, Held(x), Moves(x)
  PROVE  Held(x)'
<1>0. transfers[x] # Absent =>
        /\ transfers[x] \in Incoming /\ Sound(transfers[x]) /\ x \notin completed
        /\ Complete(transfers[x])
  BY DEF ReceiverInv, TypeOK, TransfersSound, OneCopyPerRun, Held, Finished
<1>1. CASE Untouched(x)
  BY <1>1 DEF Untouched, DiskKept, Held, Finished
<1>2. CASE Opens(x, ManifestOf(file[x]))
  BY <1>2 DEF Opens, Known, Held, Finished
<1>3. CASE Counts(x)
  <2>1. transfers[x] # Absent /\ transfers'[x] = Asked(transfers[x])
    BY <1>3 DEF Counts
  <2>2. Asked(transfers[x]) # Absent /\ Complete(Asked(transfers[x]))
    BY <1>0, <2>1, AskedKeeps, AskedIsSound, AbsentAssumption DEF Complete
  <2> QED
    BY <2>1, <2>2 DEF Held, Finished
<1>4. ASSUME NEW c \in Chunks, Stores(x, c)
      PROVE  Held(x)'
  <2> DEFINE inc == transfers[x]
  <2>1. inc # Absent /\ transfers'[x] = Store(inc, c) /\ c \in ChunkShape
    BY <1>4, ReceiverAssumption DEF Stores
  <2>2. inc \in Incoming /\ Sound(inc) /\ Complete(inc)
    BY <1>0, <2>1
  <2>3. c.index < inc.chunk_count => c.index \in inc.have
    <3>1. c.index \in Nat /\ inc.chunk_count \in Nat
      BY <2>1, <2>2, SlotsSuffice DEF ChunkShape
    <3> QED
      BY <2>2, <3>1, CountedIsHeld
  <2>4. Complete(Store(inc, c))
    BY <2>1, <2>2, <2>3, StoreKeeps DEF Complete
  <2>5. Store(inc, c) # Absent
    BY <2>1, <2>2, StoreIsSound, AbsentAssumption
  <2> QED
    BY <2>1, <2>4, <2>5 DEF Held, Finished
<1>5. CASE Finishes(x)
  BY <1>5 DEF Finishes, Held
<1> QED
  BY <1>1, <1>2, <1>3, <1>4, <1>5 DEF Moves

\* What holds of a sender that was told "complete", or reported it.
Trusted(x) ==
  /\ (/\ call[x].st = "answered"
      /\ snd[x].pc = "ask"
      /\ call[x].reply.state = "complete") => Held(x)
  /\ snd[x].pc = "done" => Held(x)

HonestInv ==
  /\ restarts = 0
  /\ MessagesFromFile
  /\ \A x \in Xfers : EntryFromFile(x) /\ Trusted(x)

\* No file changes, and a step is one sender's, or the receiver's about one transfer.
LEMMA StepShape ==
  ASSUME Undisturbed, ReceiverInv, SenderInv, NetworkTypes, MessagesFromFile, restarts = 0,
         [TransferNext]_vars
  PROVE  /\ file' = file
         /\ \/ \E x \in Xfers : SenderMoves(x)
            \/ \E x \in Xfers :
                 /\ UNCHANGED snd
                 /\ \A y \in Xfers \ {x} : Untouched(y) /\ call'[y] = call[y]
                 /\ Moves(x)
                 /\ call'[x] = call[x] \/ ReceiveCall(x)
            \/ UNCHANGED <<rvars, snd, call>>
<1>0. DOMAIN call = Xfers
  BY DEF SenderInv
<1>1. ~ ReceiverRestarts
  BY DEF ReceiverRestarts, Undisturbed
<1>2. ASSUME NEW x \in Xfers, NEW v \in Contents PROVE ~ EditFile(x, v)
  BY DEF EditFile, Undisturbed, NetworkTypes
<1>3. ASSUME NEW x \in Xfers, SenderStep(x) \/ CallFails(x) \/ RouteDies(x)
      PROVE  file' = file /\ SenderMoves(x)
  <2>1. SenderMoves(x)
    BY <1>3, SenderStepMoves, CallFailsMoves
  <2> QED
    BY <2>1 DEF SenderMoves
<1>4. ASSUME NEW x \in Xfers, ReceiveCall(x)
      PROVE  /\ UNCHANGED <<file, snd>> /\ Moves(x)
             /\ \A y \in Xfers \ {x} : Untouched(y) /\ call'[y] = call[y]
  <2>1. /\ Request(x) \in Requests /\ Request(x).xfer = x
        /\ Request(x).content = file[x]
    BY RequestType DEF SenderInv, Request, MessagesFromFile
  <2>2. Moves(x) /\ \A y \in Xfers \ {x} : Untouched(y)
    BY <1>4, <2>1, HandleMoves DEF ReceiveCall
  <2> QED
    BY <1>0, <1>4, <2>2 DEF ReceiveCall
<1>5. ASSUME NEW r \in late, ReceiveLate(r)
      PROVE  /\ UNCHANGED <<file, snd, call>> /\ r.xfer \in Xfers /\ Moves(r.xfer)
             /\ \A y \in Xfers \ {r.xfer} : Untouched(y)
  BY <1>5, HandleMoves DEF ReceiveLate, MessagesFromFile, SenderInv, SenderTypes, Requests
<1>6. ASSUME NEW x \in Xfers, NEW c \in Chunks, ReceiveChunk(x, c)
      PROVE  /\ UNCHANGED <<file, snd, call>> /\ Moves(x)
             /\ \A y \in Xfers \ {x} : Untouched(y)
  <2>1. c.content = file[x]
    BY <1>6 DEF ReceiveChunk, MessagesFromFile
  <2> QED
    BY <1>6, <2>1, ChunkMoves DEF ReceiveChunk, Moves
<1>7. ASSUME NEW x \in Xfers, WriteFile(x)
      PROVE  /\ UNCHANGED <<file, snd, call>> /\ Moves(x)
             /\ \A y \in Xfers \ {x} : Untouched(y)
  BY <1>7, FinishMoves DEF WriteFile, svars, Moves
<1>8. ASSUME NEW x \in Xfers, NEW c \in Chunks, LoseChunk(x, c)
      PROVE  UNCHANGED <<file, rvars, snd, call>>
  BY <1>8 DEF LoseChunk
<1>9. ASSUME Over \/ UNCHANGED vars
      PROVE  UNCHANGED <<file, rvars, snd, call>>
  BY <1>9 DEF Over, vars, svars
<1> QED
  BY <1>1, <1>2, <1>3, <1>4, <1>5, <1>6, <1>7, <1>8, <1>9 DEF TransferNext

LEMMA MessagesStep ==
  ASSUME Undisturbed, ReceiverInv, SenderInv, NetworkTypes, MessagesFromFile, restarts = 0,
         [TransferNext]_vars
  PROVE  MessagesFromFile'
<1>0. file' = file
  BY StepShape
<1>1. \A x \in Xfers : snd'[x].content = file'[x]
  <2>1. ASSUME NEW x \in Xfers, SenderMoves(x), NEW y \in Xfers
        PROVE  snd'[y].content = file[y]
    BY <2>1 DEF SenderMoves, MessagesFromFile
  <2>2. ASSUME UNCHANGED snd, NEW y \in Xfers
        PROVE  snd'[y].content = file[y]
    BY <2>2 DEF MessagesFromFile
  <2> QED
    BY <1>0, <2>1, <2>2, StepShape
<1>2. \A r \in late' : r.content = file'[r.xfer]
  <2>1. ASSUME NEW x \in Xfers, CallFails(x) \/ RouteDies(x), NEW r \in late'
        PROVE  r \in late \/ (r.xfer = x /\ r.content = snd[x].content)
    BY <2>1 DEF CallFails, RouteDies, Abandon, Request
  <2>2. ASSUME NEW x \in Xfers, SenderStep(x) PROVE late' = late
    BY <2>2 DEF SenderStep, Start, Accepted, Refused, ToldComplete, ToldUnknown, ToldMissing,
                UnderflowPanic, Told, SendChunk, SlicePanic, Settled
  <2>3. \/ \E x \in Xfers : SenderStep(x) \/ CallFails(x) \/ RouteDies(x)
        \/ late' \subseteq late
    BY DEF TransferNext, ReceiveCall, WriteFile, ReceiveChunk, LoseChunk, EditFile, ReceiveLate,
           ReceiverRestarts, Over, vars, svars
  <2> QED
    BY <1>0, <2>1, <2>2, <2>3 DEF MessagesFromFile
<1>3. ASSUME NEW x \in Xfers, NEW c \in Chunks, flight'[x][c] > 0
      PROVE  c.content = file'[x]
  <2> DEFINE Fewer(y, d) == flight[y][d] > 0 /\ flight' = [flight EXCEPT ![y][d] = flight[y][d] - 1]
  <2>0. /\ flight \in [Xfers -> [Chunks -> 0 .. MaxCopies]]
        /\ flight[x][c] \in 0 .. MaxCopies /\ MaxCopies \in Nat
    BY TransferAssumption DEF NetworkTypes
  <2>1. ASSUME NEW y \in Xfers, NEW d \in Chunks, Fewer(y, d)
        PROVE  flight[x][c] > 0
    BY <1>3, <2>0, <2>1
  <2>2. ASSUME NEW y \in Xfers, NEW i \in Slots, SendChunk(y, i)
        PROVE  flight[x][c] > 0 \/ (x = y /\ c.content = snd[x].content)
    <3> DEFINE d == ChunkOf(snd[y].content, i)
    <3>1. flight' = [flight EXCEPT ![y][d] = flight[y][d] + 1] \/ flight' = flight
      BY <2>2, Zenon DEF SendChunk
    <3>2. d.content = snd[y].content
      BY DEF ChunkOf
    <3> HIDE DEF d
    <3>3. flight'[x][c] = flight[x][c] \/ (x = y /\ c = d)
      BY <2>0, <3>1
    <3> QED
      BY <1>3, <3>2, <3>3
  <2>3. ASSUME NEW y \in Xfers, SenderStep(y), \A i \in Slots : ~ SendChunk(y, i)
        PROVE  flight' = flight
    BY <2>3 DEF SenderStep, Start, Accepted, Refused, ToldComplete, ToldUnknown, ToldMissing,
                UnderflowPanic, Told, SlicePanic, Settled
  <2>4. ASSUME NEW y \in Xfers, NEW d \in Chunks, ReceiveChunk(y, d) \/ LoseChunk(y, d)
        PROVE  Fewer(y, d)
    BY <2>4, Zenon DEF ReceiveChunk, LoseChunk
  <2> HIDE DEF Fewer
  <2>5. \/ flight' = flight
        \/ \E y \in Xfers, i \in Slots : SendChunk(y, i)
        \/ \E y \in Xfers, d \in Chunks : Fewer(y, d)
    BY <2>3, <2>4 DEF TransferNext, CallFails, RouteDies, ReceiveCall, WriteFile, EditFile,
                      ReceiveLate, ReceiverRestarts, Over, vars, svars
  <2> QED
    BY <1>0, <1>3, <2>1, <2>2, <2>5 DEF MessagesFromFile
<1> QED
  BY <1>1, <1>2, <1>3 DEF MessagesFromFile

LEMMA TrustedStep ==
  ASSUME Steady, ReceiverInv, SenderInv, NetworkTypes, HonestInv, [TransferNext]_vars,
         NEW y \in Xfers
  PROVE  Trusted(y)'
<1>1. Trusted(y) /\ EntryFromFile(y) /\ MessagesFromFile /\ restarts = 0
  BY DEF HonestInv
<1>2. ASSUME NEW x \in Xfers, SenderMoves(x)
      PROVE  Trusted(y)'
  <2>1. Held(y)' <=> Held(y)
    BY <1>2 DEF SenderMoves, Held, Finished, rvars
  <2> QED
    BY <1>1, <1>2, <2>1 DEF SenderMoves, Trusted
<1>3. ASSUME NEW x \in Xfers, UNCHANGED snd, Moves(x), call'[x] = call[x] \/ ReceiveCall(x),
             \A z \in Xfers \ {x} : Untouched(z) /\ call'[z] = call[z]
      PROVE  Trusted(y)'
  <2>1. Held(y) => Held(y)'
    BY <1>3, HeldStays DEF Moves
  <2>2. CASE call'[y] = call[y]
    BY <1>1, <1>3, <2>1, <2>2 DEF Trusted
  <2>3. CASE y = x /\ ReceiveCall(x) /\ snd[x].pc = "ask"
    <3>1. Request(x).kind = "status" /\ Request(x).xfer = x
      BY <2>3 DEF Request
    <3>2. call'[x].reply = StatusReply(x)
      BY <2>3, <3>1 DEF ReceiveCall, ReplyTo, SenderInv, Answer
    <3>3. StatusReply(x).state = "complete" => Held(x)
      BY DEF StatusReply, Held, Finished
    <3> QED
      BY <1>1, <1>3, <2>1, <2>3, <3>2, <3>3 DEF Trusted
  <2>4. CASE y = x /\ snd[x].pc # "ask"
    BY <1>1, <1>3, <2>1, <2>4 DEF Trusted
  <2> QED
    BY <1>3, <2>2, <2>3, <2>4
<1>4. CASE UNCHANGED <<rvars, snd, call>>
  BY <1>1, <1>4 DEF Trusted, Held, Finished, rvars
<1> QED
  BY <1>1, <1>2, <1>3, <1>4, StepShape DEF Steady

LEMMA HonestStep ==
  ASSUME Steady, ReceiverInv, SenderInv, NetworkTypes, HonestInv, [TransferNext]_vars
  PROVE  HonestInv'
<1>1. restarts' = 0 /\ MessagesFromFile'
  BY NoRestart, MessagesStep DEF HonestInv, Steady, Undisturbed
<1>2. ASSUME NEW y \in Xfers PROVE EntryFromFile(y)'
  <2>1. EntryFromFile(y) /\ MessagesFromFile /\ restarts = 0 /\ file \in [Xfers -> Contents]
    BY DEF HonestInv, SenderInv, SenderTypes
  <2>2. file' = file
    BY <2>1, StepShape DEF Steady
  <2>3. ASSUME Moves(y) PROVE EntryFromFile(y)'
    BY <2>1, <2>2, <2>3, EntryStays
  <2>4. ASSUME UNCHANGED rvars PROVE Untouched(y)
    BY <2>4 DEF rvars, Untouched, DiskKept
  <2>5. Moves(y)
    BY <2>1, <2>4, StepShape DEF SenderMoves, Moves, Steady
  <2> QED
    BY <2>3, <2>5
<1>3. ASSUME NEW y \in Xfers PROVE Trusted(y)'
  BY TrustedStep
<1> QED
  BY <1>1, <1>2, <1>3 DEF HonestInv

LEMMA HonestInit == TransferInit => HonestInv
<1> SUFFICES ASSUME TransferInit PROVE HonestInv
  OBVIOUS
<1>1. ASSUME NEW x \in Xfers
      PROVE  /\ snd[x].content = file[x] /\ snd[x].pc = "start"
             /\ call[x].st = "none" /\ \A c \in Chunks : flight[x][c] = 0
  BY DEF TransferInit, NoCall, NewSender
<1>2. MessagesFromFile
  BY <1>1 DEF TransferInit, MessagesFromFile
<1>3. ASSUME NEW x \in Xfers PROVE EntryFromFile(x) /\ Trusted(x)
  BY <1>1 DEF TransferInit, Init, EntryFromFile, Trusted
<1> QED
  BY <1>2, <1>3 DEF TransferInit, Init, HonestInv

\* The invariant the theorems below rest on.
THEOREM HonestInvariant ==
  ASSUME Steady
  PROVE  TransferSpec => [](HonestInv /\ NetworkTypes)
<1>1. TransferInit => HonestInv /\ NetworkTypes
  BY HonestInit, NetworkInit
<1>2. /\ ReceiverInv /\ SenderInv /\ NetworkTypes /\ HonestInv
      /\ [TransferNext]_vars
      => NetworkTypes' /\ HonestInv'
  BY HonestStep, NetworkStep
<1> QED
  BY <1>1, <1>2, TransferInvariant, PTL DEF TransferSpec

LEMMA WholeWhenComplete ==
  ASSUME NEW inc \in Incoming, Sound(inc), Complete(inc), NEW v, Copied(inc, v)
  PROVE  IsWhole(inc, v)
<1>1. inc.have = 0 .. inc.chunk_count - 1
  BY CountedIsHeld
<1> QED
  BY <1>1 DEF Copied, IsWhole

\* Whatever the network does, a sender that reports "delivered" reports a file of
\* which the receiver has every byte: if the receiver keeps running, nobody edits
\* the file, and the disk takes it.
THEOREM DeliveredIsHeldTheorem ==
  ASSUME Steady
  PROVE  TransferSpec => []DeliveredIsHeld
<1>1. TransferSpec => [](HonestInv /\ NetworkTypes)
  BY HonestInvariant
<1>2. ReceiverInv /\ HonestInv => DeliveredIsHeld
  <2> SUFFICES ASSUME ReceiverInv, HonestInv, NEW x \in Xfers, snd[x].pc = "done"
               PROVE  \/ transfers[x] # Absent /\ IsWhole(transfers[x], snd[x].content)
                      \/ OnDisk(x, snd[x].content)
    BY DEF DeliveredIsHeld
  <2>1. Held(x) /\ EntryFromFile(x) /\ snd[x].content = file[x]
    BY DEF HonestInv, Trusted, MessagesFromFile
  <2>2. CASE Finished(x)
    <3>1. /\ transfers[x] # Absent /\ transfers[x] \in Incoming /\ Sound(transfers[x])
          /\ Complete(transfers[x]) /\ Copied(transfers[x], file[x])
      BY <2>1, <2>2 DEF Finished, EntryFromFile, ReceiverInv, TypeOK, TransfersSound
    <3> QED
      BY <2>1, <3>1, WholeWhenComplete
  <2>3. CASE x \in completed
    <3>1. disk[x] \in Seq(Incoming) /\ disk[x] # << >>
      BY <2>1, <2>3 DEF EntryFromFile, ReceiverInv, TypeOK
    <3>2. 1 \in DOMAIN disk[x] /\ disk[x][1] \in Incoming
      BY <3>1
    <3>3. Sound(disk[x][1]) /\ Complete(disk[x][1]) /\ Copied(disk[x][1], file[x])
      BY <2>1, <3>2 DEF EntryFromFile, ReceiverInv, DiskSound
    <3> QED
      BY <2>1, <3>2, <3>3, WholeWhenComplete DEF OnDisk
  <2> QED
    BY <2>1, <2>2, <2>3 DEF Held
<1> QED
  BY <1>1, <1>2, TransferInvariant, PTL

\* "Afterwards both ends agree on what complete means": what is written is what was
\* sent, and so the pieces of one file.  Without Steady neither holds, see the run
\* VWrittenIsOneFile.
THEOREM WrittenIsWhatWasSentTheorem ==
  ASSUME Steady
  PROVE  TransferSpec => [](WrittenIsWhatWasSent /\ WrittenIsOneFile)
<1>1. TransferSpec => [](HonestInv /\ NetworkTypes)
  BY HonestInvariant
<1>2. ReceiverInv /\ HonestInv => WrittenIsWhatWasSent
  <2> SUFFICES ASSUME ReceiverInv, HonestInv, NEW x \in Xfers, NEW k \in DOMAIN disk[x]
               PROVE  IsWhole(disk[x][k], snd[x].content)
    BY DEF WrittenIsWhatWasSent
  <2>1. disk[x] \in Seq(Incoming)
    BY DEF ReceiverInv, TypeOK
  <2>2. disk[x][k] \in Incoming
    BY <2>1
  <2>3. Sound(disk[x][k]) /\ Complete(disk[x][k]) /\ Copied(disk[x][k], snd[x].content)
    BY DEF HonestInv, MessagesFromFile, EntryFromFile, ReceiverInv, DiskSound
  <2> QED
    BY <2>2, <2>3, WholeWhenComplete
<1>3. ReceiverInv /\ SenderInv /\ HonestInv => WrittenIsOneFile
  <2> SUFFICES ASSUME ReceiverInv, SenderInv, HonestInv,
                      NEW x \in Xfers, NEW k \in DOMAIN disk[x], snd[x].pc = "done"
               PROVE  \E v \in Contents :
                        \A i \in 0 .. disk[x][k].chunk_count - 1 : disk[x][k].data[i] = v
    BY DEF WrittenIsOneFile
  <2>1. IsWhole(disk[x][k], snd[x].content)
    BY <1>2 DEF WrittenIsWhatWasSent
  <2>2. snd[x].content \in Contents
    BY DEF SenderInv, SenderTypes, Senders
  <2> QED
    BY <2>1, <2>2 DEF IsWhole
<1> QED
  BY <1>1, <1>2, <1>3, TransferInvariant, PTL

-----------------------------------------------------------------------------
(* Transfer implements Delivery, as far as safety goes.                    *)

\* What Delivery's variables are of one transfer.
HeldOf(x) ==
  IF transfers[x] # Absent THEN transfers[x].have
  ELSE IF x \in completed THEN PieceSet(file[x]) ELSE {}

VerdictOf(x) ==
  CASE snd[x].pc = "done"   -> "delivered"
    [] snd[x].pc = "failed" -> "given_up"
    [] OTHER                -> "nothing"

NeedBar == [x \in Xfers |-> PieceSet(file[x])]
HeldBar == [x \in Xfers |-> HeldOf(x)]
StoredBar == [x \in Xfers |-> Len(disk[x])]
VerdictBar == [x \in Xfers |-> VerdictOf(x)]

SameElsewhere(x) ==
  /\ file' = file
  /\ \A y \in Xfers \ {x} :
       HeldOf(y)' = HeldOf(y) /\ disk'[y] = disk[y] /\ VerdictOf(y)' = VerdictOf(y)

LEMMA PromiseStutters ==
  ASSUME file' = file,
         \A y \in Xfers :
           HeldOf(y)' = HeldOf(y) /\ disk'[y] = disk[y] /\ VerdictOf(y)' = VerdictOf(y)
  PROVE  UNCHANGED Promise!dvars
BY DEF Promise!dvars, HeldOf, VerdictOf

LEMMA PromiseLands ==
  ASSUME NEW x \in Xfers, SameElsewhere(x), disk'[x] = disk[x], VerdictOf(x)' = VerdictOf(x),
         NEW p \in PieceSet(file[x]) \ HeldOf(x), HeldOf(x)' = HeldOf(x) \cup {p}
  PROVE  Promise!Next
<1>1. HeldBar' = [HeldBar EXCEPT ![x] = HeldBar[x] \cup {p}]
  BY DEF HeldBar, SameElsewhere
<1>2. NeedBar' = NeedBar /\ StoredBar' = StoredBar /\ VerdictBar' = VerdictBar
  BY DEF NeedBar, StoredBar, VerdictBar, SameElsewhere
<1>3. p \in NeedBar[x] \ HeldBar[x]
  BY DEF NeedBar, HeldBar
<1>4. Promise!Land(x)
  BY <1>1, <1>2, <1>3, Zenon
     DEF Promise!Land, NeedBar, HeldBar, HeldOf, StoredBar, VerdictBar, VerdictOf
<1> QED
  BY <1>4 DEF Promise!Next

LEMMA PromiseKeeps ==
  ASSUME NEW x \in Xfers, SameElsewhere(x), VerdictOf(x)' = VerdictOf(x),
         HeldOf(x) = PieceSet(file[x]), HeldOf(x)' = HeldOf(x),
         Len(disk[x]) = 0, Len(disk'[x]) = 1
  PROVE  Promise!Next
<1>1. StoredBar' = [StoredBar EXCEPT ![x] = 1]
  BY DEF StoredBar, SameElsewhere
<1>2. NeedBar' = NeedBar /\ HeldBar' = HeldBar /\ VerdictBar' = VerdictBar
  BY DEF NeedBar, HeldBar, VerdictBar, SameElsewhere
<1>3. HeldBar[x] = NeedBar[x] /\ StoredBar[x] = 0
  BY DEF NeedBar, HeldBar, StoredBar
<1>4. Promise!Keep(x)
  BY <1>1, <1>2, <1>3, Zenon
     DEF Promise!Keep, NeedBar, HeldBar, HeldOf, StoredBar, VerdictBar, VerdictOf
<1> QED
  BY <1>4 DEF Promise!Next

LEMMA PromiseReports ==
  ASSUME NEW x \in Xfers, SameElsewhere(x), disk'[x] = disk[x], HeldOf(x)' = HeldOf(x),
         VerdictOf(x) = "nothing",
         \/ VerdictOf(x)' = "delivered" /\ HeldOf(x) = PieceSet(file[x])
         \/ VerdictOf(x)' = "given_up"
  PROVE  Promise!Next
<1>1. \/ VerdictBar' = [VerdictBar EXCEPT ![x] = "delivered"] /\ HeldBar[x] = NeedBar[x]
      \/ VerdictBar' = [VerdictBar EXCEPT ![x] = "given_up"]
  BY DEF VerdictBar, NeedBar, HeldBar, SameElsewhere
<1>2. NeedBar' = NeedBar /\ HeldBar' = HeldBar /\ StoredBar' = StoredBar
  BY DEF NeedBar, HeldBar, StoredBar, SameElsewhere
<1>3. VerdictBar[x] = "nothing"
  BY DEF VerdictBar
<1>4. Promise!Report(x)
  BY <1>1, <1>2, <1>3, Zenon
     DEF Promise!Report, NeedBar, HeldBar, HeldOf, StoredBar, VerdictBar, VerdictOf
<1> QED
  BY <1>4 DEF Promise!Next

\* What the receiver has of a transfer it holds is all of it.
LEMMA HeldIsNeeded ==
  ASSUME ReceiverInv, NEW x \in Xfers, EntryFromFile(x), Held(x)
  PROVE  HeldOf(x) = PieceSet(file[x])
<1>1. CASE Finished(x)
  <2>1. /\ transfers[x] # Absent /\ transfers[x] \in Incoming /\ Sound(transfers[x])
        /\ Complete(transfers[x]) /\ transfers[x].chunk_count = Count(file[x])
    BY <1>1 DEF Finished, EntryFromFile, Copied, ReceiverInv, TypeOK, TransfersSound
  <2>2. transfers[x].have = 0 .. transfers[x].chunk_count - 1
    BY <2>1, CountedIsHeld
  <2> QED
    BY <2>1, <2>2 DEF HeldOf, PieceSet
<1>2. CASE x \in completed
  BY <1>2 DEF HeldOf, ReceiverInv, OneCopyPerRun
<1> QED
  BY <1>1, <1>2 DEF Held

\* What the receiver does to a transfer is a step of Delivery or none.
LEMMA MovesImplement ==
  ASSUME Steady, ReceiverInv, HonestInv, NEW x \in Xfers, Moves(x), SameElsewhere(x),
         VerdictOf(x)' = VerdictOf(x)
  PROVE  Promise!Next \/ UNCHANGED Promise!dvars
<1>0. /\ EntryFromFile(x) /\ restarts = 0 /\ file' = file
      /\ transfers[x] # Absent =>
           /\ transfers[x] \in Incoming /\ Sound(transfers[x]) /\ x \notin completed
           /\ transfers[x].chunk_count = Count(file[x])
  BY DEF HonestInv, EntryFromFile, Copied, ReceiverInv, TypeOK, TransfersSound, OneCopyPerRun,
         SameElsewhere
<1>1. ASSUME HeldOf(x)' = HeldOf(x), disk'[x] = disk[x]
      PROVE  UNCHANGED Promise!dvars
  BY <1>1, PromiseStutters DEF SameElsewhere
<1>2. CASE Untouched(x)
  BY <1>0, <1>1, <1>2 DEF Untouched, DiskKept, HeldOf
<1>3. CASE Opens(x, ManifestOf(file[x]))
  <2>1. NewIncoming(ManifestOf(file[x])).have = {}
    BY DEF NewIncoming
  <2> QED
    BY <1>0, <1>1, <1>3, <2>1 DEF Opens, DiskKept, Known, HeldOf
<1>4. CASE Counts(x)
  <2>1. /\ transfers[x] # Absent /\ transfers'[x] = Asked(transfers[x])
        /\ Asked(transfers[x]) # Absent /\ Asked(transfers[x]).have = transfers[x].have
    BY <1>0, <1>4, AskedIsSound, AskedKeeps, AbsentAssumption DEF Counts
  <2> QED
    BY <1>1, <1>4, <2>1 DEF Counts, DiskKept, HeldOf
<1>5. ASSUME NEW c \in Chunks, Stores(x, c)
      PROVE  Promise!Next \/ UNCHANGED Promise!dvars
  <2> DEFINE inc == transfers[x]
  <2>1. inc # Absent /\ transfers'[x] = Store(inc, c) /\ c \in ChunkShape /\ disk'[x] = disk[x]
    BY <1>5, ReceiverAssumption DEF Stores, DiskKept
  <2>2. inc \in Incoming /\ Sound(inc) /\ inc.chunk_count = Count(file[x])
    BY <1>0, <2>1
  <2>3. Store(inc, c) # Absent
    BY <2>1, <2>2, StoreIsSound, AbsentAssumption
  <2>4. HeldOf(x) = inc.have /\ HeldOf(x)' = Store(inc, c).have
    BY <2>1, <2>3 DEF HeldOf
  <2>5. CASE Store(inc, c).have = inc.have
    BY <1>1, <2>1, <2>4, <2>5
  <2>6. CASE /\ c.index \notin inc.have /\ c.index < inc.chunk_count
             /\ Store(inc, c).have = inc.have \cup {c.index}
    <3>1. c.index \in PieceSet(file[x])
      BY <2>1, <2>2, <2>6, SlotsSuffice DEF PieceSet, ChunkShape
    <3> QED
      BY <2>1, <2>4, <2>6, <3>1, PromiseLands
  <2> QED
    BY <2>1, <2>2, <2>5, <2>6, StoreKeeps
<1>6. CASE Finishes(x)
  <2>1. /\ Finished(x) /\ transfers'[x] = Absent /\ x \in completed'
        /\ disk'[x] = Append(disk[x], transfers[x])
    BY <1>6 DEF Finishes, Steady
  <2>2. HeldOf(x) = PieceSet(file[x])
    BY <1>0, <2>1, HeldIsNeeded DEF Held
  <2>3. HeldOf(x)' = PieceSet(file[x])
    BY <1>0, <2>1 DEF HeldOf
  <2>4. disk[x] \in Seq(Incoming) /\ transfers[x] \in Incoming /\ Len(disk[x]) <= 0
    BY <1>0, <2>1 DEF Finished, ReceiverInv, TypeOK, OneCopyPerRun
  <2>5. Len(disk[x]) = 0 /\ Len(disk'[x]) = 1
    BY <2>1, <2>4
  <2> QED
    BY <2>2, <2>3, <2>5, PromiseKeeps
<1> QED
  BY <1>2, <1>3, <1>4, <1>5, <1>6 DEF Moves

\* What a sender does is a report or nothing.
LEMMA SenderImplements ==
  ASSUME ReceiverInv, SenderInv, HonestInv, NEW x \in Xfers, SenderMoves(x)
  PROVE  Promise!Next \/ UNCHANGED Promise!dvars
<1>0. /\ file' = file
      /\ \A y \in Xfers : HeldOf(y)' = HeldOf(y) /\ disk'[y] = disk[y]
      /\ \A y \in Xfers \ {x} : VerdictOf(y)' = VerdictOf(y)
  BY DEF SenderMoves, HeldOf, VerdictOf, rvars
<1>1. SameElsewhere(x)
  BY <1>0 DEF SameElsewhere
<1>2. VerdictOf(x) = "nothing"
  BY DEF SenderMoves, VerdictOf, Working, Calling
<1>3. CASE snd'[x].pc = "done"
  <2>1. HeldOf(x) = PieceSet(file[x])
    BY <1>3, HeldIsNeeded DEF SenderMoves, HonestInv, Trusted
  <2>2. VerdictOf(x)' = "delivered"
    BY <1>3 DEF VerdictOf
  <2> QED
    BY <1>0, <1>1, <1>2, <2>1, <2>2, PromiseReports
<1>4. CASE snd'[x].pc = "failed"
  <2>1. VerdictOf(x)' = "given_up"
    BY <1>4 DEF VerdictOf
  <2> QED
    BY <1>0, <1>1, <1>2, <2>1, PromiseReports
<1>5. CASE snd'[x].pc \notin {"done", "failed"}
  <2>1. VerdictOf(x)' = "nothing"
    BY <1>5 DEF VerdictOf
  <2> QED
    BY <1>0, <1>2, <2>1, PromiseStutters
<1> QED
  BY <1>3, <1>4, <1>5

LEMMA StepImplements ==
  ASSUME Steady, ReceiverInv, SenderInv, NetworkTypes, HonestInv, [TransferNext]_vars
  PROVE  Promise!Next \/ UNCHANGED Promise!dvars
<1>0. file' = file
  BY StepShape DEF HonestInv, Steady
<1>1. ASSUME NEW x \in Xfers, UNCHANGED snd, Moves(x), \A y \in Xfers \ {x} : Untouched(y)
      PROVE  Promise!Next \/ UNCHANGED Promise!dvars
  <2>1. \A y \in Xfers : VerdictOf(y)' = VerdictOf(y)
    BY <1>1 DEF VerdictOf
  <2>2. SameElsewhere(x)
    BY <1>0, <1>1, <2>1 DEF SameElsewhere, Untouched, DiskKept, HeldOf
  <2> QED
    BY <1>1, <2>1, <2>2, MovesImplement
<1>2. CASE UNCHANGED <<rvars, snd, call>>
  BY <1>0, <1>2, PromiseStutters DEF rvars, HeldOf, VerdictOf
<1> QED
  BY <1>1, <1>2, StepShape, SenderImplements DEF HonestInv, Steady

\* With a receiver that keeps running, files nobody edits and a disk that works, a
\* transfer does what Delivery promises: nothing the network loses, repeats or
\* brings late shows in what is stored and reported.
THEOREM ImplementsDeliveryTheorem ==
  ASSUME Steady
  PROVE  TransferSpec => ImplementsDelivery
<1>1. TransferSpec => [](HonestInv /\ NetworkTypes)
  BY HonestInvariant
<1>2. TransferInit => Promise!Init
  <2> SUFFICES ASSUME TransferInit PROVE Promise!Init
    OBVIOUS
  <2>1. ASSUME NEW x \in Xfers
        PROVE  HeldOf(x) = {} /\ Len(disk[x]) = 0 /\ VerdictOf(x) = "nothing"
    BY <2>1 DEF TransferInit, Init, NewSender, HeldOf, VerdictOf
  <2>2. /\ HeldBar = [x \in Xfers |-> {}]
        /\ StoredBar = [x \in Xfers |-> 0]
        /\ VerdictBar = [x \in Xfers |-> "nothing"]
    BY <2>1 DEF HeldBar, StoredBar, VerdictBar
  <2> QED
    BY <2>2, Zenon DEF Promise!Init, HeldBar, HeldOf, StoredBar, VerdictBar, VerdictOf
<1>3. /\ ReceiverInv /\ SenderInv /\ NetworkTypes /\ HonestInv
      /\ [TransferNext]_vars
      => [Promise!Next]_(Promise!dvars)
  BY StepImplements
<1> QED
  BY <1>1, <1>2, <1>3, TransferInvariant, PTL
     DEF TransferSpec, ImplementsDelivery, Promise!Spec

-----------------------------------------------------------------------------
(* Fourth part: pauses that drain the network.                             *)

\* Every run of MCDrained is one of Transfer, and where `drained` holds after a
\* step it held before it, and no chunk was left behind when a pause ended in it.
LEMMA DrainedRuns == MCSpec => TransferSpec
<1>1. MCInit => TransferInit
  BY DEF MCInit
<1>2. [MCNext]_mcvars => [TransferNext]_vars
  BY DEF MCNext, mcvars
<1> QED
  BY <1>1, <1>2, PTL DEF MCSpec, TransferSpec

LEMMA DrainedSince ==
  ASSUME SenderInv, [MCNext]_mcvars, drained'
  PROVE  /\ drained
         /\ [TransferNext]_vars
         /\ \A x \in Xfers : PauseEnds(x) => \A c \in Chunks : flight[x][c] = 0
<1>1. CASE MCNext
  <2>1. drained' = (drained /\ \A x \in Xfers : PauseEnds(x) => \A c \in Chunks : flight[x][c] = 0)
    BY <1>1, Zenon DEF MCNext
  <2>2. drained /\ \A x \in Xfers : PauseEnds(x) => \A c \in Chunks : flight[x][c] = 0
    BY <2>1, Zenon
  <2>3. TransferNext
    BY <1>1 DEF MCNext
  <2> QED
    BY <2>2, <2>3
<1>2. CASE UNCHANGED mcvars
  <2>1. drained' = drained /\ UNCHANGED vars
    BY <1>2 DEF mcvars
  <2>2. drained
    BY <2>1, Zenon
  <2>3. \A x \in Xfers : ~ PauseEnds(x)
    <3>1. snd' = snd
      BY <2>1 DEF vars, svars
    <3> SUFFICES ASSUME NEW x \in Xfers, snd[x].round > snd[x].round PROVE FALSE
      BY <3>1 DEF PauseEnds
    <3>2. snd[x].round \in Nat
      BY DEF SenderInv, SenderTypes, Senders
    <3> QED
      BY <3>2
  <2> QED
    BY <2>1, <2>2, <2>3
<1> QED
  BY <1>1, <1>2

-----------------------------------------------------------------------------
(* What every step that is not x's own sender's does about x.              *)

\* The receiver forgets x, in a restart.
Forgets(x) == transfers'[x] = Absent /\ x \notin completed'

\* The receiver's part: what it is brought comes out of the network.
GetsOn(x) ==
  \/ Untouched(x)
  \/ \E r \in late : r.xfer = x /\ Opens(x, ManifestOf(r.content))
  \/ Counts(x)
  \/ \E c \in Chunks : flight[x][c] > 0 /\ Stores(x, c)
  \/ Finishes(x)
  \/ Forgets(x)

\* The sender waits, and the network gets nothing new of x.
Waits(x) ==
  /\ snd'[x] = snd[x] /\ call'[x] = call[x]
  /\ \A r \in late' : r.xfer = x => r \in late
  /\ \A c \in Chunks : flight'[x][c] <= flight[x][c]

\* One of x's own steps.
Acts(x) == SenderStep(x) \/ CallFails(x) \/ RouteDies(x) \/ ReceiveCall(x)

LEMMA HandleGetsOn ==
  ASSUME ReceiverInv, NEW r \in Requests, Handle(r)
  PROVE  /\ \/ Untouched(r.xfer) \/ Counts(r.xfer)
            \/ Opens(r.xfer, ManifestOf(r.content))
         /\ \A y \in Xfers \ {r.xfer} : Untouched(y)
<1>1. r.xfer \in Xfers /\ r.content \in Contents
  BY DEF Requests
<1>2. CASE r.kind = "status"
  BY <1>1, <1>2, StatusMoves DEF Handle
<1>3. CASE r.kind # "status"
  BY <1>1, <1>3, ManifestMoves, ManifestsOfContents DEF Handle
<1> QED
  BY <1>2, <1>3

LEMMA OthersWait ==
  ASSUME ReceiverInv, SenderInv, NetworkTypes, [TransferNext]_vars, NEW x \in Xfers, ~ Acts(x)
  PROVE  Waits(x) /\ GetsOn(x)
<1>0. /\ snd \in [Xfers -> Senders] /\ DOMAIN call = Xfers
      /\ flight \in [Xfers -> [Chunks -> 0 .. MaxCopies]]
      /\ \A c \in Chunks : flight[x][c] \in Int
      /\ late \subseteq Requests
  BY TransferAssumption DEF SenderInv, SenderTypes, NetworkTypes
<1>1. ASSUME UNCHANGED <<snd, call, flight>>, late' \subseteq late
      PROVE  Waits(x)
  BY <1>0, <1>1 DEF Waits
<1>2. ASSUME UNCHANGED rvars
      PROVE  GetsOn(x)
  BY <1>2 DEF rvars, GetsOn, Untouched, DiskKept
<1>3. ASSUME NEW y \in Xfers \ {x}, SenderStep(y)
      PROVE  Waits(x) /\ GetsOn(x)
  <2>1. UNCHANGED rvars /\ snd'[x] = snd[x] /\ call'[x] = call[x]
    BY <1>3, SenderStepMoves DEF SenderMoves
  <2>2. late' = late
    BY <1>3 DEF SenderStep, Start, Accepted, Refused, ToldComplete, ToldUnknown, ToldMissing,
                UnderflowPanic, Told, SendChunk, SlicePanic, Settled
  <2>3. flight'[x] = flight[x]
    BY <1>0, <1>3 DEF SenderStep, Start, Accepted, Refused, ToldComplete, ToldUnknown, ToldMissing,
                UnderflowPanic, Told, SendChunk, SlicePanic, Settled
  <2> QED
    BY <1>0, <1>2, <2>1, <2>2, <2>3 DEF Waits
<1>4. ASSUME NEW y \in Xfers \ {x}, CallFails(y) \/ RouteDies(y)
      PROVE  Waits(x) /\ GetsOn(x)
  <2>1. UNCHANGED rvars /\ snd'[x] = snd[x] /\ call'[x] = call[x]
    BY <1>4, CallFailsMoves DEF SenderMoves
  <2>2. late' \subseteq late \cup {Request(y)} /\ flight' = flight /\ Request(y).xfer = y
    BY <1>4 DEF CallFails, RouteDies, Abandon, Request
  <2> QED
    BY <1>0, <1>2, <2>1, <2>2 DEF Waits
<1>5. ASSUME NEW y \in Xfers \ {x}, ReceiveCall(y)
      PROVE  Waits(x) /\ GetsOn(x)
  <2>1. Request(y) \in Requests /\ Request(y).xfer = y /\ Handle(Request(y))
    BY <1>5, RequestType DEF SenderInv, ReceiveCall, Request
  <2>2. Untouched(x)
    BY <2>1, HandleGetsOn
  <2> QED
    BY <1>0, <1>5, <2>2 DEF ReceiveCall, Waits, GetsOn
<1>6. ASSUME NEW r \in late, ReceiveLate(r)
      PROVE  Waits(x) /\ GetsOn(x)
  <2>1. r \in Requests /\ Handle(r)
    BY <1>0, <1>6 DEF ReceiveLate
  <2>2. GetsOn(x)
    <3>1. CASE r.xfer = x
      BY <2>1, <3>1, HandleGetsOn DEF GetsOn
    <3>2. CASE r.xfer # x
      BY <2>1, <3>2, HandleGetsOn DEF GetsOn
    <3> QED
      BY <3>1, <3>2
  <2> QED
    BY <1>1, <1>6, <2>2 DEF ReceiveLate
<1>7. ASSUME NEW y \in Xfers, NEW c \in Chunks, ReceiveChunk(y, c) \/ LoseChunk(y, c)
      PROVE  Waits(x) /\ GetsOn(x)
  <2>1. /\ flight[y][c] > 0 /\ flight' = [flight EXCEPT ![y][c] = flight[y][c] - 1]
        /\ UNCHANGED <<snd, call, late>>
    BY <1>7, Zenon DEF ReceiveChunk, LoseChunk
  <2>2. \A d \in Chunks : flight'[x][d] <= flight[x][d]
    BY <1>0, <2>1
  <2>3. Waits(x)
    BY <2>1, <2>2 DEF Waits
  <2>4. ASSUME ReceiveChunk(y, c) PROVE GetsOn(x)
    BY <2>1, <2>4, ChunkMoves DEF ReceiveChunk, GetsOn
  <2>5. ASSUME LoseChunk(y, c) PROVE GetsOn(x)
    BY <1>2, <2>5 DEF LoseChunk
  <2> QED
    BY <1>7, <2>3, <2>4, <2>5
<1>8. ASSUME NEW y \in Xfers, WriteFile(y)
      PROVE  Waits(x) /\ GetsOn(x)
  BY <1>1, <1>8, FinishMoves DEF WriteFile, svars, GetsOn
<1>9. CASE ReceiverRestarts
  BY <1>1, <1>9 DEF ReceiverRestarts, Restart, svars, GetsOn, Forgets
<1>10. ASSUME NEW y \in Xfers, NEW v \in Contents, EditFile(y, v)
       PROVE  Waits(x) /\ GetsOn(x)
  BY <1>1, <1>2, <1>10 DEF EditFile
<1>11. ASSUME Over \/ UNCHANGED vars
       PROVE  Waits(x) /\ GetsOn(x)
  BY <1>1, <1>2, <1>11 DEF Over, vars, svars
<1> QED
  BY <1>3, <1>4, <1>5, <1>6, <1>7, <1>8, <1>9, <1>10, <1>11 DEF TransferNext, Acts

-----------------------------------------------------------------------------
(* What x's own sender does, in seven kinds of steps.                      *)

\* What a step that is none of a status answer's keeps of the sender.
Keeps(x) ==
  /\ snd'[x].content = snd[x].content
  /\ snd'[x].tries = snd[x].tries
  /\ snd'[x].first_pass_missing = snd[x].first_pass_missing

TellsOf(x, state) ==
  /\ snd[x].pc = "ask" /\ call[x].st = "answered" /\ call[x].reply.state = state
  /\ snd'[x].content = snd[x].content
  /\ snd'[x].tries = snd[x].tries
  /\ \/ snd'[x].first_pass_missing = snd[x].first_pass_missing
     \/ /\ snd[x].round = 1
        /\ snd'[x].first_pass_missing = call[x].reply.missing_total

Quiet(x) == flight' = flight /\ lost' = lost

Begins(x) ==
  /\ snd[x].pc = "start" /\ snd'[x].pc = "open"
  /\ snd'[x].content = file[x] /\ snd'[x].tries = snd[x].tries
  /\ snd'[x].first_pass_missing = snd[x].first_pass_missing
  /\ call'[x].st # "answered" /\ Quiet(x)

StartsToAsk(x) ==
  /\ snd[x].pc \in {"open", "reopen"} /\ call[x].st = "answered" /\ call[x].reply.accepted
  /\ snd'[x].pc = "ask" /\ Keeps(x)
  /\ snd'[x].round = IF snd[x].pc = "reopen" THEN snd[x].round + 1 ELSE 0
  /\ call'[x].st # "answered" /\ Quiet(x)

OpensAgain(x) ==
  /\ TellsOf(x, "unknown") /\ snd'[x].pc = "reopen"
  /\ call'[x].st # "answered" /\ Quiet(x)

StartsToSend(x) ==
  /\ TellsOf(x, "in_progress") /\ snd'[x].pc = "blast" /\ snd'[x].round = snd[x].round
  /\ snd'[x].to_send = call[x].reply.missing
  /\ Quiet(x)

SendsOne(x, i) ==
  /\ snd[x].pc = "blast" /\ i \in snd[x].to_send
  /\ ChunkOf(snd[x].content, i) \in Chunks
  /\ Keeps(x) /\ snd'[x].round = snd[x].round
  /\ snd'[x].to_send = snd[x].to_send \ {i}
  /\ \/ snd'[x].pc = "blast"
     \/ snd'[x].pc = "settle" /\ snd'[x].to_send = {}
  /\ LET c == ChunkOf(snd[x].content, i) IN
     \/ flight' = [flight EXCEPT ![x][c] = flight[x][c] + 1] /\ lost' = lost
     \/ flight' = flight /\ lost' = lost + 1

AsksAgain(x) ==
  /\ snd[x].pc = "settle" /\ snd'[x].pc = "ask" /\ Keeps(x)
  /\ snd'[x].round = snd[x].round + 1
  /\ call'[x].st # "answered" /\ Quiet(x)

Ends(x) ==
  /\ snd'[x].pc \in {"done", "failed"} /\ Quiet(x)
  /\ Keeps(x) \/ \E state \in {"complete", "in_progress"} : TellsOf(x, state)

SenderDoes(x) ==
  \/ Begins(x) \/ StartsToAsk(x) \/ OpensAgain(x) \/ StartsToSend(x)
  \/ (\E i \in Slots : SendsOne(x, i)) \/ AsksAgain(x) \/ Ends(x)

LEMMA FailKeeps ==
  ASSUME NEW s \in Senders, NEW why
  PROVE  /\ Fail(s, why).pc = "failed" /\ Fail(s, why).content = s.content
         /\ Fail(s, why).tries = s.tries
         /\ Fail(s, why).first_pass_missing = s.first_pass_missing
BY DEF Fail, Senders

LEMMA EnterKeeps ==
  ASSUME NEW s \in Senders, NEW pc
  PROVE  /\ Enter(s, pc).pc = pc /\ Enter(s, pc).content = s.content
         /\ Enter(s, pc).tries = s.tries /\ Enter(s, pc).round = s.round
         /\ Enter(s, pc).first_pass_missing = s.first_pass_missing
BY DEF Enter, Senders

LEMMA NotedKeeps ==
  ASSUME NEW x \in Xfers, snd[x] \in Senders, call[x].reply \in StatusReplies
  PROVE  /\ Noted(x) \in Senders
         /\ Noted(x).content = snd[x].content /\ Noted(x).tries = snd[x].tries
         /\ Noted(x).round = snd[x].round
         /\ \/ Noted(x).first_pass_missing = snd[x].first_pass_missing
            \/ /\ snd[x].round = 1
               /\ Noted(x).first_pass_missing = call[x].reply.missing_total
BY DEF Noted, Senders, StatusReplies

LEMMA SenderSteps ==
  ASSUME SenderInv, NEW x \in Xfers, SenderStep(x)
  PROVE  /\ UNCHANGED <<rvars, file, late>>
         /\ SenderDoes(x)
<1>0. /\ snd \in [Xfers -> Senders] /\ snd[x] \in Senders /\ x \in DOMAIN call
      /\ NoCall.st # "answered" /\ SentCall.st # "answered"
  BY DEF SenderInv, SenderTypes, NoCall, SentCall
<1>1. UNCHANGED <<rvars, file, late>>
  BY DEF SenderStep, Start, Accepted, Refused, ToldComplete, ToldUnknown, ToldMissing,
              UnderflowPanic, Told, SendChunk, SlicePanic, Settled
<1> SUFFICES SenderDoes(x)
  BY <1>1
<1>2. CASE Start(x)
  <2> DEFINE s == [snd[x] EXCEPT !.content = file[x]]
  <2>1. /\ s \in Senders /\ s.content = file[x] /\ s.tries = snd[x].tries
        /\ s.first_pass_missing = snd[x].first_pass_missing
    BY <1>0 DEF Senders, SenderInv, SenderTypes
  <2>2. /\ snd' = [snd EXCEPT ![x] = Enter(s, "open")] /\ snd[x].pc = "start"
        /\ call' = [call EXCEPT ![x] = SentCall] /\ flight' = flight /\ lost' = lost
    BY <1>2 DEF Start
  <2> HIDE DEF s
  <2>3. Begins(x)
    BY <1>0, <2>1, <2>2, EnterKeeps DEF Begins, Quiet
  <2> QED
    BY <2>3 DEF SenderDoes
<1>3. CASE Accepted(x)
  <2> DEFINE n == IF snd[x].pc = "reopen" THEN snd[x].round + 1 ELSE 0
             s == [snd[x] EXCEPT !.round = n]
  <2>1. n \in Nat
    <3>1. snd[x].round \in Nat
      BY <1>0 DEF Senders
    <3> QED
      BY <3>1
  <2>2. /\ s \in Senders /\ s.content = snd[x].content /\ s.tries = snd[x].tries
        /\ s.first_pass_missing = snd[x].first_pass_missing /\ s.round = n
    <3> HIDE DEF n
    <3> QED
      BY <1>0, <2>1 DEF Senders
  <2>3. \/ /\ snd' = [snd EXCEPT ![x] = Fail(s, "forgotten")]
           /\ call' = [call EXCEPT ![x] = NoCall]
        \/ /\ snd' = [snd EXCEPT ![x] = Enter(s, "ask")]
           /\ call' = [call EXCEPT ![x] = SentCall]
    BY <1>3, Zenon DEF Accepted
  <2>4. /\ flight' = flight /\ lost' = lost
        /\ snd[x].pc \in {"open", "reopen"} /\ call[x].st = "answered" /\ call[x].reply.accepted
    BY <1>3 DEF Accepted, Answered, Calling
  <2> HIDE DEF s
  <2>5. CASE snd' = [snd EXCEPT ![x] = Fail(s, "forgotten")]
    <3>1. Ends(x)
      BY <1>0, <2>2, <2>4, <2>5, FailKeeps DEF Ends, Keeps, Quiet
    <3> QED
      BY <3>1 DEF SenderDoes
  <2>6. CASE snd' = [snd EXCEPT ![x] = Enter(s, "ask")] /\ call' = [call EXCEPT ![x] = SentCall]
    <3>1. StartsToAsk(x)
      BY <1>0, <2>2, <2>4, <2>6, EnterKeeps DEF StartsToAsk, Keeps, Quiet
    <3> QED
      BY <3>1 DEF SenderDoes
  <2> QED
    BY <2>3, <2>5, <2>6
<1>4. CASE Refused(x)
  <2>1. Ends(x)
    BY <1>0, <1>4, FailKeeps DEF Refused, Ends, Keeps, Quiet
  <2> QED
    BY <2>1 DEF SenderDoes
<1>5. ASSUME NEW state, Told(x, state)
      PROVE  /\ Noted(x) \in Senders
             /\ Noted(x).content = snd[x].content /\ Noted(x).tries = snd[x].tries
             /\ Noted(x).round = snd[x].round
             /\ \/ Noted(x).first_pass_missing = snd[x].first_pass_missing
                \/ /\ snd[x].round = 1
                   /\ Noted(x).first_pass_missing = call[x].reply.missing_total
             /\ snd[x].pc = "ask" /\ call[x].st = "answered" /\ call[x].reply.state = state
             /\ call[x].reply \in StatusReplies
             /\ Quiet(x)
  BY <1>0, <1>5, NotedKeeps DEF Told, Answered, SenderInv, AnswerTypes, Quiet
<1>6. CASE ToldComplete(x)
  <2>1. Told(x, "complete") /\ snd'[x] = [Noted(x) EXCEPT !.pc = "done"]
    BY <1>0, <1>6 DEF ToldComplete
  <2>2. /\ snd'[x].pc = "done" /\ snd'[x].content = Noted(x).content
        /\ snd'[x].tries = Noted(x).tries
        /\ snd'[x].first_pass_missing = Noted(x).first_pass_missing
    BY <1>5, <2>1 DEF Senders
  <2>3. TellsOf(x, "complete")
    BY <1>5, <2>1, <2>2 DEF TellsOf
  <2> QED
    BY <1>5, <2>1, <2>2, <2>3 DEF Ends, SenderDoes
<1>7. CASE ToldUnknown(x)
  <2>1. /\ Told(x, "unknown") /\ snd'[x] = Enter(Noted(x), "reopen")
        /\ call' = [call EXCEPT ![x] = SentCall]
    BY <1>0, <1>7 DEF ToldUnknown
  <2>2. /\ snd'[x].pc = "reopen" /\ snd'[x].content = Noted(x).content
        /\ snd'[x].tries = Noted(x).tries
        /\ snd'[x].first_pass_missing = Noted(x).first_pass_missing
    BY <1>5, <2>1, EnterKeeps
  <2>3. TellsOf(x, "unknown")
    BY <1>5, <2>1, <2>2 DEF TellsOf
  <2> QED
    BY <1>0, <1>5, <2>1, <2>2, <2>3 DEF OpensAgain, SenderDoes
<1>8. CASE ToldMissing(x)
  <2> DEFINE r == call[x].reply
             s == [Noted(x) EXCEPT !.pc = "blast", !.missing_total = r.missing_total,
                                   !.missing = r.missing, !.to_send = r.missing]
  <2>1. Told(x, "in_progress") /\ snd'[x] \in {Fail(Noted(x), "unnamed"), s}
    BY <1>0, <1>8, Zenon DEF ToldMissing
  <2>2. CASE snd'[x] = s
    <3>1. /\ s.pc = "blast" /\ s.content = Noted(x).content /\ s.tries = Noted(x).tries
          /\ s.round = Noted(x).round /\ s.to_send = r.missing
          /\ s.first_pass_missing = Noted(x).first_pass_missing
      BY <1>5, <2>1 DEF Senders
    <3> HIDE DEF s
    <3>2. TellsOf(x, "in_progress")
      BY <1>5, <2>1, <2>2, <3>1 DEF TellsOf
    <3> QED
      BY <1>5, <2>1, <2>2, <3>1, <3>2 DEF StartsToSend, SenderDoes
  <2>3. CASE snd'[x] = Fail(Noted(x), "unnamed")
    <3>1. TellsOf(x, "in_progress") /\ snd'[x].pc = "failed"
      BY <1>5, <2>1, <2>3, FailKeeps DEF TellsOf
    <3> QED
      BY <1>5, <2>1, <3>1 DEF Ends, SenderDoes
  <2> QED
    BY <2>1, <2>2, <2>3
<1>9. CASE UnderflowPanic(x)
  <2>1. Told(x, "in_progress") /\ snd'[x] = Fail(Noted(x), "panic")
    BY <1>0, <1>9 DEF UnderflowPanic
  <2>2. TellsOf(x, "in_progress") /\ snd'[x].pc = "failed"
    BY <1>5, <2>1, FailKeeps DEF TellsOf
  <2> QED
    BY <1>5, <2>1, <2>2 DEF Ends, SenderDoes
<1>10. ASSUME NEW i \in Slots, SendChunk(x, i)
       PROVE  SenderDoes(x)
  <2> DEFINE rest == snd[x].to_send \ {i}
             pc == IF rest = {} THEN "settle" ELSE "blast"
             s == [snd[x] EXCEPT !.to_send = rest, !.pc = pc]
             c == ChunkOf(snd[x].content, i)
  <2>1. /\ snd' = [snd EXCEPT ![x] = s] /\ snd[x].pc = "blast" /\ i \in snd[x].to_send
        /\ i * ChunkSize <= FileLen[snd[x].content]
    BY <1>10 DEF SendChunk
  <2>2. \/ flight' = [flight EXCEPT ![x][c] = flight[x][c] + 1] /\ lost' = lost
        \/ flight' = flight /\ lost' = lost + 1
    BY <1>10, Zenon DEF SendChunk
  <2>3. c \in Chunks
    BY <1>0, <2>1, TransferAssumption DEF Senders
  <2>4. pc = "blast" \/ (pc = "settle" /\ rest = {})
    OBVIOUS
  <2> HIDE DEF rest, pc
  <2>5. /\ s.pc = pc /\ s.to_send = rest /\ s.content = snd[x].content /\ s.tries = snd[x].tries
        /\ s.round = snd[x].round /\ s.first_pass_missing = snd[x].first_pass_missing
    BY <1>0 DEF Senders
  <2>6. snd'[x] = s
    BY <1>0, <2>1
  <2> HIDE DEF s
  <2>7. SendsOne(x, i)
    BY <2>1, <2>2, <2>3, <2>4, <2>5, <2>6, Zenon DEF SendsOne, Keeps, rest
  <2> QED
    BY <2>7 DEF SenderDoes
<1>11. ASSUME NEW i \in Slots, SlicePanic(x, i)
       PROVE  SenderDoes(x)
  <2>1. snd'[x] = Fail(snd[x], "panic") /\ flight' = flight /\ lost' = lost
    BY <1>0, <1>11 DEF SlicePanic
  <2>2. Ends(x)
    BY <1>0, <2>1, FailKeeps DEF Ends, Keeps, Quiet
  <2> QED
    BY <2>2 DEF SenderDoes
<1>12. CASE Settled(x)
  <2> DEFINE s == Repaired(snd[x])
             t == [s EXCEPT !.missing = {}, !.missing_total = 0]
  <2>1. /\ s \in Senders /\ s.content = snd[x].content /\ s.tries = snd[x].tries
        /\ s.round = snd[x].round + 1 /\ s.first_pass_missing = snd[x].first_pass_missing
    <3> DEFINE n == IF snd[x].round > 0 THEN snd[x].repairs + 1 ELSE snd[x].repairs
    <3>1. s = [snd[x] EXCEPT !.repairs = n, !.round = snd[x].round + 1]
      BY Zenon DEF Repaired
    <3>2. s \in Senders
      BY <1>0, RepairedType
    <3> HIDE DEF n
    <3> QED
      BY <1>0, <3>1, <3>2 DEF Senders
  <2>2. \/ snd' = [snd EXCEPT ![x] = Fail(s, "short")]
        \/ /\ snd' = [snd EXCEPT ![x] = Enter(t, "ask")]
           /\ call' = [call EXCEPT ![x] = SentCall]
    BY <1>12, Zenon DEF Settled
  <2>3. flight' = flight /\ lost' = lost /\ snd[x].pc = "settle"
    BY <1>12 DEF Settled
  <2> HIDE DEF s
  <2>4. /\ t \in Senders /\ t.content = s.content /\ t.tries = s.tries
        /\ t.round = s.round /\ t.first_pass_missing = s.first_pass_missing
    BY <2>1 DEF Senders
  <2> HIDE DEF t
  <2>5. CASE snd' = [snd EXCEPT ![x] = Fail(s, "short")]
    <3>1. Ends(x)
      BY <1>0, <2>1, <2>3, <2>5, FailKeeps DEF Ends, Keeps, Quiet
    <3> QED
      BY <3>1 DEF SenderDoes
  <2>6. CASE snd' = [snd EXCEPT ![x] = Enter(t, "ask")] /\ call' = [call EXCEPT ![x] = SentCall]
    <3>1. AsksAgain(x)
      BY <1>0, <2>1, <2>3, <2>4, <2>6, EnterKeeps DEF AsksAgain, Keeps, Quiet
    <3> QED
      BY <3>1 DEF SenderDoes
  <2> QED
    BY <2>2, <2>5, <2>6
<1> QED
  BY <1>1, <1>2, <1>3, <1>4, <1>6, <1>7, <1>8, <1>9, <1>10, <1>11, <1>12 DEF SenderStep

\* A call that fails is made again, or ends the attempt on this route.
Retries(x) ==
  /\ snd[x].pc \in Calling /\ snd'[x].pc = snd[x].pc
  /\ Keeps(x) /\ snd'[x].round = snd[x].round
  /\ call'[x].st # "answered"

Leaves(x) ==
  /\ snd'[x].content = snd[x].content
  /\ snd'[x].first_pass_missing = snd[x].first_pass_missing
  /\ \/ snd'[x].pc = "start" /\ snd'[x].tries = snd[x].tries + 1
     \/ snd'[x].pc = "failed" /\ snd'[x].tries = snd[x].tries

LEMMA CallSteps ==
  ASSUME SenderInv, NEW x \in Xfers, CallFails(x) \/ RouteDies(x)
  PROVE  /\ UNCHANGED <<rvars, file, flight>>
         /\ late' \subseteq late \cup {Request(x)}
         /\ lost' \in {lost, lost + 1}
         /\ Retries(x) \/ Leaves(x)
<1>0. /\ snd \in [Xfers -> Senders] /\ snd[x] \in Senders /\ x \in DOMAIN call
      /\ SentCall.st # "answered"
  BY DEF SenderInv, SenderTypes, SentCall
<1>1. /\ UNCHANGED <<rvars, file, flight>>
      /\ late' \subseteq late \cup {Request(x)} /\ lost' \in {lost, lost + 1}
  BY DEF CallFails, RouteDies, Abandon
<1> DEFINE n == snd[x].attempt + 1
           s == [snd[x] EXCEPT !.attempt = n]
<1>2. \/ /\ snd' = [snd EXCEPT ![x] = s] /\ snd[x].pc \in Calling
         /\ call' = [call EXCEPT ![x] = SentCall]
      \/ snd' = [snd EXCEPT ![x] = NextRoute(snd[x])]
  BY Zenon DEF CallFails, RouteDies
<1> HIDE DEF n
<1>3. /\ s.pc = snd[x].pc /\ s.content = snd[x].content /\ s.tries = snd[x].tries
      /\ s.round = snd[x].round /\ s.first_pass_missing = snd[x].first_pass_missing
  BY <1>0 DEF Senders
<1> HIDE DEF s
<1>4. CASE snd' = [snd EXCEPT ![x] = s] /\ snd[x].pc \in Calling
           /\ call' = [call EXCEPT ![x] = SentCall]
  BY <1>0, <1>1, <1>3, <1>4 DEF Retries, Keeps
<1>5. CASE snd' = [snd EXCEPT ![x] = NextRoute(snd[x])]
  <2> DEFINE m == snd[x].tries + 1
             a == [snd[x] EXCEPT !.pc = "start", !.tries = m, !.round = 0, !.attempt = 0,
                 !.to_send = {}, !.missing = {}, !.missing_total = 0]
  <2>1. NextRoute(snd[x]) \in {a, Fail(snd[x], "no_route")}
    BY Zenon DEF NextRoute
  <2> HIDE DEF m
  <2>2. /\ a.pc = "start" /\ a.tries = m /\ a.content = snd[x].content
        /\ a.first_pass_missing = snd[x].first_pass_missing
    BY <1>0 DEF Senders
  <2> HIDE DEF a
  <2>3. snd'[x] = a \/ snd'[x] = Fail(snd[x], "no_route")
    BY <1>0, <1>5, <2>1
  <2>4. Leaves(x)
    BY <1>0, <2>2, <2>3, FailKeeps DEF Leaves, m
  <2> QED
    BY <1>1, <2>4
<1> QED
  BY <1>2, <1>4, <1>5

-----------------------------------------------------------------------------
(* Nothing is sent twice.                                                  *)

\* As long as x is on its first route, the receiver was told of it by nobody but
\* this sender, and of no content but the one it sends.
OnFirst(x) ==
  /\ snd[x].tries >= 1
  /\ snd[x].tries = 1 =>
       /\ snd[x].pc = "start" => ~ Known(x) /\ \A r \in late : r.xfer # x
       /\ \A r \in late : r.xfer = x => r.content = snd[x].content
       /\ transfers[x] # Absent => transfers[x].chunk_count = Count(snd[x].content)

\* S are chunks of x that the receiver does not hold.
NotHeld(x, S) ==
  S # {} =>
    /\ S \subseteq 0 .. Count(snd[x].content) - 1
    /\ x \notin completed
    /\ transfers[x] # Absent => S \cap transfers[x].have = {}

\* What is still to be sent has neither arrived nor left, from the answer that
\* names it on; while a call is waited for, nothing is in flight.
Unsent(x) ==
  /\ snd[x].pc \in Calling \cup {"start"} => \A c \in Chunks : flight[x][c] = 0
  /\ (snd[x].pc = "ask" /\ call[x].st = "answered" /\ call[x].reply.state = "in_progress")
       => NotHeld(x, call[x].reply.missing)
  /\ snd[x].pc = "blast" =>
       /\ NotHeld(x, snd[x].to_send)
       /\ \A c \in Chunks : flight[x][c] > 0 => c.index \notin snd[x].to_send

SentOnce ==
  \A x \in Xfers : OnFirst(x) /\ (drained /\ snd[x].tries = 1 => Unsent(x))

LEMMA OnFirstStays ==
  ASSUME ReceiverInv, SenderInv, NEW x \in Xfers, OnFirst(x), Waits(x), GetsOn(x)
  PROVE  OnFirst(x)'
<1>0. snd'[x] = snd[x] /\ \A r \in late' : r.xfer = x => r \in late
  BY DEF Waits
<1>1. transfers[x] # Absent => transfers[x] \in Incoming /\ Sound(transfers[x])
  BY DEF ReceiverInv, TypeOK, TransfersSound
<1>2. ASSUME snd[x].tries = 1, snd[x].pc = "start"
      PROVE  ~ Known(x)'
  BY <1>2 DEF OnFirst, GetsOn, Untouched, DiskKept, Opens, Counts, Stores, Finishes, Finished,
     Forgets, Known
<1>3. ASSUME snd[x].tries = 1, transfers'[x] # Absent
      PROVE  transfers'[x].chunk_count = Count(snd[x].content)
  <2>1. CASE Untouched(x)
    BY <1>3, <2>1 DEF Untouched, OnFirst
  <2>2. ASSUME NEW r \in late, r.xfer = x, Opens(x, ManifestOf(r.content))
        PROVE  transfers'[x].chunk_count = Count(snd[x].content)
    BY <1>3, <2>2 DEF OnFirst, Opens, NewIncoming, ManifestOf
  <2>3. CASE Counts(x)
    BY <1>1, <1>3, <2>3, AskedKeeps DEF Counts, OnFirst
  <2>4. ASSUME NEW c \in Chunks, Stores(x, c)
        PROVE  transfers'[x].chunk_count = Count(snd[x].content)
    <3>1. /\ transfers[x] # Absent /\ transfers'[x] = Store(transfers[x], c)
          /\ transfers[x] \in Incoming /\ c \in ChunkShape
      BY <1>1, <2>4, ReceiverAssumption DEF Stores
    <3>2. Store(transfers[x], c).chunk_count = transfers[x].chunk_count
      BY <3>1, StoreKeeps
    <3> QED
      BY <1>3, <3>1, <3>2 DEF OnFirst
  <2>5. CASE Finishes(x) \/ Forgets(x)
    BY <1>3, <2>5 DEF Finishes, Forgets
  <2> QED
    BY <2>1, <2>2, <2>3, <2>4, <2>5 DEF GetsOn
<1> QED
  BY <1>0, <1>2, <1>3 DEF OnFirst

\* What is not held and not in flight is not held after the receiver's step.
LEMMA NotHeldStays ==
  ASSUME ReceiverInv, NEW x \in Xfers, snd[x].tries = 1, OnFirst(x), Waits(x), GetsOn(x),
         NEW S, NotHeld(x, S), \A c \in Chunks : flight[x][c] > 0 => c.index \notin S
  PROVE  S # {} =>
           /\ S \subseteq 0 .. Count(snd'[x].content) - 1
           /\ x \notin completed'
           /\ transfers'[x] # Absent => S \cap transfers'[x].have = {}
<1> SUFFICES ASSUME S # {}
             PROVE  x \notin completed' /\ (transfers'[x] # Absent => S \cap transfers'[x].have = {})
  BY DEF Waits, NotHeld
<1>0. /\ x \notin completed
      /\ transfers[x] # Absent => S \cap transfers[x].have = {}
      /\ S \subseteq 0 .. Count(snd[x].content) - 1
  BY DEF NotHeld
<1>1. transfers[x] # Absent =>
        /\ transfers[x] \in Incoming /\ Sound(transfers[x])
        /\ transfers[x].chunk_count = Count(snd[x].content)
  BY DEF ReceiverInv, TypeOK, TransfersSound, OnFirst
<1>2. CASE Untouched(x)
  BY <1>0, <1>2 DEF Untouched, DiskKept
<1>3. ASSUME NEW m, Opens(x, m)
      PROVE  x \notin completed' /\ transfers'[x].have = {}
  BY <1>0, <1>3 DEF Opens, DiskKept, NewIncoming
<1>4. CASE Counts(x)
  BY <1>0, <1>1, <1>4, AskedKeeps DEF Counts, DiskKept
<1>5. ASSUME NEW c \in Chunks, flight[x][c] > 0, Stores(x, c)
      PROVE  x \notin completed' /\ S \cap transfers'[x].have = {}
  <2>0. /\ transfers[x] # Absent /\ transfers'[x] = Store(transfers[x], c)
        /\ transfers[x] \in Incoming /\ c \in ChunkShape
    BY <1>1, <1>5, ReceiverAssumption DEF Stores
  <2>1. \/ Store(transfers[x], c).have = transfers[x].have
        \/ Store(transfers[x], c).have = transfers[x].have \cup {c.index}
    BY <2>0, StoreKeeps
  <2> QED
    BY <1>0, <1>5, <2>0, <2>1 DEF Stores, DiskKept
<1>6. CASE Finishes(x)
  <2>1. transfers[x] # Absent /\ Complete(transfers[x])
    BY <1>6 DEF Finishes, Finished
  <2>2. transfers[x].have = 0 .. Count(snd[x].content) - 1
    BY <1>1, <2>1, CountedIsHeld
  <2> QED
    BY <1>0, <2>1, <2>2
<1>7. CASE Forgets(x)
  BY <1>7 DEF Forgets
<1> QED
  BY <1>2, <1>3, <1>4, <1>5, <1>6, <1>7 DEF GetsOn

LEMMA UnsentStays ==
  ASSUME ReceiverInv, SenderInv, NetworkTypes, NEW x \in Xfers, snd[x].tries = 1,
         OnFirst(x), Unsent(x), Waits(x), GetsOn(x), NetworkTypes'
  PROVE  Unsent(x)'
<1>0. snd'[x] = snd[x] /\ call'[x] = call[x]
  BY DEF Waits
<1>1. \A c \in Chunks :
        /\ flight[x][c] \in Nat /\ flight'[x][c] \in Nat
        /\ flight'[x][c] <= flight[x][c]
  BY TransferAssumption DEF Waits, NetworkTypes
<1>2. ASSUME snd[x].pc \in Calling \cup {"start"}
      PROVE  \A c \in Chunks : flight'[x][c] = 0
  BY <1>1, <1>2 DEF Unsent
<1>3. ASSUME snd[x].pc = "ask", call[x].st = "answered", call[x].reply.state = "in_progress"
      PROVE  NotHeld(x, call[x].reply.missing)'
  <2>1. NotHeld(x, call[x].reply.missing) /\ \A c \in Chunks : flight[x][c] = 0
    BY <1>3 DEF Unsent, Calling
  <2> DEFINE S == call[x].reply.missing
  <2>2. NotHeld(x, S) /\ \A c \in Chunks : flight[x][c] > 0 => c.index \notin S
    BY <2>1
  <2>3. call'[x].reply.missing = S
    BY <1>0
  <2> HIDE DEF S
  <2>4. S # {} =>
           /\ S \subseteq 0 .. Count(snd'[x].content) - 1
           /\ x \notin completed'
           /\ transfers'[x] # Absent => S \cap transfers'[x].have = {}
    BY <2>2, NotHeldStays
  <2> QED
    BY <2>3, <2>4 DEF NotHeld
<1>4. ASSUME snd[x].pc = "blast"
      PROVE  /\ NotHeld(x, snd[x].to_send)'
             /\ \A c \in Chunks : flight'[x][c] > 0 => c.index \notin snd[x].to_send
  <2> DEFINE S == snd[x].to_send
  <2>1. NotHeld(x, S) /\ \A c \in Chunks : flight[x][c] > 0 => c.index \notin S
    BY <1>4 DEF Unsent
  <2>2. snd'[x].to_send = S
    BY <1>0
  <2> HIDE DEF S
  <2>3. S # {} =>
           /\ S \subseteq 0 .. Count(snd'[x].content) - 1
           /\ x \notin completed'
           /\ transfers'[x] # Absent => S \cap transfers'[x].have = {}
    BY <2>1, NotHeldStays
  <2>4. NotHeld(x, snd[x].to_send)'
    BY <2>2, <2>3 DEF NotHeld
  <2>5. \A c \in Chunks : flight'[x][c] > 0 => c.index \notin S
    BY <1>1, <2>1
  <2> QED
    BY <2>4, <2>5 DEF S
<1> QED
  BY <1>0, <1>2, <1>3, <1>4 DEF Unsent

\* A sender's own steps.
LEMMA OnFirstActs ==
  ASSUME ReceiverInv, SenderInv, NEW x \in Xfers, OnFirst(x),
         SenderStep(x) \/ CallFails(x) \/ RouteDies(x)
  PROVE  OnFirst(x)'
<1>0. snd[x].tries \in Nat /\ Request(x).xfer = x /\ Request(x).content = snd[x].content
  BY DEF SenderInv, SenderTypes, Senders, Request
<1>1. CASE SenderStep(x)
  <2>1. UNCHANGED <<rvars, late>> /\ SenderDoes(x)
    BY <1>1, SenderSteps
  <2>2. CASE Begins(x)
    BY <2>1, <2>2 DEF Begins, OnFirst, Known, rvars
  <2>3. CASE ~ Begins(x)
    <3>1. /\ snd'[x].pc # "start" /\ snd'[x].content = snd[x].content
          /\ snd'[x].tries = snd[x].tries
      BY <2>1, <2>3 DEF SenderDoes, StartsToAsk, OpensAgain, StartsToSend, SendsOne, AsksAgain, Ends,
           Keeps, TellsOf
    <3> QED
      BY <2>1, <3>1 DEF OnFirst, rvars
  <2> QED
    BY <2>2, <2>3
<1>2. CASE CallFails(x) \/ RouteDies(x)
  <2>1. /\ UNCHANGED rvars /\ late' \subseteq late \cup {Request(x)}
        /\ Retries(x) \/ Leaves(x)
    BY <1>2, CallSteps
  <2>2. /\ snd'[x].content = snd[x].content
        /\ \/ snd'[x].pc # "start" /\ snd'[x].tries = snd[x].tries
           \/ snd'[x].tries = snd[x].tries + 1
    BY <2>1 DEF Retries, Leaves, Keeps, Calling
  <2> QED
    BY <1>0, <2>1, <2>2 DEF OnFirst, rvars
<1> QED
  BY <1>1, <1>2

LEMMA OnFirstCalls ==
  ASSUME ReceiverInv, SenderInv, NEW x \in Xfers, OnFirst(x), ReceiveCall(x)
  PROVE  OnFirst(x)'
<1>1. /\ Request(x) \in Requests /\ Request(x).xfer = x /\ Request(x).content = snd[x].content
      /\ Handle(Request(x)) /\ UNCHANGED <<snd, late>> /\ snd[x].pc # "start"
  BY RequestType DEF SenderInv, ReceiveCall, Request, Calling
<1>2. Untouched(x) \/ Counts(x) \/ Opens(x, ManifestOf(snd[x].content))
  BY <1>1, HandleGetsOn
<1>3. ASSUME snd[x].tries = 1, transfers'[x] # Absent
      PROVE  transfers'[x].chunk_count = Count(snd[x].content)
  <2>0. transfers[x] # Absent => transfers[x] \in Incoming
    BY DEF ReceiverInv, TypeOK
  <2>1. CASE Untouched(x)
    BY <1>3, <2>1 DEF Untouched, OnFirst
  <2>2. CASE Opens(x, ManifestOf(snd[x].content))
    BY <2>2 DEF Opens, NewIncoming, ManifestOf
  <2>3. CASE Counts(x)
    BY <1>3, <2>0, <2>3, AskedKeeps DEF Counts, OnFirst
  <2> QED
    BY <1>2, <2>1, <2>2, <2>3
<1> QED
  BY <1>1, <1>3 DEF OnFirst

LEMMA UnsentActs ==
  ASSUME ReceiverInv, SenderInv, NetworkTypes, NEW x \in Xfers, snd'[x].tries = 1,
         OnFirst(x), Unsent(x), SenderStep(x) \/ CallFails(x) \/ RouteDies(x),
         PauseEnds(x) => \A c \in Chunks : flight[x][c] = 0
  PROVE  Unsent(x)'
<1>0. /\ snd[x] \in Senders /\ snd[x].tries \in Nat /\ snd[x].round \in Nat
      /\ flight \in [Xfers -> [Chunks -> 0 .. MaxCopies]] /\ MaxCopies \in Nat
  BY TransferAssumption DEF SenderInv, SenderTypes, Senders, NetworkTypes
<1>1. CASE SenderStep(x)
  <2>1. UNCHANGED <<rvars, late>> /\ SenderDoes(x)
    BY <1>1, SenderSteps
  <2>2. CASE Begins(x)
    BY <2>2 DEF Begins, Unsent, Quiet
  <2>3. CASE StartsToAsk(x)
    BY <2>3 DEF StartsToAsk, Unsent, Quiet, Calling
  <2>4. CASE OpensAgain(x)
    BY <2>4 DEF OpensAgain, TellsOf, Unsent, Quiet, Calling
  <2>5. CASE StartsToSend(x)
    BY <2>1, <2>5 DEF StartsToSend, TellsOf, Unsent, Quiet, Calling, NotHeld, rvars
  <2>6. ASSUME NEW i \in Slots, SendsOne(x, i)
        PROVE  Unsent(x)'
    <3> DEFINE c == ChunkOf(snd[x].content, i)
    <3>1. CASE snd'[x].pc = "settle"
      BY <3>1 DEF Unsent, Calling
    <3>2. CASE snd'[x].pc = "blast"
      <4>1. NotHeld(x, snd[x].to_send)
            /\ \A d \in Chunks : flight[x][d] > 0 => d.index \notin snd[x].to_send
        BY <2>6 DEF SendsOne, Unsent
      <4>2. NotHeld(x, snd[x].to_send)'
        BY <2>1, <2>6, <4>1 DEF SendsOne, Keeps, NotHeld, rvars
      <4>3. c \in Chunks /\ c.index = i
        BY <2>6 DEF SendsOne, ChunkOf
      <4>4. flight' = flight \/ flight' = [flight EXCEPT ![x][c] = flight[x][c] + 1]
        BY <2>6, Zenon DEF SendsOne
      <4> HIDE DEF c
      <4>5. ASSUME NEW d \in Chunks, flight'[x][d] > 0
            PROVE  d = c \/ flight[x][d] > 0
        BY <1>0, <4>3, <4>4, <4>5
      <4>6. \A d \in Chunks : flight'[x][d] > 0 => d.index \notin snd[x].to_send \ {i}
        BY <4>1, <4>3, <4>5
      <4>7. snd'[x].to_send = snd[x].to_send \ {i}
        BY <2>6 DEF SendsOne
      <4> QED
        BY <3>2, <4>2, <4>6, <4>7 DEF Unsent, Calling
    <3> QED
      BY <2>6, <3>1, <3>2 DEF SendsOne
  <2>7. CASE AsksAgain(x)
    <3>1. PauseEnds(x)
      BY <1>0, <2>7 DEF AsksAgain, PauseEnds
    <3> QED
      BY <2>7, <3>1 DEF AsksAgain, Unsent, Quiet
  <2>8. CASE Ends(x)
    BY <2>8 DEF Ends, Unsent, Calling
  <2> QED
    BY <2>1, <2>2, <2>3, <2>4, <2>5, <2>6, <2>7, <2>8 DEF SenderDoes
<1>2. CASE CallFails(x) \/ RouteDies(x)
  <2>1. UNCHANGED flight /\ (Retries(x) \/ Leaves(x))
    BY <1>2, CallSteps
  <2>2. CASE Retries(x)
    BY <2>1, <2>2 DEF Retries, Unsent, Calling
  <2>3. CASE Leaves(x)
    <3>1. snd'[x].pc = "failed"
      BY <1>0, <2>3 DEF Leaves, OnFirst
    <3> QED
      BY <3>1 DEF Unsent, Calling
  <2> QED
    BY <2>1, <2>2, <2>3
<1> QED
  BY <1>1, <1>2

\* What an answer names is not held.
LEMMA UnsentCalls ==
  ASSUME ReceiverInv, SenderInv, NEW x \in Xfers, snd[x].tries = 1,
         OnFirst(x), Unsent(x), ReceiveCall(x)
  PROVE  Unsent(x)'
<1>1. snd[x].pc \in Calling /\ UNCHANGED <<snd, flight>>
  BY DEF ReceiveCall
<1>2. \A c \in Chunks : flight[x][c] = 0
  BY <1>1 DEF Unsent
<1>3. CASE snd[x].pc # "ask"
  BY <1>1, <1>2, <1>3 DEF Unsent, Calling
<1>4. CASE snd[x].pc = "ask"
  <2>1. Request(x).kind = "status" /\ Request(x).xfer = x
    BY <1>4 DEF Request
  <2>2. RecvStatus(x) /\ call' = [call EXCEPT ![x] = Answer(StatusReply(x))]
    BY <2>1 DEF ReceiveCall, Handle, ReplyTo
  <2>3. call'[x].reply = StatusReply(x)
    BY <2>2 DEF SenderInv, Answer
  <2>4. ASSUME StatusReply(x).state = "in_progress"
        PROVE  /\ x \notin completed' /\ transfers'[x] # Absent
               /\ StatusReply(x).missing \subseteq 0 .. Count(snd[x].content) - 1
               /\ StatusReply(x).missing \cap transfers'[x].have = {}
    <3> DEFINE inc == transfers[x]
    <3>1. /\ inc # Absent /\ inc \in Incoming /\ Sound(inc) /\ x \notin completed
          /\ StatusReply(x).missing = Missing(inc).listed
      BY <2>4 DEF StatusReply, ReceiverInv, TypeOK, TransfersSound, OneCopyPerRun
    <3>2. inc.chunk_count = Count(snd[x].content) /\ inc.chunk_count \in Nat
      BY <3>1, SlotsSuffice DEF OnFirst
    <3>3. Missing(inc).listed \subseteq 0 .. inc.chunk_count - 1
      <4>1. Missing(inc).listed \subseteq Lacking(inc)
        BY DEF Missing
      <4>2. Lacking(inc) \subseteq 0 .. inc.chunk_count - 1
        BY <3>2, ReceiverAssumption DEF Lacking, Slots
      <4> QED
        BY <4>1, <4>2
    <3>4. Missing(inc).listed \cap inc.have = {}
      BY DEF Missing, Lacking
    <3>5. transfers'[x] = Asked(inc) /\ completed' = completed
      BY <2>2, <3>1 DEF RecvStatus, ReceiverInv, TypeOK
    <3>6. Asked(inc) # Absent /\ Asked(inc).have = inc.have
      BY <3>1, AskedIsSound, AskedKeeps, AbsentAssumption
    <3> QED
      BY <3>1, <3>2, <3>3, <3>4, <3>5, <3>6
  <2> QED
    BY <1>1, <1>2, <1>4, <2>3, <2>4 DEF Unsent, NotHeld
<1> QED
  BY <1>3, <1>4

LEMMA SentOnceStep ==
  ASSUME ReceiverInv, SenderInv, NetworkTypes, NetworkTypes', SentOnce, [MCNext]_mcvars
  PROVE  SentOnce'
<1>0. [TransferNext]_vars
  BY DEF MCNext, mcvars
<1>1. ASSUME NEW x \in Xfers
      PROVE  OnFirst(x)'
  <2>1. OnFirst(x)
    BY DEF SentOnce
  <2> QED
    BY <1>0, <2>1, OthersWait, OnFirstStays, OnFirstActs, OnFirstCalls DEF Acts
<1>2. ASSUME NEW x \in Xfers, drained', snd'[x].tries = 1
      PROVE  Unsent(x)'
  <2>1. drained /\ (PauseEnds(x) => \A c \in Chunks : flight[x][c] = 0)
    BY <1>2, DrainedSince
  <2>2. OnFirst(x) /\ snd[x].tries \in Nat
    BY DEF SentOnce, SenderInv, SenderTypes, Senders
  <2>3. CASE SenderStep(x) \/ CallFails(x) \/ RouteDies(x)
    <3>1. snd[x].tries = 1
      <4>1. CASE SenderStep(x)
        <5>1. SenderDoes(x)
          BY <4>1, SenderSteps
        <5> QED
          BY <1>2, <5>1 DEF SenderDoes, Begins, StartsToAsk, OpensAgain, StartsToSend, SendsOne,
             AsksAgain, Ends, Keeps, TellsOf
      <4>2. CASE CallFails(x) \/ RouteDies(x)
        <5>1. Retries(x) \/ Leaves(x)
          BY <4>2, CallSteps
        <5> QED
          BY <1>2, <2>2, <5>1 DEF Retries, Leaves, Keeps, OnFirst
      <4> QED
        BY <2>3, <4>1, <4>2
    <3>2. Unsent(x)
      BY <2>1, <3>1, Zenon DEF SentOnce
    <3> QED
      BY <1>2, <2>1, <2>2, <2>3, <3>2, UnsentActs
  <2>4. CASE ReceiveCall(x)
    <3>1. snd[x].tries = 1
      BY <1>2, <2>4 DEF ReceiveCall
    <3>2. Unsent(x)
      BY <2>1, <3>1, Zenon DEF SentOnce
    <3> QED
      BY <2>2, <2>4, <3>1, <3>2, UnsentCalls
  <2>5. CASE ~ Acts(x)
    <3>1. Waits(x) /\ GetsOn(x)
      BY <1>0, <2>5, OthersWait
    <3>2. snd[x].tries = 1
      BY <1>2, <3>1 DEF Waits
    <3>3. Unsent(x)
      BY <2>1, <3>2, Zenon DEF SentOnce
    <3> QED
      BY <2>2, <3>1, <3>2, <3>3, UnsentStays
  <2> QED
    BY <2>3, <2>4, <2>5 DEF Acts
<1> QED
  BY <1>1, <1>2, Zenon DEF SentOnce

\* The invariant that MCDrained adds to Transfer's.
THEOREM SentOnceInvariant == MCSpec => [](ReceiverInv /\ SenderInv /\ NetworkTypes /\ SentOnce)
<1>1. MCSpec => [](ReceiverInv /\ SenderInv)
  BY DrainedRuns, TransferInvariant, PTL
<1>2. MCInit => NetworkTypes /\ SentOnce
  <2> SUFFICES ASSUME MCInit PROVE NetworkTypes /\ SentOnce
    OBVIOUS
  <2>1. TransferInit
    BY DEF MCInit
  <2>2. ASSUME NEW x \in Xfers
        PROVE  /\ snd[x].tries = 1 /\ snd[x].pc = "start" /\ ~ Known(x)
               /\ \A c \in Chunks : flight[x][c] = 0
    BY <2>1 DEF TransferInit, Init, NewSender, Known
  <2>3. ASSUME NEW x \in Xfers
        PROVE  OnFirst(x) /\ Unsent(x)
    BY <2>1, <2>2 DEF TransferInit, OnFirst, Unsent, Known
  <2> QED
    BY <2>1, <2>3, NetworkInit DEF SentOnce
<1>3. /\ ReceiverInv /\ SenderInv /\ NetworkTypes /\ SentOnce
      /\ [MCNext]_mcvars
      => NetworkTypes' /\ SentOnce'
  <2> SUFFICES ASSUME ReceiverInv, SenderInv, NetworkTypes, SentOnce, [MCNext]_mcvars
               PROVE  NetworkTypes' /\ SentOnce'
    OBVIOUS
  <2>1. [TransferNext]_vars
    BY DEF MCNext, mcvars
  <2>2. NetworkTypes'
    BY <2>1, NetworkStep
  <2> QED
    BY <2>2, SentOnceStep
<1> QED
  BY <1>1, <1>2, <1>3, PTL DEF MCSpec

\* "Nothing already delivered is sent twice": as long as the pauses drain the
\* network and the first route lives, a chunk that leaves is one the receiver does
\* not hold.  With any losses, late requests, restarts of the receiver and edits.
THEOREM NothingSentTwiceTheorem == MCSpec => NothingSentTwice
<1> DEFINE Fresh ==
      \A x \in Xfers, c \in Chunks :
        (drained /\ snd[x].tries = 1 /\ flight'[x][c] > flight[x][c]) =>
          /\ x \notin completed
          /\ transfers[x] # Absent => c.index \notin transfers[x].have
<1>1. ASSUME ReceiverInv, SenderInv, NetworkTypes, SentOnce, [MCNext]_mcvars
      PROVE  Fresh
  <2> SUFFICES ASSUME NEW x \in Xfers, NEW c \in Chunks, drained, snd[x].tries = 1,
                      flight'[x][c] > flight[x][c]
               PROVE  /\ x \notin completed
                      /\ transfers[x] # Absent => c.index \notin transfers[x].have
    OBVIOUS
  <2>0. /\ flight \in [Xfers -> [Chunks -> 0 .. MaxCopies]] /\ MaxCopies \in Nat
        /\ flight[x][c] \in Nat
    BY <1>1, TransferAssumption DEF NetworkTypes
  <2>1. [TransferNext]_vars
    BY <1>1 DEF MCNext, mcvars
  <2>2. flight'[x][c] \in Int
    BY <1>1, <2>1, NetworkStep DEF NetworkTypes
  <2>3. Unsent(x)
    BY <1>1, Zenon DEF SentOnce
  <2>4. ~ (flight'[x][c] <= flight[x][c])
    BY <2>0, <2>2
  <2>5. SenderStep(x)
    <3>1. Acts(x)
      BY <1>1, <2>1, <2>4, OthersWait DEF Waits
    <3>2. ~ CallFails(x) /\ ~ RouteDies(x) /\ ~ ReceiveCall(x)
      BY <2>0, <2>4 DEF CallFails, RouteDies, ReceiveCall
    <3> QED
      BY <3>1, <3>2 DEF Acts
  <2>6. SenderDoes(x)
    BY <1>1, <2>5, SenderSteps
  <2>7. PICK i \in Slots : SendsOne(x, i)
    BY <2>0, <2>4, <2>6 DEF SenderDoes, Begins, StartsToAsk, OpensAgain, StartsToSend, AsksAgain,
       Ends, Quiet
  <2> DEFINE d == ChunkOf(snd[x].content, i)
  <2>8. flight' = flight \/ flight' = [flight EXCEPT ![x][d] = flight[x][d] + 1]
    BY <2>7, Zenon DEF SendsOne
  <2>9. d \in Chunks /\ d.index = i /\ i \in snd[x].to_send /\ snd[x].pc = "blast"
    BY <2>7 DEF SendsOne, ChunkOf
  <2> HIDE DEF d
  <2>10. c = d
    BY <2>0, <2>4, <2>8, <2>9
  <2> QED
    BY <2>3, <2>9, <2>10 DEF Unsent, NotHeld
<1>2. /\ ReceiverInv /\ SenderInv /\ NetworkTypes /\ SentOnce /\ [MCNext]_mcvars
      => [Fresh]_mcvars
  BY <1>1
<1> QED
  BY <1>2, SentOnceInvariant, PTL DEF NothingSentTwice, MCSpec

-----------------------------------------------------------------------------
(* What the sender calls the first pass's loss.                            *)

\* inc was opened for the content v.
Describes(inc, v) ==
  /\ inc.total_len = FileLen[v]
  /\ inc.chunk_size = ChunkSize
  /\ inc.chunk_count = Count(v)

Described(x) == transfers[x] # Absent => Describes(transfers[x], file[x])

LEMMA DescribedStays ==
  ASSUME ReceiverInv, NEW x \in Xfers, Described(x), Moves(x), file' = file
  PROVE  Described(x)'
<1>0. transfers[x] # Absent => transfers[x] \in Incoming /\ Describes(transfers[x], file[x])
  BY DEF ReceiverInv, TypeOK, Described
<1>1. CASE Untouched(x)
  BY <1>1 DEF Untouched, Described
<1>2. CASE Opens(x, ManifestOf(file[x]))
  <2>1. Describes(NewIncoming(ManifestOf(file[x])), file[x])
    BY DEF NewIncoming, ManifestOf, Describes
  <2> QED
    BY <1>2, <2>1 DEF Opens, Described
<1>3. CASE Counts(x)
  <2>1. transfers[x] # Absent /\ transfers'[x] = Asked(transfers[x])
    BY <1>3 DEF Counts
  <2>2. Describes(Asked(transfers[x]), file[x])
    BY <1>0, <2>1 DEF Describes, Asked, Incoming
  <2> QED
    BY <2>1, <2>2 DEF Described
<1>4. ASSUME NEW c \in Chunks, Stores(x, c)
      PROVE  Described(x)'
  <2>1. transfers[x] # Absent /\ transfers'[x] = Store(transfers[x], c)
    BY <1>4 DEF Stores
  <2>2. Describes(Store(transfers[x], c), file[x])
    BY <1>0, <2>1 DEF Describes, Store, Incoming
  <2> QED
    BY <2>1, <2>2 DEF Described
<1>5. CASE Finishes(x)
  BY <1>5 DEF Finishes, Described
<1> QED
  BY <1>1, <1>2, <1>3, <1>4, <1>5 DEF Moves

\* The total in an answer is the number of chunks lacking; and an answer to a file
\* it can name in full does.
LEMMA TotalIsLacking ==
  ASSUME NEW inc \in Incoming, Sound(inc)
  PROVE  /\ IsFiniteSet(Lacking(inc))
         /\ Cardinality(Lacking(inc)) = Missing(inc).total
         /\ inc.chunk_count <= MaxListed => Missing(inc).listed = Lacking(inc)
<1> DEFINE all == 0 .. inc.chunk_count - 1
           L == Lacking(inc)
           Below(i) == {j \in L : j < i}
<1>0. /\ inc.chunk_count \in Nat /\ all \subseteq Slots /\ inc.have \subseteq all
      /\ inc.have_count = Cardinality(inc.have) /\ IsFiniteSet(inc.have)
  BY SlotsSuffice DEF Sound, CountIsHave
<1>1. L = all \ inc.have
  BY <1>0, ReceiverAssumption DEF Lacking, Slots
<1>2. IsFiniteSet(all) /\ Cardinality(all) = inc.chunk_count
  <2>1. 0 \in Int /\ inc.chunk_count - 1 \in Int
    BY <1>0
  <2>2. /\ IsFiniteSet(all)
        /\ Cardinality(all) = IF 0 > inc.chunk_count - 1 THEN 0
                              ELSE (inc.chunk_count - 1) - 0 + 1
    BY <2>1, FS_Interval, Zenon
  <2> QED
    BY <1>0, <2>2
<1>3. all \cap inc.have = inc.have
  BY <1>0
<1>4. IsFiniteSet(L) /\ Cardinality(L) = inc.chunk_count - inc.have_count
  <2>1. /\ IsFiniteSet(all \ inc.have)
        /\ Cardinality(all \ inc.have) = Cardinality(all) - Cardinality(all \cap inc.have)
    BY <1>2, FS_Difference, Zenon
  <2>2. Cardinality(all \cap inc.have) = inc.have_count
    BY <1>0, <1>3, Zenon
  <2>3. IsFiniteSet(L) /\ Cardinality(L) = Cardinality(all \ inc.have)
    BY <1>1, <2>1, Zenon
  <2> QED
    BY <1>2, <2>1, <2>2, <2>3
<1>5. ASSUME inc.chunk_count <= MaxListed, NEW i \in L
      PROVE  Cardinality(Below(i)) < MaxListed
  <2>1. i \in Nat /\ i < inc.chunk_count
    BY <1>0, <1>1
  <2>2. Below(i) \subseteq 0 .. i - 1
    BY <1>0, <1>1, <2>1
  <2>3. IsFiniteSet(0 .. i - 1) /\ Cardinality(0 .. i - 1) <= i
    <3>1. 0 \in Int /\ i - 1 \in Int
      BY <2>1
    <3>2. /\ IsFiniteSet(0 .. i - 1)
          /\ Cardinality(0 .. i - 1) = IF 0 > i - 1 THEN 0 ELSE (i - 1) - 0 + 1
      BY <3>1, FS_Interval, Zenon
    <3> QED
      BY <2>1, <3>2
  <2>4. /\ Cardinality(Below(i)) <= Cardinality(0 .. i - 1)
        /\ Cardinality(Below(i)) \in Nat /\ Cardinality(0 .. i - 1) \in Nat
    BY <2>2, <2>3, FS_Subset, FS_CardinalityType
  <2> QED
    BY <1>0, <1>5, <2>1, <2>3, <2>4, ReceiverAssumption
<1>6. inc.chunk_count <= MaxListed => Missing(inc).listed = L
  BY <1>5 DEF Missing
<1> QED
  BY <1>4, <1>6 DEF Missing

\* A chunk of a file the receiver lacks is one that can be sent, and it is stored
\* when it arrives.
LEMMA LackedIsStored ==
  ASSUME NEW inc \in Incoming, Sound(inc), NEW v \in Contents, Describes(inc, v),
         NEW i \in Lacking(inc)
  PROVE  /\ ChunkOf(v, i) \in Chunks /\ ChunkOf(v, i).index = i
         /\ i \notin Lacking(Store(inc, ChunkOf(v, i)))
<1> DEFINE c == ChunkOf(v, i)
<1>1. /\ inc.chunk_count \in Nat /\ i \in 0 .. inc.chunk_count - 1 /\ i \in Slots
      /\ i \notin inc.have
  BY SlotsSuffice, ReceiverAssumption DEF Lacking, Slots
<1>2. SpanStart(inc, i) < SpanEnd(inc, i) /\ SpanEnd(inc, i) <= inc.total_len
  BY <1>1, SpansTile
<1>3. SpanStart(inc, i) = i * ChunkSize
  BY DEF SpanStart, Describes
<1>4. /\ FileLen[v] \in Nat /\ i * ChunkSize \in Int
      /\ SpanEnd(inc, i) \in Int
  BY <1>1, TransferAssumption, ReceiverAssumption DEF SpanEnd, Describes, Slots
<1>5. i * ChunkSize <= FileLen[v]
  BY <1>2, <1>3, <1>4 DEF Describes
<1>6. c \in Chunks
  BY <1>1, <1>5, TransferAssumption
<1>7. c.index = i /\ c.len = SpanEnd(inc, i) - SpanStart(inc, i)
  BY <1>3 DEF ChunkOf, SpanEnd, Describes
<1> HIDE DEF c
<1>8. Belongs(inc, c)
  BY <1>1, <1>7 DEF Belongs
<1>9. i \in Store(inc, c).have
  BY <1>1, <1>7, <1>8 DEF Store, Incoming
<1> QED
  BY <1>6, <1>7, <1>9 DEF Lacking, c

\* Of the chunks x lacks, those that will not come: not to be sent in this pass,
\* nor in flight.
Gone(x) ==
  {i \in Lacking(transfers[x]) :
     i \notin snd[x].to_send /\ flight[x][ChunkOf(snd[x].content, i)] = 0}

LEMMA FewerGone ==
  ASSUME NEW S, NEW T, S \subseteq T, T \subseteq Slots
  PROVE  /\ IsFiniteSet(S) /\ IsFiniteSet(T)
         /\ Cardinality(S) \in Nat /\ Cardinality(T) \in Nat
         /\ Cardinality(S) <= Cardinality(T)
<1>1. IsFiniteSet(Slots)
  BY ReceiverAssumption, FS_Interval DEF Slots
<1>2. IsFiniteSet(S) /\ IsFiniteSet(T)
  BY <1>1, FS_Subset
<1> QED
  BY <1>2, FS_Subset, FS_CardinalityType

LEMMA OneMoreGone ==
  ASSUME NEW S, NEW T, NEW i, S \subseteq T \cup {i}, T \subseteq Slots
  PROVE  /\ Cardinality(S) \in Nat /\ Cardinality(T) \in Nat
         /\ Cardinality(S) <= Cardinality(T) + 1
<1>1. IsFiniteSet(T) /\ Cardinality(T) \in Nat
  BY FewerGone
<1>2. IsFiniteSet(T \cup {i}) /\ Cardinality(T \cup {i}) <= Cardinality(T) + 1
  <2>1. CASE i \in T
    <3>1. T \cup {i} = T
      BY <2>1
    <3>2. Cardinality(T \cup {i}) = Cardinality(T) /\ IsFiniteSet(T \cup {i})
      BY <1>1, <3>1, Zenon
    <3> QED
      BY <1>1, <3>2
  <2>2. CASE i \notin T
    <3>1. /\ IsFiniteSet(T \cup {i})
          /\ Cardinality(T \cup {i}) = Cardinality(T) + 1
      BY <1>1, <2>2, FS_AddElement
    <3> QED
      BY <1>1, <3>1
  <2> QED
    BY <2>1, <2>2
<1>3. /\ IsFiniteSet(S) /\ Cardinality(S) <= Cardinality(T \cup {i})
      /\ Cardinality(S) \in Nat /\ Cardinality(T \cup {i}) \in Nat
  BY <1>2, FS_Subset, FS_CardinalityType
<1> QED
  BY <1>1, <1>2, <1>3

\* No transfer is opened a second time: a receiver that keeps running knows every
\* transfer whose manifest it accepted.
OpenedOnce(x) ==
  /\ snd[x].pc # "reopen"
  /\ snd[x].pc \in {"ask", "blast", "settle"} => Known(x)
  /\ (snd[x].pc = "open" /\ call[x].st = "answered" /\ call[x].reply.accepted) => Known(x)
  /\ (snd[x].pc = "ask" /\ call[x].st = "answered") => call[x].reply.state # "unknown"

\* The losses that will be counted, from the first answer on: the chunks gone while
\* the first pass and the pause after it last, then all that are lacking, then the
\* total in the answer, and then what the sender keeps of it.
Bounded(x) ==
  /\ snd[x].pc = "settle" => snd[x].to_send = {}
  /\ snd[x].first_pass_missing # None => snd[x].first_pass_missing <= lost
  /\ (/\ snd[x].pc = "ask" /\ call[x].st = "answered" /\ call[x].reply.state = "in_progress"
      /\ transfers[x] # Absent)
       => Lacking(transfers[x]) \subseteq call[x].reply.missing
  /\ (snd[x].pc \in {"blast", "settle"} /\ snd[x].round = 0 /\ transfers[x] # Absent)
       => Cardinality(Gone(x)) <= lost
  /\ (snd[x].pc = "ask" /\ snd[x].round = 1) =>
       /\ transfers[x] # Absent => Cardinality(Lacking(transfers[x])) <= lost
       /\ call[x].st = "answered" => call[x].reply.missing_total <= lost

LossInv ==
  /\ restarts = 0
  /\ MessagesFromFile
  /\ \A x \in Xfers :
       /\ Described(x) /\ OpenedOnce(x)
       /\ drained /\ FitsOneAnswer(x) => Bounded(x)

LEMMA OpenedOnceStep ==
  ASSUME ReceiverInv, SenderInv, NetworkTypes, [TransferNext]_vars, restarts' = restarts,
         NEW x \in Xfers, OpenedOnce(x)
  PROVE  OpenedOnce(x)'
<1>0. Known(x) => Known(x)'
  BY ReceiverStep, KnownStays
<1>1. CASE SenderStep(x)
  <2>1. SenderDoes(x) /\ UNCHANGED rvars
    BY <1>1, SenderSteps
  <2>2. ~ OpensAgain(x)
    BY DEF OpensAgain, TellsOf, OpenedOnce
  <2> QED
    BY <1>0, <2>1, <2>2 DEF SenderDoes, Begins, StartsToAsk, StartsToSend, SendsOne, AsksAgain, Ends,
       TellsOf, OpenedOnce
<1>2. CASE CallFails(x) \/ RouteDies(x)
  <2>1. Retries(x) \/ Leaves(x)
    BY <1>2, CallSteps
  <2> QED
    BY <1>0, <2>1 DEF Retries, Leaves, OpenedOnce, Calling
<1>3. CASE ReceiveCall(x)
  <2>1. /\ snd' = snd /\ snd[x].pc \in {"open", "ask"} /\ Handle(Request(x))
        /\ call'[x].reply = ReplyTo(Request(x))
        /\ Request(x).xfer = x /\ Request(x).content = snd[x].content
    BY <1>3 DEF ReceiveCall, Calling, OpenedOnce, SenderInv, Answer, Request
  <2>2. CASE snd[x].pc = "ask"
    <3>1. call'[x].reply = StatusReply(x)
      BY <2>1, <2>2 DEF ReplyTo, Request
    <3>2. StatusReply(x).state # "unknown"
      BY <2>2 DEF OpenedOnce, StatusReply, Known
    <3> QED
      BY <1>0, <2>1, <2>2, <3>1, <3>2 DEF OpenedOnce
  <2>3. CASE snd[x].pc = "open"
    <3> DEFINE m == ManifestOf(snd[x].content)
    <3>1. RecvManifest(x, m) /\ call'[x].reply = [accepted |-> ManifestOk(x, m)]
      BY <2>1, <2>3 DEF Handle, ReplyTo, Request
    <3>2. m \in Manifests
      BY ManifestsOfContents DEF SenderInv, SenderTypes, Senders
    <3> HIDE DEF m
    <3>3. ASSUME Fits(m), ~ Known(x)
          PROVE  Known(x)'
      <4>1. transfers'[x] = NewIncoming(m)
        BY <3>1, <3>3 DEF RecvManifest, ReceiverInv, TypeOK
      <4>2. NewIncoming(m) # Absent
        BY <3>2, <3>3, NewIsSound, ReceiverAssumption, AbsentAssumption
      <4> QED
        BY <4>1, <4>2 DEF Known
    <3>4. call'[x].reply.accepted => Known(x)'
      <4> DEFINE b == ManifestOk(x, m)
      <4>1. b => Known(x)'
        BY <1>0, <3>3 DEF ManifestOk
      <4>2. call'[x].reply = [accepted |-> b]
        BY <3>1
      <4> HIDE DEF b
      <4>3. call'[x].reply.accepted = b
        BY <4>2
      <4> QED
        BY <4>1, <4>3, Zenon
    <3> QED
      BY <2>1, <2>3, <3>4 DEF OpenedOnce
  <2> QED
    BY <2>1, <2>2, <2>3
<1>4. CASE ~ Acts(x)
  <2>1. Waits(x)
    BY <1>4, OthersWait
  <2> QED
    BY <1>0, <2>1 DEF Waits, OpenedOnce
<1> QED
  BY <1>1, <1>2, <1>3, <1>4 DEF Acts

\* What an entry is while nothing disturbs the file.
LEMMA EntryIs ==
  ASSUME ReceiverInv, SenderInv, MessagesFromFile, NEW x \in Xfers, Described(x)
  PROVE  /\ snd[x].content \in Contents
         /\ transfers[x] # Absent =>
              /\ transfers[x] \in Incoming /\ Sound(transfers[x])
              /\ Describes(transfers[x], snd[x].content)
BY DEF ReceiverInv, TypeOK, TransfersSound, SenderInv, SenderTypes, Senders, MessagesFromFile,
       Described

LEMMA Measures ==
  ASSUME SenderInv, NetworkTypes, NEW x \in Xfers
  PROVE  /\ lost \in Nat /\ snd[x].round \in Nat
         /\ snd[x].first_pass_missing \in Nat \cup {None}
         /\ Lacking(transfers[x]) \subseteq Slots /\ Gone(x) \subseteq Lacking(transfers[x])
         /\ Cardinality(Lacking(transfers[x])) \in Nat /\ Cardinality(Gone(x)) \in Nat
<1>1. /\ lost \in Nat /\ snd[x].round \in Nat
      /\ snd[x].first_pass_missing \in Nat \cup {None}
  <2>1. MaxLost \in Nat
    BY TransferAssumption
  <2>2. lost \in Nat
    BY <2>1 DEF NetworkTypes
  <2>3. snd[x] \in Senders
    BY DEF SenderInv, SenderTypes
  <2> QED
    BY <2>2, <2>3 DEF Senders
<1>2. Lacking(transfers[x]) \subseteq Slots /\ Gone(x) \subseteq Lacking(transfers[x])
  BY DEF Lacking, Gone
<1>3. Cardinality(Lacking(transfers[x])) \in Nat /\ Cardinality(Gone(x)) \in Nat
  BY <1>2, FewerGone
<1> QED
  BY <1>1, <1>2, <1>3

LEMMA NetworkOf ==
  ASSUME SenderInv, NetworkTypes, [TransferNext]_vars, NEW x \in Xfers, ~ Acts(x)
  PROVE  /\ lost' \in {lost, lost + 1}
         /\ \/ \E c \in Chunks : ReceiveChunk(x, c) \/ LoseChunk(x, c)
            \/ flight'[x] = flight[x]
<1>0. flight \in [Xfers -> [Chunks -> 0 .. MaxCopies]]
  BY DEF NetworkTypes
<1>1. ASSUME NEW y \in Xfers \ {x}, SenderStep(y)
      PROVE  lost' \in {lost, lost + 1} /\ flight'[x] = flight[x]
  BY <1>0, <1>1 DEF SenderStep, Start, Accepted, Refused, ToldComplete, ToldUnknown, ToldMissing,
     UnderflowPanic, Told, SendChunk, SlicePanic, Settled
<1>2. ASSUME NEW y \in Xfers \ {x}, CallFails(y) \/ RouteDies(y) \/ ReceiveCall(y)
      PROVE  lost' \in {lost, lost + 1} /\ flight'[x] = flight[x]
  BY <1>2 DEF CallFails, RouteDies, ReceiveCall
<1>3. ASSUME NEW y \in Xfers, NEW c \in Chunks, ReceiveChunk(y, c) \/ LoseChunk(y, c)
      PROVE  lost' \in {lost, lost + 1} /\ (y = x \/ flight'[x] = flight[x])
  <2>1. lost' \in {lost, lost + 1}
    BY <1>3 DEF ReceiveChunk, LoseChunk
  <2>2. flight' = [flight EXCEPT ![y][c] = flight[y][c] - 1]
    BY <1>3, Zenon DEF ReceiveChunk, LoseChunk
  <2> QED
    BY <1>0, <2>1, <2>2
<1>4. ASSUME \/ \E y \in Xfers : WriteFile(y) \/ \E v \in Contents : EditFile(y, v)
             \/ \E r \in late : ReceiveLate(r)
             \/ ReceiverRestarts \/ Over \/ UNCHANGED vars
      PROVE  lost' = lost /\ flight' = flight
  BY <1>4 DEF WriteFile, EditFile, ReceiveLate, ReceiverRestarts, Over, vars, svars
<1> QED
  BY <1>1, <1>2, <1>3, <1>4 DEF TransferNext, Acts

LEMMA BoundedWaits ==
  ASSUME ReceiverInv, SenderInv, NetworkTypes, MessagesFromFile, [TransferNext]_vars,
         restarts' = restarts,
         NEW x \in Xfers, Described(x), OpenedOnce(x), Bounded(x), ~ Acts(x)
  PROVE  Bounded(x)'
<1>0. snd'[x] = snd[x] /\ call'[x] = call[x]
  BY OthersWait DEF Waits
<1>1. /\ lost' \in {lost, lost + 1}
      /\ \/ \E c \in Chunks : ReceiveChunk(x, c) \/ LoseChunk(x, c)
         \/ flight'[x] = flight[x]
  BY NetworkOf
<1>2. ASSUME Known(x), transfers'[x] # Absent
      PROVE  transfers[x] # Absent /\ Lacking(transfers'[x]) \subseteq Lacking(transfers[x])
  BY <1>2, ReceiverStep, KnownStays
<1>3. /\ lost \in Nat /\ snd[x].round \in Nat
      /\ snd[x].first_pass_missing \in Nat \cup {None}
      /\ Lacking(transfers[x]) \subseteq Slots /\ Gone(x) \subseteq Lacking(transfers[x])
      /\ Cardinality(Lacking(transfers[x])) \in Nat /\ Cardinality(Gone(x)) \in Nat
  BY Measures
<1>4. Cardinality(Lacking(transfers'[x])) \in Nat /\ Cardinality(Gone(x)') \in Nat
  <2>1. Lacking(transfers'[x]) \subseteq Slots /\ Gone(x)' \subseteq Slots
    BY DEF Lacking, Gone
  <2> QED
    BY <2>1, FewerGone
<1>5. ASSUME Known(x), transfers'[x] # Absent
      PROVE  Cardinality(Lacking(transfers'[x])) <= Cardinality(Lacking(transfers[x]))
  BY <1>2, <1>3, <1>5, FewerGone
<1>6. ASSUME Known(x), transfers'[x] # Absent
      PROVE  \/ Cardinality(Gone(x)') <= Cardinality(Gone(x))
             \/ lost' = lost + 1 /\ Cardinality(Gone(x)') <= Cardinality(Gone(x)) + 1
  <2> DEFINE v == snd[x].content
             inc == transfers[x]
  <2>1. /\ v \in Contents /\ inc \in Incoming /\ Sound(inc) /\ Describes(inc, v)
        /\ inc # Absent /\ Lacking(transfers'[x]) \subseteq Lacking(inc)
    BY <1>2, <1>6, EntryIs
  <2>2. \A i \in Lacking(inc) : ChunkOf(v, i) \in Chunks /\ ChunkOf(v, i).index = i
    BY <2>1, LackedIsStored
  <2>3. Gone(x)' = {i \in Lacking(transfers'[x]) :
                      i \notin snd[x].to_send /\ flight'[x][ChunkOf(v, i)] = 0}
    BY <1>0 DEF Gone
  <2>4. Gone(x) = {i \in Lacking(inc) :
                     i \notin snd[x].to_send /\ flight[x][ChunkOf(v, i)] = 0}
    BY DEF Gone
  <2>5. flight \in [Xfers -> [Chunks -> 0 .. MaxCopies]]
    BY DEF NetworkTypes
  <2> HIDE DEF v
  <2>6. CASE flight'[x] = flight[x]
    <3>1. Gone(x)' \subseteq Gone(x)
      BY <2>1, <2>3, <2>4, <2>6
    <3> QED
      BY <1>3, <3>1, FewerGone
  <2>7. ASSUME NEW c \in Chunks, ReceiveChunk(x, c)
        PROVE  Cardinality(Gone(x)') <= Cardinality(Gone(x))
    <3>1. transfers'[x] = Store(inc, c)
      BY <2>1, <2>7 DEF ReceiveChunk, RecvChunk, ReceiverInv, TypeOK
    <3>2. \A d \in Chunks \ {c} : flight'[x][d] = flight[x][d]
      BY <2>5, <2>7 DEF ReceiveChunk
    <3>3. ASSUME NEW i \in Gone(x)'
          PROVE  i \in Gone(x)
      <4>1. i \in Lacking(inc) /\ i \in Lacking(Store(inc, c)) /\ i \notin snd[x].to_send
            /\ flight'[x][ChunkOf(v, i)] = 0
        BY <2>1, <2>3, <3>1, <3>3
      <4>2. ChunkOf(v, i) # c /\ ChunkOf(v, i) \in Chunks
        BY <2>1, <4>1, LackedIsStored
      <4> QED
        BY <2>4, <3>2, <4>1, <4>2
    <3>4. Gone(x)' \subseteq Gone(x)
      BY <3>3
    <3> QED
      BY <1>3, <3>4, FewerGone
  <2>8. ASSUME NEW c \in Chunks, LoseChunk(x, c)
        PROVE  lost' = lost + 1 /\ Cardinality(Gone(x)') <= Cardinality(Gone(x)) + 1
    <3>1. lost' = lost + 1 /\ \A d \in Chunks \ {c} : flight'[x][d] = flight[x][d]
      BY <2>5, <2>8 DEF LoseChunk
    <3>2. Gone(x)' \subseteq Gone(x) \cup {c.index}
      BY <2>1, <2>2, <2>3, <2>4, <3>1
    <3>3. Gone(x) \subseteq Slots
      BY <1>3
    <3> QED
      BY <3>1, <3>2, <3>3, OneMoreGone
  <2> QED
    BY <1>1, <2>6, <2>7, <2>8
<1>7. snd[x].pc \in {"ask", "blast", "settle"} => Known(x)
  BY DEF OpenedOnce
<1>8. \A n \in Nat : n <= lost => n <= lost' /\ n + 1 <= lost + 1
  BY <1>1, <1>3
<1>9. lost' \in Nat
  BY <1>1, <1>3
<1>10. ASSUME snd[x].first_pass_missing # None
       PROVE  snd[x].first_pass_missing <= lost'
  BY <1>3, <1>8, <1>10 DEF Bounded
<1>11. ASSUME snd[x].pc \in {"blast", "settle"}, snd[x].round = 0, transfers'[x] # Absent
       PROVE  Cardinality(Gone(x)') <= lost'
  <2>1. Cardinality(Gone(x)) <= lost
    BY <1>2, <1>7, <1>11 DEF Bounded
  <2> QED
    BY <1>1, <1>3, <1>4, <1>6, <1>7, <1>11, <2>1
<1>12. ASSUME snd[x].pc = "ask", snd[x].round = 1, transfers'[x] # Absent
       PROVE  Cardinality(Lacking(transfers'[x])) <= lost'
  <2>1. Cardinality(Lacking(transfers[x])) <= lost
    BY <1>2, <1>7, <1>12 DEF Bounded
  <2> QED
    BY <1>1, <1>3, <1>4, <1>5, <1>7, <1>12, <2>1
<1>13. ASSUME snd[x].pc = "ask", snd[x].round = 1, call[x].st = "answered"
       PROVE  call[x].reply.missing_total <= lost'
  <2>1. call[x].reply.missing_total <= lost /\ call[x].reply.missing_total \in Nat
    BY <1>13 DEF Bounded, SenderInv, AnswerTypes, StatusReplies
  <2> QED
    BY <1>8, <2>1
<1>14. ASSUME snd[x].pc = "ask", call[x].st = "answered", call[x].reply.state = "in_progress",
              transfers'[x] # Absent
       PROVE  Lacking(transfers'[x]) \subseteq call[x].reply.missing
  BY <1>2, <1>7, <1>14 DEF Bounded
<1>15. snd[x].pc = "settle" => snd[x].to_send = {}
  BY DEF Bounded
<1> QED
  BY <1>0, <1>10, <1>11, <1>12, <1>13, <1>14, <1>15 DEF Bounded

\* Sending one chunk more: it is in flight, or lost and counted.
LEMMA BoundedSends ==
  ASSUME ReceiverInv, SenderInv, NetworkTypes, MessagesFromFile,
         NEW x \in Xfers, Described(x), OpenedOnce(x), Bounded(x), UNCHANGED rvars,
         NEW i \in Slots, SendsOne(x, i)
  PROVE  Bounded(x)'
<1> DEFINE v == snd[x].content
           inc == transfers[x]
           c == ChunkOf(v, i)
<1>0. /\ lost \in Nat /\ snd[x].round \in Nat
      /\ snd[x].first_pass_missing \in Nat \cup {None}
      /\ Lacking(inc) \subseteq Slots /\ Gone(x) \subseteq Lacking(inc)
      /\ Cardinality(Gone(x)) \in Nat
  BY Measures
<1>1. /\ snd[x].pc = "blast" /\ snd'[x].content = v /\ snd'[x].round = snd[x].round
      /\ snd'[x].first_pass_missing = snd[x].first_pass_missing
      /\ snd'[x].to_send = snd[x].to_send \ {i}
      /\ \/ snd'[x].pc = "blast"
         \/ snd'[x].pc = "settle" /\ snd'[x].to_send = {}
      /\ c \in Chunks /\ transfers' = transfers
  BY DEF SendsOne, Keeps, rvars
<1>2. \/ flight' = [flight EXCEPT ![x][c] = flight[x][c] + 1] /\ lost' = lost
      \/ flight' = flight /\ lost' = lost + 1
  BY Zenon DEF SendsOne
<1>3. /\ flight \in [Xfers -> [Chunks -> 0 .. MaxCopies]] /\ MaxCopies \in Nat
      /\ \A d \in Chunks : flight[x][d] \in Nat
  BY TransferAssumption DEF NetworkTypes
<1>4. lost' \in {lost, lost + 1}
  BY <1>2
<1>5. Gone(x)' = {j \in Lacking(inc) :
                    j \notin snd[x].to_send \ {i} /\ flight'[x][ChunkOf(v, j)] = 0}
  BY <1>1 DEF Gone
<1>6. Gone(x) = {j \in Lacking(inc) :
                   j \notin snd[x].to_send /\ flight[x][ChunkOf(v, j)] = 0}
  BY DEF Gone
<1>7. ASSUME inc # Absent
      PROVE  \A j \in Lacking(inc) : ChunkOf(v, j) \in Chunks /\ ChunkOf(v, j).index = j
  BY <1>7, EntryIs, LackedIsStored
<1>8. c.index = i
  BY DEF ChunkOf
<1> HIDE DEF v, c
<1>9. ASSUME inc # Absent, flight' = [flight EXCEPT ![x][c] = flight[x][c] + 1]
      PROVE  Gone(x)' \subseteq Gone(x)
  <2> SUFFICES ASSUME NEW j \in Gone(x)' PROVE j \in Gone(x)
    OBVIOUS
  <2>1. /\ j \in Lacking(inc) /\ j \notin snd[x].to_send \ {i}
        /\ flight'[x][ChunkOf(v, j)] = 0
    BY <1>5
  <2>2. ChunkOf(v, j) \in Chunks
    BY <1>7, <1>9, <2>1
  <2>3. j # i
    <3>1. flight'[x][c] # 0
      BY <1>1, <1>3, <1>9
    <3> QED
      BY <2>1, <3>1 DEF c
  <2>4. ChunkOf(v, j) # c
    BY <1>7, <1>8, <1>9, <2>1, <2>3
  <2>5. flight'[x][ChunkOf(v, j)] = flight[x][ChunkOf(v, j)]
    BY <1>1, <1>3, <1>9, <2>2, <2>4
  <2> QED
    BY <1>6, <2>1, <2>3, <2>5
<1>10. ASSUME flight' = flight
       PROVE  Gone(x)' \subseteq Gone(x) \cup {i}
  BY <1>5, <1>6, <1>10
<1>11. ASSUME inc # Absent, snd[x].round = 0
       PROVE  Cardinality(Gone(x)') <= lost'
  <2>1. Cardinality(Gone(x)) <= lost
    BY <1>1, <1>11 DEF Bounded
  <2>2. Gone(x) \subseteq Slots
    BY <1>0
  <2>3. CASE flight' = [flight EXCEPT ![x][c] = flight[x][c] + 1] /\ lost' = lost
    <3>1. Cardinality(Gone(x)') \in Nat /\ Cardinality(Gone(x)') <= Cardinality(Gone(x))
      BY <1>9, <1>11, <2>2, <2>3, FewerGone
    <3> QED
      BY <1>0, <2>1, <2>3, <3>1
  <2>4. CASE flight' = flight /\ lost' = lost + 1
    <3>1. Cardinality(Gone(x)') \in Nat /\ Cardinality(Gone(x)') <= Cardinality(Gone(x)) + 1
      BY <1>10, <2>2, <2>4, OneMoreGone
    <3> QED
      BY <1>0, <2>1, <2>4, <3>1
  <2> QED
    BY <1>2, <2>3, <2>4
<1>12. ASSUME snd[x].first_pass_missing # None
       PROVE  snd[x].first_pass_missing <= lost'
  BY <1>0, <1>4, <1>12 DEF Bounded
<1> QED
  BY <1>1, <1>11, <1>12 DEF Bounded

\* The pause is over and has drained the network: all that are lacking are gone.
LEMMA BoundedAsksAgain ==
  ASSUME ReceiverInv, SenderInv, NetworkTypes, MessagesFromFile,
         NEW x \in Xfers, Described(x), OpenedOnce(x), Bounded(x), UNCHANGED rvars,
         AsksAgain(x), \A c \in Chunks : flight[x][c] = 0
  PROVE  Bounded(x)'
<1> DEFINE inc == transfers[x]
<1>0. snd[x].round \in Nat
  BY Measures
<1>1. /\ snd[x].pc = "settle" /\ snd'[x].pc = "ask" /\ snd'[x].round = snd[x].round + 1
      /\ snd'[x].first_pass_missing = snd[x].first_pass_missing
      /\ call'[x].st # "answered" /\ lost' = lost /\ transfers' = transfers
  BY DEF AsksAgain, Keeps, Quiet, rvars
<1>2. ASSUME inc # Absent, snd'[x].round = 1
      PROVE  Cardinality(Lacking(inc)) <= lost
  <2>1. snd[x].round = 0 /\ snd[x].to_send = {} /\ Cardinality(Gone(x)) <= lost
    BY <1>0, <1>1, <1>2 DEF Bounded
  <2>2. \A j \in Lacking(inc) : flight[x][ChunkOf(snd[x].content, j)] = 0
    BY <1>2, EntryIs, LackedIsStored
  <2>3. Gone(x) = Lacking(inc)
    BY <2>1, <2>2 DEF Gone
  <2> QED
    BY <2>1, <2>3
<1> QED
  BY <1>1, <1>2 DEF Bounded

\* The steps x's own sender takes.
LEMMA BoundedActs ==
  ASSUME ReceiverInv, SenderInv, NetworkTypes, MessagesFromFile,
         NEW x \in Xfers, Described(x), OpenedOnce(x), Bounded(x),
         SenderStep(x) \/ CallFails(x) \/ RouteDies(x),
         PauseEnds(x) => \A c \in Chunks : flight[x][c] = 0
  PROVE  Bounded(x)'
<1>0. /\ lost \in Nat /\ snd[x].round \in Nat
      /\ snd[x].first_pass_missing \in Nat \cup {None}
  BY Measures
<1>1. ASSUME TellsOf(x, call[x].reply.state), snd'[x].first_pass_missing # None
      PROVE  snd'[x].first_pass_missing <= lost
  BY <1>1 DEF TellsOf, Bounded
<1>2. CASE SenderStep(x)
  <2>1. UNCHANGED rvars /\ SenderDoes(x)
    BY <1>2, SenderSteps
  <2>2. CASE Begins(x)
    BY <2>2 DEF Begins, Bounded, Quiet
  <2>3. CASE StartsToAsk(x)
    <3>1. snd'[x].round = 0
      BY <2>3 DEF StartsToAsk, OpenedOnce
    <3> QED
      BY <2>3, <3>1 DEF StartsToAsk, Keeps, Bounded, Quiet
  <2>4. CASE OpensAgain(x)
    BY <2>4 DEF OpensAgain, TellsOf, OpenedOnce
  <2>5. CASE StartsToSend(x)
    <3>1. /\ snd[x].pc = "ask" /\ call[x].st = "answered" /\ call[x].reply.state = "in_progress"
          /\ snd'[x].pc = "blast" /\ snd'[x].round = snd[x].round /\ lost' = lost
          /\ snd'[x].to_send = call[x].reply.missing /\ transfers' = transfers
          /\ TellsOf(x, call[x].reply.state)
      BY <2>1, <2>5 DEF StartsToSend, TellsOf, Quiet, rvars
    <3>2. ASSUME transfers[x] # Absent
          PROVE  Cardinality(Gone(x)') <= lost
      <4>1. Lacking(transfers[x]) \subseteq call[x].reply.missing
        BY <3>1, <3>2 DEF Bounded
      <4>2. Gone(x)' = {}
        BY <3>1, <4>1 DEF Gone
      <4>3. Cardinality(Gone(x)') = 0
        BY <4>2, FS_EmptySet, Zenon
      <4> QED
        BY <1>0, <4>3
    <3> QED
      BY <1>1, <3>1, <3>2 DEF Bounded
  <2>6. CASE \E i \in Slots : SendsOne(x, i)
    BY <2>1, <2>6, BoundedSends
  <2>7. CASE AsksAgain(x)
    <3>1. PauseEnds(x)
      BY <1>0, <2>7 DEF AsksAgain, PauseEnds
    <3> QED
      BY <2>1, <2>7, <3>1, BoundedAsksAgain
  <2>8. CASE Ends(x)
    <3>1. snd'[x].first_pass_missing # None => snd'[x].first_pass_missing <= lost
      BY <1>1, <2>8 DEF Ends, Keeps, TellsOf, Bounded
    <3> QED
      BY <2>8, <3>1 DEF Ends, Bounded, Quiet
  <2> QED
    BY <2>1, <2>2, <2>3, <2>4, <2>5, <2>6, <2>7, <2>8 DEF SenderDoes
<1>3. CASE CallFails(x) \/ RouteDies(x)
  <2>1. /\ transfers' = transfers /\ flight' = flight /\ lost' \in {lost, lost + 1}
        /\ Retries(x) \/ Leaves(x)
    BY <1>3, CallSteps DEF rvars
  <2>2. /\ snd'[x].first_pass_missing = snd[x].first_pass_missing
        /\ snd[x].first_pass_missing # None => snd[x].first_pass_missing <= lost'
    BY <1>0, <2>1 DEF Retries, Leaves, Keeps, Bounded
  <2>3. CASE Retries(x)
    <3>1. /\ snd'[x].pc = snd[x].pc /\ snd[x].pc \in Calling /\ snd'[x].round = snd[x].round
          /\ call'[x].st # "answered"
      BY <2>3 DEF Retries
    <3>2. ASSUME snd[x].pc = "ask", snd[x].round = 1, transfers[x] # Absent
          PROVE  Cardinality(Lacking(transfers[x])) <= lost'
      <4>1. /\ Cardinality(Lacking(transfers[x])) <= lost
            /\ Cardinality(Lacking(transfers[x])) \in Nat
        BY <3>2, Measures DEF Bounded
      <4> QED
        BY <1>0, <2>1, <4>1
    <3> QED
      BY <2>1, <2>2, <3>1, <3>2 DEF Bounded, Calling
  <2>4. CASE Leaves(x)
    <3>1. snd'[x].pc \in {"start", "failed"}
      BY <2>4 DEF Leaves
    <3> QED
      BY <2>2, <3>1 DEF Bounded
  <2> QED
    BY <2>1, <2>3, <2>4
<1> QED
  BY <1>2, <1>3

\* What the receiver answers.
LEMMA BoundedCalls ==
  ASSUME ReceiverInv, SenderInv, NetworkTypes, MessagesFromFile,
         NEW x \in Xfers, Described(x), OpenedOnce(x), Bounded(x), FitsOneAnswer(x),
         ReceiveCall(x)
  PROVE  Bounded(x)'
<1> DEFINE inc == transfers[x]
<1>0. /\ lost \in Nat /\ snd' = snd /\ lost' = lost /\ flight' = flight
      /\ snd[x].pc \in {"open", "ask"}
  BY Measures DEF ReceiveCall, Calling, OpenedOnce
<1>1. CASE snd[x].pc = "open"
  BY <1>0, <1>1 DEF Bounded
<1>2. CASE snd[x].pc = "ask"
  <2>1. Request(x).kind = "status" /\ Request(x).xfer = x
    BY <1>2 DEF Request
  <2>2. RecvStatus(x) /\ call' = [call EXCEPT ![x] = Answer(StatusReply(x))]
    BY <2>1 DEF ReceiveCall, Handle, ReplyTo
  <2>3. call'[x].reply = StatusReply(x)
    BY <2>2 DEF SenderInv, Answer
  <2>4. CASE inc = Absent
    <3>1. transfers'[x] = Absent /\ StatusReply(x).missing_total = 0
      BY <2>2, <2>4 DEF RecvStatus, StatusReply
    <3> QED
      BY <1>0, <1>2, <2>3, <3>1 DEF Bounded
  <2>5. CASE inc # Absent
    <3>1. inc \in Incoming /\ Sound(inc) /\ Describes(inc, snd[x].content)
      BY <2>5, EntryIs
    <3>2. inc.chunk_count <= MaxListed
      BY <3>1 DEF Describes, FitsOneAnswer
    <3>3. /\ Missing(inc).listed = Lacking(inc)
          /\ Missing(inc).total = Cardinality(Lacking(inc))
      BY <3>1, <3>2, TotalIsLacking
    <3>4. /\ StatusReply(x).missing = Lacking(inc)
          /\ StatusReply(x).missing_total = Cardinality(Lacking(inc))
      BY <2>5, <3>3 DEF StatusReply
    <3>5. transfers'[x] = Asked(inc)
      BY <2>2, <2>5 DEF RecvStatus, ReceiverInv, TypeOK
    <3>6. Lacking(Asked(inc)) = Lacking(inc)
      BY <3>1, AskedKeeps DEF Lacking
    <3>7. snd[x].round = 1 => Cardinality(Lacking(inc)) <= lost
      BY <1>2, <2>5 DEF Bounded
    <3> HIDE DEF inc
    <3> QED
      BY <1>0, <1>2, <2>3, <3>4, <3>5, <3>6, <3>7 DEF Bounded
  <2> QED
    BY <2>4, <2>5
<1> QED
  BY <1>0, <1>1, <1>2

LEMMA LossInvStep ==
  ASSUME Undisturbed, ReceiverInv, SenderInv, NetworkTypes, LossInv, [MCNext]_mcvars
  PROVE  LossInv'
<1>0. /\ [TransferNext]_vars /\ restarts = 0 /\ MessagesFromFile
      /\ MaxRestarts = 0
  BY DEF MCNext, mcvars, LossInv, Undisturbed
<1>1. restarts' = restarts /\ MessagesFromFile' /\ file' = file
  BY <1>0, NoRestart, MessagesStep, StepShape
<1>2. ASSUME NEW x \in Xfers
      PROVE  Described(x)'
  <2>1. Described(x)
    BY DEF LossInv
  <2>2. ASSUME UNCHANGED rvars PROVE Untouched(x)
    BY <2>2 DEF rvars, Untouched, DiskKept
  <2>3. Moves(x)
    BY <1>0, <2>2, StepShape DEF SenderMoves, Moves
  <2> QED
    BY <1>1, <2>1, <2>3, DescribedStays
<1>3. ASSUME NEW x \in Xfers
      PROVE  OpenedOnce(x)'
  <2>1. OpenedOnce(x)
    BY DEF LossInv
  <2> QED
    BY <1>0, <1>1, <2>1, OpenedOnceStep
<1>4. ASSUME NEW x \in Xfers, drained', FitsOneAnswer(x)'
      PROVE  Bounded(x)'
  <2>1. drained /\ (PauseEnds(x) => \A c \in Chunks : flight[x][c] = 0)
    BY <1>4, DrainedSince
  <2>2. FitsOneAnswer(x)
    BY <1>0, <1>1, <1>4 DEF FitsOneAnswer, MessagesFromFile
  <2>3. Bounded(x)
    BY <2>1, <2>2, Zenon DEF LossInv
  <2>4. Described(x) /\ OpenedOnce(x)
    BY DEF LossInv
  <2>5. CASE SenderStep(x) \/ CallFails(x) \/ RouteDies(x)
    BY <1>0, <2>1, <2>3, <2>4, <2>5, BoundedActs
  <2>6. CASE ReceiveCall(x)
    BY <1>0, <2>2, <2>3, <2>4, <2>6, BoundedCalls
  <2>7. CASE ~ Acts(x)
    BY <1>0, <1>1, <2>3, <2>4, <2>7, BoundedWaits
  <2> QED
    BY <2>5, <2>6, <2>7 DEF Acts
<1>5. restarts' = 0
  BY <1>0, <1>1
<1> QED
  BY <1>1, <1>2, <1>3, <1>4, <1>5, Zenon DEF LossInv

THEOREM LossInvariant ==
  ASSUME Undisturbed
  PROVE  MCSpec => []LossInv
<1>1. MCInit => LossInv
  <2> SUFFICES ASSUME MCInit PROVE LossInv
    OBVIOUS
  <2>0. TransferInit
    BY DEF MCInit
  <2>1. restarts = 0 /\ MessagesFromFile
    BY <2>0, HonestInit DEF HonestInv
  <2>2. ASSUME NEW x \in Xfers
        PROVE  Described(x) /\ OpenedOnce(x) /\ Bounded(x)
    BY <2>0 DEF TransferInit, Init, NewSender, Described, OpenedOnce, Bounded
  <2> QED
    BY <2>1, <2>2 DEF LossInv
<1>2. ReceiverInv /\ SenderInv /\ NetworkTypes /\ LossInv /\ [MCNext]_mcvars => LossInv'
  BY LossInvStep
<1> QED
  BY <1>1, <1>2, SentOnceInvariant, PTL DEF MCSpec

\* What the sender calls the first pass's loss is one, if nobody edits the files
\* and the receiver is not restarted: as long as the pauses drain the network and
\* one answer can name every chunk, it is no more than the network lost.
THEOREM FirstPassLossIsLossTheorem ==
  ASSUME Undisturbed
  PROVE  MCSpec => []FirstPassLossIsLoss
<1>1. LossInv => FirstPassLossIsLoss
  <2> SUFFICES ASSUME LossInv, NEW x \in Xfers, drained, FitsOneAnswer(x),
                      snd[x].first_pass_missing # None
               PROVE  snd[x].first_pass_missing <= lost
    BY DEF FirstPassLossIsLoss
  <2>1. Bounded(x)
    BY Zenon DEF LossInv
  <2> QED
    BY <2>1 DEF Bounded
<1> QED
  BY <1>1, LossInvariant, PTL

=============================================================================
