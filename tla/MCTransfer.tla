----------------------------- MODULE MCTransfer -----------------------------
(***************************************************************************)
(* Instances of Transfer: the contents, their lengths, and the packets     *)
(* they make.                                                              *)
(***************************************************************************)
EXTENDS Transfer

CONSTANTS v1, v2, v3

\* A file of two chunks, one of a single chunk, and one over the receiver's limit.
MCShrinking == [v \in Contents |-> CASE v = v1 -> 3 [] v = v2 -> 1 [] v = v3 -> MaxBytes + 1]

\* Two contents of the same length.
MCSameLen == [v \in Contents |-> 3]

\* A file of two chunks, an empty one, and one over the receiver's limit.
MCEmptyAndTooLong == [v \in Contents |-> CASE v = v1 -> 3 [] v = v2 -> 0 [] v = v3 -> MaxBytes + 1]

MCManifests == {ManifestOf(v) : v \in Contents}

MCChunks == {ChunkOf(v, i) : v \in Contents, i \in Slots} \cap ChunkShape

=============================================================================
