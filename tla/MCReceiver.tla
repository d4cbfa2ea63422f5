----------------------------- MODULE MCReceiver -----------------------------
(***************************************************************************)
(* The receiver alone, fed any MaxInputs packets out of small sets that    *)
(* hold good, oversized and self-contradictory manifests and chunks of     *)
(* every shape, with at most MaxRestarts restarts.                         *)
(***************************************************************************)
EXTENDS Receiver, TLC

CONSTANTS MaxInputs, MaxRestarts

VARIABLE inputs  \* packets received so far

\* A 3-byte file in chunks of 2, an empty file, one over MaxBytes, one with a
\* chunk size of 0, one over MaxChunkData, one whose chunk count is wrong.
MCManifests ==
  {[total_len |-> l, chunk_size |-> s, chunk_count |-> n, crc |-> c] :
     <<l, s, n>> \in {<<3, 2, 2>>, <<0, 2, 0>>, <<4, 2, 2>>, <<3, 0, 2>>,
                      <<3, 3, 1>>, <<3, 2, 1>>, <<3, 2, 3>>},
     c \in Contents}

MCChunks == [index : 0 .. 2, len : 1 .. 2, content : Contents]

MCSymmetry == Permutations(Xfers) \cup Permutations(Contents)

mcvars == <<rvars, inputs>>

MCInit == Init /\ inputs = 0

Input == inputs < MaxInputs /\ inputs' = inputs + 1

MCNext ==
  \/ \E x \in Xfers, m \in Manifests : Input /\ RecvManifest(x, m)
  \/ \E x \in Xfers : Input /\ RecvStatus(x)
  \/ \E x \in Xfers, c \in Chunks : Input /\ RecvChunk(x, c)
  \/ \E x \in Xfers : FinishOne(x) /\ UNCHANGED inputs
  \/ restarts < MaxRestarts /\ Restart /\ UNCHANGED inputs

MCSpec == MCInit /\ [][MCNext]_mcvars

=============================================================================
