------------------------------ MODULE MCCodec ------------------------------
(***************************************************************************)
(* Packets to try Codec on: every kind, its integers at their ends, its    *)
(* variable part empty, short, at the limit of its count or of a message,  *)
(* and one past that.  Characters are bytes, none of them the bad one.     *)
(***************************************************************************)
EXTENDS Codec

MCMagic == <<11>>

Bytes(n) == [i \in 1 .. n |-> (i * 7) % 10]

Measuring ==
  {[kind |-> "Hello", return_route |-> Bytes(n)] : n \in {0, 1, 3}}
  \cup {[kind |-> "Probe", seq |-> n, t0 |-> m] : n, m \in {1, UsizeMax}}
  \cup {[kind |-> "Echo", seq |-> 1, t0 |-> 2, t1 |-> 3, t2 |-> n] : n \in {4, UsizeMax}}

Transferring ==
  {[kind |-> "Manifest", xfer |-> UsizeMax, total_len |-> 13, chunk_size |-> 2,
    chunk_count |-> 7, crc32 |-> U32Max, name |-> Bytes(l)] :
     l \in {0, 2, U16Max, U16Max + 1}}
  \cup {[kind |-> "ManifestOk", xfer |-> 20, accepted |-> b, message |-> Bytes(l)] :
          b \in BOOLEAN, l \in {0, 2, U16Max + 1}}
  \cup {[kind |-> "Chunk", xfer |-> 20, index |-> n, data |-> Bytes(l)] :
          n \in {0, 14}, l \in {0, 1, MAX_CHUNK_DATA, MAX_CHUNK_DATA + 1}}
  \cup {[kind |-> "Status", xfer |-> n] : n \in {0, UsizeMax}}
  \cup {[kind |-> "StatusReply", xfer |-> 20, state |-> 1, missing_total |-> n,
         missing |-> Bytes(n)] : n \in {0, 1, MAX_MISSING_LISTED, MAX_MISSING_LISTED + 1}}

Social ==
  {[kind |-> "Social", json |-> Bytes(l)] :
     l \in {0, 1, MaxAppMessage - HEADER_LEN, MaxAppMessage - HEADER_LEN + 1}}
  \cup {[kind |-> "Routes", blobs |-> bs] :
          bs \in {<< >>, <<Bytes(2)>>, <<Bytes(0), Bytes(3)>>, <<Bytes(U16Max + 1)>>,
                  [i \in 1 .. U16Max + 1 |-> << >>]}}

MCPackets == Measuring \cup Transferring \cup Social

=============================================================================
