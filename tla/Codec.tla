------------------------------- MODULE Codec -------------------------------
(***************************************************************************)
(* The wire format: what Packet::encode makes of a packet and what         *)
(* Packet::decode makes of bytes, any bytes: a message from something else *)
(* reaches the decoder as well.  A byte is a digit and an integer as many  *)
(* digits, least significant first, as its width; base, widths and the     *)
(* limit of a message are parameters, so that every limit can be reached.  *)
(***************************************************************************)
EXTENDS Integers, Sequences, SequencesExt

CONSTANTS
  Base,           \* values of a byte
  W16, W32, W64,  \* bytes of a u16, a u32, and a u64 or usize
  MAGIC,          \* the bytes every packet starts with
  MaxAppMessage,  \* MAX_APP_MESSAGE
  BadByte,        \* a byte no UTF-8 string holds
  Replacement,    \* the character from_utf8_lossy puts in its place
  Packets,        \* packets to send
  Pads            \* sizes to pad to

Byte == 0 .. Base - 1

\* Base ^ n.
Power(n) ==
  LET power[k \in 0 .. n] == IF k = 0 THEN 1 ELSE Base * power[k - 1]
  IN  power[n]

U16Max == Power(W16) - 1
U32Max == Power(W32) - 1
UsizeMax == Power(W64) - 1

VARIABLES
  sent,   \* the packet and its padding
  wire,   \* the bytes that are decoded
  spoilt  \* whether they were changed on the way

vars == <<sent, wire, spoilt>>

NoPacket == [kind |-> "none"]

HEADER_LEN == Len(MAGIC) + 1
PROBE_LEN == HEADER_LEN + 2 * W64
ECHO_LEN == HEADER_LEN + 4 * W64
CHUNK_HEADER_LEN == HEADER_LEN + W64 + W32
STATUS_REPLY_HEADER_LEN == HEADER_LEN + W64 + 1 + 2 * W32
MAX_CHUNK_DATA == MaxAppMessage - CHUNK_HEADER_LEN
MAX_MISSING_LISTED == (MaxAppMessage - STATUS_REPLY_HEADER_LEN) \div W32

\* The limits are constants of the code: what a message carries can be counted, and
\* holds a chunk's and a status answer's header.
ASSUME CodecAssumption ==
  /\ Base \in Nat /\ Base > 10
  /\ {W16, W32, W64} \subseteq Nat \ {0}
  /\ MAGIC \in Seq(Byte) /\ BadByte \in Byte /\ Replacement \notin Byte
  /\ MaxAppMessage \in Nat /\ MaxAppMessage <= U32Max /\ MaxAppMessage <= UsizeMax
  /\ MAX_CHUNK_DATA >= 0 /\ MaxAppMessage >= STATUS_REPLY_HEADER_LEN
  /\ Pads \subseteq Nat

Kinds == <<"Hello", "Probe", "Echo", "Manifest", "ManifestOk", "Chunk", "Status",
           "StatusReply", "Routes", "Social">>
KindByte(kind) == CHOOSE k \in DOMAIN Kinds : Kinds[k] = kind

-----------------------------------------------------------------------------
(* Integers and strings.                                                   *)

\* The digits of v: what is left of it, divided by Base again and again, mod Base.
Put(v, w) ==
  LET left[i \in 0 .. w] == IF i = 0 THEN v ELSE left[i - 1] \div Base
  IN  [i \in 1 .. w |-> left[i - 1] % Base]

\* The integer of w bytes at offset off, counted from 0: that of the last k of them,
\* for k up to w.
Get(buf, off, w) ==
  LET value[k \in 0 .. w] ==
        IF k = 0 THEN 0 ELSE Base * value[k - 1] + buf[off + w - k + 1]
  IN  value[w]

Start(s, n) == SubSeq(s, 1, IF Len(s) < n THEN Len(s) ELSE n)

\* Mutant: the bytes are not cut to what their length can say.
ShortUncut(s) == Put(Len(s), W16) \o s

\* Bytes behind their length in a u16, cut to what that can count.
Short(s) == Put(Len(Start(s, U16Max)), W16) \o Start(s, U16Max)

\* The bytes from start on, as many as len says, if they are there: else the end
\* is past the buffer or past what a usize holds.
Holds(buf, start, len) == start + len <= UsizeMax /\ start + len <= Len(buf)
Slice(buf, start, len) == SubSeq(buf, start + 1, start + len)

\* Whether a u16-counted string starts at off, and its bytes.
HasShort(buf, off) == Len(buf) >= off + W16 /\ Holds(buf, off + W16, Get(buf, off, W16))
ShortAt(buf, off) == Slice(buf, off + W16, Get(buf, off, W16))

Lossy(s) == [i \in DOMAIN s |-> IF s[i] = BadByte THEN Replacement ELSE s[i]]

-----------------------------------------------------------------------------
(* Packet::encode.                                                         *)

Listed(p) == Start(p.missing, MAX_MISSING_LISTED)

\* What follows the header.
Payload(p) ==
  CASE p.kind = "Hello"      -> Put(Len(p.return_route), W64) \o p.return_route
    [] p.kind = "Probe"      -> Put(p.seq, W64) \o Put(p.t0, W64)
    [] p.kind = "Echo"       -> Put(p.seq, W64) \o Put(p.t0, W64) \o Put(p.t1, W64) \o Put(p.t2, W64)
    [] p.kind = "Manifest"   -> Put(p.xfer, W64) \o Put(p.total_len, W64) \o Put(p.chunk_size, W32)
                                \o Put(p.chunk_count, W32) \o Put(p.crc32, W32) \o Short(p.name)
    [] p.kind = "ManifestOk" -> Put(p.xfer, W64) \o <<IF p.accepted THEN 1 ELSE 0>> \o Short(p.message)
    [] p.kind = "Chunk"      -> Put(p.xfer, W64) \o Put(p.index, W32) \o Start(p.data, MAX_CHUNK_DATA)
    [] p.kind = "Status"     -> Put(p.xfer, W64)
    [] p.kind = "StatusReply" ->
         Put(p.xfer, W64) \o <<p.state>> \o Put(p.missing_total, W32) \o Put(Len(Listed(p)), W32)
         \o FlattenSeq([i \in DOMAIN Listed(p) |-> Put(p.missing[i], W32)])
    [] p.kind = "Social"     -> Start(p.json, MaxAppMessage - HEADER_LEN)
    [] p.kind = "Routes"     ->
         LET n == Len(Start(p.blobs, U16Max))
         IN  Put(n, W16) \o FlattenSeq([i \in 1 .. n |-> Short(p.blobs[i])])

\* Only these two are padded, and never past what one message carries.
Padded(bytes, p, pad_to) ==
  LET to == IF pad_to < MaxAppMessage THEN pad_to ELSE MaxAppMessage
      n  == IF p.kind \in {"Probe", "Echo"} /\ Len(bytes) < to THEN to - Len(bytes) ELSE 0
  IN  bytes \o [i \in 1 .. n |-> 0]

Encode(p, pad_to) == Padded(MAGIC \o <<KindByte(p.kind)>> \o Payload(p), p, pad_to)

-----------------------------------------------------------------------------
(* Packet::decode.                                                         *)

\* How long a packet of each kind is at the least, its variable part aside.
MinLen ==
  [Hello |-> HEADER_LEN + W64, Probe |-> PROBE_LEN, Echo |-> ECHO_LEN,
   Manifest |-> HEADER_LEN + 2 * W64 + 3 * W32, ManifestOk |-> HEADER_LEN + W64 + 1,
   Chunk |-> CHUNK_HEADER_LEN, Status |-> HEADER_LEN + W64,
   StatusReply |-> STATUS_REPLY_HEADER_LEN, Routes |-> HEADER_LEN + W16,
   Social |-> HEADER_LEN]

\* Mutant: the list ends where the bytes do.
NextBlobThere(buf, r) ==
  IF HasShort(buf, r.off)
  THEN [r EXCEPT !.off = @ + W16 + Get(buf, @, W16), !.blobs = Append(@, ShortAt(buf, r.off))]
  ELSE r

\* One more blob of a route list: where the one after it starts, and whether all
\* so far were there.
NextBlob(buf, r) ==
  IF r.ok /\ HasShort(buf, r.off)
  THEN [r EXCEPT !.off = @ + W16 + Get(buf, @, W16), !.blobs = Append(@, ShortAt(buf, r.off))]
  ELSE [r EXCEPT !.ok = FALSE]

ReadBlobs(buf) ==
  LET n == Get(buf, HEADER_LEN, W16)
      after[k \in 0 .. n] ==
        IF k = 0 THEN [ok |-> TRUE, off |-> HEADER_LEN + W16, blobs |-> << >>]
        ELSE NextBlob(buf, after[k - 1])
  IN  after[n]

\* Whether the variable part that the fixed part announces is there.
Whole(kind, buf) ==
  CASE kind = "Hello"       -> Holds(buf, MinLen.Hello, Get(buf, HEADER_LEN, W64))
    [] kind = "Manifest"    -> HasShort(buf, MinLen.Manifest)
    [] kind = "ManifestOk"  -> HasShort(buf, MinLen.ManifestOk)
    [] kind = "StatusReply" ->
         Holds(buf, MinLen.StatusReply, W32 * Get(buf, HEADER_LEN + W64 + 1 + W32, W32))
    [] kind = "Routes"      -> ReadBlobs(buf).ok
    [] OTHER                -> TRUE

Read(kind, buf) ==
  LET u64(n) == Get(buf, HEADER_LEN + n, W64)
      u32(n) == Get(buf, HEADER_LEN + n, W32)
      rest   == SubSeq(buf, MinLen[kind] + 1, Len(buf))
  IN
  CASE kind = "Hello"      -> [kind |-> kind, return_route |-> Slice(buf, MinLen.Hello, u64(0))]
    [] kind = "Probe"      -> [kind |-> kind, seq |-> u64(0), t0 |-> u64(W64)]
    [] kind = "Echo"       -> [kind |-> kind, seq |-> u64(0), t0 |-> u64(W64),
                               t1 |-> u64(2 * W64), t2 |-> u64(3 * W64)]
    [] kind = "Manifest"   -> [kind |-> kind, xfer |-> u64(0), total_len |-> u64(W64),
                               chunk_size |-> u32(2 * W64), chunk_count |-> u32(2 * W64 + W32),
                               crc32 |-> u32(2 * W64 + 2 * W32),
                               name |-> Lossy(ShortAt(buf, MinLen.Manifest))]
    [] kind = "ManifestOk" -> [kind |-> kind, xfer |-> u64(0),
                               accepted |-> buf[HEADER_LEN + W64 + 1] # 0,
                               message |-> Lossy(ShortAt(buf, MinLen.ManifestOk))]
    [] kind = "Chunk"      -> [kind |-> kind, xfer |-> u64(0), index |-> u32(W64), data |-> rest]
    [] kind = "Status"     -> [kind |-> kind, xfer |-> u64(0)]
    [] kind = "StatusReply" ->
         [kind |-> kind, xfer |-> u64(0), state |-> buf[HEADER_LEN + W64 + 1],
          missing_total |-> u32(W64 + 1),
          missing |-> [i \in 1 .. u32(W64 + 1 + W32) |->
                         Get(buf, MinLen.StatusReply + (i - 1) * W32, W32)]]
    [] kind = "Social"     -> [kind |-> kind, json |-> rest]
    [] kind = "Routes"     -> [kind |-> kind, blobs |-> ReadBlobs(buf).blobs]

Decode(buf) ==
  IF Len(buf) < HEADER_LEN \/ ~ IsPrefix(MAGIC, buf) \/ buf[HEADER_LEN] \notin DOMAIN Kinds
  THEN NoPacket
  ELSE LET kind == Kinds[buf[HEADER_LEN]]
       IN  IF Len(buf) >= MinLen[kind] /\ Whole(kind, buf) THEN Read(kind, buf) ELSE NoPacket

-----------------------------------------------------------------------------
(* A packet and what can become of its bytes.                              *)

U64 == 0 .. UsizeMax
U32 == 0 .. U32Max
Text == Seq(Byte \ {BadByte})

PacketShape ==
  [kind : {"Hello"}, return_route : Seq(Byte)]
  \cup [kind : {"Probe"}, seq : U64, t0 : U64]
  \cup [kind : {"Echo"}, seq : U64, t0 : U64, t1 : U64, t2 : U64]
  \cup [kind : {"Manifest"}, xfer : U64, total_len : U64, chunk_size : U32,
        chunk_count : U32, crc32 : U32, name : Text]
  \cup [kind : {"ManifestOk"}, xfer : U64, accepted : BOOLEAN, message : Text]
  \cup [kind : {"Chunk"}, xfer : U64, index : U32, data : Seq(Byte)]
  \cup [kind : {"Status"}, xfer : U64]
  \cup [kind : {"StatusReply"}, xfer : U64, state : Byte, missing_total : U32,
        missing : Seq(U32)]
  \cup [kind : {"Routes"}, blobs : Seq(Seq(Byte))]
  \cup [kind : {"Social"}, json : Seq(Byte)]

\* What encode makes is in memory, and so no longer than a usize can say.
ASSUME PacketAssumption ==
  \A p \in Packets : p \in PacketShape /\ Len(Encode(p, 0)) <= UsizeMax

Init ==
  /\ sent \in Packets \X Pads
  /\ wire = Encode(sent[1], sent[2])
  /\ spoilt = FALSE

Cut(n) ==
  /\ n < Len(wire)
  /\ wire' = Start(wire, n)
  /\ UNCHANGED <<sent, spoilt>>

Spoil(i, b) ==
  /\ ~ spoilt /\ spoilt' = TRUE
  /\ i \in DOMAIN wire
  /\ wire' = [wire EXCEPT ![i] = b]
  /\ UNCHANGED sent

Next ==
  \/ \E n \in 0 .. Len(wire) : Cut(n)
  \/ \E i \in DOMAIN wire, b \in Byte : Spoil(i, b)

Spec == Init /\ [][Next]_vars

-----------------------------------------------------------------------------
(* Properties.                                                             *)

\* The packet as the other end is to get it: what cannot be counted, or carried
\* by one message, cut off; the total of a status answer is kept.
AsSent(p) ==
  CASE p.kind = "Manifest"    -> [p EXCEPT !.name = Start(@, U16Max)]
    [] p.kind = "ManifestOk"  -> [p EXCEPT !.message = Start(@, U16Max)]
    [] p.kind = "Chunk"       -> [p EXCEPT !.data = Start(@, MAX_CHUNK_DATA)]
    [] p.kind = "StatusReply" -> [p EXCEPT !.missing = Start(@, MAX_MISSING_LISTED)]
    [] p.kind = "Social"      -> [p EXCEPT !.json = Start(@, MaxAppMessage - HEADER_LEN)]
    [] p.kind = "Routes"      -> [p EXCEPT !.blobs = [i \in DOMAIN Start(@, U16Max) |->
                                                        Start(p.blobs[i], U16Max)]]
    [] OTHER                  -> p

Intact == wire = Encode(sent[1], sent[2])

\* What arrives whole is decoded to what was sent, at every length and value a
\* field can have, padded or not.
RoundTrip == Intact => Decode(wire) = AsSent(sent[1])

\* Kinds whose payload goes on to the end of the message, so that a cut one is a
\* shorter one.
OpenEnded == {"Chunk", "Social"}

\* Of a message that was cut short nothing is made up: it is dropped, unless only
\* padding or the end of an open-ended payload is missing.
CutIsDropped ==
  LET p == AsSent(sent[1])
      d == Decode(wire)
  IN  ~ spoilt /\ d # NoPacket =>
        /\ d.kind = p.kind
        /\ p.kind \notin OpenEnded => d = p
        /\ p.kind = "Chunk" => d = [p EXCEPT !.data = d.data] /\ IsPrefix(d.data, p.data)
        /\ p.kind = "Social" => IsPrefix(d.json, p.json)

\* Strings are made of what arrived, but for what is no UTF-8 in them; any byte but
\* 0 says "accepted"; and a list no answer of one message could hold is cut when it
\* is encoded again.
Rewritten(d) ==
  \/ d.kind = "Manifest" /\ Contains(d.name, Replacement)
  \/ d.kind = "ManifestOk" /\ (Contains(d.message, Replacement) \/ d.accepted)
  \/ d.kind = "StatusReply" /\ Len(d.missing) > MAX_MISSING_LISTED

\* Whatever the bytes, and whatever lengths they claim, a decoded packet is made
\* of bytes that are there: encoded again, it is how they begin.
DecodedIsThere ==
  LET d == Decode(wire)
  IN  d # NoPacket /\ ~ Rewritten(d) => IsPrefix(Encode(d, 0), wire)

=============================================================================
