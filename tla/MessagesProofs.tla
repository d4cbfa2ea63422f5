--------------------------- MODULE MessagesProofs ---------------------------
(***************************************************************************)
(* Proofs about Messages, for any number of messages, routes, deaths,      *)
(* failures and restarts of the peer: a sender told "ok" was received, and *)
(* of a message there are never more copies than routes it was tried on.   *)
(***************************************************************************)
EXTENDS Messages, FiniteSetTheorems, SequenceTheorems, TLAPS

\* The copies of a message among the calls N, and in the queue q.
Calling(N, d) == {c \in N : c.dm = d}
Waiting(q, d) == {k \in DOMAIN q : q[k].dm = d}

\* A sender's state is a record of four fields, and starts at the first route.
Shaped(s) ==
  /\ s = [pc |-> s.pc, whole |-> s.whole, list |-> s.list, i |-> s.i]
  /\ s.i \in Nat \ {0}
  /\ s.pc = "idle" => s.i = 1

\* The senders: what a step of one of them needs to know of the others.
SendersSound == DOMAIN snd = DMs /\ \A d \in DMs : Shaped(snd[d])

\* What is counted can be counted.
CallsSound ==
  /\ IsFiniteSet(net)
  /\ \E S : queue \in Seq(S)
  /\ inbox \in [DMs -> Nat]

MessagesInv == SendersSound /\ CallsSound /\ OkIsReceived /\ CopiesAreTries

-----------------------------------------------------------------------------
(* Counting.                                                               *)

One(d, e) == IF d = e THEN 1 ELSE 0

LEMMA NetGrows ==
  ASSUME NEW N, IsFiniteSet(N), NEW c, NEW d
  PROVE  /\ IsFiniteSet(N \cup {c})
         /\ Cardinality(Calling(N, d)) \in Nat /\ Cardinality(Calling(N \cup {c}, d)) \in Nat
         /\ Cardinality(Calling(N \cup {c}, d)) <= Cardinality(Calling(N, d)) + One(c.dm, d)
<1>1. IsFiniteSet(Calling(N, d)) /\ Cardinality(Calling(N, d)) \in Nat
  BY FS_Subset, FS_CardinalityType DEF Calling
<1>2. /\ IsFiniteSet(Calling(N, d) \cup {c})
      /\ Cardinality(Calling(N, d) \cup {c}) <= Cardinality(Calling(N, d)) + 1
  <2>1. Cardinality(Calling(N, d) \cup {c}) = IF c \in Calling(N, d)
                                              THEN Cardinality(Calling(N, d))
                                              ELSE Cardinality(Calling(N, d)) + 1
    BY <1>1, FS_AddElement
  <2> QED
    BY <1>1, <2>1, FS_AddElement
<1>3. CASE c.dm = d
  <2>1. Calling(N \cup {c}, d) = Calling(N, d) \cup {c}
    BY <1>3 DEF Calling
  <2> QED
    BY <1>1, <1>2, <1>3, <2>1, FS_AddElement, FS_CardinalityType DEF One
<1>4. CASE c.dm # d
  <2>1. Calling(N \cup {c}, d) = Calling(N, d)
    BY <1>4 DEF Calling
  <2> QED
    BY <1>1, <1>4, <2>1, FS_AddElement DEF One
<1> QED
  BY <1>3, <1>4

LEMMA NetShrinks ==
  ASSUME NEW N, IsFiniteSet(N), NEW c \in N, NEW d
  PROVE  /\ IsFiniteSet(N \ {c})
         /\ Cardinality(Calling(N, d)) \in Nat /\ Cardinality(Calling(N \ {c}, d)) \in Nat
         /\ Cardinality(Calling(N, d)) = Cardinality(Calling(N \ {c}, d)) + One(c.dm, d)
<1>1. IsFiniteSet(Calling(N, d)) /\ Cardinality(Calling(N, d)) \in Nat
  BY FS_Subset, FS_CardinalityType DEF Calling
<1>2. IsFiniteSet(N \ {c})
  BY FS_Subset
<1>3. CASE c.dm = d
  <2>1. Calling(N \ {c}, d) = Calling(N, d) \ {c} /\ c \in Calling(N, d)
    BY <1>3 DEF Calling
  <2>2. /\ Cardinality(Calling(N, d) \ {c}) = Cardinality(Calling(N, d)) - 1
        /\ Cardinality(Calling(N, d) \ {c}) \in Nat
    BY <1>1, <2>1, FS_RemoveElement, FS_CardinalityType
  <2>3. One(c.dm, d) = 1
    BY <1>3 DEF One
  <2>4. Cardinality(Calling(N \ {c}, d)) = Cardinality(Calling(N, d)) - 1
    BY <2>1, <2>2
  <2> QED
    BY <1>1, <1>2, <2>1, <2>2, <2>3, <2>4
<1>4. CASE c.dm # d
  <2>1. Calling(N \ {c}, d) = Calling(N, d)
    BY <1>4 DEF Calling
  <2> QED
    BY <1>1, <1>2, <1>4, <2>1 DEF One
<1> QED
  BY <1>3, <1>4

LEMMA QueueFinite ==
  ASSUME NEW q, \E S : q \in Seq(S), NEW d
  PROVE  IsFiniteSet(Waiting(q, d)) /\ Cardinality(Waiting(q, d)) \in Nat
<1>1. PICK S : q \in Seq(S)
  OBVIOUS
<1>2. Len(q) \in Nat /\ DOMAIN q = 1 .. Len(q)
  BY <1>1, LenProperties
<1>3. IsFiniteSet(1 .. Len(q))
  BY <1>2, FS_Interval
<1> QED
  BY <1>2, <1>3, FS_Subset, FS_CardinalityType DEF Waiting

LEMMA QueueGrows ==
  ASSUME NEW q, \E S : q \in Seq(S), NEW c, NEW d
  PROVE  /\ \E S : Append(q, c) \in Seq(S)
         /\ Cardinality(Waiting(Append(q, c), d)) = Cardinality(Waiting(q, d)) + One(c.dm, d)
<1>1. PICK S : q \in Seq(S)
  OBVIOUS
<1> DEFINE T == S \cup {c}
           p == Append(q, c)
<1>2. q \in Seq(T) /\ c \in T
  BY <1>1, SeqMonotonic
<1> HIDE DEF T
<1>3. /\ p \in Seq(T) /\ Len(p) = Len(q) + 1 /\ Len(q) \in Nat
      /\ \A k \in 1 .. Len(q) : p[k] = q[k]
      /\ p[Len(q) + 1] = c
  BY <1>2
<1>4. DOMAIN q = 1 .. Len(q) /\ DOMAIN p = 1 .. Len(q) + 1
  BY <1>2, <1>3, LenProperties
<1> HIDE DEF p
<1>5. IsFiniteSet(Waiting(q, d)) /\ Cardinality(Waiting(q, d)) \in Nat
  BY QueueFinite
<1>6. Len(q) + 1 \notin Waiting(q, d)
  BY <1>3, <1>4 DEF Waiting
<1> DEFINE n == Len(q)
<1>7. /\ DOMAIN p = DOMAIN q \cup {n + 1}
      /\ n + 1 \notin DOMAIN q
      /\ \A k \in DOMAIN q : p[k] = q[k]
      /\ p[n + 1] = c
  BY <1>3, <1>4
<1> HIDE DEF n
<1>8. CASE c.dm = d
  <2>1. Waiting(p, d) = Waiting(q, d) \cup {n + 1}
    <3>1. \A k : k \in DOMAIN p /\ p[k].dm = d <=> (k \in DOMAIN q /\ q[k].dm = d) \/ k = n + 1
      BY <1>7, <1>8
    <3> QED
      BY <3>1, Zenon DEF Waiting
  <2>2. Cardinality(Waiting(p, d)) = Cardinality(Waiting(q, d)) + 1
    BY <1>5, <1>6, <2>1, FS_AddElement DEF n
  <2> QED
    BY <1>3, <1>8, <2>2 DEF One, p
<1>9. CASE c.dm # d
  <2>1. Waiting(p, d) = Waiting(q, d)
    <3>1. \A k : k \in DOMAIN p /\ p[k].dm = d <=> k \in DOMAIN q /\ q[k].dm = d
      BY <1>7, <1>9
    <3> QED
      BY <3>1, Zenon DEF Waiting
  <2> QED
    BY <1>3, <1>5, <1>9, <2>1 DEF One, p
<1> QED
  BY <1>8, <1>9

LEMMA QueueShrinks ==
  ASSUME NEW q, \E S : q \in Seq(S), q # << >>, NEW d
  PROVE  /\ \E S : Tail(q) \in Seq(S)
         /\ Cardinality(Waiting(q, d)) = Cardinality(Waiting(Tail(q), d)) + One(Head(q).dm, d)
<1>1. PICK S : q \in Seq(S)
  OBVIOUS
<1> DEFINE p == Tail(q)
           A == Waiting(q, d) \ {1}
           B == Waiting(p, d)
           f == [k \in B |-> k + 1]
<1>2. /\ p \in Seq(S) /\ Len(p) = Len(q) - 1 /\ Len(q) \in Nat /\ Len(p) \in Nat
      /\ \A k \in 1 .. Len(p) : p[k] = q[k + 1]
  BY <1>1, HeadTailProperties, LenProperties
<1>3. DOMAIN q = 1 .. Len(q) /\ DOMAIN p = 1 .. Len(p) /\ Head(q) = q[1] /\ 1 \in DOMAIN q
  BY <1>1, <1>2, LenProperties
<1> HIDE DEF p
<1>4. IsFiniteSet(Waiting(q, d)) /\ Cardinality(Waiting(q, d)) \in Nat
      /\ IsFiniteSet(B) /\ Cardinality(B) \in Nat
  BY <1>1, <1>2, QueueFinite
<1>5. Cardinality(A) = Cardinality(B)
  <2>1. \A k \in B : k \in 1 .. Len(p) /\ k + 1 \in A
    BY <1>2, <1>3 DEF Waiting
  <2>2. \A k \in A : k - 1 \in B /\ (k - 1) + 1 = k
    BY <1>2, <1>3 DEF Waiting
  <2>3. f \in Bijection(B, A)
    <3>1. f \in [B -> A]
      BY <2>1
    <3>2. \A j, k \in B : f[j] = f[k] => j = k
      BY <2>1
    <3>3. \A k \in A : \E j \in B : f[j] = k
      BY <2>2
    <3>4. DOMAIN f = B
      OBVIOUS
    <3> HIDE DEF f
    <3> QED
      BY <3>1, <3>2, <3>3, <3>4 DEF Bijection, Injection, Surjection, IsInjective
  <2> QED
    BY <1>4, <2>3, FS_Bijection DEF ExistsBijection
<1>6. Cardinality(A) = IF 1 \in Waiting(q, d) THEN Cardinality(Waiting(q, d)) - 1
                       ELSE Cardinality(Waiting(q, d))
  BY <1>4, FS_RemoveElement
<1>7. 1 \in Waiting(q, d) <=> Head(q).dm = d
  BY <1>3 DEF Waiting
<1> QED
  BY <1>2, <1>4, <1>5, <1>6, <1>7 DEF One, p

-----------------------------------------------------------------------------
(* The invariant.                                                          *)

LEMMA CopiesCounted ==
  ASSUME CallsSound, NEW d \in DMs
  PROVE  /\ inbox[d] \in Nat
         /\ Cardinality(Calling(net, d)) \in Nat
         /\ Cardinality(Waiting(queue, d)) \in Nat
         /\ Copies(d)
              = inbox[d] + Cardinality(Calling(net, d)) + Cardinality(Waiting(queue, d))
<1>1. IsFiniteSet(Calling(net, d))
  BY FS_Subset DEF CallsSound, Calling
<1>2. inbox[d] \in Nat /\ Cardinality(Waiting(queue, d)) \in Nat
  BY QueueFinite DEF CallsSound
<1> QED
  BY <1>1, <1>2, FS_CardinalityType DEF Copies, Calling, Waiting

LEMMA MessagesInit == Init => MessagesInv
<1> SUFFICES ASSUME Init PROVE MessagesInv
  OBVIOUS
<1>1. snd = [d \in DMs |-> NotSent] /\ net = {} /\ queue = << >> /\ inbox = [d \in DMs |-> 0]
  BY DEF Init
<1>2. SendersSound
  BY <1>1 DEF SendersSound, Shaped, NotSent
<1>3. CallsSound
  BY <1>1, FS_EmptySet, EmptySeq DEF CallsSound
<1>4. OkIsReceived
  BY <1>1 DEF OkIsReceived, NotSent
<1>5. ASSUME NEW d \in DMs PROVE Copies(d) <= Tries(d)
  <2>1. Calling(net, d) = {} /\ Waiting(queue, d) = {}
    BY <1>1 DEF Calling, Waiting
  <2>2. Copies(d) = 0
    <3>1. Copies(d)
            = inbox[d] + Cardinality(Calling(net, d)) + Cardinality(Waiting(queue, d))
      BY <1>3, CopiesCounted
    <3>2. inbox[d] = 0 /\ Cardinality({}) = 0
      BY <1>1, FS_EmptySet
    <3> QED
      BY <2>1, <3>1, <3>2
  <2>3. Tries(d) = 0
    BY <1>1 DEF Tries, NotSent
  <2> QED
    BY <2>2, <2>3
<1> QED
  BY <1>2, <1>3, <1>4, <1>5 DEF MessagesInv, CopiesAreTries

\* How many tries a sender at s stands for.
TriesOf(s) == IF s.pc \in {"wait", "ok"} THEN s.i ELSE s.i - 1

\* A sender's state with another pc and another route.
At(s, pc, k) == [pc |-> pc, whole |-> s.whole, list |-> s.list, i |-> k]

LEMMA AtShape ==
  ASSUME NEW s, NEW pc, pc # "idle", NEW k \in Nat \ {0}
  PROVE  /\ Shaped(At(s, pc, k))
         /\ At(s, pc, k).pc = pc
         /\ TriesOf(At(s, pc, k)) = IF pc \in {"wait", "ok"} THEN k ELSE k - 1
BY DEF Shaped, At, TriesOf

LEMMA AtExcept ==
  ASSUME NEW s, Shaped(s), NEW pc
  PROVE  /\ [s EXCEPT !.pc = pc] = At(s, pc, s.i)
         /\ OnToNext(s) = At(s, "try", s.i + 1)
<1>1. PICK a, b, c, e : s = [pc |-> a, whole |-> b, list |-> c, i |-> e]
  BY DEF Shaped
<1>2. [s EXCEPT !.pc = pc] = At(s, pc, s.i)
  BY <1>1 DEF At
<1>3. [At(s, "try", s.i) EXCEPT !.i = s.i + 1] = At(s, "try", s.i + 1)
  BY DEF At
<1>4. [[s EXCEPT !.pc = "try"] EXCEPT !.i = s.i + 1] = OnToNext(s)
  BY <1>1 DEF OnToNext
<1>5. [s EXCEPT !.pc = "try"] = At(s, "try", s.i)
  BY <1>1 DEF At
<1> QED
  BY <1>2, <1>3, <1>4, <1>5

\* A step of sender d, to s: the others stay as they are.
LEMMA SenderMoves ==
  ASSUME MessagesInv, NEW d \in DMs, NEW s, Shaped(s), snd' = [snd EXCEPT ![d] = s]
  PROVE  /\ SendersSound'
         /\ snd'[d] = s
         /\ \A e \in DMs : e # d => snd'[e] = snd[e]
<1>1. DOMAIN snd = DMs
  BY DEF MessagesInv, SendersSound
<1>2. DOMAIN snd' = DMs /\ snd'[d] = s /\ \A e \in DMs : e # d => snd'[e] = snd[e]
  BY <1>1
<1>3. ASSUME NEW e \in DMs PROVE Shaped(snd'[e])
  BY <1>2 DEF MessagesInv, SendersSound
<1> QED
  BY <1>2, <1>3 DEF SendersSound

\* A sender's step: it calls no route without counting it, and is not told "ok".
LEMMA SenderKeeps ==
  ASSUME MessagesInv, NEW d \in DMs, ReadPeer(d) \/ SenderStep(d)
  PROVE  MessagesInv'
<1>1. /\ DOMAIN snd = DMs
      /\ Shaped(snd[d])
      /\ CallsSound
  BY DEF MessagesInv, SendersSound
<1>2. /\ UNCHANGED <<peer, queue>>
      /\ UNCHANGED <<inbox, pushed>>
  BY DEF ReadPeer, SenderStep, ImportFails, CallRoute, CallErrs, GiveUp, peer
<1>3. PICK s :
        /\ Shaped(s) /\ s.pc # "ok"
        /\ snd' = [snd EXCEPT ![d] = s]
        /\ \/ /\ net' = net
              /\ TriesOf(s) >= TriesOf(snd[d])
           \/ /\ net' = net \cup {Call(d, OnRoute(d))}
              /\ TriesOf(s) = TriesOf(snd[d]) + 1
  <2> DEFINE i == snd[d].i
             pc == snd[d].pc
  <2>0. i \in Nat \ {0} /\ i + 1 \in Nat \ {0} /\ TriesOf(snd[d]) \in Nat
        /\ TriesOf(snd[d]) = IF pc \in {"wait", "ok"} THEN i ELSE i - 1
    BY <1>1 DEF Shaped, TriesOf
  <2>1. CASE ReadPeer(d)
    <3>1. CASE \E n \in {"no_profile", "no_route"} : Goes(d, n)
      <4>1. PICK n \in {"no_profile", "no_route"} : snd' = [snd EXCEPT ![d] = At(snd[d], n, i)]
        BY <1>1, <3>1, AtExcept DEF Goes
      <4> WITNESS At(snd[d], n, i)
      <4> QED
        BY <2>0, <2>1, <4>1, AtShape DEF ReadPeer
    <3>2. CASE \E b \in BOOLEAN :
                 snd' = [snd EXCEPT ![d] = [pc |-> "try", whole |-> b, list |-> record, i |-> 1]]
      <4>1. PICK b \in BOOLEAN :
              snd' = [snd EXCEPT ![d] = [pc |-> "try", whole |-> b, list |-> record, i |-> 1]]
        BY <3>2
      <4> DEFINE s == [pc |-> "try", whole |-> b, list |-> record, i |-> 1]
      <4>2. Shaped(s) /\ s.pc # "ok" /\ TriesOf(s) = 0
        BY DEF Shaped, TriesOf
      <4>3. TriesOf(snd[d]) = 0
        BY <1>1, <2>0, <2>1 DEF ReadPeer, Shaped
      <4> WITNESS s
      <4> QED
        BY <2>1, <4>1, <4>2, <4>3 DEF ReadPeer
    <3> QED
      BY <2>1, <3>1, <3>2 DEF ReadPeer
  <2>2. CASE ImportFails(d)
    <3>1. snd' = [snd EXCEPT ![d] = At(snd[d], "try", i + 1)] /\ pc = "try" /\ net' = net
      BY <1>1, <2>2, AtExcept DEF ImportFails
    <3> WITNESS At(snd[d], "try", i + 1)
    <3> QED
      BY <2>0, <3>1, AtShape
  <2>3. CASE CallRoute(d)
    <3>1. /\ snd' = [snd EXCEPT ![d] = At(snd[d], "wait", i)] /\ pc = "try"
          /\ net' = net \cup {Call(d, OnRoute(d))}
      BY <1>1, <2>3, AtExcept DEF CallRoute, Goes
    <3> WITNESS At(snd[d], "wait", i)
    <3> QED
      BY <2>0, <3>1, AtShape
  <2>4. CASE CallErrs(d)
    <3>1. snd' = [snd EXCEPT ![d] = At(snd[d], "try", i + 1)] /\ pc = "wait" /\ net' = net
      BY <1>1, <2>4, AtExcept DEF CallErrs
    <3> WITNESS At(snd[d], "try", i + 1)
    <3> QED
      BY <2>0, <3>1, AtShape
  <2>5. CASE GiveUp(d)
    <3>1. snd' = [snd EXCEPT ![d] = At(snd[d], "unreachable", i)] /\ pc = "try" /\ net' = net
      BY <1>1, <2>5, AtExcept DEF GiveUp, Goes
    <3> WITNESS At(snd[d], "unreachable", i)
    <3> QED
      BY <2>0, <3>1, AtShape
  <2> QED
    BY <2>1, <2>2, <2>3, <2>4, <2>5 DEF SenderStep
<1>4. /\ SendersSound'
      /\ snd'[d] = s
      /\ \A e \in DMs : e # d => snd'[e] = snd[e]
  BY <1>3, SenderMoves
<1>5. IsFiniteSet(net) /\ IsFiniteSet(net')
  <2>1. IsFiniteSet(net) /\ IsFiniteSet(net \cup {Call(d, OnRoute(d))})
    BY <1>1, FS_AddElement DEF CallsSound
  <2> QED
    BY <1>3, <2>1
<1>6. CallsSound'
  BY <1>1, <1>2, <1>5 DEF CallsSound
<1>7. OkIsReceived'
  BY <1>2, <1>3, <1>4 DEF MessagesInv, OkIsReceived
<1>8. ASSUME NEW e \in DMs PROVE Copies(e)' <= Tries(e)'
  <2>1. /\ Copies(e) <= TriesOf(snd[e]) /\ TriesOf(snd[e]) \in Nat
        /\ Tries(e)' = TriesOf(snd'[e])
    BY DEF MessagesInv, SendersSound, Shaped, CopiesAreTries, Tries, TriesOf
  <2>2. /\ inbox[e] \in Nat /\ Cardinality(Waiting(queue, e)) \in Nat
        /\ Cardinality(Calling(net, e)) \in Nat
        /\ Copies(e)
             = inbox[e] + Cardinality(Calling(net, e)) + Cardinality(Waiting(queue, e))
    BY <1>1, CopiesCounted
  <2>3. Copies(e)'
          = inbox[e] + Cardinality(Calling(net', e)) + Cardinality(Waiting(queue, e))
    BY <1>2 DEF Copies, Calling, Waiting
  <2>4. CASE net' = net
    <3>1. TriesOf(snd'[e]) >= TriesOf(snd[e]) /\ TriesOf(snd'[e]) \in Int
      <4>1. CASE e = d
        BY <1>3, <1>4, <2>1, <2>4, <4>1 DEF TriesOf, Shaped
      <4>2. CASE e # d
        BY <1>4, <2>1, <4>2
      <4> QED
        BY <4>1, <4>2
    <3> QED
      BY <2>1, <2>2, <2>3, <2>4, <3>1
  <2>5. CASE /\ net' = net \cup {Call(d, OnRoute(d))}
             /\ TriesOf(s) = TriesOf(snd[d]) + 1
    <3>1. Call(d, OnRoute(d)).dm = d
      BY DEF Call
    <3>2. /\ Cardinality(Calling(net', e)) \in Nat
          /\ Cardinality(Calling(net', e)) <= Cardinality(Calling(net, e)) + One(d, e)
      BY <1>5, <2>5, <3>1, NetGrows
    <3>3. TriesOf(snd'[e]) = TriesOf(snd[e]) + One(d, e)
      BY <1>4, <2>1, <2>5 DEF One
    <3>4. One(d, e) \in Nat
      BY DEF One
    <3> QED
      BY <2>1, <2>2, <2>3, <3>2, <3>3, <3>4
  <2> QED
    BY <1>3, <2>4, <2>5
<1> QED
  BY <1>4, <1>6, <1>7, <1>8 DEF MessagesInv, CopiesAreTries

\* A step that changes no sender but by an answer, and makes no copy, keeps the
\* invariant: what leaves one place is at most what arrives in another.
LEMMA CopiesKept ==
  ASSUME MessagesInv, SendersSound', CallsSound', OkIsReceived',
         \A d \in DMs : TriesOf(snd'[d]) = TriesOf(snd[d]),
         \A d \in DMs :
           inbox'[d] + Cardinality(Calling(net', d)) + Cardinality(Waiting(queue', d))
             <= inbox[d] + Cardinality(Calling(net, d)) + Cardinality(Waiting(queue, d))
  PROVE  MessagesInv'
<1>1. ASSUME NEW d \in DMs PROVE Copies(d)' <= Tries(d)'
  <2>1. Copies(d) <= TriesOf(snd[d]) /\ Tries(d)' = TriesOf(snd'[d])
    BY DEF MessagesInv, CopiesAreTries, Tries, TriesOf
  <2>2. TriesOf(snd[d]) \in Nat
    BY DEF MessagesInv, SendersSound, Shaped, TriesOf
  <2>3. /\ inbox[d] \in Nat /\ Cardinality(Waiting(queue, d)) \in Nat
        /\ Cardinality(Calling(net, d)) \in Nat
        /\ Copies(d)
             = inbox[d] + Cardinality(Calling(net, d)) + Cardinality(Waiting(queue, d))
    BY CopiesCounted DEF MessagesInv
  <2>4. IsFiniteSet(Calling(net', d)) /\ inbox'[d] \in Nat
    BY FS_Subset DEF CallsSound, Calling
  <2>5. Cardinality(Waiting(queue', d)) \in Nat /\ Cardinality(Calling(net', d)) \in Nat
    BY <2>4, QueueFinite, FS_CardinalityType DEF CallsSound
  <2>6. Copies(d)'
          = inbox'[d] + Cardinality(Calling(net', d)) + Cardinality(Waiting(queue', d))
    BY DEF Copies, Calling, Waiting
  <2> DEFINE before == inbox[d] + Cardinality(Calling(net, d)) + Cardinality(Waiting(queue, d))
             after == inbox'[d] + Cardinality(Calling(net', d)) + Cardinality(Waiting(queue', d))
  <2>7. before \in Nat /\ after \in Nat /\ after <= before
    BY <2>3, <2>4, <2>5
  <2>8. Copies(d) = before /\ Copies(d)' = after
    BY <2>3, <2>6
  <2> HIDE DEF before, after
  <2> QED
    BY <2>1, <2>2, <2>7, <2>8
<1> QED
  BY <1>1 DEF MessagesInv, CopiesAreTries

\* A call arrives: out of the network, into the queue.
LEMMA ArriveKeeps ==
  ASSUME MessagesInv, NEW c \in net, Arrive(c)
  PROVE  MessagesInv'
<1>1. /\ net' = net \ {c} /\ queue' = Append(queue, c) /\ UNCHANGED <<inbox, pushed, snd>>
  BY DEF Arrive, peer
<1>2. IsFiniteSet(net) /\ (\E S : queue \in Seq(S)) /\ inbox \in [DMs -> Nat]
  BY DEF MessagesInv, CallsSound
<1>3. SendersSound' /\ OkIsReceived'
  BY <1>1 DEF MessagesInv, SendersSound, OkIsReceived
<1>4. CallsSound'
  <2>1. IsFiniteSet(net')
    BY <1>1, <1>2, FS_Subset
  <2>2. \E S : queue' \in Seq(S)
    BY <1>1, <1>2, QueueGrows
  <2> QED
    BY <1>1, <1>2, <2>1, <2>2 DEF CallsSound
<1>5. ASSUME NEW d \in DMs
      PROVE  inbox'[d] + Cardinality(Calling(net', d)) + Cardinality(Waiting(queue', d))
               <= inbox[d] + Cardinality(Calling(net, d)) + Cardinality(Waiting(queue, d))
  <2>1. Cardinality(Calling(net, d)) = Cardinality(Calling(net', d)) + One(c.dm, d)
        /\ Cardinality(Calling(net', d)) \in Nat
    BY <1>1, <1>2, NetShrinks
  <2>2. Cardinality(Waiting(queue', d)) = Cardinality(Waiting(queue, d)) + One(c.dm, d)
        /\ Cardinality(Waiting(queue, d)) \in Nat
    BY <1>1, <1>2, QueueGrows, QueueFinite
  <2>3. One(c.dm, d) \in Nat /\ inbox[d] \in Nat /\ inbox'[d] = inbox[d]
    BY <1>1, <1>2 DEF One
  <2> QED
    BY <2>1, <2>2, <2>3
<1> QED
  BY <1>1, <1>3, <1>4, <1>5, CopiesKept

\* A dead route is reported: an entry that is no message's.
LEMMA DieKeeps ==
  ASSUME MessagesInv, NEW dead, Die(dead)
  PROVE  MessagesInv'
<1>1. queue' = Append(queue, RouteChange(dead)) /\ UNCHANGED <<inbox, pushed, snd, net>>
  BY DEF Die, peer
<1>2. IsFiniteSet(net) /\ (\E S : queue \in Seq(S)) /\ inbox \in [DMs -> Nat]
  BY DEF MessagesInv, CallsSound
<1>3. SendersSound' /\ OkIsReceived'
  BY <1>1 DEF MessagesInv, SendersSound, OkIsReceived
<1>4. CallsSound'
  BY <1>1, <1>2, QueueGrows DEF CallsSound
<1>5. ASSUME NEW d \in DMs
      PROVE  inbox'[d] + Cardinality(Calling(net', d)) + Cardinality(Waiting(queue', d))
               <= inbox[d] + Cardinality(Calling(net, d)) + Cardinality(Waiting(queue, d))
  <2>1. One(RouteChange(dead).dm, d) = 0
    BY MessagesAssumption DEF One, RouteChange
  <2>2. Cardinality(Waiting(queue', d)) = Cardinality(Waiting(queue, d)) + 0
        /\ Cardinality(Waiting(queue, d)) \in Nat
    BY <1>1, <1>2, <2>1, QueueGrows, QueueFinite
  <2>3. IsFiniteSet(Calling(net, d))
    BY <1>2, FS_Subset DEF Calling
  <2>4. Cardinality(Calling(net, d)) \in Nat /\ inbox[d] \in Nat
    BY <1>2, <2>3, FS_CardinalityType
  <2> QED
    BY <1>1, <2>2, <2>4
<1> QED
  BY <1>1, <1>3, <1>4, <1>5, CopiesKept

\* The loop takes an entry off the queue: a call goes to the inbox or nowhere.
LEMMA TakenKeeps ==
  ASSUME MessagesInv, Taken, net' = net, SendersSound', OkIsReceived',
         \A d \in DMs : TriesOf(snd'[d]) = TriesOf(snd[d]),
         inbox' \in [DMs -> Nat],
         \A d \in DMs : inbox'[d] <= inbox[d] + One(Head(queue).dm, d)
  PROVE  MessagesInv'
<1>1. queue # << >> /\ queue' = Tail(queue)
  BY DEF Taken
<1>2. IsFiniteSet(net) /\ (\E S : queue \in Seq(S)) /\ inbox \in [DMs -> Nat]
  BY DEF MessagesInv, CallsSound
<1>3. CallsSound'
  BY <1>1, <1>2, QueueShrinks DEF CallsSound
<1>4. ASSUME NEW d \in DMs
      PROVE  inbox'[d] + Cardinality(Calling(net', d)) + Cardinality(Waiting(queue', d))
               <= inbox[d] + Cardinality(Calling(net, d)) + Cardinality(Waiting(queue, d))
  <2>1. Cardinality(Waiting(queue, d))
          = Cardinality(Waiting(queue', d)) + One(Head(queue).dm, d)
    BY <1>1, <1>2, QueueShrinks
  <2>2. Cardinality(Waiting(queue', d)) \in Nat
    BY <1>3, QueueFinite DEF CallsSound
  <2>3. IsFiniteSet(Calling(net, d))
    BY <1>2, FS_Subset DEF Calling
  <2>4. Cardinality(Calling(net, d)) \in Nat /\ inbox[d] \in Nat /\ inbox'[d] \in Nat
        /\ One(Head(queue).dm, d) \in Nat
    BY <1>2, <2>3, FS_CardinalityType DEF One
  <2>5. inbox'[d] <= inbox[d] + One(Head(queue).dm, d)
    OBVIOUS
  <2> QED
    BY <2>1, <2>2, <2>4, <2>5
<1> QED
  BY <1>3, <1>4, CopiesKept

LEMMA HandleCallKeeps ==
  ASSUME MessagesInv, NEW e \in DMs, NEW r, HandleCall(Call(e, r))
  PROVE  MessagesInv'
<1>1. /\ Call(e, r).dm = e /\ Taken /\ Head(queue) = Call(e, r)
      /\ IF snd[e].whole
         THEN inbox' = [inbox EXCEPT ![e] = @ + 1] /\ pushed' = pushed \cup {e}
         ELSE UNCHANGED <<inbox, pushed>>
      /\ net' = net
      /\ \/ snd[e].pc = "wait" /\ snd' = [snd EXCEPT ![e].pc = "ok"]
         \/ snd' = snd
  BY DEF HandleCall, Answered, Goes, Call
<1>2. Shaped(snd[e]) /\ inbox \in [DMs -> Nat]
  BY DEF MessagesInv, SendersSound, CallsSound
<1>3. inbox' \in [DMs -> Nat] /\ \A d \in DMs : inbox'[d] <= inbox[d] + One(e, d)
  BY <1>1, <1>2 DEF One
<1>4. /\ SendersSound' /\ \A d \in DMs : snd'[d].whole = snd[d].whole
      /\ \A d \in DMs : TriesOf(snd'[d]) = TriesOf(snd[d])
      /\ \A d \in DMs : d # e => snd'[d] = snd[d]
  <2>1. CASE snd[e].pc = "wait" /\ snd' = [snd EXCEPT ![e].pc = "ok"]
    <3>1. snd' = [snd EXCEPT ![e] = At(snd[e], "ok", snd[e].i)]
      BY <1>2, <2>1, AtExcept
    <3>2. /\ Shaped(At(snd[e], "ok", snd[e].i))
          /\ At(snd[e], "ok", snd[e].i).whole = snd[e].whole
          /\ TriesOf(At(snd[e], "ok", snd[e].i)) = TriesOf(snd[e])
      BY <1>2, <2>1 DEF Shaped, At, TriesOf
    <3>3. SendersSound' /\ snd'[e] = At(snd[e], "ok", snd[e].i)
          /\ \A d \in DMs : d # e => snd'[d] = snd[d]
      BY <3>1, <3>2, SenderMoves
    <3> QED
      BY <3>2, <3>3
  <2>2. CASE snd' = snd
    BY <2>2 DEF MessagesInv, SendersSound
  <2> QED
    BY <1>1, <2>1, <2>2
<1>5. OkIsReceived'
  <2> SUFFICES ASSUME NEW d \in DMs, snd'[d].whole, snd'[d].pc = "ok" PROVE d \in pushed'
    BY DEF OkIsReceived
  <2>1. snd[d].whole
    BY <1>4
  <2>2. CASE d = e
    BY <1>1, <2>1, <2>2
  <2>3. CASE d # e
    BY <1>1, <1>4, <2>1, <2>3 DEF MessagesInv, OkIsReceived
  <2> QED
    BY <2>2, <2>3
<1> QED
  BY <1>1, <1>3, <1>4, <1>5, TakenKeeps

LEMMA HandleRouteKeeps ==
  ASSUME MessagesInv, HandleForeign \/ HandleDeath
  PROVE  MessagesInv'
<1>1. Taken /\ UNCHANGED <<inbox, pushed, snd, net>>
  BY DEF HandleForeign, HandleDeath, peer
<1>2. SendersSound' /\ OkIsReceived' /\ \A d \in DMs : TriesOf(snd'[d]) = TriesOf(snd[d])
  BY <1>1 DEF MessagesInv, SendersSound, OkIsReceived
<1>3. inbox' \in [DMs -> Nat] /\ \A d \in DMs : inbox'[d] <= inbox[d] + One(Head(queue).dm, d)
  BY <1>1 DEF MessagesInv, CallsSound, One
<1> QED
  BY <1>1, <1>2, <1>3, TakenKeeps

LEMMA RestartKeeps ==
  ASSUME MessagesInv, Restart
  PROVE  MessagesInv'
<1>1. queue' = << >> /\ inbox' = [d \in DMs |-> 0] /\ UNCHANGED <<pushed, snd, net>>
  BY DEF Restart
<1>2. SendersSound' /\ OkIsReceived' /\ \A d \in DMs : TriesOf(snd'[d]) = TriesOf(snd[d])
  BY <1>1 DEF MessagesInv, SendersSound, OkIsReceived
<1>3. CallsSound'
  BY <1>1, EmptySeq DEF MessagesInv, CallsSound
<1>4. ASSUME NEW d \in DMs
      PROVE  inbox'[d] + Cardinality(Calling(net', d)) + Cardinality(Waiting(queue', d))
               <= inbox[d] + Cardinality(Calling(net, d)) + Cardinality(Waiting(queue, d))
  <2>1. Waiting(queue', d) = {}
    BY <1>1 DEF Waiting
  <2>2. Cardinality(Waiting(queue', d)) = 0 /\ inbox'[d] = 0 /\ net' = net
    BY <1>1, <2>1, FS_EmptySet
  <2>3. /\ inbox[d] \in Nat /\ Cardinality(Waiting(queue, d)) \in Nat
        /\ Cardinality(Calling(net, d)) \in Nat
    BY CopiesCounted DEF MessagesInv
  <2> QED
    BY <2>2, <2>3
<1> QED
  BY <1>2, <1>3, <1>4, CopiesKept

LEMMA MessagesStep == MessagesInv /\ [Next]_vars => MessagesInv'
<1> SUFFICES ASSUME MessagesInv, [Next]_vars PROVE MessagesInv'
  OBVIOUS
<1>1. ASSUME NEW d \in DMs, ReadPeer(d) \/ SenderStep(d) PROVE MessagesInv'
  BY <1>1, SenderKeeps
<1>2. ASSUME NEW c \in net, Arrive(c) PROVE MessagesInv'
  BY <1>2, ArriveKeeps
<1>3. ASSUME NEW dead \in SUBSET live \ {{}}, Die(dead) PROVE MessagesInv'
  BY <1>3, DieKeeps
<1>4. ASSUME NEW d \in DMs, NEW r \in Routes, HandleCall(Call(d, r)) PROVE MessagesInv'
  BY <1>4, HandleCallKeeps
<1>5. CASE HandleForeign \/ HandleDeath
  BY <1>5, HandleRouteKeeps
<1>6. ASSUME UNCHANGED <<inbox, pushed, queue, snd, net>> PROVE MessagesInv'
  BY <1>6 DEF MessagesInv, SendersSound, CallsSound, OkIsReceived, CopiesAreTries, Copies, Tries
<1>7. CASE Create \/ SetRoutes \/ LoopCopies \/ LoopPuts \/ EditorCopies \/ EditorPuts
  BY <1>6, <1>7 DEF Create, SetRoutes, LoopCopies, LoopPuts, EditorCopies, EditorPuts
<1>8. CASE UNCHANGED vars
  BY <1>6, <1>8 DEF vars, peer
<1>9. CASE Restart
  BY <1>9, RestartKeeps
<1> QED
  BY <1>1, <1>2, <1>3, <1>4, <1>5, <1>7, <1>8, <1>9, Zenon DEF Next, LoopStep, AtRest

-----------------------------------------------------------------------------
(* The theorems.                                                           *)

\* The inductive invariant holds in every state.
THEOREM MessagesInvariant == Spec => []MessagesInv
<1> QED
  BY MessagesInit, MessagesStep, PTL DEF Spec

\* A message that fits one app_message and was answered "ok" has been in the peer's
\* inbox: on whichever route and in whichever run of the peer the answer was given.
THEOREM OkIsReceivedTheorem == Spec => []OkIsReceived
<1>1. MessagesInv => OkIsReceived
  BY DEF MessagesInv
<1> QED
  BY <1>1, MessagesInvariant, PTL

\* Of one message the inbox, the queue and the network hold no more copies, together,
\* than routes send_dm has called or passed over: no answer, late or lost, makes more.
THEOREM CopiesAreTriesTheorem == Spec => []CopiesAreTries
<1>1. MessagesInv => CopiesAreTries
  BY DEF MessagesInv
<1> QED
  BY <1>1, MessagesInvariant, PTL

=============================================================================
