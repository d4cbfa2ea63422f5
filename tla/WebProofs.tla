------------------------------ MODULE WebProofs -----------------------------
(***************************************************************************)
(* Proofs about Web and MCWeb, for any connections, requests, limits, keys,*)
(* failed writes and restarts: how a request is cut into reads does not    *)
(* show, and the list of follows and its file are what was asked for.      *)
(***************************************************************************)
EXTENDS MCWeb, FiniteSetTheorems, WellFoundedInduction, TLAPS

-----------------------------------------------------------------------------
(* Lists of keys.                                                          *)

LEMMA SmallestExists ==
  ASSUME NEW S \in SUBSET Nat, S # {}
  PROVE  \E m \in S : \A j \in S : m <= j
<1>1. PICK m \in S : \A j \in S : ~ (<<j, m>> \in OpToRel(<, Nat))
  BY NatLessThanWellFounded, WFMin
<1>2. \A j \in S : ~ (j < m)
  BY <1>1 DEF OpToRel
<1> QED
  BY <1>2

\* f is the `kept` of Without, up to m.
Keeps(f, list, key, m) ==
  f = [n \in 0 .. m |->
         IF n = 0 THEN << >>
         ELSE IF list[n] = key THEN f[n - 1] ELSE Append(f[n - 1], list[n])]

\* There is such a function: else there is a least m up to which there is none.
LEMMA KeptExists ==
  ASSUME NEW list, NEW key, NEW m \in Nat
  PROVE  \E f : Keeps(f, list, key, m)
<1> SUFFICES ASSUME ~ \E f : Keeps(f, list, key, m) PROVE FALSE
  OBVIOUS
<1> DEFINE Bad == {k \in Nat : ~ \E f : Keeps(f, list, key, k)}
<1>1. PICK k \in Bad : \A j \in Bad : k <= j
  <2>1. Bad \in SUBSET Nat /\ Bad # {}
    OBVIOUS
  <2> HIDE DEF Bad
  <2> QED
    BY <2>1, SmallestExists
<1>2. k \in Nat /\ ~ \E f : Keeps(f, list, key, k)
  BY <1>1
<1>3. CASE k = 0
  <2>1. Keeps([n \in 0 .. 0 |-> << >>], list, key, 0)
    BY DEF Keeps
  <2> QED
    BY <1>2, <1>3, <2>1
<1>4. CASE k # 0
  <2>1. k - 1 \in Nat /\ k - 1 \notin Bad
    BY <1>1, <1>2, <1>4
  <2>2. PICK g : Keeps(g, list, key, k - 1)
    BY <2>1
  <2> DEFINE next == IF list[k] = key THEN g[k - 1] ELSE Append(g[k - 1], list[k])
             f == [n \in 0 .. k |-> IF n = k THEN next ELSE g[n]]
  <2>3. ASSUME NEW n \in 0 .. k
        PROVE  f[n] = IF n = 0 THEN << >>
                      ELSE IF list[n] = key THEN f[n - 1] ELSE Append(f[n - 1], list[n])
    <3>1. CASE n = k
      <4>1. f[n] = next /\ f[n - 1] = g[k - 1] /\ n # 0
        <5> HIDE DEF next
        <5> QED
          BY <1>2, <1>4, <3>1
      <4> QED
        BY <3>1, <4>1
    <3>2. CASE n # k
      <4>1. n \in 0 .. k - 1 /\ f[n] = g[n] /\ (n # 0 => f[n - 1] = g[n - 1])
        <5> HIDE DEF next
        <5> QED
          BY <1>2, <1>4, <3>2
      <4>2. g[n] = IF n = 0 THEN << >>
                   ELSE IF list[n] = key THEN g[n - 1] ELSE Append(g[n - 1], list[n])
        BY <2>2, <4>1 DEF Keeps
      <4> QED
        BY <4>1, <4>2
    <3> QED
      BY <3>1, <3>2
  <2>4. f = [n \in 0 .. k |-> f[n]]
    <3> HIDE DEF next
    <3> QED
      OBVIOUS
  <2> HIDE DEF f
  <2>5. Keeps(f, list, key, k)
    BY <2>3, <2>4 DEF Keeps
  <2> QED
    BY <1>2, <2>5
<1> QED
  BY <1>3, <1>4

LEMMA Kept ==
  ASSUME NEW list, NEW key, Len(list) \in Nat
  PROVE  \E f : /\ Keeps(f, list, key, Len(list))
                /\ Without(list, key) = f[Len(list)]
<1> DEFINE m == Len(list)
           kept == CHOOSE f : Keeps(f, list, key, m)
<1>1. Keeps(kept, list, key, m)
  BY KeptExists
<1>2. Without(list, key) = kept[m]
  BY Zenon DEF Without, Keeps
<1> QED
  BY <1>1, <1>2

\* Taking a key out of a list takes out that key, and keeps the rest, once each.
LEMMA WithoutIs ==
  ASSUME NEW S, NEW list \in Seq(S), NEW key
  PROVE  /\ Without(list, key) \in Seq(S)
         /\ ToSet(Without(list, key)) = ToSet(list) \ {key}
         /\ IsInjective(list) => IsInjective(Without(list, key))
<1>0. Len(list) \in Nat /\ DOMAIN list = 1 .. Len(list) /\ \A i \in 1 .. Len(list) : list[i] \in S
  OBVIOUS
<1>1. PICK f : Keeps(f, list, key, Len(list)) /\ Without(list, key) = f[Len(list)]
  BY <1>0, Kept
<1>2. \A n \in 0 .. Len(list) :
        f[n] = IF n = 0 THEN << >>
               ELSE IF list[n] = key THEN f[n - 1] ELSE Append(f[n - 1], list[n])
  BY <1>1 DEF Keeps
<1> DEFINE Good(n) ==
             /\ f[n] \in Seq(S)
             /\ ToSet(f[n]) = {list[i] : i \in 1 .. n} \ {key}
             /\ IsInjective(list) => IsInjective(f[n])
<1>3. Good(0)
  <2>1. f[0] = << >>
    BY <1>0, <1>2
  <2> QED
    BY <2>1 DEF ToSet, IsInjective
<1>4. ASSUME NEW n \in 1 .. Len(list), Good(n - 1)
      PROVE  Good(n)
  <2> DEFINE g == f[n - 1]
  <2>0. n \in Nat /\ n # 0 /\ list[n] \in S /\ n \in DOMAIN list
    BY <1>0
  <2>1. f[n] = IF list[n] = key THEN g ELSE Append(g, list[n])
    BY <1>2, <2>0
  <2>2. {list[i] : i \in 1 .. n} = {list[i] : i \in 1 .. n - 1} \cup {list[n]}
    BY <2>0
  <2>3. /\ g \in Seq(S) /\ ToSet(g) = {list[i] : i \in 1 .. n - 1} \ {key}
        /\ IsInjective(list) => IsInjective(g)
    BY <1>4
  <2> HIDE DEF g
  <2>4. CASE list[n] = key
    BY <2>1, <2>2, <2>3, <2>4
  <2>5. CASE list[n] # key
    <3> DEFINE h == Append(g, list[n])
    <3>1. /\ h \in Seq(S) /\ Len(h) = Len(g) + 1 /\ Len(g) \in Nat
          /\ DOMAIN h = 1 .. Len(g) + 1 /\ DOMAIN g = 1 .. Len(g)
          /\ h[Len(g) + 1] = list[n] /\ \A i \in 1 .. Len(g) : h[i] = g[i]
      BY <2>0, <2>3
    <3>2. f[n] = h
      BY <2>1, <2>5
    <3> HIDE DEF h
    <3>3. ToSet(h) = ToSet(g) \cup {list[n]}
      BY <3>1 DEF ToSet
    <3>4. ASSUME IsInjective(list) PROVE IsInjective(h)
      <4>1. \A i \in DOMAIN g : g[i] # list[n]
        <5>1. list[n] \notin ToSet(g)
          BY <1>0, <2>0, <2>3, <3>4 DEF IsInjective
        <5> QED
          BY <5>1 DEF ToSet
      <4>2. IsInjective(g)
        BY <2>3, <3>4
      <4> QED
        BY <3>1, <4>1, <4>2 DEF IsInjective
    <3> QED
      BY <2>2, <2>3, <2>5, <3>1, <3>2, <3>3, <3>4
  <2> QED
    BY <2>4, <2>5
<1>5. Good(Len(list))
  <2> SUFFICES ASSUME ~ Good(Len(list)) PROVE FALSE
    OBVIOUS
  <2> DEFINE Bad == {n \in 0 .. Len(list) : ~ Good(n)}
  <2>1. PICK n \in Bad : \A j \in Bad : n <= j
    <3>1. Bad \in SUBSET Nat /\ Bad # {}
      <4> HIDE DEF Good
      <4> QED
        BY <1>0
    <3> HIDE DEF Bad
    <3> QED
      BY <3>1, SmallestExists
  <2> HIDE DEF Good
  <2>2. n \in 1 .. Len(list)
    BY <1>0, <1>3, <2>1
  <2>3. n - 1 \in 0 .. Len(list) /\ n - 1 \notin Bad
    BY <1>0, <2>1, <2>2
  <2> QED
    BY <1>4, <2>1, <2>2, <2>3
<1> QED
  BY <1>0, <1>1, <1>5 DEF ToSet

\* Another key at the end.
LEMMA AppendIs ==
  ASSUME NEW S, NEW list \in Seq(S), NEW key \in S
  PROVE  /\ Append(list, key) \in Seq(S)
         /\ ToSet(Append(list, key)) = ToSet(list) \cup {key}
         /\ IsInjective(list) /\ key \notin ToSet(list) => IsInjective(Append(list, key))
<1> DEFINE longer == Append(list, key)
<1>1. /\ longer \in Seq(S) /\ Len(list) \in Nat
      /\ DOMAIN longer = 1 .. Len(list) + 1 /\ DOMAIN list = 1 .. Len(list)
      /\ longer[Len(list) + 1] = key /\ \A i \in 1 .. Len(list) : longer[i] = list[i]
  OBVIOUS
<1> HIDE DEF longer
<1>2. ToSet(longer) = ToSet(list) \cup {key}
  BY <1>1 DEF ToSet
<1>3. IsInjective(list) /\ key \notin ToSet(list) => IsInjective(longer)
  BY <1>1 DEF ToSet, IsInjective
<1> QED
  BY <1>1, <1>2, <1>3 DEF longer

\* A list without repetitions is as long as its set is large.
LEMMA LengthIsCardinality ==
  ASSUME NEW S, NEW list \in Seq(S), IsInjective(list)
  PROVE  Cardinality(ToSet(list)) = Len(list)
<1>1. Len(list) \in Nat /\ list \in [1 .. Len(list) -> ToSet(list)]
  BY DEF ToSet
<1>2. list \in Bijection(1 .. Len(list), ToSet(list))
  BY <1>1 DEF Bijection, Injection, Surjection, ToSet
<1>3. ExistsBijection(1 .. Len(list), ToSet(list))
  BY <1>2 DEF ExistsBijection
<1> QED
  BY <1>1, <1>3, FS_CountingElements

-----------------------------------------------------------------------------
(* Reading a request.                                                      *)

Tasks ==
  [at : {"head", "body", "rejected", "refused", "truncate", "write", "answered"},
   ask : AskShape, got : Nat, list : Seq(Keys)]

Dropped == [at |-> "dropped"]

\* What a task has read so far, and what it has found out from it.
ReadSoFar(k) ==
  /\ k.got <= k.ask.sent
  /\ k.at = "head" => k.got < k.ask.head /\ k.got <= MaxHeaders + HeadChunk
  /\ k.at = "rejected" => ~ Servable(k.ask)
  /\ k.at \notin {"head", "rejected"} =>
       /\ k.ask.parses /\ k.ask.clen <= MaxBody
       /\ k.ask.head <= k.got /\ k.ask.head <= MaxHeaders + HeadChunk
  /\ k.at \notin {"head", "rejected", "body"} =>
       k.got - k.ask.head >= k.ask.clen \/ k.got = k.ask.sent

ConnTypes ==
  /\ conn \in [Conns -> {NotMade, Dropped} \cup Tasks]
  /\ follows \in Seq(Keys) /\ file \in Seq(Keys)

WebInv == ConnTypes /\ \A c \in Conns : conn[c] \in Tasks => ReadSoFar(conn[c])

LEMMA Limits ==
  /\ MaxHeaders \in Nat /\ MaxBody \in Nat
  /\ HeadChunk \in Nat \ {0} /\ BodyChunk \in Nat \ {0}
  /\ \A c \in Conns : Asks[c] \subseteq AskShape
BY WebAssumption

LEMMA TaskIs ==
  ASSUME WebInv, NEW c \in Conns, conn[c].at \notin {"none", "dropped"}
  PROVE  /\ conn[c] \in Tasks /\ ReadSoFar(conn[c])
         /\ conn[c].ask \in AskShape /\ conn[c].got \in Nat
         /\ conn[c].ask.head \in Nat \ {0} /\ conn[c].ask.sent \in Nat
         /\ conn[c].ask.clen \in Nat /\ conn[c].ask.parses \in BOOLEAN
<1>1. conn[c] \in Tasks /\ ReadSoFar(conn[c])
  BY DEF WebInv, ConnTypes, NotMade, Dropped
<1>2. conn[c].ask \in AskShape /\ conn[c].got \in Nat
  BY <1>1 DEF Tasks
<1> QED
  BY <1>1, <1>2 DEF AskShape

\* One task goes on.
LEMMA TaskGoesOn ==
  ASSUME WebInv, NEW c \in Conns, NEW k, k \in Tasks, ReadSoFar(k),
         conn' = [conn EXCEPT ![c] = k], follows' \in Seq(Keys), file' \in Seq(Keys)
  PROVE  WebInv'
BY DEF WebInv, ConnTypes

LEMMA ReadHeadKeeps ==
  ASSUME WebInv, NEW c \in Conns, ReadHead(c)
  PROVE  WebInv'
<1>1. /\ At(c, "head") /\ conn[c].got <= MaxHeaders /\ UNCHANGED <<follows, file>>
  BY DEF ReadHead, listvars
<1> DEFINE r == conn[c]
           ask == r.ask
<1>2. /\ r \in Tasks /\ ReadSoFar(r) /\ ask \in AskShape /\ r.got \in Nat
      /\ ask.head \in Nat \ {0} /\ ask.sent \in Nat /\ ask.clen \in Nat
      /\ ask.parses \in BOOLEAN
  BY <1>1, TaskIs DEF At
<1>3. PICK n \in 1 .. Lesser(HeadChunk, Unread(c)) :
        conn' = [conn EXCEPT ![c] =
                   [[conn[c] EXCEPT !.got = conn[c].got + n]
                      EXCEPT !.at = AfterRead([conn[c] EXCEPT !.got = conn[c].got + n])]]
  BY Zenon DEF ReadHead
<1>4. n \in Nat /\ n <= HeadChunk /\ r.got + n <= ask.sent
  BY <1>2, Limits DEF Lesser, Unread
<1> DEFINE got == r.got + n
           k == [r EXCEPT !.got = got]
           m == [k EXCEPT !.at = AfterRead(k)]
<1>5. got \in Nat /\ got <= ask.sent /\ got <= MaxHeaders + HeadChunk
  BY <1>1, <1>2, <1>4, Limits
<1> HIDE DEF got
<1>6. k \in Tasks /\ k.got = got /\ k.ask = ask /\ k.list = r.list
  BY <1>2, <1>5 DEF Tasks
<1> HIDE DEF k
<1>7. AfterRead(k) \in {"head", "body", "rejected"}
  BY DEF AfterRead
<1>8. m \in Tasks /\ m.at = AfterRead(k) /\ m.got = got /\ m.ask = ask
  BY <1>6, <1>7 DEF Tasks
<1>9. /\ AfterRead(k) = "head" => got < ask.head
      /\ AfterRead(k) = "rejected" => ~ (ask.parses /\ ask.clen <= MaxBody)
      /\ AfterRead(k) = "body" => ask.head <= got /\ ask.parses /\ ask.clen <= MaxBody
  BY <1>2, <1>5, <1>6 DEF AfterRead
<1>10. conn' = [conn EXCEPT ![c] = m]
  BY <1>3 DEF got, k
<1> HIDE DEF m, ask
<1>11. ReadSoFar(m)
  BY <1>2, <1>5, <1>7, <1>8, <1>9, Limits DEF ReadSoFar, Servable
<1> QED
  BY <1>1, <1>8, <1>10, <1>11, TaskGoesOn DEF WebInv, ConnTypes

LEMMA ReadBodyKeeps ==
  ASSUME WebInv, NEW c \in Conns, ReadBody(c)
  PROVE  WebInv'
<1>1. At(c, "body") /\ UNCHANGED <<follows, file>>
  BY DEF ReadBody, listvars
<1> DEFINE r == conn[c]
           ask == r.ask
<1>2. /\ r \in Tasks /\ ReadSoFar(r) /\ ask \in AskShape /\ r.got \in Nat
      /\ ask.head \in Nat \ {0} /\ ask.sent \in Nat /\ r.at = "body"
  BY <1>1, TaskIs DEF At
<1>3. PICK n \in 1 .. Lesser(BodyChunk, Unread(c)) :
        conn' = [conn EXCEPT ![c] = [conn[c] EXCEPT !.got = conn[c].got + n]]
  BY Zenon DEF ReadBody
<1> DEFINE got == r.got + n
           k == [r EXCEPT !.got = got]
<1>4. got \in Nat /\ r.got <= got /\ got <= ask.sent
  BY <1>2, Limits DEF Lesser, Unread
<1>5. conn' = [conn EXCEPT ![c] = k]
  BY <1>3
<1> HIDE DEF got
<1>6. k \in Tasks /\ k.got = got /\ k.ask = ask /\ k.at = "body"
  BY <1>2, <1>4 DEF Tasks
<1> HIDE DEF k, ask
<1>7. ReadSoFar(k)
  BY <1>2, <1>4, <1>6 DEF ReadSoFar, ask
<1> QED
  BY <1>1, <1>5, <1>6, <1>7, TaskGoesOn DEF WebInv, ConnTypes

\* The steps that read nothing more.
Answers(c) ==
  \/ HeadRejected(c) \/ ReadFails(c) \/ Follow(c) \/ FollowRefused(c) \/ Unfollow(c)
  \/ Truncate(c) \/ Write(c) \/ SaveFails(c)

LEMMA ListsKept ==
  ASSUME WebInv, NEW c \in Conns, Answers(c)
  PROVE  follows' \in Seq(Keys) /\ file' \in Seq(Keys)
<1>0. follows \in Seq(Keys) /\ file \in Seq(Keys)
  BY DEF WebInv, ConnTypes
<1>1. CASE Follow(c)
  <2>1. /\ Field(c) \in Keys /\ file' = file
        /\ \/ follows' = follows
           \/ follows' = Append(follows, Field(c))
    BY <1>1 DEF Follow, Changed
  <2> QED
    BY <1>0, <2>1
<1>2. CASE Unfollow(c)
  <2>1. follows' = Without(follows, Field(c)) /\ file' = file
    BY <1>2 DEF Unfollow, Changed
  <2> QED
    BY <1>0, <2>1, WithoutIs
<1>3. CASE Truncate(c)
  BY <1>0, <1>3 DEF Truncate
<1>4. CASE Write(c)
  <2> DEFINE list == conn[c].list
             old == SubSeq(file, Len(list) + 1, Len(file))
  <2>1. list \in Seq(Keys)
    BY <1>4, TaskIs DEF Write, At, Tasks
  <2>2. Len(list) + 1 \in Nat \ {0} /\ Len(file) \in Nat
    BY <1>0, <2>1
  <2> HIDE DEF list
  <2>3. old \in Seq(Keys)
    BY <1>0, <2>2
  <2>4. follows' = follows /\ file' = list \o old
    BY <1>4 DEF Write, list
  <2> QED
    BY <1>0, <2>1, <2>3, <2>4
<1>5. CASE HeadRejected(c) \/ ReadFails(c) \/ FollowRefused(c) \/ SaveFails(c)
  BY <1>0, <1>5 DEF HeadRejected, ReadFails, FollowRefused, SaveFails, listvars
<1> QED
  BY <1>1, <1>2, <1>3, <1>4, <1>5 DEF Answers

LEMMA AnswersKeep ==
  ASSUME WebInv, NEW c \in Conns, Answers(c)
  PROVE  WebInv'
<1> DEFINE r == conn[c]
<1>0. /\ r.at \in {"head", "body", "truncate", "write"}
  BY DEF Answers, HeadRejected, ReadFails, Follow, FollowRefused, Unfollow, Truncate, Write,
     SaveFails, Asked, At
<1>1. /\ r \in Tasks /\ ReadSoFar(r) /\ r.ask \in AskShape /\ r.got \in Nat
      /\ r.ask.head \in Nat \ {0} /\ r.ask.sent \in Nat /\ r.ask.clen \in Nat
  BY <1>0, TaskIs
<1>2. follows' \in Seq(Keys) /\ file' \in Seq(Keys)
  BY ListsKept
<1>3. CASE HeadRejected(c)
  <2> DEFINE k == [r EXCEPT !.at = "rejected"]
  <2>1. /\ conn' = [conn EXCEPT ![c] = k] /\ r.at = "head"
        /\ r.got > MaxHeaders \/ r.got = r.ask.sent
    BY <1>1, <1>3 DEF HeadRejected, Goes, At, Closed, Unread
  <2>2. k \in Tasks /\ k.at = "rejected" /\ k.ask = r.ask /\ k.got = r.got
    BY <1>1 DEF Tasks
  <2> HIDE DEF k
  <2>3. ReadSoFar(k)
    BY <1>1, <2>1, <2>2, Limits DEF ReadSoFar, Servable
  <2> HIDE DEF r
  <2> QED
    BY <1>2, <2>1, <2>2, <2>3, TaskGoesOn
<1>8. CASE ReadFails(c)
  <2> DEFINE k == [r EXCEPT !.at = "rejected"]
  <2>1. conn' = [conn EXCEPT ![c] = k] /\ r.ask.breaks
    BY <1>8 DEF ReadFails, Goes
  <2>2. k \in Tasks /\ k.at = "rejected" /\ k.ask = r.ask /\ k.got = r.got
    BY <1>1 DEF Tasks
  <2> HIDE DEF k
  <2>3. ReadSoFar(k)
    BY <1>1, <2>1, <2>2 DEF ReadSoFar, Servable
  <2> HIDE DEF r
  <2> QED
    BY <1>2, <2>1, <2>2, <2>3, TaskGoesOn
<1>4. ASSUME NEW at \in {"refused", "truncate"}, NEW list \in Seq(Keys), BodyIn(c), r.at = "body",
             conn' = [conn EXCEPT ![c] = [[r EXCEPT !.at = at] EXCEPT !.list = list]]
      PROVE  WebInv'
  <2> DEFINE k == [[r EXCEPT !.at = at] EXCEPT !.list = list]
  <2>1. r.got - r.ask.head >= r.ask.clen \/ r.got = r.ask.sent
    BY <1>1, <1>4 DEF BodyIn, BodyLen, Closed, Unread
  <2>2. k \in Tasks /\ k.at = at /\ k.ask = r.ask /\ k.got = r.got
    BY <1>1 DEF Tasks
  <2>3. conn' = [conn EXCEPT ![c] = k]
    BY <1>4
  <2> HIDE DEF k, r
  <2>4. ReadSoFar(k)
    BY <1>1, <1>4, <2>1, <2>2 DEF ReadSoFar
  <2> QED
    BY <1>2, <2>2, <2>3, <2>4, TaskGoesOn
<1>5. CASE Follow(c) \/ Unfollow(c)
  <2>1. /\ conn' = [conn EXCEPT ![c] = [[r EXCEPT !.at = "truncate"] EXCEPT !.list = follows']]
        /\ BodyIn(c) /\ r.at = "body"
    BY <1>5 DEF Follow, Unfollow, Changed, Asked, At
  <2> QED
    BY <1>2, <1>4, <2>1
<1>6. CASE FollowRefused(c)
  <2>1. conn' = [conn EXCEPT ![c] = [r EXCEPT !.at = "refused"]] /\ BodyIn(c) /\ r.at = "body"
    BY <1>6 DEF FollowRefused, Goes, Asked, At
  <2>2. r.list \in Seq(Keys)
    BY <1>1 DEF Tasks
  <2>3. [r EXCEPT !.at = "refused"] = [[r EXCEPT !.at = "refused"] EXCEPT !.list = r.list]
    BY <1>1 DEF Tasks
  <2> HIDE DEF r
  <2> QED
    BY <1>4, <2>1, <2>2, <2>3
<1>7. CASE Truncate(c) \/ Write(c) \/ SaveFails(c)
  <2>1. PICK at \in {"write", "answered"} : conn' = [conn EXCEPT ![c] = [r EXCEPT !.at = at]]
    BY <1>7 DEF Truncate, Write, SaveFails, Goes
  <2>2. r.at \in {"truncate", "write"}
    BY <1>7 DEF Truncate, Write, SaveFails, At
  <2> DEFINE k == [r EXCEPT !.at = at]
  <2>3. k \in Tasks /\ k.at = at /\ k.ask = r.ask /\ k.got = r.got
    BY <1>1, <2>1 DEF Tasks
  <2> HIDE DEF k
  <2>4. ReadSoFar(k)
    BY <1>1, <2>2, <2>3 DEF ReadSoFar
  <2>5. conn' = [conn EXCEPT ![c] = k]
    BY <2>1 DEF k
  <2> HIDE DEF r
  <2> QED
    BY <1>2, <2>3, <2>4, <2>5, TaskGoesOn
<1> QED
  BY <1>3, <1>5, <1>6, <1>7, <1>8 DEF Answers

LEMMA WebInvStep == WebInv /\ [Next]_vars => WebInv'
<1> SUFFICES ASSUME WebInv, [Next]_vars PROVE WebInv'
  OBVIOUS
<1>1. ASSUME NEW c \in Conns, Serve(c) PROVE WebInv'
  BY <1>1, ReadHeadKeeps, ReadBodyKeeps, AnswersKeep DEF Serve, Answers
<1>2. ASSUME NEW c \in Conns, NEW a \in Asks[c], Connect(c, a) PROVE WebInv'
  <2>1. a \in AskShape /\ a.head \in Nat \ {0} /\ a.sent \in Nat
    BY Limits DEF AskShape
  <2>2. Made(a) \in Tasks /\ Made(a).got = 0 /\ Made(a).ask = a /\ Made(a).at = "head"
    BY <2>1 DEF Made, Tasks
  <2>3. ReadSoFar(Made(a))
    BY <2>1, <2>2, Limits DEF ReadSoFar
  <2> QED
    BY <1>2, <2>2, <2>3, TaskGoesOn DEF Connect, listvars, WebInv, ConnTypes
<1>3. CASE Restart
  <2>1. \A c \in Conns : conn'[c] \in {NotMade, Dropped}
    BY <1>3 DEF Restart, Dropped
  <2>2. DOMAIN conn' = Conns /\ conn' = [c \in Conns |-> conn'[c]]
    BY <1>3 DEF Restart
  <2>3. NotMade \notin Tasks /\ Dropped \notin Tasks
    BY DEF NotMade, Dropped, Tasks
  <2> QED
    BY <1>3, <2>1, <2>2, <2>3 DEF Restart, WebInv, ConnTypes
<1>4. CASE AtRest \/ UNCHANGED vars
  BY <1>4 DEF AtRest, vars, listvars, WebInv, ConnTypes
<1> QED
  BY <1>1, <1>2, <1>3, <1>4 DEF Next

THEOREM WebInvariant == Spec => []WebInv
<1>1. Init => WebInv
  <2>1. NotMade \notin Tasks
    BY DEF NotMade, Tasks
  <2> QED
    BY <2>1 DEF Init, WebInv, ConnTypes
<1> QED
  BY <1>1, WebInvStep, PTL DEF Spec

\* How a request is cut into reads does not show, for requests, pieces and limits
\* of any size.
THEOREM CutsDoNotShowTheorem == Spec => []CutsDoNotShow
<1>1. WebInv => CutsDoNotShow
  <2> SUFFICES ASSUME WebInv, NEW c \in Conns
               PROVE  /\ At(c, "rejected") => ~ Servable(conn[c].ask)
                      /\ Served(c) =>
                           /\ conn[c].ask.parses /\ conn[c].ask.clen <= MaxBody
                           /\ conn[c].ask.head <= MaxHeaders + HeadChunk
                           /\ Body(c) = Lesser(conn[c].ask.clen,
                                               conn[c].ask.sent - conn[c].ask.head)
    BY DEF CutsDoNotShow
  <2>1. CASE At(c, "rejected")
    <3>1. ReadSoFar(conn[c])
      BY <2>1, TaskIs DEF At
    <3> QED
      BY <2>1, <3>1 DEF ReadSoFar, At, Served
  <2>2. CASE Served(c)
    <3>1. /\ ReadSoFar(conn[c]) /\ conn[c].got \in Nat /\ conn[c].ask.head \in Nat
          /\ conn[c].ask.sent \in Nat /\ conn[c].ask.clen \in Nat
      BY <2>2, TaskIs DEF Served
    <3> QED
      BY <2>2, <3>1 DEF ReadSoFar, At, Served, Body, BodyLen, Lesser
  <2> QED
    BY <2>1, <2>2
<1> QED
  BY <1>1, WebInvariant, PTL

-----------------------------------------------------------------------------
(* The follows and their file, while it is calm.                           *)

\* The list in memory is what was asked for.  There is one saver at most, with a
\* copy of that list, in front of an empty file if it is about to write; and
\* without one the file is that list.
CalmLists ==
  /\ IsInjective(follows) /\ ToSet(follows) = wanted
  /\ \A c, d \in Savers : c = d
  /\ \A c \in Savers : conn[c].list = follows
  /\ \A c \in Savers : At(c, "write") => file = << >>
  /\ Savers = {} => file = follows

CalmInv ==
  /\ fails \in Nat /\ restarts \in Nat
  /\ calm => CalmLists

\* What has been calm stays so where nothing fails, nobody else saves and no save
\* is interrupted.
LEMMA CalmSince ==
  ASSUME [MCNext]_mcvars, calm'
  PROVE  /\ calm /\ [Next]_vars
         /\ \/ UNCHANGED mcvars
            \/ /\ fails' = fails
               /\ \A c, d \in Savers' : c = d
               /\ restarts' # restarts => Savers = {}
<1>1. CASE MCNext
  <2>1. /\ calm /\ fails' = fails /\ Cardinality(Savers') <= 1
        /\ restarts' # restarts => Savers = {}
    BY <1>1, Zenon DEF MCNext
  <2>2. IsFiniteSet(Savers')
    BY FS_Subset, WebAssumption DEF Savers
  <2>3. ASSUME NEW c \in Savers', NEW d \in Savers', c # d
        PROVE  FALSE
    <3> DEFINE S == Savers'
    <3>1. IsFiniteSet(S \ {c}) /\ Cardinality(S \ {c}) = Cardinality(S) - 1
      BY <2>2, <2>3, FS_RemoveElement
    <3>2. Cardinality(S) \in Nat /\ Cardinality(S \ {c}) \in Nat
      BY <2>2, <3>1, FS_CardinalityType
    <3>3. Cardinality(S \ {c}) = 0
      BY <2>1, <3>1, <3>2
    <3>4. S \ {c} = {}
      BY <3>1, <3>3, FS_EmptySet
    <3> QED
      BY <2>3, <3>4
  <2> QED
    BY <1>1, <2>1, <2>3, Zenon DEF MCNext
<1>2. CASE UNCHANGED mcvars
  BY <1>2, Zenon DEF mcvars
<1> QED
  BY <1>1, <1>2

\* A request that changes the list is the only one that does.
LEMMA OneChanges ==
  ASSUME MCNext, NEW c \in Conns, NEW op \in {"follow", "unfollow"}, Asked(c, op), Saving(c)',
         \A d, e \in Savers' : d = e
  PROVE  wanted' = IF op = "follow" THEN wanted \cup {Field(c)} ELSE wanted \ {Field(c)}
<1>1. Changing(op) = {c}
  BY DEF Changing, Savers
<1>2. \A other \in {"follow", "unfollow"} \ {op} : Changing(other) = {}
  BY DEF Changing, Savers, Asked
<1>3. wanted' = (wanted \ Fields(Changing("unfollow"))) \cup Fields(Changing("follow"))
  BY DEF MCNext
<1>4. Fields({c}) = {Field(c)} /\ Fields({}) = {}
  BY DEF Fields
<1> QED
  BY <1>1, <1>2, <1>3, <1>4

LEMMA NobodyChanges ==
  ASSUME MCNext, \A c \in Conns : At(c, "body") => ~ Saving(c)'
  PROVE  wanted' = wanted
<1>1. Changing("follow") = {} /\ Changing("unfollow") = {}
  BY DEF Changing, Asked
<1>2. wanted' = (wanted \ Fields(Changing("unfollow"))) \cup Fields(Changing("follow"))
  BY DEF MCNext
<1> QED
  BY <1>1, <1>2 DEF Fields

\* A step of a task that is not saving and does not start to.
LEMMA CalmBesides ==
  ASSUME WebInv, CalmLists, MCNext, NEW c \in Conns, ~ Saving(c), ~ Saving(c)',
         \A d \in Conns \ {c} : conn'[d] = conn[d], UNCHANGED <<follows, file>>
  PROVE  CalmLists'
<1>1. Savers' = Savers /\ \A d \in Savers : conn'[d] = conn[d]
  BY DEF Savers, Saving, At
<1>2. wanted' = wanted
  <2>1. \A d \in Conns : At(d, "body") => ~ Saving(d)'
    BY DEF Saving, At
  <2> QED
    BY <2>1, NobodyChanges
<1> QED
  BY <1>1, <1>2 DEF CalmLists, At

LEMMA CalmChange ==
  ASSUME WebInv, CalmLists, MCNext, \A d, e \in Savers' : d = e,
         NEW c \in Conns, Follow(c) \/ Unfollow(c)
  PROVE  CalmLists'
<1> DEFINE r == conn[c]
<1>0. /\ conn \in [Conns -> {NotMade, Dropped} \cup Tasks] /\ follows \in Seq(Keys)
      /\ r.at = "body" /\ r \in Tasks
  <2>1. r.at = "body"
    BY DEF Follow, Unfollow, Asked, At
  <2> QED
    BY <2>1, TaskIs DEF WebInv, ConnTypes
<1>1. conn' = [conn EXCEPT ![c] = [[r EXCEPT !.at = "truncate"] EXCEPT !.list = follows']]
  BY DEF Follow, Unfollow, Changed
<1>2. /\ conn'[c].at = "truncate" /\ conn'[c].list = follows'
      /\ \A d \in Conns \ {c} : conn'[d] = conn[d]
  BY <1>0, <1>1 DEF Tasks
<1>3. Savers' = {c}
  BY <1>2 DEF Savers, Saving, At
<1>4. IsInjective(follows)' /\ ToSet(follows)' = wanted'
  <2>0. IsInjective(follows) /\ ToSet(follows) = wanted
    BY DEF CalmLists
  <2>1. CASE Follow(c)
    <3>1. /\ Asked(c, "follow") /\ Field(c) \in Keys
          /\ follows' = IF Contains(follows, Field(c)) THEN follows ELSE Append(follows, Field(c))
      BY <2>1 DEF Follow, Changed
    <3>2. wanted' = wanted \cup {Field(c)}
      BY <1>3, <3>1, OneChanges DEF Savers
    <3>3. Contains(follows, Field(c)) <=> Field(c) \in ToSet(follows)
      BY <1>0 DEF Contains, ToSet
    <3>4. CASE Contains(follows, Field(c))
      BY <2>0, <3>1, <3>2, <3>3, <3>4
    <3>5. CASE ~ Contains(follows, Field(c))
      BY <1>0, <2>0, <3>1, <3>2, <3>3, <3>5, AppendIs
    <3> QED
      BY <3>4, <3>5
  <2>2. CASE Unfollow(c)
    <3>1. Asked(c, "unfollow") /\ follows' = Without(follows, Field(c))
      BY <2>2 DEF Unfollow, Changed
    <3>2. wanted' = wanted \ {Field(c)}
      BY <1>3, <3>1, OneChanges DEF Savers
    <3> QED
      BY <1>0, <2>0, <3>1, <3>2, WithoutIs
  <2> QED
    BY <2>1, <2>2
<1> QED
  BY <1>2, <1>3, <1>4 DEF CalmLists, At

LEMMA CalmSave ==
  ASSUME WebInv, CalmLists, MCNext, NEW c \in Conns, Truncate(c) \/ Write(c)
  PROVE  CalmLists'
<1> DEFINE r == conn[c]
<1>0. /\ conn \in [Conns -> {NotMade, Dropped} \cup Tasks] /\ follows \in Seq(Keys)
      /\ r.at \in {"truncate", "write"} /\ r \in Tasks /\ Savers = {c} /\ r.list = follows
  <2>1. r.at \in {"truncate", "write"}
    BY DEF Truncate, Write, At
  <2>2. c \in Savers
    BY <2>1 DEF Savers, Saving, At
  <2> QED
    BY <2>1, <2>2, TaskIs DEF WebInv, ConnTypes, CalmLists
<1>1. follows' = follows /\ \A d \in Conns \ {c} : conn'[d] = conn[d]
  BY <1>0 DEF Truncate, Write, Goes
<1>2. wanted' = wanted
  <2>1. \A d \in Conns : At(d, "body") => ~ Saving(d)'
    BY <1>0, <1>1 DEF Saving, At
  <2> QED
    BY <2>1, NobodyChanges
<1>3. CASE Truncate(c)
  <2>1. conn'[c].at = "write" /\ conn'[c].list = follows /\ file' = << >>
    BY <1>0, <1>3 DEF Truncate, Goes, Tasks
  <2>2. Savers' = {c}
    BY <1>0, <1>1, <2>1 DEF Savers, Saving, At
  <2> QED
    BY <1>1, <1>2, <2>1, <2>2 DEF CalmLists
<1>4. CASE Write(c)
  <2>1. conn'[c].at = "answered"
    BY <1>0, <1>4 DEF Write, Goes, Tasks
  <2>2. Savers' = {}
    BY <1>0, <1>1, <2>1 DEF Savers, Saving, At
  <2>3. file = << >> /\ file' = follows \o SubSeq(file, Len(follows) + 1, Len(file))
    BY <1>0, <1>4 DEF Write, CalmLists
  <2>4. file' = follows
    <3>1. SubSeq(<< >>, Len(follows) + 1, 0) = << >> /\ Len(<< >>) = 0
      BY <1>0
    <3>2. follows \o << >> = follows
      BY <1>0
    <3> QED
      BY <2>3, <3>1, <3>2
  <2> QED
    BY <1>1, <1>2, <2>2, <2>4 DEF CalmLists
<1> QED
  BY <1>3, <1>4

LEMMA CalmListsStep ==
  ASSUME WebInv, CalmInv, [MCNext]_mcvars, calm'
  PROVE  CalmLists'
<1>0. CalmLists /\ fails \in Nat /\ restarts \in Nat
  BY CalmSince, Zenon DEF CalmInv
<1>1. CASE UNCHANGED mcvars
  BY <1>0, <1>1 DEF mcvars, vars, listvars, CalmLists, Savers, Saving, At
<1>2. ASSUME MCNext, fails' = fails, \A c, d \in Savers' : c = d,
             restarts' # restarts => Savers = {}
      PROVE  CalmLists'
  <2>0. conn \in [Conns -> {NotMade, Dropped} \cup Tasks] /\ Next
    BY <1>2 DEF WebInv, ConnTypes, MCNext
  <2>1. ASSUME NEW c \in Conns, ReadHead(c) \/ ReadBody(c) \/ HeadRejected(c) \/ ReadFails(c)
               \/ FollowRefused(c)
        PROVE  CalmLists'
    <3>1. conn[c].at \in {"head", "body"}
      BY <2>1 DEF ReadHead, ReadBody, HeadRejected, ReadFails, FollowRefused, Asked, At
    <3>2. conn[c] \in Tasks
      BY <3>1, TaskIs
    <3>3. UNCHANGED <<follows, file>> /\ \A d \in Conns \ {c} : conn'[d] = conn[d]
      BY <2>0, <2>1 DEF ReadHead, ReadBody, HeadRejected, ReadFails, FollowRefused, Goes, listvars
    <3>4. conn'[c].at \in {"head", "body", "rejected", "refused"}
      <4>1. CASE ReadHead(c)
        <5>1. PICK n \in 1 .. Lesser(HeadChunk, Unread(c)) :
                conn' = [conn EXCEPT ![c] =
                           [[conn[c] EXCEPT !.got = conn[c].got + n]
                              EXCEPT !.at = AfterRead([conn[c] EXCEPT !.got = conn[c].got + n])]]
          BY <4>1, Zenon DEF ReadHead
        <5> DEFINE k == [conn[c] EXCEPT !.got = conn[c].got + n]
        <5>2. conn'[c] = [k EXCEPT !.at = AfterRead(k)] /\ "at" \in DOMAIN k
          BY <2>0, <3>2, <5>1 DEF Tasks
        <5>3. AfterRead(k) \in {"head", "body", "rejected"}
          BY DEF AfterRead
        <5> HIDE DEF k
        <5> QED
          BY <5>2, <5>3
      <4>2. CASE ReadBody(c)
        BY <2>0, <3>2, <4>2 DEF ReadBody, Tasks, At
      <4>3. CASE HeadRejected(c) \/ ReadFails(c) \/ FollowRefused(c)
        BY <2>0, <3>2, <4>3 DEF HeadRejected, ReadFails, FollowRefused, Goes, Tasks
      <4> QED
        BY <2>1, <4>1, <4>2, <4>3
    <3>5. ~ Saving(c) /\ ~ Saving(c)'
      BY <3>1, <3>4 DEF Saving, At
    <3> QED
      BY <1>0, <1>2, <3>3, <3>5, CalmBesides
  <2>2. ASSUME NEW c \in Conns, NEW a \in Asks[c], Connect(c, a)
        PROVE  CalmLists'
    <3>1. /\ ~ Saving(c) /\ ~ Saving(c)' /\ UNCHANGED <<follows, file>>
          /\ \A d \in Conns \ {c} : conn'[d] = conn[d]
      BY <2>0, <2>2 DEF Connect, Saving, At, Made, listvars
    <3> QED
      BY <1>0, <1>2, <3>1, CalmBesides
  <2>3. ASSUME NEW c \in Conns, SaveFails(c) PROVE FALSE
    BY <1>0, <1>2, <2>3 DEF SaveFails
  <2>4. CASE Restart
    <3>1. Savers = {} /\ follows' = file /\ file' = file
      BY <1>0, <1>2, <2>4 DEF Restart
    <3>2. \A d \in Conns : conn'[d].at \in {"none", "dropped"}
      BY <2>4 DEF Restart, NotMade
    <3>3. Savers' = {}
      BY <3>2 DEF Savers, Saving, At
    <3>4. \A d \in Conns : ~ Saving(d)'
      BY <3>2 DEF Saving, At
    <3>5. wanted' = wanted
      BY <1>2, <3>4, NobodyChanges
    <3> QED
      BY <1>0, <3>1, <3>3, <3>5 DEF CalmLists
  <2>5. CASE AtRest
    <3>1. UNCHANGED vars
      BY <2>5 DEF AtRest
    <3>2. \A d \in Conns : At(d, "body") => ~ Saving(d)'
      BY <3>1 DEF vars, Saving, At
    <3>3. wanted' = wanted
      BY <1>2, <3>2, NobodyChanges
    <3> QED
      BY <1>0, <3>1, <3>3 DEF vars, listvars, CalmLists, Savers, Saving, At
  <2> QED
    BY <1>0, <1>2, <2>0, <2>1, <2>2, <2>3, <2>4, <2>5, CalmChange, CalmSave DEF Next, Serve
<1> QED
  BY <1>1, <1>2, CalmSince, Zenon DEF mcvars

THEOREM CalmInvariant == MCSpec => [](WebInv /\ CalmInv)
<1>1. MCInit => WebInv /\ CalmInv
  <2> SUFFICES ASSUME MCInit PROVE WebInv /\ CalmInv
    OBVIOUS
  <2>1. NotMade \notin Tasks /\ Init /\ wanted = {}
    BY DEF NotMade, Tasks, MCInit
  <2>2. Savers = {}
    BY <2>1 DEF Init, Savers, Saving, At, NotMade
  <2> QED
    BY <2>1, <2>2 DEF Init, WebInv, ConnTypes, CalmInv, CalmLists, ToSet, IsInjective
<1>2. WebInv /\ CalmInv /\ [MCNext]_mcvars => WebInv' /\ CalmInv'
  <2> SUFFICES ASSUME WebInv, CalmInv, [MCNext]_mcvars PROVE WebInv' /\ CalmInv'
    OBVIOUS
  <2>1. [Next]_vars
    BY DEF MCNext, mcvars
  <2>2. fails' \in Nat /\ restarts' \in Nat
    <3>0. fails \in Nat /\ restarts \in Nat
      BY Zenon DEF CalmInv
    <3>1. ASSUME NEW c \in Conns, Serve(c) \/ \E a \in Asks[c] : Connect(c, a)
          PROVE  fails' \in {fails, fails + 1} /\ restarts' = restarts
      BY <3>1 DEF Serve, Connect, ReadHead, HeadRejected, ReadBody, ReadFails, Follow,
         FollowRefused, Unfollow, Changed, Truncate, Write, SaveFails, listvars
    <3>2. CASE Restart
      BY <3>0, <3>2 DEF Restart
    <3>3. CASE AtRest \/ UNCHANGED vars
      BY <3>0, <3>3 DEF AtRest, vars, listvars
    <3> QED
      BY <2>1, <3>0, <3>1, <3>2, <3>3 DEF Next
  <2>3. calm' => CalmLists'
    BY CalmListsStep
  <2> QED
    BY <2>1, <2>2, <2>3, WebInvStep, Zenon DEF CalmInv
<1> QED
  BY <1>1, <1>2, PTL DEF MCSpec

\* As long as it is calm, the list in memory is what was asked for, and so is the
\* file when no save is under way: for any requests, keys and restarts.
THEOREM CalmFollowsKeptTheorem == MCSpec => []CalmFollowsKept
<1>1. WebInv /\ CalmInv => CalmFollowsKept
  <2> SUFFICES ASSUME WebInv, CalmInv, calm
               PROVE  /\ ToSet(follows) = wanted /\ Cardinality(wanted) = Len(follows)
                      /\ Own \notin wanted
                      /\ Savers = {} => file = follows
    BY Zenon DEF CalmFollowsKept
  <2>1. CalmLists /\ follows \in Seq(Keys)
    BY Zenon DEF CalmInv, WebInv, ConnTypes
  <2>2. Cardinality(ToSet(follows)) = Len(follows)
    BY <2>1, LengthIsCardinality DEF CalmLists
  <2>3. ToSet(follows) \subseteq Keys
    BY <2>1 DEF ToSet
  <2> QED
    BY <2>1, <2>2, <2>3, WebAssumption DEF CalmLists
<1> QED
  BY <1>1, CalmInvariant, PTL

=============================================================================
