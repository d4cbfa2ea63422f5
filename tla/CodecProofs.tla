----------------------------- MODULE CodecProofs ----------------------------
(***************************************************************************)
(* Proofs about Codec, for any base, widths, limits and packets: what      *)
(* arrives whole is decoded to what was sent, what is cut short is dropped *)
(* and nothing is decoded that is not there.                               *)
(***************************************************************************)
EXTENDS Codec, SequenceTheorems, WellFoundedInduction, TLAPS

-----------------------------------------------------------------------------
(* Recursion and induction over numbers.                                   *)

LEMMA SmallestExists ==
  ASSUME NEW S \in SUBSET Nat, S # {}
  PROVE  \E m \in S : \A j \in S : m <= j
<1>1. PICK m \in S : \A j \in S : ~ (<<j, m>> \in OpToRel(<, Nat))
  BY NatLessThanWellFounded, WFMin
<1>2. \A j \in S : ~ (j < m)
  BY <1>1 DEF OpToRel
<1> QED
  BY <1>2

\* Induction, with a set for the property.
LEMMA Induction ==
  ASSUME NEW m \in Nat, NEW T, 0 \in T, \A k \in 1 .. m : k - 1 \in T => k \in T
  PROVE  \A k \in 0 .. m : k \in T
<1> SUFFICES ASSUME NEW k \in 0 .. m, k \notin T PROVE FALSE
  OBVIOUS
<1> DEFINE Bad == {j \in 0 .. m : j \notin T}
<1>1. PICK j \in Bad : \A i \in Bad : j <= i
  <2>1. Bad \in SUBSET Nat /\ Bad # {}
    OBVIOUS
  <2> HIDE DEF Bad
  <2> QED
    BY <2>1, SmallestExists
<1>2. j \in 1 .. m /\ j - 1 \in 0 .. m /\ j - 1 \notin Bad
  BY <1>1
<1> QED
  BY <1>1, <1>2

\* A function that starts at a and goes on by steps, as far as m.
Runs(f, S, a, step, m) ==
  /\ f \in [0 .. m -> S]
  /\ f[0] = a
  /\ \A k \in 1 .. m : f[k - 1] \in S /\ f[k] = step[<<k, f[k - 1]>>]

LEMMA RunExists ==
  ASSUME NEW S, NEW a \in S, NEW m \in Nat, NEW step \in [(1 .. m) \X S -> S]
  PROVE  \E f : Runs(f, S, a, step, m)
<1> DEFINE T == {n \in 0 .. m : \E f : Runs(f, S, a, step, n)}
<1>1. 0 \in T
  <2>1. [k \in 0 .. 0 |-> a] \in [0 .. 0 -> S] /\ Runs([k \in 0 .. 0 |-> a], S, a, step, 0)
    BY DEF Runs
  <2> QED
    BY <2>1
<1>2. ASSUME NEW n \in 1 .. m, n - 1 \in T
      PROVE  n \in T
  <2>1. PICK g : Runs(g, S, a, step, n - 1)
    BY <1>2
  <2> DEFINE f == [k \in 0 .. n |-> IF k = n THEN step[<<n, g[n - 1]>>] ELSE g[k]]
  <2>2. g \in [0 .. n - 1 -> S] /\ step[<<n, g[n - 1]>>] \in S
    <3>1. g \in [0 .. n - 1 -> S]
      BY <2>1 DEF Runs
    <3>2. n - 1 \in 0 .. n - 1
      OBVIOUS
    <3>3. <<n, g[n - 1]>> \in (1 .. m) \X S
      BY <3>1, <3>2
    <3> QED
      BY <3>1, <3>3
  <2>3. f \in [0 .. n -> S]
    BY <2>2
  <2>4. f[0] = a
    BY <2>1 DEF Runs
  <2>5. ASSUME NEW k \in 1 .. n
        PROVE  f[k] = step[<<k, f[k - 1]>>]
    <3>1. f[k - 1] = g[k - 1]
      OBVIOUS
    <3>2. CASE k = n
      <4>1. f[n] = step[<<n, g[n - 1]>>]
        OBVIOUS
      <4> HIDE DEF f
      <4> QED
        BY <3>1, <3>2, <4>1
    <3>3. CASE k # n
      <4>1. k \in 1 .. n - 1 /\ f[k] = g[k]
        BY <3>3
      <4> QED
        BY <2>1, <3>1, <4>1 DEF Runs
    <3> QED
      BY <3>2, <3>3
  <2> HIDE DEF f
  <2>6. Runs(f, S, a, step, n)
    BY <2>3, <2>4, <2>5 DEF Runs
  <2> QED
    BY <2>3, <2>6
<1>3. m \in T
  <2> HIDE DEF T
  <2> QED
    BY <1>1, <1>2, Induction
<1> QED
  BY <1>3

-----------------------------------------------------------------------------
(* Powers.                                                                 *)

LEMMA Bases == Base \in Nat /\ Base > 10 /\ Byte = 0 .. Base - 1
BY CodecAssumption DEF Byte

LEMMA PowerRun ==
  ASSUME NEW n \in Nat
  PROVE  \E f \in [0 .. n -> Nat] :
           /\ f[0] = 1 /\ \A k \in 1 .. n : f[k] = Base * f[k - 1]
           /\ Power(n) = f[n]
<1> DEFINE step == [x \in (1 .. n) \X Nat |-> Base * x[2]]
           Is(f) == f = [k \in 0 .. n |-> IF k = 0 THEN 1 ELSE Base * f[k - 1]]
           power == CHOOSE f : Is(f)
<1>1. \E f : Is(f)
  <2>1. step \in [(1 .. n) \X Nat -> Nat] /\ 1 \in Nat
    BY Bases
  <2> HIDE DEF step
  <2>2. PICK f : Runs(f, Nat, 1, step, n)
    BY <2>1, RunExists
  <2>3. /\ f \in [0 .. n -> Nat] /\ f[0] = 1
        /\ \A k \in 1 .. n : f[k - 1] \in Nat /\ f[k] = step[<<k, f[k - 1]>>]
    BY <2>2 DEF Runs
  <2>4. ASSUME NEW k \in 1 .. n
        PROVE  f[k] = Base * f[k - 1]
    BY <2>3 DEF step
  <2>5. Is(f)
    BY <2>3, <2>4
  <2> QED
    BY <2>5
<1>2. Is(power)
  BY <1>1
<1>3. Power(n) = power[n]
  BY Zenon DEF Power
<1> HIDE DEF power
<1>4. power[0] = 1 /\ \A k \in 1 .. n : power[k] = Base * power[k - 1]
  BY <1>2
<1> DEFINE T == {k \in 0 .. n : power[k] \in Nat}
<1>5. 0 \in T /\ \A k \in 1 .. n : k - 1 \in T => k \in T
  BY <1>4, Bases
<1>6. \A k \in 0 .. n : power[k] \in Nat
  <2>1. \A k \in 0 .. n : k \in T
    <3> HIDE DEF T
    <3> QED
      BY <1>5, Induction
  <2> QED
    BY <2>1
<1>7. power \in [0 .. n -> Nat]
  BY <1>2, <1>6
<1> QED
  BY <1>3, <1>4, <1>7

LEMMA PowerNext ==
  /\ Power(0) = 1
  /\ \A n \in Nat : Power(n) \in Nat \ {0} /\ Power(n + 1) = Base * Power(n)
<1>1. Power(0) = 1
  BY PowerRun
<1>2. ASSUME NEW n \in Nat
      PROVE  Power(n) \in Nat \ {0} /\ Power(n + 1) = Base * Power(n)
  <2>1. PICK f \in [0 .. n -> Nat] :
               /\ f[0] = 1 /\ \A k \in 1 .. n : f[k] = Base * f[k - 1]
               /\ Power(n) = f[n]
    BY PowerRun
  <2>2. PICK g \in [0 .. n + 1 -> Nat] :
               /\ g[0] = 1 /\ \A k \in 1 .. n + 1 : g[k] = Base * g[k - 1]
               /\ Power(n + 1) = g[n + 1]
    <3>1. n + 1 \in Nat
      OBVIOUS
    <3> QED
      BY <3>1, PowerRun
  <2> DEFINE T == {k \in 0 .. n : f[k] = g[k] /\ f[k] # 0}
  <2>3. 0 \in T
    BY <2>1, <2>2
  <2>4. ASSUME NEW k \in 1 .. n, k - 1 \in T
        PROVE  k \in T
    <3>1. f[k] = Base * f[k - 1] /\ g[k] = Base * f[k - 1] /\ f[k - 1] \in Nat \ {0}
      BY <2>1, <2>2, <2>4
    <3>2. Base * f[k - 1] # 0
      BY <3>1, Bases
    <3> QED
      BY <3>1, <3>2
  <2>5. n \in T
    <3>1. \A k \in 0 .. n : k \in T
      <4> HIDE DEF T
      <4> QED
        BY <2>3, <2>4, Induction
    <3> QED
      BY <3>1
  <2>6. g[n + 1] = Base * g[n]
    BY <2>2
  <2> QED
    BY <2>1, <2>2, <2>5, <2>6
<1> QED
  BY <1>1, <1>2

-----------------------------------------------------------------------------
(* Digits.                                                                 *)

LEMMA DivMod ==
  ASSUME NEW q \in Nat
  PROVE  /\ q \div Base \in Nat /\ q % Base \in Byte
         /\ q = Base * (q \div Base) + (q % Base)
BY Bases

LEMMA DivModOf ==
  ASSUME NEW x \in Nat, NEW b \in Byte
  PROVE  Base * x + b \in Nat /\ (Base * x + b) \div Base = x /\ (Base * x + b) % Base = b
<1> DEFINE q == Base * x + b
           d == q \div Base
           c == q % Base
<1>1. q \in Nat /\ b \in 0 .. Base - 1
  BY Bases
<1>2. d \in Nat /\ c \in 0 .. Base - 1 /\ q = Base * d + c
  <2> HIDE DEF q
  <2> QED
    BY <1>1, DivMod, Bases
<1>3. Base * (d - x) = b - c /\ b - c < Base /\ c - b < Base
  <2>1. Base * d + c = Base * x + b
    BY <1>2
  <2> HIDE DEF d, c
  <2> QED
    BY <1>1, <1>2, <2>1, Bases
<1>4. d = x
  <2> HIDE DEF d, c
  <2>1. CASE d - x >= 1
    <3>1. Base * (d - x) >= Base
      BY <1>2, <2>1, Bases
    <3> QED
      BY <1>1, <1>2, <1>3, <3>1, Bases
  <2>2. CASE d - x <= -1
    <3>1. Base * (d - x) <= - Base
      BY <1>2, <2>2, Bases
    <3> QED
      BY <1>1, <1>2, <1>3, <3>1, Bases
  <2> QED
    BY <1>2, <2>1, <2>2
<1>5. c = b
  <2> HIDE DEF d, c
  <2> QED
    BY <1>1, <1>2, <1>4, Bases
<1> QED
  BY <1>1, <1>4, <1>5

LEMMA DivBelow ==
  ASSUME NEW q \in Nat, NEW n \in Nat, q < Base * n
  PROVE  q \div Base < n
<1> DEFINE d == q \div Base
           c == q % Base
<1>1. d \in Nat /\ c \in 0 .. Base - 1 /\ q = Base * d + c
  BY DivMod, Bases
<1> HIDE DEF d, c
<1>2. ASSUME d >= n PROVE FALSE
  <2>1. Base * d >= Base * n
    BY <1>1, <1>2, Bases
  <2> QED
    BY <1>1, <2>1, Bases
<1>3. d < n
  BY <1>1, <1>2
<1> QED
  BY <1>3 DEF d

LEMMA TimesBase ==
  /\ \A x \in Nat : Base * x \in Nat
  /\ \A x, y \in Nat : x <= y - 1 => Base * x + Base <= Base * y
<1>1. \A x \in Nat : Base * x \in Nat
  BY Bases
<1>2. ASSUME NEW x \in Nat, NEW y \in Nat, x <= y - 1
      PROVE  Base * x + Base <= Base * y
  <2>1. PICK d \in Nat : y = x + 1 + d
    <3>1. y - x - 1 \in Nat /\ y = x + 1 + (y - x - 1)
      BY <1>2
    <3> QED
      BY <3>1
  <2>2. Base * y = Base * x + Base + Base * d
    BY <2>1, Bases
  <2> QED
    BY <1>1, <2>2, Bases
<1> QED
  BY <1>1, <1>2

LEMMA PutRun ==
  ASSUME NEW v \in Nat, NEW w \in Nat
  PROVE  \E left \in [0 .. w -> Nat] :
           /\ left[0] = v /\ \A k \in 1 .. w : left[k] = left[k - 1] \div Base
           /\ Put(v, w) = [i \in 1 .. w |-> left[i - 1] % Base]
<1> DEFINE step == [x \in (1 .. w) \X Nat |-> x[2] \div Base]
           Is(f) == f = [i \in 0 .. w |-> IF i = 0 THEN v ELSE f[i - 1] \div Base]
           left == CHOOSE f : Is(f)
<1>1. \E f : Is(f)
  <2>1. step \in [(1 .. w) \X Nat -> Nat]
    BY DivMod
  <2> HIDE DEF step
  <2>2. PICK f : Runs(f, Nat, v, step, w)
    BY <2>1, RunExists
  <2>3. /\ f \in [0 .. w -> Nat] /\ f[0] = v
        /\ \A k \in 1 .. w : f[k - 1] \in Nat /\ f[k] = step[<<k, f[k - 1]>>]
    BY <2>2 DEF Runs
  <2>4. ASSUME NEW k \in 1 .. w
        PROVE  f[k] = f[k - 1] \div Base
    BY <2>3 DEF step
  <2>5. Is(f)
    BY <2>3, <2>4
  <2> QED
    BY <2>5
<1>2. Is(left)
  BY <1>1
<1>3. Put(v, w) = [i \in 1 .. w |-> left[i - 1] % Base]
  BY Zenon DEF Put
<1> HIDE DEF left
<1>4. left[0] = v /\ \A k \in 1 .. w : left[k] = left[k - 1] \div Base
  BY <1>2
<1> DEFINE T == {k \in 0 .. w : left[k] \in Nat}
<1>5. 0 \in T /\ \A k \in 1 .. w : k - 1 \in T => k \in T
  BY <1>4, DivMod
<1>6. \A k \in 0 .. w : k \in T
  <2> HIDE DEF T
  <2> QED
    BY <1>5, Induction
<1>7. left \in [0 .. w -> Nat]
  BY <1>2, <1>6
<1> QED
  BY <1>3, <1>4, <1>7

LEMMA GetRun ==
  ASSUME NEW buf, NEW off \in Nat, NEW w \in Nat, \A i \in 1 .. w : buf[off + i] \in Byte
  PROVE  \E value \in [0 .. w -> Nat] :
           /\ value[0] = 0
           /\ \A k \in 1 .. w : value[k] = Base * value[k - 1] + buf[off + w - k + 1]
           /\ Get(buf, off, w) = value[w]
<1> DEFINE step == [x \in (1 .. w) \X Nat |-> Base * x[2] + buf[off + w - x[1] + 1]]
           Is(f) == f = [k \in 0 .. w |->
                           IF k = 0 THEN 0 ELSE Base * f[k - 1] + buf[off + w - k + 1]]
           value == CHOOSE f : Is(f)
<1>0. \A k \in 1 .. w : buf[off + w - k + 1] \in Nat
  <2> TAKE k \in 1 .. w
  <2>1. w - k + 1 \in 1 .. w /\ off + (w - k + 1) = off + w - k + 1
    OBVIOUS
  <2>2. buf[off + (w - k + 1)] \in Byte
    BY <2>1
  <2> QED
    BY <2>1, <2>2, Bases
<1>1. \E f : Is(f)
  <2>0. \A x \in (1 .. w) \X Nat : Base * x[2] + buf[off + w - x[1] + 1] \in Nat
    <3> TAKE x \in (1 .. w) \X Nat
    <3>1. x[2] \in Nat /\ x[1] \in 1 .. w /\ buf[off + w - x[1] + 1] \in Nat
      BY <1>0
    <3>2. \A m \in Nat : Base * m \in Nat
      BY Bases
    <3> QED
      BY <3>1, <3>2
  <2>1. step \in [(1 .. w) \X Nat -> Nat]
    BY <2>0
  <2> HIDE DEF step
  <2>2. PICK f : Runs(f, Nat, 0, step, w)
    BY <2>1, RunExists
  <2>3. /\ f \in [0 .. w -> Nat] /\ f[0] = 0
        /\ \A k \in 1 .. w : f[k - 1] \in Nat /\ f[k] = step[<<k, f[k - 1]>>]
    BY <2>2 DEF Runs
  <2>4. ASSUME NEW k \in 1 .. w
        PROVE  f[k] = Base * f[k - 1] + buf[off + w - k + 1]
    BY <2>3 DEF step
  <2>5. Is(f)
    BY <2>3, <2>4
  <2> QED
    BY <2>5
<1>2. Is(value)
  BY <1>1
<1>3. Get(buf, off, w) = value[w]
  BY Zenon DEF Get
<1> HIDE DEF value
<1>4. /\ value[0] = 0
      /\ \A k \in 1 .. w : value[k] = Base * value[k - 1] + buf[off + w - k + 1]
  BY <1>2
<1> DEFINE T == {k \in 0 .. w : value[k] \in Nat}
<1>5. 0 \in T /\ \A k \in 1 .. w : k - 1 \in T => k \in T
  <2>1. 0 \in T
    BY <1>4
  <2>2. ASSUME NEW k \in 1 .. w, k - 1 \in T
        PROVE  k \in T
    <3>1. value[k - 1] \in Nat /\ buf[off + w - k + 1] \in Nat
      BY <1>0, <2>2
    <3>2. Base * value[k - 1] + buf[off + w - k + 1] \in Nat
      BY <3>1, Bases
    <3> QED
      BY <1>4, <3>2
  <2> QED
    BY <2>1, <2>2
<1>6. \A k \in 0 .. w : k \in T
  <2> HIDE DEF T
  <2> QED
    BY <1>5, Induction
<1>7. value \in [0 .. w -> Nat]
  BY <1>2, <1>6
<1> QED
  BY <1>3, <1>4, <1>7

LEMMA PutIs ==
  ASSUME NEW v \in Nat, NEW w \in Nat
  PROVE  /\ Put(v, w) \in Seq(Byte) /\ Len(Put(v, w)) = w /\ DOMAIN Put(v, w) = 1 .. w
         /\ \A i \in 1 .. w : Put(v, w)[i] \in Byte
<1>1. PICK left \in [0 .. w -> Nat] :
        /\ left[0] = v /\ \A k \in 1 .. w : left[k] = left[k - 1] \div Base
        /\ Put(v, w) = [i \in 1 .. w |-> left[i - 1] % Base]
  BY PutRun
<1>2. \A i \in 1 .. w : left[i - 1] % Base \in Byte
  BY DivMod
<1>3. Put(v, w) \in [1 .. w -> Byte]
  BY <1>1, <1>2
<1> QED
  BY <1>3

\* An integer of w bytes is read as it was written.
LEMMA PutGet ==
  ASSUME NEW w \in Nat, NEW v \in 0 .. Power(w) - 1, NEW buf, NEW off \in Nat,
         \A i \in 1 .. w : buf[off + i] = Put(v, w)[i]
  PROVE  Get(buf, off, w) = v
<1>0. v \in Nat /\ Power(w) \in Nat
  BY PowerNext
<1>1. PICK left \in [0 .. w -> Nat] :
        /\ left[0] = v /\ \A k \in 1 .. w : left[k] = left[k - 1] \div Base
        /\ Put(v, w) = [i \in 1 .. w |-> left[i - 1] % Base]
  BY <1>0, PutRun
<1>2. \A i \in 1 .. w : buf[off + i] \in Byte
  BY <1>0, PutIs
<1>3. PICK value \in [0 .. w -> Nat] :
        /\ value[0] = 0
        /\ \A k \in 1 .. w : value[k] = Base * value[k - 1] + buf[off + w - k + 1]
        /\ Get(buf, off, w) = value[w]
  BY <1>2, GetRun
<1>4. left[w] = 0
  <2> DEFINE T == {k \in 0 .. w : left[k] < Power(w - k)}
  <2>1. 0 \in T
    BY <1>0, <1>1
  <2>2. ASSUME NEW k \in 1 .. w, k - 1 \in T
        PROVE  k \in T
    <3>1. w - k \in Nat /\ w - (k - 1) = (w - k) + 1
      OBVIOUS
    <3>2. Power(w - k) \in Nat /\ Power(w - (k - 1)) = Base * Power(w - k)
      BY <3>1, PowerNext
    <3>3. left[k - 1] \in Nat /\ left[k - 1] < Base * Power(w - k)
      BY <2>2, <3>2
    <3>4. left[k - 1] \div Base < Power(w - k)
      BY <3>2, <3>3, DivBelow
    <3> QED
      BY <1>1, <3>4
  <2>3. w \in T
    <3>1. \A k \in 0 .. w : k \in T
      <4> HIDE DEF T
      <4> QED
        BY <2>1, <2>2, Induction
    <3> QED
      BY <3>1
  <2>4. left[w] < Power(0) /\ left[w] \in Nat
    BY <2>3
  <2>5. Power(0) = 1
    BY PowerNext
  <2> QED
    BY <2>4, <2>5
<1>5. value[w] = left[0]
  <2> DEFINE T == {k \in 0 .. w : value[k] = left[w - k]}
  <2>1. 0 \in T
    BY <1>3, <1>4
  <2>2. ASSUME NEW k \in 1 .. w, k - 1 \in T
        PROVE  k \in T
    <3> DEFINE j == w - k + 1
    <3>1. /\ j \in 1 .. w /\ j - 1 = w - k /\ w - (k - 1) = j /\ off + w - k + 1 = off + j
      OBVIOUS
    <3>2. value[k] = Base * value[k - 1] + buf[off + j]
      BY <1>3, <3>1
    <3>3. value[k - 1] = left[j] /\ left[j] = left[j - 1] \div Base
      BY <1>1, <2>2, <3>1
    <3>4. buf[off + j] = left[j - 1] % Base
      BY <1>1, <3>1
    <3>5. left[j - 1] = Base * (left[j - 1] \div Base) + (left[j - 1] % Base)
      BY <3>1, DivMod
    <3>6. value[k] = left[j - 1]
      BY <3>2, <3>3, <3>4, <3>5
    <3> QED
      BY <3>1, <3>6
  <2>3. w \in T
    <3>1. \A k \in 0 .. w : k \in T
      <4> HIDE DEF T
      <4> QED
        BY <2>1, <2>2, Induction
    <3> QED
      BY <3>1
  <2> QED
    BY <2>3
<1> QED
  BY <1>1, <1>3, <1>5

\* What is read of w bytes fits w bytes, and is written as they are.
LEMMA GetPut ==
  ASSUME NEW w \in Nat, NEW buf, NEW off \in Nat, \A i \in 1 .. w : buf[off + i] \in Byte
  PROVE  /\ Get(buf, off, w) \in Nat /\ Get(buf, off, w) <= Power(w) - 1
         /\ \A i \in 1 .. w : Put(Get(buf, off, w), w)[i] = buf[off + i]
<1>1. PICK value \in [0 .. w -> Nat] :
        /\ value[0] = 0
        /\ \A k \in 1 .. w : value[k] = Base * value[k - 1] + buf[off + w - k + 1]
        /\ Get(buf, off, w) = value[w]
  BY GetRun
<1> DEFINE v == value[w]
<1>v. v \in Nat
  OBVIOUS
<1> HIDE DEF v
<1>2. PICK left \in [0 .. w -> Nat] :
        /\ left[0] = v /\ \A k \in 1 .. w : left[k] = left[k - 1] \div Base
        /\ Put(v, w) = [i \in 1 .. w |-> left[i - 1] % Base]
  BY <1>v, PutRun
<1>3. \A k \in 1 .. w :
        /\ value[k - 1] \in Nat /\ buf[off + w - k + 1] \in Byte
        /\ value[k] \div Base = value[k - 1] /\ value[k] % Base = buf[off + w - k + 1]
  <2> TAKE k \in 1 .. w
  <2> DEFINE j == w - k + 1
  <2>1. j \in 1 .. w /\ off + w - k + 1 = off + j
    OBVIOUS
  <2>2. value[k - 1] \in Nat /\ buf[off + w - k + 1] \in Byte
    <3> HIDE DEF j
    <3>1. buf[off + j] \in Byte
      BY <2>1
    <3>2. buf[off + w - k + 1] \in Byte
      BY <2>1, <3>1
    <3>3. k - 1 \in 0 .. w
      OBVIOUS
    <3> QED
      BY <3>2, <3>3
  <2>3. value[k] = Base * value[k - 1] + buf[off + w - k + 1]
    BY <1>1
  <2> QED
    BY <2>2, <2>3, DivModOf
<1>4. v < Power(w)
  <2> DEFINE T == {k \in 0 .. w : value[k] < Power(k)}
  <2>1. 0 \in T
    BY <1>1, PowerNext
  <2>2. ASSUME NEW k \in 1 .. w, k - 1 \in T
        PROVE  k \in T
    <3> DEFINE P == Power(k - 1)
    <3>1. k - 1 \in Nat /\ k = (k - 1) + 1
      OBVIOUS
    <3>2. P \in Nat /\ Power(k) = Base * P
      BY <3>1, PowerNext
    <3>3. value[k - 1] \in Nat /\ value[k - 1] <= P - 1
      BY <2>2, <3>2
    <3> HIDE DEF P
    <3>4. Base * value[k - 1] + Base <= Base * P /\ Base * value[k - 1] \in Nat
      BY <3>2, <3>3, Bases, TimesBase
    <3>5. buf[off + w - k + 1] \in 0 .. Base - 1
      BY <1>3, Bases
    <3>6. value[k] = Base * value[k - 1] + buf[off + w - k + 1]
      BY <1>1
    <3> DEFINE y == Base * value[k - 1]
               z == Base * P
    <3>7. value[k] < z
      <4>1. z \in Nat
        BY <3>2, Bases, TimesBase
      <4> HIDE DEF y, z
      <4>2. y + Base <= z /\ y \in Nat /\ value[k] = y + buf[off + w - k + 1]
        BY <3>4, <3>6 DEF y, z
      <4> QED
        BY <3>5, <4>1, <4>2, Bases
    <3> QED
      BY <3>2, <3>7
  <2>3. w \in T
    <3>1. \A k \in 0 .. w : k \in T
      <4> HIDE DEF T
      <4> QED
        BY <2>1, <2>2, Induction
    <3> QED
      BY <3>1
  <2> QED
    BY <2>3 DEF v
<1>5. \A k \in 0 .. w : left[k] = value[w - k]
  <2> DEFINE T == {k \in 0 .. w : left[k] = value[w - k]}
  <2>1. 0 \in T
    BY <1>2 DEF v
  <2>2. ASSUME NEW k \in 1 .. w, k - 1 \in T
        PROVE  k \in T
    <3> DEFINE j == w - k + 1
    <3>1. j \in 1 .. w /\ j - 1 = w - k /\ w - (k - 1) = j
      OBVIOUS
    <3>2. left[k] = value[j] \div Base
      BY <1>2, <2>2, <3>1
    <3>3. value[j] \div Base = value[j - 1]
      BY <1>3, <3>1
    <3> QED
      BY <3>1, <3>2, <3>3
  <2>3. \A k \in 0 .. w : k \in T
    <3> HIDE DEF T
    <3> QED
      BY <2>1, <2>2, Induction
  <2> QED
    BY <2>3
<1>6. ASSUME NEW i \in 1 .. w
      PROVE  Put(v, w)[i] = buf[off + i]
  <2> DEFINE j == w - i + 1
  <2>1. j \in 1 .. w /\ w - (i - 1) = j /\ off + w - j + 1 = off + i /\ i - 1 \in 0 .. w
    OBVIOUS
  <2>2. left[i - 1] = value[j]
    BY <1>5, <2>1
  <2>3. value[j] % Base = buf[off + i]
    BY <1>3, <2>1
  <2> QED
    BY <1>2, <2>2, <2>3
<1>7. Power(w) \in Nat
  BY PowerNext
<1>8. Get(buf, off, w) = v
  BY <1>1 DEF v
<1> QED
  BY <1>v, <1>4, <1>6, <1>7, <1>8

-----------------------------------------------------------------------------
(* Where bytes lie.                                                        *)

\* The bytes s are in buf, from offset off on.
Lies(s, buf, off) ==
  off + Len(s) <= Len(buf) /\ \A i \in 1 .. Len(s) : buf[off + i] = s[i]

LEMMA LiesBoth ==
  ASSUME NEW buf \in Seq(Byte), NEW off \in Nat, NEW s \in Seq(Byte), NEW t \in Seq(Byte)
  PROVE  /\ s \o t \in Seq(Byte) /\ Len(s \o t) = Len(s) + Len(t)
         /\ Len(s) \in Nat /\ Len(t) \in Nat
         /\ Lies(s \o t, buf, off) <=> Lies(s, buf, off) /\ Lies(t, buf, off + Len(s))
<1> DEFINE u == s \o t
           n == Len(s)
           m == Len(t)
<1>1. /\ u \in Seq(Byte) /\ Len(u) = n + m /\ n \in Nat /\ m \in Nat /\ Len(buf) \in Nat
      /\ \A i \in 1 .. n + m : u[i] = IF i <= n THEN s[i] ELSE t[i - n]
  BY ConcatProperties
<1> HIDE DEF u, n, m
<1>2. ASSUME Lies(u, buf, off)
      PROVE  Lies(s, buf, off) /\ Lies(t, buf, off + n)
  <2>1. off + (n + m) <= Len(buf) /\ \A i \in 1 .. n + m : buf[off + i] = u[i]
    BY <1>1, <1>2 DEF Lies
  <2>2. \A i \in 1 .. n : buf[off + i] = s[i]
    <3> TAKE i \in 1 .. n
    <3>1. i \in 1 .. n + m /\ i <= n
      BY <1>1
    <3> QED
      BY <1>1, <2>1, <3>1
  <2>3. \A i \in 1 .. m : buf[off + n + i] = t[i]
    <3> TAKE i \in 1 .. m
    <3>1. n + i \in 1 .. n + m /\ ~ (n + i <= n) /\ off + n + i = off + (n + i) /\ n + i - n = i
      BY <1>1
    <3>2. u[n + i] = t[i]
      BY <1>1, <3>1
    <3> QED
      BY <2>1, <3>1, <3>2
  <2>4. off + n <= Len(buf) /\ off + n + m <= Len(buf)
    BY <1>1, <2>1
  <2> QED
    BY <2>2, <2>3, <2>4 DEF Lies, n, m
<1>3. ASSUME Lies(s, buf, off), Lies(t, buf, off + n)
      PROVE  Lies(u, buf, off)
  <2>1. /\ \A i \in 1 .. n : buf[off + i] = s[i]
        /\ off + n + m <= Len(buf) /\ \A i \in 1 .. m : buf[off + n + i] = t[i]
    BY <1>3 DEF Lies, n, m
  <2>2. ASSUME NEW i \in 1 .. n + m
        PROVE  buf[off + i] = u[i]
    <3>1. CASE i <= n
      <4>1. i \in 1 .. n
        BY <1>1, <3>1
      <4> QED
        BY <1>1, <2>1, <3>1, <4>1
    <3>2. CASE ~ (i <= n)
      <4>1. i - n \in 1 .. m /\ off + n + (i - n) = off + i
        BY <1>1, <3>2
      <4> QED
        BY <1>1, <2>1, <3>2, <4>1
    <3> QED
      BY <3>1, <3>2
  <2>3. off + (n + m) <= Len(buf)
    BY <1>1, <2>1
  <2> QED
    BY <1>1, <2>2, <2>3 DEF Lies
<1> QED
  BY <1>1, <1>2, <1>3 DEF u, n, m

LEMMA ByteAt ==
  ASSUME NEW buf \in Seq(Byte)
  PROVE  Len(buf) \in Nat /\ \A i \in 1 .. Len(buf) : buf[i] \in Byte
OBVIOUS

\* What lies in e lies in a beginning of it that is long enough.
LEMMA LiesCut ==
  ASSUME NEW e \in Seq(Byte), NEW buf \in Seq(Byte), Lies(buf, e, 0),
         NEW off \in Nat, NEW s, Len(s) \in Nat, Lies(s, e, off), off + Len(s) <= Len(buf)
  PROVE  Lies(s, buf, off)
<1>1. ASSUME NEW i \in 1 .. Len(s)
      PROVE  buf[off + i] = s[i]
  <2>1. off + i \in 1 .. Len(buf)
    BY ByteAt
  <2>2. e[0 + (off + i)] = buf[off + i] /\ 0 + (off + i) = off + i
    BY <2>1 DEF Lies
  <2>3. e[off + i] = s[i]
    BY DEF Lies
  <2> QED
    BY <2>2, <2>3
<1> QED
  BY <1>1 DEF Lies

LEMMA LiesSelf ==
  ASSUME NEW buf \in Seq(Byte)
  PROVE  Lies(buf, buf, 0)
<1>1. Len(buf) \in Nat /\ 0 + Len(buf) = Len(buf) /\ \A i \in 1 .. Len(buf) : 0 + i = i
  OBVIOUS
<1> QED
  BY <1>1 DEF Lies

LEMMA LiesPrefix ==
  ASSUME NEW s \in Seq(Byte), NEW buf \in Seq(Byte)
  PROVE  IsPrefix(s, buf) <=> Lies(s, buf, 0)
<1> DEFINE n == Len(s)
<1>1. n \in Nat /\ Len(buf) \in Nat /\ SubSeq(s, 1, n) = s
  BY SubSeqFull
<1>2. ASSUME n <= Len(buf)
      PROVE  /\ SubSeq(buf, 1, n) \in Seq(Byte) /\ Len(SubSeq(buf, 1, n)) = n
             /\ \A i \in 1 .. n : SubSeq(buf, 1, n)[i] = buf[i]
  <2>1. \A i \in 1 .. n : buf[i] \in Byte
    BY <1>1, <1>2, ByteAt
  <2>2. /\ SubSeq(buf, 1, n) \in Seq(Byte)
        /\ Len(SubSeq(buf, 1, n)) = IF 1 <= n THEN n - 1 + 1 ELSE 0
        /\ \A i \in 1 .. n - 1 + 1 : SubSeq(buf, 1, n)[i] = buf[1 + i - 1]
    <3> HIDE DEF n
    <3>1. n \in Int /\ 1 \in Int
      BY <1>1
    <3> QED
      BY <2>1, <3>1, SubSeqProperties
  <2> QED
    BY <1>1, <2>2
<1>3. ASSUME IsPrefix(s, buf) PROVE Lies(s, buf, 0)
  <2>1. n <= Len(buf) /\ s = SubSeq(buf, 1, n)
    BY <1>1, <1>3 DEF IsPrefix
  <2>2. \A i \in 1 .. n : s[i] = buf[i] /\ 0 + i = i
    BY <1>2, <2>1
  <2> QED
    BY <1>1, <2>1, <2>2 DEF Lies
<1>4. ASSUME Lies(s, buf, 0) PROVE IsPrefix(s, buf)
  <2>1. n <= Len(buf) /\ \A i \in 1 .. n : buf[0 + i] = s[i] /\ 0 + i = i
    BY <1>1, <1>4 DEF Lies
  <2>2. \A i \in 1 .. n : SubSeq(buf, 1, n)[i] = s[i]
    BY <1>2, <2>1
  <2>3. s = SubSeq(buf, 1, n)
    BY <1>1, <1>2, <2>1, <2>2, SeqEqual
  <2> QED
    BY <1>1, <2>1, <2>3 DEF IsPrefix
<1> QED
  BY <1>3, <1>4

LEMMA SliceIs ==
  ASSUME NEW buf \in Seq(Byte), NEW off \in Nat, NEW n \in Nat, off + n <= Len(buf)
  PROVE  /\ Slice(buf, off, n) \in Seq(Byte) /\ Len(Slice(buf, off, n)) = n
         /\ Lies(Slice(buf, off, n), buf, off)
         /\ \A s \in Seq(Byte) : Len(s) = n /\ Lies(s, buf, off) => Slice(buf, off, n) = s
<1> DEFINE u == Slice(buf, off, n)
           m == off + n
<1>1. /\ u \in Seq(Byte) /\ Len(u) = n
      /\ \A i \in 1 .. n : u[i] = buf[off + i]
  <2>1. \A i \in off + 1 .. m : buf[i] \in Byte
    BY ByteAt
  <2>2. off + 1 \in Int /\ m \in Int
    OBVIOUS
  <2> HIDE DEF m
  <2>3. /\ SubSeq(buf, off + 1, m) \in Seq(Byte)
        /\ Len(SubSeq(buf, off + 1, m)) = IF off + 1 <= m THEN m - (off + 1) + 1 ELSE 0
        /\ \A i \in 1 .. m - (off + 1) + 1 :
             SubSeq(buf, off + 1, m)[i] = buf[off + 1 + i - 1]
    BY <2>1, <2>2, SubSeqProperties
  <2>4. m - (off + 1) + 1 = n /\ \A i \in 1 .. n : off + 1 + i - 1 = off + i
    BY DEF m
  <2>5. u = SubSeq(buf, off + 1, m)
    BY DEF Slice, m
  <2> HIDE DEF u
  <2>6. Len(u) = n
    BY <2>2, <2>3, <2>4, <2>5
  <2>7. ASSUME NEW i \in 1 .. n
        PROVE  u[i] = buf[off + i]
    BY <2>3, <2>4, <2>5
  <2> QED
    BY <2>3, <2>5, <2>6, <2>7
<1> HIDE DEF u
<1>2. Lies(u, buf, off)
  BY <1>1 DEF Lies
<1>3. ASSUME NEW s \in Seq(Byte), Len(s) = n, Lies(s, buf, off)
      PROVE  u = s
  <2>1. \A i \in 1 .. n : u[i] = s[i]
    BY <1>1, <1>3 DEF Lies
  <2> QED
    BY <1>1, <1>3, <2>1, SeqEqual
<1> QED
  BY <1>1, <1>2, <1>3 DEF u

\* A field of a message is read from its beginning as it was written.
LEMMA FieldIs ==
  ASSUME NEW e \in Seq(Byte), NEW buf \in Seq(Byte), Lies(buf, e, 0),
         NEW off \in Nat, NEW w \in Nat, NEW v \in 0 .. Power(w) - 1,
         Lies(Put(v, w), e, off), off + w <= Len(buf)
  PROVE  Get(buf, off, w) = v
<1>1. v \in Nat
  BY PowerNext
<1>2. Len(Put(v, w)) = w
  BY <1>1, PutIs
<1>3. Lies(Put(v, w), buf, off)
  BY <1>2, LiesCut
<1>4. \A i \in 1 .. w : buf[off + i] = Put(v, w)[i]
  BY <1>2, <1>3 DEF Lies
<1> QED
  BY <1>4, PutGet

LEMMA SliceOf ==
  ASSUME NEW e \in Seq(Byte), NEW buf \in Seq(Byte), Lies(buf, e, 0),
         NEW off \in Nat, NEW s \in Seq(Byte), Lies(s, e, off), off + Len(s) <= Len(buf)
  PROVE  Slice(buf, off, Len(s)) = s
<1>1. Len(s) \in Nat
  OBVIOUS
<1>2. Lies(s, buf, off)
  BY <1>1, LiesCut
<1> QED
  BY <1>1, <1>2, SliceIs

\* And bytes that are there are written as they were read.
LEMMA FieldThere ==
  ASSUME NEW buf \in Seq(Byte), NEW off \in Nat, NEW w \in Nat, off + w <= Len(buf)
  PROVE  /\ Get(buf, off, w) \in Nat /\ Get(buf, off, w) <= Power(w) - 1
         /\ Lies(Put(Get(buf, off, w), w), buf, off)
<1>1. \A i \in 1 .. w : buf[off + i] \in Byte
  <2> TAKE i \in 1 .. w
  <2>1. off + i \in 1 .. Len(buf)
    BY ByteAt
  <2> QED
    BY <2>1, ByteAt
<1>2. /\ Get(buf, off, w) \in Nat /\ Get(buf, off, w) <= Power(w) - 1
      /\ \A i \in 1 .. w : Put(Get(buf, off, w), w)[i] = buf[off + i]
  BY <1>1, GetPut
<1>3. Len(Put(Get(buf, off, w), w)) = w
  BY <1>2, PutIs
<1> QED
  BY <1>2, <1>3 DEF Lies

LEMMA StartIs ==
  ASSUME NEW S, NEW s \in Seq(S), NEW n \in Nat
  PROVE  /\ Start(s, n) \in Seq(S)
         /\ Len(Start(s, n)) = IF Len(s) < n THEN Len(s) ELSE n
         /\ \A i \in 1 .. Len(Start(s, n)) : Start(s, n)[i] = s[i]
<1> DEFINE m == IF Len(s) < n THEN Len(s) ELSE n
<1>1. m \in Nat /\ m <= Len(s) /\ m - 1 + 1 = m
  OBVIOUS
<1>2. \A i \in 1 .. m : s[i] \in S
  OBVIOUS
<1>3. Start(s, n) = SubSeq(s, 1, m)
  BY DEF Start
<1> HIDE DEF m
<1>4. /\ SubSeq(s, 1, m) \in Seq(S)
      /\ Len(SubSeq(s, 1, m)) = IF 1 <= m THEN m - 1 + 1 ELSE 0
      /\ \A i \in 1 .. m - 1 + 1 : SubSeq(s, 1, m)[i] = s[1 + i - 1]
  <2>1. m \in Int /\ 1 \in Int
    BY <1>1
  <2> QED
    BY <1>2, <2>1, SubSeqProperties
<1>5. Len(SubSeq(s, 1, m)) = m
  BY <1>1, <1>4
<1>6. \A i \in 1 .. m : SubSeq(s, 1, m)[i] = s[i]
  BY <1>1, <1>4
<1> QED
  BY <1>3, <1>4, <1>5, <1>6 DEF m

LEMMA StartLies ==
  ASSUME NEW s \in Seq(Byte), NEW n \in Nat
  PROVE  Lies(Start(s, n), s, 0)
<1>1. /\ Len(Start(s, n)) \in Nat /\ Len(Start(s, n)) <= Len(s)
      /\ \A i \in 1 .. Len(Start(s, n)) : Start(s, n)[i] = s[i] /\ 0 + i = i
  BY StartIs
<1> QED
  BY <1>1 DEF Lies

LEMMA Limits ==
  /\ W16 \in Nat \ {0} /\ W32 \in Nat \ {0} /\ W64 \in Nat \ {0}
  /\ U16Max \in Nat /\ U32Max \in Nat /\ UsizeMax \in Nat
  /\ U16Max = Power(W16) - 1 /\ U32Max = Power(W32) - 1 /\ UsizeMax = Power(W64) - 1
  /\ MAGIC \in Seq(Byte) /\ Len(MAGIC) \in Nat /\ HEADER_LEN = Len(MAGIC) + 1
  /\ MaxAppMessage \in Nat /\ MaxAppMessage <= U32Max /\ MaxAppMessage <= UsizeMax
  /\ MAX_CHUNK_DATA \in Nat /\ MaxAppMessage - HEADER_LEN \in Nat
  /\ MAX_MISSING_LISTED \in Nat /\ MAX_MISSING_LISTED <= U32Max
<1>1. /\ W16 \in Nat \ {0} /\ W32 \in Nat \ {0} /\ W64 \in Nat \ {0}
      /\ MAGIC \in Seq(Byte) /\ Len(MAGIC) \in Nat
      /\ MaxAppMessage \in Nat /\ MaxAppMessage <= U32Max /\ MaxAppMessage <= UsizeMax
      /\ MAX_CHUNK_DATA >= 0 /\ MaxAppMessage >= STATUS_REPLY_HEADER_LEN
  BY CodecAssumption
<1>2. U16Max \in Nat /\ U32Max \in Nat /\ UsizeMax \in Nat
  <2>1. Power(W16) \in Nat \ {0} /\ Power(W32) \in Nat \ {0} /\ Power(W64) \in Nat \ {0}
    BY <1>1, PowerNext
  <2> QED
    BY <2>1 DEF U16Max, U32Max, UsizeMax
<1>3. MAX_CHUNK_DATA \in Nat /\ MaxAppMessage - HEADER_LEN \in Nat
  BY <1>1 DEF MAX_CHUNK_DATA, CHUNK_HEADER_LEN, HEADER_LEN
<1>4. MAX_MISSING_LISTED \in Nat /\ MAX_MISSING_LISTED <= U32Max
  <2> DEFINE x == MaxAppMessage - STATUS_REPLY_HEADER_LEN
             q == x \div W32
  <2>1. x \in Nat /\ x <= MaxAppMessage
    BY <1>1 DEF STATUS_REPLY_HEADER_LEN, HEADER_LEN
  <2> HIDE DEF x
  <2>2. q \in Nat /\ q <= x
    <3>1. q \in Nat /\ W32 * q <= x
      BY <1>1, <2>1
    <3>2. q <= W32 * q
      BY <1>1, <3>1
    <3> QED
      BY <1>1, <2>1, <3>1, <3>2
  <2>3. MAX_MISSING_LISTED = q
    BY DEF MAX_MISSING_LISTED, x
  <2> HIDE DEF q
  <2> QED
    BY <1>1, <1>2, <2>1, <2>2, <2>3
<1> QED
  BY <1>1, <1>2, <1>3, <1>4 DEF U16Max, U32Max, UsizeMax, HEADER_LEN

LEMMA Sizes ==
  /\ W16 \in Nat /\ W32 \in Nat /\ W64 \in Nat /\ HEADER_LEN \in Nat
  /\ U16Max \in Nat /\ U32Max \in Nat /\ UsizeMax \in Nat
  /\ MaxAppMessage \in Nat /\ MAX_CHUNK_DATA \in Nat /\ MAX_MISSING_LISTED \in Nat
  /\ MaxAppMessage - HEADER_LEN \in Nat
<1>1. Len(MAGIC) + 1 \in Nat
  BY Limits
<1> QED
  BY <1>1, Limits

-----------------------------------------------------------------------------
(* Strings, headers and padding.                                           *)

LEMMA ShortIs ==
  ASSUME NEW s \in Seq(Byte), NEW e \in Seq(Byte), NEW off \in Nat
  PROVE  /\ Short(s) \in Seq(Byte) /\ Len(Short(s)) = W16 + Len(Start(s, U16Max))
         /\ Start(s, U16Max) \in Seq(Byte)
         /\ Len(Start(s, U16Max)) \in Nat /\ Len(Start(s, U16Max)) <= U16Max
         /\ Lies(Short(s), e, off) <=>
              /\ Lies(Put(Len(Start(s, U16Max)), W16), e, off)
              /\ Lies(Start(s, U16Max), e, off + W16)
<1> DEFINE t == Start(s, U16Max)
           n == Len(t)
<1>1. t \in Seq(Byte) /\ n \in Nat /\ n <= U16Max
  BY StartIs, Sizes
<1>2. Put(n, W16) \in Seq(Byte) /\ Len(Put(n, W16)) = W16
  BY <1>1, PutIs, Sizes
<1>3. Short(s) = Put(n, W16) \o t
  BY DEF Short
<1> HIDE DEF t
<1>4. /\ Put(n, W16) \o t \in Seq(Byte) /\ Len(Put(n, W16) \o t) = Len(Put(n, W16)) + Len(t)
      /\ Lies(Put(n, W16) \o t, e, off) <=>
           Lies(Put(n, W16), e, off) /\ Lies(t, e, off + Len(Put(n, W16)))
  BY <1>1, <1>2, LiesBoth
<1> QED
  BY <1>1, <1>2, <1>3, <1>4 DEF t

\* A string of a message in a beginning of it: there as it was written, or not.
LEMMA ShortOf ==
  ASSUME NEW e \in Seq(Byte), NEW buf \in Seq(Byte), Lies(buf, e, 0),
         NEW off \in Nat, NEW s \in Seq(Byte), Lies(Short(s), e, off)
  PROVE  /\ HasShort(buf, off) =>
              /\ Get(buf, off, W16) = Len(Start(s, U16Max))
              /\ ShortAt(buf, off) = Start(s, U16Max)
              /\ off + Len(Short(s)) <= Len(buf)
         /\ off + Len(Short(s)) <= Len(buf) /\ Len(buf) <= UsizeMax => HasShort(buf, off)
<1> DEFINE t == Start(s, U16Max)
           n == Len(t)
<1>1. /\ t \in Seq(Byte) /\ n \in Nat /\ n <= U16Max /\ Len(Short(s)) = W16 + n
      /\ Lies(Put(n, W16), e, off) /\ Lies(t, e, off + W16)
  BY ShortIs
<1>2. /\ W16 \in Nat /\ off + W16 \in Nat /\ n \in 0 .. Power(W16) - 1 /\ Len(buf) \in Nat
  <2>1. W16 \in Nat /\ U16Max \in Nat
    BY Sizes
  <2>2. U16Max = Power(W16) - 1
    BY Limits
  <2> HIDE DEF n
  <2> QED
    BY <1>1, <2>1, <2>2
<1> HIDE DEF t
<1>3. off + W16 <= Len(buf) => Get(buf, off, W16) = n
  BY <1>1, <1>2, FieldIs
<1>4. off + W16 + n <= Len(buf) => Slice(buf, off + W16, n) = t
  BY <1>1, <1>2, SliceOf
<1>5. HasShort(buf, off) => off + W16 <= Len(buf) /\ off + W16 + n <= Len(buf)
  BY <1>2, <1>3 DEF HasShort, Holds
<1>6. off + (W16 + n) <= Len(buf) /\ Len(buf) <= UsizeMax => HasShort(buf, off)
  <2> SUFFICES ASSUME off + (W16 + n) <= Len(buf), Len(buf) <= UsizeMax
               PROVE  HasShort(buf, off)
    OBVIOUS
  <2>1. UsizeMax \in Nat
    BY Sizes
  <2>2. off + W16 <= Len(buf) /\ off + W16 + n <= Len(buf) /\ off + W16 + n <= UsizeMax
    BY <1>1, <1>2, <2>1
  <2> QED
    BY <1>3, <2>2 DEF HasShort, Holds
<1>7. off + (W16 + n) = off + W16 + n
  BY <1>1, <1>2
<1> QED
  BY <1>1, <1>3, <1>4, <1>5, <1>6, <1>7 DEF ShortAt, t

\* A string that is there is written again as it is.
LEMMA ShortThere ==
  ASSUME NEW buf \in Seq(Byte), NEW off \in Nat, HasShort(buf, off)
  PROVE  /\ ShortAt(buf, off) \in Seq(Byte)
         /\ Start(ShortAt(buf, off), U16Max) = ShortAt(buf, off)
         /\ Get(buf, off, W16) \in Nat /\ Len(ShortAt(buf, off)) = Get(buf, off, W16)
         /\ Get(buf, off, W16) <= U16Max
         /\ off + W16 + Get(buf, off, W16) <= Len(buf)
         /\ Lies(Short(ShortAt(buf, off)), buf, off)
<1> DEFINE n == Get(buf, off, W16)
           s == ShortAt(buf, off)
<1>1. off + W16 <= Len(buf) /\ off + W16 + n <= Len(buf) /\ W16 \in Nat
  BY Limits DEF HasShort, Holds
<1>2. n \in Nat /\ n <= U16Max /\ Lies(Put(n, W16), buf, off)
  <2>1. U16Max = Power(W16) - 1
    BY Limits
  <2>2. n \in Nat /\ n <= Power(W16) - 1 /\ Lies(Put(n, W16), buf, off)
    BY <1>1, FieldThere
  <2> QED
    BY <2>1, <2>2
<1>3. s = Slice(buf, off + W16, n)
  BY DEF ShortAt
<1> HIDE DEF n, s
<1>4. s \in Seq(Byte) /\ Len(s) = n /\ Lies(s, buf, off + W16)
  <2>1. off + W16 \in Nat
    BY <1>1
  <2> QED
    BY <1>1, <1>2, <1>3, <2>1, SliceIs
<1>5. Start(s, U16Max) = s
  <2>0. U16Max \in Nat
    BY Sizes
  <2>1. /\ Start(s, U16Max) \in Seq(Byte)
        /\ Len(Start(s, U16Max)) = IF Len(s) < U16Max THEN Len(s) ELSE U16Max
        /\ \A i \in 1 .. Len(Start(s, U16Max)) : Start(s, U16Max)[i] = s[i]
    BY <1>4, <2>0, StartIs
  <2>2. Len(Start(s, U16Max)) = n
    BY <1>2, <1>4, <2>0, <2>1
  <2> QED
    BY <1>4, <2>1, <2>2, SeqEqual
<1>6. Lies(Short(s), buf, off)
  BY <1>2, <1>4, <1>5, ShortIs
<1> QED
  BY <1>1, <1>2, <1>4, <1>5, <1>6 DEF n, s

LEMMA LossyIs ==
  ASSUME NEW s \in Seq(Byte)
  PROVE  /\ s \in Text => Lossy(s) = s
         /\ ~ Contains(Lossy(s), Replacement) => Lossy(s) = s
<1>1. DOMAIN s = 1 .. Len(s) /\ Len(s) \in Nat
  OBVIOUS
<1>2. Lossy(s) = [i \in 1 .. Len(s) |-> IF s[i] = BadByte THEN Replacement ELSE s[i]]
  BY <1>1 DEF Lossy
<1>3. ASSUME \A i \in 1 .. Len(s) : s[i] # BadByte
      PROVE  Lossy(s) = s
  BY <1>1, <1>2, <1>3
<1>4. s \in Text => \A i \in 1 .. Len(s) : s[i] # BadByte
  BY DEF Text
<1>5. ASSUME ~ Contains(Lossy(s), Replacement)
      PROVE  \A i \in 1 .. Len(s) : s[i] # BadByte
  <2>1. Len(Lossy(s)) = Len(s)
    BY <1>1, <1>2
  <2>2. \A i \in 1 .. Len(s) : Lossy(s)[i] # Replacement
    BY <1>5, <2>1 DEF Contains
  <2> QED
    BY <1>2, <2>2
<1> QED
  BY <1>3, <1>4, <1>5

KindNames == {"Hello", "Probe", "Echo", "Manifest", "ManifestOk", "Chunk", "Status",
              "StatusReply", "Routes", "Social"}

LEMMA KindBytes ==
  /\ DOMAIN Kinds = 1 .. 10
  /\ \A k \in 1 .. 10 : Kinds[k] \in KindNames /\ KindByte(Kinds[k]) = k
  /\ \A kind \in KindNames :
       KindByte(kind) \in 1 .. 10 /\ KindByte(kind) \in Byte /\ Kinds[KindByte(kind)] = kind
<1>1. DOMAIN Kinds = 1 .. 10
  BY DEF Kinds
<1>2. /\ Kinds[1] = "Hello" /\ Kinds[2] = "Probe" /\ Kinds[3] = "Echo" /\ Kinds[4] = "Manifest"
      /\ Kinds[5] = "ManifestOk" /\ Kinds[6] = "Chunk" /\ Kinds[7] = "Status"
      /\ Kinds[8] = "StatusReply" /\ Kinds[9] = "Routes" /\ Kinds[10] = "Social"
  BY DEF Kinds
<1>3. \A k, j \in 1 .. 10 : Kinds[k] = Kinds[j] => k = j
  BY <1>2
<1>4. \A kind \in KindNames : \E k \in 1 .. 10 : Kinds[k] = kind
  BY <1>2 DEF KindNames
<1>5. \A kind \in KindNames : KindByte(kind) \in 1 .. 10 /\ Kinds[KindByte(kind)] = kind
  <2> TAKE kind \in KindNames
  <2>1. \E k \in DOMAIN Kinds : Kinds[k] = kind
    BY <1>1, <1>4
  <2>2. KindByte(kind) \in DOMAIN Kinds /\ Kinds[KindByte(kind)] = kind
    BY <2>1 DEF KindByte
  <2> QED
    BY <1>1, <2>2
<1>6. \A k \in 1 .. 10 : Kinds[k] \in KindNames
  BY <1>2 DEF KindNames
<1>7. \A k \in 1 .. 10 : KindByte(Kinds[k]) = k
  BY <1>3, <1>5, <1>6
<1>8. \A kind \in KindNames : KindByte(kind) \in Byte
  BY <1>5, Bases
<1> QED
  BY <1>1, <1>5, <1>6, <1>7, <1>8

LEMMA PaddedIs ==
  ASSUME NEW bytes \in Seq(Byte), NEW p, NEW pad \in Nat
  PROVE  /\ Padded(bytes, p, pad) \in Seq(Byte)
         /\ Lies(bytes, Padded(bytes, p, pad), 0)
         /\ \/ Len(Padded(bytes, p, pad)) = Len(bytes)
            \/ Len(Padded(bytes, p, pad)) <= MaxAppMessage
         /\ p.kind \notin {"Probe", "Echo"} \/ pad = 0 => Padded(bytes, p, pad) = bytes
<1> DEFINE to == IF pad < MaxAppMessage THEN pad ELSE MaxAppMessage
           n == IF p.kind \in {"Probe", "Echo"} /\ Len(bytes) < to THEN to - Len(bytes) ELSE 0
           zeros == [i \in 1 .. n |-> 0]
           e == bytes \o zeros
<1>1. to \in Nat /\ to <= MaxAppMessage /\ MaxAppMessage \in Nat /\ Len(bytes) \in Nat
  <2>1. MaxAppMessage \in Nat
    BY Sizes
  <2> QED
    BY <2>1
<1>2. n \in Nat /\ (n # 0 => Len(bytes) + n <= to)
  BY <1>1
<1>3. p.kind \notin {"Probe", "Echo"} \/ pad = 0 => n = 0
  BY <1>1
<1>4. e = Padded(bytes, p, pad)
  BY DEF Padded
<1> HIDE DEF n, to
<1>5. zeros \in Seq(Byte) /\ Len(zeros) = n
  <2>1. 0 \in Byte
    BY Bases
  <2>2. zeros \in [1 .. n -> Byte]
    BY <2>1
  <2> QED
    BY <1>2, <2>2
<1> HIDE DEF zeros
<1>6. e \in Seq(Byte) /\ Len(e) = Len(bytes) + n
  BY <1>5, LiesBoth
<1>7. Lies(bytes, e, 0)
  <2>1. Lies(e, e, 0)
    BY <1>6, LiesSelf
  <2> HIDE DEF e
  <2>2. Lies(bytes \o zeros, e, 0)
    BY <2>1 DEF e
  <2> QED
    BY <1>5, <1>6, <2>2, LiesBoth
<1>8. n = 0 => e = bytes
  <2>1. n = 0 => zeros = << >>
    BY <1>5
  <2> QED
    BY <2>1, ConcatEmptySeq
<1>9. Len(e) = Len(bytes) \/ Len(e) <= MaxAppMessage
  BY <1>1, <1>2, <1>6
<1> QED
  BY <1>3, <1>4, <1>6, <1>7, <1>8, <1>9

\* Bytes begin as a message of that kind does.
Headed(kind, buf) == Lies(MAGIC, buf, 0) /\ Lies(<<KindByte(kind)>>, buf, Len(MAGIC))

LEMMA EncodeIs ==
  ASSUME NEW p, p.kind \in KindNames, Payload(p) \in Seq(Byte), NEW pad \in Nat
  PROVE  /\ Encode(p, pad) \in Seq(Byte)
         /\ Headed(p.kind, Encode(p, pad)) /\ Lies(Payload(p), Encode(p, pad), HEADER_LEN)
         /\ \/ Len(Encode(p, pad)) = HEADER_LEN + Len(Payload(p))
            \/ Len(Encode(p, pad)) <= MaxAppMessage
         /\ p.kind \notin {"Probe", "Echo"} \/ pad = 0 =>
              Len(Encode(p, pad)) = HEADER_LEN + Len(Payload(p))
         /\ \A buf \in Seq(Byte) :
              Headed(p.kind, buf) /\ Lies(Payload(p), buf, HEADER_LEN) => IsPrefix(Encode(p, 0), buf)
<1> DEFINE k == <<KindByte(p.kind)>>
           head == MAGIC \o k
           bytes == head \o Payload(p)
           e == Encode(p, pad)
<1>1. /\ MAGIC \in Seq(Byte) /\ Len(MAGIC) \in Nat /\ HEADER_LEN = Len(MAGIC) + 1
      /\ HEADER_LEN \in Nat /\ k \in Seq(Byte) /\ Len(k) = 1
  <2>1. KindByte(p.kind) \in Byte
    BY KindBytes
  <2> QED
    BY <2>1, Limits
<1>2. \A n \in Nat : Encode(p, n) = Padded(bytes, p, n)
  BY DEF Encode
<1> HIDE DEF k
<1>3. /\ head \in Seq(Byte) /\ Len(head) = HEADER_LEN
      /\ \A buf \in Seq(Byte) :
           Lies(head, buf, 0) <=> Lies(MAGIC, buf, 0) /\ Lies(k, buf, Len(MAGIC))
  <2>1. head \in Seq(Byte) /\ Len(head) = Len(MAGIC) + Len(k)
    BY <1>1, ConcatProperties
  <2>2. ASSUME NEW buf \in Seq(Byte)
        PROVE  Lies(head, buf, 0) <=> Lies(MAGIC, buf, 0) /\ Lies(k, buf, Len(MAGIC))
    <3>1. Lies(head, buf, 0) <=> Lies(MAGIC, buf, 0) /\ Lies(k, buf, 0 + Len(MAGIC))
      BY <1>1, LiesBoth
    <3>2. Len(MAGIC) = 0 + Len(MAGIC)
      BY <1>1
    <3> QED
      BY <3>1, <3>2
  <2> QED
    BY <1>1, <2>1, <2>2
<1> HIDE DEF head
<1>4. /\ bytes \in Seq(Byte) /\ Len(bytes) = HEADER_LEN + Len(Payload(p))
      /\ \A buf \in Seq(Byte) :
           Lies(bytes, buf, 0) <=> Lies(head, buf, 0) /\ Lies(Payload(p), buf, HEADER_LEN)
  <2>1. 0 + Len(head) = HEADER_LEN
    BY <1>1, <1>3
  <2> QED
    BY <1>1, <1>3, <2>1, LiesBoth
<1> HIDE DEF bytes
<1>5. /\ e \in Seq(Byte) /\ Lies(bytes, e, 0)
      /\ Len(e) = Len(bytes) \/ Len(e) <= MaxAppMessage
      /\ p.kind \notin {"Probe", "Echo"} \/ pad = 0 => e = bytes
  <2>1. e = Padded(bytes, p, pad)
    BY <1>2
  <2> HIDE DEF e
  <2> QED
    BY <1>4, <2>1, PaddedIs
<1>6. Encode(p, 0) = bytes
  BY <1>2, <1>4, PaddedIs
<1>7. \A buf \in Seq(Byte) : Headed(p.kind, buf) <=> Lies(head, buf, 0)
  BY <1>3 DEF Headed, k
<1>8. \A buf \in Seq(Byte) : Lies(bytes, buf, 0) => IsPrefix(bytes, buf)
  BY <1>4, LiesPrefix
<1> QED
  BY <1>4, <1>5, <1>6, <1>7, <1>8

LEMMA MinLens ==
  \A kind \in KindNames : MinLen[kind] \in Nat /\ MinLen[kind] >= HEADER_LEN
<1>1. /\ W16 \in Nat /\ W32 \in Nat /\ W64 \in Nat /\ HEADER_LEN \in Nat
  BY Sizes
<1>2. PROBE_LEN \in Nat /\ ECHO_LEN \in Nat /\ CHUNK_HEADER_LEN \in Nat
      /\ STATUS_REPLY_HEADER_LEN \in Nat
      /\ PROBE_LEN >= HEADER_LEN /\ ECHO_LEN >= HEADER_LEN /\ CHUNK_HEADER_LEN >= HEADER_LEN
      /\ STATUS_REPLY_HEADER_LEN >= HEADER_LEN
  BY <1>1 DEF PROBE_LEN, ECHO_LEN, CHUNK_HEADER_LEN, STATUS_REPLY_HEADER_LEN
<1> QED
  BY <1>1, <1>2 DEF MinLen, KindNames

LEMMA HeadedIs ==
  ASSUME NEW buf \in Seq(Byte), NEW kind \in KindNames
  PROVE  Headed(kind, buf) <=>
           Len(buf) >= HEADER_LEN /\ IsPrefix(MAGIC, buf) /\ buf[HEADER_LEN] = KindByte(kind)
<1> DEFINE n == Len(MAGIC)
           k == <<KindByte(kind)>>
<1>1. /\ MAGIC \in Seq(Byte) /\ n \in Nat /\ HEADER_LEN = n + 1 /\ Len(buf) \in Nat
      /\ Len(k) = 1 /\ k[1] = KindByte(kind)
  BY Limits
<1>2. IsPrefix(MAGIC, buf) <=> Lies(MAGIC, buf, 0)
  BY <1>1, LiesPrefix
<1> HIDE DEF n, k
<1>3. Lies(k, buf, n) <=> n + 1 <= Len(buf) /\ buf[n + 1] = KindByte(kind)
  BY <1>1 DEF Lies
<1> QED
  BY <1>1, <1>2, <1>3 DEF Headed, n, k

\* What decode makes of a beginning of a message.
LEMMA DecodeOf ==
  ASSUME NEW e \in Seq(Byte), NEW buf \in Seq(Byte), Lies(buf, e, 0),
         NEW kind \in KindNames, Headed(kind, e)
  PROVE  Decode(buf) =
           IF Len(buf) >= MinLen[kind] /\ Whole(kind, buf) THEN Read(kind, buf) ELSE NoPacket
<1>0. /\ MAGIC \in Seq(Byte) /\ Len(MAGIC) \in Nat /\ HEADER_LEN = Len(MAGIC) + 1
      /\ Len(buf) \in Nat /\ MinLen[kind] \in Nat /\ MinLen[kind] >= HEADER_LEN
  BY Limits, MinLens
<1>1. CASE Len(buf) < HEADER_LEN
  <2>1. Decode(buf) = NoPacket
    BY <1>1 DEF Decode
  <2> QED
    BY <1>0, <1>1, <2>1
<1>2. CASE Len(buf) >= HEADER_LEN
  <2>1. Headed(kind, buf)
    <3>1. Len(<<KindByte(kind)>>) = 1
      OBVIOUS
    <3>2. Lies(MAGIC, buf, 0)
      BY <1>0, <1>2, LiesCut DEF Headed
    <3>3. Lies(<<KindByte(kind)>>, buf, Len(MAGIC))
      BY <1>0, <1>2, <3>1, LiesCut DEF Headed
    <3> QED
      BY <3>2, <3>3 DEF Headed
  <2>2. IsPrefix(MAGIC, buf) /\ buf[HEADER_LEN] = KindByte(kind)
    BY <2>1, HeadedIs
  <2>3. KindByte(kind) \in DOMAIN Kinds /\ Kinds[KindByte(kind)] = kind
    BY KindBytes
  <2>4. ~ (Len(buf) < HEADER_LEN)
    BY <1>0, <1>2
  <2> QED
    BY <2>2, <2>3, <2>4 DEF Decode
<1> QED
  BY <1>0, <1>1, <1>2

\* What is decoded is headed by its kind, and long enough.
LEMMA DecodeThere ==
  ASSUME NEW buf \in Seq(Byte), Decode(buf) # NoPacket
  PROVE  \E kind \in KindNames :
           /\ Headed(kind, buf) /\ Len(buf) >= MinLen[kind] /\ Whole(kind, buf)
           /\ Decode(buf) = Read(kind, buf)
<1> DEFINE kind == Kinds[buf[HEADER_LEN]]
<1>1. ~ (Len(buf) < HEADER_LEN) /\ IsPrefix(MAGIC, buf) /\ buf[HEADER_LEN] \in DOMAIN Kinds
  BY DEF Decode
<1>2. kind \in KindNames /\ KindByte(kind) = buf[HEADER_LEN]
  BY <1>1, KindBytes
<1>3. /\ Len(buf) >= MinLen[kind] /\ Whole(kind, buf)
      /\ Decode(buf) = Read(kind, buf)
  BY <1>1 DEF Decode
<1>4. Len(buf) >= HEADER_LEN
  BY <1>1, Limits
<1> HIDE DEF kind
<1>5. Headed(kind, buf)
  BY <1>1, <1>2, <1>4, HeadedIs
<1> QED
  BY <1>2, <1>3, <1>5

-----------------------------------------------------------------------------
(* The fields of each kind.                                                *)

LEMMA Uints ==
  /\ \A v \in U64 : v \in Nat /\ v \in 0 .. Power(W64) - 1
  /\ \A v \in U32 : v \in Nat /\ v \in 0 .. Power(W32) - 1
  /\ \A v \in Nat : v <= Power(W64) - 1 => v \in U64
  /\ \A v \in Nat : v <= Power(W32) - 1 => v \in U32
BY Limits DEF U64, U32

LEMMA ShapeIs ==
  ASSUME NEW p \in PacketShape
  PROVE  /\ p.kind \in KindNames
         /\ p.kind = "Hello" => p \in [kind : {"Hello"}, return_route : Seq(Byte)]
         /\ p.kind = "Probe" => p \in [kind : {"Probe"}, seq : U64, t0 : U64]
         /\ p.kind = "Echo" => p \in [kind : {"Echo"}, seq : U64, t0 : U64, t1 : U64, t2 : U64]
         /\ p.kind = "Manifest" =>
              p \in [kind : {"Manifest"}, xfer : U64, total_len : U64, chunk_size : U32,
                     chunk_count : U32, crc32 : U32, name : Text]
         /\ p.kind = "ManifestOk" =>
              p \in [kind : {"ManifestOk"}, xfer : U64, accepted : BOOLEAN, message : Text]
         /\ p.kind = "Chunk" => p \in [kind : {"Chunk"}, xfer : U64, index : U32, data : Seq(Byte)]
         /\ p.kind = "Status" => p \in [kind : {"Status"}, xfer : U64]
         /\ p.kind = "StatusReply" =>
              p \in [kind : {"StatusReply"}, xfer : U64, state : Byte, missing_total : U32,
                     missing : Seq(U32)]
         /\ p.kind = "Routes" => p \in [kind : {"Routes"}, blobs : Seq(Seq(Byte))]
         /\ p.kind = "Social" => p \in [kind : {"Social"}, json : Seq(Byte)]
BY DEF PacketShape, KindNames

\* r, of n + m bytes, is s, of n bytes, and then t.
Joins(r, s, n, t, m) ==
  /\ r \in Seq(Byte) /\ Len(r) = n + m
  /\ \A buf \in Seq(Byte), off \in Nat :
       Lies(r, buf, off) <=> Lies(s, buf, off) /\ Lies(t, buf, off + n)

LEMMA JoinsThen ==
  ASSUME NEW s \in Seq(Byte), NEW n, Len(s) = n, NEW t \in Seq(Byte), NEW m, Len(t) = m
  PROVE  Joins(s \o t, s, n, t, m)
<1>1. s \o t \in Seq(Byte) /\ Len(s \o t) = n + m
  BY ConcatProperties
<1>2. ASSUME NEW buf \in Seq(Byte), NEW off \in Nat
      PROVE  Lies(s \o t, buf, off) <=> Lies(s, buf, off) /\ Lies(t, buf, off + n)
  BY <1>1, LiesBoth
<1> QED
  BY <1>1, <1>2 DEF Joins

LEMMA JoinsPut ==
  ASSUME NEW s \in Seq(Byte), NEW n, Len(s) = n, NEW v \in Nat, NEW w \in Nat
  PROVE  Joins(s \o Put(v, w), s, n, Put(v, w), w)
<1>1. Put(v, w) \in Seq(Byte) /\ Len(Put(v, w)) = w
  BY PutIs
<1> QED
  BY <1>1, JoinsThen

LEMMA EchoPayload ==
  ASSUME NEW p, p.kind = "Echo", p.seq \in U64, p.t0 \in U64, p.t1 \in U64, p.t2 \in U64,
         NEW buf \in Seq(Byte), NEW off \in Nat
  PROVE  /\ Payload(p) \in Seq(Byte) /\ Len(Payload(p)) = W64 + W64 + W64 + W64
         /\ Lies(Payload(p), buf, off) <=>
              /\ Lies(Put(p.seq, W64), buf, off)
              /\ Lies(Put(p.t0, W64), buf, off + W64)
              /\ Lies(Put(p.t1, W64), buf, off + (W64 + W64))
              /\ Lies(Put(p.t2, W64), buf, off + (W64 + W64 + W64))
<1>1. p.seq \in Nat /\ p.t0 \in Nat /\ p.t1 \in Nat /\ p.t2 \in Nat /\ W64 \in Nat
  BY Uints, Sizes
<1> DEFINE a == Put(p.seq, W64)
           b == a \o Put(p.t0, W64)
           c == b \o Put(p.t1, W64)
           d == c \o Put(p.t2, W64)
<1>2. Payload(p) = d
  BY DEF Payload
<1>3. a \in Seq(Byte) /\ Len(a) = W64
  BY <1>1, PutIs
<1>4. Joins(b, a, W64, Put(p.t0, W64), W64)
  <2> HIDE DEF a
  <2> QED
    BY <1>1, <1>3, JoinsPut
<1>5. b \in Seq(Byte) /\ Len(b) = W64 + W64
  BY <1>4 DEF Joins
<1>6. Joins(c, b, W64 + W64, Put(p.t1, W64), W64)
  <2> HIDE DEF b
  <2> QED
    BY <1>1, <1>5, JoinsPut
<1>7. c \in Seq(Byte) /\ Len(c) = W64 + W64 + W64
  BY <1>6 DEF Joins
<1>8. Joins(d, c, W64 + W64 + W64, Put(p.t2, W64), W64)
  <2> HIDE DEF c
  <2> QED
    BY <1>1, <1>7, JoinsPut
<1> HIDE DEF b, c, d
<1> QED
  BY <1>2, <1>4, <1>6, <1>8 DEF Joins, a

LEMMA ProbePayload ==
  ASSUME NEW p, p.kind = "Probe", p.seq \in U64, p.t0 \in U64,
         NEW buf \in Seq(Byte), NEW off \in Nat
  PROVE  /\ Payload(p) \in Seq(Byte) /\ Len(Payload(p)) = W64 + W64
         /\ Lies(Payload(p), buf, off) <=>
              Lies(Put(p.seq, W64), buf, off) /\ Lies(Put(p.t0, W64), buf, off + W64)
<1> DEFINE a == Put(p.seq, W64)
           b == a \o Put(p.t0, W64)
<1>1. p.seq \in Nat /\ p.t0 \in Nat /\ W64 \in Nat
  BY Uints, Sizes
<1>2. Payload(p) = b
  BY DEF Payload
<1>3. a \in Seq(Byte) /\ Len(a) = W64
  BY <1>1, PutIs
<1>4. Joins(b, a, W64, Put(p.t0, W64), W64)
  <2> HIDE DEF a
  <2> QED
    BY <1>1, <1>3, JoinsPut
<1> HIDE DEF b
<1> QED
  BY <1>2, <1>4 DEF Joins

LEMMA HelloPayload ==
  ASSUME NEW p, p.kind = "Hello", p.return_route \in Seq(Byte),
         NEW buf \in Seq(Byte), NEW off \in Nat
  PROVE  /\ Payload(p) \in Seq(Byte) /\ Len(Payload(p)) = W64 + Len(p.return_route)
         /\ Lies(Payload(p), buf, off) <=>
              /\ Lies(Put(Len(p.return_route), W64), buf, off)
              /\ Lies(p.return_route, buf, off + W64)
<1> DEFINE s == p.return_route
           a == Put(Len(s), W64)
           b == a \o s
<1>1. Len(s) \in Nat /\ W64 \in Nat
  BY Sizes
<1>2. Payload(p) = b
  BY DEF Payload
<1>3. a \in Seq(Byte) /\ Len(a) = W64
  BY <1>1, PutIs
<1>4. Joins(b, a, W64, s, Len(s))
  <2> HIDE DEF a
  <2> QED
    BY <1>3, JoinsThen
<1> HIDE DEF b
<1> QED
  BY <1>2, <1>4 DEF Joins

LEMMA ManifestPayload ==
  ASSUME NEW p, p.kind = "Manifest", p.xfer \in U64, p.total_len \in U64,
         p.chunk_size \in U32, p.chunk_count \in U32, p.crc32 \in U32, p.name \in Seq(Byte),
         NEW buf \in Seq(Byte), NEW off \in Nat
  PROVE  /\ Payload(p) \in Seq(Byte)
         /\ Len(Payload(p)) = 2 * W64 + 3 * W32 + Len(Short(p.name))
         /\ Lies(Payload(p), buf, off) <=>
              /\ Lies(Put(p.xfer, W64), buf, off)
              /\ Lies(Put(p.total_len, W64), buf, off + W64)
              /\ Lies(Put(p.chunk_size, W32), buf, off + 2 * W64)
              /\ Lies(Put(p.chunk_count, W32), buf, off + (2 * W64 + W32))
              /\ Lies(Put(p.crc32, W32), buf, off + (2 * W64 + 2 * W32))
              /\ Lies(Short(p.name), buf, off + (2 * W64 + 3 * W32))
<1>1. /\ p.xfer \in Nat /\ p.total_len \in Nat /\ p.chunk_size \in Nat
      /\ p.chunk_count \in Nat /\ p.crc32 \in Nat /\ W64 \in Nat /\ W32 \in Nat
  BY Uints, Sizes
<1> DEFINE s == Short(p.name)
           a == Put(p.xfer, W64)
           b == a \o Put(p.total_len, W64)
           c == b \o Put(p.chunk_size, W32)
           d == c \o Put(p.chunk_count, W32)
           e == d \o Put(p.crc32, W32)
           f == e \o s
<1>2. s \in Seq(Byte) /\ Len(s) \in Nat
  BY ShortIs
<1>3. Payload(p) = f
  BY DEF Payload
<1>4. a \in Seq(Byte) /\ Len(a) = W64
  BY <1>1, PutIs
<1>5. Joins(b, a, W64, Put(p.total_len, W64), W64)
  <2> HIDE DEF a
  <2> QED
    BY <1>1, <1>4, JoinsPut
<1>6. b \in Seq(Byte) /\ Len(b) = 2 * W64
  BY <1>1, <1>5 DEF Joins
<1>7. Joins(c, b, 2 * W64, Put(p.chunk_size, W32), W32)
  <2> HIDE DEF b
  <2> QED
    BY <1>1, <1>6, JoinsPut
<1>8. c \in Seq(Byte) /\ Len(c) = 2 * W64 + W32
  BY <1>7 DEF Joins
<1>9. Joins(d, c, 2 * W64 + W32, Put(p.chunk_count, W32), W32)
  <2> HIDE DEF c
  <2> QED
    BY <1>1, <1>8, JoinsPut
<1>10. d \in Seq(Byte) /\ Len(d) = 2 * W64 + 2 * W32
  BY <1>1, <1>9 DEF Joins
<1>11. Joins(e, d, 2 * W64 + 2 * W32, Put(p.crc32, W32), W32)
  <2> HIDE DEF d
  <2> QED
    BY <1>1, <1>10, JoinsPut
<1>12. e \in Seq(Byte) /\ Len(e) = 2 * W64 + 3 * W32
  BY <1>1, <1>11 DEF Joins
<1>13. Joins(f, e, 2 * W64 + 3 * W32, s, Len(s))
  <2> HIDE DEF e, s
  <2> QED
    BY <1>2, <1>12, JoinsThen
<1> HIDE DEF b, c, d, e, f, s
<1> QED
  BY <1>3, <1>5, <1>7, <1>9, <1>11, <1>13 DEF Joins, s

LEMMA ManifestOkPayload ==
  ASSUME NEW p, p.kind = "ManifestOk", p.xfer \in U64, p.message \in Seq(Byte),
         NEW buf \in Seq(Byte), NEW off \in Nat
  PROVE  /\ Payload(p) \in Seq(Byte)
         /\ Len(Payload(p)) = W64 + 1 + Len(Short(p.message))
         /\ Lies(Payload(p), buf, off) <=>
              /\ Lies(Put(p.xfer, W64), buf, off)
              /\ Lies(<<IF p.accepted THEN 1 ELSE 0>>, buf, off + W64)
              /\ Lies(Short(p.message), buf, off + (W64 + 1))
<1> DEFINE s == Short(p.message)
           y == <<IF p.accepted THEN 1 ELSE 0>>
           a == Put(p.xfer, W64)
           b == a \o y
           c == b \o s
<1>1. p.xfer \in Nat /\ W64 \in Nat
  BY Uints, Sizes
<1>2. s \in Seq(Byte) /\ Len(s) \in Nat
  BY ShortIs
<1>3. Payload(p) = c
  BY DEF Payload
<1>4. a \in Seq(Byte) /\ Len(a) = W64
  BY <1>1, PutIs
<1>5. y \in Seq(Byte) /\ Len(y) = 1
  BY Bases
<1>6. Joins(b, a, W64, y, 1)
  <2> HIDE DEF a, y
  <2> QED
    BY <1>4, <1>5, JoinsThen
<1>7. b \in Seq(Byte) /\ Len(b) = W64 + 1
  BY <1>6 DEF Joins
<1>8. Joins(c, b, W64 + 1, s, Len(s))
  <2> HIDE DEF b, s
  <2> QED
    BY <1>2, <1>7, JoinsThen
<1> HIDE DEF b, c, s, y
<1> QED
  BY <1>3, <1>6, <1>8 DEF Joins, s, y

LEMMA ChunkPayload ==
  ASSUME NEW p, p.kind = "Chunk", p.xfer \in U64, p.index \in U32, p.data \in Seq(Byte),
         NEW buf \in Seq(Byte), NEW off \in Nat
  PROVE  /\ Payload(p) \in Seq(Byte)
         /\ Len(Payload(p)) = W64 + W32 + Len(Start(p.data, MAX_CHUNK_DATA))
         /\ Lies(Payload(p), buf, off) <=>
              /\ Lies(Put(p.xfer, W64), buf, off)
              /\ Lies(Put(p.index, W32), buf, off + W64)
              /\ Lies(Start(p.data, MAX_CHUNK_DATA), buf, off + (W64 + W32))
<1> DEFINE s == Start(p.data, MAX_CHUNK_DATA)
           a == Put(p.xfer, W64)
           b == a \o Put(p.index, W32)
           c == b \o s
<1>1. p.xfer \in Nat /\ p.index \in Nat /\ W64 \in Nat /\ W32 \in Nat
  BY Uints, Sizes
<1>2. s \in Seq(Byte) /\ Len(s) \in Nat
  BY StartIs, Sizes
<1>3. Payload(p) = c
  BY DEF Payload
<1>4. a \in Seq(Byte) /\ Len(a) = W64
  BY <1>1, PutIs
<1>5. Joins(b, a, W64, Put(p.index, W32), W32)
  <2> HIDE DEF a
  <2> QED
    BY <1>1, <1>4, JoinsPut
<1>6. b \in Seq(Byte) /\ Len(b) = W64 + W32
  BY <1>5 DEF Joins
<1>7. Joins(c, b, W64 + W32, s, Len(s))
  <2> HIDE DEF b, s
  <2> QED
    BY <1>2, <1>6, JoinsThen
<1> HIDE DEF b, c, s
<1> QED
  BY <1>3, <1>5, <1>7 DEF Joins, s

LEMMA StatusPayload ==
  ASSUME NEW p, p.kind = "Status", p.xfer \in U64
  PROVE  /\ Payload(p) \in Seq(Byte) /\ Len(Payload(p)) = W64
         /\ Payload(p) = Put(p.xfer, W64)
<1>1. p.xfer \in Nat /\ W64 \in Nat
  BY Uints, Sizes
<1>2. Payload(p) = Put(p.xfer, W64)
  BY DEF Payload
<1> QED
  BY <1>1, <1>2, PutIs

LEMMA SocialPayload ==
  ASSUME NEW p, p.kind = "Social", p.json \in Seq(Byte)
  PROVE  /\ Payload(p) \in Seq(Byte) /\ Payload(p) = Start(p.json, MaxAppMessage - HEADER_LEN)
<1>1. Payload(p) = Start(p.json, MaxAppMessage - HEADER_LEN)
  BY DEF Payload
<1> QED
  BY <1>1, StartIs, Sizes

LEMMA FlattenRun ==
  ASSUME NEW seqs \in Seq(Seq(Byte)), Len(seqs) # 0
  PROVE  \E f \in [1 .. Len(seqs) -> Seq(Byte)] :
           /\ f[1] = seqs[1] /\ \A k \in 2 .. Len(seqs) : f[k] = f[k - 1] \o seqs[k]
           /\ FlattenSeq(seqs) = f[Len(seqs)]
<1> DEFINE n == Len(seqs)
           step == [x \in (1 .. n - 1) \X Seq(Byte) |-> x[2] \o seqs[x[1] + 1]]
           Is(f) == f = [i \in 1 .. n |-> IF i = 1 THEN seqs[i] ELSE f[i - 1] \o seqs[i]]
           flatten == CHOOSE f : Is(f)
<1>0. n \in Nat /\ n >= 1 /\ \A i \in 1 .. n : seqs[i] \in Seq(Byte)
  OBVIOUS
<1>1. PICK f \in [1 .. n -> Seq(Byte)] :
        f[1] = seqs[1] /\ \A k \in 2 .. n : f[k] = f[k - 1] \o seqs[k]
  <2>1. step \in [(1 .. n - 1) \X Seq(Byte) -> Seq(Byte)]
    <3>1. \A x \in (1 .. n - 1) \X Seq(Byte) : x[2] \o seqs[x[1] + 1] \in Seq(Byte)
      <4> TAKE x \in (1 .. n - 1) \X Seq(Byte)
      <4>1. x[2] \in Seq(Byte) /\ x[1] + 1 \in 1 .. n
        BY <1>0
      <4>2. seqs[x[1] + 1] \in Seq(Byte)
        BY <1>0, <4>1
      <4> QED
        BY <4>1, <4>2, ConcatProperties
    <3> QED
      BY <3>1
  <2>2. n - 1 \in Nat /\ seqs[1] \in Seq(Byte)
    BY <1>0
  <2> HIDE DEF step, n
  <2>3. PICK g : Runs(g, Seq(Byte), seqs[1], step, n - 1)
    BY <2>1, <2>2, RunExists
  <2>4. /\ g \in [0 .. n - 1 -> Seq(Byte)] /\ g[0] = seqs[1]
        /\ \A k \in 1 .. n - 1 : g[k - 1] \in Seq(Byte) /\ g[k] = step[<<k, g[k - 1]>>]
    BY <2>3 DEF Runs
  <2> DEFINE f == [i \in 1 .. n |-> g[i - 1]]
  <2>5. f \in [1 .. n -> Seq(Byte)]
    BY <1>0, <2>4
  <2>6. f[1] = seqs[1]
    BY <1>0, <2>4
  <2>7. ASSUME NEW k \in 2 .. n
        PROVE  f[k] = f[k - 1] \o seqs[k]
    <3>1. k - 1 \in 1 .. n - 1 /\ k - 1 \in 1 .. n /\ (k - 1) + 1 = k
      BY <1>0
    <3>2. g[k - 1] = step[<<k - 1, g[(k - 1) - 1]>>] /\ g[(k - 1) - 1] \in Seq(Byte)
      BY <2>4, <3>1
    <3>3. step[<<k - 1, g[(k - 1) - 1]>>] = g[(k - 1) - 1] \o seqs[k]
      BY <3>1, <3>2 DEF step
    <3>4. f[k] = g[k - 1] /\ f[k - 1] = g[(k - 1) - 1]
      BY <3>1
    <3> HIDE DEF f
    <3> QED
      BY <3>2, <3>3, <3>4
  <2> HIDE DEF f
  <2> QED
    BY <2>5, <2>6, <2>7
<1>2. Is(f)
  <2>1. f = [i \in 1 .. n |-> f[i]]
    OBVIOUS
  <2>2. \A i \in 1 .. n : f[i] = IF i = 1 THEN seqs[i] ELSE f[i - 1] \o seqs[i]
    <3> TAKE i \in 1 .. n
    <3>1. i = 1 \/ i \in 2 .. n
      BY <1>0
    <3> QED
      BY <1>1, <3>1
  <2> HIDE DEF n
  <2> QED
    BY <2>1, <2>2
<1>3. Is(flatten)
  BY <1>2
<1>4. FlattenSeq(seqs) = flatten[n]
  BY Zenon DEF FlattenSeq
<1> HIDE DEF flatten
<1>5. flatten[1] = seqs[1] /\ \A k \in 2 .. n : flatten[k] = flatten[k - 1] \o seqs[k]
  <2>1. \A i \in 1 .. n : flatten[i] = IF i = 1 THEN seqs[i] ELSE flatten[i - 1] \o seqs[i]
    BY <1>3, Zenon
  <2>2. 1 \in 1 .. n /\ \A k \in 2 .. n : k \in 1 .. n /\ k # 1
    BY <1>0
  <2> HIDE DEF n
  <2> QED
    BY <2>1, <2>2
<1> DEFINE T == {k \in 0 .. n : k = 0 \/ flatten[k] \in Seq(Byte)}
<1>6. 0 \in T
  BY <1>0
<1>7. ASSUME NEW k \in 1 .. n, k - 1 \in T
      PROVE  k \in T
  <2>1. CASE k = 1
    BY <1>0, <1>5, <2>1
  <2>2. CASE k # 1
    <3>1. k \in 2 .. n /\ flatten[k - 1] \in Seq(Byte) /\ seqs[k] \in Seq(Byte)
      BY <1>0, <1>7, <2>2
    <3>2. flatten[k] = flatten[k - 1] \o seqs[k]
      BY <1>5, <3>1
    <3>3. flatten[k] \in Seq(Byte)
      BY <3>1, <3>2, ConcatProperties
    <3> QED
      BY <3>3
  <2> QED
    BY <2>1, <2>2
<1>8. \A k \in 0 .. n : k \in T
  <2> HIDE DEF T
  <2> QED
    BY <1>0, <1>6, <1>7, Induction
<1>9. \A k \in 1 .. n : flatten[k] \in Seq(Byte)
  BY <1>8
<1>10. flatten \in [1 .. n -> Seq(Byte)]
  <2> HIDE DEF T
  <2> QED
    BY <1>3, <1>9
<1> QED
  BY <1>4, <1>5, <1>10

\* What is strung together lies where its parts lie, each behind the ones before it.
LEMMA FlattenIs ==
  ASSUME NEW seqs \in Seq(Seq(Byte)), NEW at \in [0 .. Len(seqs) -> Nat], at[0] = 0,
         \A k \in 1 .. Len(seqs) : at[k] = at[k - 1] + Len(seqs[k]),
         NEW buf \in Seq(Byte), NEW off \in Nat
  PROVE  /\ FlattenSeq(seqs) \in Seq(Byte) /\ Len(FlattenSeq(seqs)) = at[Len(seqs)]
         /\ Lies(FlattenSeq(seqs), buf, off) <=>
              /\ off <= Len(buf)
              /\ \A k \in 1 .. Len(seqs) : Lies(seqs[k], buf, off + at[k - 1])
<1> DEFINE n == Len(seqs)
<1>0. n \in Nat /\ \A i \in 1 .. n : seqs[i] \in Seq(Byte) /\ Len(seqs[i]) \in Nat
  OBVIOUS
<1>1. CASE n = 0
  <2>1. FlattenSeq(seqs) = << >>
    <3>1. FlattenSeq(seqs) = seqs
      BY <1>1, Zenon DEF FlattenSeq
    <3> QED
      BY <1>1, <3>1
  <2>2. Lies(<< >>, buf, off) <=> off <= Len(buf)
    BY DEF Lies
  <2> QED
    BY <1>1, <2>1, <2>2
<1>2. CASE n # 0
  <2>1. PICK f \in [1 .. n -> Seq(Byte)] :
          /\ f[1] = seqs[1] /\ \A k \in 2 .. n : f[k] = f[k - 1] \o seqs[k]
          /\ FlattenSeq(seqs) = f[n]
    BY <1>2, FlattenRun
  <2> DEFINE Parts(k) == \A i \in 1 .. k : Lies(seqs[i], buf, off + at[i - 1])
             T == {k \in 0 .. n : k = 0 \/ /\ Len(f[k]) = at[k]
                                           /\ Lies(f[k], buf, off) <=> off <= Len(buf) /\ Parts(k)}
  <2>2. 0 \in T
    BY <1>0
  <2>3. ASSUME NEW k \in 1 .. n, k - 1 \in T
        PROVE  k \in T
    <3>1. CASE k = 1
      <4>1. Lies(seqs[1], buf, off) => off <= Len(buf)
        BY <1>0, <3>1 DEF Lies
      <4>2. at[1] = Len(seqs[1]) /\ off + at[0] = off
        BY <1>0, <3>1
      <4>3. Parts(1) <=> Lies(seqs[1], buf, off + at[0])
        OBVIOUS
      <4> HIDE DEF Parts
      <4> QED
        BY <2>1, <3>1, <4>1, <4>2, <4>3
    <3>2. CASE k # 1
      <4>1. /\ k \in 2 .. n /\ k - 1 \in 1 .. n /\ f[k - 1] \in Seq(Byte) /\ seqs[k] \in Seq(Byte)
            /\ at[k - 1] \in Nat
        <5>1. k \in 2 .. n /\ k - 1 \in 1 .. n /\ k - 1 \in 0 .. n
          BY <1>0, <3>2
        <5>2. f[k - 1] \in Seq(Byte)
          BY <2>1, <5>1
        <5>3. at[k - 1] \in Nat
          BY <5>1
        <5> QED
          BY <1>0, <5>1, <5>2, <5>3
      <4>2. /\ Len(f[k - 1]) = at[k - 1]
            /\ Lies(f[k - 1], buf, off) <=> off <= Len(buf) /\ Parts(k - 1)
        BY <2>3, <3>2
      <4>3. f[k] = f[k - 1] \o seqs[k]
        BY <2>1, <4>1
      <4>4. Joins(f[k], f[k - 1], at[k - 1], seqs[k], Len(seqs[k]))
        BY <4>1, <4>2, <4>3, JoinsThen
      <4>5. Parts(k) <=> Parts(k - 1) /\ Lies(seqs[k], buf, off + at[k - 1])
        <5>1. \A i \in 1 .. k : i \in 1 .. k - 1 \/ i = k
          OBVIOUS
        <5>2. \A i \in 1 .. k - 1 : i \in 1 .. k
          OBVIOUS
        <5>3. k \in 1 .. k
          OBVIOUS
        <5> QED
          BY <5>1, <5>2, <5>3
      <4> HIDE DEF Parts
      <4>6. Len(f[k]) = at[k]
        BY <4>4 DEF Joins
      <4>7. Lies(f[k], buf, off) <=> off <= Len(buf) /\ Parts(k)
        BY <4>2, <4>4, <4>5 DEF Joins
      <4> QED
        BY <4>6, <4>7
    <3> QED
      BY <3>1, <3>2
  <2>4. n \in T
    <3>1. \A k \in 0 .. n : k \in T
      <4> HIDE DEF T
      <4> QED
        BY <1>0, <2>2, <2>3, Induction
    <3> HIDE DEF T
    <3> QED
      BY <1>0, <3>1
  <2>5. /\ Len(f[n]) = at[n]
        /\ Lies(f[n], buf, off) <=> off <= Len(buf) /\ Parts(n)
    BY <1>2, <2>4
  <2>6. f[n] \in Seq(Byte)
    <3>1. n \in 1 .. n
      BY <1>0, <1>2
    <3> QED
      BY <2>1, <3>1
  <2> HIDE DEF T
  <2> QED
    BY <2>1, <2>5, <2>6
<1> QED
  BY <1>1, <1>2

LEMMA ReplyPayload ==
  ASSUME NEW p, p.kind = "StatusReply", p.xfer \in U64, p.state \in Byte,
         p.missing_total \in U32, p.missing \in Seq(U32), NEW n, n = Len(Listed(p)),
         NEW buf \in Seq(Byte), NEW off \in Nat
  PROVE  /\ Payload(p) \in Seq(Byte)
         /\ Len(Payload(p)) = W64 + 1 + 2 * W32 + n * W32
         /\ n \in Nat /\ n <= MAX_MISSING_LISTED
         /\ Lies(Payload(p), buf, off) <=>
              /\ Lies(Put(p.xfer, W64), buf, off)
              /\ Lies(<<p.state>>, buf, off + W64)
              /\ Lies(Put(p.missing_total, W32), buf, off + (W64 + 1))
              /\ Lies(Put(n, W32), buf, off + (W64 + 1 + W32))
              /\ off + (W64 + 1 + 2 * W32) <= Len(buf)
              /\ \A i \in 1 .. n :
                   Lies(Put(p.missing[i], W32), buf, off + (W64 + 1 + 2 * W32) + (i - 1) * W32)
<1>1. p.xfer \in Nat /\ p.missing_total \in Nat /\ W64 \in Nat /\ W32 \in Nat
  BY Uints, Sizes
<1>2. /\ Listed(p) \in Seq(U32) /\ n \in Nat /\ n <= MAX_MISSING_LISTED
      /\ DOMAIN Listed(p) = 1 .. n /\ n <= Len(p.missing)
  <2>1. /\ Listed(p) \in Seq(U32)
        /\ Len(Listed(p)) =
             IF Len(p.missing) < MAX_MISSING_LISTED THEN Len(p.missing) ELSE MAX_MISSING_LISTED
    <3>1. MAX_MISSING_LISTED \in Nat
      BY Sizes
    <3> QED
      BY <3>1, StartIs DEF Listed
  <2>2. MAX_MISSING_LISTED \in Nat /\ Len(p.missing) \in Nat
    BY Sizes
  <2> QED
    BY <2>1, <2>2
<1>3. \A i \in 1 .. n : p.missing[i] \in Nat
  <2>1. \A i \in 1 .. n : i \in 1 .. Len(p.missing)
    BY <1>2
  <2>2. \A i \in 1 .. Len(p.missing) : p.missing[i] \in U32
    OBVIOUS
  <2> QED
    BY <2>1, <2>2, Uints
<1> DEFINE seqs == [i \in 1 .. n |-> Put(p.missing[i], W32)]
           at == [i \in 0 .. n |-> i * W32]
           s == FlattenSeq(seqs)
           y == <<p.state>>
           a == Put(p.xfer, W64)
           b == a \o y
           c == b \o Put(p.missing_total, W32)
           d == c \o Put(n, W32)
           e == d \o s
<1>4. Payload(p) = e
  <2>1. Payload(p) = Put(p.xfer, W64) \o <<p.state>> \o Put(p.missing_total, W32)
                     \o Put(Len(Listed(p)), W32)
                     \o FlattenSeq([i \in DOMAIN Listed(p) |-> Put(p.missing[i], W32)])
    BY DEF Payload
  <2> QED
    BY <1>2, <2>1
<1>5. /\ s \in Seq(Byte) /\ Len(s) = n * W32
      /\ \A o \in Nat : Lies(s, buf, o) <=>
           /\ o <= Len(buf)
           /\ \A i \in 1 .. n : Lies(Put(p.missing[i], W32), buf, o + (i - 1) * W32)
  <2>1. /\ seqs \in Seq(Seq(Byte)) /\ Len(seqs) = n
        /\ \A i \in 1 .. n : Len(seqs[i]) = W32 /\ seqs[i] = Put(p.missing[i], W32)
    <3>1. \A i \in 1 .. n : Put(p.missing[i], W32) \in Seq(Byte) /\ Len(Put(p.missing[i], W32)) = W32
      BY <1>1, <1>3, PutIs
    <3> QED
      BY <1>2, <3>1
  <2>2. \A i \in 0 .. n : i * W32 \in Nat
    BY <1>1, <1>2
  <2>3. at \in [0 .. n -> Nat] /\ at[0] = 0 /\ at[n] = n * W32
    BY <1>1, <1>2, <2>2
  <2>4. ASSUME NEW k \in 1 .. n
        PROVE  at[k] = at[k - 1] + W32 /\ at[k - 1] = (k - 1) * W32
    <3>1. k * W32 = (k - 1) * W32 + W32
      BY <1>1, <1>2
    <3>2. at[k] = k * W32 /\ at[k - 1] = (k - 1) * W32
      BY <1>2
    <3> QED
      BY <3>1, <3>2
  <2> HIDE DEF seqs, at
  <2>5. at \in [0 .. Len(seqs) -> Nat] /\ \A k \in 1 .. Len(seqs) : at[k] = at[k - 1] + Len(seqs[k])
    BY <2>1, <2>3, <2>4
  <2>6. s \in Seq(Byte) /\ Len(s) = n * W32
    <3>1. 0 \in Nat
      OBVIOUS
    <3> QED
      BY <2>1, <2>3, <2>5, <3>1, FlattenIs
  <2>7. ASSUME NEW o \in Nat
        PROVE  Lies(s, buf, o) <=>
                 /\ o <= Len(buf)
                 /\ \A i \in 1 .. n : Lies(Put(p.missing[i], W32), buf, o + (i - 1) * W32)
    <3>1. Lies(s, buf, o) <=>
            o <= Len(buf) /\ \A k \in 1 .. Len(seqs) : Lies(seqs[k], buf, o + at[k - 1])
      BY <2>1, <2>3, <2>5, FlattenIs
    <3>2. \A k \in 1 .. n : Lies(seqs[k], buf, o + at[k - 1]) <=>
                              Lies(Put(p.missing[k], W32), buf, o + (k - 1) * W32)
      BY <2>1, <2>4
    <3> HIDE DEF s
    <3> QED
      BY <2>1, <3>1, <3>2
  <2> QED
    BY <2>6, <2>7
<1>6. a \in Seq(Byte) /\ Len(a) = W64
  BY <1>1, PutIs
<1>7. y \in Seq(Byte) /\ Len(y) = 1
  OBVIOUS
<1>8. Joins(b, a, W64, y, 1)
  <2> HIDE DEF a, y
  <2> QED
    BY <1>6, <1>7, JoinsThen
<1>9. b \in Seq(Byte) /\ Len(b) = W64 + 1
  BY <1>8 DEF Joins
<1>10. Joins(c, b, W64 + 1, Put(p.missing_total, W32), W32)
  <2> HIDE DEF b
  <2> QED
    BY <1>1, <1>9, JoinsPut
<1>11. c \in Seq(Byte) /\ Len(c) = W64 + 1 + W32
  BY <1>10 DEF Joins
<1>12. Joins(d, c, W64 + 1 + W32, Put(n, W32), W32)
  <2> HIDE DEF c
  <2> QED
    BY <1>1, <1>2, <1>11, JoinsPut
<1>13. d \in Seq(Byte) /\ Len(d) = W64 + 1 + 2 * W32
  BY <1>1, <1>12 DEF Joins
<1>14. Joins(e, d, W64 + 1 + 2 * W32, s, n * W32)
  <2> HIDE DEF d, s
  <2> QED
    BY <1>5, <1>13, JoinsThen
<1> HIDE DEF b, c, d, e, s, y
<1>15. Len(e) = W64 + 1 + 2 * W32 + n * W32 /\ e \in Seq(Byte)
  BY <1>14 DEF Joins
<1>16. /\ Lies(e, buf, off) <=> Lies(d, buf, off) /\ Lies(s, buf, off + (W64 + 1 + 2 * W32))
       /\ Lies(d, buf, off) <=> Lies(c, buf, off) /\ Lies(Put(n, W32), buf, off + (W64 + 1 + W32))
       /\ Lies(c, buf, off) <=>
            Lies(b, buf, off) /\ Lies(Put(p.missing_total, W32), buf, off + (W64 + 1))
       /\ Lies(b, buf, off) <=> Lies(a, buf, off) /\ Lies(y, buf, off + W64)
  BY <1>8, <1>10, <1>12, <1>14 DEF Joins
<1>17. off + (W64 + 1 + 2 * W32) \in Nat
  BY <1>1
<1> QED
  BY <1>2, <1>4, <1>5, <1>15, <1>16, <1>17 DEF y

\* Where each of the first n blobs starts, and where the last of them ends.
Offsets(at, blobs, n) ==
  /\ at \in [0 .. n -> Nat] /\ at[0] = 0
  /\ \A k \in 1 .. n : at[k] = at[k - 1] + Len(Short(blobs[k]))

LEMMA BlobOffsets ==
  ASSUME NEW blobs \in Seq(Seq(Byte)), NEW n \in Nat, n <= Len(blobs)
  PROVE  \E at : Offsets(at, blobs, n)
<1> DEFINE step == [x \in (1 .. n) \X Nat |-> x[2] + Len(Short(blobs[x[1]]))]
<1>1. step \in [(1 .. n) \X Nat -> Nat]
  <2>1. \A x \in (1 .. n) \X Nat : x[2] + Len(Short(blobs[x[1]])) \in Nat
    <3> TAKE x \in (1 .. n) \X Nat
    <3>1. x[2] \in Nat /\ blobs[x[1]] \in Seq(Byte)
      OBVIOUS
    <3>2. Short(blobs[x[1]]) \in Seq(Byte)
      BY <3>1, ShortIs
    <3> QED
      BY <3>1, <3>2
  <2> QED
    BY <2>1
<1> HIDE DEF step
<1>2. PICK f : Runs(f, Nat, 0, step, n)
  BY <1>1, RunExists
<1>3. /\ f \in [0 .. n -> Nat] /\ f[0] = 0
      /\ \A k \in 1 .. n : f[k - 1] \in Nat /\ f[k] = step[<<k, f[k - 1]>>]
  BY <1>2 DEF Runs
<1>4. \A k \in 1 .. n : f[k] = f[k - 1] + Len(Short(blobs[k]))
  BY <1>3 DEF step
<1> QED
  BY <1>3, <1>4 DEF Offsets

LEMMA RoutesPayload ==
  ASSUME NEW p, p.kind = "Routes", p.blobs \in Seq(Seq(Byte)),
         NEW n, n = Len(Start(p.blobs, U16Max)),
         NEW at, Offsets(at, p.blobs, n), NEW buf \in Seq(Byte), NEW off \in Nat
  PROVE  /\ Payload(p) \in Seq(Byte) /\ Len(Payload(p)) = W16 + at[n]
         /\ Lies(Payload(p), buf, off) <=>
              /\ Lies(Put(n, W16), buf, off) /\ off + W16 <= Len(buf)
              /\ \A k \in 1 .. n : Lies(Short(p.blobs[k]), buf, off + W16 + at[k - 1])
<1>0. /\ at \in [0 .. n -> Nat] /\ at[0] = 0
      /\ \A k \in 1 .. n : at[k] = at[k - 1] + Len(Short(p.blobs[k]))
  BY DEF Offsets
<1>1. /\ W16 \in Nat /\ n \in Nat /\ n <= Len(p.blobs)
  <2>1. U16Max \in Nat /\ Len(p.blobs) \in Nat
    BY Sizes
  <2>2. n = IF Len(p.blobs) < U16Max THEN Len(p.blobs) ELSE U16Max
    BY <2>1, StartIs
  <2> QED
    BY <2>1, <2>2, Sizes
<1> DEFINE seqs == [i \in 1 .. n |-> Short(p.blobs[i])]
           a == Put(n, W16)
           s == FlattenSeq(seqs)
           b == a \o s
<1>2. Payload(p) = b
  <2>1. Payload(p) = LET m == Len(Start(p.blobs, U16Max))
                     IN  Put(m, W16) \o FlattenSeq([i \in 1 .. m |-> Short(p.blobs[i])])
    BY DEF Payload
  <2> QED
    BY <2>1
<1>3. /\ seqs \in Seq(Seq(Byte)) /\ Len(seqs) = n
      /\ \A k \in 1 .. n : seqs[k] = Short(p.blobs[k])
  <2>1. \A i \in 1 .. n : Short(p.blobs[i]) \in Seq(Byte)
    <3> TAKE i \in 1 .. n
    <3>1. p.blobs[i] \in Seq(Byte)
      BY <1>1
    <3> QED
      BY <3>1, ShortIs
  <2> QED
    BY <1>1, <2>1
<1> HIDE DEF seqs
<1>4. /\ s \in Seq(Byte) /\ Len(s) = at[n]
      /\ Lies(s, buf, off + W16) <=>
           /\ off + W16 <= Len(buf)
           /\ \A k \in 1 .. n : Lies(Short(p.blobs[k]), buf, off + W16 + at[k - 1])
  <2>1. off + W16 \in Nat
    BY <1>1
  <2>2. /\ at \in [0 .. Len(seqs) -> Nat]
        /\ \A k \in 1 .. Len(seqs) : at[k] = at[k - 1] + Len(seqs[k])
    BY <1>0, <1>3
  <2>3. /\ s \in Seq(Byte) /\ Len(s) = at[Len(seqs)]
        /\ Lies(s, buf, off + W16) <=>
             /\ off + W16 <= Len(buf)
             /\ \A k \in 1 .. Len(seqs) : Lies(seqs[k], buf, off + W16 + at[k - 1])
    BY <1>0, <1>3, <2>1, <2>2, FlattenIs
  <2> HIDE DEF s
  <2> QED
    BY <1>3, <2>3
<1>5. a \in Seq(Byte) /\ Len(a) = W16
  BY <1>1, PutIs
<1>6. Joins(b, a, W16, s, at[n])
  <2> HIDE DEF a, s
  <2> QED
    BY <1>4, <1>5, JoinsThen
<1> HIDE DEF b, s
<1> QED
  BY <1>2, <1>4, <1>6 DEF Joins

Blobs == [ok : BOOLEAN, off : Nat, blobs : Seq(Seq(Byte))]

LEMMA NextBlobIs ==
  ASSUME NEW buf \in Seq(Byte), NEW r \in Blobs
  PROVE  /\ NextBlob(buf, r) \in Blobs
         /\ NextBlob(buf, r).ok => r.ok /\ HasShort(buf, r.off)
         /\ r.ok /\ HasShort(buf, r.off) =>
              /\ NextBlob(buf, r).ok
              /\ NextBlob(buf, r).off = r.off + W16 + Get(buf, r.off, W16)
              /\ NextBlob(buf, r).blobs = Append(r.blobs, ShortAt(buf, r.off))
<1>1. /\ r.ok \in BOOLEAN /\ r.off \in Nat /\ r.blobs \in Seq(Seq(Byte)) /\ W16 \in Nat
      /\ r = [ok |-> r.ok, off |-> r.off, blobs |-> r.blobs]
  BY Sizes DEF Blobs
<1>2. CASE r.ok /\ HasShort(buf, r.off)
  <2> DEFINE g == Get(buf, r.off, W16)
             s == ShortAt(buf, r.off)
  <2>1. g \in Nat /\ s \in Seq(Byte)
    BY <1>1, <1>2, ShortThere
  <2>2. NextBlob(buf, r) = [ok |-> r.ok, off |-> r.off + W16 + g, blobs |-> Append(r.blobs, s)]
    <3>1. NextBlob(buf, r) = [r EXCEPT !.off = @ + W16 + Get(buf, @, W16),
                                       !.blobs = Append(@, ShortAt(buf, r.off))]
      BY <1>2 DEF NextBlob
    <3> QED
      BY <1>1, <3>1
  <2> HIDE DEF g, s
  <2>3. Append(r.blobs, s) \in Seq(Seq(Byte)) /\ r.off + W16 + g \in Nat
    BY <1>1, <2>1
  <2> QED
    BY <1>1, <1>2, <2>2, <2>3 DEF g, s, Blobs
<1>3. CASE ~ (r.ok /\ HasShort(buf, r.off))
  <2>1. NextBlob(buf, r) = [ok |-> FALSE, off |-> r.off, blobs |-> r.blobs]
    <3>1. NextBlob(buf, r) = [r EXCEPT !.ok = FALSE]
      BY <1>3 DEF NextBlob
    <3> QED
      BY <1>1, <3>1
  <2> QED
    BY <1>1, <1>3, <2>1 DEF Blobs
<1> QED
  BY <1>2, <1>3

LEMMA BlobsRun ==
  ASSUME NEW buf \in Seq(Byte), NEW n \in Nat, n = Get(buf, HEADER_LEN, W16)
  PROVE  \E after \in [0 .. n -> Blobs] :
           /\ after[0] = [ok |-> TRUE, off |-> HEADER_LEN + W16, blobs |-> << >>]
           /\ \A k \in 1 .. n : after[k] = NextBlob(buf, after[k - 1])
           /\ ReadBlobs(buf) = after[n]
<1> DEFINE first == [ok |-> TRUE, off |-> HEADER_LEN + W16, blobs |-> << >>]
           step == [x \in (1 .. n) \X Blobs |-> NextBlob(buf, x[2])]
           Is(f) == f = [k \in 0 .. n |-> IF k = 0 THEN first ELSE NextBlob(buf, f[k - 1])]
           after == CHOOSE f : Is(f)
<1>0. first \in Blobs
  BY Sizes DEF Blobs
<1>1. \E f : Is(f)
  <2>1. step \in [(1 .. n) \X Blobs -> Blobs]
    <3>1. \A x \in (1 .. n) \X Blobs : NextBlob(buf, x[2]) \in Blobs
      BY NextBlobIs
    <3> QED
      BY <3>1
  <2> HIDE DEF step, first
  <2>2. PICK f : Runs(f, Blobs, first, step, n)
    BY <1>0, <2>1, RunExists
  <2>3. /\ f \in [0 .. n -> Blobs] /\ f[0] = first
        /\ \A k \in 1 .. n : f[k - 1] \in Blobs /\ f[k] = step[<<k, f[k - 1]>>]
    BY <2>2 DEF Runs
  <2>4. ASSUME NEW k \in 1 .. n
        PROVE  f[k] = NextBlob(buf, f[k - 1])
    BY <2>3 DEF step
  <2>5. Is(f)
    BY <2>3, <2>4
  <2> QED
    BY <2>5
<1>2. Is(after)
  BY <1>1
<1>3. ReadBlobs(buf) = after[n]
  BY Zenon DEF ReadBlobs
<1> HIDE DEF after, first
<1>4. after[0] = first /\ \A k \in 1 .. n : after[k] = NextBlob(buf, after[k - 1])
  BY <1>2
<1> DEFINE T == {k \in 0 .. n : after[k] \in Blobs}
<1>5. 0 \in T /\ \A k \in 1 .. n : k - 1 \in T => k \in T
  BY <1>0, <1>4, NextBlobIs
<1>6. \A k \in 0 .. n : k \in T
  <2> HIDE DEF T
  <2> QED
    BY <1>5, Induction
<1>7. after \in [0 .. n -> Blobs]
  BY <1>2, <1>6
<1> QED
  BY <1>3, <1>4, <1>7 DEF first

-----------------------------------------------------------------------------
(* What is read of a beginning of a packet's bytes.                        *)

\* The bytes of p, and a beginning of them that is as long as those of its kind are
\* at the least.
Begins(buf, e, p) ==
  /\ e \in Seq(Byte) /\ buf \in Seq(Byte) /\ Lies(buf, e, 0)
  /\ Lies(Payload(p), e, HEADER_LEN)
  /\ Len(buf) >= MinLen[p.kind]

\* All of the packet is there, and can be counted.
Ends(buf, p) == HEADER_LEN + Len(Payload(p)) <= Len(buf) /\ Len(buf) <= UsizeMax

LEMMA LensAre ==
  /\ MinLen.Hello = HEADER_LEN + W64 /\ MinLen.Probe = HEADER_LEN + 2 * W64
  /\ MinLen.Echo = HEADER_LEN + 4 * W64
  /\ MinLen.Manifest = HEADER_LEN + (2 * W64 + 3 * W32)
  /\ MinLen.ManifestOk = HEADER_LEN + (W64 + 1)
  /\ MinLen.Chunk = HEADER_LEN + (W64 + W32)
  /\ MinLen.Status = HEADER_LEN + W64
  /\ MinLen.StatusReply = HEADER_LEN + (W64 + 1 + 2 * W32)
  /\ MinLen.Routes = HEADER_LEN + W16 /\ MinLen.Social = HEADER_LEN
  /\ MinLen["Hello"] = MinLen.Hello /\ MinLen["Probe"] = MinLen.Probe
BY Limits DEF MinLen, PROBE_LEN, ECHO_LEN, CHUNK_HEADER_LEN, STATUS_REPLY_HEADER_LEN

LEMMA ProbeBack ==
  ASSUME NEW p \in [kind : {"Probe"}, seq : U64, t0 : U64], NEW e, NEW buf, Begins(buf, e, p)
  PROVE  Payload(p) \in Seq(Byte) /\ Read("Probe", buf) = p
<1>1. /\ p.kind = "Probe" /\ p.seq \in U64 /\ p.t0 \in U64
      /\ p.seq \in 0 .. Power(W64) - 1 /\ p.t0 \in 0 .. Power(W64) - 1
      /\ W64 \in Nat /\ HEADER_LEN \in Nat /\ HEADER_LEN + W64 \in Nat
  BY Uints, Sizes
<1>2. /\ e \in Seq(Byte) /\ buf \in Seq(Byte) /\ Lies(buf, e, 0) /\ Len(buf) \in Nat
      /\ Lies(Payload(p), e, HEADER_LEN) /\ Len(buf) >= HEADER_LEN + 2 * W64
  BY <1>1, LensAre DEF Begins
<1>3. /\ Payload(p) \in Seq(Byte) /\ Lies(Put(p.seq, W64), e, HEADER_LEN)
      /\ Lies(Put(p.t0, W64), e, HEADER_LEN + W64)
  BY <1>1, <1>2, ProbePayload
<1>4. HEADER_LEN + W64 <= Len(buf) /\ HEADER_LEN + W64 + W64 <= Len(buf) /\ HEADER_LEN + 0 = HEADER_LEN
  BY <1>1, <1>2
<1>5. Get(buf, HEADER_LEN, W64) = p.seq
  BY <1>1, <1>2, <1>3, <1>4, FieldIs
<1>6. Get(buf, HEADER_LEN + W64, W64) = p.t0
  BY <1>1, <1>2, <1>3, <1>4, FieldIs
<1>7. Read("Probe", buf) = [kind |-> "Probe", seq |-> Get(buf, HEADER_LEN + 0, W64),
                            t0 |-> Get(buf, HEADER_LEN + W64, W64)]
  BY DEF Read
<1>8. Read("Probe", buf) = [kind |-> "Probe", seq |-> p.seq, t0 |-> p.t0]
  BY <1>4, <1>5, <1>6, <1>7
<1>9. p = [kind |-> "Probe", seq |-> p.seq, t0 |-> p.t0]
  OBVIOUS
<1> QED
  BY <1>3, <1>8, <1>9

LEMMA EchoBack ==
  ASSUME NEW p \in [kind : {"Echo"}, seq : U64, t0 : U64, t1 : U64, t2 : U64],
         NEW e, NEW buf, Begins(buf, e, p)
  PROVE  Payload(p) \in Seq(Byte) /\ Read("Echo", buf) = p
<1>1. /\ p.kind = "Echo" /\ p.seq \in U64 /\ p.t0 \in U64 /\ p.t1 \in U64 /\ p.t2 \in U64
      /\ p.seq \in 0 .. Power(W64) - 1 /\ p.t0 \in 0 .. Power(W64) - 1
      /\ p.t1 \in 0 .. Power(W64) - 1 /\ p.t2 \in 0 .. Power(W64) - 1
      /\ W64 \in Nat /\ HEADER_LEN \in Nat
  BY Uints, Sizes
<1>2. /\ e \in Seq(Byte) /\ buf \in Seq(Byte) /\ Lies(buf, e, 0) /\ Len(buf) \in Nat
      /\ Lies(Payload(p), e, HEADER_LEN) /\ Len(buf) >= HEADER_LEN + 4 * W64
  BY <1>1, LensAre DEF Begins, MinLen
<1>3. /\ Payload(p) \in Seq(Byte) /\ Lies(Put(p.seq, W64), e, HEADER_LEN)
      /\ Lies(Put(p.t0, W64), e, HEADER_LEN + W64)
      /\ Lies(Put(p.t1, W64), e, HEADER_LEN + (W64 + W64))
      /\ Lies(Put(p.t2, W64), e, HEADER_LEN + (W64 + W64 + W64))
  BY <1>1, <1>2, EchoPayload
<1>4. /\ HEADER_LEN + 0 = HEADER_LEN /\ HEADER_LEN + W64 <= Len(buf)
      /\ HEADER_LEN + W64 \in Nat /\ HEADER_LEN + W64 + W64 <= Len(buf)
      /\ HEADER_LEN + (W64 + W64) = HEADER_LEN + 2 * W64
      /\ HEADER_LEN + 2 * W64 \in Nat /\ HEADER_LEN + 2 * W64 + W64 <= Len(buf)
      /\ HEADER_LEN + (W64 + W64 + W64) = HEADER_LEN + 3 * W64
      /\ HEADER_LEN + 3 * W64 \in Nat /\ HEADER_LEN + 3 * W64 + W64 <= Len(buf)
  BY <1>1, <1>2
<1>5. Get(buf, HEADER_LEN + 0, W64) = p.seq
  BY <1>1, <1>2, <1>3, <1>4, FieldIs
<1>6. Get(buf, HEADER_LEN + W64, W64) = p.t0
  BY <1>1, <1>2, <1>3, <1>4, FieldIs
<1>7. Get(buf, HEADER_LEN + 2 * W64, W64) = p.t1
  <2>1. Lies(Put(p.t1, W64), e, HEADER_LEN + 2 * W64)
    BY <1>3, <1>4
  <2> QED
    BY <1>1, <1>2, <1>4, <2>1, FieldIs
<1>8. Get(buf, HEADER_LEN + 3 * W64, W64) = p.t2
  <2>1. Lies(Put(p.t2, W64), e, HEADER_LEN + 3 * W64)
    BY <1>3, <1>4
  <2> QED
    BY <1>1, <1>2, <1>4, <2>1, FieldIs
<1>9. Read("Echo", buf) =
        [kind |-> "Echo", seq |-> Get(buf, HEADER_LEN + 0, W64),
         t0 |-> Get(buf, HEADER_LEN + W64, W64), t1 |-> Get(buf, HEADER_LEN + 2 * W64, W64),
         t2 |-> Get(buf, HEADER_LEN + 3 * W64, W64)]
  BY DEF Read
<1>10. p = [kind |-> "Echo", seq |-> p.seq, t0 |-> p.t0, t1 |-> p.t1, t2 |-> p.t2]
  OBVIOUS
<1> QED
  BY <1>3, <1>5, <1>6, <1>7, <1>8, <1>9, <1>10

LEMMA HelloBack ==
  ASSUME NEW p \in [kind : {"Hello"}, return_route : Seq(Byte)], Len(p.return_route) <= UsizeMax,
         NEW e, NEW buf, Begins(buf, e, p)
  PROVE  /\ Payload(p) \in Seq(Byte)
         /\ Whole("Hello", buf) => Read("Hello", buf) = p
         /\ Ends(buf, p) => Whole("Hello", buf)
<1> DEFINE s == p.return_route
<1>1. /\ p.kind = "Hello" /\ s \in Seq(Byte) /\ Len(s) \in 0 .. Power(W64) - 1
      /\ W64 \in Nat /\ HEADER_LEN \in Nat /\ HEADER_LEN + W64 \in Nat
      /\ HEADER_LEN + 0 = HEADER_LEN /\ MinLen.Hello = HEADER_LEN + W64
  <2>1. p.kind = "Hello" /\ s \in Seq(Byte) /\ Len(s) \in Nat /\ Len(s) <= UsizeMax
    OBVIOUS
  <2> HIDE DEF s
  <2>2. Len(s) \in 0 .. Power(W64) - 1
    <3>1. UsizeMax \in Nat /\ UsizeMax = Power(W64) - 1
      BY Limits
    <3> QED
      BY <2>1, <3>1
  <2>3. MinLen.Hello = HEADER_LEN + W64
    BY LensAre
  <2>4. W64 \in Nat /\ HEADER_LEN \in Nat
    BY Sizes
  <2> QED
    BY <2>1, <2>2, <2>3, <2>4
<1>2. /\ e \in Seq(Byte) /\ buf \in Seq(Byte) /\ Lies(buf, e, 0) /\ Len(buf) \in Nat
      /\ Lies(Payload(p), e, HEADER_LEN) /\ Len(buf) >= HEADER_LEN + W64
  BY <1>1, LensAre DEF Begins
<1>3. /\ Payload(p) \in Seq(Byte) /\ Len(Payload(p)) = W64 + Len(s)
      /\ Lies(Put(Len(s), W64), e, HEADER_LEN) /\ Lies(s, e, HEADER_LEN + W64)
  BY <1>1, <1>2, HelloPayload
<1>4. Get(buf, HEADER_LEN, W64) = Len(s)
  BY <1>1, <1>2, <1>3, FieldIs
<1>5. Whole("Hello", buf) <=> Holds(buf, HEADER_LEN + W64, Len(s))
  BY <1>1, <1>4 DEF Whole
<1>6. ASSUME Whole("Hello", buf)
      PROVE  Read("Hello", buf) = p
  <2>1. HEADER_LEN + W64 + Len(s) <= Len(buf)
    BY <1>5, <1>6 DEF Holds
  <2>2. Slice(buf, HEADER_LEN + W64, Len(s)) = s
    BY <1>1, <1>2, <1>3, <2>1, SliceOf
  <2>3. Read("Hello", buf) =
          [kind |-> "Hello", return_route |-> Slice(buf, MinLen.Hello, Get(buf, HEADER_LEN + 0, W64))]
    BY DEF Read
  <2>4. p = [kind |-> "Hello", return_route |-> s]
    OBVIOUS
  <2> QED
    BY <1>1, <1>4, <2>2, <2>3, <2>4
<1>7. ASSUME Ends(buf, p)
      PROVE  Whole("Hello", buf)
  <2>1. HEADER_LEN + W64 + Len(s) <= Len(buf) /\ Len(buf) <= UsizeMax /\ UsizeMax \in Nat
    BY <1>1, <1>3, <1>7, Limits DEF Ends
  <2> QED
    BY <1>1, <1>2, <1>5, <2>1 DEF Holds
<1> QED
  BY <1>3, <1>6, <1>7

LEMMA TextIs ==
  ASSUME NEW s \in Text
  PROVE  /\ s \in Seq(Byte) /\ Start(s, U16Max) \in Seq(Byte)
         /\ Lossy(Start(s, U16Max)) = Start(s, U16Max)
<1>1. s \in Seq(Byte \ {BadByte}) /\ U16Max \in Nat
  BY Sizes DEF Text
<1>2. s \in Seq(Byte)
  BY <1>1
<1>3. Start(s, U16Max) \in Seq(Byte \ {BadByte})
  BY <1>1, StartIs
<1>4. Start(s, U16Max) \in Seq(Byte) /\ Start(s, U16Max) \in Text
  BY <1>3 DEF Text
<1> QED
  BY <1>2, <1>4, LossyIs

LEMMA ManifestBack ==
  ASSUME NEW p \in [kind : {"Manifest"}, xfer : U64, total_len : U64, chunk_size : U32,
                    chunk_count : U32, crc32 : U32, name : Text],
         NEW e, NEW buf, Begins(buf, e, p)
  PROVE  /\ Payload(p) \in Seq(Byte)
         /\ Whole("Manifest", buf) => Read("Manifest", buf) = AsSent(p)
         /\ Ends(buf, p) => Whole("Manifest", buf)
<1> DEFINE s == p.name
           at == HEADER_LEN + (2 * W64 + 3 * W32)
<1>1. /\ p.kind = "Manifest" /\ p.xfer \in U64 /\ p.total_len \in U64
      /\ p.chunk_size \in U32 /\ p.chunk_count \in U32 /\ p.crc32 \in U32 /\ s \in Text
  OBVIOUS
<1>2. /\ p.xfer \in 0 .. Power(W64) - 1 /\ p.total_len \in 0 .. Power(W64) - 1
      /\ p.chunk_size \in 0 .. Power(W32) - 1 /\ p.chunk_count \in 0 .. Power(W32) - 1
      /\ p.crc32 \in 0 .. Power(W32) - 1 /\ s \in Seq(Byte)
      /\ W64 \in Nat /\ W32 \in Nat /\ HEADER_LEN \in Nat /\ at \in Nat
  <2>1. W64 \in Nat /\ W32 \in Nat /\ HEADER_LEN \in Nat
    BY Sizes
  <2> QED
    BY <1>1, <2>1, Uints, TextIs
<1>3. /\ e \in Seq(Byte) /\ buf \in Seq(Byte) /\ Lies(buf, e, 0) /\ Len(buf) \in Nat
      /\ Lies(Payload(p), e, HEADER_LEN) /\ Len(buf) >= at
  BY <1>1, LensAre DEF Begins, MinLen
<1>4. /\ Payload(p) \in Seq(Byte) /\ Len(Payload(p)) = 2 * W64 + 3 * W32 + Len(Short(s))
      /\ Lies(Put(p.xfer, W64), e, HEADER_LEN)
      /\ Lies(Put(p.total_len, W64), e, HEADER_LEN + W64)
      /\ Lies(Put(p.chunk_size, W32), e, HEADER_LEN + 2 * W64)
      /\ Lies(Put(p.chunk_count, W32), e, HEADER_LEN + (2 * W64 + W32))
      /\ Lies(Put(p.crc32, W32), e, HEADER_LEN + (2 * W64 + 2 * W32))
      /\ Lies(Short(s), e, at)
  BY <1>1, <1>2, <1>3, ManifestPayload
<1>5. /\ HEADER_LEN + 0 = HEADER_LEN /\ HEADER_LEN + W64 <= Len(buf)
      /\ HEADER_LEN + W64 \in Nat /\ HEADER_LEN + W64 + W64 <= Len(buf)
      /\ HEADER_LEN + 2 * W64 \in Nat /\ HEADER_LEN + 2 * W64 + W32 <= Len(buf)
      /\ HEADER_LEN + (2 * W64 + W32) \in Nat /\ HEADER_LEN + (2 * W64 + W32) + W32 <= Len(buf)
      /\ HEADER_LEN + (2 * W64 + 2 * W32) \in Nat
      /\ HEADER_LEN + (2 * W64 + 2 * W32) + W32 <= Len(buf)
  BY <1>2, <1>3
<1>6. /\ Get(buf, HEADER_LEN + 0, W64) = p.xfer
      /\ Get(buf, HEADER_LEN + W64, W64) = p.total_len
  BY <1>2, <1>3, <1>4, <1>5, FieldIs
<1>7. Get(buf, HEADER_LEN + 2 * W64, W32) = p.chunk_size
  BY <1>2, <1>3, <1>4, <1>5, FieldIs
<1>8. /\ Get(buf, HEADER_LEN + (2 * W64 + W32), W32) = p.chunk_count
      /\ Get(buf, HEADER_LEN + (2 * W64 + 2 * W32), W32) = p.crc32
  BY <1>2, <1>3, <1>4, <1>5, FieldIs
<1>9. MinLen.Manifest = at
  BY LensAre
<1> HIDE DEF at
<1>10. Whole("Manifest", buf) <=> HasShort(buf, at)
  BY <1>9 DEF Whole
<1>11. ASSUME Whole("Manifest", buf)
       PROVE  Read("Manifest", buf) = AsSent(p)
  <2>1. ShortAt(buf, at) = Start(s, U16Max)
    <3>1. HasShort(buf, at)
      BY <1>10, <1>11
    <3>2. s \in Seq(Byte) /\ at \in Nat /\ Lies(Short(s), e, at)
      BY <1>2, <1>4
    <3> HIDE DEF s
    <3> QED
      BY <1>3, <3>1, <3>2, ShortOf
  <2>2. Lossy(ShortAt(buf, at)) = Start(s, U16Max)
    BY <1>1, <2>1, TextIs
  <2>3. Read("Manifest", buf) =
          [kind |-> "Manifest", xfer |-> p.xfer, total_len |-> p.total_len,
           chunk_size |-> p.chunk_size, chunk_count |-> p.chunk_count, crc32 |-> p.crc32,
           name |-> Start(s, U16Max)]
    <3>1. Read("Manifest", buf) =
            [kind |-> "Manifest", xfer |-> Get(buf, HEADER_LEN + 0, W64),
             total_len |-> Get(buf, HEADER_LEN + W64, W64),
             chunk_size |-> Get(buf, HEADER_LEN + 2 * W64, W32),
             chunk_count |-> Get(buf, HEADER_LEN + (2 * W64 + W32), W32),
             crc32 |-> Get(buf, HEADER_LEN + (2 * W64 + 2 * W32), W32),
             name |-> Lossy(ShortAt(buf, MinLen.Manifest))]
      BY DEF Read
    <3> QED
      BY <1>6, <1>7, <1>8, <1>9, <2>2, <3>1
  <2>4. AsSent(p) = [p EXCEPT !.name = Start(@, U16Max)]
    BY <1>1 DEF AsSent
  <2>5. AsSent(p) =
          [kind |-> "Manifest", xfer |-> p.xfer, total_len |-> p.total_len,
           chunk_size |-> p.chunk_size, chunk_count |-> p.chunk_count, crc32 |-> p.crc32,
           name |-> Start(s, U16Max)]
    BY <2>4
  <2> QED
    BY <2>3, <2>5
<1>12. ASSUME Ends(buf, p)
       PROVE  Whole("Manifest", buf)
  <2>1. at + Len(Short(s)) <= Len(buf) /\ Len(buf) <= UsizeMax
    <3>1. Short(s) \in Seq(Byte)
      BY <1>2, ShortIs
    <3> QED
      BY <1>2, <1>4, <1>12, <3>1 DEF Ends, at
  <2> QED
    BY <1>2, <1>3, <1>4, <1>10, <2>1, ShortOf
<1> QED
  BY <1>4, <1>11, <1>12

LEMMA ManifestOkBack ==
  ASSUME NEW p \in [kind : {"ManifestOk"}, xfer : U64, accepted : BOOLEAN, message : Text],
         NEW e, NEW buf, Begins(buf, e, p)
  PROVE  /\ Payload(p) \in Seq(Byte)
         /\ Whole("ManifestOk", buf) => Read("ManifestOk", buf) = AsSent(p)
         /\ Ends(buf, p) => Whole("ManifestOk", buf)
<1> DEFINE s == p.message
           y == IF p.accepted THEN 1 ELSE 0
           at == HEADER_LEN + (W64 + 1)
<1>1. p.kind = "ManifestOk" /\ p.xfer \in U64 /\ p.accepted \in BOOLEAN /\ s \in Text
  OBVIOUS
<1>2. /\ p.xfer \in 0 .. Power(W64) - 1 /\ s \in Seq(Byte)
      /\ W64 \in Nat /\ HEADER_LEN \in Nat /\ at \in Nat
  <2>1. W64 \in Nat /\ HEADER_LEN \in Nat
    BY Sizes
  <2> QED
    BY <1>1, <2>1, Uints, TextIs
<1>3. /\ e \in Seq(Byte) /\ buf \in Seq(Byte) /\ Lies(buf, e, 0) /\ Len(buf) \in Nat
      /\ Lies(Payload(p), e, HEADER_LEN) /\ Len(buf) >= at
  BY <1>1, LensAre DEF Begins, MinLen
<1>4. /\ Payload(p) \in Seq(Byte) /\ Len(Payload(p)) = W64 + 1 + Len(Short(s))
      /\ Lies(Put(p.xfer, W64), e, HEADER_LEN) /\ Lies(<<y>>, e, HEADER_LEN + W64)
      /\ Lies(Short(s), e, at)
  BY <1>1, <1>2, <1>3, ManifestOkPayload
<1>5. /\ HEADER_LEN + 0 = HEADER_LEN /\ HEADER_LEN + W64 <= Len(buf)
      /\ HEADER_LEN + W64 \in Nat /\ HEADER_LEN + W64 + 1 <= Len(buf)
  BY <1>2, <1>3
<1>6. Get(buf, HEADER_LEN + 0, W64) = p.xfer
  BY <1>2, <1>3, <1>4, <1>5, FieldIs
<1>7. buf[HEADER_LEN + W64 + 1] = y
  <2>1. Len(<<y>>) = 1 /\ <<y>>[1] = y
    OBVIOUS
  <2> HIDE DEF y
  <2>2. Lies(<<y>>, buf, HEADER_LEN + W64)
    BY <1>3, <1>4, <1>5, <2>1, LiesCut
  <2> QED
    BY <2>1, <2>2 DEF Lies
<1>8. MinLen.ManifestOk = at
  BY LensAre
<1> HIDE DEF at
<1>9. Whole("ManifestOk", buf) <=> HasShort(buf, at)
  BY <1>8 DEF Whole
<1>10. ASSUME Whole("ManifestOk", buf)
       PROVE  Read("ManifestOk", buf) = AsSent(p)
  <2>1. ShortAt(buf, at) = Start(s, U16Max)
    BY <1>2, <1>3, <1>4, <1>9, <1>10, ShortOf
  <2>2. Lossy(ShortAt(buf, at)) = Start(s, U16Max)
    BY <1>1, <2>1, TextIs
  <2>3. (buf[HEADER_LEN + W64 + 1] # 0) = p.accepted
    BY <1>1, <1>7
  <2>4. Read("ManifestOk", buf) =
          [kind |-> "ManifestOk", xfer |-> p.xfer, accepted |-> p.accepted,
           message |-> Start(s, U16Max)]
    <3>1. Read("ManifestOk", buf) =
            [kind |-> "ManifestOk", xfer |-> Get(buf, HEADER_LEN + 0, W64),
             accepted |-> buf[HEADER_LEN + W64 + 1] # 0,
             message |-> Lossy(ShortAt(buf, MinLen.ManifestOk))]
      BY Zenon DEF Read
    <3> QED
      BY <1>6, <1>8, <2>2, <2>3, <3>1
  <2>5. AsSent(p) = [p EXCEPT !.message = Start(@, U16Max)]
    BY <1>1 DEF AsSent
  <2>6. AsSent(p) = [kind |-> "ManifestOk", xfer |-> p.xfer, accepted |-> p.accepted,
                     message |-> Start(s, U16Max)]
    BY <2>5
  <2> QED
    BY <2>4, <2>6
<1>11. ASSUME Ends(buf, p)
       PROVE  Whole("ManifestOk", buf)
  <2>1. at + Len(Short(s)) <= Len(buf) /\ Len(buf) <= UsizeMax
    <3>1. Short(s) \in Seq(Byte)
      BY <1>2, ShortIs
    <3> QED
      BY <1>2, <1>4, <1>11, <3>1 DEF Ends, at
  <2> QED
    BY <1>2, <1>3, <1>4, <1>9, <2>1, ShortOf
<1> QED
  BY <1>4, <1>10, <1>11

Rest(buf, off) == SubSeq(buf, off + 1, Len(buf))

LEMMA RestIs ==
  ASSUME NEW buf \in Seq(Byte), NEW off \in Nat, Len(buf) >= off
  PROVE  /\ Rest(buf, off) \in Seq(Byte) /\ Len(Rest(buf, off)) = Len(buf) - off
         /\ Lies(Rest(buf, off), buf, off)
<1> DEFINE n == Len(buf) - off
<1>1. n \in Nat /\ off + n <= Len(buf) /\ off + n = Len(buf)
  OBVIOUS
<1>2. Rest(buf, off) = Slice(buf, off, n)
  BY <1>1 DEF Slice, Rest
<1> HIDE DEF n
<1>3. Slice(buf, off, n) \in Seq(Byte) /\ Len(Slice(buf, off, n)) = n /\ Lies(Slice(buf, off, n), buf, off)
  BY <1>1, SliceIs
<1> USE DEF n
<1> QED
  BY <1>2, <1>3

\* What is behind off in a beginning of e is a beginning of what is there in e.
LEMMA RestBack ==
  ASSUME NEW e \in Seq(Byte), NEW buf \in Seq(Byte), Lies(buf, e, 0), NEW off \in Nat,
         NEW s \in Seq(Byte), Lies(s, e, off), Len(e) = off + Len(s), Len(buf) >= off
  PROVE  /\ Rest(buf, off) \in Seq(Byte) /\ IsPrefix(Rest(buf, off), s)
         /\ Len(buf) = Len(e) => Rest(buf, off) = s
<1> DEFINE rest == Rest(buf, off)
<1>1. rest \in Seq(Byte) /\ Len(rest) = Len(buf) - off /\ Lies(rest, buf, off)
  BY RestIs
<1> HIDE DEF rest
<1>2. /\ Len(buf) \in Nat /\ Len(e) \in Nat /\ Len(s) \in Nat /\ Len(buf) <= Len(e)
      /\ Len(rest) \in Nat /\ Len(rest) <= Len(s)
  BY <1>1 DEF Lies
<1>3. ASSUME NEW i \in 1 .. Len(rest)
      PROVE  rest[i] = s[i]
  <2>1. i \in 1 .. Len(s) /\ off + i \in 1 .. Len(buf) /\ 0 + (off + i) = off + i
    BY <1>1, <1>2
  <2>2. rest[i] = buf[off + i]
    BY <1>1 DEF Lies
  <2>3. e[0 + (off + i)] = buf[off + i]
    BY <2>1 DEF Lies
  <2>4. e[off + i] = s[i]
    BY <2>1 DEF Lies
  <2> QED
    BY <2>1, <2>2, <2>3, <2>4
<1>4. Lies(rest, s, 0)
  <2>1. ASSUME NEW i \in 1 .. Len(rest)
        PROVE  s[0 + i] = rest[i]
    <3>1. 0 + i = i
      OBVIOUS
    <3> QED
      BY <1>3, <3>1
  <2>2. 0 + Len(rest) <= Len(s)
    BY <1>2
  <2> QED
    BY <2>1, <2>2 DEF Lies
<1>5. IsPrefix(rest, s)
  BY <1>1, <1>4, LiesPrefix
<1>6. ASSUME Len(buf) = Len(e)
      PROVE  rest = s
  <2>1. Len(rest) = Len(s)
    BY <1>1, <1>2, <1>6
  <2> QED
    BY <1>1, <1>3, <2>1
<1> QED
  BY <1>1, <1>5, <1>6 DEF rest

LEMMA ChunkBack ==
  ASSUME NEW p \in [kind : {"Chunk"}, xfer : U64, index : U32, data : Seq(Byte)],
         NEW e, NEW buf, Begins(buf, e, p), Len(e) = HEADER_LEN + Len(Payload(p))
  PROVE  /\ Payload(p) \in Seq(Byte)
         /\ Read("Chunk", buf) = [AsSent(p) EXCEPT !.data = Read("Chunk", buf).data]
         /\ IsPrefix(Read("Chunk", buf).data, AsSent(p).data)
         /\ Len(buf) = Len(e) => Read("Chunk", buf) = AsSent(p)
<1> DEFINE s == Start(p.data, MAX_CHUNK_DATA)
           at == HEADER_LEN + (W64 + W32)
           rest == Rest(buf, at)
<1>1. p.kind = "Chunk" /\ p.xfer \in U64 /\ p.index \in U32 /\ p.data \in Seq(Byte)
  OBVIOUS
<1>2. /\ p.xfer \in 0 .. Power(W64) - 1 /\ p.index \in 0 .. Power(W32) - 1
      /\ W64 \in Nat /\ W32 \in Nat /\ HEADER_LEN \in Nat /\ at \in Nat
  <2>1. W64 \in Nat /\ W32 \in Nat /\ HEADER_LEN \in Nat
    BY Sizes
  <2> QED
    BY <1>1, <2>1, Uints
<1>3. /\ e \in Seq(Byte) /\ buf \in Seq(Byte) /\ Lies(buf, e, 0) /\ Len(buf) \in Nat
      /\ Lies(Payload(p), e, HEADER_LEN) /\ Len(buf) >= at
  BY <1>1, LensAre DEF Begins, MinLen
<1>4. s \in Seq(Byte) /\ Len(s) \in Nat
  BY <1>1, StartIs, Sizes
<1>5. /\ Payload(p) \in Seq(Byte) /\ Len(Payload(p)) = W64 + W32 + Len(s)
      /\ Lies(Put(p.xfer, W64), e, HEADER_LEN) /\ Lies(Put(p.index, W32), e, HEADER_LEN + W64)
      /\ Lies(s, e, at)
  BY <1>1, <1>2, <1>3, ChunkPayload
<1>6. /\ HEADER_LEN + 0 = HEADER_LEN /\ HEADER_LEN + W64 <= Len(buf)
      /\ HEADER_LEN + W64 \in Nat /\ HEADER_LEN + W64 + W32 <= Len(buf)
      /\ Len(e) = at + Len(s)
  BY <1>2, <1>3, <1>4, <1>5
<1>7. Get(buf, HEADER_LEN + 0, W64) = p.xfer /\ Get(buf, HEADER_LEN + W64, W32) = p.index
  BY <1>2, <1>3, <1>5, <1>6, FieldIs
<1>8. MinLen["Chunk"] = at
  BY LensAre
<1> HIDE DEF at, s
<1>9. rest \in Seq(Byte) /\ IsPrefix(rest, s) /\ (Len(buf) = Len(e) => rest = s)
  <2>1. Lies(buf, e, 0) /\ Lies(s, e, at) /\ Len(e) = at + Len(s) /\ Len(buf) >= at
    BY <1>3, <1>5, <1>6
  <2> QED
    BY <1>2, <1>3, <1>4, <2>1, RestBack
<1>10. Read("Chunk", buf) = [kind |-> "Chunk", xfer |-> p.xfer, index |-> p.index, data |-> rest]
  <2>1. Read("Chunk", buf) =
          [kind |-> "Chunk", xfer |-> Get(buf, HEADER_LEN + 0, W64),
           index |-> Get(buf, HEADER_LEN + W64, W32),
           data |-> SubSeq(buf, MinLen["Chunk"] + 1, Len(buf))]
    BY DEF Read
  <2> QED
    BY <1>7, <1>8, <2>1 DEF Rest
<1>11. AsSent(p) = [kind |-> "Chunk", xfer |-> p.xfer, index |-> p.index, data |-> s]
  <2>1. AsSent(p) = [p EXCEPT !.data = Start(@, MAX_CHUNK_DATA)]
    BY <1>1 DEF AsSent
  <2> QED
    BY <2>1 DEF s
<1> HIDE DEF rest
<1> QED
  BY <1>5, <1>9, <1>10, <1>11

LEMMA StatusBack ==
  ASSUME NEW p \in [kind : {"Status"}, xfer : U64], NEW e, NEW buf, Begins(buf, e, p)
  PROVE  Payload(p) \in Seq(Byte) /\ Read("Status", buf) = p
<1>1. /\ p.kind = "Status" /\ p.xfer \in U64 /\ p.xfer \in 0 .. Power(W64) - 1
      /\ W64 \in Nat /\ HEADER_LEN \in Nat /\ HEADER_LEN + 0 = HEADER_LEN
  BY Uints, Sizes
<1>2. /\ e \in Seq(Byte) /\ buf \in Seq(Byte) /\ Lies(buf, e, 0)
      /\ Lies(Payload(p), e, HEADER_LEN) /\ Len(buf) >= HEADER_LEN + W64
  BY <1>1, LensAre DEF Begins, MinLen
<1>3. Payload(p) \in Seq(Byte) /\ Payload(p) = Put(p.xfer, W64)
  BY <1>1, StatusPayload
<1>4. Get(buf, HEADER_LEN, W64) = p.xfer
  BY <1>1, <1>2, <1>3, FieldIs
<1>5. Read("Status", buf) = [kind |-> "Status", xfer |-> Get(buf, HEADER_LEN + 0, W64)]
  BY DEF Read
<1>6. p = [kind |-> "Status", xfer |-> p.xfer]
  OBVIOUS
<1> QED
  BY <1>1, <1>3, <1>4, <1>5, <1>6

LEMMA SocialBack ==
  ASSUME NEW p \in [kind : {"Social"}, json : Seq(Byte)],
         NEW e, NEW buf, Begins(buf, e, p), Len(e) = HEADER_LEN + Len(Payload(p))
  PROVE  /\ Payload(p) \in Seq(Byte)
         /\ Read("Social", buf).kind = "Social"
         /\ IsPrefix(Read("Social", buf).json, AsSent(p).json)
         /\ Len(buf) = Len(e) => Read("Social", buf) = AsSent(p)
<1> DEFINE s == Payload(p)
           rest == Rest(buf, HEADER_LEN)
<1>1. p.kind = "Social" /\ p.json \in Seq(Byte) /\ HEADER_LEN \in Nat
  BY Sizes
<1>2. /\ e \in Seq(Byte) /\ buf \in Seq(Byte) /\ Lies(buf, e, 0)
      /\ Lies(s, e, HEADER_LEN) /\ Len(buf) >= HEADER_LEN
  BY <1>1, LensAre DEF Begins, MinLen
<1>3. s \in Seq(Byte) /\ s = Start(p.json, MaxAppMessage - HEADER_LEN)
  BY <1>1, SocialPayload
<1>4. MinLen["Social"] = HEADER_LEN
  BY LensAre
<1> HIDE DEF s
<1>5. rest \in Seq(Byte) /\ IsPrefix(rest, s) /\ (Len(buf) = Len(e) => rest = s)
  <2>1. Len(e) = HEADER_LEN + Len(s)
    BY DEF s
  <2> QED
    BY <1>1, <1>2, <1>3, <2>1, RestBack
<1>6. Read("Social", buf) = [kind |-> "Social", json |-> rest]
  <2>1. Read("Social", buf) =
          [kind |-> "Social", json |-> SubSeq(buf, MinLen["Social"] + 1, Len(buf))]
    BY DEF Read
  <2> QED
    BY <1>4, <2>1 DEF Rest
<1>7. AsSent(p) = [kind |-> "Social", json |-> s]
  <2>1. AsSent(p) = [p EXCEPT !.json = Start(@, MaxAppMessage - HEADER_LEN)]
    BY <1>1 DEF AsSent
  <2> QED
    BY <1>3, <2>1
<1> HIDE DEF rest
<1> QED
  BY <1>3, <1>5, <1>6, <1>7 DEF s

LEMMA ReplyBack ==
  ASSUME NEW p \in [kind : {"StatusReply"}, xfer : U64, state : Byte, missing_total : U32,
                    missing : Seq(U32)],
         NEW e, NEW buf, Begins(buf, e, p)
  PROVE  /\ Payload(p) \in Seq(Byte)
         /\ Whole("StatusReply", buf) => Read("StatusReply", buf) = AsSent(p)
         /\ Ends(buf, p) => Whole("StatusReply", buf)
<1> DEFINE s == Listed(p)
           n == Len(s)
           at == HEADER_LEN + (W64 + 1 + 2 * W32)
           cnt == HEADER_LEN + (W64 + 1 + W32)
<1>1. /\ p.kind = "StatusReply" /\ p.xfer \in U64 /\ p.state \in Byte
      /\ p.missing_total \in U32 /\ p.missing \in Seq(U32)
  OBVIOUS
<1>2. /\ p.xfer \in 0 .. Power(W64) - 1 /\ p.missing_total \in 0 .. Power(W32) - 1
      /\ W64 \in Nat /\ W32 \in Nat /\ HEADER_LEN \in Nat /\ at \in Nat /\ cnt \in Nat
  <2>1. W64 \in Nat /\ W32 \in Nat /\ HEADER_LEN \in Nat
    BY Sizes
  <2> QED
    BY <1>1, <2>1, Uints
<1>3. /\ e \in Seq(Byte) /\ buf \in Seq(Byte) /\ Lies(buf, e, 0) /\ Len(buf) \in Nat
      /\ Lies(Payload(p), e, HEADER_LEN) /\ Len(buf) >= at
  BY <1>1, LensAre DEF Begins, MinLen
<1>4. /\ Payload(p) \in Seq(Byte) /\ Len(Payload(p)) = W64 + 1 + 2 * W32 + n * W32
      /\ n \in Nat /\ n <= MAX_MISSING_LISTED
      /\ Lies(Put(p.xfer, W64), e, HEADER_LEN) /\ Lies(<<p.state>>, e, HEADER_LEN + W64)
      /\ Lies(Put(p.missing_total, W32), e, HEADER_LEN + (W64 + 1))
      /\ Lies(Put(n, W32), e, cnt)
      /\ \A i \in 1 .. n : Lies(Put(p.missing[i], W32), e, at + (i - 1) * W32)
  BY <1>1, <1>2, <1>3, ReplyPayload
<1>5. /\ s \in Seq(U32) /\ \A i \in 1 .. n : s[i] = p.missing[i]
      /\ s = Start(p.missing, MAX_MISSING_LISTED)
  BY <1>1, StartIs, Sizes DEF Listed
<1>6. n \in 0 .. Power(W32) - 1
  <2>1. MAX_MISSING_LISTED \in Nat /\ MAX_MISSING_LISTED <= U32Max /\ U32Max \in Nat
    BY Limits
  <2>2. U32Max = Power(W32) - 1
    BY Limits
  <2> HIDE DEF n
  <2> QED
    BY <1>4, <2>1, <2>2
<1>7. /\ HEADER_LEN + 0 = HEADER_LEN /\ HEADER_LEN + W64 <= Len(buf)
      /\ HEADER_LEN + W64 \in Nat /\ HEADER_LEN + W64 + 1 <= Len(buf)
      /\ HEADER_LEN + (W64 + 1) \in Nat /\ HEADER_LEN + (W64 + 1) + W32 <= Len(buf)
      /\ cnt + W32 <= Len(buf) /\ HEADER_LEN + W64 + 1 + W32 = cnt
  BY <1>2, <1>3
<1>8. /\ Get(buf, HEADER_LEN + 0, W64) = p.xfer
      /\ Get(buf, HEADER_LEN + (W64 + 1), W32) = p.missing_total
  BY <1>2, <1>3, <1>4, <1>7, FieldIs
<1>9. buf[HEADER_LEN + W64 + 1] = p.state
  <2>1. Len(<<p.state>>) = 1 /\ <<p.state>>[1] = p.state
    OBVIOUS
  <2>2. Lies(<<p.state>>, buf, HEADER_LEN + W64)
    BY <1>3, <1>4, <1>7, <2>1, LiesCut
  <2> QED
    BY <2>1, <2>2 DEF Lies
<1>10. MinLen.StatusReply = at
  BY LensAre
<1> HIDE DEF at, cnt, n
<1>11. Get(buf, cnt, W32) = n
  BY <1>2, <1>3, <1>4, <1>6, <1>7, FieldIs
<1>12. Whole("StatusReply", buf) <=> Holds(buf, at, W32 * n)
  BY <1>7, <1>10, <1>11 DEF Whole
<1>13. W32 * n \in Nat /\ W32 * n = n * W32
  BY <1>2, <1>4
<1>14. ASSUME Whole("StatusReply", buf)
       PROVE  Read("StatusReply", buf) = AsSent(p)
  <2>1. at + W32 * n <= Len(buf)
    BY <1>12, <1>14 DEF Holds
  <2>2. ASSUME NEW i \in 1 .. n
        PROVE  Get(buf, at + (i - 1) * W32, W32) = s[i]
    <3>1. (i - 1) * W32 \in Nat /\ (i - 1) * W32 + W32 = i * W32 /\ i * W32 <= W32 * n
      <4>1. i \in Nat /\ i <= n /\ i - 1 \in Nat /\ n - i \in Nat
        BY <1>4
      <4>2. W32 * n - i * W32 = W32 * (n - i)
        BY <1>2, <1>4, <4>1
      <4>3. W32 * (n - i) \in Nat /\ i * W32 \in Nat
        BY <1>2, <4>1
      <4> QED
        BY <1>2, <1>4, <1>13, <4>1, <4>2, <4>3
    <3> DEFINE off == at + (i - 1) * W32
    <3>2. off \in Nat /\ off + W32 <= Len(buf)
      <4> DEFINE x == (i - 1) * W32
                 y == W32 * n
      <4>1. x \in Nat /\ x + W32 <= y /\ y \in Nat /\ at + y <= Len(buf)
        BY <1>13, <2>1, <3>1
      <4> HIDE DEF x, y
      <4>2. at + x \in Nat /\ at + x + W32 <= Len(buf)
        BY <1>2, <1>3, <4>1
      <4> QED
        BY <4>2 DEF x
    <3>3. s[i] \in U32 /\ s[i] = p.missing[i]
      BY <1>5 DEF n
    <3>4. s[i] \in 0 .. Power(W32) - 1
      BY <3>3, Uints
    <3>5. Lies(Put(s[i], W32), e, off)
      BY <1>4, <3>3
    <3> HIDE DEF off, s
    <3>6. Get(buf, off, W32) = s[i]
      BY <1>2, <1>3, <3>2, <3>4, <3>5, FieldIs
    <3> QED
      BY <3>6 DEF off
  <2>3. [i \in 1 .. n |-> Get(buf, at + (i - 1) * W32, W32)] = s
    <3>1. s = [i \in 1 .. n |-> s[i]]
      BY <1>5 DEF n
    <3> HIDE DEF s
    <3> QED
      BY <2>2, <3>1
  <2>4. Read("StatusReply", buf) =
          [kind |-> "StatusReply", xfer |-> p.xfer, state |-> p.state,
           missing_total |-> p.missing_total, missing |-> s]
    <3>1. Read("StatusReply", buf) =
            [kind |-> "StatusReply", xfer |-> Get(buf, HEADER_LEN + 0, W64),
             state |-> buf[HEADER_LEN + W64 + 1],
             missing_total |-> Get(buf, HEADER_LEN + (W64 + 1), W32),
             missing |-> [i \in 1 .. Get(buf, cnt, W32) |->
                            Get(buf, MinLen.StatusReply + (i - 1) * W32, W32)]]
      BY Zenon DEF Read, cnt
    <3> QED
      BY <1>8, <1>9, <1>10, <1>11, <2>3, <3>1
  <2>5. AsSent(p) = [p EXCEPT !.missing = Start(@, MAX_MISSING_LISTED)]
    BY <1>1 DEF AsSent
  <2>6. AsSent(p) = [kind |-> "StatusReply", xfer |-> p.xfer, state |-> p.state,
                     missing_total |-> p.missing_total, missing |-> s]
    BY <1>5, <2>5
  <2> QED
    BY <2>4, <2>6
<1>15. ASSUME Ends(buf, p)
       PROVE  Whole("StatusReply", buf)
  <2>1. at + W32 * n <= Len(buf) /\ Len(buf) <= UsizeMax /\ UsizeMax \in Nat
    BY <1>2, <1>4, <1>13, <1>15, Limits DEF Ends, at
  <2> QED
    BY <1>2, <1>3, <1>12, <1>13, <2>1 DEF Holds
<1> QED
  BY <1>4, <1>14, <1>15

LEMMA RoutesBack ==
  ASSUME NEW p \in [kind : {"Routes"}, blobs : Seq(Seq(Byte))], NEW e, NEW buf, Begins(buf, e, p)
  PROVE  /\ Payload(p) \in Seq(Byte)
         /\ Whole("Routes", buf) => Read("Routes", buf) = AsSent(p)
         /\ Ends(buf, p) => Whole("Routes", buf)
<1> DEFINE n == Len(Start(p.blobs, U16Max))
           base == HEADER_LEN + W16
<1>1. /\ p.kind = "Routes" /\ p.blobs \in Seq(Seq(Byte)) /\ HEADER_LEN \in Nat /\ W16 \in Nat
      /\ base \in Nat
  BY Sizes
<1>2. /\ n \in Nat /\ n <= Len(p.blobs) /\ n <= U16Max /\ n \in 0 .. Power(W16) - 1
      /\ DOMAIN Start(p.blobs, U16Max) = 1 .. n
      /\ \A k \in 1 .. n : p.blobs[k] \in Seq(Byte)
  <2>1. /\ U16Max \in Nat /\ Len(p.blobs) \in Nat
        /\ \A k \in 1 .. Len(p.blobs) : p.blobs[k] \in Seq(Byte)
    BY <1>1, Sizes
  <2>2. n = IF Len(p.blobs) < U16Max THEN Len(p.blobs) ELSE U16Max
    BY <1>1, <2>1, StartIs
  <2>3. Start(p.blobs, U16Max) \in Seq(Seq(Byte))
    BY <1>1, <2>1, StartIs
  <2>4. DOMAIN Start(p.blobs, U16Max) = 1 .. n
    BY <2>3
  <2> HIDE DEF n
  <2> QED
    <3>1. U16Max = Power(W16) - 1
      BY Limits
    <3>2. n \in Nat /\ n <= Len(p.blobs) /\ n <= U16Max
      BY <2>1, <2>2
    <3> QED
      BY <2>1, <2>4, <3>1, <3>2
<1>0. PICK at : Offsets(at, p.blobs, n)
  BY <1>1, <1>2, BlobOffsets
<1>3. /\ at \in [0 .. n -> Nat] /\ at[0] = 0
      /\ \A k \in 1 .. n : at[k] = at[k - 1] + Len(Short(p.blobs[k]))
  BY <1>0 DEF Offsets
<1>4. /\ e \in Seq(Byte) /\ buf \in Seq(Byte) /\ Lies(buf, e, 0) /\ Len(buf) \in Nat
      /\ Lies(Payload(p), e, HEADER_LEN) /\ Len(buf) >= base
  BY <1>1, LensAre DEF Begins, MinLen
<1>5. /\ Payload(p) \in Seq(Byte) /\ Len(Payload(p)) = W16 + at[n]
      /\ Lies(Put(n, W16), e, HEADER_LEN)
      /\ \A k \in 1 .. n : Lies(Short(p.blobs[k]), e, base + at[k - 1])
  <2>1. n = Len(Start(p.blobs, U16Max))
    OBVIOUS
  <2> HIDE DEF n
  <2> QED
    BY <1>0, <1>1, <1>4, <2>1, RoutesPayload
<1> HIDE DEF n, base
<1>6. Get(buf, HEADER_LEN, W16) = n
  BY <1>1, <1>2, <1>4, <1>5, FieldIs DEF base
<1>7. PICK after \in [0 .. n -> Blobs] :
        /\ after[0] = [ok |-> TRUE, off |-> base, blobs |-> << >>]
        /\ \A k \in 1 .. n : after[k] = NextBlob(buf, after[k - 1])
        /\ ReadBlobs(buf) = after[n]
  BY <1>2, <1>4, <1>6, BlobsRun DEF base
<1> DEFINE Kept(i) == Start(p.blobs[i], U16Max)
           Firsts(k) == [i \in 1 .. k |-> Kept(i)]
           T == {k \in 0 .. n : /\ after[k].ok =>
                                     after[k].off = base + at[k] /\ after[k].blobs = Firsts(k)
                                /\ Ends(buf, p) => after[k].ok}
<1>8. 0 \in T
  <2>1. << >> = Firsts(0)
    OBVIOUS
  <2>2. after[0].ok /\ after[0].off = base + at[0] /\ after[0].blobs = << >>
    BY <1>1, <1>3, <1>7
  <2> HIDE DEF Firsts
  <2> QED
    BY <1>2, <2>1, <2>2
<1>9. ASSUME NEW k \in 1 .. n, k - 1 \in T
      PROVE  k \in T
  <2> DEFINE r == after[k - 1]
             b == p.blobs[k]
             off == base + at[k - 1]
  <2>1. r \in Blobs /\ after[k] = NextBlob(buf, r) /\ b \in Seq(Byte) /\ at[k - 1] \in Nat /\ at[k] \in Nat
    <3>1. k - 1 \in 0 .. n /\ k \in 0 .. n
      BY <1>2
    <3> QED
      BY <1>2, <1>3, <1>7, <3>1
  <2>2. /\ r.ok => r.off = off /\ r.blobs = Firsts(k - 1)
        /\ Ends(buf, p) => r.ok
    BY <1>9
  <2>3. off \in Nat /\ Lies(Short(b), e, off) /\ at[k] = at[k - 1] + Len(Short(b))
    <3>1. at[k] = at[k - 1] + Len(Short(p.blobs[k])) /\ Lies(Short(p.blobs[k]), e, base + at[k - 1])
      BY <1>3, <1>5
    <3>2. base + at[k - 1] \in Nat
      BY <1>1, <2>1
    <3> QED
      BY <3>1, <3>2
  <2>4. /\ Short(b) \in Seq(Byte) /\ Len(Short(b)) = W16 + Len(Kept(k)) /\ Kept(k) \in Seq(Byte)
        /\ Len(Kept(k)) \in Nat
    BY <2>1, <1>4, ShortIs
  <2> HIDE DEF r, b, off, T, Firsts
  <2>5. ASSUME after[k].ok
        PROVE  after[k].off = base + at[k] /\ after[k].blobs = Firsts(k)
    <3>1. r.ok /\ HasShort(buf, r.off) /\ r.off = off /\ r.blobs = Firsts(k - 1)
      BY <1>4, <2>1, <2>2, <2>5, NextBlobIs
    <3>2. Get(buf, off, W16) = Len(Kept(k)) /\ ShortAt(buf, off) = Kept(k)
      <4>1. HasShort(buf, off)
        BY <3>1
      <4> QED
        BY <1>4, <2>1, <2>3, <4>1, ShortOf DEF b
    <3>3. /\ after[k].off = r.off + W16 + Get(buf, r.off, W16)
          /\ after[k].blobs = Append(r.blobs, ShortAt(buf, r.off))
      <4>1. /\ NextBlob(buf, r).off = r.off + W16 + Get(buf, r.off, W16)
            /\ NextBlob(buf, r).blobs = Append(r.blobs, ShortAt(buf, r.off))
        BY <1>4, <2>1, <3>1, NextBlobIs
      <4> QED
        BY <2>1, <4>1
    <3>4. after[k].off = base + at[k]
      <4>1. after[k].off = off + W16 + Len(Kept(k))
        BY <3>1, <3>2, <3>3
      <4>2. at[k] = at[k - 1] + (W16 + Len(Kept(k)))
        BY <2>3, <2>4
      <4> DEFINE m == Len(Kept(k))
      <4>3. m \in Nat /\ after[k].off = off + W16 + m /\ at[k] = at[k - 1] + (W16 + m)
        BY <2>4, <4>1, <4>2
      <4> HIDE DEF m
      <4>4. off = base + at[k - 1]
        BY DEF off
      <4>5. base \in Nat /\ W16 \in Nat /\ at[k - 1] \in Nat /\ at[k] \in Nat
        BY <1>1, <2>1
      <4> HIDE DEF base
      <4>6. base + at[k - 1] + W16 + m = base + (at[k - 1] + (W16 + m))
        BY <4>3, <4>5
      <4>7. after[k].off = base + at[k - 1] + W16 + m
        BY <4>3, <4>4
      <4> QED
        BY <4>3, <4>6, <4>7
    <3>5. Append(Firsts(k - 1), Kept(k)) = Firsts(k)
      <4> HIDE DEF Kept
      <4>1. k \in Nat /\ k >= 1
        BY <1>2
      <4>2. Len(Firsts(k - 1)) = k - 1 /\ DOMAIN Firsts(k) = 1 .. k
        BY <4>1 DEF Firsts
      <4>3. Append(Firsts(k - 1), Kept(k)) =
              [i \in 1 .. k |-> IF i = k THEN Kept(k) ELSE Firsts(k - 1)[i]]
        BY <4>1, <4>2
      <4>4. \A i \in 1 .. k : (IF i = k THEN Kept(k) ELSE Firsts(k - 1)[i]) = Kept(i)
        BY <4>1 DEF Firsts
      <4> QED
        BY <4>3, <4>4 DEF Firsts
    <3> QED
      BY <3>1, <3>2, <3>3, <3>4, <3>5
  <2>6. ASSUME Ends(buf, p)
        PROVE  after[k].ok
    <3>1. r.ok /\ r.off = off
      BY <2>2, <2>6
    <3>2. off + Len(Short(b)) <= Len(buf) /\ Len(buf) <= UsizeMax
      <4>1. at[k] <= at[n]
        <5> DEFINE M == {m \in 0 .. n : m >= k => at[k] <= at[m]}
        <5>1. 0 \in M
          BY <1>2
        <5>2. ASSUME NEW m \in 1 .. n, m - 1 \in M
              PROVE  m \in M
          <6>1. at[m] \in Nat /\ at[m - 1] \in Nat /\ at[m] = at[m - 1] + Len(Short(p.blobs[m]))
            <7>1. m \in 0 .. n /\ m - 1 \in 0 .. n
              BY <1>2
            <7> QED
              BY <1>3, <7>1
          <6>2. Short(p.blobs[m]) \in Seq(Byte)
            BY <1>2, <1>4, ShortIs
          <6>3. at[m - 1] <= at[m]
            BY <6>1, <6>2
          <6>4. CASE m = k
            BY <6>1, <6>4
          <6>5. CASE m # k
            <7> SUFFICES ASSUME m >= k PROVE at[k] <= at[m]
              OBVIOUS
            <7>1. m - 1 >= k
              BY <1>2, <6>5
            <7>2. at[k] <= at[m - 1]
              BY <5>2, <7>1
            <7> QED
              BY <2>1, <6>1, <6>3, <7>2
          <6> QED
            BY <6>4, <6>5
        <5>3. n \in M
          <6>1. \A m \in 0 .. n : m \in M
            <7> HIDE DEF M
            <7> QED
              BY <1>2, <5>1, <5>2, Induction
          <6> HIDE DEF M
          <6> QED
            BY <1>2, <6>1
        <5> QED
          BY <1>2, <5>3
      <4>2. at[n] \in Nat
        BY <1>2, <1>3
      <4>3. base + at[n] <= Len(buf) /\ Len(buf) <= UsizeMax
        BY <1>1, <1>5, <2>6, <4>2 DEF Ends, base
      <4>4. off + Len(Short(b)) = base + at[k]
        <5>1. Len(Short(b)) \in Nat
          BY <2>4
        <5> QED
          BY <1>1, <2>1, <2>3, <5>1 DEF off
      <4> QED
        BY <1>1, <1>4, <2>1, <4>1, <4>2, <4>3, <4>4
    <3>3. HasShort(buf, off)
      BY <1>4, <2>1, <2>3, <3>2, ShortOf
    <3> QED
      BY <1>4, <2>1, <3>1, <3>3, NextBlobIs
  <2> QED
    BY <2>5, <2>6 DEF T
<1>10. n \in T
  <2>1. \A k \in 0 .. n : k \in T
    <3> HIDE DEF T
    <3> QED
      BY <1>2, <1>8, <1>9, Induction
  <2> HIDE DEF T
  <2> QED
    BY <1>2, <2>1
<1>11. Whole("Routes", buf) <=> after[n].ok
  BY <1>7 DEF Whole
<1>12. ASSUME Whole("Routes", buf)
       PROVE  Read("Routes", buf) = AsSent(p)
  <2>1. after[n].blobs = Firsts(n)
    BY <1>10, <1>11, <1>12
  <2>2. Read("Routes", buf) = [kind |-> "Routes", blobs |-> ReadBlobs(buf).blobs]
    BY DEF Read
  <2>3. AsSent(p) = [p EXCEPT !.blobs = [i \in DOMAIN Start(@, U16Max) |-> Start(p.blobs[i], U16Max)]]
    BY <1>1 DEF AsSent
  <2>4. AsSent(p) = [kind |-> "Routes", blobs |-> Firsts(n)]
    BY <1>2, <2>3
  <2> HIDE DEF Firsts
  <2> QED
    BY <1>7, <2>1, <2>2, <2>4
<1>13. ASSUME Ends(buf, p)
       PROVE  Whole("Routes", buf)
  BY <1>10, <1>11, <1>13
<1> QED
  BY <1>5, <1>12, <1>13

-----------------------------------------------------------------------------
(* Every kind.                                                             *)

LEMMA AsSentKind ==
  ASSUME NEW p \in PacketShape
  PROVE  /\ AsSent(p).kind = p.kind
         /\ p.kind \in {"Hello", "Probe", "Echo", "Status"} => AsSent(p) = p
<1>1. CASE p.kind \in {"Hello", "Probe", "Echo", "Status"}
  BY <1>1 DEF AsSent
<1>2. CASE p.kind = "Manifest"
  BY <1>2, ShapeIs DEF AsSent
<1>3. CASE p.kind = "ManifestOk"
  BY <1>3, ShapeIs DEF AsSent
<1>4. CASE p.kind = "Chunk"
  BY <1>4, ShapeIs DEF AsSent
<1>5. CASE p.kind = "StatusReply"
  BY <1>5, ShapeIs DEF AsSent
<1>6. CASE p.kind = "Routes"
  BY <1>6, ShapeIs DEF AsSent
<1>7. CASE p.kind = "Social"
  BY <1>7, ShapeIs DEF AsSent
<1> QED
  BY <1>1, <1>2, <1>3, <1>4, <1>5, <1>6, <1>7, ShapeIs DEF KindNames

LEMMA PayloadIs ==
  ASSUME NEW p \in PacketShape
  PROVE  Payload(p) \in Seq(Byte) /\ HEADER_LEN + Len(Payload(p)) >= MinLen[p.kind]
<1> DEFINE buf == << >>
<1>1. /\ buf \in Seq(Byte) /\ 0 \in Nat /\ W16 \in Nat /\ W32 \in Nat /\ W64 \in Nat
      /\ HEADER_LEN \in Nat /\ U16Max \in Nat
  BY Sizes
<1> HIDE DEF buf
<1>2. CASE p.kind = "Hello"
  <2>1. p.return_route \in Seq(Byte)
    BY <1>2, ShapeIs
  <2>2. Payload(p) \in Seq(Byte) /\ Len(Payload(p)) = W64 + Len(p.return_route)
    BY <1>1, <1>2, <2>1, HelloPayload
  <2>3. MinLen["Hello"] = HEADER_LEN + W64
    BY LensAre
  <2> QED
    BY <1>1, <1>2, <2>1, <2>2, <2>3
<1>3. CASE p.kind = "Probe"
  <2>1. p.seq \in U64 /\ p.t0 \in U64
    BY <1>3, ShapeIs
  <2>2. Payload(p) \in Seq(Byte) /\ Len(Payload(p)) = W64 + W64
    BY <1>1, <1>3, <2>1, ProbePayload
  <2>3. MinLen["Probe"] = HEADER_LEN + 2 * W64
    BY LensAre
  <2> QED
    BY <1>1, <1>3, <2>2, <2>3
<1>4. CASE p.kind = "Echo"
  <2>1. p.seq \in U64 /\ p.t0 \in U64 /\ p.t1 \in U64 /\ p.t2 \in U64
    BY <1>4, ShapeIs
  <2>2. Payload(p) \in Seq(Byte) /\ Len(Payload(p)) = W64 + W64 + W64 + W64
    BY <1>1, <1>4, <2>1, EchoPayload
  <2>3. MinLen["Echo"] = HEADER_LEN + 4 * W64
    BY LensAre
  <2> QED
    BY <1>1, <1>4, <2>2, <2>3
<1>5. CASE p.kind = "Manifest"
  <2>1. /\ p.xfer \in U64 /\ p.total_len \in U64 /\ p.chunk_size \in U32
        /\ p.chunk_count \in U32 /\ p.crc32 \in U32 /\ p.name \in Text
    BY <1>5, ShapeIs
  <2>2. p.name \in Seq(Byte)
    BY <2>1, TextIs
  <2>3. /\ Payload(p) \in Seq(Byte)
        /\ Len(Payload(p)) = 2 * W64 + 3 * W32 + Len(Short(p.name))
    BY <1>1, <1>5, <2>1, <2>2, ManifestPayload
  <2>4. MinLen["Manifest"] = HEADER_LEN + (2 * W64 + 3 * W32)
    BY LensAre
  <2>5. Len(Short(p.name)) \in Nat
    BY <1>1, <2>2, ShortIs
  <2> QED
    BY <1>1, <1>5, <2>3, <2>4, <2>5
<1>6. CASE p.kind = "ManifestOk"
  <2>1. p.xfer \in U64 /\ p.accepted \in BOOLEAN /\ p.message \in Text
    BY <1>6, ShapeIs
  <2>2. p.message \in Seq(Byte)
    BY <2>1, TextIs
  <2>3. /\ Payload(p) \in Seq(Byte)
        /\ Len(Payload(p)) = W64 + 1 + Len(Short(p.message))
    BY <1>1, <1>6, <2>1, <2>2, ManifestOkPayload
  <2>4. MinLen["ManifestOk"] = HEADER_LEN + (W64 + 1)
    BY LensAre
  <2>5. Len(Short(p.message)) \in Nat
    BY <1>1, <2>2, ShortIs
  <2> QED
    BY <1>1, <1>6, <2>3, <2>4, <2>5
<1>7. CASE p.kind = "Chunk"
  <2>1. p.xfer \in U64 /\ p.index \in U32 /\ p.data \in Seq(Byte)
    BY <1>7, ShapeIs
  <2>2. /\ Payload(p) \in Seq(Byte)
        /\ Len(Payload(p)) = W64 + W32 + Len(Start(p.data, MAX_CHUNK_DATA))
    BY <1>1, <1>7, <2>1, ChunkPayload
  <2>3. MinLen["Chunk"] = HEADER_LEN + (W64 + W32)
    BY LensAre
  <2>4. Start(p.data, MAX_CHUNK_DATA) \in Seq(Byte)
    BY <2>1, StartIs, Sizes
  <2> QED
    BY <1>1, <1>7, <2>2, <2>3, <2>4
<1>8. CASE p.kind = "Status"
  <2>1. p.xfer \in U64
    BY <1>8, ShapeIs
  <2>2. Payload(p) \in Seq(Byte) /\ Len(Payload(p)) = W64
    BY <1>8, <2>1, StatusPayload
  <2>3. MinLen["Status"] = HEADER_LEN + W64
    BY LensAre
  <2> QED
    BY <1>1, <1>8, <2>2, <2>3
<1>9. CASE p.kind = "StatusReply"
  <2>1. /\ p.xfer \in U64 /\ p.state \in Byte /\ p.missing_total \in U32
        /\ p.missing \in Seq(U32)
    BY <1>9, ShapeIs
  <2> DEFINE n == Len(Listed(p))
  <2>2. n = Len(Listed(p))
    OBVIOUS
  <2> HIDE DEF n
  <2>3. /\ Payload(p) \in Seq(Byte) /\ Len(Payload(p)) = W64 + 1 + 2 * W32 + n * W32
        /\ n \in Nat
    BY <1>1, <1>9, <2>1, <2>2, ReplyPayload
  <2>4. MinLen["StatusReply"] = HEADER_LEN + (W64 + 1 + 2 * W32)
    BY LensAre
  <2>5. n * W32 \in Nat
    BY <1>1, <2>3
  <2> QED
    BY <1>1, <1>9, <2>3, <2>4, <2>5
<1>10. CASE p.kind = "Routes"
  <2>1. p.blobs \in Seq(Seq(Byte))
    BY <1>10, ShapeIs
  <2> DEFINE n == Len(Start(p.blobs, U16Max))
  <2>2. n = Len(Start(p.blobs, U16Max)) /\ n \in Nat /\ n <= Len(p.blobs)
    <3>1. Len(p.blobs) \in Nat /\ n = IF Len(p.blobs) < U16Max THEN Len(p.blobs) ELSE U16Max
      BY <1>1, <2>1, StartIs
    <3> HIDE DEF n
    <3>2. n \in Nat /\ n <= Len(p.blobs)
      BY <1>1, <3>1
    <3> QED
      BY <3>2 DEF n
  <2> HIDE DEF n
  <2>3. PICK at : Offsets(at, p.blobs, n)
    BY <2>1, <2>2, BlobOffsets
  <2>4. Payload(p) \in Seq(Byte) /\ Len(Payload(p)) = W16 + at[n]
    BY <1>1, <1>10, <2>1, <2>2, <2>3, RoutesPayload
  <2>5. at[n] \in Nat
    BY <2>2, <2>3 DEF Offsets
  <2>6. MinLen["Routes"] = HEADER_LEN + W16
    BY LensAre
  <2> QED
    BY <1>1, <1>10, <2>4, <2>5, <2>6
<1>11. CASE p.kind = "Social"
  <2>1. p.json \in Seq(Byte)
    BY <1>11, ShapeIs
  <2>2. Payload(p) \in Seq(Byte)
    BY <1>11, <2>1, SocialPayload
  <2>3. MinLen["Social"] = HEADER_LEN
    BY LensAre
  <2> QED
    BY <1>1, <1>11, <2>2, <2>3
<1> QED
  BY <1>2, <1>3, <1>4, <1>5, <1>6, <1>7, <1>8, <1>9, <1>10, <1>11, ShapeIs DEF KindNames

\* What is read of a beginning of p's bytes e is p, all of it or as far as it goes, if
\* it is read at all; and all of e is read.
Faithful(buf, e, p) ==
  /\ p.kind \notin OpenEnded /\ Whole(p.kind, buf) => Read(p.kind, buf) = AsSent(p)
  /\ p.kind = "Chunk" =>
       /\ Read("Chunk", buf) = [AsSent(p) EXCEPT !.data = Read("Chunk", buf).data]
       /\ IsPrefix(Read("Chunk", buf).data, AsSent(p).data)
  /\ p.kind = "Social" =>
       Read("Social", buf).kind = "Social" /\ IsPrefix(Read("Social", buf).json, AsSent(p).json)
  /\ Len(buf) = Len(e) => Whole(p.kind, buf) /\ Read(p.kind, buf) = AsSent(p)

LEMMA KindsBack ==
  ASSUME NEW p \in Packets, NEW pad \in Nat, NEW e, e = Encode(p, pad),
         NEW buf \in Seq(Byte), Lies(buf, e, 0), Len(buf) >= MinLen[p.kind]
  PROVE  Faithful(buf, e, p)
<1>1. p \in PacketShape /\ Len(Encode(p, 0)) <= UsizeMax
  BY PacketAssumption
<1>2. p.kind \in KindNames /\ Payload(p) \in Seq(Byte) /\ HEADER_LEN \in Nat
  BY <1>1, ShapeIs, PayloadIs, Sizes
<1>3. /\ e \in Seq(Byte) /\ Lies(Payload(p), e, HEADER_LEN)
      /\ p.kind \notin {"Probe", "Echo"} => Len(e) = HEADER_LEN + Len(Payload(p))
  BY <1>2, EncodeIs
<1>4. HEADER_LEN + Len(Payload(p)) <= UsizeMax
  <2>1. Len(Encode(p, 0)) = HEADER_LEN + Len(Payload(p))
    <3>1. 0 \in Nat
      OBVIOUS
    <3> QED
      BY <1>2, <3>1, EncodeIs
  <2> QED
    BY <1>1, <2>1
<1>5. Begins(buf, e, p)
  BY <1>3 DEF Begins
<1>6. p.kind \notin {"Probe", "Echo"} /\ Len(buf) = Len(e) => Ends(buf, p)
  <2>1. Len(Payload(p)) \in Nat /\ Len(buf) \in Nat /\ UsizeMax \in Nat
    <3>1. UsizeMax \in Nat
      BY Sizes
    <3> QED
      BY <1>2, <3>1
  <2> QED
    BY <1>2, <1>3, <1>4, <2>1 DEF Ends
<1>7. CASE p.kind = "Hello"
  <2>1. p \in [kind : {"Hello"}, return_route : Seq(Byte)]
    BY <1>1, <1>7, ShapeIs
  <2>2. Len(p.return_route) <= UsizeMax
    <3>1. Len(Payload(p)) = W64 + Len(p.return_route) /\ Len(p.return_route) \in Nat /\ W64 \in Nat
      <4>1. p.return_route \in Seq(Byte) /\ 0 \in Nat
        BY <2>1
      <4>2. Len(Payload(p)) = W64 + Len(p.return_route)
        BY <1>7, <4>1, HelloPayload
      <4>3. W64 \in Nat
        BY Sizes
      <4> QED
        BY <4>1, <4>2, <4>3
    <3>2. UsizeMax \in Nat /\ HEADER_LEN + (W64 + Len(p.return_route)) <= UsizeMax
      BY <1>4, <3>1, Sizes
    <3> QED
      BY <1>2, <3>1, <3>2
  <2>3. /\ Whole("Hello", buf) => Read("Hello", buf) = p
        /\ Ends(buf, p) => Whole("Hello", buf)
    BY <1>5, <2>1, <2>2, HelloBack
  <2> QED
    BY <1>1, <1>6, <1>7, <2>3, AsSentKind DEF Faithful, OpenEnded
<1>8. CASE p.kind = "Probe"
  <2>1. p \in [kind : {"Probe"}, seq : U64, t0 : U64]
    BY <1>1, <1>8, ShapeIs
  <2>2. Read("Probe", buf) = p
    BY <1>5, <2>1, ProbeBack
  <2>3. Whole("Probe", buf)
    BY DEF Whole
  <2> QED
    BY <1>1, <1>8, <2>2, <2>3, AsSentKind DEF Faithful, OpenEnded
<1>9. CASE p.kind = "Echo"
  <2>1. p \in [kind : {"Echo"}, seq : U64, t0 : U64, t1 : U64, t2 : U64]
    BY <1>1, <1>9, ShapeIs
  <2>2. Read("Echo", buf) = p
    BY <1>5, <2>1, EchoBack
  <2>3. Whole("Echo", buf)
    BY DEF Whole
  <2> QED
    BY <1>1, <1>9, <2>2, <2>3, AsSentKind DEF Faithful, OpenEnded
<1>10. CASE p.kind = "Manifest"
  <2>1. p \in [kind : {"Manifest"}, xfer : U64, total_len : U64, chunk_size : U32,
               chunk_count : U32, crc32 : U32, name : Text]
    BY <1>1, <1>10, ShapeIs
  <2>2. /\ Whole("Manifest", buf) => Read("Manifest", buf) = AsSent(p)
        /\ Ends(buf, p) => Whole("Manifest", buf)
    BY <1>5, <2>1, ManifestBack
  <2> QED
    BY <1>6, <1>10, <2>2 DEF Faithful, OpenEnded
<1>11. CASE p.kind = "ManifestOk"
  <2>1. p \in [kind : {"ManifestOk"}, xfer : U64, accepted : BOOLEAN, message : Text]
    BY <1>1, <1>11, ShapeIs
  <2>2. /\ Whole("ManifestOk", buf) => Read("ManifestOk", buf) = AsSent(p)
        /\ Ends(buf, p) => Whole("ManifestOk", buf)
    BY <1>5, <2>1, ManifestOkBack
  <2> QED
    BY <1>6, <1>11, <2>2 DEF Faithful, OpenEnded
<1>12. CASE p.kind = "Chunk"
  <2>1. p \in [kind : {"Chunk"}, xfer : U64, index : U32, data : Seq(Byte)]
    BY <1>1, <1>12, ShapeIs
  <2>2. /\ Read("Chunk", buf) = [AsSent(p) EXCEPT !.data = Read("Chunk", buf).data]
        /\ IsPrefix(Read("Chunk", buf).data, AsSent(p).data)
        /\ Len(buf) = Len(e) => Read("Chunk", buf) = AsSent(p)
    BY <1>3, <1>5, <1>12, <2>1, ChunkBack
  <2>3. Whole("Chunk", buf)
    BY DEF Whole
  <2> QED
    BY <1>12, <2>2, <2>3 DEF Faithful, OpenEnded
<1>13. CASE p.kind = "Status"
  <2>1. p \in [kind : {"Status"}, xfer : U64]
    BY <1>1, <1>13, ShapeIs
  <2>2. Read("Status", buf) = p
    BY <1>5, <2>1, StatusBack
  <2>3. Whole("Status", buf)
    BY DEF Whole
  <2> QED
    BY <1>1, <1>13, <2>2, <2>3, AsSentKind DEF Faithful, OpenEnded
<1>14. CASE p.kind = "StatusReply"
  <2>1. p \in [kind : {"StatusReply"}, xfer : U64, state : Byte, missing_total : U32,
               missing : Seq(U32)]
    BY <1>1, <1>14, ShapeIs
  <2>2. /\ Whole("StatusReply", buf) => Read("StatusReply", buf) = AsSent(p)
        /\ Ends(buf, p) => Whole("StatusReply", buf)
    BY <1>5, <2>1, ReplyBack
  <2> QED
    BY <1>6, <1>14, <2>2 DEF Faithful, OpenEnded
<1>15. CASE p.kind = "Routes"
  <2>1. p \in [kind : {"Routes"}, blobs : Seq(Seq(Byte))]
    BY <1>1, <1>15, ShapeIs
  <2>2. /\ Whole("Routes", buf) => Read("Routes", buf) = AsSent(p)
        /\ Ends(buf, p) => Whole("Routes", buf)
    BY <1>5, <2>1, RoutesBack
  <2> QED
    BY <1>6, <1>15, <2>2 DEF Faithful, OpenEnded
<1>16. CASE p.kind = "Social"
  <2>1. p \in [kind : {"Social"}, json : Seq(Byte)]
    BY <1>1, <1>16, ShapeIs
  <2>2. /\ Read("Social", buf).kind = "Social"
        /\ IsPrefix(Read("Social", buf).json, AsSent(p).json)
        /\ Len(buf) = Len(e) => Read("Social", buf) = AsSent(p)
    BY <1>3, <1>5, <1>16, <2>1, SocialBack
  <2>3. Whole("Social", buf)
    BY DEF Whole
  <2> QED
    BY <1>16, <2>2, <2>3 DEF Faithful, OpenEnded
<1> QED
  BY <1>2, <1>7, <1>8, <1>9, <1>10, <1>11, <1>12, <1>13, <1>14, <1>15, <1>16 DEF KindNames

\* What decode makes of a beginning of p's bytes.
LEMMA SentBack ==
  ASSUME NEW p \in Packets, NEW pad \in Nat, NEW e, e = Encode(p, pad),
         NEW buf \in Seq(Byte), Lies(buf, e, 0)
  PROVE  /\ Decode(buf) # NoPacket =>
              Decode(buf) = Read(p.kind, buf) /\ Whole(p.kind, buf) /\ Faithful(buf, e, p)
         /\ Len(buf) = Len(e) => Decode(buf) = AsSent(p)
<1>1. p \in PacketShape /\ p.kind \in KindNames
  BY PacketAssumption, ShapeIs
<1>2. Payload(p) \in Seq(Byte) /\ HEADER_LEN + Len(Payload(p)) >= MinLen[p.kind]
  BY <1>1, PayloadIs
<1>3. e \in Seq(Byte) /\ Headed(p.kind, e) /\ Lies(Payload(p), e, HEADER_LEN)
  BY <1>1, <1>2, EncodeIs
<1>4. Decode(buf) =
        IF Len(buf) >= MinLen[p.kind] /\ Whole(p.kind, buf) THEN Read(p.kind, buf) ELSE NoPacket
  BY <1>1, <1>3, DecodeOf
<1>5. Len(buf) >= MinLen[p.kind] => Faithful(buf, e, p)
  BY KindsBack
<1>6. ASSUME Len(buf) = Len(e)
      PROVE  Decode(buf) = AsSent(p)
  <2>1. Len(e) >= MinLen[p.kind]
    <3>1. HEADER_LEN + Len(Payload(p)) <= Len(e)
      BY <1>3 DEF Lies
    <3>2. Len(e) \in Nat /\ Len(Payload(p)) \in Nat
      BY <1>2, <1>3
    <3>3. MinLen[p.kind] \in Nat
      BY <1>1, MinLens
    <3>4. HEADER_LEN \in Nat
      BY Sizes
    <3> QED
      BY <1>2, <3>1, <3>2, <3>3, <3>4
  <2>2. Faithful(buf, e, p)
    BY <1>5, <1>6, <2>1
  <2>3. Whole(p.kind, buf) /\ Read(p.kind, buf) = AsSent(p)
    BY <1>6, <2>2 DEF Faithful
  <2> QED
    BY <1>4, <1>6, <2>1, <2>3
<1> QED
  BY <1>4, <1>5, <1>6

-----------------------------------------------------------------------------
(* The steps.                                                              *)

\* What is there before anything was changed is a beginning of what was sent.
WireInv ==
  /\ sent \in Packets \X Pads
  /\ spoilt \in BOOLEAN
  /\ wire \in Seq(Byte)
  /\ ~ spoilt => Lies(wire, Encode(sent[1], sent[2]), 0)

LEMMA SentIs ==
  ASSUME NEW s \in Packets \X Pads
  PROVE  /\ s[1] \in Packets /\ s[2] \in Nat /\ s[1].kind \in KindNames
         /\ Encode(s[1], s[2]) \in Seq(Byte)
         /\ Lies(Encode(s[1], s[2]), Encode(s[1], s[2]), 0)
<1>1. s[1] \in Packets /\ s[2] \in Nat
  BY CodecAssumption
<1>2. s[1] \in PacketShape /\ s[1].kind \in KindNames
  BY <1>1, PacketAssumption, ShapeIs
<1>3. Payload(s[1]) \in Seq(Byte)
  BY <1>2, PayloadIs
<1>4. Encode(s[1], s[2]) \in Seq(Byte)
  BY <1>1, <1>2, <1>3, EncodeIs
<1> QED
  BY <1>1, <1>2, <1>4, LiesSelf

LEMMA WireStart ==
  ASSUME Init
  PROVE  WireInv
BY SentIs DEF Init, WireInv

LEMMA WireStep ==
  ASSUME WireInv, [Next]_vars
  PROVE  WireInv'
<1> DEFINE e == Encode(sent[1], sent[2])
<1>0. /\ sent \in Packets \X Pads /\ spoilt \in BOOLEAN /\ wire \in Seq(Byte)
      /\ ~ spoilt => Lies(wire, e, 0)
  BY DEF WireInv
<1> HIDE DEF e
<1>1. ASSUME NEW n \in 0 .. Len(wire), Cut(n)
      PROVE  WireInv'
  <2>1. wire' = Start(wire, n) /\ sent' = sent /\ spoilt' = spoilt /\ n \in Nat
    BY <1>0, <1>1 DEF Cut
  <2>2. /\ wire' \in Seq(Byte) /\ Len(wire') \in Nat /\ Len(wire') <= Len(wire)
        /\ \A i \in 1 .. Len(wire') : wire'[i] = wire[i]
    <3>1. /\ wire' \in Seq(Byte) /\ Len(wire') = IF Len(wire) < n THEN Len(wire) ELSE n
          /\ \A i \in 1 .. Len(wire') : wire'[i] = wire[i]
      BY <1>0, <2>1, StartIs
    <3> QED
      BY <1>0, <2>1, <3>1
  <2>3. ASSUME ~ spoilt
        PROVE  Lies(wire', e, 0)
    <3>1. 0 + Len(wire) <= Len(e) /\ \A i \in 1 .. Len(wire) : e[0 + i] = wire[i]
      BY <1>0, <2>3 DEF Lies
    <3>2. Len(e) \in Nat /\ Len(wire) \in Nat
      BY <1>0, SentIs DEF e
    <3>3. \A i \in 1 .. Len(wire') : i \in 1 .. Len(wire)
      BY <2>2, <3>2
    <3>4. 0 + Len(wire') <= Len(e)
      BY <2>2, <3>1, <3>2
    <3>5. \A i \in 1 .. Len(wire') : e[0 + i] = wire'[i]
      BY <2>2, <3>1, <3>3
    <3> QED
      BY <3>4, <3>5 DEF Lies
  <2> QED
    BY <1>0, <2>1, <2>2, <2>3 DEF WireInv, e
<1>2. ASSUME NEW i \in DOMAIN wire, NEW b \in Byte, Spoil(i, b)
      PROVE  WireInv'
  <2>1. spoilt' = TRUE /\ wire' = [wire EXCEPT ![i] = b] /\ sent' = sent
    BY <1>2 DEF Spoil
  <2>2. wire' \in Seq(Byte)
    BY <1>0, <2>1
  <2> QED
    BY <1>0, <2>1, <2>2 DEF WireInv
<1>3. ASSUME UNCHANGED vars
      PROVE  WireInv'
  BY <1>0, <1>3 DEF WireInv, vars, e
<1> QED
  BY <1>1, <1>2, <1>3 DEF Next

\* Whatever is cut off or changed, what is on the wire is bytes; until a byte is
\* changed they are a beginning of the bytes that were sent.
THEOREM WireInvariant == Spec => []WireInv
<1>1. Init => WireInv
  BY WireStart
<1>2. WireInv /\ [Next]_vars => WireInv'
  BY WireStep
<1> QED
  BY <1>1, <1>2, PTL DEF Spec

LEMMA RoundTripHolds ==
  ASSUME WireInv
  PROVE  RoundTrip
<1> SUFFICES ASSUME Intact PROVE Decode(wire) = AsSent(sent[1])
  BY DEF RoundTrip
<1>1. sent \in Packets \X Pads /\ wire = Encode(sent[1], sent[2])
  BY DEF WireInv, Intact
<1>2. sent[1] \in Packets /\ sent[2] \in Nat /\ wire \in Seq(Byte) /\ Lies(wire, wire, 0)
  BY <1>1, SentIs
<1> QED
  BY <1>1, <1>2, SentBack

\* What arrives whole is decoded to what was sent, whatever the packet, the widths
\* and the limits: encode and decode agree on every field of every kind.
THEOREM RoundTripTheorem == Spec => []RoundTrip
<1>1. WireInv => RoundTrip
  BY RoundTripHolds
<1> QED
  BY <1>1, WireInvariant, PTL

LEMMA CutIsDroppedHolds ==
  ASSUME WireInv
  PROVE  CutIsDropped
<1> DEFINE s == sent[1]
           p == AsSent(s)
           d == Decode(wire)
           e == Encode(s, sent[2])
<1> SUFFICES ASSUME ~ spoilt, d # NoPacket
             PROVE  /\ d.kind = p.kind
                    /\ p.kind \notin OpenEnded => d = p
                    /\ p.kind = "Chunk" => d = [p EXCEPT !.data = d.data] /\ IsPrefix(d.data, p.data)
                    /\ p.kind = "Social" => IsPrefix(d.json, p.json)
  BY DEF CutIsDropped
<1>1. sent \in Packets \X Pads /\ wire \in Seq(Byte) /\ Lies(wire, e, 0)
  BY DEF WireInv
<1>2. s \in Packets /\ sent[2] \in Nat
  BY <1>1, SentIs
<1>3. d = Read(s.kind, wire) /\ Whole(s.kind, wire) /\ Faithful(wire, e, s)
  BY <1>1, <1>2, SentBack
<1>4. p.kind = s.kind
  BY <1>2, PacketAssumption, AsSentKind
<1> HIDE DEF s, p, d, e
<1>5. CASE s.kind \notin OpenEnded
  <2>1. d = p
    BY <1>3, <1>5 DEF Faithful, p
  <2> QED
    BY <1>4, <1>5, <2>1 DEF OpenEnded
<1>6. CASE s.kind = "Chunk"
  <2>1. d = [p EXCEPT !.data = d.data] /\ IsPrefix(d.data, p.data)
    BY <1>3, <1>6 DEF Faithful, p
  <2>2. d.kind = p.kind
    <3>1. s \in [kind : {"Chunk"}, xfer : U64, index : U32, data : Seq(Byte)]
      BY <1>2, <1>6, PacketAssumption, ShapeIs
    <3>2. p = [s EXCEPT !.data = Start(@, MAX_CHUNK_DATA)]
      BY <1>6 DEF p, AsSent
    <3>3. p = [kind |-> "Chunk", xfer |-> s.xfer, index |-> s.index, data |-> p.data]
      BY <3>1, <3>2
    <3> QED
      BY <2>1, <3>3
  <2> QED
    BY <1>4, <1>6, <2>1, <2>2 DEF OpenEnded
<1>7. CASE s.kind = "Social"
  <2>1. d.kind = "Social" /\ IsPrefix(d.json, p.json)
    BY <1>3, <1>7 DEF Faithful, p
  <2> QED
    BY <1>4, <1>7, <2>1 DEF OpenEnded
<1> QED
  BY <1>5, <1>6, <1>7 DEF OpenEnded

\* Of a message cut short anywhere nothing is made up: it is dropped, or what is
\* missing was padding or the end of an open-ended payload.
THEOREM CutIsDroppedTheorem == Spec => []CutIsDropped
<1>1. WireInv => CutIsDropped
  BY CutIsDroppedHolds
<1> QED
  BY <1>1, WireInvariant, PTL

-----------------------------------------------------------------------------
(* What is read is there.                                                  *)

\* The bytes of d are there, behind a header.
There(d, buf) == Payload(d) \in Seq(Byte) /\ Lies(Payload(d), buf, HEADER_LEN)

LEMMA UintThere ==
  ASSUME NEW buf \in Seq(Byte), NEW off \in Nat
  PROVE  /\ off + W64 <= Len(buf) =>
              Get(buf, off, W64) \in U64 /\ Lies(Put(Get(buf, off, W64), W64), buf, off)
         /\ off + W32 <= Len(buf) =>
              Get(buf, off, W32) \in U32 /\ Lies(Put(Get(buf, off, W32), W32), buf, off)
<1>1. W64 \in Nat /\ W32 \in Nat
  BY Sizes
<1>2. ASSUME off + W64 <= Len(buf)
      PROVE  Get(buf, off, W64) \in U64 /\ Lies(Put(Get(buf, off, W64), W64), buf, off)
  BY <1>1, <1>2, FieldThere, Uints
<1>3. ASSUME off + W32 <= Len(buf)
      PROVE  Get(buf, off, W32) \in U32 /\ Lies(Put(Get(buf, off, W32), W32), buf, off)
  BY <1>1, <1>3, FieldThere, Uints
<1> QED
  BY <1>2, <1>3

LEMMA HelloThere ==
  ASSUME NEW buf \in Seq(Byte), Len(buf) >= MinLen.Hello, Whole("Hello", buf),
         NEW d, d = Read("Hello", buf)
  PROVE  d.kind = "Hello" /\ There(d, buf)
<1> DEFINE n == Get(buf, HEADER_LEN, W64)
           s == Slice(buf, HEADER_LEN + W64, n)
<1>1. /\ HEADER_LEN \in Nat /\ W64 \in Nat /\ HEADER_LEN + W64 \in Nat /\ Len(buf) \in Nat
      /\ HEADER_LEN + 0 = HEADER_LEN /\ MinLen.Hello = HEADER_LEN + W64
      /\ HEADER_LEN + W64 <= Len(buf)
  <2>1. HEADER_LEN \in Nat /\ W64 \in Nat
    BY Sizes
  <2>2. MinLen.Hello = HEADER_LEN + W64
    BY LensAre
  <2> QED
    BY <2>1, <2>2
<1>2. n \in Nat /\ Lies(Put(n, W64), buf, HEADER_LEN)
  BY <1>1, UintThere, Uints
<1> HIDE DEF n
<1>3. HEADER_LEN + W64 + n <= Len(buf)
  <2>1. Whole("Hello", buf) <=> Holds(buf, MinLen.Hello, Get(buf, HEADER_LEN, W64))
    BY DEF Whole
  <2> QED
    BY <1>1, <2>1 DEF Holds, n
<1>4. s \in Seq(Byte) /\ Len(s) = n /\ Lies(s, buf, HEADER_LEN + W64)
  BY <1>1, <1>2, <1>3, SliceIs
<1>5. d.kind = "Hello" /\ d.return_route = s
  <2>1. d = [kind |-> "Hello",
             return_route |-> Slice(buf, MinLen.Hello, Get(buf, HEADER_LEN + 0, W64))]
    BY DEF Read
  <2> QED
    BY <1>1, <2>1 DEF n
<1> HIDE DEF s
<1> QED
  BY <1>1, <1>2, <1>4, <1>5, HelloPayload DEF There

LEMMA ProbeThere ==
  ASSUME NEW buf \in Seq(Byte), Len(buf) >= MinLen.Probe, NEW d, d = Read("Probe", buf)
  PROVE  d.kind = "Probe" /\ There(d, buf)
<1>1. /\ HEADER_LEN \in Nat /\ W64 \in Nat /\ HEADER_LEN + W64 \in Nat
      /\ HEADER_LEN + 0 = HEADER_LEN
      /\ HEADER_LEN + W64 <= Len(buf) /\ HEADER_LEN + W64 + W64 <= Len(buf)
  <2>1. HEADER_LEN \in Nat /\ W64 \in Nat /\ Len(buf) \in Nat
    BY Sizes
  <2>2. MinLen.Probe = HEADER_LEN + 2 * W64
    BY LensAre
  <2> QED
    BY <2>1, <2>2
<1>2. d = [kind |-> "Probe", seq |-> Get(buf, HEADER_LEN + 0, W64),
           t0 |-> Get(buf, HEADER_LEN + W64, W64)]
  BY DEF Read
<1>3. d.kind = "Probe" /\ d.seq = Get(buf, HEADER_LEN, W64) /\ d.t0 = Get(buf, HEADER_LEN + W64, W64)
  BY <1>1, <1>2
<1>4. /\ d.seq \in U64 /\ Lies(Put(d.seq, W64), buf, HEADER_LEN)
      /\ d.t0 \in U64 /\ Lies(Put(d.t0, W64), buf, HEADER_LEN + W64)
  BY <1>1, <1>3, UintThere
<1> QED
  BY <1>1, <1>3, <1>4, ProbePayload DEF There

LEMMA EchoThere ==
  ASSUME NEW buf \in Seq(Byte), Len(buf) >= MinLen.Echo, NEW d, d = Read("Echo", buf)
  PROVE  d.kind = "Echo" /\ There(d, buf)
<1>1. /\ HEADER_LEN \in Nat /\ W64 \in Nat /\ HEADER_LEN + W64 \in Nat
      /\ HEADER_LEN + 0 = HEADER_LEN
      /\ HEADER_LEN + W64 <= Len(buf) /\ HEADER_LEN + W64 + W64 <= Len(buf)
      /\ HEADER_LEN + (W64 + W64) = HEADER_LEN + 2 * W64
      /\ HEADER_LEN + 2 * W64 \in Nat /\ HEADER_LEN + 2 * W64 + W64 <= Len(buf)
      /\ HEADER_LEN + (W64 + W64 + W64) = HEADER_LEN + 3 * W64
      /\ HEADER_LEN + 3 * W64 \in Nat /\ HEADER_LEN + 3 * W64 + W64 <= Len(buf)
  <2>1. HEADER_LEN \in Nat /\ W64 \in Nat /\ Len(buf) \in Nat
    BY Sizes
  <2>2. MinLen.Echo = HEADER_LEN + 4 * W64
    BY LensAre
  <2> QED
    BY <2>1, <2>2
<1>2. d = [kind |-> "Echo", seq |-> Get(buf, HEADER_LEN + 0, W64),
           t0 |-> Get(buf, HEADER_LEN + W64, W64), t1 |-> Get(buf, HEADER_LEN + 2 * W64, W64),
           t2 |-> Get(buf, HEADER_LEN + 3 * W64, W64)]
  BY DEF Read
<1>3. d.kind = "Echo" /\ d.seq = Get(buf, HEADER_LEN, W64)
      /\ d.t0 = Get(buf, HEADER_LEN + W64, W64) /\ d.t1 = Get(buf, HEADER_LEN + 2 * W64, W64)
      /\ d.t2 = Get(buf, HEADER_LEN + 3 * W64, W64)
  BY <1>1, <1>2
<1>4. /\ d.seq \in U64 /\ Lies(Put(d.seq, W64), buf, HEADER_LEN)
      /\ d.t0 \in U64 /\ Lies(Put(d.t0, W64), buf, HEADER_LEN + W64)
  BY <1>1, <1>3, UintThere
<1>5. /\ d.t1 \in U64 /\ Lies(Put(d.t1, W64), buf, HEADER_LEN + 2 * W64)
      /\ d.t2 \in U64 /\ Lies(Put(d.t2, W64), buf, HEADER_LEN + 3 * W64)
  BY <1>1, <1>3, UintThere
<1>6. /\ Lies(Put(d.t1, W64), buf, HEADER_LEN + (W64 + W64))
      /\ Lies(Put(d.t2, W64), buf, HEADER_LEN + (W64 + W64 + W64))
  BY <1>1, <1>5
<1> QED
  BY <1>1, <1>3, <1>4, <1>5, <1>6, EchoPayload DEF There

LEMMA StatusThere ==
  ASSUME NEW buf \in Seq(Byte), Len(buf) >= MinLen.Status, NEW d, d = Read("Status", buf)
  PROVE  d.kind = "Status" /\ There(d, buf)
<1>1. /\ HEADER_LEN \in Nat /\ W64 \in Nat /\ HEADER_LEN + 0 = HEADER_LEN
      /\ HEADER_LEN + W64 <= Len(buf)
  <2>1. HEADER_LEN \in Nat /\ W64 \in Nat
    BY Sizes
  <2>2. MinLen.Status = HEADER_LEN + W64
    BY LensAre
  <2> QED
    BY <2>1, <2>2
<1>2. d = [kind |-> "Status", xfer |-> Get(buf, HEADER_LEN + 0, W64)]
  BY DEF Read
<1>3. d.kind = "Status" /\ d.xfer = Get(buf, HEADER_LEN, W64)
  BY <1>1, <1>2
<1>4. d.xfer \in U64 /\ Lies(Put(d.xfer, W64), buf, HEADER_LEN)
  BY <1>1, <1>3, UintThere
<1> QED
  BY <1>3, <1>4, StatusPayload DEF There

LEMMA ManifestThere ==
  ASSUME NEW buf \in Seq(Byte), Len(buf) >= MinLen.Manifest, Whole("Manifest", buf),
         NEW d, d = Read("Manifest", buf), ~ Rewritten(d)
  PROVE  d.kind = "Manifest" /\ There(d, buf)
<1> DEFINE at == HEADER_LEN + (2 * W64 + 3 * W32)
<1>1. /\ HEADER_LEN \in Nat /\ at \in Nat /\ HEADER_LEN + 0 = HEADER_LEN
      /\ HEADER_LEN + W64 <= Len(buf)
      /\ HEADER_LEN + W64 \in Nat /\ HEADER_LEN + W64 + W64 <= Len(buf)
      /\ HEADER_LEN + 2 * W64 \in Nat /\ HEADER_LEN + 2 * W64 + W32 <= Len(buf)
      /\ HEADER_LEN + (2 * W64 + W32) \in Nat /\ HEADER_LEN + (2 * W64 + W32) + W32 <= Len(buf)
      /\ HEADER_LEN + (2 * W64 + 2 * W32) \in Nat
      /\ HEADER_LEN + (2 * W64 + 2 * W32) + W32 <= Len(buf)
      /\ MinLen.Manifest = at
  <2>1. HEADER_LEN \in Nat /\ W64 \in Nat /\ W32 \in Nat /\ Len(buf) \in Nat
    BY Sizes
  <2>2. MinLen.Manifest = at
    BY LensAre
  <2> QED
    BY <2>1, <2>2
<1> HIDE DEF at
<1>2. d = [kind |-> "Manifest", xfer |-> Get(buf, HEADER_LEN + 0, W64),
           total_len |-> Get(buf, HEADER_LEN + W64, W64),
           chunk_size |-> Get(buf, HEADER_LEN + 2 * W64, W32),
           chunk_count |-> Get(buf, HEADER_LEN + (2 * W64 + W32), W32),
           crc32 |-> Get(buf, HEADER_LEN + (2 * W64 + 2 * W32), W32),
           name |-> Lossy(ShortAt(buf, MinLen.Manifest))]
  BY DEF Read
<1>3. /\ d.kind = "Manifest" /\ d.xfer = Get(buf, HEADER_LEN, W64)
      /\ d.total_len = Get(buf, HEADER_LEN + W64, W64)
      /\ d.chunk_size = Get(buf, HEADER_LEN + 2 * W64, W32)
      /\ d.chunk_count = Get(buf, HEADER_LEN + (2 * W64 + W32), W32)
      /\ d.crc32 = Get(buf, HEADER_LEN + (2 * W64 + 2 * W32), W32)
      /\ d.name = Lossy(ShortAt(buf, at))
  BY <1>1, <1>2
<1>4. /\ d.xfer \in U64 /\ Lies(Put(d.xfer, W64), buf, HEADER_LEN)
      /\ d.total_len \in U64 /\ Lies(Put(d.total_len, W64), buf, HEADER_LEN + W64)
  BY <1>1, <1>3, UintThere
<1>5. d.chunk_size \in U32 /\ Lies(Put(d.chunk_size, W32), buf, HEADER_LEN + 2 * W64)
  BY <1>1, <1>3, UintThere
<1>6. /\ d.chunk_count \in U32 /\ Lies(Put(d.chunk_count, W32), buf, HEADER_LEN + (2 * W64 + W32))
      /\ d.crc32 \in U32 /\ Lies(Put(d.crc32, W32), buf, HEADER_LEN + (2 * W64 + 2 * W32))
  BY <1>1, <1>3, UintThere
<1>7. HasShort(buf, at)
  BY <1>1 DEF Whole
<1>8. d.name = ShortAt(buf, at)
  <2>1. ShortAt(buf, at) \in Seq(Byte)
    BY <1>1, <1>7, ShortThere
  <2>2. ~ Contains(d.name, Replacement)
    BY <1>3 DEF Rewritten
  <2> QED
    BY <1>3, <2>1, <2>2, LossyIs
<1>9. d.name \in Seq(Byte) /\ Lies(Short(d.name), buf, at)
  BY <1>1, <1>7, <1>8, ShortThere
<1> QED
  BY <1>1, <1>3, <1>4, <1>5, <1>6, <1>9, ManifestPayload DEF There, at

LEMMA ManifestOkThere ==
  ASSUME NEW buf \in Seq(Byte), Len(buf) >= MinLen.ManifestOk, Whole("ManifestOk", buf),
         NEW d, d = Read("ManifestOk", buf), ~ Rewritten(d)
  PROVE  d.kind = "ManifestOk" /\ There(d, buf)
<1> DEFINE at == HEADER_LEN + (W64 + 1)
           y == <<IF d.accepted THEN 1 ELSE 0>>
<1>1. /\ HEADER_LEN \in Nat /\ at \in Nat /\ HEADER_LEN + 0 = HEADER_LEN
      /\ HEADER_LEN + W64 <= Len(buf)
      /\ HEADER_LEN + W64 \in Nat /\ HEADER_LEN + W64 + 1 <= Len(buf)
      /\ HEADER_LEN + W64 + 1 \in 1 .. Len(buf)
      /\ MinLen.ManifestOk = at
  <2>1. HEADER_LEN \in Nat /\ W64 \in Nat /\ Len(buf) \in Nat
    BY Sizes
  <2>2. MinLen.ManifestOk = at
    BY LensAre
  <2> QED
    BY <2>1, <2>2
<1> HIDE DEF at
<1>2. d = [kind |-> "ManifestOk", xfer |-> Get(buf, HEADER_LEN + 0, W64),
           accepted |-> buf[HEADER_LEN + W64 + 1] # 0,
           message |-> Lossy(ShortAt(buf, MinLen.ManifestOk))]
  BY Zenon DEF Read
<1>3. /\ d.kind = "ManifestOk" /\ d.xfer = Get(buf, HEADER_LEN, W64)
      /\ d.accepted = (buf[HEADER_LEN + W64 + 1] # 0)
      /\ d.message = Lossy(ShortAt(buf, at))
  BY <1>1, <1>2
<1>4. d.xfer \in U64 /\ Lies(Put(d.xfer, W64), buf, HEADER_LEN)
  BY <1>1, <1>3, UintThere
<1>5. HasShort(buf, at)
  BY <1>1 DEF Whole
<1>6. ~ d.accepted /\ d.message = ShortAt(buf, at)
  <2>1. ShortAt(buf, at) \in Seq(Byte)
    BY <1>1, <1>5, ShortThere
  <2>2. ~ Contains(d.message, Replacement) /\ ~ d.accepted
    BY <1>3 DEF Rewritten
  <2> QED
    BY <1>3, <2>1, <2>2, LossyIs
<1>7. d.message \in Seq(Byte) /\ Lies(Short(d.message), buf, at)
  BY <1>1, <1>5, <1>6, ShortThere
<1>8. Lies(y, buf, HEADER_LEN + W64)
  <2>1. buf[HEADER_LEN + W64 + 1] = 0
    BY <1>3, <1>6
  <2>2. Len(y) = 1 /\ y[1] = 0
    BY <1>6
  <2> HIDE DEF y
  <2> QED
    BY <1>1, <2>1, <2>2 DEF Lies
<1> QED
  BY <1>1, <1>3, <1>4, <1>7, <1>8, ManifestOkPayload DEF There, at

LEMMA StartThere ==
  ASSUME NEW buf \in Seq(Byte), NEW off \in Nat, NEW s \in Seq(Byte), Lies(s, buf, off),
         NEW n \in Nat
  PROVE  Lies(Start(s, n), buf, off)
<1> DEFINE m == Len(Start(s, n))
<1>1. /\ Len(s) \in Nat /\ Len(buf) \in Nat
      /\ m = IF Len(s) < n THEN Len(s) ELSE n
      /\ \A i \in 1 .. m : Start(s, n)[i] = s[i]
  BY StartIs
<1> HIDE DEF m
<1>2. m \in Nat /\ m <= Len(s)
  BY <1>1
<1>3. off + Len(s) <= Len(buf) /\ \A i \in 1 .. Len(s) : buf[off + i] = s[i]
  BY DEF Lies
<1>4. \A i \in 1 .. m : i \in 1 .. Len(s)
  BY <1>1, <1>2
<1>5. off + m <= Len(buf)
  BY <1>1, <1>2, <1>3
<1>6. \A i \in 1 .. m : buf[off + i] = Start(s, n)[i]
  BY <1>1, <1>3, <1>4
<1> QED
  BY <1>5, <1>6 DEF Lies, m

LEMMA ChunkThere ==
  ASSUME NEW buf \in Seq(Byte), Len(buf) >= MinLen.Chunk, NEW d, d = Read("Chunk", buf)
  PROVE  d.kind = "Chunk" /\ There(d, buf)
<1> DEFINE at == HEADER_LEN + (W64 + W32)
<1>1. /\ HEADER_LEN \in Nat /\ at \in Nat /\ HEADER_LEN + 0 = HEADER_LEN
      /\ HEADER_LEN + W64 <= Len(buf) /\ at <= Len(buf)
      /\ HEADER_LEN + W64 \in Nat /\ HEADER_LEN + W64 + W32 <= Len(buf)
      /\ MinLen["Chunk"] = at /\ MAX_CHUNK_DATA \in Nat /\ Len(buf) >= at
  <2>1. HEADER_LEN \in Nat /\ W64 \in Nat /\ W32 \in Nat /\ Len(buf) \in Nat /\ MAX_CHUNK_DATA \in Nat
    BY Sizes
  <2>2. MinLen.Chunk = at
    BY LensAre
  <2> QED
    BY <2>1, <2>2
<1> HIDE DEF at
<1>2. d = [kind |-> "Chunk", xfer |-> Get(buf, HEADER_LEN + 0, W64),
           index |-> Get(buf, HEADER_LEN + W64, W32),
           data |-> SubSeq(buf, MinLen["Chunk"] + 1, Len(buf))]
  BY DEF Read
<1>3. /\ d.kind = "Chunk" /\ d.xfer = Get(buf, HEADER_LEN, W64)
      /\ d.index = Get(buf, HEADER_LEN + W64, W32) /\ d.data = Rest(buf, at)
  BY <1>1, <1>2 DEF Rest
<1>4. d.xfer \in U64 /\ Lies(Put(d.xfer, W64), buf, HEADER_LEN)
  BY <1>1, <1>3, UintThere
<1>5. d.index \in U32 /\ Lies(Put(d.index, W32), buf, HEADER_LEN + W64)
  BY <1>1, <1>3, UintThere
<1>6. d.data \in Seq(Byte) /\ Lies(d.data, buf, at)
  BY <1>1, <1>3, RestIs
<1>7. Lies(Start(d.data, MAX_CHUNK_DATA), buf, at)
  BY <1>1, <1>6, StartThere
<1> QED
  BY <1>1, <1>3, <1>4, <1>5, <1>6, <1>7, ChunkPayload DEF There, at

LEMMA SocialThere ==
  ASSUME NEW buf \in Seq(Byte), Len(buf) >= MinLen.Social, NEW d, d = Read("Social", buf)
  PROVE  d.kind = "Social" /\ There(d, buf)
<1>1. /\ HEADER_LEN \in Nat /\ MinLen["Social"] = HEADER_LEN /\ Len(buf) >= HEADER_LEN
      /\ MaxAppMessage - HEADER_LEN \in Nat
  <2>1. MinLen.Social = HEADER_LEN
    BY LensAre
  <2> QED
    BY <2>1, Sizes
<1>2. d = [kind |-> "Social", json |-> SubSeq(buf, MinLen["Social"] + 1, Len(buf))]
  BY DEF Read
<1>3. d.kind = "Social" /\ d.json = Rest(buf, HEADER_LEN)
  BY <1>1, <1>2 DEF Rest
<1>4. d.json \in Seq(Byte) /\ Lies(d.json, buf, HEADER_LEN)
  BY <1>1, <1>3, RestIs
<1>5. Lies(Start(d.json, MaxAppMessage - HEADER_LEN), buf, HEADER_LEN)
  <2> DEFINE n == MaxAppMessage - HEADER_LEN
  <2>1. n \in Nat
    BY <1>1
  <2> HIDE DEF n
  <2>2. Lies(Start(d.json, n), buf, HEADER_LEN)
    BY <1>1, <1>4, <2>1, StartThere
  <2> QED
    BY <2>2 DEF n
<1> QED
  BY <1>3, <1>4, <1>5, SocialPayload DEF There

LEMMA ReplyThere ==
  ASSUME NEW buf \in Seq(Byte), Len(buf) >= MinLen.StatusReply, Whole("StatusReply", buf),
         NEW d, d = Read("StatusReply", buf), ~ Rewritten(d)
  PROVE  d.kind = "StatusReply" /\ There(d, buf)
<1> DEFINE at == HEADER_LEN + (W64 + 1 + 2 * W32)
           cnt == HEADER_LEN + (W64 + 1 + W32)
           n == Get(buf, cnt, W32)
<1>1. /\ HEADER_LEN \in Nat /\ W32 \in Nat /\ at \in Nat /\ cnt \in Nat /\ Len(buf) \in Nat
      /\ HEADER_LEN + 0 = HEADER_LEN /\ HEADER_LEN + W64 <= Len(buf)
      /\ HEADER_LEN + W64 \in Nat /\ HEADER_LEN + W64 + 1 <= Len(buf)
      /\ HEADER_LEN + W64 + 1 \in 1 .. Len(buf)
      /\ HEADER_LEN + (W64 + 1) \in Nat /\ HEADER_LEN + (W64 + 1) + W32 <= Len(buf)
      /\ cnt + W32 <= Len(buf) /\ HEADER_LEN + W64 + 1 + W32 = cnt
      /\ MinLen.StatusReply = at
  <2>1. HEADER_LEN \in Nat /\ W64 \in Nat /\ W32 \in Nat /\ Len(buf) \in Nat
    BY Sizes
  <2>2. MinLen.StatusReply = at
    BY LensAre
  <2> QED
    BY <2>1, <2>2
<1> HIDE DEF at
<1>2. d = [kind |-> "StatusReply", xfer |-> Get(buf, HEADER_LEN + 0, W64),
           state |-> buf[HEADER_LEN + W64 + 1],
           missing_total |-> Get(buf, HEADER_LEN + (W64 + 1), W32),
           missing |-> [i \in 1 .. n |-> Get(buf, MinLen.StatusReply + (i - 1) * W32, W32)]]
  BY Zenon DEF Read
<1> HIDE DEF cnt
<1>3. n \in U32 /\ n \in Nat /\ Lies(Put(n, W32), buf, cnt)
  BY <1>1, UintThere, Uints
<1> DEFINE get == [i \in 1 .. n |-> Get(buf, at + (i - 1) * W32, W32)]
<1>4. /\ d.kind = "StatusReply" /\ d.xfer = Get(buf, HEADER_LEN, W64)
      /\ d.state = buf[HEADER_LEN + W64 + 1]
      /\ d.missing_total = Get(buf, HEADER_LEN + (W64 + 1), W32)
      /\ d.missing = get
  <2> DEFINE m == [i \in 1 .. n |-> Get(buf, MinLen.StatusReply + (i - 1) * W32, W32)]
  <2>1. m = get
    BY <1>1
  <2>2. d = [kind |-> "StatusReply", xfer |-> Get(buf, HEADER_LEN + 0, W64),
             state |-> buf[HEADER_LEN + W64 + 1],
             missing_total |-> Get(buf, HEADER_LEN + (W64 + 1), W32), missing |-> m]
    BY <1>2
  <2>3. HEADER_LEN + 0 = HEADER_LEN
    BY <1>1
  <2> HIDE DEF m, get, n
  <2>4. /\ d.kind = "StatusReply" /\ d.xfer = Get(buf, HEADER_LEN + 0, W64)
        /\ d.state = buf[HEADER_LEN + W64 + 1]
        /\ d.missing_total = Get(buf, HEADER_LEN + (W64 + 1), W32)
        /\ d.missing = m
    BY <2>2
  <2> QED
    BY <2>1, <2>3, <2>4
<1>5. d.xfer \in U64 /\ Lies(Put(d.xfer, W64), buf, HEADER_LEN)
  BY <1>1, <1>4, UintThere
<1>6. d.missing_total \in U32 /\ Lies(Put(d.missing_total, W32), buf, HEADER_LEN + (W64 + 1))
  BY <1>1, <1>4, UintThere
<1>7. d.state \in Byte /\ Lies(<<d.state>>, buf, HEADER_LEN + W64)
  <2>1. d.state \in Byte
    BY <1>1, <1>4, ByteAt
  <2>2. Len(<<d.state>>) = 1 /\ <<d.state>>[1] = d.state
    OBVIOUS
  <2>3. HEADER_LEN + W64 + Len(<<d.state>>) <= Len(buf)
    BY <1>1, <2>2
  <2>4. ASSUME NEW i \in 1 .. Len(<<d.state>>)
        PROVE  buf[HEADER_LEN + W64 + i] = <<d.state>>[i]
    <3>1. i = 1
      BY <2>2
    <3> QED
      BY <1>4, <2>2, <3>1
  <2> QED
    BY <2>1, <2>3, <2>4 DEF Lies
<1>8. at + W32 * n <= Len(buf) /\ W32 * n \in Nat
  <2>1. Whole("StatusReply", buf) <=>
          Holds(buf, MinLen.StatusReply, W32 * Get(buf, HEADER_LEN + W64 + 1 + W32, W32))
    BY DEF Whole
  <2>2. Holds(buf, at, W32 * n)
    BY <1>1, <2>1
  <2>3. at + W32 * n <= Len(buf)
    BY <2>2 DEF Holds
  <2> HIDE DEF n
  <2>4. W32 * n \in Nat
    BY <1>1, <1>3
  <2> QED
    BY <2>3, <2>4
<1>9. ASSUME NEW i \in 1 .. n
      PROVE  get[i] \in U32 /\ Lies(Put(get[i], W32), buf, at + (i - 1) * W32)
  <2> DEFINE x == (i - 1) * W32
             y == W32 * n
  <2>1. x \in Nat /\ x + W32 <= y
    <3>1. i \in Nat /\ i - 1 \in Nat /\ n - i \in Nat
      BY <1>3
    <3>2. W32 * n - (x + W32) = W32 * (n - i)
      <4> HIDE DEF n
      <4>1. n \in Int /\ i \in Int /\ W32 \in Int
        BY <1>1, <1>3, <3>1
      <4> QED
        BY <4>1
    <3>3. W32 * (n - i) \in Nat /\ x \in Nat /\ W32 * n \in Nat
      <4> HIDE DEF n
      <4>1. \A j \in Nat : W32 * j \in Nat /\ j * W32 \in Nat
        BY <1>1
      <4> QED
        BY <1>3, <3>1, <4>1
    <3> QED
      BY <1>1, <3>2, <3>3
  <2>2. y \in Nat /\ at + y <= Len(buf)
    BY <1>8
  <2>3. get[i] = Get(buf, at + x, W32)
    OBVIOUS
  <2> HIDE DEF x, y, get
  <2>4. at + x \in Nat /\ at + x + W32 <= Len(buf)
    BY <1>1, <2>1, <2>2
  <2>5. get[i] \in U32 /\ Lies(Put(get[i], W32), buf, at + x)
    BY <2>3, <2>4, UintThere
  <2> QED
    BY <2>5 DEF x
<1>10. get \in Seq(U32) /\ Len(get) = n
  <2>1. get \in [1 .. n -> U32]
    BY <1>9
  <2> HIDE DEF get
  <2> QED
    BY <1>3, <2>1
<1>11. n <= MAX_MISSING_LISTED
  <2>1. ~ (Len(d.missing) > MAX_MISSING_LISTED)
    BY <1>4 DEF Rewritten
  <2>2. Len(d.missing) = n
    BY <1>4, <1>10
  <2>3. n \in Nat /\ MAX_MISSING_LISTED \in Nat
    BY <1>3, Sizes
  <2> HIDE DEF n
  <2> QED
    BY <2>1, <2>2, <2>3
<1>12. d.missing \in Seq(U32) /\ n = Len(Listed(d))
  <2>1. Len(d.missing) = n /\ d.missing \in Seq(U32)
    BY <1>4, <1>10
  <2>2. Len(Start(d.missing, MAX_MISSING_LISTED)) = n
    <3>1. MAX_MISSING_LISTED \in Nat
      BY Sizes
    <3>2. Len(Start(d.missing, MAX_MISSING_LISTED)) =
            IF Len(d.missing) < MAX_MISSING_LISTED THEN Len(d.missing) ELSE MAX_MISSING_LISTED
      BY <2>1, <3>1, StartIs
    <3> HIDE DEF n
    <3> QED
      BY <1>3, <1>11, <2>1, <3>1, <3>2
  <2> QED
    BY <2>1, <2>2 DEF Listed
<1>13. \A i \in 1 .. n : Lies(Put(d.missing[i], W32), buf, at + (i - 1) * W32)
  BY <1>4, <1>9
<1>14. HEADER_LEN + (W64 + 1 + 2 * W32) <= Len(buf)
  BY <1>1, <1>8 DEF at
<1> HIDE DEF n, get
<1> QED
  BY <1>1, <1>3, <1>4, <1>5, <1>6, <1>7, <1>12, <1>13, <1>14, ReplyPayload DEF There, at, cnt

LEMMA RoutesThere ==
  ASSUME NEW buf \in Seq(Byte), Len(buf) >= MinLen.Routes, Whole("Routes", buf),
         NEW d, d = Read("Routes", buf)
  PROVE  d.kind = "Routes" /\ There(d, buf)
<1> DEFINE base == HEADER_LEN + W16
           n == Get(buf, HEADER_LEN, W16)
<1>1. HEADER_LEN \in Nat /\ W16 \in Nat /\ base \in Nat /\ base <= Len(buf) /\ U16Max \in Nat
  <2>1. HEADER_LEN \in Nat /\ W16 \in Nat /\ U16Max \in Nat
    BY Sizes
  <2>2. MinLen.Routes = HEADER_LEN + W16
    BY LensAre
  <2> QED
    BY <2>1, <2>2
<1>2. n \in Nat /\ n <= U16Max /\ Lies(Put(n, W16), buf, HEADER_LEN)
  <2>1. U16Max = Power(W16) - 1
    BY Limits
  <2>2. n \in Nat /\ n <= Power(W16) - 1 /\ Lies(Put(n, W16), buf, HEADER_LEN)
    BY <1>1, FieldThere
  <2> QED
    BY <2>1, <2>2
<1> HIDE DEF base
<1>3. PICK after \in [0 .. n -> Blobs] :
        /\ after[0] = [ok |-> TRUE, off |-> base, blobs |-> << >>]
        /\ \A k \in 1 .. n : after[k] = NextBlob(buf, after[k - 1])
        /\ ReadBlobs(buf) = after[n]
  BY <1>2, BlobsRun DEF base
<1>4. after[n].ok
  BY <1>3 DEF Whole
<1> HIDE DEF n
<1> DEFINE At(k) == after[k].off
           Blob(k) == ShortAt(buf, At(k - 1))
           Read1(k) == /\ HasShort(buf, At(k - 1))
                       /\ At(k) = At(k - 1) + W16 + Get(buf, At(k - 1), W16)
           Firsts(k) == [i \in 1 .. k |-> Blob(i)]
           T == {k \in 0 .. n : after[k].ok =>
                                  after[k].blobs = Firsts(k) /\ \A i \in 1 .. k : Read1(i)}
<1>5. 0 \in T
  <2>1. << >> = Firsts(0) /\ \A i \in 1 .. 0 : Read1(i)
    OBVIOUS
  <2>2. after[0].blobs = << >>
    BY <1>3
  <2> HIDE DEF Firsts, Read1
  <2> QED
    BY <1>2, <2>1, <2>2
<1>6. ASSUME NEW k \in 1 .. n, k - 1 \in T
      PROVE  k \in T
  <2> DEFINE r == after[k - 1]
  <2>1. r \in Blobs /\ after[k] = NextBlob(buf, r)
    <3>1. k - 1 \in 0 .. n
      BY <1>2
    <3> QED
      BY <1>3, <3>1
  <2>2. r.ok => r.blobs = Firsts(k - 1) /\ \A i \in 1 .. k - 1 : Read1(i)
    BY <1>6
  <2>0. r.off = At(k - 1)
    OBVIOUS
  <2> HIDE DEF T, Firsts, r
  <2>3. ASSUME after[k].ok
        PROVE  after[k].blobs = Firsts(k) /\ \A i \in 1 .. k : Read1(i)
    <3>1. r.ok /\ HasShort(buf, r.off)
      BY <2>1, <2>3, NextBlobIs
    <3>2. /\ after[k].off = r.off + W16 + Get(buf, r.off, W16)
          /\ after[k].blobs = Append(r.blobs, ShortAt(buf, r.off))
      BY <2>1, <3>1, NextBlobIs
    <3>3. Read1(k)
      BY <2>0, <3>1, <3>2
    <3>4. Append(Firsts(k - 1), Blob(k)) = Firsts(k)
      <4> HIDE DEF Blob
      <4>1. k \in Nat /\ k >= 1
        BY <1>2
      <4>2. Len(Firsts(k - 1)) = k - 1 /\ DOMAIN Firsts(k) = 1 .. k
        BY <4>1 DEF Firsts
      <4>3. Append(Firsts(k - 1), Blob(k)) =
              [i \in 1 .. k |-> IF i = k THEN Blob(k) ELSE Firsts(k - 1)[i]]
        BY <4>1, <4>2
      <4>4. \A i \in 1 .. k : (IF i = k THEN Blob(k) ELSE Firsts(k - 1)[i]) = Blob(i)
        BY <4>1 DEF Firsts
      <4> QED
        BY <4>3, <4>4 DEF Firsts
    <3>5. \A i \in 1 .. k : i \in 1 .. k - 1 \/ i = k
      BY <1>2
    <3>6. r.blobs = Firsts(k - 1) /\ \A i \in 1 .. k - 1 : Read1(i)
      BY <2>2, <3>1
    <3>7. after[k].blobs = Append(Firsts(k - 1), Blob(k))
      BY <2>0, <3>2, <3>6
    <3> HIDE DEF Read1, Blob
    <3> QED
      BY <3>3, <3>4, <3>5, <3>6, <3>7
  <2> QED
    BY <2>3 DEF T
<1>7. n \in T
  <2>1. \A k \in 0 .. n : k \in T
    <3> HIDE DEF T
    <3> QED
      BY <1>2, <1>5, <1>6, Induction
  <2> HIDE DEF T
  <2> QED
    BY <1>2, <2>1
<1>8. d.kind = "Routes" /\ d.blobs = Firsts(n) /\ \A i \in 1 .. n : Read1(i)
  <2>1. d = [kind |-> "Routes", blobs |-> ReadBlobs(buf).blobs]
    BY DEF Read
  <2>2. after[n].blobs = Firsts(n) /\ \A i \in 1 .. n : Read1(i)
    BY <1>4, <1>7
  <2> HIDE DEF Firsts, Read1
  <2> QED
    BY <1>3, <2>1, <2>2
<1>9. ASSUME NEW k \in 1 .. n
      PROVE  /\ Blob(k) \in Seq(Byte) /\ Lies(Short(Blob(k)), buf, At(k - 1))
             /\ At(k - 1) \in Nat /\ At(k) = At(k - 1) + Len(Short(Blob(k)))
  <2>1. At(k - 1) \in Nat
    <3>1. k - 1 \in 0 .. n
      BY <1>2
    <3>2. after[k - 1] \in Blobs
      BY <1>3, <3>1
    <3> QED
      BY <3>2 DEF Blobs
  <2>2. HasShort(buf, At(k - 1)) /\ At(k) = At(k - 1) + W16 + Get(buf, At(k - 1), W16)
    BY <1>8
  <2> DEFINE a == At(k - 1)
             b == ShortAt(buf, a)
             g == Get(buf, a, W16)
  <2> HIDE DEF At, a
  <2>3. a \in Nat /\ HasShort(buf, a) /\ At(k) = a + W16 + g
    BY <2>1, <2>2 DEF a
  <2>4. /\ b \in Seq(Byte) /\ Lies(Short(b), buf, a) /\ g \in Nat
        /\ Len(b) = g /\ Start(b, U16Max) = b
    BY <2>3, ShortThere
  <2>5. Len(Short(b)) = W16 + g
    BY <2>3, <2>4, ShortIs
  <2> HIDE DEF b, g
  <2>6. At(k) = a + Len(Short(b))
    BY <1>1, <2>3, <2>4, <2>5
  <2> QED
    BY <2>1, <2>4, <2>6 DEF a, b
<1>10. d.blobs \in Seq(Seq(Byte)) /\ Len(d.blobs) = n /\ \A k \in 1 .. n : d.blobs[k] = Blob(k)
  <2>1. \A k \in 1 .. n : Blob(k) \in Seq(Byte)
    BY <1>9
  <2> HIDE DEF Blob
  <2> QED
    BY <1>2, <1>8, <2>1
<1> DEFINE at == [k \in 0 .. n |-> At(k) - base]
<1>11. /\ Offsets(at, d.blobs, n)
       /\ \A k \in 1 .. n : base + at[k - 1] = At(k - 1)
  <2> HIDE DEF Blob
  <2>1. ASSUME NEW k \in 0 .. n
        PROVE  At(k) \in Nat
    <3>1. after[k] \in Blobs
      BY <1>3
    <3> QED
      BY <3>1 DEF Blobs
  <2>2. At(0) = base
    BY <1>3
  <2>3. \A k \in 1 .. n : k - 1 \in 0 .. n /\ k \in 0 .. n
    BY <1>2
  <2> HIDE DEF At
  <2>4. at[0] = 0
    BY <1>1, <1>2, <2>2
  <2>5. ASSUME NEW k \in 1 .. n
        PROVE  /\ at[k] = at[k - 1] + Len(Short(d.blobs[k])) /\ Len(Short(d.blobs[k])) \in Nat
               /\ base + at[k - 1] = At(k - 1)
    <3>1. at[k] = At(k) - base /\ at[k - 1] = At(k - 1) - base
      BY <2>3
    <3>2. /\ d.blobs[k] = Blob(k) /\ Blob(k) \in Seq(Byte)
          /\ At(k) = At(k - 1) + Len(Short(Blob(k)))
      BY <1>9, <1>10
    <3>3. Len(Short(Blob(k))) \in Nat
      <4>1. Short(Blob(k)) \in Seq(Byte)
        BY <1>1, <3>2, ShortIs
      <4> QED
        BY <4>1
    <3>4. At(k) \in Nat /\ At(k - 1) \in Nat
      BY <2>1, <2>3
    <3> DEFINE m == Len(Short(Blob(k)))
    <3>5. m \in Nat /\ At(k) = At(k - 1) + m /\ Len(Short(d.blobs[k])) = m
      BY <3>2, <3>3
    <3> HIDE DEF m
    <3> QED
      BY <1>1, <3>1, <3>4, <3>5
  <2>6. \A k \in 0 .. n : at[k] \in Nat
    <3> DEFINE N == {k \in 0 .. n : at[k] \in Nat}
    <3>1. 0 \in N
      BY <1>2, <2>4
    <3>2. ASSUME NEW k \in 1 .. n, k - 1 \in N
          PROVE  k \in N
      <4>1. at[k - 1] \in Nat
        BY <3>2
      <4> HIDE DEF at
      <4> QED
        BY <2>3, <2>5, <4>1
    <3>3. \A k \in 0 .. n : k \in N
      <4> HIDE DEF N
      <4> QED
        BY <1>2, <3>1, <3>2, Induction
    <3> QED
      BY <3>3
  <2>7. at \in [0 .. n -> Nat]
    BY <2>6
  <2> HIDE DEF at
  <2> QED
    BY <2>4, <2>5, <2>7 DEF Offsets
<1>12. n = Len(Start(d.blobs, U16Max))
  <2>1. Len(Start(d.blobs, U16Max)) = IF Len(d.blobs) < U16Max THEN Len(d.blobs) ELSE U16Max
    BY <1>1, <1>10, StartIs
  <2> QED
    BY <1>1, <1>2, <1>10, <2>1
<1>13. \A k \in 1 .. n : Lies(Short(d.blobs[k]), buf, base + at[k - 1])
  <2> TAKE k \in 1 .. n
  <2>1. base + at[k - 1] = At(k - 1) /\ d.blobs[k] = Blob(k) /\ Lies(Short(Blob(k)), buf, At(k - 1))
    BY <1>9, <1>10, <1>11
  <2> HIDE DEF at, At, Blob
  <2> QED
    BY <2>1
<1> HIDE DEF at
<1>14. /\ Payload(d) \in Seq(Byte)
       /\ Lies(Payload(d), buf, HEADER_LEN) <=>
            /\ Lies(Put(n, W16), buf, HEADER_LEN) /\ HEADER_LEN + W16 <= Len(buf)
            /\ \A k \in 1 .. n : Lies(Short(d.blobs[k]), buf, HEADER_LEN + W16 + at[k - 1])
  <2>1. Offsets(at, d.blobs, n)
    BY <1>11
  <2> QED
    BY <1>1, <1>8, <1>10, <1>12, <2>1, RoutesPayload
<1> QED
  BY <1>1, <1>2, <1>8, <1>13, <1>14 DEF There, base

LEMMA DecodedIsThereHolds ==
  ASSUME WireInv
  PROVE  DecodedIsThere
<1> DEFINE d == Decode(wire)
<1> SUFFICES ASSUME d # NoPacket, ~ Rewritten(d) PROVE IsPrefix(Encode(d, 0), wire)
  BY DEF DecodedIsThere
<1>1. wire \in Seq(Byte)
  BY DEF WireInv
<1>2. PICK kind \in KindNames :
        /\ Headed(kind, wire) /\ Len(wire) >= MinLen[kind] /\ Whole(kind, wire)
        /\ d = Read(kind, wire)
  BY <1>1, DecodeThere
<1> HIDE DEF d
<1>3. d.kind = kind /\ There(d, wire)
  <2>1. CASE kind = "Hello"
    BY <1>1, <1>2, <2>1, HelloThere
  <2>2. CASE kind = "Probe"
    BY <1>1, <1>2, <2>2, ProbeThere
  <2>3. CASE kind = "Echo"
    BY <1>1, <1>2, <2>3, EchoThere
  <2>4. CASE kind = "Manifest"
    BY <1>1, <1>2, <2>4, ManifestThere
  <2>5. CASE kind = "ManifestOk"
    BY <1>1, <1>2, <2>5, ManifestOkThere
  <2>6. CASE kind = "Chunk"
    BY <1>1, <1>2, <2>6, ChunkThere
  <2>7. CASE kind = "Status"
    BY <1>1, <1>2, <2>7, StatusThere
  <2>8. CASE kind = "StatusReply"
    BY <1>1, <1>2, <2>8, ReplyThere
  <2>9. CASE kind = "Routes"
    BY <1>1, <1>2, <2>9, RoutesThere
  <2>10. CASE kind = "Social"
    BY <1>1, <1>2, <2>10, SocialThere
  <2> QED
    BY <2>1, <2>2, <2>3, <2>4, <2>5, <2>6, <2>7, <2>8, <2>9, <2>10 DEF KindNames
<1>4. 0 \in Nat
  OBVIOUS
<1> QED
  BY <1>1, <1>2, <1>3, <1>4, EncodeIs DEF There

\* Whatever the bytes, changed ones included, and whatever lengths they claim: a
\* packet is decoded from bytes that are there, and encoded again it is how they
\* begin, but for the three things decode does not keep as they came (Rewritten).
THEOREM DecodedIsThereTheorem == Spec => []DecodedIsThere
<1>1. WireInv => DecodedIsThere
  BY DecodedIsThereHolds
<1> QED
  BY <1>1, WireInvariant, PTL

=============================================================================
