---------------------------- MODULE ProbingProofs ----------------------------
(***************************************************************************)
(* Proofs about Probing, for any number of probes, duplicates,             *)
(* return routes and permits.                                              *)
(***************************************************************************)
EXTENDS Probing, FiniteSetTheorems, TLAPS

-----------------------------------------------------------------------------
(* Tallies.                                                                *)

LEMMA EmptySound == Sound(NoArrivals)
<1>1. Cardinality({}) = 0 /\ IsFiniteSet({})
  BY FS_EmptySet
<1> QED
  BY <1>1 DEF Sound, NoArrivals, Tallies, Balanced, Bounded, Unique

\* One more message keeps a tally sound, whether new, repeated or out of order.
LEMMA RecordSound ==
  ASSUME NEW a, Sound(a), NEW s \in Nat
  PROVE  Sound(Record(a, s)) /\ Record(a, s).seen = a.seen \cup {s}
<1> USE DEF Sound, Tallies
<1>1. CASE s \in a.seen
  <2>1. Record(a, s) = [a EXCEPT !.received = @ + 1, !.duplicates = @ + 1]
    BY <1>1 DEF Record, IsNew
  <2>2. /\ Record(a, s).seen = a.seen /\ Record(a, s) \in Tallies
        /\ Record(a, s).received = a.received + 1
        /\ Record(a, s).duplicates = a.duplicates + 1
    <3>1. a.received + 1 \in Nat /\ a.duplicates + 1 \in Nat
      OBVIOUS
    <3> QED
      BY <2>1, <3>1
  <2>3. Balanced(Record(a, s))
    <3>1. Unique(a) \in Nat /\ Unique(Record(a, s)) = Unique(a)
      BY <2>2, FS_CardinalityType DEF Unique
    <3>2. a.received = Unique(a) + a.duplicates /\ a.duplicates \in Nat
      BY DEF Balanced
    <3> QED
      BY <2>2, <3>1, <3>2 DEF Balanced
  <2>4. Bounded(Record(a, s))
    BY <2>1 DEF Bounded
  <2> QED
    BY <1>1, <2>2, <2>3, <2>4
<1>2. CASE s \notin a.seen
  <2> DEFINE b == Record(a, s)
  <2>1. /\ b.seen = a.seen \cup {s}
        /\ b.received = a.received + 1
        /\ b.duplicates = a.duplicates
        /\ b.lowest = Lowest(a, s)
        /\ b.highest = Highest(a, s)
    BY <1>2 DEF Record, IsNew
  <2>2. b \in Tallies
    <3>1. /\ Lowest(a, s) \in Nat \cup {Never} /\ Highest(a, s) \in Nat \cup {Never}
          /\ a.received + 1 \in Nat /\ a.reordered + 1 \in Nat
          /\ a.seen \cup {s} \in SUBSET Nat
      BY DEF Lowest, Highest
    <3> QED
      BY <1>2, <3>1 DEF Record, IsNew
  <2>3. IsFiniteSet(b.seen) /\ Cardinality(b.seen) = Cardinality(a.seen) + 1
    BY <1>2, <2>1, FS_AddElement
  <2>4. Balanced(b)
    <3>1. Unique(a) \in Nat /\ Unique(b) = Unique(a) + 1
      BY <2>3, FS_CardinalityType DEF Unique
    <3>2. a.received = Unique(a) + a.duplicates /\ a.duplicates \in Nat
      BY DEF Balanced
    <3> QED
      BY <2>1, <3>1, <3>2 DEF Balanced
  <2>5. Bounded(b)
    <3>1. CASE a.seen = {}
      BY <2>1, <3>1 DEF Bounded, Lowest, Highest
    <3>2. CASE a.seen # {}
      <4>1. a.lowest \in Nat /\ a.highest \in Nat /\ a.lowest # Never /\ a.highest # Never
        BY <3>2, NeverAssumption DEF Bounded
      <4> QED
        BY <2>1, <3>2, <4>1 DEF Bounded, Lowest, Highest
    <3> QED
      BY <3>1, <3>2
  <2> QED
    BY <2>1, <2>2, <2>3, <2>4, <2>5
<1> QED
  BY <1>1, <1>2

LEMMA RestOfRange ==
  ASSUME NEW lo \in Nat, NEW hi \in Nat, lo <= hi, NEW S \in SUBSET (lo .. hi),
         NEW G, G = {s \in lo .. hi : s \notin S}
  PROVE  /\ Cardinality(G) = hi - lo + 1 - Cardinality(S)
         /\ Cardinality(S) \in Nat /\ Cardinality(S) <= hi - lo + 1
<1> DEFINE I == lo .. hi
<1>1. IsFiniteSet(I) /\ Cardinality(I) = hi - lo + 1
  BY FS_Interval
<1>2. I \cap S = S /\ I \ S = G /\ S \subseteq I
  OBVIOUS
<1> HIDE DEF I
<1>3. Cardinality(I \ S) = Cardinality(I) - Cardinality(I \cap S)
  BY <1>1, FS_Difference
<1>4. Cardinality(G) = Cardinality(I) - Cardinality(S)
  BY <1>2, <1>3, Zenon
<1>5. IsFiniteSet(S) /\ Cardinality(S) <= Cardinality(I)
  BY <1>1, <1>2, FS_Subset
<1>6. Cardinality(S) \in Nat
  BY <1>5, FS_CardinalityType
<1> QED
  BY <1>1, <1>4, <1>5, <1>6

\* A sound tally's inferred loss is its number of gaps.
LEMMA GapsCounted ==
  ASSUME NEW a, Sound(a)
  PROVE  LossIsGaps(a)
<1> SUFFICES ASSUME a.seen # {} PROVE InferredLoss(a) = Cardinality(Gaps(a))
  BY DEF LossIsGaps
<1>1. /\ a.lowest \in Nat /\ a.highest \in Nat /\ a.lowest <= a.highest
      /\ a.seen \in SUBSET (a.lowest .. a.highest)
      /\ a.lowest # Never /\ a.highest # Never
  BY NeverAssumption DEF Sound, Tallies, Bounded
<1>2. Gaps(a) = {s \in a.lowest .. a.highest : s \notin a.seen}
  BY DEF Gaps
<1>3. /\ Cardinality(Gaps(a)) = a.highest - a.lowest + 1 - Cardinality(a.seen)
      /\ Cardinality(a.seen) \in Nat
      /\ Cardinality(a.seen) <= a.highest - a.lowest + 1
  BY <1>1, <1>2, RestOfRange
<1>4. Unique(a) = Cardinality(a.seen) /\ Span(a) = a.highest - a.lowest + 1
  BY DEF Unique, Span
<1> HIDE DEF Unique, Span
<1>5. /\ Cardinality(Gaps(a)) = Span(a) - Unique(a)
      /\ Unique(a) \in Nat /\ Unique(a) <= Span(a) /\ Span(a) \in Int
  BY <1>1, <1>3, <1>4
<1>6. ~ Span(a) < Unique(a)
  BY <1>5
<1>7. InferredLoss(a) = Span(a) - Unique(a)
  BY <1>1, <1>6 DEF InferredLoss
<1> QED
  BY <1>5, <1>7

-----------------------------------------------------------------------------
(* Messages and their sends.                                               *)

LEMMA LeavesGrows ==
  ASSUME NEW m, Leaves(m) \/ UNCHANGED net
  PROVE  net \subseteq net' /\ net' \subseteq net \cup {m}
BY DEF Leaves

LEMMA ArrivesShrinks ==
  ASSUME NEW m, Arrives(m)
  PROVE  m \in net /\ net' \subseteq net /\ net \subseteq net' \cup {m}
BY DEF Arrives

\* The tasks whose probe has left, and those whose has not, are all of them.
LEMMA AwayCounted ==
  ASSUME Shapes
  PROVE  /\ IsFiniteSet(away) /\ Cardinality(away) \in Nat
         /\ Cardinality(sending) \in Nat
         /\ Cardinality(sending \ away) = Cardinality(sending) - Cardinality(away)
<1>1. IsFiniteSet(sending) /\ away \subseteq sending /\ sending \cap away = away
  BY DEF Shapes
<1>2. IsFiniteSet(away)
  BY <1>1, FS_Subset
<1>3. Cardinality(sending \ away) = Cardinality(sending) - Cardinality(sending \cap away)
  BY <1>1, FS_Difference
<1> QED
  BY <1>1, <1>2, <1>3, FS_CardinalityType

LEMMA DepartedBounded ==
  ASSUME Shapes, Causes
  PROVE  /\ Departed \subseteq 0 .. seq - 1
         /\ IsFiniteSet(Departed) /\ Cardinality(Departed) \in Nat
         /\ \A D \in SUBSET Departed :
              Cardinality(D) \in Nat /\ Cardinality(D) <= Cardinality(Departed)
<1>1. Departed \subseteq 0 .. seq - 1
  BY DEF Causes, Departed, Left
<1>2. 0 \in Int /\ seq - 1 \in Int
  BY DEF Shapes
<1>3. IsFiniteSet(0 .. seq - 1)
  BY <1>2, FS_Interval
<1>4. IsFiniteSet(Departed)
  BY <1>1, <1>3, FS_Subset
<1>5. \A D \in SUBSET Departed : IsFiniteSet(D) /\ Cardinality(D) <= Cardinality(Departed)
  BY <1>4, FS_Subset
<1> QED
  BY <1>1, <1>4, <1>5, FS_CardinalityType

-----------------------------------------------------------------------------
(* The invariant, step by step.                                            *)

LEMMA InitInv == Init => ProbingInv
<1> SUFFICES ASSUME Init PROVE ProbingInv
  OBVIOUS
<1>1. IsFiniteSet({}) /\ Cardinality({}) = 0
  BY FS_EmptySet
<1>2. Shapes
  BY <1>1, ProbingAssumption DEF Init, Shapes, RouteIds, Messages
<1>3. TalliesSound
  BY EmptySound DEF Init, TalliesSound
<1>4. Accounted
  BY <1>1 DEF Init, Accounted
<1>5. Causes
  <2>1. Departed = {}
    BY DEF Departed, Init, NoArrivals
  <2> QED
    BY <1>1, <2>1 DEF Causes, Left, Init, NoArrivals
<1> QED
  BY <1>2, <1>3, <1>4, <1>5 DEF ProbingInv

core == <<my_route, return_route, seq, sending, away, closing, results, run, got,
          heard, net,
          echoing, echo_away>>

LEMMA CoreUnchanged ==
  ASSUME ProbingInv, UNCHANGED core
  PROVE  ProbingInv'
<1>1. Shapes' /\ TalliesSound' /\ Accounted'
  BY DEF ProbingInv, core, Shapes, TalliesSound, Accounted
<1>2. Causes'
  <2>1. Departed' = Departed
    BY DEF core, Departed
  <2> QED
    BY <2>1 DEF ProbingInv, core, Causes, Left
<1> QED
  BY <1>1, <1>2 DEF ProbingInv

\* A Hello on its way changes nothing of what is counted.
LEMMA HelloLeaves ==
  ASSUME ProbingInv, NEW r \in RouteIds, Leaves(Hello(r)) \/ UNCHANGED net,
         my_route' \in RouteIds,
         UNCHANGED <<return_route, seq, sending, away, closing, results, run, got,
                     heard, echoing, echo_away>>
  PROVE  ProbingInv'
<1>1. net \subseteq net' /\ net' \subseteq net \cup {Hello(r)}
  BY LeavesGrows
<1>2. Hello(r) \in Messages /\ Hello(r).kind = "hello"
  BY DEF Hello, Messages
<1>3. Shapes'
  BY <1>1, <1>2 DEF ProbingInv, Shapes
<1>4. TalliesSound' /\ Accounted'
  BY DEF ProbingInv, TalliesSound, Accounted
<1>5. Causes'
  <2>1. \A s : Probe(s) # Hello(r)
    BY <1>2 DEF Probe
  <2>2. Departed' = Departed
    BY <1>1, <2>1 DEF Departed
  <2> QED
    BY <1>1, <1>2, <2>2 DEF ProbingInv, Causes, Left
<1> QED
  BY <1>3, <1>4, <1>5 DEF ProbingInv

LEMMA SendTickKeeps == ProbingInv /\ SendTick => ProbingInv'
<1> SUFFICES ASSUME ProbingInv, SendTick PROVE ProbingInv'
  OBVIOUS
<1> USE DEF ProbingInv
<1>1. /\ seq \in Nat /\ seq' = seq + 1 /\ seq' \in 0 .. MaxProbes
      /\ sending \subseteq 0 .. seq - 1 /\ IsFiniteSet(sending)
      /\ \/ sending' = sending \cup {seq} /\ run' = run
         \/ sending' = sending /\ run' = [run EXCEPT !.send_dropped = @ + 1]
  BY ProbingAssumption DEF SendTick, Shapes
<1>2. seq \notin sending
  BY <1>1
<1>3. /\ IsFiniteSet(sending \cup {seq})
      /\ Cardinality(sending \cup {seq}) = Cardinality(sending) + 1
      /\ Cardinality(sending) \in Nat
  BY <1>1, <1>2, FS_AddElement, FS_CardinalityType
<1>4. run \in [sent : Nat, send_errors : Nat, send_dropped : Nat]
  BY DEF Shapes
<1>5. Shapes'
  <2>1. sending' \subseteq 0 .. seq' - 1 /\ IsFiniteSet(sending') /\ seq' \in 0 .. MaxProbes
    <3>1. seq' - 1 = seq /\ 0 .. seq - 1 \subseteq 0 .. seq /\ seq \in 0 .. seq
      BY <1>1
    <3> QED
      BY <1>1, <1>3, <3>1
  <2>2. run' \in [sent : Nat, send_errors : Nat, send_dropped : Nat]
    BY <1>1, <1>4
  <2> QED
    BY <2>1, <2>2 DEF SendTick, lvars, tasks, Shapes
<1>6. TalliesSound'
  BY DEF SendTick, lvars, tasks, TalliesSound
<1>7. Accounted'
  <2>1. results' = results /\ results \in [ok : Nat, err : Nat]
    BY DEF SendTick, Shapes
  <2>2. seq = run.sent + run.send_errors + run.send_dropped
              + Cardinality(sending) + results.ok + results.err
    BY DEF Accounted
  <2>3. CASE sending' = sending \cup {seq} /\ run' = run
    BY <1>1, <1>3, <1>4, <2>1, <2>2, <2>3 DEF Accounted
  <2>4. CASE sending' = sending /\ run' = [run EXCEPT !.send_dropped = @ + 1]
    <3>1. /\ run'.sent = run.sent /\ run'.send_errors = run.send_errors
          /\ run'.send_dropped = run.send_dropped + 1
      BY <1>4, <2>4
    <3>2. Cardinality(sending') = Cardinality(sending)
      BY <2>4
    <3> QED
      BY <1>1, <1>3, <1>4, <2>1, <2>2, <3>1, <3>2 DEF Accounted
  <2> QED
    BY <1>1, <2>3, <2>4
<1>8. Causes'
  <2>1. UNCHANGED <<net, away, got, heard, echoing, results>> /\ run'.sent = run.sent
    BY <1>1, <1>4 DEF SendTick, lvars, tasks
  <2>2. Left \subseteq Left'
    BY <1>1, <2>1 DEF Left
  <2>3. \A m \in net : m.kind = "probe" => m.seq \in 0 .. seq - 1
    BY DEF Causes, Left
  <2>4. Probe(seq) \notin net
    BY <1>1, <2>3 DEF Probe
  <2>5. Departed' = Departed
    BY <1>1, <2>1, <2>4 DEF Departed
  <2> QED
    BY <2>1, <2>2, <2>5 DEF Causes
<1> QED
  BY <1>5, <1>6, <1>7, <1>8

LEMMA ProbeLeavesKeeps ==
  ASSUME ProbingInv, NEW s \in sending, ProbeLeaves(s)
  PROVE  ProbingInv'
<1> USE DEF ProbingInv
<1>1. /\ UNCHANGED <<my_route, return_route, seq, sending, closing, results, run, got,
                     heard, echoing, echo_away>>
      /\ s \in sending \ away /\ away' = away \cup {s}
      /\ net' = net \cup {Probe(s)}
  BY DEF ProbeLeaves, lvars, Leaves
<1>2. /\ seq \in Nat /\ sending \subseteq 0 .. seq - 1 /\ away \subseteq sending
      /\ run.sent \in Nat /\ results.ok \in Nat
  BY DEF Shapes
<1>3. Probe(s) \in Messages /\ Probe(s).kind = "probe" /\ Probe(s).seq = s
  BY <1>2 DEF Probe, Messages
<1>4. Shapes'
  BY <1>1, <1>3 DEF Shapes
<1>5. TalliesSound' /\ Accounted'
  BY <1>1 DEF TalliesSound, Accounted
<1>6. Left' = Left \cup {s} /\ s \notin Left
  BY <1>1, <1>2 DEF Left
<1>7. s \notin Departed
  <2>1. Probe(s) \notin net
    BY <1>3, <1>6 DEF Causes
  <2> QED
    BY <1>6, <2>1 DEF Causes, Departed
<1>8. Departed' = Departed \cup {s}
  <2>1. \A t : Probe(t) = Probe(s) => t = s
    BY DEF Probe
  <2> QED
    BY <1>1, <1>2, <2>1 DEF Departed
<1>9. Cardinality(Departed') = run'.sent + results'.ok + Cardinality(away')
  <2>1. Cardinality(Departed') = Cardinality(Departed) + 1
    BY <1>7, <1>8, DepartedBounded, FS_AddElement
  <2>2. Cardinality(away') = Cardinality(away) + 1 /\ Cardinality(away) \in Nat
    BY <1>1, AwayCounted, FS_AddElement
  <2>3. Cardinality(Departed) = run.sent + results.ok + Cardinality(away)
    BY DEF Causes
  <2>4. run'.sent = run.sent /\ results'.ok = results.ok
    BY <1>1
  <2> HIDE DEF ProbingInv
  <2> QED
    BY <1>2, <2>1, <2>2, <2>3, <2>4
<1>10. Causes'
  <2>1. \A m \in net' : m \in net \/ m = Probe(s)
    BY <1>1
  <2>2. away' \subseteq Departed'
    BY <1>1, <1>8 DEF Causes
  <2> QED
    BY <1>1, <1>3, <1>6, <1>9, <2>1, <2>2 DEF Causes
<1> QED
  BY <1>4, <1>5, <1>10

LEMMA ProbeReportsKeeps ==
  ASSUME ProbingInv, NEW s \in sending, ProbeReports(s)
  PROVE  ProbingInv'
<1> USE DEF ProbingInv
<1>1. /\ UNCHANGED <<my_route, return_route, seq, run, got, heard, net, echoing, echo_away>>
      /\ sending' = sending \ {s} /\ away' = away \ {s} /\ closing' = closing + 1
      /\ results' = IF s \in away THEN [results EXCEPT !.ok = @ + 1]
                    ELSE [results EXCEPT !.err = @ + 1]
  BY DEF ProbeReports, lvars
<1>2. /\ seq \in Nat /\ sending \subseteq 0 .. seq - 1 /\ IsFiniteSet(sending)
      /\ away \subseteq sending /\ closing \in Nat
      /\ run \in [sent : Nat, send_errors : Nat, send_dropped : Nat]
      /\ results \in [ok : Nat, err : Nat]
  BY DEF Shapes
<1>3. /\ IsFiniteSet(sending') /\ Cardinality(sending') = Cardinality(sending) - 1
      /\ Cardinality(sending) \in Nat
  BY <1>1, <1>2, FS_RemoveElement, FS_CardinalityType
<1>4. /\ results' \in [ok : Nat, err : Nat]
      /\ results'.ok + results'.err = results.ok + results.err + 1
  BY <1>1, <1>2
<1>5. Shapes'
  BY <1>1, <1>2, <1>3, <1>4 DEF Shapes
<1>6. TalliesSound'
  BY <1>1 DEF TalliesSound
<1>7. Accounted'
  BY <1>1, <1>2, <1>3, <1>4 DEF Accounted
<1>8. Left \subseteq Left' /\ Departed' = Departed
  BY <1>1 DEF Left, Departed
<1>9. Cardinality(Departed') = run'.sent + results'.ok + Cardinality(away')
  <2>1. Cardinality(Departed) = run.sent + results.ok + Cardinality(away)
    BY DEF Causes
  <2>2. IsFiniteSet(away) /\ Cardinality(away) \in Nat
    BY AwayCounted
  <2>3. CASE s \in away
    <3>1. Cardinality(away') = Cardinality(away) - 1
      BY <1>1, <2>2, <2>3, FS_RemoveElement
    <3>2. results'.ok = results.ok + 1
      BY <1>1, <1>2, <2>3
    <3> HIDE DEF ProbingInv
    <3> QED
      BY <1>1, <1>2, <1>8, <2>1, <2>2, <3>1, <3>2
  <2>4. CASE s \notin away
    <3>1. away' = away /\ results'.ok = results.ok
      BY <1>1, <1>2, <2>4
    <3> QED
      BY <1>1, <1>8, <2>1, <3>1
  <2> QED
    BY <2>3, <2>4
<1>10. Causes'
  BY <1>1, <1>8, <1>9 DEF Causes
<1> QED
  BY <1>5, <1>6, <1>7, <1>10

\* The permit of a task that has reported changes none of what is counted.
LEMMA PermitReleasedKeeps == ProbingInv /\ PermitReleased => ProbingInv'
<1> SUFFICES ASSUME ProbingInv, PermitReleased PROVE ProbingInv'
  OBVIOUS
<1> USE DEF ProbingInv
<1>1. /\ UNCHANGED <<my_route, return_route, seq, sending, away, results, run, got,
                     heard, net, echoing, echo_away>>
      /\ closing > 0 /\ closing' = closing - 1
  BY DEF PermitReleased, lvars
<1>2. Shapes'
  BY <1>1 DEF Shapes
<1>3. TalliesSound' /\ Accounted'
  BY <1>1 DEF TalliesSound, Accounted
<1>4. Causes'
  <2>1. Departed' = Departed
    BY <1>1 DEF Departed
  <2> QED
    BY <1>1, <2>1 DEF Causes, Left
<1> QED
  BY <1>2, <1>3, <1>4

LEMMA CountResultKeeps == ProbingInv /\ CountResult => ProbingInv'
<1> SUFFICES ASSUME ProbingInv, CountResult PROVE ProbingInv'
  OBVIOUS
<1> USE DEF ProbingInv
<1>1. /\ UNCHANGED <<my_route, return_route, seq, sending, away, closing, got, heard,
                     net, echoing, echo_away>>
      /\ \/ /\ results.ok > 0
            /\ results' = [results EXCEPT !.ok = @ - 1]
            /\ run' = [run EXCEPT !.sent = @ + 1]
         \/ /\ results.err > 0
            /\ results' = [results EXCEPT !.err = @ - 1]
            /\ run' = [run EXCEPT !.send_errors = @ + 1]
  BY DEF CountResult, lvars, tasks
<1>2. /\ run \in [sent : Nat, send_errors : Nat, send_dropped : Nat]
      /\ results \in [ok : Nat, err : Nat]
      /\ IsFiniteSet(sending)
  BY DEF Shapes
<1>3. /\ results' \in [ok : Nat, err : Nat]
      /\ run' \in [sent : Nat, send_errors : Nat, send_dropped : Nat]
      /\ run'.send_dropped = run.send_dropped
      /\ run'.sent + results'.ok = run.sent + results.ok
      /\ run'.send_errors + results'.err = run.send_errors + results.err
  BY <1>1, <1>2
<1>4. Cardinality(sending) \in Nat
  BY <1>2, FS_CardinalityType
<1>5. Shapes'
  BY <1>1, <1>3 DEF Shapes
<1>6. TalliesSound'
  BY <1>1 DEF TalliesSound
<1>7. Accounted'
  BY <1>1, <1>2, <1>3, <1>4 DEF Accounted
<1>8. Causes'
  <2>1. Departed' = Departed
    BY <1>1 DEF Departed
  <2> QED
    BY <1>1, <1>2, <1>3, <2>1, AwayCounted DEF Causes, Left
<1> QED
  BY <1>5, <1>6, <1>7, <1>8

\* The parts of a step at the listener, or of an echo, that leaves the prober's
\* counters alone: nothing more departs.
LEMMA CountersUnchanged ==
  ASSUME ProbingInv, UNCHANGED <<seq, sending, away, results, run>>
  PROVE  /\ Accounted'
         /\ Left' = Left
         /\ Departed' = Departed =>
              /\ away' \subseteq Departed'
              /\ Cardinality(Departed') = run'.sent + results'.ok + Cardinality(away')
BY DEF ProbingInv, Accounted, Causes, Left

LEMMA RecvEchoKeeps ==
  ASSUME ProbingInv, NEW m \in net, RecvEcho(m)
  PROVE  ProbingInv'
<1> USE DEF ProbingInv
<1>1. /\ UNCHANGED <<my_route, return_route, seq, sending, away, closing, results, run,
                     heard, echoing, echo_away>>
      /\ m.kind = "echo" /\ got' = Record(got, m.seq)
      /\ net' \subseteq net /\ net \subseteq net' \cup {m}
  BY ArrivesShrinks DEF RecvEcho, lvars, tasks
<1>2. m.seq \in Nat /\ m.seq \in heard.seen
  BY <1>1 DEF Shapes, Causes, Messages
<1>3. Sound(got') /\ got'.seen = got.seen \cup {m.seq}
  BY <1>1, <1>2, RecordSound DEF TalliesSound
<1>4. Shapes'
  BY <1>1 DEF Shapes
<1>5. TalliesSound'
  BY <1>1, <1>3 DEF TalliesSound
<1>6. Departed' = Departed
  <2>1. \A s : Probe(s) # m
    BY <1>1 DEF Probe
  <2> QED
    BY <1>1, <2>1 DEF Departed
<1>7. /\ Accounted' /\ Left' = Left /\ away' \subseteq Departed'
      /\ Cardinality(Departed') = run'.sent + results'.ok + Cardinality(away')
  BY <1>1, <1>6, CountersUnchanged
<1>8. Causes'
  BY <1>1, <1>2, <1>3, <1>7 DEF Causes
<1> QED
  BY <1>4, <1>5, <1>7, <1>8

LEMMA HearHelloKeeps ==
  ASSUME ProbingInv, NEW m \in net, HearHello(m)
  PROVE  ProbingInv'
<1> USE DEF ProbingInv
<1>1. /\ UNCHANGED <<my_route, seq, sending, away, closing, results, run, got, heard,
                     echoing, echo_away>>
      /\ m.kind = "hello" /\ return_route' = m.route
      /\ net' \subseteq net /\ net \subseteq net' \cup {m}
  BY ArrivesShrinks DEF HearHello, pvars, tasks
<1>2. m.route \in RouteIds
  BY <1>1 DEF Shapes, Messages
<1>3. Shapes'
  BY <1>1, <1>2 DEF Shapes
<1>4. TalliesSound'
  BY <1>1 DEF TalliesSound
<1>5. Departed' = Departed
  <2>1. \A s : Probe(s) # m
    BY <1>1 DEF Probe
  <2> QED
    BY <1>1, <2>1 DEF Departed
<1>6. /\ Accounted' /\ Left' = Left /\ away' \subseteq Departed'
      /\ Cardinality(Departed') = run'.sent + results'.ok + Cardinality(away')
  BY <1>1, <1>5, CountersUnchanged
<1>7. Causes'
  BY <1>1, <1>6 DEF Causes
<1> QED
  BY <1>3, <1>4, <1>6, <1>7

LEMMA HearProbeKeeps ==
  ASSUME ProbingInv, NEW m \in net, HearProbe(m)
  PROVE  ProbingInv'
<1> USE DEF ProbingInv
<1>1. /\ UNCHANGED <<my_route, return_route, seq, sending, away, closing, results, run, got,
                     echo_away>>
      /\ m.kind = "probe" /\ heard' = Record(heard, m.seq)
      /\ echoing' = IF MayEcho THEN echoing \cup {EchoOf(m)} ELSE echoing
      /\ net' \subseteq net /\ net \subseteq net' \cup {m}
  BY ArrivesShrinks DEF HearProbe, pvars, tasks
<1>2. m = Probe(m.seq) /\ m.seq \in Nat
  BY <1>1 DEF Shapes, Messages, Probe
<1>3. m.seq \in Left /\ m.seq \in 0 .. seq - 1
  BY <1>1 DEF Causes, Left
<1>4. Sound(heard') /\ heard'.seen = heard.seen \cup {m.seq}
  BY <1>1, <1>2, RecordSound DEF TalliesSound
<1>5. MayEcho =>
        /\ EchoOf(m) \in [kind : {"echo"}, seq : Nat, route : RouteIds, at : Nat]
        /\ EchoOf(m).seq = m.seq
  <2>1. Record(heard, m.seq).duplicates \in Nat
    BY <1>1, <1>4 DEF Sound, Tallies
  <2> QED
    BY <1>2, <2>1 DEF MayEcho, EchoOf, Echo, Shapes
<1>6. /\ echoing' \subseteq [kind : {"echo"}, seq : Nat, route : RouteIds, at : Nat]
      /\ \A e \in echoing' : e \in echoing \/ e.seq = m.seq
      /\ echoing \subseteq echoing'
  BY <1>1, <1>5 DEF Shapes
<1>7. Shapes'
  BY <1>1, <1>6 DEF Shapes
<1>8. TalliesSound'
  BY <1>1, <1>4 DEF TalliesSound
<1>9. Departed' = Departed
  <2>1. \A s : Probe(s) = m => s = m.seq
    BY DEF Probe
  <2> QED
    BY <1>1, <1>2, <1>3, <1>4, <2>1 DEF Departed
<1>10. /\ Accounted' /\ Left' = Left /\ away' \subseteq Departed'
      /\ Cardinality(Departed') = run'.sent + results'.ok + Cardinality(away')
  BY <1>1, <1>9, CountersUnchanged
<1>11. Causes'
  <2>1. \A e \in net' \cup echoing' : e.kind = "echo" => e.seq \in heard'.seen
    BY <1>1, <1>4, <1>6 DEF Causes
  <2> QED
    BY <1>1, <1>3, <1>4, <1>10, <2>1 DEF Causes
<1> QED
  BY <1>7, <1>8, <1>10, <1>11

LEMMA EchoLeavesKeeps ==
  ASSUME ProbingInv, NEW m \in echoing, EchoLeaves(m)
  PROVE  ProbingInv'
<1> USE DEF ProbingInv
<1>1. /\ UNCHANGED <<my_route, return_route, seq, sending, away, closing, results, run,
                     got, heard>>
      /\ echoing' = echoing /\ echo_away' \subseteq echoing
      /\ Leaves(m)
  BY DEF EchoLeaves, pvars, tasks, Shapes
<1>2. m.kind = "echo" /\ m.seq \in heard.seen /\ m \in Messages
  BY DEF Shapes, Causes, Messages
<1>3. net \subseteq net' /\ net' \subseteq net \cup {m}
  BY <1>1, LeavesGrows
<1>4. Shapes'
  BY <1>1, <1>2, <1>3 DEF Shapes
<1>5. TalliesSound'
  BY <1>1 DEF TalliesSound
<1>6. Departed' = Departed
  <2>1. \A s : Probe(s) # m
    BY <1>2 DEF Probe
  <2> QED
    BY <1>1, <1>3, <2>1 DEF Departed
<1>7. /\ Accounted' /\ Left' = Left /\ away' \subseteq Departed'
      /\ Cardinality(Departed') = run'.sent + results'.ok + Cardinality(away')
  BY <1>1, <1>6, CountersUnchanged
<1>8. Causes'
  BY <1>1, <1>2, <1>3, <1>7 DEF Causes
<1> QED
  BY <1>4, <1>5, <1>7, <1>8

LEMMA EchoEndsKeeps ==
  ASSUME ProbingInv, NEW m \in echoing, EchoEnds(m)
  PROVE  ProbingInv'
<1> USE DEF ProbingInv
<1>1. /\ UNCHANGED <<my_route, return_route, seq, sending, away, closing, results, run,
                     got, heard,
                     net>>
      /\ echoing' = echoing \ {m} /\ echo_away' = echo_away \ {m}
  BY DEF EchoEnds, pvars, tasks
<1>2. Shapes'
  BY <1>1 DEF Shapes
<1>3. TalliesSound'
  BY <1>1 DEF TalliesSound
<1>4. Departed' = Departed
  BY <1>1 DEF Departed
<1>5. /\ Accounted' /\ Left' = Left /\ away' \subseteq Departed'
      /\ Cardinality(Departed') = run'.sent + results'.ok + Cardinality(away')
  BY <1>1, <1>4, CountersUnchanged
<1>6. Causes'
  BY <1>1, <1>5 DEF Causes
<1> QED
  BY <1>2, <1>3, <1>5, <1>6

LEMMA RebuildKeeps == ProbingInv /\ (SayHello \/ Rebuild) => ProbingInv'
<1>1. ASSUME ProbingInv, SayHello PROVE ProbingInv'
  <2>1. my_route \in RouteIds
    BY <1>1 DEF ProbingInv, Shapes
  <2>2. /\ Leaves(Hello(my_route)) \/ UNCHANGED net
        /\ UNCHANGED <<my_route, return_route, seq, sending, away, closing, results,
                       run, got, heard, echoing, echo_away>>
    BY <1>1 DEF SayHello, lvars, tasks
  <2> QED
    BY <1>1, <2>1, <2>2, HelloLeaves
<1>2. ASSUME ProbingInv, Rebuild PROVE ProbingInv'
  <2>1. UNCHANGED <<return_route, seq, sending, away, closing, results, run, got,
                    heard, echoing, echo_away>>
    BY <1>2 DEF Rebuild, lvars, tasks
  <2>2. CASE UNCHANGED <<my_route, net>>
    BY <1>2, <2>1, <2>2, CoreUnchanged DEF core
  <2>3. CASE /\ my_route < MaxRoutes /\ my_route' = my_route + 1
             /\ Leaves(Hello(my_route + 1)) \/ UNCHANGED net
    <3>1. my_route + 1 \in RouteIds
      BY <1>2, <2>3, ProbingAssumption DEF ProbingInv, Shapes, RouteIds
    <3> QED
      BY <1>2, <2>1, <2>3, <3>1, HelloLeaves
  <2> QED
    BY <1>2, <2>2, <2>3 DEF Rebuild
<1> QED
  BY <1>1, <1>2

LEMMA NextKeeps == ProbingInv /\ [Next]_vars => ProbingInv'
<1> SUFFICES ASSUME ProbingInv, [Next]_vars PROVE ProbingInv'
  OBVIOUS
<1>1. CASE Prober
  <2>1. CASE SayHello \/ Rebuild
    BY <2>1, RebuildKeeps
  <2>2. CASE SendTick
    BY <2>2, SendTickKeeps
  <2>3. CASE CountResult
    BY <2>3, CountResultKeeps
  <2>4. CASE StopProbing \/ Report
    <3>1. UNCHANGED core
      BY <2>4 DEF StopProbing, Report, core, lvars, tasks
    <3> QED
      BY <3>1, CoreUnchanged
  <2>5. CASE \E s \in sending : ProbeLeaves(s) \/ ProbeReports(s)
    BY <2>5, ProbeLeavesKeeps, ProbeReportsKeeps
  <2>7. CASE PermitReleased
    BY <2>7, PermitReleasedKeeps
  <2>6. CASE \E m \in net : RecvEcho(m)
    BY <2>6, RecvEchoKeeps
  <2> QED
    BY <1>1, <2>1, <2>2, <2>3, <2>4, <2>5, <2>6, <2>7 DEF Prober
<1>2. CASE Listener
  <2>1. CASE \E m \in net : HearHello(m)
    BY <2>1, HearHelloKeeps
  <2>2. CASE \E m \in net : HearProbe(m)
    BY <2>2, HearProbeKeeps
  <2>3. CASE \E m \in echoing : EchoLeaves(m) \/ EchoEnds(m)
    BY <2>3, EchoLeavesKeeps, EchoEndsKeeps
  <2>4. CASE StopListening
    <3>1. UNCHANGED core
      BY <2>4 DEF StopListening, core, pvars, tasks
    <3> QED
      BY <3>1, CoreUnchanged
  <2> QED
    BY <1>2, <2>1, <2>2, <2>3, <2>4 DEF Listener
<1>3. CASE ReturnRouteDies \/ Over \/ UNCHANGED vars
  <2>1. UNCHANGED core
    BY <1>3 DEF ReturnRouteDies, Over, core, vars, pvars, lvars, tasks
  <2> QED
    BY <2>1, CoreUnchanged
<1> QED
  BY <1>1, <1>2, <1>3 DEF Next

-----------------------------------------------------------------------------
(* Theorems.                                                               *)

\* The inductive invariant holds of every run of a measurement.
THEOREM ProbingInvariant == Spec => []ProbingInv
<1>1. Init => ProbingInv
  BY InitInv
<1>2. ProbingInv /\ [Next]_vars => ProbingInv'
  BY NextKeeps
<1> QED
  BY <1>1, <1>2, PTL DEF Spec

\* What either end reports received, repeated and out of range adds up, in
\* whatever order and however often its messages arrive.
THEOREM TalliesSoundTheorem == Spec => []TalliesSound
<1>1. ProbingInv => TalliesSound
  BY DEF ProbingInv
<1> QED
  BY <1>1, ProbingInvariant, PTL

\* The loss either end infers is exactly its number of gaps.
THEOREM LossesAreGapsTheorem == Spec => []LossesAreGaps
<1>1. ProbingInv => LossesAreGaps
  BY GapsCounted DEF ProbingInv, TalliesSound, LossesAreGaps
<1> QED
  BY <1>1, ProbingInvariant, PTL

\* Every number the pacing loop used up is sent, refused, dropped or under way.
THEOREM AccountedTheorem == Spec => []Accounted
<1>1. ProbingInv => Accounted
  BY DEF ProbingInv
<1> QED
  BY <1>1, ProbingInvariant, PTL

\* Delivery is never over-reported: echoes come of probes heard, those of probes
\* that left, and no more were heard than the prober counts as sent or will once
\* the tasks that await app_message resume.
THEOREM EchoedWasSentTheorem == Spec => []EchoedWasSent
<1>1. ProbingInv => EchoedWasSent
  <2> SUFFICES ASSUME ProbingInv PROVE EchoedWasSent
    OBVIOUS
  <2>1. heard.seen \in SUBSET Departed
    BY DEF Departed
  <2>2. /\ Cardinality(heard.seen) \in Nat /\ Cardinality(Departed) \in Nat
        /\ Cardinality(heard.seen) <= Cardinality(Departed)
    BY <2>1, DepartedBounded DEF ProbingInv
  <2>3. Cardinality(Departed) = run.sent + results.ok + Cardinality(away)
    BY DEF ProbingInv, Causes
  <2>4. Unique(heard) <= run.sent + results.ok + Cardinality(away)
    BY <2>2, <2>3 DEF Unique
  <2> QED
    BY <2>4 DEF ProbingInv, Causes, EchoedWasSent
<1> QED
  BY <1>1, ProbingInvariant, PTL

\* What the listener infers to be lost is explained: each number is in flight or
\* lost on the way, yet to leave its task, or never left the prober.
THEOREM InferredIsExplainedTheorem == Spec => []InferredIsExplained
<1>1. ProbingInv => InferredIsExplained
  <2> SUFFICES ASSUME ProbingInv PROVE InferredIsExplained
    OBVIOUS
  <2> DEFINE Gone == {s \in Seqs : Probe(s) \in net}
             Absent == {s \in 0 .. seq - 1 : s \notin Departed}
  <2>1. /\ seq \in Nat /\ seq <= MaxProbes /\ MaxProbes \in Nat
        /\ run \in [sent : Nat, send_errors : Nat, send_dropped : Nat]
        /\ results \in [ok : Nat, err : Nat]
        /\ Cardinality(sending) \in Nat /\ Cardinality(away) \in Nat
        /\ Cardinality(sending \ away) = Cardinality(sending) - Cardinality(away)
    BY ProbingAssumption, AwayCounted DEF ProbingInv, Shapes
  <2>2. /\ IsFiniteSet(Gone) /\ Cardinality(Gone) \in Nat
    <3>1. 0 \in Int /\ MaxProbes - 1 \in Int
      BY <2>1
    <3>2. IsFiniteSet(Seqs)
      BY <3>1, FS_Interval DEF Seqs
    <3>3. Gone \subseteq Seqs
      OBVIOUS
    <3> QED
      BY <3>2, <3>3, FS_Subset, FS_CardinalityType
  <2>3. /\ Cardinality(Absent) = seq - Cardinality(Departed)
        /\ Cardinality(Departed) = run.sent + results.ok + Cardinality(away)
        /\ IsFiniteSet(Absent) /\ Cardinality(Absent) \in Nat
    <3>1. Departed \in SUBSET (0 .. seq - 1)
      BY DepartedBounded DEF ProbingInv
    <3>2. CASE seq = 0
      <4>1. 0 .. seq - 1 = {}
        BY <3>2
      <4>2. Absent = {} /\ Departed = {}
        BY <3>1, <4>1
      <4> QED
        BY <3>2, <4>2, FS_EmptySet DEF ProbingInv, Causes
    <3>3. CASE seq # 0
      <4>1. 0 \in Nat /\ seq - 1 \in Nat /\ 0 <= seq - 1 /\ seq - 1 - 0 + 1 = seq
        BY <2>1, <3>3
      <4>2. Cardinality(Absent) = seq - 1 - 0 + 1 - Cardinality(Departed)
        BY <3>1, <4>1, RestOfRange
      <4>3. IsFiniteSet(0 .. seq - 1) /\ Absent \subseteq 0 .. seq - 1
        BY <4>1, FS_Interval
      <4>4. IsFiniteSet(Absent) /\ Cardinality(Absent) \in Nat
        BY <4>3, FS_Subset, FS_CardinalityType
      <4>5. /\ Cardinality(Departed) = run.sent + results.ok + Cardinality(away)
             /\ Cardinality(Departed) \in Nat
        BY DepartedBounded DEF ProbingInv, Causes
      <4> HIDE DEF Absent
      <4> QED
        BY <2>1, <4>2, <4>4, <4>5
    <3> QED
      BY <3>2, <3>3
  <2>4. Cardinality(Absent) =
          run.send_dropped + run.send_errors + Cardinality(sending \ away) + results.err
    BY <2>1, <2>3 DEF ProbingInv, Accounted
  <2>5. /\ IsFiniteSet(Gone \cup Absent) /\ Cardinality(Gone \cup Absent) \in Nat
        /\ Cardinality(Gone \cup Absent) <= Cardinality(Gone) + Cardinality(Absent)
    <3>1. /\ IsFiniteSet(Gone \cup Absent)
          /\ Cardinality(Gone \cup Absent)
               = Cardinality(Gone) + Cardinality(Absent) - Cardinality(Gone \cap Absent)
      BY <2>2, <2>3, FS_Union
    <3>2. Cardinality(Gone \cap Absent) \in Nat
      BY <2>2, FS_Intersection, FS_CardinalityType
    <3> QED
      BY <2>2, <2>3, <3>1, <3>2, FS_CardinalityType
  <2>6. ASSUME heard.seen # {}
        PROVE  Cardinality(Gaps(heard)) \in Nat
               /\ Cardinality(Gaps(heard)) <= Cardinality(Gone \cup Absent)
    <3>1. /\ heard.highest \in heard.seen /\ heard.lowest \in Nat
          /\ heard.seen \subseteq 0 .. seq - 1
      BY <2>6 DEF Left, ProbingInv, TalliesSound, Sound, Bounded, Tallies, Causes
    <3>2. \A s \in heard.lowest .. heard.highest : s \in 0 .. seq - 1
      BY <2>1, <3>1
    <3>3. \A s \in 0 .. seq - 1 : s \in Seqs
      BY <2>1 DEF Seqs
    <3>4. Gaps(heard) \subseteq Gone \cup Absent
      BY <3>2, <3>3 DEF Gaps, Departed
    <3> QED
      BY <2>5, <3>4, FS_Subset, FS_CardinalityType
  <2>7. InferredLoss(heard) <= Cardinality(Gone) + Cardinality(Absent)
    <3>1. CASE heard.seen = {}
      <4>1. InferredLoss(heard) = 0
        BY <3>1 DEF ProbingInv, TalliesSound, Sound, Bounded, InferredLoss
      <4> QED
        BY <2>2, <2>3, <4>1
    <3>2. CASE heard.seen # {}
      <4>1. InferredLoss(heard) = Cardinality(Gaps(heard))
        BY <3>2, GapsCounted DEF ProbingInv, TalliesSound, LossIsGaps
      <4> QED
        BY <2>2, <2>3, <2>5, <2>6, <3>2, <4>1
    <3> QED
      BY <3>1, <3>2
  <2> HIDE DEF Gone, Absent
  <2>8. InferredLoss(heard) <= Cardinality(Gone) + Cardinality(sending \ away)
          + run.send_dropped + run.send_errors + results.err
    BY <2>1, <2>2, <2>4, <2>7
  <2> QED
    BY <2>8 DEF InferredIsExplained, Gone
<1> QED
  BY <1>1, ProbingInvariant, PTL

=============================================================================
