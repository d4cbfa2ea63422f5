------------------------------ MODULE Arrivals ------------------------------
(***************************************************************************)
(* Sequence-number bookkeeping, as each end of a measurement does it:      *)
(* what arrived, what did not, what arrived twice or out of order.         *)
(***************************************************************************)
EXTENDS Integers, FiniteSets

CONSTANT Never  \* Option::None: nothing has arrived yet

ASSUME NeverAssumption == Never \notin Nat

Tallies ==
  [seen : SUBSET Nat, lowest : Nat \cup {Never}, highest : Nat \cup {Never},
   received : Nat, duplicates : Nat, reordered : Nat]

NoArrivals ==
  [seen |-> {}, lowest |-> Never, highest |-> Never,
   received |-> 0, duplicates |-> 0, reordered |-> 0]

IsNew(a, seq) == seq \notin a.seen

\* The bounds of what has been seen, with seq.
Lowest(a, seq) == IF a.lowest = Never \/ seq < a.lowest THEN seq ELSE a.lowest

Highest(a, seq) == IF a.highest = Never \/ seq >= a.highest THEN seq ELSE a.highest

\* Mutant: the lowest is the first to arrive.
RecordFirst(a, seq) ==
  IF ~ IsNew(a, seq)
  THEN [a EXCEPT !.received = @ + 1, !.duplicates = @ + 1]
  ELSE [a EXCEPT !.received = @ + 1,
                 !.seen = @ \cup {seq},
                 !.lowest = IF @ = Never THEN seq ELSE @,
                 !.highest = Highest(a, seq)]

Record(a, seq) ==
  IF ~ IsNew(a, seq)
  THEN [a EXCEPT !.received = @ + 1, !.duplicates = @ + 1]
  ELSE [a EXCEPT !.received = @ + 1,
                 !.seen = @ \cup {seq},
                 !.lowest = Lowest(a, seq),
                 !.highest = Highest(a, seq),
                 !.reordered = IF a.highest # Never /\ seq < a.highest THEN @ + 1 ELSE @]

Unique(a) == Cardinality(a.seen)

\* Mutant: the range excludes its last number.
SpanExclusive(a) == a.highest - a.lowest

Span(a) == a.highest - a.lowest + 1

\* The subtraction saturates.
InferredLoss(a) ==
  IF a.lowest = Never \/ a.highest = Never \/ Span(a) < Unique(a) THEN 0
  ELSE Span(a) - Unique(a)

-----------------------------------------------------------------------------
(* Soundness of a tally.                                                   *)

\* The numbers within the range observed that did not arrive.
Gaps(a) == {s \in a.lowest .. a.highest : s \notin a.seen}

\* Every message received is counted once, as new or as a duplicate.
Balanced(a) == a.received = Unique(a) + a.duplicates

\* lowest and highest bound what arrived, tightly.
Bounded(a) ==
  IF a.seen = {} THEN a.lowest = Never /\ a.highest = Never
  ELSE /\ a.lowest \in a.seen /\ a.highest \in a.seen
       /\ \A s \in a.seen : a.lowest <= s /\ s <= a.highest

\* Whatever order the numbers arrive in, the loss inferred is the number of
\* gaps: never more, and the saturating subtraction never hides any.
LossIsGaps(a) == a.seen # {} => InferredLoss(a) = Cardinality(Gaps(a))

=============================================================================
