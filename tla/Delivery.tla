------------------------------ MODULE Delivery ------------------------------
(***************************************************************************)
(* What a file transfer promises, without messages: pieces of each file    *)
(* reach the receiver in any order and stay, a file is stored once and     *)
(* only when all of it is there, and the sender is told "delivered" only   *)
(* of a file the receiver holds.  Transfer implements it for a receiver    *)
(* that keeps running and files that do not change.                        *)
(***************************************************************************)
EXTENDS Naturals

CONSTANT Files

VARIABLES
  need,     \* the pieces each file consists of
  held,     \* the pieces of it the receiver holds
  stored,   \* how many copies of it are on the receiver's disk
  verdict   \* what its sender has reported: nothing yet, delivered, given_up

dvars == <<need, held, stored, verdict>>

Init ==
  /\ held = [f \in Files |-> {}]
  /\ stored = [f \in Files |-> 0]
  /\ verdict = [f \in Files |-> "nothing"]

Land(f) ==
  /\ \E p \in need[f] \ held[f] : held' = [held EXCEPT ![f] = @ \cup {p}]
  /\ UNCHANGED <<need, stored, verdict>>

Keep(f) ==
  /\ held[f] = need[f]
  /\ stored[f] = 0
  /\ stored' = [stored EXCEPT ![f] = 1]
  /\ UNCHANGED <<need, held, verdict>>

Report(f) ==
  /\ verdict[f] = "nothing"
  /\ \/ held[f] = need[f] /\ verdict' = [verdict EXCEPT ![f] = "delivered"]
     \/ verdict' = [verdict EXCEPT ![f] = "given_up"]
  /\ UNCHANGED <<need, held, stored>>

Next == \E f \in Files : Land(f) \/ Keep(f) \/ Report(f)

Spec == Init /\ [][Next]_dvars

=============================================================================
