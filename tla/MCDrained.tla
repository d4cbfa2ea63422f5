----------------------------- MODULE MCDrained ------------------------------
(***************************************************************************)
(* MCTransfer with a history variable, `drained`: no sender has asked      *)
(* again while chunks of its last pass were still in flight.  settle_ms is *)
(* meant to see to that, and what the README says of a pass holds while it *)
(* does.                                                                   *)
(***************************************************************************)
EXTENDS MCTransfer

VARIABLE drained

mcvars == <<vars, drained>>

\* The pause after x's pass ends in this step.
PauseEnds(x) == snd[x].pc = "settle" /\ snd'[x].round > snd[x].round

MCInit == TransferInit /\ drained = TRUE

MCNext ==
  /\ TransferNext
  /\ drained' = (drained /\ \A x \in Xfers : PauseEnds(x) => \A c \in Chunks : flight[x][c] = 0)

MCSpec == MCInit /\ [][MCNext]_mcvars /\ Fairness

\* "Nothing already delivered is sent twice" (README): as long as pauses drain
\* the network and the route lives, a chunk that leaves is one the receiver does
\* not hold.
NothingSentTwice ==
  [][\A x \in Xfers, c \in Chunks :
       (drained /\ snd[x].tries = 1 /\ flight'[x][c] > flight[x][c]) =>
         /\ x \notin completed
         /\ transfers[x] # Absent => c.index \notin transfers[x].have]_mcvars

\* One status answer can name every chunk of the file.  What the first answer to
\* a longer file leaves out is not sent in the first pass, and yet counted as
\* missing after it.
FitsOneAnswer(x) == Count(snd[x].content) <= MaxListed

\* The sender's "first pass lost" is a loss, if the pauses drained the network:
\* no more chunks than the network lost before it was counted.
FirstPassLossIsLoss ==
  \A x \in Xfers :
    (drained /\ FitsOneAnswer(x) /\ snd[x].first_pass_missing # None) =>
      snd[x].first_pass_missing <= lost

\* Repair works: a file that fits, a route that lives, pauses that drain, and
\* fewer messages lost than there are repair passes and attempts at a call, and
\* the file is delivered.
FewLossesAreRepaired ==
  \A x \in Xfers :
    [](/\ drained /\ FitsOneAnswer(x)
       /\ lost < MaxRounds /\ lost < Attempts
       /\ snd[x].tries = 1 /\ snd[x].why # "refused") => <>(snd[x].pc = "done")

=============================================================================
