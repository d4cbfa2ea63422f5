----------------------------- MODULE MCMessages -----------------------------
(***************************************************************************)
(* Messages with a history variable, `calm`: so far no two tasks of the    *)
(* peer have been publishing its profile at once, and no creation and no   *)
(* write has failed.                                                       *)
(***************************************************************************)
EXTENDS Messages

VARIABLE calm

mcvars == <<vars, calm>>

MCInit == Init /\ calm = TRUE

MCNext ==
  /\ Next
  /\ calm' = (/\ calm /\ fails' = fails
              /\ loop'.at = "serve" \/ editor'.at = "idle")

MCSpec == MCInit /\ [][MCNext]_mcvars /\ Fairness

\* As long as it is calm, the peer ends up, however its routes die, with the
\* published list its own, not empty, and every route on it up.
CalmEndsCurrent == []calm => <>[](record = routes /\ record # << >> /\ InUse(record) \subseteq live)

=============================================================================
