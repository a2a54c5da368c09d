------------------------- MODULE MCQuicknodeWebhook -------------------------
(* Finite instance of the webhook's two loops: three attempts at a payload of *)
(* two burns, and every batch of up to three logs over two transactions.  A   *)
(* batch shares nothing with the attempts once processEvents is called, so a  *)
(* behaviour follows one of the two and leaves the other where it began.      *)
EXTENDS QuicknodeWebhook, SafeBatch, TLC
CONSTANTS a1, a2, a3, t1, t2
MCAttempt == {a1, a2, a3}
MCTx == {t1, t2}
Symmetry == Permutations(MCAttempt) \cup Permutations(MCTx)

VARIABLE part
MCVars == <<part, vars, batchVars>>

\* Where the part that is not followed stays: one of its initial states.
NoWebhook == Init /\ ~malformed
NoBatch   == BatchInit /\ logs = <<>> /\ timer

MCInit ==
  \/ part = "attempts" /\ Init /\ NoBatch
  \/ part = "batch" /\ BatchInit /\ NoWebhook

MCNext ==
  /\ UNCHANGED part
  /\ \/ part = "attempts" /\ Next /\ UNCHANGED batchVars
     \/ part = "batch" /\ BatchNext /\ UNCHANGED vars

MCSpec == MCInit /\ [][MCNext]_MCVars
=============================================================================
